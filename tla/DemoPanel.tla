-------------------------------- MODULE DemoPanel --------------------------------
(***************************************************************************)
(* The demo's options panel (demo/src/options_view.cc): a settings page    *)
(* built from the inventory alone.  It lists what the active engine        *)
(* implements and steps a value to the one next to it.                     *)
(***************************************************************************)
EXTENDS OptionCatalog

\* collect_options
CollectOptions(engine) ==
  {option \in OptionIds : OptionInfo(Descriptor(option), engine).supported}

\* get_number and set_number: an enum and a set of flags go as numbers.
Kind(row) == IF row.type \in {"bool", "string"} THEN row.type ELSE "int"

\* The steps the panel's keys take: the arrows, the page keys and the toggle.
Steps == {-1, 1, -16, 16, 0}

Direction(step) == IF step >= 0 THEN 1 ELSE -1

\* legal_values and legal_bits: lowest first.
LegalValues(info) ==
  [i \in 1..Cardinality(info.valid) |->
     CHOOSE v \in info.valid : Cardinality({w \in info.valid : w < v}) = i - 1]

IndexIn(list, v) == CHOOSE i \in 1..Len(list) : list[i] = v

\* The position a step away in a list, coming round at either end.
Cycled(list, at, step) == list[((at - 1 + Direction(step)) % Len(list)) + 1]

\* adjust_option for each type of value. What is not among the legal ones counts
\* as the first.
AdjustedBool(v) == 1 - v

\* Mutation: the least value is 0.
AdjustedIntFromZero(info, v, step) ==
  CASE v + step < 0 -> 0 [] v + step > info.max -> info.max [] OTHER -> v + step

AdjustedInt(info, v, step) ==
  CASE v + step < info.min -> info.min
    [] v + step > info.max -> info.max
    [] OTHER -> v + step

AdjustedEnum(info, v, step) ==
  LET list == LegalValues(info)
  IN Cycled(list, IF v \in info.valid THEN IndexIn(list, v) ELSE 1, step)

\* One bit at a time, the one under the panel's own cursor; where that is past
\* the last it counts as the first.
BitAt(info, cursor) ==
  LET list == LegalValues(info)
  IN list[IF cursor < Len(list) THEN cursor + 1 ELSE 1]

AdjustedFlags(info, v, cursor) ==
  LET bit == {BitAt(info, cursor)} IN IF bit \subseteq v THEN v \ bit ELSE v \cup bit

\* Left and Right walk the bits instead.
WalkedBit(info, cursor, step) ==
  LET bits == Cardinality(info.valid)
  IN (cursor + (IF step > 0 THEN 1 ELSE bits - 1)) % bits

\* A string steps through what is enumerated for it, starting at either end.
AdjustedString(row, v, step) ==
  LET list == Enumerates(row)
  IN IF Contains(list, v) THEN Cycled(list, IndexIn(list, v), step)
     ELSE IF step >= 0 THEN Head(list) ELSE Last(list)

\* value_text: what the page shows of a value. Of a set of bits it shows how many
\* there are, and the one under the panel's cursor.
ValueText(row, info, v, cursor) ==
  CASE row.type = "string" -> IF v # "" THEN <<v>>
                              ELSE IF info.count # 0 THEN <<"none", info.count>>
                                   ELSE <<"empty">>
    [] row.type = "bool" -> <<IF v # 0 THEN "true" ELSE "false">>
    [] row.type = "int"  -> <<v>>
    [] row.type = "enum" -> IF ValueName(row, v) # "" THEN <<ValueName(row, v)>>
                            ELSE <<"value", v>>
    [] row.type = "flags" -> <<Cardinality(v), BitAt(info, cursor) \in v,
                               ValueName(row, BitAt(info, cursor))>>
=================================================================================
