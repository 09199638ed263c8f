----------------------------- MODULE OptionCatalog -----------------------------
(***************************************************************************)
(* The option inventory and the questions a client can ask of it           *)
(* (src/options.cc): what each engine implements, which values a setter    *)
(* accepts, and what those values are called.  A client that builds its    *)
(* settings from these answers alone, as the demo does, must never offer   *)
(* what a setter refuses.  A FLAGS value is the set of its bit positions.  *)
(***************************************************************************)
EXTENDS Naturals, Integers, Sequences, SequencesExt, FiniteSets

CONSTANTS
  Installed,  \* the table names found at initialization, in order
  IntMax      \* INT64_MAX: no int option states a maximum

ASSUME CatalogAssumption == Installed \in Seq(STRING) /\ IntMax \in Nat \ 0..64

Anthy       == {"anthy"}
Hangul      == {"hangul"}
Pinyin      == {"pinyin"}
Bopomofo    == {"bopomofo"}
TableEngine == {"table"}
Pyzy       == Pinyin \cup Bopomofo
Chinese    == Pyzy \cup TableEngine
Converting == Anthy \cup Chinese
Engines    == Hangul \cup Converting

\* The descriptor constructors, make_bool to make_string.
Row(name, type, engines, default, valid, resets) ==
  [name |-> name, type |-> type, engines |-> engines, default |-> default,
   min |-> 0, max |-> 0, valid |-> valid, resets |-> resets]

BoolOption(name, engines, default) ==
  Row(name, "bool", engines, IF default THEN 1 ELSE 0, {}, FALSE)
IntOption(name, engines, default, min) ==
  [Row(name, "int", engines, default, {}, FALSE) EXCEPT !.min = min, !.max = IntMax]
EnumOption(name, engines, default, count, resets) ==
  Row(name, "enum", engines, default, 0..(count - 1), resets)
FlagsOption(name, engines, count) ==
  Row(name, "flags", engines, 0..(count - 1), 0..(count - 1), FALSE)
StringOption(name, engines, resets) == Row(name, "string", engines, "", {}, resets)

\* kOptions, in enum order.
Options ==
  <<IntOption("max-candidates", Converting, 64, 1),
    BoolOption("learning", Anthy \cup TableEngine, TRUE),
    EnumOption("latin-width", Converting, 0, 2, FALSE),
    EnumOption("punctuation-width", Converting, 1, 2, FALSE),
    EnumOption("chinese-variant", Chinese, 0, 5, FALSE),
    BoolOption("prediction", Anthy \cup TableEngine, TRUE),
    BoolOption("special-phrases", Pyzy, TRUE),
    BoolOption("incomplete-input", Chinese, TRUE),
    EnumOption("hangul-layout", Hangul, 0, 9, FALSE),
    BoolOption("hangul-auto-reorder", Hangul, FALSE),
    BoolOption("hangul-double-stroke-combine", Hangul, FALSE),
    BoolOption("hangul-non-choseong-combine", Hangul, TRUE),
    EnumOption("hangul-preedit", Hangul, 0, 3, FALSE),
    EnumOption("anthy-typing-method", Anthy, 0, 2, TRUE),
    EnumOption("anthy-kana-script", Anthy, 0, 3, FALSE),
    EnumOption("anthy-period-style", Anthy, 0, 2, FALSE),
    EnumOption("anthy-symbol-style", Anthy, 0, 4, FALSE),
    EnumOption("anthy-on-period", Anthy, 0, 3, FALSE),
    BoolOption("anthy-latin-with-shift", Anthy, TRUE),
    EnumOption("pinyin-scheme", Pinyin, 0, 7, TRUE),
    FlagsOption("pinyin-fuzzy", Pyzy, 20),
    FlagsOption("pinyin-correction", Pinyin, 8),
    EnumOption("bopomofo-layout", Bopomofo, 0, 4, TRUE),
    StringOption("table-file", TableEngine, TRUE),
    BoolOption("table-auto-commit", TableEngine, FALSE),
    BoolOption("table-auto-select", TableEngine, FALSE),
    StringOption("table-single-wildcard", TableEngine, FALSE),
    StringOption("table-multi-wildcard", TableEngine, FALSE),
    BoolOption("table-single-char-only", TableEngine, FALSE),
    EnumOption("table-invalid-input", TableEngine, 0, 2, FALSE),
    BoolOption("table-pinyin-fallback", TableEngine, FALSE)>>

\* kValueNames, by bit position.
ValueNames(name) ==
  CASE name \in {"latin-width", "punctuation-width"} -> <<"half", "full">>
    [] name = "chinese-variant" ->
         <<"simplified-only", "traditional-only", "simplified-first",
           "traditional-first", "any">>
    [] name = "hangul-layout" ->
         <<"2set", "2set-yet", "3set-2", "3set-390", "3set-final", "3set-noshift",
           "3set-yet", "romaja", "ahnmatae">>
    [] name = "hangul-preedit" -> <<"syllable", "word", "none">>
    [] name = "anthy-typing-method" -> <<"romaji", "kana">>
    [] name = "anthy-kana-script" -> <<"hiragana", "katakana", "halfwidth-katakana">>
    [] name = "anthy-period-style" -> <<"kuten", "fullwidth">>
    [] name = "anthy-symbol-style" ->
         <<"corner-slash", "corner-middot", "bracket-slash", "bracket-middot">>
    [] name = "anthy-on-period" -> <<"nothing", "convert", "commit">>
    [] name = "pinyin-scheme" ->
         <<"full", "double-mspy", "double-zrm", "double-abc", "double-zgpy",
           "double-pyjj", "double-xhe">>
    [] name = "bopomofo-layout" -> <<"standard", "ching-yeah", "eten", "ibm">>
    [] name = "pinyin-fuzzy" ->
         <<"c-ch", "ch-c", "z-zh", "zh-z", "s-sh", "sh-s", "l-n", "n-l", "f-h", "h-f",
           "l-r", "r-l", "k-g", "g-k", "an-ang", "ang-an", "en-eng", "eng-en",
           "in-ing", "ing-in">>
    [] name = "pinyin-correction" ->
         <<"gn-ng", "mg-ng", "iou-iu", "uei-ui", "uen-un", "ue-ve", "v-u", "on-ong">>
    [] name = "table-invalid-input" -> <<"commit-candidate", "commit-raw">>
    [] OTHER -> <<>>

-------------------------------------------------------------------------------
(* What a setter accepts.                                                  *)

\* setter_matches: enums and flags go through the int setter.
SetterMatches(setter, type) ==
  \/ type = setter
  \/ setter = "int" /\ type \in {"enum", "flags"}

\* option_supported
Supported(row, engine) == engine \in row.engines

\* option_valid_values: PyZy knows two of the five variants.
ValidValues(row, engine) ==
  IF row.name = "chinese-variant" /\ engine \in Pyzy THEN {0, 1} ELSE row.valid

\* option_check_number
CheckNumber(row, engine, setter, value) ==
  /\ SetterMatches(setter, row.type)
  /\ CASE row.type = "bool"  -> value \in {0, 1}
       [] row.type = "int"   -> row.min <= value /\ value <= row.max
       [] row.type = "enum"  -> value \in ValidValues(row, engine)
       [] row.type = "flags" -> value \subseteq ValidValues(row, engine)
       [] OTHER -> FALSE

\* option_check_string, of a text of so many scalars.
CheckString(row, scalars) ==
  /\ SetterMatches("string", row.type)
  /\ row.name \in {"table-single-wildcard", "table-multi-wildcard"} => scalars <= 1

-------------------------------------------------------------------------------
(* What a client is told.                                                  *)

\* option_string_value_count: only the table file enumerates.
Enumerates(row) == IF row.name = "table-file" THEN Installed ELSE <<>>

\* pathime_option_value_name, at a bit position: "" names nothing. The name of a
\* value does not depend on the engine.
ValueName(row, i) ==
  CASE row.type = "string" ->
         IF i + 1 \in DOMAIN Enumerates(row) THEN Enumerates(row)[i + 1] ELSE ""
    [] row.type \in {"enum", "flags"} ->
         IF i \in row.valid /\ i + 1 \in DOMAIN ValueNames(row.name)
         THEN ValueNames(row.name)[i + 1] ELSE ""
    [] OTHER -> ""

\* pathime_engine_option_info
OptionInfo(row, engine) ==
  [name |-> row.name, type |-> row.type, supported |-> Supported(row, engine),
   min |-> row.min, max |-> row.max, valid |-> ValidValues(row, engine),
   count |-> IF Supported(row, engine) THEN Len(Enumerates(row)) ELSE 0]

-------------------------------------------------------------------------------
(* What a call is answered.  A call says whether the library is started,   *)
(* which engine it reaches, Null for no handle, at which level, and which  *)
(* option; and, of the context, whether its client can delete and whether  *)
(* the table in force carries pinyin data.                                 *)

Null == "null"

\* pathime_option_count and option_descriptor: ids are dense and count from 0.
OptionIds == 0..(Len(Options) - 1)
Descriptor(option) == Options[option + 1]

\* check_engine_call; check_context_call is the same of the context's engine.
CheckEngineCall(call) ==
  IF call.engine = Null \/ call.option \notin OptionIds THEN "invalid argument"
  ELSE IF ~call.started THEN "not initialized"
  ELSE IF ~Supported(Descriptor(call.option), call.engine) THEN "unsupported"
  ELSE "ok"

\* get_number and get_string: `getter` is the kind of value asked for.
Get(call, getter) ==
  IF CheckEngineCall(call) # "ok" THEN CheckEngineCall(call)
  ELSE IF ~SetterMatches(getter, Descriptor(call.option).type) THEN "invalid argument"
  ELSE "ok"

\* check_client_capability, at the context's level alone.
LacksCallback(call, value) ==
  /\ call.level = "context" /\ ~call.deletes
  /\ Descriptor(call.option).name = "hangul-preedit" /\ value = 2

\* The pinyin fallback needs the data of the table that applies.
LacksPinyin(call, value) ==
  /\ ~call.pinyin
  /\ Descriptor(call.option).name = "table-pinyin-fallback" /\ value = 1

\* set_number, up to where the value is stored.
SetNumber(call, setter, value) ==
  IF CheckEngineCall(call) # "ok" THEN CheckEngineCall(call)
  ELSE IF ~CheckNumber(Descriptor(call.option), call.engine, setter, value)
       THEN "invalid argument"
  ELSE IF LacksCallback(call, value) THEN "missing callback"
  ELSE IF LacksPinyin(call, value) THEN "unsupported"
  ELSE "ok"

\* set_string, of a text of so many scalars that names a table or does not
\* (TableEngine::prepare_string).
SetString(call, scalars, found) ==
  IF CheckEngineCall(call) # "ok" THEN CheckEngineCall(call)
  ELSE IF ~CheckString(Descriptor(call.option), scalars) THEN "invalid argument"
  ELSE IF Descriptor(call.option).name = "table-file" /\ ~found THEN "backend"
  ELSE "ok"
================================================================================
