----------------------------- MODULE DemoProperties -----------------------------
(***************************************************************************)
(* What the demo owes its user and the library: a deletion lands on the    *)
(* text it was asked for, the highlight is where the user looks, what was  *)
(* typed arrives, and its settings page offers nothing a setter refuses.   *)
(***************************************************************************)
EXTENDS Demo

CONSTANTS
  BoundaryScalars,  \* around every limit of the encoding, legal or not
  BoundaryBytes,    \* around every limit of a byte's role
  MaxBytes          \* bound: bytes in a text

ASSUME BoundaryAssumption ==
  BoundaryScalars \subseteq Nat /\ BoundaryBytes \subseteq Nat /\ MaxBytes \in Nat

-------------------------------------------------------------------------------
(* Over the document.                                                      *)

\* A deletion takes from the document exactly the text the engine means, whichever
\* engine is active and whatever changed in between; with nothing supplied any
\* more, and one engine in use, it takes that or nothing (on_delete,
\* refresh_surrounding_text).
DeletesWhatWasAsked ==
  [][/\ surrounding # "none" => deletion'.removed = deletion'.asked
     /\ Composition.known = {snapshotText} =>
          deletion'.removed \in {<<>>, deletion'.asked}]_demoVars

HighlightIsShown ==
  active \in Hovering /\ Listing => page = Composition.cursor \div PageSize

Hovers == TurnPage(FALSE) \/ MoveHover(FALSE)
HoversInVain == TurnPage(TRUE) \/ MoveHover(TRUE)

\* The highlighted candidate is one the user can see: after every key offered,
\* wherever the page had been left, and as long as one pages and hovers. The one
\* exception is a page turned under an engine that fails to hover: the highlight is
\* then left behind, where it was, until a key is offered; a failure while only
\* the highlight was to move takes neither away
\* (page_to_cursor, page_forward, move_cursor_to).
HoverIsOnPage ==
  [][/\ TypeCharacter \/ Backspace \/ OtherKey => HighlightIsShown'
     /\ HighlightIsShown /\ (Hovers \/ MoveHover(TRUE)) => HighlightIsShown'
     /\ HoversInVain => Composition'.cursor = Composition.cursor]_demoVars

-------------------------------------------------------------------------------
(* Over every character and every text.                                    *)

\* The library reads a scalar back from the bytes the demo writes for it, and
\* takes for text only what it would have written itself.
EncodingAgrees ==
  /\ \A v \in BoundaryScalars :
       IsScalarValue(v) <=> Decode(Encode(v)) = [ok |-> TRUE, scalars |-> <<v>>]
  /\ \A s \in SeqOf(BoundaryBytes, MaxBytes) :
       Valid(s) =>
         LET text == Decode(s).scalars
         IN /\ FromUcs4(text) = s
            /\ CountScalars(s) = Len(text) /\ ScalarCount(s) = Len(text)
            /\ \A k \in 0..Len(text) :
                 /\ ByteOffset(s, k) = {OffsetOfScalar(s, k)}
                 /\ ScalarIndex(s, OffsetOfScalar(s, k)) = {k}
                 /\ LastScalars(s, k) = FromUcs4(LastOf(text, k))
                 /\ \A count \in 0..(Len(text) - k) :
                      EraseScalars(s, k, count) = FromUcs4(Erased(text, k, count))

Printable == (32..126) \cup {v \in BoundaryScalars : IsScalarValue(v) /\ v >= 160}

\* The character on the key reaches every reader of the event: the text an engine
\* takes it for, the position a layout reads, which is the key with nothing held,
\* and what the demo inserts when it is declined. A named key is no character to
\* any of them.
KeysAgree ==
  /\ \A c \in Printable :
       LET event == ToPathimeKey(c)
       IN /\ event \in KeyEvent /\ Acceptable(event) /\ ~IsChorded(event)
          /\ KeysymToScalar(event.keysym) = c
          /\ KeysymScalar(event.keysym) = {c}
          /\ UsLayoutChar(event) = KeysymToAscii(event.keysym)
          /\ event.layout # 0 => ToPathimeKey(event.layout).held = {}
  /\ \A name \in DOMAIN Named :
       LET event == NamedEvent(name)
       IN /\ Acceptable(event) /\ KeysymScalar(event.keysym) = {}
          /\ KeysymToScalar(event.keysym) = 0 /\ UsLayoutChar(event) = 0

\* Nothing typed is lost or changed between the terminal, the library and the
\* document, and the library takes every document it is told of for text
\* (keymap.cc, keys.cc, text.cc, utf8.cc).
TypedTextArrives ==
  /\ EncodingAgrees /\ KeysAgree
  /\ Decode(FromUcs4(document)) = [ok |-> TRUE, scalars |-> document]

-------------------------------------------------------------------------------
(* Over every option.                                                      *)

\* What a value comes to when one goes on stepping right from it.
Reached(next(_), v, bound) ==
  LET at[i \in 0..bound] == IF i = 0 THEN v ELSE next(at[i - 1])
  IN {at[i] : i \in 0..bound}

EnumStaysLegal(Sent(_), row, info) ==
  LET Right(v) == AdjustedEnum(info, v, 1)
  IN /\ row.default \in info.valid
     /\ \A v \in info.valid :
          /\ Reached(Right, v, Cardinality(info.valid)) = info.valid
          /\ \A step \in Steps : Sent(AdjustedEnum(info, v, step))

FlagsStayLegal(Sent(_), row, info) ==
  LET Right(cursor) == WalkedBit(info, cursor, 1)
      bits == 0..(Cardinality(info.valid) - 1)
  IN /\ Reached(Right, 0, Cardinality(info.valid)) = bits
     /\ {BitAt(info, cursor) : cursor \in bits} = info.valid
     /\ \A v \in {{}, info.valid}, cursor \in bits :
          LET flipped == AdjustedFlags(info, v, cursor)
          IN /\ Sent(flipped) /\ AdjustedFlags(info, flipped, cursor) = v
             /\ ValueText(row, info, flipped, cursor) # ValueText(row, info, v, cursor)

\* Legal values are shown under texts of their own.
ShownApart(row, info, values) ==
  IsInjective([v \in values |-> ValueText(row, info, v, 0)])

\* What one sees is what was read, under the kind the row says; what is sent is
\* taken, but for the pinyin fallback of a table without pinyin data. A table's
\* name is sent for a table that opens.
OptionStaysLegal(call) ==
  LET row  == Descriptor(call.option)
      info == OptionInfo(row, call.engine)
      Sent(v) ==
        \/ SetNumber(call, Kind(row), v) = "ok"
        \/ LacksPinyin(call, v) /\ SetNumber(call, Kind(row), v) = "unsupported"
  IN /\ Get(call, Kind(row)) = "ok"
     /\ row.type = "bool" =>
          /\ ShownApart(row, info, {0, 1})
          /\ \A v \in {0, 1} : Sent(AdjustedBool(v))
     /\ row.type = "int" =>
          \A v \in info.min..IntMax, step \in Steps : Sent(AdjustedInt(info, v, step))
     /\ row.type = "enum" =>
          ShownApart(row, info, info.valid) /\ EnumStaysLegal(Sent, row, info)
     /\ row.type = "flags" => FlagsStayLegal(Sent, row, info)
     /\ row.type = "string" /\ info.count # 0 =>
          LET values == ToSet(Enumerates(row)) \cup {""}
          IN /\ ShownApart(row, info, values)
             /\ \A v \in values \cup {"elsewhere"}, step \in Steps :
                  /\ AdjustedString(row, v, step) \in ToSet(Enumerates(row))
                  /\ SetString(call, 2, TRUE) = "ok"

\* The calls the panel makes: at either level, by a client with every callback.
PanelCalls ==
  UNION {[started : {TRUE}, engine : {engine}, level : {"engine", "context"},
          option : CollectOptions(engine), deletes : {TRUE}, pinyin : BOOLEAN] :
           engine \in Engines}

\* Of every option of every engine the panel shows each legal value under a name
\* of its own, reaches them all, and sends none a setter refuses; the inventory it
\* walks is all it knows (collect_options, value_text, adjust_option).
PanelOffersLegal == \A call \in PanelCalls : OptionStaysLegal(call)

\* Nothing the demo does to an option leaves the legal values: neither its settings
\* page, nor the cap it raises as its user scrolls.
PanelStaysLegal ==
  /\ PanelOffersLegal
  /\ \A s \in Offering : CheckNumber(Options[1], "anthy", "int", slotContexts[s].cap)
================================================================================
