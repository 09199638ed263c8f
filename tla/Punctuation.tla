------------------------------ MODULE Punctuation ------------------------------
(***************************************************************************)
(* The punctuation layer the two Chinese adapters share                    *)
(* (src/punctuation.h, src/punctuation.cc): what one printable key becomes *)
(* when it is not composition input, and the three facts about the         *)
(* document that decides: is the next quotation mark of each kind an       *)
(* opening one, and does the text before the caret end in a digit.         *)
(*                                                                         *)
(* They are remembered from what was committed and corrected from the      *)
(* client's snapshot; an operator here maps what is remembered to what is  *)
(* remembered afterwards.                                                  *)
(***************************************************************************)
EXTENDS Composition, SequencesExt

CONSTANTS
  Emittable,      \* printable ASCII: emittable
  Latin,          \* letters, digits and space: is_latin
  Digits,         \* '0' to '9'
  FullWidth,      \* the full-width form of an emittable scalar: to_fullwidth
  Marks(_),       \* kSimplified or kTraditional: the text of the keys they list
  single,         \* the key '
  double,         \* the key "
  stop,           \* the key .
  openSingle, closeSingle, openDouble, closeDouble, fullStop

\* What the three facts are about: the quotation marks, and the digits.
Decisive == Digits \cup {openSingle, closeSingle, openDouble, closeDouble}

ASSUME PunctuationAssumption ==
  /\ Emittable \subseteq Scalar /\ Latin \subseteq Emittable /\ Digits \subseteq Latin
  /\ {single, double, stop} \subseteq Emittable \ Latin
  /\ single # double /\ stop \notin {single, double}
  /\ {openSingle, closeSingle, openDouble, closeDouble, fullStop} \subseteq
       Scalar \ Emittable
  /\ openSingle # closeSingle /\ openDouble # closeDouble /\ fullStop \notin Decisive
  /\ {openSingle, closeSingle} \cap {openDouble, closeDouble} = {}
  /\ FullWidth \in [Emittable -> Scalar]
  /\ \A key \in Emittable : FullWidth[key] \notin Decisive
  /\ \A simplified \in BOOLEAN : \A key \in DOMAIN Marks(simplified) :
       /\ Marks(simplified)[key] \in Text
       /\ \A i \in DOMAIN Marks(simplified)[key] : Marks(simplified)[key][i] \notin Decisive

Width == {"half", "full"}

\* PunctuationState: quote_open, double_quote_open, prev_was_digit.
FreshPunctuation == [single |-> TRUE, double |-> TRUE, digit |-> FALSE]

\* note_commit: text that reaches the document, from whichever source.
NoteCommit(p, text) ==
  IF text = <<>> THEN p
  ELSE [p EXCEPT !.digit = Len(text) = 1 /\ text[1] \in Digits]

\* emit_text: the text of one emittable key ...
EmitText(key, w, p) ==
  CASE key \in Latin /\ w.latin = "half" -> <<key>>
    [] key \in Latin /\ w.latin = "full" -> <<FullWidth[key]>>
    [] key \notin Latin /\ w.punctuation = "half" -> <<key>>
    [] key = single /\ w.punctuation = "full" ->
         <<IF p.single THEN openSingle ELSE closeSingle>>
    [] key = double /\ w.punctuation = "full" ->
         <<IF p.double THEN openDouble ELSE closeDouble>>
    [] key = stop /\ w.punctuation = "full" -> <<IF p.digit THEN stop ELSE fullStop>>
    [] OTHER -> IF key \in DOMAIN Marks(w.simplified) THEN Marks(w.simplified)[key]
                                                      ELSE <<FullWidth[key]>>

\* ... and what it leaves remembered: only a full-width quote alternates.
EmitState(key, w, p) ==
  CASE w.punctuation = "full" /\ key = single -> [p EXCEPT !.single = ~@]
    [] w.punctuation = "full" /\ key = double -> [p EXCEPT !.double = ~@]
    [] OTHER -> p

\* last_quote_decides: the nearest mark of a kind says whether the next opens.
QuoteOpens(text, open, close, remembered) ==
  LET at == {i \in DOMAIN text : text[i] \in {open, close}}
  IN IF at = {} THEN remembered ELSE text[Max(at)] = close

\* observe_document: what is visible left of the caret is believed; what is not
\* visible decides nothing.
ObserveDocument(visible, p) ==
  IF visible = <<>> THEN p
  ELSE [single |-> QuoteOpens(visible, openSingle, closeSingle, p.single),
        double |-> QuoteOpens(visible, openDouble, closeDouble, p.double),
        digit  |-> Last(visible) \in Digits]

\* SurroundingTextView::before_cursor
BeforeCursor(snap) == SubSeq(snap.text, 1, snap.cursor)
================================================================================
