--------------------------- MODULE PunctuatedContext ---------------------------
(***************************************************************************)
(* An input context whose adapter turns keys into punctuation by way of    *)
(* the punctuation layer: the PyZy and the table adapters, which both keep *)
(* a PunctuationState beside their composition.                            *)
(***************************************************************************)
EXTENDS ContextCore, Punctuation

VARIABLE punctuation  \* punctuation_

\* The text the call before this state delivered.
Delivered(cs) ==
  FlattenSeq([i \in DOMAIN cs |-> IF cs[i].cb = "commit" THEN cs[i].text ELSE <<>>])

EndsInDigit(text) == text # <<>> /\ Last(text) \in Digits

\* What the remembered alternation of one quotation mark may be after delivering
\* text: the text's own marks decide, else what was remembered or the snapshot's.
MayRemember(text, open, close, remembered) ==
  {QuoteOpens(text, open, close, r) :
     r \in {remembered, QuoteOpens(BeforeCursor(snapshot), open, close, remembered)}}

\* What is remembered after a delivery is what the document then shows, so the
\* next key needs no snapshot; and nothing else changes it (note_commit, in the
\* order the commits reach the client; emit_text; observe_document).
RemembersDeliveries ==
  [][LET text == Delivered(calls')
     IN text # <<>> =>
          /\ punctuation'.digit <=> EndsInDigit(before')
          /\ punctuation'.single \in
               MayRemember(text, openSingle, closeSingle, punctuation.single)
          /\ punctuation'.double \in
               MayRemember(text, openDouble, closeDouble, punctuation.double)
    ]_<<contextVars, punctuation>>
================================================================================
