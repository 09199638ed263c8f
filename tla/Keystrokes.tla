------------------------------ MODULE Keystrokes -------------------------------
(***************************************************************************)
(* What an engine that converts spellings owes the person typing, with no  *)
(* word about candidates, segments or punctuation: every letter typed is   *)
(* either still being composed or has reached the document, once and in    *)
(* order, however the composition got there.                               *)
(***************************************************************************)
EXTENDS Sequences, SequencesExt

CONSTANTS
  Letters,
  Sounds    \* the letters a scalar of the document was typed with

VARIABLES
  document,  \* what stands left of the caret
  pending    \* the letters still being composed

lettersVars == <<document, pending>>

LettersOf(text) == FlattenSeq([i \in DOMAIN text |-> Sounds[text[i]]])

Init == document = <<>> /\ pending = <<>>

Delivers == IsPrefix(document, document')

\* Convert, settle or deliver: no letter is lost, repeated or moved.
Advance ==
  /\ Delivers
  /\ LettersOf(document') \o pending' = LettersOf(document) \o pending

\* One more letter, behind all that was typed.
Type ==
  /\ Delivers
  /\ \E letter \in Letters :
       LettersOf(document') \o pending' = Append(LettersOf(document) \o pending, letter)

\* A backspace takes the last letter being composed, if there is one.
TakeBack == /\ pending # <<>> /\ pending' = Front(pending)
            /\ UNCHANGED document

\* Letters may only go where nothing else comes of the call.
Discard == pending' = <<>> /\ UNCHANGED document

\* With nothing being composed the document is the client's to change.
Edit == pending = <<>> /\ UNCHANGED pending

Next == Discard \/ TakeBack \/ Edit \/ Advance \/ Type

Spec == Init /\ [][Next]_lettersVars
================================================================================
