----------------------------- MODULE PyzyProperties -----------------------------
(***************************************************************************)
(* What the pinyin and bopomofo adapter must get right: for the letters    *)
(* typed, for the list the client is shown, and for the punctuation that   *)
(* depends on the document.                                                *)
(***************************************************************************)
EXTENDS Pyzy

CONSTANT Sounds  \* the letters a scalar of the document was typed with

\* The letters among the keys PyZy holds.
LettersIn(keys) ==
  FlattenSeq([i \in DOMAIN keys |-> IF keys[i] \in Alphabet THEN <<keys[i]>> ELSE <<>>])

\* Every letter typed is being composed or in the document, once and in order:
\* selections that consume part of the input, the commit PyZy makes in the middle
\* of one, the key that ends a composition and the observer that reports all of
\* these neither drop a letter nor deliver it twice.
Typing == INSTANCE Keystrokes WITH
            Letters  <- Alphabet,
            document <- before,
            pending  <- LettersIn(input)

KeepsKeystrokes == Typing!Spec

\* The candidates shown are the first of those PyZy would answer a selection from,
\* under the options in force, so an index means what the client drew there
\* (harvest, options_changed, materialize_candidates).
ListIsCurrent ==
  LET offered == Texts(Offered(Plain))
  IN model.candidates = SubSeq(offered, 1, Capped(Len(offered), options.cap))

\* Return and pathime_context_commit deliver the preedit the client was shown but
\* for the separators, under every scheme, and leave none (pathime.h, preedit;
\* commit_preedit).
EndDeliversPreedit ==
  [][Composing /\ (Return \/ Commit) =>
       /\ before' = before \o Unseparated(published.preedit)
       /\ published'.preedit = <<>>]_vars

================================================================================
