---------------------------- MODULE HangulProperties ----------------------------
(***************************************************************************)
(* What the Hangul adapter and the dispatch it goes through must get       *)
(* right.                                                                  *)
(***************************************************************************)
EXTENDS Hangul, SequencesExt

\* Where the adapter's three memories of one syllable stand to each other and
\* to the document: in "none" mode the written syllable is libhangul's pending
\* one and stands directly left of the caret, and nothing is held; otherwise
\* nothing is written, the preedit ends with the pending syllable and only
\* "word" holds finished ones (hangul_backend.cc in_document_, harvest,
\* end_composition).
SyllableAccountedFor ==
  /\ mode = "none" => /\ model.settled = <<>> /\ model.active = <<>>
                      /\ inDocument = hic
                      /\ before = SubSeq(before, 1, Len(before) - Len(inDocument))
                                     \o inDocument
  /\ mode # "none" => inDocument = <<>> /\ model.active = hic
  /\ mode = "syllable" => model.settled = <<>>

\* Only a handled key leaves text behind: after an unhandled one, and after
\* pathime_context_commit and _reset, nothing is composed, tracked or shown, so
\* the client may act on the document (pathime.h, MOVING THE CARET).
IdleHoldsNothing ==
  ~engaged => /\ hic = <<>> /\ inDocument = <<>>
              /\ published.preedit = <<>>

\* Every deletion the client is asked for removes exactly the syllable the
\* adapter wrote there, whatever the client edited and however late it
\* refreshes its snapshot (PATHIME_HANGUL_PREEDIT_NONE, harvest,
\* prepare_revision and the dispatch condition together).
DeletesOnlyItsSyllable ==
  [][\A i \in DOMAIN calls' :
       calls'[i].cb = "delete" => calls'[i].text = inDocument]_vars

\* The client's picture of the composition is the library's after every call:
\* no change goes unannounced (refresh_composition's comparison).
ClientUpToDate == "changed" \in callbacks => shown = published

\* The part of it the header words for pathime_context_commit alone.
CommitDeliversPreedit ==
  [][Commit => /\ before' = before \o published.preedit
               /\ published'.preedit = <<>>]_vars

\* However a composition ends, the document then reads as the line did: a key
\* libhangul declines, one it never sees and a commit deliver what was held once,
\* in its place and in full, wherever it stood, and whether a harvest, a flush or a
\* hand already on the document brings it (end_composition). A reset takes the
\* preedit off the screen instead and leaves the document alone, even where the
\* syllable is standing in it; the next key starts a new one
\* (HangulContextBackend::reset).
EndsAsShown ==
  [][/\ TypeDeclined \/ TypeOther \/ Commit => before' = Visible
     /\ Reset => /\ before' = before
                 /\ published'.preedit = <<>>
                 /\ hic' = <<>> /\ inDocument' = <<>>]_vars

\* The adapter keeps the promise of VisibleText in all three modes: what is
\* left of the open syllable is never rewritten, reordered or lost.
Line == INSTANCE VisibleText WITH
          delivered <- before,
          line      <- Visible,
          open      <- hic,
          right     <- after

KeepsTheLine == Line!Spec
================================================================================
