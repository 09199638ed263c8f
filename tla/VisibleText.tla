------------------------------ MODULE VisibleText ------------------------------
(***************************************************************************)
(* What composing promises to the person typing, with no word about modes, *)
(* snapshots or callbacks.  They see one line of text with a caret; the    *)
(* last few scalars before the caret are still open to revision.  Typing   *)
(* replaces that open part and may add to it, and nothing to its left is   *)
(* ever rewritten; what already reached the document stays there.          *)
(***************************************************************************)
EXTENDS Integers, Sequences, SequencesExt

VARIABLES
  delivered,  \* the part of the line that is in the document
  line,       \* everything visible left of the caret
  open,       \* the end of the line still open to revision
  right       \* everything right of the caret

lineVars == <<delivered, line, open, right>>

Closed == SubSeq(line, 1, Len(line) - Len(open))

EndsWith(s, t) == /\ Len(t) <= Len(s)
                  /\ SubSeq(s, Len(s) - Len(t) + 1, Len(s)) = t

Init == /\ delivered = <<>>
        /\ line = <<>>
        /\ open = <<>>
        /\ right = <<>>

\* Type, erase part of the open end, close it, or deliver some of the line.
Revise ==
  /\ IsPrefix(Closed, line')
  /\ EndsWith(line', open')
  /\ Len(line') - Len(open') >= Len(Closed)
  /\ IF Len(delivered) <= Len(Closed) THEN IsPrefix(delivered, delivered')
                                      ELSE IsPrefix(Closed, delivered')
  /\ IsPrefix(delivered', line')
  /\ UNCHANGED right

\* With nothing open, a backspace takes one scalar off the line.
Erase ==
  /\ open = <<>> /\ open' = <<>>
  /\ line' = SubSeq(line, 1, Len(line) - 1)
  /\ IsPrefix(delivered', line')
  /\ IsPrefix(SubSeq(delivered, 1, Len(delivered) - 1), delivered')
  /\ UNCHANGED right

\* Give up whatever has not been delivered, and nothing else.
Discard ==
  /\ line' = delivered
  /\ open' = <<>>
  /\ UNCHANGED <<delivered, right>>

\* Move the caret through the document.
Move ==
  /\ open = <<>> /\ open' = <<>>
  /\ line = delivered /\ line' = delivered'
  /\ line' \o right' = line \o right

Next == Revise \/ Erase \/ Discard \/ Move

Spec == Init /\ [][Next]_lineVars
================================================================================
