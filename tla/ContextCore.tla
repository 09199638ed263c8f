------------------------------ MODULE ContextCore ------------------------------
(***************************************************************************)
(* One input context and the client that drives it, as far as both are the *)
(* same for every adapter (src/context.cc, src/context.h): the model an    *)
(* adapter fills in, the flat composition published from it, the           *)
(* surrounding-text snapshot, and the assembly-and-dispatch step that ends *)
(* every mutating call.                                                    *)
(*                                                                         *)
(* The client is part of the system.  It holds a document with a caret,    *)
(* applies every callback to it, draws the composition it was last told of *)
(* and, when a key comes back unhandled, acts on that key itself before it *)
(* calls the library again (pathime.h, pathime_context_process_key).       *)
(***************************************************************************)
EXTENDS Composition

VARIABLES
  model,      \* pathime_context::model
  published,  \* pathime_context::composition
  snapshot,   \* pathime_context::surrounding_text, _cursor, has_surrounding
  callbacks,  \* the optional callbacks of this client, fixed at creation
  before,     \* the client's document left of its caret
  after,      \* the client's document right of its caret
  shown,      \* the composition the client was last handed
  calls,      \* the callbacks the last API call dispatched, in order
  owed        \* what the client still owes an unhandled key

contextVars == <<model, published, snapshot, callbacks, before, after, shown,
                 calls, owed>>

Call == [cb : {"delete", "commit", "changed"}, text : Text]

ContextTypeOK ==
  /\ model \in Model
  /\ published \in Flat
  /\ snapshot \in Snapshot
  /\ callbacks \in SUBSET {"delete", "changed"}
  /\ before \in Text
  /\ after \in Text
  /\ shown \in Flat
  /\ calls \in Seq(Call)
  /\ owed \in {"nothing", "insert", "erase"}

\* pathime_context_create: everything empty, nothing shown yet (its own
\* refresh finds nothing to announce). commit_text is mandatory.
ContextInit ==
  /\ model = EmptyModel
  /\ published = Project(EmptyModel)
  /\ snapshot = NoSnapshot
  /\ callbacks \in SUBSET {"delete", "changed"}
  /\ before = <<>>
  /\ after = <<>>
  /\ shown = Project(EmptyModel)
  /\ calls = <<>>
  /\ owed = "nothing"

Idle == owed = "nothing"

\* SurroundingTextView::can_delete_before
CanDeleteBefore(count) ==
  \/ count = 0
  \/ /\ "delete" \in callbacks
     /\ RangeWithinSnapshot(snapshot, -count, count)

\* The client removes `count` scalars starting `offset` from its caret, or
\* those of them it has. No adapter asks for any right of the caret.
Start(doc, offset) == IF Len(doc) + offset < 0 THEN 0 ELSE Len(doc) + offset

Removed(doc, offset, count) ==
  SubSeq(doc, Start(doc, offset) + 1, Len(doc) + offset + count)

Remaining(doc, offset, count) ==
  SubSeq(doc, 1, Start(doc, offset))
    \o SubSeq(doc, Len(doc) + offset + count + 1, Len(doc))

\* The dispatch condition of refresh_composition for a requested deletion.
Deletes(out) ==
  /\ out.count # 0
  /\ "delete" \in callbacks
  /\ snapshot.has
  /\ RangeWithinSnapshot(snapshot, out.offset, out.count)

\* materialize_candidates: truncate to the cap, let the adapter append what its
\* list for the active span has beyond that, bring the cursor back into range.
Capped(k, cap) == IF k < cap THEN k ELSE cap

Listed(m, offered, cap) ==
  SubSeq(m.candidates, 1, Capped(Len(m.candidates), cap))
    \o SubSeq(offered, Len(m.candidates) + 1, Capped(Len(offered), cap))

\* Mutation: a cursor the truncation left behind stays where it was.
MaterializeLoose(m, offered, cap) ==
  [m EXCEPT !.candidates = Listed(m, offered, cap)]

\* Mutation: a list over the cap keeps the candidates ranked last.
MaterializeLast(m, offered, cap) ==
  LET list == m.candidates \o SubSeq(offered, Len(m.candidates) + 1, Len(offered))
      size == Capped(Len(list), cap)
  IN [m EXCEPT !.candidates = SubSeq(list, Len(list) - size + 1, Len(list)),
               !.cursor = IF @ < size THEN @ ELSE 0]

Materialize(m, offered, cap) ==
  [m EXCEPT !.candidates = Listed(m, offered, cap),
            !.cursor = IF @ < Len(Listed(m, offered, cap)) THEN @ ELSE 0]

\* Is there anything new to announce? All four fields count.
\* Mutation: the settled boundary is not part of the comparison.
DiffersInText(flat) == [flat EXCEPT !.settled = 0] # [published EXCEPT !.settled = 0]

Differs(flat) == flat # published

\* A commit changes the document under the snapshot, so it drops it.
SnapshotAfter(out) == IF out.commit = <<>> THEN snapshot ELSE NoSnapshot

\* refresh_composition(ctx, force) with the model already materialized:
\* project, compare with what was published, then dispatch deletion, commit
\* and composition_changed in that order.
Refresh(m, out, force) ==
  LET flat    == Project(m)
      deletes == Deletes(out)
      commits == out.commit # <<>>
      changed == (force \/ Differs(flat)) /\ "changed" \in callbacks
      cut     == IF deletes THEN Remaining(before, out.offset, out.count)
                            ELSE before
  IN /\ model' = m
     /\ published' = flat
     /\ before' = cut \o out.commit
     /\ snapshot' = SnapshotAfter(out)
     /\ shown' = IF changed THEN flat ELSE shown
     /\ calls' =
          (IF deletes
           THEN <<[cb |-> "delete",
                   text |-> Removed(before, out.offset, out.count)]>>
           ELSE <<>>)
          \o (IF commits THEN <<[cb |-> "commit", text |-> out.commit]>>
                         ELSE <<>>)
          \o (IF changed THEN <<[cb |-> "changed", text |-> flat.preedit]>>
                         ELSE <<>>)
     /\ UNCHANGED <<callbacks, after>>

\* The snapshot of l scalars left of the caret and r right of it.
Around(left, right, l, r) ==
  [has    |-> TRUE,
   text   |-> SubSeq(left, Len(left) - l + 1, Len(left)) \o SubSeq(right, 1, r),
   cursor |-> l]

\* pathime_context_set_surrounding_text: a fragment of the document around the
\* caret, its cursor counted in scalars. Nothing is refreshed. Failing to copy
\* the text drops the snapshot instead.
SetSurroundingText ==
  /\ Idle
  /\ \/ \E l \in 0..Len(before), r \in {0, Len(after)} :
          snapshot' = Around(before, after, l, r)
     \/ snapshot' = NoSnapshot
  /\ calls' = <<>>
  /\ UNCHANGED <<model, published, callbacks, before, after, shown, owed>>

\* The client acts on a key the library did not handle: it inserts the key's
\* own text, or erases one scalar left of the caret, if there is one.
ClientActs ==
  /\ \/ /\ owed = "insert"
        /\ \E s \in Scalar : before' = Append(before, s)
     \/ /\ owed = "erase"
        /\ before' = SubSeq(before, 1, Len(before) - 1)
  /\ owed' = "nothing"
  /\ calls' = <<>>
  /\ UNCHANGED <<model, published, snapshot, callbacks, after, shown>>

\* The user puts the caret elsewhere in the document. What the client tells
\* the library of it is left to the module that extends this one.
MoveCaret ==
  /\ Idle
  /\ \E k \in 0..(Len(before) + Len(after)) :
       /\ before' = SubSeq(before \o after, 1, k)
       /\ after' = SubSeq(before \o after, k + 1, Len(before) + Len(after))
  /\ calls' = <<>>
  /\ UNCHANGED <<model, published, callbacks, shown, owed>>
================================================================================
