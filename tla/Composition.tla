------------------------------ MODULE Composition ------------------------------
(***************************************************************************)
(* The structured composition model every adapter fills in, the output one *)
(* API call produces, and the flat value a client sees                     *)
(* (src/composition.h, src/composition.cc), with the range test that       *)
(* decides whether a deletion may be dispatched (src/context.cc).          *)
(*                                                                         *)
(* Text is a sequence of Unicode scalar values; which scalars they are     *)
(* never matters here, so Scalar is a parameter.                           *)
(***************************************************************************)
EXTENDS Integers, Sequences

CONSTANT Scalar

Text == Seq(Scalar)

\* Composition: three spans in display order, the candidates of the active one
\* and the cursor over them.
Model == [settled : Text, active : Text, tail : Text,
          candidates : Seq(Text), cursor : Nat]

EmptyModel == [settled |-> <<>>, active |-> <<>>, tail |-> <<>>,
               candidates |-> <<>>, cursor |-> 0]

\* Output: text to insert, and a deletion of `count` scalars that starts
\* `offset` scalars from the caret. count = 0 stands for has_deletion = false:
\* the dispatch treats the two alike.
Output == [commit : Text, offset : Int, count : Nat]

NoOutput == [commit |-> <<>>, offset |-> 0, count |-> 0]

\* The flat composition: what composition_changed hands to the client.
Flat == [preedit : Text, settled : Nat, count : Nat, cursor : Nat]

\* Mutation: the settled boundary is a position too far left.
ProjectShort(m) == [preedit |-> m.settled \o m.active \o m.tail,
                    settled |-> Len(m.settled) - 1,
                    count   |-> Len(m.candidates),
                    cursor  |-> m.cursor]

Project(m) == [preedit |-> m.settled \o m.active \o m.tail,
               settled |-> Len(m.settled),
               count   |-> Len(m.candidates),
               cursor  |-> m.cursor]

\* The client's last account of the text around its caret.
Snapshot == [has : BOOLEAN, text : Text, cursor : Nat]

NoSnapshot == [has |-> FALSE, text |-> <<>>, cursor |-> 0]

\* Does [cursor + offset, cursor + offset + count) lie within the snapshot?
RangeWithinSnapshot(snap, offset, count) ==
  \/ count = 0
  \/ /\ snap.has
     /\ snap.cursor + offset >= 0
     /\ snap.cursor + offset + count <= Len(snap.text)
================================================================================
