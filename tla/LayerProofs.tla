------------------------------ MODULE LayerProofs -------------------------------
(***************************************************************************)
(* Proofs about the context layer over an arbitrary adapter: for every set *)
(* of texts an adapter may produce, every candidate list of any length and *)
(* every set of caps, failures included.                                   *)
(***************************************************************************)
EXTENDS Context, ContextProofs

\* Every variable of the layer, and of the adapter behind it.
LayerTypeOK ==
  /\ ContextTypeOK
  /\ offered \in Seq(Text)
  /\ cap \in Nat \ {0}
  /\ output \in AdapterOutput
  /\ indeterminate \in BOOLEAN

Step == [model : Model, offered : Seq(Text)]

LEMMA NoOutputIsOutput == NoOutput \in AdapterOutput
BY EmptyText DEF NoOutput, AdapterOutput, Output

LEMMA SpanText == Spans \subseteq Text /\ Lists \subseteq Seq(Text) /\ Caps \subseteq Nat \ {0}
BY AdapterAssumption

\* What an adapter may produce.
LEMMA OutputsType == ASSUME NEW out \in Outputs PROVE out \in AdapterOutput
BY SpanText, NoOutputIsOutput DEF Outputs, AdapterOutput, Output, NoOutput

LEMMA ListerType ==
  ASSUME NEW m \in Model, offered \in Seq(Text), NEW step \in Lister(m)
  PROVE  step \in Step
<1>1. CASE step = [model |-> m, offered |-> offered]
  BY <1>1 DEF Step
<1>2. ASSUME NEW l \in Lists,
             step = [model |-> [m EXCEPT !.candidates = <<>>, !.cursor = 0],
                     offered |-> l]
      PROVE  step \in Step
  BY <1>2, SpanText, EmptySeq DEF Step, Model
<1> QED BY <1>1, <1>2 DEF Lister

LEMMA RewrittenType ==
  ASSUME NEW m \in Model, NEW s \in Spans, NEW a \in Spans
  PROVE  [m EXCEPT !.settled = s, !.active = a] \in Model
BY SpanText DEF Model

-------------------------------------------------------------------------------
(* The candidate list.                                                     *)

\* Whatever the adapter had listed and whatever it offers, the list fits the cap.
LEMMA ListFits ==
  ASSUME NEW m \in Model, NEW list \in Seq(Text), NEW limit \in Nat \ {0}
  PROVE  /\ Listed(m, list, limit) \in Seq(Text)
         /\ Len(Listed(m, list, limit)) <= limit
<1> DEFINE had == Len(m.candidates)
           front == SubSeq(m.candidates, 1, Capped(had, limit))
           rest == SubSeq(list, had + 1, Capped(Len(list), limit))
<1>1. /\ m.candidates \in Seq(Text) /\ had \in Nat /\ Len(list) \in Nat
  BY LenProperties DEF Model
<1>2. /\ Capped(had, limit) \in 0..had /\ Capped(had, limit) <= limit
      /\ Capped(Len(list), limit) \in 0..Len(list)
      /\ Capped(Len(list), limit) <= limit
  BY <1>1 DEF Capped
<1>3. front \in Seq(Text) /\ Len(front) = Capped(had, limit)
  <2>1. \A i \in 1..Capped(had, limit) : m.candidates[i] \in Text
    BY <1>1, <1>2, ElementOfSeq
  <2> QED BY <1>1, <1>2, <2>1, SubSeqProperties
<1>4. /\ rest \in Seq(Text)
      /\ Len(rest) = IF had + 1 <= Capped(Len(list), limit)
                     THEN Capped(Len(list), limit) - had ELSE 0
  <2>1. \A i \in (had + 1)..Capped(Len(list), limit) : list[i] \in Text
    BY <1>1, <1>2, ElementOfSeq
  <2> QED BY <1>1, <1>2, <2>1, SubSeqProperties
<1>5. Len(front \o rest) = Len(front) + Len(rest) /\ front \o rest \in Seq(Text)
  BY <1>3, <1>4, ConcatProperties
<1>6. Len(front) + Len(rest) <= limit
  <2> DEFINE x == Len(front)
             y == Len(rest)
             k == Capped(Len(list), limit)
  <2>1. x \in Nat /\ x <= had /\ x <= limit /\ (x = had \/ x = limit)
    BY <1>1, <1>2, <1>3 DEF Capped
  <2>2. y = IF had + 1 <= k THEN k - had ELSE 0
    BY <1>4
  <2>3. k \in Nat /\ k <= limit
    BY <1>1, <1>2
  <2>4. had \in Nat /\ limit \in Nat
    BY <1>1
  <2> HIDE DEF x, y, k, had
  <2>5. x + y <= limit
    BY <2>1, <2>2, <2>3, <2>4
  <2> QED BY <2>5 DEF x, y
<1> HIDE DEF front, rest
<1> QED BY <1>5, <1>6 DEF Listed, front, rest

LEMMA MaterializeType ==
  ASSUME NEW m \in Model, NEW list \in Seq(Text), NEW limit \in Nat \ {0}
  PROVE  /\ Materialize(m, list, limit) \in Model
         /\ Len(Materialize(m, list, limit).candidates) <= limit
         /\ \/ Materialize(m, list, limit).cursor = 0
            \/ Materialize(m, list, limit).cursor
                 < Len(Materialize(m, list, limit).candidates)
<1>1. Listed(m, list, limit) \in Seq(Text) /\ Len(Listed(m, list, limit)) <= limit
  BY ListFits
<1> QED BY <1>1 DEF Materialize, Model

\* Every call that ends in a refresh leaves the list within the cap, the cursor
\* on it, the output drained and the types as they were.
LEMMA FinishOutcome ==
  ASSUME LayerTypeOK, cap' \in Nat \ {0},
         NEW step \in Step, NEW out \in AdapterOutput, NEW force \in BOOLEAN,
         Finish(step, out, force)
  PROVE  /\ owed' \in {"nothing", "insert", "erase"} => ContextTypeOK'
         /\ offered' \in Seq(Text)
         /\ output' = NoOutput
         /\ published' = Project(model')
         /\ published'.count <= cap'
         /\ published'.cursor = 0 \/ published'.cursor < published'.count
<1> DEFINE m == Materialize(step.model, step.offered, cap')
<1>1. /\ step.model \in Model /\ step.offered \in Seq(Text)
      /\ Refresh(m, out, force) /\ offered' = step.offered /\ output' = NoOutput
  BY DEF Step, Finish
<1>2. /\ m \in Model /\ Len(m.candidates) <= cap'
      /\ m.cursor = 0 \/ m.cursor < Len(m.candidates)
  BY <1>1, MaterializeType
<1> HIDE DEF m
<1>3. owed' \in {"nothing", "insert", "erase"} => ContextTypeOK'
  BY <1>1, <1>2, RefreshType DEF LayerTypeOK, ContextTypeOK
<1>4. model' = m /\ published' = Project(m)
  BY <1>1 DEF Refresh
<1> QED BY <1>1, <1>2, <1>3, <1>4 DEF Project

-------------------------------------------------------------------------------
(* The layer as a whole.                                                   *)

\* The inductive invariant.  A failed call leaves the model and the output out
\* of step with what is published; what the client was last handed is not
\* touched by it, so the refresh of the reset that follows starts from there.
LayerInv ==
  /\ LayerTypeOK
  /\ CursorOnList
  /\ ClientUpToDate
  /\ "changed" \in callbacks => shown = published

LEMMA LayerInit == Init => LayerInv
<1> SUFFICES ASSUME Init PROVE LayerInv
  OBVIOUS
<1>1. EmptyModel \in Model /\ Project(EmptyModel) \in Flat
  BY EmptyModelType, ProjectType
<1>2. NoSnapshot \in Snapshot
  BY EmptyText DEF NoSnapshot, Snapshot
<1>3. <<>> \in Text /\ <<>> \in Seq(Call) /\ <<>> \in Seq(Text)
  BY EmptyText, EmptySeq
<1>4. LayerTypeOK
  BY <1>1, <1>2, <1>3, NoOutputIsOutput, SpanText
  DEF Init, ContextInit, LayerTypeOK, ContextTypeOK
<1>5. CursorOnList
  <2>1. published.count = 0 /\ published.cursor = 0
    BY EmptyText DEF Init, ContextInit, Project, EmptyModel
  <2> QED BY <1>4, <2>1 DEF CursorOnList, LayerTypeOK
<1>6. ClientUpToDate /\ ("changed" \in callbacks => shown = published)
  BY DEF Init, ContextInit, ClientUpToDate
<1> QED BY <1>4, <1>5, <1>6 DEF LayerInv

\* A call that ends in a refresh.
LEMMA FinishKeeps ==
  ASSUME LayerInv, cap' \in Nat \ {0}, owed' \in {"nothing", "insert", "erase"},
         indeterminate' \in BOOLEAN,
         NEW step \in Step, NEW out \in AdapterOutput, NEW force \in BOOLEAN,
         Finish(step, out, force)
  PROVE  LayerInv'
<1>1. /\ ContextTypeOK' /\ offered' \in Seq(Text) /\ output' = NoOutput
      /\ published' = Project(model')
      /\ published'.count <= cap'
      /\ published'.cursor = 0 \/ published'.cursor < published'.count
  BY FinishOutcome DEF LayerInv
<1>2. "changed" \in callbacks' => shown' = published'
  BY RefreshShows DEF LayerInv, Finish
<1> QED BY <1>1, <1>2, NoOutputIsOutput
        DEF LayerInv, LayerTypeOK, CursorOnList, ClientUpToDate

\* A call that fails changes neither what is published nor what was shown.
LEMMA FailureKeeps ==
  ASSUME LayerInv, model' \in Model, output' \in AdapterOutput, calls' = <<>>,
         UNCHANGED <<published, snapshot, callbacks, before, after, shown, owed,
                     offered, cap>>,
         \/ indeterminate' = TRUE
         \/ UNCHANGED <<model, indeterminate, output>>
  PROVE  LayerInv'
<1>1. <<>> \in Seq(Call)
  BY EmptySeq
<1> QED BY <1>1 DEF LayerInv, LayerTypeOK, ContextTypeOK, CursorOnList, ClientUpToDate

\* The client's own steps touch nothing of the layer's.
LEMMA ClientKeeps ==
  ASSUME LayerInv, ContextTypeOK',
         UNCHANGED <<model, published, callbacks, shown, adapterVars>>
  PROVE  LayerInv'
BY DEF LayerInv, LayerTypeOK, CursorOnList, ClientUpToDate, adapterVars

LEMMA LayerNext == LayerInv /\ [Next]_vars => LayerInv'
<1> SUFFICES ASSUME LayerInv, [Next]_vars PROVE LayerInv'
  OBVIOUS
<1>1. /\ LayerTypeOK /\ ContextTypeOK /\ model \in Model /\ published \in Flat
      /\ offered \in Seq(Text) /\ cap \in Nat \ {0} /\ output \in AdapterOutput
      /\ owed \in {"nothing", "insert", "erase"} /\ indeterminate \in BOOLEAN
  BY DEF LayerInv, LayerTypeOK, ContextTypeOK
<1>2. [model |-> EmptyModel, offered |-> <<>>] \in Step
  BY EmptyModelType, EmptySeq DEF Step
<1>3. ASSUME ProcessKey PROVE LayerInv'
  <2>1. PICK s \in Spans, a \in Spans, out \in Outputs :
          \E step \in Lister([model EXCEPT !.settled = s, !.active = a]) :
            Finish(step, out, FALSE)
    BY <1>3 DEF ProcessKey
  <2>2. PICK step \in Lister([model EXCEPT !.settled = s, !.active = a]) :
          Finish(step, out, FALSE)
    BY <2>1
  <2>3. step \in Step /\ out \in AdapterOutput
    BY <1>1, RewrittenType, ListerType, OutputsType
  <2> QED BY <1>1, <1>3, <2>2, <2>3, FinishKeeps DEF ProcessKey
<1>4. ASSUME CommitComposition PROVE LayerInv'
  <2>1. [NoOutput EXCEPT !.commit = published.preedit] \in AdapterOutput
    BY <1>1, NoOutputIsOutput DEF Flat, AdapterOutput, Output, NoOutput
  <2>2. Finish([model |-> EmptyModel, offered |-> <<>>],
               [NoOutput EXCEPT !.commit = published.preedit], FALSE)
    BY <1>4 DEF CommitComposition
  <2> QED BY <1>1, <1>2, <1>4, <2>1, <2>2, FinishKeeps DEF CommitComposition
<1>5. ASSUME MoveCursor PROVE LayerInv'
  <2>1. PICK i \in 0..(Len(model.candidates) - 1), a \in Spans :
          Finish([model |-> [model EXCEPT !.cursor = i, !.active = a],
                  offered |-> offered], output, FALSE)
    BY <1>5 DEF MoveCursor
  <2>2. [model |-> [model EXCEPT !.cursor = i, !.active = a], offered |-> offered]
          \in Step
    <3>1. i \in Nat /\ a \in Text
      BY SpanText
    <3> QED BY <1>1, <3>1 DEF Step, Model
  <2> QED BY <1>1, <1>5, <2>1, <2>2, FinishKeeps DEF MoveCursor
<1>6. ASSUME CursorFails PROVE LayerInv'
  <2>1. model' \in Model
    BY <1>1, <1>6, SpanText DEF CursorFails, Model
  <2> QED BY <1>1, <1>6, <2>1, FailureKeeps DEF CursorFails
<1>7. ASSUME SelectCandidate PROVE LayerInv'
  <2>1. PICK i \in 1..Len(model.candidates) :
          LET settled == model.settled \o model.candidates[i]
          IN \/ \E a \in Spans \ {<<>>}, l \in Lists :
                  Finish([model |-> [EmptyModel EXCEPT !.settled = settled,
                                                       !.active = a],
                          offered |-> l], NoOutput, FALSE)
             \/ Finish([model |-> EmptyModel, offered |-> <<>>],
                       [NoOutput EXCEPT !.commit = settled], FALSE)
    BY <1>7 DEF SelectCandidate
  <2> DEFINE settled == model.settled \o model.candidates[i]
  <2>2. settled \in Text
    BY <1>1, ConcatText, ElementOfSeq DEF Model
  <2> HIDE DEF settled
  <2>3. ASSUME NEW a \in Spans \ {<<>>}, NEW l \in Lists,
               Finish([model |-> [EmptyModel EXCEPT !.settled = settled,
                                                    !.active = a],
                       offered |-> l], NoOutput, FALSE)
        PROVE  LayerInv'
    <3>1. [model |-> [EmptyModel EXCEPT !.settled = settled, !.active = a],
           offered |-> l] \in Step
      BY <2>2, SpanText, EmptyModelType DEF Step, Model
    <3> QED BY <1>1, <1>7, <2>3, <3>1, NoOutputIsOutput, FinishKeeps
            DEF SelectCandidate
  <2>4. ASSUME Finish([model |-> EmptyModel, offered |-> <<>>],
                      [NoOutput EXCEPT !.commit = settled], FALSE)
        PROVE  LayerInv'
    <3>1. [NoOutput EXCEPT !.commit = settled] \in AdapterOutput
      BY <2>2, NoOutputIsOutput DEF AdapterOutput, Output, NoOutput
    <3> QED BY <1>1, <1>2, <1>7, <2>4, <3>1, FinishKeeps DEF SelectCandidate
  <2> QED BY <2>1, <2>3, <2>4 DEF settled
<1>8. ASSUME SelectFails PROVE LayerInv'
  <2>1. PICK i \in 0..(Len(model.candidates) - 1), out \in Outputs :
          model' = [model EXCEPT !.cursor = i] /\ output' = out
    BY <1>8 DEF SelectFails
  <2>2. model' \in Model /\ output' \in AdapterOutput
    BY <1>1, <2>1, OutputsType DEF Model
  <2> QED BY <1>1, <1>8, <2>2, FailureKeeps DEF SelectFails
<1>9. ASSUME Reset PROVE LayerInv'
  BY <1>1, <1>2, <1>9, NoOutputIsOutput, FinishKeeps DEF Reset
<1>10. ASSUME SetCap PROVE LayerInv'
  <2>1. PICK step \in Lister(model) : Finish(step, NoOutput, TRUE)
    BY <1>10 DEF SetCap
  <2>2. cap' \in Nat \ {0}
    BY <1>10, SpanText DEF SetCap
  <2> QED BY <1>1, <1>10, <2>1, <2>2, ListerType, NoOutputIsOutput, FinishKeeps
          DEF SetCap
<1>11. ASSUME Inform PROVE LayerInv'
  <2>1. ContextTypeOK'
    BY <1>1, <1>11, SetSurroundingTextType DEF Inform
  <2> QED BY <1>11, <2>1, ClientKeeps DEF Inform, SetSurroundingText
<1>12. ASSUME Fallback PROVE LayerInv'
  <2>1. ContextTypeOK'
    BY <1>1, <1>12, ClientActsType DEF Fallback
  <2> QED BY <1>12, <2>1, ClientKeeps DEF Fallback, ClientActs
<1>13. CASE UNCHANGED vars
  <2>1. ContextTypeOK'
    BY <1>1, <1>13 DEF vars, contextVars, ContextTypeOK
  <2> QED BY <1>13, <2>1, ClientKeeps DEF vars, contextVars
<1> QED
  BY <1>3, <1>4, <1>5, <1>6, <1>7, <1>8, <1>9, <1>10, <1>11, <1>12, <1>13 DEF Next

LEMMA LayerInductive == Spec => []LayerInv
BY LayerInit, LayerNext, PTL DEF Spec

\* Whatever adapter lies behind the seam, and whichever of its calls fail, the
\* list never outgrows the cap in force and the highlight never leaves it
\* (materialize_candidates).
THEOREM HighlightSafe == Spec => []CursorOnList
<1>1. LayerInv => CursorOnList
  BY DEF LayerInv
<1> QED BY <1>1, LayerInductive, PTL

\* What the client was last handed is what the library holds and no output waits
\* for a later call, except between a failed call and the reset after it
\* (refresh_composition, pathime_context_reset).
THEOREM NothingUnannounced == Spec => []ClientUpToDate
<1>1. LayerInv => ClientUpToDate
  BY DEF LayerInv
<1> QED BY <1>1, LayerInductive, PTL
================================================================================
