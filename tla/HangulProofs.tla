------------------------------ MODULE HangulProofs ------------------------------
(***************************************************************************)
(* Proofs about the Hangul adapter, for every set of scalars, syllables    *)
(* and finished texts, every bound, and documents of any length.           *)
(*                                                                         *)
(* Type correctness and the announcement of every change hold under every  *)
(* policy of the client.  What relates the document to the syllable needs  *)
(* a careful client (Careful below); the run HangulSwitch shows what       *)
(* becomes of it when the option changes in the middle of a syllable.      *)
(***************************************************************************)
EXTENDS HangulProperties, ContextProofs

StateType == [model : Model, out : AdapterOutput, written : Text]
IcType == [committed : Text, preedit : Text]

-------------------------------------------------------------------------------
(* Types.                                                                  *)

LEMMA NoOutputType == NoOutput \in AdapterOutput
BY EmptyText DEF NoOutput, AdapterOutput, Output

\* What libhangul reports are texts.
LEMMA IcReports ==
  ASSUME NEW pending \in Text
  PROVE  /\ HicTakes(pending) \subseteq IcType
         /\ HicDeclines(pending) \in IcType
         /\ HicBackspaces \subseteq IcType
BY TextsAssumption, EmptyText DEF HicTakes, HicDeclines, HicBackspaces, IcType

LEMMA EnteringType ==
  ASSUME TypeOK
  PROVE  /\ Entering \in StateType
         /\ Entering.model = model
         /\ Entering.out = NoOutput
         /\ Entering.written = IF Revisable THEN inDocument ELSE <<>>
         /\ Pending \in Text
BY NoOutputType, EmptyText
   DEF Entering, Pending, State, StateType, TypeOK, ContextTypeOK

\* What harvest makes of an output in "none" mode.
LEMMA ReplaceOutput ==
  ASSUME NEW out \in AdapterOutput, NEW n \in Nat, NEW text \in Text
  PROVE  [out EXCEPT !.offset = -n, !.count = n, !.commit = text]
           \in AdapterOutput
<1> DEFINE k == -n
           new == [out EXCEPT !.offset = k, !.count = n, !.commit = text]
<1>1. out \in [commit : Text, offset : Int, count : Nat]
  BY DEF AdapterOutput, Output
<1>2. k \in Int
  OBVIOUS
<1> HIDE DEF k
<1>3. new \in [commit : Text, offset : Int, count : Nat]
  BY <1>1, <1>2
<1>4. new.offset = k /\ new.count = n
  BY <1>1
<1> QED BY <1>3, <1>4 DEF AdapterOutput, Output, k

LEMMA HarvestType ==
  ASSUME TypeOK, NEW ic \in IcType, NEW st \in StateType
  PROVE  Harvest(ic, st) \in StateType
<1>1. /\ st.model \in Model /\ st.out \in AdapterOutput /\ st.written \in Text
      /\ ic.committed \in Text /\ ic.preedit \in Text
  BY DEF StateType, IcType
<1>2. /\ st.model.settled \in Text
      /\ st.model.settled \o ic.committed \in Text
      /\ st.out.commit \in Text
      /\ st.out.commit \o ic.committed \in Text
      /\ (st.out.commit \o ic.committed) \o ic.preedit \in Text
  BY <1>1, ConcatText DEF Model, AdapterOutput, Output
<1>3. CASE mode = "none"
  <2>1. Len(st.written) \in Nat
    BY <1>1, TextIsSequence
  <2>2. [st.model EXCEPT !.active = <<>>] \in Model
    BY <1>1, EmptyText DEF Model
  <2>3. [st.out EXCEPT !.offset = -StaleLength(st.written),
                       !.count  = StaleLength(st.written),
                       !.commit = @ \o ic.committed \o ic.preedit]
          \in AdapterOutput
    BY <1>1, <1>2, <2>1, ReplaceOutput DEF StaleLength
  <2> QED BY <1>1, <1>3, <2>2, <2>3 DEF Harvest, State, StateType
<1>4. CASE mode = "word"
  <2>1. [st.model EXCEPT !.settled = @ \o ic.committed,
                         !.active = ic.preedit] \in Model
    BY <1>1, <1>2 DEF Model
  <2> QED BY <1>1, <1>4, <2>1 DEF Harvest, State, StateType
<1>5. CASE mode = "syllable"
  <2>1. [st.model EXCEPT !.active = ic.preedit] \in Model
    BY <1>1 DEF Model
  <2>2. [st.out EXCEPT !.commit = @ \o ic.committed] \in AdapterOutput
    BY <1>1, <1>2 DEF AdapterOutput, Output
  <2> QED BY <1>1, <1>5, <2>1, <2>2 DEF Harvest, State, StateType
<1> QED BY <1>3, <1>4, <1>5 DEF TypeOK, Mode

LEMMA EndCompositionType ==
  ASSUME NEW flushed \in Text, NEW st \in StateType
  PROVE  /\ EndComposition(flushed, st) \in StateType
         /\ EndComposition(flushed, st).model.active = <<>>
         /\ EndComposition(flushed, st).written = <<>>
         /\ EndComposition(flushed, st).model.settled
              = IF st.written = <<>> THEN <<>> ELSE st.model.settled
<1>1. /\ st.model \in Model /\ st.out \in AdapterOutput /\ st.written \in Text
  BY DEF StateType
<1>2. /\ st.model.settled \in Text
      /\ st.out.commit \in Text
      /\ (st.out.commit \o st.model.settled) \o flushed \in Text
  BY <1>1, ConcatText DEF Model, AdapterOutput, Output
<1>3. /\ [st.model EXCEPT !.active = <<>>] \in Model
      /\ [st.model EXCEPT !.settled = <<>>, !.active = <<>>] \in Model
  BY <1>1, EmptyText DEF Model
<1>4. [st.out EXCEPT !.commit = @ \o st.model.settled \o flushed]
        \in AdapterOutput
  BY <1>1, <1>2 DEF AdapterOutput, Output
<1>5. CASE st.written = <<>>
  BY <1>1, <1>3, <1>4, <1>5, EmptyText DEF EndComposition, State, StateType, Model
<1>6. CASE st.written # <<>>
  BY <1>1, <1>3, <1>6, EmptyText DEF EndComposition, State, StateType, Model
<1> QED BY <1>5, <1>6

\* Leaving the adapter keeps every type but those of what the client owes.
LEMMA LeaveType ==
  ASSUME TypeOK, NEW st \in StateType, NEW pending \in Text,
         NEW force \in BOOLEAN, Leave(st, pending, force),
         owed' \in {"nothing", "insert", "erase"}, engaged' \in BOOLEAN
  PROVE  TypeOK'
<1>1. st.model \in Model /\ st.out \in AdapterOutput /\ st.written \in Text
  BY DEF StateType
<1>2. ContextTypeOK /\ Refresh(st.model, st.out, force)
  BY DEF TypeOK, Leave
<1>3. ContextTypeOK'
  BY <1>1, <1>2, RefreshType DEF ContextTypeOK
<1> QED BY <1>1, <1>3 DEF TypeOK, Leave

LEMMA InitType == Init => TypeOK
<1>1. EmptyModel \in Model /\ Project(EmptyModel) \in Flat
  BY EmptyModelType, ProjectType
<1>2. NoSnapshot \in Snapshot
  BY EmptyText DEF NoSnapshot, Snapshot
<1>3. <<>> \in Text /\ <<>> \in Seq(Call)
  BY EmptyText, EmptySeq
<1> QED BY <1>1, <1>2, <1>3 DEF Init, ContextInit, TypeOK, ContextTypeOK

LEMMA NextType == TypeOK /\ [Next]_vars => TypeOK'
<1> SUFFICES ASSUME TypeOK, [Next]_vars PROVE TypeOK'
  OBVIOUS
<1>1. ContextTypeOK /\ model \in Model /\ hic \in Text /\ inDocument \in Text
  BY DEF TypeOK, ContextTypeOK
<1>2. Entering \in StateType /\ Pending \in Text
  BY EnteringType
<1>3. ASSUME TypeJamo PROVE TypeOK'
  <2>1. PICK ic \in HicTakes(Pending) :
          Leave(Harvest(ic, Entering), ic.preedit, FALSE)
    BY <1>3 DEF TypeJamo
  <2>2. ic \in IcType /\ ic.preedit \in Text
    BY <1>2, IcReports DEF IcType
  <2> QED BY <1>2, <1>3, <2>1, <2>2, HarvestType, LeaveType DEF TypeJamo, Handled
<1>4. ASSUME TypeDeclined PROVE TypeOK'
  <2> DEFINE ended == EndComposition(<<>>, Harvest(HicDeclines(Pending), Entering))
  <2>1. ended \in StateType
    BY <1>2, IcReports, HarvestType, EmptyText, EndCompositionType
  <2>2. Leave(ended, <<>>, FALSE)
    BY <1>4 DEF TypeDeclined
  <2> HIDE DEF ended
  <2> QED BY <1>4, <2>1, <2>2, EmptyText, LeaveType DEF TypeDeclined, Unhandled
<1>5. ASSUME TypeOther PROVE TypeOK'
  <2>1. EndComposition(Pending, Entering) \in StateType
    BY <1>2, EndCompositionType
  <2> QED BY <1>5, <2>1, EmptyText, LeaveType DEF TypeOther, Unhandled
<1>6. ASSUME BackspacePending PROVE TypeOK'
  <2>1. PICK ic \in HicBackspaces :
          Leave(Harvest(ic, Entering), ic.preedit, FALSE)
    BY <1>6 DEF BackspacePending
  <2>2. ic \in IcType /\ ic.preedit \in Text
    BY <1>2, IcReports DEF IcType
  <2> QED BY <1>2, <1>6, <2>1, <2>2, HarvestType, LeaveType
          DEF BackspacePending, Handled
<1>7. ASSUME BackspaceSettled PROVE TypeOK'
  <2> DEFINE shorter == [Entering EXCEPT !.model.settled = SubSeq(@, 1, Len(@) - 1)]
  <2>1. Entering.model = model /\ model.settled \in Text
    BY <1>1, EnteringType DEF Model
  <2>2. SubSeq(model.settled, 1, Len(model.settled) - 1) \in Text
    BY <2>1, ButLast
  <2>3. shorter \in StateType
    BY <1>2, <2>1, <2>2 DEF StateType, Model
  <2>4. Leave(shorter, <<>>, FALSE)
    BY <1>7 DEF BackspaceSettled
  <2> HIDE DEF shorter
  <2> QED BY <1>7, <2>3, <2>4, EmptyText, LeaveType DEF BackspaceSettled, Handled
<1>8. ASSUME BackspaceDeclined PROVE TypeOK'
  BY <1>2, <1>8, EmptyText, LeaveType DEF BackspaceDeclined, Unhandled
<1>9. ASSUME Commit PROVE TypeOK'
  <2> DEFINE st == State(model, NoOutput, inDocument)
  <2>1. st \in StateType
    BY <1>1, NoOutputType DEF State, StateType
  <2>2. EndComposition(hic, st) \in StateType
    BY <1>1, <2>1, EndCompositionType
  <2> QED BY <1>9, <2>2, EmptyText, LeaveType DEF Commit
<1>10. ASSUME Reset PROVE TypeOK'
  <2>1. State(EmptyModel, NoOutput, <<>>) \in StateType
    BY EmptyModelType, NoOutputType, EmptyText DEF State, StateType
  <2> QED BY <1>10, <2>1, EmptyText, LeaveType DEF Reset
<1>11. ASSUME SetMode PROVE TypeOK'
  <2>1. Refresh(model, NoOutput, TRUE)
    BY <1>11 DEF SetMode
  <2> QED BY <1>1, <1>11, <2>1, NoOutputType, RefreshType
          DEF SetMode, TypeOK, ContextTypeOK
<1>12. ASSUME Inform PROVE TypeOK'
  BY <1>1, <1>12, SetSurroundingTextType DEF Inform, hangulVars, TypeOK
<1>13. ASSUME Fallback PROVE TypeOK'
  BY <1>1, <1>13, ClientActsType DEF Fallback, hangulVars, TypeOK
<1>14. ASSUME Wander PROVE TypeOK'
  <2>1. PICK k \in 0..(Len(before) + Len(after)) :
          /\ before' = SubSeq(before \o after, 1, k)
          /\ after' = SubSeq(before \o after, k + 1, Len(before) + Len(after))
    BY <1>14 DEF Wander, MoveCaret
  <2>2. before' \in Text /\ after' \in Text
    <3>1. /\ before \o after \in Text
          /\ Len(before \o after) = Len(before) + Len(after)
          /\ Len(before) \in Nat /\ Len(after) \in Nat
      BY <1>1, TextIsSequence, ConcatText DEF ContextTypeOK
    <3> QED BY <2>1, <3>1, SplitText
  <2>3. Len(before') \in 0..Len(before') /\ Len(after') \in 0..Len(after')
    BY <2>2, TextIsSequence
  <2>4. Around(before', after', Len(before'), Len(after')) \in Snapshot
    BY <2>2, <2>3, AroundType
  <2>5. snapshot' \in Snapshot
    BY <1>1, <1>14, <2>4 DEF Wander, ContextTypeOK
  <2> QED BY <1>1, <1>14, <2>5, MoveCaretType DEF Wander, hangulVars, TypeOK
<1>15. CASE UNCHANGED vars
  BY <1>15 DEF vars, contextVars, hangulVars, TypeOK, ContextTypeOK
<1> QED
  BY <1>3, <1>4, <1>5, <1>6, <1>7, <1>8, <1>9, <1>10, <1>11, <1>12, <1>13,
     <1>14, <1>15 DEF Next

\* Every variable keeps its type, whatever the client does: every deletion the
\* adapter asks for ends at the caret, so what is left is still a text.
THEOREM TypeCorrect == Spec => []TypeOK
BY InitType, NextType, PTL DEF Spec

-------------------------------------------------------------------------------
(* What the client has been shown.                                         *)

\* No change of the composition goes unannounced, whatever the client does
\* (refresh_composition's comparison).
THEOREM Announced == Spec => []ClientUpToDate
<1>1. Init => ClientUpToDate
  BY DEF Init, ContextInit, ClientUpToDate
<1>2. ClientUpToDate /\ [Next]_vars => ClientUpToDate'
  <2> SUFFICES ASSUME ClientUpToDate, [Next]_vars PROVE ClientUpToDate'
    OBVIOUS
  <2>1. ASSUME NEW st, NEW pending, NEW force, Leave(st, pending, force)
        PROVE  ClientUpToDate'
    BY <2>1, RefreshShows DEF Leave, ClientUpToDate
  <2>2. ASSUME \/ TypeJamo \/ TypeDeclined \/ TypeOther
               \/ BackspacePending \/ BackspaceSettled \/ BackspaceDeclined
               \/ Commit \/ Reset
        PROVE  ClientUpToDate'
    BY <2>1, <2>2 DEF TypeJamo, TypeDeclined, TypeOther, BackspacePending,
                      BackspaceSettled, BackspaceDeclined, Commit, Reset
  <2>3. ASSUME SetMode PROVE ClientUpToDate'
    BY <2>3, RefreshShows DEF SetMode, ClientUpToDate
  <2>4. ASSUME Inform \/ Fallback \/ Wander \/ UNCHANGED vars
        PROVE  ClientUpToDate'
    BY <2>4 DEF Inform, SetSurroundingText, Fallback, ClientActs, Wander,
                MoveCaret, vars, contextVars, ClientUpToDate
  <2> QED BY <2>2, <2>3, <2>4 DEF Next
<1> QED BY <1>1, <1>2, PTL DEF Spec

-------------------------------------------------------------------------------
(* The syllable and the document.                                          *)

\* A client that ends the composition before it moves the caret, and before it
\* changes the preedit option other than from "syllable" to "word".
Careful == SwitchMidway \subseteq {<<"syllable", "word">>} /\ ~CaretByPreedit

\* The inductive invariant.  The second conjunct is the one to be shown; it is
\* kept across the client's own edits only because they are made when nothing
\* is held, which is what the others say.
Inv ==
  /\ TypeOK
  /\ SyllableAccountedFor
  /\ ~engaged => hic = <<>> /\ model.settled = <<>>
  /\ owed # "nothing" => ~engaged
  /\ published = Project(model)
  /\ model.tail = <<>>

\* The state between two compositions.
Ended == /\ hic = <<>> /\ inDocument = <<>>
         /\ model.settled = <<>> /\ model.active = <<>> /\ model.tail = <<>>

\* The document left of the written syllable.
Kept == SubSeq(before, 1, Len(before) - Len(inDocument))

LEMMA KeptType ==
  ASSUME TypeOK, SyllableAccountedFor, mode = "none"
  PROVE  Kept \in Text /\ before = Kept \o inDocument
<1>1. before \in Text /\ inDocument \in Text
  BY DEF TypeOK, ContextTypeOK
<1>2. before = Kept \o inDocument
  BY DEF SyllableAccountedFor, Kept
<1>3. Len(before) \in Nat /\ Len(inDocument) \in Nat
  BY <1>1, TextIsSequence
<1>4. Kept \in Text
  BY <1>1, <1>3, SubText DEF Kept
<1> QED BY <1>2, <1>4

\* With nothing held every mode is accounted for.
LEMMA EndedAccounted ==
  ASSUME TypeOK', Ended'
  PROVE  SyllableAccountedFor'
<1>1. before' \in Text /\ inDocument' = <<>>
  BY DEF TypeOK, ContextTypeOK, Ended
<1>2. Len(before') \in Nat /\ Len(inDocument') = 0
  BY <1>1, TextIsSequence, EmptyText
<1>3. SubSeq(before', 1, Len(before') - Len(inDocument')) = before'
  BY <1>1, <1>2, SubSeqFull DEF Text
<1>4. before' \o inDocument' = before'
  BY <1>1, ConcatText
<1> QED BY <1>1, <1>3, <1>4 DEF Ended, SyllableAccountedFor

LEMMA IdleEnded ==
  ASSUME Inv, ~engaged
  PROVE  Ended
BY DEF Inv, TypeOK, Mode, SyllableAccountedFor, Ended

\* The adapter's deletion, if there is one, takes the written syllable.
LEMMA DeletionTakesSyllable ==
  ASSUME Inv, NEW out \in AdapterOutput,
         out.count \in {0, Len(inDocument)},
         mode # "none" => out.count = 0, Deletes(out)
  PROVE  /\ mode = "none"
         /\ Removed(before, out.offset, out.count) = inDocument
         /\ Remaining(before, out.offset, out.count) = Kept
<1>1. /\ mode = "none" /\ out.count = Len(inDocument)
      /\ out.offset = -Len(inDocument)
  BY DEF Deletes, AdapterOutput
<1>2. /\ Kept \in Text /\ before = Kept \o inDocument
      /\ inDocument \in Text
  BY <1>1, KeptType DEF Inv, TypeOK
<1> QED BY <1>1, <1>2, DeleteSuffix

\* What harvest makes of the state the adapter is entered in, mode by mode.
LEMMA HarvestOutcome ==
  ASSUME Inv, NEW ic \in IcType
  PROVE  LET st == Harvest(ic, Entering)
         IN /\ st.model.tail = <<>>
            /\ st.out.count \in {0, Len(inDocument)}
            /\ mode = "none" =>
                 /\ st.model.settled = <<>> /\ st.model.active = <<>>
                 /\ st.written = ic.preedit
                 /\ st.out.count = Len(Entering.written)
                 /\ st.out.commit = ic.committed \o ic.preedit
            /\ mode # "none" =>
                 /\ st.model.active = ic.preedit
                 /\ st.written = <<>>
                 /\ st.out.count = 0
            /\ mode = "syllable" =>
                 /\ st.model.settled = <<>>
                 /\ st.out.commit = ic.committed
            /\ mode = "word" =>
                 /\ st.model.settled = model.settled \o ic.committed
                 /\ st.out.commit = <<>>
<1> DEFINE st == Harvest(ic, Entering)
<1>1. /\ TypeOK /\ SyllableAccountedFor
      /\ model \in [settled : Text, active : Text, tail : Text,
                    candidates : Seq(Text), cursor : Nat]
      /\ model.tail = <<>>
  BY DEF Inv, TypeOK, ContextTypeOK, Model
<1>2. /\ Entering.model = model /\ Entering.out = NoOutput
      /\ Entering.written = IF Revisable THEN inDocument ELSE <<>>
  BY <1>1, EnteringType
<1>3. ic.committed \in Text /\ ic.preedit \in Text
  BY DEF IcType
<1>4. Len(Entering.written) \in {0, Len(inDocument)}
  BY <1>2, EmptyText
<1>5. /\ <<>> \o ic.committed = ic.committed
      /\ NoOutput.commit = <<>> /\ NoOutput.count = 0
  BY <1>3, ConcatText DEF NoOutput
<1>6. CASE mode = "none"
  <2>1. model.settled = <<>>
    BY <1>1, <1>6 DEF SyllableAccountedFor
  <2>2. st = State([model EXCEPT !.active = <<>>],
                   [NoOutput EXCEPT !.offset = -StaleLength(Entering.written),
                                    !.count  = StaleLength(Entering.written),
                                    !.commit = @ \o ic.committed \o ic.preedit],
                   ic.preedit)
    BY <1>2, <1>6 DEF Harvest
  <2>3. /\ st.model = [model EXCEPT !.active = <<>>]
        /\ st.out = [NoOutput EXCEPT !.offset = -StaleLength(Entering.written),
                                     !.count  = StaleLength(Entering.written),
                                     !.commit = @ \o ic.committed \o ic.preedit]
        /\ st.written = ic.preedit
    BY <2>2 DEF State
  <2> HIDE DEF st
  <2>4. /\ st.out.count = Len(Entering.written)
        /\ st.out.commit = (NoOutput.commit \o ic.committed) \o ic.preedit
    BY <2>3 DEF NoOutput, StaleLength
  <2>5. /\ st.model.settled = <<>> /\ st.model.active = <<>>
        /\ st.model.tail = <<>>
    BY <1>1, <2>1, <2>3
  <2> QED BY <1>4, <1>5, <1>6, <2>3, <2>4, <2>5 DEF st
<1>7. CASE mode = "word"
  <2>1. Entering.written = <<>>
    BY <1>1, <1>2, <1>7 DEF SyllableAccountedFor
  <2>2. /\ st.model = [model EXCEPT !.settled = @ \o ic.committed,
                                    !.active = ic.preedit]
        /\ st.out = NoOutput /\ st.written = <<>>
    BY <1>2, <1>7, <2>1 DEF Harvest, State
  <2> QED BY <1>1, <1>5, <1>7, <2>2
<1>8. CASE mode = "syllable"
  <2>1. Entering.written = <<>> /\ model.settled = <<>>
    BY <1>1, <1>2, <1>8 DEF SyllableAccountedFor
  <2>2. /\ st.model = [model EXCEPT !.active = ic.preedit]
        /\ st.out = [NoOutput EXCEPT !.commit = @ \o ic.committed]
        /\ st.written = <<>>
    BY <1>2, <1>8, <2>1 DEF Harvest, State
  <2>3. st.out.commit = <<>> \o ic.committed /\ st.out.count = 0
    BY <1>5, <2>2 DEF NoOutput
  <2> QED BY <1>1, <1>5, <1>8, <2>1, <2>2, <2>3
<1> QED BY <1>1, <1>6, <1>7, <1>8 DEF TypeOK, Mode

\* A key libhangul takes, or a Backspace it does, leaves the new syllable where
\* the mode puts it: in the document, next to the caret, or in the preedit.
LEMMA HarvestStep ==
  ASSUME Inv, NEW ic \in IcType, TypeOK',
         Leave(Harvest(ic, Entering), ic.preedit, FALSE)
  PROVE  SyllableAccountedFor' /\ model'.tail = <<>>
<1> DEFINE st == Harvest(ic, Entering)
<1>1. st \in StateType
  BY HarvestType, EnteringType DEF Inv
<1>2. /\ st.model \in Model /\ st.out \in AdapterOutput
      /\ ic.committed \in Text /\ ic.preedit \in Text
      /\ before \in Text
  BY <1>1 DEF StateType, IcType, Inv, TypeOK, ContextTypeOK
<1>3. /\ hic' = ic.preedit /\ inDocument' = st.written /\ mode' = mode
      /\ Refresh(st.model, st.out, FALSE)
  BY DEF Leave
<1>4. /\ st.model.tail = <<>>
      /\ mode = "none" =>
           /\ st.model.settled = <<>> /\ st.model.active = <<>>
           /\ st.written = ic.preedit
           /\ st.out.commit = ic.committed \o ic.preedit
      /\ mode # "none" => st.model.active = ic.preedit /\ st.written = <<>>
      /\ mode = "syllable" => st.model.settled = <<>>
  BY HarvestOutcome
<1> HIDE DEF st
<1>5. model' = st.model
  BY <1>3 DEF Refresh
<1>6. ASSUME mode = "none"
      PROVE  before' = SubSeq(before', 1, Len(before') - Len(inDocument'))
                         \o inDocument'
  <2> DEFINE cut == IF Deletes(st.out)
                    THEN Remaining(before, st.out.offset, st.out.count)
                    ELSE before
             base == cut \o ic.committed
  <2>1. cut \in Text
    BY <1>2, RemovedType DEF AdapterOutput, Output
  <2>2. before' = cut \o (ic.committed \o ic.preedit)
    BY <1>3, <1>4, <1>6 DEF Refresh
  <2> HIDE DEF cut
  <2>3. base \in Text /\ before' = base \o ic.preedit
    <3>1. ic.committed \in Text /\ ic.preedit \in Text
      BY <1>2
    <3>2. base \in Text
      BY <2>1, <3>1, ConcatText
    <3>3. (cut \o ic.committed) \o ic.preedit
            = cut \o (ic.committed \o ic.preedit)
      BY <2>1, <3>1, ConcatTexts
    <3> QED BY <2>2, <3>2, <3>3
  <2> HIDE DEF base
  <2>4. SubSeq(before', 1, Len(before') - Len(ic.preedit)) = base
    BY <1>2, <2>3, SuffixSplit
  <2> QED BY <1>3, <1>4, <1>6, <2>3, <2>4
<1> QED BY <1>3, <1>4, <1>5, <1>6 DEF SyllableAccountedFor

\* Ending the composition ends it in every mode.
LEMMA EndStep ==
  ASSUME Inv, NEW flushed \in Text, NEW st \in StateType,
         st.model.tail = <<>>,
         st.written # <<>> => st.model.settled = <<>>,
         NEW force, Leave(EndComposition(flushed, st), <<>>, force)
  PROVE  Ended'
<1>1. /\ EndComposition(flushed, st).model.active = <<>>
      /\ EndComposition(flushed, st).written = <<>>
      /\ EndComposition(flushed, st).model.settled = <<>>
  BY EndCompositionType
<1>2. EndComposition(flushed, st).model.tail = <<>>
  BY DEF EndComposition, State, StateType, Model
<1> QED BY <1>1, <1>2 DEF Ended, Leave, Refresh

\* Every step of a careful client preserves the invariant.
LEMMA NextInv ==
  ASSUME Careful
  PROVE  Inv /\ [Next]_vars => Inv'
<1> SUFFICES ASSUME Inv, [Next]_vars PROVE Inv'
  OBVIOUS
<1>1. /\ TypeOK /\ SyllableAccountedFor /\ model.tail = <<>>
      /\ published = Project(model)
      /\ owed # "nothing" => ~engaged
      /\ model \in Model /\ hic \in Text /\ inDocument \in Text
  BY DEF Inv, TypeOK, ContextTypeOK
<1>2. TypeOK'
  BY <1>1, NextType
<1>3. /\ Entering \in StateType /\ Pending \in Text
      /\ Entering.model = model /\ Entering.out = NoOutput
      /\ Entering.written = IF Revisable THEN inDocument ELSE <<>>
  BY <1>1, EnteringType
<1>4. ASSUME Ended', published' = Project(model'), owed' # "nothing" => ~engaged'
      PROVE  Inv'
  BY <1>2, <1>4, EndedAccounted DEF Inv, Ended
<1>5. ASSUME NEW st, NEW pending, NEW force, Leave(st, pending, force)
      PROVE  published' = Project(model')
  BY <1>5 DEF Leave, Refresh
<1>6. ASSUME TypeJamo PROVE Inv'
  <2>1. PICK ic \in HicTakes(Pending) :
          Leave(Harvest(ic, Entering), ic.preedit, FALSE)
    BY <1>6 DEF TypeJamo
  <2>2. ic \in IcType
    BY <1>3, IcReports
  <2>3. SyllableAccountedFor' /\ model'.tail = <<>>
    BY <1>2, <2>1, <2>2, HarvestStep
  <2> QED BY <1>2, <1>5, <1>6, <2>1, <2>3 DEF TypeJamo, Handled, Inv
<1>7. ASSUME TypeDeclined PROVE Inv'
  <2> DEFINE st == Harvest(HicDeclines(Pending), Entering)
  <2>1. HicDeclines(Pending) \in IcType /\ HicDeclines(Pending).preedit = <<>>
    BY <1>3, IcReports DEF HicDeclines
  <2>2. st \in StateType
    BY <1>1, <1>3, <2>1, HarvestType
  <2>3. st.model.tail = <<>> /\ st.written = <<>>
    BY <2>1, HarvestOutcome
  <2>4. Leave(EndComposition(<<>>, st), <<>>, FALSE)
    BY <1>7 DEF TypeDeclined
  <2> HIDE DEF st
  <2>5. Ended'
    BY <2>2, <2>3, <2>4, EndStep, EmptyText
  <2> QED BY <1>4, <1>5, <1>7, <2>4, <2>5 DEF TypeDeclined, Unhandled
<1>8. ASSUME TypeOther PROVE Inv'
  <2>1. Entering.written # <<>> => Entering.model.settled = <<>>
    BY <1>1, <1>3 DEF SyllableAccountedFor, TypeOK, Mode
  <2>2. Leave(EndComposition(Pending, Entering), <<>>, FALSE)
    BY <1>8 DEF TypeOther
  <2>3. Ended'
    BY <1>1, <1>3, <2>1, <2>2, EndStep
  <2> QED BY <1>4, <1>5, <1>8, <2>2, <2>3 DEF TypeOther, Unhandled
<1>9. ASSUME BackspacePending PROVE Inv'
  <2>1. PICK ic \in HicBackspaces :
          Leave(Harvest(ic, Entering), ic.preedit, FALSE)
    BY <1>9 DEF BackspacePending
  <2>2. ic \in IcType
    BY <1>3, IcReports
  <2>3. SyllableAccountedFor' /\ model'.tail = <<>>
    BY <1>2, <2>1, <2>2, HarvestStep
  <2> QED BY <1>2, <1>5, <1>9, <2>1, <2>3 DEF BackspacePending, Handled, Inv
<1>10. ASSUME BackspaceSettled PROVE Inv'
  <2> DEFINE shorter == [Entering EXCEPT !.model.settled = SubSeq(@, 1, Len(@) - 1)]
  <2>1. mode = "word" /\ inDocument = <<>> /\ Pending = <<>>
    BY <1>1, <1>10 DEF BackspaceSettled, SyllableAccountedFor
  <2>2. hic = <<>> /\ Entering.written = <<>>
    BY <1>3, <2>1 DEF Pending, Revisable
  <2>3. /\ shorter.model.active = model.active /\ shorter.model.tail = model.tail
        /\ shorter.written = Entering.written
    BY <1>3 DEF StateType, Model
  <2>4. Leave(shorter, <<>>, FALSE)
    BY <1>10 DEF BackspaceSettled
  <2> HIDE DEF shorter
  <2>5. /\ model'.active = model.active /\ model'.tail = model.tail
        /\ inDocument' = <<>> /\ hic' = <<>> /\ mode' = "word"
    BY <2>1, <2>2, <2>3, <2>4 DEF Leave, Refresh
  <2>6. SyllableAccountedFor'
    BY <1>1, <2>1, <2>2, <2>5 DEF SyllableAccountedFor
  <2> QED BY <1>1, <1>2, <1>5, <1>10, <2>4, <2>5, <2>6
          DEF BackspaceSettled, Handled, Inv
<1>11. ASSUME BackspaceDeclined PROVE Inv'
  <2>1. Leave(Entering, <<>>, FALSE) /\ Pending = <<>>
        /\ (mode # "word" \/ model.settled = <<>>)
    BY <1>11 DEF BackspaceDeclined
  <2>2. model' = model /\ hic' = <<>> /\ inDocument' = Entering.written
    BY <1>3, <2>1 DEF Leave, Refresh
  <2>3. Ended'
    BY <1>1, <1>3, <2>1, <2>2
       DEF SyllableAccountedFor, Pending, Revisable, TypeOK, Mode, Ended
  <2> QED BY <1>4, <1>5, <1>11, <2>1, <2>3 DEF BackspaceDeclined, Unhandled
<1>12. ASSUME Commit PROVE Inv'
  <2> DEFINE st == State(model, NoOutput, inDocument)
  <2>1. /\ st \in StateType /\ st.model = model /\ st.written = inDocument
    BY <1>1, NoOutputType DEF State, StateType
  <2>2. Leave(EndComposition(hic, st), <<>>, FALSE)
    BY <1>12 DEF Commit
  <2> HIDE DEF st
  <2>3. inDocument # <<>> => model.settled = <<>>
    BY <1>1 DEF SyllableAccountedFor, TypeOK, Mode
  <2>4. Ended'
    BY <1>1, <2>1, <2>2, <2>3, EndStep
  <2> QED BY <1>4, <1>5, <1>12, <2>2, <2>4 DEF Commit
<1>13. ASSUME Reset PROVE Inv'
  <2>1. Leave(State(EmptyModel, NoOutput, <<>>), <<>>, FALSE)
    BY <1>13 DEF Reset
  <2>2. Ended'
    BY <2>1 DEF Leave, Refresh, State, EmptyModel, Ended
  <2> QED BY <1>4, <1>5, <1>13, <2>1, <2>2 DEF Reset
<1>14. ASSUME SetMode PROVE Inv'
  <2>1. /\ Refresh(model, NoOutput, TRUE) /\ hic' = hic /\ inDocument' = inDocument
        /\ model' = model /\ engaged' = engaged /\ owed' = owed
        /\ published' = Project(model')
        /\ engaged => mode = "syllable" /\ mode' = "word"
    BY <1>14 DEF SetMode, Refresh, Careful
  <2>2. CASE ~engaged
    <3>1. Ended
      BY <2>2, IdleEnded
    <3>2. Ended'
      BY <2>1, <3>1 DEF Ended
    <3> QED BY <1>1, <1>4, <2>1, <3>2
  <2>3. CASE engaged
    BY <1>1, <1>2, <2>1, <2>3 DEF SyllableAccountedFor, Inv
  <2> QED BY <2>2, <2>3
<1>15. ASSUME Inform PROVE Inv'
  BY <1>1, <1>2, <1>15
     DEF Inform, SetSurroundingText, hangulVars, Inv, SyllableAccountedFor
<1>16. ASSUME Fallback PROVE Inv'
  <2>1. ~engaged
    BY <1>1, <1>16 DEF Fallback, ClientActs
  <2>2. Ended
    BY <2>1, IdleEnded
  <2>3. Ended' /\ published' = Project(model') /\ owed' = "nothing"
    BY <1>1, <1>16, <2>2 DEF Fallback, ClientActs, hangulVars, Ended
  <2> QED BY <1>4, <2>3
<1>17. ASSUME Wander PROVE Inv'
  <2>1. ~engaged
    BY <1>17 DEF Wander, Careful
  <2>2. Ended
    BY <2>1, IdleEnded
  <2>3. /\ Ended' /\ published' = Project(model')
        /\ engaged' = engaged /\ owed' = owed
    BY <1>1, <1>17, <2>2 DEF Wander, MoveCaret, hangulVars, Ended
  <2> QED BY <1>1, <1>4, <2>3
<1>18. CASE UNCHANGED vars
  BY <1>1, <1>2, <1>18
     DEF vars, contextVars, hangulVars, Inv, SyllableAccountedFor
<1> QED
  BY <1>6, <1>7, <1>8, <1>9, <1>10, <1>11, <1>12, <1>13, <1>14, <1>15, <1>16,
     <1>17, <1>18 DEF Next

LEMMA InitInv == Init => Inv
<1> SUFFICES ASSUME Init PROVE Inv
  OBVIOUS
<1>1. /\ hic = <<>> /\ inDocument = <<>> /\ before = <<>> /\ owed = "nothing"
      /\ model = EmptyModel /\ published = Project(model)
  BY DEF Init, ContextInit
<1>2. /\ model.settled = <<>> /\ model.active = <<>> /\ model.tail = <<>>
  BY <1>1 DEF EmptyModel
<1>3. before = SubSeq(before, 1, Len(before) - Len(inDocument)) \o inDocument
  <2>1. SubSeq(before, 1, Len(before) - Len(inDocument)) = <<>>
    BY <1>1, EmptyText, SubSeqEmpty
  <2> QED BY <1>1, <2>1, EmptyText, ConcatText
<1> QED BY <1>1, <1>2, <1>3, InitType DEF Inv, SyllableAccountedFor

LEMMA Inductive ==
  ASSUME Careful
  PROVE  Spec => []Inv
BY InitInv, NextInv, PTL DEF Spec

\* The adapter's, libhangul's and the document's account of the syllable agree
\* in every mode (in_document_, harvest, prepare_revision, end_composition).
THEOREM SyllableTracked ==
  ASSUME Careful
  PROVE  Spec => []SyllableAccountedFor
<1>1. Inv => SyllableAccountedFor
  BY DEF Inv
<1> QED BY <1>1, Inductive, PTL

\* With no handled key outstanding nothing is held back or still tracked.
THEOREM NothingLeftBehind ==
  ASSUME Careful
  PROVE  Spec => []IdleHoldsNothing
<1>1. Inv => IdleHoldsNothing
  <2> SUFFICES ASSUME Inv, ~engaged
               PROVE hic = <<>> /\ inDocument = <<>> /\ published.preedit = <<>>
    BY DEF IdleHoldsNothing
  <2>1. Ended /\ published = Project(model)
    BY IdleEnded DEF Inv
  <2>2. published.preedit = (<<>> \o <<>>) \o <<>>
    BY <2>1 DEF Ended, Project
  <2> QED BY <2>1, <2>2, EmptyText, ConcatText DEF Ended
<1> QED BY <1>1, Inductive, PTL

\* The dispatch step deletes nothing but the written syllable, if its output is
\* one the adapter makes.
LEMMA StepDeletes ==
  ASSUME Inv, NEW m, NEW out \in AdapterOutput, NEW force,
         Refresh(m, out, force),
         out.count \in {0, Len(inDocument)}, mode # "none" => out.count = 0
  PROVE  \A i \in DOMAIN calls' :
           calls'[i].cb = "delete" => calls'[i].text = inDocument
<1> SUFFICES ASSUME NEW i \in DOMAIN calls', calls'[i].cb = "delete"
             PROVE  calls'[i].text = inDocument
  OBVIOUS
<1>1. /\ Deletes(out)
      /\ calls'[i].text = Removed(before, out.offset, out.count)
  BY RefreshDeletes
<1> QED BY <1>1, DeletionTakesSyllable

\* end_composition leaves a deletion as it found it.
LEMMA EndKeepsDeletion ==
  ASSUME NEW flushed, NEW st \in StateType
  PROVE  EndComposition(flushed, st).out.count = st.out.count
<1>1. st.out \in [commit : Text, offset : Int, count : Nat]
  BY DEF StateType, AdapterOutput, Output
<1> QED BY <1>1 DEF EndComposition, State

\* A careful client is never asked to delete text of its own: every deletion
\* takes exactly the provisional syllable, however stale the snapshot.
THEOREM DeletionsSafe ==
  ASSUME Careful
  PROVE  Spec => DeletesOnlyItsSyllable
<1>1. Inv /\ [Next]_vars =>
        [\A i \in DOMAIN calls' :
           calls'[i].cb = "delete" => calls'[i].text = inDocument]_vars
  <2> SUFFICES ASSUME Inv, Next
               PROVE  \A i \in DOMAIN calls' :
                        calls'[i].cb = "delete" => calls'[i].text = inDocument
    OBVIOUS
  <2> DEFINE Only == \A i \in DOMAIN calls' :
                       calls'[i].cb = "delete" => calls'[i].text = inDocument
  <2>1. /\ TypeOK /\ model \in Model /\ hic \in Text /\ inDocument \in Text
        /\ Entering \in StateType /\ Pending \in Text
        /\ Entering.out = NoOutput
    BY EnteringType DEF Inv, TypeOK, ContextTypeOK
  <2>2. ASSUME NEW ic \in IcType
        PROVE  /\ Harvest(ic, Entering) \in StateType
               /\ Harvest(ic, Entering).out.count \in {0, Len(inDocument)}
               /\ mode # "none" => Harvest(ic, Entering).out.count = 0
    BY <2>1, HarvestType, HarvestOutcome
  <2>3. ASSUME NEW st \in StateType, NEW pending, NEW force,
               Leave(st, pending, force),
               st.out.count \in {0, Len(inDocument)},
               mode # "none" => st.out.count = 0
        PROVE  Only
    <3>1. st.out \in AdapterOutput /\ Refresh(st.model, st.out, force)
      BY <2>3 DEF StateType, Leave
    <3> QED BY <2>3, <3>1, StepDeletes
  <2>4. ASSUME NEW st \in StateType, NEW pending, NEW force,
               Leave(st, pending, force), st.out.count = 0
        PROVE  Only
    BY <2>3, <2>4
  <2>5. NoOutput \in AdapterOutput /\ NoOutput.count = 0
    BY NoOutputType DEF NoOutput
  <2> HIDE DEF Only
  <2>6. ASSUME TypeJamo \/ BackspacePending PROVE Only
    <3>1. PICK ic \in IcType : Leave(Harvest(ic, Entering), ic.preedit, FALSE)
      BY <2>1, <2>6, IcReports DEF TypeJamo, BackspacePending
    <3> QED BY <2>2, <2>3, <3>1
  <2>7. ASSUME TypeDeclined PROVE Only
    <3> DEFINE ended == EndComposition(<<>>, Harvest(HicDeclines(Pending), Entering))
    <3>1. /\ ended \in StateType
          /\ ended.out.count = Harvest(HicDeclines(Pending), Entering).out.count
      BY <2>1, <2>2, IcReports, EmptyText, EndCompositionType, EndKeepsDeletion
    <3>2. Leave(ended, <<>>, FALSE)
      BY <2>7 DEF TypeDeclined
    <3>3. /\ ended.out.count \in {0, Len(inDocument)}
          /\ mode # "none" => ended.out.count = 0
      BY <2>1, <2>2, <3>1, IcReports
    <3> HIDE DEF ended
    <3> QED BY <2>3, <3>1, <3>2, <3>3
  <2>8. ASSUME TypeOther PROVE Only
    <3>1. /\ EndComposition(Pending, Entering) \in StateType
          /\ EndComposition(Pending, Entering).out.count = 0
      BY <2>1, <2>5, EndCompositionType, EndKeepsDeletion
    <3> QED BY <2>4, <2>8, <3>1 DEF TypeOther
  <2>9. ASSUME BackspaceSettled PROVE Only
    <3> DEFINE shorter == [Entering EXCEPT !.model.settled = SubSeq(@, 1, Len(@) - 1)]
    <3>1. Entering.model \in Model /\ Entering.model.settled \in Text
      BY <2>1 DEF StateType, Model
    <3>2. SubSeq(Entering.model.settled, 1, Len(Entering.model.settled) - 1) \in Text
      BY <3>1, ButLast
    <3>3. shorter \in StateType /\ shorter.out.count = 0
      BY <2>1, <2>5, <3>1, <3>2 DEF StateType, Model
    <3>4. Leave(shorter, <<>>, FALSE)
      BY <2>9 DEF BackspaceSettled
    <3> HIDE DEF shorter
    <3> QED BY <2>4, <3>3, <3>4
  <2>10. ASSUME BackspaceDeclined PROVE Only
    <3>1. Entering.out.count = 0 /\ Leave(Entering, <<>>, FALSE)
      BY <2>1, <2>5, <2>10 DEF BackspaceDeclined
    <3> QED BY <2>1, <2>4, <3>1
  <2>11. ASSUME Commit PROVE Only
    <3> DEFINE st == State(model, NoOutput, inDocument)
    <3>1. st \in StateType /\ st.out = NoOutput
      BY <2>1, <2>5 DEF State, StateType
    <3>2. EndComposition(hic, st) \in StateType
          /\ EndComposition(hic, st).out.count = 0
      BY <2>1, <2>5, <3>1, EndCompositionType, EndKeepsDeletion
    <3>3. Leave(EndComposition(hic, st), <<>>, FALSE)
      BY <2>11 DEF Commit
    <3> QED BY <2>4, <3>2, <3>3
  <2>12. ASSUME Reset PROVE Only
    <3>1. /\ State(EmptyModel, NoOutput, <<>>) \in StateType
          /\ State(EmptyModel, NoOutput, <<>>).out.count = 0
      BY <2>5, EmptyModelType, EmptyText DEF State, StateType
    <3> QED BY <2>4, <2>12, <3>1 DEF Reset
  <2>13. ASSUME SetMode PROVE Only
    BY <2>5, <2>13, StepDeletes DEF SetMode, Only
  <2>14. ASSUME Inform \/ Fallback \/ Wander PROVE Only
    BY <2>14 DEF Inform, SetSurroundingText, Fallback, ClientActs, Wander,
                 MoveCaret, Only
  <2> QED BY <2>6, <2>7, <2>8, <2>9, <2>10, <2>11, <2>12, <2>13, <2>14
          DEF Next, Only
<1> QED BY <1>1, Inductive, PTL DEF Spec, DeletesOnlyItsSyllable

-------------------------------------------------------------------------------
(* The adapter implements VisibleText: whatever the mode, whatever         *)
(* libhangul reports and however stale the snapshot, a careful client sees *)
(* a line in which nothing left of the open syllable is rewritten,         *)
(* reordered or lost.                                                      *)
(*                                                                         *)
(* A step is mapped in two moves: the call is shown to turn the line       *)
(* Base \o hic into Base \o X \o hic', and what was delivered to grow at   *)
(* its end; ReviseStep then finds the abstract action.                     *)

\* The line left of the open syllable, and the part of it no deletion reaches.
Base  == IF mode = "none" THEN Kept ELSE before \o model.settled
Fixed == IF mode = "none" THEN Kept ELSE before

-------------------------------------------------------------------------------
(* Prefixes and ends of texts.                                             *)

LEMMA PrefixOfConcat ==
  ASSUME NEW s \in Text, NEW t \in Text
  PROVE  Line!IsPrefix(s, s \o t)
<1>1. Len(s) \in Nat /\ Len(t) \in Nat /\ Len(s \o t) = Len(s) + Len(t)
  BY TextIsSequence, ConcatText
<1>2. SubSeq(s \o t, 1, Len(s \o t) - Len(t)) = s
  BY SuffixSplit
<1>3. SubSeq(s, 1, Len(s)) = s
  BY SubSeqFull DEF Text
<1>4. Len(s \o t) - Len(t) = Len(s)
  BY <1>1
<1> QED BY <1>1, <1>2, <1>3, <1>4 DEF Line!IsPrefix

LEMMA PrefixOfItself ==
  ASSUME NEW s \in Text
  PROVE  Line!IsPrefix(s, s)
BY TextIsSequence DEF Line!IsPrefix

LEMMA EndOfConcat ==
  ASSUME NEW s \in Text, NEW t \in Text
  PROVE  Line!EndsWith(s \o t, t)
<1>1. /\ Len(s) \in Nat /\ Len(t) \in Nat
      /\ s \o t \in Text /\ Len(s \o t) = Len(s) + Len(t)
  BY TextIsSequence, ConcatText
<1>2. Removed(s \o t, -Len(t), Len(t)) = t
  BY DeleteSuffix
<1>3. /\ Start(s \o t, -Len(t)) = Len(s)
      /\ Len(s \o t) + (-Len(t)) + Len(t) = Len(s \o t)
      /\ Len(s \o t) - Len(t) + 1 = Len(s) + 1
      /\ Len(t) <= Len(s \o t)
  BY <1>1 DEF Start
<1>4. SubSeq(s \o t, Len(s) + 1, Len(s \o t)) = t
  BY <1>2, <1>3 DEF Removed
<1> QED BY <1>1, <1>2, <1>3, <1>4 DEF Line!EndsWith

LEMMA ButLastIsPrefix ==
  ASSUME NEW s \in Text
  PROVE  Line!IsPrefix(SubSeq(s, 1, Len(s) - 1), s)
<1>1. CASE s = <<>>
  BY <1>1, EmptyText, SubSeqEmpty DEF Line!IsPrefix
<1>2. CASE s # <<>>
  <2> DEFINE n == Len(s)
             front == SubSeq(s, 1, n - 1)
  <2>1. n \in Nat /\ n > 0 /\ front \in Text /\ SubSeq(s, n, n) \in Text
    BY <1>2, TextIsSequence, SubText
  <2>2. s = front \o SubSeq(s, n, n)
    BY <1>2, <2>1, SubSeqProperties, ConcatProperties DEF Text
  <2> HIDE DEF front
  <2>3. Line!IsPrefix(front, s)
    BY <2>1, <2>2, PrefixOfConcat
  <2> QED BY <2>3 DEF front
<1> QED BY <1>1, <1>2

\* A text split at a caret and joined again.
LEMMA SplitJoins ==
  ASSUME NEW t \in Text, NEW n, n = Len(t), NEW k \in 0..n
  PROVE  SubSeq(t, 1, k) \o SubSeq(t, k + 1, n) = t
<1>1. /\ t \in Seq(Scalar) /\ n \in Nat
      /\ 1 \in 1..Len(t) + 1 /\ k \in 1 - 1..Len(t) /\ n \in k..Len(t)
  BY TextIsSequence DEF Text
<1>2. SubSeq(t, 1, k) \o SubSeq(t, k + 1, n) = SubSeq(t, 1, n)
  BY <1>1, ConcatAdjacentSubSeq
<1> QED BY <1>1, <1>2, SubSeqFull

\* Taking the last scalar off a text takes it off what ends with that text.
LEMMA ButLastOfConcat ==
  ASSUME NEW s \in Text, NEW t \in Text, t # <<>>
  PROVE  SubSeq(s \o t, 1, Len(s \o t) - 1) = s \o SubSeq(t, 1, Len(t) - 1)
<1> DEFINE n == Len(t)
           front == SubSeq(t, 1, n - 1)
           last == SubSeq(t, n, n)
<1>1. n \in Nat /\ n > 0
  BY TextIsSequence
<1>2. front \in Text /\ last \in Text
  BY <1>1, SubText
<1>3. t = front \o last /\ Len(last) = 1
  BY <1>1, SubSeqProperties, ConcatProperties DEF Text
<1> HIDE DEF n, front, last
<1>4. s \o front \in Text /\ s \o t = (s \o front) \o last
  BY <1>2, <1>3, ConcatText, ConcatTexts
<1>5. SubSeq((s \o front) \o last, 1, Len((s \o front) \o last) - Len(last))
        = s \o front
  BY <1>2, <1>4, SuffixSplit
<1>6. SubSeq(s \o t, 1, Len(s \o t) - 1) = s \o front
  BY <1>3, <1>4, <1>5
<1> QED BY <1>6 DEF front, n

-------------------------------------------------------------------------------
(* The line before and after a call.                                       *)

\* What is closed in the abstract line is Base, and what was delivered lies to
\* the left of the open syllable or covers it.
LEMMA LineParts ==
  ASSUME Inv
  PROVE  /\ before \in Text /\ hic \in Text /\ model.settled \in Text
         /\ Base \in Text /\ Fixed \in Text
         /\ Visible = Base \o hic
         /\ Line!Closed = Base
         /\ Fixed = IF Len(before) <= Len(Base) THEN before ELSE Base
         /\ mode = "none" => before = Base \o hic
<1>1. /\ TypeOK /\ SyllableAccountedFor
      /\ before \in Text /\ hic \in Text /\ model.settled \in Text
      /\ inDocument \in Text
  BY DEF Inv, TypeOK, ContextTypeOK, Model
<1>2. CASE mode = "none"
  <2>1. /\ Kept \in Text /\ before = Kept \o hic
        /\ model.settled = <<>> /\ model.active = <<>>
    BY <1>1, <1>2, KeptType DEF SyllableAccountedFor
  <2>2. Visible = before
    BY <1>1, <2>1, ConcatText DEF Visible
  <2>3. /\ Len(before) = Len(Kept) + Len(hic)
        /\ Len(Kept) \in Nat /\ Len(hic) \in Nat
    BY <1>1, <2>1, TextIsSequence, ConcatText
  <2>4. Kept = IF Len(before) <= Len(Kept) THEN before ELSE Kept
    <3>1. Len(before) <= Len(Kept) => hic = <<>>
      BY <1>1, <2>3, TextIsSequence
    <3> QED BY <2>1, <3>1, ConcatText
  <2>5. SubSeq(Visible, 1, Len(Visible) - Len(hic)) = Kept
    BY <1>1, <2>1, <2>2, SuffixSplit
  <2> QED BY <1>1, <1>2, <2>1, <2>2, <2>4, <2>5 DEF Base, Fixed, Line!Closed
<1>3. CASE mode # "none"
  <2>1. model.active = hic /\ before \o model.settled \in Text
    BY <1>1, <1>3, ConcatText DEF SyllableAccountedFor
  <2>2. SubSeq(Visible, 1, Len(Visible) - Len(hic)) = before \o model.settled
    BY <1>1, <2>1, SuffixSplit DEF Visible
  <2>3. Len(before) <= Len(before \o model.settled)
    BY <1>1, ConcatText, TextIsSequence
  <2> QED BY <1>1, <1>3, <2>1, <2>2, <2>3
          DEF Base, Fixed, Visible, Line!Closed
<1> QED BY <1>2, <1>3

\* A call that leaves Base alone, adds X to it, and delivers at the end.
LEMMA ReviseStep ==
  ASSUME Inv, NEW X \in Text, NEW D \in Text, NEW Y \in Text,
         hic' \in Text, before' \in Text, after' = after,
         Visible' = (Base \o X) \o hic',
         Visible' = before' \o Y,
         before' = Fixed \o D
  PROVE  Line!Revise
<1>1. /\ Base \in Text /\ Fixed \in Text /\ Line!Closed = Base
      /\ Fixed = IF Len(before) <= Len(Base) THEN before ELSE Base
  BY LineParts
<1>2. Base \o X \in Text /\ X \o hic' \in Text
  BY <1>1, ConcatText
<1>3. Line!IsPrefix(Base, Visible')
  <2>1. \A u \in Text : (Base \o X) \o u = Base \o (X \o u)
    BY <1>1, ConcatTexts
  <2> QED BY <1>1, <1>2, <2>1, PrefixOfConcat
<1>4. Line!EndsWith(Visible', hic')
  BY <1>2, EndOfConcat
<1>5. Len(Visible') - Len(hic') >= Len(Base)
  <2>1. /\ Len(Visible') = Len(Base \o X) + Len(hic')
        /\ Len(Base \o X) = Len(Base) + Len(X)
    BY <1>1, <1>2, ConcatText
  <2>2. Len(Base) \in Nat /\ Len(X) \in Nat /\ Len(hic') \in Nat
    BY <1>1, TextIsSequence
  <2> QED BY <2>1, <2>2
<1>6. Line!IsPrefix(Fixed, before')
  BY <1>1, PrefixOfConcat
<1>7. Line!IsPrefix(before', Visible')
  BY PrefixOfConcat
<1> QED BY <1>1, <1>3, <1>4, <1>5, <1>6, <1>7 DEF Line!Revise

\* A call that ends the composition and deletes nothing: what was shown, and
\* perhaps some text more, is in the document.
LEMMA EndRevise ==
  ASSUME Inv, NEW X \in Text, TypeOK', Ended', after' = after,
         NEW D \in Text, before' = Base \o X,
         mode # "none" => before' = before \o D
  PROVE  Line!Revise
<1>1. /\ before \in Text /\ Base \in Text /\ before' \in Text
      /\ Visible' = (before' \o <<>>) \o <<>> /\ hic' = <<>>
  BY LineParts DEF TypeOK, ContextTypeOK, Ended, Visible
<1>2. /\ Visible' = before' \o <<>> /\ before' \o <<>> = before'
      /\ (Base \o X) \o <<>> = Base \o X
  BY <1>1, ConcatText
<1>3. before' = Fixed \o (IF mode = "none" THEN X ELSE D)
  BY DEF Fixed, Base
<1> QED BY <1>1, <1>2, <1>3, ReviseStep, EmptyText

-------------------------------------------------------------------------------
(* The calls, one by one.                                                  *)

\* What is left of the document after a deletion, if there was one: all of it,
\* or all but the syllable.
LEMMA CutIsBase ==
  ASSUME Inv, mode = "none", NEW out \in AdapterOutput,
         out.count \in {0, Len(inDocument)}
  PROVE  \E E \in Text :
           (IF Deletes(out) THEN Remaining(before, out.offset, out.count)
                            ELSE before) = Base \o E
<1>1. /\ Base \in Text /\ hic \in Text /\ before = Base \o hic
      /\ Base = Kept
  BY LineParts DEF Base
<1>2. CASE Deletes(out)
  <2>1. Remaining(before, out.offset, out.count) = Base \o <<>>
    BY <1>1, <1>2, DeletionTakesSyllable, ConcatText
  <2> QED BY <1>2, <2>1, EmptyText
<1>3. CASE ~Deletes(out)
  BY <1>1, <1>3
<1> QED BY <1>2, <1>3

\* A key libhangul takes, or a Backspace it does.
LEMMA HarvestRefines ==
  ASSUME Inv, TypeOK', NEW ic \in IcType,
         Leave(Harvest(ic, Entering), ic.preedit, FALSE)
  PROVE  Line!Revise
<1> DEFINE st == Harvest(ic, Entering)
           cut == IF Deletes(st.out)
                  THEN Remaining(before, st.out.offset, st.out.count)
                  ELSE before
<1>1. /\ st \in StateType /\ st.out \in AdapterOutput
      /\ ic.committed \in Text /\ ic.preedit \in Text
  BY HarvestType, EnteringType DEF Inv, StateType, IcType
<1>2. /\ before \in Text /\ hic \in Text /\ model.settled \in Text
      /\ Base \in Text /\ Fixed \in Text
  BY LineParts
<1>3. /\ st.out.count \in {0, Len(inDocument)}
      /\ mode = "none" =>
           /\ st.model.settled = <<>> /\ st.model.active = <<>>
           /\ st.out.commit = ic.committed \o ic.preedit
      /\ mode # "none" => st.model.active = ic.preedit /\ st.out.count = 0
      /\ mode = "syllable" =>
           st.model.settled = <<>> /\ st.out.commit = ic.committed
      /\ mode = "word" =>
           st.model.settled = model.settled \o ic.committed /\ st.out.commit = <<>>
  BY HarvestOutcome
<1>4. Refresh(st.model, st.out, FALSE) /\ hic' = ic.preedit
  BY DEF Leave
<1> HIDE DEF st
<1>5. /\ model' = st.model /\ before' = cut \o st.out.commit /\ after' = after
      /\ before' \in Text /\ hic' \in Text
  BY <1>4 DEF Refresh, TypeOK, ContextTypeOK
<1>6. Visible' = (before' \o st.model.settled) \o st.model.active
  BY <1>5 DEF Visible
<1>7. CASE mode = "none"
  <2>1. PICK E \in Text : cut = Base \o E
    BY <1>1, <1>3, <1>7, CutIsBase
  <2> HIDE DEF cut
  <2> DEFINE X == E \o ic.committed
             D == E \o (ic.committed \o ic.preedit)
  <2>2. /\ X \in Text /\ D \in Text
        /\ ic.committed \o ic.preedit \in Text
    BY <1>1, ConcatText
  <2>3. before' = Base \o D
    <3> DEFINE typed == ic.committed \o ic.preedit
    <3>1. before' = (Base \o E) \o typed
      BY <1>3, <1>5, <1>7, <2>1
    <3>2. Base \in Text /\ typed \in Text
      BY <1>2, <2>2
    <3> HIDE DEF typed
    <3>3. (Base \o E) \o typed = Base \o (E \o typed)
      BY <3>2, ConcatTexts
    <3> QED BY <3>1, <3>3 DEF typed
  <2>4. Base \o D = (Base \o X) \o ic.preedit
    <3>1. D = X \o ic.preedit
      BY <1>1, ConcatTexts
    <3>2. Base \in Text /\ X \in Text /\ ic.preedit \in Text
      BY <1>1, <1>2, <2>2
    <3> HIDE DEF X, D
    <3>3. (Base \o X) \o ic.preedit = Base \o (X \o ic.preedit)
      BY <3>2, ConcatTexts
    <3> QED BY <3>1, <3>3
  <2>5. Visible' = before' \o <<>> /\ before' \o <<>> = before'
    BY <1>3, <1>5, <1>6, <1>7, ConcatText
  <2>6. Fixed = Base
    BY <1>7 DEF Fixed, Base
  <2> HIDE DEF X, D
  <2> QED BY <1>4, <1>5, <2>2, <2>3, <2>4, <2>5, <2>6, EmptyText, ReviseStep
<1>8. CASE mode # "none"
  <2>1. cut = before /\ Fixed = before /\ Base = before \o model.settled
    BY <1>3, <1>8 DEF Deletes, Fixed, Base
  <2>2. CASE mode = "syllable"
    <3>1. model.settled = <<>> /\ Base = before
      BY <1>2, <2>1, <2>2, ConcatText DEF Inv, SyllableAccountedFor
    <3>2. before' = before \o ic.committed
      BY <1>3, <1>5, <2>1, <2>2
    <3>3. Visible' = before' \o ic.preedit
      BY <1>3, <1>5, <1>6, <2>2, ConcatText
    <3> QED BY <1>1, <1>4, <1>5, <2>1, <3>1, <3>2, <3>3, ReviseStep
  <2>3. CASE mode = "word"
    <3>1. before' = before /\ before = before \o <<>>
      BY <1>2, <1>3, <1>5, <2>1, <2>3, ConcatText
    <3> DEFINE held == model.settled \o ic.committed
    <3>2. held \in Text /\ held \o ic.preedit \in Text
      BY <1>1, <1>2, ConcatText
    <3>3. Visible' = (before \o held) \o ic.preedit
      BY <1>3, <1>6, <2>3, <3>1
    <3>4. before \o held = Base \o ic.committed
      BY <1>1, <1>2, <2>1, ConcatTexts
    <3>5. (before \o held) \o ic.preedit = before \o (held \o ic.preedit)
      <4>1. before \in Text /\ held \in Text /\ ic.preedit \in Text
        BY <1>1, <1>2, <3>2
      <4> HIDE DEF held
      <4> QED BY <4>1, ConcatTexts
    <3> HIDE DEF held
    <3> QED BY <1>1, <1>4, <1>5, <2>1, <3>1, <3>2, <3>3, <3>4, <3>5,
               EmptyText, ReviseStep
  <2> QED BY <1>8, <2>2, <2>3 DEF Inv, TypeOK, Mode
<1> QED BY <1>7, <1>8

LEMMA IdleEndedNext ==
  ASSUME Inv', ~engaged'
  PROVE  Ended'
BY DEF Inv, TypeOK, Mode, SyllableAccountedFor, Ended

\* end_composition where nothing was harvested: a declined key or a commit.
LEMMA EndRefines ==
  ASSUME Inv, TypeOK', Ended', NEW flushed \in Text, NEW st \in StateType,
         Leave(EndComposition(flushed, st), <<>>, FALSE),
         st.model = model, st.out = NoOutput, st.written \in {<<>>, inDocument}
  PROVE  Line!Revise
<1> DEFINE ended == EndComposition(flushed, st)
<1>1. /\ before \in Text /\ hic \in Text /\ model.settled \in Text
      /\ Base \in Text
      /\ mode = "none" => before = Base \o hic
  BY LineParts
<1>2. Refresh(ended.model, ended.out, FALSE)
  BY DEF Leave
<1>3. ended.out.count = 0
  BY EndKeepsDeletion DEF NoOutput
<1>4. before' = before \o ended.out.commit /\ after' = after
  BY <1>2, <1>3 DEF Refresh, Deletes
<1>5. CASE st.written # <<>>
  <2>1. mode = "none"
    BY <1>5 DEF Inv, SyllableAccountedFor
  <2>2. ended.out.commit = <<>>
    BY <1>5 DEF EndComposition, State, NoOutput
  <2>3. before' = Base \o hic
    <3>1. before \o <<>> = before
      BY <1>1, ConcatText
    <3> QED BY <1>1, <1>4, <2>1, <2>2, <3>1
  <2> QED BY <1>1, <1>4, <2>1, <2>3, EndRevise
<1>6. CASE st.written = <<>>
  <2>1. ended.out.commit = (<<>> \o model.settled) \o flushed
    BY <1>6 DEF EndComposition, State, NoOutput
  <2>2. ended.out.commit = model.settled \o flushed
    BY <1>1, <2>1, ConcatText
  <2>3. CASE mode = "none"
    <3>1. model.settled = <<>>
      BY <2>3 DEF Inv, SyllableAccountedFor
    <3>2. before' = (Base \o hic) \o flushed
      <4>1. ended.out.commit = flushed
        BY <2>2, <3>1, ConcatText
      <4> QED BY <1>1, <1>4, <2>3, <4>1
    <3>3. before' = Base \o (hic \o flushed) /\ hic \o flushed \in Text
      BY <1>1, <3>2, ConcatText, ConcatTexts
    <3> QED BY <1>4, <2>3, <3>3, EndRevise
  <2>4. CASE mode # "none"
    <3>1. before' = before \o (model.settled \o flushed)
          /\ model.settled \o flushed \in Text
      BY <1>1, <1>4, <2>2, ConcatText
    <3>2. before' = Base \o flushed
      <4>1. before \in Text /\ model.settled \in Text
        BY <1>1
      <4>2. (before \o model.settled) \o flushed
              = before \o (model.settled \o flushed)
        BY <4>1, ConcatTexts
      <4> QED BY <2>4, <3>1, <4>2 DEF Base
    <3> QED BY <1>4, <3>1, <3>2, EndRevise
  <2> QED BY <2>3, <2>4
<1> QED BY <1>5, <1>6

\* A key libhangul declines: what it flushed is delivered after what was held.
LEMMA DeclinedRefines ==
  ASSUME Inv, TypeOK', Ended',
         Leave(EndComposition(<<>>, Harvest(HicDeclines(Pending), Entering)),
               <<>>, FALSE)
  PROVE  Line!Revise
<1> DEFINE ic == HicDeclines(Pending)
           st == Harvest(ic, Entering)
           ended == EndComposition(<<>>, st)
           cut == IF Deletes(ended.out)
                  THEN Remaining(before, ended.out.offset, ended.out.count)
                  ELSE before
<1>1. /\ Pending \in Text /\ ic \in IcType
      /\ ic.committed = Pending /\ ic.preedit = <<>>
      /\ st \in StateType /\ ended \in StateType
  BY EnteringType, IcReports, HarvestType, EmptyText, EndCompositionType
     DEF Inv, HicDeclines
<1> HIDE DEF ic
<1>2. /\ before \in Text /\ Base \in Text /\ model.settled \in Text
  BY LineParts
<1>3. /\ st.out.count \in {0, Len(inDocument)}
      /\ st.written = <<>>
      /\ mode = "none" =>
           st.model.settled = <<>> /\ st.out.commit = Pending \o <<>>
      /\ mode # "none" => st.out.count = 0
      /\ mode = "syllable" => st.model.settled = <<>> /\ st.out.commit = Pending
      /\ mode = "word" =>
           st.model.settled = model.settled \o Pending /\ st.out.commit = <<>>
  BY <1>1, HarvestOutcome
<1>4. Refresh(ended.model, ended.out, FALSE)
  BY DEF Leave, ic
<1>5. ended.out.count = st.out.count /\ ended.out \in AdapterOutput
  BY <1>1, EndKeepsDeletion DEF StateType
<1>6. ended.out.commit = (st.out.commit \o st.model.settled) \o <<>>
  <2>1. st.out \in [commit : Text, offset : Int, count : Nat]
    BY <1>1 DEF StateType, AdapterOutput, Output
  <2> HIDE DEF st
  <2> QED BY <1>3, <2>1 DEF EndComposition, State
<1>7. st.out.commit \in Text /\ st.model.settled \in Text
  BY <1>1 DEF StateType, Model, AdapterOutput, Output
<1> HIDE DEF st
<1>8. ended.out.commit = st.out.commit \o st.model.settled
  BY <1>6, <1>7, ConcatText
<1> HIDE DEF ended
<1>9. before' = cut \o (st.out.commit \o st.model.settled) /\ after' = after
  BY <1>4, <1>8 DEF Refresh
<1>10. CASE mode = "none"
  <2>1. PICK E \in Text : cut = Base \o E
    BY <1>3, <1>5, <1>10, CutIsBase
  <2> HIDE DEF cut
  <2>2. st.out.commit \o st.model.settled = Pending
    BY <1>1, <1>3, <1>10, ConcatText
  <2>3. before' = (Base \o E) \o Pending
    BY <1>9, <2>1, <2>2
  <2>4. before' = Base \o (E \o Pending) /\ E \o Pending \in Text
    BY <1>1, <1>2, <2>3, ConcatText, ConcatTexts
  <2> QED BY <1>9, <1>10, <2>4, EndRevise
<1>11. CASE mode # "none"
  <2>1. cut = before /\ Base = before \o model.settled
    BY <1>3, <1>5, <1>11 DEF Deletes, Base
  <2>2. st.out.commit \o st.model.settled = model.settled \o Pending
    <3>1. mode = "syllable" => model.settled = <<>>
      BY DEF Inv, SyllableAccountedFor
    <3>2. mode = "syllable" \/ mode = "word"
      BY <1>11 DEF Inv, TypeOK, Mode
    <3>3. <<>> \o Pending = Pending /\ Pending \o <<>> = Pending
          /\ <<>> \o (model.settled \o Pending) = model.settled \o Pending
      BY <1>1, <1>2, ConcatText
    <3> QED BY <1>3, <3>1, <3>2, <3>3
  <2>3. before' = before \o (model.settled \o Pending)
    BY <1>9, <2>1, <2>2
  <2>4. /\ before' = Base \o Pending
        /\ model.settled \o Pending \in Text
    <3>1. (before \o model.settled) \o Pending = before \o (model.settled \o Pending)
      BY <1>1, <1>2, ConcatTexts
    <3> QED BY <1>1, <1>2, <2>1, <2>3, <3>1, ConcatText
  <2> QED BY <1>1, <1>9, <1>11, <2>3, <2>4, EndRevise
<1> QED BY <1>10, <1>11

\* Every step of a careful client is a step of the abstract line, or changes
\* nothing it shows.
LEMMA NextRefines ==
  ASSUME Careful
  PROVE  Inv /\ Inv' /\ [Next]_vars => [Line!Next]_(Line!lineVars)
<1> SUFFICES ASSUME Inv, Inv', [Next]_vars
             PROVE  Line!Next \/ UNCHANGED Line!lineVars
  OBVIOUS
<1> USE DEF Line!Next
<1>1. /\ TypeOK /\ SyllableAccountedFor /\ TypeOK'
      /\ model \in Model /\ hic \in Text /\ inDocument \in Text
      /\ before' \in Text
      /\ owed # "nothing" => ~engaged
  BY DEF Inv, TypeOK, ContextTypeOK
<1>2. /\ Entering \in StateType /\ Pending \in Text
      /\ Entering.model = model /\ Entering.out = NoOutput
      /\ Entering.written = IF Revisable THEN inDocument ELSE <<>>
  BY <1>1, EnteringType
<1>3. /\ before \in Text /\ Base \in Text /\ model.settled \in Text
      /\ Visible = Base \o hic
      /\ mode = "none" => before = Base \o hic
      /\ Fixed = IF mode = "none" THEN Base ELSE before
  BY LineParts DEF Fixed, Base
<1>4. before \o <<>> = before /\ Base \o <<>> = Base
  BY <1>3, ConcatText
\* Between two compositions the line is the document.
<1>5. ASSUME Ended
      PROVE  hic = <<>> /\ Visible = before /\ Base = before
  BY <1>3, <1>4, <1>5 DEF Ended, Visible
<1>6. ASSUME Ended'
      PROVE  hic' = <<>> /\ Visible' = before'
  BY <1>1, <1>6, ConcatText DEF Ended, Visible
<1>7. ASSUME TypeJamo \/ BackspacePending PROVE Line!Revise
  <2>1. PICK ic \in IcType : Leave(Harvest(ic, Entering), ic.preedit, FALSE)
    BY <1>2, <1>7, IcReports DEF TypeJamo, BackspacePending
  <2> QED BY <1>1, <2>1, HarvestRefines
<1>8. ASSUME TypeOther PROVE Line!Revise
  <2>1. Leave(EndComposition(Pending, Entering), <<>>, FALSE) /\ ~engaged'
    BY <1>8 DEF TypeOther, Unhandled
  <2>2. Ended'
    BY <2>1, IdleEndedNext
  <2> QED BY <1>1, <1>2, <2>1, <2>2, EndRefines
<1>9. ASSUME Commit PROVE Line!Revise
  <2> DEFINE st == State(model, NoOutput, inDocument)
  <2>1. /\ st \in StateType /\ st.model = model
        /\ st.out = NoOutput /\ st.written = inDocument
    BY <1>1, NoOutputType DEF State, StateType
  <2>2. Leave(EndComposition(hic, st), <<>>, FALSE) /\ ~engaged'
    BY <1>9 DEF Commit
  <2> HIDE DEF st
  <2>3. Ended'
    BY <2>2, IdleEndedNext
  <2> QED BY <1>1, <2>1, <2>2, <2>3, EndRefines
<1>10. ASSUME BackspaceDeclined PROVE Line!Revise
  <2>1. /\ Leave(Entering, <<>>, FALSE) /\ ~engaged'
        /\ mode # "word" \/ model.settled = <<>>
    BY <1>10 DEF BackspaceDeclined, Unhandled
  <2>2. Ended'
    BY <2>1, IdleEndedNext
  <2>3. before' = before \o <<>> /\ after' = after
    BY <1>2, <2>1 DEF Leave, Refresh, Deletes, NoOutput
  <2>4. CASE mode = "none"
    BY <1>1, <1>3, <1>4, <2>2, <2>3, <2>4, EndRevise
  <2>5. CASE mode # "none"
    <3>1. model.settled = <<>>
      BY <1>1, <2>1, <2>5 DEF SyllableAccountedFor, TypeOK, Mode
    <3>2. before' = Base \o <<>>
      BY <1>4, <2>3, <2>5, <3>1 DEF Base
    <3> QED BY <1>1, <2>2, <2>3, <2>5, <3>2, EmptyText, EndRevise
  <2> QED BY <2>4, <2>5
<1>11. ASSUME TypeDeclined PROVE Line!Revise
  <2>1. /\ Leave(EndComposition(<<>>, Harvest(HicDeclines(Pending), Entering)),
                 <<>>, FALSE)
        /\ ~engaged'
    BY <1>11 DEF TypeDeclined, Unhandled
  <2>2. Ended'
    BY <2>1, IdleEndedNext
  <2> QED BY <1>1, <2>1, <2>2, DeclinedRefines
<1>12. ASSUME BackspaceSettled PROVE Line!Erase
  <2> DEFINE shorter == [Entering EXCEPT !.model.settled = SubSeq(@, 1, Len(@) - 1)]
             held == SubSeq(model.settled, 1, Len(model.settled) - 1)
  <2>1. /\ mode = "word" /\ model.settled # <<>>
        /\ inDocument = <<>> /\ Pending = <<>>
        /\ Leave(shorter, <<>>, FALSE)
    BY <1>1, <1>12 DEF BackspaceSettled, SyllableAccountedFor
  <2>2. hic = <<>> /\ model.active = hic
    BY <1>1, <2>1 DEF Pending, Revisable, SyllableAccountedFor
  <2>3. /\ shorter.model = [model EXCEPT !.settled = held]
        /\ shorter.out = NoOutput
    BY <1>2 DEF StateType
  <2>4. /\ shorter.model.settled = held /\ shorter.model.active = <<>>
    BY <1>1, <2>2, <2>3 DEF Model
  <2> HIDE DEF shorter
  <2>5. /\ hic' = <<>> /\ after' = after /\ before' = before
        /\ model'.settled = held /\ model'.active = <<>>
    BY <1>4, <2>1, <2>3, <2>4 DEF Leave, Refresh, Deletes, NoOutput
  <2>6. held \in Text /\ before \o held \in Text /\ before \o model.settled \in Text
    BY <1>3, ButLast, ConcatText
  <2>7. Visible' = before \o held /\ Visible = before \o model.settled
    BY <2>2, <2>5, <2>6, ConcatText DEF Visible
  <2>8. SubSeq(Visible, 1, Len(Visible) - 1) = before \o held
    BY <1>3, <2>1, <2>7, ButLastOfConcat
  <2>9. Line!IsPrefix(before, before \o held)
    BY <1>3, <2>6, PrefixOfConcat
  <2>10. Line!IsPrefix(SubSeq(before, 1, Len(before) - 1), before)
    BY <1>3, ButLastIsPrefix
  <2> HIDE DEF held
  <2> QED BY <2>2, <2>5, <2>7, <2>8, <2>9, <2>10 DEF Line!Erase
<1>13. ASSUME Reset PROVE Line!Discard
  <2>1. Leave(State(EmptyModel, NoOutput, <<>>), <<>>, FALSE) /\ ~engaged'
    BY <1>13 DEF Reset
  <2>2. before' = before \o <<>> /\ after' = after
    BY <2>1 DEF Leave, State, Refresh, Deletes, NoOutput
  <2>3. Ended'
    BY <2>1, IdleEndedNext
  <2> QED BY <1>4, <1>6, <2>2, <2>3 DEF Line!Discard
<1>14. ASSUME SetMode PROVE UNCHANGED Line!lineVars
  <2>1. /\ Refresh(model, NoOutput, TRUE) /\ hic' = hic /\ model' = model
    BY <1>14 DEF SetMode, Refresh
  <2>2. before' = before /\ after' = after
    BY <1>4, <2>1 DEF Refresh, Deletes, NoOutput
  <2> QED BY <2>1, <2>2 DEF Line!lineVars, Visible
<1>15. ASSUME Inform \/ UNCHANGED vars PROVE UNCHANGED Line!lineVars
  BY <1>15 DEF Inform, SetSurroundingText, hangulVars, vars, contextVars,
               Visible, Line!lineVars
<1>16. ASSUME Fallback PROVE Line!Revise \/ Line!Erase
  <2>1. /\ ~engaged /\ engaged' = engaged /\ after' = after
        /\ ClientActs
    BY <1>1, <1>16 DEF Fallback, ClientActs, hangulVars
  <2>2. Ended /\ Ended'
    BY <2>1, IdleEnded, IdleEndedNext
  <2>3. ASSUME NEW s \in Scalar, before' = Append(before, s)
        PROVE  Line!Revise
    <3>1. <<s>> \in Text /\ before' = before \o <<s>>
      BY <1>3, <2>3, AppendProperties, ConcatProperties, EmptySeq DEF Text
    <3> QED BY <1>1, <1>5, <2>1, <2>2, <3>1, EndRevise
  <2>4. ASSUME before' = SubSeq(before, 1, Len(before) - 1)
        PROVE  Line!Erase
    <3>1. Line!IsPrefix(before', before')
      BY <1>1, PrefixOfItself
    <3> QED BY <1>5, <1>6, <2>1, <2>2, <2>4, <3>1 DEF Line!Erase
  <2> QED BY <2>1, <2>3, <2>4 DEF ClientActs
<1>17. ASSUME Wander PROVE Line!Move
  <2>1. /\ ~engaged /\ engaged' = engaged /\ MoveCaret
    BY <1>17 DEF Wander, Careful, hangulVars
  <2>2. Ended /\ Ended'
    BY <2>1, IdleEnded, IdleEndedNext
  <2>3. before' \o after' = before \o after
    <3>1. PICK k \in 0..(Len(before) + Len(after)) :
            /\ before' = SubSeq(before \o after, 1, k)
            /\ after' = SubSeq(before \o after, k + 1, Len(before) + Len(after))
      BY <2>1 DEF MoveCaret
    <3>2. /\ after \in Text /\ before \o after \in Text
          /\ Len(before \o after) = Len(before) + Len(after)
      BY <1>1, <1>3, ConcatText DEF TypeOK, ContextTypeOK
    <3> QED BY <3>1, <3>2, SplitJoins
  <2> QED BY <1>5, <1>6, <2>2, <2>3 DEF Line!Move
<1> QED
  BY <1>7, <1>8, <1>9, <1>10, <1>11, <1>12, <1>13, <1>14, <1>15, <1>16, <1>17
     DEF Next

\* The adapter keeps the promise of VisibleText in all three modes, whatever the
\* constants, for a careful client (HangulProperties, KeepsTheLine).
THEOREM LineKept ==
  ASSUME Careful
  PROVE  Spec => KeepsTheLine
<1>1. Init => Line!Init
  <2>1. <<>> \o <<>> = <<>>
    BY EmptyText, ConcatText
  <2> QED BY <2>1 DEF Init, ContextInit, EmptyModel, Visible, Line!Init
<1>2. Inv /\ Inv' /\ [Next]_vars => [Line!Next]_(Line!lineVars)
  BY NextRefines
<1> QED BY <1>1, <1>2, Inductive, PTL DEF Spec, KeepsTheLine, Line!Spec

-------------------------------------------------------------------------------
(* How a composition ends.                                                 *)

\* end_composition with nothing harvested delivers what the document does not
\* hold yet.
LEMMA EndDelivers ==
  ASSUME Inv, NEW flushed \in Text, NEW st \in StateType,
         Leave(EndComposition(flushed, st), <<>>, FALSE),
         st.model = model, st.out = NoOutput, st.written \in {<<>>, inDocument},
         mode = "none" /\ st.written = <<>> => flushed = <<>>,
         mode # "none" => flushed = hic
  PROVE  before' = Visible
<1> DEFINE ended == EndComposition(flushed, st)
<1>1. /\ before \in Text /\ hic \in Text /\ model.settled \in Text
      /\ Base \in Text /\ Visible = Base \o hic
      /\ mode = "none" => before = Base \o hic
  BY LineParts
<1>2. Refresh(ended.model, ended.out, FALSE)
  BY DEF Leave
<1>3. ended.out.count = 0
  BY EndKeepsDeletion DEF NoOutput
<1>4. before' = before \o ended.out.commit
  BY <1>2, <1>3 DEF Refresh, Deletes
<1>5. before \o <<>> = before
  BY <1>1, ConcatText
<1>6. CASE st.written # <<>>
  <2>1. mode = "none"
    BY <1>6 DEF Inv, SyllableAccountedFor
  <2>2. ended.out.commit = <<>>
    BY <1>6 DEF EndComposition, State, NoOutput
  <2> QED BY <1>1, <1>4, <1>5, <2>1, <2>2
<1>7. CASE st.written = <<>>
  <2>1. ended.out.commit = (<<>> \o model.settled) \o flushed
    BY <1>7 DEF EndComposition, State, NoOutput
  <2>2. ended.out.commit = model.settled \o flushed
    BY <1>1, <2>1, ConcatText
  <2>3. CASE mode = "none"
    <3>1. model.settled = <<>> /\ flushed = <<>>
      BY <1>7, <2>3 DEF Inv, SyllableAccountedFor
    <3>2. ended.out.commit = <<>>
      BY <2>2, <3>1, EmptyText, ConcatText
    <3> QED BY <1>1, <1>4, <1>5, <2>3, <3>2
  <2>4. CASE mode # "none"
    <3>1. before' = before \o (model.settled \o hic)
      BY <1>4, <2>2, <2>4
    <3>2. (before \o model.settled) \o hic = before \o (model.settled \o hic)
      BY <1>1, ConcatTexts
    <3> QED BY <1>1, <2>4, <3>1, <3>2 DEF Base
  <2> QED BY <2>3, <2>4
<1> QED BY <1>6, <1>7

\* What prepare_revision found deletable, the dispatch deletes.
LEMMA RevisionDeletes ==
  ASSUME Inv, NEW ic \in IcType, mode = "none"
  PROVE  Deletes(Harvest(ic, Entering).out) <=> Revisable /\ inDocument # <<>>
<1> DEFINE st == Harvest(ic, Entering)
<1>1. /\ st \in StateType
      /\ st.out.count = Len(Entering.written)
  BY HarvestType, EnteringType, HarvestOutcome DEF Inv
<1>2. st.out.offset = -st.out.count
  BY <1>1 DEF StateType, AdapterOutput
<1>3. /\ Entering.written = IF Revisable THEN inDocument ELSE <<>>
      /\ inDocument \in Text
  BY EnteringType DEF Inv, TypeOK
<1>4. Len(inDocument) \in Nat /\ (inDocument # <<>> => Len(inDocument) > 0)
      /\ Len(<<>>) = 0
  BY <1>3, TextIsSequence, EmptyText
<1> HIDE DEF st
<1>5. CASE Revisable /\ inDocument # <<>>
  <2>1. st.out.count = Len(inDocument) /\ Len(inDocument) # 0
    BY <1>1, <1>3, <1>4, <1>5
  <2>2. CanDeleteBefore(Len(inDocument))
    BY <1>5 DEF Revisable
  <2>3. /\ "delete" \in callbacks
        /\ RangeWithinSnapshot(snapshot, -Len(inDocument), Len(inDocument))
    BY <2>1, <2>2 DEF CanDeleteBefore
  <2>4. snapshot.has
    BY <2>1, <2>3 DEF RangeWithinSnapshot
  <2>5. Deletes(st.out)
    BY <1>2, <2>1, <2>3, <2>4 DEF Deletes
  <2> QED BY <1>5, <2>5 DEF st
<1>6. CASE ~(Revisable /\ inDocument # <<>>)
  <2>1. Entering.written = <<>>
    BY <1>3, <1>6
  <2>2. st.out.count = 0
    BY <1>1, <1>4, <2>1
  <2>3. ~Deletes(st.out)
    BY <2>2 DEF Deletes
  <2> QED BY <1>6, <2>3 DEF st
<1> QED BY <1>5, <1>6

\* A key libhangul declines: the written syllable is taken back and delivered
\* again, or stays; what was held is delivered.
LEMMA DeclinedDelivers ==
  ASSUME Inv,
         Leave(EndComposition(<<>>, Harvest(HicDeclines(Pending), Entering)),
               <<>>, FALSE)
  PROVE  before' = Visible
<1> DEFINE ic == HicDeclines(Pending)
           st == Harvest(ic, Entering)
           ended == EndComposition(<<>>, st)
           cut == IF Deletes(ended.out)
                  THEN Remaining(before, ended.out.offset, ended.out.count)
                  ELSE before
<1>1. /\ Pending \in Text /\ ic \in IcType
      /\ ic.committed = Pending /\ ic.preedit = <<>>
      /\ st \in StateType /\ ended \in StateType
  BY EnteringType, IcReports, HarvestType, EmptyText, EndCompositionType
     DEF Inv, HicDeclines
<1>2. mode = "none" => (Deletes(st.out) <=> Revisable /\ inDocument # <<>>)
  BY <1>1, RevisionDeletes
<1> HIDE DEF ic
<1>3. /\ before \in Text /\ hic \in Text /\ model.settled \in Text
      /\ Base \in Text /\ Visible = Base \o hic
      /\ mode = "none" => before = Base \o hic
  BY LineParts
<1>4. /\ st.out.count \in {0, Len(inDocument)}
      /\ st.written = <<>>
      /\ mode = "none" =>
           st.model.settled = <<>> /\ st.out.commit = Pending \o <<>>
      /\ mode # "none" => st.out.count = 0
      /\ mode = "syllable" => st.model.settled = <<>> /\ st.out.commit = Pending
      /\ mode = "word" =>
           st.model.settled = model.settled \o Pending /\ st.out.commit = <<>>
  BY <1>1, HarvestOutcome
<1>5. Refresh(ended.model, ended.out, FALSE)
  BY DEF Leave, ic
<1>6. /\ st.out \in AdapterOutput /\ ended.out \in AdapterOutput
      /\ ended.out.count = st.out.count
  BY <1>1, EndKeepsDeletion DEF StateType
<1>7. ended.out.offset = st.out.offset
  BY <1>6 DEF AdapterOutput
<1>8. Deletes(ended.out) <=> Deletes(st.out)
  BY <1>6, <1>7 DEF Deletes
<1>9. ended.out.commit = (st.out.commit \o st.model.settled) \o <<>>
  <2>1. st.out \in [commit : Text, offset : Int, count : Nat]
    BY <1>1 DEF StateType, AdapterOutput, Output
  <2> HIDE DEF st
  <2> QED BY <1>4, <2>1 DEF EndComposition, State
<1>10. st.out.commit \in Text /\ st.model.settled \in Text
  BY <1>1 DEF StateType, Model, AdapterOutput, Output
<1> HIDE DEF st
<1>11. ended.out.commit = st.out.commit \o st.model.settled
  BY <1>9, <1>10, ConcatText
<1> HIDE DEF ended
<1>12. before' = cut \o (st.out.commit \o st.model.settled)
  BY <1>5, <1>11 DEF Refresh
<1>13. CASE mode = "none"
  <2>1. st.out.commit \o st.model.settled = Pending
    BY <1>1, <1>4, <1>13, ConcatText
  <2>2. Base = Kept /\ inDocument = hic
    BY <1>13 DEF Base, Inv, SyllableAccountedFor
  <2>3. CASE Revisable /\ inDocument # <<>>
    <3>1. Deletes(ended.out) /\ Pending = hic
      BY <1>2, <1>8, <1>13, <2>3 DEF Pending
    <3>2. cut = Base
      BY <1>4, <1>6, <2>2, <3>1, DeletionTakesSyllable
    <3> QED BY <1>3, <1>12, <2>1, <3>1, <3>2
  <2>4. CASE ~(Revisable /\ inDocument # <<>>)
    <3>1. ~Deletes(ended.out) /\ Pending = <<>>
      BY <1>2, <1>8, <1>13, <2>2, <2>4 DEF Pending
    <3>2. before' = before \o <<>>
      BY <1>12, <2>1, <3>1
    <3> QED BY <1>3, <1>13, <3>2, ConcatText
  <2> QED BY <2>3, <2>4
<1>14. CASE mode # "none"
  <2>1. cut = before /\ Base = before \o model.settled
    BY <1>4, <1>6, <1>14 DEF Deletes, Base
  <2>2. Pending = hic
    BY <1>14 DEF Pending, Revisable, Inv, SyllableAccountedFor
  <2>3. st.out.commit \o st.model.settled = model.settled \o Pending
    <3>1. mode = "syllable" => model.settled = <<>>
      BY DEF Inv, SyllableAccountedFor
    <3>2. mode = "syllable" \/ mode = "word"
      BY <1>14 DEF Inv, TypeOK, Mode
    <3>3. <<>> \o Pending = Pending /\ Pending \o <<>> = Pending
          /\ <<>> \o (model.settled \o Pending) = model.settled \o Pending
      BY <1>1, <1>3, ConcatText
    <3> QED BY <1>4, <3>1, <3>2, <3>3
  <2>4. before' = before \o (model.settled \o hic)
    BY <1>12, <2>1, <2>2, <2>3
  <2>5. (before \o model.settled) \o hic = before \o (model.settled \o hic)
    BY <1>3, ConcatTexts
  <2> QED BY <1>3, <2>1, <2>4, <2>5
<1> QED BY <1>13, <1>14

\* pathime_context_reset, in every mode and under every client.
LEMMA ResetDiscards ==
  ASSUME TypeOK, Reset
  PROVE  /\ before' = before /\ published'.preedit = <<>>
         /\ hic' = <<>> /\ inDocument' = <<>>
<1>1. /\ hic' = <<>> /\ inDocument' = <<>>
      /\ Refresh(EmptyModel, NoOutput, FALSE)
  BY DEF Reset, Leave, State
<1>2. before' = before \o <<>>
  BY <1>1 DEF Refresh, Deletes, NoOutput
<1>3. published'.preedit = (<<>> \o <<>>) \o <<>>
  BY <1>1 DEF Refresh, Project, EmptyModel
<1>4. before \in Text
  BY DEF TypeOK, ContextTypeOK
<1> QED BY <1>1, <1>2, <1>3, <1>4, EmptyText, ConcatText

\* A careful client finds in its document, once and in full, what it was shown,
\* however the composition ends; a reset leaves the document alone.
THEOREM EndingsSafe ==
  ASSUME Careful
  PROVE  Spec => EndsAsShown
<1> DEFINE Safe == /\ TypeDeclined \/ TypeOther \/ Commit => before' = Visible
                   /\ Reset => /\ before' = before
                               /\ published'.preedit = <<>>
                               /\ hic' = <<>> /\ inDocument' = <<>>
<1>1. Inv /\ [Next]_vars => [Safe]_vars
  <2> SUFFICES ASSUME Inv PROVE Safe
    OBVIOUS
  <2>1. /\ TypeOK /\ SyllableAccountedFor /\ hic \in Text
        /\ Entering \in StateType /\ Entering.model = model
        /\ Entering.out = NoOutput /\ Pending \in Text
        /\ Entering.written = IF Revisable THEN inDocument ELSE <<>>
    BY EnteringType DEF Inv, TypeOK
  <2>2. /\ mode = "none" => inDocument = hic
        /\ mode # "none" => inDocument = <<>>
    BY <2>1 DEF SyllableAccountedFor
  <2>3. ASSUME TypeDeclined PROVE before' = Visible
    BY <2>3, DeclinedDelivers DEF TypeDeclined
  <2>4. ASSUME TypeOther PROVE before' = Visible
    <3>1. Leave(EndComposition(Pending, Entering), <<>>, FALSE)
      BY <2>4 DEF TypeOther
    <3>2. mode = "none" /\ Entering.written = <<>> => Pending = <<>>
      BY <2>1, <2>2 DEF Pending
    <3>3. mode # "none" => Pending = hic
      BY <2>2 DEF Pending, Revisable
    <3> QED BY <2>1, <3>1, <3>2, <3>3, EndDelivers
  <2>5. ASSUME Commit PROVE before' = Visible
    <3> DEFINE st == State(model, NoOutput, inDocument)
    <3>1. /\ st \in StateType /\ st.model = model /\ st.out = NoOutput
          /\ st.written = inDocument
      BY <2>1, NoOutputType DEF State, StateType, TypeOK, ContextTypeOK
    <3>2. Leave(EndComposition(hic, st), <<>>, FALSE)
      BY <2>5 DEF Commit
    <3> HIDE DEF st
    <3> QED BY <2>1, <2>2, <3>1, <3>2, EndDelivers
  <2> QED BY <2>1, <2>3, <2>4, <2>5, ResetDiscards
<1> QED BY <1>1, Inductive, PTL DEF Spec, EndsAsShown
================================================================================
