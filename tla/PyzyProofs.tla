------------------------------- MODULE PyzyProofs -------------------------------
(***************************************************************************)
(* Proofs about the pinyin and bopomofo adapter, for every engine, every   *)
(* set of options and keys, and whatever PyZy spells and converts.         *)
(*                                                                         *)
(* A call in progress is followed from Enter to Leave: as long as PyZy has *)
(* not said that its list changed, what the model holds is the beginning   *)
(* of the list PyZy answers from; once it has, harvest drops the list, and *)
(* materializing it anew makes it current.  In the same way, what was      *)
(* selected sounds like the keys it consumed, so no step between loses a   *)
(* letter, and what is shown is what a commit of the preedit delivers.     *)
(*                                                                         *)
(* What is remembered of the document is followed the same way: nothing    *)
(* PyZy is given or answers with says anything of the quotation marks, so  *)
(* the key that ends a composition alone decides them, whatever was        *)
(* committed before it in the same call.                                   *)
(***************************************************************************)
EXTENDS PyzyProperties, ContextProofs

Types == {"full", "double", "bopomofo"}

\* What is assumed of PyZy: it answers with lists of texts, each of which takes
\* some number of keys.
Converts ==
  \A t \in Types, run \in Seq(Keys) \ {<<>>}, simplified \in BOOLEAN :
    Conversions(t, run, simplified) \in Seq([text : Text, takes : Nat])

CallFields == {"model", "out", "type", "input", "used", "selected", "p", "options",
               "raised", "told", "keep"}
ModelFields == {"settled", "active", "tail", "candidates", "cursor"}

\* A call in progress, as far as the list depends on it.
Going(st) ==
  /\ DOMAIN st = CallFields /\ DOMAIN st.model = ModelFields
  /\ st.type \in Types /\ st.options \in Options
  /\ st.input \in Seq(Keys) /\ st.used \in Nat
  /\ st.model.cursor \in Nat

\* The scheme is in force (ApplyOptions makes it so), or nothing is composed.
InForce(st) == st.type = WantedType(st.options) \/ st.input = <<>>

\* What is listed is the beginning of what PyZy would answer from.
Answers(st) ==
  \/ st.model.candidates = <<>>
  \/ \E n \in 0..Len(Texts(Offered(st))) :
       st.model.candidates = SubSeq(Texts(Offered(st)), 1, n)

\* ... unless PyZy has said that its list changed.
Current(st) == Going(st) /\ ("list" \in st.raised \/ Answers(st))

\* The inductive invariant. Where a changed scheme has yet to be applied nothing is
\* composed, so a call that reads the cursor finds it on PyZy's own list.
PyzyInv ==
  /\ id \in {"pinyin", "bopomofo"} /\ DOMAIN model = ModelFields
  /\ type \in Types /\ options \in Options
  /\ input \in Seq(Keys) /\ used \in Nat /\ model.cursor \in Nat
  /\ type # WantedType(options) => input = <<>>
  /\ ListIsCurrent

-------------------------------------------------------------------------------
(* Lists.                                                                  *)

LEMMA OfferedList ==
  ASSUME Converts, NEW st, Going(st)
  PROVE  /\ Rest(st) \in Seq(Keys)
         /\ Offered(st) \in Seq([text : Text, takes : Nat])
         /\ Texts(Offered(st)) \in Seq(Text)
         /\ Len(Texts(Offered(st))) = Len(Offered(st))
         /\ Len(Offered(st)) \in Nat
<1>1. Rest(st) \in Seq(Keys)
  <2>1. st.input \in Seq(Keys) /\ st.used \in Nat /\ Len(st.input) \in Nat
    BY LenProperties DEF Going
  <2>2. \A i \in (st.used + 1)..Len(st.input) : st.input[i] \in Keys
    BY <2>1
  <2> QED BY <2>1, <2>2, SubSeqProperties DEF Rest
<1>2. Offered(st) \in Seq([text : Text, takes : Nat])
  <2>1. st.type \in Types /\ st.options.simplified \in BOOLEAN
    BY DEF Going, Options
  <2>2. <<>> \in Seq([text : Text, takes : Nat])
    OBVIOUS
  <2> QED BY <1>1, <2>1, <2>2 DEF Offered, Converts
<1>3. ASSUME NEW list \in Seq([text : Text, takes : Nat])
      PROVE  Texts(list) \in Seq(Text) /\ Len(Texts(list)) = Len(list) /\ Len(list) \in Nat
  <2>1. DOMAIN list = 1..Len(list) /\ Len(list) \in Nat
    BY LenProperties
  <2>2. \A i \in 1..Len(list) : list[i].text \in Text
    <3>1. \A i \in 1..Len(list) : list[i] \in [text : Text, takes : Nat]
      BY <2>1, ElementOfSeq
    <3> QED BY <3>1
  <2>3. Texts(list) \in [1..Len(list) -> Text]
    BY <2>1, <2>2 DEF Texts
  <2> QED BY <2>1, <2>3, IsASeq, LenProperties
<1> QED BY <1>1, <1>2, <1>3

-------------------------------------------------------------------------------
(* The steps of a call.                                                    *)

\* What delivering text and remembering it leaves alone.
LEMMA OtherFields ==
  ASSUME NEW st, Going(st), NEW x, DOMAIN x = CallFields,
         x.model = st.model, x.type = st.type, x.input = st.input, x.used = st.used,
         x.options = st.options, x.raised = st.raised
  PROVE  /\ Going(x) /\ Offered(x) = Offered(st)
         /\ Answers(st) => Answers(x)
         /\ Current(st) => Current(x)
         /\ InForce(st) => InForce(x)
<1>1. Going(x)
  BY DEF Going
<1>2. Offered(x) = Offered(st)
  BY DEF Offered, Rest
<1>3. Answers(st) => Answers(x)
  BY <1>2 DEF Answers
<1> QED BY <1>1, <1>2, <1>3 DEF Current, InForce

\* Whatever changes PyZy's input makes it say that its list changed.
LEMMA EditedGoes ==
  ASSUME NEW st, Going(st), NEW keys \in Seq(Keys)
  PROVE  /\ Current(Edited(st, keys))
         /\ Edited(st, keys).type = st.type /\ Edited(st, keys).options = st.options
<1> DEFINE x == Edited(st, keys)
<1>1. /\ DOMAIN x = CallFields /\ x.model = st.model /\ x.type = st.type
      /\ x.options = st.options /\ x.input = keys /\ x.used \in {0, st.used}
      /\ "list" \in x.raised
  BY DEF Edited, Going, CallFields
<1> HIDE DEF x
<1>2. Going(x)
  BY <1>1 DEF Going
<1> QED BY <1>1, <1>2 DEF Current, x

LEMMA PyzyResetGoes ==
  ASSUME NEW st, Going(st)
  PROVE  /\ Current(PyzyReset(st)) /\ PyzyReset(st).input = <<>>
         /\ PyzyReset(st).type = st.type /\ PyzyReset(st).options = st.options
         /\ PyzyReset(st).model = st.model /\ "list" \in PyzyReset(st).raised
<1> DEFINE x == PyzyReset(st)
<1>1. /\ DOMAIN x = CallFields /\ x.model = st.model /\ x.type = st.type
      /\ x.options = st.options /\ x.input = <<>> /\ x.used = 0
      /\ "list" \in x.raised
  BY DEF PyzyReset, Going, CallFields
<1> HIDE DEF x
<1>2. Going(x)
  <2>1. <<>> \in Seq(Keys)
    OBVIOUS
  <2> QED BY <1>1, <2>1 DEF Going
<1> QED BY <1>1, <1>2 DEF Current, x

LEMMA TellGoes ==
  ASSUME NEW st, Going(st), NEW text
  PROVE  /\ Current(PyzyTell(st, text))
         /\ PyzyTell(st, text).type = st.type /\ PyzyTell(st, text).options = st.options
<1> DEFINE r == PyzyReset(st)
           x == PyzyTell(st, text)
<1>1. Going(r) /\ Current(r) /\ r.type = st.type /\ r.options = st.options
  BY PyzyResetGoes DEF Current
<1>2. /\ DOMAIN x = DOMAIN r /\ x.model = r.model /\ x.type = r.type
      /\ x.input = r.input /\ x.used = r.used /\ x.options = r.options
      /\ x.raised = r.raised
  BY <1>1 DEF PyzyTell, Going, CallFields
<1> HIDE DEF r, x
<1>3. Current(x)
  BY <1>1, <1>2, OtherFields DEF Going
<1> QED BY <1>1, <1>2, <1>3 DEF x

LEMMA SelectGoes ==
  ASSUME Converts, NEW st, Going(st), NEW k \in Nat, k < Len(Offered(st))
  PROVE  /\ Current(PyzySelect(st, k))
         /\ PyzySelect(st, k).type = st.type /\ PyzySelect(st, k).options = st.options
<1> DEFINE c == Offered(st)[k + 1]
           x == [st EXCEPT !.used = @ + c.takes, !.selected = @ \o c.text,
                           !.raised = {"text", "list"}]
           told == PyzyTell(st, st.selected \o c.text)
<1>1. c.takes \in Nat
  <2>1. Offered(st) \in Seq([text : Text, takes : Nat]) /\ Len(Offered(st)) \in Nat
    BY OfferedList
  <2>2. k + 1 \in 1..Len(Offered(st))
    BY <2>1
  <2>3. c \in [text : Text, takes : Nat]
    BY <2>1, <2>2, ElementOfSeq
  <2> QED BY <2>3
<1>2. PyzySelect(st, k) = IF c.takes = Len(Rest(st)) THEN told ELSE x
  BY DEF PyzySelect
<1> HIDE DEF c
<1>3. /\ DOMAIN x = CallFields /\ x.model = st.model /\ x.type = st.type
      /\ x.options = st.options /\ x.input = st.input /\ x.used = st.used + c.takes
      /\ "list" \in x.raised
  BY DEF Going, CallFields
<1> HIDE DEF x
<1>4. Current(x)
  <2>1. Going(x)
    BY <1>1, <1>3 DEF Going
  <2> QED BY <1>3, <2>1 DEF Current
<1>5. Current(told) /\ told.type = st.type /\ told.options = st.options
  BY TellGoes
<1> HIDE DEF told
<1> QED BY <1>2, <1>3, <1>4, <1>5

LEMMA CommitGoes ==
  ASSUME NEW st, Current(st)
  PROVE  /\ Current(PyzyCommit(st))
         /\ PyzyCommit(st).type = st.type /\ PyzyCommit(st).options = st.options
BY TellGoes DEF PyzyCommit, Current

LEMMA InsertGoes ==
  ASSUME NEW st, Current(st), NEW key \in Keys
  PROVE  /\ Current(PyzyInsert(st, key))
         /\ PyzyInsert(st, key).type = st.type /\ PyzyInsert(st, key).options = st.options
<1>1. Append(st.input, key) \in Seq(Keys)
  BY DEF Current, Going
<1> QED BY <1>1, EditedGoes DEF PyzyInsert, Current

LEMMA CommitPreeditGoes ==
  ASSUME NEW st, Going(st)
  PROVE  /\ Current(CommitPreedit(st))
         /\ CommitPreedit(st).type = st.type /\ CommitPreedit(st).options = st.options
<1> DEFINE r == PyzyReset(st)
           x == CommitPreedit(st)
<1>1. Going(r) /\ Current(r) /\ r.type = st.type /\ r.options = st.options
  BY PyzyResetGoes DEF Current
<1>2. /\ DOMAIN x = DOMAIN r /\ x.model = r.model /\ x.type = r.type
      /\ x.input = r.input /\ x.used = r.used /\ x.options = r.options
      /\ x.raised = r.raised
  BY <1>1 DEF CommitPreedit, Going, CallFields
<1> HIDE DEF r, x
<1>3. Current(x)
  BY <1>1, <1>2, OtherFields DEF Going
<1> QED BY <1>1, <1>2, <1>3 DEF x

\* harvest copies what the observer heard, so what is listed answers once it is done.
LEMMA HarvestGoes ==
  ASSUME NEW st, Going(st)
  PROVE  /\ Going(Harvest(st)) /\ Offered(Harvest(st)) = Offered(st)
         /\ Current(st) => Answers(Harvest(st))
         /\ Harvest(st).type = st.type /\ Harvest(st).options = st.options
         /\ Harvest(st).input = st.input /\ Harvest(st).raised = {}
<1> DEFINE x == Harvest(st)
<1>1. /\ DOMAIN x = CallFields /\ x.type = st.type /\ x.options = st.options
      /\ x.input = st.input /\ x.used = st.used /\ x.raised = {}
      /\ DOMAIN x.model = ModelFields
      /\ x.model.candidates = IF "list" \in st.raised THEN <<>> ELSE st.model.candidates
      /\ x.model.cursor = IF "list" \in st.raised THEN 0 ELSE st.model.cursor
  BY DEF Harvest, Going, CallFields, ModelFields
<1> HIDE DEF x
<1>2. Going(x)
  BY <1>1 DEF Going
<1>3. Offered(x) = Offered(st)
  BY <1>1 DEF Offered, Rest
<1>4. Current(st) => Answers(x)
  BY <1>1, <1>3 DEF Current, Answers
<1> QED BY <1>1, <1>2, <1>3, <1>4 DEF x

\* A hovered candidate is one of PyZy's.
LEMMA HoveredIsOffered ==
  ASSUME Converts, NEW st, Going(st), Answers(st), Hovering(st)
  PROVE  st.model.cursor < Len(Offered(st))
<1>1. /\ Texts(Offered(st)) \in Seq(Text) /\ Len(Texts(Offered(st))) = Len(Offered(st))
      /\ Len(Offered(st)) \in Nat
  BY OfferedList
<1>2. st.model.candidates # <<>>
  BY EmptySeq DEF Hovering, Going
<1>3. PICK n \in 0..Len(Offered(st)) :
        st.model.candidates = SubSeq(Texts(Offered(st)), 1, n)
  BY <1>1, <1>2 DEF Answers
<1>4. Len(st.model.candidates) = n
  <2>1. \A i \in 1..n : Texts(Offered(st))[i] \in Text
    BY <1>1, ElementOfSeq
  <2> QED BY <1>1, <1>3, <2>1, SubSeqProperties
<1> QED BY <1>1, <1>4 DEF Hovering, Going

LEMMA FinishGoes ==
  ASSUME Converts, NEW st, Current(st), st.input # <<>> => Answers(st)
  PROVE  /\ Current(FinishComposition(st))
         /\ FinishComposition(st).type = st.type
         /\ FinishComposition(st).options = st.options
<1>1. CASE st.input = <<>>
  BY <1>1 DEF FinishComposition
<1>2. CASE st.input # <<>>
  <2> DEFINE taken == IF Hovering(st) THEN TakeHovered(st) ELSE st
             ended == PyzyCommit(taken)
             x == [ended EXCEPT !.p = NoteCommit(@, ended.told)]
  <2>1. Current(taken) /\ taken.type = st.type /\ taken.options = st.options
    <3>1. CASE Hovering(st)
      <4>1. st.model.cursor \in Nat /\ st.model.cursor < Len(Offered(st))
        BY <1>2, <3>1, HoveredIsOffered DEF Current, Going
      <4> QED BY <3>1, <4>1, SelectGoes DEF TakeHovered, Current
    <3>2. CASE ~Hovering(st)
      BY <3>2
    <3> QED BY <3>1, <3>2
  <2>2. FinishComposition(st) = x
    BY <1>2 DEF FinishComposition
  <2> HIDE DEF taken
  <2>3. Current(ended) /\ ended.type = st.type /\ ended.options = st.options
    BY <2>1, CommitGoes
  <2> HIDE DEF ended
  <2>4. /\ DOMAIN x = CallFields /\ x.model = ended.model /\ x.type = ended.type
        /\ x.input = ended.input /\ x.used = ended.used /\ x.options = ended.options
        /\ x.raised = ended.raised
    BY <2>3 DEF Current, Going, CallFields
  <2> HIDE DEF x
  <2>5. Current(x)
    BY <2>3, <2>4, OtherFields DEF Current
  <2> QED BY <2>2, <2>3, <2>4, <2>5
<1> QED BY <1>1, <1>2

LEMMA EmitGoes ==
  ASSUME Converts, NEW st, Current(st), st.input # <<>> => Answers(st), NEW key
  PROVE  /\ Going(Emit(st, key)) /\ Answers(Emit(st, key))
         /\ Emit(st, key).type = st.type /\ Emit(st, key).options = st.options
<1> DEFINE observed == [st EXCEPT !.p = ObserveDocument(BeforeCursor(snapshot), @)]
           ended == FinishComposition(observed)
           text == EmitText(key, st.options, ended.p)
           noted == [ended EXCEPT !.p = EmitState(key, st.options, @)]
           left == Harvest(noted)
           x == [left EXCEPT !.out.commit = @ \o text, !.p = NoteCommit(@, text)]
<1>1. Emit(st, key) = x
  BY DEF Emit
<1>2. /\ DOMAIN observed = CallFields /\ observed.model = st.model
      /\ observed.type = st.type /\ observed.input = st.input
      /\ observed.used = st.used /\ observed.options = st.options
      /\ observed.raised = st.raised
  BY DEF Current, Going, CallFields
<1> HIDE DEF observed
<1>3. /\ Current(observed)
      /\ observed.input # <<>> => Answers(observed)
  BY <1>2, OtherFields DEF Current
<1>4. Current(ended) /\ ended.type = st.type /\ ended.options = st.options
  BY <1>2, <1>3, FinishGoes
<1> HIDE DEF ended
<1>5. /\ DOMAIN noted = CallFields /\ noted.model = ended.model
      /\ noted.type = ended.type /\ noted.input = ended.input
      /\ noted.used = ended.used /\ noted.options = ended.options
      /\ noted.raised = ended.raised
  BY <1>4 DEF Current, Going, CallFields
<1> HIDE DEF noted
<1>6. Current(noted) /\ Going(noted)
  BY <1>4, <1>5, OtherFields DEF Current
<1>7. /\ Going(left) /\ Answers(left) /\ left.type = noted.type
      /\ left.options = noted.options
  BY <1>6, HarvestGoes
<1> HIDE DEF left, text
<1>8. /\ DOMAIN x = CallFields /\ x.model = left.model /\ x.type = left.type
      /\ x.input = left.input /\ x.used = left.used /\ x.options = left.options
      /\ x.raised = left.raised
  BY <1>7 DEF Going, CallFields
<1> HIDE DEF x
<1>9. Going(x) /\ Answers(x)
  BY <1>7, <1>8, OtherFields
<1> QED BY <1>1, <1>4, <1>5, <1>7, <1>8, <1>9

-------------------------------------------------------------------------------
(* Entering and leaving a call.                                            *)

LEMMA Wanted ==
  ASSUME PyzyInv, NEW o \in Options
  PROVE  WantedType(o) \in Types
BY DEF PyzyInv, WantedType, Types, Options

LEMMA EnterGoes ==
  ASSUME Converts, PyzyInv, NEW keep
  PROVE  /\ Going(Enter(keep)) /\ Answers(Enter(keep)) /\ InForce(Enter(keep))
         /\ Enter(keep).type = type /\ Enter(keep).options = options
         /\ Enter(keep).input = input /\ Enter(keep).raised = {}
         /\ Offered(Enter(keep)) = Offered(Plain)
<1> DEFINE x == Enter(keep)
<1>1. /\ DOMAIN x = CallFields /\ x.model = model /\ x.type = type
      /\ x.input = input /\ x.used = used /\ x.options = options /\ x.raised = {}
  BY DEF Enter, CallFields
<1>2. /\ Plain.type = type /\ Plain.input = input /\ Plain.used = used
      /\ Plain.options = options
  BY DEF Plain, Enter
<1> HIDE DEF x
<1>3. Going(x) /\ InForce(x)
  BY <1>1 DEF Going, InForce, PyzyInv
<1>4. Offered(x) = Offered(Plain)
  BY <1>1, <1>2 DEF Offered, Rest
<1>5. Answers(x)
  <2>1. Len(Texts(Offered(x))) \in Nat
    BY <1>3, OfferedList
  <2>2. options.cap \in Nat
    BY DEF PyzyInv, Options
  <2>3. Capped(Len(Texts(Offered(x))), options.cap) \in 0..Len(Texts(Offered(x)))
    BY <2>1, <2>2 DEF Capped
  <2>4. x.model.candidates = SubSeq(Texts(Offered(x)), 1,
                                    Capped(Len(Texts(Offered(x))), options.cap))
    BY <1>1, <1>4 DEF PyzyInv, ListIsCurrent
  <2> QED BY <2>3, <2>4 DEF Answers
<1> QED BY <1>1, <1>3, <1>4, <1>5 DEF x

LEMMA ApplyGoes ==
  ASSUME NEW st, Going(st), InForce(st), WantedType(st.options) \in Types
  PROVE  /\ Going(ApplyOptions(st))
         /\ ApplyOptions(st).type = WantedType(st.options)
         /\ ApplyOptions(st).options = st.options
         /\ st.input # <<>> => ApplyOptions(st) = st
         /\ Current(st) => Current(ApplyOptions(st))
         /\ ApplyOptions(st).input # <<>> => ApplyOptions(st) = st
<1> DEFINE r == PyzyReset(st)
           t == WantedType(st.options)
           x == [r EXCEPT !.type = t, !.p = FreshPunctuation]
<1>1. ApplyOptions(st) = IF t # st.type THEN x ELSE st
  BY DEF ApplyOptions, Recreate
<1>2. /\ Going(r) /\ r.input = <<>> /\ r.options = st.options /\ "list" \in r.raised
  BY PyzyResetGoes DEF Current
<1> HIDE DEF r, t
<1>3. /\ DOMAIN x = CallFields /\ x.model = r.model /\ x.type = t
      /\ x.input = r.input /\ x.used = r.used /\ x.options = r.options
      /\ x.raised = r.raised
  BY <1>2 DEF Going, CallFields
<1> HIDE DEF x
<1>4. Going(x) /\ Current(x)
  BY <1>2, <1>3 DEF Going, Current, t
<1> QED BY <1>1, <1>2, <1>3, <1>4 DEF InForce, t

\* A call that begins with the options applied.
LEMMA CallGoes ==
  ASSUME Converts, PyzyInv, NEW st \in Calls
  PROVE  /\ Current(st) /\ Going(st)
         /\ st.type = WantedType(st.options) /\ st.options = options
         /\ st.input # <<>> => Answers(st)
         /\ Composing => st.input = input /\ Answers(st)
<1>1. PICK keep \in BOOLEAN : st = ApplyOptions(Enter(keep))
  BY DEF Calls
<1>2. WantedType(options) \in Types
  BY Wanted DEF PyzyInv
<1>3. /\ Going(Enter(keep)) /\ Answers(Enter(keep)) /\ InForce(Enter(keep))
      /\ Enter(keep).options = options /\ Enter(keep).input = input
  BY EnterGoes
<1> QED BY <1>1, <1>2, <1>3, ApplyGoes DEF Current, Composing

LEMMA LeaveKeeps ==
  ASSUME Converts, PyzyInv, NEW st, Going(st), Answers(st), InForce(st),
         NEW force, Leave(st, force)
  PROVE  PyzyInv'
<1> DEFINE offered == Texts(Offered(st))
           cap == st.options.cap
           m == Materialize(st.model, offered, cap)
<1>1. /\ id' = id /\ type' = st.type /\ input' = st.input /\ used' = st.used
      /\ options' = st.options /\ model' = m
  BY DEF Leave, Refresh
<1>2. offered \in Seq(Text) /\ Len(offered) \in Nat /\ cap \in Nat \ {0}
  BY OfferedList DEF Going, Options
<1>3. Texts(Offered(Plain))' = offered
  <2>1. Rest(Plain)' = Rest(st)
    BY <1>1 DEF Rest, Plain, Enter
  <2>2. Plain'.type = st.type /\ Plain'.options = st.options
    BY <1>1 DEF Plain, Enter
  <2> QED BY <2>1, <2>2 DEF Offered
<1>4. model'.candidates = SubSeq(offered, 1, Capped(Len(offered), cap))
  <2>1. model'.candidates = Listed(st.model, offered, cap)
    BY <1>1 DEF Materialize, Going, ModelFields
  <2>2. \/ st.model.candidates = <<>>
        \/ \E n \in 0..Len(offered) : st.model.candidates = SubSeq(offered, 1, n)
    BY DEF Answers
  <2> HIDE DEF offered, cap
  <2> QED BY <1>2, <2>1, <2>2, RefilledList DEF Listed
<1>5. DOMAIN model' = ModelFields /\ model'.cursor \in Nat
  BY <1>1 DEF Materialize, Going, ModelFields
<1>6. ListIsCurrent'
  BY <1>1, <1>3, <1>4 DEF ListIsCurrent
<1>7. (type # WantedType(options) => input = <<>>)'
  BY <1>1 DEF InForce, WantedType
<1> HIDE DEF m
<1> QED BY <1>1, <1>5, <1>6, <1>7 DEF PyzyInv, Going

\* Most calls harvest last, under the scheme in force.
LEMMA HarvestedKeeps ==
  ASSUME Converts, PyzyInv, NEW st, Current(st), InForce(st),
         NEW force, Leave(Harvest(st), force)
  PROVE  PyzyInv'
BY HarvestGoes, LeaveKeeps DEF Current, InForce

-------------------------------------------------------------------------------
(* The invariant.                                                          *)

LEMMA PyzyInit == Init => PyzyInv
<1> SUFFICES ASSUME Init PROVE PyzyInv
  OBVIOUS
<1>1. /\ id \in {"pinyin", "bopomofo"} /\ options \in Options
      /\ type = WantedType(options) /\ input = <<>> /\ used = 0 /\ model = EmptyModel
  BY PyzyAssumption DEF Init, ContextInit
<1>2. type \in Types
  BY <1>1 DEF WantedType, Types, Options
<1>3. DOMAIN model = ModelFields /\ model.cursor = 0 /\ model.candidates = <<>>
  BY <1>1 DEF EmptyModel, ModelFields
<1>4. ListIsCurrent
  <2>1. Rest(Plain) = <<>>
    <3>1. Plain.input = <<>> /\ Plain.used = 0
      BY <1>1 DEF Plain, Enter
    <3>2. Len(<<>>) = 0 /\ SubSeq(<<>>, 1, 0) = <<>>
      BY SubSeqEmpty
    <3> QED BY <3>1, <3>2 DEF Rest
  <2>2. Texts(Offered(Plain)) = <<>>
    <3>1. Offered(Plain) = <<>>
      BY <2>1 DEF Offered
    <3> QED BY <3>1 DEF Texts
  <2>3. Capped(Len(<<>>), options.cap) = 0
    BY <1>1 DEF Capped, Options
  <2>4. SubSeq(<<>>, 1, 0) = <<>>
    BY SubSeqEmpty
  <2> QED BY <1>3, <2>2, <2>3, <2>4 DEF ListIsCurrent
<1> QED BY <1>1, <1>2, <1>3, <1>4 DEF PyzyInv

LEMMA PyzyKept == Converts /\ PyzyInv /\ [Next]_vars => PyzyInv'
<1> SUFFICES ASSUME Converts, PyzyInv, [Next]_vars PROVE PyzyInv'
  OBVIOUS
<1>1. ASSUME NEW key \in Keys, TypeKey(key) PROVE PyzyInv'
  <2>1. PICK st \in Calls : Leave(Harvest(PyzyInsert(st, key)), FALSE)
    BY <1>1 DEF TypeKey
  <2>2. Current(PyzyInsert(st, key)) /\ InForce(PyzyInsert(st, key))
    BY CallGoes, InsertGoes DEF InForce
  <2> QED BY <2>1, <2>2, HarvestedKeeps
<1>2. ASSUME NEW key \in Keys, TypeText(key) PROVE PyzyInv'
  <2>1. PICK st \in Calls : Leave(Emit(st, key), FALSE)
    BY <1>2 DEF TypeText
  <2>2. Going(Emit(st, key)) /\ Answers(Emit(st, key)) /\ InForce(Emit(st, key))
    BY CallGoes, EmitGoes DEF InForce
  <2> QED BY <2>1, <2>2, LeaveKeeps
<1>3. CASE Convert
  <2>1. PICK st \in Calls :
          Leave(Harvest(IF Hovering(st) THEN TakeHovered(st) ELSE PyzyCommit(st)), FALSE)
    BY <1>3 DEF Convert
  <2> DEFINE x == IF Hovering(st) THEN TakeHovered(st) ELSE PyzyCommit(st)
  <2>2. /\ Current(st) /\ Going(st) /\ Answers(st)
        /\ st.type = WantedType(st.options)
    BY <1>3, CallGoes DEF Convert
  <2>3. Current(x) /\ InForce(x)
    <3>1. CASE Hovering(st)
      <4>1. st.model.cursor \in Nat /\ st.model.cursor < Len(Offered(st))
        BY <2>2, <3>1, HoveredIsOffered DEF Going
      <4> QED BY <2>2, <3>1, <4>1, SelectGoes DEF TakeHovered, InForce
    <3>2. CASE ~Hovering(st)
      BY <2>2, <3>2, CommitGoes DEF InForce
    <3> QED BY <3>1, <3>2
  <2> QED BY <2>1, <2>3, HarvestedKeeps
<1>4. CASE Return
  <2>1. PICK st \in Calls : Leave(Harvest(CommitPreedit(st)), FALSE)
    BY <1>4 DEF Return
  <2>2. Current(CommitPreedit(st)) /\ InForce(CommitPreedit(st))
    BY CallGoes, CommitPreeditGoes DEF InForce
  <2> QED BY <2>1, <2>2, HarvestedKeeps
<1>5. CASE Escape
  <2>1. PICK st \in Calls : Leave(Harvest(PyzyReset(st)), FALSE)
    BY <1>5 DEF Escape
  <2>2. Current(PyzyReset(st)) /\ InForce(PyzyReset(st))
    BY CallGoes, PyzyResetGoes DEF InForce
  <2> QED BY <2>1, <2>2, HarvestedKeeps
<1>6. CASE BackspaceKey
  <2>1. PICK st \in Calls : Leave(Harvest(Edited(st, Front(st.input))), FALSE)
    BY <1>6 DEF BackspaceKey
  <2>2. Front(st.input) \in Seq(Keys)
    <3>1. st.input \in Seq(Keys) /\ Len(st.input) \in Nat
      BY CallGoes, LenProperties DEF Going
    <3>2. \A i \in 1..(Len(st.input) - 1) : st.input[i] \in Keys
      BY <3>1
    <3> QED BY <3>1, <3>2, SubSeqProperties DEF Front
  <2>3. Current(Edited(st, Front(st.input))) /\ InForce(Edited(st, Front(st.input)))
    BY <2>2, CallGoes, EditedGoes DEF InForce
  <2> QED BY <2>1, <2>3, HarvestedKeeps
<1>7. CASE DeleteKey
  <2>1. PICK st \in Calls : Leave(Harvest(st), FALSE)
    BY <1>7 DEF DeleteKey
  <2> QED BY <2>1, CallGoes, HarvestedKeeps DEF InForce
<1>8. CASE TypeOther
  <2>1. PICK st \in Calls \cup {Plain} : Leave(Harvest(st), FALSE)
    BY <1>8 DEF TypeOther
  <2>2. Current(st) /\ InForce(st)
    BY CallGoes, EnterGoes DEF InForce, Plain, Current
  <2> QED BY <2>1, <2>2, HarvestedKeeps
<1>9. CASE Commit
  <2>1. Going(Plain) /\ Answers(Plain) /\ InForce(Plain) /\ Plain.input = input
    BY EnterGoes DEF Plain
  <2>2. CASE Composing
    <3>1. Leave(Harvest(CommitPreedit(Plain)), FALSE)
      BY <1>9, <2>2 DEF Commit
    <3>2. Current(CommitPreedit(Plain)) /\ InForce(CommitPreedit(Plain))
      BY <2>1, <2>2, CommitPreeditGoes DEF InForce, Composing
    <3> QED BY <3>1, <3>2, HarvestedKeeps
  <2>3. CASE ~Composing
    <3>1. Leave(Plain, FALSE)
      BY <1>9, <2>3 DEF Commit
    <3> QED BY <2>1, <3>1, LeaveKeeps
  <2> QED BY <2>2, <2>3
<1>10. ASSUME NEW st, Going(st)
       PROVE  Going(ResetState(st)) /\ Answers(ResetState(st)) /\ InForce(ResetState(st))
  <2> DEFINE r == PyzyReset(st)
             x == [r EXCEPT !.model = EmptyModel, !.p = FreshPunctuation]
  <2>1. Going(r) /\ r.input = <<>>
    BY <1>10, PyzyResetGoes DEF Current
  <2>2. ResetState(st) = x
    BY DEF ResetState
  <2> HIDE DEF r
  <2>3. /\ DOMAIN x = CallFields /\ x.model = EmptyModel /\ x.type = r.type
        /\ x.input = <<>> /\ x.used = r.used /\ x.options = r.options
    BY <2>1 DEF Going, CallFields
  <2> HIDE DEF x
  <2>4. Going(x) /\ Answers(x) /\ InForce(x)
    BY <2>1, <2>3 DEF Going, Answers, InForce, EmptyModel, ModelFields
  <2> QED BY <2>2, <2>4
<1>11. CASE Reset
  <2>1. Leave(ResetState(Plain), FALSE) /\ Going(Plain)
    BY <1>11, EnterGoes DEF Reset, Plain
  <2> QED BY <1>10, <2>1, LeaveKeeps
<1>12. CASE SelectCandidate
  <2>1. PICK k \in 0..(Len(model.candidates) - 1), st \in Calls :
          k < Len(Offered(st)) /\ Leave(Harvest(PyzySelect(st, k)), FALSE)
    BY <1>12 DEF SelectCandidate
  <2>2. Current(PyzySelect(st, k)) /\ InForce(PyzySelect(st, k))
    BY <2>1, CallGoes, SelectGoes DEF InForce
  <2> QED BY <2>1, <2>2, HarvestedKeeps
<1>13. CASE MoveCursor
  <2>1. PICK k \in 0..(Len(model.candidates) - 1), st \in Calls :
          k < Len(Offered(st)) /\ Leave(Focus(st, k), FALSE)
    BY <1>13 DEF MoveCursor
  <2> DEFINE x == [st EXCEPT !.model.cursor = k, !.raised = {"text"}]
  <2>2. Going(st) /\ st.type = WantedType(st.options) /\ Answers(st)
    <3>1. st.input # <<>>
      <4>1. ASSUME st.input = <<>> PROVE Offered(st) = <<>>
        <5>1. Rest(st) = <<>>
          BY <4>1, CallGoes, SubSeqEmpty DEF Rest, Going
        <5> QED BY <5>1 DEF Offered
      <4> QED BY <2>1, <4>1
    <3> QED BY <3>1, CallGoes
  <2>3. /\ DOMAIN x = CallFields /\ DOMAIN x.model = ModelFields
        /\ x.model.candidates = st.model.candidates /\ x.model.cursor = k
        /\ x.type = st.type /\ x.input = st.input /\ x.used = st.used
        /\ x.options = st.options
    BY <2>2 DEF Going, CallFields, ModelFields
  <2>4. Leave(Harvest(x), FALSE)
    BY <2>1 DEF Focus
  <2> HIDE DEF x
  <2>5. Going(x) /\ InForce(x)
    BY <2>2, <2>3 DEF Going, InForce
  <2>6. Answers(x)
    BY <2>2, <2>3 DEF Answers, Offered, Rest
  <2> QED BY <2>4, <2>5, <2>6, HarvestedKeeps DEF Current
<1>14. CASE SetOption
  <2>1. PICK chosen \in Settings :
          LET st == [Plain EXCEPT !.options = chosen]
          IN IF chosen.scheme # options.scheme THEN Leave(ResetState(st), FALSE)
             ELSE Leave(OptionsChanged(st), TRUE)
    BY <1>14 DEF SetOption
  <2> DEFINE st == [Plain EXCEPT !.options = chosen]
  <2>2. chosen \in Options
    BY PyzyAssumption
  <2>3. /\ DOMAIN st = CallFields /\ st.model = Plain.model /\ st.type = Plain.type
        /\ st.input = Plain.input /\ st.used = Plain.used /\ st.options = chosen
        /\ Going(Plain) /\ Plain.type = type /\ Plain.input = input
    BY EnterGoes DEF Plain, Going, CallFields
  <2> HIDE DEF st
  <2>4. Going(st)
    BY <2>2, <2>3 DEF Going
  <2>5. CASE chosen.scheme # options.scheme
    <3>1. Leave(ResetState(st), FALSE)
      BY <2>1, <2>5 DEF st
    <3> QED BY <1>10, <2>4, <3>1, LeaveKeeps
  <2>6. CASE chosen.scheme = options.scheme
    <3>1. InForce(st)
      BY <2>3, <2>6 DEF InForce, WantedType, PyzyInv
    <3> DEFINE applied == ApplyOptions(st)
               heard == [applied EXCEPT !.raised = @ \cup {"text"}]
               told == Harvest(heard)
               x == [told EXCEPT !.model.candidates = <<>>, !.model.cursor = 0]
    <3>2. Leave(x, TRUE)
      BY <2>1, <2>6 DEF st, OptionsChanged
    <3>3. Going(applied) /\ applied.type = WantedType(applied.options)
      BY <2>2, <2>3, <2>4, <3>1, Wanted, ApplyGoes
    <3> HIDE DEF applied
    <3>4. /\ DOMAIN heard = CallFields /\ heard.model = applied.model
          /\ heard.type = applied.type /\ heard.input = applied.input
          /\ heard.used = applied.used /\ heard.options = applied.options
      BY <3>3 DEF Going, CallFields
    <3> HIDE DEF heard
    <3>5. Going(heard)
      BY <3>3, <3>4 DEF Going
    <3>6. Going(told) /\ told.type = heard.type /\ told.options = heard.options
      BY <3>5, HarvestGoes
    <3> HIDE DEF told
    <3>7. /\ DOMAIN x = CallFields /\ DOMAIN x.model = ModelFields
          /\ x.model.candidates = <<>> /\ x.model.cursor = 0 /\ x.type = told.type
          /\ x.input = told.input /\ x.used = told.used /\ x.options = told.options
      BY <3>6 DEF Going, CallFields, ModelFields
    <3> HIDE DEF x
    <3>8. Going(x) /\ Answers(x) /\ InForce(x)
      BY <3>3, <3>4, <3>6, <3>7 DEF Going, Answers, InForce
    <3> QED BY <3>2, <3>8, LeaveKeeps
  <2> QED BY <2>5, <2>6
<1>15. CASE UNCHANGED <<model, pyzyVars>>
  BY <1>15 DEF pyzyVars, PyzyInv, ListIsCurrent, WantedType, Plain, Enter, Offered,
               Rest, Texts
<1>16. CASE MoveElsewhere \/ Report \/ Fallback
  BY <1>15, <1>16 DEF MoveElsewhere, Report, Fallback, ClientActs
<1>17. CASE UNCHANGED vars
  BY <1>15, <1>17 DEF vars, contextVars
<1> QED BY <1>1, <1>2, <1>3, <1>4, <1>5, <1>6, <1>7, <1>8, <1>9, <1>11, <1>12, <1>13,
           <1>14, <1>16, <1>17 DEF Next

-------------------------------------------------------------------------------
(* Text and letters.                                                       *)

Clean == Seq(Scalar \ Separators)

\* What is assumed of PyZy's texts: nothing is spelled as nothing, and a conversion
\* of some of the keys holds no separators.
Renders ==
  \A t \in Types :
    /\ Spelling(t, <<>>) = <<>>
    /\ \A run \in Seq(Keys) : Spelling(t, run) \in Text
    /\ \A run \in Seq(Keys) \ {<<>>}, simplified \in BOOLEAN :
         Conversions(t, run, simplified) \in Seq([text : Clean, takes : 0..Len(run)])

\* What a text was typed with.
Sounding(text) == Joined(Sounds, text)

\* What is assumed of the sounds: a spelling sounds like the keys it spells, a
\* conversion like those it takes, and a mark of punctuation like none; and PyZy
\* takes every letter.
Heard ==
  /\ Sounds \in [Scalar -> Seq(Alphabet)]
  /\ \A s \in Separators : Sounds[s] = <<>>
  /\ \A key \in Keys : Sounds[key] = IF key \in Alphabet THEN <<key>> ELSE <<>>
  /\ \A s \in {openSingle, closeSingle, openDouble, closeDouble, fullStop}
              \cup {FullWidth[key] : key \in Keys \ Alphabet} : Sounds[s] = <<>>
  /\ \A simplified \in BOOLEAN : \A key \in DOMAIN Marks(simplified) :
       Sounding(Marks(simplified)[key]) = <<>>
  /\ \A t \in Types :
       /\ Alphabet \subseteq Accepts(t)
       /\ \A run \in Seq(Keys) : Sounding(Spelling(t, run)) = LettersIn(run)
       /\ \A run \in Seq(Keys) \ {<<>>}, simplified \in BOOLEAN :
            \A i \in DOMAIN Conversions(t, run, simplified) :
              LET c == Conversions(t, run, simplified)[i]
              IN Sounding(c.text) = LettersIn(SubSeq(run, 1, c.takes))

KeySounds == [key \in Keys |-> IF key \in Alphabet THEN <<key>> ELSE <<>>]
Cleaned == [s \in Scalar |-> IF s \in Separators THEN <<>> ELSE <<s>>]

LEMMA CleanIsText == Clean \subseteq Text
BY SeqMonotonic DEF Clean, Text

LEMMA KeysAreText == Seq(Keys) \subseteq Text
<1>1. Keys \subseteq Scalar
  BY PyzyAssumption, PunctuationAssumption
<1> QED BY <1>1, SeqMonotonic DEF Text

LEMMA RendersConverts == Renders => Converts
<1> SUFFICES ASSUME Renders, NEW t \in Types, NEW run \in Seq(Keys) \ {<<>>},
                    NEW simplified \in BOOLEAN
             PROVE  Conversions(t, run, simplified) \in Seq([text : Text, takes : Nat])
  BY DEF Converts
<1>1. Conversions(t, run, simplified) \in Seq([text : Clean, takes : 0..Len(run)])
  BY DEF Renders
<1> DEFINE A == [text : Clean, takes : 0..Len(run)]
           B == [text : Text, takes : Nat]
<1>2. A \subseteq B
  BY CleanIsText
<1> HIDE DEF A, B
<1>3. Seq(A) \subseteq Seq(B)
  BY <1>2, SeqMonotonic
<1> QED BY <1>1, <1>3 DEF A, B

\* The letters among keys, call by call.
LEMMA LettersAre ==
  /\ \A q \in Seq(Keys) : LettersIn(q) = Joined(KeySounds, q)
  /\ \A q \in Seq(Keys) : LettersIn(q) \in Seq(Alphabet)
  /\ \A q, r \in Seq(Keys) : LettersIn(q \o r) = LettersIn(q) \o LettersIn(r)
  /\ \A x \in Keys : LettersIn(<<x>>) = IF x \in Alphabet THEN <<x>> ELSE <<>>
  /\ LettersIn(<<>>) = <<>>
<1>1. Becomes(KeySounds, Keys, Alphabet)
  BY DEF Becomes, KeySounds
<1>2. ASSUME NEW q \in Seq(Keys) PROVE LettersIn(q) = Joined(KeySounds, q)
  <2>1. \A i \in DOMAIN q :
          KeySounds[q[i]] = IF q[i] \in Alphabet THEN <<q[i]>> ELSE <<>>
    BY DEF KeySounds
  <2>2. [i \in DOMAIN q |-> KeySounds[q[i]]]
          = [i \in DOMAIN q |-> IF q[i] \in Alphabet THEN <<q[i]>> ELSE <<>>]
    BY <2>1
  <2> QED BY <2>2 DEF LettersIn, Joined
<1>3. ASSUME NEW q \in Seq(Keys) PROVE LettersIn(q) \in Seq(Alphabet)
  BY <1>1, <1>2, JoinedType
<1>4. ASSUME NEW q \in Seq(Keys), NEW r \in Seq(Keys)
      PROVE  LettersIn(q \o r) = LettersIn(q) \o LettersIn(r)
  <2>1. q \o r \in Seq(Keys)
    BY ConcatProperties
  <2>2. Joined(KeySounds, q \o r) = Joined(KeySounds, q) \o Joined(KeySounds, r)
    BY <1>1, JoinedConcat
  <2> QED BY <1>2, <2>1, <2>2
<1>5. ASSUME NEW x \in Keys
      PROVE  LettersIn(<<x>>) = IF x \in Alphabet THEN <<x>> ELSE <<>>
  <2>1. <<x>> \in Seq(Keys)
    OBVIOUS
  <2>2. Joined(KeySounds, <<x>>) = KeySounds[x]
    BY <1>1, JoinedOne
  <2> QED BY <1>2, <2>1, <2>2 DEF KeySounds
<1>6. LettersIn(<<>>) = <<>>
  <2>1. <<>> \in Seq(Keys)
    OBVIOUS
  <2> QED BY <1>2, <2>1, JoinedEmpty
<1> QED BY <1>2, <1>3, <1>4, <1>5, <1>6

LEMMA SoundingIs ==
  ASSUME Heard
  PROVE  /\ \A t \in Text : Sounding(t) \in Seq(Alphabet)
         /\ \A s, t \in Text : Sounding(s \o t) = Sounding(s) \o Sounding(t)
         /\ \A s \in Scalar : Sounding(<<s>>) = Sounds[s]
         /\ Sounding(<<>>) = <<>>
<1>1. Becomes(Sounds, Scalar, Alphabet)
  BY DEF Becomes, Heard
<1> QED BY <1>1, JoinedType, JoinedConcat, JoinedOne, JoinedEmpty DEF Sounding, Text

\* Typing's letters are these.
LEMMA TypingSounds == \A t : Typing!LettersOf(t) = Sounding(t)
BY DEF Typing!LettersOf, Typing!FlattenSeq, Sounding, Joined, FlattenSeq

\* Keys sound like their letters.
LEMMA KeysSound ==
  ASSUME Heard, NEW q \in Seq(Keys)
  PROVE  Sounding(q) = LettersIn(q)
<1>1. \A i \in 1..Len(q) : Sounds[q[i]] = KeySounds[q[i]]
  BY DEF Heard, KeySounds
<1>2. Joined(Sounds, q) = Joined(KeySounds, q)
  BY <1>1, JoinedAlike
<1> QED BY <1>2, LettersAre DEF Sounding

\* Taking the separators out leaves a clean text as it is, and changes no sound.
LEMMA UnseparatedIs ==
  /\ \A t \in Text : Unseparated(t) \in Clean
  /\ \A s, t \in Text : Unseparated(s \o t) = Unseparated(s) \o Unseparated(t)
  /\ \A t \in Clean : Unseparated(t) = t
  /\ Heard => \A t \in Text : Sounding(Unseparated(t)) = Sounding(t)
<1>1. Becomes(Cleaned, Scalar, Scalar \ Separators)
  <2>1. ASSUME NEW x \in Scalar PROVE Cleaned[x] \in Seq(Scalar \ Separators)
    <3>1. Cleaned[x] = IF x \in Separators THEN <<>> ELSE <<x>>
      BY DEF Cleaned
    <3>2. CASE x \in Separators
      BY <3>1, <3>2
    <3>3. CASE x \notin Separators
      <4>1. x \in Scalar \ Separators
        BY <3>3
      <4>2. <<x>> \in Seq(Scalar \ Separators)
        BY <4>1
      <4> QED BY <3>1, <3>3, <4>2
    <3> QED BY <3>2, <3>3
  <2> QED BY <2>1 DEF Becomes
<1>2. ASSUME NEW t \in Text PROVE Unseparated(t) = Joined(Cleaned, t)
  <2>1. \A i \in DOMAIN t :
          Cleaned[t[i]] = IF t[i] \in Separators THEN <<>> ELSE <<t[i]>>
    BY DEF Cleaned, Text
  <2>2. [i \in DOMAIN t |-> Cleaned[t[i]]]
          = [i \in DOMAIN t |-> IF t[i] \in Separators THEN <<>> ELSE <<t[i]>>]
    BY <2>1
  <2> QED BY <2>2 DEF Unseparated, Joined
<1>3. ASSUME NEW t \in Text PROVE Unseparated(t) \in Clean
  BY <1>1, <1>2, JoinedType DEF Text, Clean
<1>4. ASSUME NEW s \in Text, NEW t \in Text
      PROVE  Unseparated(s \o t) = Unseparated(s) \o Unseparated(t)
  <2>1. s \o t \in Text
    BY ConcatText
  <2>2. Joined(Cleaned, s \o t) = Joined(Cleaned, s) \o Joined(Cleaned, t)
    BY <1>1, JoinedConcat DEF Text
  <2> QED BY <1>2, <2>1, <2>2
<1>5. Unseparated(<<>>) = <<>>
  BY <1>2, EmptyText, JoinedEmpty
<1>6. ASSUME NEW x \in Scalar
      PROVE  Unseparated(<<x>>) = IF x \in Separators THEN <<>> ELSE <<x>>
  <2>1. <<x>> \in Text
    BY DEF Text
  <2>2. Joined(Cleaned, <<x>>) = Cleaned[x]
    BY <1>1, JoinedOne
  <2> QED BY <1>2, <2>1, <2>2 DEF Cleaned
<1>7. ASSUME NEW t \in Text, NEW x \in Scalar
      PROVE  /\ <<x>> \in Text /\ Append(t, x) = t \o <<x>>
             /\ Unseparated(Append(t, x)) = Unseparated(t) \o Unseparated(<<x>>)
  <2>1. <<x>> \in Text /\ Append(t, x) = t \o <<x>>
    BY AppendIsConcat DEF Text
  <2> QED BY <1>4, <2>1
<1>8. Clean \subseteq {t \in Clean : Unseparated(t) = t}
  <2> DEFINE P == {t \in Clean : Unseparated(t) = t}
  <2>1. <<>> \in P
    BY <1>5 DEF Clean
  <2>2. ASSUME NEW q \in Clean, NEW x \in Scalar \ Separators, q \in P
        PROVE  Append(q, x) \in P
    <3>1. Append(q, x) \in Clean
      BY DEF Clean
    <3>2. q \in Text /\ Unseparated(q) = q
      BY <2>2, CleanIsText
    <3>3. Unseparated(Append(q, x)) = Append(q, x)
      BY <1>6, <1>7, <3>2
    <3> QED BY <3>1, <3>3
  <2> HIDE DEF P
  <2>3. Seq(Scalar \ Separators) \subseteq P
    BY <2>1, <2>2, SequenceInduction DEF Clean
  <2> QED BY <2>3 DEF Clean, P
<1>9. ASSUME Heard PROVE Text \subseteq {t \in Text : Sounding(Unseparated(t)) = Sounding(t)}
  <2> DEFINE P == {t \in Text : Sounding(Unseparated(t)) = Sounding(t)}
  <2>1. <<>> \in P
    BY <1>5, EmptyText
  <2>2. ASSUME NEW q \in Text, NEW x \in Scalar, q \in P PROVE Append(q, x) \in P
    <3>1. Append(q, x) \in Text
      BY DEF Text
    <3>2. Unseparated(q) \in Text /\ Unseparated(<<x>>) \in Text /\ <<x>> \in Text
      BY <1>3, <1>7, CleanIsText
    <3>3. Sounding(Unseparated(<<x>>)) = Sounding(<<x>>)
      <4>1. CASE x \in Separators
        BY <1>6, <1>9, <4>1, SoundingIs DEF Heard
      <4>2. CASE x \notin Separators
        BY <1>6, <4>2
      <4> QED BY <4>1, <4>2
    <3>4. /\ Sounding(Unseparated(q) \o Unseparated(<<x>>))
               = Sounding(Unseparated(q)) \o Sounding(Unseparated(<<x>>))
          /\ Sounding(q \o <<x>>) = Sounding(q) \o Sounding(<<x>>)
      BY <1>9, <3>2, SoundingIs
    <3>5. Sounding(Unseparated(q)) = Sounding(q)
      BY <2>2
    <3> QED BY <1>7, <3>1, <3>3, <3>4, <3>5
  <2> HIDE DEF P
  <2>3. Seq(Scalar) \subseteq P
    BY <2>1, <2>2, SequenceInduction DEF Text
  <2> QED BY <2>3 DEF Text, P
<1> QED BY <1>3, <1>4, <1>8, <1>9

-------------------------------------------------------------------------------
(* What a call makes of keys and text.                                     *)

Plainly == [commit : Text, offset : {0}, count : {0}]

\* The model shows what was selected and spells out the rest.
Shows(st) ==
  /\ st.model.settled = st.selected
  /\ st.model.active = Spelling(st.type, Rest(st))
  /\ st.model.tail = <<>>

\* What was selected sounds like the keys it consumed.
Tallied(st) == Sounding(st.selected) = LettersIn(SubSeq(st.input, 1, st.used))

Rendered(st) ==
  /\ st.selected \in Clean /\ st.used <= Len(st.input)
  /\ st.told \in Text /\ st.out \in Plainly
  /\ "text" \in st.raised \/ Shows(st)
  /\ Heard => Tallied(st)

\* The letters a call has in hand: those it delivers and those still composed.
Due(st) == Sounding(st.out.commit \o st.told) \o LettersIn(st.input)

LEMMA RestSplits ==
  ASSUME NEW st, Going(st), st.used <= Len(st.input)
  PROVE  /\ SubSeq(st.input, 1, st.used) \in Seq(Keys) /\ Rest(st) \in Seq(Keys)
         /\ SubSeq(st.input, 1, st.used) \o Rest(st) = st.input
         /\ Len(Rest(st)) = Len(st.input) - st.used
         /\ Len(st.input) \in Nat /\ Len(Rest(st)) \in Nat
         /\ st.input = <<>> => Rest(st) = <<>>
         /\ \A n \in 0..Len(Rest(st)) :
              /\ SubSeq(Rest(st), 1, n) \in Seq(Keys)
              /\ SubSeq(st.input, 1, st.used + n)
                   = SubSeq(st.input, 1, st.used) \o SubSeq(Rest(st), 1, n)
<1>1. st.input \in Seq(Keys) /\ st.used \in Nat
  BY DEF Going
<1>2. Cut(st.input, st.used, Rest(st), Keys)
  BY <1>1, SplitSequence, Zenon DEF Rest
<1> QED BY <1>2 DEF Cut

\* What none of this depends on.
LEMMA TextFields ==
  ASSUME NEW st, Rendered(st), NEW x,
         x.type = st.type, x.input = st.input, x.used = st.used,
         x.selected = st.selected, x.told = st.told, x.out = st.out,
         \/ "text" \in x.raised
         \/ /\ "text" \notin st.raised
            /\ \A f \in {"settled", "active", "tail"} : x.model[f] = st.model[f]
  PROVE  Rendered(x) /\ Due(x) = Due(st)
<1>1. Rest(x) = Rest(st)
  BY DEF Rest
<1>2. "text" \in x.raised \/ Shows(x)
  BY <1>1 DEF Rendered, Shows
<1> QED BY <1>2 DEF Rendered, Due, Tallied

\* The texts PyZy answers with.
LEMMA OfferedText ==
  ASSUME Renders, NEW st, Going(st), Rest(st) \in Seq(Keys),
         NEW k \in Nat, k < Len(Offered(st))
  PROVE  /\ Offered(st)[k + 1].text \in Clean
         /\ Offered(st)[k + 1].takes \in 0..Len(Rest(st))
         /\ Heard => Sounding(Offered(st)[k + 1].text)
                       = LettersIn(SubSeq(Rest(st), 1, Offered(st)[k + 1].takes))
<1> DEFINE list == Offered(st)
           s == st.options.simplified
           t == st.type
           run == Rest(st)
<1>1. t \in Types /\ s \in BOOLEAN
  BY DEF Going, Options
<1>2. run # <<>> /\ list = Conversions(t, run, s)
  <2>1. run = <<>> => list = <<>>
    BY DEF Offered
  <2>2. list # <<>>
    BY EmptySeq
  <2> QED BY <2>1, <2>2 DEF Offered
<1> HIDE DEF t, s, run, list
<1>3. list \in Seq([text : Clean, takes : 0..Len(run)])
  BY <1>1, <1>2 DEF Renders, run
<1>4. k + 1 \in 1..Len(list) /\ DOMAIN list = 1..Len(list)
  BY <1>3 DEF list
<1>5. list[k + 1] \in [text : Clean, takes : 0..Len(run)]
  BY <1>3, <1>4, ElementOfSeq
<1>6. Heard => Sounding(list[k + 1].text) = LettersIn(SubSeq(run, 1, list[k + 1].takes))
  BY <1>1, <1>2, <1>4 DEF Heard, run
<1> QED BY <1>5, <1>6 DEF list, run


-------------------------------------------------------------------------------
(* The steps of a call, and the letters in hand.                           *)

\* What a step makes of a call: as well rendered, and no letter lost.
Carries(x, st) == Rendered(x) /\ (Heard => Due(x) = Due(st))

LEMMA DueIs ==
  ASSUME NEW st, Going(st), Rendered(st)
  PROVE  /\ st.out.commit \in Text /\ st.told \in Text /\ st.selected \in Text
         /\ st.input \in Seq(Keys) /\ LettersIn(st.input) \in Seq(Alphabet)
         /\ Heard => /\ Sounding(st.out.commit) \in Seq(Alphabet)
                     /\ Sounding(st.told) \in Seq(Alphabet)
                     /\ Due(st) = (Sounding(st.out.commit) \o Sounding(st.told))
                                    \o LettersIn(st.input)
<1>1. st.out.commit \in Text /\ st.told \in Text /\ st.selected \in Text
  BY CleanIsText DEF Rendered, Plainly
<1>2. st.input \in Seq(Keys) /\ LettersIn(st.input) \in Seq(Alphabet)
  BY LettersAre DEF Going
<1>3. ASSUME Heard
      PROVE  /\ Sounding(st.out.commit) \in Seq(Alphabet)
             /\ Sounding(st.told) \in Seq(Alphabet)
             /\ Sounding(st.out.commit \o st.told)
                  = Sounding(st.out.commit) \o Sounding(st.told)
  BY <1>1, <1>3, SoundingIs
<1> QED BY <1>1, <1>2, <1>3 DEF Due

LEMMA PyzyResetText ==
  ASSUME NEW st, Going(st), Rendered(st)
  PROVE  /\ Rendered(PyzyReset(st)) /\ PyzyReset(st).input = <<>>
         /\ PyzyReset(st).told = st.told /\ PyzyReset(st).out = st.out
         /\ PyzyReset(st).model = st.model /\ PyzyReset(st).type = st.type
         /\ PyzyReset(st).selected = <<>> /\ PyzyReset(st).used = 0
         /\ "text" \in PyzyReset(st).raised
<1> DEFINE x == PyzyReset(st)
<1>1. /\ x.model = st.model /\ x.type = st.type /\ x.input = <<>> /\ x.used = 0
      /\ x.selected = <<>> /\ x.told = st.told /\ x.out = st.out
      /\ "text" \in x.raised
  BY DEF PyzyReset, Going, CallFields
<1> HIDE DEF x
<1>2. <<>> \in Clean /\ Len(<<>>) = 0
  BY DEF Clean
<1>3. Heard => Tallied(x)
  <2>1. SubSeq(<<>>, 1, 0) = <<>>
    BY SubSeqEmpty
  <2> QED BY <1>1, <2>1, SoundingIs, LettersAre DEF Tallied
<1>4. Rendered(x)
  BY <1>1, <1>2, <1>3 DEF Rendered
<1> QED BY <1>1, <1>4 DEF x

\* Telling all that is held.
LEMMA TellText ==
  ASSUME NEW st, Going(st), Rendered(st), NEW text \in Text,
         Heard => Sounding(text) = LettersIn(st.input)
  PROVE  /\ Carries(PyzyTell(st, text), st)
         /\ PyzyTell(st, text).input = <<>>
         /\ PyzyTell(st, text).told = st.told \o text
         /\ PyzyTell(st, text).out = st.out
         /\ "text" \in PyzyTell(st, text).raised
<1> DEFINE r == PyzyReset(st)
           x == PyzyTell(st, text)
<1>1. /\ Going(r) /\ Rendered(r) /\ r.input = <<>> /\ r.told = st.told
      /\ r.out = st.out /\ "text" \in r.raised
  BY PyzyResetGoes, PyzyResetText DEF Current
<1>2. /\ x.type = r.type /\ x.input = r.input /\ x.used = r.used
      /\ x.selected = r.selected /\ x.raised = r.raised /\ x.out = r.out
      /\ x.told = r.told \o text
  BY <1>1 DEF PyzyTell, Going, CallFields
<1>3. Going(x)
  BY TellGoes DEF Current
<1> HIDE DEF r, x
<1>4. st.told \o text \in Text
  BY DueIs, ConcatText
<1>5. Rendered(x)
  BY <1>1, <1>2, <1>4 DEF Rendered, Tallied
<1>6. ASSUME Heard PROVE Due(x) = Due(st)
  <2> DEFINE a == Sounding(st.out.commit)
             b == Sounding(st.told)
             c == LettersIn(st.input)
  <2>1. a \in Seq(Alphabet) /\ b \in Seq(Alphabet) /\ c \in Seq(Alphabet)
    BY <1>6, DueIs
  <2>2. Sounding(x.told) = b \o c
    BY <1>1, <1>2, <1>6, DueIs, SoundingIs
  <2>3. Due(x) = (a \o (b \o c)) \o <<>>
    <3>1. Due(x) = (Sounding(x.out.commit) \o Sounding(x.told)) \o LettersIn(x.input)
      BY <1>3, <1>5, <1>6, DueIs
    <3>2. x.out.commit = st.out.commit /\ LettersIn(x.input) = <<>>
      BY <1>1, <1>2, LettersAre
    <3> QED BY <2>2, <3>1, <3>2
  <2>4. Due(st) = (a \o b) \o c
    BY <1>6, DueIs
  <2> HIDE DEF a, b, c
  <2> QED BY <2>1, <2>3, <2>4
<1> QED BY <1>1, <1>2, <1>5, <1>6 DEF Carries, x

\* What is selected and what is left sound like all that is held.
LEMMA WholeSounds ==
  ASSUME Heard, NEW st, Going(st), Rendered(st), NEW text \in Text,
         Sounding(text) = LettersIn(Rest(st))
  PROVE  Sounding(st.selected \o text) = LettersIn(st.input)
<1> DEFINE p == SubSeq(st.input, 1, st.used)
<1>1. /\ p \in Seq(Keys) /\ Rest(st) \in Seq(Keys) /\ p \o Rest(st) = st.input
  BY RestSplits DEF Rendered
<1>2. Sounding(st.selected) = LettersIn(p)
  BY DEF Rendered, Tallied
<1> HIDE DEF p
<1>3. LettersIn(p \o Rest(st)) = LettersIn(p) \o LettersIn(Rest(st))
  BY <1>1, LettersAre
<1>4. Sounding(st.selected \o text) = Sounding(st.selected) \o Sounding(text)
  BY DueIs, SoundingIs
<1> QED BY <1>1, <1>2, <1>3, <1>4

LEMMA SelectText ==
  ASSUME Renders, NEW st, Going(st), Rendered(st), NEW k \in Nat, k < Len(Offered(st))
  PROVE  Carries(PyzySelect(st, k), st) /\ PyzySelect(st, k).out = st.out
<1> DEFINE c == Offered(st)[k + 1]
           x == [st EXCEPT !.used = @ + c.takes, !.selected = @ \o c.text,
                           !.raised = {"text", "list"}]
           told == PyzyTell(st, st.selected \o c.text)
<1>1. /\ SubSeq(st.input, 1, st.used) \in Seq(Keys) /\ Rest(st) \in Seq(Keys)
      /\ Len(Rest(st)) = Len(st.input) - st.used
      /\ Len(st.input) \in Nat /\ Len(Rest(st)) \in Nat
      /\ \A n \in 0..Len(Rest(st)) :
           /\ SubSeq(Rest(st), 1, n) \in Seq(Keys)
           /\ SubSeq(st.input, 1, st.used + n)
                = SubSeq(st.input, 1, st.used) \o SubSeq(Rest(st), 1, n)
  BY RestSplits DEF Rendered
<1>2. /\ c.text \in Clean /\ c.takes \in 0..Len(Rest(st))
      /\ Heard => Sounding(c.text) = LettersIn(SubSeq(Rest(st), 1, c.takes))
  BY <1>1, OfferedText
<1>3. PyzySelect(st, k) = IF c.takes = Len(Rest(st)) THEN told ELSE x
  BY DEF PyzySelect
<1> HIDE DEF c
<1>4. st.selected \in Text /\ c.text \in Text /\ st.selected \o c.text \in Text
  BY <1>2, DueIs, CleanIsText, ConcatText
<1>5. ASSUME Heard
      PROVE  Sounding(st.selected \o c.text)
               = LettersIn(SubSeq(st.input, 1, st.used + c.takes))
  <2>1. Sounding(st.selected \o c.text) = Sounding(st.selected) \o Sounding(c.text)
    BY <1>4, <1>5, SoundingIs
  <2>2. Sounding(st.selected) = LettersIn(SubSeq(st.input, 1, st.used))
    BY <1>5 DEF Rendered, Tallied
  <2>3. LettersIn(SubSeq(st.input, 1, st.used) \o SubSeq(Rest(st), 1, c.takes))
          = LettersIn(SubSeq(st.input, 1, st.used))
              \o LettersIn(SubSeq(Rest(st), 1, c.takes))
    BY <1>1, <1>2, LettersAre
  <2> QED BY <1>1, <1>2, <1>5, <2>1, <2>2, <2>3
<1>6. CASE c.takes = Len(Rest(st))
  <2>1. SubSeq(st.input, 1, st.used + c.takes) = st.input
    BY <1>1, <1>6, SubSeqFull DEF Going
  <2>2. Carries(told, st) /\ told.out = st.out
    BY <1>4, <1>5, <2>1, TellText
  <2> HIDE DEF told
  <2> QED BY <1>3, <1>6, <2>2
<1>7. CASE c.takes # Len(Rest(st))
  <2>1. /\ x.model = st.model /\ x.type = st.type /\ x.input = st.input
        /\ x.used = st.used + c.takes /\ x.selected = st.selected \o c.text
        /\ x.told = st.told /\ x.out = st.out /\ "text" \in x.raised
    BY DEF Going, CallFields
  <2> HIDE DEF x
  <2>2. st.selected \o c.text \in Clean
    BY <1>2, ConcatProperties DEF Rendered, Clean
  <2>3. x.used <= Len(x.input)
    BY <1>1, <1>2, <2>1 DEF Going
  <2>4. Heard => Tallied(x)
    BY <1>5, <2>1 DEF Tallied
  <2>5. Rendered(x)
    BY <2>1, <2>2, <2>3, <2>4 DEF Rendered
  <2>6. Due(x) = Due(st)
    BY <2>1 DEF Due
  <2> HIDE DEF told
  <2> QED BY <1>3, <1>7, <2>1, <2>5, <2>6 DEF Carries
<1> QED BY <1>6, <1>7

LEMMA PyzyCommitText ==
  ASSUME Renders, NEW st, Going(st), Rendered(st)
  PROVE  /\ Carries(PyzyCommit(st), st) /\ PyzyCommit(st).input = <<>>
         /\ PyzyCommit(st).out = st.out
<1> DEFINE rest == IF st.type = "double" THEN Rest(st)
                   ELSE Unseparated(Spelling(st.type, Rest(st)))
           x == PyzyTell(st, st.selected \o rest)
<1>1. st.type \in Types /\ Rest(st) \in Seq(Keys) /\ Rest(st) \in Text
  BY RestSplits, KeysAreText DEF Rendered, Going
<1>2. Spelling(st.type, Rest(st)) \in Text
  BY <1>1 DEF Renders
<1>3. rest \in Text /\ (Heard => Sounding(rest) = LettersIn(Rest(st)))
  <2>1. CASE st.type = "double"
    BY <1>1, <2>1, KeysSound
  <2>2. CASE st.type # "double"
    <3>1. Unseparated(Spelling(st.type, Rest(st))) \in Text
      BY <1>2, UnseparatedIs, CleanIsText
    <3>2. ASSUME Heard
          PROVE  Sounding(Unseparated(Spelling(st.type, Rest(st)))) = LettersIn(Rest(st))
      <4>1. Sounding(Spelling(st.type, Rest(st))) = LettersIn(Rest(st))
        BY <1>1, <3>2 DEF Heard
      <4> QED BY <1>2, <3>2, <4>1, UnseparatedIs
    <3> QED BY <2>2, <3>1, <3>2
  <2> QED BY <2>1, <2>2
<1>4. PyzyCommit(st) = IF st.input = <<>> THEN st ELSE x
  BY DEF PyzyCommit
<1> HIDE DEF rest
<1>5. /\ st.selected \o rest \in Text
      /\ Heard => Sounding(st.selected \o rest) = LettersIn(st.input)
  BY <1>3, DueIs, ConcatText, WholeSounds
<1>6. Carries(x, st) /\ x.input = <<>> /\ x.out = st.out
  BY <1>5, TellText
<1> HIDE DEF x
<1> QED BY <1>4, <1>6 DEF Carries

LEMMA FinishText ==
  ASSUME Renders, NEW st, Current(st), st.input # <<>> => Answers(st), Rendered(st)
  PROVE  /\ Carries(FinishComposition(st), st) /\ FinishComposition(st).input = <<>>
         /\ FinishComposition(st).out = st.out
<1>1. CASE st.input = <<>>
  BY <1>1 DEF FinishComposition, Carries
<1>2. CASE st.input # <<>>
  <2> DEFINE taken == IF Hovering(st) THEN TakeHovered(st) ELSE st
             ended == PyzyCommit(taken)
             x == [ended EXCEPT !.p = NoteCommit(@, ended.told)]
  <2>1. Current(taken) /\ Carries(taken, st) /\ taken.out = st.out
    <3>1. CASE Hovering(st)
      <4>1. st.model.cursor \in Nat /\ st.model.cursor < Len(Offered(st)) /\ Going(st)
        BY <1>2, <3>1, HoveredIsOffered, RendersConverts DEF Current, Going
      <4>2. TakeHovered(st) = PyzySelect(st, st.model.cursor)
        BY DEF TakeHovered
      <4>3. /\ Carries(TakeHovered(st), st) /\ TakeHovered(st).out = st.out
            /\ Current(TakeHovered(st))
        BY <4>1, <4>2, SelectText, SelectGoes, RendersConverts
      <4> QED BY <3>1, <4>3
    <3>2. CASE ~Hovering(st)
      BY <3>2 DEF Carries
    <3> QED BY <3>1, <3>2
  <2>2. FinishComposition(st) = x
    BY <1>2 DEF FinishComposition
  <2> HIDE DEF taken
  <2>3. /\ Current(ended) /\ Carries(ended, taken) /\ ended.input = <<>>
        /\ ended.out = taken.out
    BY <2>1, CommitGoes, PyzyCommitText DEF Carries, Current
  <2> HIDE DEF ended
  <2>4. /\ x.model = ended.model /\ x.type = ended.type
        /\ x.input = ended.input /\ x.used = ended.used /\ x.selected = ended.selected
        /\ x.raised = ended.raised /\ x.told = ended.told /\ x.out = ended.out
    BY <2>3 DEF Current, Going, CallFields
  <2> HIDE DEF x
  <2>5. Rendered(x) /\ Due(x) = Due(ended)
    BY <2>3, <2>4, TextFields DEF Carries, Rendered
  <2> QED BY <2>1, <2>2, <2>3, <2>4, <2>5 DEF Carries
<1> QED BY <1>1, <1>2

\* What is shown of the input, the observer having spoken or not.
LEMMA ShownIs ==
  ASSUME Renders, NEW st, Going(st), Rest(st) \in Seq(Keys)
  PROVE  Shown(st) = Spelling(st.type, Rest(st))
<1> DEFINE s == Spelling(st.type, Rest(st))
<1>1. s \in Text
  BY DEF Renders, Going
<1>2. Auxiliary(st) = IF Offered(st) = <<>> THEN <<>> ELSE Append(s, mark)
  BY DEF Auxiliary
<1>3. Shown(st) = IF StripInputCursor(Auxiliary(st)) = <<>> THEN s
                  ELSE StripInputCursor(Auxiliary(st))
  BY DEF Shown
<1> HIDE DEF s
<1>4. StripInputCursor(<<>>) = <<>>
  BY DEF StripInputCursor
<1>5. StripInputCursor(Append(s, mark)) = s
  <2>1. mark \in Scalar
    BY PyzyAssumption
  <2>2. /\ Append(s, mark) # <<>> /\ Last(Append(s, mark)) = mark
        /\ Front(Append(s, mark)) = s
    BY <1>1, <2>1, FrontOfAppend DEF Text
  <2> QED BY <2>2 DEF StripInputCursor
<1> QED BY <1>2, <1>3, <1>4, <1>5 DEF s

\* harvest shows what it heard, and hands on what was told.
LEMMA HarvestText ==
  ASSUME Renders, NEW st, Going(st), Rendered(st)
  PROVE  /\ Carries(Harvest(st), st) /\ Shows(Harvest(st))
         /\ Harvest(st).told = <<>> /\ Harvest(st).input = st.input
         /\ Harvest(st).out.commit = st.out.commit \o st.told
         /\ Harvest(st).used = st.used /\ Harvest(st).selected = st.selected
<1> DEFINE x == Harvest(st)
<1>1. Rest(st) \in Seq(Keys) /\ Shown(st) = Spelling(st.type, Rest(st))
  BY RestSplits, ShownIs DEF Rendered
<1>2. /\ x.type = st.type /\ x.input = st.input /\ x.used = st.used
      /\ x.selected = st.selected /\ x.told = <<>>
      /\ x.out = [st.out EXCEPT !.commit = @ \o st.told]
      /\ x.model.settled = IF "text" \in st.raised THEN st.selected ELSE st.model.settled
      /\ x.model.active = IF "text" \in st.raised THEN Shown(st) ELSE st.model.active
      /\ x.model.tail = IF "text" \in st.raised THEN <<>> ELSE st.model.tail
  BY DEF Harvest, Going, CallFields
<1> HIDE DEF x
<1>3. /\ x.out.commit = st.out.commit \o st.told
      /\ x.out \in Plainly
  <2>1. st.out.commit \o st.told \in Text
    BY DueIs, ConcatText
  <2> QED BY <1>2, <2>1 DEF Rendered, Plainly
<1>4. Shows(x)
  <2>1. Rest(x) = Rest(st)
    BY <1>2 DEF Rest
  <2> QED BY <1>1, <1>2, <2>1 DEF Shows, Rendered
<1>5. Rendered(x)
  BY <1>2, <1>3, <1>4, EmptyText DEF Rendered, Tallied
<1>6. Due(x) = Due(st)
  <2>1. st.out.commit \o st.told \in Text
    BY DueIs, ConcatText
  <2>2. x.out.commit \o x.told = st.out.commit \o st.told
    BY <1>2, <1>3, <2>1, ConcatText
  <2> QED BY <1>2, <2>2 DEF Due
<1> QED BY <1>2, <1>3, <1>4, <1>5, <1>6 DEF Carries, x

\* An edit that leaves the keys consumed as they were keeps what was selected.
LEMMA EditedText ==
  ASSUME NEW st, Going(st), Rendered(st), NEW keys \in Seq(Keys),
         st.used <= Len(keys) =>
           SubSeq(keys, 1, st.used) = SubSeq(st.input, 1, st.used)
  PROVE  /\ Rendered(Edited(st, keys)) /\ Edited(st, keys).input = keys
         /\ Edited(st, keys).told = st.told /\ Edited(st, keys).out = st.out
<1> DEFINE x == Edited(st, keys)
           kept == st.keep /\ st.used <= Len(keys)
<1>1. /\ x.type = st.type /\ x.input = keys /\ x.told = st.told /\ x.out = st.out
      /\ x.used = (IF kept THEN st.used ELSE 0)
      /\ x.selected = (IF kept THEN st.selected ELSE <<>>)
      /\ "text" \in x.raised
  BY DEF Edited, Going, CallFields
<1>2. kept => st.used <= Len(keys)
  OBVIOUS
<1> HIDE DEF x, kept
<1>3. <<>> \in Clean /\ Len(keys) \in Nat
  BY DEF Clean
<1>4. Heard => Tallied(x)
  <2>1. SubSeq(keys, 1, 0) = <<>>
    BY SubSeqEmpty
  <2>2. ASSUME Heard, kept PROVE Tallied(x)
    BY <1>1, <1>2, <2>2 DEF Rendered, Tallied
  <2>3. ASSUME Heard, ~kept PROVE Tallied(x)
    BY <1>1, <2>1, <2>3, SoundingIs, LettersAre DEF Tallied
  <2> QED BY <2>2, <2>3
<1>5. Rendered(x)
  BY <1>1, <1>2, <1>3, <1>4 DEF Rendered
<1> QED BY <1>1, <1>5 DEF x

\* commit_preedit delivers what is shown, without the separators.
LEMMA CommitPreeditText ==
  ASSUME Renders, NEW st, Going(st), Rendered(st), Shows(st), st.told = <<>>
  PROVE  /\ Carries(CommitPreedit(st), st)
         /\ CommitPreedit(st).told = <<>> /\ CommitPreedit(st).input = <<>>
         /\ CommitPreedit(st).selected = <<>>
         /\ CommitPreedit(st).out.commit
              = st.out.commit \o Unseparated((st.model.settled \o st.model.active)
                                               \o st.model.tail)
<1> DEFINE r == PyzyReset(st)
           spelt == Spelling(st.type, Rest(st))
           text == st.model.settled \o Unseparated(st.model.active)
           x == CommitPreedit(st)
<1>1. /\ Going(r) /\ Rendered(r) /\ r.input = <<>> /\ r.told = <<>> /\ r.out = st.out
      /\ "text" \in r.raised /\ r.selected = <<>>
  BY PyzyResetGoes, PyzyResetText DEF Current
<1>2. /\ x.type = r.type /\ x.input = <<>> /\ x.used = r.used /\ x.selected = r.selected
      /\ x.told = <<>> /\ x.raised = r.raised
      /\ x.out = [st.out EXCEPT !.commit = @ \o text]
  BY <1>1 DEF CommitPreedit, Going, CallFields
<1>3. /\ st.model.settled = st.selected /\ st.model.active = spelt /\ st.model.tail = <<>>
  BY DEF Shows
<1>4. /\ spelt \in Text
      /\ Heard => Sounding(spelt) = LettersIn(Rest(st))
  BY RestSplits DEF Rendered, Renders, Heard, Going
<1>5. Going(x)
  BY CommitPreeditGoes DEF Current
<1> HIDE DEF r, x, spelt
<1>6. /\ st.selected \in Text /\ Unseparated(spelt) \in Text /\ text \in Text
      /\ Unseparated(st.selected) = st.selected
  <2>1. st.selected \in Text /\ st.selected \in Clean
    BY DueIs DEF Rendered
  <2> QED BY <1>3, <1>4, <2>1, UnseparatedIs, CleanIsText, ConcatText
<1>7. text = Unseparated((st.model.settled \o st.model.active) \o st.model.tail)
  <2>1. (st.selected \o spelt) \o <<>> = st.selected \o spelt
    BY <1>4, <1>6, ConcatText
  <2>2. Unseparated(st.selected \o spelt) = Unseparated(st.selected) \o Unseparated(spelt)
    BY <1>4, <1>6, UnseparatedIs
  <2> QED BY <1>3, <1>6, <2>1, <2>2
<1>8. Heard => Sounding(text) = LettersIn(st.input)
  <2>1. ASSUME Heard PROVE Sounding(Unseparated(spelt)) = LettersIn(Rest(st))
    BY <1>4, <2>1, UnseparatedIs
  <2> QED BY <1>3, <1>6, <2>1, WholeSounds
<1> HIDE DEF text
<1>9. x.out.commit = st.out.commit \o text /\ x.out \in Plainly
  <2>1. st.out.commit \o text \in Text
    BY <1>6, DueIs, ConcatText
  <2> QED BY <1>2, <2>1 DEF Rendered, Plainly
<1>10. Rendered(x)
  BY <1>1, <1>2, <1>9, EmptyText DEF Rendered, Tallied
<1>11. ASSUME Heard PROVE Due(x) = Due(st)
  <2> DEFINE a == Sounding(st.out.commit)
             c == LettersIn(st.input)
  <2>1. a \in Seq(Alphabet) /\ c \in Seq(Alphabet)
    BY <1>11, DueIs
  <2>2. Due(st) = (a \o <<>>) \o c
    BY <1>11, DueIs, SoundingIs
  <2>3. Due(x) = ((a \o c) \o <<>>) \o <<>>
    <3>1. Due(x) = (Sounding(x.out.commit) \o Sounding(x.told)) \o LettersIn(x.input)
      BY <1>5, <1>10, <1>11, DueIs
    <3>2. Sounding(x.out.commit) = a \o c
      BY <1>6, <1>8, <1>9, <1>11, DueIs, SoundingIs
    <3>3. Sounding(x.told) = <<>> /\ LettersIn(x.input) = <<>>
      BY <1>2, <1>11, SoundingIs, LettersAre
    <3> QED BY <3>1, <3>2, <3>3
  <2> HIDE DEF a, c
  <2> QED BY <2>1, <2>2, <2>3
<1> QED BY <1>1, <1>2, <1>7, <1>9, <1>10, <1>11 DEF Carries, x

\* A mark of punctuation is a text, and sounds like nothing.
LEMMA MarkIsSilent ==
  ASSUME NEW key \in Keys, NEW w \in Options, NEW p
  PROVE  /\ EmitText(key, w, p) \in Text
         /\ Heard /\ key \notin Alphabet => Sounding(EmitText(key, w, p)) = <<>>
<1> DEFINE quiet == {openSingle, closeSingle, openDouble, closeDouble, fullStop}
           one == {key, FullWidth[key]} \cup quiet
           text == EmitText(key, w, p)
<1>1. key \in Emittable /\ Keys \subseteq Emittable
  BY PyzyAssumption
<1>2. one \subseteq Scalar
  BY <1>1, PunctuationAssumption
<1>3. \/ \E s \in one : text = <<s>>
      \/ key \in DOMAIN Marks(w.simplified) /\ text = Marks(w.simplified)[key]
  BY DEF EmitText, Options, Width
<1>4. w.simplified \in BOOLEAN
  BY DEF Options
<1> HIDE DEF text, one
<1>5. text \in Text
  <2>1. \A s \in one : <<s>> \in Text
    BY <1>2 DEF Text
  <2> QED BY <1>3, <1>4, <2>1, PunctuationAssumption
<1>6. ASSUME Heard, key \notin Alphabet PROVE Sounding(text) = <<>>
  <2>1. \A s \in one : Sounds[s] = <<>>
    BY <1>6 DEF Heard, one
  <2>2. \A s \in one : Sounding(<<s>>) = <<>>
    BY <1>2, <1>6, <2>1, SoundingIs
  <2> QED BY <1>3, <1>4, <1>6, <2>2 DEF Heard
<1> QED BY <1>5, <1>6 DEF text

LEMMA EmitLetters ==
  ASSUME Renders, NEW st, Current(st), st.input # <<>> => Answers(st), Rendered(st),
         NEW key \in Keys
  PROVE  /\ Rendered(Emit(st, key)) /\ Shows(Emit(st, key))
         /\ Emit(st, key).input = <<>> /\ Emit(st, key).told = <<>>
         /\ Heard /\ key \notin Alphabet => Due(Emit(st, key)) = Due(st)
<1> DEFINE observed == [st EXCEPT !.p = ObserveDocument(BeforeCursor(snapshot), @)]
           ended == FinishComposition(observed)
           text == EmitText(key, st.options, ended.p)
           noted == [ended EXCEPT !.p = EmitState(key, st.options, @)]
           left == Harvest(noted)
           x == [left EXCEPT !.out.commit = @ \o text, !.p = NoteCommit(@, text)]
<1>1. Emit(st, key) = x
  BY DEF Emit
<1>2. text \in Text /\ (Heard /\ key \notin Alphabet => Sounding(text) = <<>>)
  BY MarkIsSilent DEF Current, Going
<1>3. /\ DOMAIN observed = CallFields /\ observed.model = st.model
      /\ observed.type = st.type /\ observed.input = st.input
      /\ observed.used = st.used /\ observed.options = st.options
      /\ observed.raised = st.raised /\ observed.selected = st.selected
      /\ observed.told = st.told /\ observed.out = st.out
  BY DEF Current, Going, CallFields
<1> HIDE DEF observed
<1>4. /\ Current(observed) /\ (observed.input # <<>> => Answers(observed))
      /\ Carries(observed, st)
  <2>1. Rendered(observed) /\ Due(observed) = Due(st)
    BY <1>3, TextFields DEF Rendered
  <2> QED BY <1>3, <2>1, OtherFields DEF Current, Carries
<1>5. /\ Current(ended) /\ Carries(ended, observed) /\ ended.input = <<>>
  BY <1>4, FinishGoes, FinishText, RendersConverts DEF Carries
<1> HIDE DEF ended, text
<1>6. /\ DOMAIN noted = CallFields /\ noted.model = ended.model
      /\ noted.type = ended.type /\ noted.input = ended.input
      /\ noted.used = ended.used /\ noted.options = ended.options
      /\ noted.raised = ended.raised /\ noted.selected = ended.selected
      /\ noted.told = ended.told /\ noted.out = ended.out
  BY <1>5 DEF Current, Going, CallFields
<1> HIDE DEF noted
<1>7. Current(noted) /\ Carries(noted, ended)
  <2>1. Rendered(noted) /\ Due(noted) = Due(ended)
    BY <1>5, <1>6, TextFields DEF Rendered, Carries
  <2> QED BY <1>5, <1>6, <2>1, OtherFields DEF Current, Carries
<1>8. /\ Going(left) /\ Carries(left, noted) /\ Shows(left) /\ left.told = <<>>
      /\ left.input = <<>>
  BY <1>5, <1>6, <1>7, HarvestText, HarvestGoes DEF Current, Carries
<1> HIDE DEF left
<1>9. /\ DOMAIN x = CallFields /\ x.model = left.model /\ x.type = left.type
      /\ x.input = left.input /\ x.used = left.used /\ x.options = left.options
      /\ x.raised = left.raised /\ x.selected = left.selected /\ x.told = left.told
      /\ x.out = [left.out EXCEPT !.commit = @ \o text]
  BY <1>8 DEF Going, CallFields
<1> HIDE DEF x
<1>10. /\ x.out.commit = left.out.commit \o text /\ x.out \in Plainly
       /\ left.out.commit \in Text
  <2>1. left.out.commit \in Text
    BY <1>8, DueIs DEF Carries
  <2>2. left.out.commit \o text \in Text
    BY <1>2, <2>1, ConcatText
  <2> QED BY <1>8, <1>9, <2>1, <2>2 DEF Carries, Rendered, Plainly
<1>11. Shows(x)
  BY <1>8, <1>9 DEF Shows, Rest
<1>12. Rendered(x)
  BY <1>8, <1>9, <1>10, <1>11 DEF Carries, Rendered, Tallied
<1>13. Going(x)
  BY <1>8, <1>9, OtherFields
<1>14. ASSUME Heard, key \notin Alphabet PROVE Due(x) = Due(st)
  <2> DEFINE a == Sounding(left.out.commit)
  <2>1. a \in Seq(Alphabet)
    BY <1>8, <1>14, DueIs DEF Carries
  <2>2. Due(left) = (a \o <<>>) \o <<>>
    <3>1. Due(left) = (a \o Sounding(left.told)) \o LettersIn(left.input)
      BY <1>8, <1>14, DueIs DEF Carries
    <3>2. Sounding(left.told) = <<>> /\ LettersIn(left.input) = <<>>
      BY <1>8, <1>14, SoundingIs, LettersAre
    <3> QED BY <3>1, <3>2
  <2>3. Sounding(x.out.commit) = a \o <<>>
    BY <1>2, <1>10, <1>14, SoundingIs
  <2>4. Due(x) = ((a \o <<>>) \o <<>>) \o <<>>
    <3>1. Due(x) = (Sounding(x.out.commit) \o Sounding(x.told)) \o LettersIn(x.input)
      BY <1>12, <1>13, <1>14, DueIs
    <3>2. Sounding(x.told) = <<>> /\ LettersIn(x.input) = <<>>
      BY <1>8, <1>9, <1>14, SoundingIs, LettersAre
    <3> QED BY <2>3, <3>1, <3>2
  <2>5. Due(left) = Due(st)
    BY <1>4, <1>5, <1>7, <1>8, <1>14 DEF Carries
  <2> HIDE DEF a
  <2> QED BY <2>1, <2>2, <2>4, <2>5
<1> QED BY <1>1, <1>8, <1>9, <1>11, <1>12, <1>14

-------------------------------------------------------------------------------
(* Entering and leaving a call: the text.                                  *)

\* Between calls what is shown is what was selected and the rest spelled out, the
\* client's view of it is the same, and a key the client must act on came back with
\* nothing composed.
TextInv ==
  /\ PyzyInv /\ before \in Text
  /\ Rendered(Plain)
  /\ published.preedit = (model.settled \o model.active) \o model.tail
  /\ owed # "nothing" => input = <<>>

LEMMA PlainIs ==
  ASSUME NEW keep
  PROVE  /\ Enter(keep).model = model /\ Enter(keep).out = NoOutput
         /\ Enter(keep).type = type /\ Enter(keep).input = input
         /\ Enter(keep).used = used /\ Enter(keep).selected = selected
         /\ Enter(keep).raised = {} /\ Enter(keep).told = <<>>
         /\ DOMAIN Enter(keep) = CallFields
BY DEF Enter, CallFields

LEMMA EnterText ==
  ASSUME Renders, TextInv, NEW keep
  PROVE  /\ Going(Enter(keep)) /\ Carries(Enter(keep), Plain)
         /\ Shows(Enter(keep)) /\ Enter(keep).told = <<>>
         /\ Enter(keep).out.commit = <<>>
<1> DEFINE x == Enter(keep)
           y == Plain
<1>1. Going(x)
  BY EnterGoes, RendersConverts DEF TextInv
<1>2. /\ x.model = model /\ x.out = NoOutput /\ x.type = type /\ x.input = input
      /\ x.used = used /\ x.selected = selected /\ x.raised = {} /\ x.told = <<>>
      /\ y.model = model /\ y.out = NoOutput /\ y.type = type /\ y.input = input
      /\ y.used = used /\ y.selected = selected /\ y.raised = {} /\ y.told = <<>>
  BY PlainIs DEF Plain
<1>3. Rendered(y)
  BY DEF TextInv
<1> HIDE DEF x, y
<1>4. Rendered(x) /\ Due(x) = Due(y)
  BY <1>2, <1>3, TextFields
<1>5. Shows(x)
  BY <1>2, <1>4 DEF Rendered
<1> QED BY <1>1, <1>2, <1>4, <1>5 DEF x, y, Carries, NoOutput

\* Applying the options loses nothing: they change with nothing composed.
LEMMA ApplyText ==
  ASSUME NEW st, Going(st), InForce(st), Rendered(st)
  PROVE  Carries(ApplyOptions(st), st) /\ ApplyOptions(st).told = st.told
                                       /\ ApplyOptions(st).out = st.out
<1> DEFINE r == PyzyReset(st)
           t == WantedType(st.options)
           x == [r EXCEPT !.type = t, !.p = FreshPunctuation]
<1>1. ApplyOptions(st) = IF t # st.type THEN x ELSE st
  BY DEF ApplyOptions, Recreate
<1>2. /\ Going(r) /\ Rendered(r) /\ r.input = <<>> /\ r.told = st.told /\ r.out = st.out
      /\ "text" \in r.raised
  BY PyzyResetGoes, PyzyResetText DEF Current
<1> HIDE DEF r, t
<1>3. /\ x.input = r.input /\ x.used = r.used /\ x.selected = r.selected
      /\ x.raised = r.raised /\ x.told = r.told /\ x.out = r.out
  BY <1>2 DEF Going, CallFields
<1> HIDE DEF x
<1>4. Rendered(x)
  BY <1>2, <1>3 DEF Rendered, Tallied
<1>5. st.input = <<>> => Due(x) = Due(st)
  BY <1>2, <1>3 DEF Due
<1> QED BY <1>1, <1>2, <1>3, <1>4, <1>5 DEF Carries, InForce, t

\* A call that begins with the options applied.
LEMMA CallText ==
  ASSUME Renders, TextInv, NEW st \in Calls
  PROVE  /\ Current(st) /\ Going(st) /\ Carries(st, Plain)
         /\ st.told = <<>> /\ st.out.commit = <<>>
         /\ Composing => Shows(st) /\ st.model = model /\ st.input = input
         /\ ~Composing => st.input = <<>>
<1>1. PICK keep \in BOOLEAN : st = ApplyOptions(Enter(keep))
  BY DEF Calls
<1> DEFINE e == Enter(keep)
<1>2. /\ Going(e) /\ Carries(e, Plain) /\ Shows(e) /\ e.told = <<>>
      /\ e.out.commit = <<>>
  BY EnterText
<1>3. InForce(e) /\ WantedType(e.options) \in Types /\ e.input = input
  BY EnterGoes, RendersConverts, Wanted DEF TextInv, PyzyInv
<1>4. e.model = model
  BY PlainIs
<1> HIDE DEF e
<1>5. Carries(ApplyOptions(e), e) /\ ApplyOptions(e).told = e.told
                                  /\ ApplyOptions(e).out = e.out
  BY <1>2, <1>3, ApplyText DEF Carries
<1>6. /\ e.input # <<>> => ApplyOptions(e) = e
      /\ ApplyOptions(e).input # <<>> => ApplyOptions(e) = e
  BY <1>2, <1>3, ApplyGoes
<1>7. st = ApplyOptions(e)
  BY <1>1 DEF e
<1>8. Current(st) /\ Going(st)
  BY CallGoes, RendersConverts DEF TextInv
<1> QED BY <1>2, <1>3, <1>4, <1>5, <1>6, <1>7, <1>8 DEF Carries, Composing

\* Leaving a call delivers what it commits, and publishes what it shows.
LEMMA LeaveText ==
  ASSUME Renders, TextInv, NEW st, Going(st), Rendered(st), Shows(st),
         NEW force, Leave(st, force)
  PROVE  /\ before' = before \o st.out.commit
         /\ before' \in Text /\ Rendered(Plain)'
         /\ published'.preedit = (model'.settled \o model'.active) \o model'.tail
         /\ input' = st.input
<1> DEFINE m == Materialize(st.model, Texts(Offered(st)), st.options.cap)
<1>1. /\ type' = st.type /\ input' = st.input /\ used' = st.used
      /\ selected' = st.selected /\ model' = m /\ Refresh(m, st.out, force)
  BY DEF Leave, Refresh
<1>2. /\ m.settled = st.model.settled /\ m.active = st.model.active
      /\ m.tail = st.model.tail
  BY DEF Materialize, Going, ModelFields
<1> HIDE DEF m
<1>3. before' = before \o st.out.commit
  BY <1>1 DEF Refresh, Deletes, Rendered, Plainly
<1>4. before' \in Text
  BY <1>3, DueIs, ConcatText DEF TextInv
<1>5. published'.preedit = (model'.settled \o model'.active) \o model'.tail
  BY <1>1 DEF Refresh, Project
<1>6. Rendered(Plain)'
  <2>1. /\ Plain'.model = model' /\ Plain'.out = NoOutput /\ Plain'.type = st.type
        /\ Plain'.input = st.input /\ Plain'.used = st.used
        /\ Plain'.selected = st.selected /\ Plain'.raised = {} /\ Plain'.told = <<>>
    BY <1>1 DEF Plain, Enter
  <2>2. Rest(Plain)' = Rest(st)
    BY <2>1 DEF Rest
  <2>3. NoOutput \in Plainly
    BY EmptyText DEF NoOutput, Plainly
  <2>4. Shows(Plain)'
    BY <1>1, <1>2, <2>1, <2>2 DEF Shows
  <2>5. Heard => Tallied(Plain)'
    BY <2>1 DEF Tallied, Rendered
  <2> QED BY <2>1, <2>3, <2>4, <2>5, EmptyText DEF Rendered
<1> QED BY <1>1, <1>3, <1>4, <1>5, <1>6

-------------------------------------------------------------------------------
(* Every step, and the letters.                                            *)

\* The letters typed so far, in the document and still composed.
Held == Sounding(before) \o LettersIn(input)

\* What is to be shown of a step.
Kept ==
  /\ TextInv'
  /\ Heard => Typing!Next \/ UNCHANGED <<before, LettersIn(input)>>

LEMMA PrefixOfConcat ==
  ASSUME NEW s \in Text, NEW t \in Text
  PROVE  Typing!IsPrefix(s, s \o t)
<1>1. Len(s) \in Nat /\ Len(t) \in Nat /\ Len(s \o t) = Len(s) + Len(t)
  BY TextIsSequence, ConcatText
<1>2. SubSeq(s \o t, 1, Len(s \o t) - Len(t)) = s
  BY SuffixSplit
<1>3. SubSeq(s, 1, Len(s)) = s
  BY SubSeqFull DEF Text
<1>4. Len(s \o t) - Len(t) = Len(s)
  BY <1>1
<1> QED BY <1>1, <1>2, <1>3, <1>4 DEF Typing!IsPrefix

\* What leaving a call makes of the letters.
LEMMA LeftLetters ==
  ASSUME Renders, TextInv, NEW x, Going(x), Rendered(x), Shows(x), x.told = <<>>,
         Answers(x), InForce(x), NEW force, Leave(x, force),
         owed' # "nothing" => x.input = <<>>
  PROVE  /\ TextInv' /\ Typing!IsPrefix(before, before') /\ before \in Text
         /\ before' = before \o x.out.commit /\ input' = x.input
         /\ Heard => Held' = Sounding(before) \o Due(x)
<1>1. /\ before' = before \o x.out.commit
      /\ before' \in Text /\ Rendered(Plain)'
      /\ published'.preedit = (model'.settled \o model'.active) \o model'.tail
      /\ input' = x.input
  BY LeaveText
<1>2. PyzyInv'
  BY LeaveKeeps, RendersConverts DEF TextInv
<1>3. TextInv'
  BY <1>1, <1>2 DEF TextInv
<1>4. x.out.commit \in Text /\ before \in Text
  BY DueIs DEF TextInv
<1>5. Typing!IsPrefix(before, before')
  BY <1>1, <1>4, PrefixOfConcat
<1>6. ASSUME Heard PROVE Held' = Sounding(before) \o Due(x)
  <2> DEFINE a == Sounding(before)
             b == Sounding(x.out.commit)
             c == LettersIn(x.input)
  <2>1. a \in Seq(Alphabet) /\ b \in Seq(Alphabet) /\ c \in Seq(Alphabet)
    BY <1>4, <1>6, DueIs, SoundingIs
  <2>2. Due(x) = (b \o <<>>) \o c
    BY <1>6, DueIs, SoundingIs
  <2>3. Sounding(before \o x.out.commit) = a \o b
    BY <1>4, <1>6, SoundingIs
  <2>4. Held' = (a \o b) \o c
    <3>1. Held' = Sounding(before') \o LettersIn(input')
      BY DEF Held, Sounding, LettersIn, Joined, FlattenSeq
    <3> QED BY <1>1, <2>3, <3>1
  <2> HIDE DEF a, b, c
  <2>5. Held' = a \o Due(x)
    BY <2>1, <2>2, <2>4
  <2> QED BY <2>5 DEF a
<1> QED BY <1>1, <1>3, <1>4, <1>5, <1>6

\* With nothing delivered yet, what is due are the letters composed.
LEMMA PlainDue ==
  ASSUME Renders, TextInv, Heard
  PROVE  /\ Due(Plain) = LettersIn(input) /\ Held = Sounding(before) \o Due(Plain)
         /\ LettersIn(input) \in Seq(Alphabet) /\ Sounding(before) \in Seq(Alphabet)
<1>1. Going(Plain) /\ Rendered(Plain) /\ Plain.told = <<>> /\ Plain.out.commit = <<>>
  BY EnterText DEF Plain, TextInv
<1>2. Plain.input = input
  BY PlainIs DEF Plain
<1>3. LettersIn(input) \in Seq(Alphabet)
  BY <1>1, <1>2, LettersAre DEF Going
<1>4. Due(Plain) = (<<>> \o <<>>) \o LettersIn(input)
  BY <1>1, <1>2, DueIs, SoundingIs
<1>5. Sounding(before) \in Seq(Alphabet)
  BY SoundingIs DEF TextInv
<1>6. Due(Plain) = LettersIn(input)
  BY <1>3, <1>4
<1> QED BY <1>3, <1>5, <1>6 DEF Held

LEMMA AdvanceKeeps ==
  ASSUME Renders, TextInv, NEW x, Going(x), Rendered(x), Shows(x), x.told = <<>>,
         Answers(x), InForce(x), NEW force, Leave(x, force),
         owed' # "nothing" => x.input = <<>>,
         Heard => Due(x) = Due(Plain)
  PROVE  Kept
<1>1. /\ TextInv' /\ Typing!IsPrefix(before, before')
      /\ Heard => Held' = Sounding(before) \o Due(x)
  BY LeftLetters
<1>2. ASSUME Heard PROVE Typing!Advance
  <2>1. Held' = Held
    BY <1>1, <1>2, PlainDue
  <2>2. Held' = Sounding(before') \o LettersIn(input')
    BY DEF Held, Sounding, LettersIn, Joined, FlattenSeq
  <2>3. /\ Typing!LettersOf(before') = Sounding(before')
        /\ Typing!LettersOf(before) = Sounding(before)
    BY TypingSounds
  <2> QED BY <1>1, <2>1, <2>2, <2>3 DEF Typing!Advance, Typing!Delivers, Held
<1> QED BY <1>1, <1>2 DEF Kept, Typing!Next

\* Most calls harvest last, under the scheme in force.
LEMMA HarvestAdvances ==
  ASSUME Renders, TextInv, NEW x, Current(x), InForce(x), Rendered(x),
         NEW force, Leave(Harvest(x), force),
         owed' # "nothing" => x.input = <<>>,
         Heard => Due(x) = Due(Plain)
  PROVE  Kept
<1> DEFINE y == Harvest(x)
<1>1. Going(x)
  BY DEF Current
<1>2. /\ Going(y) /\ Answers(y) /\ InForce(y) /\ y.input = x.input
  BY <1>1, HarvestGoes DEF InForce
<1>3. Rendered(y) /\ Shows(y) /\ y.told = <<>> /\ (Heard => Due(y) = Due(x))
  BY <1>1, HarvestText DEF Carries
<1> HIDE DEF y
<1>4. Leave(y, force)
  BY DEF y
<1> QED BY <1>2, <1>3, <1>4, AdvanceKeeps

LEMMA DiscardKeeps ==
  ASSUME Renders, TextInv, NEW x, Going(x), Rendered(x), Shows(x), x.told = <<>>,
         Answers(x), InForce(x), NEW force, Leave(x, force),
         x.input = <<>>, x.out.commit = <<>>
  PROVE  Kept
<1>1. /\ TextInv' /\ before \in Text
      /\ before' = before \o <<>> /\ input' = <<>>
  BY LeftLetters
<1>2. before' = before
  BY <1>1, ConcatText
<1>3. LettersIn(input') = <<>>
  BY <1>1, LettersAre
<1> QED BY <1>1, <1>2, <1>3 DEF Kept, Typing!Next, Typing!Discard

-------------------------------------------------------------------------------
(* The actions.                                                            *)

\* A key added at the end, or the last one taken, leaves those consumed as they were.
LEMMA BeginningStays ==
  ASSUME NEW q \in Seq(Keys), NEW u \in Nat, u <= Len(q)
  PROVE  /\ \A key \in Keys : /\ Append(q, key) \in Seq(Keys)
                              /\ SubSeq(Append(q, key), 1, u) = SubSeq(q, 1, u)
                              /\ LettersIn(Append(q, key)) =
                                   LettersIn(q) \o LettersIn(<<key>>)
         /\ q # <<>> =>
              /\ Front(q) \in Seq(Keys)
              /\ u <= Len(Front(q)) => SubSeq(Front(q), 1, u) = SubSeq(q, 1, u)
              /\ \E key \in Keys : q = Append(Front(q), key)
<1>1. ASSUME NEW p \in Seq(Keys), NEW key \in Keys, NEW n \in Nat, n <= Len(p)
      PROVE  /\ Append(p, key) \in Seq(Keys)
             /\ SubSeq(Append(p, key), 1, n) = SubSeq(p, 1, n)
             /\ LettersIn(Append(p, key)) = LettersIn(p) \o LettersIn(<<key>>)
  <2> DEFINE r == Append(p, key)
  <2>1. /\ r \in Seq(Keys) /\ Len(r) = Len(p) + 1 /\ Len(p) \in Nat
        /\ \A i \in 1..Len(p) : r[i] = p[i]
        /\ r = p \o <<key>> /\ <<key>> \in Seq(Keys)
    BY AppendProperties, LenProperties, AppendIsConcat
  <2> HIDE DEF r
  <2>2. SubSeq(r, 1, n) = SubSeq(p, 1, n)
    <3>1. /\ \A i \in 1..n : r[i] \in Keys /\ p[i] \in Keys /\ r[i] = p[i]
          /\ n <= Len(r)
      BY <1>1, <2>1
    <3>2. /\ SubSeq(r, 1, n) \in Seq(Keys) /\ SubSeq(p, 1, n) \in Seq(Keys)
          /\ Len(SubSeq(r, 1, n)) = n /\ Len(SubSeq(p, 1, n)) = n
          /\ \A i \in 1..n : SubSeq(r, 1, n)[i] = r[i] /\ SubSeq(p, 1, n)[i] = p[i]
      BY <1>1, <2>1, <3>1, SubSeqProperties
    <3> QED BY <3>1, <3>2, SeqEqual
  <2>3. LettersIn(p \o <<key>>) = LettersIn(p) \o LettersIn(<<key>>)
    BY <2>1, LettersAre
  <2> QED BY <2>1, <2>2, <2>3 DEF r
<1>2. ASSUME q # <<>>
      PROVE  /\ Front(q) \in Seq(Keys)
             /\ u <= Len(Front(q)) => SubSeq(Front(q), 1, u) = SubSeq(q, 1, u)
             /\ \E key \in Keys : q = Append(Front(q), key)
  <2>1. PICK p \in Seq(Keys), key \in Keys : q = Append(p, key)
    BY <1>2, SequenceEmptyOrAppend
  <2>2. Front(q) = p
    BY <2>1, FrontOfAppend
  <2> QED BY <1>1, <2>1, <2>2
<1> QED BY <1>1, <1>2

LEMMA TypeKeyKeeps ==
  ASSUME Renders, TextInv, NEW key \in Keys, TypeKey(key)
  PROVE  Kept
<1>1. PICK st \in Calls : Leave(Harvest(PyzyInsert(st, key)), FALSE)
  BY DEF TypeKey
<1> DEFINE y == PyzyInsert(st, key)
           x == Harvest(y)
<1>2. /\ Current(st) /\ Going(st) /\ Rendered(st) /\ st.told = <<>>
      /\ st.out.commit = <<>> /\ (Heard => Due(st) = Due(Plain))
      /\ st.input \in Seq(Keys) /\ st.used \in Nat /\ st.used <= Len(st.input)
  BY <1>1, CallText DEF Carries, Going, Rendered
<1>3. Current(y) /\ Going(y) /\ InForce(y)
  BY <1>2, CallGoes, InsertGoes, RendersConverts DEF InForce, TextInv, Current
<1>4. /\ Append(st.input, key) \in Seq(Keys)
      /\ SubSeq(Append(st.input, key), 1, st.used) = SubSeq(st.input, 1, st.used)
      /\ LettersIn(Append(st.input, key)) = LettersIn(st.input) \o LettersIn(<<key>>)
  BY <1>2, BeginningStays
<1>5. /\ Rendered(y) /\ y.told = st.told /\ y.out = st.out
      /\ y.input = st.input \/ y.input = Append(st.input, key)
  BY <1>2, <1>4, EditedText DEF PyzyInsert
<1> HIDE DEF y
<1>6. /\ Going(x) /\ Answers(x) /\ InForce(x) /\ Rendered(x) /\ Shows(x) /\ x.told = <<>>
      /\ Heard => Due(x) = Due(y)
  BY <1>3, <1>5, HarvestGoes, HarvestText DEF InForce, Carries
<1> HIDE DEF x
<1>7. Leave(x, FALSE) /\ owed' = "nothing"
  BY <1>1 DEF x, y, TypeKey, Handled
<1>8. /\ TextInv' /\ Typing!IsPrefix(before, before')
      /\ Heard => Held' = Sounding(before) \o Due(x)
  BY <1>6, <1>7, LeftLetters
<1>9. ASSUME Heard PROVE Typing!Advance \/ Typing!Type
  <2> DEFINE a == Sounding(before)
             c == LettersIn(st.input)
  <2>1. Held' = a \o LettersIn(y.input) /\ Held = a \o c
    <3>1. Due(y) = Sounding(<<>> \o <<>>) \o LettersIn(y.input)
      BY <1>2, <1>5 DEF Due
    <3>2. Due(st) = Sounding(<<>> \o <<>>) \o c
      BY <1>2 DEF Due
    <3>3. Sounding(<<>> \o <<>>) = <<>>
      BY <1>9, EmptyText, ConcatText, SoundingIs
    <3>4. LettersIn(y.input) \in Seq(Alphabet) /\ c \in Seq(Alphabet)
      BY <1>2, <1>4, <1>5, LettersAre
    <3>5. Due(y) = LettersIn(y.input) /\ Due(st) = c
      BY <3>1, <3>2, <3>3, <3>4
    <3> QED BY <1>2, <1>6, <1>8, <1>9, <3>5, PlainDue
  <2>2. Held' = Sounding(before') \o LettersIn(input')
    BY DEF Held, Sounding, LettersIn, Joined, FlattenSeq
  <2>3. /\ Typing!LettersOf(before') = Sounding(before')
        /\ Typing!LettersOf(before) = Sounding(before)
    BY TypingSounds
  <2>4. a \in Seq(Alphabet) /\ c \in Seq(Alphabet)
    BY <1>2, <1>9, LettersAre, PlainDue
  <2>5. CASE y.input = st.input \/ LettersIn(<<key>>) = <<>>
    <3>1. LettersIn(y.input) = c
      <4>1. c \o <<>> = c
        BY <2>4
      <4> QED BY <1>4, <1>5, <2>5, <4>1
    <3>2. Held' = Held
      BY <2>1, <3>1
    <3> QED BY <1>8, <2>2, <2>3, <3>2 DEF Typing!Advance, Typing!Delivers, Held
  <2>6. CASE y.input = Append(st.input, key) /\ LettersIn(<<key>>) # <<>>
    <3>1. key \in Alphabet /\ LettersIn(<<key>>) = <<key>>
      BY <2>6, LettersAre
    <3>2. LettersIn(y.input) = c \o <<key>>
      BY <1>4, <2>6, <3>1
    <3>3. a \o (c \o <<key>>) = Append(a \o c, key)
      <4> HIDE DEF a, c
      <4> QED BY <2>4, <3>1
    <3>4. Held' = Append(Held, key)
      BY <2>1, <3>2, <3>3
    <3> QED BY <1>8, <2>2, <2>3, <3>1, <3>4 DEF Typing!Type, Typing!Delivers, Held
  <2> QED BY <1>5, <2>5, <2>6
<1> QED BY <1>8, <1>9 DEF Kept, Typing!Next

LEMMA TypeTextKeeps ==
  ASSUME Renders, TextInv, NEW key \in Keys, TypeText(key)
  PROVE  Kept
<1>1. PICK st \in Calls : /\ ~Inserts(st, key)
                          /\ key = space => st.input = <<>>
                          /\ Leave(Emit(st, key), FALSE)
  BY DEF TypeText
<1> DEFINE x == Emit(st, key)
<1>2. /\ Current(st) /\ Going(st) /\ Rendered(st) /\ st.told = <<>>
      /\ Heard => Due(st) = Due(Plain)
      /\ st.input # <<>> => Answers(st)
      /\ st.type = WantedType(st.options)
  BY <1>1, CallText, CallGoes, RendersConverts DEF Carries, TextInv
<1>3. ASSUME Heard PROVE key \notin Alphabet
  BY <1>1, <1>2, <1>3, PyzyAssumption DEF Inserts, Heard, Going
<1>4. /\ Rendered(x) /\ Shows(x) /\ x.input = <<>>
      /\ Heard => Due(x) = Due(st)
  BY <1>2, <1>3, EmitLetters
<1>5. Going(x) /\ Answers(x) /\ InForce(x)
  BY <1>2, EmitGoes, RendersConverts DEF InForce
<1>6. x.told = <<>>
  BY <1>2, EmitLetters
<1> HIDE DEF x
<1>7. Leave(x, FALSE) /\ owed' = "nothing"
  BY <1>1 DEF x, TypeText, Handled
<1> QED BY <1>2, <1>4, <1>5, <1>6, <1>7, AdvanceKeeps

LEMMA ConvertKeeps ==
  ASSUME Renders, TextInv, Convert
  PROVE  Kept
<1>1. PICK st \in Calls :
        Leave(Harvest(IF Hovering(st) THEN TakeHovered(st) ELSE PyzyCommit(st)), FALSE)
  BY DEF Convert
<1> DEFINE x == IF Hovering(st) THEN TakeHovered(st) ELSE PyzyCommit(st)
<1>2. /\ Current(st) /\ Going(st) /\ Answers(st) /\ Rendered(st)
      /\ st.type = WantedType(st.options) /\ (Heard => Due(st) = Due(Plain))
  BY CallText, CallGoes, RendersConverts DEF Convert, TextInv, Carries
<1>3. Current(x) /\ InForce(x) /\ Carries(x, st)
  <2>1. CASE Hovering(st)
    <3>1. st.model.cursor \in Nat /\ st.model.cursor < Len(Offered(st))
      BY <1>2, <2>1, HoveredIsOffered, RendersConverts DEF Going
    <3>2. x = PyzySelect(st, st.model.cursor)
      BY <2>1 DEF TakeHovered
    <3> HIDE DEF x
    <3> QED BY <1>2, <3>1, <3>2, SelectGoes, SelectText, RendersConverts DEF InForce
  <2>2. CASE ~Hovering(st)
    <3>1. x = PyzyCommit(st)
      BY <2>2
    <3> HIDE DEF x
    <3> QED BY <1>2, <3>1, CommitGoes, PyzyCommitText DEF InForce
  <2> QED BY <2>1, <2>2
<1> HIDE DEF x
<1>4. Leave(Harvest(x), FALSE) /\ owed' = "nothing"
  BY <1>1 DEF x, Convert, Handled
<1> QED BY <1>2, <1>3, <1>4, HarvestAdvances DEF Carries

\* Where the preedit is delivered, whoever asks.
LEMMA PreeditDelivered ==
  ASSUME Renders, TextInv, Composing,
         NEW st, Current(st), InForce(st), Carries(st, Plain), Shows(st),
         st.told = <<>>, st.out.commit = <<>>, st.model = model,
         Leave(Harvest(CommitPreedit(st)), FALSE), owed' = "nothing"
  PROVE  /\ Kept
         /\ before' = before \o Unseparated(published.preedit)
         /\ published'.preedit = <<>>
<1> DEFINE y == CommitPreedit(st)
           x == Harvest(y)
           shows == (model.settled \o model.active) \o model.tail
<1>1. Going(st) /\ Rendered(st)
  BY DEF Current, Carries
<1>2. /\ Carries(y, st) /\ y.told = <<>> /\ y.input = <<>> /\ y.selected = <<>>
      /\ y.out.commit = <<>> \o Unseparated(shows)
  BY <1>1, CommitPreeditText
<1>3. Current(y) /\ Going(y) /\ InForce(y)
  BY <1>1, <1>2, CommitPreeditGoes DEF Current, InForce
<1> HIDE DEF y, shows
<1>4. Kept
  <2>1. Heard => Due(y) = Due(Plain)
    BY <1>2 DEF Carries
  <2>2. Leave(Harvest(y), FALSE)
    BY DEF y
  <2> QED BY <1>2, <1>3, <2>1, <2>2, HarvestAdvances DEF Carries
<1>5. /\ Shows(x) /\ Rendered(x) /\ x.told = <<>> /\ x.input = <<>> /\ x.selected = <<>>
      /\ x.out.commit = y.out.commit \o <<>>
      /\ Going(x) /\ Answers(x) /\ InForce(x)
  BY <1>2, <1>3, HarvestText, HarvestGoes DEF Carries, InForce
<1> HIDE DEF x
<1>6. Leave(x, FALSE)
  BY DEF x, y
<1>7. before' = before \o x.out.commit
  BY <1>5, <1>6, LeftLetters
<1>8. x.out.commit = Unseparated(published.preedit)
  <2>1. published.preedit = shows
    BY DEF TextInv, shows
  <2>2. Unseparated(shows) \in Text
    <3>1. model.settled \in Text /\ model.active \in Text /\ model.tail = <<>>
      <4>1. st.selected \in Text
        BY <1>1, DueIs
      <4>2. Spelling(st.type, Rest(st)) \in Text
        BY <1>1, RestSplits DEF Renders, Rendered, Going
      <4> QED BY <4>1, <4>2 DEF Shows
    <3>2. shows \in Text
      BY <3>1, ConcatText DEF shows
    <3> QED BY <3>2, UnseparatedIs, CleanIsText
  <2> QED BY <1>2, <1>5, <2>1, <2>2, ConcatText
<1>9. published'.preedit = <<>>
  <2>1. /\ published'.preedit = (model'.settled \o model'.active) \o model'.tail
        /\ model' = Materialize(x.model, Texts(Offered(x)), x.options.cap)
    BY <1>5, <1>6, LeaveText DEF Leave, Refresh
  <2>2. /\ model'.settled = x.model.settled /\ model'.active = x.model.active
        /\ model'.tail = x.model.tail
    BY <1>5, <2>1 DEF Materialize, Going, ModelFields
  <2>3. x.model.settled = <<>> /\ x.model.active = <<>> /\ x.model.tail = <<>>
    <3>1. Rest(x) = <<>>
      BY <1>5, RestSplits DEF Rendered
    <3>2. Spelling(x.type, <<>>) = <<>>
      BY <1>5 DEF Renders, Going
    <3> QED BY <1>5, <3>1, <3>2 DEF Shows
  <2>4. (<<>> \o <<>>) \o <<>> = <<>>
    BY EmptyText, ConcatText
  <2> QED BY <2>1, <2>2, <2>3, <2>4
<1> QED BY <1>4, <1>7, <1>8, <1>9

LEMMA ReturnKeeps ==
  ASSUME Renders, TextInv, Return
  PROVE  /\ Kept
         /\ before' = before \o Unseparated(published.preedit)
         /\ published'.preedit = <<>>
<1>1. PICK st \in Calls : Leave(Harvest(CommitPreedit(st)), FALSE)
  BY DEF Return
<1>2. Composing /\ owed' = "nothing"
  BY DEF Return, Handled
<1>3. /\ Current(st) /\ Carries(st, Plain) /\ Shows(st) /\ st.told = <<>>
      /\ st.out.commit = <<>> /\ st.model = model
  BY <1>1, <1>2, CallText
<1>4. InForce(st)
  BY <1>1, CallGoes, RendersConverts DEF InForce, TextInv
<1> QED BY <1>1, <1>2, <1>3, <1>4, PreeditDelivered

LEMMA CommitKeeps ==
  ASSUME Renders, TextInv, Commit
  PROVE  /\ Kept
         /\ Composing => /\ before' = before \o Unseparated(published.preedit)
                         /\ published'.preedit = <<>>
<1>1. /\ Going(Plain) /\ Carries(Plain, Plain) /\ Shows(Plain)
      /\ Plain.told = <<>> /\ Plain.out.commit = <<>>
  BY EnterText DEF Plain
<1>2. /\ Current(Plain) /\ Answers(Plain) /\ InForce(Plain) /\ Plain.input = input
      /\ Plain.model = model
  BY EnterGoes, RendersConverts, PlainIs DEF Plain, Current, TextInv
<1>3. owed' = "nothing"
  BY DEF Commit, Handled
<1>4. CASE Composing
  <2>1. Leave(Harvest(CommitPreedit(Plain)), FALSE)
    BY <1>4 DEF Commit
  <2> QED BY <1>1, <1>2, <1>3, <1>4, <2>1, PreeditDelivered
<1>5. CASE ~Composing
  <2>1. Leave(Plain, FALSE)
    BY <1>5 DEF Commit
  <2>2. Kept
    BY <1>1, <1>2, <1>3, <2>1, AdvanceKeeps DEF Carries
  <2> QED BY <1>5, <2>2
<1> QED BY <1>4, <1>5

LEMMA EscapeKeeps ==
  ASSUME Renders, TextInv, Escape
  PROVE  Kept
<1>1. PICK st \in Calls : Leave(Harvest(PyzyReset(st)), FALSE)
  BY DEF Escape
<1> DEFINE y == PyzyReset(st)
           x == Harvest(y)
<1>2. /\ Going(st) /\ Rendered(st) /\ st.told = <<>> /\ st.out.commit = <<>>
  BY <1>1, CallText DEF Carries
<1>3. /\ Current(y) /\ Going(y) /\ y.input = <<>> /\ Rendered(y) /\ y.told = <<>>
      /\ y.out.commit = <<>>
  BY <1>2, PyzyResetGoes, PyzyResetText DEF Current
<1> HIDE DEF y
<1>4. /\ Going(x) /\ Rendered(x) /\ Shows(x) /\ x.told = <<>> /\ Answers(x)
      /\ x.input = <<>> /\ InForce(x) /\ x.out.commit = <<>> \o <<>>
  BY <1>3, HarvestText, HarvestGoes DEF Carries, InForce
<1> HIDE DEF x
<1>5. Leave(x, FALSE) /\ owed' = "nothing"
  BY <1>1 DEF x, y, Escape, Handled
<1>6. x.out.commit = <<>>
  BY <1>4, EmptyText, ConcatText
<1> QED BY <1>4, <1>5, <1>6, DiscardKeeps

LEMMA BackspaceKeyKeeps ==
  ASSUME Renders, TextInv, BackspaceKey
  PROVE  Kept
<1>1. PICK st \in Calls : Leave(Harvest(Edited(st, Front(st.input))), FALSE)
  BY DEF BackspaceKey
<1> DEFINE q == Front(st.input)
           y == Edited(st, q)
           x == Harvest(y)
<1>2. /\ Current(st) /\ Going(st) /\ Rendered(st) /\ st.told = <<>>
      /\ st.out.commit = <<>> /\ st.input = input /\ input # <<>>
      /\ st.input \in Seq(Keys) /\ st.used \in Nat /\ st.used <= Len(st.input)
      /\ st.type = WantedType(st.options)
  BY <1>1, CallText, CallGoes, RendersConverts
     DEF Carries, Going, Rendered, BackspaceKey, Composing, TextInv
<1>3. /\ q \in Seq(Keys)
      /\ st.used <= Len(q) => SubSeq(q, 1, st.used) = SubSeq(st.input, 1, st.used)
      /\ \E key \in Keys : st.input = Append(q, key)
  BY <1>2, BeginningStays
<1>4. PICK key \in Keys : input = Append(q, key)
  BY <1>2, <1>3
<1> HIDE DEF q
<1>5. /\ Current(y) /\ Going(y) /\ InForce(y) /\ Rendered(y) /\ y.input = q
      /\ y.told = <<>> /\ y.out.commit = <<>>
  BY <1>2, <1>3, EditedGoes, EditedText DEF Current, InForce
<1> HIDE DEF y
<1>6. /\ Going(x) /\ Rendered(x) /\ Shows(x) /\ x.told = <<>> /\ Answers(x)
      /\ x.input = q /\ InForce(x) /\ x.out.commit = <<>> \o <<>>
  BY <1>5, HarvestText, HarvestGoes DEF Carries, InForce
<1> HIDE DEF x
<1>7. Leave(x, FALSE) /\ owed' = "nothing"
  BY <1>1 DEF x, y, q, BackspaceKey, Handled
<1>8. /\ TextInv' /\ before \in Text /\ before' = before \o (<<>> \o <<>>)
      /\ input' = q
  BY <1>6, <1>7, LeftLetters
<1>9. before' = before
  BY <1>8, EmptyText, ConcatText
<1>10. LettersIn(input) = LettersIn(q) \o LettersIn(<<key>>)
  <2>1. input = q \o <<key>> /\ <<key>> \in Seq(Keys)
    BY <1>3, <1>4, AppendIsConcat
  <2> QED BY <1>3, <2>1, LettersAre
<1>11. LettersIn(q) \in Seq(Alphabet)
  BY <1>3, LettersAre
<1>12. Typing!TakeBack \/ UNCHANGED <<before, LettersIn(input)>>
  <2>1. CASE key \in Alphabet
    <3>1. LettersIn(input) = Append(LettersIn(q), key)
      BY <1>10, <1>11, <2>1, LettersAre, AppendIsConcat
    <3>2. LettersIn(input) # <<>> /\ Front(LettersIn(input)) = LettersIn(q)
      BY <1>11, <2>1, <3>1, FrontOfAppend
    <3>3. LettersIn(input') = Typing!Front(LettersIn(input))
      BY <1>8, <3>2 DEF Front, Typing!Front
    <3> QED BY <1>9, <3>2, <3>3 DEF Typing!TakeBack
  <2>2. CASE key \notin Alphabet
    <3>1. LettersIn(<<key>>) = <<>>
      BY <2>2, LettersAre
    <3>2. LettersIn(input) = LettersIn(q)
      BY <1>10, <1>11, <3>1
    <3> QED BY <1>8, <1>9, <3>2
  <2> QED BY <2>1, <2>2
<1> QED BY <1>8, <1>12 DEF Kept, Typing!Next

LEMMA OtherKeeps ==
  ASSUME Renders, TextInv, DeleteKey \/ TypeOther
  PROVE  Kept
<1>1. PICK st \in Calls \cup {Plain} : Leave(Harvest(st), FALSE)
  BY DEF DeleteKey, TypeOther
<1>2. owed' # "nothing" => ~Composing
  BY DEF DeleteKey, TypeOther, Handled
<1>3. /\ Current(st) /\ Carries(st, Plain) /\ InForce(st)
      /\ ~Composing => st.input = <<>>
  <2>1. CASE st \in Calls
    BY <2>1, CallText, CallGoes, RendersConverts DEF InForce, TextInv
  <2>2. CASE st = Plain
    BY <2>2, EnterText, EnterGoes, RendersConverts, PlainIs
       DEF Plain, Current, TextInv, Composing
  <2> QED BY <1>1, <2>1, <2>2
<1> QED BY <1>1, <1>2, <1>3, HarvestAdvances DEF Carries

\* Resetting clears the model itself, and says nothing.
LEMMA ResetStateText ==
  ASSUME Renders, NEW st, Going(st), Rendered(st), st.told = <<>>,
         st.out.commit = <<>>
  PROVE  /\ Going(ResetState(st)) /\ Answers(ResetState(st)) /\ InForce(ResetState(st))
         /\ Rendered(ResetState(st)) /\ Shows(ResetState(st))
         /\ ResetState(st).told = <<>> /\ ResetState(st).input = <<>>
         /\ ResetState(st).out.commit = <<>>
<1> DEFINE r == PyzyReset(st)
           x == [r EXCEPT !.model = EmptyModel, !.p = FreshPunctuation]
<1>1. /\ Going(r) /\ Rendered(r) /\ r.input = <<>> /\ r.told = <<>>
      /\ r.out.commit = <<>> /\ r.selected = <<>>
  BY PyzyResetGoes, PyzyResetText DEF Current
<1>2. ResetState(st) = x
  BY DEF ResetState
<1> HIDE DEF r
<1>3. /\ DOMAIN x = CallFields /\ x.model = EmptyModel /\ x.type = r.type
      /\ x.input = <<>> /\ x.used = r.used /\ x.options = r.options
      /\ x.told = r.told /\ x.out = r.out /\ x.selected = r.selected
  BY <1>1 DEF Going, CallFields
<1> HIDE DEF x
<1>4. Going(x) /\ Answers(x) /\ InForce(x)
  BY <1>1, <1>3 DEF Going, Answers, InForce, EmptyModel, ModelFields
<1>5. Shows(x)
  <2>1. Rest(x) = <<>>
    <3>1. Rest(r) = <<>>
      BY <1>1, RestSplits DEF Rendered
    <3> QED BY <1>1, <1>3, <3>1 DEF Rest
  <2>2. Spelling(x.type, <<>>) = <<>>
    BY <1>4 DEF Renders, Going
  <2> QED BY <1>1, <1>3, <2>1, <2>2 DEF Shows, EmptyModel
<1>6. Rendered(x)
  BY <1>1, <1>3, <1>5 DEF Rendered, Tallied
<1> QED BY <1>1, <1>2, <1>3, <1>4, <1>5, <1>6

LEMMA ResetKeeps ==
  ASSUME Renders, TextInv, Reset
  PROVE  Kept
<1> DEFINE x == ResetState(Plain)
<1>1. /\ Going(Plain) /\ Rendered(Plain) /\ Plain.told = <<>>
      /\ Plain.out.commit = <<>>
  BY EnterText DEF Plain, TextInv
<1>2. /\ Going(x) /\ Answers(x) /\ InForce(x) /\ Rendered(x) /\ Shows(x)
      /\ x.told = <<>> /\ x.input = <<>> /\ x.out.commit = <<>>
  BY <1>1, ResetStateText
<1> HIDE DEF x
<1>3. Leave(x, FALSE)
  BY DEF Reset, x
<1> QED BY <1>2, <1>3, DiscardKeeps

LEMMA SelectCandidateKeeps ==
  ASSUME Renders, TextInv, SelectCandidate
  PROVE  Kept
<1>1. PICK k \in 0..(Len(model.candidates) - 1), st \in Calls :
        k < Len(Offered(st)) /\ Leave(Harvest(PyzySelect(st, k)), FALSE)
  BY DEF SelectCandidate
<1> DEFINE x == PyzySelect(st, k)
<1>2. /\ Current(st) /\ Going(st) /\ Carries(st, Plain) /\ Rendered(st)
      /\ st.type = WantedType(st.options) /\ k \in Nat
  BY <1>1, CallText, CallGoes, RendersConverts DEF Carries, TextInv
<1>3. Current(x) /\ InForce(x) /\ Carries(x, st)
  BY <1>1, <1>2, SelectGoes, SelectText, RendersConverts DEF InForce
<1> HIDE DEF x
<1>4. Leave(Harvest(x), FALSE) /\ owed' = "nothing"
  BY <1>1 DEF x, SelectCandidate, Handled
<1> QED BY <1>2, <1>3, <1>4, HarvestAdvances DEF Carries

LEMMA MoveCursorKeeps ==
  ASSUME Renders, TextInv, MoveCursor
  PROVE  Kept
<1>1. PICK k \in 0..(Len(model.candidates) - 1), st \in Calls :
        k < Len(Offered(st)) /\ Leave(Focus(st, k), FALSE)
  BY DEF MoveCursor
<1> DEFINE x == [st EXCEPT !.model.cursor = k, !.raised = {"text"}]
<1>2. /\ Current(st) /\ Going(st) /\ Carries(st, Plain) /\ Rendered(st)
      /\ st.type = WantedType(st.options)
      /\ st.input # <<>> => Answers(st)
  BY <1>1, CallText, CallGoes, RendersConverts DEF Carries, TextInv
<1>3. Answers(st)
  <2>1. ASSUME st.input = <<>> PROVE Offered(st) = <<>>
    <3>1. Rest(st) = <<>>
      BY <1>2, <2>1, RestSplits DEF Rendered
    <3> QED BY <3>1 DEF Offered
  <2> QED BY <1>1, <1>2, <2>1
<1>4. /\ DOMAIN x = CallFields /\ DOMAIN x.model = ModelFields
      /\ x.model.candidates = st.model.candidates /\ x.model.cursor = k
      /\ x.type = st.type /\ x.input = st.input /\ x.used = st.used
      /\ x.options = st.options /\ x.selected = st.selected /\ x.told = st.told
      /\ x.out = st.out /\ "text" \in x.raised
  BY <1>2 DEF Going, CallFields, ModelFields
<1>5. Leave(Harvest(x), FALSE) /\ owed' = "nothing"
  BY <1>1 DEF Focus, MoveCursor, Handled
<1> HIDE DEF x
<1>6. Going(x) /\ InForce(x)
  BY <1>2, <1>4 DEF Going, InForce
<1>7. Answers(x)
  BY <1>3, <1>4 DEF Answers, Offered, Rest
<1>8. Rendered(x) /\ Due(x) = Due(st)
  BY <1>2, <1>4, TextFields
<1> QED BY <1>2, <1>5, <1>6, <1>7, <1>8, HarvestAdvances DEF Carries, Current

LEMMA SetOptionKeeps ==
  ASSUME Renders, TextInv, SetOption
  PROVE  Kept
<1>1. PICK chosen \in Settings :
        LET st == [Plain EXCEPT !.options = chosen]
        IN IF chosen.scheme # options.scheme THEN Leave(ResetState(st), FALSE)
           ELSE Leave(OptionsChanged(st), TRUE)
  BY DEF SetOption
<1> DEFINE st == [Plain EXCEPT !.options = chosen]
<1>2. chosen \in Options /\ owed' = "nothing"
  BY PyzyAssumption DEF SetOption, Handled
<1>3. /\ DOMAIN st = CallFields /\ st.model = Plain.model /\ st.type = Plain.type
      /\ st.input = Plain.input /\ st.used = Plain.used /\ st.options = chosen
      /\ st.selected = Plain.selected /\ st.told = Plain.told /\ st.out = Plain.out
      /\ st.raised = Plain.raised
      /\ Plain.type = type /\ Plain.input = input
  BY DEF Plain, Enter, CallFields
<1>4. /\ Going(Plain) /\ Rendered(Plain) /\ Plain.told = <<>>
      /\ Plain.out.commit = <<>>
  BY EnterText DEF Plain, TextInv
<1> HIDE DEF st
<1>5. Going(st) /\ Rendered(st) /\ Due(st) = Due(Plain)
  <2>1. Going(st)
    BY <1>2, <1>3, <1>4 DEF Going
  <2> QED BY <1>3, <1>4, <2>1, TextFields DEF Rendered
<1>6. CASE chosen.scheme # options.scheme
  <2> DEFINE x == ResetState(st)
  <2>1. /\ Going(x) /\ Answers(x) /\ InForce(x) /\ Rendered(x) /\ Shows(x)
        /\ x.told = <<>> /\ x.input = <<>> /\ x.out.commit = <<>>
    BY <1>3, <1>4, <1>5, ResetStateText
  <2> HIDE DEF x
  <2>2. Leave(x, FALSE)
    BY <1>1, <1>6 DEF x, st
  <2> QED BY <2>1, <2>2, DiscardKeeps
<1>7. CASE chosen.scheme = options.scheme
  <2> DEFINE applied == ApplyOptions(st)
             heard == [applied EXCEPT !.raised = @ \cup {"text"}]
             told == Harvest(heard)
             x == [told EXCEPT !.model.candidates = <<>>, !.model.cursor = 0]
  <2>1. Leave(x, TRUE)
    BY <1>1, <1>7 DEF st, OptionsChanged
  <2>2. InForce(st)
    BY <1>3, <1>7 DEF InForce, WantedType, TextInv, PyzyInv
  <2>3. /\ Going(applied) /\ applied.type = WantedType(applied.options)
        /\ Carries(applied, st)
    BY <1>2, <1>3, <1>5, <2>2, Wanted, ApplyGoes, ApplyText DEF TextInv
  <2> HIDE DEF applied
  <2>4. /\ DOMAIN heard = CallFields /\ heard.model = applied.model
        /\ heard.type = applied.type /\ heard.input = applied.input
        /\ heard.used = applied.used /\ heard.options = applied.options
        /\ heard.selected = applied.selected /\ heard.told = applied.told
        /\ heard.out = applied.out /\ "text" \in heard.raised
    BY <2>3 DEF Going, CallFields
  <2> HIDE DEF heard
  <2>5. Going(heard) /\ Carries(heard, applied)
    <3>1. Rendered(heard) /\ Due(heard) = Due(applied)
      BY <2>3, <2>4, TextFields DEF Carries
    <3> QED BY <2>3, <2>4, <3>1 DEF Going, Carries
  <2>6. /\ Going(told) /\ told.type = heard.type /\ told.options = heard.options
        /\ Carries(told, heard) /\ Shows(told) /\ told.told = <<>>
    BY <2>5, HarvestGoes, HarvestText DEF Carries
  <2> HIDE DEF told
  <2>7. /\ DOMAIN x = CallFields /\ DOMAIN x.model = ModelFields
        /\ x.model.candidates = <<>> /\ x.model.cursor = 0 /\ x.type = told.type
        /\ x.input = told.input /\ x.used = told.used /\ x.options = told.options
        /\ x.selected = told.selected /\ x.told = told.told /\ x.out = told.out
        /\ \A f \in {"settled", "active", "tail"} : x.model[f] = told.model[f]
        /\ x.raised = told.raised
    BY <2>6 DEF Going, CallFields, ModelFields
  <2> HIDE DEF x
  <2>8. Going(x) /\ Answers(x) /\ InForce(x)
    BY <2>3, <2>4, <2>6, <2>7 DEF Going, Answers, InForce
  <2>9. Shows(x)
    BY <2>6, <2>7 DEF Shows, Rest
  <2>10. Rendered(x) /\ Due(x) = Due(told)
    BY <2>6, <2>7, <2>9 DEF Carries, Rendered, Tallied, Due
  <2>11. Heard => Due(x) = Due(Plain)
    BY <1>5, <2>3, <2>5, <2>6, <2>10 DEF Carries
  <2> QED BY <1>2, <2>1, <2>6, <2>7, <2>8, <2>9, <2>10, <2>11, AdvanceKeeps
<1> QED BY <1>6, <1>7

\* What the client does between calls.
LEMMA ClientKeeps ==
  ASSUME Renders, TextInv, MoveElsewhere \/ Report \/ Fallback
  PROVE  Kept
<1>1. UNCHANGED <<model, published, pyzyVars>>
  BY DEF MoveElsewhere, Report, Fallback, ClientActs
<1>2. PyzyInv'
  BY <1>1 DEF TextInv, pyzyVars, PyzyInv, ListIsCurrent, WantedType, Plain, Enter,
              Offered, Rest, Texts
<1>3. Rendered(Plain)'
  BY <1>1 DEF TextInv, pyzyVars, Rendered, Shows, Tallied, Plain, Enter, Rest
<1>4. before' \in Text /\ (owed' # "nothing" => input' = <<>>)
  <2>1. CASE MoveElsewhere
    BY <2>1, PyzyAssumption DEF MoveElsewhere, Idle
  <2>2. CASE Report
    BY <2>2 DEF Report, TextInv, Idle
  <2>3. CASE Fallback
    <3>1. \A s \in Scalar : Append(before, s) \in Text
      BY DEF TextInv, Text
    <3>2. SubSeq(before, 1, Len(before) - 1) \in Text
      BY ButLast DEF TextInv
    <3> QED BY <2>3, <3>1, <3>2 DEF Fallback, ClientActs
  <2> QED BY <2>1, <2>2, <2>3
<1>5. TextInv'
  BY <1>1, <1>2, <1>3, <1>4 DEF TextInv
<1>6. UNCHANGED input
  BY <1>1 DEF pyzyVars
<1>7. Typing!Next \/ UNCHANGED <<before, LettersIn(input)>>
  <2>1. CASE Report
    BY <1>6, <2>1 DEF Report
  <2>2. CASE MoveElsewhere \/ Fallback
    <3>1. input = <<>>
      BY <2>2 DEF MoveElsewhere, Composing, Fallback, ClientActs, TextInv
    <3>2. LettersIn(input) = <<>> /\ LettersIn(input') = <<>>
      BY <1>6, <3>1, LettersAre
    <3> QED BY <3>2 DEF Typing!Next, Typing!Edit
  <2> QED BY <2>1, <2>2
<1> QED BY <1>5, <1>7 DEF Kept

LEMMA TextStep ==
  ASSUME Renders, TextInv, [Next]_vars
  PROVE  Kept
<1>1. CASE UNCHANGED vars
  <2>1. UNCHANGED <<model, published, before, owed, pyzyVars>>
    BY <1>1 DEF vars, contextVars
  <2>2. PyzyInv'
    BY <2>1 DEF TextInv, pyzyVars, PyzyInv, ListIsCurrent, WantedType, Plain, Enter,
                Offered, Rest, Texts
  <2>3. Rendered(Plain)'
    BY <2>1 DEF TextInv, pyzyVars, Rendered, Shows, Tallied, Plain, Enter, Rest
  <2>4. TextInv'
    BY <2>1, <2>2, <2>3 DEF TextInv, pyzyVars
  <2> QED BY <2>1, <2>4 DEF Kept, pyzyVars
<1>2. CASE Next
  <2>1. ASSUME NEW key \in Keys, TypeKey(key) \/ TypeText(key) PROVE Kept
    BY <2>1, TypeKeyKeeps, TypeTextKeeps
  <2> QED BY <1>2, <2>1, ConvertKeeps, ReturnKeeps, EscapeKeeps, BackspaceKeyKeeps,
             OtherKeeps, CommitKeeps, ResetKeeps, SelectCandidateKeeps, MoveCursorKeeps,
             SetOptionKeeps, ClientKeeps DEF Next
<1> QED BY <1>1, <1>2

LEMMA TextInit ==
  ASSUME Renders, Init
  PROVE  TextInv
<1>1. PyzyInv
  BY PyzyInit
<1>2. /\ model = EmptyModel /\ published = Project(EmptyModel) /\ before = <<>>
      /\ owed = "nothing" /\ input = <<>> /\ used = 0 /\ selected = <<>>
  BY DEF Init, ContextInit
<1>3. Rendered(Plain)
  <2> DEFINE x == Plain
  <2>1. /\ x.model = EmptyModel /\ x.out = NoOutput /\ x.type = type /\ x.input = <<>>
        /\ x.used = 0 /\ x.selected = <<>> /\ x.told = <<>>
    BY <1>2, PlainIs DEF Plain
  <2> HIDE DEF x
  <2>2. Rest(x) = <<>> /\ SubSeq(<<>>, 1, 0) = <<>> /\ Len(<<>>) = 0 /\ <<>> \in Clean
    BY <2>1, SubSeqEmpty DEF Rest, Clean
  <2>3. Shows(x)
    BY <1>1, <2>1, <2>2 DEF Shows, EmptyModel, Renders, PyzyInv
  <2>4. NoOutput \in Plainly
    BY EmptyText DEF NoOutput, Plainly
  <2>5. Heard => Tallied(x)
    BY <2>1, <2>2, SoundingIs, LettersAre DEF Tallied
  <2>6. Rendered(x)
    BY <2>1, <2>2, <2>3, <2>4, <2>5, EmptyText DEF Rendered
  <2> QED BY <2>6 DEF x
<1>4. published.preedit = (model.settled \o model.active) \o model.tail
  BY <1>2 DEF Project
<1> QED BY <1>1, <1>2, <1>3, <1>4, EmptyText DEF TextInv

LEMMA TextAlways ==
  ASSUME Renders
  PROVE  Spec => []TextInv
<1>1. TextInv /\ [Next]_vars => TextInv'
  BY TextStep DEF Kept
<1>2. Init => TextInv
  BY TextInit
<1> QED BY <1>1, <1>2, PTL DEF Spec
-------------------------------------------------------------------------------
\* Whatever PyZy spells and converts, what the client is shown are the first of the
\* candidates it would answer a selection from, so an index selects what was drawn
\* there (PyzyProperties, ListIsCurrent).
THEOREM PyzyListIsCurrent ==
  ASSUME Converts
  PROVE  Spec => []ListIsCurrent
<1>1. PyzyInv => ListIsCurrent
  BY DEF PyzyInv
<1>2. PyzyInv /\ [Next]_vars => PyzyInv'
  BY PyzyKept
<1> QED BY <1>1, <1>2, PyzyInit, PTL DEF Spec

\* Return and pathime_context_commit deliver the preedit the client was shown but
\* for the separators, under every scheme, and leave none (PyzyProperties,
\* EndDeliversPreedit).
THEOREM PreeditIsDelivered ==
  ASSUME Renders
  PROVE  Spec => EndDeliversPreedit
<1> DEFINE Delivers ==
             Composing /\ (Return \/ Commit) =>
               /\ before' = before \o Unseparated(published.preedit)
               /\ published'.preedit = <<>>
<1>1. TextInv /\ [Next]_vars => [Delivers]_vars
  <2>1. ASSUME TextInv PROVE Delivers
    BY <2>1, ReturnKeeps, CommitKeeps
  <2> QED BY <2>1
<1>2. Spec => []TextInv
  BY TextAlways
<1> QED BY <1>1, <1>2, PTL DEF Spec, EndDeliversPreedit

\* Whatever PyZy spells and converts, as long as both sound like the keys, every
\* letter typed is being composed or in the document, once and in order
\* (PyzyProperties, KeepsKeystrokes).
THEOREM LettersKept ==
  ASSUME Renders, Heard
  PROVE  Spec => KeepsKeystrokes
<1>1. Init => Typing!Init
  BY LettersAre DEF Init, ContextInit, Typing!Init
<1>2. TextInv /\ [Next]_vars => [Typing!Next]_(Typing!lettersVars)
  BY TextStep DEF Kept, Typing!lettersVars
<1>3. Spec => []TextInv
  BY TextAlways
<1> QED BY <1>1, <1>2, <1>3, PTL DEF Spec, KeepsKeystrokes, Typing!Spec

-------------------------------------------------------------------------------
(* What is remembered of the document.                                     *)

Memory == [single : BOOLEAN, double : BOOLEAN, digit : BOOLEAN]

\* Texts that say nothing of the quotation marks, nor end in a digit.
Undecided == Seq(Scalar \ Decisive)

\* The keys insert() is given under an input type.
Typed(t) ==
  {key \in Keys : IF t = "bopomofo" THEN key # space ELSE key \in Alphabet \cup {apostrophe}}

\* What is assumed of PyZy's texts: neither the spelling nor a conversion of such
\* keys holds a quotation mark or a digit.
Unmarked ==
  \A t \in Types : \A run \in Seq(Typed(t)) :
    /\ Spelling(t, run) \in Undecided
    /\ run # <<>> => \A simplified \in BOOLEAN :
         Conversions(t, run, simplified) \in Seq([text : Undecided, takes : Nat])

\* A call in progress: the texts in hand ...
Wording(st) ==
  /\ st.input \in Seq(Typed(st.type)) /\ st.selected \in Undecided
  /\ st.told \in Undecided

\* ... and the memory, where p was remembered when the call began.
Noted(st, p) ==
  /\ st.p \in Memory /\ st.p.single = p.single /\ st.p.double = p.double
  /\ st.out.commit \in Undecided
  /\ st.out.commit # <<>> => ~st.p.digit

Recalls(st, p) == Wording(st) /\ Noted(st, p)

\* The remembered is what a reader of the document would say.
Recalled(st) ==
  /\ st.p \in Memory
  /\ LET text == st.out.commit
     IN text # <<>> =>
          /\ st.p.digit <=> EndsInDigit(text)
          /\ st.p.single \in MayRemember(text, openSingle, closeSingle, punctuation.single)
          /\ st.p.double \in MayRemember(text, openDouble, closeDouble, punctuation.double)

\* The invariant: keys held are keys PyZy was given, and a memory kept past a change
\* of scheme is the fresh one the next call would put in its place.
MemoryInv ==
  /\ TextInv /\ punctuation \in Memory
  /\ input \in Seq(Typed(type)) /\ selected \in Undecided
  /\ type # WantedType(options) => punctuation = FreshPunctuation

LEMMA UndecidedIs ==
  /\ Undecided \subseteq Text /\ <<>> \in Undecided
  /\ \A s, t \in Undecided : s \o t \in Undecided
  /\ \A t \in Undecided : /\ \A i \in 1..Len(t) : t[i] \notin Decisive
                          /\ DOMAIN t = 1..Len(t) /\ Len(t) \in Nat
                          /\ t # <<>> => Len(t) >= 1 /\ ~EndsInDigit(t)
<1>1. Undecided \subseteq Text /\ <<>> \in Undecided
  BY SeqMonotonic DEF Undecided, Text
<1>2. \A s, t \in Undecided : s \o t \in Undecided
  BY ConcatProperties DEF Undecided
<1>3. ASSUME NEW t \in Undecided
      PROVE  /\ \A i \in 1..Len(t) : t[i] \notin Decisive
             /\ DOMAIN t = 1..Len(t) /\ Len(t) \in Nat
             /\ t # <<>> => Len(t) >= 1 /\ ~EndsInDigit(t)
  <2>1. /\ \A i \in 1..Len(t) : t[i] \notin Decisive
        /\ DOMAIN t = 1..Len(t) /\ Len(t) \in Nat
    BY ElementOfSeq, LenProperties DEF Undecided
  <2>2. t # <<>> => Len(t) >= 1
    BY <2>1, EmptySeq DEF Undecided
  <2>3. t # <<>> => ~EndsInDigit(t)
    <3>1. Last(t) = t[Len(t)]
      BY DEF Last
    <3>2. ASSUME t # <<>> PROVE t[Len(t)] \notin Digits
      BY <2>1, <2>2, <3>2 DEF Decisive
    <3> QED BY <3>1, <3>2 DEF EndsInDigit
  <2> QED BY <2>1, <2>2, <2>3
<1> QED BY <1>1, <1>2, <1>3

LEMMA NoteIs ==
  ASSUME NEW p \in Memory, NEW text
  PROVE  /\ NoteCommit(p, text) \in Memory
         /\ NoteCommit(p, text).single = p.single /\ NoteCommit(p, text).double = p.double
         /\ text = <<>> => NoteCommit(p, text) = p
         /\ text # <<>> =>
              (NoteCommit(p, text).digit <=> Len(text) = 1 /\ text[1] \in Digits)
<1> DEFINE ends == Len(text) = 1 /\ text[1] \in Digits
<1>1. NoteCommit(p, text) = IF text = <<>> THEN p ELSE [p EXCEPT !.digit = ends]
  BY DEF NoteCommit
<1>2. ends \in BOOLEAN
  OBVIOUS
<1> HIDE DEF ends
<1>3. /\ [p EXCEPT !.digit = ends] \in Memory
      /\ [p EXCEPT !.digit = ends].single = p.single
      /\ [p EXCEPT !.digit = ends].double = p.double
      /\ [p EXCEPT !.digit = ends].digit = ends
  BY <1>2 DEF Memory
<1> QED BY <1>1, <1>3 DEF ends

LEMMA NoteUndecided ==
  ASSUME NEW p \in Memory, NEW text \in Undecided, text # <<>>
  PROVE  ~NoteCommit(p, text).digit
<1>1. Len(text) >= 1 /\ text[1] \notin Decisive
  BY UndecidedIs
<1> QED BY <1>1, NoteIs DEF Decisive

LEMMA UnseparatedUndecided ==
  ASSUME NEW t \in Undecided
  PROVE  Unseparated(t) \in Undecided
<1> DEFINE U == Scalar \ Decisive
<1>1. Becomes(Cleaned, U, U)
  <2>1. ASSUME NEW x \in U PROVE Cleaned[x] \in Seq(U)
    <3>1. Cleaned[x] = <<>> \/ Cleaned[x] = <<x>>
      BY DEF Cleaned
    <3>2. <<>> \in Seq(U) /\ <<x>> \in Seq(U)
      OBVIOUS
    <3> QED BY <3>1, <3>2
  <2> QED BY <2>1 DEF Becomes
<1>2. t \in Seq(U)
  BY DEF Undecided
<1>3. Unseparated(t) = Joined(Cleaned, t)
  <2>1. t \in Seq(Scalar)
    BY UndecidedIs DEF Text
  <2>2. \A i \in DOMAIN t :
          Cleaned[t[i]] = IF t[i] \in Separators THEN <<>> ELSE <<t[i]>>
    BY <2>1 DEF Cleaned
  <2>3. [i \in DOMAIN t |-> Cleaned[t[i]]]
          = [i \in DOMAIN t |-> IF t[i] \in Separators THEN <<>> ELSE <<t[i]>>]
    BY <2>2
  <2> QED BY <2>3 DEF Unseparated, Joined
<1> HIDE DEF U
<1>4. Joined(Cleaned, t) \in Seq(U)
  BY <1>1, <1>2, JoinedType
<1> QED BY <1>3, <1>4 DEF Undecided, U

\* The keys in hand, and the texts PyZy answers with.
LEMMA TypedIs ==
  /\ \A t : Typed(t) \subseteq Keys
  /\ Seq(Typed("double")) \subseteq Undecided
<1>1. \A t : Typed(t) \subseteq Keys
  BY DEF Typed
<1>2. Typed("double") \subseteq Scalar \ Decisive
  <2> SUFFICES ASSUME NEW key \in Typed("double") PROVE key \in Scalar \ Decisive
    OBVIOUS
  <2>1. key \in Alphabet \/ key = single
    BY PyzyAssumption DEF Typed
  <2>2. key \in Emittable /\ key \notin Digits
    BY <2>1, PyzyAssumption, PunctuationAssumption
  <2> QED BY <2>2, PunctuationAssumption DEF Decisive
<1> QED BY <1>1, <1>2, SeqMonotonic DEF Undecided

LEMMA RestTyped ==
  ASSUME NEW st, Going(st), Wording(st)
  PROVE  Rest(st) \in Seq(Typed(st.type))
<1> DEFINE T == Typed(st.type)
<1>1. st.input \in Seq(T) /\ st.used \in Nat /\ Len(st.input) \in Nat
  BY LenProperties DEF Going, Wording
<1> HIDE DEF T
<1>2. \A i \in (st.used + 1)..Len(st.input) : st.input[i] \in T
  BY <1>1
<1>3. Rest(st) \in Seq(T)
  BY <1>1, <1>2, SubSeqProperties DEF Rest
<1> QED BY <1>3 DEF T

LEMMA OfferedUndecided ==
  ASSUME Unmarked, NEW st, Going(st), Wording(st), NEW k \in Nat, k < Len(Offered(st))
  PROVE  Offered(st)[k + 1].text \in Undecided
<1> DEFINE list == Offered(st)
           s == st.options.simplified
           run == Rest(st)
           A == [text : Undecided, takes : Nat]
<1>1. st.type \in Types /\ s \in BOOLEAN
  BY DEF Going, Options
<1>2. run # <<>> /\ list = Conversions(st.type, run, s)
  <2>1. run = <<>> => list = <<>>
    BY DEF Offered
  <2>2. list # <<>>
    BY EmptySeq
  <2> QED BY <2>1, <2>2 DEF Offered
<1>3. run \in Seq(Typed(st.type))
  BY RestTyped
<1> HIDE DEF s, run, list
<1>4. list \in Seq(A)
  BY <1>1, <1>2, <1>3 DEF Unmarked
<1> HIDE DEF A
<1>5. k + 1 \in 1..Len(list)
  BY <1>4, LenProperties DEF list
<1>6. list[k + 1] \in A
  BY <1>4, <1>5, ElementOfSeq
<1> QED BY <1>6 DEF list, A

\* What none of this depends on.
LEMMA RecallFields ==
  ASSUME NEW st, NEW p, Recalls(st, p), NEW x,
         x.p = st.p, x.out.commit = st.out.commit, x.told \in Undecided,
         x.selected \in Undecided, x.input \in Seq(Typed(x.type))
  PROVE  Recalls(x, p)
BY DEF Recalls, Wording, Noted

LEMMA ResetRecalls ==
  ASSUME NEW st, Going(st), NEW p, Recalls(st, p)
  PROVE  /\ Recalls(PyzyReset(st), p)
         /\ PyzyReset(st).p = st.p /\ PyzyReset(st).told = st.told
         /\ PyzyReset(st).out = st.out
<1> DEFINE x == PyzyReset(st)
<1>1. /\ x.type = st.type /\ x.input = <<>> /\ x.selected = <<>> /\ x.told = st.told
      /\ x.out = st.out /\ x.p = st.p
  BY DEF PyzyReset, Going, CallFields
<1> HIDE DEF x
<1>2. <<>> \in Seq(Typed(x.type)) /\ x.told \in Undecided
  BY <1>1 DEF Recalls, Wording
<1>3. Recalls(x, p)
  BY <1>1, <1>2, UndecidedIs, RecallFields
<1> QED BY <1>1, <1>3 DEF x

LEMMA TellRecalls ==
  ASSUME NEW st, Going(st), NEW p, Recalls(st, p), NEW text \in Undecided
  PROVE  Recalls(PyzyTell(st, text), p) /\ PyzyTell(st, text).out = st.out
<1> DEFINE r == PyzyReset(st)
           x == PyzyTell(st, text)
<1>1. /\ Going(r) /\ Recalls(r, p) /\ r.out = st.out
  BY PyzyResetGoes, ResetRecalls DEF Current
<1>2. /\ x.type = r.type /\ x.input = r.input /\ x.selected = r.selected
      /\ x.told = r.told \o text /\ x.out = r.out /\ x.p = r.p
  BY <1>1 DEF PyzyTell, Going, CallFields
<1> HIDE DEF r, x
<1>3. x.told \in Undecided
  BY <1>1, <1>2, UndecidedIs DEF Recalls, Wording
<1>4. Recalls(x, p)
  BY <1>1, <1>2, <1>3, RecallFields DEF Recalls, Wording
<1> QED BY <1>1, <1>2, <1>4 DEF x

LEMMA SelectRecalls ==
  ASSUME Unmarked, NEW st, Going(st), NEW p, Recalls(st, p),
         NEW k \in Nat, k < Len(Offered(st))
  PROVE  Recalls(PyzySelect(st, k), p) /\ PyzySelect(st, k).out = st.out
<1> DEFINE c == Offered(st)[k + 1]
           x == [st EXCEPT !.used = @ + c.takes, !.selected = @ \o c.text,
                           !.raised = {"text", "list"}]
           told == PyzyTell(st, st.selected \o c.text)
<1>1. c.text \in Undecided
  BY OfferedUndecided DEF Recalls
<1>2. PyzySelect(st, k) = IF c.takes = Len(Rest(st)) THEN told ELSE x
  BY DEF PyzySelect
<1> HIDE DEF c
<1>3. st.selected \o c.text \in Undecided
  BY <1>1, UndecidedIs DEF Recalls, Wording
<1>4. Recalls(told, p) /\ told.out = st.out
  BY <1>3, TellRecalls
<1>5. /\ x.type = st.type /\ x.input = st.input /\ x.selected = st.selected \o c.text
      /\ x.told = st.told /\ x.out = st.out /\ x.p = st.p
  BY DEF Going, CallFields
<1> HIDE DEF told, x
<1>6. Recalls(x, p)
  BY <1>3, <1>5, RecallFields DEF Recalls, Wording
<1> QED BY <1>2, <1>4, <1>5, <1>6

LEMMA CommitRecalls ==
  ASSUME Unmarked, NEW st, Going(st), NEW p, Recalls(st, p)
  PROVE  Recalls(PyzyCommit(st), p) /\ PyzyCommit(st).out = st.out
<1> DEFINE rest == IF st.type = "double" THEN Rest(st)
                   ELSE Unseparated(Spelling(st.type, Rest(st)))
           x == PyzyTell(st, st.selected \o rest)
<1>1. st.type \in Types /\ Rest(st) \in Seq(Typed(st.type))
  BY RestTyped DEF Going, Recalls
<1>2. rest \in Undecided
  <2>1. st.type = "double" => Rest(st) \in Undecided
    BY <1>1, TypedIs
  <2>2. Unseparated(Spelling(st.type, Rest(st))) \in Undecided
    BY <1>1, UnseparatedUndecided DEF Unmarked
  <2> QED BY <2>1, <2>2
<1>3. PyzyCommit(st) = IF st.input = <<>> THEN st ELSE x
  BY DEF PyzyCommit
<1> HIDE DEF rest
<1>4. st.selected \o rest \in Undecided
  BY <1>2, UndecidedIs DEF Recalls, Wording
<1>5. Recalls(x, p) /\ x.out = st.out
  BY <1>4, TellRecalls
<1> HIDE DEF x
<1> QED BY <1>3, <1>5

LEMMA EditedRecalls ==
  ASSUME NEW st, Going(st), NEW p, Recalls(st, p), NEW keys \in Seq(Typed(st.type))
  PROVE  Recalls(Edited(st, keys), p)
<1> DEFINE x == Edited(st, keys)
<1>1. /\ x.type = st.type /\ x.input = keys /\ x.told = st.told /\ x.out = st.out
      /\ x.p = st.p /\ x.selected \in {st.selected, <<>>}
  BY DEF Edited, Going, CallFields
<1> HIDE DEF x
<1>2. x.selected \in Undecided /\ x.told \in Undecided
  BY <1>1, UndecidedIs DEF Recalls, Wording
<1>3. Recalls(x, p)
  BY <1>1, <1>2, RecallFields
<1> QED BY <1>3 DEF x

LEMMA HarvestRecalls ==
  ASSUME NEW st, Going(st), NEW p, Recalls(st, p), st.out \in Plainly
  PROVE  /\ Recalls(Harvest(st), p) /\ Harvest(st).told = <<>>
         /\ Harvest(st).p = NoteCommit(st.p, st.told)
         /\ Harvest(st).out.commit = st.out.commit \o st.told
<1> DEFINE x == Harvest(st)
<1>1. /\ x.type = st.type /\ x.input = st.input /\ x.selected = st.selected
      /\ x.told = <<>> /\ x.p = NoteCommit(st.p, st.told)
      /\ x.out = [st.out EXCEPT !.commit = @ \o st.told]
  BY DEF Harvest, Going, CallFields
<1> HIDE DEF x
<1>2. PICK c \in Undecided, t \in Undecided : c = st.out.commit /\ t = st.told
  BY DEF Recalls, Wording, Noted
<1>3. x.out.commit = c \o t /\ c \o t \in Undecided
  <2>1. x.out.commit = st.out.commit \o st.told
    BY <1>1 DEF Plainly
  <2> QED BY <1>2, <2>1, UndecidedIs
<1>4. st.p \in Memory
  BY DEF Recalls, Noted
<1>5. x.p \in Memory /\ x.p.single = p.single /\ x.p.double = p.double
  <2>1. x.p \in Memory /\ x.p.single = st.p.single /\ x.p.double = st.p.double
    <3>1. \A w : /\ NoteCommit(st.p, w) \in Memory
                 /\ NoteCommit(st.p, w).single = st.p.single
                 /\ NoteCommit(st.p, w).double = st.p.double
      BY <1>4, NoteIs
    <3> QED BY <1>1, <3>1
  <2>2. st.p.single = p.single /\ st.p.double = p.double
    BY DEF Recalls, Noted
  <2> QED BY <2>1, <2>2
<1>6. x.out.commit # <<>> => ~x.p.digit
  <2>1. CASE t = <<>>
    <3>1. x.p = st.p
      BY <1>1, <1>2, <1>4, <2>1, NoteIs
    <3>2. c \o t = c
      BY <2>1, UndecidedIs, ConcatText
    <3> QED BY <1>2, <1>3, <3>1, <3>2 DEF Recalls, Noted
  <2>2. CASE t # <<>>
    BY <1>1, <1>2, <1>4, <2>2, NoteUndecided
  <2> QED BY <2>1, <2>2
<1>7. Noted(x, p)
  BY <1>3, <1>5, <1>6 DEF Noted
<1>8. Wording(x)
  BY <1>1, UndecidedIs DEF Recalls, Wording
<1> QED BY <1>1, <1>2, <1>3, <1>7, <1>8 DEF x, Recalls

LEMMA FinishRecalls ==
  ASSUME Renders, Unmarked, NEW st, Current(st), st.input # <<>> => Answers(st),
         NEW p, Recalls(st, p)
  PROVE  /\ Recalls(FinishComposition(st), p)
         /\ FinishComposition(st).out = st.out
<1>1. CASE st.input = <<>>
  BY <1>1 DEF FinishComposition
<1>2. CASE st.input # <<>>
  <2> DEFINE taken == IF Hovering(st) THEN TakeHovered(st) ELSE st
             ended == PyzyCommit(taken)
             x == [ended EXCEPT !.p = NoteCommit(@, ended.told)]
  <2>1. Current(taken) /\ Recalls(taken, p) /\ taken.out = st.out
    <3>1. CASE Hovering(st)
      <4>1. st.model.cursor \in Nat /\ st.model.cursor < Len(Offered(st)) /\ Going(st)
        BY <1>2, <3>1, HoveredIsOffered, RendersConverts DEF Current, Going
      <4>2. TakeHovered(st) = PyzySelect(st, st.model.cursor)
        BY DEF TakeHovered
      <4>3. /\ Recalls(TakeHovered(st), p) /\ TakeHovered(st).out = st.out
            /\ Current(TakeHovered(st))
        BY <4>1, <4>2, SelectRecalls, SelectGoes, RendersConverts
      <4> QED BY <3>1, <4>3
    <3>2. CASE ~Hovering(st)
      BY <3>2
    <3> QED BY <3>1, <3>2
  <2>2. FinishComposition(st) = x
    BY <1>2 DEF FinishComposition
  <2> HIDE DEF taken
  <2>3. Current(ended) /\ Recalls(ended, p) /\ ended.out = st.out
    BY <2>1, CommitGoes, CommitRecalls DEF Current
  <2> HIDE DEF ended
  <2>4. /\ x.type = ended.type /\ x.input = ended.input /\ x.selected = ended.selected
        /\ x.told = ended.told /\ x.out = ended.out
        /\ x.p = NoteCommit(ended.p, ended.told)
    BY <2>3 DEF Current, Going, CallFields
  <2> HIDE DEF x
  <2>5. Wording(x)
    BY <2>3, <2>4 DEF Recalls, Wording
  <2>6. Noted(x, p)
    <3>1. ended.p \in Memory /\ ended.told \in Undecided
      BY <2>3 DEF Recalls, Wording, Noted
    <3>2. x.p.digit => ended.p.digit
      BY <2>4, <3>1, NoteIs, NoteUndecided
    <3>3. x.p \in Memory /\ x.p.single = ended.p.single /\ x.p.double = ended.p.double
      <4>1. \A text : /\ NoteCommit(ended.p, text) \in Memory
                      /\ NoteCommit(ended.p, text).single = ended.p.single
                      /\ NoteCommit(ended.p, text).double = ended.p.double
        BY <3>1, NoteIs
      <4> QED BY <2>4, <4>1
    <3> QED BY <2>3, <2>4, <3>2, <3>3 DEF Recalls, Noted
  <2> QED BY <2>2, <2>3, <2>4, <2>5, <2>6 DEF Recalls
<1> QED BY <1>1, <1>2

LEMMA CommitPreeditRecalls ==
  ASSUME Renders, Unmarked, NEW st, Going(st), Rendered(st), Shows(st),
         NEW p, Recalls(st, p)
  PROVE  Recalls(CommitPreedit(st), p) /\ CommitPreedit(st).out \in Plainly
<1> DEFINE r == PyzyReset(st)
           text == st.model.settled \o Unseparated(st.model.active)
           x == CommitPreedit(st)
<1>1. /\ Going(r) /\ Recalls(r, p) /\ r.out = st.out /\ r.out \in Plainly
  BY PyzyResetGoes, ResetRecalls DEF Current, Rendered
<1>2. /\ x.type = r.type /\ x.input = r.input /\ x.selected = r.selected
      /\ x.told = r.told /\ x.p = NoteCommit(r.p, text)
      /\ x.out = [r.out EXCEPT !.commit = @ \o text]
  BY <1>1 DEF CommitPreedit, Going, CallFields
<1>3. text \in Undecided
  <2>1. st.model.settled \in Undecided
    BY DEF Shows, Recalls, Wording
  <2>2. st.model.active \in Undecided
    <3>1. st.type \in Types /\ Rest(st) \in Seq(Typed(st.type))
      BY RestTyped DEF Going, Recalls
    <3> QED BY <3>1 DEF Shows, Unmarked
  <2> QED BY <2>1, <2>2, UnseparatedUndecided, UndecidedIs
<1> HIDE DEF r, x, text
<1>4. PICK c \in Undecided : c = r.out.commit
  BY <1>1 DEF Recalls, Noted
<1>5. x.out.commit = c \o text /\ c \o text \in Undecided /\ x.out \in Plainly
  <2>1. x.out.commit = c \o text /\ c \o text \in Undecided
    BY <1>1, <1>2, <1>3, <1>4, UndecidedIs DEF Plainly
  <2>2. c \o text \in Text
    BY <2>1, UndecidedIs
  <2> QED BY <1>1, <1>2, <1>4, <2>1, <2>2 DEF Plainly
<1>6. r.p \in Memory
  BY <1>1 DEF Recalls, Noted
<1>7. x.p \in Memory /\ x.p.single = p.single /\ x.p.double = p.double
  <2>1. x.p \in Memory /\ x.p.single = r.p.single /\ x.p.double = r.p.double
    <3>1. \A t : /\ NoteCommit(r.p, t) \in Memory
                 /\ NoteCommit(r.p, t).single = r.p.single
                 /\ NoteCommit(r.p, t).double = r.p.double
      BY <1>6, NoteIs
    <3> QED BY <1>2, <3>1
  <2>2. r.p.single = p.single /\ r.p.double = p.double
    BY <1>1 DEF Recalls, Noted
  <2> QED BY <2>1, <2>2
<1>8. x.out.commit # <<>> => ~x.p.digit
  <2>1. CASE text = <<>>
    <3>1. x.p = r.p
      BY <1>2, <1>6, <2>1, NoteIs
    <3>2. c \o text = c
      BY <2>1, UndecidedIs, ConcatText
    <3> QED BY <1>1, <1>4, <1>5, <3>1, <3>2 DEF Recalls, Noted
  <2>2. CASE text # <<>>
    BY <1>2, <1>3, <1>6, <2>2, NoteUndecided
  <2> QED BY <2>1, <2>2
<1>9. Noted(x, p)
  BY <1>5, <1>7, <1>8 DEF Noted
<1>10. Wording(x)
  BY <1>1, <1>2 DEF Recalls, Wording
<1> QED BY <1>5, <1>9, <1>10 DEF x, Recalls

-------------------------------------------------------------------------------
(* What is read off a text.                                                *)

LEMMA QuoteNone ==
  ASSUME NEW text, NEW open, NEW close, NEW remembered,
         \A i \in DOMAIN text : text[i] \notin {open, close}
  PROVE  QuoteOpens(text, open, close, remembered) = remembered
<1>1. {i \in DOMAIN text : text[i] \in {open, close}} = {}
  OBVIOUS
<1> QED BY <1>1 DEF QuoteOpens

\* The last of a text is what the next mark goes by.
LEMMA QuoteLast ==
  ASSUME NEW text \in Text, NEW s \in Scalar, NEW open, NEW close, NEW remembered,
         s \in {open, close}
  PROVE  QuoteOpens(text \o <<s>>, open, close, remembered) = (s = close)
<1> DEFINE t == text \o <<s>>
           n == Len(text) + 1
           at == {i \in DOMAIN t : t[i] \in {open, close}}
<1>1. /\ t \in Text /\ Len(t) = n /\ n \in Nat /\ DOMAIN t = 1..n /\ t[n] = s
  <2>1. <<s>> \in Seq(Scalar) /\ Len(<<s>>) = 1 /\ <<s>>[1] = s
    OBVIOUS
  <2>2. Len(text) \in Nat /\ text \in Seq(Scalar)
    BY DEF Text
  <2>3. /\ t \in Seq(Scalar) /\ Len(t) = Len(text) + Len(<<s>>)
        /\ \A i \in 1..(Len(text) + Len(<<s>>)) :
             t[i] = IF i <= Len(text) THEN text[i] ELSE <<s>>[i - Len(text)]
    BY <2>1, <2>2, ConcatProperties
  <2> HIDE DEF t
  <2>4. n \in 1..(Len(text) + Len(<<s>>)) /\ ~(n <= Len(text)) /\ n - Len(text) = 1
    BY <2>1, <2>2
  <2>5. t[n] = s
    BY <2>1, <2>3, <2>4
  <2> QED BY <2>1, <2>2, <2>3, <2>5 DEF Text
<1> HIDE DEF t
<1>2. n \in at /\ at \subseteq 1..n
  BY <1>1
<1>3. Max(at) = n
  <2> HIDE DEF at
  <2>1. \A y \in at : n >= y
    BY <1>1, <1>2
  <2>2. \A x \in at : (\A y \in at : x >= y) => x = n
    BY <1>1, <1>2
  <2> QED BY <1>2, <2>1, <2>2 DEF Max
<1>4. QuoteOpens(t, open, close, remembered) = (t[Max(at)] = close)
  BY <1>2 DEF QuoteOpens
<1> QED BY <1>1, <1>3, <1>4 DEF t

\* One scalar after a text that says nothing: it is the last, and decides.
LEMMA OneMore ==
  ASSUME NEW u \in Undecided, NEW s \in Scalar
  PROVE  /\ u \o <<s>> # <<>> /\ EndsInDigit(u \o <<s>>) <=> s \in Digits
         /\ \A i \in DOMAIN (u \o <<s>>) :
              (u \o <<s>>)[i] = s \/ (u \o <<s>>)[i] \notin Decisive
<1> DEFINE t == u \o <<s>>
<1>1. u \in Seq(Scalar) /\ Len(u) \in Nat /\ \A i \in 1..Len(u) : u[i] \notin Decisive
  BY UndecidedIs DEF Text
<1>2. <<s>> \in Seq(Scalar) /\ Len(<<s>>) = 1 /\ <<s>>[1] = s
  OBVIOUS
<1>3. /\ t \in Seq(Scalar) /\ Len(t) = Len(u) + 1
      /\ \A i \in 1..(Len(u) + 1) :
           t[i] = IF i <= Len(u) THEN u[i] ELSE <<s>>[i - Len(u)]
  BY <1>1, <1>2, ConcatProperties
<1> HIDE DEF t
<1>4. DOMAIN t = 1..(Len(u) + 1)
  BY <1>1, <1>3
<1>5. t[Len(u) + 1] = s
  BY <1>1, <1>2, <1>3
<1>6. \A i \in DOMAIN t : t[i] = s \/ t[i] \notin Decisive
  <2> SUFFICES ASSUME NEW i \in 1..(Len(u) + 1) PROVE t[i] = s \/ t[i] \notin Decisive
    BY <1>4
  <2>1. CASE i <= Len(u)
    <3>1. i \in 1..Len(u) /\ t[i] = u[i]
      BY <1>1, <1>3, <2>1
    <3> QED BY <1>1, <3>1
  <2>2. CASE ~(i <= Len(u))
    <3>1. i = Len(u) + 1
      BY <1>1, <2>2
    <3> QED BY <1>5, <3>1
  <2> QED BY <2>1, <2>2
<1>7. t # <<>>
  <2>1. Len(t) # 0
    BY <1>1, <1>3
  <2> QED BY <2>1
<1>8. Last(t) = s
  BY <1>3, <1>5 DEF Last
<1>9. EndsInDigit(t) <=> s \in Digits
  BY <1>7, <1>8 DEF EndsInDigit
<1> QED BY <1>6, <1>7, <1>9 DEF t

LEMMA MarksApart ==
  /\ Digits \subseteq Scalar
  /\ {openSingle, closeSingle, openDouble, closeDouble} \subseteq Scalar \ Digits
  /\ openSingle # closeSingle /\ openDouble # closeDouble
  /\ {openSingle, closeSingle} \cap {openDouble, closeDouble} = {}
  /\ Decisive = Digits \cup {openSingle, closeSingle, openDouble, closeDouble}
BY PunctuationAssumption DEF Decisive

\* One key's text, and what it leaves remembered.
LEMMA EmitIs ==
  ASSUME NEW key \in Keys, NEW w \in Options, NEW p \in Memory
  PROVE  \/ /\ EmitText(key, w, p) = <<IF p.single THEN openSingle ELSE closeSingle>>
            /\ EmitState(key, w, p) = [p EXCEPT !.single = ~@]
         \/ /\ EmitText(key, w, p) = <<IF p.double THEN openDouble ELSE closeDouble>>
            /\ EmitState(key, w, p) = [p EXCEPT !.double = ~@]
         \/ /\ EmitState(key, w, p) = p
            /\ \/ EmitText(key, w, p) \in Undecided
               \/ \E s \in Digits : EmitText(key, w, p) = <<s>>
<1> DEFINE text == EmitText(key, w, p)
           e == EmitState(key, w, p)
<1>1. key \in Emittable /\ w.latin \in Width /\ w.punctuation \in Width
      /\ w.simplified \in BOOLEAN /\ Width = {"half", "full"}
  BY PyzyAssumption DEF Options, Width
<1>2. /\ single \notin Latin /\ double \notin Latin /\ single # double
      /\ stop \notin {single, double} /\ Digits \subseteq Latin
      /\ stop \in Emittable \ Latin
  BY PunctuationAssumption
<1>3. \A s \in Scalar \ Decisive : <<s>> \in Undecided
  BY DEF Undecided
<1>4. \A s \in Emittable : s \in Digits \/ s \in Scalar \ Decisive
  BY PunctuationAssumption DEF Decisive
<1>5. /\ FullWidth[key] \in Scalar \ Decisive /\ fullStop \in Scalar \ Decisive
      /\ stop \in Scalar \ Decisive
  BY <1>1, <1>2, <1>4, PunctuationAssumption
<1>6. \A k \in DOMAIN Marks(w.simplified) : Marks(w.simplified)[k] \in Undecided
  <2> SUFFICES ASSUME NEW k \in DOMAIN Marks(w.simplified)
               PROVE  Marks(w.simplified)[k] \in Undecided
    OBVIOUS
  <2> DEFINE m == Marks(w.simplified)[k]
             U == Scalar \ Decisive
  <2>1. m \in Seq(Scalar) /\ \A i \in DOMAIN m : m[i] \notin Decisive
    BY <1>1, PunctuationAssumption DEF Text
  <2> HIDE DEF m
  <2>2. Len(m) \in Nat /\ DOMAIN m = 1..Len(m) /\ m \in [1..Len(m) -> Scalar]
    BY <2>1, LenProperties
  <2>3. \A i \in 1..Len(m) : m[i] \in U
    BY <2>1, <2>2
  <2> HIDE DEF U
  <2>4. m \in [1..Len(m) -> U]
    BY <2>2, <2>3
  <2>5. m \in Seq(U)
    BY <2>2, <2>4, IsASeq
  <2> QED BY <2>5 DEF Undecided, m, U
<1>7. CASE w.punctuation = "full" /\ key = single
  <2>1. text = <<IF p.single THEN openSingle ELSE closeSingle>>
    BY <1>1, <1>2, <1>7 DEF EmitText
  <2>2. e = [p EXCEPT !.single = ~@]
    BY <1>2, <1>7 DEF EmitState
  <2> QED BY <2>1, <2>2
<1>8. CASE w.punctuation = "full" /\ key = double
  <2>1. text = <<IF p.double THEN openDouble ELSE closeDouble>>
    BY <1>1, <1>2, <1>8 DEF EmitText
  <2>2. e = [p EXCEPT !.double = ~@]
    BY <1>2, <1>8 DEF EmitState
  <2> QED BY <2>1, <2>2
<1>9. CASE ~(w.punctuation = "full" /\ key \in {single, double})
  <2>1. e = p
    BY <1>9 DEF EmitState
  <2>2. \/ text \in {<<key>>, <<FullWidth[key]>>, <<stop>>, <<fullStop>>}
        \/ \E k \in DOMAIN Marks(w.simplified) : text = Marks(w.simplified)[k]
    BY <1>1, <1>2, <1>9 DEF EmitText
  <2> HIDE DEF text, e
  <2>3. text \in Undecided \/ text = <<key>>
    BY <1>3, <1>5, <1>6, <2>2
  <2>4. text \in Undecided \/ \E s \in Digits : text = <<s>>
    BY <1>1, <1>3, <1>4, <2>3
  <2> QED BY <2>1, <2>4 DEF text, e
<1> QED BY <1>7, <1>8, <1>9

\* After one key's text, what was undecided before it says nothing.
LEMMA EmitRemembers ==
  ASSUME NEW u \in Undecided, NEW key \in Keys, NEW w \in Options, NEW p \in Memory,
         NEW q \in Memory, q.single = EmitState(key, w, p).single,
         q.double = EmitState(key, w, p).double, u # <<>> => ~q.digit,
         NEW text, text = EmitText(key, w, p), u \o text # <<>>,
         NEW z, z = NoteCommit(q, text)
  PROVE  /\ z.digit <=> EndsInDigit(u \o text)
         /\ z.single = QuoteOpens(u \o text, openSingle, closeSingle, p.single)
         /\ z.double = QuoteOpens(u \o text, openDouble, closeDouble, p.double)
<1> DEFINE t == u \o text
           one == QuoteOpens(t, openSingle, closeSingle, p.single)
           two == QuoteOpens(t, openDouble, closeDouble, p.double)
           e == EmitState(key, w, p)
<1>1. /\ z \in Memory /\ z.single = e.single /\ z.double = e.double
      /\ text = <<>> => z = q
      /\ text # <<>> => (z.digit <=> Len(text) = 1 /\ text[1] \in Digits)
  BY NoteIs
<1>2. p.single \in BOOLEAN /\ p.double \in BOOLEAN
  BY DEF Memory
<1>3. ASSUME NEW s \in Scalar, text = <<s>>
      PROVE  /\ z.digit <=> EndsInDigit(t)
             /\ s \in {openSingle, closeSingle} => one = (s = closeSingle)
             /\ s \in {openDouble, closeDouble} => two = (s = closeDouble)
             /\ s \notin {openSingle, closeSingle} => one = p.single
             /\ s \notin {openDouble, closeDouble} => two = p.double
  <2>1. EndsInDigit(t) <=> s \in Digits
    BY <1>3, OneMore
  <2>2. Len(text) = 1 /\ text[1] = s /\ text # <<>>
    BY <1>3
  <2>3. u \in Text
    BY UndecidedIs
  <2>4. \A i \in DOMAIN t : t[i] = s \/ t[i] \notin Decisive
    BY <1>3, OneMore
  <2>5. s \notin {openSingle, closeSingle} =>
          \A i \in DOMAIN t : t[i] \notin {openSingle, closeSingle}
    BY <2>4, MarksApart
  <2>6. s \notin {openDouble, closeDouble} =>
          \A i \in DOMAIN t : t[i] \notin {openDouble, closeDouble}
    BY <2>4, MarksApart
  <2>7. s \in {openSingle, closeSingle} => one = (s = closeSingle)
    BY <1>3, <2>3, QuoteLast
  <2>8. s \in {openDouble, closeDouble} => two = (s = closeDouble)
    BY <1>3, <2>3, QuoteLast
  <2> HIDE DEF t
  <2>9. s \notin {openSingle, closeSingle} => one = p.single
    BY <2>5, QuoteNone
  <2>10. s \notin {openDouble, closeDouble} => two = p.double
    BY <2>6, QuoteNone
  <2>11. z.digit <=> EndsInDigit(t)
    BY <1>1, <2>1, <2>2
  <2> QED BY <2>7, <2>8, <2>9, <2>10, <2>11
<1>4. CASE /\ text = <<IF p.single THEN openSingle ELSE closeSingle>>
           /\ e = [p EXCEPT !.single = ~@]
  <2> DEFINE s == IF p.single THEN openSingle ELSE closeSingle
  <2>1. /\ s \in Scalar /\ s \in {openSingle, closeSingle}
        /\ s \notin {openDouble, closeDouble} /\ (s = closeSingle <=> ~p.single)
    BY <1>2, MarksApart
  <2>2. e.single = ~p.single /\ e.double = p.double
    BY <1>4 DEF Memory
  <2>3. text = <<s>>
    BY <1>4
  <2> HIDE DEF s, e, one, two, t
  <2>4. (z.digit <=> EndsInDigit(t)) /\ one = (s = closeSingle) /\ two = p.double
    BY <1>3, <2>1, <2>3
  <2>5. one = ~p.single
    BY <1>2, <2>1, <2>4
  <2>6. z.single = one /\ z.double = two
    BY <1>1, <2>2, <2>4, <2>5
  <2> QED BY <2>4, <2>6 DEF one, two, t
<1>5. CASE /\ text = <<IF p.double THEN openDouble ELSE closeDouble>>
           /\ e = [p EXCEPT !.double = ~@]
  <2> DEFINE s == IF p.double THEN openDouble ELSE closeDouble
  <2>1. /\ s \in Scalar /\ s \in {openDouble, closeDouble}
        /\ s \notin {openSingle, closeSingle} /\ (s = closeDouble <=> ~p.double)
    BY <1>2, MarksApart
  <2>2. e.double = ~p.double /\ e.single = p.single
    BY <1>5 DEF Memory
  <2>3. text = <<s>>
    BY <1>5
  <2> HIDE DEF s, e, one, two, t
  <2>4. (z.digit <=> EndsInDigit(t)) /\ two = (s = closeDouble) /\ one = p.single
    BY <1>3, <2>1, <2>3
  <2>5. two = ~p.double
    BY <1>2, <2>1, <2>4
  <2>6. z.single = one /\ z.double = two
    BY <1>1, <2>2, <2>4, <2>5
  <2> QED BY <2>4, <2>6 DEF one, two, t
<1>6. CASE e = p /\ text \in Undecided
  <2>1. t \in Undecided
    BY <1>6, UndecidedIs
  <2>2. \A i \in DOMAIN t : t[i] \notin Decisive
    <3> HIDE DEF t
    <3> QED BY <2>1, UndecidedIs
  <2>3. one = p.single
    <3>1. \A i \in DOMAIN t : t[i] \notin {openSingle, closeSingle}
      BY <2>2, MarksApart
    <3> HIDE DEF t
    <3> QED BY <3>1, QuoteNone
  <2>4. two = p.double
    <3>1. \A i \in DOMAIN t : t[i] \notin {openDouble, closeDouble}
      BY <2>2, MarksApart
    <3> HIDE DEF t
    <3> QED BY <3>1, QuoteNone
  <2>5. ~EndsInDigit(t)
    <3>1. t # <<>>
      OBVIOUS
    <3> HIDE DEF t
    <3> QED BY <2>1, <3>1, UndecidedIs
  <2>6. ~z.digit
    <3>1. CASE text = <<>>
      <4>1. u # <<>>
        BY <1>6, <3>1, UndecidedIs, ConcatText
      <4> QED BY <1>1, <3>1, <4>1
    <3>2. CASE text # <<>>
      BY <1>6, <3>2, NoteUndecided
    <3> QED BY <3>1, <3>2
  <2> HIDE DEF t, one, two, e
  <2> QED BY <1>1, <1>6, <2>3, <2>4, <2>5, <2>6 DEF one, two, t
<1>7. CASE e = p /\ \E s \in Digits : text = <<s>>
  <2>1. PICK s \in Digits : text = <<s>>
    BY <1>7
  <2>2. s \in Scalar /\ s \notin {openSingle, closeSingle}
        /\ s \notin {openDouble, closeDouble}
    BY MarksApart
  <2> HIDE DEF t, one, two, e
  <2>3. (z.digit <=> EndsInDigit(t)) /\ one = p.single /\ two = p.double
    BY <1>3, <2>1, <2>2
  <2> QED BY <1>1, <1>7, <2>3 DEF one, two, t
<1>8. \/ /\ text = <<IF p.single THEN openSingle ELSE closeSingle>>
         /\ e = [p EXCEPT !.single = ~@]
      \/ /\ text = <<IF p.double THEN openDouble ELSE closeDouble>>
         /\ e = [p EXCEPT !.double = ~@]
      \/ e = p /\ (text \in Undecided \/ \E s \in Digits : text = <<s>>)
  BY EmitIs
<1> QED BY <1>4, <1>5, <1>6, <1>7, <1>8

\* What the snapshot makes of what is remembered.
LEMMA ObserveMemory ==
  ASSUME NEW p \in Memory
  PROVE  LET visible == BeforeCursor(snapshot)
             o == ObserveDocument(visible, p)
         IN /\ o \in Memory
            /\ o.single \in {p.single, QuoteOpens(visible, openSingle, closeSingle, p.single)}
            /\ o.double \in {p.double, QuoteOpens(visible, openDouble, closeDouble, p.double)}
<1> DEFINE visible == BeforeCursor(snapshot)
           o == ObserveDocument(visible, p)
           one == QuoteOpens(visible, openSingle, closeSingle, p.single)
           two == QuoteOpens(visible, openDouble, closeDouble, p.double)
           digit == Last(visible) \in Digits
<1>1. o = p \/ o = [single |-> one, double |-> two, digit |-> digit]
  BY DEF ObserveDocument
<1>2. p.single \in BOOLEAN /\ p.double \in BOOLEAN
  BY DEF Memory
<1>3. one \in BOOLEAN
  BY <1>2 DEF QuoteOpens
<1>4. two \in BOOLEAN
  BY <1>2 DEF QuoteOpens
<1>5. digit \in BOOLEAN
  OBVIOUS
<1> HIDE DEF o, one, two, digit
<1>6. o \in Memory /\ o.single \in {p.single, one} /\ o.double \in {p.double, two}
  BY <1>1, <1>3, <1>4, <1>5 DEF Memory
<1> QED BY <1>6 DEF o, one, two

\* With nothing to settle, what was remembered holds of what is delivered.
LEMMA NotedIsRecalled ==
  ASSUME NEW st, Noted(st, punctuation)
  PROVE  Recalled(st)
<1> DEFINE text == st.out.commit
<1>1. /\ st.p \in Memory /\ text \in Undecided
      /\ st.p.single = punctuation.single /\ st.p.double = punctuation.double
      /\ text # <<>> => ~st.p.digit
  BY DEF Noted
<1>2. Recalled(st) <=>
        /\ st.p \in Memory
        /\ text # <<>> =>
             /\ st.p.digit <=> EndsInDigit(text)
             /\ st.p.single \in MayRemember(text, openSingle, closeSingle, punctuation.single)
             /\ st.p.double \in MayRemember(text, openDouble, closeDouble, punctuation.double)
  BY DEF Recalled
<1> HIDE DEF text
<1>3. /\ \A i \in DOMAIN text : text[i] \notin Decisive
      /\ text # <<>> => ~EndsInDigit(text)
  BY <1>1, UndecidedIs
<1>4. st.p.single \in MayRemember(text, openSingle, closeSingle, punctuation.single)
  <2>1. \A i \in DOMAIN text : text[i] \notin {openSingle, closeSingle}
    BY <1>3, MarksApart
  <2>2. QuoteOpens(text, openSingle, closeSingle, punctuation.single)
          = punctuation.single
    BY <2>1, QuoteNone
  <2> QED BY <1>1, <2>2 DEF MayRemember
<1>5. st.p.double \in MayRemember(text, openDouble, closeDouble, punctuation.double)
  <2>1. \A i \in DOMAIN text : text[i] \notin {openDouble, closeDouble}
    BY <1>3, MarksApart
  <2>2. QuoteOpens(text, openDouble, closeDouble, punctuation.double)
          = punctuation.double
    BY <2>1, QuoteNone
  <2> QED BY <1>1, <2>2 DEF MayRemember
<1> QED BY <1>1, <1>2, <1>3, <1>4, <1>5

LEMMA EmitRecalled ==
  ASSUME Renders, Unmarked, NEW st, Current(st), st.input # <<>> => Answers(st),
         Rendered(st), Recalls(st, punctuation), st.p = punctuation,
         st.told = <<>>, st.out.commit = <<>>, NEW key \in Keys
  PROVE  Recalled(Emit(st, key)) /\ Wording(Emit(st, key))
<1> DEFINE visible == BeforeCursor(snapshot)
           o == ObserveDocument(visible, st.p)
           observed == [st EXCEPT !.p = ObserveDocument(BeforeCursor(snapshot), @)]
           ended == FinishComposition(observed)
           text == EmitText(key, st.options, ended.p)
           e == EmitState(key, st.options, ended.p)
           noted == [ended EXCEPT !.p = EmitState(key, st.options, @)]
           left == Harvest(noted)
           x == [left EXCEPT !.out.commit = @ \o text, !.p = NoteCommit(@, text)]
<1>1. Emit(st, key) = x
  BY DEF Emit
<1>2. /\ o \in Memory
      /\ o.single \in {punctuation.single,
                       QuoteOpens(visible, openSingle, closeSingle, punctuation.single)}
      /\ o.double \in {punctuation.double,
                       QuoteOpens(visible, openDouble, closeDouble, punctuation.double)}
  <2>1. punctuation \in Memory
    BY DEF Recalls, Noted
  <2> QED BY <2>1, ObserveMemory
<1>3. /\ DOMAIN observed = CallFields /\ observed.model = st.model
      /\ observed.type = st.type /\ observed.input = st.input
      /\ observed.used = st.used /\ observed.options = st.options
      /\ observed.raised = st.raised /\ observed.selected = st.selected
      /\ observed.told = st.told /\ observed.out = st.out /\ observed.p = o
  BY DEF Current, Going, CallFields
<1> HIDE DEF observed, o, visible
<1>4. /\ Current(observed) /\ (observed.input # <<>> => Answers(observed))
      /\ Rendered(observed) /\ Recalls(observed, o)
  <2>1. Rendered(observed)
    BY <1>3, TextFields DEF Rendered
  <2>2. Wording(observed)
    BY <1>3 DEF Recalls, Wording
  <2>3. Noted(observed, o)
    BY <1>2, <1>3, UndecidedIs DEF Noted
  <2> QED BY <1>3, <2>1, <2>2, <2>3, OtherFields DEF Current, Recalls
<1>5. /\ Current(ended) /\ Rendered(ended) /\ Recalls(ended, o)
      /\ ended.options = st.options /\ ended.out = observed.out
  BY <1>3, <1>4, FinishGoes, FinishText, FinishRecalls, RendersConverts DEF Carries
<1> HIDE DEF ended
<1>6. /\ DOMAIN noted = CallFields /\ noted.model = ended.model
      /\ noted.type = ended.type /\ noted.input = ended.input
      /\ noted.used = ended.used /\ noted.options = ended.options
      /\ noted.raised = ended.raised /\ noted.selected = ended.selected
      /\ noted.told = ended.told /\ noted.out = ended.out /\ noted.p = e
  BY <1>5 DEF Current, Going, CallFields
<1> HIDE DEF noted
<1>7. /\ ended.p \in Memory /\ ended.p.single = o.single /\ ended.p.double = o.double
      /\ ended.out.commit = <<>>
  BY <1>3, <1>5 DEF Recalls, Noted
<1>8. e \in Memory
  <2>1. st.options \in Options
    BY DEF Current, Going
  <2>2. \/ e = [ended.p EXCEPT !.single = ~@]
        \/ e = [ended.p EXCEPT !.double = ~@]
        \/ e = ended.p
    BY <1>7, <2>1, EmitIs
  <2> HIDE DEF e
  <2> QED BY <1>7, <2>2 DEF Memory
<1> HIDE DEF e
<1>9. /\ Current(noted) /\ Going(noted) /\ Rendered(noted) /\ Recalls(noted, e)
      /\ noted.out \in Plainly
  <2>1. Rendered(noted)
    BY <1>5, <1>6, TextFields DEF Rendered
  <2>2. Wording(noted)
    BY <1>5, <1>6 DEF Recalls, Wording
  <2>3. Noted(noted, e)
    BY <1>6, <1>7, <1>8, UndecidedIs DEF Noted
  <2>4. Current(noted)
    BY <1>5, <1>6, OtherFields DEF Current
  <2> QED BY <2>1, <2>2, <2>3, <2>4 DEF Recalls, Current, Rendered
<1>10. /\ Recalls(left, e) /\ left.told = <<>> /\ Going(left)
  BY <1>9, HarvestRecalls, HarvestGoes
<1>11. left.out \in Plainly
  BY <1>9, HarvestText DEF Carries, Rendered
<1> HIDE DEF left, text
<1>12. /\ x.type = left.type /\ x.input = left.input /\ x.selected = left.selected
       /\ x.told = left.told /\ x.p = NoteCommit(left.p, text)
       /\ x.out = [left.out EXCEPT !.commit = @ \o text]
  BY <1>10 DEF Going, CallFields
<1> HIDE DEF x
<1>13. Wording(x)
  BY <1>10, <1>12 DEF Recalls, Wording
<1>14. x.out.commit = left.out.commit \o text
  BY <1>11, <1>12 DEF Plainly
<1>15. PICK u \in Undecided : u = left.out.commit
  BY <1>10 DEF Recalls, Noted
<1>16. /\ left.p \in Memory /\ left.p.single = e.single /\ left.p.double = e.double
       /\ u # <<>> => ~left.p.digit
  BY <1>10, <1>15 DEF Recalls, Noted
<1>17. x.p \in Memory
  BY <1>12, <1>16, NoteIs
<1>18. ASSUME u \o text # <<>>
       PROVE  /\ x.p.digit <=> EndsInDigit(u \o text)
              /\ x.p.single = QuoteOpens(u \o text, openSingle, closeSingle, ended.p.single)
              /\ x.p.double = QuoteOpens(u \o text, openDouble, closeDouble, ended.p.double)
  <2>1. st.options \in Options
    BY DEF Current, Going
  <2>2. text = EmitText(key, st.options, ended.p)
    BY DEF text
  <2>3. e = EmitState(key, st.options, ended.p)
    BY DEF e
  <2> QED BY <1>7, <1>12, <1>16, <1>18, <2>1, <2>2, <2>3, EmitRemembers
<1>19. Recalled(x)
  <2>1. x.out.commit = u \o text
    BY <1>14, <1>15
  <2>2. ASSUME u \o text # <<>>
        PROVE  /\ x.p.single \in MayRemember(u \o text, openSingle, closeSingle,
                                             punctuation.single)
               /\ x.p.double \in MayRemember(u \o text, openDouble, closeDouble,
                                             punctuation.double)
    BY <1>2, <1>7, <1>18, <2>2 DEF MayRemember, visible
  <2> QED BY <1>17, <1>18, <2>1, <2>2 DEF Recalled
<1> QED BY <1>1, <1>13, <1>19

-------------------------------------------------------------------------------
(* Entering and leaving a call: what is remembered.                        *)

\* What the client was told to insert.
Inserted == [c \in Call |-> IF c.cb = "commit" THEN c.text ELSE <<>>]

LEMMA DeliveredIs ==
  ASSUME NEW cs \in Seq(Call)
  PROVE  Delivered(cs) = Joined(Inserted, cs)
<1> DEFINE a == [i \in DOMAIN cs |-> IF cs[i].cb = "commit" THEN cs[i].text ELSE <<>>]
           b == [i \in DOMAIN cs |-> Inserted[cs[i]]]
<1>1. \A i \in DOMAIN cs : cs[i] \in Call
  OBVIOUS
<1>2. a = b
  BY <1>1 DEF Inserted
<1>3. Delivered(cs) = FlattenSeq(a) /\ Joined(Inserted, cs) = FlattenSeq(b)
  BY DEF Delivered, Joined
<1> HIDE DEF a, b
<1> QED BY <1>2, <1>3

\* No call of this adapter deletes, so a call delivers what it commits.
LEMMA LeaveDelivers ==
  ASSUME Renders, TextInv, NEW st, Going(st), Rendered(st), Shows(st),
         NEW force, Leave(st, force)
  PROVE  Delivered(calls') = st.out.commit /\ before' = before \o st.out.commit
<1> DEFINE m == Materialize(st.model, Texts(Offered(st)), st.options.cap)
           out == st.out
           commit == [cb |-> "commit", text |-> out.commit]
           changed == [cb |-> "changed", text |-> Project(m).preedit]
           y == IF out.commit # <<>> THEN <<commit>> ELSE <<>>
           z == IF (force \/ Differs(Project(m))) /\ "changed" \in callbacks
                THEN <<changed>> ELSE <<>>
<1>1. Refresh(m, out, force)
  BY DEF Leave
<1>2. Project(m).preedit \in Text
  <2>1. /\ m.settled = st.model.settled /\ m.active = st.model.active
        /\ m.tail = st.model.tail
    BY DEF Materialize, Going, ModelFields
  <2> HIDE DEF m
  <2>2. st.selected \in Text
    BY CleanIsText DEF Rendered
  <2>3. Spelling(st.type, Rest(st)) \in Text
    BY RestSplits DEF Renders, Rendered, Going
  <2>4. m.settled \in Text /\ m.active \in Text /\ m.tail \in Text
    BY <2>1, <2>2, <2>3, EmptyText DEF Shows
  <2>5. (m.settled \o m.active) \o m.tail \in Text
    BY <2>4, ConcatText
  <2> QED BY <2>5 DEF Project
<1> HIDE DEF m
<1>3. ~Deletes(out) /\ out.commit \in Text
  BY DEF Deletes, Rendered, Plainly
<1> HIDE DEF out
<1>4. calls' = (<<>> \o y) \o z /\ before' = before \o out.commit
  BY <1>1, <1>3 DEF Refresh
<1>5. commit \in Call /\ changed \in Call
  BY <1>2, <1>3 DEF Call
<1>6. Inserted[commit] = out.commit /\ Inserted[changed] = <<>>
  BY <1>5 DEF Inserted
<1>7. Becomes(Inserted, Call, Scalar)
  <2>1. ASSUME NEW c \in Call PROVE Inserted[c] \in Seq(Scalar)
    BY EmptyText DEF Inserted, Call, Text
  <2> QED BY <2>1 DEF Becomes
<1> HIDE DEF commit, changed
<1>8. y \in Seq(Call) /\ z \in Seq(Call)
  BY <1>5
<1>9. Joined(Inserted, y) = out.commit
  BY <1>5, <1>6, <1>7, JoinedOne, JoinedEmpty
<1>10. Joined(Inserted, z) = <<>>
  BY <1>5, <1>6, <1>7, JoinedOne, JoinedEmpty
<1> HIDE DEF y, z
<1>11. calls' = y \o z /\ calls' \in Seq(Call)
  BY <1>4, <1>8, ConcatEmptySeq, ConcatProperties
<1>12. Joined(Inserted, y \o z) = Joined(Inserted, y) \o Joined(Inserted, z)
  BY <1>7, <1>8, JoinedConcat
<1>13. Delivered(calls') = out.commit \o <<>>
  BY <1>9, <1>10, <1>11, <1>12, DeliveredIs
<1>14. Delivered(calls') = out.commit
  BY <1>3, <1>13, ConcatText
<1> QED BY <1>4, <1>14 DEF out

LEMMA EndsLikeLast ==
  ASSUME NEW s \in Text, NEW t \in Text, t # <<>>
  PROVE  EndsInDigit(s \o t) <=> EndsInDigit(t)
<1> DEFINE r == s \o t
<1>1. s \in Seq(Scalar) /\ t \in Seq(Scalar) /\ Len(s) \in Nat /\ Len(t) \in Nat
  BY DEF Text
<1>2. Len(t) >= 1
  BY <1>1, EmptySeq
<1>3. /\ Len(r) = Len(s) + Len(t)
      /\ \A i \in 1..(Len(s) + Len(t)) :
           r[i] = IF i <= Len(s) THEN s[i] ELSE t[i - Len(s)]
  BY <1>1, ConcatProperties
<1> HIDE DEF r
<1>4. r[Len(r)] = t[Len(t)]
  <2>1. /\ Len(r) \in 1..(Len(s) + Len(t)) /\ ~(Len(r) <= Len(s))
        /\ Len(r) - Len(s) = Len(t)
    BY <1>1, <1>2, <1>3
  <2> QED BY <1>3, <2>1
<1>5. r # <<>>
  <2>1. Len(r) # 0
    BY <1>1, <1>2, <1>3
  <2> QED BY <2>1
<1> QED BY <1>4, <1>5 DEF EndsInDigit, Last, r

\* What is to be shown of a step.
Remembered ==
  LET text == Delivered(calls')
  IN text # <<>> =>
       /\ punctuation'.digit <=> EndsInDigit(before')
       /\ punctuation'.single \in
            MayRemember(text, openSingle, closeSingle, punctuation.single)
       /\ punctuation'.double \in
            MayRemember(text, openDouble, closeDouble, punctuation.double)

LEMMA LeaveMemory ==
  ASSUME Renders, MemoryInv, NEW st, Going(st), Rendered(st), Shows(st),
         Recalled(st), Wording(st),
         st.type # WantedType(st.options) => st.p = FreshPunctuation,
         NEW force, Leave(st, force), TextInv'
  PROVE  MemoryInv' /\ Remembered
<1>1. /\ id' = id /\ type' = st.type /\ input' = st.input /\ selected' = st.selected
      /\ punctuation' = st.p /\ options' = st.options
  BY DEF Leave
<1>2. Delivered(calls') = st.out.commit /\ before' = before \o st.out.commit
  BY LeaveDelivers DEF MemoryInv
<1>3. MemoryInv'
  <2>1. WantedType(options)' = WantedType(st.options)
    BY <1>1 DEF WantedType
  <2>2. Typed(type)' = Typed(st.type)
    BY <1>1 DEF Typed
  <2>3. (punctuation \in Memory)' /\ (input \in Seq(Typed(type)))'
        /\ (selected \in Undecided)'
    BY <1>1, <2>2 DEF Recalled, Wording
  <2>4. (type # WantedType(options) => punctuation = FreshPunctuation)'
    BY <1>1, <2>1
  <2> QED BY <2>3, <2>4 DEF MemoryInv
<1>4. before \in Text /\ st.out.commit \in Text
  BY DEF MemoryInv, TextInv, Rendered, Plainly
<1>5. st.out.commit # <<>> => (EndsInDigit(before') <=> EndsInDigit(st.out.commit))
  BY <1>2, <1>4, EndsLikeLast
<1>6. Remembered
  BY <1>1, <1>2, <1>5 DEF Remembered, Recalled
<1> QED BY <1>3, <1>6

LEMMA HarvestMemory ==
  ASSUME Renders, MemoryInv, NEW st, Going(st), Rendered(st), Recalls(st, punctuation),
         st.type # WantedType(st.options) => st.told = <<>> /\ st.p = FreshPunctuation,
         NEW force, Leave(Harvest(st), force), TextInv'
  PROVE  MemoryInv' /\ Remembered
<1> DEFINE x == Harvest(st)
<1>1. Going(x) /\ x.type = st.type /\ x.options = st.options
  BY HarvestGoes
<1>2. Rendered(x) /\ Shows(x)
  BY HarvestText DEF Carries
<1>3. Recalls(x, punctuation) /\ x.p = NoteCommit(st.p, st.told)
  BY HarvestRecalls DEF Rendered
<1>4. st.told = <<>> => x.p = st.p
  <2>1. st.p \in Memory
    BY DEF Recalls, Noted
  <2> HIDE DEF x
  <2> QED BY <1>3, <2>1, NoteIs
<1> HIDE DEF x
<1>5. Leave(x, force)
  BY DEF x
<1>6. Recalled(x) /\ Wording(x)
  BY <1>3, NotedIsRecalled DEF Recalls
<1>7. x.type # WantedType(x.options) => x.p = FreshPunctuation
  BY <1>1, <1>4
<1> QED BY <1>1, <1>2, <1>5, <1>6, <1>7, LeaveMemory

LEMMA EnterMemory ==
  ASSUME MemoryInv, NEW keep
  PROVE  /\ Recalls(Enter(keep), punctuation) /\ Enter(keep).p = punctuation
         /\ Enter(keep).told = <<>> /\ Enter(keep).out.commit = <<>>
         /\ Enter(keep).type = type /\ Enter(keep).options = options
<1> DEFINE x == Enter(keep)
<1>1. /\ x.out = NoOutput /\ x.type = type /\ x.input = input /\ x.selected = selected
      /\ x.p = punctuation /\ x.told = <<>> /\ x.options = options
  BY DEF Enter
<1> HIDE DEF x
<1>2. x.out.commit = <<>>
  BY <1>1 DEF NoOutput
<1>3. Wording(x)
  BY <1>1, UndecidedIs DEF Wording, MemoryInv
<1>4. Noted(x, punctuation)
  BY <1>1, <1>2, UndecidedIs DEF Noted, MemoryInv
<1> QED BY <1>1, <1>2, <1>3, <1>4 DEF Recalls, x

\* Applying the options forgets only what is forgotten already.
LEMMA ApplyMemory ==
  ASSUME NEW st, Going(st), Recalls(st, punctuation), st.p = punctuation,
         st.type # WantedType(st.options) => st.p = FreshPunctuation
  PROVE  /\ Recalls(ApplyOptions(st), punctuation) /\ ApplyOptions(st).p = punctuation
         /\ ApplyOptions(st).told = st.told /\ ApplyOptions(st).out = st.out
<1> DEFINE r == PyzyReset(st)
           t == WantedType(st.options)
           x == [r EXCEPT !.type = t, !.p = FreshPunctuation]
<1>1. ApplyOptions(st) = IF t # st.type THEN x ELSE st
  BY DEF ApplyOptions, Recreate
<1>2. /\ Going(r) /\ Recalls(r, punctuation) /\ r.p = st.p /\ r.told = st.told
      /\ r.out = st.out /\ r.input = <<>>
  BY PyzyResetGoes, ResetRecalls DEF Current
<1> HIDE DEF r
<1>3. /\ x.type = t /\ x.p = FreshPunctuation /\ x.input = r.input
      /\ x.selected = r.selected /\ x.told = r.told /\ x.out = r.out
  BY <1>2 DEF Going, CallFields
<1> HIDE DEF x
<1>4. ASSUME t # st.type PROVE Recalls(x, punctuation) /\ x.p = punctuation
  <2>1. x.p = punctuation
    BY <1>3, <1>4
  <2>2. x.input \in Seq(Typed(x.type))
    BY <1>2, <1>3
  <2>3. x.selected \in Undecided /\ x.told \in Undecided
    BY <1>2, <1>3 DEF Recalls, Wording
  <2>4. x.p = r.p /\ x.out.commit = r.out.commit
    BY <1>2, <1>3, <2>1
  <2> QED BY <1>2, <2>1, <2>2, <2>3, <2>4, RecallFields
<1> QED BY <1>1, <1>2, <1>3, <1>4

LEMMA CallMemory ==
  ASSUME Renders, MemoryInv, NEW st \in Calls
  PROVE  /\ Current(st) /\ Going(st) /\ Rendered(st)
         /\ Recalls(st, punctuation) /\ st.p = punctuation
         /\ st.told = <<>> /\ st.out.commit = <<>>
         /\ st.type = WantedType(st.options)
         /\ st.input # <<>> => Answers(st)
         /\ Composing => Shows(st) /\ Answers(st) /\ st.input = input
<1>1. PICK keep \in BOOLEAN : st = ApplyOptions(Enter(keep))
  BY DEF Calls
<1>2. TextInv /\ PyzyInv
  BY DEF MemoryInv, TextInv
<1>3. Going(Enter(keep))
  BY <1>2, EnterText
<1>4. /\ Recalls(Enter(keep), punctuation) /\ Enter(keep).p = punctuation
      /\ Enter(keep).type = type /\ Enter(keep).options = options
  BY EnterMemory
<1>5. Recalls(st, punctuation) /\ st.p = punctuation
  BY <1>1, <1>3, <1>4, ApplyMemory DEF MemoryInv
<1>6. /\ Current(st) /\ Going(st) /\ Rendered(st)
      /\ st.told = <<>> /\ st.out.commit = <<>>
      /\ Composing => Shows(st) /\ st.input = input
  BY <1>2, CallText DEF Carries
<1>7. /\ st.type = WantedType(st.options)
      /\ st.input # <<>> => Answers(st)
      /\ Composing => Answers(st)
  BY <1>2, CallGoes, RendersConverts
<1> QED BY <1>5, <1>6, <1>7

-------------------------------------------------------------------------------
(* The actions, and what is remembered.                                    *)

LEMMA TypeKeyRemembers ==
  ASSUME Renders, MemoryInv, NEW key \in Keys, TypeKey(key), TextInv'
  PROVE  MemoryInv' /\ Remembered
<1>1. PICK st \in Calls :
        Inserts(st, key) /\ Leave(Harvest(PyzyInsert(st, key)), FALSE)
  BY DEF TypeKey
<1> DEFINE x == PyzyInsert(st, key)
           q == Append(st.input, key)
<1>2. /\ Current(st) /\ Going(st) /\ Rendered(st) /\ Recalls(st, punctuation)
      /\ st.type = WantedType(st.options) /\ st.input \in Seq(Keys)
      /\ st.used \in Nat /\ st.used <= Len(st.input)
  BY <1>1, CallMemory DEF Going, Rendered
<1>3. q \in Seq(Typed(st.type))
  <2>1. key \in Typed(st.type)
    BY <1>1 DEF Inserts, Typed
  <2>2. st.input \in Seq(Typed(st.type))
    BY <1>2 DEF Recalls, Wording
  <2> HIDE DEF q
  <2>3. q = Append(st.input, key)
    BY DEF q
  <2> QED BY <2>1, <2>2, <2>3, AppendProperties
<1>4. /\ q \in Seq(Keys)
      /\ SubSeq(q, 1, st.used) = SubSeq(st.input, 1, st.used)
  BY <1>2, BeginningStays
<1>5. x = IF Len(st.input) < Capacity THEN Edited(st, q) ELSE st
  BY DEF PyzyInsert
<1>6. /\ Going(Edited(st, q)) /\ Rendered(Edited(st, q))
      /\ Recalls(Edited(st, q), punctuation)
      /\ Edited(st, q).type = st.type /\ Edited(st, q).options = st.options
  <2> HIDE DEF q
  <2> QED BY <1>2, <1>3, <1>4, EditedGoes, EditedText, EditedRecalls DEF Current
<1>7. Leave(Harvest(x), FALSE)
  BY <1>1
<1> HIDE DEF x, q
<1>8. /\ Going(x) /\ Rendered(x) /\ Recalls(x, punctuation)
      /\ x.type = WantedType(x.options)
  BY <1>2, <1>5, <1>6
<1> QED BY <1>7, <1>8, HarvestMemory

LEMMA TypeTextRemembers ==
  ASSUME Renders, Unmarked, MemoryInv, NEW key \in Keys, TypeText(key), TextInv'
  PROVE  MemoryInv' /\ Remembered
<1>1. PICK st \in Calls : Leave(Emit(st, key), FALSE)
  BY DEF TypeText
<1> DEFINE x == Emit(st, key)
<1>2. /\ Current(st) /\ Going(st) /\ Rendered(st)
      /\ Recalls(st, punctuation) /\ st.p = punctuation
      /\ st.told = <<>> /\ st.out.commit = <<>>
      /\ st.type = WantedType(st.options) /\ (st.input # <<>> => Answers(st))
  BY <1>1, CallMemory
<1>3. Going(x) /\ x.type = st.type /\ x.options = st.options
  BY <1>2, EmitGoes, RendersConverts
<1>4. Rendered(x) /\ Shows(x)
  BY <1>2, EmitLetters
<1>5. Recalled(x) /\ Wording(x)
  BY <1>2, EmitRecalled
<1>6. Leave(x, FALSE)
  BY <1>1
<1> HIDE DEF x
<1>7. x.type = WantedType(x.options)
  BY <1>2, <1>3
<1> QED BY <1>3, <1>4, <1>5, <1>6, <1>7, LeaveMemory

\* A candidate taken, hovered or named.
LEMMA SelectRemembers ==
  ASSUME Renders, Unmarked, MemoryInv, NEW st \in Calls, NEW k \in Nat,
         k < Len(Offered(st)), Leave(Harvest(PyzySelect(st, k)), FALSE), TextInv'
  PROVE  MemoryInv' /\ Remembered
<1> DEFINE x == PyzySelect(st, k)
<1>1. /\ Going(st) /\ Rendered(st) /\ Recalls(st, punctuation)
      /\ st.type = WantedType(st.options)
  BY CallMemory
<1>2. Going(x) /\ x.type = st.type /\ x.options = st.options
  BY <1>1, SelectGoes, RendersConverts DEF Current
<1>3. Rendered(x)
  BY <1>1, SelectText DEF Carries
<1>4. Recalls(x, punctuation)
  BY <1>1, SelectRecalls
<1>5. Leave(Harvest(x), FALSE)
  OBVIOUS
<1> HIDE DEF x
<1>6. x.type = WantedType(x.options)
  BY <1>1, <1>2
<1> QED BY <1>2, <1>3, <1>4, <1>5, <1>6, HarvestMemory

LEMMA ConvertRemembers ==
  ASSUME Renders, Unmarked, MemoryInv, Convert, TextInv'
  PROVE  MemoryInv' /\ Remembered
<1>1. PICK st \in Calls :
        Leave(Harvest(IF Hovering(st) THEN TakeHovered(st) ELSE PyzyCommit(st)), FALSE)
  BY DEF Convert
<1>2. /\ Current(st) /\ Going(st) /\ Rendered(st) /\ Recalls(st, punctuation)
      /\ st.type = WantedType(st.options) /\ Answers(st)
  BY <1>1, CallMemory DEF Convert
<1>3. CASE Hovering(st)
  <2>1. st.model.cursor \in Nat /\ st.model.cursor < Len(Offered(st))
    BY <1>2, <1>3, HoveredIsOffered, RendersConverts DEF Going
  <2>2. Leave(Harvest(PyzySelect(st, st.model.cursor)), FALSE)
    BY <1>1, <1>3 DEF TakeHovered
  <2> QED BY <1>1, <2>1, <2>2, SelectRemembers
<1>4. CASE ~Hovering(st)
  <2> DEFINE x == PyzyCommit(st)
  <2>1. /\ Going(x) /\ x.type = st.type /\ x.options = st.options
    BY <1>2, CommitGoes DEF Current
  <2>2. Rendered(x)
    BY <1>2, PyzyCommitText DEF Carries
  <2>3. Recalls(x, punctuation)
    BY <1>2, CommitRecalls
  <2>4. Leave(Harvest(x), FALSE)
    BY <1>1, <1>4
  <2> HIDE DEF x
  <2>5. x.type = WantedType(x.options)
    BY <1>2, <2>1
  <2> QED BY <2>1, <2>2, <2>3, <2>4, <2>5, HarvestMemory
<1> QED BY <1>3, <1>4

\* Where the preedit is delivered, whoever asks.
LEMMA PreeditRemembers ==
  ASSUME Renders, Unmarked, MemoryInv, NEW st, Going(st), Rendered(st), Shows(st),
         Recalls(st, punctuation), st.told = <<>>, st.type = WantedType(st.options),
         Leave(Harvest(CommitPreedit(st)), FALSE), TextInv'
  PROVE  MemoryInv' /\ Remembered
<1> DEFINE x == CommitPreedit(st)
<1>1. Going(x) /\ x.type = st.type /\ x.options = st.options
  BY CommitPreeditGoes DEF Current
<1>2. Rendered(x)
  BY CommitPreeditText DEF Carries
<1>3. Recalls(x, punctuation)
  BY CommitPreeditRecalls
<1>4. Leave(Harvest(x), FALSE)
  OBVIOUS
<1> HIDE DEF x
<1>5. x.type = WantedType(x.options)
  BY <1>1
<1> QED BY <1>1, <1>2, <1>3, <1>4, <1>5, HarvestMemory

LEMMA ReturnRemembers ==
  ASSUME Renders, Unmarked, MemoryInv, Return, TextInv'
  PROVE  MemoryInv' /\ Remembered
<1>1. PICK st \in Calls : Leave(Harvest(CommitPreedit(st)), FALSE)
  BY DEF Return
<1>2. Composing
  BY DEF Return
<1>3. /\ Going(st) /\ Rendered(st) /\ Shows(st) /\ Recalls(st, punctuation)
      /\ st.told = <<>> /\ st.type = WantedType(st.options)
  BY <1>1, <1>2, CallMemory
<1> QED BY <1>1, <1>3, PreeditRemembers

LEMMA CommitRemembers ==
  ASSUME Renders, Unmarked, MemoryInv, Commit, TextInv'
  PROVE  MemoryInv' /\ Remembered
<1>1. /\ Going(Plain) /\ Rendered(Plain) /\ Shows(Plain) /\ Plain.told = <<>>
  BY EnterText DEF Plain, MemoryInv, Carries
<1>2. /\ Recalls(Plain, punctuation) /\ Plain.p = punctuation
      /\ Plain.type = type /\ Plain.options = options
  BY EnterMemory DEF Plain
<1>3. CASE Composing
  <2>1. Leave(Harvest(CommitPreedit(Plain)), FALSE)
    BY <1>3 DEF Commit
  <2>2. Plain.type = WantedType(Plain.options)
    BY <1>2, <1>3 DEF MemoryInv, TextInv, PyzyInv, Composing
  <2> QED BY <1>1, <1>2, <2>1, <2>2, PreeditRemembers
<1>4. CASE ~Composing
  <2>1. Leave(Plain, FALSE)
    BY <1>4 DEF Commit
  <2>2. Recalled(Plain) /\ Wording(Plain)
    BY <1>2, NotedIsRecalled DEF Recalls
  <2>3. Plain.type # WantedType(Plain.options) => Plain.p = FreshPunctuation
    BY <1>2 DEF MemoryInv
  <2> QED BY <1>1, <2>1, <2>2, <2>3, LeaveMemory
<1> QED BY <1>3, <1>4

LEMMA EscapeRemembers ==
  ASSUME Renders, MemoryInv, Escape, TextInv'
  PROVE  MemoryInv' /\ Remembered
<1>1. PICK st \in Calls : Leave(Harvest(PyzyReset(st)), FALSE)
  BY DEF Escape
<1> DEFINE x == PyzyReset(st)
<1>2. /\ Going(st) /\ Rendered(st) /\ Recalls(st, punctuation)
      /\ st.type = WantedType(st.options)
  BY <1>1, CallMemory
<1>3. Going(x) /\ x.type = st.type /\ x.options = st.options
  BY <1>2, PyzyResetGoes DEF Current
<1>4. Rendered(x)
  BY <1>2, PyzyResetText
<1>5. Recalls(x, punctuation)
  BY <1>2, ResetRecalls
<1>6. Leave(Harvest(x), FALSE)
  BY <1>1
<1> HIDE DEF x
<1>7. x.type = WantedType(x.options)
  BY <1>2, <1>3
<1> QED BY <1>3, <1>4, <1>5, <1>6, <1>7, HarvestMemory

LEMMA BackspaceKeyRemembers ==
  ASSUME Renders, MemoryInv, BackspaceKey, TextInv'
  PROVE  MemoryInv' /\ Remembered
<1>1. PICK st \in Calls : Leave(Harvest(Edited(st, Front(st.input))), FALSE)
  BY DEF BackspaceKey
<1> DEFINE q == Front(st.input)
           x == Edited(st, q)
           T == Typed(st.type)
<1>2. /\ Current(st) /\ Going(st) /\ Rendered(st) /\ Recalls(st, punctuation)
      /\ st.type = WantedType(st.options) /\ st.input \in Seq(Keys)
      /\ st.used \in Nat /\ st.used <= Len(st.input)
      /\ st.input = input /\ input # <<>>
  BY <1>1, CallMemory DEF Going, Rendered, BackspaceKey, Composing
<1>3. q \in Seq(T)
  <2>1. st.input \in Seq(T)
    BY <1>2 DEF Recalls, Wording
  <2> HIDE DEF T
  <2>2. PICK s \in Seq(T), key \in T : st.input = Append(s, key)
    BY <1>2, <2>1, SequenceEmptyOrAppend
  <2> QED BY <2>2, FrontOfAppend
<1>4. /\ q \in Seq(Keys)
      /\ st.used <= Len(q) => SubSeq(q, 1, st.used) = SubSeq(st.input, 1, st.used)
  BY <1>2, BeginningStays
<1>5. Leave(Harvest(x), FALSE)
  BY <1>1
<1> HIDE DEF q
<1>6. /\ Going(x) /\ Rendered(x) /\ x.type = st.type /\ x.options = st.options
  BY <1>2, <1>4, EditedGoes, EditedText DEF Current
<1>7. Recalls(x, punctuation)
  BY <1>2, <1>3, EditedRecalls
<1> HIDE DEF x
<1>8. x.type = WantedType(x.options)
  BY <1>2, <1>6
<1> QED BY <1>5, <1>6, <1>7, <1>8, HarvestMemory

LEMMA OtherRemembers ==
  ASSUME Renders, MemoryInv, DeleteKey \/ TypeOther, TextInv'
  PROVE  MemoryInv' /\ Remembered
<1>1. PICK st \in Calls \cup {Plain} : Leave(Harvest(st), FALSE)
  BY DEF DeleteKey, TypeOther
<1>2. /\ Going(st) /\ Rendered(st) /\ Recalls(st, punctuation)
      /\ st.type # WantedType(st.options) => st.told = <<>> /\ st.p = FreshPunctuation
  <2>1. CASE st \in Calls
    BY <2>1, CallMemory
  <2>2. CASE st = Plain
    <3>1. /\ Going(Plain) /\ Rendered(Plain) /\ Plain.told = <<>>
      BY EnterText DEF Plain, MemoryInv, Carries
    <3>2. /\ Recalls(Plain, punctuation) /\ Plain.p = punctuation
          /\ Plain.type = type /\ Plain.options = options
      BY EnterMemory DEF Plain
    <3> QED BY <2>2, <3>1, <3>2 DEF MemoryInv
  <2> QED BY <1>1, <2>1, <2>2
<1> QED BY <1>1, <1>2, HarvestMemory

\* Resetting forgets, and says nothing.
LEMMA ResetRemembers ==
  ASSUME Renders, MemoryInv, NEW st, Going(st), Rendered(st), st.told = <<>>,
         st.out.commit = <<>>, Leave(ResetState(st), FALSE), TextInv'
  PROVE  MemoryInv' /\ Remembered
<1> DEFINE x == ResetState(st)
           r == PyzyReset(st)
<1>1. /\ Going(x) /\ Rendered(x) /\ Shows(x) /\ x.told = <<>> /\ x.input = <<>>
      /\ x.out.commit = <<>>
  BY ResetStateText
<1>2. /\ x.p = FreshPunctuation /\ x.selected = <<>>
  BY DEF ResetState, PyzyReset, Going, CallFields
<1>3. Leave(x, FALSE)
  OBVIOUS
<1> HIDE DEF x
<1>4. Wording(x)
  BY <1>1, <1>2, UndecidedIs DEF Wording
<1>5. Recalled(x)
  BY <1>1, <1>2 DEF Recalled, Memory, FreshPunctuation
<1> QED BY <1>1, <1>2, <1>3, <1>4, <1>5, LeaveMemory

LEMMA MoveCursorRemembers ==
  ASSUME Renders, MemoryInv, MoveCursor, TextInv'
  PROVE  MemoryInv' /\ Remembered
<1>1. PICK k \in 0..(Len(model.candidates) - 1), st \in Calls : Leave(Focus(st, k), FALSE)
  BY DEF MoveCursor
<1> DEFINE x == [st EXCEPT !.model.cursor = k, !.raised = {"text"}]
<1>2. /\ Going(st) /\ Rendered(st) /\ Recalls(st, punctuation)
      /\ st.type = WantedType(st.options)
  BY <1>1, CallMemory
<1>3. Leave(Harvest(x), FALSE)
  BY <1>1 DEF Focus
<1>4. /\ DOMAIN x = CallFields /\ DOMAIN x.model = ModelFields /\ x.model.cursor = k
      /\ x.type = st.type /\ x.input = st.input /\ x.used = st.used
      /\ x.options = st.options /\ x.selected = st.selected /\ x.told = st.told
      /\ x.out = st.out /\ "text" \in x.raised /\ x.p = st.p
  BY <1>2 DEF Going, CallFields, ModelFields
<1> HIDE DEF x
<1>5. Going(x)
  BY <1>2, <1>4 DEF Going
<1>6. Rendered(x)
  BY <1>2, <1>4, TextFields
<1>7. Recalls(x, punctuation)
  BY <1>2, <1>4, RecallFields DEF Recalls, Wording
<1>8. x.type = WantedType(x.options)
  BY <1>2, <1>4
<1> QED BY <1>3, <1>5, <1>6, <1>7, <1>8, HarvestMemory

LEMMA SetOptionRemembers ==
  ASSUME Renders, MemoryInv, SetOption, TextInv'
  PROVE  MemoryInv' /\ Remembered
<1>1. PICK chosen \in Settings :
        LET st == [Plain EXCEPT !.options = chosen]
        IN IF chosen.scheme # options.scheme THEN Leave(ResetState(st), FALSE)
           ELSE Leave(OptionsChanged(st), TRUE)
  BY DEF SetOption
<1> DEFINE st == [Plain EXCEPT !.options = chosen]
<1>2. chosen \in Options
  BY PyzyAssumption
<1>3. /\ Going(Plain) /\ Rendered(Plain) /\ Plain.told = <<>>
  BY EnterText DEF Plain, MemoryInv, Carries
<1>4. /\ Recalls(Plain, punctuation) /\ Plain.p = punctuation
      /\ Plain.type = type /\ Plain.options = options /\ Plain.out.commit = <<>>
  BY EnterMemory DEF Plain
<1>5. /\ DOMAIN st = CallFields /\ st.model = Plain.model /\ st.type = Plain.type
      /\ st.input = Plain.input /\ st.used = Plain.used /\ st.options = chosen
      /\ st.selected = Plain.selected /\ st.told = Plain.told /\ st.out = Plain.out
      /\ st.raised = Plain.raised /\ st.p = Plain.p
  BY DEF Plain, Enter, CallFields
<1>6. Plain.input = input
  BY DEF Plain, Enter
<1> HIDE DEF st
<1>7. Going(st) /\ Rendered(st)
  <2>1. Going(st)
    BY <1>2, <1>3, <1>5 DEF Going
  <2> QED BY <1>3, <1>5, <2>1, TextFields DEF Rendered
<1>8. CASE chosen.scheme # options.scheme
  <2>1. Leave(ResetState(st), FALSE)
    BY <1>1, <1>8 DEF st
  <2> QED BY <1>3, <1>4, <1>5, <1>7, <2>1, ResetRemembers
<1>9. CASE chosen.scheme = options.scheme
  <2> DEFINE applied == ApplyOptions(st)
             heard == [applied EXCEPT !.raised = @ \cup {"text"}]
             told == Harvest(heard)
             x == [told EXCEPT !.model.candidates = <<>>, !.model.cursor = 0]
  <2>1. Leave(x, TRUE)
    BY <1>1, <1>9 DEF st, OptionsChanged
  <2>2. WantedType(st.options) = WantedType(options)
    BY <1>5, <1>9 DEF WantedType
  <2>3. /\ Recalls(st, punctuation) /\ st.p = punctuation
        /\ st.type # WantedType(st.options) => st.p = FreshPunctuation
    <3>1. Recalls(st, punctuation)
      BY <1>4, <1>5, RecallFields DEF Recalls, Wording
    <3> QED BY <1>4, <1>5, <2>2, <3>1 DEF MemoryInv
  <2>4. InForce(st) /\ WantedType(st.options) \in Types
    BY <1>2, <1>4, <1>5, <1>6, <2>2, Wanted DEF InForce, MemoryInv, TextInv, PyzyInv
  <2>5. /\ Going(applied) /\ applied.type = WantedType(applied.options)
        /\ Rendered(applied) /\ Recalls(applied, punctuation)
        /\ applied.told = <<>> /\ applied.out.commit = <<>>
    BY <1>3, <1>4, <1>5, <1>7, <2>3, <2>4, ApplyGoes, ApplyText, ApplyMemory DEF Carries
  <2> HIDE DEF applied
  <2>6. /\ DOMAIN heard = CallFields /\ heard.model = applied.model
        /\ heard.type = applied.type /\ heard.input = applied.input
        /\ heard.used = applied.used /\ heard.options = applied.options
        /\ heard.selected = applied.selected /\ heard.told = applied.told
        /\ heard.out = applied.out /\ "text" \in heard.raised /\ heard.p = applied.p
    BY <2>5 DEF Going, CallFields
  <2> HIDE DEF heard
  <2>7. Going(heard) /\ Rendered(heard) /\ Recalls(heard, punctuation)
    <3>1. Rendered(heard)
      BY <2>5, <2>6, TextFields
    <3>2. Recalls(heard, punctuation)
      BY <2>5, <2>6, RecallFields DEF Recalls, Wording
    <3> QED BY <2>5, <2>6, <3>1, <3>2 DEF Going
  <2>8. /\ Going(told) /\ told.type = heard.type /\ told.options = heard.options
        /\ Rendered(told) /\ Shows(told) /\ Recalls(told, punctuation)
    BY <2>7, HarvestGoes, HarvestText, HarvestRecalls DEF Carries, Rendered
  <2> HIDE DEF told
  <2>9. /\ DOMAIN x = CallFields /\ DOMAIN x.model = ModelFields
        /\ x.model.cursor = 0 /\ x.type = told.type
        /\ x.input = told.input /\ x.used = told.used /\ x.options = told.options
        /\ x.selected = told.selected /\ x.told = told.told /\ x.out = told.out
        /\ \A f \in {"settled", "active", "tail"} : x.model[f] = told.model[f]
        /\ x.raised = told.raised /\ x.p = told.p
    BY <2>8 DEF Going, CallFields, ModelFields
  <2> HIDE DEF x
  <2>10. Going(x)
    BY <2>8, <2>9 DEF Going
  <2>11. Shows(x)
    BY <2>8, <2>9 DEF Shows, Rest
  <2>12. Rendered(x)
    BY <2>8, <2>9, <2>11 DEF Rendered, Tallied
  <2>13. Recalls(x, punctuation)
    BY <2>8, <2>9, RecallFields DEF Recalls, Wording
  <2>14. Recalled(x) /\ Wording(x)
    BY <2>13, NotedIsRecalled DEF Recalls
  <2>15. x.type = WantedType(x.options)
    BY <2>5, <2>6, <2>8, <2>9
  <2> QED BY <2>1, <2>10, <2>11, <2>12, <2>14, <2>15, LeaveMemory
<1> QED BY <1>8, <1>9

LEMMA ClientRemembers ==
  ASSUME MemoryInv, MoveElsewhere \/ Report \/ Fallback, TextInv'
  PROVE  MemoryInv' /\ Remembered
<1>1. UNCHANGED pyzyVars /\ calls' = <<>>
  BY DEF MoveElsewhere, Report, Fallback, ClientActs
<1>2. MemoryInv'
  BY <1>1 DEF MemoryInv, pyzyVars, Typed, WantedType
<1>3. Delivered(calls') = <<>>
  <2>1. <<>> \in Seq(Call)
    OBVIOUS
  <2> QED BY <1>1, <2>1, DeliveredIs, JoinedEmpty
<1> QED BY <1>2, <1>3 DEF Remembered

LEMMA MemoryStep ==
  ASSUME Renders, Unmarked, MemoryInv, [Next]_vars
  PROVE  MemoryInv' /\ (Next => Remembered)
<1>1. TextInv'
  BY TextStep DEF MemoryInv, Kept
<1>2. CASE Next
  <2>1. ASSUME NEW key \in Keys, TypeKey(key) \/ TypeText(key)
        PROVE  MemoryInv' /\ Remembered
    BY <1>1, <2>1, TypeKeyRemembers, TypeTextRemembers
  <2>2. ASSUME Reset PROVE MemoryInv' /\ Remembered
    <3>1. /\ Going(Plain) /\ Rendered(Plain) /\ Plain.told = <<>>
          /\ Plain.out.commit = <<>>
      BY EnterText DEF Plain, MemoryInv, Carries
    <3>2. Leave(ResetState(Plain), FALSE)
      BY <2>2 DEF Reset
    <3> QED BY <1>1, <3>1, <3>2, ResetRemembers
  <2>3. ASSUME SelectCandidate PROVE MemoryInv' /\ Remembered
    <3>1. PICK k \in 0..(Len(model.candidates) - 1), st \in Calls :
            k < Len(Offered(st)) /\ Leave(Harvest(PyzySelect(st, k)), FALSE)
      BY <2>3 DEF SelectCandidate
    <3>2. k \in Nat
      BY <3>1
    <3> QED BY <1>1, <3>1, <3>2, SelectRemembers
  <2> QED BY <1>1, <1>2, <2>1, <2>2, <2>3, ConvertRemembers, ReturnRemembers,
             EscapeRemembers, BackspaceKeyRemembers, OtherRemembers, CommitRemembers,
             MoveCursorRemembers, SetOptionRemembers, ClientRemembers DEF Next
<1>3. CASE UNCHANGED vars
  <2>1. MemoryInv'
    BY <1>1, <1>3 DEF MemoryInv, vars, pyzyVars, Typed, WantedType
  <2>2. ~Next \/ Remembered
    BY <1>2
  <2> QED BY <2>1, <2>2
<1> QED BY <1>2, <1>3

LEMMA MemoryInit ==
  ASSUME Renders, Init
  PROVE  MemoryInv
<1>1. TextInv
  BY TextInit
<1>2. /\ type = WantedType(options) /\ input = <<>> /\ selected = <<>>
      /\ punctuation = FreshPunctuation
  BY DEF Init
<1>3. punctuation \in Memory
  BY <1>2 DEF Memory, FreshPunctuation
<1>4. <<>> \in Seq(Typed(type))
  OBVIOUS
<1> QED BY <1>1, <1>2, <1>3, <1>4, UndecidedIs DEF MemoryInv

\* As long as neither a spelling nor a conversion holds a quotation mark or a digit,
\* what is remembered after a call that delivers text is what the document then
\* shows: whether it ends in a digit, and for each kind of quotation mark whether the
\* next one opens, the marks delivered deciding over what was remembered or read
\* off the snapshot. That holds through the emit path, which observes, commits what
\* was composed and then commits the key, and through every commit PyZy makes in the
\* middle of a call (PunctuatedContext, RemembersDeliveries).
THEOREM MarksRemembered ==
  ASSUME Renders, Unmarked
  PROVE  Spec => RemembersDeliveries
<1>1. Init => MemoryInv
  BY MemoryInit
<1>2. MemoryInv /\ [Next]_vars => MemoryInv'
  BY MemoryStep
<1>3. MemoryInv /\ [Next]_vars => [Remembered]_<<contextVars, punctuation>>
  <2>1. ASSUME MemoryInv, Next PROVE Remembered
    BY <2>1, MemoryStep
  <2>2. UNCHANGED vars => UNCHANGED <<contextVars, punctuation>>
    BY DEF vars, pyzyVars
  <2> QED BY <2>1, <2>2
<1>4. RemembersDeliveries <=> [][Remembered]_<<contextVars, punctuation>>
  BY DEF RemembersDeliveries, Remembered
<1> QED BY <1>1, <1>2, <1>3, <1>4, PTL DEF Spec
================================================================================
