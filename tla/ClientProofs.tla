------------------------------ MODULE ClientProofs ------------------------------
(***************************************************************************)
(* Proofs about the library as a whole program uses it.  First the         *)
(* registries and what engines learn: for any profiles, handles and words, *)
(* any order of calls, and any number of processes, whether they end by a  *)
(* shutdown or die.  Then the demo client: for any number of engines and   *)
(* any texts, where its deletions land and where its highlight is.  Then   *)
(* the text that crosses between the two: for every scalar, every text and *)
(* every byte string, that client and library write, read, count and cut   *)
(* it alike, and that every key carries the character typed.  Last, the    *)
(* demo's settings page: that it stays within what the setters take.       *)
(***************************************************************************)
EXTENDS Lifetime, DemoProperties, ContextProofs, FiniteSetTheorems

-------------------------------------------------------------------------------
(* Registries and learning.                                                *)

LifetimeTypeOK ==
  /\ up \in BOOLEAN
  /\ profile \in Directories \cup {NoDirectory}
  /\ ready \subseteq Backend
  /\ own \in Own
  /\ engines \in [Handles -> Engine \cup {None}]
  /\ contexts \in [Contexts -> Handles \cup {None}]

\* A registered context is a live one of that engine, once.
Registered ==
  \A e \in Handles : engines[e] # None =>
    \A c \in Contexts : engines[e].contexts[c] = IF contexts[c] = e THEN 1 ELSE 0

\* Nothing outlives what it needs: a context its engine, an engine its backend,
\* a backend the library.
Nested ==
  /\ \A c \in Contexts : contexts[c] # None => engines[contexts[c]] # None
  /\ \A e \in Handles : engines[e] # None => BackendOf(engines[e].id) \in ready
  /\ ~up => ready = {}

\* The inductive invariant.  What PyZy has not written would be lost by a shutdown
\* that does not finalize it, and land in another profile if PyZy outlived one:
\* so PyZy is up exactly when the library knows it to be, and every backend that
\* is up writes below the profile in force.
LifetimeInv ==
  /\ LifetimeTypeOK
  /\ Registered
  /\ Nested
  /\ own.pyzy <=> "pyzy" \in ready
  /\ pending # {} => "pyzy" \in ready
  /\ \A b \in ready \ {"hangul"} : own.directory[b] = profile
  /\ taught = learned \cup pending

LEMMA NoneIsNoEngine == None \notin Engine /\ None \notin Handles
BY LifetimeAssumption

LEMMA LifetimeInit == Init => LifetimeInv
<1> SUFFICES ASSUME Init PROVE LifetimeInv
  OBVIOUS
<1>1. Fresh \in Own /\ Fresh.pyzy = FALSE
  BY DEF Fresh, Own
<1> QED BY <1>1 DEF Init, LifetimeInv, LifetimeTypeOK, Registered, Nested

-------------------------------------------------------------------------------
(* The library.                                                            *)

\* A refused init changes nothing; one that succeeds finds nothing of an
\* earlier life in its way.
LEMMA InitKeeps ==
  ASSUME LifetimeInv, NEW params \in Params, PathimeInit(params)
  PROVE  LifetimeInv'
<1>1. CASE UNCHANGED <<memory, installed, learned, taught>>
  BY <1>1 DEF memory, LifetimeInv, LifetimeTypeOK, Registered, Nested
<1>2. ASSUME NEW coming \in {CanBeReady, CanBeReady \ {"anthy"}},
             params # "malformed", ~up,
             own' = Begun(coming, Resolve(params)), ready' = coming,
             profile' = Resolve(params), up' = TRUE,
             UNCHANGED <<handles, installed, words>>
      PROVE  LifetimeInv'
  <2>1. ready = {} /\ ~own.pyzy /\ own \in Own /\ pending = {}
    BY <1>2 DEF LifetimeInv, LifetimeTypeOK, Nested
  <2>2. Resolve(params) \in Directories
    BY <1>2, LifetimeAssumption DEF Resolve, Params
  <2>3. coming \subseteq Backend
    BY <1>2 DEF CanBeReady, Backend
  <2>4. /\ own'.pyzy = ("pyzy" \in coming)
        /\ own'.directory = [b \in Backend |->
             IF b \in coming \ {"hangul"} THEN Resolve(params) ELSE own.directory[b]]
    BY <1>2, <2>1 DEF Begun, Rooted
  <2>5. own' \in Own
    <3>1. own' = [pyzy |-> own'.pyzy, directory |-> own'.directory]
      BY <1>2 DEF Begun
    <3>2. own'.pyzy \in BOOLEAN
      BY <2>4
    <3>3. own'.directory \in [Backend -> Directories \cup {NoDirectory}]
      BY <2>1, <2>2, <2>4 DEF Own
    <3> QED BY <3>1, <3>2, <3>3 DEF Own
  <2>6. \A b \in ready' \ {"hangul"} : own'.directory[b] = profile'
    BY <1>2, <2>3, <2>4
  <2>7. \A e \in Handles : engines[e] = None
    BY <2>1 DEF LifetimeInv, Nested
  <2> QED
    BY <1>2, <2>1, <2>2, <2>3, <2>4, <2>5, <2>6, <2>7
    DEF LifetimeInv, LifetimeTypeOK, Registered, Nested, handles, words
<1> QED BY <1>1, <1>2 DEF PathimeInit

\* A shutdown finalizes PyZy whenever anything waits to be written.
LEMMA ShutdownKeeps ==
  ASSUME LifetimeInv, PathimeShutdown
  PROVE  LifetimeInv'
<1>1. CASE up
  <2>1. /\ up' = FALSE /\ profile' = NoDirectory /\ ready' = {} /\ own' = Ended
        /\ learned' = learned \cup pending /\ pending' = {}
        /\ Held = {} /\ UNCHANGED <<engines, contexts, installed, taught>>
    BY <1>1 DEF PathimeShutdown, LifetimeInv, handles
  <2>2. own' \in Own /\ own'.pyzy = FALSE
    BY <2>1 DEF LifetimeInv, LifetimeTypeOK, Ended, Own
  <2>3. \A e \in Handles : engines[e] = None
    BY <2>1 DEF Held
  <2> QED BY <2>1, <2>2, <2>3 DEF LifetimeInv, LifetimeTypeOK, Registered, Nested
<1>2. CASE ~up
  BY <1>2 DEF PathimeShutdown, process, handles, LifetimeInv, LifetimeTypeOK,
              Registered, Nested
<1> QED BY <1>1, <1>2

\* A process that dies takes with it what PyZy had not written, and nothing else.
LEMMA CrashKeeps ==
  ASSUME LifetimeInv, Crash
  PROVE  LifetimeInv'
<1>1. Fresh \in Own /\ Fresh.pyzy = FALSE
  BY DEF Fresh, Own
<1>2. taught' = learned' \cup pending'
  BY DEF Crash, LifetimeInv
<1> QED BY <1>1, <1>2 DEF Crash, LifetimeInv, LifetimeTypeOK, Registered, Nested

-------------------------------------------------------------------------------
(* Engines and contexts.                                                   *)

\* Calls that touch only the handles.
LEMMA HandlesKeep ==
  ASSUME LifetimeInv, UNCHANGED <<process, words>>,
         engines' \in [Handles -> Engine \cup {None}],
         contexts' \in [Contexts -> Handles \cup {None}],
         Registered', Nested'
  PROVE  LifetimeInv'
BY DEF LifetimeInv, LifetimeTypeOK, process, words

LEMMA EngineCreateKeeps ==
  ASSUME LifetimeInv, NEW e \in Handles, NEW id \in EngineId, EngineCreate(e, id)
  PROVE  LifetimeInv'
<1>1. /\ engines \in [Handles -> Engine \cup {None}] /\ engines[e] = None
      /\ contexts \in [Contexts -> Handles \cup {None}] /\ Registered /\ Nested
      /\ UNCHANGED <<process, contexts, words>>
  BY DEF LifetimeInv, LifetimeTypeOK, EngineCreate
<1>2. CASE UNCHANGED engines
  BY <1>1, <1>2, HandlesKeep DEF Registered, Nested, process
<1> DEFINE fresh == [id |-> id, contexts |-> [c \in Contexts |-> 0], none |-> FALSE,
                     table |-> "unasked"]
<1>3. CASE Available(id) /\ engines' = [engines EXCEPT ![e] = fresh]
  <2>1. /\ fresh \in Engine /\ fresh.id = id
        /\ \A c \in Contexts : fresh.contexts[c] = 0
    BY DEF Engine
  <2> HIDE DEF fresh
  <2>2. engines' \in [Handles -> Engine \cup {None}]
    BY <1>1, <1>3, <2>1
  <2>3. \A c \in Contexts : contexts[c] # e
    BY <1>1, NoneIsNoEngine DEF Nested
  <2>4. Registered'
    BY <1>1, <1>3, <2>1, <2>3 DEF Registered
  <2>5. Nested'
    BY <1>1, <1>3, <2>1, NoneIsNoEngine DEF Nested, Available, process
  <2> QED BY <1>1, <2>2, <2>4, <2>5, HandlesKeep
<1> QED BY <1>2, <1>3 DEF EngineCreate

LEMMA EngineDestroyKeeps ==
  ASSUME LifetimeInv, NEW e \in Handles, EngineDestroy(e)
  PROVE  LifetimeInv'
<1>1. /\ engines \in [Handles -> Engine \cup {None}]
      /\ contexts \in [Contexts -> Handles \cup {None}] /\ Registered /\ Nested
      /\ \A c \in Contexts : contexts[c] # None => contexts[c] # e
      /\ engines' = [engines EXCEPT ![e] = None]
      /\ UNCHANGED <<process, contexts, words>>
  BY DEF LifetimeInv, LifetimeTypeOK, EngineDestroy, Live
<1>2. Registered'
  BY <1>1 DEF Registered
<1>3. Nested'
  BY <1>1 DEF Nested, process
<1> QED BY <1>1, <1>2, <1>3, HandlesKeep

\* An engine that changes in nothing but its mode or its table.
LEMMA EngineUpdateKeeps ==
  ASSUME LifetimeInv, NEW e \in Handles, NEW new \in Engine, engines[e] # None,
         new.id = engines[e].id, new.contexts = engines[e].contexts,
         engines' = [engines EXCEPT ![e] = new], UNCHANGED <<process, contexts>>
  PROVE  Registered' /\ Nested' /\ engines' \in [Handles -> Engine \cup {None}]
<1>1. /\ engines \in [Handles -> Engine \cup {None}]
      /\ contexts \in [Contexts -> Handles \cup {None}] /\ Registered /\ Nested
  BY DEF LifetimeInv, LifetimeTypeOK
<1>2. new # None
  BY NoneIsNoEngine
<1>3. Registered'
  BY <1>1, <1>2 DEF Registered
<1>4. Nested'
  BY <1>1, <1>2 DEF Nested, process
<1> QED BY <1>1, <1>3, <1>4

LEMMA EngineSetPreeditKeeps ==
  ASSUME LifetimeInv, NEW e \in Handles, NEW none \in BOOLEAN,
         EngineSetPreedit(e, none)
  PROVE  LifetimeInv'
<1> DEFINE new == [engines[e] EXCEPT !.none = none]
<1>1. engines[e] \in Engine /\ engines[e] # None
  BY DEF EngineSetPreedit, Held, LifetimeInv, LifetimeTypeOK
<1>2. /\ new \in Engine /\ new.id = engines[e].id /\ new.contexts = engines[e].contexts
  BY <1>1 DEF Engine
<1>3. engines' = [engines EXCEPT ![e] = new] /\ UNCHANGED <<process, contexts, words>>
  BY DEF EngineSetPreedit
<1> HIDE DEF new
<1> QED BY <1>1, <1>2, <1>3, EngineUpdateKeeps, HandlesKeep
        DEF LifetimeInv, LifetimeTypeOK

\* The registry gains the context, or loses it, and so does the map from contexts
\* to engines; a creation that fails midway leaves both as they were.
LEMMA ContextCreateKeeps ==
  ASSUME LifetimeInv, NEW e \in Handles, NEW c \in Contexts, NEW heard,
         ContextCreate(e, c, heard)
  PROVE  LifetimeInv'
<1>1. /\ engines \in [Handles -> Engine \cup {None}]
      /\ contexts \in [Contexts -> Handles \cup {None}] /\ Registered /\ Nested
      /\ engines[e] \in Engine /\ engines[e] # None /\ contexts[c] = None
      /\ engines[e].contexts \in [Contexts -> Nat]
      /\ UNCHANGED <<process, words>>
  BY DEF ContextCreate, Held, LifetimeInv, LifetimeTypeOK, Engine
<1>2. engines[e].contexts[c] = 0
  BY <1>1, NoneIsNoEngine DEF Registered
<1>3. ASSUME NEW n \in Nat
      PROVE  /\ [engines[e] EXCEPT !.contexts[c] = n] \in Engine
             /\ [engines[e] EXCEPT !.contexts[c] = n].id = engines[e].id
             /\ [engines[e] EXCEPT !.contexts[c] = n].contexts
                  = [engines[e].contexts EXCEPT ![c] = n]
  BY <1>1 DEF Engine
<1>4. CASE UNCHANGED handles
  BY <1>1, <1>4, HandlesKeep DEF handles, Registered, Nested, process
<1>5. CASE engines' = Unregister(Register(e, c), e, c) /\ UNCHANGED contexts
  <2> DEFINE one == [engines[e] EXCEPT !.contexts[c] = 1]
             back == [engines[e] EXCEPT !.contexts[c] = 0]
  <2>1. Register(e, c) = [engines EXCEPT ![e] = one]
    BY <1>1, <1>2 DEF Register
  <2>2. Register(e, c)[e] = one
    BY <1>1, <2>1
  <2>3. [one EXCEPT !.contexts[c] = 0] = back
    BY <1>1, <1>2 DEF Engine
  <2>4. engines' = [engines EXCEPT ![e] = back]
    BY <1>5, <2>1, <2>2, <2>3 DEF Unregister
  <2>5. back.contexts = engines[e].contexts
    BY <1>1, <1>2, <1>3
  <2>6. back \in Engine /\ back.id = engines[e].id
    BY <1>3
  <2> HIDE DEF one, back
  <2> QED BY <1>1, <1>5, <2>4, <2>5, <2>6, EngineUpdateKeeps, HandlesKeep
          DEF LifetimeInv, LifetimeTypeOK
<1>6. CASE engines' = Register(e, c) /\ contexts' = [contexts EXCEPT ![c] = e]
  <2> DEFINE one == [engines[e] EXCEPT !.contexts[c] = 1]
  <2>1. engines' = [engines EXCEPT ![e] = one]
    BY <1>1, <1>2, <1>6 DEF Register
  <2>2. /\ one \in Engine /\ one.id = engines[e].id
        /\ one.contexts = [engines[e].contexts EXCEPT ![c] = 1]
    BY <1>3
  <2> HIDE DEF one
  <2>3. one # None
    BY <2>2, NoneIsNoEngine
  <2>4. /\ engines' \in [Handles -> Engine \cup {None}]
        /\ contexts' \in [Contexts -> Handles \cup {None}]
    BY <1>1, <1>6, <2>1, <2>2
  <2>5. Registered'
    <3> SUFFICES ASSUME NEW f \in Handles, engines'[f] # None, NEW d \in Contexts
                 PROVE  engines'[f].contexts[d] = IF contexts'[d] = f THEN 1 ELSE 0
      BY DEF Registered
    <3>1. contexts'[d] = IF d = c THEN e ELSE contexts[d]
      BY <1>1, <1>6
    <3>2. CASE f = e
      <4>1. engines'[f].contexts[d] = IF d = c THEN 1 ELSE engines[e].contexts[d]
        BY <1>1, <2>1, <2>2, <3>2
      <4> QED BY <1>1, <3>1, <3>2, <4>1 DEF Registered
    <3>3. CASE f # e
      <4>1. engines'[f] = engines[f]
        BY <1>1, <2>1, <3>3
      <4> QED BY <1>1, <3>1, <3>3, <4>1, NoneIsNoEngine DEF Registered
    <3> QED BY <3>2, <3>3
  <2>6. Nested'
    BY <1>1, <1>6, <2>1, <2>2, <2>3 DEF Nested, process
  <2> QED BY <1>1, <2>4, <2>5, <2>6, HandlesKeep
<1> QED BY <1>4, <1>5, <1>6 DEF ContextCreate

LEMMA ContextDestroyKeeps ==
  ASSUME LifetimeInv, NEW c \in Contexts, ContextDestroy(c)
  PROVE  LifetimeInv'
<1> DEFINE e == contexts[c]
           back == [engines[e] EXCEPT !.contexts[c] = 0]
<1>1. /\ engines \in [Handles -> Engine \cup {None}]
      /\ contexts \in [Contexts -> Handles \cup {None}] /\ Registered /\ Nested
      /\ e \in Handles /\ engines[e] \in Engine /\ engines[e] # None
      /\ engines[e].contexts \in [Contexts -> Nat]
      /\ contexts' = [contexts EXCEPT ![c] = None]
      /\ UNCHANGED <<process, words>>
  BY DEF ContextDestroy, Live, LifetimeInv, LifetimeTypeOK, Nested, Engine
<1>2. engines' = [engines EXCEPT ![e] = back]
  BY <1>1 DEF ContextDestroy, Unregister
<1>3. /\ back \in Engine /\ back.id = engines[e].id
      /\ back.contexts = [engines[e].contexts EXCEPT ![c] = 0]
  BY <1>1 DEF Engine
<1> HIDE DEF e, back
<1>4. back # None
  BY <1>3, NoneIsNoEngine
<1>5. /\ engines' \in [Handles -> Engine \cup {None}]
      /\ contexts' \in [Contexts -> Handles \cup {None}]
  BY <1>1, <1>2, <1>3
<1>6. Registered'
  <2> SUFFICES ASSUME NEW f \in Handles, engines'[f] # None, NEW d \in Contexts
               PROVE  engines'[f].contexts[d] = IF contexts'[d] = f THEN 1 ELSE 0
    BY DEF Registered
  <2>1. contexts'[d] = IF d = c THEN None ELSE contexts[d]
    BY <1>1
  <2>2. CASE f = e
    <3>1. engines'[f].contexts[d] = IF d = c THEN 0 ELSE engines[e].contexts[d]
      BY <1>1, <1>2, <1>3, <2>2
    <3> QED BY <1>1, <2>1, <2>2, <3>1, NoneIsNoEngine DEF Registered
  <2>3. CASE f # e
    <3>1. engines'[f] = engines[f]
      BY <1>1, <1>2, <2>3
    <3> QED BY <1>1, <2>1, <2>3, <3>1, NoneIsNoEngine DEF Registered, e
  <2> QED BY <2>2, <2>3
<1>7. Nested'
  BY <1>1, <1>2, <1>3, <1>4 DEF Nested, process
<1> QED BY <1>1, <1>5, <1>6, <1>7, HandlesKeep

-------------------------------------------------------------------------------
(* Learning.                                                               *)

\* A lesson goes where the profile in force is, at once or by way of PyZy.
LEMMA TypeKeeps ==
  ASSUME LifetimeInv, NEW c \in Contexts, NEW word, Type(c, word)
  PROVE  LifetimeInv'
<1> DEFINE e == contexts[c]
           b == BackendOf(engines[e].id)
           lesson == <<b, own.directory[b], word>>
           learns == b \in {"anthy", "pyzy"} \/ (b = "table" /\ Load(e)[e].table = "open")
<1>1. /\ engines \in [Handles -> Engine \cup {None}]
      /\ contexts \in [Contexts -> Handles \cup {None}] /\ Nested
      /\ e \in Handles /\ engines[e] \in Engine /\ engines[e] # None
      /\ b \in ready
      /\ UNCHANGED <<process, contexts, installed>>
  BY DEF Type, Live, LifetimeInv, LifetimeTypeOK, Nested
<1>2. /\ engines' = Load(e)
      /\ learned' = IF learns /\ b # "pyzy" THEN learned \cup {lesson} ELSE learned
      /\ pending' = IF b = "pyzy" THEN pending \cup {lesson} ELSE pending
      /\ taught' = IF learns THEN taught \cup {<<b, profile, word>>} ELSE taught
  BY DEF Type
<1>3. /\ Registered' /\ Nested' /\ engines' \in [Handles -> Engine \cup {None}]
  <2>1. CASE engines[e].id = "table" /\ engines[e].table = "unasked"
    <3> DEFINE new == [engines[e] EXCEPT
                         !.table = IF "table.db" \in installed THEN "open" ELSE "absent"]
    <3>1. engines' = [engines EXCEPT ![e] = new]
      BY <1>2, <2>1 DEF Load
    <3>2. new \in Engine /\ new.id = engines[e].id /\ new.contexts = engines[e].contexts
      BY <1>1 DEF Engine
    <3> HIDE DEF new, e
    <3> QED BY <1>1, <3>1, <3>2, EngineUpdateKeeps
  <2>2. CASE ~(engines[e].id = "table" /\ engines[e].table = "unasked")
    <3>1. UNCHANGED engines
      BY <1>2, <2>2 DEF Load
    <3> QED BY <1>1, <3>1 DEF LifetimeInv, LifetimeTypeOK, Registered, Nested, process
  <2> QED BY <2>1, <2>2
<1>4. learns => b # "hangul"
  OBVIOUS
<1> HIDE DEF e, learns, b
<1>5. learns => own.directory[b] = profile
  BY <1>1, <1>4 DEF LifetimeInv
<1>6. b = "pyzy" => learns
  BY DEF learns
<1>7. taught' = learned' \cup pending'
  BY <1>2, <1>5, <1>6 DEF LifetimeInv
<1>8. pending' # {} => "pyzy" \in ready
  BY <1>1, <1>2 DEF LifetimeInv
<1> QED BY <1>1, <1>3, <1>7, <1>8 DEF LifetimeInv, LifetimeTypeOK, process

LEMMA StillKeeps ==
  ASSUME LifetimeInv, UNCHANGED <<memory, learned, taught>>
  PROVE  LifetimeInv'
BY DEF memory, LifetimeInv, LifetimeTypeOK, Registered, Nested

LEMMA LifetimeNext == LifetimeInv /\ [Next]_vars => LifetimeInv'
<1> SUFFICES ASSUME LifetimeInv, [Next]_vars PROVE LifetimeInv'
  OBVIOUS
<1>1. ASSUME NEW params \in Params, PathimeInit(params) PROVE LifetimeInv'
  BY <1>1, InitKeeps
<1>2. ASSUME PathimeShutdown PROVE LifetimeInv'
  BY <1>2, ShutdownKeeps
<1>3. ASSUME NEW e \in Handles, NEW id \in EngineId, EngineCreate(e, id)
      PROVE  LifetimeInv'
  BY <1>3, EngineCreateKeeps
<1>4. ASSUME NEW e \in Handles, EngineDestroy(e) PROVE LifetimeInv'
  BY <1>4, EngineDestroyKeeps
<1>5. ASSUME NEW e \in Handles, NEW none \in BOOLEAN, EngineSetPreedit(e, none)
      PROVE  LifetimeInv'
  BY <1>5, EngineSetPreeditKeeps
<1>6. ASSUME NEW e \in Handles, NEW c \in Contexts, NEW heard,
             ContextCreate(e, c, heard)
      PROVE  LifetimeInv'
  BY <1>6, ContextCreateKeeps
<1>7. ASSUME NEW c \in Contexts, ContextDestroy(c) PROVE LifetimeInv'
  BY <1>7, ContextDestroyKeeps
<1>8. ASSUME NEW c \in Contexts, NEW word \in Words, Type(c, word) PROVE LifetimeInv'
  BY <1>8, TypeKeeps
<1>9. ASSUME Crash PROVE LifetimeInv'
  BY <1>9, CrashKeeps
<1>10. ASSUME NEW file \in DataFile, Reinstall(file) PROVE LifetimeInv'
  BY <1>10, StillKeeps DEF Reinstall
<1>11. CASE UNCHANGED vars
  BY <1>11, StillKeeps DEF vars
<1> QED
  BY <1>1, <1>2, <1>3, <1>4, <1>5, <1>6, <1>7, <1>8, <1>9, <1>10, <1>11 DEF Next

LEMMA LifetimeInductive == Spec => []LifetimeInv
BY LifetimeInit, LifetimeNext, PTL DEF Spec

-------------------------------------------------------------------------------
(* What the library must keep.                                             *)

\* An engine's registry names its live contexts, each once, and no other, also
\* after a creation that failed midway (pathime_context_create and _destroy).
THEOREM RegistriesLive == Spec => []RegistryIsLive
<1>1. LifetimeInv => RegistryIsLive
  BY DEF LifetimeInv, Registered, RegistryIsLive, Held
<1> QED BY <1>1, LifetimeInductive, PTL

\* What was taught is on disk or waits for the shutdown that writes it, and
\* nothing waits while the library is down (pathime_shutdown).
THEOREM LearningKept == Spec => []LearningIsKept
<1>1. LifetimeInv => LearningIsKept
  BY DEF LifetimeInv, Nested, LearningIsKept
<1> QED BY <1>1, LifetimeInductive, PTL

\* Nothing is learned under a profile but what was taught under it, however often
\* the library is shut down and started again under another (pathime_init).
THEOREM ProfilesStayApart == Spec => []ProfilesApart
<1>1. LifetimeInv => ProfilesApart
  BY DEF LifetimeInv, ProfilesApart
<1> QED BY <1>1, LifetimeInductive, PTL

-------------------------------------------------------------------------------
(* The demo client.                                                        *)

Scalars == {v \in Nat : IsScalarValue(v)}

ClientContext ==
  [preedit : Seq(Scalars), offered : Nat, cursor : Nat, overrides : BOOLEAN,
   cap : 1..MaxCap, known : SUBSET Seq(Scalars)]

Calls ==
  [document : Seq(Scalars), surrounding : {"full", "fragment", "none"}, snapshot : Seq(Scalars),
   active : Slots, page : Nat, pane : {"input", "options"},
   contexts : [Slots -> ClientContext],
   deletion : [asked : Seq(Scalars), removed : Seq(Scalars)]]

\* A cursor is an entry of the list it stands on.
OnList(c) == Count(c) > 0 => c.cursor < Count(c)

Good(st) == st \in Calls /\ \A s \in Slots : OnList(st.contexts[s])

\* While the demo supplies anything, the active context knows what it supplied last,
\* and that is how the document ends.
Believed(st) ==
  st.surrounding # "none" =>
    /\ st.snapshot = Supplied(st)
    /\ Context(st).known = Holds(st.active, st.snapshot)

Shown(st) ==
  st.active \in Hovering /\ Count(Context(st)) > 0 =>
    st.page = Context(st).cursor \div PageSize

DemoInv == Good(Now) /\ Believed(Now)

\* Nothing but the composition, the cap and the page differ.
Same(st, q) ==
  /\ Good(q)
  /\ q.document = st.document /\ q.surrounding = st.surrounding
  /\ q.snapshot = st.snapshot /\ q.active = st.active /\ q.deletion = st.deletion
  /\ Context(q).known = Context(st).known

LEMMA SameTrans ==
  ASSUME NEW st, NEW q, NEW r, Same(st, q), Same(q, r)
  PROVE  Same(st, r)
BY DEF Same

\* One context replaced.
Put(st, c) == [st EXCEPT !.contexts = [@ EXCEPT ![st.active] = c]]

LEMMA GoodIs ==
  ASSUME NEW st, Good(st)
  PROVE  /\ st.document \in Seq(Scalars) /\ st.surrounding \in {"full", "fragment", "none"}
         /\ st.snapshot \in Seq(Scalars) /\ st.active \in Slots /\ st.page \in Nat
         /\ st.pane \in {"input", "options"} /\ st.contexts \in [Slots -> ClientContext]
         /\ st.deletion \in [asked : Seq(Scalars), removed : Seq(Scalars)]
         /\ Context(st) \in ClientContext /\ OnList(Context(st))
         /\ Count(Context(st)) \in Nat
<1>1. st \in Calls
  BY DEF Good
<1>2. Context(st) \in ClientContext
  BY <1>1 DEF Calls, Context
<1>3. Count(Context(st)) \in Nat
  BY <1>2 DEF ClientContext, Count
<1> QED BY <1>1, <1>2, <1>3 DEF Good, Calls, Context

LEMMA PutGood ==
  ASSUME NEW st, Good(st), NEW c \in ClientContext, OnList(c)
  PROVE  /\ Good(Put(st, c)) /\ Context(Put(st, c)) = c
         /\ Put(st, c).document = st.document /\ Put(st, c).surrounding = st.surrounding
         /\ Put(st, c).snapshot = st.snapshot /\ Put(st, c).active = st.active
         /\ Put(st, c).deletion = st.deletion /\ Put(st, c).page = st.page
         /\ Put(st, c).pane = st.pane
<1>1. st \in Calls /\ st.active \in Slots /\ st.contexts \in [Slots -> ClientContext]
  BY GoodIs DEF Good
<1> DEFINE put == [st.contexts EXCEPT ![st.active] = c]
<1>2. put \in [Slots -> ClientContext] /\ put[st.active] = c
  BY <1>1
<1>3. \A s \in Slots : OnList(put[s])
  BY <1>1 DEF Good
<1>4. Put(st, c) = [st EXCEPT !.contexts = put]
  BY DEF Put
<1> HIDE DEF put
<1>5. Put(st, c) \in Calls
  BY <1>1, <1>2, <1>4 DEF Calls
<1>6. /\ Put(st, c).contexts = put
      /\ Put(st, c).document = st.document /\ Put(st, c).surrounding = st.surrounding
      /\ Put(st, c).snapshot = st.snapshot /\ Put(st, c).active = st.active
      /\ Put(st, c).deletion = st.deletion /\ Put(st, c).page = st.page
      /\ Put(st, c).pane = st.pane
  BY <1>1, <1>4 DEF Calls
<1> QED BY <1>2, <1>3, <1>5, <1>6 DEF Good, Context

LEMMA PutSame ==
  ASSUME NEW st, Good(st), NEW c \in ClientContext, OnList(c),
         c.known = Context(st).known
  PROVE  Same(st, Put(st, c))
BY PutGood DEF Same

LEMMA CountIs ==
  ASSUME NEW c \in ClientContext
  PROVE  /\ Count(c) \in Nat
         /\ c.offered = 0 => Count(c) = 0
         /\ Count(c) = c.offered \/ Count(c) = c.cap
         /\ Count(c) <= c.offered /\ Count(c) <= c.cap
BY DEF ClientContext, Count

-------------------------------------------------------------------------------
(* What a context makes of a call.                                         *)

\* A context with another composition.
Made(c, p, o, i) == [c EXCEPT !.preedit = p, !.offered = o, !.cursor = i]

LEMMA ComposedSame ==
  ASSUME NEW st, Good(st), NEW p \in Seq(Scalars), NEW o \in Nat, NEW i \in Nat,
         o = 0 \/ i = 0 \/ (o = Context(st).offered /\ i < Count(Context(st)))
  PROVE  /\ Same(st, Composed(st, p, o, i))
         /\ Composed(st, p, o, i).page = st.page /\ Composed(st, p, o, i).pane = st.pane
         /\ Context(Composed(st, p, o, i)) = Made(Context(st), p, o, i)
<1> DEFINE c == Made(Context(st), p, o, i)
<1>1. st \in Calls /\ Context(st) \in ClientContext
  BY GoodIs DEF Good
<1>2. c \in ClientContext /\ c.known = Context(st).known /\ c.cap = Context(st).cap
      /\ c.offered = o /\ c.cursor = i
  BY <1>1 DEF ClientContext, Made
<1>3. Composed(st, p, o, i) = Put(st, c)
  BY <1>1 DEF Composed, Put, Calls, Context, Made
<1> HIDE DEF c
<1>4. OnList(c)
  BY <1>1, <1>2 DEF OnList, Count, ClientContext
<1>5. Same(st, Composed(st, p, o, i))
  BY <1>2, <1>3, <1>4, PutSame
<1>6. /\ Composed(st, p, o, i).page = st.page /\ Composed(st, p, o, i).pane = st.pane
      /\ Context(Composed(st, p, o, i)) = c
  BY <1>2, <1>3, <1>4, PutGood
<1> QED BY <1>5, <1>6 DEF c

LEMMA EmptiedSame ==
  ASSUME NEW st, Good(st)
  PROVE  /\ Same(st, Emptied(st)) /\ Shown(Emptied(st)) /\ Emptied(st).page = st.page
         /\ Emptied(st).pane = st.pane /\ Count(Context(Emptied(st))) = 0
<1>1. /\ Same(st, Emptied(st)) /\ Emptied(st).page = st.page
      /\ Emptied(st).pane = st.pane
      /\ Context(Emptied(st)) = Made(Context(st), <<>>, 0, 0)
  <2> DEFINE none == <<>>
  <2>1. none \in Seq(Scalars)
    OBVIOUS
  <2>2. Emptied(st) = Composed(st, none, 0, 0)
    BY DEF Emptied
  <2> HIDE DEF none
  <2>3. /\ Same(st, Composed(st, none, 0, 0))
        /\ Composed(st, none, 0, 0).page = st.page
        /\ Composed(st, none, 0, 0).pane = st.pane
        /\ Context(Composed(st, none, 0, 0)) = Made(Context(st), none, 0, 0)
    BY <2>1, ComposedSame
  <2> QED BY <2>2, <2>3 DEF none
<1>2. Context(st) \in ClientContext
  BY GoodIs
<1>3. Count(Context(Emptied(st))) = 0
  BY <1>1, <1>2 DEF Count, ClientContext, Made
<1> QED BY <1>1, <1>3 DEF Shown

LEMMA DemoTexts ==
  /\ Produced \subseteq Seq(Scalars) /\ Pasted \subseteq Seq(Scalars)
  /\ Typed \subseteq Scalars /\ PageSize \in Nat \ {0} /\ GrowPages \in Nat
  /\ MaxOffered \in Nat /\ MaxCap \in Nat /\ DefaultCap \in 1..MaxCap
<1>1. ASSUME NEW text \in Produced \cup Pasted
      PROVE  text \in Seq(Scalars)
  <2>1. text \in Seq(Nat) /\ \A i \in DOMAIN text : IsScalarValue(text[i])
    BY DemoAssumption
  <2>2. text \in [1..Len(text) -> Scalars] /\ Len(text) \in Nat
    BY <2>1 DEF Scalars
  <2> QED BY <2>2
<1>2. Typed \subseteq Scalars
  BY DemoAssumption DEF Scalars
<1> QED BY <1>1, <1>2, DemoAssumption

LEMMA CompositionsSame ==
  ASSUME NEW st, Good(st), NEW q \in Compositions(st)
  PROVE  Same(st, q)
<1>1. CASE q = st
  BY <1>1 DEF Same
<1>2. CASE q = Emptied(st)
  BY <1>2, EmptiedSame
<1>3. ASSUME NEW p \in Produced, NEW o \in Lists(st), q = Composed(st, p, o, 0)
      PROVE  Same(st, q)
  <2>1. p \in Seq(Scalars) /\ o \in Nat
    BY DemoTexts DEF Lists
  <2> QED BY <1>3, <2>1, ComposedSame
<1> QED BY <1>1, <1>2, <1>3 DEF Compositions

LEMMA AdvancedSame ==
  ASSUME NEW st, Good(st), NEW q \in Advanced(st)
  PROVE  Same(st, q)
<1> DEFINE n == Count(Context(st))
           i == (Context(st).cursor + 1) % n
<1>1. n \in Nat /\ n # 0 /\ Context(st) \in ClientContext
  BY GoodIs DEF Advanced
<1>2. q = Composed(st, Context(st).preedit, Context(st).offered, i)
  BY <1>1 DEF Advanced
<1>3. /\ Context(st).preedit \in Seq(Scalars) /\ Context(st).offered \in Nat
      /\ Context(st).cursor \in Nat
  BY <1>1 DEF ClientContext
<1>4. i \in Nat /\ i < n
  BY <1>1, <1>3
<1> HIDE DEF i
<1> QED BY <1>2, <1>3, <1>4, ComposedSame DEF n

-------------------------------------------------------------------------------
(* Candidates.                                                             *)

\* Another page of the same call.
LEMMA PageSame ==
  ASSUME NEW st, Good(st), NEW p \in Nat
  PROVE  LET q == [st EXCEPT !.page = p]
         IN Same(st, q) /\ q.page = p /\ q.pane = st.pane /\ q.contexts = st.contexts
<1> DEFINE q == [st EXCEPT !.page = p]
<1>1. st \in Calls
  BY DEF Good
<1>2. q \in Calls
  BY <1>1 DEF Calls
<1>3. /\ q.contexts = st.contexts /\ q.active = st.active /\ q.page = p
      /\ q.document = st.document /\ q.surrounding = st.surrounding
      /\ q.snapshot = st.snapshot /\ q.deletion = st.deletion /\ q.pane = st.pane
  BY <1>1 DEF Calls
<1> HIDE DEF q
<1>4. Context(q) = Context(st)
  BY <1>3 DEF Context
<1>5. Same(st, q) /\ q.page = p /\ q.pane = st.pane /\ q.contexts = st.contexts
  BY <1>2, <1>3, <1>4 DEF Same, Good
<1> QED BY <1>5 DEF q

LEMMA PageToCursorSame ==
  ASSUME NEW st, Good(st)
  PROVE  /\ Same(st, PageToCursor(st)) /\ Shown(PageToCursor(st))
         /\ PageToCursor(st).contexts = st.contexts
<1>1. CASE Count(Context(st)) = 0
  BY <1>1 DEF PageToCursor, Same, Shown
<1>2. CASE Count(Context(st)) # 0
  <2> DEFINE p == Context(st).cursor \div PageSize
             q == PageToCursor(st)
  <2>1. p \in Nat
    <3>1. Context(st).cursor \in Nat
      BY GoodIs DEF ClientContext
    <3> QED BY <3>1, DemoTexts
  <2>2. q = [st EXCEPT !.page = p]
    BY <1>2 DEF PageToCursor
  <2> HIDE DEF p, q
  <2>3. Same(st, q) /\ q.page = p /\ q.contexts = st.contexts
    BY <2>1, <2>2, PageSame
  <2>4. Shown(q)
    BY <2>3 DEF Shown, p, Context, Same
  <2> QED BY <2>3, <2>4 DEF q
<1> QED BY <1>1, <1>2

LEMMA MoveCursorToSame ==
  ASSUME NEW st, Good(st), NEW i \in Nat, NEW fails \in BOOLEAN
  PROVE  LET q == MoveCursorTo(st, i, fails)
         IN /\ Same(st, q)
            /\ (i < Count(Context(st)) /\ ~fails) \/ Shown(st) => Shown(q)
            /\ fails => Context(q).cursor = Context(st).cursor
<1> DEFINE c == [Context(st) EXCEPT !.cursor = i]
           q == MoveCursorTo(st, i, fails)
<1>1. Context(st) \in ClientContext /\ st \in Calls /\ Count(Context(st)) \in Nat
  BY GoodIs DEF Good
<1>2. CASE i >= Count(Context(st))
  <2>1. q = st
    BY <1>2 DEF MoveCursorTo
  <2> QED BY <1>1, <1>2, <2>1 DEF Same
<1>3. CASE ~(i >= Count(Context(st))) /\ i = Context(st).cursor
  <2>1. q = PageToCursor(st)
    BY <1>3 DEF MoveCursorTo
  <2>2. Context(q) = Context(st)
    BY <2>1, PageToCursorSame DEF Same, Context
  <2> QED BY <2>1, <2>2, PageToCursorSame
<1>4. CASE /\ ~(i >= Count(Context(st))) /\ i # Context(st).cursor
           /\ fails \/ st.active \notin Hovering
  <2>1. q = st
    BY <1>4 DEF MoveCursorTo
  <2> QED BY <1>4, <2>1 DEF Same, Shown
<1>5. CASE /\ ~(i >= Count(Context(st))) /\ i # Context(st).cursor
           /\ ~(fails \/ st.active \notin Hovering)
  <2>1. c \in ClientContext /\ c.known = Context(st).known /\ c.cursor = i
        /\ Count(c) = Count(Context(st))
    BY <1>1 DEF ClientContext, Count
  <2>2. OnList(c)
    BY <1>1, <1>5, <2>1 DEF OnList
  <2>3. q = PageToCursor(Put(st, c))
    BY <1>1, <1>5 DEF MoveCursorTo, Put, Calls, Context
  <2> HIDE DEF c
  <2>4. Good(Put(st, c)) /\ Same(st, Put(st, c))
    BY <2>1, <2>2, PutGood, PutSame
  <2> QED BY <1>5, <2>3, <2>4, PageToCursorSame, SameTrans
<1> QED BY <1>2, <1>3, <1>4, <1>5

LEMMA WithCapSame ==
  ASSUME NEW st, Good(st), NEW cap \in 1..MaxCap
  PROVE  /\ Same(st, WithCap(st, cap))
         /\ WithCap(st, cap).page = st.page /\ WithCap(st, cap).pane = st.pane
         /\ cap >= Context(st).cap =>
              /\ Count(Context(WithCap(st, cap))) >= Count(Context(st))
              /\ Count(Context(st)) > 0 =>
                   Context(WithCap(st, cap)).cursor = Context(st).cursor
<1> DEFINE one == [Context(st) EXCEPT !.cap = cap]
           at  == IF one.cursor < Count(one) THEN one.cursor ELSE 0
           c   == [one EXCEPT !.cursor = at]
<1>1. Context(st) \in ClientContext /\ st \in Calls /\ OnList(Context(st))
  BY GoodIs DEF Good
<1>2. /\ one \in ClientContext /\ one.known = Context(st).known /\ one.cap = cap
      /\ one.offered = Context(st).offered /\ one.cursor = Context(st).cursor
  BY <1>1 DEF ClientContext
<1>3. WithCap(st, cap) = Put(st, c)
  BY <1>1 DEF WithCap, Put, Calls, Context
<1> HIDE DEF one
<1>4. Count(one) \in Nat
  BY <1>2, CountIs
<1>5. at \in Nat /\ (Count(one) > 0 => at < Count(one))
  BY <1>2, <1>4 DEF ClientContext
<1> HIDE DEF at
<1>6. /\ c \in ClientContext /\ c.known = Context(st).known /\ c.cursor = at
      /\ Count(c) = Count(one)
  BY <1>2, <1>5 DEF ClientContext, Count
<1> HIDE DEF c
<1>7. Same(st, Put(st, c)) /\ Context(Put(st, c)) = c /\ Put(st, c).page = st.page
      /\ Put(st, c).pane = st.pane
  BY <1>1, <1>5, <1>6, PutSame, PutGood DEF OnList
<1>8. ASSUME cap >= Context(st).cap PROVE Count(one) >= Count(Context(st))
  BY <1>1, <1>2, <1>8, DemoTexts DEF Count, ClientContext
<1>9. ASSUME cap >= Context(st).cap, Count(Context(st)) > 0
      PROVE  at = Context(st).cursor
  <2>1. Context(st).cursor < Count(Context(st)) /\ Context(st).cursor \in Nat
        /\ Count(Context(st)) \in Nat
    BY <1>1, <1>9, CountIs DEF OnList, ClientContext
  <2> QED BY <1>2, <1>4, <1>8, <1>9, <2>1 DEF at
<1> QED BY <1>3, <1>6, <1>7, <1>8, <1>9

LEMMA OverridesSame ==
  ASSUME NEW st, Good(st), NEW b \in BOOLEAN
  PROVE  LET q == [st EXCEPT !.contexts[st.active].overrides = b]
         IN /\ Same(st, q) /\ q.page = st.page /\ q.pane = st.pane
            /\ Context(q).cap = Context(st).cap /\ Count(Context(q)) = Count(Context(st))
            /\ Context(q).cursor = Context(st).cursor
<1> DEFINE c == [Context(st) EXCEPT !.overrides = b]
           q == [st EXCEPT !.contexts[st.active].overrides = b]
<1>1. Context(st) \in ClientContext /\ st \in Calls /\ OnList(Context(st))
  BY GoodIs DEF Good
<1>2. /\ c \in ClientContext /\ c.known = Context(st).known /\ c.cap = Context(st).cap
      /\ Count(c) = Count(Context(st)) /\ c.cursor = Context(st).cursor
  BY <1>1 DEF ClientContext, Count
<1>3. q = Put(st, c)
  BY <1>1 DEF Put, Calls, Context
<1> HIDE DEF c, q
<1>4. Same(st, q) /\ q.page = st.page /\ q.pane = st.pane /\ Context(q) = c
  BY <1>1, <1>2, <1>3, PutSame, PutGood DEF OnList
<1>5. /\ Same(st, q) /\ q.page = st.page /\ q.pane = st.pane
      /\ Context(q).cap = Context(st).cap /\ Count(Context(q)) = Count(Context(st))
      /\ Context(q).cursor = Context(st).cursor
  BY <1>2, <1>4
<1> QED BY <1>5 DEF q

LEMMA GrowSame ==
  ASSUME NEW st, Good(st)
  PROVE  LET q == GrowCandidateList(st)
         IN /\ Same(st, q) /\ q.page = st.page
            /\ Count(Context(q)) >= Count(Context(st))
            /\ Count(Context(st)) > 0 => Context(q).cursor = Context(st).cursor
<1> DEFINE q == GrowCandidateList(st)
           cap == Context(st).cap
           next == cap + GrowPages * PageSize
           over == [st EXCEPT !.contexts[st.active].overrides = TRUE]
<1>1. cap \in 1..MaxCap /\ Count(Context(st)) \in Nat
  BY GoodIs DEF ClientContext
<1>2. next \in Nat /\ next >= cap
  <2>1. GrowPages * PageSize \in Nat
    BY DemoTexts
  <2> QED BY <1>1, <2>1, DemoTexts
<1>3. CASE Count(Context(st)) < cap \/ next > MaxCap
  <2>1. q = st
    BY <1>3 DEF GrowCandidateList
  <2> QED BY <1>1, <2>1 DEF Same
<1>4. CASE ~(Count(Context(st)) < cap \/ next > MaxCap)
  <2>1. q = WithCap(over, next)
    BY <1>4 DEF GrowCandidateList
  <2>2. next \in 1..MaxCap
    BY <1>1, <1>2, <1>4, DemoTexts
  <2> HIDE DEF next, q, over
  <2>3. /\ Same(st, over) /\ Good(over) /\ over.page = st.page
        /\ Context(over).cap = cap /\ Count(Context(over)) = Count(Context(st))
        /\ Context(over).cursor = Context(st).cursor
    BY OverridesSame DEF over, Same
  <2>4. /\ Same(over, q) /\ q.page = over.page
        /\ Count(Context(q)) >= Count(Context(over))
        /\ Count(Context(over)) > 0 => Context(q).cursor = Context(over).cursor
    BY <1>2, <2>1, <2>2, <2>3, WithCapSame
  <2>5. Same(st, q)
    BY <2>3, <2>4, SameTrans
  <2> QED BY <2>3, <2>4, <2>5 DEF q
<1> QED BY <1>3, <1>4

\* Paging and hovering leave the highlight where the user looks; one that fails
\* leaves it where it was.
Follows(st, q) == Same(st, q) /\ (Shown(st) /\ Count(Context(st)) > 0 => Shown(q))

Stays(st, q) ==
  Same(st, q) /\ (Count(Context(st)) > 0 => Context(q).cursor = Context(st).cursor)

LEMMA PageForwardFollows ==
  ASSUME NEW st, Good(st), NEW fails \in BOOLEAN
  PROVE  /\ ~fails => Follows(st, PageForward(st, fails))
         /\ fails => Stays(st, PageForward(st, fails))
<1> DEFINE past == (st.page + 1) * PageSize
           grown == IF past >= Count(Context(st)) THEN GrowCandidateList(st) ELSE st
           turned == [grown EXCEPT !.page = @ + 1]
           q == PageForward(st, fails)
<1>1. /\ Same(st, grown) /\ Good(grown) /\ grown.page = st.page /\ grown.active = st.active
      /\ Count(Context(st)) > 0 => Context(grown).cursor = Context(st).cursor
  BY GrowSame DEF Same
<1>2. past \in Nat
  BY GoodIs, DemoTexts
<1>3. CASE past < Count(Context(grown))
  <2>1. q = MoveCursorTo(turned, past, fails)
    BY <1>3 DEF PageForward
  <2> HIDE DEF past, grown
  <2>2. Good(turned) /\ Same(grown, turned) /\ Context(turned) = Context(grown)
    <3>1. grown.page + 1 \in Nat
      BY <1>1, GoodIs
    <3>2. Same(grown, turned) /\ turned.contexts = grown.contexts
      BY <1>1, <3>1, PageSame
    <3> HIDE DEF turned
    <3> QED BY <3>2 DEF Same, Context
  <2> HIDE DEF turned, q
  <2>3. /\ Same(turned, q) /\ (~fails => Shown(q))
        /\ fails => Context(q).cursor = Context(turned).cursor
    BY <1>2, <1>3, <2>1, <2>2, MoveCursorToSame
  <2>4. Same(st, q)
    BY <1>1, <2>2, <2>3, SameTrans
  <2>5. (~fails => Follows(st, q)) /\ (fails => Stays(st, q))
    BY <1>1, <2>2, <2>3, <2>4 DEF Follows, Stays
  <2> QED BY <2>5 DEF q
<1>4. CASE ~(past < Count(Context(grown)))
  <2>1. q = grown
    BY <1>4 DEF PageForward
  <2> HIDE DEF past, grown
  <2>3. ASSUME Shown(st), Count(Context(st)) > 0 PROVE Shown(grown)
    BY <1>1, <2>3 DEF Shown
  <2> QED BY <1>1, <2>1, <2>3 DEF Follows, Stays
<1> QED BY <1>3, <1>4

LEMMA PageBackFollows ==
  ASSUME NEW st, Good(st), NEW fails \in BOOLEAN
  PROVE  /\ ~fails => Follows(st, PageBack(st, fails))
         /\ fails => Stays(st, PageBack(st, fails))
<1> DEFINE q == PageBack(st, fails)
<1>1. CASE st.page = 0
  BY <1>1 DEF PageBack, Follows, Stays, Same
<1>2. CASE st.page # 0
  <2> DEFINE turned == [st EXCEPT !.page = @ - 1]
             i == (st.page - 1) * PageSize
  <2>1. q = MoveCursorTo(turned, i, fails)
    BY <1>2 DEF PageBack
  <2> DEFINE p == st.page - 1
  <2>2. p \in Nat
    BY <1>2, GoodIs
  <2>3. i \in Nat
    <3> HIDE DEF p
    <3>1. p * PageSize \in Nat
      BY <2>2, DemoTexts
    <3> QED BY <3>1 DEF p
  <2>7. Good(turned) /\ Same(st, turned) /\ Context(turned) = Context(st)
    <3>1. Same(st, turned) /\ turned.contexts = st.contexts
      BY <2>2, PageSame
    <3> HIDE DEF turned
    <3> QED BY <3>1 DEF Same, Context
  <2> HIDE DEF turned, q
  <2>4. Same(st, q) /\ (fails => Context(q).cursor = Context(st).cursor)
    BY <2>1, <2>7, <2>3, MoveCursorToSame, SameTrans
  <2>5. ASSUME ~fails, Shown(st), Count(Context(st)) > 0, st.active \in Hovering
        PROVE  Shown(q)
    <3>1. /\ st.page = Context(st).cursor \div PageSize /\ Context(st).cursor \in Nat
          /\ Context(st).cursor < Count(Context(st)) /\ Count(Context(st)) \in Nat
      BY <2>5, GoodIs DEF Shown, OnList, ClientContext
    <3>2. i <= Context(st).cursor
      <4>1. (Context(st).cursor \div PageSize) * PageSize <= Context(st).cursor
        BY <3>1, DemoTexts
      <4>2. st.page * PageSize <= Context(st).cursor
        BY <3>1, <4>1
      <4>3. i = st.page * PageSize - PageSize
        BY <3>1, DemoTexts, GoodIs
      <4>4. st.page * PageSize \in Int /\ PageSize \in Nat
        BY GoodIs, DemoTexts
      <4> HIDE DEF i
      <4> QED BY <3>1, <4>2, <4>3, <4>4
    <3> HIDE DEF i
    <3>3. i < Count(Context(st))
      BY <2>3, <3>1, <3>2
    <3> QED BY <2>1, <2>5, <2>7, <2>3, <3>3, MoveCursorToSame
  <2>6. ASSUME st.active \notin Hovering PROVE Shown(q)
    BY <2>4, <2>6 DEF Same, Shown
  <2>8. (~fails => Follows(st, q)) /\ (fails => Stays(st, q))
    BY <2>4, <2>5, <2>6 DEF Follows, Stays
  <2> QED BY <2>8 DEF q
<1> QED BY <1>1, <1>2

LEMMA MoveUpFollows ==
  ASSUME NEW st, Good(st), NEW fails \in BOOLEAN
  PROVE  Follows(st, MoveUp(st, fails)) /\ (fails => Stays(st, MoveUp(st, fails)))
<1> DEFINE i == IF Context(st).cursor = 0 THEN 0 ELSE Context(st).cursor - 1
<1>1. Context(st).cursor \in Nat
  BY GoodIs DEF ClientContext
<1>2. i \in Nat
  BY <1>1
<1>3. MoveUp(st, fails) = MoveCursorTo(st, i, fails)
  BY DEF MoveUp
<1> HIDE DEF i
<1> QED BY <1>2, <1>3, MoveCursorToSame DEF Follows, Stays

LEMMA MoveDownFollows ==
  ASSUME NEW st, Good(st), NEW fails \in BOOLEAN
  PROVE  Count(Context(st)) > 0 =>
           Follows(st, MoveDown(st, fails)) /\ (fails => Stays(st, MoveDown(st, fails)))
<1> DEFINE target == Context(st).cursor + 1
           grown == IF target >= Count(Context(st)) THEN GrowCandidateList(st) ELSE st
           i == IF target >= Count(Context(grown)) THEN Count(Context(grown)) - 1 ELSE target
           q == MoveDown(st, fails)
<1> SUFFICES ASSUME Count(Context(st)) > 0
             PROVE  Follows(st, q) /\ (fails => Stays(st, q))
  OBVIOUS
<1>1. target \in Nat /\ Count(Context(st)) \in Nat
  BY GoodIs DEF ClientContext
<1>2. /\ Same(st, grown) /\ Good(grown) /\ Count(Context(grown)) >= Count(Context(st))
      /\ grown.page = st.page /\ grown.active = st.active
      /\ Context(grown).cursor = Context(st).cursor
  <2>1. CASE target >= Count(Context(st))
    BY <2>1, GrowSame DEF Same
  <2>2. CASE ~(target >= Count(Context(st)))
    BY <1>1, <2>2 DEF Same
  <2> QED BY <2>1, <2>2
<1>3. q = MoveCursorTo(grown, i, fails)
  BY DEF MoveDown
<1> HIDE DEF grown, q
<1>4. Count(Context(grown)) \in Nat
  BY <1>2, GoodIs
<1>5. i \in Nat
  BY <1>1, <1>2, <1>4
<1> HIDE DEF i
<1>6. Shown(st) => Shown(grown)
  BY <1>2 DEF Shown
<1>7. /\ Same(grown, q) /\ (Shown(grown) => Shown(q))
      /\ fails => Context(q).cursor = Context(grown).cursor
  BY <1>2, <1>3, <1>5, MoveCursorToSame
<1>8. Same(st, q)
  BY <1>2, <1>7, SameTrans
<1> QED BY <1>2, <1>6, <1>7, <1>8 DEF Follows, Stays

-------------------------------------------------------------------------------
(* The document, and what the library is told of it.                       *)

\* The document replaced.
LEMMA DocumentGood ==
  ASSUME NEW st, Good(st), NEW d \in Seq(Scalars)
  PROVE  LET q == [st EXCEPT !.document = d]
         IN /\ Good(q) /\ q.document = d /\ q.surrounding = st.surrounding
            /\ q.snapshot = st.snapshot /\ q.active = st.active /\ q.page = st.page
            /\ q.contexts = st.contexts /\ q.deletion = st.deletion
<1>1. st \in Calls
  BY DEF Good
<1>2. [st EXCEPT !.document = d] \in Calls
  BY <1>1 DEF Calls
<1> QED BY <1>1, <1>2 DEF Good, Calls

\* What the active context holds of it.
LEMMA KnownGood ==
  ASSUME NEW st, Good(st), NEW known \in SUBSET Seq(Scalars)
  PROVE  LET q == [st EXCEPT !.contexts[st.active].known = known]
         IN /\ Good(q) /\ q.document = st.document /\ q.surrounding = st.surrounding
            /\ q.snapshot = st.snapshot /\ q.active = st.active /\ q.page = st.page
            /\ q.deletion = st.deletion
            /\ Context(q).known = known /\ Count(Context(q)) = Count(Context(st))
            /\ Context(q).cursor = Context(st).cursor
<1> DEFINE c == [Context(st) EXCEPT !.known = known]
           q == [st EXCEPT !.contexts[st.active].known = known]
<1>1. Context(st) \in ClientContext /\ st \in Calls /\ OnList(Context(st))
  BY GoodIs DEF Good
<1>2. /\ c \in ClientContext /\ c.known = known
      /\ Count(c) = Count(Context(st)) /\ c.cursor = Context(st).cursor
  BY <1>1 DEF ClientContext, Count
<1>3. q = Put(st, c)
  BY <1>1 DEF Put, Calls, Context
<1> HIDE DEF c, q
<1>4. /\ Good(q) /\ q.document = st.document /\ q.surrounding = st.surrounding
      /\ q.snapshot = st.snapshot /\ q.active = st.active /\ q.page = st.page
      /\ q.deletion = st.deletion /\ Context(q) = c
  BY <1>1, <1>2, <1>3, PutGood DEF OnList
<1>5. /\ Good(q) /\ q.document = st.document /\ q.surrounding = st.surrounding
      /\ q.snapshot = st.snapshot /\ q.active = st.active /\ q.page = st.page
      /\ q.deletion = st.deletion
      /\ Context(q).known = known /\ Count(Context(q)) = Count(Context(st))
      /\ Context(q).cursor = Context(st).cursor
  BY <1>2, <1>4
<1> QED BY <1>5 DEF q

\* A text ends with its last so many.
LEMMA LastOfIs ==
  ASSUME NEW text \in Seq(Scalars), NEW count \in Nat
  PROVE  LastOf(text, count) \in Seq(Scalars)
BY DEF LastOf

LEMMA ErasedIs ==
  ASSUME NEW text \in Seq(Scalars), NEW start \in Nat, NEW count \in Nat,
         start + count <= Len(text)
  PROVE  Erased(text, start, count) \in Seq(Scalars)
<1>1. SubSeq(text, 1, start) \in Seq(Scalars)
  OBVIOUS
<1>2. SubSeq(text, start + count + 1, Len(text)) \in Seq(Scalars)
  OBVIOUS
<1> QED BY <1>1, <1>2 DEF Erased

\* What both refreshes and snapshots keep of the text, the caller may rely on.
Follow(st, q) ==
  /\ Good(q) /\ q.surrounding = st.surrounding /\ q.active = st.active
  /\ q.page = st.page /\ q.deletion = st.deletion
  /\ Count(Context(q)) = Count(Context(st)) /\ Context(q).cursor = Context(st).cursor

LEMMA RefreshTells ==
  ASSUME NEW st, Good(st)
  PROVE  /\ Believed(RefreshSurroundingText(st))
         /\ Follow(st, RefreshSurroundingText(st))
<1>1. CASE st.surrounding = "none"
  BY <1>1 DEF RefreshSurroundingText, Believed, Follow
<1>2. CASE st.surrounding # "none"
  <2> DEFINE text == Supplied(st)
             known == Holds(st.active, text)
             told == [st EXCEPT !.snapshot = text]
             q == [told EXCEPT !.contexts[told.active].known = known]
  <2>1. st \in Calls /\ st.document \in Seq(Scalars)
    BY GoodIs DEF Good
  <2>2. text \in Seq(Scalars)
    BY <2>1, LastOfIs DEF Supplied
  <2> HIDE DEF text
  <2>3. known \in SUBSET Seq(Scalars)
    BY <2>2 DEF Holds
  <2> HIDE DEF known
  <2>4. RefreshSurroundingText(st) = q
    BY <1>2, <2>1 DEF RefreshSurroundingText, text, known, Calls
  <2>5. told \in Calls
    BY <2>1, <2>2 DEF Calls
  <2>6. /\ told.document = st.document /\ told.surrounding = st.surrounding
        /\ told.snapshot = text /\ told.active = st.active /\ told.page = st.page
        /\ told.contexts = st.contexts /\ told.deletion = st.deletion
    BY <2>1 DEF Calls
  <2> HIDE DEF told
  <2>7. Good(told)
    BY <2>5, <2>6 DEF Good
  <2>8. /\ Good(q) /\ q.document = told.document /\ q.surrounding = told.surrounding
        /\ q.snapshot = told.snapshot /\ q.active = told.active /\ q.page = told.page
        /\ q.deletion = told.deletion
        /\ Context(q).known = known /\ Count(Context(q)) = Count(Context(told))
        /\ Context(q).cursor = Context(told).cursor
    BY <2>3, <2>7, KnownGood
  <2>9. Context(told) = Context(st)
    BY <2>6 DEF Context
  <2> HIDE DEF q
  <2>10. Follow(st, q)
    BY <2>6, <2>8, <2>9 DEF Follow
  <2>11. Supplied(q) = text
    BY <2>6, <2>8 DEF Supplied, text
  <2>12. Believed(q)
    BY <2>6, <2>8, <2>11 DEF Believed, known
  <2> QED BY <2>4, <2>10, <2>12
<1> QED BY <1>1, <1>2

\* What is committed goes into the document, and the library knows no snapshot.
LEMMA CommittedFollow ==
  ASSUME NEW st, Good(st), NEW text \in Seq(Scalars)
  PROVE  Follow(st, Committed(st, text))
<1>1. CASE text = <<>>
  BY <1>1 DEF Committed, Follow
<1>2. CASE text # <<>>
  <2> DEFINE d == st.document \o text
             none == {}
             longer == [st EXCEPT !.document = d]
             q == [longer EXCEPT !.contexts[longer.active].known = none]
  <2>1. st \in Calls /\ d \in Seq(Scalars) /\ none \in SUBSET Seq(Scalars)
    BY GoodIs DEF Good
  <2>2. Committed(st, text) = q
    BY <1>2, <2>1 DEF Committed, Calls
  <2> HIDE DEF d, none
  <2>3. /\ Good(longer) /\ longer.surrounding = st.surrounding
        /\ longer.active = st.active /\ longer.page = st.page
        /\ longer.contexts = st.contexts /\ longer.deletion = st.deletion
    BY <2>1, DocumentGood
  <2> HIDE DEF longer
  <2>4. /\ Good(q) /\ q.surrounding = longer.surrounding
        /\ q.active = longer.active /\ q.page = longer.page
        /\ q.deletion = longer.deletion
        /\ Count(Context(q)) = Count(Context(longer))
        /\ Context(q).cursor = Context(longer).cursor
    BY <2>1, <2>3, KnownGood
  <2>5. Context(longer) = Context(st)
    BY <2>3 DEF Context
  <2> HIDE DEF q
  <2>6. Follow(st, q)
    BY <2>3, <2>4, <2>5 DEF Follow
  <2> QED BY <2>2, <2>6
<1> QED BY <1>1, <1>2

\* The events the program offers: the keys of the user's, and two of its own.
OfferedEvents ==
  {ToPathimeKey(c) : c \in Typed} \cup {NamedEvent("Backspace"), NamedEvent("Enter")}

LEMMA KeysymIs ==
  ASSUME NEW c \in Scalars
  PROVE  KeysymScalar(ToPathimeKey(c).keysym) = {c}
<1>1. c \in Nat /\ c <= 1114111
  BY DEF Scalars, IsScalarValue
<1>2. CASE c < 256
  BY <1>1, <1>2 DEF ToPathimeKey, KeysymForScalar, KeysymScalar
<1>3. CASE ~(c < 256)
  <2> DEFINE k == 16777216 + c
  <2>1. ToPathimeKey(c).keysym = k
    BY <1>3 DEF ToPathimeKey, KeysymForScalar, UnicodeKeysymBase
  <2>2. k \div 16777216 = 1 /\ k % 16777216 = c /\ ~(k < 256)
    BY <1>1
  <2> HIDE DEF k
  <2> QED BY <2>1, <2>2 DEF KeysymScalar, UnicodeKeysymBase
<1> QED BY <1>2, <1>3

\* What a declined character inserts.
LEMMA InsertedIs ==
  ASSUME NEW event \in OfferedEvents
  PROVE  LET inserted == {c \in KeysymScalar(event.keysym) : c >= 32}
         IN inserted # {} => SetToSeq(inserted) \in Seq(Scalars)
<1> DEFINE inserted == {c \in KeysymScalar(event.keysym) : c >= 32}
<1> SUFFICES ASSUME inserted # {} PROVE SetToSeq(inserted) \in Seq(Scalars)
  OBVIOUS
<1>1. PICK a \in Scalars : KeysymScalar(event.keysym) = {a}
  <2>1. CASE event \in {NamedEvent("Backspace"), NamedEvent("Enter")}
    <3>1. KeysymScalar(event.keysym) = {}
      BY <2>1 DEF KeysymScalar, NamedEvent, Named, UnicodeKeysymBase
    <3> QED BY <3>1
  <2>2. CASE event \in {ToPathimeKey(c) : c \in Typed}
    BY <2>2, KeysymIs, DemoTexts
  <2> QED BY <2>1, <2>2 DEF OfferedEvents
<1>2. inserted = {a}
  BY <1>1
<1> HIDE DEF inserted
<1>3. Cardinality(inserted) = 1
  BY <1>2, FS_Singleton
<1> DEFINE one == [i \in 1..1 |-> a]
<1>4. one \in [1..Cardinality(inserted) -> inserted] /\ IsInjective(one)
  BY <1>2, <1>3 DEF IsInjective
<1>5. SetToSeq(inserted) \in [1..Cardinality(inserted) -> inserted]
  <2> HIDE DEF one
  <2> QED BY <1>4 DEF SetToSeq
<1>6. SetToSeq(inserted) \in [1..1 -> Scalars]
  BY <1>2, <1>3, <1>5
<1> DEFINE f == SetToSeq(inserted)
<1> HIDE DEF f
<1>7. f \in [1..1 -> Scalars]
  BY <1>6 DEF f
<1>8. f \in Seq(Scalars)
  <2>1. [1..1 -> Scalars] \in {[1..n -> Scalars] : n \in Nat}
    OBVIOUS
  <2> QED BY <1>7, <2>1, SeqDef, Zenon
<1> QED BY <1>8 DEF f, inserted

LEMMA UnhandledKeyFollow ==
  ASSUME NEW st, Good(st), NEW event \in OfferedEvents
  PROVE  Follow(st, UnhandledKey(st, event))
<1> DEFINE inserted == {c \in KeysymScalar(event.keysym) : c >= 32}
<1>1. st \in Calls /\ st.document \in Seq(Scalars)
  BY GoodIs DEF Good
<1>2. ASSUME NEW d \in Seq(Scalars) PROVE Follow(st, [st EXCEPT !.document = d])
  <2> DEFINE q == [st EXCEPT !.document = d]
  <2>1. /\ Good(q) /\ q.surrounding = st.surrounding /\ q.active = st.active
        /\ q.page = st.page /\ q.contexts = st.contexts /\ q.deletion = st.deletion
    BY DocumentGood
  <2> HIDE DEF q
  <2>2. Context(q) = Context(st)
    BY <2>1 DEF Context
  <2>3. Follow(st, q)
    BY <2>1, <2>2 DEF Follow
  <2> QED BY <2>3 DEF q
<1>3. CASE event.keysym = Named.Backspace /\ st.document # <<>>
  <2> DEFINE d == Erased(st.document, Len(st.document) - 1, 1)
  <2>1. d \in Seq(Scalars)
    <3>1. Len(st.document) \in Nat /\ Len(st.document) > 0
      BY <1>1, <1>3
    <3> QED BY <1>1, <3>1, ErasedIs
  <2>2. inserted = {}
    BY <1>3 DEF KeysymScalar, Named, UnicodeKeysymBase
  <2> HIDE DEF inserted
  <2>3. UnhandledKey(st, event) = [st EXCEPT !.document = d]
    BY <1>1, <1>3, <2>2 DEF UnhandledKey, Calls, inserted
  <2> HIDE DEF d
  <2> QED BY <1>2, <2>1, <2>3
<1>4. CASE ~(event.keysym = Named.Backspace /\ st.document # <<>>) /\ inserted # {}
  <2> DEFINE d == st.document \o SetToSeq(inserted)
  <2>1. d \in Seq(Scalars)
    BY <1>1, <1>4, InsertedIs
  <2>2. UnhandledKey(st, event) = [st EXCEPT !.document = d]
    BY <1>1, <1>4 DEF UnhandledKey, Calls
  <2> HIDE DEF d
  <2> QED BY <1>2, <2>1, <2>2
<1>5. CASE ~(event.keysym = Named.Backspace /\ st.document # <<>>) /\ inserted = {}
  <2>1. UnhandledKey(st, event) = st
    BY <1>5 DEF UnhandledKey
  <2> QED BY <2>1 DEF Follow
<1> QED BY <1>3, <1>4, <1>5

-------------------------------------------------------------------------------
(* Deletions.                                                              *)

\* The end of a text is the end of its end.
LEMMA EndOfEnd ==
  ASSUME NEW text \in Seq(Scalars), NEW tail \in Seq(Scalars), EndsWith(text, tail),
         NEW count \in Nat, count <= Len(tail)
  PROVE  LastOf(text, count) = LastOf(tail, count)
<1> DEFINE n == Len(text)
           m == Len(tail)
<1>1. n \in Nat /\ m \in Nat /\ m <= n
  BY DEF EndsWith
<1>2. \A i \in 1..m : tail[i] = text[n - m + i]
  <2>1. tail = SubSeq(text, n - m + 1, n)
    BY DEF EndsWith
  <2>2. \A i \in 1..m : SubSeq(text, n - m + 1, n)[i] = text[n - m + i]
    BY <1>1
  <2> QED BY <2>1, <2>2
<1>3. CASE count = m
  <2>1. LastOf(tail, count) = tail
    BY <1>1, <1>3 DEF LastOf
  <2>2. CASE m = n
    <3>1. SubSeq(text, 1, n) = text
      OBVIOUS
    <3>2. SubSeq(text, n - m + 1, n) = SubSeq(text, 1, n)
      BY <1>1, <2>2
    <3>3. tail = text
      BY <3>1, <3>2 DEF EndsWith
    <3> QED BY <2>1, <3>3, <1>3
  <2>3. CASE m < n
    <3>1. LastOf(text, count) = SubSeq(text, n - m + 1, n)
      BY <1>1, <1>3, <2>3 DEF LastOf
    <3> QED BY <2>1, <3>1 DEF EndsWith
  <2> QED BY <1>1, <2>2, <2>3
<1>4. CASE count < m
  <2>1. /\ LastOf(tail, count) = SubSeq(tail, m - count + 1, m)
        /\ LastOf(text, count) = SubSeq(text, n - count + 1, n)
    BY <1>1, <1>4 DEF LastOf
  <2> DEFINE a == SubSeq(tail, m - count + 1, m)
             b == SubSeq(text, n - count + 1, n)
  <2>2. /\ a \in Seq(Scalars) /\ b \in Seq(Scalars) /\ Len(a) = count /\ Len(b) = count
    BY <1>1, <1>4
  <2>3. \A i \in 1..count : a[i] = tail[m - count + i] /\ b[i] = text[n - count + i]
    <3>1. \A i \in 1..count : a[i] = tail[m - count + i]
      BY <1>1, <1>4
    <3>2. \A i \in 1..count : b[i] = text[n - count + i]
      BY <1>1, <1>4
    <3> QED BY <3>1, <3>2
  <2>4. \A i \in 1..count : a[i] = b[i]
    <3> HIDE DEF a, b
    <3> TAKE i \in 1..count
    <3>1. m - count + i \in 1..m
      BY <1>1, <1>4
    <3>2. tail[m - count + i] = text[n - m + (m - count + i)]
      BY <1>2, <3>1
    <3>3. n - m + (m - count + i) = n - count + i
      BY <1>1
    <3> QED BY <2>3, <3>2, <3>3
  <2> HIDE DEF a, b
  <2>5. a = b
    BY <2>2, <2>4, SeqEqual
  <2> QED BY <2>1, <2>5 DEF a, b
<1> QED BY <1>1, <1>3, <1>4

\* What is supplied is how the document ends.
LEMMA SuppliedEnds ==
  ASSUME NEW st, Good(st)
  PROVE  EndsWith(st.document, Supplied(st))
<1> DEFINE text == st.document
           n == Len(text)
<1>1. text \in Seq(Scalars) /\ n \in Nat
  BY GoodIs
<1>2. EndsWith(text, text)
  <2>1. SubSeq(text, 1, n) = text
    BY <1>1
  <2>2. n - n + 1 = 1
    BY <1>1
  <2> HIDE DEF text
  <2> QED BY <1>1, <2>1, <2>2 DEF EndsWith
<1>3. CASE n > 1
  <2> DEFINE tail == SubSeq(text, n - 1 + 1, n)
  <2>1. Len(tail) = 1 /\ LastOf(text, 1) = tail
    BY <1>1, <1>3 DEF LastOf
  <2> HIDE DEF text
  <2>2. EndsWith(text, tail)
    BY <1>1, <1>3, <2>1 DEF EndsWith
  <2> QED BY <1>2, <2>1, <2>2 DEF Supplied, text
<1>4. CASE ~(n > 1)
  <2>1. LastOf(text, 1) = text
    BY <1>1, <1>4 DEF LastOf
  <2> QED BY <1>2, <2>1 DEF Supplied
<1> QED BY <1>3, <1>4

LEMMA DeletionGood ==
  ASSUME NEW st, Good(st), NEW asked \in Seq(Scalars), NEW removed \in Seq(Scalars)
  PROVE  LET q == [st EXCEPT !.deletion = [asked |-> asked, removed |-> removed]]
         IN /\ Good(q) /\ q.document = st.document /\ q.surrounding = st.surrounding
            /\ q.snapshot = st.snapshot /\ q.active = st.active /\ q.page = st.page
            /\ q.contexts = st.contexts
            /\ q.deletion = [asked |-> asked, removed |-> removed]
<1>1. st \in Calls
  BY DEF Good
<1>2. [st EXCEPT !.deletion = [asked |-> asked, removed |-> removed]] \in Calls
  BY <1>1 DEF Calls
<1> QED BY <1>1, <1>2 DEF Good, Calls

\* A deletion of some of what the context holds.
LEMMA DeletedIs ==
  ASSUME NEW st, Good(st), st.deletion = NoDeletion, NEW k \in Deletions(st)
  PROVE  LET q == Deleted(st, k)
         IN /\ Good(q)
            /\ Believed(st) /\ st.surrounding # "none" =>
                 q.deletion.removed = q.deletion.asked
            /\ Context(st).known = {st.snapshot} =>
                 q.deletion.removed \in {<<>>, q.deletion.asked}
<1>1. CASE k = 0
  BY <1>1 DEF Deleted, NoDeletion
<1>2. CASE k # 0
  <2> DEFINE known == Context(st).known
             held == CHOOSE text \in known : TRUE
             asked == LastOf(held, k)
             none == <<>>
             meant == [st EXCEPT !.deletion.asked = asked]
             q == Deleted(st, k)
  <2>1. /\ st \in Calls /\ known \in SUBSET Seq(Scalars) /\ st.document \in Seq(Scalars)
        /\ st.snapshot \in Seq(Scalars) /\ st.active \in Revising
    BY <1>2, GoodIs DEF Good, ClientContext, Deletions
  <2>2. PICK text \in known : k \in 1..Len(text)
    BY <1>2, <2>1 DEF Deletions
  <2>3. held \in known /\ held \in Seq(Scalars) /\ k \in Nat /\ k # 0
    BY <2>1, <2>2
  <2>4. q = OnDelete(meant, k)
    BY <2>3 DEF Deleted
  <2> HIDE DEF held
  <2>5. asked \in Seq(Scalars) /\ none \in Seq(Scalars)
    BY <2>3, LastOfIs
  <2> HIDE DEF asked
  <2>6. meant = [st EXCEPT !.deletion = [asked |-> asked, removed |-> none]]
    BY <2>1 DEF NoDeletion, Calls
  <2> HIDE DEF none, meant
  <2>7. /\ Good(meant) /\ meant.document = st.document /\ meant.snapshot = st.snapshot
        /\ meant.deletion = [asked |-> asked, removed |-> none]
    BY <2>5, <2>6, DeletionGood
  <2>8. ASSUME known = {st.snapshot} PROVE asked = LastOf(st.snapshot, k)
    BY <2>3, <2>8 DEF asked
  <2>9. CASE ~EndsWith(st.document, st.snapshot) \/ k > Len(st.snapshot)
    <3>1. q = meant
      BY <2>4, <2>7, <2>9 DEF OnDelete
    <3>2. ASSUME Believed(st), st.surrounding # "none" PROVE FALSE
      <4>1. st.snapshot = Supplied(st) /\ known = {st.snapshot}
        BY <2>1, <2>2, <3>2 DEF Believed, Holds
      <4> HIDE DEF known
      <4>2. EndsWith(st.document, st.snapshot)
        BY <4>1, SuppliedEnds
      <4>3. k <= Len(st.snapshot)
        BY <2>1, <2>2, <4>1
      <4> QED BY <2>1, <2>3, <2>9, <4>2, <4>3
    <3>3. q.deletion.removed = none
      BY <2>7, <3>1
    <3> QED BY <2>7, <3>1, <3>2, <3>3 DEF q, none
  <2>10. CASE ~(~EndsWith(st.document, st.snapshot) \/ k > Len(st.snapshot))
    <3> DEFINE d == Erased(st.document, Len(st.document) - k, k)
               removed == LastOf(st.document, k)
               shorter == [meant EXCEPT !.document = d]
    <3>1. d \in Seq(Scalars)
      <4> DEFINE n == Len(st.document)
                 m == Len(st.snapshot)
      <4>1. n \in Nat /\ m \in Nat
        BY <2>1
      <4>2. m <= n /\ ~(k > m)
        BY <2>10 DEF EndsWith
      <4> HIDE DEF n, m
      <4>3. n - k \in Nat /\ n - k + k <= n
        BY <2>3, <4>1, <4>2
      <4> QED BY <2>1, <2>3, <4>3, ErasedIs DEF n
    <3>2. removed \in Seq(Scalars)
      BY <2>1, <2>3, LastOfIs
    <3>3. removed = LastOf(st.snapshot, k)
      BY <2>1, <2>3, <2>10, EndOfEnd
    <3>4. q = [shorter EXCEPT !.deletion = [asked |-> asked, removed |-> removed]]
      <4>1. meant \in Calls
        BY <2>7 DEF Good
      <4>2. q = [meant EXCEPT !.document = d, !.deletion.removed = removed]
        BY <2>4, <2>7, <2>10, <4>1 DEF OnDelete, Calls
      <4> HIDE DEF d, removed
      <4>3. [meant.deletion EXCEPT !.removed = removed]
              = [asked |-> asked, removed |-> removed]
        BY <2>7
      <4>4. q = [[meant EXCEPT !.document = d] EXCEPT
                   !.deletion = [meant.deletion EXCEPT !.removed = removed]]
        BY <4>1, <4>2 DEF Calls
      <4> QED BY <4>3, <4>4
    <3> HIDE DEF d, removed
    <3>5. Good(shorter)
      BY <2>7, <3>1, DocumentGood
    <3> HIDE DEF shorter, q
    <3>6. Good(q) /\ q.deletion = [asked |-> asked, removed |-> removed]
      BY <2>5, <3>2, <3>4, <3>5, DeletionGood
    <3>7. ASSUME known = {st.snapshot} PROVE q.deletion.removed = q.deletion.asked
      BY <2>8, <3>3, <3>6, <3>7
    <3>8. ASSUME Believed(st), st.surrounding # "none" PROVE known = {st.snapshot}
      BY <2>1, <2>2, <3>8 DEF Believed, Holds
    <3> QED BY <3>6, <3>7, <3>8 DEF q
  <2> QED BY <2>9, <2>10
<1> QED BY <1>1, <1>2

-------------------------------------------------------------------------------
(* One call of the user's.                                                 *)

\* The deletion of a call, against the state it found.
Right(st) ==
  /\ surrounding # "none" => st.deletion.removed = st.deletion.asked
  /\ Composition.known = {snapshotText} =>
       st.deletion.removed \in {<<>>, st.deletion.asked}

\* What one call may leave.
Fine(st) == Good(st) /\ Believed(st) /\ Right(st)

LEMMA NowIs ==
  /\ Now.document = document /\ Now.surrounding = surrounding
  /\ Now.snapshot = snapshotText /\ Now.active = active /\ Now.page = page
  /\ Now.pane = pane /\ Now.contexts = slotContexts /\ Now.deletion = NoDeletion
  /\ Context(Now) = Composition
BY DEF Now, Context, Composition

LEMMA NoneIsRight ==
  ASSUME NEW st, st.deletion = NoDeletion
  PROVE  Right(st)
BY DEF Right, NoDeletion

LEMMA RefreshFine ==
  ASSUME NEW st, Good(st), Right(st)
  PROVE  Fine(RefreshSurroundingText(st)) /\ Follow(st, RefreshSurroundingText(st))
<1> DEFINE q == RefreshSurroundingText(st)
<1>1. Believed(q) /\ Follow(st, q)
  BY RefreshTells
<1> HIDE DEF q
<1>2. Good(q) /\ Right(q)
  BY <1>1 DEF Follow, Right
<1>3. Fine(q) /\ Follow(st, q)
  BY <1>1, <1>2 DEF Fine
<1> QED BY <1>3 DEF q

LEMMA AnswersRight ==
  ASSUME DemoInv, NEW st \in Answers(Now)
  PROVE  Good(st) /\ Right(st)
<1>1. Good(Now) /\ Believed(Now)
  BY DEF DemoInv
<1>2. PICK k \in Deletions(Now), text \in Produced \cup {<<>>},
           next \in Compositions(Now) \cup Advanced(Now) :
        st = Committed(Deleted(next, k), text)
  BY DEF Answers
<1>3. Same(Now, next) /\ Good(next)
  BY <1>1, CompositionsSame, AdvancedSame DEF Same
<1>4. text \in Seq(Scalars)
  <2>1. <<>> \in Seq(Scalars)
    OBVIOUS
  <2> QED BY <2>1, DemoTexts
<1> DEFINE q == Deleted(next, k)
<1>5. k \in Deletions(next)
  BY <1>3 DEF Deletions, Same
<1>6. next.deletion = NoDeletion
  BY <1>3, NowIs DEF Same
<1>7. Believed(next)
  BY <1>1, <1>3 DEF Believed, Same, Supplied
<1>8. /\ Good(q)
      /\ next.surrounding # "none" => q.deletion.removed = q.deletion.asked
      /\ Context(next).known = {next.snapshot} =>
           q.deletion.removed \in {<<>>, q.deletion.asked}
  BY <1>3, <1>5, <1>6, <1>7, DeletedIs
<1> HIDE DEF q
<1>9. Right(q)
  BY <1>3, <1>8, NowIs DEF Right, Same
<1>10. Follow(q, st)
  BY <1>2, <1>4, <1>8, CommittedFollow DEF q
<1> QED BY <1>9, <1>10 DEF Follow, Right

\* The first conjunct of an action property each, as an action.
DeletionStep ==
  /\ surrounding # "none" => deletion'.removed = deletion'.asked
  /\ Composition.known = {snapshotText} => deletion'.removed \in {<<>>, deletion'.asked}

LEMMA LeaveKeeps ==
  ASSUME NEW st, Fine(st), Leave(st)
  PROVE  DemoInv' /\ DeletionStep /\ (Shown(st) => HighlightIsShown')
<1>1. /\ Good(st) /\ Believed(st) /\ Right(st) /\ st \in Calls
      /\ \A s \in Slots : OnList(st.contexts[s])
  BY DEF Fine, Good
<1>2. /\ document' = st.document /\ surrounding' = st.surrounding
      /\ snapshotText' = st.snapshot /\ active' = st.active /\ page' = st.page
      /\ pane' = st.pane /\ slotContexts' = st.contexts /\ deletion' = st.deletion
  BY DEF Leave
<1> DEFINE q == Now'
<1>3. q = [document |-> st.document, surrounding |-> st.surrounding,
           snapshot |-> st.snapshot, active |-> st.active, page |-> st.page,
           pane |-> st.pane, contexts |-> st.contexts, deletion |-> NoDeletion]
  BY <1>2 DEF Now
<1> HIDE DEF q
<1>4. q \in Calls
  <2>1. NoDeletion \in [asked : Seq(Scalars), removed : Seq(Scalars)]
    BY DEF NoDeletion
  <2> QED BY <1>1, <1>3, <2>1, GoodIs DEF Calls
<1>5. /\ q.document = st.document /\ q.surrounding = st.surrounding
      /\ q.snapshot = st.snapshot /\ q.active = st.active /\ q.contexts = st.contexts
  BY <1>3
<1>6. Context(q) = Context(st)
  BY <1>5 DEF Context
<1>7. Good(q) /\ Believed(q)
  BY <1>1, <1>4, <1>5, <1>6 DEF Good, Believed, Supplied
<1>8. DemoInv'
  <2>1. Good(Now') /\ Believed(Now')
    BY <1>7 DEF q
  <2> QED BY <2>1 DEF DemoInv, Good, Believed
<1>9. DeletionStep
  BY <1>1, <1>2 DEF DeletionStep, Right
<1>10. ASSUME Shown(st) PROVE HighlightIsShown'
  <2>1. Composition' = Context(st)
    BY <1>2 DEF Composition, Context
  <2>2. page' = st.page /\ active' = st.active
    BY <1>2
  <2> QED BY <1>10, <2>1, <2>2 DEF HighlightIsShown, Listing, Shown
<1> QED BY <1>8, <1>9, <1>10

\* A call that replaces neither the document nor what is known of it.
LEMMA SameFine ==
  ASSUME DemoInv, NEW st, Same(Now, st)
  PROVE  Fine(st)
<1>1. Good(Now) /\ Believed(Now)
  BY DEF DemoInv
<1>2. Good(st) /\ st.deletion = NoDeletion
  BY NowIs DEF Same
<1>3. Believed(st)
  BY <1>1 DEF Believed, Same, Supplied
<1> QED BY <1>2, <1>3, NoneIsRight DEF Fine

\* A call that deletes nothing, and tells the library of the document at the end.
Plain(st) == Good(st) /\ st.deletion = NoDeletion

LEMMA PlainFine ==
  ASSUME NEW st, Plain(st)
  PROVE  Fine(RefreshSurroundingText(st))
BY NoneIsRight, RefreshFine DEF Plain

LEMMA NowPlain ==
  ASSUME DemoInv
  PROVE  Plain(Now)
BY NowIs DEF Plain, DemoInv

LEMMA CommittedPlain ==
  ASSUME NEW st, Plain(st), NEW text \in Seq(Scalars)
  PROVE  Plain(Committed(st, text))
BY CommittedFollow DEF Plain, Follow

LEMMA FirstPagePlain ==
  ASSUME NEW st, Plain(st)
  PROVE  Plain([st EXCEPT !.page = 0])
<1> DEFINE q == [st EXCEPT !.page = 0]
<1>1. Good(st) /\ st.deletion = NoDeletion
  BY DEF Plain
<1>2. Same(st, q)
  BY <1>1, PageSame
<1> HIDE DEF q
<1>3. Plain(q)
  BY <1>1, <1>2 DEF Same, Plain
<1> QED BY <1>3 DEF q

LEMMA ResetPlain ==
  ASSUME NEW st, Plain(st)
  PROVE  Plain(Reset(st))
<1>1. Plain(Emptied(st))
  BY EmptiedSame DEF Plain, Same
<1> QED BY <1>1, FirstPagePlain DEF Reset

LEMMA CommitCompositionPlain ==
  ASSUME NEW st, Plain(st)
  PROVE  Plain(CommitComposition(st))
<1>1. Context(st).preedit \in Seq(Scalars)
  BY GoodIs DEF Plain, ClientContext
<1>2. Plain(Committed(st, Context(st).preedit))
  BY <1>1, CommittedPlain
<1> QED BY <1>2, ResetPlain DEF CommitComposition

LEMMA DocumentPlain ==
  ASSUME NEW st, Plain(st), NEW d \in Seq(Scalars)
  PROVE  Plain([st EXCEPT !.document = d])
BY DocumentGood DEF Plain

\* A key the program offers an engine.
LEMMA OfferKeeps ==
  ASSUME DemoInv, NEW event \in OfferedEvents, Offer(event)
  PROVE  DemoInv' /\ DeletionStep /\ HighlightIsShown'
<1>1. Good(Now) /\ Plain(Now)
  BY NowPlain DEF DemoInv
<1>2. CASE Leave(RefreshSurroundingText(Recovered(Now)))
  <2> DEFINE q == Recovered(Now)
             r == RefreshSurroundingText(q)
  <2>1. Plain(PageToCursor(Now))
    BY <1>1, PageToCursorSame DEF Plain, Same
  <2>2. Plain(q) /\ Shown(q)
    BY <2>1, EmptiedSame DEF Recovered, Plain, Same
  <2> HIDE DEF q
  <2>3. Fine(r) /\ Follow(q, r)
    BY <2>2, NoneIsRight, RefreshFine DEF Plain
  <2> HIDE DEF r
  <2>4. Shown(r)
    BY <2>2, <2>3 DEF Shown, Follow
  <2>5. Leave(r)
    BY <1>2 DEF r, q
  <2> QED BY <2>3, <2>4, <2>5, LeaveKeeps
<1>3. ASSUME NEW st \in Answers(Now),
             \/ Leave(RefreshSurroundingText(PageToCursor(st)))
             \/ Leave(RefreshSurroundingText(UnhandledKey(PageToCursor(st), event)))
      PROVE  DemoInv' /\ DeletionStep /\ HighlightIsShown'
  <2> DEFINE on == PageToCursor(st)
  <2>1. Good(st) /\ Right(st)
    BY AnswersRight
  <2>2. Good(on) /\ Right(on) /\ Shown(on)
    BY <2>1, PageToCursorSame DEF Same, Right
  <2> HIDE DEF on
  <2>3. ASSUME NEW x, Follow(on, x), Leave(RefreshSurroundingText(x))
        PROVE  DemoInv' /\ DeletionStep /\ HighlightIsShown'
    <3> DEFINE r == RefreshSurroundingText(x)
    <3>1. Good(x) /\ Right(x) /\ Shown(x)
      BY <2>2, <2>3 DEF Follow, Right, Shown
    <3>2. Fine(r) /\ Follow(x, r) /\ Leave(r)
      BY <2>3, <3>1, RefreshFine
    <3> HIDE DEF r
    <3>3. Shown(r)
      BY <3>1, <3>2 DEF Shown, Follow
    <3> QED BY <3>2, <3>3, LeaveKeeps
  <2>4. Follow(on, on)
    BY <2>2 DEF Follow
  <2>5. Follow(on, UnhandledKey(on, event))
    BY <2>2, UnhandledKeyFollow
  <2> QED BY <1>3, <2>3, <2>4, <2>5 DEF on
<1> QED BY <1>2, <1>3 DEF Offer

-------------------------------------------------------------------------------
(* Every action.                                                           *)

LEMMA KeysKeep ==
  ASSUME DemoInv, TypeCharacter \/ Backspace \/ OtherKey
  PROVE  DemoInv' /\ DeletionStep /\ HighlightIsShown'
<1>1. CASE TypeCharacter
  <2>1. PICK c \in Typed : Offer(ToPathimeKey(c))
    BY <1>1 DEF TypeCharacter
  <2>2. ToPathimeKey(c) \in OfferedEvents
    BY DEF OfferedEvents
  <2> QED BY <2>1, <2>2, OfferKeeps
<1>2. CASE Backspace \/ OtherKey
  <2>1. NamedEvent("Backspace") \in OfferedEvents /\ NamedEvent("Enter") \in OfferedEvents
    BY DEF OfferedEvents
  <2> QED BY <1>2, <2>1, OfferKeeps DEF Backspace, OtherKey
<1> QED BY <1>1, <1>2

\* What a call that moves the page or the highlight leaves.
LEMMA HoverLeaves ==
  ASSUME DemoInv, NEW st, Leave(st), Same(Now, st), Count(Context(Now)) > 0
  PROVE  /\ DemoInv' /\ DeletionStep
         /\ Follows(Now, st) => (HighlightIsShown => HighlightIsShown')
         /\ Stays(Now, st) => Composition'.cursor = Composition.cursor
<1>1. Fine(st)
  BY SameFine
<1>2. HighlightIsShown => Shown(Now)
  BY NowIs DEF HighlightIsShown, Shown, Listing
<1>3. Composition' = Context(st) /\ Composition = Context(Now)
  BY NowIs DEF Composition, Context, Leave
<1> QED BY <1>1, <1>2, <1>3, LeaveKeeps DEF Follows, Stays

\* A page or the highlight moves, or is to move in vain.
LEMMA HoverKeeps ==
  ASSUME DemoInv, NEW fails \in BOOLEAN
  PROVE  /\ TurnPage(fails) \/ MoveHover(fails) =>
              /\ DemoInv' /\ DeletionStep
              /\ fails => Composition'.cursor = Composition.cursor
         /\ (TurnPage(fails) /\ ~fails) \/ MoveHover(fails) =>
              (HighlightIsShown => HighlightIsShown')
<1>1. Good(Now)
  BY DEF DemoInv
<1>2. ASSUME TurnPage(fails)
      PROVE  /\ DemoInv' /\ DeletionStep
             /\ fails => Composition'.cursor = Composition.cursor
             /\ ~fails => (HighlightIsShown => HighlightIsShown')
  <2>1. Count(Context(Now)) > 0
    BY <1>2, NowIs DEF TurnPage, Listing
  <2>2. PICK st : /\ Leave(st) /\ (~fails => Follows(Now, st))
                  /\ fails => Stays(Now, st)
    BY <1>1, <1>2, PageForwardFollows, PageBackFollows DEF TurnPage
  <2>3. Same(Now, st)
    BY <2>2 DEF Follows, Stays
  <2> QED BY <2>1, <2>2, <2>3, HoverLeaves
<1>3. ASSUME MoveHover(fails)
      PROVE  /\ DemoInv' /\ DeletionStep
             /\ fails => Composition'.cursor = Composition.cursor
             /\ HighlightIsShown => HighlightIsShown'
  <2>1. Count(Context(Now)) > 0
    BY <1>3, NowIs DEF MoveHover, Listing
  <2>2. PICK st : Leave(st) /\ Follows(Now, st) /\ (fails => Stays(Now, st))
    BY <1>1, <1>3, <2>1, MoveUpFollows, MoveDownFollows DEF MoveHover
  <2>3. Same(Now, st)
    BY <2>2 DEF Follows
  <2> QED BY <2>1, <2>2, <2>3, HoverLeaves
<1> QED BY <1>2, <1>3

LEMMA PickDigitKeeps ==
  ASSUME DemoInv, PickDigit
  PROVE  DemoInv' /\ DeletionStep
<1>1. PICK next \in Compositions(Now), text \in Produced \cup {<<>>} :
        Leave(RefreshSurroundingText([Committed(next, text) EXCEPT !.page = 0]))
  BY DEF PickDigit
<1>2. Plain(next)
  BY NowPlain, CompositionsSame DEF Plain, Same
<1>3. text \in Seq(Scalars)
  <2>1. <<>> \in Seq(Scalars)
    OBVIOUS
  <2> QED BY <2>1, DemoTexts
<1>4. Plain([Committed(next, text) EXCEPT !.page = 0])
  BY <1>2, <1>3, CommittedPlain, FirstPagePlain
<1> QED BY <1>1, <1>4, PlainFine, LeaveKeeps

\* Another field of the call, for the engine and the amount supplied.
LEMMA ActivePlain ==
  ASSUME NEW st, Plain(st), NEW s \in Slots
  PROVE  Plain([st EXCEPT !.active = s])
<1>1. st \in Calls /\ \A t \in Slots : OnList(st.contexts[t])
  BY DEF Plain, Good
<1>2. [st EXCEPT !.active = s] \in Calls
  BY <1>1 DEF Calls
<1> QED BY <1>1, <1>2 DEF Plain, Good, Calls

LEMMA SurroundingPlain ==
  ASSUME NEW st, Plain(st), NEW how \in {"full", "fragment", "none"}
  PROVE  Plain([st EXCEPT !.surrounding = how])
<1>1. st \in Calls /\ \A t \in Slots : OnList(st.contexts[t])
  BY DEF Plain, Good
<1>2. [st EXCEPT !.surrounding = how] \in Calls
  BY <1>1 DEF Calls
<1> QED BY <1>1, <1>2 DEF Plain, Good, Calls

LEMMA SetActiveKeeps ==
  ASSUME DemoInv, NEW s \in Slots, SetActive(s)
  PROVE  DemoInv' /\ DeletionStep
<1> DEFINE other == [Now EXCEPT !.active = s]
           q == [other EXCEPT !.page = 0]
<1>1. Plain(q)
  <2>1. Plain(other)
    BY NowPlain, ActivePlain
  <2> HIDE DEF other
  <2> QED BY <2>1, FirstPagePlain
<1>2. [Now EXCEPT !.active = s, !.page = 0] = q
  BY DEF Now
<1>3. Leave(RefreshSurroundingText(q))
  BY <1>2 DEF SetActive
<1> HIDE DEF q
<1> QED BY <1>1, <1>3, PlainFine, LeaveKeeps

\* Text that arrives with no engine involved, and what ends a composition.
LEMMA TellingKeeps ==
  ASSUME DemoInv, CtrlR \/ CtrlT \/ CtrlO \/ CtrlU \/ CtrlD \/ Paste
  PROVE  DemoInv' /\ DeletionStep
<1>1. Plain(Now) /\ Good(Now)
  BY NowPlain DEF DemoInv
<1>2. \E st : Plain(st) /\ Leave(RefreshSurroundingText(st))
  <2>1. CASE CtrlR
    BY <1>1, <2>1, ResetPlain DEF CtrlR
  <2>2. CASE CtrlT
    BY <1>1, <2>2, CommitCompositionPlain DEF CtrlT
  <2>3. CASE CtrlO
    BY <1>1, <2>3, CommitCompositionPlain, ResetPlain DEF CtrlO
  <2>4. CASE CtrlU
    <3> DEFINE how == NextSurrounding[surrounding]
    <3>1. surrounding \in {"full", "fragment", "none"}
      BY <1>1, GoodIs, NowIs
    <3>2. how \in {"full", "fragment", "none"}
      BY <3>1 DEF NextSurrounding
    <3>3. [Now EXCEPT !.surrounding = NextSurrounding[@]] = [Now EXCEPT !.surrounding = how]
      BY DEF Now
    <3> HIDE DEF how
    <3>4. Leave(RefreshSurroundingText([Now EXCEPT !.surrounding = how]))
      BY <2>4, <3>3 DEF CtrlU
    <3> QED BY <1>1, <3>2, <3>4, SurroundingPlain
  <2>5. CASE CtrlD
    <3> DEFINE none == <<>>
    <3>1. none \in Seq(Scalars)
      OBVIOUS
    <3>2. Leave(RefreshSurroundingText([Now EXCEPT !.document = none]))
      BY <2>5 DEF CtrlD
    <3> HIDE DEF none
    <3> QED BY <1>1, <3>1, <3>2, DocumentPlain
  <2>6. CASE Paste
    <3>1. PICK text \in Pasted :
            Leave(RefreshSurroundingText([Now EXCEPT !.document = @ \o text]))
      BY <2>6 DEF Paste
    <3> DEFINE d == document \o text
    <3>2. d \in Seq(Scalars)
      BY <1>1, GoodIs, NowIs, DemoTexts
    <3>3. [Now EXCEPT !.document = @ \o text] = [Now EXCEPT !.document = d]
      BY DEF Now
    <3> HIDE DEF d
    <3>4. Leave(RefreshSurroundingText([Now EXCEPT !.document = d]))
      BY <3>1, <3>3
    <3> QED BY <1>1, <3>2, <3>4, DocumentPlain
  <2> QED BY <2>1, <2>2, <2>3, <2>4, <2>5, <2>6
<1> QED BY <1>2, PlainFine, LeaveKeeps

\* What the panel steps a cap to is a legal one.
LEMMA AdjustedCapIs ==
  ASSUME NEW cap \in 1..MaxCap, NEW step \in Steps
  PROVE  AdjustedInt(CapInfo, cap, step) \in 1..MaxCap
<1>1. step \in Int /\ MaxCap \in Nat /\ MaxCap >= 1
  BY DemoTexts DEF Steps
<1>2. CapInfo.min = 1 /\ CapInfo.max = MaxCap
  BY DEF CapInfo
<1> DEFINE v == cap + step
<1>3. v \in Int
  BY <1>1
<1> HIDE DEF v
<1>4. CASE v < 1
  BY <1>1, <1>2, <1>3, <1>4 DEF AdjustedInt, v
<1>5. CASE v > MaxCap
  <2>1. AdjustedInt(CapInfo, cap, step) = MaxCap
    BY <1>1, <1>2, <1>3, <1>5 DEF AdjustedInt, v
  <2> QED BY <1>1, <2>1
<1>6. CASE ~(v < 1) /\ ~(v > MaxCap)
  <2>1. AdjustedInt(CapInfo, cap, step) = v
    BY <1>1, <1>2, <1>3, <1>6 DEF AdjustedInt, v
  <2> QED BY <1>1, <1>3, <1>6, <2>1
<1> QED BY <1>4, <1>5, <1>6

LEMMA PanelKeeps ==
  ASSUME DemoInv, Tab \/ AdjustCap \/ ResetCap \/ AdjustResetting
  PROVE  DemoInv' /\ DeletionStep
<1>1. Good(Now) /\ Now.active = active /\ Now.deletion = NoDeletion
  BY NowIs DEF DemoInv
<1>2. ASSUME NEW b \in BOOLEAN, NEW cap \in 1..MaxCap
      PROVE  Same(Now, WithCap([Now EXCEPT !.contexts[active].overrides = b], cap))
  <2> DEFINE over == [Now EXCEPT !.contexts[Now.active].overrides = b]
  <2>1. Same(Now, over) /\ Good(over)
    BY <1>1, OverridesSame DEF Same
  <2>2. [Now EXCEPT !.contexts[active].overrides = b] = over
    BY <1>1
  <2> HIDE DEF over
  <2> QED BY <2>1, <2>2, WithCapSame, SameTrans
<1>3. \E st : Same(Now, st) /\ Leave(st)
  <2>1. CASE Tab
    <3> DEFINE other == IF pane = "input" THEN "options" ELSE "input"
               q == [Now EXCEPT !.pane = other]
    <3>1. Now \in Calls /\ other \in {"input", "options"}
      BY <1>1 DEF Good
    <3>2. Leave(q)
      BY <2>1, NowIs DEF Tab, Now
    <3> HIDE DEF other
    <3>3. q \in Calls
      BY <3>1 DEF Calls
    <3>4. /\ q.document = Now.document /\ q.surrounding = Now.surrounding
          /\ q.snapshot = Now.snapshot /\ q.active = Now.active
          /\ q.contexts = Now.contexts /\ q.deletion = Now.deletion
      BY <3>1 DEF Calls
    <3> HIDE DEF q
    <3>5. Same(Now, q)
      BY <1>1, <3>3, <3>4 DEF Same, Good, Context
    <3> QED BY <3>2, <3>5
  <2>2. CASE AdjustCap
    <3>1. Composition.cap \in 1..MaxCap
      BY <1>1, GoodIs, NowIs DEF ClientContext
    <3>2. PICK step \in Steps :
            LET cap == AdjustedInt(CapInfo, Composition.cap, step)
            IN \/ Leave(WithCap([Now EXCEPT !.contexts[active].overrides = TRUE], cap))
               \/ ~Composition.overrides /\ Leave(WithCap(Now, cap))
      BY <2>2 DEF AdjustCap
    <3> DEFINE cap == AdjustedInt(CapInfo, Composition.cap, step)
    <3>3. cap \in 1..MaxCap
      BY <3>1, AdjustedCapIs
    <3>4. \/ Leave(WithCap([Now EXCEPT !.contexts[active].overrides = TRUE], cap))
          \/ Leave(WithCap(Now, cap))
      BY <3>2
    <3> HIDE DEF cap
    <3>5. Same(Now, WithCap([Now EXCEPT !.contexts[active].overrides = TRUE], cap))
      BY <1>2, <3>3
    <3>6. Same(Now, WithCap(Now, cap))
      BY <1>1, <3>3, WithCapSame
    <3> QED BY <3>4, <3>5, <3>6
  <2>3. CASE ResetCap
    <3>1. PICK cap \in 1..MaxCap :
            Leave(WithCap([Now EXCEPT !.contexts[active].overrides = FALSE], cap))
      BY <2>3 DEF ResetCap
    <3> QED BY <1>2, <3>1
  <2>4. CASE AdjustResetting
    BY <1>1, <2>4, EmptiedSame DEF AdjustResetting
  <2> QED BY <2>1, <2>2, <2>3, <2>4
<1> QED BY <1>3, SameFine, LeaveKeeps

LEMMA DemoInitGood == DemoInit => DemoInv
<1> SUFFICES ASSUME DemoInit PROVE DemoInv
  OBVIOUS
<1> DEFINE none == <<>>
<1>1. none \in Seq(Scalars) /\ NoDeletion \in [asked : Seq(Scalars), removed : Seq(Scalars)]
  BY DEF NoDeletion
<1>2. ASSUME NEW known \in SUBSET Seq(Scalars)
      PROVE  [NewContext EXCEPT !.known = known] \in ClientContext
  <2>1. <<>> \in Seq(Scalars)
    OBVIOUS
  <2> QED BY <1>2, <2>1, DemoTexts DEF NewContext, ClientContext
<1>3. ASSUME NEW s \in Slots
      PROVE  /\ (IF s = active THEN Holds(s, none) ELSE {}) \in SUBSET Seq(Scalars)
             /\ slotContexts[s] = [NewContext EXCEPT !.known =
                                     IF s = active THEN Holds(s, none) ELSE {}]
  BY <1>1 DEF Holds, DemoInit
<1>4. slotContexts \in [Slots -> ClientContext]
  <2>1. \A s \in Slots : slotContexts[s] \in ClientContext
    BY <1>2, <1>3
  <2>2. slotContexts = [s \in Slots |-> slotContexts[s]]
    BY DEF DemoInit
  <2> QED BY <2>1, <2>2
<1>5. ASSUME NEW s \in Slots PROVE OnList(slotContexts[s])
  <2>1. slotContexts[s].offered = 0
    BY <1>3 DEF NewContext
  <2>2. slotContexts[s] \in ClientContext
    BY <1>4
  <2> QED BY <2>1, <2>2, CountIs DEF OnList
<1>6. /\ document = none /\ snapshotText = none /\ surrounding = "full"
      /\ active \in Slots /\ page = 0 /\ pane = "input"
  BY DEF DemoInit
<1> HIDE DEF none
<1>7. Now \in Calls
  BY <1>1, <1>4, <1>6 DEF Now, Calls
<1>8. Good(Now)
  BY <1>5, <1>7, NowIs DEF Good
<1>9. Believed(Now)
  <2>1. Composition.known = Holds(active, none)
    <3>1. NewContext = [NewContext EXCEPT !.known = NewContext.known]
      BY DEF NewContext
    <3> QED BY <1>3, <1>6 DEF Composition, NewContext
  <2>2. Supplied(Now) = none
    BY <1>6, NowIs DEF Supplied
  <2> QED BY <1>6, <2>1, <2>2, NowIs DEF Believed
<1> QED BY <1>8, <1>9 DEF DemoInv

LEMMA DemoStepKeeps ==
  ASSUME DemoInv, [DemoNext]_demoVars
  PROVE  /\ DemoInv'
         /\ DemoNext => DeletionStep
<1>1. CASE DemoNext
  <2>1. CASE PickDigit
    BY <2>1, PickDigitKeeps
  <2>2. CASE \E fails \in BOOLEAN : TurnPage(fails) \/ MoveHover(fails)
    BY <2>2, HoverKeeps
  <2>3. CASE TypeCharacter \/ Backspace \/ OtherKey
    BY <2>3, KeysKeep
  <2>4. CASE \E s \in Slots : SetActive(s)
    BY <2>4, SetActiveKeeps
  <2>5. CASE CtrlR \/ CtrlT \/ CtrlO \/ CtrlU \/ CtrlD \/ Paste
    BY <2>5, TellingKeeps
  <2>6. CASE Tab \/ AdjustCap \/ ResetCap \/ AdjustResetting
    BY <2>6, PanelKeeps
  <2> QED BY <1>1, <2>1, <2>2, <2>3, <2>4, <2>5, <2>6 DEF DemoNext
<1>2. CASE UNCHANGED demoVars /\ ~DemoNext
  <2>1. Now' = Now
    BY <1>2 DEF demoVars, Now
  <2>2. Good(Now') /\ Believed(Now')
    BY <2>1 DEF DemoInv
  <2> QED BY <1>2, <2>2 DEF DemoInv, Good, Believed
<1> QED BY <1>1, <1>2

LEMMA DemoInductive == DemoSpec => []DemoInv
<1>1. DemoInv /\ [DemoNext]_demoVars => DemoInv'
  BY DemoStepKeeps
<1> QED BY <1>1, DemoInitGood, PTL DEF DemoSpec

\* A deletion takes from the document exactly the text the engine meant, whichever
\* engine is active and whatever was typed, pasted and switched in between; with
\* nothing supplied any more it takes that or nothing (on_delete,
\* refresh_surrounding_text).
THEOREM DeletionsLand == DemoSpec => DeletesWhatWasAsked
<1>1. DemoInv /\ [DemoNext]_demoVars =>
        [/\ surrounding # "none" => deletion'.removed = deletion'.asked
         /\ Composition.known = {snapshotText} =>
              deletion'.removed \in {<<>>, deletion'.asked}]_demoVars
  BY DemoStepKeeps DEF DeletionStep
<1> QED BY <1>1, DemoInductive, PTL DEF DemoSpec, DeletesWhatWasAsked

\* The highlighted candidate is on the page shown: after every key offered, wherever
\* the page had been left, and as long as one pages and hovers, growing the list or
\* not. Only where an engine fails to hover may a turned page leave it behind, and
\* then it stays where it was (page_to_cursor, page_forward, move_cursor).
THEOREM HighlightStaysOnPage == DemoSpec => HoverIsOnPage
<1>1. DemoInv /\ [DemoNext]_demoVars =>
        [/\ TypeCharacter \/ Backspace \/ OtherKey => HighlightIsShown'
         /\ HighlightIsShown /\ (Hovers \/ MoveHover(TRUE)) => HighlightIsShown'
         /\ HoversInVain => Composition'.cursor = Composition.cursor]_demoVars
  BY KeysKeep, HoverKeeps DEF Hovers, HoversInVain
<1> QED BY <1>1, DemoInductive, PTL DEF DemoSpec, HoverIsOnPage

-------------------------------------------------------------------------------
(* Text: one scalar and its bytes.                                         *)

LEMMA LeadIs ==
  ASSUME NEW b \in Nat
  PROVE  /\ SequenceLength(b) = 1 <=> b \in 1..127
         /\ SequenceLength(b) = 2 <=> b \in 192..223
         /\ SequenceLength(b) = 3 <=> b \in 224..239
         /\ SequenceLength(b) = 4 <=> b \in 240..247
         /\ SequenceLength(b) \in 0..4
<1>1. /\ b \div 32 = 6 <=> b \in 192..223
      /\ b \div 16 = 14 <=> b \in 224..239
      /\ b \div 8 = 30 <=> b \in 240..247
  OBVIOUS
<1>2. CASE b \in 1..127
  <2>1. SequenceLength(b) = 1
    BY <1>1, <1>2 DEF SequenceLength
  <2> QED BY <1>2, <2>1
<1>3. CASE b \in 192..223
  <2>1. SequenceLength(b) = 2
    BY <1>1, <1>3 DEF SequenceLength
  <2> QED BY <1>3, <2>1
<1>4. CASE b \in 224..239
  <2>1. SequenceLength(b) = 3
    BY <1>1, <1>4 DEF SequenceLength
  <2> QED BY <1>4, <2>1
<1>5. CASE b \in 240..247
  <2>1. SequenceLength(b) = 4
    BY <1>1, <1>5 DEF SequenceLength
  <2> QED BY <1>5, <2>1
<1>6. CASE b \notin 1..127 /\ b \notin 192..223 /\ b \notin 224..239 /\ b \notin 240..247
  <2>1. SequenceLength(b) = 0
    BY <1>1, <1>6 DEF SequenceLength
  <2> QED BY <1>6, <2>1
<1> QED BY <1>2, <1>3, <1>4, <1>5, <1>6

\* Which bytes go on with a character.
LEMMA ContinuesIs ==
  ASSUME NEW b \in Nat
  PROVE  Continues(b) <=> b \in 128..191
BY DEF Continues

\* A continuation byte carries six bits.
LEMMA TrailIs ==
  ASSUME NEW x \in Nat
  PROVE  Trail(x) \in 128..191 /\ Trail(x) % 64 = x % 64
BY DEF Trail

\* Four cases of a scalar, by what it takes to write it.
LEMMA EncodeIs ==
  ASSUME NEW v \in Nat
  PROVE  /\ v < 128 => Encode(v) = <<v>>
         /\ v >= 128 /\ v < 2048 => Encode(v) = <<192 + (v \div 64), Trail(v)>>
         /\ v >= 2048 /\ v < 65536 =>
              Encode(v) = <<224 + (v \div 4096), Trail(v \div 64), Trail(v)>>
         /\ v >= 65536 =>
              Encode(v) = <<240 + (v \div 262144), Trail(v \div 4096), Trail(v \div 64),
                            Trail(v)>>
BY DEF Encode

\* What the bytes of a sequence add up to.
SumTwo(a, b) == (a % 32) * 64 + (b % 64)
SumThree(a, b, c) == (a % 16) * 4096 + (b % 64) * 64 + (c % 64)
SumFour(a, b, c, d) == (a % 8) * 262144 + (b % 64) * 4096 + (c % 64) * 64 + (d % 64)

\* The bytes of a sequence of each length that is not overlong, and its scalar.
OfTwo(v, a, b) ==
  a \in 192..223 /\ b \in 128..191 /\ v = SumTwo(a, b) /\ v >= 128
OfThree(v, a, b, c) ==
  /\ a \in 224..239 /\ b \in 128..191 /\ c \in 128..191
  /\ v = SumThree(a, b, c) /\ v >= 2048
OfFour(v, a, b, c, d) ==
  /\ a \in 240..247 /\ b \in 128..191 /\ c \in 128..191 /\ d \in 128..191
  /\ v = SumFour(a, b, c, d) /\ v >= 65536

\* s holds the bytes of v from offset i on.
At(s, i, v) ==
  /\ i + Len(Encode(v)) <= Len(s)
  /\ \A k \in 1..Len(Encode(v)) : s[i + k] = Encode(v)[k]

\* What is assembled from the bytes of one sequence.
LEMMA DecodeOneIs ==
  ASSUME NEW s \in Seq(Nat), NEW i \in Nat, i < Len(s)
  PROVE  LET length == SequenceLength(s[i + 1])
             scalar == Assemble(s, i + 1, length)
         IN DecodeOne(s, i) =
              IF /\ length # 0
                 /\ i + length <= Len(s)
                 /\ \A k \in (i + 2)..(i + length) : Continues(s[k])
                 /\ scalar >= LowestLegal[length] /\ IsScalarValue(scalar)
              THEN [length |-> length, scalar |-> scalar]
              ELSE [length |-> 0, scalar |-> 0]
BY DEF DecodeOne

\* What each length of encoding is put together from.
LEMMA AssembleIs ==
  ASSUME NEW s, NEW j
  PROVE  /\ Assemble(s, j, 1) = s[j] % 128
         /\ Assemble(s, j, 2) = SumTwo(s[j], s[j + 1])
         /\ Assemble(s, j, 3) = SumThree(s[j], s[j + 1], s[j + 2])
         /\ Assemble(s, j, 4) = SumFour(s[j], s[j + 1], s[j + 2], s[j + 3])
<1>1. /\ LeadBits(s[j], 1) = s[j] % 128 /\ LeadBits(s[j], 2) = s[j] % 32
      /\ LeadBits(s[j], 3) = s[j] % 16 /\ LeadBits(s[j], 4) = s[j] % 8
  BY DEF LeadBits
<1>2. Assemble(s, j, 1) = s[j] % 128
  BY <1>1 DEF Assemble
<1>3. Assemble(s, j, 2) = SumTwo(s[j], s[j + 1])
  BY <1>1 DEF Assemble, SumTwo
<1>4. Assemble(s, j, 3) = SumThree(s[j], s[j + 1], s[j + 2])
  BY <1>1 DEF Assemble, SumThree
<1>5. Assemble(s, j, 4) = SumFour(s[j], s[j + 1], s[j + 2], s[j + 3])
  BY <1>1, SMT DEF Assemble, SumFour
<1> QED BY <1>2, <1>3, <1>4, <1>5

\* The bits of a scalar, six at a time.
LEMMA Bits ==
  ASSUME NEW v \in Nat
  PROVE  /\ v \div 64 \in Nat /\ v \div 4096 \in Nat /\ v \div 262144 \in Nat
         /\ v = (v \div 64) * 64 + (v % 64)
         /\ v = (v \div 4096) * 4096 + ((v \div 64) % 64) * 64 + (v % 64)
         /\ v = (v \div 262144) * 262144 + ((v \div 4096) % 64) * 4096
                  + ((v \div 64) % 64) * 64 + (v % 64)
<1>1. /\ v \div 64 \in Nat /\ v \div 4096 \in Nat /\ v \div 262144 \in Nat
      /\ v = (v \div 64) * 64 + (v % 64)
  OBVIOUS
<1>2. \A w \in Nat : w = (w \div 64) * 64 + (w % 64)
  OBVIOUS
<1>3. (v \div 64) \div 64 = v \div 4096
  OBVIOUS
<1>4. (v \div 4096) \div 64 = v \div 262144
  OBVIOUS
<1>5. /\ v \div 64 = (v \div 4096) * 64 + ((v \div 64) % 64)
      /\ v \div 4096 = (v \div 262144) * 64 + ((v \div 4096) % 64)
  BY <1>1, <1>2, <1>3, <1>4
<1> DEFINE p == v \div 64
           q == v \div 4096
           r == v \div 262144
           x == v % 64
           y == p % 64
           z == q % 64
<1>6. /\ p \in Nat /\ q \in Nat /\ r \in Nat
      /\ x \in Nat /\ y \in Nat /\ z \in Nat
  BY <1>1
<1>7. v = p * 64 + x /\ p = q * 64 + y /\ q = r * 64 + z
  BY <1>1, <1>5
<1> HIDE DEF p, q, r, x, y, z
<1>8. v = q * 4096 + y * 64 + x /\ v = r * 262144 + z * 4096 + y * 64 + x
  BY <1>6, <1>7
<1> QED BY <1>1, <1>8 DEF p, q, r, x, y, z

\* A scalar is a positive number.
LEMMA ScalarBounds ==
  ASSUME NEW v \in Scalars
  PROVE  v \in Nat /\ v > 0 /\ IsScalarValue(v)
BY SMT DEF Scalars, IsScalarValue

LEMMA LastLead ==
  ASSUME NEW v \in Scalars
  PROVE  v \div 262144 \in 0..7
<1>1. v \in Nat /\ v <= 1114111
  BY SMT DEF Scalars, IsScalarValue
<1> QED BY <1>1, SMT

\* What such bytes encode is written as they are.
LEMMA TrailBack ==
  ASSUME NEW b \in 128..191
  PROVE  b % 64 \in 0..63 /\ 128 + (b % 64) = b
OBVIOUS

LEMMA TwoBack ==
  ASSUME NEW v, NEW a, NEW b, OfTwo(v, a, b)
  PROVE  v \in Nat /\ Encode(v) = <<a, b>>
<1>. a \in 192..223 /\ b \in 128..191 /\ v = SumTwo(a, b) /\ v >= 128
  BY DEF OfTwo
<1> DEFINE p == a % 32
           x == b % 64
<1>1. p \in 0..31 /\ 192 + p = a
  OBVIOUS
<1>2. x \in 0..63 /\ 128 + x = b
  BY TrailBack
<1>3. v = p * 64 + x
  BY DEF SumTwo
<1> HIDE DEF p, x
<1>4. v \in Nat /\ v < 2048 /\ v \div 64 = p /\ v % 64 = x
  BY <1>1, <1>2, <1>3
<1>5. Encode(v) = <<192 + (v \div 64), Trail(v)>>
  BY <1>4, EncodeIs
<1>6. Trail(v) = 128 + x
  BY <1>4 DEF Trail
<1> QED BY <1>1, <1>2, <1>4, <1>5, <1>6

LEMMA ThreeBack ==
  ASSUME NEW v, NEW a, NEW b, NEW c, OfThree(v, a, b, c)
  PROVE  v \in Nat /\ Encode(v) = <<a, b, c>>
<1>. /\ a \in 224..239 /\ b \in 128..191 /\ c \in 128..191
     /\ v = SumThree(a, b, c) /\ v >= 2048
  BY DEF OfThree
<1> DEFINE p == a % 16
           x == b % 64
           y == c % 64
           w == p * 64 + x
<1>1. p \in 0..15 /\ 224 + p = a
  OBVIOUS
<1>2. x \in 0..63 /\ 128 + x = b /\ y \in 0..63 /\ 128 + y = c
  BY TrailBack
<1>3. v = p * 4096 + x * 64 + y
  BY DEF SumThree
<1> HIDE DEF p, x, y
<1>4. w \in Nat /\ w \div 64 = p /\ w % 64 = x
  BY <1>1, <1>2
<1>5. v = w * 64 + y /\ v < 65536
  BY <1>1, <1>2, <1>3
<1> HIDE DEF w
<1>6. v \in Nat /\ v \div 64 = w /\ v % 64 = y
  BY <1>2, <1>4, <1>5
<1>7. v \div 4096 = p
  <2>1. v \div 4096 = (v \div 64) \div 64
    BY <1>6
  <2> QED BY <1>4, <1>6, <2>1
<1>8. Encode(v) = <<224 + p, Trail(w), Trail(v)>>
  BY <1>5, <1>6, <1>7, EncodeIs
<1>9. Trail(w) = 128 + x /\ Trail(v) = 128 + y
  BY <1>4, <1>6 DEF Trail
<1> QED BY <1>1, <1>2, <1>6, <1>8, <1>9

LEMMA FourBack ==
  ASSUME NEW v, NEW a, NEW b, NEW c, NEW d, OfFour(v, a, b, c, d)
  PROVE  v \in Nat /\ Encode(v) = <<a, b, c, d>>
<1>. /\ a \in 240..247 /\ b \in 128..191 /\ c \in 128..191 /\ d \in 128..191
     /\ v = SumFour(a, b, c, d) /\ v >= 65536
  BY DEF OfFour
<1> DEFINE p == a % 8
           x == b % 64
           y == c % 64
           z == d % 64
           u == p * 64 + x
           w == u * 64 + y
<1>1. p \in 0..7 /\ 240 + p = a
  BY SMT
<1>2. x \in 0..63 /\ 128 + x = b /\ y \in 0..63 /\ 128 + y = c /\ z \in 0..63 /\ 128 + z = d
  BY TrailBack, SMT
<1>3. v = p * 262144 + x * 4096 + y * 64 + z
  BY SMT DEF SumFour
<1> HIDE DEF p, x, y, z
<1>4. u \in Nat /\ u \div 64 = p /\ u % 64 = x
  BY <1>1, <1>2, SMT
<1> HIDE DEF u
<1>5. w \in Nat /\ w \div 64 = u /\ w % 64 = y
  BY <1>2, <1>4, SMT
<1>6. v = w * 64 + z
  BY <1>1, <1>2, <1>3, <1>4, SMT DEF u
<1> HIDE DEF w
<1>7. v \in Nat /\ v \div 64 = w /\ v % 64 = z
  BY <1>2, <1>5, <1>6, SMT
<1>8. v \div 4096 = u /\ v \div 262144 = p
  <2>1. v \div 4096 = (v \div 64) \div 64 /\ v \div 262144 = (v \div 4096) \div 64
    BY <1>7, SMT
  <2> QED BY <1>4, <1>5, <1>7, <2>1, SMT
<1>9. Encode(v) = <<240 + p, Trail(u), Trail(w), Trail(v)>>
  <2>1. Encode(v) = <<240 + (v \div 262144), Trail(v \div 4096), Trail(v \div 64), Trail(v)>>
    BY <1>7, SMT DEF Encode
  <2> QED BY <1>7, <1>8, <2>1, SMT
<1>10. Trail(u) = 128 + x /\ Trail(w) = 128 + y /\ Trail(v) = 128 + z
  BY <1>4, <1>5, <1>7, SMT DEF Trail
<1> QED BY <1>1, <1>2, <1>7, <1>9, <1>10, SMT

\* Every scalar is one of these.
LEMMA TwoBytes ==
  ASSUME NEW v \in Nat, v >= 128, v < 2048
  PROVE  \E a, b : OfTwo(v, a, b)
<1> DEFINE q == v \div 64
           r == v % 64
           a == 192 + q
           b == 128 + r
<1>1. q \in 0..31 /\ r \in 0..63 /\ v = q * 64 + r
  OBVIOUS
<1> HIDE DEF q, r
<1>2. a \in 192..223 /\ a % 32 = q /\ b \in 128..191 /\ b % 64 = r
  BY <1>1
<1> HIDE DEF a, b
<1>3. OfTwo(v, a, b)
  BY <1>1, <1>2 DEF OfTwo, SumTwo
<1> QED BY <1>3

\* Every scalar between the second limit and the third has three such bytes.
LEMMA ThreeBytes ==
  ASSUME NEW v \in Nat, v >= 2048, v < 65536
  PROVE  \E a, b, c : OfThree(v, a, b, c)
<1> DEFINE q == v \div 4096
           r == (v \div 64) % 64
           t == v % 64
           a == 224 + q
           b == 128 + r
           c == 128 + t
<1>1. q \in 0..15 /\ r \in 0..63 /\ t \in 0..63 /\ v = q * 4096 + r * 64 + t
  BY Bits
<1> HIDE DEF q, r, t
<1>2. /\ a \in 224..239 /\ a % 16 = q /\ b \in 128..191 /\ b % 64 = r
      /\ c \in 128..191 /\ c % 64 = t
  BY <1>1
<1> HIDE DEF a, b, c
<1>3. OfThree(v, a, b, c)
  BY <1>1, <1>2 DEF OfThree, SumThree
<1> QED BY <1>3

\* Every scalar above the third limit has four.
LEMMA FourBytes ==
  ASSUME NEW v \in Scalars, v >= 65536
  PROVE  \E a, b, c, d : OfFour(v, a, b, c, d)
<1> DEFINE q == v \div 262144
           r == (v \div 4096) % 64
           t == (v \div 64) % 64
           u == v % 64
           a == 240 + q
           b == 128 + r
           c == 128 + t
           d == 128 + u
<1>1. v \in Nat
  BY ScalarBounds
<1>2. /\ q \in 0..7 /\ r \in 0..63 /\ t \in 0..63 /\ u \in 0..63
      /\ v = q * 262144 + r * 4096 + t * 64 + u
  <2>1. q \in 0..7
    BY LastLead, SMT
  <2>2. v = q * 262144 + r * 4096 + t * 64 + u
    BY <1>1, Bits, SMT
  <2>3. r \in 0..63 /\ t \in 0..63 /\ u \in 0..63
    BY <1>1, SMT
  <2> QED BY <2>1, <2>2, <2>3, SMT
<1> HIDE DEF q, r, t, u
<1>3. /\ a \in 240..247 /\ a % 8 = q /\ b \in 128..191 /\ b % 64 = r
      /\ c \in 128..191 /\ c % 64 = t /\ d \in 128..191 /\ d % 64 = u
  BY <1>2, SMT
<1> HIDE DEF a, b, c, d
<1>4. OfFour(v, a, b, c, d)
  BY <1>2, <1>3, SMT DEF OfFour, SumFour
<1> QED BY <1>4

\* The shape of an encoding: a lead that says how long it is, and continuations.
LEMMA EncodeShape ==
  ASSUME NEW v \in Scalars
  PROVE  /\ Encode(v) \in Seq(Nat) /\ Len(Encode(v)) \in 1..4
         /\ SequenceLength(Encode(v)[1]) = Len(Encode(v))
         /\ ~Continues(Encode(v)[1])
         /\ \A k \in 2..Len(Encode(v)) : Continues(Encode(v)[k])
<1>1. v \in Nat /\ v > 0
  BY ScalarBounds
<1>2. CASE v < 128
  <2>1. Encode(v) = <<v>>
    BY <1>2, EncodeIs DEF Scalars
  <2>2. SequenceLength(v) = 1 /\ ~Continues(v)
    BY <1>1, <1>2, LeadIs, ContinuesIs
  <2> QED BY <1>1, <2>1, <2>2
<1>3. CASE v >= 128 /\ v < 2048
  <2>1. PICK a, b : OfTwo(v, a, b)
    BY <1>1, <1>3, TwoBytes
  <2>2. SequenceLength(a) = 2 /\ ~Continues(a) /\ Continues(b)
    BY <2>1, LeadIs, ContinuesIs DEF OfTwo
  <2>3. Encode(v) = <<a, b>> /\ a \in Nat /\ b \in Nat
    BY <2>1, TwoBack DEF OfTwo
  <2> QED BY <2>2, <2>3
<1>4. CASE v >= 2048 /\ v < 65536
  <2>1. PICK a, b, c : OfThree(v, a, b, c)
    BY <1>1, <1>4, ThreeBytes
  <2>2. SequenceLength(a) = 3 /\ ~Continues(a) /\ Continues(b) /\ Continues(c)
    BY <2>1, LeadIs, ContinuesIs DEF OfThree
  <2>3. Encode(v) = <<a, b, c>>
    BY <2>1, ThreeBack
  <2>4. a \in Nat /\ b \in Nat /\ c \in Nat
    BY <2>1 DEF OfThree
  <2> QED BY <2>2, <2>3, <2>4
<1>5. CASE v >= 65536
  <2>1. PICK a, b, c, d : OfFour(v, a, b, c, d)
    BY <1>5, FourBytes
  <2>2. /\ SequenceLength(a) = 4 /\ ~Continues(a)
        /\ Continues(b) /\ Continues(c) /\ Continues(d)
    BY <2>1, LeadIs, ContinuesIs DEF OfFour
  <2>3. Encode(v) = <<a, b, c, d>>
    BY <2>1, FourBack
  <2>4. a \in Nat /\ b \in Nat /\ c \in Nat /\ d \in Nat
    BY <2>1, SMT DEF OfFour
  <2> QED BY <2>2, <2>3, <2>4
<1> QED BY <1>1, <1>2, <1>3, <1>4, <1>5, SMT

\* What is encoded is read back, wherever it stands: none is refused as overlong
\* or as a surrogate, and none comes back as another (utf8_append_scalar and
\* decode_one).
LEMMA ReadsBack ==
  ASSUME NEW s \in Seq(Nat), NEW i \in Nat, NEW v \in Scalars, At(s, i, v)
  PROVE  DecodeOne(s, i) = [length |-> Len(Encode(v)), scalar |-> v]
<1> DEFINE e == Encode(v)
           n == Len(e)
           j == i + 1
<1>1. v \in Nat /\ v > 0 /\ IsScalarValue(v)
  BY ScalarBounds
<1>2. /\ e \in Seq(Nat) /\ n \in 1..4 /\ SequenceLength(e[1]) = n
      /\ \A k \in 2..n : Continues(e[k])
      /\ i + n <= Len(s) /\ \A k \in 1..n : s[i + k] = e[k]
  BY EncodeShape DEF At
<1>3. s[j] = e[1] /\ SequenceLength(s[i + 1]) = n
  BY <1>2
<1>4. \A k \in (i + 2)..(i + n) : Continues(s[k])
  <2> HIDE DEF e, n
  <2> TAKE k \in (i + 2)..(i + n)
  <2>1. k - i \in 2..n /\ i + (k - i) = k
    BY <1>2
  <2>2. s[i + (k - i)] = e[k - i] /\ Continues(e[k - i])
    <3>1. k - i \in 1..n
      BY <2>1, <1>2
    <3> QED BY <1>2, <2>1, <3>1
  <2> QED BY <2>1, <2>2
<1>5. Assemble(s, j, n) = v /\ v >= LowestLegal[n]
  <2>1. j \in Nat /\ j + 1 = i + 2 /\ j + 2 = i + 3 /\ j + 3 = i + 4
    OBVIOUS
  <2>2. ASSUME NEW k \in 1..n PROVE s[i + k] = e[k]
    BY <1>2
  <2> HIDE DEF j
  <2>3. CASE v < 128
    <3>1. e = <<v>> /\ n = 1
      BY <1>1, <2>3, EncodeIs
    <3>2. s[j] = v /\ v % 128 = v
      <4>1. e[1] = v
        BY <3>1
      <4>2. v \in 0..127
        BY <1>1, <2>3
      <4> HIDE DEF e, n, j
      <4>3. v % 128 = v
        BY <4>2, SMT
      <4> QED BY <1>3, <4>1, <4>3
    <3> HIDE DEF e, n
    <3>3. Assemble(s, j, 1) = v
      BY <3>2, AssembleIs
    <3> QED BY <1>1, <3>1, <3>3 DEF LowestLegal
  <2>4. CASE v >= 128 /\ v < 2048
    <3>1. PICK a, b : OfTwo(v, a, b)
      BY <1>1, <2>4, TwoBytes
    <3>2. e = <<a, b>> /\ n = 2
      BY <3>1, TwoBack
    <3>3. s[j] = a /\ s[j + 1] = b
      BY <1>2, <1>3, <2>1, <3>2
    <3> HIDE DEF e, n
    <3>4. Assemble(s, j, 2) = v
      BY <3>1, <3>3, AssembleIs DEF OfTwo
    <3> QED BY <2>4, <3>2, <3>4 DEF LowestLegal
  <2>5. CASE v >= 2048 /\ v < 65536
    <3>1. PICK a, b, c : OfThree(v, a, b, c)
      BY <1>1, <2>5, ThreeBytes
    <3>2. e = <<a, b, c>> /\ n = 3
      BY <3>1, ThreeBack
    <3>3. s[j] = a /\ s[j + 1] = b /\ s[j + 2] = c
      BY <1>2, <1>3, <2>1, <3>2
    <3> HIDE DEF e, n
    <3>4. Assemble(s, j, 3) = v
      BY <3>1, <3>3, AssembleIs DEF OfThree
    <3> QED BY <2>5, <3>2, <3>4 DEF LowestLegal
  <2>6. CASE v >= 65536
    <3>1. PICK a, b, c, d : OfFour(v, a, b, c, d)
      BY <2>6, FourBytes
    <3>2. e = <<a, b, c, d>> /\ n = 4
      BY <3>1, FourBack
    <3>3. s[j] = a /\ s[j + 1] = b /\ s[j + 2] = c /\ s[j + 3] = d
      <4>1. e[1] = a /\ e[2] = b /\ e[3] = c /\ e[4] = d
        BY <3>2, SMT
      <4> HIDE DEF e
      <4>2. s[i + 2] = e[2] /\ s[i + 3] = e[3] /\ s[i + 4] = e[4]
        BY <2>2, <3>2, SMT
      <4> QED BY <1>3, <2>1, <4>1, <4>2
    <3> HIDE DEF e, n
    <3>4. Assemble(s, j, 4) = v
      BY <3>1, <3>3, AssembleIs DEF OfFour
    <3> QED BY <2>6, <3>2, <3>4, SMT DEF LowestLegal
  <2> QED BY <1>1, <2>3, <2>4, <2>5, <2>6, SMT
<1> HIDE DEF e, n
<1>6. n # 0 /\ i + n <= Len(s)
  BY <1>2
<1>7. DecodeOne(s, i) = [length |-> n, scalar |-> v]
  BY <1>1, <1>3, <1>4, <1>5, <1>6, SMT DEF DecodeOne
<1> QED BY <1>7 DEF n, e

\* What is decoded is a scalar, and stands there as it would be written.
LEMMA WritesBack ==
  ASSUME NEW s \in Seq(Nat), NEW i \in Nat, i < Len(s), DecodeOne(s, i).length # 0,
         NEW v, v = DecodeOne(s, i).scalar
  PROVE  v \in Scalars /\ DecodeOne(s, i).length = Len(Encode(v)) /\ At(s, i, v)
<1> DEFINE n == SequenceLength(s[i + 1])
           j == i + 1
<1>1. /\ n # 0 /\ i + n <= Len(s) /\ \A k \in (i + 2)..(i + n) : Continues(s[k])
      /\ v >= LowestLegal[n] /\ IsScalarValue(v)
      /\ v = Assemble(s, j, n) /\ DecodeOne(s, i).length = n
  BY SMT DEF DecodeOne
<1>2. s[j] \in Nat /\ j \in 1..Len(s) /\ j \in Nat
  OBVIOUS
<1>3. /\ n \in 1..4
      /\ n = 1 => s[j] \in 1..127
      /\ n = 2 => s[j] \in 192..223
      /\ n = 3 => s[j] \in 224..239
      /\ n = 4 => s[j] \in 240..247
  <2> DEFINE a == s[i + 1]
  <2>1. a \in Nat
    BY <1>2
  <2> HIDE DEF a
  <2>2. SequenceLength(a) # 0
    BY <1>1 DEF a
  <2>3. /\ SequenceLength(a) \in 1..4
        /\ SequenceLength(a) = 1 => a \in 1..127
        /\ SequenceLength(a) = 2 => a \in 192..223
        /\ SequenceLength(a) = 3 => a \in 224..239
        /\ SequenceLength(a) = 4 => a \in 240..247
    BY <2>1, <2>2, LeadIs
  <2> QED BY <2>3 DEF a
<1>4. \A k \in (i + 2)..(i + n) : s[k] \in 128..191
  <2> TAKE k \in (i + 2)..(i + n)
  <2>1. k \in 1..Len(s) /\ Continues(s[k])
    BY <1>1, <1>3
  <2>2. s[k] \in Nat
    BY <2>1
  <2> QED BY <2>1, <2>2, ContinuesIs
<1>5. j + 1 = i + 2 /\ j + 2 = i + 3 /\ j + 3 = i + 4
  OBVIOUS
<1>6. v \in Nat /\ Len(Encode(v)) = n /\ \A k \in 1..n : s[i + k] = Encode(v)[k]
  <2>1. CASE n = 1
    <3>1. s[j] \in 1..127
      BY <1>3, <2>1
    <3> DEFINE a == s[j]
    <3>2. v = a % 128 /\ s[i + 1] = a
      BY <1>1, <2>1, AssembleIs
    <3>3. a \in 1..127
      BY <3>1
    <3> HIDE DEF a, n, j
    <3>4. v = a /\ v \in Nat /\ v < 128
      BY <3>2, <3>3
    <3>5. Encode(v) = <<v>>
      BY <3>4, EncodeIs
    <3> QED BY <2>1, <3>2, <3>4, <3>5
  <2>2. CASE n = 2
    <3> DEFINE a == s[j]
               b == s[j + 1]
    <3>1. a \in 192..223
      BY <1>3, <2>2
    <3>2. b \in 128..191
      BY <1>4, <1>5, <2>2
    <3>3. v = SumTwo(a, b) /\ v >= 128
      BY <1>1, <2>2, AssembleIs DEF LowestLegal
    <3>4. s[i + 1] = a /\ s[i + 2] = b
      BY <1>5
    <3> HIDE DEF a, b, n, j
    <3>5. OfTwo(v, a, b)
      BY <3>1, <3>2, <3>3 DEF OfTwo
    <3>6. v \in Nat /\ Encode(v) = <<a, b>>
      BY <3>5, TwoBack
    <3> QED BY <2>2, <3>4, <3>6
  <2>3. CASE n = 3
    <3> DEFINE a == s[j]
               b == s[j + 1]
               c == s[j + 2]
    <3>1. a \in 224..239
      BY <1>3, <2>3
    <3>2. b \in 128..191 /\ c \in 128..191
      BY <1>4, <1>5, <2>3
    <3>3. v = SumThree(a, b, c) /\ v >= 2048
      BY <1>1, <2>3, AssembleIs DEF LowestLegal
    <3>4. s[i + 1] = a /\ s[i + 2] = b /\ s[i + 3] = c
      BY <1>5
    <3> HIDE DEF a, b, c, n, j
    <3>5. OfThree(v, a, b, c)
      BY <3>1, <3>2, <3>3 DEF OfThree
    <3>6. v \in Nat /\ Encode(v) = <<a, b, c>>
      BY <3>5, ThreeBack
    <3> QED BY <2>3, <3>4, <3>6
  <2>4. CASE n = 4
    <3> DEFINE a == s[j]
               b == s[j + 1]
               c == s[j + 2]
               d == s[j + 3]
    <3>1. a \in 240..247
      BY <1>3, <2>4
    <3>2. b \in 128..191 /\ c \in 128..191 /\ d \in 128..191
      BY <1>4, <1>5, <2>4
    <3>3. v = SumFour(a, b, c, d) /\ v >= 65536
      BY <1>1, <2>4, AssembleIs DEF LowestLegal
    <3>4. s[i + 1] = a /\ s[i + 2] = b /\ s[i + 3] = c /\ s[i + 4] = d
      BY <1>5
    <3> HIDE DEF a, b, c, d, n, j
    <3>5. OfFour(v, a, b, c, d)
      BY <3>1, <3>2, <3>3, SMT DEF OfFour
    <3>6. v \in Nat /\ Encode(v) = <<a, b, c, d>>
      BY <3>5, FourBack
    <3> QED BY <2>4, <3>4, <3>6
  <2> QED BY <1>3, <2>1, <2>2, <2>3, <2>4
<1> HIDE DEF n, j
<1>7. v \in Scalars
  BY <1>1, <1>6 DEF Scalars
<1>8. At(s, i, v)
  BY <1>1, <1>6 DEF At
<1> QED BY <1>1, <1>6, <1>7, <1>8

-------------------------------------------------------------------------------
(* A text and its bytes.                                                   *)

\* The two parts of a concatenation.
LEMMA ConcatParts ==
  ASSUME NEW S, NEW q \in Seq(S), NEW r \in Seq(S)
  PROVE  /\ SubSeq(q \o r, 1, Len(q)) = q
         /\ SubSeq(q \o r, Len(q) + 1, Len(q \o r)) = r
<1> DEFINE c == q \o r
<1>1. /\ c \in Seq(S) /\ Len(c) = Len(q) + Len(r) /\ Len(q) \in Nat /\ Len(r) \in Nat
      /\ \A i \in 1..(Len(q) + Len(r)) :
           c[i] = IF i <= Len(q) THEN q[i] ELSE r[i - Len(q)]
  BY ConcatProperties, LenProperties
<1> HIDE DEF c
<1>2. SubSeq(c, 1, Len(q)) = q
  <2>1. \A i \in 1..Len(q) : c[i] \in S
    BY <1>1
  <2>2. /\ SubSeq(c, 1, Len(q)) \in Seq(S) /\ Len(SubSeq(c, 1, Len(q))) = Len(q)
        /\ \A i \in 1..Len(q) : SubSeq(c, 1, Len(q))[i] = c[i]
    BY <1>1, <2>1, SubSeqProperties
  <2>3. \A i \in 1..Len(q) : SubSeq(c, 1, Len(q))[i] = q[i]
    BY <1>1, <2>2
  <2> QED BY <2>2, <2>3, SeqEqual
<1>3. SubSeq(c, Len(q) + 1, Len(c)) = r
  <2> DEFINE m == Len(q) + 1
             d == SubSeq(c, m, Len(c))
  <2>1. \A i \in m..Len(c) : c[i] \in S
    BY <1>1
  <2>2. d \in Seq(S) /\ Len(d) = Len(r) /\ \A i \in 1..Len(r) : d[i] = c[m + i - 1]
    <3>1. m \in Int /\ Len(c) \in Int /\ Len(c) - m + 1 = Len(r)
      BY <1>1
    <3> HIDE DEF m
    <3>2. /\ d \in Seq(S) /\ Len(d) = IF m <= Len(c) THEN Len(c) - m + 1 ELSE 0
          /\ \A i \in 1..(Len(c) - m + 1) : d[i] = c[m + i - 1]
      BY <2>1, <3>1, SubSeqProperties
    <3>3. Len(r) \in Nat /\ (m <= Len(c) \/ Len(r) = 0)
      BY <1>1, <3>1
    <3> HIDE DEF d
    <3>4. Len(d) = Len(r)
      BY <3>1, <3>2, <3>3
    <3> QED BY <3>1, <3>2, <3>4
  <2> HIDE DEF d
  <2>3. ASSUME NEW i \in 1..Len(r) PROVE d[i] = r[i]
    <3>1. m + i - 1 = Len(q) + i /\ Len(q) + i \in 1..(Len(q) + Len(r))
      BY <1>1
    <3>2. c[Len(q) + i] = r[(Len(q) + i) - Len(q)] /\ (Len(q) + i) - Len(q) = i
      BY <1>1, <3>1
    <3> QED BY <2>2, <3>1, <3>2
  <2>4. d = r
    BY <2>2, <2>3, SeqEqual
  <2> QED BY <2>4 DEF d
<1> QED BY <1>2, <1>3 DEF c

\* The bytes of each scalar.
ScalarBytes == [v \in Scalars |-> Encode(v)]

LEMMA ScalarBytesAre == Becomes(ScalarBytes, Scalars, Nat) /\ \A v \in Scalars : ScalarBytes[v] = Encode(v)
BY EncodeShape DEF ScalarBytes, Becomes

\* What utf8_from_ucs4 writes is the joined encodings.
LEMMA FromIs ==
  ASSUME NEW text \in Seq(Scalars)
  PROVE  FromUcs4(text) = Joined(ScalarBytes, text) /\ FromUcs4(text) \in Seq(Nat)
<1>1. \A i \in DOMAIN text : text[i] \in Scalars
  OBVIOUS
<1>2. \A i \in DOMAIN text : IsScalarValue(text[i])
  BY <1>1, ScalarBounds
<1>3. [i \in DOMAIN text |-> Encode(text[i])] = [i \in DOMAIN text |-> ScalarBytes[text[i]]]
  BY <1>1, ScalarBytesAre
<1>4. FromUcs4(text) = Joined(ScalarBytes, text)
  BY <1>2, <1>3, Zenon DEF FromUcs4, Joined
<1> QED BY <1>4, ScalarBytesAre, JoinedType

LEMMA FromConcat ==
  ASSUME NEW q \in Seq(Scalars), NEW r \in Seq(Scalars)
  PROVE  FromUcs4(q \o r) = FromUcs4(q) \o FromUcs4(r)
<1>1. q \o r \in Seq(Scalars)
  BY ConcatProperties
<1>2. Joined(ScalarBytes, q \o r) = Joined(ScalarBytes, q) \o Joined(ScalarBytes, r)
  BY ScalarBytesAre, JoinedConcat
<1> QED BY <1>1, <1>2, FromIs

LEMMA FromOne ==
  ASSUME NEW v \in Scalars
  PROVE  FromUcs4(<<v>>) = Encode(v)
<1>1. <<v>> \in Seq(Scalars)
  OBVIOUS
<1>2. Joined(ScalarBytes, <<v>>) = ScalarBytes[v]
  BY ScalarBytesAre, JoinedOne
<1> QED BY <1>1, <1>2, FromIs, ScalarBytesAre

LEMMA FromEmpty == FromUcs4(<<>>) = <<>>
<1>1. <<>> \in Seq(Scalars)
  OBVIOUS
<1> QED BY <1>1, FromIs, JoinedEmpty

\* Where the bytes of a text's first k scalars end.
Off(text, k) == Len(FromUcs4(SubSeq(text, 1, k)))

\* The text cut after its first k scalars, and its bytes cut at that offset.
LEMMA FromCut ==
  ASSUME NEW text \in Seq(Scalars), NEW s, s = FromUcs4(text), NEW k \in 0..Len(text)
  PROVE  LET q == SubSeq(text, 1, k)
             r == SubSeq(text, k + 1, Len(text))
         IN /\ q \in Seq(Scalars) /\ r \in Seq(Scalars) /\ text = q \o r
            /\ s = FromUcs4(q) \o FromUcs4(r)
            /\ Off(text, k) \in 0..Len(s)
            /\ SubSeq(s, 1, Off(text, k)) = FromUcs4(q)
            /\ SubSeq(s, Off(text, k) + 1, Len(s)) = FromUcs4(r)
<1> DEFINE q == SubSeq(text, 1, k)
           r == SubSeq(text, k + 1, Len(text))
<1>1. q \in Seq(Scalars) /\ r \in Seq(Scalars)
  OBVIOUS
<1>2. text = q \o r
  <2>1. Len(text) \in Nat
    OBVIOUS
  <2>2. 1 \in 1..(Len(text) + 1) /\ k \in (1 - 1)..Len(text) /\ Len(text) \in k..Len(text)
    BY <2>1
  <2>3. SubSeq(text, 1, k) \o SubSeq(text, k + 1, Len(text)) = SubSeq(text, 1, Len(text))
    BY <2>2, ConcatAdjacentSubSeq
  <2> QED BY <2>3, SubSeqFull
<1>3. Off(text, k) = Len(FromUcs4(q))
  BY DEF Off
<1> HIDE DEF q, r
<1>4. s = FromUcs4(q) \o FromUcs4(r)
  BY <1>1, <1>2, FromConcat
<1>5. FromUcs4(q) \in Seq(Nat) /\ FromUcs4(r) \in Seq(Nat)
  BY <1>1, FromIs
<1>6. /\ SubSeq(s, 1, Len(FromUcs4(q))) = FromUcs4(q)
      /\ SubSeq(s, Len(FromUcs4(q)) + 1, Len(s)) = FromUcs4(r)
  BY <1>4, <1>5, ConcatParts
<1>7. Len(FromUcs4(q)) \in 0..Len(s)
  <2>1. Len(s) = Len(FromUcs4(q)) + Len(FromUcs4(r))
    BY <1>4, <1>5, ConcatProperties
  <2>2. Len(FromUcs4(q)) \in Nat /\ Len(FromUcs4(r)) \in Nat
    BY <1>5
  <2> QED BY <2>1, <2>2
<1>8. /\ q \in Seq(Scalars) /\ r \in Seq(Scalars) /\ text = q \o r
      /\ s = FromUcs4(q) \o FromUcs4(r)
      /\ Off(text, k) \in 0..Len(s)
      /\ SubSeq(s, 1, Off(text, k)) = FromUcs4(q)
      /\ SubSeq(s, Off(text, k) + 1, Len(s)) = FromUcs4(r)
  BY <1>1, <1>2, <1>3, <1>4, <1>6, <1>7
<1> QED BY <1>8 DEF q, r

\* The first scalar stands at the start, and the end of the text at the end of the bytes.
LEMMA OffEnds ==
  ASSUME NEW text \in Seq(Scalars)
  PROVE  Off(text, 0) = 0 /\ Off(text, Len(text)) = Len(FromUcs4(text))
<1>1. SubSeq(text, 1, 0) = <<>>
  OBVIOUS
<1>2. SubSeq(text, 1, Len(text)) = text
  BY SubSeqFull
<1>3. Off(text, 0) = Len(FromUcs4(<<>>))
  BY <1>1 DEF Off
<1>4. Off(text, 0) = 0
  BY <1>3, FromEmpty
<1> QED BY <1>2, <1>4, Zenon DEF Off

\* The bytes of each scalar stand where those before it end.
LEMMA OffStep ==
  ASSUME NEW text \in Seq(Scalars), NEW s, s = FromUcs4(text), NEW k \in 0..(Len(text) - 1)
  PROVE  /\ text[k + 1] \in Scalars
         /\ Off(text, k + 1) = Off(text, k) + Len(Encode(text[k + 1]))
         /\ At(s, Off(text, k), text[k + 1])
<1> DEFINE v == text[k + 1]
           q == SubSeq(text, 1, k)
           p == SubSeq(text, 1, k + 1)
           r == SubSeq(text, (k + 1) + 1, Len(text))
<1>1. k \in Nat /\ k + 1 \in 1..Len(text) /\ k \in 0..Len(text) /\ k + 1 \in 0..Len(text)
  OBVIOUS
<1>2. v \in Scalars /\ <<v>> \in Seq(Scalars)
  BY <1>1
<1>3. p = q \o <<v>>
  <2>1. 1 \in 1..Len(text) /\ k + 1 \in 1..Len(text) /\ (k + 1) - 1 = k
    BY <1>1
  <2>2. SubSeq(text, 1, k + 1) = SubSeq(text, 1, (k + 1) - 1) \o <<text[k + 1]>>
    BY <2>1, SubSeqRecursiveSecond
  <2> QED BY <2>1, <2>2
<1>4. q \in Seq(Scalars) /\ p \in Seq(Scalars) /\ r \in Seq(Scalars)
  OBVIOUS
<1>5. /\ s = FromUcs4(p) \o FromUcs4(r)
      /\ Off(text, k + 1) = Len(FromUcs4(p)) /\ Off(text, k) = Len(FromUcs4(q))
  BY <1>1, FromCut DEF Off
<1> DEFINE a == FromUcs4(q)
           e == Encode(v)
           b == FromUcs4(r)
<1> HIDE DEF v, q, p, r
<1>6. FromUcs4(p) = a \o e
  BY <1>2, <1>3, <1>4, FromConcat, FromOne
<1>7. a \in Seq(Nat) /\ e \in Seq(Nat) /\ b \in Seq(Nat)
  BY <1>2, <1>4, FromIs, EncodeShape
<1> HIDE DEF a, e, b
<1>8. /\ a \o e \in Seq(Nat) /\ Len(a \o e) = Len(a) + Len(e)
      /\ Len(a) \in Nat /\ Len(e) \in Nat /\ Len(b) \in Nat
      /\ \A i \in 1..(Len(a) + Len(e)) :
           (a \o e)[i] = IF i <= Len(a) THEN a[i] ELSE e[i - Len(a)]
  BY <1>7, ConcatProperties
<1>9. /\ Len(s) = (Len(a) + Len(e)) + Len(b)
      /\ \A i \in 1..(Len(a) + Len(e)) : s[i] = (a \o e)[i]
  <2>1. s = (a \o e) \o b
    BY <1>5, <1>6 DEF b
  <2> DEFINE c == a \o e
  <2>2. c \in Seq(Nat) /\ Len(c) = Len(a) + Len(e)
    BY <1>8
  <2> HIDE DEF c
  <2>3. /\ Len(c \o b) = Len(c) + Len(b)
        /\ \A i \in 1..(Len(c) + Len(b)) :
             (c \o b)[i] = IF i <= Len(c) THEN c[i] ELSE b[i - Len(c)]
    BY <1>7, <2>2, ConcatProperties
  <2>4. \A i \in 1..Len(c) : (c \o b)[i] = c[i]
    BY <1>8, <2>2, <2>3
  <2>5. s = c \o b
    BY <2>1 DEF c
  <2>6. Len(s) = (Len(a) + Len(e)) + Len(b) /\ \A i \in 1..(Len(a) + Len(e)) : s[i] = c[i]
    BY <2>2, <2>3, <2>4, <2>5
  <2> QED BY <2>6 DEF c
<1>10. ASSUME NEW j \in 1..Len(e) PROVE s[Len(a) + j] = e[j]
  <2>1. /\ Len(a) + j \in 1..(Len(a) + Len(e)) /\ ~(Len(a) + j <= Len(a))
        /\ (Len(a) + j) - Len(a) = j
    BY <1>8
  <2>2. s[Len(a) + j] = (a \o e)[Len(a) + j]
    BY <1>9, <2>1
  <2> QED BY <1>8, <2>1, <2>2
<1>11. Off(text, k) = Len(a) /\ Off(text, k + 1) = Len(a) + Len(e)
  BY <1>5, <1>6, <1>8 DEF a
<1>12. Len(a) + Len(e) <= Len(s)
  BY <1>8, <1>9
<1>13. At(s, Len(a), v)
  BY <1>10, <1>12 DEF At, e
<1>14. v \in Scalars /\ Off(text, k + 1) = Off(text, k) + Len(Encode(v)) /\ At(s, Off(text, k), v)
  BY <1>2, <1>11, <1>13 DEF e
<1> QED BY <1>14 DEF v

\* The offsets of a text's scalars go up, from the first byte to past the last.
LEMMA OffIs ==
  ASSUME NEW text \in Seq(Scalars)
  PROVE  /\ \A k \in 0..Len(text) : Off(text, k) \in 0..Len(FromUcs4(text))
         /\ \A k \in 0..(Len(text) - 1) :
              Off(text, k) < Off(text, k + 1) /\ Off(text, k + 1) <= Off(text, k) + 4
<1>1. \A k \in 0..Len(text) : Off(text, k) \in 0..Len(FromUcs4(text))
  BY FromCut
<1>2. ASSUME NEW k \in 0..(Len(text) - 1)
      PROVE  Off(text, k) < Off(text, k + 1) /\ Off(text, k + 1) <= Off(text, k) + 4
  <2>1. k \in 0..Len(text)
    OBVIOUS
  <2>2. Off(text, k) \in Nat
    BY <1>1, <2>1
  <2>3. text[k + 1] \in Scalars /\ Off(text, k + 1) = Off(text, k) + Len(Encode(text[k + 1]))
    BY OffStep
  <2> DEFINE n == Len(Encode(text[k + 1]))
             a == Off(text, k)
             b == Off(text, k + 1)
  <2>4. n \in 1..4
    BY <2>3, EncodeShape
  <2>5. a \in Nat /\ b = a + n
    BY <2>2, <2>3
  <2> HIDE DEF n, a, b
  <2>6. a < b /\ b <= a + 4
    BY <2>4, <2>5
  <2> QED BY <2>6 DEF a, b
<1> QED BY <1>1, <1>2

\* Later scalars stand at later bytes.
LEMMA OffMonotone ==
  ASSUME NEW text \in Seq(Scalars), NEW j \in 0..Len(text), NEW k \in 0..Len(text), j < k
  PROVE  Off(text, j) < Off(text, k)
<1> DEFINE T == {d \in Nat : j + d + 1 <= Len(text) => Off(text, j) < Off(text, j + d + 1)}
<1>1. Len(text) \in Nat /\ j \in Nat
  OBVIOUS
<1>2. 0 \in T
  <2> SUFFICES ASSUME j + 1 <= Len(text) PROVE Off(text, j) < Off(text, j + 0 + 1)
    BY <1>1
  <2>1. j \in 0..(Len(text) - 1) /\ j + 0 + 1 = j + 1
    BY <1>1
  <2> QED BY <2>1, OffIs
<1>3. ASSUME NEW d \in Nat, d \in T PROVE d + 1 \in T
  <2> SUFFICES ASSUME j + (d + 1) + 1 <= Len(text)
               PROVE  Off(text, j) < Off(text, j + (d + 1) + 1)
    OBVIOUS
  <2> DEFINE m == j + d + 1
  <2>1. /\ m \in 0..(Len(text) - 1) /\ j + (d + 1) + 1 = m + 1 /\ m <= Len(text)
        /\ m \in 0..Len(text) /\ m + 1 \in 0..Len(text)
    BY <1>1
  <2>2. Off(text, j) < Off(text, m)
    BY <1>3, <2>1
  <2> HIDE DEF m
  <2>3. Off(text, m) < Off(text, m + 1)
    BY <2>1, OffIs
  <2>4. Off(text, j) \in Nat /\ Off(text, m) \in Nat /\ Off(text, m + 1) \in Nat
    BY <2>1, OffIs
  <2>5. Off(text, j) < Off(text, m + 1)
    BY <2>2, <2>3, <2>4
  <2> QED BY <2>1, <2>5
<1>4. Nat \subseteq T
  <2> HIDE DEF T
  <2> QED BY <1>2, <1>3, Induction
<1>5. k - j - 1 \in Nat /\ j + (k - j - 1) + 1 = k
  BY <1>1
<1>6. k - j - 1 \in T
  BY <1>4, <1>5
<1> QED BY <1>5, <1>6

\* Every byte belongs to one scalar.
LEMMA Belongs ==
  ASSUME NEW text \in Seq(Scalars), NEW i \in 0..(Len(FromUcs4(text)) - 1)
  PROVE  \E k \in 0..(Len(text) - 1) : Off(text, k) <= i /\ i < Off(text, k + 1)
<1> DEFINE N == Len(FromUcs4(text))
           T == {k \in Nat : k <= Len(text) /\ i < Off(text, k) =>
                   \E m \in 0..(Len(text) - 1) : Off(text, m) <= i /\ i < Off(text, m + 1)}
<1>1. N \in Nat /\ i \in Nat /\ Len(text) \in Nat
  BY FromIs
<1>2. 0 \in T
  BY <1>1, OffEnds
<1>3. ASSUME NEW k \in Nat, k \in T PROVE k + 1 \in T
  <2> SUFFICES ASSUME k + 1 <= Len(text), i < Off(text, k + 1)
               PROVE  \E m \in 0..(Len(text) - 1) : Off(text, m) <= i /\ i < Off(text, m + 1)
    OBVIOUS
  <2>1. k \in 0..(Len(text) - 1) /\ k <= Len(text) /\ k \in 0..Len(text)
    BY <1>1
  <2>2. Off(text, k) \in Nat
    BY <2>1, OffIs
  <2>3. CASE Off(text, k) <= i
    BY <2>1, <2>3
  <2>4. CASE i < Off(text, k)
    BY <1>3, <2>1, <2>4
  <2> QED BY <1>1, <2>2, <2>3, <2>4
<1>4. Nat \subseteq T
  <2> HIDE DEF T
  <2> QED BY <1>2, <1>3, Induction
<1>5. Len(text) \in T /\ i < Off(text, Len(text))
  BY <1>1, <1>4, OffEnds
<1> QED BY <1>1, <1>5

\* utf8_scalar_count's lead bytes are where the scalars begin.
LEMMA StartsIs ==
  ASSUME NEW text \in Seq(Scalars), NEW s, s = FromUcs4(text)
  PROVE  Starts(s) = {Off(text, k) : k \in 0..(Len(text) - 1)}
<1>1. s \in Seq(Nat) /\ Len(s) \in Nat /\ Len(text) \in Nat
  BY FromIs
<1>2. ASSUME NEW k \in 0..(Len(text) - 1) PROVE Off(text, k) \in Starts(s)
  <2> DEFINE o == Off(text, k)
             v == text[k + 1]
  <2>1. v \in Scalars /\ At(s, o, v)
    BY OffStep
  <2>2. o \in Nat
    <3>1. k \in 0..Len(text)
      OBVIOUS
    <3> QED BY <3>1, OffIs
  <2> HIDE DEF o, v
  <2>3. /\ Len(Encode(v)) \in 1..4 /\ ~Continues(Encode(v)[1])
        /\ o + Len(Encode(v)) <= Len(s) /\ s[o + 1] = Encode(v)[1]
    BY <2>1, EncodeShape DEF At
  <2>4. o \in 0..(Len(s) - 1) /\ ~Continues(s[o + 1])
    BY <1>1, <2>2, <2>3
  <2>5. o \in Starts(s)
    BY <2>4 DEF Starts
  <2> QED BY <2>5 DEF o
<1>3. ASSUME NEW i \in Starts(s) PROVE \E k \in 0..(Len(text) - 1) : i = Off(text, k)
  <2>1. i \in 0..(Len(s) - 1) /\ ~Continues(s[i + 1])
    BY DEF Starts
  <2>2. PICK k \in 0..(Len(text) - 1) : Off(text, k) <= i /\ i < Off(text, k + 1)
    BY <2>1, Belongs
  <2> DEFINE o == Off(text, k)
             v == text[k + 1]
             n == Len(Encode(v))
  <2>3. v \in Scalars /\ At(s, o, v) /\ Off(text, k + 1) = o + n
    BY OffStep
  <2>4. o \in Nat
    <3>1. k \in 0..Len(text)
      OBVIOUS
    <3> QED BY <3>1, OffIs
  <2>5. o <= i /\ i < o + n
    BY <2>2, <2>3
  <2> HIDE DEF o, v
  <2>6. /\ n \in 1..4 /\ \A j \in 2..n : Continues(Encode(v)[j])
        /\ \A j \in 1..n : s[o + j] = Encode(v)[j]
    BY <2>3, EncodeShape DEF At
  <2> HIDE DEF n
  <2>7. CASE i # o
    <3> DEFINE j == i - o + 1
    <3>1. j \in 2..n /\ j \in 1..n /\ o + j = i + 1
      BY <2>1, <2>4, <2>5, <2>6, <2>7
    <3> HIDE DEF j
    <3>2. s[o + j] = Encode(v)[j] /\ Continues(Encode(v)[j])
      BY <2>6, <3>1
    <3> QED BY <2>1, <3>1, <3>2
  <2>8. CASE i = o
    BY <2>8 DEF o
  <2> QED BY <2>7, <2>8
<1> QED BY <1>2, <1>3

\* So many of them lie before each offset.
LEMMA CountBelow ==
  ASSUME NEW text \in Seq(Scalars), NEW s, s = FromUcs4(text), NEW k \in 0..Len(text)
  PROVE  Cardinality({j \in Starts(s) : j < Off(text, k)}) = k
<1> DEFINE Below(m) == {j \in Starts(s) : j < Off(text, m)}
           Counted(m) == IsFiniteSet(Below(m)) /\ Cardinality(Below(m)) = m
           T == {m \in Nat : m <= Len(text) => Counted(m)}
<1>1. Len(text) \in Nat
  OBVIOUS
<1>2. 0 \in T
  <2>1. Starts(s) \subseteq Nat
    BY DEF Starts
  <2>2. Below(0) = {}
    BY <2>1, OffEnds
  <2> HIDE DEF Below
  <2> QED BY <2>2, FS_EmptySet
<1>3. ASSUME NEW m \in Nat, m \in T PROVE m + 1 \in T
  <2> SUFFICES ASSUME m + 1 <= Len(text) PROVE Counted(m + 1)
    OBVIOUS
  <2>1. m \in 0..(Len(text) - 1) /\ m \in 0..Len(text) /\ m + 1 \in 0..Len(text) /\ m <= Len(text)
    BY <1>1
  <2>2. Off(text, m) \in Nat /\ Off(text, m + 1) \in Nat /\ Off(text, m) < Off(text, m + 1)
    BY <2>1, OffIs
  <2>3. Off(text, m) \in Starts(s)
    BY <2>1, StartsIs
  <2>4. ASSUME NEW j \in Starts(s)
        PROVE  j < Off(text, m + 1) <=> (j < Off(text, m) \/ j = Off(text, m))
    <3>1. PICK i \in 0..(Len(text) - 1) : j = Off(text, i)
      BY StartsIs
    <3>2. i \in 0..Len(text) /\ i \in Nat
      BY <1>1
    <3>3. j \in Nat
      BY <3>1, <3>2, OffIs
    <3>4. CASE i = m
      BY <2>2, <3>1, <3>4
    <3>5. CASE i < m
      <4>1. Off(text, i) < Off(text, m)
        BY <2>1, <3>2, <3>5, OffMonotone
      <4> QED BY <2>2, <3>1, <3>3, <4>1
    <3>6. CASE i > m
      <4>1. i = m + 1 \/ m + 1 < i
        BY <3>2, <3>6
      <4>2. CASE i = m + 1
        BY <2>2, <3>1, <4>2
      <4>3. CASE m + 1 < i
        <5>1. Off(text, m + 1) < Off(text, i)
          BY <2>1, <3>2, <4>3, OffMonotone
        <5> QED BY <2>2, <3>1, <3>3, <5>1
      <4> QED BY <4>1, <4>2, <4>3
    <3> QED BY <3>2, <3>4, <3>5, <3>6
  <2>5. Below(m + 1) = Below(m) \cup {Off(text, m)}
    BY <2>3, <2>4
  <2>6. Off(text, m) \notin Below(m)
    BY <2>2
  <2>7. Counted(m)
    BY <1>3, <2>1
  <2> HIDE DEF Below
  <2>8. IsFiniteSet(Below(m)) /\ Cardinality(Below(m)) = m
    BY <2>7
  <2> DEFINE o == Off(text, m)
             B == Below(m)
  <2>9. IsFiniteSet(B) /\ Cardinality(B) = m /\ o \notin B /\ Below(m + 1) = B \cup {o}
    BY <2>5, <2>6, <2>8
  <2> HIDE DEF o, B
  <2>10. IsFiniteSet(B \cup {o}) /\ Cardinality(B \cup {o}) = m + 1
    BY <2>9, FS_AddElement
  <2> QED BY <2>9, <2>10
<1>4. Nat \subseteq T
  <2> HIDE DEF T
  <2> QED BY <1>2, <1>3, Induction
<1>5. k \in T
  BY <1>4
<1> QED BY <1>5

\* The library's conversions: each scalar position has the one offset, and each
\* offset the one position (utf8_byte_offset, utf8_scalar_index).
THEOREM PositionsAgree ==
  ASSUME NEW text \in Seq(Scalars), NEW s, s = FromUcs4(text)
  PROVE  /\ ScalarCount(s) = Len(text)
         /\ \A k \in 0..Len(text) : ByteOffset(s, k) = {Off(text, k)}
         /\ \A k \in 0..Len(text) : ScalarIndex(s, Off(text, k)) = {k}
<1> DEFINE Ahead(i) == {j \in Starts(s) : j < i}
<1>1. Len(text) \in Nat /\ Len(s) \in Nat /\ Off(text, Len(text)) = Len(s)
  BY FromIs, OffEnds
<1>2. \A k \in 0..Len(text) : Cardinality(Ahead(Off(text, k))) = k
  BY CountBelow
<1>3. Starts(s) \cup {Len(s)} = {Off(text, k) : k \in 0..Len(text)}
  <2>1. Starts(s) = {Off(text, k) : k \in 0..(Len(text) - 1)}
    BY StartsIs
  <2>2. \A k : k \in 0..Len(text) <=> k \in 0..(Len(text) - 1) \/ k = Len(text)
    BY <1>1
  <2> QED BY <1>1, <2>1, <2>2
<1>4. Starts(s) = Ahead(Len(s))
  <2>1. \A j \in Starts(s) : j < Len(s)
    BY <1>1 DEF Starts
  <2> QED BY <2>1
<1>5. ScalarCount(s) = Len(text)
  BY <1>1, <1>2, <1>4 DEF ScalarCount
<1>6. ASSUME NEW k \in 0..Len(text) PROVE ByteOffset(s, k) = {Off(text, k)}
  <2>1. ByteOffset(s, k) = {i \in Starts(s) \cup {Len(s)} : Cardinality(Ahead(i)) = k}
    BY DEF ByteOffset
  <2> HIDE DEF Ahead
  <2>2. ByteOffset(s, k) \subseteq {Off(text, k)}
    <3>1. SUFFICES ASSUME NEW i \in ByteOffset(s, k) PROVE i = Off(text, k)
      OBVIOUS
    <3>2. i \in Starts(s) \cup {Len(s)} /\ Cardinality(Ahead(i)) = k
      BY <2>1
    <3>3. PICK m \in 0..Len(text) : i = Off(text, m)
      BY <1>3, <3>2
    <3> QED BY <1>2, <3>2, <3>3
  <2>3. Off(text, k) \in ByteOffset(s, k)
    BY <1>2, <1>3, <2>1
  <2> QED BY <2>2, <2>3
<1>7. ASSUME NEW k \in 0..Len(text) PROVE ScalarIndex(s, Off(text, k)) = {k}
  <2>1. Off(text, k) \in Starts(s) \cup {Len(s)}
    BY <1>3
  <2> QED BY <1>2, <2>1 DEF ScalarIndex
<1> QED BY <1>5, <1>6, <1>7

-------------------------------------------------------------------------------
(* Reading a text from its bytes.                                          *)

\* What is computed from the end of a text back to its beginning.
Onward(N, go) == \A i \in 0..(N - 1) : go[i] \in (i + 1)..N
Within(N, V, h) == \A i \in 0..(N - 1) : \A x \in V : h[i][x] \in V
Computed(N, base, go, h, f) == f[N] = base /\ \A i \in 0..(N - 1) : f[i] = h[i][f[go[i]]]

\* What is computed from the end of the bytes towards the start exists.
LEMMA BackwardExists ==
  ASSUME NEW N \in Nat, NEW V, NEW base \in V, NEW go, NEW h,
         Onward(N, go), Within(N, V, h)
  PROVE  \E f \in [0..N -> V] : Computed(N, base, go, h, f)
<1>. /\ \A i \in 0..(N - 1) : go[i] \in (i + 1)..N
     /\ \A i \in 0..(N - 1) : \A x \in V : h[i][x] \in V
  BY DEF Onward, Within
<1> DEFINE Up(n, f) == /\ f \in [(N - n)..N -> V] /\ f[N] = base
                       /\ \A i \in (N - n)..(N - 1) : f[i] = h[i][f[go[i]]]
           Some(n) == \E f : Up(n, f)
           T == {n \in Nat : n <= N => Some(n)}
<1>1. Some(0)
  <2> DEFINE f == [i \in (N - 0)..N |-> base]
  <2>1. f \in [(N - 0)..N -> V] /\ f[N] = base
    OBVIOUS
  <2>2. \A i \in (N - 0)..(N - 1) : f[i] = h[i][f[go[i]]]
    OBVIOUS
  <2> HIDE DEF f
  <2>3. Up(0, f)
    BY <2>1, <2>2
  <2> QED BY <2>3
<1>2. ASSUME NEW n \in Nat, n + 1 <= N, Some(n) PROVE Some(n + 1)
  <2>1. PICK f : Up(n, f)
    BY <1>2
  <2> DEFINE a == N - (n + 1)
             x == h[a][f[go[a]]]
             g == [i \in a..N |-> IF i = a THEN x ELSE f[i]]
  <2>2. a \in 0..(N - 1) /\ a + 1 = N - n /\ a # N /\ a \in a..N /\ N \in a..N
    BY <1>2
  <2>3. go[a] \in (N - n)..N
    BY <2>2
  <2>4. f[go[a]] \in V
    BY <2>1, <2>3
  <2>5. x \in V
    BY <2>2, <2>4
  <2> HIDE DEF x
  <2>6. \A i \in a..N : i = a \/ i \in (N - n)..N
    BY <2>2
  <2>7. g \in [a..N -> V]
    BY <2>1, <2>5, <2>6
  <2>8. g[N] = base
    BY <2>1, <2>2
  <2>9. ASSUME NEW i \in a..(N - 1) PROVE g[i] = h[i][g[go[i]]]
    <3>1. i \in 0..(N - 1) /\ i \in a..N
      BY <2>2
    <3>2. go[i] \in (i + 1)..N
      BY <3>1
    <3>3. go[i] \in a..N /\ go[i] # a
      BY <2>2, <3>1, <3>2
    <3>4. g[go[i]] = f[go[i]]
      BY <3>3
    <3>5. CASE i = a
      BY <2>2, <3>4, <3>5 DEF x
    <3>6. CASE i # a
      <4>1. i \in (N - n)..(N - 1) /\ g[i] = f[i]
        BY <2>2, <3>1, <3>6
      <4> QED BY <2>1, <3>4, <4>1
    <3> QED BY <3>5, <3>6
  <2> HIDE DEF g
  <2>10. Up(n + 1, g)
    BY <2>7, <2>8, <2>9
  <2> QED BY <2>10
<1> HIDE DEF Some
<1>3. 0 \in T
  BY <1>1
<1>4. ASSUME NEW n \in Nat, n \in T PROVE n + 1 \in T
  BY <1>2, <1>4
<1>5. Nat \subseteq T
  <2> HIDE DEF T
  <2> QED BY <1>3, <1>4, Induction
<1>6. Some(N)
  BY <1>5
<1>7. PICK f : Up(N, f)
  BY <1>6 DEF Some
<1>8. N - N = 0
  OBVIOUS
<1>9. f \in [0..N -> V] /\ Computed(N, base, go, h, f)
  BY <1>7, <1>8, Zenon DEF Computed
<1> QED BY <1>9

\* What may be decoded at an offset.
Decoded == [ok : BOOLEAN, scalars : Seq(Scalars)]

NoText == [ok |-> FALSE, scalars |-> <<>>]
EndOfText == [ok |-> TRUE, scalars |-> <<>>]
Before(v, x) == [x EXCEPT !.scalars = <<v>> \o @]

\* A character read stands before what is read after it.
LEMMA BeforeIs ==
  ASSUME NEW v \in Scalars, NEW x \in Decoded
  PROVE  /\ Before(v, x) \in Decoded
         /\ Before(v, x).ok = x.ok /\ Before(v, x).scalars = <<v>> \o x.scalars
<1>1. <<v>> \in Seq(Scalars) /\ x.scalars \in Seq(Scalars)
  BY DEF Decoded
<1>2. <<v>> \o x.scalars \in Seq(Scalars)
  BY <1>1, ConcatProperties
<1> QED BY <1>2 DEF Before, Decoded

\* One character read, or none.
LEMMA OneIs ==
  ASSUME NEW s \in Seq(Nat), NEW i \in 0..(Len(s) - 1), NEW n, n = DecodeOne(s, i).length,
         NEW v, v = DecodeOne(s, i).scalar, n # 0
  PROVE  v \in Scalars /\ n = Len(Encode(v)) /\ At(s, i, v) /\ n \in 1..4 /\ i + n <= Len(s)
<1>1. i \in Nat /\ i < Len(s) /\ Len(s) \in Nat
  OBVIOUS
<1>2. v \in Scalars /\ n = Len(Encode(v)) /\ At(s, i, v)
  BY <1>1, WritesBack
<1>3. n \in 1..4
  BY <1>2, EncodeShape
<1>4. i + n <= Len(s)
  BY <1>2 DEF At
<1> QED BY <1>2, <1>3, <1>4

\* The scalars from each offset on.
Reads(s, c) ==
  /\ c[Len(s)] = EndOfText
  /\ \A i \in 0..(Len(s) - 1) :
       LET one == DecodeOne(s, i)
       IN c[i] = IF one.length = 0 THEN NoText ELSE Before(one.scalar, c[i + one.length])

\* What is decoded is what is read from the first byte on.
LEMMA DecodeIs ==
  ASSUME NEW s \in Seq(Nat)
  PROVE  \E c : Reads(s, c) /\ Decode(s) = c[0]
<1> DEFINE N == Len(s)
           D == 0..Len(s)
           n(i) == DecodeOne(s, i).length
           F(d) == [i \in D |->
                      IF i = Len(s) THEN [ok |-> TRUE, scalars |-> <<>>]
                      ELSE IF n(i) = 0 THEN [ok |-> FALSE, scalars |-> <<>>]
                           ELSE [d[i + n(i)] EXCEPT
                                   !.scalars = <<DecodeOne(s, i).scalar>> \o @]]
           c == CHOOSE d : d = F(d)
<1>1. N \in Nat /\ N \in D /\ 0 \in D
  OBVIOUS
<1>2. \E d : d = F(d)
  <2> DEFINE go == [i \in 0..(N - 1) |-> IF n(i) = 0 THEN i + 1 ELSE i + n(i)]
             h == [i \in 0..(N - 1) |->
                     [x \in Decoded |->
                        IF n(i) = 0 THEN NoText ELSE Before(DecodeOne(s, i).scalar, x)]]
  <2>1. ASSUME NEW i \in 0..(N - 1)
        PROVE  go[i] \in (i + 1)..N /\ \A x \in Decoded : h[i][x] \in Decoded
    <3>1. NoText \in Decoded
      BY DEF NoText, Decoded
    <3>2. i \in 0..(Len(s) - 1)
      OBVIOUS
    <3>3. CASE n(i) = 0
      BY <1>1, <3>1, <3>3
    <3>4. CASE n(i) # 0
      <4>1. DecodeOne(s, i).scalar \in Scalars /\ n(i) \in 1..4 /\ i + n(i) <= Len(s)
        BY <3>2, <3>4, OneIs
      <4>2. go[i] = i + n(i)
        BY <3>4
      <4>3. \A x \in Decoded : h[i][x] = Before(DecodeOne(s, i).scalar, x)
        BY <3>4
      <4>4. \A x \in Decoded : h[i][x] \in Decoded
        BY <4>1, <4>3, BeforeIs
      <4> HIDE DEF n, go
      <4> QED BY <1>1, <4>1, <4>2, <4>4
    <3> QED BY <3>3, <3>4
  <2>2. EndOfText \in Decoded
    BY DEF EndOfText, Decoded
  <2>3. Onward(N, go) /\ Within(N, Decoded, h)
    BY <2>1 DEF Onward, Within
  <2>4. \E f \in [0..N -> Decoded] : Computed(N, EndOfText, go, h, f)
    <3> HIDE DEF go, h, N
    <3> QED BY <1>1, <2>2, <2>3, BackwardExists
  <2>5. PICK f \in [0..N -> Decoded] : Computed(N, EndOfText, go, h, f)
    BY <2>4
  <2>6. f[N] = EndOfText /\ \A i \in 0..(N - 1) : f[i] = h[i][f[go[i]]]
    BY <2>5 DEF Computed
  <2>7. ASSUME NEW i \in D
        PROVE  f[i] = IF i = Len(s) THEN [ok |-> TRUE, scalars |-> <<>>]
                      ELSE IF n(i) = 0 THEN [ok |-> FALSE, scalars |-> <<>>]
                           ELSE [f[i + n(i)] EXCEPT
                                   !.scalars = <<DecodeOne(s, i).scalar>> \o @]
    <3>1. CASE i = Len(s)
      BY <2>6, <3>1 DEF EndOfText
    <3>2. CASE i # Len(s)
      <4>1. i \in 0..(N - 1)
        BY <1>1, <3>2
      <4>2. f[i] = h[i][f[go[i]]] /\ go[i] \in (i + 1)..N
        BY <2>1, <2>6, <4>1
      <4>3. go[i] \in 0..N
        BY <4>1, <4>2
      <4>4. f[go[i]] \in Decoded
        BY <2>6, <4>3
      <4>5. f[i] = IF n(i) = 0 THEN NoText
                   ELSE Before(DecodeOne(s, i).scalar, f[go[i]])
        BY <4>1, <4>2, <4>4
      <4>6. n(i) # 0 => go[i] = i + n(i)
        BY <4>1
      <4> HIDE DEF n, go, h
      <4>7. CASE n(i) = 0
        BY <3>2, <4>5, <4>7 DEF NoText
      <4>8. CASE n(i) # 0
        BY <3>2, <4>5, <4>6, <4>8 DEF Before
      <4> QED BY <4>7, <4>8
    <3> QED BY <3>1, <3>2
  <2>8. f = F(f)
    <3> HIDE DEF n, go, h
    <3> QED BY <2>6, <2>7
  <2> QED BY <2>8
<1>3. c = F(c)
  BY <1>2
<1>4. Decode(s) = c[0]
  BY <1>1 DEF Decode
<1> HIDE DEF c
<1>5. Reads(s, c)
  <2>1. \A i \in D : c[i] = F(c)[i]
    BY <1>3
  <2>2. c[Len(s)] = EndOfText
    BY <1>1, <2>1 DEF EndOfText
  <2>3. ASSUME NEW i \in 0..(Len(s) - 1)
        PROVE  c[i] = IF n(i) = 0 THEN NoText ELSE Before(DecodeOne(s, i).scalar, c[i + n(i)])
    <3>1. i \in D /\ i # Len(s)
      BY <1>1
    <3> HIDE DEF n
    <3> QED BY <2>1, <3>1 DEF NoText, Before
  <2> QED BY <2>2, <2>3 DEF Reads
<1> QED BY <1>4, <1>5

\* utf8_validate reads a text back from the bytes utf8_from_ucs4 wrote.
THEOREM RoundTrip ==
  ASSUME NEW text \in Seq(Scalars)
  PROVE  Decode(FromUcs4(text)) = [ok |-> TRUE, scalars |-> text]
<1> DEFINE s == FromUcs4(text)
           N == Len(text)
           Rest(k) == SubSeq(text, k + 1, Len(text))
<1>1. s \in Seq(Nat) /\ Len(s) \in Nat /\ N \in Nat
  BY FromIs
<1> HIDE DEF s
<1>2. PICK c : Reads(s, c) /\ Decode(s) = c[0]
  BY <1>1, DecodeIs
<1> DEFINE T == {d \in Nat : d <= N =>
                   c[Off(text, N - d)] = [ok |-> TRUE, scalars |-> Rest(N - d)]}
<1>3. 0 \in T
  <2>1. Off(text, N - 0) = Len(s) /\ Rest(N - 0) = <<>>
    BY <1>1, OffEnds DEF s
  <2> QED BY <1>2, <2>1 DEF Reads, EndOfText
<1>4. ASSUME NEW d \in Nat, d \in T PROVE d + 1 \in T
  <2>0. d + 1 \in Nat
    OBVIOUS
  <2> SUFFICES ASSUME d + 1 <= N
               PROVE  c[Off(text, N - (d + 1))] = [ok |-> TRUE, scalars |-> Rest(N - (d + 1))]
    BY <2>0, Zenon
  <2> DEFINE k == N - (d + 1)
             o == Off(text, k)
             v == text[k + 1]
             n == Len(Encode(v))
             x == c[Off(text, k + 1)]
  <2>1. k \in 0..(Len(text) - 1) /\ k + 1 = N - d /\ d <= N /\ k \in 0..Len(text) /\ k \in Nat
    BY <1>1
  <2>2. x = [ok |-> TRUE, scalars |-> Rest(k + 1)]
    BY <1>4, <2>1
  <2> HIDE DEF k
  <2>3. v \in Scalars /\ Off(text, k + 1) = o + n /\ At(s, o, v)
    BY <2>1, OffStep DEF s
  <2>4. o \in Nat
    BY <2>1, OffIs
  <2>5. Rest(k) = <<v>> \o Rest(k + 1)
    <3>1. k + 1 \in 1..Len(text) /\ Len(text) \in (k + 1)..Len(text)
      BY <1>1, <2>1
    <3> QED BY <3>1, SubSeqRecursiveFirst
  <2>6. Rest(k + 1) \in Seq(Scalars)
    BY <1>1, <2>1
  <2>7. DecodeOne(s, o) = [length |-> n, scalar |-> v]
    BY <1>1, <2>3, <2>4, ReadsBack
  <2>8. n \in 1..4 /\ o + n <= Len(s)
    BY <2>3, EncodeShape DEF At
  <2>9. o \in 0..(Len(s) - 1)
    <3> HIDE DEF o, n
    <3> QED BY <1>1, <2>4, <2>8
  <2>10. c[o] = Before(v, c[o + n])
    <3>1. DecodeOne(s, o).length = n /\ DecodeOne(s, o).scalar = v /\ n # 0
      <4> HIDE DEF o, v, n
      <4>1. n # 0
        BY <2>8
      <4> QED BY <2>7, <4>1
    <3>2. c[o] = IF DecodeOne(s, o).length = 0 THEN NoText
                 ELSE Before(DecodeOne(s, o).scalar, c[o + DecodeOne(s, o).length])
      BY <1>2, <2>9 DEF Reads
    <3> HIDE DEF o, v, n
    <3> QED BY <3>1, <3>2
  <2> DEFINE r == Rest(k + 1)
  <2>11. c[o] = Before(v, [ok |-> TRUE, scalars |-> r])
    BY <2>2, <2>3, <2>10
  <2>12. r \in Seq(Scalars) /\ Rest(k) = <<v>> \o r
    BY <2>5, <2>6
  <2> HIDE DEF o, v, n, Rest, r
  <2>13. [ok |-> TRUE, scalars |-> r] \in Decoded
    BY <2>12 DEF Decoded
  <2>14. c[o] = [ok |-> TRUE, scalars |-> <<v>> \o r]
    BY <2>11 DEF Before
  <2> QED BY <2>12, <2>14 DEF k, o
<1>5. Nat \subseteq T
  <2> HIDE DEF T
  <2> QED BY <1>3, <1>4, Induction
<1>6. c[Off(text, 0)] = [ok |-> TRUE, scalars |-> Rest(0)]
  <2>1. N \in T /\ N - N = 0
    BY <1>1, <1>5
  <2> QED BY <2>1
<1>7. Off(text, 0) = 0 /\ Rest(0) = text
  <2>1. SubSeq(text, 1, Len(text)) = text /\ 0 + 1 = 1
    BY SubSeqFull
  <2> QED BY <2>1, OffEnds
<1> QED BY <1>2, <1>6, <1>7 DEF s

\* The bytes from one character on.
LEMMA FromHere ==
  ASSUME NEW s \in Seq(Nat), NEW i \in Nat, NEW v \in Scalars, At(s, i, v),
         NEW n, n = Len(Encode(v))
  PROVE  SubSeq(s, i + 1, Len(s)) = Encode(v) \o SubSeq(s, i + n + 1, Len(s))
<1>1. /\ Encode(v) \in Seq(Nat) /\ n \in 1..4 /\ i + n <= Len(s) /\ Len(s) \in Nat
      /\ \A k \in 1..n : s[i + k] = Encode(v)[k]
  <2>1. Encode(v) \in Seq(Nat) /\ n \in 1..4
    BY EncodeShape
  <2>2. i + n <= Len(s) /\ \A k \in 1..n : s[i + k] = Encode(v)[k]
    BY Zenon DEF At
  <2>3. Len(s) \in Nat
    OBVIOUS
  <2> QED BY <2>1, <2>2, <2>3, Zenon
<1>2. SubSeq(s, i + 1, i + n) = Encode(v)
  <2> DEFINE m == i + 1
             d == SubSeq(s, i + 1, i + n)
  <2>1. m \in Int /\ i + n \in Int /\ (i + n) - m + 1 = n /\ m <= i + n
    BY <1>1
  <2>2. \A k \in (i + 1)..(i + n) : s[k] \in Nat
    BY <1>1
  <2>3. /\ d \in Seq(Nat) /\ Len(d) = n
        /\ \A k \in 1..n : d[k] = s[(i + 1) + k - 1]
    <3>1. /\ d \in Seq(Nat)
          /\ Len(d) = IF m <= i + n THEN (i + n) - m + 1 ELSE 0
          /\ \A k \in 1..((i + n) - m + 1) : d[k] = s[m + k - 1]
      BY <2>1, <2>2, SubSeqProperties
    <3> HIDE DEF d
    <3> QED BY <2>1, <3>1
  <2> HIDE DEF d
  <2>4. ASSUME NEW k \in 1..n PROVE d[k] = Encode(v)[k]
    <3>1. (i + 1) + k - 1 = i + k
      BY <1>1
    <3> QED BY <1>1, <2>3, <3>1
  <2>5. d = Encode(v)
    BY <1>1, <2>3, <2>4, SeqEqual
  <2> QED BY <2>5 DEF d
<1>3. SubSeq(s, i + 1, i + n) \o SubSeq(s, i + n + 1, Len(s)) = SubSeq(s, i + 1, Len(s))
  <2>1. /\ i + 1 \in 1..(Len(s) + 1) /\ i + n \in ((i + 1) - 1)..Len(s)
        /\ Len(s) \in (i + n)..Len(s)
    BY <1>1
  <2> QED BY <2>1, ConcatAdjacentSubSeq
<1> QED BY <1>2, <1>3

\* What it takes for a text is what utf8_from_ucs4 would write for its scalars:
\* every text has the one spelling.
THEOREM OneSpelling ==
  ASSUME NEW s \in Seq(Nat)
  PROVE  /\ Decode(s) \in Decoded
         /\ Valid(s) => FromUcs4(Decode(s).scalars) = s
<1> DEFINE N == Len(s)
           Rest(i) == SubSeq(s, i + 1, Len(s))
<1>1. N \in Nat
  OBVIOUS
<1>2. PICK c : Reads(s, c) /\ Decode(s) = c[0]
  BY DecodeIs
<1> DEFINE P(i) == c[i] \in Decoded /\ (c[i].ok => FromUcs4(c[i].scalars) = Rest(i))
           T == {d \in Nat : \A i \in 0..N : N - i <= d => P(i)}
<1>3. 0 \in T
  <2>1. ASSUME NEW i \in 0..N, N - i <= 0 PROVE P(i)
    <3>1. i = N
      BY <1>1, <2>1
    <3>2. Rest(N) = <<>>
      BY <1>1
    <3>3. c[i] = EndOfText
      BY <1>2, <3>1 DEF Reads
    <3>4. EndOfText \in Decoded /\ EndOfText.scalars = <<>>
      BY DEF Decoded, EndOfText
    <3> QED BY <3>1, <3>2, <3>3, <3>4, FromEmpty
  <2> QED BY <2>1
<1>4. ASSUME NEW d \in Nat, d \in T PROVE d + 1 \in T
  <2>1. ASSUME NEW i \in 0..N, N - i <= d + 1 PROVE P(i)
    <3>1. CASE i = N
      <4>1. N - i <= d
        BY <1>1, <3>1
      <4> QED BY <1>4, <4>1
    <3>2. CASE i # N
      <4> DEFINE n == DecodeOne(s, i).length
                 v == DecodeOne(s, i).scalar
      <4>1. i \in 0..(Len(s) - 1) /\ i \in Nat
        BY <1>1, <3>2
      <4>2. c[i] = IF n = 0 THEN NoText ELSE Before(v, c[i + n])
        BY <1>2, <4>1 DEF Reads
      <4>3. CASE n = 0
        <5>1. c[i] = NoText
          BY <4>2, <4>3
        <5>2. NoText \in Decoded /\ ~NoText.ok
          BY DEF NoText, Decoded
        <5> QED BY <5>1, <5>2
      <4>4. CASE n # 0
        <5>1. v \in Scalars /\ n = Len(Encode(v)) /\ At(s, i, v) /\ n \in 1..4 /\ i + n <= N
          BY <4>1, <4>4, OneIs
        <5>2. i + n \in 0..N /\ N - (i + n) <= d
          <6>1. n \in 1..4 /\ i + n <= N /\ i \in Nat /\ N - i <= d + 1
            BY <2>1, <4>1, <5>1
          <6> HIDE DEF n, N
          <6> QED BY <1>1, <6>1
        <5>3. P(i + n)
          BY <1>4, <5>2
        <5>4. c[i] = Before(v, c[i + n])
          BY <4>2, <4>4
        <5>5. Rest(i) = Encode(v) \o Rest(i + n)
          BY <4>1, <5>1, FromHere
        <5> HIDE DEF n, v, Rest, N
        <5> DEFINE x == c[i + n]
                   t == x.scalars
        <5>6. x \in Decoded /\ (x.ok => FromUcs4(t) = Rest(i + n)) /\ t \in Seq(Scalars)
          BY <5>3 DEF Decoded
        <5>9. c[i] = Before(v, x)
          BY <5>4
        <5> HIDE DEF x
        <5>7. c[i] \in Decoded /\ c[i].ok = x.ok /\ c[i].scalars = <<v>> \o t
          BY <5>1, <5>6, <5>9, BeforeIs
        <5>8. FromUcs4(<<v>> \o t) = Encode(v) \o FromUcs4(t)
          <6>1. <<v>> \in Seq(Scalars)
            BY <5>1
          <6> QED BY <5>1, <5>6, <6>1, FromConcat, FromOne
        <5> QED BY <5>5, <5>6, <5>7, <5>8
      <4> QED BY <4>3, <4>4
    <3> QED BY <3>1, <3>2
  <2> QED BY <2>1
<1>5. Nat \subseteq T
  <2> HIDE DEF T
  <2> QED BY <1>3, <1>4, Induction
<1>6. P(0)
  BY <1>1, <1>5
<1>7. Rest(0) = s
  <2>1. SubSeq(s, 1, Len(s)) = s /\ 0 + 1 = 1
    BY SubSeqFull
  <2> QED BY <2>1
<1> QED BY <1>2, <1>6, <1>7 DEF Valid

-------------------------------------------------------------------------------
(* The demo's walk over the same bytes.                                    *)

\* The demo steps over a character as the library does (sequence_length).
LEMMA StepIs ==
  ASSUME NEW s \in Seq(Nat), NEW i \in Nat, NEW v \in Scalars, At(s, i, v)
  PROVE  Step(s, i) = Len(Encode(v))
<1> DEFINE a == s[i + 1]
           n == Len(Encode(v))
<1>1. /\ Encode(v) \in Seq(Nat) /\ n \in 1..4 /\ SequenceLength(Encode(v)[1]) = n
      /\ i + n <= Len(s) /\ Len(s) \in Nat
  <2>1. Encode(v) \in Seq(Nat) /\ n \in 1..4 /\ SequenceLength(Encode(v)[1]) = n
    BY EncodeShape
  <2>2. i + n <= Len(s)
    BY Zenon DEF At
  <2> QED BY <2>1, <2>2
<1>2. a = Encode(v)[1] /\ a \in Nat
  <2>1. s[i + 1] = Encode(v)[1]
    BY <1>1 DEF At
  <2> QED BY <1>1, <2>1
<1>3. SequenceLength(a) = n
  BY <1>1, <1>2
<1> HIDE DEF a, n
<1> DEFINE m == CASE a \div 32 = 6 -> 2 [] a \div 16 = 14 -> 3
                  [] a \div 8 = 30 -> 4 [] OTHER -> 1
<1>4. m = n
  <2>0. a \in Nat
    BY <1>2
  <2>1. /\ a \div 32 = 6 <=> a \in 192..223
        /\ a \div 16 = 14 <=> a \in 224..239
        /\ a \div 8 = 30 <=> a \in 240..247
    BY <2>0
  <2>2. /\ n = 1 <=> a \in 1..127
        /\ n = 2 <=> a \in 192..223
        /\ n = 3 <=> a \in 224..239
        /\ n = 4 <=> a \in 240..247
    BY <2>0, <1>3, LeadIs
  <2>3. CASE n = 1
    BY <2>1, <2>2, <2>3
  <2>4. CASE n = 2
    BY <2>1, <2>2, <2>4
  <2>5. CASE n = 3
    BY <2>1, <2>2, <2>5
  <2>6. CASE n = 4
    BY <2>1, <2>2, <2>6
  <2> QED BY <1>1, <2>3, <2>4, <2>5, <2>6
<1>5. Step(s, i) = IF i + m > Len(s) THEN 1 ELSE m
  BY DEF Step, a
<1> HIDE DEF m
<1>6. Step(s, i) = n
  BY <1>1, <1>4, <1>5
<1> QED BY <1>6 DEF n

\* A step of the demo goes on, and not past the end.
LEMMA StepBounds ==
  ASSUME NEW s \in Seq(Nat), NEW i \in 0..(Len(s) - 1)
  PROVE  Step(s, i) \in 1..4 /\ i + Step(s, i) <= Len(s)
<1> DEFINE a == s[i + 1]
           m == CASE a \div 32 = 6 -> 2 [] a \div 16 = 14 -> 3
                  [] a \div 8 = 30 -> 4 [] OTHER -> 1
<1>1. m \in 1..4
  OBVIOUS
<1>2. Step(s, i) = IF i + m > Len(s) THEN 1 ELSE m
  BY DEF Step
<1>3. Len(s) \in Nat /\ i \in Nat /\ i + 1 <= Len(s)
  OBVIOUS
<1> HIDE DEF m
<1> QED BY <1>1, <1>2, <1>3

\* The offsets it visits from each offset on.
Walks(s, c) ==
  /\ c[Len(s)] = <<Len(s)>>
  /\ \A i \in 0..(Len(s) - 1) : c[i] = <<i>> \o c[i + Step(s, i)]

\* The demo's walk is what is walked from the first byte on.
LEMMA WalkIs ==
  ASSUME NEW s \in Seq(Nat)
  PROVE  \E c : Walks(s, c) /\ Walk(s) = c[0]
<1> DEFINE N == Len(s)
           D == 0..Len(s)
           F(d) == [i \in D |-> IF i = Len(s) THEN <<i>> ELSE <<i>> \o d[i + Step(s, i)]]
           c == CHOOSE d : d = F(d)
<1>1. N \in Nat /\ N \in D /\ 0 \in D
  OBVIOUS
<1>2. \E d : d = F(d)
  <2> DEFINE go == [i \in 0..(N - 1) |-> i + Step(s, i)]
             h == [i \in 0..(N - 1) |-> [x \in Seq(Nat) |-> <<i>> \o x]]
             base == <<N>>
  <2>1. ASSUME NEW i \in 0..(N - 1)
        PROVE  go[i] \in (i + 1)..N /\ \A x \in Seq(Nat) : h[i][x] \in Seq(Nat)
    <3>1. go[i] = i + Step(s, i) /\ Step(s, i) \in 1..4 /\ i + Step(s, i) <= N
      BY StepBounds
    <3>2. \A x \in Seq(Nat) : h[i][x] = <<i>> \o x
      OBVIOUS
    <3>3. <<i>> \in Seq(Nat)
      OBVIOUS
    <3>4. \A x \in Seq(Nat) : h[i][x] \in Seq(Nat)
      BY <3>2, <3>3, ConcatProperties
    <3> HIDE DEF go
    <3> QED BY <1>1, <3>1, <3>4
  <2>2. base \in Seq(Nat)
    BY <1>1
  <2>3. Onward(N, go) /\ Within(N, Seq(Nat), h)
    BY <2>1 DEF Onward, Within
  <2>4. \E f \in [0..N -> Seq(Nat)] : Computed(N, base, go, h, f)
    <3> HIDE DEF go, h, N, base
    <3> QED BY <1>1, <2>2, <2>3, BackwardExists
  <2>5. PICK f \in [0..N -> Seq(Nat)] : Computed(N, base, go, h, f)
    BY <2>4
  <2>6. f[N] = base /\ \A i \in 0..(N - 1) : f[i] = h[i][f[go[i]]]
    BY <2>5 DEF Computed
  <2>7. ASSUME NEW i \in D
        PROVE  f[i] = IF i = Len(s) THEN <<i>> ELSE <<i>> \o f[i + Step(s, i)]
    <3>1. CASE i = Len(s)
      BY <2>6, <3>1
    <3>2. CASE i # Len(s)
      <4>1. i \in 0..(N - 1)
        BY <1>1, <3>2
      <4>2. go[i] = i + Step(s, i) /\ f[i] = h[i][f[go[i]]] /\ go[i] \in 0..N
        <5>1. go[i] = i + Step(s, i)
          BY <4>1
        <5> HIDE DEF go, h, N
        <5>2. f[i] = h[i][f[go[i]]] /\ go[i] \in (i + 1)..N
          BY <2>1, <2>6, <4>1
        <5>3. go[i] \in 0..N
          BY <1>1, <4>1, <5>2
        <5> QED BY <5>1, <5>2, <5>3
      <4>3. f[go[i]] \in Seq(Nat)
        BY <2>5, <4>2
      <4>4. f[i] = <<i>> \o f[go[i]]
        BY <4>1, <4>2, <4>3
      <4> QED BY <3>2, <4>2, <4>4
    <3> QED BY <3>1, <3>2
  <2>8. f = F(f)
    <3> HIDE DEF go, h
    <3> QED BY <2>5, <2>7
  <2> QED BY <2>8
<1>3. c = F(c)
  BY <1>2
<1>4. Walk(s) = c[0]
  BY <1>1 DEF Walk
<1> HIDE DEF c
<1>5. Walks(s, c)
  <2>1. \A i \in D : c[i] = F(c)[i]
    BY <1>3
  <2>2. c[Len(s)] = <<Len(s)>>
    BY <1>1, <2>1
  <2>3. ASSUME NEW i \in 0..(Len(s) - 1) PROVE c[i] = <<i>> \o c[i + Step(s, i)]
    <3>1. i \in D /\ i # Len(s)
      BY <1>1
    <3> QED BY <2>1, <3>1
  <2> QED BY <2>2, <2>3 DEF Walks
<1> QED BY <1>4, <1>5

\* It visits exactly where the text's scalars begin, and the end.
LEMMA WalkVisits ==
  ASSUME NEW text \in Seq(Scalars), NEW s, s = FromUcs4(text)
  PROVE  /\ Len(Walk(s)) = Len(text) + 1
         /\ \A k \in 0..Len(text) : Walk(s)[k + 1] = Off(text, k)
<1> DEFINE N == Len(text)
           From(d) == [j \in 1..(d + 1) |-> Off(text, N - d + (j - 1))]
<1>1. s \in Seq(Nat) /\ Len(s) \in Nat /\ N \in Nat /\ Off(text, N) = Len(s)
  BY FromIs, OffEnds
<1>2. PICK c : Walks(s, c) /\ Walk(s) = c[0]
  BY <1>1, WalkIs
<1>3. \A k \in 0..N : Off(text, k) \in Nat
  BY OffIs
<1>4. ASSUME NEW d \in Nat, d <= N
      PROVE  From(d) \in Seq(Nat) /\ Len(From(d)) = d + 1
  <2>1. \A j \in 1..(d + 1) : Off(text, N - d + (j - 1)) \in Nat
    <3>1. \A j \in 1..(d + 1) : N - d + (j - 1) \in 0..N
      BY <1>1, <1>4
    <3> QED BY <1>3, <3>1
  <2> QED BY <2>1
<1> DEFINE T == {d \in Nat : d <= N => c[Off(text, N - d)] = From(d)}
<1>5. 0 \in T
  <2>1. c[Off(text, N - 0)] = <<Off(text, N)>>
    <3>1. N - 0 = N
      BY <1>1
    <3> QED BY <1>1, <1>2, <3>1 DEF Walks
  <2>2. From(0) = <<Off(text, N)>>
    <3>1. From(0) \in Seq(Nat) /\ Len(From(0)) = 1
      BY <1>1, <1>4
    <3>2. From(0)[1] = Off(text, N)
      <4>1. N - 0 + (1 - 1) = N /\ 1 \in 1..(0 + 1)
        BY <1>1
      <4> QED BY <4>1
    <3>3. <<Off(text, N)>> \in Seq(Nat)
      BY <1>1
    <3> HIDE DEF From
    <3>4. \A j \in 1..Len(From(0)) : From(0)[j] = <<Off(text, N)>>[j]
      BY <3>1, <3>2
    <3>5. Len(<<Off(text, N)>>) = 1
      OBVIOUS
    <3> QED BY <3>1, <3>3, <3>4, <3>5, SeqEqual
  <2> HIDE DEF From
  <2> QED BY <2>1, <2>2
<1>6. ASSUME NEW d \in Nat, d \in T PROVE d + 1 \in T
  <2>1. ASSUME d + 1 <= N PROVE c[Off(text, N - (d + 1))] = From(d + 1)
    <3> DEFINE k == N - (d + 1)
               o == Off(text, k)
               p == Off(text, k + 1)
    <3>1. /\ k \in 0..(Len(text) - 1) /\ k + 1 = N - d /\ d <= N /\ k \in 0..N
          /\ N - (d + 1) = k
      BY <1>1, <2>1
    <3>2. c[p] = From(d)
      <4> HIDE DEF From
      <4> QED BY <1>6, <3>1
    <3> HIDE DEF k
    <3>3. text[k + 1] \in Scalars /\ p = o + Len(Encode(text[k + 1])) /\ At(s, o, text[k + 1])
      BY <3>1, OffStep
    <3>4. o \in Nat /\ p \in Nat
      BY <1>3, <3>1
    <3>5. p = o + Step(s, o)
      BY <1>1, <3>3, <3>4, StepIs
    <3>6. o \in 0..(Len(s) - 1)
      <4> DEFINE n == Len(Encode(text[k + 1]))
      <4>1. n \in 1..4
        BY <3>3, EncodeShape
      <4>2. o + n <= Len(s)
        BY <3>3, Zenon DEF At
      <4> HIDE DEF n, o
      <4> QED BY <1>1, <3>4, <4>1, <4>2
    <3>7. c[o] = <<o>> \o From(d)
      <4> HIDE DEF From, o, p
      <4> QED BY <1>2, <3>2, <3>5, <3>6 DEF Walks
    <3>8. From(d) \in Seq(Nat) /\ Len(From(d)) = d + 1
      BY <1>4, <3>1
    <3>9. From(d + 1) \in Seq(Nat) /\ Len(From(d + 1)) = (d + 1) + 1
      <4>1. d + 1 \in Nat
        OBVIOUS
      <4> HIDE DEF From
      <4> QED BY <1>4, <2>1, <4>1
    <3>10. From(d + 1)[1] = o
      <4>1. N - (d + 1) + (1 - 1) = k /\ 1 \in 1..((d + 1) + 1)
        BY <1>1, <3>1
      <4> QED BY <4>1
    <3>11. ASSUME NEW j \in 2..(d + 2) PROVE From(d + 1)[j] = From(d)[j - 1]
      <4>1. /\ j \in 1..((d + 1) + 1) /\ j - 1 \in 1..(d + 1)
            /\ N - (d + 1) + (j - 1) = N - d + ((j - 1) - 1)
        BY <1>1
      <4>2. From(d + 1)[j] = Off(text, N - (d + 1) + (j - 1))
        BY <4>1
      <4>3. From(d)[j - 1] = Off(text, N - d + ((j - 1) - 1))
        BY <4>1
      <4> QED BY <4>1, <4>2, <4>3
    <3> HIDE DEF From, o
    <3> DEFINE w == <<o>> \o From(d)
    <3>12. /\ w \in Seq(Nat) /\ Len(w) = d + 2
           /\ w[1] = o /\ \A j \in 2..(d + 2) : w[j] = From(d)[j - 1]
      <4>1. <<o>> \in Seq(Nat) /\ Len(<<o>>) = 1 /\ <<o>>[1] = o
        BY <3>4
      <4> DEFINE one == <<o>>
      <4> HIDE DEF one
      <4>2. /\ one \o From(d) \in Seq(Nat) /\ Len(one \o From(d)) = Len(one) + Len(From(d))
            /\ \A j \in 1..(Len(one) + Len(From(d))) : (one \o From(d))[j] =
                 IF j <= Len(one) THEN one[j] ELSE From(d)[j - Len(one)]
        BY <3>8, <4>1, ConcatProperties DEF one
      <4>3. Len(one) = 1 /\ one[1] = o
        BY <4>1 DEF one
      <4>4. \A j \in 2..(d + 2) : (one \o From(d))[j] = From(d)[j - 1]
        BY <3>8, <4>2, <4>3
      <4>5. (one \o From(d))[1] = o /\ Len(one \o From(d)) = d + 2
        BY <3>8, <4>2, <4>3
      <4> QED BY <4>2, <4>4, <4>5 DEF one
    <3> HIDE DEF w
    <3>13. \A j \in 1..Len(w) : w[j] = From(d + 1)[j]
      <4>1. \A j \in 1..(d + 2) : j = 1 \/ j \in 2..(d + 2)
        OBVIOUS
      <4> QED BY <3>10, <3>11, <3>12, <4>1
    <3>14. Len(w) = Len(From(d + 1))
      BY <3>9, <3>12
    <3>15. w = From(d + 1)
      BY <3>9, <3>12, <3>13, <3>14, SeqEqual
    <3> QED BY <3>1, <3>7, <3>15 DEF w, o
  <2>2. d + 1 \in Nat
    OBVIOUS
  <2> HIDE DEF From
  <2> QED BY <2>1, <2>2
<1>7. Nat \subseteq T
  <2> HIDE DEF T
  <2> QED BY <1>5, <1>6, Induction
<1>8. Walk(s) = From(N)
  <2>1. N \in T /\ N <= N /\ N - N = 0
    BY <1>1, <1>7
  <2> HIDE DEF From
  <2>2. c[Off(text, 0)] = From(N)
    BY <2>1
  <2> QED BY <1>2, <2>2, OffEnds
<1>9. ASSUME NEW k \in 0..Len(text) PROVE From(N)[k + 1] = Off(text, k)
  <2>1. k + 1 \in 1..(N + 1) /\ N - N + ((k + 1) - 1) = k
    BY <1>1
  <2> QED BY <2>1
<1>10. Len(From(N)) = N + 1
  BY <1>1, <1>4
<1> HIDE DEF From
<1> QED BY <1>8, <1>9, <1>10

\* The demo's offsets are the library's (byte_offset_of_scalar).
LEMMA OffsetsAgree ==
  ASSUME NEW text \in Seq(Scalars), NEW s, s = FromUcs4(text)
  PROVE  /\ CountScalars(s) = Len(text)
         /\ \A k \in 0..Len(text) : OffsetOfScalar(s, k) = Off(text, k)
<1>1. Len(text) \in Nat
  OBVIOUS
<1>2. Len(Walk(s)) = Len(text) + 1 /\ \A k \in 0..Len(text) : Walk(s)[k + 1] = Off(text, k)
  BY WalkVisits
<1>3. CountScalars(s) = Len(text)
  BY <1>1, <1>2 DEF CountScalars
<1>4. ASSUME NEW k \in 0..Len(text) PROVE OffsetOfScalar(s, k) = Off(text, k)
  <2>1. k < Len(Walk(s))
    BY <1>1, <1>2
  <2> QED BY <1>2, <2>1 DEF OffsetOfScalar
<1> QED BY <1>3, <1>4

\* Cutting the bytes cuts the text (erase_scalars, last_scalars).
THEOREM CutsAgree ==
  ASSUME NEW text \in Seq(Scalars), NEW s, s = FromUcs4(text), NEW k \in 0..Len(text)
  PROVE  /\ LastScalars(s, k) = FromUcs4(LastOf(text, k))
         /\ \A count \in 0..(Len(text) - k) :
              EraseScalars(s, k, count) = FromUcs4(Erased(text, k, count))
<1>1. Len(text) \in Nat /\ k \in Nat /\ k <= Len(text)
  OBVIOUS
<1>2. /\ CountScalars(s) = Len(text)
      /\ \A j \in 0..Len(text) : OffsetOfScalar(s, j) = Off(text, j)
  BY OffsetsAgree
<1>3. \A j \in 0..Len(text) :
        /\ SubSeq(text, 1, j) \in Seq(Scalars) /\ SubSeq(text, j + 1, Len(text)) \in Seq(Scalars)
        /\ SubSeq(s, 1, Off(text, j)) = FromUcs4(SubSeq(text, 1, j))
        /\ SubSeq(s, Off(text, j) + 1, Len(s)) = FromUcs4(SubSeq(text, j + 1, Len(text)))
  BY FromCut
<1>4. LastScalars(s, k) = FromUcs4(LastOf(text, k))
  <2>1. CASE k >= Len(text)
    BY <1>2, <2>1 DEF LastScalars, LastOf
  <2>2. CASE ~(k >= Len(text))
    <3> DEFINE j == Len(text) - k
    <3>1. j \in 0..Len(text)
      BY <1>1
    <3>2. LastScalars(s, k) = SubSeq(s, OffsetOfScalar(s, j) + 1, Len(s))
      BY <1>2, <2>2 DEF LastScalars
    <3>3. LastOf(text, k) = SubSeq(text, j + 1, Len(text))
      BY <2>2 DEF LastOf
    <3> HIDE DEF j
    <3> QED BY <1>2, <1>3, <3>1, <3>2, <3>3
  <2> QED BY <2>1, <2>2
<1>5. ASSUME NEW count \in 0..(Len(text) - k)
      PROVE  EraseScalars(s, k, count) = FromUcs4(Erased(text, k, count))
  <2> DEFINE j == k + count
             q == SubSeq(text, 1, k)
             r == SubSeq(text, j + 1, Len(text))
  <2>1. j \in 0..Len(text)
    BY <1>1
  <2>2. EraseScalars(s, k, count) = SubSeq(s, 1, Off(text, k)) \o SubSeq(s, Off(text, j) + 1, Len(s))
    BY <1>2, <2>1 DEF EraseScalars
  <2>3. Erased(text, k, count) = q \o r
    BY DEF Erased
  <2> HIDE DEF j
  <2>4. EraseScalars(s, k, count) = FromUcs4(q) \o FromUcs4(r)
    BY <1>3, <2>1, <2>2
  <2>5. q \in Seq(Scalars) /\ r \in Seq(Scalars)
    BY <1>3, <2>1
  <2> HIDE DEF q, r
  <2> QED BY <2>3, <2>4, <2>5, FromConcat
<1> QED BY <1>4, <1>5

\* What utf8_from_ucs4 writes are bytes.
LEMMA EncodeType ==
  ASSUME NEW v \in Nat
  PROVE  Encode(v) \in Seq(Nat)
<1> DEFINE a == v \div 64
           b == v \div 4096
           c == v \div 262144
<1>1. a \in Nat /\ b \in Nat
  BY SMT
<1>2. c \in Nat
  BY SMT
<1>3. \A x \in Nat : Trail(x) \in Nat
  BY SMT, TrailIs
<1>4. Encode(v) = IF v < 128 THEN <<v>> ELSE IF v < 2048 THEN <<192 + a, Trail(v)>>
                  ELSE IF v < 65536 THEN <<224 + b, Trail(a), Trail(v)>>
                  ELSE <<240 + c, Trail(b), Trail(a), Trail(v)>>
  BY SMT DEF Encode
<1> HIDE DEF a, b, c
<1>5. Trail(v) \in Nat /\ Trail(a) \in Nat /\ Trail(b) \in Nat
  BY <1>1, <1>3, SMT
<1> DEFINE p == Trail(a)
           q == Trail(b)
           r == Trail(v)
<1>6. /\ Encode(v) = IF v < 128 THEN <<v>> ELSE IF v < 2048 THEN <<192 + a, r>>
                     ELSE IF v < 65536 THEN <<224 + b, p, r>> ELSE <<240 + c, q, p, r>>
      /\ p \in Nat /\ q \in Nat /\ r \in Nat
  BY <1>4, <1>5, SMT
<1> HIDE DEF p, q, r
<1>7. /\ <<v>> \in Seq(Nat) /\ <<192 + a, r>> \in Seq(Nat)
      /\ <<224 + b, p, r>> \in Seq(Nat) /\ <<240 + c, q, p, r>> \in Seq(Nat)
  BY <1>1, <1>2, <1>6, SMT
<1> QED BY <1>6, <1>7, SMT

\* The samples at the boundaries of the encoding, whatever they are, are written by
\* the client as the library reads them, and the other way (text.cc, utf8.cc).
THEOREM EncodingIsRight == EncodingAgrees
<1>1. ASSUME NEW v \in BoundaryScalars
      PROVE  IsScalarValue(v) <=> Decode(Encode(v)) = [ok |-> TRUE, scalars |-> <<v>>]
  <2>1. v \in Nat
    BY BoundaryAssumption
  <2>2. ASSUME IsScalarValue(v) PROVE Decode(Encode(v)) = [ok |-> TRUE, scalars |-> <<v>>]
    <3>1. v \in Scalars /\ <<v>> \in Seq(Scalars)
      BY <2>1, <2>2 DEF Scalars
    <3> QED BY <3>1, FromOne, RoundTrip, Zenon
  <2>3. ASSUME Decode(Encode(v)) = [ok |-> TRUE, scalars |-> <<v>>] PROVE IsScalarValue(v)
    <3>1. Decode(Encode(v)) \in Decoded
      BY <2>1, EncodeType, OneSpelling
    <3>2. <<v>> \in Seq(Scalars)
      BY <2>3, <3>1 DEF Decoded
    <3>3. v \in Scalars
      BY <3>2
    <3> QED BY <3>3, ScalarBounds
  <2> QED BY <2>2, <2>3
<1>2. ASSUME NEW s \in SeqOf(BoundaryBytes, MaxBytes), Valid(s)
      PROVE  LET text == Decode(s).scalars
             IN /\ FromUcs4(text) = s
                /\ CountScalars(s) = Len(text) /\ ScalarCount(s) = Len(text)
                /\ \A k \in 0..Len(text) :
                     /\ ByteOffset(s, k) = {OffsetOfScalar(s, k)}
                     /\ ScalarIndex(s, OffsetOfScalar(s, k)) = {k}
                     /\ LastScalars(s, k) = FromUcs4(LastOf(text, k))
                     /\ \A count \in 0..(Len(text) - k) :
                          EraseScalars(s, k, count) = FromUcs4(Erased(text, k, count))
  <2> DEFINE text == Decode(s).scalars
  <2>1. s \in Seq(Nat)
    <3>1. PICK m \in 0..MaxBytes : s \in [1..m -> BoundaryBytes]
      BY DEF SeqOf
    <3>2. BoundaryBytes \subseteq Nat /\ m \in Nat
      BY <3>1, BoundaryAssumption
    <3>3. s \in [1..m -> Nat]
      BY <3>1, <3>2
    <3> QED BY <3>2, <3>3
  <2>2. text \in Seq(Scalars) /\ s = FromUcs4(text)
    BY <1>2, <2>1, OneSpelling DEF Decoded
  <2> HIDE DEF text
  <2>3. /\ CountScalars(s) = Len(text)
        /\ \A k \in 0..Len(text) : OffsetOfScalar(s, k) = Off(text, k)
    BY <2>2, OffsetsAgree
  <2>4. /\ ScalarCount(s) = Len(text)
        /\ \A k \in 0..Len(text) : ByteOffset(s, k) = {Off(text, k)}
        /\ \A k \in 0..Len(text) : ScalarIndex(s, Off(text, k)) = {k}
    BY <2>2, PositionsAgree
  <2>5. ASSUME NEW k \in 0..Len(text)
        PROVE  /\ ByteOffset(s, k) = {OffsetOfScalar(s, k)}
               /\ ScalarIndex(s, OffsetOfScalar(s, k)) = {k}
               /\ LastScalars(s, k) = FromUcs4(LastOf(text, k))
               /\ \A count \in 0..(Len(text) - k) :
                    EraseScalars(s, k, count) = FromUcs4(Erased(text, k, count))
    <3>1. ByteOffset(s, k) = {OffsetOfScalar(s, k)} /\ ScalarIndex(s, OffsetOfScalar(s, k)) = {k}
      BY <2>3, <2>4
    <3> QED BY <2>2, <3>1, CutsAgree
  <2>6. /\ FromUcs4(text) = s
        /\ CountScalars(s) = Len(text) /\ ScalarCount(s) = Len(text)
        /\ \A k \in 0..Len(text) :
             /\ ByteOffset(s, k) = {OffsetOfScalar(s, k)}
             /\ ScalarIndex(s, OffsetOfScalar(s, k)) = {k}
             /\ LastScalars(s, k) = FromUcs4(LastOf(text, k))
             /\ \A count \in 0..(Len(text) - k) :
                  EraseScalars(s, k, count) = FromUcs4(Erased(text, k, count))
    BY <2>2, <2>3, <2>4, <2>5, Zenon
  <2> QED BY <2>6 DEF text
<1> QED BY <1>1, <1>2, Zenon DEF EncodingAgrees

-------------------------------------------------------------------------------
(* Keys.                                                                   *)

\* The characters typed with Shift, and those below them, row by row.
Tops == {33, 64, 35, 36, 37, 94, 38, 42, 40, 41, 95, 43, 123, 125, 124, 58, 34, 60, 62, 63, 126}

\* The rows of the tables of keys.
LEMMA RowsAre ==
  /\ DOMAIN ShiftRow = 1..21 /\ DOMAIN Unshifted = 1..21 /\ DOMAIN Shifted = 1..21
  /\ ShiftRow[1] = <<33, 49>> /\ ShiftRow[2] = <<64, 50>> /\ ShiftRow[3] = <<35, 51>>
  /\ ShiftRow[4] = <<36, 52>> /\ ShiftRow[5] = <<37, 53>> /\ ShiftRow[6] = <<94, 54>>
  /\ ShiftRow[7] = <<38, 55>> /\ ShiftRow[8] = <<42, 56>> /\ ShiftRow[9] = <<40, 57>>
  /\ ShiftRow[10] = <<41, 48>> /\ ShiftRow[11] = <<95, 45>> /\ ShiftRow[12] = <<43, 61>>
  /\ ShiftRow[13] = <<123, 91>> /\ ShiftRow[14] = <<125, 93>> /\ ShiftRow[15] = <<124, 92>>
  /\ ShiftRow[16] = <<58, 59>> /\ ShiftRow[17] = <<34, 39>> /\ ShiftRow[18] = <<60, 44>>
  /\ ShiftRow[19] = <<62, 46>> /\ ShiftRow[20] = <<63, 47>> /\ ShiftRow[21] = <<126, 96>>
BY DEF ShiftRow, Unshifted, Shifted

\* The pairs of the client's table.
LEMMA PairsAre ==
  ASSUME NEW p
  PROVE  p \in ToSet(ShiftRow) <=>
           \/ p = <<33, 49>> \/ p = <<64, 50>> \/ p = <<35, 51>> \/ p = <<36, 52>>
           \/ p = <<37, 53>> \/ p = <<94, 54>> \/ p = <<38, 55>> \/ p = <<42, 56>>
           \/ p = <<40, 57>> \/ p = <<41, 48>> \/ p = <<95, 45>> \/ p = <<43, 61>>
           \/ p = <<123, 91>> \/ p = <<125, 93>> \/ p = <<124, 92>> \/ p = <<58, 59>>
           \/ p = <<34, 39>> \/ p = <<60, 44>> \/ p = <<62, 46>> \/ p = <<63, 47>>
           \/ p = <<126, 96>>
<1>1. ToSet(ShiftRow) = {ShiftRow[i] : i \in 1..21}
  BY RowsAre DEF ToSet
<1>2. \A i \in 1..21 : i = 1 \/ i = 2 \/ i = 3 \/ i = 4 \/ i = 5 \/ i = 6 \/ i = 7
        \/ i = 8 \/ i = 9 \/ i = 10 \/ i = 11 \/ i = 12 \/ i = 13 \/ i = 14 \/ i = 15
        \/ i = 16 \/ i = 17 \/ i = 18 \/ i = 19 \/ i = 20 \/ i = 21
  OBVIOUS
<1> QED BY <1>1, <1>2, RowsAre

\* Which key the client takes a shifted character to be on.
LEMMA UnshiftIs ==
  ASSUME NEW c, c \notin Upper, NEW u
  PROVE  u \in Unshift(c) <=>
           \/ (c = 33 /\ u = 49) \/ (c = 64 /\ u = 50) \/ (c = 35 /\ u = 51)
           \/ (c = 36 /\ u = 52) \/ (c = 37 /\ u = 53) \/ (c = 94 /\ u = 54)
           \/ (c = 38 /\ u = 55) \/ (c = 42 /\ u = 56) \/ (c = 40 /\ u = 57)
           \/ (c = 41 /\ u = 48) \/ (c = 95 /\ u = 45) \/ (c = 43 /\ u = 61)
           \/ (c = 123 /\ u = 91) \/ (c = 125 /\ u = 93) \/ (c = 124 /\ u = 92)
           \/ (c = 58 /\ u = 59) \/ (c = 34 /\ u = 39) \/ (c = 60 /\ u = 44)
           \/ (c = 62 /\ u = 46) \/ (c = 63 /\ u = 47) \/ (c = 126 /\ u = 96)
<1>1. u \in Unshift(c) <=> \E p \in ToSet(ShiftRow) : p[1] = c /\ p[2] = u
  BY DEF Unshift
<1>2. u \in Unshift(c) <=> <<c, u>> \in ToSet(ShiftRow)
  <2>1. ASSUME NEW p \in ToSet(ShiftRow), p[1] = c, p[2] = u PROVE p = <<c, u>>
    BY <2>1, PairsAre
  <2>2. <<c, u>>[1] = c /\ <<c, u>>[2] = u
    OBVIOUS
  <2> QED BY <1>1, <2>1, <2>2
<1>3. \A a, b : <<c, u>> = <<a, b>> <=> c = a /\ u = b
  OBVIOUS
<1> QED BY <1>2, <1>3, PairsAre

\* No key stands twice in the library's table.
LEMMA UnshiftedApart ==
  ASSUME NEW i \in 1..21, NEW j \in 1..21, Unshifted[i] = Unshifted[j]
  PROVE  i = j
BY DEF Unshifted

\* What the library takes a key to be with Shift held.
LEMMA ShiftedIs ==
  ASSUME NEW m \in 1..21
  PROVE  Unshifted[m] \notin Lower /\ ShiftedAscii(Unshifted[m]) = Shifted[m]
<1> DEFINE c == Unshifted[m]
           n == CHOOSE i \in DOMAIN Unshifted : Unshifted[i] = c
<1>1. c \notin Lower
  BY DEF Unshifted, Lower
<1>2. DOMAIN Unshifted = 1..21
  BY RowsAre
<1>3. n \in 1..21 /\ Unshifted[n] = c
  BY <1>2
<1>4. n = m
  BY <1>3, UnshiftedApart
<1>5. Contains(Unshifted, c)
  <2>1. \E i \in 1..Len(Unshifted) : Unshifted[i] = c
    <3>1. Len(Unshifted) = 21
      BY DEF Unshifted
    <3> QED BY <3>1
  <2> QED BY <2>1 DEF Contains
<1>6. ShiftedAscii(c) = Shifted[n]
  BY <1>1, <1>5 DEF ShiftedAscii
<1> QED BY <1>1, <1>4, <1>6

\* Below each character typed with Shift stands one that types it, and that is
\* typed without.
LEMMA RowAgrees ==
  ASSUME NEW c \in Tops
  PROVE  \E u \in 32..126 : /\ Unshift(c) = {u} /\ Unshift(u) = {}
                            /\ ShiftedAscii(u) = c
<1>1. CASE c = 33
  <2>1. c \notin Upper /\ 49 \notin Upper
    BY <1>1 DEF Upper
  <2>2. Unshift(c) = {49} /\ Unshift(49) = {}
    BY <1>1, <2>1, UnshiftIs
  <2>3. ShiftedAscii(49) = c
    <3>1. Unshifted[2] = 49 /\ Shifted[2] = c
      BY <1>1 DEF Unshifted, Shifted
    <3> QED BY <3>1, ShiftedIs
  <2> QED BY <2>2, <2>3
<1>2. CASE c = 64
  <2>1. c \notin Upper /\ 50 \notin Upper
    BY <1>2 DEF Upper
  <2>2. Unshift(c) = {50} /\ Unshift(50) = {}
    BY <1>2, <2>1, UnshiftIs
  <2>3. ShiftedAscii(50) = c
    <3>1. Unshifted[3] = 50 /\ Shifted[3] = c
      BY <1>2 DEF Unshifted, Shifted
    <3> QED BY <3>1, ShiftedIs
  <2> QED BY <2>2, <2>3
<1>3. CASE c = 35
  <2>1. c \notin Upper /\ 51 \notin Upper
    BY <1>3 DEF Upper
  <2>2. Unshift(c) = {51} /\ Unshift(51) = {}
    BY <1>3, <2>1, UnshiftIs
  <2>3. ShiftedAscii(51) = c
    <3>1. Unshifted[4] = 51 /\ Shifted[4] = c
      BY <1>3 DEF Unshifted, Shifted
    <3> QED BY <3>1, ShiftedIs
  <2> QED BY <2>2, <2>3
<1>4. CASE c = 36
  <2>1. c \notin Upper /\ 52 \notin Upper
    BY <1>4 DEF Upper
  <2>2. Unshift(c) = {52} /\ Unshift(52) = {}
    BY <1>4, <2>1, UnshiftIs
  <2>3. ShiftedAscii(52) = c
    <3>1. Unshifted[5] = 52 /\ Shifted[5] = c
      BY <1>4 DEF Unshifted, Shifted
    <3> QED BY <3>1, ShiftedIs
  <2> QED BY <2>2, <2>3
<1>5. CASE c = 37
  <2>1. c \notin Upper /\ 53 \notin Upper
    BY <1>5 DEF Upper
  <2>2. Unshift(c) = {53} /\ Unshift(53) = {}
    BY <1>5, <2>1, UnshiftIs
  <2>3. ShiftedAscii(53) = c
    <3>1. Unshifted[6] = 53 /\ Shifted[6] = c
      BY <1>5 DEF Unshifted, Shifted
    <3> QED BY <3>1, ShiftedIs
  <2> QED BY <2>2, <2>3
<1>6. CASE c = 94
  <2>1. c \notin Upper /\ 54 \notin Upper
    BY <1>6 DEF Upper
  <2>2. Unshift(c) = {54} /\ Unshift(54) = {}
    BY <1>6, <2>1, UnshiftIs
  <2>3. ShiftedAscii(54) = c
    <3>1. Unshifted[7] = 54 /\ Shifted[7] = c
      BY <1>6 DEF Unshifted, Shifted
    <3> QED BY <3>1, ShiftedIs
  <2> QED BY <2>2, <2>3
<1>7. CASE c = 38
  <2>1. c \notin Upper /\ 55 \notin Upper
    BY <1>7 DEF Upper
  <2>2. Unshift(c) = {55} /\ Unshift(55) = {}
    BY <1>7, <2>1, UnshiftIs
  <2>3. ShiftedAscii(55) = c
    <3>1. Unshifted[8] = 55 /\ Shifted[8] = c
      BY <1>7 DEF Unshifted, Shifted
    <3> QED BY <3>1, ShiftedIs
  <2> QED BY <2>2, <2>3
<1>8. CASE c = 42
  <2>1. c \notin Upper /\ 56 \notin Upper
    BY <1>8 DEF Upper
  <2>2. Unshift(c) = {56} /\ Unshift(56) = {}
    BY <1>8, <2>1, UnshiftIs
  <2>3. ShiftedAscii(56) = c
    <3>1. Unshifted[9] = 56 /\ Shifted[9] = c
      BY <1>8 DEF Unshifted, Shifted
    <3> QED BY <3>1, ShiftedIs
  <2> QED BY <2>2, <2>3
<1>9. CASE c = 40
  <2>1. c \notin Upper /\ 57 \notin Upper
    BY <1>9 DEF Upper
  <2>2. Unshift(c) = {57} /\ Unshift(57) = {}
    BY <1>9, <2>1, UnshiftIs
  <2>3. ShiftedAscii(57) = c
    <3>1. Unshifted[10] = 57 /\ Shifted[10] = c
      BY <1>9 DEF Unshifted, Shifted
    <3> QED BY <3>1, ShiftedIs
  <2> QED BY <2>2, <2>3
<1>10. CASE c = 41
  <2>1. c \notin Upper /\ 48 \notin Upper
    BY <1>10 DEF Upper
  <2>2. Unshift(c) = {48} /\ Unshift(48) = {}
    BY <1>10, <2>1, UnshiftIs
  <2>3. ShiftedAscii(48) = c
    <3>1. Unshifted[11] = 48 /\ Shifted[11] = c
      BY <1>10 DEF Unshifted, Shifted
    <3> QED BY <3>1, ShiftedIs
  <2> QED BY <2>2, <2>3
<1>11. CASE c = 95
  <2>1. c \notin Upper /\ 45 \notin Upper
    BY <1>11 DEF Upper
  <2>2. Unshift(c) = {45} /\ Unshift(45) = {}
    BY <1>11, <2>1, UnshiftIs
  <2>3. ShiftedAscii(45) = c
    <3>1. Unshifted[12] = 45 /\ Shifted[12] = c
      BY <1>11 DEF Unshifted, Shifted
    <3> QED BY <3>1, ShiftedIs
  <2> QED BY <2>2, <2>3
<1>12. CASE c = 43
  <2>1. c \notin Upper /\ 61 \notin Upper
    BY <1>12 DEF Upper
  <2>2. Unshift(c) = {61} /\ Unshift(61) = {}
    BY <1>12, <2>1, UnshiftIs
  <2>3. ShiftedAscii(61) = c
    <3>1. Unshifted[13] = 61 /\ Shifted[13] = c
      BY <1>12 DEF Unshifted, Shifted
    <3> QED BY <3>1, ShiftedIs
  <2> QED BY <2>2, <2>3
<1>13. CASE c = 123
  <2>1. c \notin Upper /\ 91 \notin Upper
    BY <1>13 DEF Upper
  <2>2. Unshift(c) = {91} /\ Unshift(91) = {}
    BY <1>13, <2>1, UnshiftIs
  <2>3. ShiftedAscii(91) = c
    <3>1. Unshifted[14] = 91 /\ Shifted[14] = c
      BY <1>13 DEF Unshifted, Shifted
    <3> QED BY <3>1, ShiftedIs
  <2> QED BY <2>2, <2>3
<1>14. CASE c = 125
  <2>1. c \notin Upper /\ 93 \notin Upper
    BY <1>14 DEF Upper
  <2>2. Unshift(c) = {93} /\ Unshift(93) = {}
    BY <1>14, <2>1, UnshiftIs
  <2>3. ShiftedAscii(93) = c
    <3>1. Unshifted[15] = 93 /\ Shifted[15] = c
      BY <1>14 DEF Unshifted, Shifted
    <3> QED BY <3>1, ShiftedIs
  <2> QED BY <2>2, <2>3
<1>15. CASE c = 124
  <2>1. c \notin Upper /\ 92 \notin Upper
    BY <1>15 DEF Upper
  <2>2. Unshift(c) = {92} /\ Unshift(92) = {}
    BY <1>15, <2>1, UnshiftIs
  <2>3. ShiftedAscii(92) = c
    <3>1. Unshifted[16] = 92 /\ Shifted[16] = c
      BY <1>15 DEF Unshifted, Shifted
    <3> QED BY <3>1, ShiftedIs
  <2> QED BY <2>2, <2>3
<1>16. CASE c = 58
  <2>1. c \notin Upper /\ 59 \notin Upper
    BY <1>16 DEF Upper
  <2>2. Unshift(c) = {59} /\ Unshift(59) = {}
    BY <1>16, <2>1, UnshiftIs
  <2>3. ShiftedAscii(59) = c
    <3>1. Unshifted[17] = 59 /\ Shifted[17] = c
      BY <1>16 DEF Unshifted, Shifted
    <3> QED BY <3>1, ShiftedIs
  <2> QED BY <2>2, <2>3
<1>17. CASE c = 34
  <2>1. c \notin Upper /\ 39 \notin Upper
    BY <1>17 DEF Upper
  <2>2. Unshift(c) = {39} /\ Unshift(39) = {}
    BY <1>17, <2>1, UnshiftIs
  <2>3. ShiftedAscii(39) = c
    <3>1. Unshifted[18] = 39 /\ Shifted[18] = c
      BY <1>17 DEF Unshifted, Shifted
    <3> QED BY <3>1, ShiftedIs
  <2> QED BY <2>2, <2>3
<1>18. CASE c = 60
  <2>1. c \notin Upper /\ 44 \notin Upper
    BY <1>18 DEF Upper
  <2>2. Unshift(c) = {44} /\ Unshift(44) = {}
    BY <1>18, <2>1, UnshiftIs
  <2>3. ShiftedAscii(44) = c
    <3>1. Unshifted[19] = 44 /\ Shifted[19] = c
      BY <1>18 DEF Unshifted, Shifted
    <3> QED BY <3>1, ShiftedIs
  <2> QED BY <2>2, <2>3
<1>19. CASE c = 62
  <2>1. c \notin Upper /\ 46 \notin Upper
    BY <1>19 DEF Upper
  <2>2. Unshift(c) = {46} /\ Unshift(46) = {}
    BY <1>19, <2>1, UnshiftIs
  <2>3. ShiftedAscii(46) = c
    <3>1. Unshifted[20] = 46 /\ Shifted[20] = c
      BY <1>19 DEF Unshifted, Shifted
    <3> QED BY <3>1, ShiftedIs
  <2> QED BY <2>2, <2>3
<1>20. CASE c = 63
  <2>1. c \notin Upper /\ 47 \notin Upper
    BY <1>20 DEF Upper
  <2>2. Unshift(c) = {47} /\ Unshift(47) = {}
    BY <1>20, <2>1, UnshiftIs
  <2>3. ShiftedAscii(47) = c
    <3>1. Unshifted[21] = 47 /\ Shifted[21] = c
      BY <1>20 DEF Unshifted, Shifted
    <3> QED BY <3>1, ShiftedIs
  <2> QED BY <2>2, <2>3
<1>21. CASE c = 126
  <2>1. c \notin Upper /\ 96 \notin Upper
    BY <1>21 DEF Upper
  <2>2. Unshift(c) = {96} /\ Unshift(96) = {}
    BY <1>21, <2>1, UnshiftIs
  <2>3. ShiftedAscii(96) = c
    <3>1. Unshifted[1] = 96 /\ Shifted[1] = c
      BY <1>21 DEF Unshifted, Shifted
    <3> QED BY <3>1, ShiftedIs
  <2> QED BY <2>2, <2>3
<1> QED BY <1>1, <1>2, <1>3, <1>4, <1>5, <1>6, <1>7, <1>8, <1>9, <1>10, <1>11, <1>12, <1>13, <1>14, <1>15, <1>16, <1>17, <1>18, <1>19, <1>20, <1>21 DEF Tops

\* The character a printable key stands for is typed with Shift or without.
LEMMA KeyBelow ==
  ASSUME NEW c \in 32..126
  PROVE  \/ Unshift(c) = {}
         \/ \E u \in 32..126 : /\ Unshift(c) = {u} /\ Unshift(u) = {}
                               /\ ShiftedAscii(u) = c
<1>1. CASE c \in Upper
  <2> DEFINE u == c + 32
  <2>1. u \in Lower /\ u \in 32..126 /\ u \notin Upper /\ u - 32 = c /\ u \in 97..122
    BY <1>1 DEF Upper, Lower
  <2>2. Unshift(c) = {u} /\ ShiftedAscii(u) = c
    BY <1>1, <2>1 DEF Unshift, ShiftedAscii
  <2>3. Unshift(u) = {}
    <3>1. ASSUME NEW x \in Unshift(u) PROVE FALSE
      <4> HIDE DEF u
      <4>1. \A y : y \in 97..122 => y # 33 /\ y # 64 /\ y # 35 /\ y # 36 /\ y # 37 /\ y # 94
              /\ y # 38 /\ y # 42 /\ y # 40 /\ y # 41 /\ y # 95 /\ y # 43 /\ y # 123 /\ y # 125
              /\ y # 124 /\ y # 58 /\ y # 34 /\ y # 60 /\ y # 62 /\ y # 63 /\ y # 126
        OBVIOUS
      <4> QED BY <2>1, <3>1, <4>1, UnshiftIs
    <3> QED BY <3>1
  <2> HIDE DEF u
  <2> QED BY <2>1, <2>2, <2>3
<1>2. CASE c \notin Upper /\ c \in Tops
  BY <1>2, RowAgrees
<1>3. CASE c \notin Upper /\ c \notin Tops
  <2>1. ASSUME NEW x \in Unshift(c) PROVE FALSE
    BY <1>3, <2>1, UnshiftIs DEF Tops
  <2> QED BY <2>1
<1> QED BY <1>1, <1>2, <1>3

\* A printable character reaches every reader of its event (to_pathime_key,
\* keysym_to_scalar, us_layout_char).
LEMMA CharacterArrives ==
  ASSUME NEW c \in Printable
  PROVE  LET event == ToPathimeKey(c)
         IN /\ event \in KeyEvent /\ Acceptable(event) /\ ~IsChorded(event)
            /\ KeysymToScalar(event.keysym) = c
            /\ KeysymScalar(event.keysym) = {c}
            /\ UsLayoutChar(event) = KeysymToAscii(event.keysym)
            /\ event.layout # 0 => ToPathimeKey(event.layout).held = {}
<1> DEFINE event == ToPathimeKey(c)
           sym == event.keysym
           lay == event.layout
           held == event.held
           low == Unshift(c)
<1>1. c \in Nat /\ IsScalarValue(c) /\ (c \in 32..126 \/ c >= 160)
  <2>1. CASE c \in 32..126
    BY <2>1, SMT DEF IsScalarValue
  <2>2. CASE c \in BoundaryScalars /\ IsScalarValue(c) /\ c >= 160
    BY <2>2, BoundaryAssumption, SMT
  <2> QED BY <2>1, <2>2, SMT DEF Printable
<1>2. c <= 1114111 /\ c \notin 55296..57343
  BY <1>1, SMT DEF IsScalarValue
<1>3. /\ sym = (IF c < 256 THEN c ELSE 16777216 + c)
      /\ lay = IF c >= 128 THEN 0 ELSE IF low = {} THEN c ELSE CHOOSE u \in low : TRUE
      /\ held = IF c < 128 /\ low # {} THEN {"shift"} ELSE {}
      /\ event = [keysym |-> sym, layout |-> lay, held |-> held]
  BY SMT DEF ToPathimeKey, KeysymForScalar, UnicodeKeysymBase
<1>4. sym \in Nat /\ sym # 0 /\ (c < 256 => sym = c) /\ (c >= 256 => sym = 16777216 + c)
  BY <1>1, <1>3, SMT
<1> HIDE DEF event, low
<1>5. KeysymToScalar(sym) = c
  <2> HIDE DEF sym
  <2>1. CASE c < 256
    <3>1. sym = c /\ c \in 32..255 \ {127}
      BY <1>1, <1>4, <2>1, SMT
    <3> QED BY <3>1, SMT DEF KeysymToScalar
  <2>2. CASE c >= 256
    <3>1. /\ sym \notin 32..255 /\ sym - 16777216 = c /\ sym > 16777216
      BY <1>1, <1>4, <2>2, SMT
    <3> QED BY <1>2, <3>1, SMT DEF KeysymToScalar, UnicodeKeysymBase
  <2> QED BY <1>1, <2>1, <2>2, SMT
<1>6. KeysymScalar(sym) = {c}
  <2> HIDE DEF sym
  <2>1. CASE c < 256
    BY <1>4, <2>1, SMT DEF KeysymScalar
  <2>2. CASE c >= 256
    <3>1. ~(sym < 256) /\ sym \div 16777216 = 1 /\ sym % 16777216 = c
      BY <1>1, <1>2, <1>4, <2>2, SMT
    <3> QED BY <3>1, SMT DEF KeysymScalar, UnicodeKeysymBase
  <2> QED BY <1>1, <2>1, <2>2, SMT
<1>7. KeysymToAscii(sym) = IF c \in 32..126 THEN c ELSE 0
  BY <1>5, Zenon DEF KeysymToAscii
<1>8. /\ lay \in Nat /\ (held = {} \/ held = {"shift"})
      /\ UsLayoutChar(event) = (IF c \in 32..126 THEN c ELSE 0)
      /\ lay # 0 => ToPathimeKey(lay).held = {}
  <2>1. CASE c >= 160
    <3>1. lay = 0 /\ held = {} /\ sym \notin 32..126 /\ c \notin 32..126
      BY <1>1, <1>3, <1>4, <2>1, SMT
    <3>2. PositionKey(event) = sym
      BY <3>1 DEF PositionKey
    <3>3. UsLayoutChar(event) = 0
      BY <3>1, <3>2, Zenon DEF UsLayoutChar
    <3> QED BY <3>1, <3>3
  <2>2. CASE c \in 32..126 /\ low = {}
    <3>1. lay = c /\ held = {} /\ c # 0 /\ c < 128
      BY <1>3, <2>2, SMT
    <3>2. PositionKey(event) = c
      BY <3>1 DEF PositionKey
    <3>3. UsLayoutChar(event) = c
      BY <2>2, <3>1, <3>2, Zenon DEF UsLayoutChar
    <3>4. ToPathimeKey(c).held = {}
      BY <2>2, SMT DEF ToPathimeKey, low
    <3> QED BY <2>2, <3>1, <3>3, <3>4
  <2>3. CASE c \in 32..126 /\ low # {}
    <3>1. PICK u \in 32..126 : low = {u} /\ Unshift(u) = {} /\ ShiftedAscii(u) = c
      BY <2>3, KeyBelow DEF low
    <3>2. lay = u /\ held = {"shift"} /\ u # 0
      <4>1. (CHOOSE x \in low : TRUE) = u
        BY <3>1
      <4>2. ~(c >= 128) /\ c < 128 /\ u # 0
        BY <2>3
      <4> QED BY <1>3, <2>3, <4>1, <4>2
    <3>3. PositionKey(event) = u
      BY <3>2 DEF PositionKey
    <3>4. UsLayoutChar(event) = c
      BY <3>1, <3>2, <3>3, Zenon DEF UsLayoutChar
    <3>5. ToPathimeKey(u).held = {}
      BY <3>1, SMT DEF ToPathimeKey
    <3> QED BY <2>3, <3>1, <3>2, <3>4, <3>5
  <2> QED BY <1>1, <2>1, <2>2, <2>3
<1>9. event \in KeyEvent
  <2>1. held \in SUBSET {"shift", "control", "alt", "super", "caps", "numlock"}
    BY <1>8
  <2> HIDE DEF sym, lay, held
  <2> QED BY <1>3, <1>4, <1>8, <2>1 DEF KeyEvent
<1>10. Acceptable(event) /\ ~IsChorded(event)
  BY <1>4, <1>8 DEF Acceptable, IsChorded
<1>11. UsLayoutChar(event) = KeysymToAscii(sym)
  BY <1>7, <1>8, Zenon
<1>12. /\ event \in KeyEvent /\ Acceptable(event) /\ ~IsChorded(event)
       /\ KeysymToScalar(event.keysym) = c
       /\ KeysymScalar(event.keysym) = {c}
       /\ UsLayoutChar(event) = KeysymToAscii(event.keysym)
       /\ event.layout # 0 => ToPathimeKey(event.layout).held = {}
  BY <1>5, <1>6, <1>8, <1>9, <1>10, <1>11, Zenon
<1> QED BY <1>12, Zenon DEF event

\* A named key is no character to any of them.
LEMMA NamedKeyArrives ==
  ASSUME NEW name \in DOMAIN Named
  PROVE  LET event == NamedEvent(name)
         IN /\ Acceptable(event) /\ KeysymScalar(event.keysym) = {}
            /\ KeysymToScalar(event.keysym) = 0 /\ UsLayoutChar(event) = 0
<1> DEFINE event == NamedEvent(name)
           k == Named[name]
<1>1. k \in 65288..65535
  BY SMT DEF Named
<1>2. event.keysym = k /\ event.layout = k /\ event.held = {}
  BY Zenon DEF NamedEvent
<1> HIDE DEF k, event
<1>3. k # 0 /\ ~(k < 256) /\ k \notin 32..255 /\ k \notin 32..126
  BY <1>1, SMT
<1>4. KeysymScalar(k) = {}
  <2>1. k \div 16777216 # 1
    BY <1>1, SMT
  <2> QED BY <1>3, <2>1, SMT DEF KeysymScalar, UnicodeKeysymBase
<1>5. KeysymToScalar(k) = 0
  <2>1. ~(k > 16777216)
    BY <1>1, SMT
  <2> QED BY <1>3, <2>1, SMT DEF KeysymToScalar, UnicodeKeysymBase
<1>6. PositionKey(event) = k
  BY <1>2, <1>3, SMT DEF PositionKey
<1>7. UsLayoutChar(event) = 0
  BY <1>3, <1>6, SMT DEF UsLayoutChar
<1>8. Acceptable(event)
  BY <1>2, <1>3, SMT DEF Acceptable
<1>9. /\ Acceptable(event) /\ KeysymScalar(event.keysym) = {}
      /\ KeysymToScalar(event.keysym) = 0 /\ UsLayoutChar(event) = 0
  BY <1>2, <1>4, <1>5, <1>7, <1>8, SMT
<1> QED BY <1>9 DEF event

\* Every key a terminal can send carries to the engine the scalar that was typed,
\* or none where none was (keymap.cc, keys.cc).
THEOREM KeysAreRight == KeysAgree
BY CharacterArrives, NamedKeyArrives, Zenon DEF KeysAgree

\* What was typed arrives, and the library takes every document it is told of for
\* text: for any characters and bytes to try it on, of any engines, texts and page
\* sizes (keymap.cc, keys.cc, text.cc, utf8.cc).
THEOREM TypedArrives == DemoSpec => []TypedTextArrives
<1>1. DemoInv => TypedTextArrives
  <2> SUFFICES ASSUME DemoInv PROVE TypedTextArrives
    OBVIOUS
  <2>1. document \in Seq(Scalars)
    <3>1. Good(Now) /\ Now.document = document
      BY NowIs DEF DemoInv
    <3> QED BY <3>1, GoodIs
  <2>2. Decode(FromUcs4(document)) = [ok |-> TRUE, scalars |-> document]
    BY <2>1, RoundTrip
  <2> QED BY <2>2, EncodingIsRight, KeysAreRight DEF TypedTextArrives
<1> QED BY <1>1, DemoInductive, PTL

-------------------------------------------------------------------------------
(* The settings page, and every option it walks.                           *)

\* One step along n places, coming round at the end.
After(n, x) == IF x + 1 < n THEN x + 1 ELSE 0

\* Coming round at the end of a list: what % does there.
LEMMA RemainderIs ==
  ASSUME NEW n \in Nat \ {0}, NEW x \in 0..(2 * n - 1)
  PROVE  x % n = IF x < n THEN x ELSE x - n
OBVIOUS

LEMMA RemainderBelow ==
  ASSUME NEW n \in Nat \ {0}, NEW x \in Int
  PROVE  x % n \in 0..(n - 1)
OBVIOUS

\* Who steps round by one from any of n places comes by all of them.
LEMMA RoundAll ==
  ASSUME NEW n \in Nat \ {0}, NEW v \in 0..(n - 1), NEW f, f[0] = v,
         \A i \in 1..n : f[i - 1] \in 0..(n - 1) => f[i] = After(n, f[i - 1])
  PROVE  {f[i] : i \in 0..n} = 0..(n - 1)
<1> DEFINE g(i) == IF v + i < n THEN v + i ELSE v + i - n
           T == {i \in Nat : i <= n => f[i] = g(i)}
<1>1. 0 \in T
  OBVIOUS
<1>2. ASSUME NEW i \in Nat, i \in T PROVE i + 1 \in T
  <2> SUFFICES ASSUME i + 1 <= n PROVE f[i + 1] = g(i + 1)
    OBVIOUS
  <2>1. f[i] = g(i) /\ g(i) \in 0..(n - 1)
    BY <1>2
  <2>2. i + 1 \in 1..n /\ (i + 1) - 1 = i
    OBVIOUS
  <2>3. f[i + 1] = After(n, f[i])
    BY <2>1, <2>2
  <2> QED BY <2>1, <2>3 DEF After
<1>3. Nat \subseteq T
  <2> HIDE DEF T
  <2> QED BY <1>1, <1>2, Induction
<1>4. \A i \in 0..n : f[i] = g(i)
  BY <1>3
<1>5. ASSUME NEW w \in 0..(n - 1) PROVE \E i \in 0..n : g(i) = w
  <2>1. CASE w >= v
    <3>1. w - v \in 0..n /\ g(w - v) = w
      BY <2>1
    <3> QED BY <3>1
  <2>2. CASE w < v
    <3>1. w - v + n \in 0..n /\ g(w - v + n) = w
      BY <2>2
    <3> QED BY <3>1
  <2> QED BY <2>1, <2>2
<1>6. \A i \in 0..n : g(i) \in 0..(n - 1)
  OBVIOUS
<1> HIDE DEF g
<1> QED BY <1>4, <1>5, <1>6

-------------------------------------------------------------------------------
(* The inventory of options, row by row.                                   *)

\* The rows of each type.
BoolIds   == {2, 6, 7, 8, 10, 11, 12, 19, 25, 26, 29, 31}
IntIds    == {1}
FlagsIds  == {21, 22}
StringIds == {24, 27, 28}
EnumIds   == {3, 4, 5, 9, 13, 14, 15, 16, 17, 18, 20, 23, 30}

\* What the inventory says in these rows.
LEMMA BoolRows ==
  ASSUME NEW i \in BoolIds
  PROVE  \E name, owners : \E default \in BOOLEAN :
           Options[i] = BoolOption(name, owners, default)
<1>1. CASE i = 2
  <2>1. Options[i] = BoolOption("learning", Anthy \cup TableEngine, TRUE)
    BY <1>1 DEF Options
  <2> QED BY <2>1
<1>2. CASE i = 6
  <2>1. Options[i] = BoolOption("prediction", Anthy \cup TableEngine, TRUE)
    BY <1>2 DEF Options
  <2> QED BY <2>1
<1>3. CASE i = 7
  <2>1. Options[i] = BoolOption("special-phrases", Pyzy, TRUE)
    BY <1>3 DEF Options
  <2> QED BY <2>1
<1>4. CASE i = 8
  <2>1. Options[i] = BoolOption("incomplete-input", Chinese, TRUE)
    BY <1>4 DEF Options
  <2> QED BY <2>1
<1>5. CASE i = 10
  <2>1. Options[i] = BoolOption("hangul-auto-reorder", Hangul, FALSE)
    BY <1>5 DEF Options
  <2> QED BY <2>1
<1>6. CASE i = 11
  <2>1. Options[i] = BoolOption("hangul-double-stroke-combine", Hangul, FALSE)
    BY <1>6 DEF Options
  <2> QED BY <2>1
<1>7. CASE i = 12
  <2>1. Options[i] = BoolOption("hangul-non-choseong-combine", Hangul, TRUE)
    BY <1>7 DEF Options
  <2> QED BY <2>1
<1>8. CASE i = 19
  <2>1. Options[i] = BoolOption("anthy-latin-with-shift", Anthy, TRUE)
    BY <1>8 DEF Options
  <2> QED BY <2>1
<1>9. CASE i = 25
  <2>1. Options[i] = BoolOption("table-auto-commit", TableEngine, FALSE)
    BY <1>9 DEF Options
  <2> QED BY <2>1
<1>10. CASE i = 26
  <2>1. Options[i] = BoolOption("table-auto-select", TableEngine, FALSE)
    BY <1>10 DEF Options
  <2> QED BY <2>1
<1>11. CASE i = 29
  <2>1. Options[i] = BoolOption("table-single-char-only", TableEngine, FALSE)
    BY <1>11 DEF Options
  <2> QED BY <2>1
<1>12. CASE i = 31
  <2>1. Options[i] = BoolOption("table-pinyin-fallback", TableEngine, FALSE)
    BY <1>12 DEF Options
  <2> QED BY <2>1
<1> QED BY <1>1, <1>2, <1>3, <1>4, <1>5, <1>6, <1>7, <1>8, <1>9, <1>10, <1>11, <1>12 DEF BoolIds

LEMMA IntRows ==
  ASSUME NEW i \in IntIds
  PROVE  \E name, owners : \E default, min \in 1..64 :
           Options[i] = IntOption(name, owners, default, min)
<1>1. CASE i = 1
  <2>1. Options[i] = IntOption("max-candidates", Converting, 64, 1)
    BY <1>1 DEF Options
  <2> QED BY <2>1
<1> QED BY <1>1 DEF IntIds

LEMMA FlagsRows ==
  ASSUME NEW i \in FlagsIds
  PROVE  \E name, owners : \E n \in 1..64 :
           Options[i] = FlagsOption(name, owners, n) /\ name # "chinese-variant"
<1>1. CASE i = 21
  <2>1. Options[i] = FlagsOption("pinyin-fuzzy", Pyzy, 20)
    BY <1>1 DEF Options
  <2> QED BY <2>1
<1>2. CASE i = 22
  <2>1. Options[i] = FlagsOption("pinyin-correction", Pinyin, 8)
    BY <1>2 DEF Options
  <2> QED BY <2>1
<1> QED BY <1>1, <1>2 DEF FlagsIds

LEMMA StringRows ==
  ASSUME NEW i \in StringIds
  PROVE  \E name, owners, resets : Options[i] = StringOption(name, owners, resets)
<1>1. CASE i = 24
  <2>1. Options[i] = StringOption("table-file", TableEngine, TRUE)
    BY <1>1 DEF Options
  <2> QED BY <2>1
<1>2. CASE i = 27
  <2>1. Options[i] = StringOption("table-single-wildcard", TableEngine, FALSE)
    BY <1>2 DEF Options
  <2> QED BY <2>1
<1>3. CASE i = 28
  <2>1. Options[i] = StringOption("table-multi-wildcard", TableEngine, FALSE)
    BY <1>3 DEF Options
  <2> QED BY <2>1
<1> QED BY <1>1, <1>2, <1>3 DEF StringIds

\* The values of this name, so many, have names of their own.
NamedApart(name, n) ==
  /\ 1..n \subseteq DOMAIN ValueNames(name)
  /\ \A i, j \in 1..n : ValueNames(name)[i] = ValueNames(name)[j] => i = j
  /\ \A i \in 1..n : ValueNames(name)[i] # ""

\* Each enum names its values.

\* Each enum names its values.
LEMMA EnumRows ==
  ASSUME NEW i \in EnumIds
  PROVE  \E name, owners, resets : \E n \in 2..64 : \E default \in 0..(n - 1) :
           /\ Options[i] = EnumOption(name, owners, default, n, resets)
           /\ NamedApart(name, n) /\ (name = "chinese-variant" => default = 0)
           /\ n <= 9
<1>1. CASE i = 3
  <2> DEFINE names == <<"half", "full">>
             given == {"half", "full"}
  <2>1. Options[i] = EnumOption("latin-width", Converting, 0, 2, FALSE)
    BY <1>1 DEF Options
  <2>2. ValueNames("latin-width") = names
    BY DEF ValueNames
  <2>3. "" \notin given
    BY Zenon
  <2>4. /\ 1..2 \subseteq DOMAIN names /\ \A k \in 1..2 : names[k] \in given
        /\ \A k, m \in 1..2 : names[k] = names[m] => k = m
    OBVIOUS
  <2> HIDE DEF names, given
  <2>5. NamedApart("latin-width", 2)
    BY <2>2, <2>3, <2>4 DEF NamedApart
  <2>6. 2 \in 2..64 /\ 2 <= 9 /\ 0 \in 0..(2 - 1)
    OBVIOUS
  <2> QED BY <2>1, <2>5, <2>6
<1>2. CASE i = 4
  <2> DEFINE names == <<"half", "full">>
             given == {"half", "full"}
  <2>1. Options[i] = EnumOption("punctuation-width", Converting, 1, 2, FALSE)
    BY <1>2 DEF Options
  <2>2. ValueNames("punctuation-width") = names
    BY DEF ValueNames
  <2>3. "" \notin given
    BY Zenon
  <2>4. /\ 1..2 \subseteq DOMAIN names /\ \A k \in 1..2 : names[k] \in given
        /\ \A k, m \in 1..2 : names[k] = names[m] => k = m
    OBVIOUS
  <2> HIDE DEF names, given
  <2>5. NamedApart("punctuation-width", 2)
    BY <2>2, <2>3, <2>4 DEF NamedApart
  <2>6. 2 \in 2..64 /\ 2 <= 9 /\ 1 \in 0..(2 - 1)
    OBVIOUS
  <2> QED BY <2>1, <2>5, <2>6
<1>3. CASE i = 5
  <2> DEFINE names == <<"simplified-only", "traditional-only", "simplified-first",
                      "traditional-first", "any">>
             given == {"simplified-only", "traditional-only", "simplified-first",
                      "traditional-first", "any"}
  <2>1. Options[i] = EnumOption("chinese-variant", Chinese, 0, 5, FALSE)
    BY <1>3 DEF Options
  <2>2. ValueNames("chinese-variant") = names
    BY DEF ValueNames
  <2>3. "" \notin given
    BY Zenon
  <2>4. /\ 1..5 \subseteq DOMAIN names /\ \A k \in 1..5 : names[k] \in given
        /\ \A k, m \in 1..5 : names[k] = names[m] => k = m
    OBVIOUS
  <2> HIDE DEF names, given
  <2>5. NamedApart("chinese-variant", 5)
    BY <2>2, <2>3, <2>4 DEF NamedApart
  <2>6. 5 \in 2..64 /\ 5 <= 9 /\ 0 \in 0..(5 - 1)
    OBVIOUS
  <2> QED BY <2>1, <2>5, <2>6
<1>4. CASE i = 9
  <2> DEFINE names == <<"2set", "2set-yet", "3set-2", "3set-390", "3set-final",
                      "3set-noshift", "3set-yet", "romaja", "ahnmatae">>
             given == {"2set", "2set-yet", "3set-2", "3set-390", "3set-final",
                      "3set-noshift", "3set-yet", "romaja", "ahnmatae"}
  <2>1. Options[i] = EnumOption("hangul-layout", Hangul, 0, 9, FALSE)
    BY <1>4 DEF Options
  <2>2. ValueNames("hangul-layout") = names
    BY DEF ValueNames
  <2>3. "" \notin given
    BY Zenon
  <2>4. /\ 1..9 \subseteq DOMAIN names /\ \A k \in 1..9 : names[k] \in given
        /\ \A k, m \in 1..9 : names[k] = names[m] => k = m
    OBVIOUS
  <2> HIDE DEF names, given
  <2>5. NamedApart("hangul-layout", 9)
    BY <2>2, <2>3, <2>4 DEF NamedApart
  <2>6. 9 \in 2..64 /\ 9 <= 9 /\ 0 \in 0..(9 - 1)
    OBVIOUS
  <2> QED BY <2>1, <2>5, <2>6
<1>5. CASE i = 13
  <2> DEFINE names == <<"syllable", "word", "none">>
             given == {"syllable", "word", "none"}
  <2>1. Options[i] = EnumOption("hangul-preedit", Hangul, 0, 3, FALSE)
    BY <1>5 DEF Options
  <2>2. ValueNames("hangul-preedit") = names
    BY DEF ValueNames
  <2>3. "" \notin given
    BY Zenon
  <2>4. /\ 1..3 \subseteq DOMAIN names /\ \A k \in 1..3 : names[k] \in given
        /\ \A k, m \in 1..3 : names[k] = names[m] => k = m
    OBVIOUS
  <2> HIDE DEF names, given
  <2>5. NamedApart("hangul-preedit", 3)
    BY <2>2, <2>3, <2>4 DEF NamedApart
  <2>6. 3 \in 2..64 /\ 3 <= 9 /\ 0 \in 0..(3 - 1)
    OBVIOUS
  <2> QED BY <2>1, <2>5, <2>6
<1>6. CASE i = 14
  <2> DEFINE names == <<"romaji", "kana">>
             given == {"romaji", "kana"}
  <2>1. Options[i] = EnumOption("anthy-typing-method", Anthy, 0, 2, TRUE)
    BY <1>6 DEF Options
  <2>2. ValueNames("anthy-typing-method") = names
    BY DEF ValueNames
  <2>3. "" \notin given
    BY Zenon
  <2>4. /\ 1..2 \subseteq DOMAIN names /\ \A k \in 1..2 : names[k] \in given
        /\ \A k, m \in 1..2 : names[k] = names[m] => k = m
    OBVIOUS
  <2> HIDE DEF names, given
  <2>5. NamedApart("anthy-typing-method", 2)
    BY <2>2, <2>3, <2>4 DEF NamedApart
  <2>6. 2 \in 2..64 /\ 2 <= 9 /\ 0 \in 0..(2 - 1)
    OBVIOUS
  <2> QED BY <2>1, <2>5, <2>6
<1>7. CASE i = 15
  <2> DEFINE names == <<"hiragana", "katakana", "halfwidth-katakana">>
             given == {"hiragana", "katakana", "halfwidth-katakana"}
  <2>1. Options[i] = EnumOption("anthy-kana-script", Anthy, 0, 3, FALSE)
    BY <1>7 DEF Options
  <2>2. ValueNames("anthy-kana-script") = names
    BY DEF ValueNames
  <2>3. "" \notin given
    BY Zenon
  <2>4. /\ 1..3 \subseteq DOMAIN names /\ \A k \in 1..3 : names[k] \in given
        /\ \A k, m \in 1..3 : names[k] = names[m] => k = m
    OBVIOUS
  <2> HIDE DEF names, given
  <2>5. NamedApart("anthy-kana-script", 3)
    BY <2>2, <2>3, <2>4 DEF NamedApart
  <2>6. 3 \in 2..64 /\ 3 <= 9 /\ 0 \in 0..(3 - 1)
    OBVIOUS
  <2> QED BY <2>1, <2>5, <2>6
<1>8. CASE i = 16
  <2> DEFINE names == <<"kuten", "fullwidth">>
             given == {"kuten", "fullwidth"}
  <2>1. Options[i] = EnumOption("anthy-period-style", Anthy, 0, 2, FALSE)
    BY <1>8 DEF Options
  <2>2. ValueNames("anthy-period-style") = names
    BY DEF ValueNames
  <2>3. "" \notin given
    BY Zenon
  <2>4. /\ 1..2 \subseteq DOMAIN names /\ \A k \in 1..2 : names[k] \in given
        /\ \A k, m \in 1..2 : names[k] = names[m] => k = m
    OBVIOUS
  <2> HIDE DEF names, given
  <2>5. NamedApart("anthy-period-style", 2)
    BY <2>2, <2>3, <2>4 DEF NamedApart
  <2>6. 2 \in 2..64 /\ 2 <= 9 /\ 0 \in 0..(2 - 1)
    OBVIOUS
  <2> QED BY <2>1, <2>5, <2>6
<1>9. CASE i = 17
  <2> DEFINE names == <<"corner-slash", "corner-middot", "bracket-slash",
                      "bracket-middot">>
             given == {"corner-slash", "corner-middot", "bracket-slash",
                      "bracket-middot"}
  <2>1. Options[i] = EnumOption("anthy-symbol-style", Anthy, 0, 4, FALSE)
    BY <1>9 DEF Options
  <2>2. ValueNames("anthy-symbol-style") = names
    BY DEF ValueNames
  <2>3. "" \notin given
    BY Zenon
  <2>4. /\ 1..4 \subseteq DOMAIN names /\ \A k \in 1..4 : names[k] \in given
        /\ \A k, m \in 1..4 : names[k] = names[m] => k = m
    OBVIOUS
  <2> HIDE DEF names, given
  <2>5. NamedApart("anthy-symbol-style", 4)
    BY <2>2, <2>3, <2>4 DEF NamedApart
  <2>6. 4 \in 2..64 /\ 4 <= 9 /\ 0 \in 0..(4 - 1)
    OBVIOUS
  <2> QED BY <2>1, <2>5, <2>6
<1>10. CASE i = 18
  <2> DEFINE names == <<"nothing", "convert", "commit">>
             given == {"nothing", "convert", "commit"}
  <2>1. Options[i] = EnumOption("anthy-on-period", Anthy, 0, 3, FALSE)
    BY <1>10 DEF Options
  <2>2. ValueNames("anthy-on-period") = names
    BY DEF ValueNames
  <2>3. "" \notin given
    BY Zenon
  <2>4. /\ 1..3 \subseteq DOMAIN names /\ \A k \in 1..3 : names[k] \in given
        /\ \A k, m \in 1..3 : names[k] = names[m] => k = m
    OBVIOUS
  <2> HIDE DEF names, given
  <2>5. NamedApart("anthy-on-period", 3)
    BY <2>2, <2>3, <2>4 DEF NamedApart
  <2>6. 3 \in 2..64 /\ 3 <= 9 /\ 0 \in 0..(3 - 1)
    OBVIOUS
  <2> QED BY <2>1, <2>5, <2>6
<1>11. CASE i = 20
  <2> DEFINE names == <<"full", "double-mspy", "double-zrm", "double-abc",
                      "double-zgpy", "double-pyjj", "double-xhe">>
             given == {"full", "double-mspy", "double-zrm", "double-abc", "double-zgpy",
                      "double-pyjj", "double-xhe"}
  <2>1. Options[i] = EnumOption("pinyin-scheme", Pinyin, 0, 7, TRUE)
    BY <1>11 DEF Options
  <2>2. ValueNames("pinyin-scheme") = names
    BY DEF ValueNames
  <2>3. "" \notin given
    BY Zenon
  <2>4. /\ 1..7 \subseteq DOMAIN names /\ \A k \in 1..7 : names[k] \in given
        /\ \A k, m \in 1..7 : names[k] = names[m] => k = m
    OBVIOUS
  <2> HIDE DEF names, given
  <2>5. NamedApart("pinyin-scheme", 7)
    BY <2>2, <2>3, <2>4 DEF NamedApart
  <2>6. 7 \in 2..64 /\ 7 <= 9 /\ 0 \in 0..(7 - 1)
    OBVIOUS
  <2> QED BY <2>1, <2>5, <2>6
<1>12. CASE i = 23
  <2> DEFINE names == <<"standard", "ching-yeah", "eten", "ibm">>
             given == {"standard", "ching-yeah", "eten", "ibm"}
  <2>1. Options[i] = EnumOption("bopomofo-layout", Bopomofo, 0, 4, TRUE)
    BY <1>12 DEF Options
  <2>2. ValueNames("bopomofo-layout") = names
    BY DEF ValueNames
  <2>3. "" \notin given
    BY Zenon
  <2>4. /\ 1..4 \subseteq DOMAIN names /\ \A k \in 1..4 : names[k] \in given
        /\ \A k, m \in 1..4 : names[k] = names[m] => k = m
    OBVIOUS
  <2> HIDE DEF names, given
  <2>5. NamedApart("bopomofo-layout", 4)
    BY <2>2, <2>3, <2>4 DEF NamedApart
  <2>6. 4 \in 2..64 /\ 4 <= 9 /\ 0 \in 0..(4 - 1)
    OBVIOUS
  <2> QED BY <2>1, <2>5, <2>6
<1>13. CASE i = 30
  <2> DEFINE names == <<"commit-candidate", "commit-raw">>
             given == {"commit-candidate", "commit-raw"}
  <2>1. Options[i] = EnumOption("table-invalid-input", TableEngine, 0, 2, FALSE)
    BY <1>13 DEF Options
  <2>2. ValueNames("table-invalid-input") = names
    BY DEF ValueNames
  <2>3. "" \notin given
    BY Zenon
  <2>4. /\ 1..2 \subseteq DOMAIN names /\ \A k \in 1..2 : names[k] \in given
        /\ \A k, m \in 1..2 : names[k] = names[m] => k = m
    OBVIOUS
  <2> HIDE DEF names, given
  <2>5. NamedApart("table-invalid-input", 2)
    BY <2>2, <2>3, <2>4 DEF NamedApart
  <2>6. 2 \in 2..64 /\ 2 <= 9 /\ 0 \in 0..(2 - 1)
    OBVIOUS
  <2> QED BY <2>1, <2>5, <2>6
<1> QED BY <1>1, <1>2, <1>3, <1>4, <1>5, <1>6, <1>7, <1>8, <1>9, <1>10, <1>11, <1>12, <1>13 DEF EnumIds

\* That is all of the inventory.
LEMMA RowCount ==
  /\ Len(Options) = 31
  /\ \A i \in 1..31 : i \in BoolIds \cup IntIds \cup FlagsIds \cup StringIds \cup EnumIds
BY DEF Options, BoolIds, IntIds, FlagsIds, StringIds, EnumIds

\* What the panel finds out before it sends anything.
LEMMA PanelCallIs ==
  ASSUME NEW call \in PanelCalls
  PROVE  /\ call.started = TRUE /\ call.engine \in Engines /\ call.deletes = TRUE
         /\ call.option \in OptionIds /\ Supported(Descriptor(call.option), call.engine)
         /\ CheckEngineCall(call) = "ok"
<1>1. PICK engine \in Engines :
        call \in [started : {TRUE}, engine : {engine}, level : {"engine", "context"},
                  option : CollectOptions(engine), deletes : {TRUE}, pinyin : BOOLEAN]
  BY DEF PanelCalls
<1>2. /\ call.started = TRUE /\ call.engine = engine /\ call.deletes = TRUE
      /\ call.option \in CollectOptions(engine)
  BY <1>1
<1>3. call.option \in OptionIds /\ Supported(Descriptor(call.option), call.engine)
  BY <1>2 DEF CollectOptions, OptionInfo
<1>4. call.engine # Null
  BY <1>1, <1>2 DEF Engines, Hangul, Converting, Anthy, Chinese, Pyzy, Pinyin, Bopomofo,
     TableEngine, Null
<1> QED BY <1>1, <1>2, <1>3, <1>4 DEF CheckEngineCall

\* What may be asked of it, and what is taken of what is sent.
LEMMA ReadIs ==
  ASSUME NEW call \in PanelCalls,
         SetterMatches(Kind(Descriptor(call.option)), Descriptor(call.option).type)
  PROVE  Get(call, Kind(Descriptor(call.option))) = "ok"
BY PanelCallIs DEF Get

LEMMA SentIs ==
  ASSUME NEW call \in PanelCalls, NEW kind, NEW v,
         CheckNumber(Descriptor(call.option), call.engine, kind, v)
  PROVE  \/ SetNumber(call, kind, v) = "ok"
         \/ LacksPinyin(call, v) /\ SetNumber(call, kind, v) = "unsupported"
<1>1. ~LacksCallback(call, v)
  BY PanelCallIs DEF LacksCallback
<1> QED BY <1>1, PanelCallIs DEF SetNumber

\* What a client is told of a row.
LEMMA InfoIs ==
  ASSUME NEW row, NEW engine
  PROVE  LET info == OptionInfo(row, engine)
         IN /\ info.min = row.min /\ info.max = row.max
            /\ info.valid = ValidValues(row, engine)
            /\ info.count = IF Supported(row, engine) THEN Len(Enumerates(row)) ELSE 0
BY DEF OptionInfo

\* The panel over an option of each type.
LEMMA BoolLegal ==
  ASSUME NEW call \in PanelCalls, NEW name, NEW owners, NEW default \in BOOLEAN,
         Descriptor(call.option) = BoolOption(name, owners, default)
  PROVE  OptionStaysLegal(call)
<1> DEFINE row == Descriptor(call.option)
           info == OptionInfo(row, call.engine)
<1>1. row.type = "bool"
  BY DEF BoolOption, Row
<1> HIDE DEF row
<1>2. Kind(row) = "bool" /\ SetterMatches("bool", "bool")
  BY <1>1 DEF Kind, SetterMatches
<1>3. Get(call, Kind(row)) = "ok"
  BY <1>1, <1>2, ReadIs DEF row
<1>4. ASSUME NEW v \in {0, 1}
      PROVE  CheckNumber(row, call.engine, Kind(row), AdjustedBool(v))
  BY <1>1, <1>2 DEF CheckNumber, AdjustedBool
<1>5. ASSUME NEW v \in {0, 1}
      PROVE  \/ SetNumber(call, Kind(row), AdjustedBool(v)) = "ok"
             \/ /\ LacksPinyin(call, AdjustedBool(v))
                /\ SetNumber(call, Kind(row), AdjustedBool(v)) = "unsupported"
  BY <1>4, SentIs DEF row
<1>6. ShownApart(row, info, {0, 1})
  <2>1. /\ ValueText(row, info, 0, 0) = <<"false">>
        /\ ValueText(row, info, 1, 0) = <<"true">>
    BY <1>1 DEF ValueText
  <2>2. <<"false">> # <<"true">>
    OBVIOUS
  <2> QED BY <2>1, <2>2 DEF ShownApart, IsInjective
<1> QED BY <1>1, <1>3, <1>5, <1>6 DEF OptionStaysLegal, row

LEMMA IntLegal ==
  ASSUME NEW call \in PanelCalls, NEW name, NEW owners, NEW default \in 1..64, NEW min \in 1..64,
         Descriptor(call.option) = IntOption(name, owners, default, min)
  PROVE  OptionStaysLegal(call)
<1> DEFINE row == Descriptor(call.option)
           info == OptionInfo(row, call.engine)
<1>1. row.type = "int" /\ row.min = min /\ row.max = IntMax
  BY DEF IntOption, Row
<1> HIDE DEF row
<1>2. Kind(row) = "int" /\ SetterMatches("int", "int")
  BY <1>1 DEF Kind, SetterMatches
<1>3. Get(call, Kind(row)) = "ok"
  BY <1>1, <1>2, ReadIs DEF row
<1>4. info.min = min /\ info.max = IntMax /\ IntMax \in Nat /\ min <= IntMax
  BY <1>1, InfoIs, CatalogAssumption
<1> HIDE DEF info
<1>5. ASSUME NEW v \in info.min..IntMax, NEW step \in Steps
      PROVE  CheckNumber(row, call.engine, Kind(row), AdjustedInt(info, v, step))
  <2>1. v \in Int /\ step \in Int
    BY <1>4 DEF Steps
  <2>2. AdjustedInt(info, v, step) \in min..IntMax
    BY <1>4, <2>1 DEF AdjustedInt
  <2> HIDE DEF row
  <2> QED BY <1>1, <1>2, <1>4, <2>2 DEF CheckNumber
<1>6. ASSUME NEW v \in info.min..IntMax, NEW step \in Steps
      PROVE  \/ SetNumber(call, Kind(row), AdjustedInt(info, v, step)) = "ok"
             \/ /\ LacksPinyin(call, AdjustedInt(info, v, step))
                /\ SetNumber(call, Kind(row), AdjustedInt(info, v, step)) = "unsupported"
  BY <1>5, SentIs DEF row
<1> QED BY <1>1, <1>3, <1>6 DEF OptionStaysLegal, row, info

\* An enum's and a set's legal values are listed from the lowest on.
LEMMA LegalValuesAre ==
  ASSUME NEW info, NEW n \in Nat \ {0}, info.valid = 0..(n - 1)
  PROVE  LegalValues(info) = [i \in 1..n |-> i - 1] /\ Cardinality(info.valid) = n
<1>1. Cardinality(0..(n - 1)) = n
  BY FS_Interval
<1>2. ASSUME NEW i \in 1..n
      PROVE  (CHOOSE v \in 0..(n - 1) : Cardinality({w \in 0..(n - 1) : w < v}) = i - 1) = i - 1
  <2>1. ASSUME NEW v \in 0..(n - 1) PROVE Cardinality({w \in 0..(n - 1) : w < v}) = v
    <3>1. {w \in 0..(n - 1) : w < v} = 0..(v - 1)
      OBVIOUS
    <3>2. Cardinality(0..(v - 1)) = v
      <4>1. v \in Int /\ v >= 0 /\ v - 1 \in Int /\ (0 > v - 1 <=> v = 0)
        OBVIOUS
      <4> QED BY <4>1, FS_Interval
    <3> QED BY <3>1, <3>2
  <2>2. i - 1 \in 0..(n - 1)
    OBVIOUS
  <2> DEFINE below(v) == Cardinality({w \in 0..(n - 1) : w < v})
  <2>3. \A v \in 0..(n - 1) : below(v) = v
    BY <2>1
  <2> HIDE DEF below
  <2>4. (CHOOSE v \in 0..(n - 1) : below(v) = i - 1) = i - 1
    BY <2>2, <2>3
  <2> QED BY <2>4 DEF below
<1> QED BY <1>1, <1>2 DEF LegalValues

\* A step in a list comes to an entry of it.
LEMMA CycledIs ==
  ASSUME NEW q, NEW n \in Nat \ {0}, Len(q) = n, NEW k \in 1..n, NEW step \in Steps
  PROVE  /\ \E i \in 1..n : Cycled(q, k, step) = q[i]
         /\ step = 1 => Cycled(q, k, step) = q[After(n, k - 1) + 1]
<1>1. Direction(step) \in {-1, 1} /\ (step = 1 => Direction(step) = 1)
  BY DEF Direction, Steps
<1>2. (k - 1 + Direction(step)) % n \in 0..(n - 1)
  <2>1. k - 1 + Direction(step) \in Int
    BY <1>1
  <2> QED BY <2>1, RemainderBelow
<1>3. ((k - 1 + Direction(step)) % n) + 1 \in 1..n
  BY <1>2
<1>4. step = 1 => (k - 1 + Direction(step)) % n = After(n, k - 1)
  <2> SUFFICES ASSUME step = 1 PROVE (k - 1 + 1) % n = After(n, k - 1)
    BY <1>1
  <2>1. k \in 0..(2 * n - 1) /\ k - 1 + 1 = k
    OBVIOUS
  <2>2. k % n = IF k < n THEN k ELSE k - n
    BY <2>1, RemainderIs
  <2> QED BY <2>1, <2>2 DEF After
<1> QED BY <1>3, <1>4 DEF Cycled

\* Where the entries are the numbers from 0 on.
LEMMA CountedCycleIs ==
  ASSUME NEW n \in Nat \ {0}, NEW list, Len(list) = n, \A i \in 1..n : list[i] = i - 1,
         NEW v \in 0..(n - 1), NEW step \in Steps
  PROVE  /\ Cycled(list, v + 1, step) \in 0..(n - 1)
         /\ Cycled(list, v + 1, 1) = After(n, v)
<1> DEFINE k == v + 1
<1>1. Len(list) = n /\ 1 \in Steps /\ k \in 1..n /\ k - 1 = v
  BY DEF Steps
<1> HIDE DEF k
<1>2. \A d \in Steps :
        /\ \E i \in 1..n : Cycled(list, k, d) = list[i]
        /\ d = 1 => Cycled(list, k, d) = list[After(n, k - 1) + 1]
  BY <1>1, CycledIs
<1>3. \A i \in 1..n : list[i] \in 0..(n - 1)
  OBVIOUS
<1>4. list[After(n, v) + 1] = After(n, v)
  BY DEF After
<1>5. Cycled(list, k, 1) = list[After(n, v) + 1]
  BY <1>1, <1>2
<1> HIDE DEF k
<1>6. Cycled(list, k, step) \in 0..(n - 1)
  BY <1>2, <1>3
<1> QED BY <1>4, <1>5, <1>6 DEF k

\* A step of an enum comes to a legal value, the next one going right.
LEMMA EnumStepIs ==
  ASSUME NEW info, NEW n \in Nat \ {0}, info.valid = 0..(n - 1), NEW v \in 0..(n - 1),
         NEW step \in Steps
  PROVE  /\ AdjustedEnum(info, v, step) \in 0..(n - 1)
         /\ AdjustedEnum(info, v, 1) = After(n, v)
<1>1. LegalValues(info) = [i \in 1..n |-> i - 1]
  BY LegalValuesAre
<1>2. IndexIn(LegalValues(info), v) = v + 1
  <2>1. \A i \in 1..n : LegalValues(info)[i] = v <=> i = v + 1
    BY <1>1
  <2>2. v + 1 \in 1..n /\ Len(LegalValues(info)) = n
    BY <1>1
  <2> QED BY <2>1, <2>2 DEF IndexIn
<1>3. \A d : AdjustedEnum(info, v, d) = Cycled(LegalValues(info), v + 1, d)
  BY <1>2 DEF AdjustedEnum
<1>5. Len(LegalValues(info)) = n /\ \A i \in 1..n : LegalValues(info)[i] = i - 1
  BY <1>1
<1>4. /\ Cycled(LegalValues(info), v + 1, step) \in 0..(n - 1)
      /\ Cycled(LegalValues(info), v + 1, 1) = After(n, v)
  BY <1>5, CountedCycleIs
<1> QED BY <1>3, <1>4

\* Stepping on and on comes by every legal value.
LEMMA EnumReached ==
  ASSUME NEW info, NEW m \in Nat \ {0}, info.valid = 0..(m - 1), NEW v \in info.valid
  PROVE  LET Onwards(x) == AdjustedEnum(info, x, 1)
         IN Reached(Onwards, v, Cardinality(info.valid)) = info.valid
<1> DEFINE n == Cardinality(info.valid)
<1>0. n = m /\ info.valid = 0..(n - 1) /\ n \in Nat \ {0} /\ v \in 0..(n - 1)
  BY LegalValuesAre
<1> HIDE DEF n
<1> DEFINE Is(f) == f = [i \in 0..n |-> IF i = 0 THEN v ELSE AdjustedEnum(info, f[i - 1], 1)]
           at == CHOOSE f : Is(f)
           g == [i \in 0..n |-> IF v + i < n THEN v + i ELSE v + i - n]
<1>1. \A x \in 0..(n - 1) : AdjustedEnum(info, x, 1) = After(n, x)
  BY <1>0, EnumStepIs DEF Steps
<1>2. Is(g)
  <2>1. ASSUME NEW i \in 0..n
        PROVE  g[i] = IF i = 0 THEN v ELSE AdjustedEnum(info, g[i - 1], 1)
    <3>1. CASE i = 0
      BY <1>0, <3>1
    <3>2. CASE i # 0
      <4>1. i - 1 \in 0..n /\ g[i - 1] \in 0..(n - 1)
        BY <1>0, <3>2
      <4>2. g[i] = After(n, g[i - 1])
        BY <1>0, <3>2 DEF After
      <4> HIDE DEF g
      <4> QED BY <1>1, <3>2, <4>1, <4>2
    <3> QED BY <3>1, <3>2
  <2>2. g = [i \in 0..n |-> g[i]]
    BY <1>0
  <2> HIDE DEF g
  <2> QED BY <2>1, <2>2
<1>3. Is(at)
  <2> HIDE DEF Is, g
  <2> QED BY <1>2
<1> HIDE DEF at
<1>4. at[0] = v /\ \A i \in 1..n : at[i] = AdjustedEnum(info, at[i - 1], 1)
  BY <1>0, <1>3
<1>5. {at[i] : i \in 0..n} = 0..(n - 1)
  <2> HIDE DEF Is
  <2>1. \A i \in 1..n : at[i - 1] \in 0..(n - 1) => at[i] = After(n, at[i - 1])
    BY <1>0, <1>1, <1>4
  <2>2. n \in Nat \ {0} /\ v \in 0..(n - 1)
    BY <1>0
  <2> QED BY <1>4, <2>1, <2>2, RoundAll
<1> QED BY <1>0, <1>5 DEF Reached, at, n

\* Of a set the panel walks the bits themselves.
LEMMA BitStepIs ==
  ASSUME NEW info, NEW n \in Nat \ {0}, info.valid = 0..(n - 1), NEW at \in 0..(n - 1)
  PROVE  /\ WalkedBit(info, at, 1) = After(n, at)
         /\ BitAt(info, at) = at
<1>1. LegalValues(info) = [i \in 1..n |-> i - 1] /\ Cardinality(info.valid) = n
  BY LegalValuesAre
<1>2. WalkedBit(info, at, 1) = (at + 1) % n
  BY <1>1 DEF WalkedBit
<1>3. at + 1 \in 0..(2 * n - 1)
  OBVIOUS
<1>4. (at + 1) % n = After(n, at)
  <2>1. (at + 1) % n = IF at + 1 < n THEN at + 1 ELSE at + 1 - n
    OBVIOUS
  <2>2. CASE at + 1 < n
    BY <2>1, <2>2 DEF After
  <2>3. CASE at + 1 = n
    BY <2>1, <2>3 DEF After
  <2> QED BY <2>2, <2>3
<1>5. Len(LegalValues(info)) = n
  <2>1. Len([i \in 1..n |-> i - 1]) = n
    OBVIOUS
  <2> QED BY <1>1, <2>1
<1>6. LegalValues(info)[at + 1] = at
  BY <1>1
<1> QED BY <1>2, <1>4, <1>5, <1>6 DEF BitAt

\* Walking on comes by every bit.
LEMMA BitsReached ==
  ASSUME NEW info, NEW m \in Nat \ {0}, info.valid = 0..(m - 1)
  PROVE  LET Onwards(x) == WalkedBit(info, x, 1)
         IN Reached(Onwards, 0, Cardinality(info.valid)) = 0..(Cardinality(info.valid) - 1)
<1> DEFINE n == Cardinality(info.valid)
<1>0. n = m /\ info.valid = 0..(n - 1) /\ n \in Nat \ {0}
  BY LegalValuesAre
<1> HIDE DEF n
<1> DEFINE Is(f) == f = [i \in 0..n |-> IF i = 0 THEN 0 ELSE WalkedBit(info, f[i - 1], 1)]
           at == CHOOSE f : Is(f)
           g == [i \in 0..n |-> IF i < n THEN i ELSE 0]
<1>1. \A x \in 0..(n - 1) : WalkedBit(info, x, 1) = After(n, x)
  BY <1>0, BitStepIs
<1>2. Is(g)
  <2>1. ASSUME NEW i \in 0..n
        PROVE  g[i] = IF i = 0 THEN 0 ELSE WalkedBit(info, g[i - 1], 1)
    <3>1. CASE i = 0
      BY <1>0, <3>1
    <3>2. CASE i # 0
      <4>1. i - 1 \in 0..n /\ g[i - 1] \in 0..(n - 1)
        BY <1>0, <3>2
      <4>2. g[i] = After(n, g[i - 1])
        BY <1>0, <3>2 DEF After
      <4> HIDE DEF g
      <4> QED BY <1>1, <3>2, <4>1, <4>2
    <3> QED BY <3>1, <3>2
  <2>2. g = [i \in 0..n |-> g[i]]
    BY <1>0
  <2> HIDE DEF g
  <2> QED BY <2>1, <2>2
<1>3. Is(at)
  <2> HIDE DEF Is, g
  <2> QED BY <1>2
<1> HIDE DEF at
<1>4. at[0] = 0 /\ \A i \in 1..n : at[i] = WalkedBit(info, at[i - 1], 1)
  BY <1>0, <1>3
<1>5. {at[i] : i \in 0..n} = 0..(n - 1)
  <2> HIDE DEF Is
  <2>1. \A i \in 1..n : at[i - 1] \in 0..(n - 1) => at[i] = After(n, at[i - 1])
    BY <1>0, <1>1, <1>4
  <2>2. n \in Nat \ {0} /\ 0 \in 0..(n - 1)
    BY <1>0
  <2> QED BY <1>4, <2>1, <2>2, RoundAll
<1> QED BY <1>0, <1>5 DEF Reached, at, n

LEMMA EnumLegal ==
  ASSUME NEW call \in PanelCalls, NEW name, NEW owners, NEW resets, NEW n \in 2..64,
         NEW default \in 0..(n - 1),
         Descriptor(call.option) = EnumOption(name, owners, default, n, resets),
         NamedApart(name, n), name = "chinese-variant" => default = 0
  PROVE  OptionStaysLegal(call)
<1> DEFINE row == Descriptor(call.option)
           info == OptionInfo(row, call.engine)
<1>1. row.type = "enum" /\ row.name = name /\ row.valid = 0..(n - 1) /\ row.default = default
  BY DEF EnumOption, Row
<1> HIDE DEF row
<1>2. Kind(row) = "int" /\ SetterMatches("int", "enum")
  BY <1>1 DEF Kind, SetterMatches
<1>3. Get(call, Kind(row)) = "ok"
  BY <1>1, <1>2, ReadIs DEF row
<1>4. \E m \in 1..n : info.valid = 0..(m - 1) /\ default \in 0..(m - 1)
  <2>1. info.valid = ValidValues(row, call.engine)
    BY InfoIs
  <2>2. CASE name = "chinese-variant" /\ call.engine \in Pyzy
    <3>1. info.valid = 0..(2 - 1)
      BY <1>1, <2>1, <2>2 DEF ValidValues
    <3>2. 2 \in 1..n /\ default \in 0..(2 - 1)
      BY <2>2
    <3> QED BY <3>1, <3>2
  <2>3. CASE ~(name = "chinese-variant" /\ call.engine \in Pyzy)
    <3>1. info.valid = 0..(n - 1) /\ n \in 1..n
      BY <1>1, <2>1, <2>3 DEF ValidValues
    <3> QED BY <3>1
  <2> QED BY <2>2, <2>3
<1>5. PICK m \in 1..n : info.valid = 0..(m - 1) /\ default \in 0..(m - 1)
  BY <1>4
<1>6. info.valid = ValidValues(row, call.engine)
  BY InfoIs
<1> HIDE DEF info
<1>7. m \in Nat \ {0}
  OBVIOUS
<1>8. ASSUME NEW v \in info.valid, NEW step \in Steps
      PROVE  \/ SetNumber(call, Kind(row), AdjustedEnum(info, v, step)) = "ok"
             \/ /\ LacksPinyin(call, AdjustedEnum(info, v, step))
                /\ SetNumber(call, Kind(row), AdjustedEnum(info, v, step)) = "unsupported"
  <2>1. AdjustedEnum(info, v, step) \in info.valid
    BY <1>5, <1>7, EnumStepIs
  <2>2. CheckNumber(row, call.engine, Kind(row), AdjustedEnum(info, v, step))
    BY <1>1, <1>2, <1>6, <2>1 DEF CheckNumber
  <2> QED BY <2>2, SentIs DEF row
<1>9. ShownApart(row, info, info.valid)
  <2>1. ASSUME NEW v \in info.valid
        PROVE  ValueText(row, info, v, 0) = <<ValueNames(name)[v + 1]>> /\ v + 1 \in 1..n
    <3>1. v \in 0..(n - 1) /\ v + 1 \in 1..n
      <4>1. v \in 0..(m - 1)
        BY <1>5
      <4> QED BY <4>1
    <3>2. v + 1 \in DOMAIN ValueNames(name) /\ ValueNames(name)[v + 1] # ""
      BY <3>1 DEF NamedApart
    <3>3. ValueName(row, v) = ValueNames(name)[v + 1]
      BY <1>1, <3>1, <3>2 DEF ValueName
    <3>4. ValueText(row, info, v, 0) = <<ValueName(row, v)>>
      BY <1>1, <3>2, <3>3 DEF ValueText
    <3> QED BY <3>1, <3>3, <3>4
  <2>2. ASSUME NEW v \in info.valid, NEW w \in info.valid,
               ValueText(row, info, v, 0) = ValueText(row, info, w, 0)
        PROVE  v = w
    <3>1. ValueNames(name)[v + 1] = ValueNames(name)[w + 1]
      <4>1. <<ValueNames(name)[v + 1]>> = <<ValueNames(name)[w + 1]>>
        BY <2>1, <2>2
      <4> QED BY <4>1
    <3>2. v + 1 \in 1..n /\ w + 1 \in 1..n
      BY <2>1
    <3>3. v + 1 = w + 1
      BY <3>1, <3>2 DEF NamedApart
    <3> QED BY <1>5, <3>3
  <2> QED BY <2>2 DEF ShownApart, IsInjective
<1>10. ASSUME NEW v \in info.valid
       PROVE  LET Onwards(x) == AdjustedEnum(info, x, 1)
              IN Reached(Onwards, v, Cardinality(info.valid)) = info.valid
  BY <1>5, <1>7, EnumReached
<1>11. row.default \in info.valid
  BY <1>1, <1>5
<1> QED BY <1>1, <1>3, <1>8, <1>9, <1>10, <1>11 DEF OptionStaysLegal, EnumStaysLegal, row, info

LEMMA FlagsLegal ==
  ASSUME NEW call \in PanelCalls, NEW name, NEW owners, NEW n \in 1..64,
         Descriptor(call.option) = FlagsOption(name, owners, n), name # "chinese-variant"
  PROVE  OptionStaysLegal(call)
<1> DEFINE row == Descriptor(call.option)
           info == OptionInfo(row, call.engine)
<1>1. row.type = "flags" /\ row.name = name /\ row.valid = 0..(n - 1)
  BY DEF FlagsOption, Row
<1> HIDE DEF row
<1>2. Kind(row) = "int" /\ SetterMatches("int", "flags")
  BY <1>1 DEF Kind, SetterMatches
<1>3. Get(call, Kind(row)) = "ok"
  BY <1>1, <1>2, ReadIs DEF row
<1>4. info.valid = ValidValues(row, call.engine) /\ info.valid = 0..(n - 1)
  BY <1>1, InfoIs DEF ValidValues
<1> HIDE DEF info
<1>5. n \in Nat \ {0} /\ Cardinality(info.valid) = n
  <2>1. n \in Nat \ {0}
    OBVIOUS
  <2> QED BY <1>4, <2>1, LegalValuesAre
<1>6. \A at \in 0..(n - 1) : BitAt(info, at) = at
  BY <1>4, <1>5, BitStepIs
<1>7. LET Onwards(x) == WalkedBit(info, x, 1)
      IN Reached(Onwards, 0, Cardinality(info.valid)) = 0..(Cardinality(info.valid) - 1)
  BY <1>4, <1>5, BitsReached
<1>8. {BitAt(info, at) : at \in 0..(Cardinality(info.valid) - 1)} = info.valid
  BY <1>4, <1>5, <1>6
<1>9. ASSUME NEW v \in {{}, info.valid}, NEW at \in 0..(Cardinality(info.valid) - 1)
      PROVE  LET flipped == AdjustedFlags(info, v, at)
             IN /\ \/ SetNumber(call, Kind(row), flipped) = "ok"
                   \/ /\ LacksPinyin(call, flipped)
                      /\ SetNumber(call, Kind(row), flipped) = "unsupported"
                /\ AdjustedFlags(info, flipped, at) = v
                /\ ValueText(row, info, flipped, at) # ValueText(row, info, v, at)
  <2> DEFINE flipped == AdjustedFlags(info, v, at)
             bit == BitAt(info, at)
  <2>1. bit \in info.valid
    BY <1>4, <1>5, <1>6
  <2> HIDE DEF bit
  <2>2. \A u : AdjustedFlags(info, u, at) = IF {bit} \subseteq u THEN u \ {bit} ELSE u \cup {bit}
    BY DEF AdjustedFlags, bit
  <2>3. /\ flipped \subseteq info.valid /\ AdjustedFlags(info, flipped, at) = v
        /\ (bit \in flipped) # (bit \in v)
    <3>1. CASE bit \in v
      <4>1. flipped = v \ {bit}
        BY <2>2, <3>1
      <4>2. AdjustedFlags(info, flipped, at) = flipped \cup {bit}
        BY <2>2, <4>1
      <4> QED BY <2>1, <3>1, <4>1, <4>2
    <3>2. CASE bit \notin v
      <4>1. flipped = v \cup {bit}
        BY <2>2, <3>2
      <4>2. AdjustedFlags(info, flipped, at) = flipped \ {bit}
        BY <2>2, <4>1
      <4> QED BY <2>1, <3>2, <4>1, <4>2
    <3> QED BY <3>1, <3>2
  <2> HIDE DEF flipped
  <2>4. CheckNumber(row, call.engine, Kind(row), flipped)
    BY <1>1, <1>2, <1>4, <2>3 DEF CheckNumber
  <2>5. \/ SetNumber(call, Kind(row), flipped) = "ok"
        \/ LacksPinyin(call, flipped) /\ SetNumber(call, Kind(row), flipped) = "unsupported"
    BY <2>4, SentIs DEF row
  <2>6. \A u : ValueText(row, info, u, at) =
                 <<Cardinality(u), bit \in u, ValueName(row, bit)>>
    BY <1>1 DEF ValueText, bit
  <2>7. ValueText(row, info, flipped, at)[2] # ValueText(row, info, v, at)[2]
    BY <2>3, <2>6
  <2> QED BY <2>3, <2>5, <2>7 DEF flipped
<1> QED BY <1>1, <1>3, <1>7, <1>8, <1>9 DEF OptionStaysLegal, FlagsStayLegal, row, info

\* What is enumerated for a string is a list with two ends.
LEMMA ListIs ==
  ASSUME NEW S, NEW list \in Seq(S), Len(list) # 0
  PROVE  /\ Len(list) \in Nat \ {0} /\ DOMAIN list = 1..Len(list)
         /\ Head(list) = list[1] /\ 1 \in 1..Len(list) /\ Len(list) \in 1..Len(list)
OBVIOUS

LEMMA StringLegal ==
  ASSUME NEW call \in PanelCalls, NEW name, NEW owners, NEW resets,
         Descriptor(call.option) = StringOption(name, owners, resets)
  PROVE  OptionStaysLegal(call)
<1> DEFINE row == Descriptor(call.option)
           info == OptionInfo(row, call.engine)
           list == Enumerates(row)
<1>1. row.type = "string" /\ row.name = name
  <2>1. \A empty : LET r == Row(name, "string", owners, empty, {}, resets)
                   IN r.type = "string" /\ r.name = name
    BY DEF Row
  <2> QED BY <2>1, Zenon DEF StringOption
<1> HIDE DEF row
<1>2. Kind(row) = "string" /\ SetterMatches("string", "string")
  BY <1>1 DEF Kind, SetterMatches
<1>3. Get(call, Kind(row)) = "ok"
  BY <1>1, <1>2, ReadIs DEF row
<1>4. info.count = Len(list)
  BY InfoIs, PanelCallIs DEF row
<1>5. ASSUME info.count # 0, NEW v \in ToSet(list) \cup {""} \cup {"elsewhere"}, NEW step \in Steps
      PROVE  AdjustedString(row, v, step) \in ToSet(list) /\ SetString(call, 2, TRUE) = "ok"
  <2>1. list = Installed /\ name = "table-file"
    BY <1>1, <1>4, <1>5 DEF Enumerates
  <2> HIDE DEF list
  <2> DEFINE n == Len(list)
  <2>2. /\ n \in Nat \ {0} /\ DOMAIN list = 1..n /\ 1 \in 1..n /\ n \in 1..n
        /\ Head(list) = list[1]
    <3>1. list \in Seq(STRING)
      BY <2>1, CatalogAssumption
    <3>2. Len(list) # 0
      BY <1>4, <1>5
    <3> QED BY <3>1, <3>2, ListIs, Zenon
  <2>3. SetString(call, 2, TRUE) = "ok"
    BY <1>1, <1>2, <2>1, PanelCallIs DEF SetString, CheckString, row
  <2>4. AdjustedString(row, v, step) =
          IF Contains(list, v) THEN Cycled(list, IndexIn(list, v), step)
          ELSE IF step >= 0 THEN Head(list) ELSE Last(list)
    BY DEF AdjustedString, list
  <2>5. \A i \in 1..n : list[i] \in ToSet(list)
    BY <2>2 DEF ToSet
  <2>6. CASE Contains(list, v)
    <3>1. IndexIn(list, v) \in 1..n
      BY <2>6 DEF Contains, IndexIn
    <3> DEFINE first == IndexIn(list, v)
    <3> HIDE DEF first
    <3>2. first \in 1..n
      BY <3>1 DEF first
    <3>3. \E i \in 1..n : Cycled(list, first, step) = list[i]
      BY <2>2, <3>2, CycledIs
    <3> QED BY <2>3, <2>4, <2>5, <2>6, <3>3 DEF first
  <2>7. CASE ~Contains(list, v)
    <3>1. Last(list) = list[n]
      BY DEF Last
    <3> QED BY <2>3, <2>4, <2>5, <2>2, <2>7, <3>1
  <2> QED BY <2>6, <2>7
<1>6. ASSUME info.count # 0
      PROVE  ShownApart(row, info, ToSet(list) \cup {""})
  <2>1. ASSUME NEW v, NEW w, ValueText(row, info, v, 0) = ValueText(row, info, w, 0)
        PROVE  v = w
    <3>1. \A u : ValueText(row, info, u, 0) =
                   IF u # "" THEN <<u>> ELSE <<"none", info.count>>
      BY <1>1, <1>6 DEF ValueText
    <3>2. CASE v # "" /\ w # ""
      <4>1. <<v>> = <<w>>
        BY <2>1, <3>1, <3>2
      <4> QED BY <4>1
    <3>3. \A u : <<u>> # <<"none", info.count>>
      OBVIOUS
    <3> HIDE DEF info
    <3>4. CASE v = "" /\ w # ""
      <4>1. ValueText(row, info, v, 0) = <<"none", info.count>>
        BY <3>1, <3>4, Zenon
      <4>2. ValueText(row, info, w, 0) = <<w>>
        BY <3>1, <3>4, Zenon
      <4> QED BY <2>1, <3>3, <4>1, <4>2, Zenon
    <3>5. CASE v # "" /\ w = ""
      <4>1. ValueText(row, info, w, 0) = <<"none", info.count>>
        BY <3>1, <3>5, Zenon
      <4>2. ValueText(row, info, v, 0) = <<v>>
        BY <3>1, <3>5, Zenon
      <4> QED BY <2>1, <3>3, <4>1, <4>2, Zenon
    <3> QED BY <3>2, <3>4, <3>5, Zenon
  <2> QED BY <2>1 DEF ShownApart, IsInjective
<1> QED BY <1>1, <1>3, <1>5, <1>6 DEF OptionStaysLegal, row, info, list

\* Whatever the row, the panel stays within what its setter takes.
LEMMA EveryOption ==
  ASSUME NEW call \in PanelCalls
  PROVE  OptionStaysLegal(call)
<1> DEFINE i == call.option + 1
<1>1. i \in 1..31 /\ Descriptor(call.option) = Options[i]
  <2>1. call.option \in 0..(31 - 1)
    BY PanelCallIs, RowCount DEF OptionIds
  <2> QED BY <2>1 DEF Descriptor
<1> HIDE DEF i
<1>2. CASE i \in BoolIds
  <2>1. \E name, owners : \E default \in BOOLEAN : Options[i] = BoolOption(name, owners, default)
    BY <1>2, BoolRows
  <2> QED BY <1>1, <2>1, BoolLegal
<1>3. CASE i \in IntIds
  <2>1. \E name, owners : \E default, min \in 1..64 :
          Options[i] = IntOption(name, owners, default, min)
    BY <1>3, IntRows
  <2> QED BY <1>1, <2>1, IntLegal
<1>4. CASE i \in FlagsIds
  <2>1. \E name, owners : \E n \in 1..64 :
          Options[i] = FlagsOption(name, owners, n) /\ name # "chinese-variant"
    BY <1>4, FlagsRows
  <2> QED BY <1>1, <2>1, FlagsLegal
<1>5. CASE i \in StringIds
  <2>1. \E name, owners, resets : Options[i] = StringOption(name, owners, resets)
    BY <1>5, StringRows
  <2> QED BY <1>1, <2>1, StringLegal
<1>6. CASE i \in EnumIds
  <2>1. PICK name, owners, resets : \E n \in 2..64 : \E default \in 0..(n - 1) :
          /\ Options[i] = EnumOption(name, owners, default, n, resets)
          /\ NamedApart(name, n) /\ (name = "chinese-variant" => default = 0)
    BY <1>6, EnumRows
  <2>2. PICK n \in 2..64 : \E default \in 0..(n - 1) :
          /\ Options[i] = EnumOption(name, owners, default, n, resets)
          /\ NamedApart(name, n) /\ (name = "chinese-variant" => default = 0)
    BY <2>1
  <2> QED BY <1>1, <2>2, EnumLegal
<1> QED BY <1>1, <1>2, <1>3, <1>4, <1>5, <1>6, RowCount

\* Nothing the demo does to an option leaves the legal values, for any tables
\* installed: of every option of every engine its settings page shows each legal value
\* under a name of its own, comes by them all and sends none a setter refuses, and the
\* cap it raises stays one (collect_options, value_text, adjust_option,
\* grow_candidate_list).
THEOREM PanelIsLegal == DemoSpec => []PanelStaysLegal
<1>1. PanelOffersLegal
  BY EveryOption DEF PanelOffersLegal
<1>2. DemoInv => \A s \in Offering : CheckNumber(Options[1], "anthy", "int", slotContexts[s].cap)
  <2> SUFFICES ASSUME DemoInv, NEW s \in Offering
               PROVE  CheckNumber(Options[1], "anthy", "int", slotContexts[s].cap)
    OBVIOUS
  <2>1. Options[1] = IntOption("max-candidates", Converting, 64, 1)
    BY DEF Options
  <2>2. slotContexts \in [Slots -> ClientContext] /\ s \in Slots
    BY NowIs, GoodIs, DemoAssumption DEF DemoInv, Now
  <2>3. slotContexts[s].cap \in 1..MaxCap /\ MaxCap \in Nat /\ MaxCap <= IntMax /\ IntMax \in Nat
    BY <2>2, DemoAssumption, CatalogAssumption DEF ClientContext
  <2>4. Options[1].type = "int" /\ Options[1].min = 1 /\ Options[1].max = IntMax
    BY <2>1 DEF IntOption, Row
  <2> QED BY <2>3, <2>4 DEF CheckNumber, SetterMatches
<1>3. DemoInv => PanelStaysLegal
  BY <1>1, <1>2 DEF PanelStaysLegal
<1> QED BY <1>3, DemoInductive, PTL
=================================================================================
