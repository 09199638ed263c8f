------------------------------- MODULE Lifetime --------------------------------
(***************************************************************************)
(* The life of the library in a process, of its engines and of their       *)
(* contexts, and what the engines learn in the directory they are given:   *)
(* init.cc, engine.cc, the create and destroy of context.cc, and the       *)
(* process-wide hooks of the four backends.                                *)
(*                                                                         *)
(* A client keeps the contract of pathime.h: it destroys contexts before   *)
(* their engine and engines before it shuts the library down.  The process *)
(* may end at any call without doing so (Crash), and another may begin.    *)
(* What a composition is, and how options resolve, are other modules.      *)
(***************************************************************************)
EXTENDS Naturals, FiniteSets

CONSTANTS
  Handles,     \* engine handles a client may hold
  Contexts,    \* context handles
  Directories, \* what data_dir may name: a profile
  Default,     \* the one NULL stands for
  Words,       \* what a user may teach an engine
  MaxLessons,  \* bound: lessons remembered at a time
  None         \* no such handle

Backend == {"hangul", "anthy", "pyzy", "table"}
EngineId == {"hangul", "anthy", "pinyin", "bopomofo", "table"}
DataFile == {"anthy.dic", "main.db", "table.db"}
NoDirectory == "" \* what the globals hold while the library is down

\* pathime_engine: how often each context stands in its registry, whether its
\* PATHIME_OPT_HANGUL_PREEDIT is "none", and what became of its table.
Engine == [id : EngineId, contexts : [Contexts -> Nat], none : BOOLEAN,
           table : {"unasked", "open", "absent"}]

ASSUME LifetimeAssumption ==
  /\ Default \in Directories /\ NoDirectory \notin Directories
  /\ "malformed" \notin Directories /\ "NULL" \notin Directories
  /\ None \notin Handles /\ None \notin Engine /\ MaxLessons \in Nat

VARIABLES
  up,        \* g_initialized
  profile,   \* g_data_dir
  ready,     \* g_hangul_ready, g_anthy_ready, g_pyzy_ready, g_table_ready
  own,       \* what the backends keep for the process: PyZy's own g_pyzy_ready
             \* and the directory each writes below
  engines,   \* each handle's Engine, or None
  contexts,  \* the engine of each context, or None
  installed, \* the data files that are there, whoever put them there
  learned,   \* on disk: <<backend, directory, word>>
  pending,   \* learned by PyZy and not yet written, with the directory's
  taught,    \* history: what users taught, and under which profile
  result     \* the status of the last call

process == <<up, profile, ready, own>>
handles == <<engines, contexts>>
memory == <<up, profile, ready, own, engines, contexts, pending>>
words == <<learned, pending, taught>>
vars == <<memory, installed, learned, taught, result>>

Own == [pyzy : BOOLEAN, directory : [Backend -> Directories \cup {NoDirectory}]]

Fresh == [pyzy |-> FALSE, directory |-> [b \in Backend |-> NoDirectory]]

Init ==
  /\ up = FALSE /\ profile = NoDirectory /\ ready = {} /\ own = Fresh
  /\ engines = [e \in Handles |-> None] /\ contexts = [c \in Contexts |-> None]
  /\ installed \in SUBSET DataFile
  /\ learned = {} /\ pending = {} /\ taught = {} /\ result = "OK"

Held == {e \in Handles : engines[e] # None}
Live == {c \in Contexts : contexts[c] # None}

-------------------------------------------------------------------------------
(* The backends' hooks.                                                    *)

\* One backend supplies two engines.
BackendOf(id) == IF id \in {"pinyin", "bopomofo"} THEN "pyzy" ELSE id

\* What pathime_init finds: Hangul needs nothing and a table engine only a
\* directory to resolve names against, while Anthy and PyZy need their data, and
\* Anthy may still refuse it.  A PyZy that says it is ready asks nothing again.
CanBeReady ==
  {"hangul", "table"}
  \cup {b \in {"anthy"} : "anthy.dic" \in installed}
  \cup {b \in {"pyzy"} : own.pyzy \/ "main.db" \in installed}

\* Where a backend that comes up writes from then on: PyZy keeps the
\* directories it was first given until it is finalized.
Rooted(b, directory) ==
  IF b = "pyzy" /\ own.pyzy THEN own.directory["pyzy"] ELSE directory

\* The hooks of the backends that come up, in pathime_init's order.
Begun(coming, directory) ==
  [pyzy |-> own.pyzy \/ "pyzy" \in coming,
   directory |-> [b \in Backend |->
      IF b \in coming \ {"hangul"} THEN Rooted(b, directory) ELSE own.directory[b]]]

\* Mutation: pyzy_global_shutdown leaves its own flag up.
EndedHalf ==
  [own EXCEPT !.directory["table"] = NoDirectory, !.directory["anthy"] = NoDirectory]

\* table_global_shutdown, anthy_quit and finalize(), after which PyZy lowers its
\* own flag.  Anthy's directory is an override of its configuration that nothing
\* takes back and nothing reads before pathime_init replaces it: it is forgotten.
Ended ==
  [pyzy |-> own.pyzy /\ "pyzy" \notin ready,
   directory |-> [b \in Backend |-> IF b \in ready THEN NoDirectory ELSE own.directory[b]]]

-------------------------------------------------------------------------------
(* pathime_init and pathime_shutdown.                                      *)

\* The params a client may pass: a wrong size or an empty path, a directory, or
\* NULL for the default.
Params == {"malformed", "NULL"} \cup Directories

Resolve(params) == IF params = "NULL" THEN Default ELSE params

InitRefusal(params) ==
  IF params = "malformed" THEN {"INVALID_ARGUMENT"}
  ELSE IF up THEN {"ALREADY_INITIALIZED"} ELSE {"OUT_OF_MEMORY"}

PathimeInit(params) ==
  \/ /\ result' \in InitRefusal(params)
     /\ UNCHANGED <<memory, installed, learned, taught>>
  \/ /\ params # "malformed" /\ ~up
     /\ \E coming \in {CanBeReady, CanBeReady \ {"anthy"}} :
          /\ own' = Begun(coming, Resolve(params))
          /\ ready' = coming
     /\ profile' = Resolve(params) /\ up' = TRUE
     /\ result' = "OK"
     /\ UNCHANGED <<handles, installed, words>>

\* Mutation: init.cc lowers its flags before it runs the hooks.
PathimeShutdownUnsaved ==
  /\ Held = {}
  /\ result' = "OK"
  /\ IF up
     THEN up' = FALSE /\ profile' = NoDirectory /\ ready' = {} /\ UNCHANGED own
     ELSE UNCHANGED process
  /\ UNCHANGED <<handles, installed, words>>

\* finalize() saves what PyZy learned, where it was told to.
PathimeShutdown ==
  /\ Held = {}
  /\ result' = "OK"
  /\ IF up
     THEN /\ up' = FALSE /\ profile' = NoDirectory /\ ready' = {} /\ own' = Ended
          /\ learned' = learned \cup (IF "pyzy" \in ready THEN pending ELSE {})
          /\ pending' = IF "pyzy" \in ready THEN {} ELSE pending
     ELSE UNCHANGED <<process, learned, pending>>
  /\ UNCHANGED <<handles, installed, taught>>

-------------------------------------------------------------------------------
(* Engines.                                                                *)

\* pathime_has_engine
Available(id) == up /\ BackendOf(id) \in ready

CreateRefusal(id) ==
  IF ~up THEN {"NOT_INITIALIZED"}
  ELSE IF ~Available(id) THEN {"UNKNOWN_ENGINE"} ELSE {"OUT_OF_MEMORY"}

EngineCreate(e, id) ==
  /\ engines[e] = None
  /\ \/ result' \in CreateRefusal(id) /\ UNCHANGED engines
     \/ /\ Available(id)
        /\ engines' = [engines EXCEPT ![e] =
             [id |-> id, contexts |-> [c \in Contexts |-> 0], none |-> FALSE,
              table |-> "unasked"]]
        /\ result' = "OK"
  /\ UNCHANGED <<process, contexts, installed, words>>

EngineDestroy(e) ==
  /\ e \in Held /\ \A c \in Live : contexts[c] # e
  /\ engines' = [engines EXCEPT ![e] = None]
  /\ result' = "OK"
  /\ UNCHANGED <<process, contexts, installed, words>>

\* pathime_engine_set_option of PATHIME_OPT_HANGUL_PREEDIT, which is all that
\* decides what an engine requires of its contexts' clients.
EngineSetPreedit(e, none) ==
  /\ e \in Held /\ engines[e].id = "hangul"
  /\ engines' = [engines EXCEPT ![e].none = none]
  /\ result' = "OK"
  /\ UNCHANGED <<process, contexts, installed, words>>

\* What pathime_context_create asks the client's table for.
Required(e) == {"commit"} \cup {cb \in {"delete"} : engines[e].none}

-------------------------------------------------------------------------------
(* Contexts.                                                               *)

Register(e, c) == [engines EXCEPT ![e].contexts[c] = @ + 1]

\* Every entry of the context goes, wherever it stands.
Unregister(registry, e, c) == [registry EXCEPT ![e].contexts[c] = 0]

\* The adapter is made once the context is registered, and may fail to be; only
\* a table adapter is always made.
ContextCreate(e, c, callbacks) ==
  /\ e \in Held /\ contexts[c] = None
  /\ \/ /\ ~(Required(e) \subseteq callbacks)
        /\ result' = "MISSING_CALLBACK" /\ UNCHANGED handles
     \/ /\ Required(e) \subseteq callbacks
        /\ \/ result' = "OUT_OF_MEMORY" /\ UNCHANGED handles
           \/ /\ engines[e].id # "table"
              /\ result' = "BACKEND"
              /\ engines' = Unregister(Register(e, c), e, c) /\ UNCHANGED contexts
           \/ /\ result' = "OK"
              /\ engines' = Register(e, c) /\ contexts' = [contexts EXCEPT ![c] = e]
  /\ UNCHANGED <<process, installed, words>>

\* Mutation: a destroyed context stays registered.
ContextDestroyListed(c) ==
  /\ c \in Live
  /\ contexts' = [contexts EXCEPT ![c] = None]
  /\ result' = "OK"
  /\ UNCHANGED <<process, engines, installed, words>>

ContextDestroy(c) ==
  /\ c \in Live
  /\ engines' = Unregister(engines, contexts[c], c)
  /\ contexts' = [contexts EXCEPT ![c] = None]
  /\ result' = "OK"
  /\ UNCHANGED <<process, installed, words>>

\* TableEngine::load, the first time a context of the engine needs its table:
\* whether the file could be opened is remembered for the engine's life.
Load(e) ==
  IF engines[e].id = "table" /\ engines[e].table = "unasked"
  THEN [engines EXCEPT ![e].table = IF "table.db" \in installed THEN "open" ELSE "absent"]
  ELSE engines

\* A key, or a candidate the user settles: an engine that learns writes it at
\* once, but PyZy only marks it to be saved.  A table's user database was opened
\* with the table.
Type(c, word) ==
  /\ c \in Live
  /\ LET e == contexts[c]
         b == BackendOf(engines[e].id)
         lesson == <<b, own.directory[b], word>>
         learns == b \in {"anthy", "pyzy"} \/ (b = "table" /\ Load(e)[e].table = "open")
     IN /\ engines' = Load(e)
        /\ learned' = IF learns /\ b # "pyzy" THEN learned \cup {lesson} ELSE learned
        /\ pending' = IF b = "pyzy" THEN pending \cup {lesson} ELSE pending
        /\ taught' = IF learns THEN taught \cup {<<b, profile, word>>} ELSE taught
  /\ Cardinality(learned' \cup pending') <= MaxLessons
  /\ result' = "OK"
  /\ UNCHANGED <<process, contexts, installed>>

-------------------------------------------------------------------------------
(* The world around the library.                                           *)

\* The process ends with the library up, and another begins: what PyZy had not
\* written is lost to the user, as its comment says.
Crash ==
  /\ up
  /\ up' = FALSE /\ profile' = NoDirectory /\ ready' = {} /\ own' = Fresh
  /\ engines' = [e \in Handles |-> None] /\ contexts' = [c \in Contexts |-> None]
  /\ pending' = {} /\ taught' = taught \ (pending \ learned)
  /\ result' = "OK"
  /\ UNCHANGED <<installed, learned>>

\* A data file is installed, or removed; an open one stays readable.
Reinstall(file) ==
  /\ installed' = IF file \in installed THEN installed \ {file} ELSE installed \cup {file}
  /\ result' = "OK"
  /\ UNCHANGED <<memory, learned, taught>>

Next ==
  \/ \E params \in Params : PathimeInit(params)
  \/ PathimeShutdown
  \/ \E e \in Handles, id \in EngineId : EngineCreate(e, id)
  \/ \E e \in Handles : EngineDestroy(e)
  \/ \E e \in Handles, none \in BOOLEAN : EngineSetPreedit(e, none)
  \/ \E e \in Handles, c \in Contexts, callbacks \in SUBSET {"commit", "delete"} :
       ContextCreate(e, c, callbacks)
  \/ \E c \in Contexts : ContextDestroy(c)
  \/ \E c \in Contexts, word \in Words : Type(c, word)
  \/ Crash
  \/ \E file \in DataFile : Reinstall(file)

Spec == Init /\ [][Next]_vars

-------------------------------------------------------------------------------
(* What the library must keep.                                             *)

\* The list an engine-level option set walks names every live context of the
\* engine, once, and none that was destroyed or never handed out (engine.h; the
\* unregistering in pathime_context_create and pathime_context_destroy).
RegistryIsLive ==
  \A e \in Held, c \in Contexts :
    engines[e].contexts[c] = IF contexts[c] = e THEN 1 ELSE 0

\* What a user taught is in the profile it was taught under, or waits for the
\* shutdown that writes it; only the end of a process without one loses any
\* (pyzy_global_shutdown: a client must not skip pathime_shutdown).
LearningIsKept == taught \subseteq learned \cup pending /\ (~up => pending = {})

\* A second profile is a second directory: nothing learned under one reaches
\* another, however often the library was shut down between (pathime_init_params_t).
ProfilesApart == learned \cup pending \subseteq taught

===============================================================================
