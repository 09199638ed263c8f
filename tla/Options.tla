-------------------------------- MODULE Options --------------------------------
(***************************************************************************)
(* The two-level option store of one engine and its input contexts         *)
(* (src/options.cc): resolution through a context's own value, its         *)
(* engine's, the declaration of the effective table and the library        *)
(* default; and what a change sets in motion in the contexts it is felt    *)
(* in.  Contexts come and go (src/context.cc, create and destroy).         *)
(*                                                                         *)
(* The inventory is cut down to one option of each kind the store treats   *)
(* differently: one that a client's callbacks cap, one that resets the     *)
(* composition and keys the table's declarations, one a table declares and *)
(* is asked about when it is set, and a plain one.  What a context has     *)
(* composed is reduced to whether there is anything.                       *)
(***************************************************************************)
EXTENDS Naturals, Sequences, FiniteSets, SequencesExt

\* The level an engine resolves at, beside those of its contexts.
AtEngine == "engine"

CONSTANTS
  Contexts,   \* handles a context can have
  Clients,    \* sets of optional callbacks a client may bring, by engine
  MaxLive,    \* bound: contexts at a time, by engine
  Tables,     \* names that resolve to a loadable table
  Pinyin      \* the tables that declare pinyin and were compiled with its data

\* The two engines whose options the store treats in a way of their own.
Engines == {"hangul", "table"}

ASSUME EngineAssumption ==
  /\ Clients \in [Engines -> SUBSET SUBSET {"delete", "changed"}]
  /\ MaxLive \in [Engines -> Nat]
  /\ Pinyin \subseteq Tables
  /\ AtEngine \notin Contexts
  /\ Tables \cap {"unset", "none", "syllable", "on", "off", "no table"} = {}

VARIABLES
  engine,      \* pathime_engine::id
  live,        \* pathime_engine::contexts
  client,      \* the optional callbacks of each context's client
  engineSet,   \* pathime_engine::options
  contextSet,  \* pathime_context::options, by context
  loaded,      \* TableEngine::tables_: the tables that have been opened
  composing,   \* is there anything in pathime_context::model?
  applied,     \* the values each adapter's state was last derived from
  announced    \* the contexts whose composition_changed the last call ran

vars == <<engine, live, client, engineSet, contextSet, loaded, composing,
          applied, announced>>

-------------------------------------------------------------------------------
(* The descriptor table, kOptions.                                         *)

\* The options this engine implements, in enum order.
Inventory ==
  IF engine = "hangul"
  THEN <<"hangul-auto-reorder", "hangul-preedit">>
  ELSE <<"table-file", "table-pinyin-fallback">>

Option == ToSet(Inventory)

NoTable == "no table"   \* the empty string
Unset   == "unset"      \* no entry in an OptionStore

Values(o) == CASE o = "hangul-preedit" -> {"syllable", "none"}
               [] o = "table-file"     -> Tables \cup {NoTable}
               [] OTHER                -> {"on", "off"}

Default(o) == CASE o = "hangul-preedit" -> "syllable"
                [] o = "table-file"     -> NoTable
                [] OTHER                -> "off"

ResetsComposition(o) == o = "table-file"

-------------------------------------------------------------------------------
(* Resolution, for a state of the stores: the engine's options, those of each *)
(* context, and the tables opened so far.                                     *)

EmptyStore == [o \in Option |-> Unset]

Stores(all, own, open) == [engine |-> all, own |-> own, open |-> open]
Now == Stores(engineSet, contextSet, loaded)

\* What is set at the level resolved for; an engine has nothing above its own.
Own(st, level) == IF level = AtEngine THEN EmptyStore ELSE st.own[level]

\* resolve_value: tiers 1 and 2.
Chosen(st, level, o) ==
  IF Own(st, level)[o] # Unset THEN Own(st, level)[o] ELSE st.engine[o]

\* tier3_table: the table whose declarations apply.
Table(st, level) ==
  IF engine # "table" \/ Chosen(st, level, "table-file") = Unset
  THEN NoTable ELSE Chosen(st, level, "table-file")

\* declared_number: what the table says of an option, once it has been opened.
Declared(st, level, o) ==
  IF Table(st, level) \notin st.open \/ o # "table-pinyin-fallback" THEN Unset
  ELSE IF Table(st, level) \in Pinyin THEN "on" ELSE "off"

\* resolve_number and resolve_string, but for the cap.
Resolved(st, level, o) ==
  IF Chosen(st, level, o) # Unset THEN Chosen(st, level, o)
  ELSE IF Declared(st, level, o) # Unset THEN Declared(st, level, o)
       ELSE Default(o)

\* The one capping rule: a context whose client cannot delete builds the
\* syllable in the preedit.
Effective(st, c, o) ==
  IF /\ o = "hangul-preedit" /\ "delete" \notin client[c]
     /\ Resolved(st, c, o) = "none"
  THEN "syllable" ELSE Resolved(st, c, o)

View(st, c) == [o \in Option |-> Effective(st, c, o)]

Init ==
  /\ engine \in Engines
  /\ live = {}
  /\ client = [c \in Contexts |-> {}]
  /\ engineSet = EmptyStore
  /\ contextSet = [c \in Contexts |-> EmptyStore]
  /\ loaded = {}
  /\ composing = [c \in Contexts |-> FALSE]
  /\ applied = [c \in Contexts |-> EmptyStore]
  /\ announced = {}

-------------------------------------------------------------------------------
(* Setting and resetting.                                                  *)

\* The rejections of set_number and set_string. The fallback needs the data of
\* the table that applies at the level it is set on; a table that cannot be
\* opened is refused before this. Only a context has a client to ask.
AcceptsTable(level, o, v) ==
  o = "table-pinyin-fallback" /\ v = "on" => Declared(Now, level, o) = "on"

AcceptsClient(c, o, v) ==
  o = "hangul-preedit" /\ v = "none" => "delete" \in client[c]

\* EngineBackend::prepare_string opens the table before its name is stored.
\* Mutation: it is left to the first key.
LoadedLater(o, v) == loaded

LoadedBy(o, v) ==
  IF o = "table-file" /\ v # NoTable THEN loaded \cup {v} ELSE loaded

\* Mutation: only those with something to refresh are.
AffectedComposing(o) == {c \in live : contextSet[c][o] = Unset /\ composing[c]}

Affected(o) == {c \in live : contextSet[c][o] = Unset}

\* Store the change, then commit_change: each affected context is reset, and
\* announces it if there was anything to discard; or its adapter derives its
\* state anew and the client is told regardless.
CommitChange(st, affected, o) ==
  LET listening == {c \in affected : "changed" \in client[c]}
  IN /\ engineSet' = st.engine
     /\ contextSet' = st.own
     /\ loaded' = st.open
     /\ applied' = [c \in Contexts |->
                      IF c \in affected THEN View(st, c) ELSE applied[c]]
     /\ IF ResetsComposition(o)
        THEN /\ composing' = [c \in Contexts |-> composing[c] /\ c \notin affected]
             /\ announced' = {c \in listening : composing[c]}
        ELSE /\ UNCHANGED composing
             /\ announced' = listening
     /\ UNCHANGED <<engine, live, client>>

\* pathime_engine_set_option_*
EngineSet(o, v) ==
  /\ AcceptsTable(AtEngine, o, v)
  /\ CommitChange(Stores([engineSet EXCEPT ![o] = v], contextSet, LoadedBy(o, v)),
                  Affected(o), o)

\* pathime_context_set_option_*
ContextSet(c, o, v) ==
  /\ c \in live
  /\ AcceptsClient(c, o, v)
  /\ AcceptsTable(c, o, v)
  /\ CommitChange(Stores(engineSet, [contextSet EXCEPT ![c][o] = v], LoadedBy(o, v)),
                  {c}, o)

\* pathime_engine_reset_option and pathime_context_reset_option. Resetting what
\* was never set does nothing.
EngineReset(o) ==
  /\ engineSet[o] # Unset
  /\ CommitChange(Stores([engineSet EXCEPT ![o] = Unset], contextSet, loaded),
                  Affected(o), o)

ContextReset(c, o) ==
  /\ c \in live
  /\ contextSet[c][o] # Unset
  /\ CommitChange(Stores(engineSet, [contextSet EXCEPT ![c][o] = Unset], loaded),
                  {c}, o)

\* pathime_context_isolate_options: copy every effective value the context has
\* not set, in enum order; memory may run out after any of them, which leaves
\* the ones before it copied. Nothing is told to anyone.
\* Mutation: what an engine resolves is copied, not what the context does.
CopiedUncapped(c, o) == Resolved(Now, c, o)

\* Mutation: the table is not asked.
CopiedUndeclared(c, o) ==
  IF Chosen(Now, c, o) # Unset THEN Chosen(Now, c, o) ELSE Default(o)

Copied(c, o) == Effective(Now, c, o)

Isolate(c) ==
  /\ c \in live
  /\ \E n \in 1..Len(Inventory) :
       contextSet' = [contextSet EXCEPT ![c] =
         [o \in Option |->
            IF @[o] = Unset /\ o \in ToSet(SubSeq(Inventory, 1, n))
            THEN Copied(c, o) ELSE @[o]]]
  /\ announced' = {}
  /\ UNCHANGED <<engine, live, client, engineSet, loaded, composing, applied>>

-------------------------------------------------------------------------------
(* Contexts.                                                               *)

\* pathime_context_create, refused to a client the engine's own configuration
\* asks more of. With nothing set on it yet, the context starts from what its
\* engine resolves. One whose adapter cannot be built is unregistered again and
\* leaves no trace.
Create(c, callbacks) ==
  /\ c \notin live /\ Cardinality(live) < MaxLive[engine]
  /\ "hangul-preedit" \in Option =>
       (Resolved(Now, AtEngine, "hangul-preedit") = "none" => "delete" \in callbacks)
  /\ live' = live \cup {c}
  /\ client' = [client EXCEPT ![c] = callbacks]
  /\ announced' = {}
  /\ applied' = [applied EXCEPT ![c] =
                    [o \in Option |-> Resolved(Now, AtEngine, o)]]
  /\ UNCHANGED <<engine, engineSet, contextSet, loaded, composing>>

\* pathime_context_destroy discards everything and tells nobody.
Destroy(c) ==
  /\ c \in live
  /\ live' = live \ {c}
  /\ client' = [client EXCEPT ![c] = {}]
  /\ contextSet' = [contextSet EXCEPT ![c] = EmptyStore]
  /\ composing' = [composing EXCEPT ![c] = FALSE]
  /\ applied' = [applied EXCEPT ![c] = EmptyStore]
  /\ announced' = {}
  /\ UNCHANGED <<engine, engineSet, loaded>>

\* A key, commit or reset begins or ends a composition. With no table nothing
\* is ever composed.
Compose(c) ==
  /\ c \in live
  /\ "table-file" \in Option => Effective(Now, c, "table-file") # NoTable
  /\ composing' = [composing EXCEPT ![c] = ~@]
  /\ announced' = {c} \cap {d \in live : "changed" \in client[d]}
  /\ UNCHANGED <<engine, live, client, engineSet, contextSet, loaded, applied>>

Next ==
  \/ \E o \in Option :
       \/ \E v \in Values(o) : EngineSet(o, v)
       \/ EngineReset(o)
  \/ \E c \in Contexts :
       \/ \E o \in Option : \/ \E v \in Values(o) : ContextSet(c, o, v)
                            \/ ContextReset(c, o)
       \/ \E callbacks \in Clients[engine] : Create(c, callbacks)
       \/ Isolate(c) \/ Destroy(c) \/ Compose(c)

Spec == Init /\ [][Next]_vars

-------------------------------------------------------------------------------
(* What the option store owes the contexts that resolve through it.        *)

\* No value a context resolves ever moves without that context's adapter being
\* given the moment to follow: an engine-level change, a change of the table
\* that lies under other options, and a dropped override all reach exactly the
\* contexts in which they are felt (commit_change; pathime.h, "Resolution is
\* late").
AdaptersUpToDate == \A c \in live : applied[c] = View(Now, c)

\* Isolating a context changes nothing it resolves and nothing it had set, also
\* when it stops partway (pathime_context_isolate_options).
IsolationIsInert ==
  [][\A c \in live : announced' = {} /\ Isolate(c) =>
       /\ View(Now, c)' = View(Now, c)
       /\ \A o \in Option : contextSet[c][o] # Unset =>
            contextSet'[c][o] = contextSet[c][o]]_vars

\* No context works in the mode that deletes from a document its client cannot
\* delete from, and none stores that mode as a value of its own, by whatever
\* sequence of sets, resets, isolations and creations it got there
\* (resolve_number, check_client_capability, pathime_context_create).
ModeNeedsDelete ==
  \A c \in live :
    "hangul-preedit" \in Option /\ "delete" \notin client[c] =>
      /\ Effective(Now, c, "hangul-preedit") # "none"
      /\ contextSet[c]["hangul-preedit"] # "none"

\* Every table named at either level has been opened, so what it declares
\* applies from the moment it is chosen (prepare_string; pathime.h,
\* PATHIME_OPT_TABLE_FILE: "no window in which they answer with library
\* defaults").
NamedTablesAreOpen ==
  "table-file" \in Option =>
    \A store \in {engineSet} \cup {contextSet[c] : c \in live} :
      store["table-file"] \in loaded \cup {NoTable, Unset}
================================================================================
