----------------------------- MODULE OptionsProofs ------------------------------
(***************************************************************************)
(* Proofs about the option store, for any number of contexts, any tables   *)
(* and any clients.                                                        *)
(***************************************************************************)
EXTENDS Options, TLAPS

Value == Tables \cup {NoTable, Unset, "none", "syllable", "on", "off"}
Store == [Option -> Value]

OptionsTypeOK ==
  /\ engine \in Engines
  /\ live \subseteq Contexts
  /\ client \in [Contexts -> SUBSET {"delete", "changed"}]
  /\ engineSet \in Store
  /\ contextSet \in [Contexts -> Store]
  /\ loaded \subseteq Tables
  /\ composing \in [Contexts -> BOOLEAN]
  /\ applied \in [Contexts -> Store]

\* Both levels and the tables opened, as one state of the stores.
StoresType == [engine : Store, own : [Contexts -> Store], open : SUBSET Tables]

-------------------------------------------------------------------------------
(* The two inventories.                                                    *)

LEMMA OptionIs ==
  ASSUME engine \in Engines
  PROVE  Option = IF engine = "hangul" THEN {"hangul-auto-reorder", "hangul-preedit"}
                  ELSE {"table-file", "table-pinyin-fallback"}
<1>1. CASE engine = "hangul"
  BY <1>1 DEF Option, Inventory, ToSet
<1>2. CASE engine = "table"
  BY <1>2 DEF Option, Inventory, ToSet
<1> QED BY <1>1, <1>2 DEF Engines

LEMMA ValuesType == ASSUME NEW o, NEW v \in Values(o) PROVE v \in Value
BY DEF Values, Value, NoTable

LEMMA DefaultType == ASSUME NEW o PROVE Default(o) \in Value
BY DEF Default, Value, NoTable

LEMMA EmptyStoreType == EmptyStore \in Store
BY DEF EmptyStore, Store, Value

-------------------------------------------------------------------------------
(* Resolution.                                                             *)

LEMMA ChosenType ==
  ASSUME NEW st \in StoresType, NEW level \in Contexts \cup {AtEngine}, NEW o \in Option
  PROVE  Chosen(st, level, o) \in Value
<1>1. Own(st, level) \in Store
  BY EmptyStoreType DEF Own, StoresType
<1> QED BY <1>1 DEF Chosen, StoresType, Store

LEMMA ResolvedType ==
  ASSUME NEW st \in StoresType, NEW level \in Contexts \cup {AtEngine}, NEW o \in Option
  PROVE  Resolved(st, level, o) \in Value
<1>1. Declared(st, level, o) \in Value
  BY DEF Declared, Value, Unset
<1> QED BY <1>1, ChosenType, DefaultType DEF Resolved

LEMMA ViewType ==
  ASSUME NEW st \in StoresType, NEW c \in Contexts
  PROVE  View(st, c) \in Store
<1>1. \A o \in Option : Effective(st, c, o) \in Value
  BY ResolvedType DEF Effective, Value
<1> QED BY <1>1 DEF View, Store

LEMMA NowType == ASSUME OptionsTypeOK PROVE Now \in StoresType
BY DEF OptionsTypeOK, Now, Stores, StoresType

\* A context sees of the stores only what is chosen for it and whether the table
\* chosen is open.
LEMMA SameView ==
  ASSUME engine \in Engines, NEW one, NEW two, NEW c,
         \A o \in Option : Chosen(one, c, o) = Chosen(two, c, o),
         engine = "table" => (Table(one, c) \in one.open <=> Table(two, c) \in two.open),
         NoTable \notin one.open \cup two.open
  PROVE  View(one, c) = View(two, c)
<1>1. Table(one, c) = Table(two, c)
  BY OptionIs DEF Table, Engines
<1>2. Table(one, c) \in one.open <=> Table(two, c) \in two.open
  BY <1>1 DEF Table
<1>3. ASSUME NEW o \in Option PROVE Effective(one, c, o) = Effective(two, c, o)
  <2>1. Declared(one, c, o) = Declared(two, c, o)
    BY <1>1, <1>2 DEF Declared
  <2>2. Resolved(one, c, o) = Resolved(two, c, o)
    BY <1>3, <2>1 DEF Resolved
  <2> QED BY <2>2 DEF Effective
<1> QED BY <1>3 DEF View

\* What is resolved after a step that leaves the engine and the client alone.
LEMMA NextView ==
  ASSUME NEW st, NEW c, UNCHANGED engine, client'[c] = client[c],
         st = Stores(engineSet', contextSet', loaded')
  PROVE  View(Now, c)' = View(st, c)
<1>1. Option' = Option
  BY DEF Option, Inventory
<1> QED
  BY <1>1 DEF View, Effective, Resolved, Declared, Table, Chosen, Own, Now, Stores,
              EmptyStore

-------------------------------------------------------------------------------
(* The store and the adapters.                                             *)

\* The inductive invariant.  Opening a table under contexts that a change does
\* not reach is harmless only because the tables they name are open already, so
\* AdaptersUpToDate needs NamedTablesAreOpen; a fresh context needs that none
\* that is gone left an option behind.
OptionsInv ==
  /\ OptionsTypeOK
  /\ AdaptersUpToDate
  /\ NamedTablesAreOpen
  /\ \A c \in Contexts \ live : contextSet[c] = EmptyStore
  /\ \A c \in live :
       "hangul-preedit" \in Option /\ "delete" \notin client[c] =>
         contextSet[c]["hangul-preedit"] # "none"

LEMMA NotATable == NoTable \notin Tables /\ Unset \notin Tables /\ "none" \notin Tables
BY EngineAssumption DEF NoTable, Unset

LEMMA OptionsInit == Init => OptionsInv
<1> SUFFICES ASSUME Init PROVE OptionsInv
  OBVIOUS
<1>1. OptionsTypeOK
  BY EmptyStoreType DEF Init, OptionsTypeOK
<1>2. AdaptersUpToDate
  BY DEF Init, AdaptersUpToDate
<1>3. NamedTablesAreOpen
  BY DEF Init, NamedTablesAreOpen, EmptyStore
<1> QED BY <1>1, <1>2, <1>3 DEF OptionsInv, Init

\* A change of one option, felt in the contexts affected and in no other.
Felt(st, affected, o) ==
  /\ loaded \subseteq st.open
  /\ st.open # loaded => o = "table-file"
  /\ \A p \in Option : p # o => st.engine[p] = engineSet[p]
  /\ \A c \in Contexts : \A p \in Option :
       c \notin affected \/ p # o => st.own[c][p] = contextSet[c][p]
  /\ \A c \in live \ affected :
       st.engine[o] # engineSet[o] => contextSet[c][o] # Unset
  /\ o = "table-file" =>
       /\ st.engine[o] \in st.open \cup {NoTable, Unset}
       /\ \A c \in live : st.own[c][o] \in st.open \cup {NoTable, Unset}
  /\ o = "hangul-preedit" =>
       \A c \in live : "delete" \notin client[c] => st.own[c][o] # "none"

\* Storing such a change and telling those it is felt in: the others resolve
\* what they did before.
LEMMA CommitKeeps ==
  ASSUME OptionsInv, NEW st \in StoresType, NEW affected \in SUBSET live,
         NEW o \in Option, Felt(st, affected, o), CommitChange(st, affected, o)
  PROVE  OptionsInv'
<1>1. /\ OptionsTypeOK /\ AdaptersUpToDate /\ NamedTablesAreOpen
      /\ engine \in Engines /\ live \subseteq Contexts /\ loaded \subseteq Tables
      /\ engineSet \in Store /\ contextSet \in [Contexts -> Store]
  BY DEF OptionsInv, OptionsTypeOK
<1>2. /\ UNCHANGED <<engine, live, client>>
      /\ engineSet' = st.engine /\ contextSet' = st.own /\ loaded' = st.open
      /\ applied' = [c \in Contexts |->
                       IF c \in affected THEN View(st, c) ELSE applied[c]]
      /\ composing' \in [Contexts -> BOOLEAN]
  BY <1>1 DEF CommitChange, OptionsTypeOK
<1>3. Option' = Option /\ Store' = Store /\ EmptyStore' = EmptyStore
  BY <1>2 DEF Option, Inventory, Store, EmptyStore
<1>4. OptionsTypeOK'
  <2>1. \A c \in Contexts : View(st, c) \in Store
    BY ViewType
  <2>2. applied' \in [Contexts -> Store]
    BY <1>1, <1>2, <2>1 DEF OptionsTypeOK
  <2> QED BY <1>1, <1>2, <1>3, <2>2 DEF OptionsTypeOK, StoresType
<1>5. ASSUME NEW c \in live' PROVE applied'[c] = View(Now, c)'
  <2>1. c \in live /\ c \in Contexts
    BY <1>1, <1>2
  <2>2. st = Stores(engineSet', contextSet', loaded')
    BY <1>2 DEF Stores, StoresType
  <2>3. View(Now, c)' = View(st, c)
    BY <1>2, <2>2, NextView
  <2>4. CASE c \in affected
    BY <1>2, <2>1, <2>3, <2>4
  <2>5. CASE c \notin affected
    <3>1. applied[c] = View(Now, c)
      BY <1>1, <2>1 DEF AdaptersUpToDate
    <3>2. c # AtEngine
      BY <2>1, EngineAssumption
    <3>3. ASSUME NEW p \in Option PROVE Chosen(Now, c, p) = Chosen(st, c, p)
      BY <2>1, <2>5, <3>2 DEF Chosen, Own, Now, Stores, Felt
    <3>4. engine = "table" => (Table(Now, c) \in loaded <=> Table(st, c) \in st.open)
      <4> SUFFICES ASSUME engine = "table"
                   PROVE  Table(Now, c) \in loaded <=> Table(st, c) \in st.open
        OBVIOUS
      <4>1. "table-file" \in Option
        BY <1>1, OptionIs
      <4>2. Table(st, c) = Table(Now, c)
        BY <3>3, <4>1 DEF Table
      <4>3. Chosen(Now, c, "table-file") \in loaded \cup {NoTable, Unset}
        BY <1>1, <2>1, <3>2, <4>1 DEF NamedTablesAreOpen, Chosen, Own, Now, Stores
      <4>4. Table(Now, c) \in loaded \cup {NoTable}
        BY <4>3 DEF Table
      <4> QED BY <4>2, <4>4, NotATable DEF Felt, StoresType
    <3>5. View(Now, c) = View(st, c)
      <4>1. Now.open = loaded
        BY DEF Now, Stores
      <4>2. NoTable \notin Now.open \cup st.open
        BY <1>1, <4>1, NotATable DEF StoresType
      <4> QED BY <1>1, <3>3, <3>4, <4>1, <4>2, SameView
    <3> QED BY <1>2, <2>1, <2>3, <2>5, <3>1, <3>5
  <2> QED BY <2>4, <2>5
<1>6. NamedTablesAreOpen'
  BY <1>1, <1>2, <1>3 DEF NamedTablesAreOpen, Felt
<1>7. \A c \in Contexts \ live' : contextSet'[c] = EmptyStore'
  <2> SUFFICES ASSUME NEW c \in Contexts \ live PROVE st.own[c] = EmptyStore
    BY <1>2, <1>3
  <2>1. contextSet[c] = EmptyStore /\ c \notin affected
    BY DEF OptionsInv
  <2>2. st.own[c] \in Store /\ EmptyStore \in Store
    BY EmptyStoreType DEF StoresType
  <2>3. \A p \in Option : st.own[c][p] = EmptyStore[p]
    BY <2>1 DEF Felt
  <2> QED BY <2>2, <2>3 DEF Store
<1>8. \A c \in live' : "hangul-preedit" \in Option' /\ "delete" \notin client'[c] =>
        contextSet'[c]["hangul-preedit"] # "none"
  BY <1>1, <1>2, <1>3 DEF OptionsInv, Felt
<1> QED BY <1>4, <1>5, <1>6, <1>7, <1>8 DEF OptionsInv, AdaptersUpToDate

\* What LoadedBy opens.
LEMMA LoadedByType ==
  ASSUME loaded \subseteq Tables, NEW o, NEW v \in Values(o)
  PROVE  /\ LoadedBy(o, v) \in SUBSET Tables /\ loaded \subseteq LoadedBy(o, v)
         /\ LoadedBy(o, v) # loaded => o = "table-file"
         /\ o = "table-file" => v \in LoadedBy(o, v) \cup {NoTable, Unset}
BY DEF LoadedBy, Values

\* The four ways to change an option.
LEMMA ChangeKeeps ==
  ASSUME OptionsInv, NEW o \in Option, NEW v \in Values(o)
  PROVE  /\ EngineSet(o, v) => OptionsInv'
         /\ EngineReset(o) => OptionsInv'
         /\ \A c \in Contexts : ContextSet(c, o, v) \/ ContextReset(c, o) => OptionsInv'
<1>1. /\ engine \in Engines /\ live \subseteq Contexts /\ loaded \subseteq Tables
      /\ engineSet \in Store /\ contextSet \in [Contexts -> Store]
      /\ NamedTablesAreOpen
  BY DEF OptionsInv, OptionsTypeOK
<1>2. v \in Value /\ Unset \in Value
  BY ValuesType DEF Value
<1>3. o = "table-file" =>
        /\ engineSet[o] \in loaded \cup {NoTable, Unset}
        /\ \A c \in live : contextSet[c][o] \in loaded \cup {NoTable, Unset}
  BY <1>1 DEF NamedTablesAreOpen
<1>4. o = "hangul-preedit" =>
        \A c \in live : "delete" \notin client[c] => contextSet[c][o] # "none"
  BY DEF OptionsInv
<1>5. /\ LoadedBy(o, v) \in SUBSET Tables /\ loaded \subseteq LoadedBy(o, v)
      /\ LoadedBy(o, v) # loaded => o = "table-file"
      /\ o = "table-file" => v \in LoadedBy(o, v) \cup {NoTable, Unset}
  BY <1>1, LoadedByType
<1>6. /\ Affected(o) \in SUBSET live
      /\ \A c \in live \ Affected(o) : contextSet[c][o] # Unset
  BY DEF Affected
<1>7. ASSUME EngineSet(o, v) PROVE OptionsInv'
  <2> DEFINE st == Stores([engineSet EXCEPT ![o] = v], contextSet, LoadedBy(o, v))
  <2>1. /\ st.engine = [engineSet EXCEPT ![o] = v] /\ st.own = contextSet
        /\ st.open = LoadedBy(o, v)
    BY DEF Stores
  <2>2. st \in StoresType
    BY <1>1, <1>2, <1>5 DEF Stores, StoresType, Store
  <2>3. CommitChange(st, Affected(o), o)
    BY <1>7 DEF EngineSet
  <2> HIDE DEF st
  <2>4. st.engine[o] = v /\ \A p \in Option : p # o => st.engine[p] = engineSet[p]
    BY <1>1, <2>1 DEF Store
  <2>5. Felt(st, Affected(o), o)
    BY <1>3, <1>4, <1>5, <1>6, <2>1, <2>4 DEF Felt
  <2> QED BY <1>6, <2>2, <2>3, <2>5, CommitKeeps
<1>8. ASSUME EngineReset(o) PROVE OptionsInv'
  <2> DEFINE st == Stores([engineSet EXCEPT ![o] = Unset], contextSet, loaded)
  <2>1. /\ st.engine = [engineSet EXCEPT ![o] = Unset] /\ st.own = contextSet
        /\ st.open = loaded
    BY DEF Stores
  <2>2. st \in StoresType
    BY <1>1, <1>2 DEF Stores, StoresType, Store
  <2>3. CommitChange(st, Affected(o), o)
    BY <1>8 DEF EngineReset
  <2> HIDE DEF st
  <2>4. st.engine[o] = Unset /\ \A p \in Option : p # o => st.engine[p] = engineSet[p]
    BY <1>1, <2>1 DEF Store
  <2>5. Felt(st, Affected(o), o)
    BY <1>1, <1>3, <1>4, <1>6, <2>1, <2>4 DEF Felt
  <2> QED BY <1>6, <2>2, <2>3, <2>5, CommitKeeps
<1>9. ASSUME NEW c \in Contexts, ContextSet(c, o, v) PROVE OptionsInv'
  <2> DEFINE st == Stores(engineSet, [contextSet EXCEPT ![c][o] = v], LoadedBy(o, v))
  <2>1. /\ st.engine = engineSet /\ st.own = [contextSet EXCEPT ![c][o] = v]
        /\ st.open = LoadedBy(o, v)
    BY DEF Stores
  <2>2. st \in StoresType
    BY <1>1, <1>2, <1>5 DEF Stores, StoresType, Store
  <2>3. CommitChange(st, {c}, o) /\ c \in live /\ AcceptsClient(c, o, v)
    BY <1>9 DEF ContextSet
  <2> HIDE DEF st
  <2>4. /\ st.own[c][o] = v
        /\ \A p \in Option : p # o => st.own[c][p] = contextSet[c][p]
        /\ \A d \in Contexts : d # c => st.own[d] = contextSet[d]
    BY <1>1, <2>1 DEF Store
  <2>5. o = "hangul-preedit" =>
          \A d \in live : "delete" \notin client[d] => st.own[d][o] # "none"
    BY <1>1, <1>4, <2>3, <2>4 DEF AcceptsClient
  <2>6. o = "table-file" =>
          \A d \in live : st.own[d][o] \in st.open \cup {NoTable, Unset}
    BY <1>1, <1>3, <1>5, <2>1, <2>4
  <2>7. Felt(st, {c}, o)
    BY <1>3, <1>5, <2>1, <2>4, <2>5, <2>6 DEF Felt
  <2> QED BY <2>2, <2>3, <2>7, CommitKeeps
<1>10. ASSUME NEW c \in Contexts, ContextReset(c, o) PROVE OptionsInv'
  <2> DEFINE st == Stores(engineSet, [contextSet EXCEPT ![c][o] = Unset], loaded)
  <2>1. /\ st.engine = engineSet /\ st.own = [contextSet EXCEPT ![c][o] = Unset]
        /\ st.open = loaded
    BY DEF Stores
  <2>2. st \in StoresType
    BY <1>1, <1>2 DEF Stores, StoresType, Store
  <2>3. CommitChange(st, {c}, o) /\ c \in live
    BY <1>10 DEF ContextReset
  <2> HIDE DEF st
  <2>4. /\ st.own[c][o] = Unset
        /\ \A p \in Option : p # o => st.own[c][p] = contextSet[c][p]
        /\ \A d \in Contexts : d # c => st.own[d] = contextSet[d]
    BY <1>1, <2>1 DEF Store
  <2>5. o = "hangul-preedit" =>
          \A d \in live : "delete" \notin client[d] => st.own[d][o] # "none"
    BY <1>1, <1>4, <2>4 DEF Unset
  <2>6. o = "table-file" =>
          \A d \in live : st.own[d][o] \in st.open \cup {NoTable, Unset}
    BY <1>1, <1>3, <2>1, <2>4
  <2>7. Felt(st, {c}, o)
    BY <1>1, <1>3, <2>1, <2>4, <2>5, <2>6 DEF Felt
  <2> QED BY <2>2, <2>3, <2>7, CommitKeeps
<1> QED BY <1>7, <1>8, <1>9, <1>10

\* Copying what a context resolves into its own store changes nothing it
\* resolves, wherever the copying stops.
LEMMA IsolateView ==
  ASSUME OptionsInv, NEW c \in Contexts, Isolate(c)
  PROVE  /\ \A d \in live : View(Now, d)' = View(Now, d)
         /\ contextSet' \in [Contexts -> Store]
         /\ \A d \in Contexts : d # c => contextSet'[d] = contextSet[d]
         /\ \A o \in Option : \/ contextSet'[c][o] = contextSet[c][o]
                              \/ /\ contextSet[c][o] = Unset
                                 /\ contextSet'[c][o] = Effective(Now, c, o)
<1>1. /\ engine \in Engines /\ live \subseteq Contexts /\ loaded \subseteq Tables
      /\ engineSet \in Store /\ contextSet \in [Contexts -> Store]
      /\ c \in live /\ c # AtEngine
  BY EngineAssumption DEF OptionsInv, OptionsTypeOK, Isolate
<1>2. PICK n \in 1..Len(Inventory) :
        contextSet' = [contextSet EXCEPT ![c] =
          [o \in Option |->
             IF @[o] = Unset /\ o \in ToSet(SubSeq(Inventory, 1, n))
             THEN Copied(c, o) ELSE @[o]]]
  BY DEF Isolate
<1> DEFINE some == ToSet(SubSeq(Inventory, 1, n))
<1>3. contextSet' = [contextSet EXCEPT ![c] =
        [o \in Option |-> IF contextSet[c][o] = Unset /\ o \in some
                          THEN Copied(c, o) ELSE contextSet[c][o]]]
  BY <1>2
<1> HIDE DEF some
<1>4. \A o \in Option : Effective(Now, c, o) \in Value
  <2>1. Now \in StoresType
    BY NowType DEF OptionsInv
  <2> QED BY <2>1, ResolvedType DEF Effective, Value
<1>5. [o \in Option |-> IF contextSet[c][o] = Unset /\ o \in some
                        THEN Copied(c, o) ELSE contextSet[c][o]] \in Store
  <2>1. \A o \in Option : contextSet[c][o] \in Value
    BY <1>1 DEF Store
  <2> QED BY <1>4, <2>1 DEF Store, Copied
<1>6. /\ contextSet' \in [Contexts -> Store]
      /\ \A d \in Contexts : d # c => contextSet'[d] = contextSet[d]
      /\ \A o \in Option : \/ contextSet'[c][o] = contextSet[c][o]
                           \/ /\ contextSet[c][o] = Unset
                              /\ contextSet'[c][o] = Effective(Now, c, o)
  <2>1. contextSet'[c] = [o \in Option |-> IF contextSet[c][o] = Unset /\ o \in some
                                           THEN Copied(c, o) ELSE contextSet[c][o]]
    BY <1>1, <1>3
  <2> QED BY <1>1, <1>3, <1>5, <2>1 DEF Copied
<1> DEFINE st == Stores(engineSet, contextSet', loaded)
<1>7. st.engine = engineSet /\ st.own = contextSet' /\ st.open = loaded
  BY DEF Stores
<1>8. st = Stores(engineSet', contextSet', loaded')
  BY DEF Isolate
<1>9. UNCHANGED <<engine, client, live, loaded>>
  BY DEF Isolate
<1> HIDE DEF st
<1>10. ASSUME NEW d \in live PROVE View(Now, d)' = View(Now, d)
  <2>1. View(Now, d)' = View(st, d)
    BY <1>8, <1>9, NextView
  <2>2. CASE d # c
    <3>1. d # AtEngine /\ d \in Contexts
      BY <1>1, EngineAssumption
    <3>2. \A o \in Option : Chosen(Now, d, o) = Chosen(st, d, o)
      BY <1>6, <1>7, <2>2, <3>1 DEF Chosen, Own, Now, Stores
    <3>3. Now.open = loaded /\ NoTable \notin Now.open \cup st.open
      BY <1>1, <1>7, NotATable DEF Now, Stores
    <3>4. engine = "table" => Table(Now, d) = Table(st, d)
      BY <1>1, <3>2, OptionIs DEF Table
    <3>5. View(Now, d) = View(st, d)
      BY <1>1, <1>7, <3>2, <3>3, <3>4, SameView
    <3> QED BY <2>1, <3>5
  <2>3. CASE d = c
    <3>1. ASSUME NEW o \in Option
          PROVE  /\ st.own[c][o] = Unset => Chosen(st, c, o) = Chosen(Now, c, o)
                 /\ st.own[c][o] # Unset =>
                      /\ Chosen(st, c, o) = st.own[c][o]
                      /\ \/ Chosen(Now, c, o) = st.own[c][o]
                         \/ st.own[c][o] = Effective(Now, c, o)
      BY <1>1, <1>6, <1>7, <3>1 DEF Chosen, Own, Now, Stores
    <3>2. engine = "table" => Table(st, c) = Table(Now, c)
      <4> SUFFICES ASSUME engine = "table" PROVE Table(st, c) = Table(Now, c)
        OBVIOUS
      <4>1. "table-file" \in Option
        BY <1>1, OptionIs
      <4>2. Effective(Now, c, "table-file") = IF Chosen(Now, c, "table-file") # Unset
                                             THEN Chosen(Now, c, "table-file")
                                             ELSE NoTable
        BY DEF Effective, Resolved, Declared, Default
      <4>3. \/ Chosen(st, c, "table-file") = Chosen(Now, c, "table-file")
            \/ /\ Chosen(Now, c, "table-file") = Unset
               /\ Chosen(st, c, "table-file") = NoTable
        BY <3>1, <4>1, <4>2
      <4> QED BY <4>3 DEF Table
    <3>3. Table(st, c) = Table(Now, c)
      BY <1>1, <3>2 DEF Table, Engines
    <3>4. ASSUME NEW o \in Option PROVE Effective(st, c, o) = Effective(Now, c, o)
      <4>1. Declared(st, c, o) = Declared(Now, c, o)
        BY <1>7, <3>3 DEF Declared, Now, Stores
      <4>2. CASE Chosen(st, c, o) = Chosen(Now, c, o)
        BY <4>1, <4>2 DEF Effective, Resolved
      <4>3. CASE Chosen(st, c, o) # Chosen(Now, c, o)
        <5>1. /\ st.own[c][o] # Unset /\ Chosen(st, c, o) = Effective(Now, c, o)
          BY <3>1, <4>3
        <5>2. Resolved(st, c, o) = Effective(Now, c, o)
          BY <3>1, <5>1 DEF Resolved
        <5> QED BY <5>2 DEF Effective
      <4> QED BY <4>2, <4>3
    <3> QED BY <2>1, <2>3, <3>4 DEF View
  <2> QED BY <2>2, <2>3
<1> QED BY <1>6, <1>10

LEMMA IsolateKeeps ==
  ASSUME OptionsInv, NEW c \in Contexts, Isolate(c)
  PROVE  OptionsInv'
<1>1. /\ engine \in Engines /\ live \subseteq Contexts /\ loaded \subseteq Tables
      /\ c \in live /\ c # AtEngine /\ NamedTablesAreOpen
  BY EngineAssumption DEF OptionsInv, OptionsTypeOK, Isolate
<1>2. /\ UNCHANGED <<engine, live, client, engineSet, loaded, composing, applied>>
  BY DEF Isolate
<1>3. /\ \A d \in live : View(Now, d)' = View(Now, d)
      /\ contextSet' \in [Contexts -> Store]
      /\ \A d \in Contexts : d # c => contextSet'[d] = contextSet[d]
      /\ \A o \in Option : \/ contextSet'[c][o] = contextSet[c][o]
                           \/ /\ contextSet[c][o] = Unset
                              /\ contextSet'[c][o] = Effective(Now, c, o)
  BY IsolateView
<1>4. Option' = Option /\ Store' = Store /\ EmptyStore' = EmptyStore
  BY <1>2 DEF Option, Inventory, Store, EmptyStore
<1>5. OptionsTypeOK'
  BY <1>2, <1>3, <1>4 DEF OptionsInv, OptionsTypeOK
<1>6. AdaptersUpToDate'
  BY <1>2, <1>3 DEF OptionsInv, AdaptersUpToDate
<1>7. NamedTablesAreOpen'
  <2> SUFFICES ASSUME "table-file" \in Option
               PROVE  contextSet'[c]["table-file"] \in loaded \cup {NoTable, Unset}
    BY <1>1, <1>2, <1>3, <1>4 DEF NamedTablesAreOpen
  <2>1. Effective(Now, c, "table-file") \in {Chosen(Now, c, "table-file"), NoTable}
    BY DEF Effective, Resolved, Declared, Default
  <2>2. Chosen(Now, c, "table-file") \in loaded \cup {NoTable, Unset}
    BY <1>1 DEF NamedTablesAreOpen, Chosen, Own, Now, Stores
  <2>3. contextSet[c]["table-file"] \in loaded \cup {NoTable, Unset}
    BY <1>1 DEF NamedTablesAreOpen
  <2> QED BY <1>3, <2>1, <2>2, <2>3
<1>8. \A d \in Contexts \ live' : contextSet'[d] = EmptyStore'
  BY <1>1, <1>2, <1>3, <1>4 DEF OptionsInv
<1>9. \A d \in live' : "hangul-preedit" \in Option' /\ "delete" \notin client'[d] =>
        contextSet'[d]["hangul-preedit"] # "none"
  <2> SUFFICES ASSUME NEW d \in live, "hangul-preedit" \in Option,
                      "delete" \notin client[d]
               PROVE  contextSet'[d]["hangul-preedit"] # "none"
    BY <1>2, <1>4
  <2>1. contextSet[d]["hangul-preedit"] # "none"
    BY DEF OptionsInv
  <2>2. Effective(Now, d, "hangul-preedit") # "none"
    BY DEF Effective
  <2> QED BY <1>1, <1>3, <2>1, <2>2
<1> QED BY <1>5, <1>6, <1>7, <1>8, <1>9 DEF OptionsInv

\* A context starts from what its engine resolves, which is what it resolves too:
\* nothing is set on it, and its client can do what the engine's mode asks.
LEMMA CreateKeeps ==
  ASSUME OptionsInv, NEW c \in Contexts, NEW callbacks \in Clients[engine],
         Create(c, callbacks)
  PROVE  OptionsInv'
<1>1. /\ engine \in Engines /\ live \subseteq Contexts /\ loaded \subseteq Tables
      /\ c \notin live /\ c # AtEngine /\ NamedTablesAreOpen /\ OptionsTypeOK
      /\ contextSet \in [Contexts -> Store] /\ client \in [Contexts -> SUBSET {"delete", "changed"}]
      /\ applied \in [Contexts -> Store]
  BY EngineAssumption DEF OptionsInv, OptionsTypeOK, Create
<1>2. /\ UNCHANGED <<engine, engineSet, contextSet, loaded, composing>>
      /\ live' = live \cup {c}
      /\ client' = [client EXCEPT ![c] = callbacks]
      /\ applied' = [applied EXCEPT ![c] = [o \in Option |-> Resolved(Now, AtEngine, o)]]
  BY DEF Create
<1>3. contextSet[c] = EmptyStore
  BY <1>1 DEF OptionsInv
<1>4. Option' = Option /\ Store' = Store /\ EmptyStore' = EmptyStore
  BY <1>2 DEF Option, Inventory, Store, EmptyStore
<1>5. callbacks \in SUBSET {"delete", "changed"}
  BY <1>1, EngineAssumption
<1>6. \A o \in Option : Resolved(Now, AtEngine, o) \in Value
  BY <1>1, NowType, ResolvedType
<1>7. OptionsTypeOK'
  <2>1. [o \in Option |-> Resolved(Now, AtEngine, o)] \in Store
    BY <1>6 DEF Store
  <2> QED BY <1>1, <1>2, <1>4, <1>5, <2>1 DEF OptionsTypeOK
<1>8. ASSUME NEW d \in live' PROVE applied'[d] = View(Now, d)'
  <2> DEFINE st == Stores(engineSet, contextSet, loaded)
  <2>1. st = Now /\ st = Stores(engineSet', contextSet', loaded')
    BY <1>2 DEF Now
  <2> HIDE DEF st
  <2>2. CASE d # c
    <3>1. d \in live /\ d \in Contexts /\ client'[d] = client[d] /\ applied'[d] = applied[d]
      BY <1>1, <1>2, <2>2
    <3>2. View(Now, d)' = View(Now, d)
      BY <1>2, <2>1, <3>1, NextView
    <3> QED BY <3>1, <3>2 DEF OptionsInv, AdaptersUpToDate
  <2>3. CASE d = c
    <3>1. Now' = Now
      BY <1>2 DEF Now, Stores
    <3>2. ASSUME NEW o \in Option
          PROVE  Resolved(Now, c, o)' = Resolved(Now, AtEngine, o)
      <4>1. \A p \in Option : Chosen(Now, c, p) = Chosen(Now, AtEngine, p)
        BY <1>1, <1>3 DEF Chosen, Own, Now, Stores
      <4>2. Table(Now, c) = Table(Now, AtEngine)
        BY <1>1, <4>1, OptionIs DEF Table, Engines
      <4>3. Resolved(Now, c, o) = Resolved(Now, AtEngine, o)
        BY <4>1, <4>2 DEF Resolved, Declared
      <4>4. Resolved(Now, c, o)' = Resolved(Now, c, o)
        BY <1>2, <1>4, <3>1 DEF Resolved, Declared, Table, Chosen, Own
      <4> QED BY <4>3, <4>4
    <3>3. ASSUME NEW o \in Option
          PROVE  Effective(Now, c, o)' = Resolved(Now, AtEngine, o)
      <4>1. client'[c] = callbacks
        BY <1>1, <1>2
      <4>2. o = "hangul-preedit" =>
              (Resolved(Now, AtEngine, o) = "none" => "delete" \in callbacks)
        BY DEF Create
      <4> QED BY <3>2, <4>1, <4>2 DEF Effective
    <3>4. View(Now, c)' = [o \in Option |-> Resolved(Now, AtEngine, o)]
      BY <1>4, <3>3 DEF View
    <3> QED BY <1>1, <1>2, <2>3, <3>4
  <2> QED BY <2>2, <2>3
<1>9. NamedTablesAreOpen'
  BY <1>1, <1>2, <1>3, <1>4 DEF NamedTablesAreOpen, EmptyStore
<1>10. \A d \in Contexts \ live' : contextSet'[d] = EmptyStore'
  BY <1>2, <1>4 DEF OptionsInv
<1>11. \A d \in live' : "hangul-preedit" \in Option' /\ "delete" \notin client'[d] =>
         contextSet'[d]["hangul-preedit"] # "none"
  BY <1>1, <1>2, <1>3, <1>4 DEF OptionsInv, EmptyStore, Unset
<1> QED BY <1>7, <1>8, <1>9, <1>10, <1>11 DEF OptionsInv, AdaptersUpToDate

\* A destroyed context leaves nothing behind for the next under its handle.
LEMMA DestroyKeeps ==
  ASSUME OptionsInv, NEW c \in Contexts, Destroy(c)
  PROVE  OptionsInv'
<1>1. /\ OptionsTypeOK /\ NamedTablesAreOpen /\ live \subseteq Contexts
      /\ contextSet \in [Contexts -> Store] /\ applied \in [Contexts -> Store]
      /\ client \in [Contexts -> SUBSET {"delete", "changed"}]
  BY DEF OptionsInv, OptionsTypeOK
<1>2. /\ UNCHANGED <<engine, engineSet, loaded>>
      /\ live' = live \ {c}
      /\ client' = [client EXCEPT ![c] = {}]
      /\ contextSet' = [contextSet EXCEPT ![c] = EmptyStore]
      /\ applied' = [applied EXCEPT ![c] = EmptyStore]
      /\ composing' = [composing EXCEPT ![c] = FALSE]
  BY DEF Destroy
<1>3. Option' = Option /\ Store' = Store /\ EmptyStore' = EmptyStore
  BY <1>2 DEF Option, Inventory, Store, EmptyStore
<1>4. OptionsTypeOK'
  BY <1>1, <1>2, <1>3, EmptyStoreType DEF OptionsTypeOK
<1>5. ASSUME NEW d \in live' PROVE applied'[d] = View(Now, d)'
  <2>1. /\ d \in live /\ d \in Contexts /\ d # AtEngine
        /\ client'[d] = client[d] /\ applied'[d] = applied[d]
        /\ contextSet'[d] = contextSet[d]
    BY <1>1, <1>2, EngineAssumption
  <2> DEFINE st == Stores(engineSet, contextSet', loaded)
  <2>2. st.engine = engineSet /\ st.own = contextSet' /\ st.open = loaded
    BY DEF Stores
  <2>3. st = Stores(engineSet', contextSet', loaded')
    BY <1>2
  <2> HIDE DEF st
  <2>4. View(Now, d)' = View(st, d)
    BY <1>2, <2>1, <2>3, NextView
  <2>5. \A o \in Option : Chosen(Now, d, o) = Chosen(st, d, o)
    BY <2>1, <2>2 DEF Chosen, Own, Now, Stores
  <2>6. Now.open = loaded /\ NoTable \notin Now.open \cup st.open
    BY <1>1, <2>2, NotATable DEF Now, Stores, OptionsTypeOK
  <2>7. engine = "table" => Table(Now, d) = Table(st, d)
    BY <1>1, <2>5, OptionIs DEF Table, OptionsTypeOK
  <2>8. View(Now, d) = View(st, d)
    BY <1>1, <2>2, <2>5, <2>6, <2>7, SameView DEF OptionsTypeOK
  <2> QED BY <2>1, <2>4, <2>8 DEF OptionsInv, AdaptersUpToDate
<1>6. NamedTablesAreOpen'
  BY <1>1, <1>2, <1>3 DEF NamedTablesAreOpen
<1>7. \A d \in Contexts \ live' : contextSet'[d] = EmptyStore'
  BY <1>1, <1>2, <1>3 DEF OptionsInv
<1>8. \A d \in live' : "hangul-preedit" \in Option' /\ "delete" \notin client'[d] =>
        contextSet'[d]["hangul-preedit"] # "none"
  BY <1>1, <1>2, <1>3 DEF OptionsInv
<1> QED BY <1>4, <1>5, <1>6, <1>7, <1>8 DEF OptionsInv, AdaptersUpToDate

\* Steps that change no option.
LEMMA StillKeeps ==
  ASSUME OptionsInv, composing' \in [Contexts -> BOOLEAN],
         UNCHANGED <<engine, live, client, engineSet, contextSet, loaded, applied>>
  PROVE  OptionsInv'
<1>1. Option' = Option /\ Store' = Store /\ EmptyStore' = EmptyStore
  BY DEF Option, Inventory, Store, EmptyStore
<1>2. OptionsTypeOK'
  BY <1>1 DEF OptionsInv, OptionsTypeOK
<1>3. ASSUME NEW d \in live PROVE View(Now, d)' = View(Now, d)
  <2>1. Now = Stores(engineSet', contextSet', loaded')
    BY DEF Now
  <2> QED BY <2>1, NextView
<1> QED BY <1>1, <1>2, <1>3 DEF OptionsInv, AdaptersUpToDate, NamedTablesAreOpen

LEMMA OptionsNext == OptionsInv /\ [Next]_vars => OptionsInv'
<1> SUFFICES ASSUME OptionsInv, [Next]_vars PROVE OptionsInv'
  OBVIOUS
<1>1. ASSUME NEW o \in Option, NEW v \in Values(o), EngineSet(o, v) PROVE OptionsInv'
  BY <1>1, ChangeKeeps
<1>2. ASSUME NEW o \in Option, EngineReset(o) PROVE OptionsInv'
  <2>1. Default(o) \in Values(o)
    BY DEF Default, Values
  <2> QED BY <1>2, <2>1, ChangeKeeps
<1>3. ASSUME NEW c \in Contexts, NEW o \in Option, NEW v \in Values(o), ContextSet(c, o, v)
      PROVE  OptionsInv'
  BY <1>3, ChangeKeeps
<1>4. ASSUME NEW c \in Contexts, NEW o \in Option, ContextReset(c, o) PROVE OptionsInv'
  <2>1. Default(o) \in Values(o)
    BY DEF Default, Values
  <2> QED BY <1>4, <2>1, ChangeKeeps
<1>5. ASSUME NEW c \in Contexts, NEW callbacks \in Clients[engine], Create(c, callbacks)
      PROVE  OptionsInv'
  BY <1>5, CreateKeeps
<1>6. ASSUME NEW c \in Contexts, Isolate(c) PROVE OptionsInv'
  BY <1>6, IsolateKeeps
<1>7. ASSUME NEW c \in Contexts, Destroy(c) PROVE OptionsInv'
  BY <1>7, DestroyKeeps
<1>8. ASSUME NEW c \in Contexts, Compose(c) PROVE OptionsInv'
  <2>1. composing' \in [Contexts -> BOOLEAN]
    <3>1. composing \in [Contexts -> BOOLEAN]
      BY DEF OptionsInv, OptionsTypeOK
    <3>2. composing' = [composing EXCEPT ![c] = ~composing[c]]
      BY <1>8 DEF Compose
    <3> QED BY <3>1, <3>2
  <2> QED BY <1>8, <2>1, StillKeeps DEF Compose
<1>9. CASE UNCHANGED vars
  <2>1. composing' \in [Contexts -> BOOLEAN]
    BY <1>9 DEF vars, OptionsInv, OptionsTypeOK
  <2> QED BY <1>9, <2>1, StillKeeps DEF vars
<1> QED BY <1>1, <1>2, <1>3, <1>4, <1>5, <1>6, <1>7, <1>8, <1>9 DEF Next

LEMMA OptionsInductive == Spec => []OptionsInv
BY OptionsInit, OptionsNext, PTL DEF Spec

-------------------------------------------------------------------------------
(* What the store owes the contexts.                                       *)

\* No value a context resolves moves without its adapter following: by a change
\* at either level, of the table under other options, or of what is open
\* (commit_change).
THEOREM AdaptersFollow == Spec => []AdaptersUpToDate
<1>1. OptionsInv => AdaptersUpToDate
  BY DEF OptionsInv
<1> QED BY <1>1, OptionsInductive, PTL

\* Every table named at either level is open (prepare_string).
THEOREM TablesOpen == Spec => []NamedTablesAreOpen
<1>1. OptionsInv => NamedTablesAreOpen
  BY DEF OptionsInv
<1> QED BY <1>1, OptionsInductive, PTL

\* No context works in, or stores, the mode its client cannot follow
\* (check_client_capability, pathime_context_isolate_options).
THEOREM DeletionNeedsClient == Spec => []ModeNeedsDelete
<1>1. OptionsInv => ModeNeedsDelete
  BY DEF OptionsInv, ModeNeedsDelete, Effective
<1> QED BY <1>1, OptionsInductive, PTL

\* Isolating a context changes nothing it resolves and nothing it had set,
\* wherever memory runs out (pathime_context_isolate_options).
THEOREM IsolationSafe == Spec => IsolationIsInert
<1>1. OptionsInv /\ [Next]_vars =>
        [\A c \in live : announced' = {} /\ Isolate(c) =>
           /\ View(Now, c)' = View(Now, c)
           /\ \A o \in Option : contextSet[c][o] # Unset =>
                contextSet'[c][o] = contextSet[c][o]]_vars
  <2> SUFFICES ASSUME OptionsInv, NEW c \in live, Isolate(c)
               PROVE  /\ View(Now, c)' = View(Now, c)
                      /\ \A o \in Option : contextSet[c][o] # Unset =>
                           contextSet'[c][o] = contextSet[c][o]
    OBVIOUS
  <2>1. c \in Contexts
    BY DEF OptionsInv, OptionsTypeOK
  <2> QED BY <2>1, IsolateView
<1> QED BY <1>1, OptionsInductive, PTL DEF Spec, IsolationIsInert
================================================================================
