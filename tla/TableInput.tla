------------------------------- MODULE TableInput ------------------------------
(***************************************************************************)
(* The table adapter (src/engines/table/table_backend.cc) in one input     *)
(* context: a run of keys looked up in the table in force, a tail that     *)
(* matches nothing, segments staged where the table's rules cut the run,   *)
(* and what is learned of the client's choices.                            *)
(*                                                                         *)
(* Other contexts of the engine share the tables and what was learned.     *)
(***************************************************************************)
EXTENDS PunctuatedContext, TableData

CONSTANTS
  Tables,      \* the names PATHIME_OPT_TABLE_FILE may take, all of which load
  none,        \* the empty name: no table
  Database,    \* per table [props, rows, prompts]
  Keys,        \* the printable keys typed
  space,       \* the convert key
  Settings,    \* the option values this client may choose
  Documents,   \* what may stand left of the caret when more is typed (bound)
  MaxRun,      \* bound: keys composed at which no more is typed
  MaxLearned   \* bound: selections learned, after which none is made

Options ==
  [table : Tables \cup {none}, autoCommit : BOOLEAN, autoSelect : BOOLEAN,
   singleChar : BOOLEAN, invalid : {"candidate", "raw"}, learning : BOOLEAN,
   variant : {"simplified_only", "traditional_only", "simplified_first",
              "traditional_first", "all"},
   latin : Width, punctuation : Width, simplified : BOOLEAN, cap : Nat \ {0}]

ASSUME TableInputAssumption ==
  /\ none \notin Tables
  /\ \A t \in Tables : /\ Database[t].props \in Properties
                       /\ Database[t].rows \in Seq(Row)
                       /\ DOMAIN Database[t].prompts \subseteq Scalar
                       /\ \A key \in DOMAIN Database[t].prompts : Database[t].prompts[key] \in Text
  /\ space \in Scalar /\ Keys \subseteq Scalar \ {space}
  /\ Settings \subseteq Options /\ Documents \subseteq Text
  /\ MaxRun \in Nat /\ MaxLearned \in Nat

VARIABLES
  value,      \* table_value_: the name table_ was loaded from
  valid,      \* keys_valid_: the run that still matches something
  invalid,    \* keys_invalid_: what was typed past the last match
  segments,   \* segments_: what was staged, as [keys, phrase]
  matches,    \* matches_: the whole list of the run, in order
  cursor,     \* cursor_: the hovered one
  users,      \* per table: the rows of its user database, shared by all contexts
  options     \* the options as resolved for this context

tableVars == <<value, valid, invalid, segments, matches, cursor, users, options>>
vars == <<contextVars, punctuation, tableVars>>

Init ==
  /\ ContextInit /\ callbacks = {"changed"}
  /\ options \in Settings
  /\ value = none
  /\ valid = <<>> /\ invalid = <<>> /\ segments = <<>>
  /\ matches = <<>> /\ cursor = 0
  /\ users = [t \in Tables |-> <<>>]
  /\ punctuation = FreshPunctuation

-------------------------------------------------------------------------------
(* One call in progress.                                                   *)

Enter ==
  [model |-> model, out |-> NoOutput, value |-> value, valid |-> valid,
   invalid |-> invalid, segments |-> segments, matches |-> matches,
   cursor |-> cursor, users |-> users, p |-> punctuation, options |-> options]

HasTable(st) == st.value # none

Props(st) == Database[st.value].props

IsCjk(st) == HasTable(st) /\ Props(st).cjk

ClearState(st) ==
  [st EXCEPT !.valid = <<>>, !.invalid = <<>>, !.segments = <<>>,
             !.matches = <<>>, !.cursor = 0]

\* sync_table
SyncTable(st) ==
  IF st.options.table = st.value THEN st
  ELSE [ClearState(st) EXCEPT !.value = st.options.table]

Staged(st) == FlattenSeq([i \in DOMAIN st.segments |-> st.segments[i].phrase])

TypedRun(st) == st.valid \o st.invalid

\* displayed_run: a key is shown as its prompt as long as it matches.
DisplayedRun(st) ==
  LET prompts == IF HasTable(st) THEN Database[st.value].prompts ELSE <<>>
  IN FlattenSeq([i \in DOMAIN st.valid |->
                   IF st.valid[i] \in DOMAIN prompts THEN prompts[st.valid[i]]
                   ELSE <<st.valid[i]>>])
       \o st.invalid

Narrowed(st, list) ==
  IF st.options.singleChar THEN Only(list, {m \in Range(list) : Len(m.phrase) = 1}) ELSE list

Found(st) ==
  IF ~HasTable(st) \/ st.valid = <<>> THEN <<>>
  ELSE LET p == Props(st)
       IN Narrowed(st, RankCandidates(p, st.valid, st.options.variant,
            Lookup(p, Database[st.value].rows,
                   IF p.adjusts THEN st.users[st.value] ELSE <<>>, st.valid)))

\* refresh_matches
RefreshMatches(st) == [st EXCEPT !.matches = Found(st), !.cursor = 0]

Phrases(list) == [i \in DOMAIN list |-> list[i].phrase]

Publish(st) ==
  [st EXCEPT !.model = [settled    |-> Staged(st),
                        active     |-> DisplayedRun(st),
                        tail       |-> <<>>,
                        candidates |-> Phrases(st.matches),
                        cursor     |-> st.cursor]]

Composing(st) == st.valid # <<>> \/ st.invalid # <<>> \/ st.segments # <<>>

\* Mutation: the first candidate, wherever the cursor is.
HoveredFirst(st) == st.matches[1]

Hovered(st) == st.matches[IF st.cursor < Len(st.matches) THEN st.cursor + 1 ELSE 1]

-------------------------------------------------------------------------------
(* Transitions.                                                            *)

\* learn
Learn(users_, st, keys, phrase) ==
  IF /\ Props(st).adjusts /\ st.options.learning
     /\ keys # <<>> /\ phrase # <<>>
     /\ Range(phrase) \cap Props(st).unchecked = {}
  THEN [users_ EXCEPT ![st.value] = RecordSelection(@, keys, phrase)]
  ELSE users_

\* commit_phrase: what was staged and the text; chosen is the run the text was
\* chosen for, or <<>> where it was not chosen.
\* Mutation: what was staged before the last choice is not learned.
LearnedLast(st, text, chosen) ==
  IF chosen = <<>> THEN st.users ELSE Learn(st.users, st, chosen, text)

Learned(st, text, chosen) ==
  LET staged[n \in 0..Len(st.segments)] ==
        IF n = 0 THEN st.users
        ELSE Learn(staged[n - 1], st, st.segments[n].keys, st.segments[n].phrase)
      all == staged[Len(st.segments)]
  IN IF chosen = <<>> THEN all ELSE Learn(all, st, chosen, text)

CommitPhrase(st, text, chosen) ==
  ClearState([st EXCEPT !.out.commit = @ \o Staged(st) \o text,
                        !.users = Learned(st, text, chosen),
                        !.p = NoteCommit(@, IF text = <<>> THEN Staged(st) ELSE text)])

CommitHovered(st) == CommitPhrase(st, Hovered(st).phrase, st.valid)

CommitTyped(st) == CommitPhrase(st, TypedRun(st), <<>>)

\* stage_segment, of the hovered candidate
\* Mutation: the staged phrase forgets its keys.
StageSegmentKeyless(st) ==
  RefreshMatches([st EXCEPT
    !.segments = Append(@, [keys |-> <<>>, phrase |-> Hovered(st).phrase]),
    !.valid = <<>>, !.invalid = <<>>])

StageSegment(st) ==
  RefreshMatches([st EXCEPT
    !.segments = Append(@, [keys |-> st.valid, phrase |-> Hovered(st).phrase]),
    !.valid = <<>>, !.invalid = <<>>])

AtMax(st) == Len(st.valid) >= Props(st).max

\* Has the run reached a length at which it is cut?
Bounded(st) == st.invalid = <<>> /\ st.valid # <<>> /\ st.matches # <<>>

Extended(st, key) == RefreshMatches([st EXCEPT !.valid = Append(@, key)])

Missed(st, key) == [st EXCEPT !.invalid = Append(@, key), !.cursor = 0]

\* A lone exact match may commit at once.
Matched(st) ==
  IF Len(st.matches) = 1 /\ st.options.autoCommit /\ st.matches[1].keys = st.valid
  THEN CommitPhrase(st, st.matches[1].phrase, st.valid)
  ELSE st

\* A key with nothing typed before it.
Begin(st, key) ==
  IF Extended(st, key).matches # <<>> THEN Matched(Extended(st, key)) ELSE Missed(st, key)

\* take_input_scalar past the boundary. The lookup that failed put the cursor
\* back to the first match.
Continue(st, key) ==
  CASE st.invalid # <<>> -> [st EXCEPT !.invalid = Append(@, key)]
    [] st.invalid = <<>> /\ Extended(st, key).matches # <<>> -> Matched(Extended(st, key))
    [] OTHER ->
         IF st.options.autoSelect /\ st.matches # <<>>
         THEN Begin(CommitHovered([st EXCEPT !.cursor = 0]), key)
         ELSE Missed(st, key)

\* take_input_scalar
TakeInput(st, key) ==
  CASE Bounded(st) /\ AtMax(st) /\ ~st.options.autoCommit -> st
    [] Bounded(st) /\ (IF AtMax(st) THEN st.options.autoCommit
                       ELSE Len(st.valid) \in CommitBoundaries(Props(st))) ->
         Continue(StageSegment(st), key)
    [] OTHER -> Continue(st, key)

\* take_backspace: the tail, then the run, then the last segment taken apart.
TakeBackspace(st) ==
  CASE st.invalid # <<>> -> [st EXCEPT !.invalid = Front(@)]
    [] st.invalid = <<>> /\ st.valid # <<>> ->
         RefreshMatches([st EXCEPT !.valid = Front(@)])
    [] OTHER ->
         LET keys == Last(st.segments).keys
         IN RefreshMatches([st EXCEPT !.segments = Front(@),
                                      !.valid = IF keys = <<>> THEN keys ELSE Front(keys)])

\* convert_width and what it leaves remembered, for a table that is CJK; any
\* other passes the key on.
Shaped(st, key) ==
  LET converts == IsCjk(st) /\ key \in Emittable
      text     == IF converts THEN EmitText(key, st.options, st.p) ELSE <<key>>
      p        == IF converts THEN EmitState(key, st.options, st.p) ELSE st.p
  IN [st EXCEPT !.out.commit = @ \o text, !.p = NoteCommit(p, text)]

Observe(st) == [st EXCEPT !.p = ObserveDocument(BeforeCursor(snapshot), @)]

\* A key outside the alphabet ends what is composed.
EndForKey(st) ==
  IF st.options.invalid = "candidate" /\ st.matches # <<>> THEN CommitHovered(st)
  ELSE CommitTyped(st)

-------------------------------------------------------------------------------
(* Finish a call: the list cut to the cap, and the cursor with it.         *)

ShownList(st) ==
  LET n == Capped(Len(st.matches), st.options.cap)
  IN [st.model EXCEPT !.candidates = Phrases(SubSeq(st.matches, 1, n)),
                      !.cursor = IF st.cursor < n THEN st.cursor ELSE 0]

Leave(st, force) ==
  /\ Refresh(ShownList(st), st.out, force)
  /\ value' = st.value
  /\ valid' = st.valid
  /\ invalid' = st.invalid
  /\ segments' = st.segments
  /\ matches' = st.matches
  /\ cursor' = st.cursor
  /\ users' = st.users
  /\ punctuation' = st.p
  /\ options' = st.options

Handled == owed' = "nothing"

SumOf(list) == FoldLeft(LAMBDA n, r : n + r.chosen, 0, list)

\* Bound: no more is typed or selected past so many keys and lessons, nor in a
\* document the client did not put the caret in.
Room ==
  /\ before \in Documents
  /\ Len(FlattenSeq([i \in DOMAIN segments |-> segments[i].keys]))
       + Len(valid) + Len(invalid) < MaxRun

Unlearned == \A t \in Tables : SumOf(users[t]) < MaxLearned

-------------------------------------------------------------------------------
(* pathime_context_process_key.                                            *)

Synced == SyncTable(Enter)

IsInput(st, key) ==
  IF st.valid = <<>> /\ st.invalid = <<>> THEN IsStartChar(Props(st), key)
  ELSE IsInputChar(Props(st), key)

TypeInput(key) ==
  /\ Idle /\ Room /\ Unlearned
  /\ LET st == Synced IN HasTable(st) /\ IsInput(st, key)
                       /\ Leave(Publish(TakeInput(st, key)), FALSE)
  /\ Handled

\* Any other key ends the composition and follows it.
TypeEnding(key) ==
  /\ Idle /\ Room /\ Unlearned
  /\ LET st == Synced IN HasTable(st) /\ ~IsInput(st, key) /\ Composing(st)
                       /\ Leave(Publish(Shaped(EndForKey(Observe(st)), key)), FALSE)
  /\ Handled

\* With nothing composed it becomes text, the space too, unless the table leaves
\* it to the client, as every table does a key that is not ASCII (emit_converted).
TypeText(key) ==
  /\ Idle /\ Room
  /\ LET st == Synced
     IN /\ HasTable(st) /\ ~Composing(st)
        /\ key = space \/ ~IsInput(st, key)
        /\ IF IsCjk(st) /\ key \in Emittable
           THEN Leave(Publish(Shaped(Observe(st), key)), FALSE) /\ Handled
           ELSE Leave(Observe(st), FALSE) /\ owed' = "insert"

\* Space
Convert ==
  /\ Idle /\ Unlearned
  /\ LET st == Synced
     IN /\ HasTable(st) /\ Composing(st)
        /\ Leave(Publish(IF st.matches # <<>> THEN CommitHovered(st) ELSE CommitTyped(st)),
                 FALSE)
  /\ Handled

Return ==
  /\ Idle /\ Unlearned
  /\ LET st == Synced IN /\ HasTable(st) /\ Composing(st)
                       /\ Leave(Publish(CommitTyped(st)), FALSE)
  /\ Handled

Escape_ ==
  /\ Idle
  /\ LET st == Synced IN /\ HasTable(st) /\ Composing(st)
                       /\ Leave(Publish(ClearState(st)), FALSE)
  /\ Handled

BackspaceKey ==
  /\ Idle
  /\ LET st == Synced IN /\ HasTable(st) /\ Composing(st)
                       /\ Leave(Publish(TakeBackspace(st)), FALSE)
  /\ Handled

\* Declined: an arrow or a chord, Return, Escape or Backspace with nothing
\* composed, and every key without a table.
TypeOther ==
  /\ Idle
  /\ Leave(Synced, FALSE)
  /\ owed' \in CASE ~HasTable(Synced) -> {"nothing", "erase"} \cup (IF Room THEN {"insert"} ELSE {})
                 [] HasTable(Synced) /\ Composing(Synced) -> {"nothing"}
                 [] OTHER -> {"nothing", "erase"}

-------------------------------------------------------------------------------
(* The other calls.                                                        *)

\* pathime_context_commit does not look at the table option first.
Commit ==
  /\ Idle /\ Unlearned
  /\ LET st == Enter IN Leave(IF Composing(st) THEN Publish(CommitTyped(st)) ELSE st, FALSE)
  /\ Handled

\* TableContext::reset, after which the core clears the model.
ResetState(st) == [ClearState(st) EXCEPT !.model = EmptyModel, !.p = FreshPunctuation]

Reset == Idle /\ Leave(ResetState(Enter), FALSE) /\ Handled

\* Mutation: the index counts from one.
SelectNext(k) ==
  /\ Idle /\ Unlearned
  /\ k + 1 < Len(matches)
  /\ Leave(Publish(RefreshMatches(
       CommitPhrase(Enter, matches[k + 2].phrase, valid))), FALSE)
  /\ Handled

Select(k) ==
  /\ Idle /\ Unlearned
  /\ k < Len(matches)
  /\ Leave(Publish(RefreshMatches(
       CommitPhrase(Enter, matches[k + 1].phrase, valid))), FALSE)
  /\ Handled

\* Whatever is selected ends the composition: a tail is dropped, and nothing staged.
SelectCandidate == \E k \in 0..(Len(model.candidates) - 1) : Select(k)

MoveCursor ==
  /\ Idle
  /\ \E k \in 0..(Len(model.candidates) - 1) :
       k < Len(matches) /\ Leave([Enter EXCEPT !.cursor = k, !.model.cursor = k], FALSE)
  /\ Handled

\* options_changed
\* Mutation: the list is left as it was until the next key.
OptionsChangedLazily(st) == Publish(SyncTable(st))

OptionsChanged(st) ==
  LET synced == SyncTable(st)
  IN Publish(IF HasTable(synced) THEN RefreshMatches(synced) ELSE synced)

\* An option resolves to another value. Another table resets the context first.
SetOption ==
  /\ Idle
  /\ \E chosen \in Settings :
       LET st == [Enter EXCEPT !.options = chosen]
       IN IF chosen.table # options.table THEN Leave(ResetState(st), FALSE)
          ELSE Leave(OptionsChanged(st), TRUE)
  /\ Handled

\* What keys_valid_ may be over a table, which cuts a run at its longest code: the
\* first key may be one that only begins.
Runs ==
  [t \in Tables |-> LET p == Database[t].props IN
     {run \in SeqOf(Keys, MaxRun) \ {<<>>} :
        /\ Len(run) <= p.max
        /\ \A i \in DOMAIN run :
             IsInputChar(p, run[i]) \/ (i = 1 /\ IsStartChar(p, run[i]))}]

\* Another context of this engine, under options of its own, learns a choice from
\* the same tables, for the run it typed, which need not be the whole of a code.
LearnElsewhere ==
  /\ Idle /\ Unlearned
  /\ \E t \in Tables, chosen \in Settings :
       /\ Database[t].props.adjusts /\ chosen.learning
       /\ \E run \in Runs[t] :
            LET there == [Enter EXCEPT !.value = t, !.valid = run, !.options = chosen]
            IN \E m \in Range(Found(there)) : users' = Learn(users, there, run, m.phrase)
  /\ calls' = <<>>
  /\ UNCHANGED <<model, published, snapshot, callbacks, before, after, shown, owed,
                 punctuation, value, valid, invalid, segments, matches, cursor, options>>

\* With nothing composed the client puts the caret elsewhere and says so.
MoveElsewhere ==
  /\ Idle /\ ~Composing(Enter)
  /\ \E d \in Documents : before' = d /\ snapshot' = Around(d, <<>>, Len(d), 0)
  /\ calls' = <<>>
  /\ UNCHANGED <<model, published, callbacks, after, shown, owed, punctuation, tableVars>>

\* It acts on a key that came back unhandled.
Fallback ==
  /\ ClientActs
  /\ owed = "insert" => Last(before') \in Keys \cup {space}
  /\ UNCHANGED <<punctuation, tableVars>>

Next ==
  \/ \E key \in Keys : TypeInput(key) \/ TypeEnding(key)
  \/ \E key \in Keys \cup {space} : TypeText(key)
  \/ Convert \/ Return \/ Escape_ \/ BackspaceKey \/ TypeOther
  \/ Commit \/ Reset \/ SelectCandidate \/ MoveCursor
  \/ SetOption \/ LearnElsewhere \/ MoveElsewhere \/ Fallback

Spec == Init /\ [][Next]_vars
================================================================================
