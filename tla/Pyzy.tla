---------------------------------- MODULE Pyzy ----------------------------------
(***************************************************************************)
(* The pinyin and bopomofo adapter (src/engines/pyzy/pyzy_backend.cc) in   *)
(* one input context.  PyZy itself is external: it holds the keys it was   *)
(* given, spells out those no selection has consumed yet, ranks            *)
(* conversions of them, and tells an observer, in the middle of the call   *)
(* that causes it, that its text or its list changed or that it committed. *)
(*                                                                         *)
(* What PyZy would not take becomes text by way of the punctuation layer.  *)
(***************************************************************************)
EXTENDS PunctuatedContext

CONSTANTS
  Ids,                   \* engine ids: a subset of {"pinyin", "bopomofo"}
  Keys,                  \* the printable keys typed, the space among them
  space, apostrophe,     \* the convert key and the syllable separator
  Alphabet,              \* 'a' to 'z'
  Accepts(_),            \* PyZy: the keys insert() takes under an input type
  Spelling(_, _),        \* PyZy: a run of keys spelled out, syllables separated
  Conversions(_, _, _),  \* PyZy: ranked [text, takes] for a run of keys
  Separators,            \* what stands between syllables in a spelling
  mark,                  \* PyZy's own input cursor, '|'
  Capacity,              \* keys PyZy holds; it drops any more
  Settings,              \* the option values this client may choose
  Documents              \* what may stand left of the caret when more is typed (bound)

Options == [scheme : {"full", "double"}, latin : Width, punctuation : Width,
            simplified : BOOLEAN, cap : Nat \ {0}]

ASSUME PyzyAssumption ==
  /\ Ids \subseteq {"pinyin", "bopomofo"} /\ Ids # {}
  /\ Keys \subseteq Emittable /\ space \in Latin \ Alphabet /\ apostrophe = single
  /\ Alphabet \subseteq Latin \ Digits /\ Separators \subseteq Scalar /\ mark \in Scalar
  /\ Settings \subseteq Options /\ Documents \subseteq Text
  /\ Capacity \in Nat

VARIABLES
  id,             \* the engine the context was made for
  type,           \* type_: "full", "double" or "bopomofo" InputContext
  input,          \* PyZy: the keys it holds
  used,           \* PyZy: how many of them selections have consumed
  selected,       \* PyZy: the text selected for those
  options         \* the options as resolved for this context

pyzyVars == <<id, type, input, used, selected, punctuation, options>>
vars == <<contextVars, pyzyVars>>

\* wanted_type
WantedType(o) == IF id = "bopomofo" THEN "bopomofo" ELSE o.scheme

Init ==
  /\ ContextInit /\ callbacks = {"changed"}
  /\ id \in Ids
  /\ options \in Settings
  /\ id = "bopomofo" => options.scheme = "full"  \* its own option is the default
  /\ type = WantedType(options)
  /\ input = <<>> /\ used = 0 /\ selected = <<>>
  /\ punctuation = FreshPunctuation

Composing == input # <<>>

\* Bound: in any other document the caret moves before more is typed.
Room == before \in Documents

-------------------------------------------------------------------------------
(* One call in progress.  `raised` holds the observer's flags, `told` its  *)
(* commit_text; `keep` says whether PyZy keeps selections through an edit. *)

Enter(keep) ==
  [model |-> model, out |-> NoOutput, type |-> type, input |-> input, used |-> used,
   selected |-> selected, p |-> punctuation, options |-> options,
   raised |-> {}, told |-> <<>>, keep |-> keep]

Plain == Enter(TRUE)

Rest(st) == SubSeq(st.input, st.used + 1, Len(st.input))

Offered(st) ==
  IF Rest(st) = <<>> THEN <<>>
  ELSE Conversions(st.type, Rest(st), st.options.simplified)

Texts(list) == [i \in DOMAIN list |-> list[i].text]

\* PyZy::InputContext::reset
PyzyReset(st) ==
  [st EXCEPT !.input = <<>>, !.used = 0, !.selected = <<>>,
             !.raised = {"text", "list"}]

\* insert and removeCharBefore: an edit may cost the selections made so far.
Edited(st, keys) ==
  LET kept == st.keep /\ st.used <= Len(keys)
  IN [st EXCEPT !.input = keys,
                !.used = IF kept THEN @ ELSE 0,
                !.selected = IF kept THEN @ ELSE <<>>,
                !.raised = {"text", "list"}]

PyzyInsert(st, key) ==
  IF Len(st.input) < Capacity THEN Edited(st, Append(st.input, key)) ELSE st

\* PyZy's commit: it empties itself first and reports the text last.
PyzyTell(st, text) == [PyzyReset(st) EXCEPT !.told = @ \o text]

PyzySelect(st, k) ==
  LET c == Offered(st)[k + 1]
  IN IF c.takes = Len(Rest(st)) THEN PyzyTell(st, st.selected \o c.text)
     ELSE [st EXCEPT !.used = @ + c.takes, !.selected = @ \o c.text,
                     !.raised = {"text", "list"}]

\* Text without the separators between syllables.
Unseparated(text) ==
  FlattenSeq([i \in DOMAIN text |-> IF text[i] \in Separators THEN <<>>
                                                              ELSE <<text[i]>>])

\* commit(TYPE_CONVERTED): under double pinyin what is left goes out as typed.
PyzyCommit(st) ==
  IF st.input = <<>> THEN st
  ELSE PyzyTell(st, st.selected \o (IF st.type = "double" THEN Rest(st)
                                    ELSE Unseparated(Spelling(st.type, Rest(st)))))

\* auxiliaryText, with its cursor at the end; empty while nothing converts.
Auxiliary(st) ==
  IF Offered(st) = <<>> THEN <<>> ELSE Append(Spelling(st.type, Rest(st)), mark)

\* strip_input_cursor
StripInputCursor(text) ==
  IF text # <<>> /\ Last(text) = mark THEN Front(text) ELSE text

-------------------------------------------------------------------------------
(* The adapter's helpers.                                                  *)

\* recreate
Recreate(st, t) == [PyzyReset(st) EXCEPT !.type = t, !.p = FreshPunctuation]

\* apply_options, what of it is not a property read where it is used.
ApplyOptions(st) ==
  IF WantedType(st.options) # st.type THEN Recreate(st, WantedType(st.options)) ELSE st

\* What harvest shows of the input no selection has consumed.
Shown(st) ==
  LET active == StripInputCursor(Auxiliary(st))
  IN IF active = <<>> THEN Spelling(st.type, Rest(st)) ELSE active

\* harvest: what the observer heard says what is copied.
\* Mutation: the commit is not recorded against the look-behind.
HarvestUnnoted(st) ==
  [st EXCEPT
     !.model = [settled    |-> IF "text" \in st.raised THEN st.selected ELSE @.settled,
                active     |-> IF "text" \in st.raised THEN Shown(st) ELSE @.active,
                tail       |-> IF "text" \in st.raised THEN <<>> ELSE @.tail,
                candidates |-> IF "list" \in st.raised THEN <<>> ELSE @.candidates,
                cursor     |-> IF "list" \in st.raised THEN 0 ELSE @.cursor],
     !.out.commit = @ \o st.told,
     !.raised = {}, !.told = <<>>]

Harvest(st) ==
  [st EXCEPT
     !.model = [settled    |-> IF "text" \in st.raised THEN st.selected ELSE @.settled,
                active     |-> IF "text" \in st.raised THEN Shown(st) ELSE @.active,
                tail       |-> IF "text" \in st.raised THEN <<>> ELSE @.tail,
                candidates |-> IF "list" \in st.raised THEN <<>> ELSE @.candidates,
                cursor     |-> IF "list" \in st.raised THEN 0 ELSE @.cursor],
     !.out.commit = @ \o st.told,
     !.p = NoteCommit(@, st.told),
     !.raised = {}, !.told = <<>>]

Hovering(st) == st.model.cursor < Len(st.model.candidates)

\* Space, and the first half of finish_composition.
TakeHovered(st) == PyzySelect(st, st.model.cursor)

\* finish_composition: the hovered conversion, then whatever is left.
\* Mutation: the rest is left behind by the selection.
FinishCompositionShort(st) ==
  IF st.input = <<>> THEN st
  ELSE LET ended == IF Hovering(st) THEN PyzyReset(TakeHovered(st)) ELSE PyzyCommit(st)
       IN [ended EXCEPT !.p = NoteCommit(@, ended.told)]

FinishComposition(st) ==
  IF st.input = <<>> THEN st
  ELSE LET ended == PyzyCommit(IF Hovering(st) THEN TakeHovered(st) ELSE st)
       IN [ended EXCEPT !.p = NoteCommit(@, ended.told)]

\* commit_preedit: the preedit last shown, without the separators.
\* Mutation: PyZy's own rendering of it.
CommitPreeditConverted(st) == PyzyCommit(st)

CommitPreedit(st) ==
  LET text == st.model.settled \o Unseparated(st.model.active)
  IN [PyzyReset(st) EXCEPT !.out.commit = @ \o text, !.p = NoteCommit(@, text)]

\* The emit path: the snapshot first, then what this call itself commits, then
\* the key.
Emit(st, key) ==
  LET ended == FinishComposition([st EXCEPT
                 !.p = ObserveDocument(BeforeCursor(snapshot), @)])
      text  == EmitText(key, st.options, ended.p)
      left  == Harvest([ended EXCEPT !.p = EmitState(key, st.options, @)])
  IN [left EXCEPT !.out.commit = @ \o text, !.p = NoteCommit(@, text)]

\* insertable, and insert()'s own answer.
Inserts(st, key) ==
  /\ IF st.type = "bopomofo" THEN key # space
     ELSE key \in Alphabet \/ (key = apostrophe /\ st.input # <<>>)
  /\ key \in Accepts(st.type)

-------------------------------------------------------------------------------
(* Finish a call: materialize, publish, dispatch.                          *)

Leave(st, force) ==
  /\ Refresh(Materialize(st.model, Texts(Offered(st)), st.options.cap), st.out, force)
  /\ type' = st.type
  /\ input' = st.input
  /\ used' = st.used
  /\ selected' = st.selected
  /\ punctuation' = st.p
  /\ options' = st.options
  /\ UNCHANGED id

Handled == owed' = "nothing"

\* Calls begin by clearing the observer and applying the options.
Calls == {ApplyOptions(Enter(keep)) : keep \in BOOLEAN}

-------------------------------------------------------------------------------
(* pathime_context_process_key.                                            *)

\* A key PyZy takes.
TypeKey(key) ==
  /\ Idle /\ Room
  /\ \E st \in Calls : Inserts(st, key) /\ Leave(Harvest(PyzyInsert(st, key)), FALSE)
  /\ Handled

\* A printable key it does not take ends the composition and becomes text. The
\* space is this only with nothing composed.
TypeText(key) ==
  /\ Idle /\ Room
  /\ \E st \in Calls : /\ ~Inserts(st, key)
                       /\ key = space => st.input = <<>>
                       /\ Leave(Emit(st, key), FALSE)
  /\ Handled

Convert ==
  /\ Idle /\ Composing
  /\ \E st \in Calls :
       Leave(Harvest(IF Hovering(st) THEN TakeHovered(st) ELSE PyzyCommit(st)), FALSE)
  /\ Handled

Return ==
  /\ Idle /\ Composing
  /\ \E st \in Calls : Leave(Harvest(CommitPreedit(st)), FALSE)
  /\ Handled

Escape ==
  /\ Idle /\ Composing
  /\ \E st \in Calls : Leave(Harvest(PyzyReset(st)), FALSE)
  /\ Handled

BackspaceKey ==
  /\ Idle /\ Composing
  /\ \E st \in Calls : Leave(Harvest(Edited(st, Front(st.input))), FALSE)
  /\ Handled

\* Delete finds nothing right of PyZy's cursor, which never leaves the end.
DeleteKey ==
  /\ Idle /\ Composing
  /\ \E st \in Calls : Leave(Harvest(st), FALSE)
  /\ Handled

\* Declined: a chord or an arrow, and with nothing composed Return, Escape and
\* Backspace.
TypeOther ==
  /\ Idle
  /\ \E st \in Calls \cup {Plain} : Leave(Harvest(st), FALSE)
  /\ owed' \in IF Composing THEN {"nothing"} ELSE {"nothing", "erase"}

-------------------------------------------------------------------------------
(* The other calls.                                                        *)

\* pathime_context_commit
Commit ==
  /\ Idle
  /\ Leave(IF Composing THEN Harvest(CommitPreedit(Plain)) ELSE Plain, FALSE)
  /\ Handled

\* PyzyContext::reset, after which the core clears the model.
ResetState(st) == [PyzyReset(st) EXCEPT !.model = EmptyModel, !.p = FreshPunctuation]

\* pathime_context_reset
Reset == Idle /\ Leave(ResetState(Plain), FALSE) /\ Handled

\* pathime_context_select_candidate: in range of the list shown, and so of PyZy's
\* (ListIsCurrent); were it not, the call would fail.
SelectCandidate ==
  /\ Idle
  /\ \E k \in 0..(Len(model.candidates) - 1), st \in Calls :
       /\ k < Len(Offered(st))
       /\ Leave(Harvest(PyzySelect(st, k)), FALSE)
  /\ Handled

\* pathime_context_set_candidate_cursor: PyZy's focus follows, and all it says is
\* that its text was rendered anew.
Focus(st, k) == Harvest([st EXCEPT !.model.cursor = k, !.raised = {"text"}])

MoveCursor ==
  /\ Idle
  /\ \E k \in 0..(Len(model.candidates) - 1), st \in Calls :
       k < Len(Offered(st)) /\ Leave(Focus(st, k), FALSE)
  /\ Handled

\* options_changed: PyZy regenerates nothing, so text and list are read anew.
\* Mutation: the list is left to PyZy's announcement.
OptionsChangedListed(st) == Harvest([ApplyOptions(st) EXCEPT !.raised = @ \cup {"text"}])

OptionsChanged(st) ==
  LET told == Harvest([ApplyOptions(st) EXCEPT !.raised = @ \cup {"text"}])
  IN [told EXCEPT !.model.candidates = <<>>, !.model.cursor = 0]

\* An option resolves to another value. The scheme resets the context; the cap
\* only leaves it to be materialized again.
SetOption ==
  /\ Idle
  /\ \E chosen \in Settings :
       /\ id = "bopomofo" => chosen.scheme = options.scheme
       /\ LET st == [Plain EXCEPT !.options = chosen]
          IN IF chosen.scheme # options.scheme THEN Leave(ResetState(st), FALSE)
             ELSE Leave(OptionsChanged(st), TRUE)
  /\ Handled

\* With nothing composed the client puts the caret elsewhere, and accounts for it
\* unless it keeps the library without any snapshot.
MoveElsewhere ==
  /\ Idle /\ ~Composing
  /\ \E d \in Documents :
       /\ before' = d
       /\ \/ snapshot' = Around(d, <<>>, Len(d), 0)
          \/ ~snapshot.has /\ UNCHANGED snapshot
  /\ calls' = <<>>
  /\ UNCHANGED <<model, published, callbacks, after, shown, owed, pyzyVars>>

\* The client tells the library of what is left of the caret, or of a part of it.
Report ==
  /\ Idle
  /\ \E l \in {1, Len(before)} : l <= Len(before) /\ snapshot' = Around(before, <<>>, l, 0)
  /\ calls' = <<>>
  /\ UNCHANGED <<model, published, callbacks, before, after, shown, owed, pyzyVars>>

\* It acts on a key that came back unhandled.
Fallback == ClientActs /\ UNCHANGED pyzyVars

Next ==
  \/ \E key \in Keys : TypeKey(key) \/ TypeText(key)
  \/ Convert \/ Return \/ Escape \/ BackspaceKey \/ DeleteKey \/ TypeOther
  \/ Commit \/ Reset \/ SelectCandidate \/ MoveCursor
  \/ SetOption \/ MoveElsewhere \/ Report \/ Fallback

Spec == Init /\ [][Next]_vars
================================================================================
