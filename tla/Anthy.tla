--------------------------------- MODULE Anthy ---------------------------------
(***************************************************************************)
(* The Japanese adapter (src/engines/anthy/anthy_backend.cc) in one input  *)
(* context, over the romaji front end.  anthy itself is external: given a  *)
(* reading it answers with segments, each with its reading and a ranked    *)
(* candidate list, and what it is taught changes a record that every       *)
(* context of the process shares.                                          *)
(*                                                                         *)
(* Two facts make the states: whether anthy holds a conversion (count > 0) *)
(* and whether the user asked for one (asked). Held but not asked for is   *)
(* the eager state, in which candidates are offered and the kana is shown. *)
(***************************************************************************)
EXTENDS ContextCore, Romaji

CONSTANTS
  Keys,           \* printable keys
  SentenceEnds,   \* those that end a sentence: is_sentence_end_key
  space,          \* the space Space inserts, at either width
  Analyse(_, _),  \* anthy: the segments of a reading under a record
  Situations      \* the programs around one context that are considered

Options == [prediction : BOOLEAN, learning : BOOLEAN,
            onPeriod : {"nothing", "convert", "commit"},
            script : {"hiragana", "katakana"}, cap : Nat \ {0}]

\* records is what anthy's process-wide record can say, settings the options this
\* client may choose and midway those it may change at will while composing;
\* others says whether another context may teach anthy meanwhile, fails whether
\* anthy_set_string may fail; maxText bounds the preedit at which one types on.
\* No key that one types is a kana.
ASSUME AnthyAssumption ==
  /\ Keys \subseteq Scalar /\ SentenceEnds \subseteq Keys /\ space \in Scalar
  /\ Keys \cap DOMAIN Katakana = {}
  /\ \A s \in Situations :
       /\ s.settings \subseteq Options
       /\ s.midway \subseteq {"prediction", "learning", "onPeriod", "script", "cap"}
       /\ s.others \in BOOLEAN /\ s.fails \in BOOLEAN /\ s.maxText \in Nat

VARIABLES
  composer,       \* composer_
  eager,          \* eager_settled_: what was selected unasked, as [text, reading]
  conv,           \* converting_, segment_count_, active_, chosen_, recorded_, ...
  anthy,          \* the segments anthy_context_t holds, as [reading, candidates]
  record,         \* anthy's record, shared by the process
  options,        \* the options as resolved for this context
  indeterminate,  \* pathime_context::indeterminate
  lessons,        \* what anthy_commit_segment was told in the last call
  situation       \* one of Situations, throughout

anthyVars == <<composer, eager, conv, anthy, record, options, indeterminate, lessons,
               situation>>
vars == <<contextVars, anthyVars>>

\* Segments count from 1 and candidates from 0; listed = 0 is listed_segment_ = -1.
\* recorded holds the text taught for a segment, or <<>> for not yet.
NoConversion == [asked |-> FALSE, count |-> 0, active |-> 1, chosen |-> <<>>,
                 recorded |-> <<>>, listed |-> 0]

\* No optional callback matters to a step of this adapter: it never deletes.
Init ==
  /\ ContextInit /\ callbacks = {"changed"}
  /\ composer = EmptyComposer
  /\ eager = <<>>
  /\ conv = NoConversion
  /\ anthy = <<>>
  /\ situation \in Situations
  /\ record \in situation.records
  /\ options \in situation.settings
  /\ indeterminate = FALSE
  /\ lessons = {}

Able == Idle /\ ~indeterminate

\* romaji_settings: the styles stay as they are by default.
Settings(opts) == InScript(opts.script)

Preedit(m) == m.settled \o m.active \o m.tail

\* Bound: the client takes its document away before more is typed.
Room == before = <<>> /\ Len(Preedit(model)) < situation.maxText

-------------------------------------------------------------------------------
(* One call in progress.  Each helper of the adapter maps what it finds to *)
(* what it leaves: `up` says whether anthy answers during this call, and   *)
(* `taught` what the record would be after a lesson.                       *)

Enter(u, r) ==
  [model |-> model, out |-> NoOutput, composer |-> composer, eager |-> eager,
   conv |-> conv, anthy |-> anthy, record |-> record, options |-> options,
   lessons |-> {}, up |-> u, taught |-> r]

Calls == {Enter(u, r) : u \in (IF situation.fails THEN BOOLEAN ELSE {TRUE}),
                       r \in situation.records}

\* A call that neither asks anthy nor teaches it.
Plain == Enter(TRUE, record)

\* anthy_set_string, whose first act is to reset the context.
SetString(st, reading) ==
  [st EXCEPT !.anthy = IF st.up THEN Analyse(reading, st.record) ELSE <<>>]

Texts(spans) == FlattenSeq([i \in DOMAIN spans |-> spans[i].text])
Readings(spans) == FlattenSeq([i \in DOMAIN spans |-> spans[i].reading])

\* fetch_segment at a candidate; at NTH_UNCONVERTED_CANDIDATE it is the reading.
Fetch(st, seg, k) == st.anthy[seg].candidates[k + 1]

Fetchable(st, seg, k) ==
  seg \in DOMAIN st.anthy /\ k + 1 \in DOMAIN st.anthy[seg].candidates

Chosen(st, seg) == Fetch(st, seg, st.conv.chosen[seg])

\* show_kana
ShowKana(st) ==
  [st EXCEPT !.model = [EmptyModel EXCEPT
                          !.settled = Texts(st.eager),
                          !.active = Display(st.composer, Settings(st.options))],
             !.conv.listed = 0]

\* show_segments: the chosen text of what is settled, the active segment's, the
\* readings of the rest, over the given list.
Segmented(st, list) ==
  LET c == st.conv
  IN [st EXCEPT
        !.model = [settled    |-> Texts(st.eager)
                                    \o FlattenSeq([i \in 1..(c.active - 1) |->
                                                     Chosen(st, i)]),
                   active     |-> Chosen(st, c.active),
                   tail       |-> Readings(SubSeq(st.anthy, c.active + 1, c.count)),
                   candidates |-> list,
                   cursor     |-> c.chosen[c.active]],
        !.conv.listed = c.active]

\* The list survives as long as its segment stays active.
ShowSegments(st) ==
  Segmented(st, IF st.conv.listed = st.conv.active THEN st.model.candidates ELSE <<>>)

\* A conversion anthy has just made: every segment at its first candidate.
Started(st, asked, first) ==
  LET size == Len(st.anthy)
  IN [st EXCEPT !.conv = [asked    |-> asked, count |-> size, active |-> 1,
                          chosen   |-> [i \in 1..size |-> IF i = 1 THEN first ELSE 0],
                          recorded |-> [i \in 1..size |-> <<>>],
                          listed   |-> st.conv.listed]]

\* anthy_reset_context and forget_conversion
Forget(st) == [st EXCEPT !.anthy = <<>>, !.conv = NoConversion]

\* refresh_eager_conversion. With the option off, nothing typed or no answer the
\* eager conversion is dropped.
RefreshEager(st) ==
  IF ~st.options.prediction \/ st.composer = EmptyComposer THEN Forget(st)
  ELSE LET asked == SetString(st, Reading(st.composer, Settings(st.options)))
       IN IF asked.anthy = <<>> THEN Forget(st) ELSE Started(asked, FALSE, 0)

\* begin_conversion, never reached with an empty buffer. It takes over the
\* candidate the user was browsing at; with no answer the kana stays as shown.
BeginConversion(st) ==
  LET browsing == st.conv.count > 0 /\ ~st.conv.asked /\ st.model.candidates # <<>>
      adopt == IF browsing THEN st.model.cursor ELSE 0
      asked == SetString(st, Reading(st.composer, Settings(st.options)))
  IN IF asked.anthy = <<>> THEN asked
     ELSE ShowSegments(Started(asked, TRUE,
                               IF Fetchable(asked, 1, adopt) THEN adopt ELSE 0))

\* cancel_conversion
CancelConversion(st) == RefreshEager(ShowKana(Forget(st)))

-------------------------------------------------------------------------------
(* Learning.                                                               *)

\* anthy_commit_segment for each segment of `told`, a function to the texts told.
\* The record is written when the last segment of the conversion is committed.
Teach(st, told) ==
  LET known == [i \in 1..st.conv.count |->
                  IF i \in DOMAIN told THEN told[i] ELSE st.conv.recorded[i]]
  IN [st EXCEPT !.conv.recorded = known,
                !.lessons = @ \cup {<<i, told[i]>> : i \in DOMAIN told},
                !.record = IF <<>> \in Range(known) THEN @ ELSE st.taught]

\* What is on screen for a segment.
Seen(st, seg) == IF seg <= st.conv.active THEN Chosen(st, seg) ELSE st.anthy[seg].reading

Untaught(st, through) == {i \in 1..through : st.conv.recorded[i] = <<>>}

\* record_choices: every segment up to `through` not told of yet.
\* Mutation: a segment is told of again.
RecordChoicesAgain(st, through) == Teach(st, [i \in 1..through |-> Seen(st, i)])

RecordChoices(st, through) ==
  Teach(st, [i \in Untaught(st, through) |-> Seen(st, i)])

\* learn_eager_choice: the choice is staged alone, if anthy keeps its reading
\* together, and the context left as it falls. It is told of as segment 0.
LearnEagerChoice(st, span) ==
  LET staged == SetString(st, span.reading)
  IN IF Len(staged.anthy) = 1 /\ span.text \in Range(staged.anthy[1].candidates)
     THEN [staged EXCEPT !.lessons = @ \cup {<<0, span.text>>}, !.record = st.taught]
     ELSE staged

-------------------------------------------------------------------------------
(* Ending a composition.                                                   *)

Emptied(st) ==
  [st EXCEPT !.model = EmptyModel, !.eager = <<>>, !.composer = EmptyComposer]

\* commit_kana
\* Mutation: what was selected before is forgotten.
CommitKanaAlone(st) ==
  Forget(Emptied([st EXCEPT !.out.commit = CommitText(st.composer, Settings(st.options))]))

CommitKana(st) ==
  Forget(Emptied([st EXCEPT !.out.commit =
                    Texts(st.eager) \o CommitText(st.composer, Settings(st.options))]))

\* commit_conversion
CommitConversion(st) ==
  LET known == IF st.options.learning THEN RecordChoices(st, st.conv.count) ELSE st
  IN Forget(Emptied([known EXCEPT !.out.commit = Preedit(st.model)]))

-------------------------------------------------------------------------------
(* Candidates.                                                             *)

\* show_candidate
ShowCandidate(st, k) ==
  [st EXCEPT !.conv.chosen[st.conv.active] = k,
             !.model.active = Fetch(st, st.conv.active, k),
             !.model.cursor = k]

\* advance_candidate: the next one, wrapping at the cap.
NextCandidate(st, size) ==
  LET next == st.conv.chosen[st.conv.active] + 1 IN IF next >= size THEN 0 ELSE next

\* Mutation: it wraps at the end of anthy's own list.
AdvanceCandidateUncapped(st) ==
  ShowCandidate(st, NextCandidate(st, Len(st.anthy[st.conv.active].candidates)))

AdvanceCandidate(st) ==
  LET size == Capped(Len(st.anthy[st.conv.active].candidates), st.options.cap)
  IN ShowCandidate(st, NextCandidate(st, size))

\* select_from_eager: settle the first segment, type on in what remains of the
\* reading, which goes back into the buffer.
SelectFirst(st, k, rest) ==
  LET span  == [text |-> Fetch(st, 1, k), reading |-> st.anthy[1].reading]
      known == IF st.options.learning THEN LearnEagerChoice(st, span) ELSE st
      next  == [known EXCEPT !.eager = Append(@, span),
                             !.composer = [kana |-> rest, pending |-> <<>>]]
  IN IF rest = <<>>
     THEN Forget(Emptied([next EXCEPT !.out.commit = Texts(next.eager)]))
     ELSE RefreshEager(ShowKana(next))

SelectFromEager(st, k) ==
  SelectFirst(st, k, Readings(SubSeq(st.anthy, 2, st.conv.count)))

\* select_candidate while converting: settle the active segment, go on to the
\* next or commit everything.
SelectConverted(st, k) ==
  LET c     == st.conv
      final == ShowCandidate(st, k)
      known == IF st.options.learning THEN RecordChoices(final, c.active) ELSE final
  IN IF c.active = c.count
     THEN Forget(Emptied([known EXCEPT !.out.commit = Preedit(final.model)]))
     ELSE ShowSegments([known EXCEPT !.conv.active = @ + 1])

\* options_changed: only an eager list that should or should not be there.
OptionsChanged(st) ==
  LET want == st.options.prediction /\ st.composer # EmptyComposer
  IN IF st.conv.asked \/ want = (st.conv.count > 0) THEN st
     ELSE RefreshEager(ShowKana(st))

-------------------------------------------------------------------------------
(* Finish a call: materialize, publish, dispatch.                          *)

Offered(st) ==
  IF st.conv.count > 0 /\ st.anthy # <<>> THEN st.anthy[st.conv.active].candidates
                                          ELSE <<>>

Leave(st, force) ==
  /\ Refresh(Materialize(st.model, Offered(st), st.options.cap), st.out, force)
  /\ composer' = st.composer
  /\ eager' = st.eager
  /\ conv' = [st.conv EXCEPT !.listed = IF Offered(st) = <<>> THEN @ ELSE st.conv.active]
  /\ anthy' = st.anthy
  /\ record' = st.record
  /\ options' = st.options
  /\ lessons' = st.lessons

Handled == owed' = "nothing" /\ UNCHANGED <<indeterminate, situation>>

Declined(fallback) ==
  /\ Leave(Plain, FALSE)
  /\ owed' = fallback
  /\ UNCHANGED <<indeterminate, situation>>

Empty == composer = EmptyComposer /\ eager = <<>>

-------------------------------------------------------------------------------
(* pathime_context_process_key.                                            *)

Typed(st, key) == ShowKana([st EXCEPT !.composer = Insert(@, key)])

\* A printable key while typing; a sentence end may convert or commit at once.
TypeKey(key) ==
  /\ Able /\ Room /\ ~conv.asked
  /\ \E st \in Calls :
       LET typed == Typed(st, key)
           then_ == IF key \in SentenceEnds THEN options.onPeriod ELSE "nothing"
           ended == CASE then_ = "nothing" -> typed
                      [] then_ = "convert" -> BeginConversion(typed)
                      [] then_ = "commit"  -> CommitKana(typed)
       IN Leave(IF ended.conv.asked THEN ended ELSE RefreshEager(ended), FALSE)
  /\ Handled

\* A printable key while converting commits and starts anew.
TypeKeyAfter(key) ==
  /\ Able /\ Room /\ conv.asked
  /\ \E st \in Calls :
       Leave(RefreshEager(Typed(CommitConversion(st), key)), FALSE)
  /\ Handled

\* Space or Henkan asks for conversion, then cycles.
Convert ==
  /\ Able /\ composer # EmptyComposer
  /\ \E st \in Calls :
       Leave(IF conv.asked THEN AdvanceCandidate(st) ELSE BeginConversion(st), FALSE)
  /\ Handled

\* Space with nothing to convert ends what was selected and inserts itself.
InsertSpace ==
  /\ Able /\ Room /\ composer = EmptyComposer
  /\ LET ended == IF eager = <<>> THEN Plain ELSE CommitKana(Plain)
     IN Leave([ended EXCEPT !.out.commit = Append(@, space)], FALSE)
  /\ Handled

\* What Return and pathime_context_commit do with a composition.
Ended(st) == IF conv.asked THEN CommitConversion(st) ELSE CommitKana(st)

Return ==
  /\ Able /\ ~Empty
  /\ \E st \in Calls : Leave(Ended(st), FALSE)
  /\ Handled

\* Escape or Muhenkan: back from the conversion, then from what was selected,
\* then out.
\* Mutation: what was selected comes back behind what was typed since.
UnsettleAllBehind(st) ==
  [st EXCEPT !.eager = <<>>, !.composer.kana = @ \o Readings(st.eager)]

UnsettleAll(st) ==
  [st EXCEPT !.eager = <<>>, !.composer.kana = Readings(st.eager) \o @]

Escape ==
  /\ Able /\ ~Empty
  /\ \E st \in Calls :
       Leave(IF conv.asked THEN CancelConversion(st)
             ELSE IF eager # <<>> THEN RefreshEager(ShowKana(UnsettleAll(st)))
             ELSE Forget(Emptied(st)), FALSE)
  /\ Handled

\* Backspace: back from the conversion; else one letter or kana; else the last
\* selection is walked back to its reading.
BackspaceKey ==
  /\ Able /\ ~Empty
  /\ \E st \in Calls :
       Leave(IF conv.asked THEN CancelConversion(st)
             ELSE IF composer # EmptyComposer
             THEN RefreshEager(ShowKana([st EXCEPT !.composer = Backspace(@)]))
             ELSE RefreshEager(ShowKana([st EXCEPT
                    !.eager = Front(@),
                    !.composer = [kana |-> Last(eager).reading, pending |-> <<>>]])),
             FALSE)
  /\ Handled

\* Declined: a chord or an arrow at any time, Return and Escape with nothing
\* composed, Henkan with nothing to convert. What the client makes of it is left
\* out: the adapter never looks at the document ...
TypeOther == Able /\ Declined("nothing")

\* ... and Backspace with nothing left to take.
BackspaceDeclined == Able /\ Empty /\ Declined("erase")

-------------------------------------------------------------------------------
(* The other calls.                                                        *)

\* pathime_context_commit
Commit ==
  /\ Able
  /\ \E st \in Calls : Leave(IF Empty THEN st ELSE Ended(st), FALSE)
  /\ Handled

\* pathime_context_reset, also the way back from a failed call.
Reset ==
  /\ Idle
  /\ Leave(Forget(Emptied(Plain)), indeterminate)
  /\ owed' = "nothing" /\ indeterminate' = FALSE
  /\ UNCHANGED situation

\* A call the adapter fails: nothing is refreshed and only a reset is left.
Abort(cursor) ==
  /\ model' = [model EXCEPT !.cursor = cursor]
  /\ calls' = <<>> /\ lessons' = {} /\ indeterminate' = TRUE
  /\ UNCHANGED <<published, snapshot, callbacks, before, after, shown, owed,
                 composer, eager, conv, anthy, record, options, situation>>

\* pathime_context_set_candidate_cursor: browsing moves the highlight alone,
\* choosing rewrites the active span; a failure leaves the cursor where it was.
\* Mutation: browsing rewrites the span too.
BrowsePreviewing(st, k) == ShowCandidate(st, k)

Browse(st, k) == [st EXCEPT !.model.cursor = k]

MoveCursor ==
  /\ Able
  /\ \E k \in 0..(Len(model.candidates) - 1) :
       \/ /\ ~conv.asked
          /\ Leave(Browse(Plain, k), FALSE)
          /\ Handled
       \/ /\ conv.asked /\ Fetchable([anthy |-> anthy], conv.active, k)
          /\ Leave(ShowCandidate(Plain, k), FALSE)
          /\ Handled
       \/ /\ conv.asked /\ ~Fetchable([anthy |-> anthy], conv.active, k)
          /\ Abort(model.cursor)

\* pathime_context_select_candidate, index in range of the list shown.
Select(k) ==
  \/ /\ Fetchable([anthy |-> anthy], conv.active, k)
     /\ \E st \in Calls :
          Leave(IF conv.asked THEN SelectConverted(st, k) ELSE SelectFromEager(st, k),
                FALSE)
     /\ Handled
  \/ ~Fetchable([anthy |-> anthy], conv.active, k) /\ Abort(k)

SelectCandidate == Able /\ \E k \in 0..(Len(model.candidates) - 1) : Select(k)

\* An option resolves to another value: none of these resets the composition,
\* and the refresh that follows is forced. A client may raise the cap at any time,
\* as its user scrolls.
SetOption ==
  /\ Able
  /\ \E chosen \in situation.settings, st \in Calls :
       /\ \A o \in DOMAIN options : \/ options[o] = chosen[o]
                                    \/ Empty
                                    \/ o \in situation.midway
                                    \/ o = "cap" /\ chosen.cap > options.cap
       /\ Leave(OptionsChanged([st EXCEPT !.options = chosen]), TRUE)
  /\ Handled

\* Another context of the process teaches anthy something.
TaughtElsewhere ==
  /\ situation.others
  /\ \E r \in situation.records : record' = r
  /\ calls' = <<>> /\ lessons' = {}
  /\ UNCHANGED <<model, published, snapshot, callbacks, before, after, shown, owed,
                 composer, eager, conv, anthy, options, indeterminate, situation>>

\* The client sends its document away.
Send ==
  /\ Idle /\ before # <<>>
  /\ before' = <<>>
  /\ calls' = <<>> /\ lessons' = {}
  /\ UNCHANGED <<model, published, snapshot, callbacks, after, shown, owed,
                 composer, eager, conv, anthy, record, options, indeterminate, situation>>

Fallback == ClientActs /\ UNCHANGED anthyVars

Next ==
  \/ SelectCandidate \/ MoveCursor
  \/ \E key \in Keys : TypeKey(key) \/ TypeKeyAfter(key)
  \/ Convert \/ InsertSpace \/ Return \/ Escape \/ BackspaceKey
  \/ TypeOther \/ BackspaceDeclined
  \/ Commit \/ Reset \/ SetOption
  \/ TaughtElsewhere \/ Fallback \/ Send

Spec == Init /\ [][Next]_vars
================================================================================
