---------------------------- MODULE TableProperties ----------------------------
(***************************************************************************)
(* What the table adapter must get right: the keys typed, the list the     *)
(* client chooses from, what is delivered, and what is learned of it.      *)
(***************************************************************************)
EXTENDS TableInput

\* Every key typed of what is being composed, the staged ones first.
Typed ==
  FlattenSeq([i \in DOMAIN segments |-> segments[i].keys]) \o valid \o invalid

\* Each call that delivers nothing leaves the keys as they are, adds the one typed,
\* takes the last one back or discards all: staging a segment, taking one apart,
\* and a tail that matches nothing move no key and lose none.
KeepsKeys ==
  [][Delivered(calls') = <<>> /\ Typed' # Typed =>
       \/ Typed' = <<>>
       \/ Typed # <<>> /\ Typed' = Front(Typed)
       \/ \E key \in Keys : Typed' = Append(Typed, key)]_vars

\* What a user database may have held before what it holds now: rows are added at
\* the end and their counts grow.
Earlier(rows) ==
  UNION {{[i \in 1..n |-> [rows[i] EXCEPT !.chosen = count[i]]] :
             count \in {c \in [1..n -> UNION {1..rows[i].chosen : i \in 1..n}] :
                          \A i \in 1..n : c[i] <= rows[i].chosen}} :
           n \in 0..Len(rows)}

\* The list answers the run that still matches, under the options in force and what
\* was learned when it was looked up: no path puts back a list of another run,
\* another table or an option's former value (refresh_matches and its callers).
ListAnswersRun ==
  IF HasTable(Enter) /\ value = options.table
  THEN \E rows \in Earlier(users[value]) :
         matches = Found([Enter EXCEPT !.users[value] = rows])
  ELSE matches = <<>>

\* Converting delivers what is staged and the candidate the client sees
\* highlighted, and selecting at an index what is staged and the one it sees there,
\* whatever another context taught the table since (pathime.h, cursor and
\* select_candidate).
HighlightIsDelivered ==
  [][Composing(Enter) /\ model.candidates # <<>> =>
       /\ Convert =>
            before' = before \o model.settled \o model.candidates[model.cursor + 1]
       /\ \A k \in 0..(Len(model.candidates) - 1) :
            Select(k) => before' = before \o model.settled \o model.candidates[k + 1]]_vars

\* Where the user database of the table in force holds what a step wrote.
Lessons ==
  IF value' = none THEN {}
  ELSE {i \in DOMAIN users'[value'] :
          i \in DOMAIN users[value'] => users'[value'][i] # users[value'][i]}

\* The phrases a table offers for these keys under some options a client may have,
\* if these rows are its user's.
OfferedFor(keys, table, rows) ==
  UNION {{m.phrase : m \in Range(Found([value |-> table, valid |-> keys, options |-> o,
                                        users |-> [t \in {table} |-> rows]]))} :
           o \in Settings}

Occurs(phrase, text) ==
  \E i \in 0..(Len(text) - Len(phrase)) : SubSeq(text, i + 1, i + Len(phrase)) = phrase

TeachesTheChosen ==
  LET text == Delivered(calls')
  IN /\ \A t \in Tables \ {value'} : users'[t] = users[t]
     /\ \A i \in Lessons :
          LET lesson == users'[value'][i]
          IN /\ Occurs(lesson.phrase, text)
             /\ \E rows \in Earlier(users'[value']) :
                  /\ i \in DOMAIN rows => rows[i] # lesson
                  /\ lesson.phrase \in OfferedFor(lesson.keys, value', rows)
     /\ text # <<>> /\ options.learning /\ Props(Synced).adjusts =>
          \A s \in Range(segments) :
            \/ \E i \in Lessons : SamePair(users'[value'][i], s)
            \/ s.phrase = <<>> \/ Range(s.phrase) \cap Props(Synced).unchecked # {}

\* A lesson is learned in the table in force, was delivered, and was a choice offered
\* for those keys before it was learned: at once or, if it was staged, maybe under
\* other options. And of a delivered composition each staged phrase is learned, where
\* client and table let it be (learn, commit_phrase).
LearnsTheChosen ==
  [][calls' # <<>> /\ (users' # users \/ segments # <<>>) => TeachesTheChosen]_vars

\* With AUTO_SELECT, the key that breaks the match delivers the candidate under the
\* cursor, "not unconditionally the first, so a client's highlight is honoured
\* here as everywhere else" (pathime.h, PATHIME_OPT_TABLE_AUTO_SELECT).
AutoSelectHonoursHighlight ==
  [][\A key \in Keys :
       /\ TypeInput(key) /\ Delivered(calls') # <<>>
       /\ options.autoSelect /\ ~options.autoCommit
       => before' = before \o model.settled \o model.candidates[model.cursor + 1]]_vars

================================================================================
