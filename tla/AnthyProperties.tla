---------------------------- MODULE AnthyProperties ----------------------------
(***************************************************************************)
(* What the Japanese adapter must get right, for the person typing, for    *)
(* the client and for anthy's record.                                      *)
(***************************************************************************)
EXTENDS Anthy

\* No engine rewrites the preedit with a conversion the user has not chosen:
\* until conversion is asked for it is what was selected and the kana as typed,
\* in the script in force (pathime.h, preedit; show_kana).
ShowsWhatWasTyped ==
  ~conv.asked /\ ~indeterminate =>
    model = [model EXCEPT !.settled = Texts(eager),
                          !.active = Display(composer, Settings(options)),
                          !.tail = <<>>]

\* Once conversion is asked for, the highlighted candidate and the text previewed
\* for the active span are one (pathime.h, candidate_cursor; show_candidate). What
\* another context teaches anthy meanwhile can reorder what this one fetches next.
HighlightIsPreview ==
  conv.asked /\ ~indeterminate /\ ~situation.others =>
    /\ model.candidates # <<>>
    /\ model.active = model.candidates[model.cursor + 1]

\* What is on screen as it is committed: a lone n that was waiting is finished.
Finished(text, c, script) ==
  IF c.pending = <<n>> THEN Front(text) \o Scripted(<<hatsuon>>, script) ELSE text

OnScreen == IF conv.asked THEN published.preedit
                          ELSE Finished(published.preedit, composer, options.script)

\* Ending the composition commits what is on screen, and leaves nothing on it:
\* by Return, by pathime_context_commit, by a space after the last selection,
\* and by the next key of a conversion (pathime.h, preedit, RETURN).
EndDeliversPreedit ==
  [][/\ (Return \/ Commit) /\ indeterminate' = FALSE =>
          /\ before' = before \o OnScreen
          /\ published'.preedit = <<>>
     /\ InsertSpace => before' = before \o OnScreen \o <<space>>
     /\ (\E key \in Keys : TypeKeyAfter(key)) => before' = before \o OnScreen]_vars

\* The kana the composition stands for, selected or not.
WholeReading(e, c) == Readings(e) \o FinishedKana(c)

\* Converting, choosing, browsing, selecting, walking back and changing options
\* lose no kana and move none: only typing, deleting and ending change it.
\* (select_from_eager re-seeds the buffer from anthy's readings; Escape and
\* Backspace restore what a selection consumed.)
ReadingSurvives ==
  [][/\ composer # EmptyComposer \/ eager # <<>>
     /\ composer' # EmptyComposer \/ eager' # <<>>
     /\ \/ Convert \/ MoveCursor \/ SelectCandidate \/ SetOption
        \/ Escape \/ TypeOther
        \/ BackspaceKey /\ (conv.asked \/ composer = EmptyComposer)
     => WholeReading(eager', composer') = WholeReading(eager, composer)]_vars

\* Selecting a candidate settles the text the list shows there, whether the
\* selection ends the composition or not (select_candidate, select_from_eager).
SelectDeliversShown ==
  [][~situation.others =>
       \A k \in 0..(Len(model.candidates) - 1) :
         Able /\ ~indeterminate' /\ Select(k) =>
           LET text == model.settled \o model.candidates[k + 1]
           IN model'.settled = text \/ before' = before \o text]_vars

\* anthy is told of a segment once, and when a conversion ends in full view of it
\* what it was told adds up to the text committed for that conversion
\* (record_choices: never anything the user did not see).
TaughtWhatWasCommitted ==
  [][/\ \A lesson \in lessons' :
          lesson[1] = 0 \/ conv.recorded[lesson[1]] = <<>>
     /\ conv.asked /\ ~conv'.asked /\ before' # before /\ lessons' # {} =>
          LET told(i) == IF conv.recorded[i] # <<>> THEN conv.recorded[i]
                         ELSE (CHOOSE lesson \in lessons' : lesson[1] = i)[2]
          IN before' = before \o Texts(eager)
                              \o FlattenSeq([i \in 1..conv.count |-> told(i)])]_vars

================================================================================
