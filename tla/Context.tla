-------------------------------- MODULE Context --------------------------------
(***************************************************************************)
(* The context layer over an arbitrary adapter: what context.cc and        *)
(* candidates.cc guarantee whatever lies behind the backend seam           *)
(* (src/backend.h).  The adapter is nondeterministic within the seam's     *)
(* rules: it may rewrite the spans, produce text, replace its candidate    *)
(* list or keep it, decline to hover, and give out partway.  The client    *)
(* keeps to the header's Status section: after a failure it resets.        *)
(***************************************************************************)
EXTENDS ContextCore

CONSTANTS
  Spans,     \* texts an adapter may put in a span or commit, the empty one too
  Lists,     \* candidate lists an adapter may offer, the empty one too
  Caps,      \* values of PATHIME_OPT_MAX_CANDIDATES
  MaxText    \* bound: scalars in the document at which no more is typed

ASSUME AdapterAssumption ==
  /\ Spans \subseteq Text /\ <<>> \in Spans
  /\ Lists \subseteq Seq(Text) /\ <<>> \in Lists
  /\ Caps \subseteq Nat \ {0}
  /\ MaxText \in Nat

VARIABLES
  offered,         \* the adapter's whole candidate list for the active span
  cap,             \* PATHIME_OPT_MAX_CANDIDATES as resolved for this context
  output,          \* pathime_context::output, which outlives a failed call
  indeterminate    \* pathime_context::indeterminate

adapterVars == <<offered, cap, output, indeterminate>>
vars == <<contextVars, adapterVars>>

Init ==
  /\ ContextInit
  /\ offered = <<>>
  /\ cap \in Caps
  /\ output = NoOutput
  /\ indeterminate = FALSE

Able == Idle /\ ~indeterminate

-------------------------------------------------------------------------------
(* The adapter, within the rules of backend.h.                             *)

\* The same list, or a new one with the cursor on its first entry.
Lister(m) ==
  {[model |-> m, offered |-> offered]}
    \cup {[model |-> [m EXCEPT !.candidates = <<>>, !.cursor = 0],
            offered |-> l] : l \in Lists}

Outputs == {[NoOutput EXCEPT !.commit = t] : t \in Spans}

\* Finish a call: materialize, publish, dispatch, drain the output.
\* Mutation: what was dispatched is not taken out of the output.
FinishUndrained(step, out, force) ==
  /\ Refresh(Materialize(step.model, step.offered, cap'), out, force)
  /\ offered' = step.offered
  /\ output' = out

Finish(step, out, force) ==
  /\ Refresh(Materialize(step.model, step.offered, cap'), out, force)
  /\ offered' = step.offered
  /\ output' = NoOutput

-------------------------------------------------------------------------------
(* The API.                                                                *)

\* pathime_context_process_key: the adapter may do anything but delete.
ProcessKey ==
  /\ Able
  /\ Len(before) < MaxText
  /\ UNCHANGED cap
  /\ \E s, a \in Spans, out \in Outputs :
       \E step \in Lister([model EXCEPT !.settled = s, !.active = a]) :
         Finish(step, out, FALSE)
  /\ owed' \in {"nothing", "insert", "erase"}
  /\ UNCHANGED indeterminate

\* pathime_context_commit
CommitComposition ==
  /\ Able
  /\ Len(before) < MaxText
  /\ UNCHANGED cap
  /\ Finish([model |-> EmptyModel, offered |-> <<>>],
            [NoOutput EXCEPT !.commit = published.preedit], FALSE)
  /\ UNCHANGED <<owed, indeterminate>>

\* pathime_context_set_candidate_cursor, index in range: the core's cursor moves
\* first; the adapter may rewrite the active span. The output is not cleared,
\* for there is none to come.
MoveCursor ==
  /\ Able
  /\ UNCHANGED cap
  /\ \E i \in 0..(Len(model.candidates) - 1), a \in Spans :
       Finish([model |-> [model EXCEPT !.cursor = i, !.active = a],
               offered |-> offered], output, FALSE)
  /\ UNCHANGED <<owed, indeterminate>>

\* The adapter cannot hover, or gives out: the cursor is rolled back and nothing
\* is refreshed. Only giving out leaves the composition indeterminate.
CursorFails ==
  /\ Able
  /\ model.candidates # <<>>
  /\ \/ UNCHANGED <<model, indeterminate>>
     \/ /\ \E a \in Spans : model' = [model EXCEPT !.active = a]
        /\ indeterminate' = TRUE
  /\ calls' = <<>>
  /\ UNCHANGED <<published, snapshot, callbacks, before, after, shown, owed,
                 offered, cap, output>>

\* pathime_context_select_candidate, index in range: settle the span and go on
\* to what follows, or commit everything when nothing does.
SelectCandidate ==
  /\ Able
  /\ Len(before) < MaxText
  /\ UNCHANGED cap
  /\ \E i \in 1..Len(model.candidates) :
       LET settled == model.settled \o model.candidates[i]
       IN \/ /\ Len(settled) <= MaxText
             /\ \E a \in Spans \ {<<>>}, l \in Lists :
                  Finish([model |-> [EmptyModel EXCEPT !.settled = settled,
                                                       !.active = a],
                          offered |-> l], NoOutput, FALSE)
          \/ Finish([model |-> EmptyModel, offered |-> <<>>],
                    [NoOutput EXCEPT !.commit = settled], FALSE)
  /\ UNCHANGED <<owed, indeterminate>>

\* The adapter gives out: the cursor stays where the selection put it, whatever
\* text was produced stays in the output, and nothing is refreshed.
SelectFails ==
  /\ Able
  /\ \E i \in 0..(Len(model.candidates) - 1), out \in Outputs :
       /\ model' = [model EXCEPT !.cursor = i]
       /\ output' = out
  /\ indeterminate' = TRUE
  /\ calls' = <<>>
  /\ UNCHANGED <<published, snapshot, callbacks, before, after, shown, owed,
                 offered, cap>>

\* pathime_context_reset: also the way back from a failure, and then announced
\* whatever it finds.
Reset ==
  /\ Idle
  /\ UNCHANGED cap
  /\ indeterminate' = FALSE
  /\ Finish([model |-> EmptyModel, offered |-> <<>>], NoOutput, indeterminate)
  /\ UNCHANGED owed

\* PATHIME_OPT_MAX_CANDIDATES resolves to another value: options_changed, which
\* may drop the list for a fresh one, then a forced refresh.
SetCap ==
  /\ Able
  /\ \E c \in Caps : cap' = c
  /\ \E step \in Lister(model) : Finish(step, NoOutput, TRUE)
  /\ UNCHANGED <<owed, indeterminate>>

Inform == Idle /\ SetSurroundingText /\ UNCHANGED adapterVars

Fallback == ClientActs /\ UNCHANGED adapterVars

Next ==
  \/ ProcessKey \/ CommitComposition \/ MoveCursor \/ CursorFails
  \/ SelectCandidate \/ SelectFails \/ Reset \/ SetCap
  \/ Inform \/ Fallback

Spec == Init /\ [][Next]_vars

-------------------------------------------------------------------------------
(* What the layer guarantees.                                              *)

\* The list never exceeds the cap in force and the highlighted position is one
\* of its entries, or 0 with none: every position the client can read is there
\* (candidates.cc materialize_candidates; pathime.h, candidate_cursor).
CursorOnList ==
  ~indeterminate =>
    /\ published.count <= cap
    /\ published.cursor = 0 \/ published.cursor < published.count

\* What the client was last handed is what the library holds, and what
\* pathime_context_candidate reads, and no output is left waiting for a later call:
\* nothing goes unannounced unless the call failed (refresh_composition).
ClientUpToDate ==
  ~indeterminate => /\ output = NoOutput
                    /\ published = Project(model)
                    /\ "changed" \in callbacks => shown = published

================================================================================
