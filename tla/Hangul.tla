-------------------------------- MODULE Hangul --------------------------------
(***************************************************************************)
(* The Hangul adapter (src/engines/hangul/hangul_backend.cc) in one input  *)
(* context.  libhangul is an external automaton known here by what it      *)
(* reports after each call: the text it finished (its commit string), the  *)
(* syllable it is still assembling (its preedit string) and whether it     *)
(* took the key.  PATHIME_OPT_HANGUL_PREEDIT decides where that text goes: *)
(* into the client's document at once ("none"), into the preedit until the *)
(* syllable is finished ("syllable"), or until the word is ("word").       *)
(***************************************************************************)
EXTENDS ContextCore

CONSTANTS
  Preedits,         \* the syllables libhangul can be assembling
  Finished,         \* the texts it can report as finished
  MaxText,          \* bound: scalars in view at which no more is typed
  SwitchMidway,     \* the changes <<from, to>> of the option it makes while composing
  CaretByPreedit    \* does the client trust an empty preedit to move the caret?

ASSUME TextsAssumption ==
  /\ Preedits \subseteq Text \ {<<>>}
  /\ Finished \subseteq Text \ {<<>>}

Mode == {"none", "syllable", "word"}

ASSUME PolicyAssumption ==
  /\ MaxText \in Nat
  /\ SwitchMidway \subseteq Mode \X Mode
  /\ CaretByPreedit \in BOOLEAN

VARIABLES
  hic,          \* the syllable libhangul is assembling
  inDocument,   \* in_document_: the provisional syllable put in the document
  mode,         \* PATHIME_OPT_HANGUL_PREEDIT as resolved for this context
  engaged       \* client: a handled key has not been followed by an end

hangulVars == <<hic, inDocument, mode, engaged>>
vars == <<contextVars, hangulVars>>

TypeOK ==
  /\ ContextTypeOK
  /\ hic \in Text
  /\ inDocument \in Text
  /\ mode \in Mode
  /\ engaged \in BOOLEAN

\* Creation refuses "none" to a client without delete_surrounding_text.
Init ==
  /\ ContextInit
  /\ hic = <<>>
  /\ inDocument = <<>>
  /\ mode \in Mode
  /\ mode = "none" => "delete" \in callbacks
  /\ engaged = FALSE

Visible == before \o model.settled \o model.active
Room == Len(Visible) + Len(after) < MaxText

-------------------------------------------------------------------------------
(* libhangul, seen from the adapter.                                       *)

\* hangul_ic_process for a key it takes: the syllable grows or changes; or it
\* is finished and another begins; or a symbol ends it; or, with nothing
\* pending, a symbol stands alone.
HicTakes(pending) ==
  {[committed |-> <<>>, preedit |-> p] : p \in Preedits}
    \cup {[committed |-> f, preedit |-> <<>>] : f \in Finished}
    \cup (IF pending = <<>> THEN {}
          ELSE {[committed |-> f, preedit |-> p] : f \in Finished, p \in Preedits})

\* A key it declines flushes what was pending into the commit string.
HicDeclines(pending) == [committed |-> pending, preedit |-> <<>>]

\* hangul_ic_backspace with something pending leaves a shorter syllable, or
\* none; it finishes nothing.
HicBackspaces ==
  {[committed |-> <<>>, preedit |-> p] : p \in Preedits \cup {<<>>}}

-------------------------------------------------------------------------------
(* The adapter's helpers.  Each maps what it is given to the model, output *)
(* and in_document_ it leaves behind.                                      *)

State(m, out, written) == [model |-> m, out |-> out, written |-> written]

\* The deletion harvest asks for: the syllable it wrote last, in scalars.
\* Mutation: one scalar too many.
StaleLengthPlus(written) == IF written = <<>> THEN 0 ELSE Len(written) + 1

StaleLength(written) == Len(written)

\* harvest: place libhangul's two strings according to the mode.
Harvest(ic, st) ==
  CASE mode = "none" ->
         State([st.model EXCEPT !.active = <<>>],
               [st.out EXCEPT !.offset = -StaleLength(st.written),
                              !.count  = StaleLength(st.written),
                              !.commit = @ \o ic.committed \o ic.preedit],
               ic.preedit)
    [] mode = "word" ->
         State([st.model EXCEPT !.settled = @ \o ic.committed,
                                !.active = ic.preedit],
               st.out, st.written)
    [] mode = "syllable" ->
         State([st.model EXCEPT !.active = ic.preedit],
               [st.out EXCEPT !.commit = @ \o ic.committed], st.written)

\* end_composition: text already in the document stands and the flushed copy
\* of it is dropped; otherwise everything held is committed.
\* Mutation: the adapter goes on tracking what it wrote.
EndCompositionTracking(flushed, st) ==
  IF st.written # <<>>
  THEN State([st.model EXCEPT !.active = <<>>], st.out, st.written)
  ELSE State([st.model EXCEPT !.settled = <<>>, !.active = <<>>],
             [st.out EXCEPT !.commit = @ \o st.model.settled \o flushed], <<>>)

EndComposition(flushed, st) ==
  IF st.written # <<>>
  THEN State([st.model EXCEPT !.active = <<>>], st.out, <<>>)
  ELSE State([st.model EXCEPT !.settled = <<>>, !.active = <<>>],
             [st.out EXCEPT !.commit = @ \o st.model.settled \o flushed],
             <<>>)

\* prepare_revision: can what was written still be deleted? If not, libhangul
\* is reset and the written syllable becomes final.
Revisable == inDocument = <<>> \/ CanDeleteBefore(Len(inDocument))
Pending   == IF Revisable THEN hic ELSE <<>>
Entering  == State(model, NoOutput, IF Revisable THEN inDocument ELSE <<>>)

\* Leave the adapter with state st and finish the call.
Leave(st, pending, force) ==
  /\ hic' = pending
  /\ inDocument' = st.written
  /\ Refresh(st.model, st.out, force)
  /\ UNCHANGED mode

Handled   == owed' = "nothing" /\ engaged' = TRUE
Unhandled(fallback) == owed' = fallback /\ engaged' = FALSE

-------------------------------------------------------------------------------
(* pathime_context_process_key, one action per way through process_key.    *)

\* A printable key libhangul takes.
TypeJamo ==
  /\ Idle /\ Room
  /\ \E ic \in HicTakes(Pending) :
       Leave(Harvest(ic, Entering), ic.preedit, FALSE)
  /\ Handled

\* A printable key it declines ends the composition; the client inserts it.
\* Mutation: what libhangul flushed is committed besides being harvested.
TypeDeclinedTwice ==
  /\ Idle /\ Room
  /\ LET ic == HicDeclines(Pending)
     IN Leave(EndComposition(ic.committed, Harvest(ic, Entering)), <<>>, FALSE)
  /\ Unhandled("insert")

TypeDeclined ==
  /\ Idle /\ Room
  /\ LET ic == HicDeclines(Pending)
     IN Leave(EndComposition(<<>>, Harvest(ic, Entering)), <<>>, FALSE)
  /\ Unhandled("insert")

\* A chord, or a key with no US-QWERTY character (Return, Escape, an arrow):
\* libhangul never sees it.
TypeOther ==
  /\ Idle /\ Room
  /\ Leave(EndComposition(Pending, Entering), <<>>, FALSE)
  /\ \E fallback \in {"nothing", "insert"} : Unhandled(fallback)

\* Backspace takes a component from the pending syllable ...
BackspacePending ==
  /\ Idle
  /\ Pending # <<>>
  /\ \E ic \in HicBackspaces :
       Leave(Harvest(ic, Entering), ic.preedit, FALSE)
  /\ Handled

\* ... or, with none, a scalar from the word held in the preedit ...
BackspaceSettled ==
  /\ Idle
  /\ Pending = <<>>
  /\ mode = "word" /\ model.settled # <<>>
  /\ Leave([Entering EXCEPT !.model.settled =
              SubSeq(@, 1, Len(@) - 1)], <<>>, FALSE)
  /\ Handled

\* ... or is the client's.
\* Mutation: the held word is not asked about.
BackspaceDeclinedEarly ==
  /\ Idle
  /\ Pending = <<>>
  /\ Leave(Entering, <<>>, FALSE)
  /\ Unhandled("erase")

BackspaceDeclined ==
  /\ Idle
  /\ Pending = <<>>
  /\ mode # "word" \/ model.settled = <<>>
  /\ Leave(Entering, <<>>, FALSE)
  /\ Unhandled("erase")

-------------------------------------------------------------------------------
(* The other calls.                                                        *)

\* pathime_context_commit: end_composition without prepare_revision.
Commit ==
  /\ Idle
  /\ Leave(EndComposition(hic, State(model, NoOutput, inDocument)), <<>>, FALSE)
  /\ owed' = "nothing" /\ engaged' = FALSE

\* pathime_context_reset: hangul_ic_reset, the model cleared, no output. No
\* Hangul call leaves the composition indeterminate, so nothing is forced.
\* Mutation: reset flushes libhangul where it should discard.
ResetByFlush ==
  /\ Idle
  /\ Leave(State(EmptyModel, [NoOutput EXCEPT !.commit = hic], <<>>), <<>>, FALSE)
  /\ owed' = "nothing" /\ engaged' = FALSE

Reset ==
  /\ Idle
  /\ Leave(State(EmptyModel, NoOutput, <<>>), <<>>, FALSE)
  /\ owed' = "nothing" /\ engaged' = FALSE

\* The option resolves to another mode, set on the context or on its engine.
\* It is not a resets_composition option and the adapter's options_changed is
\* the default no-op, so nothing moves; the client is told regardless. Without
\* delete_surrounding_text "none" is refused or capped to "syllable".
SetMode ==
  /\ Idle
  /\ \E m \in Mode :
       /\ ~engaged \/ <<mode, m>> \in SwitchMidway
       /\ m = "none" => "delete" \in callbacks
       /\ mode' = m
  /\ Refresh(model, NoOutput, TRUE)
  /\ UNCHANGED <<hic, inDocument, engaged, owed>>

\* The client refreshes its snapshot whenever it likes, or never.
Inform == SetSurroundingText /\ UNCHANGED hangulVars

\* What the client does with an unhandled key.
Fallback == ClientActs /\ UNCHANGED hangulVars

\* A careful client ends the composition before it moves the caret (pathime.h,
\* MOVING THE CARET) and may leave the snapshot for later. The other one looks
\* for a preedit, finds none, and refreshes its snapshot.
Wander ==
  /\ MoveCaret
  /\ IF CaretByPreedit
     THEN /\ published.preedit = <<>>
          /\ snapshot' = Around(before', after', Len(before'), Len(after'))
     ELSE ~engaged /\ UNCHANGED snapshot
  /\ UNCHANGED hangulVars

Next ==
  \/ Commit \/ Reset \/ SetMode
  \/ TypeJamo \/ TypeDeclined \/ TypeOther
  \/ BackspacePending \/ BackspaceSettled \/ BackspaceDeclined
  \/ Inform \/ Fallback \/ Wander

Spec == Init /\ [][Next]_vars
================================================================================
