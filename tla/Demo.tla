---------------------------------- MODULE Demo ----------------------------------
(***************************************************************************)
(* The demo client (demo/src/app.cc): one program that drives an input     *)
(* context of every engine over one document, and so the reference for     *)
(* what a client owes the library.  It applies deletions and commits to    *)
(* the document, tells the library of the document again after every call, *)
(* binds keys to candidates and pages of its own, raises the cap as its    *)
(* user scrolls, and acts itself on keys an engine declines.               *)
(*                                                                         *)
(* Each context is what its client can see of one: it composes, it offers  *)
(* candidates up to a cap, it may produce text and, where it knows what    *)
(* precedes the caret, have some of it deleted first.  What it says to any *)
(* one key is its own affair (Context.tla and the adapters).  The log, the *)
(* clipboard, the help page and the status line are left out.              *)
(***************************************************************************)
EXTENDS DemoText, DemoPanel

CONSTANTS
  Slots,       \* engines_: one engine and one context each, counted from 0
  Offering,    \* those that have candidates, and so a cap to raise
  Hovering,    \* those that can show a candidate without choosing it
  Revising,    \* those that take back what they committed
  ToneDigits,  \* those whose layout needs the digits: bopomofo
  Produced,    \* texts an engine composes and commits
  Typed,       \* characters on the user's keyboard
  Pasted,      \* texts the terminal reports as pasted
  PageSize,    \* kPageSize
  GrowPages,   \* pages a growing list grows by: 4
  DefaultCap,  \* max-candidates as a context is created: 64
  MaxCap,      \* bound: the largest value of it
  MaxOffered,  \* bound: candidates an engine has, when it has any
  MaxScalars   \* bound: scalars in the document

Digits == 49..57

ASSUME DemoAssumption ==
  /\ Slots = 0..(Cardinality(Slots) - 1) /\ Slots # {}
  /\ Hovering \subseteq Offering /\ Offering \subseteq Slots
  /\ Revising \subseteq Slots /\ ToneDigits \subseteq Slots
  /\ \A text \in Produced \cup Pasted :
       text \in Seq(Nat) \ {<<>>} /\ \A i \in DOMAIN text : IsScalarValue(text[i])
  /\ \A c \in Typed : c \in Nat /\ c >= 32 /\ IsScalarValue(c)
  /\ {PageSize, GrowPages, MaxOffered, MaxScalars} \subseteq Nat \ {0}
  /\ DefaultCap \in Nat \ {0} /\ MaxCap \in Nat
  /\ DefaultCap <= MaxCap /\ MaxCap <= IntMax

VARIABLES
  document,     \* document_, the caret always at its end
  surrounding,  \* surrounding_: how much of it is supplied
  snapshotText, \* snapshot_: what was supplied last, to whichever context
  active,       \* active_
  page,         \* page_
  pane,         \* pane_: "input" or "options"
  slotContexts, \* what the library holds for each slot
  deletion      \* the deletion of the last call: what was asked for, what was done

demoVars ==
  <<document, surrounding, snapshotText, active, page, pane, slotContexts, deletion>>

NoDeletion == [asked |-> <<>>, removed |-> <<>>]

\* known is the snapshot as the library holds it, the empty set for none.
NewContext == [preedit |-> <<>>, offered |-> 0, cursor |-> 0, overrides |-> FALSE,
               cap |-> DefaultCap, known |-> {}]

Count(c) == IF c.offered < c.cap THEN c.offered ELSE c.cap

\* One call of the user's in progress.
Now == [document |-> document, surrounding |-> surrounding, snapshot |-> snapshotText,
        active |-> active, page |-> page, pane |-> pane, contexts |-> slotContexts,
        deletion |-> NoDeletion]

Context(st) == st.contexts[st.active]
Composition == slotContexts[active]

\* The bound on the document is here, in what every action leaves.
Leave(st) ==
  /\ Len(st.document) <= MaxScalars
  /\ document' = st.document /\ surrounding' = st.surrounding
  /\ snapshotText' = st.snapshot /\ active' = st.active /\ page' = st.page
  /\ pane' = st.pane /\ slotContexts' = st.contexts /\ deletion' = st.deletion

\* erase_scalars and last_scalars, counted in characters.
Erased(text, start, count) ==
  SubSeq(text, 1, start) \o SubSeq(text, start + count + 1, Len(text))

LastOf(text, count) ==
  IF count >= Len(text) THEN text ELSE SubSeq(text, Len(text) - count + 1, Len(text))

-------------------------------------------------------------------------------
(* Telling the library.                                                    *)

\* refresh_surrounding_text. Under "none" the library keeps what it had.
Supplied(st) ==
  IF st.surrounding = "full" THEN st.document ELSE LastOf(st.document, 1)

\* Only a context that revises reads it back, so only there is it tracked.
Holds(s, text) == IF s \in Revising THEN {text} ELSE {}

RefreshSurroundingText(st) ==
  IF st.surrounding = "none" THEN st
  ELSE [st EXCEPT !.snapshot = Supplied(st),
                  !.contexts[st.active].known = Holds(st.active, Supplied(st))]

\* open: nothing typed, and the first engine told so.
DemoInit ==
  /\ document = <<>> /\ snapshotText = <<>> /\ surrounding = "full"
  /\ active \in Slots
  /\ page = 0 /\ pane = "input"
  /\ slotContexts = [s \in Slots |->
                       [NewContext EXCEPT !.known = IF s = active THEN Holds(s, <<>>) ELSE {}]]
  /\ deletion = NoDeletion

-------------------------------------------------------------------------------
(* The callbacks.                                                          *)

EndsWith(text, tail) ==
  Len(tail) <= Len(text) /\ SubSeq(text, Len(text) - Len(tail) + 1, Len(text)) = tail

\* on_delete: `count` scalars before the caret. It is declined where the document
\* no longer ends with what was supplied, or the range leaves that.
\* Mutation: it is never declined for a document that moved on.
OnDeleteAlways(st, count) ==
  IF count > Len(st.snapshot) THEN st
  ELSE [st EXCEPT
          !.document = Erased(@, Len(@) - count, count),
          !.deletion.removed = LastOf(st.document, count)]

\* Mutation: the position in the snapshot is taken for one in the document.
OnDeleteInSnapshot(st, count) ==
  LET start == Len(st.snapshot) - count
  IN IF ~EndsWith(st.document, st.snapshot) \/ start < 0 THEN st
     ELSE [st EXCEPT
             !.document = Erased(@, start, count),
             !.deletion.removed =
               SubSeq(st.document, start + 1, start + count)]

OnDelete(st, count) ==
  IF ~EndsWith(st.document, st.snapshot) \/ count > Len(st.snapshot) THEN st
  ELSE [st EXCEPT
          !.document = Erased(@, Len(@) - count, count),
          !.deletion.removed = LastOf(st.document, count)]

\* The library dispatches a deletion, framed by the snapshot it holds, then a
\* commit, after which it holds none (ContextCore.tla, Refresh).
Deleted(st, count) ==
  IF count = 0 THEN st
  ELSE LET held == CHOOSE text \in Context(st).known : TRUE
       IN OnDelete([st EXCEPT !.deletion.asked = LastOf(held, count)], count)

Committed(st, text) ==
  IF text = <<>> THEN st
  ELSE [st EXCEPT !.document = @ \o text, !.contexts[st.active].known = {}]

\* The composition the call leaves. One that composes nothing offers nothing.
Composed(st, preedit, offered, cursor) ==
  [st EXCEPT !.contexts[st.active] =
    [@ EXCEPT !.preedit = preedit, !.offered = offered, !.cursor = cursor]]

Emptied(st) == Composed(st, <<>>, 0, 0)

\* What a context may make of a key or a selection.
Deletions(st) ==
  IF st.active \in Revising
  THEN {0} \cup UNION {1..Len(text) : text \in Context(st).known} ELSE {0}

Lists(st) == IF st.active \in Offering THEN {0, MaxOffered} ELSE {0}

Compositions(st) ==
  {st, Emptied(st)}
    \cup {Composed(st, p, o, 0) : p \in Produced, o \in Lists(st)}

\* Space advances the cursor of the list it finds.
Advanced(st) ==
  IF Count(Context(st)) = 0 THEN {}
  ELSE {Composed(st, Context(st).preedit, Context(st).offered,
                 (Context(st).cursor + 1) % Count(Context(st)))}

Answers(st) ==
  UNION {{Committed(Deleted(next, k), text) :
            next \in Compositions(st) \cup Advanced(st)} :
           k \in Deletions(st), text \in Produced \cup {<<>>}}

-------------------------------------------------------------------------------
(* Candidates.                                                             *)

\* page_to_cursor
PageToCursor(st) ==
  IF Count(Context(st)) = 0 THEN st
  ELSE [st EXCEPT !.page = Context(st).cursor \div PageSize]

\* move_cursor_to: an engine that cannot show a candidate without choosing it
\* answers UNSUPPORTED, and one that can may still fail. Either way the library
\* has rolled its cursor back (Context.tla, CursorFails), and the page stays where
\* the caller put it. There is no reset here, though a failure wants one: what the
\* engine says next is any of Answers already.
MoveCursorTo(st, i, fails) ==
  IF i >= Count(Context(st)) THEN st
  ELSE IF i = Context(st).cursor THEN PageToCursor(st)
  ELSE IF fails \/ st.active \notin Hovering THEN st
  ELSE PageToCursor([st EXCEPT !.contexts[st.active].cursor = i])

\* A cap that changes truncates the list or appends to it, and brings the
\* cursor back onto it (ContextCore.tla, Materialize).
WithCap(st, cap) ==
  LET c == [Context(st) EXCEPT !.cap = cap]
  IN [st EXCEPT !.contexts[st.active] =
        [c EXCEPT !.cursor = IF @ < Count(c) THEN @ ELSE 0]]

\* grow_candidate_list: only a list the cap cut short has more. The cap is the
\* context's own from then on.
GrowCandidateList(st) ==
  LET cap == Context(st).cap
      next == cap + GrowPages * PageSize
  IN IF Count(Context(st)) < cap \/ next > MaxCap THEN st
     ELSE WithCap([st EXCEPT !.contexts[st.active].overrides = TRUE], next)

\* page_forward and page_back: the page is turned before the hover is tried.
\* Mutation: the hover stays where it was.
PageForwardAlone(st, fails) ==
  LET grown == IF (st.page + 1) * PageSize >= Count(Context(st))
               THEN GrowCandidateList(st) ELSE st
  IN IF (st.page + 1) * PageSize < Count(Context(grown))
     THEN [grown EXCEPT !.page = @ + 1] ELSE grown

PageForward(st, fails) ==
  LET grown == IF (st.page + 1) * PageSize >= Count(Context(st))
               THEN GrowCandidateList(st) ELSE st
  IN IF (st.page + 1) * PageSize < Count(Context(grown))
     THEN MoveCursorTo([grown EXCEPT !.page = @ + 1], (st.page + 1) * PageSize, fails)
     ELSE grown

PageBack(st, fails) ==
  IF st.page = 0 THEN st
  ELSE MoveCursorTo([st EXCEPT !.page = @ - 1], (st.page - 1) * PageSize, fails)

\* move_cursor: neither end wraps, and running off the end may grow the list.
MoveUp(st, fails) ==
  MoveCursorTo(st, IF Context(st).cursor = 0 THEN 0 ELSE Context(st).cursor - 1, fails)

MoveDown(st, fails) ==
  LET target == Context(st).cursor + 1
      grown  == IF target >= Count(Context(st)) THEN GrowCandidateList(st) ELSE st
  IN MoveCursorTo(grown, IF target >= Count(Context(grown))
                         THEN Count(Context(grown)) - 1 ELSE target, fails)

-------------------------------------------------------------------------------
(* Keys in the text field: input_key.                                      *)

InField == pane = "input"
Listing == Count(Composition) > 0

\* Digits pick from the page on screen, with Alt under every engine.
PickDigit ==
  /\ InField /\ Listing
  /\ \E d \in 1..9 :
       LET i == page * PageSize + d - 1
       IN /\ i < Count(Composition)
          /\ \E next \in Compositions(Now), text \in Produced \cup {<<>>} :
               Leave(RefreshSurroundingText([Committed(next, text) EXCEPT !.page = 0]))

\* The hover each of them tries may fail.
TurnPage(fails) ==
  /\ InField /\ Listing
  /\ Leave(PageForward(Now, fails)) \/ Leave(PageBack(Now, fails))

MoveHover(fails) ==
  /\ InField /\ Listing
  /\ Leave(MoveUp(Now, fails)) \/ Leave(MoveDown(Now, fails))

\* Does this program keep the key to itself?
Intercepts(c) == Listing /\ c \in Digits /\ active \notin ToneDigits

\* unhandled_key: a backspace erases, a character is inserted, anything else is
\* let go.
UnhandledKey(st, event) ==
  LET inserted == {c \in KeysymScalar(event.keysym) : c >= 32}
  IN CASE event.keysym = Named.Backspace /\ st.document # <<>> ->
            [st EXCEPT !.document = Erased(@, Len(@) - 1, 1)]
       [] inserted # {} -> [st EXCEPT !.document = @ \o SetToSeq(inserted)]
       [] OTHER -> st

\* A failed call: nothing was dispatched, and a reset is the documented recovery.
Recovered(st) == Emptied(PageToCursor(st))

\* The key is offered; the page follows the cursor, a key that was declined is acted
\* on, and the library is told of the document last of all.
\* Mutation: the library is told before the program acts on the key itself.
OfferRefreshingFirst(event) ==
  \/ Leave(RefreshSurroundingText(Recovered(Now)))
  \/ \E st \in Answers(Now) :
       LET told == RefreshSurroundingText(PageToCursor(st))
       IN Leave(told) \/ Leave(UnhandledKey(told, event))

Offer(event) ==
  \/ Leave(RefreshSurroundingText(Recovered(Now)))
  \/ \E st \in Answers(Now) :
       LET shown == PageToCursor(st)
       IN \/ Leave(RefreshSurroundingText(shown))
          \/ Leave(RefreshSurroundingText(UnhandledKey(shown, event)))

TypeCharacter ==
  /\ InField
  /\ \E c \in Typed : ~Intercepts(c) /\ Offer(ToPathimeKey(c))

Backspace == InField /\ Offer(NamedEvent("Backspace"))

\* Return, for every other named key: none of them is a character.
OtherKey == InField /\ Offer(NamedEvent("Enter"))

-------------------------------------------------------------------------------
(* The program's own keys: hotkey.                                         *)

\* Ctrl+E and the function keys. Neither context is told.
\* Mutation: nor is the library told of the document.
SetActiveSilently(s) ==
  /\ s \in Slots \ {active}
  /\ Leave([Now EXCEPT !.active = s, !.page = 0])

SetActive(s) ==
  /\ s \in Slots \ {active}
  /\ Leave(RefreshSurroundingText([Now EXCEPT !.active = s, !.page = 0]))

\* Ctrl+R forgets the composition, Ctrl+T keeps its text, and Ctrl+O is what
\* leaving the field comes to: the one and then the other.
Reset(st) == [Emptied(st) EXCEPT !.page = 0]
CommitComposition(st) == Reset(Committed(st, Context(st).preedit))

CtrlR == Leave(RefreshSurroundingText(Reset(Now)))
CtrlT == Leave(RefreshSurroundingText(CommitComposition(Now)))
CtrlO == Leave(RefreshSurroundingText(Reset(CommitComposition(Now))))

\* Ctrl+U: cycle_surrounding
NextSurrounding == [full |-> "fragment", fragment |-> "none", none |-> "full"]
CtrlU == Leave(RefreshSurroundingText([Now EXCEPT !.surrounding = NextSurrounding[@]]))

\* Ctrl+D, and a paste: the document changes with no engine involved.
CtrlD == document # <<>> /\ Leave(RefreshSurroundingText([Now EXCEPT !.document = <<>>]))

Paste ==
  \E text \in Pasted :
    Leave(RefreshSurroundingText([Now EXCEPT !.document = @ \o text]))

-------------------------------------------------------------------------------
(* The options panel: options_key.                                         *)

Tab ==
  Leave([Now EXCEPT !.pane = IF @ = "input" THEN "options" ELSE "input"])

InPanel == pane = "options"

\* max-candidates, at the context's level or the engine's: `l` turns engine_level_
\* over at any time, so which it is counts as a choice. An engine's value is felt
\* where the context has none of its own.
CapInfo == [min |-> 1, max |-> MaxCap]

AdjustCap ==
  /\ InPanel /\ active \in Offering
  /\ \E step \in Steps :
       LET cap == AdjustedInt(CapInfo, Composition.cap, step)
       IN \/ Leave(WithCap([Now EXCEPT !.contexts[active].overrides = TRUE], cap))
          \/ ~Composition.overrides /\ Leave(WithCap(Now, cap))

\* The context's own value dropped, whatever the engine has resolves.
ResetCap ==
  /\ InPanel /\ Composition.overrides
  /\ \E cap \in 1..MaxCap :
       Leave(WithCap([Now EXCEPT !.contexts[active].overrides = FALSE], cap))

\* An option that ends the composition; the page is left where it was.
AdjustResetting == InPanel /\ Leave(Emptied(Now))

DemoNext ==
  \/ PickDigit
  \/ \E fails \in BOOLEAN : TurnPage(fails) \/ MoveHover(fails)
  \/ TypeCharacter \/ Backspace \/ OtherKey
  \/ \E s \in Slots : SetActive(s)
  \/ CtrlR \/ CtrlT \/ CtrlO \/ CtrlU \/ CtrlD \/ Paste
  \/ Tab \/ AdjustCap \/ ResetCap \/ AdjustResetting

DemoSpec == DemoInit /\ [][DemoNext]_demoVars
=================================================================================
