------------------------------ MODULE RomajiTyping ------------------------------
(***************************************************************************)
(* Someone types into the Japanese front end and takes letters back. Under *)
(* romaji entry the buffer is compared with what reading the same letters  *)
(* in one go, from left to right, makes of them; under kana entry with the *)
(* kana on the keys.                                                       *)
(***************************************************************************)
EXTENDS Romaji

CONSTANTS
  TypedKeys,  \* the keys typed
  KanaKeys,   \* kKanaTable: key -> the kana or mark on it
  Marks,      \* the voiced and the semi-voiced mark
  Marked,     \* kVoicedKana, kSemiVoicedKana: <<kana, mark>> -> the marked kana
  Fullwidth,  \* what is not of half width
  MaxTyped    \* bound: keys since a letter was last taken back, kana in the buffer

ASSUME KanaAssumption ==
  /\ \A k \in DOMAIN KanaKeys : k \in Scalar /\ KanaKeys[k] \in Scalar
  /\ Marks \subseteq Scalar
  /\ \A pair \in DOMAIN Marked : pair \in Scalar \X Marks /\ Marked[pair] \in Scalar
  /\ TypedKeys \subseteq Scalar

\* Facts of the tables as they stand: a marked kana is made in one way, is on no
\* key and takes no mark; and what the keys can make has a half-width form.
Struck == {KanaKeys[k] : k \in DOMAIN KanaKeys}
Made == {Marked[pair] : pair \in DOMAIN Marked}

ASSUME MarkAssumption ==
  /\ IsInjective(Marked)
  /\ Made \cap (Struck \cup Marks \cup {pair[1] : pair \in DOMAIN Marked}) = {}
  /\ Struck \cup Made \subseteq DOMAIN Halfwidth

\* insert_kana: a mark joins the kana before it where that takes one. A key with
\* no kana on it is declined.
InsertKana(c, key) ==
  LET struck == KanaKeys[key]
      joins == c.kana # <<>> /\ <<Last(c.kana), struck>> \in DOMAIN Marked
  IN [c EXCEPT !.kana = IF joins THEN Append(Front(@), Marked[<<Last(@), struck>>])
                                 ELSE Append(@, struck)]

VARIABLES
  buffer,    \* RomajiComposer
  method,    \* PATHIME_OPT_ANTHY_TYPING_METHOD
  base,      \* kana that stood in the buffer when typing was last resumed
  typed      \* what was typed since: Latin, what was pending then in front, or
             \* the kana on the keys

typingVars == <<buffer, method, base, typed>>

TypingInit == /\ buffer = EmptyComposer
        /\ method \in {"romaji", "kana"}
        /\ base = <<>> /\ typed = <<>>

TypingRoom == Len(typed) < MaxTyped /\ Len(buffer.kana) < MaxTyped

Type == /\ TypingRoom /\ method = "romaji"
        /\ \E k \in TypedKeys :
             /\ buffer' = Insert(buffer, k)
             /\ typed' = Append(typed, k)
        /\ UNCHANGED <<method, base>>

\* The shifted letter and everything before it are past resolving.
TypeShifted == /\ TypingRoom /\ method = "romaji"
               /\ \E k \in TypedKeys : buffer' = InsertShifted(buffer, k)
               /\ base' = buffer'.kana
               /\ typed' = buffer'.pending
               /\ UNCHANGED method

TypeKana == /\ TypingRoom /\ method = "kana"
            /\ \E k \in DOMAIN KanaKeys :
                 /\ buffer' = InsertKana(buffer, k)
                 /\ typed' = Append(typed, KanaKeys[k])
            /\ UNCHANGED <<method, base>>

Erase == /\ buffer # EmptyComposer
         /\ buffer' = Backspace(buffer)
         /\ base' = buffer'.kana
         /\ typed' = buffer'.pending
         /\ UNCHANGED method

\* Choosing the other method resets the composition.
\* Mutation: what was typed stays.
SetMethodMidway ==
  /\ method' \in {"romaji", "kana"} \ {method}
  /\ base' = buffer.kana /\ typed' = buffer.pending
  /\ UNCHANGED buffer

SetMethod ==
  /\ method' \in {"romaji", "kana"} \ {method}
  /\ buffer' = EmptyComposer
  /\ base' = <<>> /\ typed' = <<>>

TypingNext == Type \/ TypeShifted \/ TypeKana \/ Erase \/ SetMethod

TypingSpec == TypingInit /\ [][TypingNext]_typingVars

-------------------------------------------------------------------------------

\* The whole run read at once: the longest spelling at the front, else a doubled
\* consonant, else a finished n; a run that could still become a spelling waits;
\* any other first letter stands for itself.
Longest(s) ==
  LET fits == {r \in DOMAIN RomajiTable : IsPrefix(r, s)}
  IN CHOOSE r \in fits : \A other \in fits : Len(other) <= Len(r)

Drop(s, k) == SubSeq(s, k + 1, Len(s))

ReadWhole[s \in Text] ==
  IF s = <<>> THEN EmptyComposer
  ELSE IF \E r \in DOMAIN RomajiTable : IsPrefix(r, s)
  THEN Before(RomajiTable[Longest(s)], ReadWhole[Drop(s, Len(Longest(s)))])
  ELSE IF Len(s) > 1 /\ Doubled(SubSeq(s, 1, 2))
  THEN Before(<<sokuon>>, ReadWhole[Tail(s)])
  ELSE IF Len(s) > 1 /\ FinishesN(SubSeq(s, 1, 2))
  THEN Before(<<hatsuon>>, ReadWhole[Tail(s)])
  ELSE IF Continues(s) THEN [kana |-> <<>>, pending |-> s]
  ELSE Before(Alone(s[1]), ReadWhole[Tail(s)])

\* Resolving key by key gives what reading the run as a whole gives: no letter
\* is lost, doubled or moved past another, whatever was typed before it
\* (RomajiComposer::step, and the note on order at its sixth branch).
ResolvesLikeWhole ==
  method = "romaji" => buffer = Before(base, ReadWhole[typed])

\* A marked kana as the kana and the mark it was struck as.
Unmarked(text) ==
  FlattenSeq([i \in DOMAIN text |->
    IF \E pair \in DOMAIN Marked : Marked[pair] = text[i]
    THEN CHOOSE pair \in DOMAIN Marked : Marked[pair] = text[i]
    ELSE <<text[i]>>])

AllSettings ==
  [script : {"hiragana", "katakana", "halfwidth"}, period : {"kuten", "fullwidth"},
   symbol : {"corner-slash", "corner-middot", "bracket-slash", "bracket-middot"}]

\* However the styles are set, no half-width form is shown at full width.
ASSUME WidthAssumption ==
  \A h \in DOMAIN Halfwidth, settings \in AllSettings :
    ToSet(Styled(Halfwidth[h], settings)) \cap Fullwidth = {}

\* Every kana and mark struck is in the buffer once and in the order it was
\* struck, joined with the one before it wherever the two make one kana, and
\* nothing is ever pending (insert_kana). However the styles are set, in half-width
\* katakana all of it is shown at half width (project_script, project_styles).
KanaFollowsKeys ==
  method = "kana" =>
    /\ buffer.pending = <<>>
    /\ Unmarked(buffer.kana) = Unmarked(base) \o typed
    /\ \A i \in 2..Len(buffer.kana) :
         <<buffer.kana[i - 1], buffer.kana[i]>> \notin DOMAIN Marked
    /\ \A settings \in AllSettings :
         settings.script = "halfwidth" =>
           ToSet(Display(buffer, settings)) \cap Fullwidth = {}

\* From c to d the last character shown is gone: in half-width katakana that is all
\* the one kana is written as.
TakesLast(c, d, settings) ==
  LET whole == Display(c, settings)
      left  == Display(d, settings)
  IN /\ IsPrefix(left, whole)
     /\ Len(whole) - Len(left) =
          IF settings.script = "halfwidth" /\ c.pending = <<>>
             /\ Last(c.kana) \in DOMAIN Halfwidth
          THEN Len(Halfwidth[Last(c.kana)]) ELSE 1

\* A backspace takes away the last character shown and no other, in every script
\* and style (backspace, display).
EraseTakesLastShown ==
  [][Erase => \A settings \in AllSettings : TakesLast(buffer, buffer', settings)]_typingVars
================================================================================
