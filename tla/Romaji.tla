--------------------------------- MODULE Romaji ---------------------------------
(***************************************************************************)
(* The Japanese composing front end, src/engines/anthy/romaji.cc: keys in, *)
(* kana out.  It holds the kana resolved so far and the Latin that still   *)
(* needs another key.  The romaji and kana tables are data and parameters  *)
(* here; what is modelled is the resolver over them.                       *)
(***************************************************************************)
EXTENDS Composition, SequencesExt

CONSTANTS
  RomajiTable,   \* kRomajiTable: romaji spelling -> kana
  Symbols,       \* kSymbolTable: a key that spells nothing -> what it produces
  Geminating,    \* consonants that double into a small tsu
  ContinuesN,    \* letters that can follow a pending n
  n,             \* the Latin letter n
  sokuon,        \* the small tsu
  hatsuon,       \* the syllabic n
  Katakana,      \* kScriptTable: hiragana -> katakana
  Halfwidth,     \* kScriptTable: hiragana -> its half-width form, of one or two
  Periods,       \* the full stops and commas, at either width -> the other style's
  Brackets,      \* corner brackets -> square ones
  Middot         \* the solidus -> the middle dot

ASSUME RomajiAssumption ==
  /\ DOMAIN RomajiTable # {} /\ DOMAIN RomajiTable \subseteq Text \ {<<>>}
  /\ \A r \in DOMAIN RomajiTable : RomajiTable[r] \in Text \ {<<>>}
  /\ \A s \in DOMAIN Symbols : s \in Scalar /\ Symbols[s] \in Text \ {<<>>}
  /\ \A h \in DOMAIN Katakana : h \in Scalar /\ Katakana[h] \in Scalar
  /\ \A h \in DOMAIN Halfwidth : h \in Scalar /\ Halfwidth[h] \in Text /\ Len(Halfwidth[h]) \in 1..2
  /\ \A style \in {Periods, Brackets, Middot} :
       \A c \in DOMAIN style : c \in Scalar /\ style[c] \in Scalar
  /\ Geminating \subseteq Scalar /\ ContinuesN \subseteq Scalar
  /\ {n, sokuon, hatsuon} \subseteq Scalar
  /\ n \notin Geminating

\* RomajiComposer: kana_ and pending_.
EmptyComposer == [kana |-> <<>>, pending |-> <<>>]

-------------------------------------------------------------------------------
(* Resolving.                                                              *)

\* romaji_lookup
Spells(s) == s \in DOMAIN RomajiTable

\* romaji_continues: another key could still resolve s.
Continues(s) == \E r \in DOMAIN RomajiTable : IsStrictPrefix(s, r)

\* symbol_lookup, or the character as itself.
Alone(s) == IF s \in DOMAIN Symbols THEN Symbols[s] ELSE <<s>>

Doubled(s) == Len(s) = 2 /\ s[1] = s[2] /\ s[1] \in Geminating

FinishesN(s) == Len(s) = 2 /\ s[1] = n /\ s[2] \notin ContinuesN

\* Facts of the tables as they stand that the resolver leans on: short of its end no
\* spelling holds a symbol, a spelling, a consonant doubled or an n that is finished,
\* whatever letter that starts at; and every consonant that doubles starts some
\* spelling, as does n.
ASSUME TableAssumption ==
  /\ \A r \in DOMAIN RomajiTable : \A i \in 1..(Len(r) - 1) :
       /\ r[i] \notin DOMAIN Symbols
       /\ \A j \in i..(Len(r) - 1) :
            LET part == SubSeq(r, i, j)
            IN ~Spells(part) /\ ~Doubled(part) /\ ~FinishesN(part)
  /\ \A g \in Geminating \cup {n} : Continues(<<g>>)

\* Kana put in front of what a resolution produced.
Before(kana, c) == [c EXCEPT !.kana = kana \o @]

\* step's loop: what the run of Latin s resolves to, the six branches in order.
\* Mutation: at a dead end everything stays pending.
ResolveWaiting[s \in Text] ==
  IF Spells(s)         THEN [kana |-> RomajiTable[s], pending |-> <<>>]
  ELSE IF Doubled(s)   THEN [kana |-> <<sokuon>>, pending |-> <<s[2]>>]
  ELSE IF FinishesN(s) THEN Before(<<hatsuon>>, ResolveWaiting[Tail(s)])
  ELSE IF Continues(s) THEN [kana |-> <<>>, pending |-> s]
  ELSE IF Len(s) = 1   THEN [kana |-> Alone(s[1]), pending |-> <<>>]
  ELSE [kana |-> <<>>, pending |-> s]

Resolve[s \in Text] ==
  IF Spells(s)         THEN [kana |-> RomajiTable[s], pending |-> <<>>]
  ELSE IF Doubled(s)   THEN [kana |-> <<sokuon>>, pending |-> <<s[2]>>]
  ELSE IF FinishesN(s) THEN Before(<<hatsuon>>, Resolve[Tail(s)])
  ELSE IF Continues(s) THEN [kana |-> <<>>, pending |-> s]
  ELSE IF Len(s) = 1   THEN [kana |-> Alone(s[1]), pending |-> <<>>]
  ELSE Before(<<s[1]>>, Resolve[Tail(s)])

\* RomajiComposer::step, as insert calls it for an unshifted key.
\* Mutation: the dead end that waits.
InsertWaiting(c, key) == Before(c.kana, ResolveWaiting[Append(c.pending, key)])

Insert(c, key) == Before(c.kana, Resolve[Append(c.pending, key)])

\* insert, PATHIME_OPT_ANTHY_LATIN_WITH_SHIFT: a shifted letter is a letter, and
\* what was pending is let through as it stands.
InsertShifted(c, letter) ==
  [kana |-> c.kana \o c.pending \o <<letter>>, pending |-> <<>>]

\* RomajiComposer::backspace: one pending letter, else one kana; with neither it
\* declines and changes nothing.
\* Mutation: with something pending it takes the kana before it.
BackspaceKana(c) ==
  IF c.kana # <<>> THEN [c EXCEPT !.kana = Front(@)]
  ELSE IF c.pending # <<>> THEN [c EXCEPT !.pending = Front(@)]
  ELSE c

Backspace(c) ==
  IF c.pending # <<>> THEN [c EXCEPT !.pending = Front(@)]
  ELSE IF c.kana # <<>> THEN [c EXCEPT !.kana = Front(@)]
  ELSE c

-------------------------------------------------------------------------------
(* Reading the buffer.                                                     *)

\* RomajiSettings: how the kana is shown. The options' defaults, in a script:
InScript(script) == [script |-> script, period |-> "kuten", symbol |-> "corner-slash"]

\* project_script
Scripted(text, script) ==
  CASE script = "hiragana" -> text
    [] script = "katakana" ->
         [i \in DOMAIN text |->
            IF text[i] \in DOMAIN Katakana THEN Katakana[text[i]] ELSE text[i]]
    [] script = "halfwidth" ->
         FlattenSeq([i \in DOMAIN text |->
            IF text[i] \in DOMAIN Halfwidth THEN Halfwidth[text[i]] ELSE <<text[i]>>])

\* project_styles: one character, by the substitutions the settings ask for.
Restyled(x, settings) ==
  IF settings.period = "fullwidth" /\ x \in DOMAIN Periods THEN Periods[x]
  ELSE IF settings.symbol \in {"bracket-slash", "bracket-middot"} /\ x \in DOMAIN Brackets
  THEN Brackets[x]
  ELSE IF settings.symbol \in {"corner-middot", "bracket-middot"} /\ x \in DOMAIN Middot
  THEN Middot[x]
  ELSE x

Styled(text, settings) ==
  IF settings = InScript(settings.script) THEN text
  ELSE [i \in DOMAIN text |-> Restyled(text[i], settings)]

\* finished_kana: a bare pending n is finished, anything longer is Latin.
FinishedKana(c) == c.kana \o (IF c.pending = <<n>> THEN <<hatsuon>> ELSE c.pending)

\* display: the pending Latin is shown as typed.
Display(c, settings) ==
  Styled(Scripted(c.kana, settings.script), settings) \o c.pending

\* reading: what anthy is given, hiragana whatever the script.
Reading(c, settings) == Styled(FinishedKana(c), settings)

CommitText(c, settings) ==
  Styled(Scripted(FinishedKana(c), settings.script), settings)
================================================================================
