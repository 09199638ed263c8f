------------------------------- MODULE AnthyProofs -------------------------------
(***************************************************************************)
(* Proofs about the Japanese adapter, for every romaji table, every set of *)
(* keys and options, and whatever anthy answers.                           *)
(*                                                                         *)
(* A call in progress is followed from Enter to Leave. What every helper   *)
(* leaves is Sound: either the kana is shown and anthy holds nothing or an *)
(* eager conversion of it, or the conversion asked for is shown as it was  *)
(* chosen. Between calls the list shown is, besides, the beginning of      *)
(* anthy's list for the active segment, and the cursor is on it.           *)
(*                                                                         *)
(* The second part is the typing front end, for every run of keys: what is *)
(* pending is Open, nothing of the tables stands in it, so that resolving  *)
(* one key more of it is reading one letter more of the whole run.         *)
(***************************************************************************)
EXTENDS AnthyProperties, RomajiTyping, ContextProofs

Records == UNION {s.records : s \in Situations}

NonEmpty == Text \ {<<>>}
Segment == [reading : NonEmpty, candidates : Seq(NonEmpty) \ {<<>>}]

\* What is assumed of anthy: asked for a reading it may fail to answer; if it
\* answers, its segments' readings make up the reading it was given, and every
\* segment has a candidate.
AnthyAnswers ==
  \A reading \in Text, r \in Records :
    /\ Analyse(reading, r) \in Seq(Segment)
    /\ Analyse(reading, r) # <<>> => Readings(Analyse(reading, r)) = reading

\* What is assumed of the client: it changes the script, and lowers the cap, only
\* between compositions.
ChangesBetween == \A s \in Situations : {"script", "cap"} \cap s.midway = {}

Composer == [kana : Text, pending : Seq(Keys)]
Span == [text : Text, reading : Text]
Conversion == [asked : BOOLEAN, count : Nat, active : Nat \ {0}, chosen : Seq(Nat),
               recorded : Seq(Text), listed : Nat]
Plainly == [commit : Text, offset : {0}, count : {0}]

\* A call in progress.
CallState ==
  [model : Model, out : Plainly, composer : Composer, eager : Seq(Span),
   conv : Conversion, anthy : Seq(Segment), record : Records, options : Options,
   lessons : SUBSET (Nat \X Text), up : BOOLEAN, taught : Records]

Begins(had, list) == \E k \in 0..Len(list) : had = SubSeq(list, 1, k)

\* The kana is on screen, behind what was selected.
KanaShown(st) ==
  /\ st.model.settled = Texts(st.eager)
  /\ st.model.active = Display(st.composer, Settings(st.options))
  /\ st.model.tail = <<>>

\* Anthy holds nothing, and nothing is offered.
HoldsNothing(st) ==
  st.conv = NoConversion /\ st.anthy = <<>> /\ st.model.candidates = <<>>

\* Anthy holds a conversion of the kana nobody asked for.
Offers(st) ==
  /\ ~st.conv.asked /\ st.conv.count > 0 /\ st.conv.active = 1
  /\ st.composer # EmptyComposer
  /\ st.anthy # <<>> => /\ Len(st.anthy) = st.conv.count
                        /\ Readings(st.anthy) = FinishedKana(st.composer)

\* As long as anthy's record is this context's alone, what is offered is what anthy
\* would answer now.
OffersCurrent(st) ==
  LET answer == Analyse(FinishedKana(st.composer), st.record)
  IN /\ answer # <<>> /\ (st.anthy # <<>> => st.anthy = answer)
     /\ Begins(st.model.candidates, answer[1].candidates)

\* A conversion that was asked for: every segment at one of its candidates, ...
Chooses(st) ==
  /\ st.conv.asked /\ Len(st.anthy) = st.conv.count /\ st.conv.active <= st.conv.count
  /\ st.composer # EmptyComposer
  /\ Len(st.conv.chosen) = st.conv.count
  /\ \A i \in 1..st.conv.count : /\ st.conv.chosen[i] < Len(st.anthy[i].candidates)
                                 /\ st.conv.chosen[i] < st.options.cap

\* ... those settled alone told to anthy, as they were chosen, ...
Teaches(st) ==
  /\ Len(st.conv.recorded) = st.conv.count
  /\ \A i \in 1..st.conv.count :
       st.conv.recorded[i] # <<>> => /\ i < st.conv.active
                                     /\ st.conv.recorded[i] = Chosen(st, i)

SettledText(st) == FlattenSeq([i \in 1..(st.conv.active - 1) |-> Chosen(st, i)])

\* ... and on screen as chosen up to the active one, as read behind it.
ConversionShown(st) ==
  /\ st.model.settled = Texts(st.eager) \o SettledText(st)
  /\ st.model.active = Chosen(st, st.conv.active)
  /\ st.model.tail = Readings(SubSeq(st.anthy, st.conv.active + 1, st.conv.count))

Typing(st) ==
  /\ KanaShown(st)
  /\ \/ HoldsNothing(st)
     \/ Offers(st) /\ (~situation.others => OffersCurrent(st))

Converting(st) ==
  /\ Chooses(st) /\ Teaches(st) /\ ConversionShown(st)
  /\ st.conv.listed = st.conv.active
  /\ ~situation.others =>
       Begins(st.model.candidates, st.anthy[st.conv.active].candidates)

Sound(st) == st \in CallState /\ (Typing(st) \/ Converting(st))

\* The highlight is on the candidate previewed.
Pointed(st) ==
  st.conv.asked => st.model.cursor = st.conv.chosen[st.conv.active]

\* The inductive invariant.
AnthyInv ==
  /\ situation \in Situations
  /\ indeterminate \in BOOLEAN /\ before \in Text
  /\ Sound(Plain)
  /\ published.preedit = Preedit(model)
  /\ Len(model.candidates) <= options.cap
  /\ model.cursor = 0 \/ model.cursor < Len(model.candidates)
  /\ conv.asked /\ ~situation.others /\ ~indeterminate =>
       model.candidates # <<>> /\ Pointed(Plain)

-------------------------------------------------------------------------------
(* Kana and text.                                                          *)

LEMMA KeysAreText == Seq(Keys) \subseteq Text
BY AnthyAssumption, SeqMonotonic DEF Text

\* Each kana is transliterated alone, and Latin stays as it is.
LEMMA ScriptedText ==
  ASSUME NEW script \in {"hiragana", "katakana"}
  PROVE  /\ Scripted(<<>>, script) = <<>>
         /\ \A t \in Text : Scripted(t, script) \in Text
         /\ \A t, u \in Text : Scripted(t \o u, script)
                                 = Scripted(t, script) \o Scripted(u, script)
         /\ \A t \in Seq(Keys) : Scripted(t, script) = t
<1>1. CASE script = "hiragana"
  <2>1. \A u : Scripted(u, script) = u
    BY <1>1 DEF Scripted
  <2> QED BY <2>1
<1>2. CASE script = "katakana"
  <2> DEFINE kata(x) == IF x \in DOMAIN Katakana THEN Katakana[x] ELSE x
             image(u) == [i \in DOMAIN u |-> kata(u[i])]
  <2>1. \A u : Scripted(u, script) = image(u)
    BY <1>2 DEF Scripted
  <2>2. \A x \in Scalar : kata(x) \in Scalar
    BY RomajiAssumption
  <2>3. \A x \in Keys : kata(x) = x /\ x \in Scalar
    BY AnthyAssumption
  <2> HIDE DEF kata
  <2>4. ASSUME NEW u \in Text
        PROVE  /\ image(u) \in Text /\ Len(image(u)) = Len(u)
               /\ \A i \in 1..Len(u) : image(u)[i] = kata(u[i])
    <3>1. DOMAIN u = 1..Len(u) /\ Len(u) \in Nat /\ \A i \in 1..Len(u) : u[i] \in Scalar
      BY <2>4 DEF Text
    <3>2. image(u) \in [1..Len(u) -> Scalar]
      BY <2>2, <3>1
    <3>3. image(u) \in Text /\ Len(image(u)) = Len(u)
      BY <3>1, <3>2, IsASeq, LenProperties DEF Text
    <3>4. \A i \in 1..Len(u) : image(u)[i] = kata(u[i])
      BY <3>1
    <3> QED BY <3>3, <3>4
  <2>5. image(<<>>) = <<>>
    <3>1. <<>> \in Text /\ Len(<<>>) = 0
      BY EmptyText
    <3>2. image(<<>>) \in Text /\ Len(image(<<>>)) = 0
      BY <2>4, <3>1
    <3> QED BY <3>2, EmptySeq DEF Text
  <2> HIDE DEF image
  <2>6. ASSUME NEW t \in Text, NEW u \in Text
        PROVE  image(t \o u) = image(t) \o image(u)
    <3>1. /\ t \o u \in Text /\ Len(t \o u) = Len(t) + Len(u)
          /\ Len(t) \in Nat /\ Len(u) \in Nat
          /\ \A i \in 1..(Len(t) + Len(u)) :
               (t \o u)[i] = IF i <= Len(t) THEN t[i] ELSE u[i - Len(t)]
      BY ConcatProperties, TextIsSequence DEF Text
    <3>2. /\ image(t) \in Text /\ Len(image(t)) = Len(t)
          /\ image(u) \in Text /\ Len(image(u)) = Len(u)
          /\ \A i \in 1..Len(t) : image(t)[i] = kata(t[i])
          /\ \A i \in 1..Len(u) : image(u)[i] = kata(u[i])
      BY <2>4
    <3>3. /\ image(t \o u) \in Text /\ Len(image(t \o u)) = Len(t) + Len(u)
          /\ \A i \in 1..(Len(t) + Len(u)) : image(t \o u)[i] = kata((t \o u)[i])
      BY <2>4, <3>1
    <3>4. /\ image(t) \o image(u) \in Text
          /\ Len(image(t) \o image(u)) = Len(t) + Len(u)
          /\ \A i \in 1..(Len(t) + Len(u)) :
               (image(t) \o image(u))[i]
                 = IF i <= Len(t) THEN image(t)[i] ELSE image(u)[i - Len(t)]
      <4>1. \A p, q \in Text :
              /\ p \o q \in Text /\ Len(p \o q) = Len(p) + Len(q)
              /\ \A i \in 1..(Len(p) + Len(q)) :
                   (p \o q)[i] = IF i <= Len(p) THEN p[i] ELSE q[i - Len(p)]
        BY ConcatProperties DEF Text
      <4> DEFINE p == image(t)
                 q == image(u)
      <4>2. /\ p \in Text /\ q \in Text /\ Len(p) = Len(t) /\ Len(q) = Len(u)
        BY <3>2
      <4> HIDE DEF p, q
      <4>3. /\ p \o q \in Text /\ Len(p \o q) = Len(p) + Len(q)
            /\ \A i \in 1..(Len(p) + Len(q)) :
                 (p \o q)[i] = IF i <= Len(p) THEN p[i] ELSE q[i - Len(p)]
        BY <4>1, <4>2
      <4> QED BY <4>2, <4>3 DEF p, q
    <3>5. ASSUME NEW i \in 1..(Len(t) + Len(u))
          PROVE  image(t \o u)[i] = (image(t) \o image(u))[i]
      <4>1. CASE i <= Len(t)
        <5>1. i \in 1..Len(t)
          BY <4>1, <3>1
        <5> QED BY <4>1, <3>1, <3>2, <3>3, <3>4, <5>1
      <4>2. CASE ~(i <= Len(t))
        <5>1. i - Len(t) \in 1..Len(u)
          BY <4>2, <3>1
        <5> QED BY <4>2, <3>1, <3>2, <3>3, <3>4, <5>1
      <4> QED BY <4>1, <4>2
    <3> QED BY <3>3, <3>4, <3>5, SeqEqual DEF Text
  <2>7. ASSUME NEW t \in Seq(Keys) PROVE image(t) = t
    <3>1. t \in Text /\ \A i \in 1..Len(t) : t[i] \in Keys
      BY <2>3 DEF Text
    <3>2. /\ image(t) \in Text /\ Len(image(t)) = Len(t)
          /\ \A i \in 1..Len(t) : image(t)[i] = t[i]
      BY <2>3, <2>4, <3>1
    <3> QED BY <3>1, <3>2, SeqEqual DEF Text
  <2> QED BY <2>1, <2>4, <2>5, <2>6, <2>7
<1> QED BY <1>1, <1>2

\* The styles stay as they are: what is read and shown of the buffer.
LEMMA Buffer ==
  ASSUME NEW c \in Composer, NEW o \in Options
  PROVE  /\ FinishedKana(c) \in Text
         /\ c # EmptyComposer => FinishedKana(c) # <<>>
         /\ Reading(c, Settings(o)) = FinishedKana(c)
         /\ Display(c, Settings(o)) = Scripted(c.kana, o.script) \o c.pending
         /\ Display(c, Settings(o)) \in Text
         /\ CommitText(c, Settings(o)) = Scripted(FinishedKana(c), o.script)
         /\ CommitText(c, Settings(o)) \in Text
<1>1. /\ c.kana \in Text /\ c.pending \in Text /\ <<hatsuon>> \in Text
      /\ c = [kana |-> c.kana, pending |-> c.pending]
      /\ o.script \in {"hiragana", "katakana"}
  BY RomajiAssumption, KeysAreText DEF Composer, Options, Text
<1>2. FinishedKana(c) \in Text
  BY <1>1, ConcatText DEF FinishedKana
<1>3. ASSUME c # EmptyComposer PROVE FinishedKana(c) # <<>>
  <2>1. c.kana # <<>> \/ c.pending # <<>>
    BY <1>1, <1>3 DEF EmptyComposer
  <2>2. \A s, t \in Text : s \o t = <<>> => s = <<>> /\ t = <<>>
    BY ConcatEqualIffEmpty DEF Text
  <2>3. <<hatsuon>> # <<>>
    OBVIOUS
  <2> QED BY <1>1, <2>1, <2>2, <2>3 DEF FinishedKana
<1>4. \A text : Styled(text, Settings(o)) = text
  BY DEF Styled, Settings, InScript
<1>5. Settings(o).script = o.script
  BY DEF Settings, InScript
<1>6. Display(c, Settings(o)) = Scripted(c.kana, o.script) \o c.pending
  BY <1>4, <1>5 DEF Display
<1>7. CommitText(c, Settings(o)) = Scripted(FinishedKana(c), o.script)
  BY <1>4, <1>5 DEF CommitText
<1>8. Display(c, Settings(o)) \in Text /\ CommitText(c, Settings(o)) \in Text
  <2>1. \A t \in Text : Scripted(t, o.script) \in Text
    BY <1>1, ScriptedText
  <2>2. Scripted(c.kana, o.script) \in Text /\ Scripted(FinishedKana(c), o.script) \in Text
    BY <1>1, <1>2, <2>1
  <2> QED BY <1>1, <1>6, <1>7, <2>2, ConcatText
<1>9. Reading(c, Settings(o)) = FinishedKana(c)
  BY <1>4 DEF Reading
<1> QED BY <1>2, <1>3, <1>6, <1>7, <1>8, <1>9

LEMMA EmptyBuffer ==
  ASSUME NEW o \in Options
  PROVE  /\ EmptyComposer \in Composer
         /\ FinishedKana(EmptyComposer) = <<>>
         /\ Display(EmptyComposer, Settings(o)) = <<>>
         /\ CommitText(EmptyComposer, Settings(o)) = <<>>
<1>1. /\ EmptyComposer \in Composer
      /\ EmptyComposer.kana = <<>> /\ EmptyComposer.pending = <<>>
  BY EmptyText DEF EmptyComposer, Composer
<1>2. <<>> # <<n>> /\ <<>> \o <<>> = <<>>
  BY EmptyText, ConcatText
<1>3. FinishedKana(EmptyComposer) = <<>>
  BY <1>1, <1>2 DEF FinishedKana
<1>4. Scripted(<<>>, o.script) = <<>>
  BY EmptyText, ScriptedText DEF Options
<1> QED BY <1>1, <1>2, <1>3, <1>4, Buffer

\* What is on screen as it is committed is what is committed.
LEMMA FinishedIsCommitted ==
  ASSUME NEW c \in Composer, NEW o \in Options, NEW settled \in Text
  PROVE  settled \o CommitText(c, Settings(o))
           = Finished(settled \o Display(c, Settings(o)), c, o.script)
<1>1. /\ c.kana \in Text /\ c.pending \in Text /\ c.pending \in Seq(Keys)
      /\ hatsuon \in Scalar /\ n \in Scalar /\ o.script \in {"hiragana", "katakana"}
  BY RomajiAssumption, KeysAreText DEF Composer, Options
<1> DEFINE kana == Scripted(c.kana, o.script)
           last == Scripted(<<hatsuon>>, o.script)
<1>2. <<hatsuon>> \in Text
  BY <1>1 DEF Text
<1>3. /\ \A t \in Text : Scripted(t, o.script) \in Text
      /\ \A t, u \in Text : Scripted(t \o u, o.script)
                              = Scripted(t, o.script) \o Scripted(u, o.script)
      /\ \A t \in Seq(Keys) : Scripted(t, o.script) = t
  BY <1>1, ScriptedText
<1>4. kana \in Text /\ last \in Text
  BY <1>1, <1>2, <1>3
<1>5. /\ Display(c, Settings(o)) = kana \o c.pending
      /\ CommitText(c, Settings(o)) = Scripted(FinishedKana(c), o.script)
  BY Buffer
<1>6. CASE c.pending = <<n>>
  <2>1. CommitText(c, Settings(o)) = kana \o last
    <3>1. FinishedKana(c) = c.kana \o <<hatsuon>>
      BY <1>6 DEF FinishedKana
    <3> QED BY <1>1, <1>2, <1>5, <1>3, <3>1
  <2>2. <<n>> \in Text /\ Len(<<n>>) = 1
    BY <1>1 DEF Text
  <2> HIDE DEF kana, last
  <2>3. settled \o kana \in Text
    BY <1>4, ConcatText
  <2>4. Front((settled \o kana) \o <<n>>) = settled \o kana
    BY <2>2, <2>3, SuffixSplit DEF Front
  <2>5. settled \o (kana \o <<n>>) = (settled \o kana) \o <<n>>
    BY <1>4, <2>2, ConcatTexts
  <2>6. settled \o (kana \o last) = (settled \o kana) \o last
    BY <1>4, ConcatTexts
  <2> QED BY <1>5, <1>6, <2>1, <2>4, <2>5, <2>6 DEF Finished, last
<1>7. CASE c.pending # <<n>>
  <2>1. Scripted(c.pending, o.script) = c.pending
    BY <1>1, <1>3
  <2>2. CommitText(c, Settings(o)) = kana \o c.pending
    <3>1. FinishedKana(c) = c.kana \o c.pending
      BY <1>7 DEF FinishedKana
    <3> QED BY <1>1, <1>5, <1>3, <2>1, <3>1
  <2> QED BY <1>5, <1>7, <2>2 DEF Finished
<1> QED BY <1>6, <1>7

-------------------------------------------------------------------------------
(* The resolver.                                                           *)

\* h takes its value for a run either at once or from a rest of the run, which is
\* shorter.
Unwinds(h, S, atOnce, ground, step, rest) ==
  \A s \in Seq(S) : h[s] = IF s \in atOnce THEN ground[s] ELSE step[<<s, h[rest[s]]>>]

Shortens(rest, S, atOnce) == \A s \in Seq(S) \ atOnce : Len(rest[s]) < Len(s)

LEMMA ShorteningRecursion ==
  ASSUME NEW S, NEW X, NEW atOnce, NEW ground \in [Seq(S) -> X],
         NEW step \in [Seq(S) \X X -> X], NEW rest \in [Seq(S) -> Seq(S)],
         Shortens(rest, S, atOnce)
  PROVE  \E h \in [Seq(S) -> X] : Unwinds(h, S, atOnce, ground, step, rest)
<1> DEFINE D(k) == {s \in Seq(S) : Len(s) <= k}
           Value(s, f) == IF s \in atOnce THEN ground[s] ELSE step[<<s, f[rest[s]]>>]
           Upto(k, f) == /\ f \in [D(k) -> X]
                         /\ \A s \in D(k) : f[s] = Value(s, f)
           Some(k) == \E f : Upto(k, f)
           Same(k) == \A f, g : Upto(k, f) /\ Upto(k, g) => f = g
<1>1. ASSUME NEW s \in Seq(S), s \notin atOnce
      PROVE  /\ rest[s] \in Seq(S) /\ Len(rest[s]) \in Nat /\ Len(s) \in Nat \ {0}
             /\ Len(rest[s]) <= Len(s) - 1
  <2>1. rest[s] \in Seq(S) /\ Len(rest[s]) \in Nat /\ Len(s) \in Nat
    OBVIOUS
  <2>2. Len(rest[s]) < Len(s)
    BY <1>1 DEF Shortens
  <2> QED BY <2>1, <2>2
<1>2. ASSUME NEW k \in Nat, NEW s \in D(k), s \notin atOnce
      PROVE  rest[s] \in D(k) /\ k > 0 /\ rest[s] \in D(k - 1)
  BY <1>1, <1>2
<1>3. Some(0)
  <2> DEFINE f == [s \in D(0) |-> ground[s]]
  <2>1. \A s \in D(0) : s \in atOnce /\ s \in Seq(S)
    BY <1>2
  <2>2. Upto(0, f)
    BY <2>1
  <2> HIDE DEF f, Upto
  <2> QED BY <2>2
<1>4. ASSUME NEW k \in Nat, Some(k) PROVE Some(k + 1)
  <2>1. PICK f : Upto(k, f)
    BY <1>4
  <2> DEFINE g == [s \in D(k + 1) |-> Value(s, f)]
  <2>2. ASSUME NEW s \in D(k + 1) PROVE Value(s, f) \in X
    <3>1. CASE s \in atOnce
      BY <3>1
    <3>2. CASE s \notin atOnce
      <4>1. rest[s] \in D((k + 1) - 1) /\ (k + 1) - 1 = k
        BY <1>2, <3>2
      <4>2. f[rest[s]] \in X
        BY <2>1, <4>1
      <4> QED BY <3>2, <4>2
    <3> QED BY <3>1, <3>2
  <2>3. ASSUME NEW s \in D(k) PROVE s \in D(k + 1) /\ g[s] = f[s]
    <3>1. s \in D(k + 1)
      OBVIOUS
    <3> QED BY <2>1, <3>1
  <2>4. ASSUME NEW s \in D(k + 1) PROVE g[s] = Value(s, g)
    <3>1. CASE s \in atOnce
      BY <3>1
    <3>2. CASE s \notin atOnce
      <4>1. rest[s] \in D((k + 1) - 1) /\ (k + 1) - 1 = k
        BY <1>2, <3>2
      <4>2. g[rest[s]] = f[rest[s]]
        BY <2>3, <4>1
      <4> QED BY <3>2, <4>2
    <3> QED BY <3>1, <3>2
  <2>5. g \in [D(k + 1) -> X]
    <3> HIDE DEF Value, D
    <3> QED BY <2>2
  <2> HIDE DEF g
  <2>6. Upto(k + 1, g)
    BY <2>4, <2>5
  <2> HIDE DEF Upto
  <2> QED BY <2>6
<1>5. Same(0)
  <2> SUFFICES ASSUME NEW f, NEW g, Upto(0, f), Upto(0, g) PROVE f = g
    OBVIOUS
  <2>1. ASSUME NEW s \in D(0) PROVE f[s] = g[s]
    <3>1. s \in atOnce
      BY <1>2
    <3> QED BY <3>1
  <2> QED BY <2>1
<1>6. ASSUME NEW k \in Nat, Same(k) PROVE Same(k + 1)
  <2> SUFFICES ASSUME NEW f, NEW g, Upto(k + 1, f), Upto(k + 1, g) PROVE f = g
    OBVIOUS
  <2> DEFINE low(h) == [s \in D(k) |-> h[s]]
  <2>1. ASSUME NEW h, Upto(k + 1, h) PROVE Upto(k, low(h))
    <3>1. D(k) \subseteq D(k + 1)
      OBVIOUS
    <3>2. low(h) \in [D(k) -> X]
      BY <2>1, <3>1
    <3>3. ASSUME NEW s \in D(k) PROVE low(h)[s] = Value(s, low(h))
      <4>1. CASE s \in atOnce
        BY <2>1, <3>1, <4>1
      <4>2. CASE s \notin atOnce
        <5>1. rest[s] \in D(k)
          BY <1>2, <4>2
        <5>2. h[s] = step[<<s, h[rest[s]]>>]
          BY <2>1, <3>1, <4>2
        <5> QED BY <4>2, <5>1, <5>2
      <4> QED BY <4>1, <4>2
    <3> HIDE DEF low
    <3> QED BY <3>2, <3>3
  <2>2. low(f) = low(g)
    <3> HIDE DEF low, Upto
    <3> QED BY <1>6, <2>1
  <2>3. ASSUME NEW s \in D(k + 1) PROVE f[s] = g[s]
    <3>1. CASE s \in atOnce
      BY <3>1
    <3>2. CASE s \notin atOnce
      <4>1. rest[s] \in D((k + 1) - 1) /\ (k + 1) - 1 = k
        BY <1>2, <3>2
      <4>2. rest[s] \in D(k)
        BY <4>1
      <4>3. f[rest[s]] = low(f)[rest[s]] /\ g[rest[s]] = low(g)[rest[s]]
        BY <4>2
      <4>4. f[s] = step[<<s, f[rest[s]]>>] /\ g[s] = step[<<s, g[rest[s]]>>]
        BY <3>2
      <4>5. f[rest[s]] = g[rest[s]]
        <5> HIDE DEF low
        <5> QED BY <2>2, <4>3
      <4> QED BY <4>4, <4>5
    <3> QED BY <3>1, <3>2
  <2> QED BY <2>3
<1>7. \A k \in Nat : Some(k) /\ Same(k)
  <2> DEFINE T == {k \in Nat : Some(k) /\ Same(k)}
  <2> HIDE DEF Some, Same
  <2>1. 0 \in T
    BY <1>3, <1>5
  <2>2. \A k \in Nat : k \in T => k + 1 \in T
    BY <1>4, <1>6
  <2>3. Nat \subseteq T
    <3> HIDE DEF T
    <3> QED BY <2>1, <2>2, Induction
  <2> QED BY <2>3
<1> DEFINE at(k) == CHOOSE f : Upto(k, f)
           h == [s \in Seq(S) |-> at(Len(s))[s]]
<1>8. \A k \in Nat : Upto(k, at(k))
  <2> HIDE DEF Upto
  <2> QED BY <1>7
<1> HIDE DEF at
<1>9. \A s \in Seq(S) : Len(s) \in Nat /\ s \in D(Len(s))
  OBVIOUS
<1>10. ASSUME NEW s \in Seq(S) PROVE h[s] = Value(s, h) /\ h[s] \in X
  <2> DEFINE k == Len(s)
  <2>1. k \in Nat /\ s \in D(k) /\ h[s] = at(k)[s]
    BY <1>9
  <2>2. at(k)[s] = Value(s, at(k)) /\ at(k)[s] \in X
    BY <1>8, <2>1
  <2>3. CASE s \in atOnce
    BY <2>1, <2>2, <2>3
  <2>4. CASE s \notin atOnce
    <3> DEFINE t == rest[s]
               m == Len(t)
               f == [r \in D(m) |-> at(k)[r]]
    <3>1. t \in Seq(S) /\ m \in Nat /\ m <= k /\ t \in D(m)
      BY <1>1, <2>4
    <3>2. Upto(m, f)
      <4>0. D(m) \subseteq D(k)
        BY <2>1, <3>1
      <4>1. Upto(k, at(k))
        <5> HIDE DEF Upto
        <5> QED BY <1>8, <2>1
      <4>2. f \in [D(m) -> X]
        BY <4>0, <4>1
      <4>3. ASSUME NEW r \in D(m) PROVE f[r] = Value(r, f)
        <5>1. at(k)[r] = Value(r, at(k))
          BY <4>0, <4>1
        <5>2. CASE r \in atOnce
          BY <5>1, <5>2
        <5>3. CASE r \notin atOnce
          <6>1. rest[r] \in D(m)
            BY <1>2, <3>1, <5>3
          <6> QED BY <5>1, <5>3, <6>1
        <5> QED BY <5>2, <5>3
      <4> HIDE DEF f
      <4> QED BY <4>2, <4>3
    <3>3. f = at(m)
      <4>1. Upto(m, at(m)) /\ Same(m)
        BY <1>7, <1>8, <3>1
      <4> HIDE DEF f, Upto
      <4> QED BY <3>2, <4>1
    <3>4. h[t] = at(k)[t]
      BY <3>1, <3>3
    <3> QED BY <2>1, <2>2, <2>4, <3>4
  <2> QED BY <2>3, <2>4
<1>11. h \in [Seq(S) -> X]
  <2>1. \A s \in Seq(S) : h[s] \in X
    BY <1>10
  <2> QED BY <2>1
<1> QED BY <1>10, <1>11 DEF Unwinds

\* A run with a key in it that resolves without dropping its first key.
AtOnce(s) == \/ Spells(s) \/ Doubled(s)
             \/ ~FinishesN(s) /\ (Continues(s) \/ Len(s) = 1)

Resolved == [kana : Text, pending : Text]

LEMMA RunsAreNotEmpty ==
  ASSUME NEW s \in Text, ~AtOnce(s)
  PROVE  s # <<>>
<1> SUFFICES ASSUME s = <<>> PROVE FALSE
  OBVIOUS
<1>1. PICK r \in DOMAIN RomajiTable : r \in Text /\ r # <<>>
  BY RomajiAssumption
<1>2. IsStrictPrefix(s, r)
  <2>1. Len(s) = 0 /\ Len(r) \in Nat /\ Len(r) > 0
    BY <1>1, EmptyText, TextIsSequence
  <2>2. IsPrefix(s, r)
    <3>1. SubSeq(r, 1, 0) = <<>>
      BY SubSeqEmpty
    <3> QED BY <1>1, <2>1, <3>1 DEF IsPrefix, Text
  <2> QED BY <1>1, <2>2 DEF IsStrictPrefix
<1>3. Continues(s)
  BY <1>1, <1>2 DEF Continues
<1>4. ~FinishesN(s)
  BY EmptyText DEF FinishesN
<1> QED BY <1>3, <1>4 DEF AtOnce

\* What Resolve says of every run is what its definition says of it.
LEMMA ResolveIs ==
  \A s \in Text : Resolve[s] =
       IF Spells(s)         THEN [kana |-> RomajiTable[s], pending |-> <<>>]
       ELSE IF Doubled(s)   THEN [kana |-> <<sokuon>>, pending |-> <<s[2]>>]
       ELSE IF FinishesN(s) THEN Before(<<hatsuon>>, Resolve[Tail(s)])
       ELSE IF Continues(s) THEN [kana |-> <<>>, pending |-> s]
       ELSE IF Len(s) = 1   THEN [kana |-> Alone(s[1]), pending |-> <<>>]
       ELSE Before(<<s[1]>>, Resolve[Tail(s)])
<1> DEFINE F(h) == [s \in Text |->
       IF Spells(s)         THEN [kana |-> RomajiTable[s], pending |-> <<>>]
       ELSE IF Doubled(s)   THEN [kana |-> <<sokuon>>, pending |-> <<s[2]>>]
       ELSE IF FinishesN(s) THEN Before(<<hatsuon>>, h[Tail(s)])
       ELSE IF Continues(s) THEN [kana |-> <<>>, pending |-> s]
       ELSE IF Len(s) = 1   THEN [kana |-> Alone(s[1]), pending |-> <<>>]
       ELSE Before(<<s[1]>>, h[Tail(s)])]
           value(s) ==
       IF Spells(s)         THEN [kana |-> RomajiTable[s], pending |-> <<>>]
       ELSE IF Doubled(s)   THEN [kana |-> <<sokuon>>, pending |-> <<s[2]>>]
       ELSE IF Continues(s) THEN [kana |-> <<>>, pending |-> s]
       ELSE IF Len(s) = 1   THEN [kana |-> Alone(s[1]), pending |-> <<>>]
       ELSE [kana |-> <<>>, pending |-> <<>>]
           ground == [s \in Text |-> value(s)]
           head(s) == IF FinishesN(s) THEN <<hatsuon>>
                      ELSE IF s # <<>> THEN <<s[1]>> ELSE <<>>
           step == [p \in Text \X Resolved |-> Before(head(p[1]), p[2])]
           once == {s \in Text : AtOnce(s)}
           rest == [s \in Text |-> IF s = <<>> THEN s ELSE Tail(s)]
<1>1. ASSUME NEW s \in Text
      PROVE  /\ Len(s) \in Nat /\ \A i \in 1..Len(s) : s[i] \in Scalar
             /\ s # <<>> => s[1] \in Scalar /\ Len(s) # 0
             /\ Len(s) = 1 => s # <<>>
             /\ Len(s) = 2 => s[2] \in Scalar
  <2>1. Len(s) \in Nat /\ (\A i \in 1..Len(s) : s[i] \in Scalar) /\ (s # <<>> => Len(s) > 0)
    BY TextIsSequence
  <2>2. Len(s) = 1 => s # <<>>
    BY EmptyText
  <2> QED BY <2>1, <2>2
<1>2. <<>> \in Text /\ \A x \in Scalar : <<x>> \in Text
  BY DEF Text
<1>3. ASSUME NEW s \in Text PROVE value(s) \in Resolved
  <2>1. CASE Spells(s)
    BY <1>2, <2>1, RomajiAssumption DEF Spells, Resolved
  <2>2. CASE ~Spells(s) /\ Doubled(s)
    <3>1. Len(s) = 2
      BY <2>2 DEF Doubled
    <3> QED BY <1>1, <1>2, <2>2, <3>1, RomajiAssumption DEF Resolved
  <2>3. CASE ~Spells(s) /\ ~Doubled(s) /\ Continues(s)
    BY <1>2, <2>3 DEF Resolved
  <2>4. CASE ~Spells(s) /\ ~Doubled(s) /\ ~Continues(s) /\ Len(s) = 1
    <3>1. s[1] \in Scalar
      BY <1>1, <2>4
    <3>2. Alone(s[1]) \in Text
      BY <1>2, <3>1, RomajiAssumption DEF Alone
    <3> QED BY <1>2, <2>4, <3>2 DEF Resolved
  <2>5. CASE ~Spells(s) /\ ~Doubled(s) /\ ~Continues(s) /\ Len(s) # 1
    BY <1>2, <2>5 DEF Resolved
  <2> QED BY <2>1, <2>2, <2>3, <2>4, <2>5
<1>4. ground \in [Text -> Resolved]
  <2> HIDE DEF value
  <2> QED BY <1>3
<1>5. ASSUME NEW s \in Text PROVE head(s) \in Text
  BY <1>1, <1>2, RomajiAssumption
<1>6. ASSUME NEW k \in Text, NEW x \in Resolved PROVE Before(k, x) \in Resolved
  BY ConcatText DEF Before, Resolved
<1>7. step \in [Text \X Resolved -> Resolved]
  <2> HIDE DEF head
  <2> QED BY <1>5, <1>6
<1>8. \A s \in Text : ~AtOnce(s) => s # <<>>
  BY RunsAreNotEmpty
<1>9. ASSUME NEW s \in Text, NEW h \in [Text -> Resolved]
      PROVE  F(h)[s] = IF s \in once THEN ground[s] ELSE step[<<s, h[Tail(s)]>>]
  <2>1. CASE AtOnce(s)
    <3>1. F(h)[s] = value(s)
      BY <2>1 DEF AtOnce, Doubled, FinishesN
    <3> QED BY <2>1, <3>1
  <2>2. CASE ~AtOnce(s)
    <3>1. s # <<>> /\ Tail(s) \in Text
      BY <1>8, <2>2, HeadTailProperties DEF Text
    <3>2. F(h)[s] = Before(head(s), h[Tail(s)])
      BY <2>2, <3>1 DEF AtOnce
    <3>3. step[<<s, h[Tail(s)]>>] = Before(head(s), h[Tail(s)])
      <4>1. <<s, h[Tail(s)]>> \in Text \X Resolved
        BY <3>1
      <4> HIDE DEF head
      <4> QED BY <4>1
    <3> QED BY <2>2, <3>2, <3>3
  <2> QED BY <2>1, <2>2
<1>10. PICK h \in [Text -> Resolved] : Unwinds(h, Scalar, once, ground, step, rest)
  <2>1. Shortens(rest, Scalar, once)
    <3> SUFFICES ASSUME NEW s \in Text, s \notin once PROVE Len(rest[s]) < Len(s)
      BY DEF Shortens, Text
    <3>1. s # <<>>
      BY <1>8
    <3>2. rest[s] = Tail(s)
      BY <3>1
    <3>3. Len(Tail(s)) = Len(s) - 1 /\ Len(s) \in Nat
      BY <1>1, <3>1, HeadTailProperties DEF Text
    <3> QED BY <3>2, <3>3
  <2>2. rest \in [Seq(Scalar) -> Seq(Scalar)]
    BY HeadTailProperties DEF Text
  <2> HIDE DEF once, ground, step, rest
  <2>3. ground \in [Seq(Scalar) -> Resolved] /\ step \in [Seq(Scalar) \X Resolved -> Resolved]
    BY <1>4, <1>7 DEF Text
  <2>4. \E h \in [Seq(Scalar) -> Resolved] : Unwinds(h, Scalar, once, ground, step, rest)
    BY <2>1, <2>2, <2>3, ShorteningRecursion
  <2> QED BY <2>4 DEF Text
<1>11. h = F(h)
  <2> DEFINE H == F(h)
  <2>1. \A s \in Text : H[s] = h[s]
    <3>1. \A s \in Text : H[s] = IF s \in once THEN ground[s] ELSE step[<<s, h[Tail(s)]>>]
      BY <1>9
    <3>2. \A s \in Text : s \notin once => rest[s] = Tail(s)
      BY <1>8
    <3> HIDE DEF H, once, ground, step, rest
    <3> QED BY <1>10, <3>1, <3>2 DEF Unwinds, Text
  <2>2. H = [s \in Text |-> H[s]] /\ h = [s \in Text |-> h[s]]
    OBVIOUS
  <2> HIDE DEF H
  <2>3. H = h
    BY <2>1, <2>2
  <2> QED BY <2>3 DEF H
<1>12. Resolve = CHOOSE f : f = F(f)
  BY DEF Resolve
<1>13. Resolve = F(Resolve)
  <2> HIDE DEF F
  <2> QED BY <1>11, <1>12
<1> QED BY <1>13

\* It stays within kana, and what is left to resolve is part of what was typed.
LEMMA ResolveType ==
  /\ \A s \in Text : Resolve[s] \in Resolved
  /\ \A s \in Seq(Keys) : Resolve[s].pending \in Seq(Keys)
  /\ \A s \in Text \ {<<>>} : Resolve[s] # EmptyComposer
<1>1. ASSUME NEW s \in Text
      PROVE  /\ Len(s) \in Nat /\ \A i \in 1..Len(s) : s[i] \in Scalar
             /\ s # <<>> => s[1] \in Scalar /\ Len(s) # 0
  BY TextIsSequence
<1>2. <<>> \in Text /\ \A x \in Scalar : <<x>> \in Text /\ <<x>> # <<>>
  BY DEF Text
<1>3. <<>> \in Seq(Keys) /\ \A x \in Keys : <<x>> \in Seq(Keys)
  OBVIOUS
<1>4. \A x \in Scalar : Alone(x) \in Text \ {<<>>}
  BY <1>2, RomajiAssumption DEF Alone
<1>5. ASSUME NEW k \in Text, NEW x \in Resolved
      PROVE  /\ Before(k, x) \in Resolved /\ Before(k, x).kana = k \o x.kana
             /\ Before(k, x).pending = x.pending
  BY ConcatText DEF Before, Resolved
<1>6. ASSUME NEW s \in Text, NEW x, s # <<>>, FinishesN(s) \/ ~AtOnce(s)
      PROVE  /\ Tail(s) \in Text /\ Len(Tail(s)) = Len(s) - 1
             /\ s \in Seq(Keys) => Tail(s) \in Seq(Keys)
             /\ FinishesN(s) => Tail(s) # <<>>
  <2>1. Tail(s) \in Text /\ Len(Tail(s)) = Len(s) - 1
    BY <1>6, HeadTailProperties DEF Text
  <2>2. s \in Seq(Keys) => Tail(s) \in Seq(Keys)
    BY <1>6, HeadTailProperties
  <2>3. FinishesN(s) => Tail(s) # <<>>
    BY <2>1, EmptyText DEF FinishesN
  <2> QED BY <2>1, <2>2, <2>3
<1> DEFINE Fine(s) == /\ Resolve[s] \in Resolved
                      /\ s \in Seq(Keys) => Resolve[s].pending \in Seq(Keys)
                      /\ s # <<>> => Resolve[s] # EmptyComposer
           T == {k \in Nat : \A s \in Text : Len(s) <= k => Fine(s)}
<1>7. ASSUME NEW s \in Text, s # <<>> /\ ~AtOnce(s) => Fine(Tail(s))
      PROVE  Fine(s)
  <2>1. CASE Spells(s)
    <3>1. Resolve[s] = [kana |-> RomajiTable[s], pending |-> <<>>]
      BY <2>1, ResolveIs
    <3>2. RomajiTable[s] \in Text \ {<<>>}
      BY <2>1, RomajiAssumption DEF Spells
    <3> QED BY <1>2, <1>3, <3>1, <3>2 DEF Resolved, EmptyComposer
  <2>2. CASE ~Spells(s) /\ Doubled(s)
    <3>1. Resolve[s] = [kana |-> <<sokuon>>, pending |-> <<s[2]>>]
      BY <2>2, ResolveIs
    <3>2. Len(s) = 2 /\ s[2] \in Scalar /\ (s \in Seq(Keys) => s[2] \in Keys)
      BY <1>1, <2>2 DEF Doubled
    <3>3. /\ <<sokuon>> \in Text /\ <<s[2]>> \in Text /\ <<sokuon>> # <<>>
          /\ s \in Seq(Keys) => <<s[2]>> \in Seq(Keys)
      BY <1>2, <1>3, <3>2, RomajiAssumption
    <3> QED BY <3>1, <3>3 DEF Resolved, EmptyComposer
  <2>3. CASE ~Spells(s) /\ ~Doubled(s) /\ FinishesN(s)
    <3>1. Resolve[s] = Before(<<hatsuon>>, Resolve[Tail(s)])
      BY <2>3, ResolveIs
    <3>2. s # <<>> /\ ~AtOnce(s)
      BY <2>3, EmptyText DEF FinishesN, AtOnce
    <3>3. Fine(Tail(s)) /\ (s \in Seq(Keys) => Tail(s) \in Seq(Keys))
      BY <1>6, <1>7, <3>2
    <3>4. <<hatsuon>> \in Text /\ <<hatsuon>> \o Resolve[Tail(s)].kana # <<>>
      <4>1. \A p, q \in Text : p \o q = <<>> => p = <<>>
        BY ConcatEqualIffEmpty DEF Text
      <4> QED BY <1>2, <3>3, <4>1, RomajiAssumption DEF Resolved
    <3>5. Resolve[s] \in Resolved /\ Resolve[s].kana # <<>>
      BY <1>5, <3>1, <3>3, <3>4
    <3>6. Resolve[s].pending = Resolve[Tail(s)].pending
      BY <1>5, <3>1, <3>3, <3>4
    <3>7. EmptyComposer.kana = <<>>
      BY DEF EmptyComposer
    <3> QED BY <3>3, <3>5, <3>6, <3>7
  <2>4. CASE ~Spells(s) /\ ~Doubled(s) /\ ~FinishesN(s) /\ Continues(s)
    <3>1. Resolve[s] = [kana |-> <<>>, pending |-> s]
      BY <2>4, ResolveIs
    <3> QED BY <1>2, <3>1 DEF Resolved, EmptyComposer
  <2>5. CASE ~Spells(s) /\ ~Doubled(s) /\ ~FinishesN(s) /\ ~Continues(s) /\ Len(s) = 1
    <3>1. Resolve[s] = [kana |-> Alone(s[1]), pending |-> <<>>]
      BY <2>5, ResolveIs
    <3>2. s[1] \in Scalar
      BY <1>1, <2>5
    <3> QED BY <1>2, <1>3, <1>4, <3>1, <3>2 DEF Resolved, EmptyComposer
  <2>6. CASE ~Spells(s) /\ ~Doubled(s) /\ ~FinishesN(s) /\ ~Continues(s) /\ Len(s) # 1
    <3>1. Resolve[s] = Before(<<s[1]>>, Resolve[Tail(s)])
      BY <2>6, ResolveIs
    <3>2. s # <<>> /\ ~AtOnce(s)
      <4>1. ~AtOnce(s)
        BY <2>6 DEF AtOnce
      <4> QED BY <4>1, RunsAreNotEmpty
    <3>3. Fine(Tail(s)) /\ (s \in Seq(Keys) => Tail(s) \in Seq(Keys)) /\ s[1] \in Scalar
      BY <1>1, <1>6, <1>7, <3>2
    <3>4. <<s[1]>> \in Text /\ <<s[1]>> \o Resolve[Tail(s)].kana # <<>>
      <4>1. \A p, q \in Text : p \o q = <<>> => p = <<>>
        BY ConcatEqualIffEmpty DEF Text
      <4> QED BY <1>2, <3>3, <4>1 DEF Resolved
    <3>5. Resolve[s] \in Resolved /\ Resolve[s].kana # <<>>
      BY <1>5, <3>1, <3>3, <3>4
    <3>6. Resolve[s].pending = Resolve[Tail(s)].pending
      BY <1>5, <3>1, <3>3, <3>4
    <3>7. EmptyComposer.kana = <<>>
      BY DEF EmptyComposer
    <3> QED BY <3>3, <3>5, <3>6, <3>7
  <2> QED BY <2>1, <2>2, <2>3, <2>4, <2>5, <2>6
<1>8. 0 \in T
  <2>1. ASSUME NEW s \in Text, Len(s) <= 0 PROVE Fine(s)
    <3>1. s = <<>>
      BY <1>1, <2>1
    <3> HIDE DEF Fine
    <3> QED BY <1>7, <3>1
  <2> HIDE DEF Fine
  <2> QED BY <2>1
<1>9. ASSUME NEW k \in Nat, k \in T PROVE k + 1 \in T
  <2>1. ASSUME NEW s \in Text, Len(s) <= k + 1 PROVE Fine(s)
    <3>1. s # <<>> /\ ~AtOnce(s) => Tail(s) \in Text /\ Len(Tail(s)) <= k
      BY <1>1, <1>6, <2>1
    <3> HIDE DEF Fine
    <3>2. s # <<>> /\ ~AtOnce(s) => Fine(Tail(s))
      BY <1>9, <3>1
    <3> QED BY <1>7, <3>2
  <2> HIDE DEF Fine
  <2> QED BY <2>1
<1>10. \A s \in Text : Fine(s)
  <2>1. Nat \subseteq T
    <3> HIDE DEF T
    <3> QED BY <1>8, <1>9, Induction
  <2> HIDE DEF Fine
  <2> QED BY <1>1, <2>1
<1> QED BY <1>10, KeysAreText

\* A key typed leaves something in the buffer.
LEMMA InsertType ==
  ASSUME NEW c \in Composer, NEW key \in Keys
  PROVE  Insert(c, key) \in Composer /\ Insert(c, key) # EmptyComposer
<1> DEFINE run == Append(c.pending, key)
           r == Resolve[run]
<1>1. c.kana \in Text /\ c.pending \in Seq(Keys)
  BY DEF Composer
<1>2. run \in Seq(Keys) /\ run # <<>> /\ run \in Text
  BY <1>1, AppendProperties, KeysAreText
<1>3. r \in Resolved /\ r.pending \in Seq(Keys) /\ r # EmptyComposer
  BY <1>2, ResolveType
<1> HIDE DEF r
<1>4. /\ Insert(c, key) = [kana |-> c.kana \o r.kana, pending |-> r.pending]
      /\ c.kana \o r.kana \in Text /\ r = [kana |-> r.kana, pending |-> r.pending]
  <2>1. c.kana \o r.kana \in Text /\ r = [kana |-> r.kana, pending |-> r.pending]
    BY <1>1, <1>3, ConcatText DEF Resolved
  <2>2. Insert(c, key) = Before(c.kana, r)
    BY DEF Insert, r
  <2>3. Before(c.kana, r) = [kana |-> c.kana \o r.kana, pending |-> r.pending]
    <3>1. /\ Before(c.kana, r) \in Resolved /\ Before(c.kana, r).pending = r.pending
          /\ Before(c.kana, r).kana = c.kana \o r.kana
      BY <1>1, <1>3, ConcatText DEF Before, Resolved
    <3> QED BY <3>1 DEF Resolved
  <2> QED BY <2>1, <2>2, <2>3
<1>5. ASSUME c.kana \o r.kana = <<>> PROVE r.kana = <<>>
  BY <1>1, <1>3, <1>5, ConcatEqualIffEmpty DEF Text, Resolved
<1> QED BY <1>3, <1>4, <1>5 DEF Composer, EmptyComposer

-------------------------------------------------------------------------------
(* Spans and segments.                                                     *)

LEMMA TextFunction ==
  ASSUME NEW k \in Nat, NEW g, DOMAIN g = 1..k, g = [i \in 1..k |-> g[i]],
         \A i \in 1..k : g[i] \in Text
  PROVE  g \in Seq(Seq(Scalar)) /\ Len(g) = k
<1>1. g \in [1..k -> Seq(Scalar)]
  BY DEF Text
<1> QED BY <1>1, IsASeq, LenProperties

LEMMA EmptySpans == Readings(<<>>) = <<>> /\ Texts(<<>>) = <<>>
<1>1. DOMAIN <<>> = {} /\ \A g : g \in Seq(Seq(Scalar)) /\ Len(g) = 0 => g = <<>>
  BY EmptySeq
<1>2. [i \in DOMAIN <<>> |-> <<>>[i].reading] = <<>>
  <2> DEFINE g == [i \in DOMAIN <<>> |-> <<>>[i].reading]
  <2>1. DOMAIN g = 1..0 /\ g = [i \in 1..0 |-> g[i]]
    BY <1>1
  <2> HIDE DEF g
  <2>2. g \in Seq(Seq(Scalar)) /\ Len(g) = 0
    BY <2>1, TextFunction
  <2> QED BY <1>1, <2>2 DEF g
<1>3. [i \in DOMAIN <<>> |-> <<>>[i].text] = <<>>
  <2> DEFINE g == [i \in DOMAIN <<>> |-> <<>>[i].text]
  <2>1. DOMAIN g = 1..0 /\ g = [i \in 1..0 |-> g[i]]
    BY <1>1
  <2> HIDE DEF g
  <2>2. g \in Seq(Seq(Scalar)) /\ Len(g) = 0
    BY <2>1, TextFunction
  <2> QED BY <1>1, <2>2 DEF g
<1> QED BY <1>2, <1>3, FlattenEmpty DEF Readings, Texts

\* The readings of a concatenation.
LEMMA ReadingsOf ==
  ASSUME NEW S, \A x \in S : x.reading \in Text, NEW q \in Seq(S)
  PROVE  /\ Readings(q) \in Text
         /\ \A r \in Seq(S) : Readings(q \o r) = Readings(q) \o Readings(r)
         /\ \A x \in S : Readings(<<x>>) = x.reading
<1> DEFINE F == [x \in S |-> x.reading]
<1>1. /\ Becomes(F, S, Scalar)
      /\ \A x \in S : F[x] = x.reading
  BY DEF Becomes, Text
<1> HIDE DEF F
<1>2. ASSUME NEW r \in Seq(S) PROVE Readings(r) = Joined(F, r)
  <2>1. \A i \in DOMAIN r : F[r[i]] = r[i].reading
    BY <1>1
  <2>2. [i \in DOMAIN r |-> r[i].reading] = [i \in DOMAIN r |-> F[r[i]]]
    BY <2>1
  <2> QED BY <2>2 DEF Readings, Joined
<1>3. Readings(q) \in Text
  BY <1>1, <1>2, JoinedType DEF Text
<1>4. ASSUME NEW r \in Seq(S) PROVE Readings(q \o r) = Readings(q) \o Readings(r)
  <2>1. q \o r \in Seq(S)
    BY ConcatProperties
  <2>2. Joined(F, q \o r) = Joined(F, q) \o Joined(F, r)
    BY <1>1, JoinedConcat
  <2>3. /\ Readings(q \o r) = Joined(F, q \o r)
        /\ Readings(q) = Joined(F, q) /\ Readings(r) = Joined(F, r)
    BY <1>2, <2>1
  <2> QED BY <2>2, <2>3
<1>5. ASSUME NEW x \in S PROVE Readings(<<x>>) = x.reading
  <2>1. <<x>> \in Seq(S)
    OBVIOUS
  <2>2. Joined(F, <<x>>) = F[x]
    BY <1>1, JoinedOne
  <2> QED BY <1>1, <1>2, <2>1, <2>2
<1> QED BY <1>3, <1>4, <1>5

\* Its texts.
LEMMA TextsOf ==
  ASSUME NEW S, \A x \in S : x.text \in Text, NEW q \in Seq(S)
  PROVE  /\ Texts(q) \in Text
         /\ \A r \in Seq(S) : Texts(q \o r) = Texts(q) \o Texts(r)
         /\ \A x \in S : Texts(<<x>>) = x.text
<1> DEFINE F == [x \in S |-> x.text]
<1>1. /\ Becomes(F, S, Scalar)
      /\ \A x \in S : F[x] = x.text
  BY DEF Becomes, Text
<1> HIDE DEF F
<1>2. ASSUME NEW r \in Seq(S) PROVE Texts(r) = Joined(F, r)
  <2>1. \A i \in DOMAIN r : F[r[i]] = r[i].text
    BY <1>1
  <2>2. [i \in DOMAIN r |-> r[i].text] = [i \in DOMAIN r |-> F[r[i]]]
    BY <2>1
  <2> QED BY <2>2 DEF Texts, Joined
<1>3. Texts(q) \in Text
  BY <1>1, <1>2, JoinedType DEF Text
<1>4. ASSUME NEW r \in Seq(S) PROVE Texts(q \o r) = Texts(q) \o Texts(r)
  <2>1. q \o r \in Seq(S)
    BY ConcatProperties
  <2>2. Joined(F, q \o r) = Joined(F, q) \o Joined(F, r)
    BY <1>1, JoinedConcat
  <2>3. /\ Texts(q \o r) = Joined(F, q \o r)
        /\ Texts(q) = Joined(F, q) /\ Texts(r) = Joined(F, r)
    BY <1>2, <2>1
  <2> QED BY <2>2, <2>3
<1>5. ASSUME NEW x \in S PROVE Texts(<<x>>) = x.text
  <2>1. <<x>> \in Seq(S)
    OBVIOUS
  <2>2. Joined(F, <<x>>) = F[x]
    BY <1>1, JoinedOne
  <2> QED BY <1>1, <1>2, <2>1, <2>2
<1> QED BY <1>3, <1>4, <1>5

LEMMA SpanReadings == /\ \A x \in Span : x.reading \in Text
                      /\ \A x \in Span : x.text \in Text
                      /\ \A x \in Segment : x.reading \in Text
BY DEF Span, Segment, NonEmpty

\* Selecting one more, and taking it back.
LEMMA AppendSpan ==
  ASSUME NEW q \in Seq(Span), NEW x \in Span
  PROVE  /\ Append(q, x) \in Seq(Span)
         /\ Texts(Append(q, x)) = Texts(q) \o x.text
         /\ Readings(Append(q, x)) = Readings(q) \o x.reading
         /\ Texts(q) \in Text /\ Readings(q) \in Text
<1>1. <<x>> \in Seq(Span) /\ Append(q, x) = q \o <<x>> /\ Append(q, x) \in Seq(Span)
  BY AppendIsConcat, AppendProperties
<1>2. /\ Texts(q) \in Text /\ Texts(<<x>>) = x.text
      /\ Texts(q \o <<x>>) = Texts(q) \o Texts(<<x>>)
  BY <1>1, SpanReadings, TextsOf
<1>3. /\ Readings(q) \in Text /\ Readings(<<x>>) = x.reading
      /\ Readings(q \o <<x>>) = Readings(q) \o Readings(<<x>>)
  BY <1>1, SpanReadings, ReadingsOf
<1> QED BY <1>1, <1>2, <1>3

LEMMA LastSpan ==
  ASSUME NEW q \in Seq(Span), q # <<>>
  PROVE  /\ Front(q) \in Seq(Span) /\ Last(q) \in Span
         /\ Readings(q) = Readings(Front(q)) \o Last(q).reading
<1>1. PICK f \in Seq(Span), x \in Span : q = Append(f, x)
  BY SequenceEmptyOrAppend
<1>2. Len(q) = Len(f) + 1 /\ Len(f) \in Nat /\ q[Len(f) + 1] = x
      /\ \A i \in 1..Len(f) : q[i] = f[i]
  BY <1>1, AppendProperties
<1>3. Last(q) = x
  BY <1>2 DEF Last
<1>4. Front(q) = f
  <2>1. Len(q) - 1 = Len(f) /\ \A i \in 1..Len(f) : q[i] \in Span
    BY <1>2
  <2>2. /\ SubSeq(q, 1, Len(f)) \in Seq(Span) /\ Len(SubSeq(q, 1, Len(f))) = Len(f)
        /\ \A i \in 1..Len(f) : SubSeq(q, 1, Len(f))[i] = q[i]
    BY <1>2, <2>1, SubSeqProperties
  <2>3. SubSeq(q, 1, Len(f)) = f
    BY <1>2, <2>2, SeqEqual
  <2> QED BY <2>1, <2>3 DEF Front
<1> QED BY <1>1, <1>3, <1>4, AppendSpan

\* The first segment's reading and the rest.
LEMMA FirstSegment ==
  ASSUME NEW a \in Seq(Segment), a # <<>>
  PROVE  /\ Readings(SubSeq(a, 2, Len(a))) \in Text
         /\ Readings(a) = a[1].reading \o Readings(SubSeq(a, 2, Len(a)))
<1>1. Len(a) \in Nat /\ 1 \in 1..Len(a) /\ a[1] \in Segment
  BY EmptySeq
<1>2. a = <<a[1]>> \o SubSeq(a, 2, Len(a))
  <2>1. Len(a) \in 1..Len(a) /\ 1 + 1 = 2
    BY <1>1
  <2>2. SubSeq(a, 1, Len(a)) = <<a[1]>> \o SubSeq(a, 1 + 1, Len(a))
    BY <1>1, <2>1, SubSeqRecursiveFirst
  <2> QED BY <2>1, <2>2, SubSeqFull
<1>3. <<a[1]>> \in Seq(Segment) /\ SubSeq(a, 2, Len(a)) \in Seq(Segment)
  <2>1. \A i \in 2..Len(a) : a[i] \in Segment
    BY <1>1
  <2> QED BY <1>1, <2>1, SubSeqProperties
<1>4. /\ Readings(<<a[1]>> \o SubSeq(a, 2, Len(a)))
           = Readings(<<a[1]>>) \o Readings(SubSeq(a, 2, Len(a)))
      /\ Readings(<<a[1]>>) = a[1].reading
  BY <1>1, <1>3, SpanReadings, ReadingsOf
<1>5. Readings(SubSeq(a, 2, Len(a))) \in Text
  BY <1>3, SpanReadings, ReadingsOf
<1> QED BY <1>2, <1>4, <1>5

-------------------------------------------------------------------------------
(* What the helpers of a call leave.                                       *)

\* anthy's context holds segments, each with a candidate.
LEMMA Segments ==
  ASSUME NEW a \in Seq(Segment), NEW i \in 1..Len(a)
  PROVE  /\ a[i] \in Segment /\ a[i].reading \in Text /\ a[i].reading # <<>>
         /\ a[i].candidates \in Seq(Text) /\ Len(a[i].candidates) \in Nat \ {0}
         /\ \A k \in Nat : k < Len(a[i].candidates) =>
              a[i].candidates[k + 1] \in Text /\ a[i].candidates[k + 1] # <<>>
<1>1. a[i] \in Segment
  OBVIOUS
<1>2. /\ a[i].reading \in NonEmpty
      /\ a[i].candidates \in Seq(NonEmpty) /\ a[i].candidates # <<>>
  BY <1>1 DEF Segment
<1>3. Len(a[i].candidates) \in Nat \ {0}
  BY <1>2, EmptySeq
<1>4. NonEmpty \subseteq Text
  BY DEF NonEmpty
<1>5. a[i].candidates \in Seq(Text)
  BY <1>2, <1>4, SeqMonotonic
<1>6. ASSUME NEW k \in Nat, k < Len(a[i].candidates)
      PROVE  a[i].candidates[k + 1] \in NonEmpty
  <2>1. k + 1 \in 1..Len(a[i].candidates)
    BY <1>3, <1>6
  <2> QED BY <1>2, <2>1
<1> QED BY <1>1, <1>2, <1>3, <1>5, <1>6 DEF NonEmpty

LEMMA NoConversionType == NoConversion \in Conversion
BY EmptySeq DEF NoConversion, Conversion

\* show_kana leaves the kana on screen and nothing offered.
LEMMA ShowKanaIs ==
  ASSUME NEW st \in CallState
  PROVE  /\ ShowKana(st) \in CallState
         /\ KanaShown(ShowKana(st)) /\ ShowKana(st).model.candidates = <<>>
         /\ ShowKana(st).model.cursor = 0
         /\ ShowKana(st).conv = [st.conv EXCEPT !.listed = 0]
         /\ \A f \in {"out", "composer", "eager", "anthy", "record", "options",
                      "lessons", "up", "taught"} : ShowKana(st)[f] = st[f]
<1> DEFINE m == [EmptyModel EXCEPT !.settled = Texts(st.eager),
                                   !.active = Display(st.composer, Settings(st.options))]
           y == [st EXCEPT !.model = m, !.conv.listed = 0]
<1>1. /\ st.composer \in Composer /\ st.options \in Options /\ st.eager \in Seq(Span)
      /\ st.conv \in Conversion
  BY DEF CallState
<1>2. Texts(st.eager) \in Text /\ Display(st.composer, Settings(st.options)) \in Text
  BY <1>1, Buffer, SpanReadings, TextsOf
<1>3. /\ m \in Model /\ m.settled = Texts(st.eager) /\ m.tail = <<>>
      /\ m.active = Display(st.composer, Settings(st.options))
      /\ m.candidates = <<>> /\ m.cursor = 0
  <2>1. /\ EmptyModel.tail = <<>> /\ EmptyModel.candidates = <<>>
        /\ EmptyModel.cursor = 0
    BY DEF EmptyModel
  <2> QED BY <1>2, <2>1, EmptyModelType DEF Model
<1> HIDE DEF m
<1>5. [st.conv EXCEPT !.listed = 0] \in Conversion
  BY <1>1 DEF Conversion
<1>6. y \in CallState /\ y.model = m /\ y.conv = [st.conv EXCEPT !.listed = 0]
  BY <1>3, <1>5 DEF CallState
<1>7. \A f \in {"out", "composer", "eager", "anthy", "record", "options", "lessons",
                "up", "taught"} : y[f] = st[f]
  BY DEF CallState
<1>8. y = ShowKana(st)
  BY DEF ShowKana, m
<1> HIDE DEF y
<1>9. KanaShown(y)
  BY <1>3, <1>6, <1>7 DEF KanaShown
<1> QED BY <1>3, <1>6, <1>7, <1>8, <1>9

\* Anthy's context is dropped, and with it the conversion.
LEMMA ForgetIs ==
  ASSUME NEW st \in CallState
  PROVE  /\ Forget(st) \in CallState
         /\ Forget(st).conv = NoConversion /\ Forget(st).anthy = <<>>
         /\ \A f \in {"model", "out", "composer", "eager", "record", "options",
                      "lessons", "up", "taught"} : Forget(st)[f] = st[f]
<1>1. <<>> \in Seq(Segment)
  OBVIOUS
<1> QED BY <1>1, NoConversionType DEF Forget, CallState

\* A composition ends: nothing is left of it.
LEMMA EmptiedIs ==
  ASSUME NEW x \in CallState
  PROVE  LET y == Forget(Emptied(x))
         IN /\ y \in CallState /\ KanaShown(y) /\ HoldsNothing(y)
            /\ y.model = EmptyModel /\ y.out = x.out
            /\ y.composer = EmptyComposer /\ y.eager = <<>>
            /\ \A f \in {"record", "options", "lessons", "up", "taught"} : y[f] = x[f]
<1> DEFINE z == Emptied(x)
           y == Forget(z)
<1>1. /\ <<>> \in Seq(Span) /\ EmptyComposer \in Composer /\ EmptyModel \in Model
      /\ x.options \in Options
  BY EmptyBuffer, EmptyModelType DEF CallState
<1>2. /\ z \in CallState
      /\ z.model = EmptyModel /\ z.eager = <<>> /\ z.composer = EmptyComposer
      /\ \A f \in {"out", "record", "options", "lessons", "up", "taught"} : z[f] = x[f]
  BY <1>1 DEF Emptied, CallState
<1> HIDE DEF z
<1>3. /\ y \in CallState /\ y.conv = NoConversion /\ y.anthy = <<>>
      /\ \A f \in {"model", "out", "composer", "eager", "record", "options", "lessons",
                   "up", "taught"} : y[f] = z[f]
  BY <1>2, ForgetIs
<1> HIDE DEF y
<1>4. /\ y.model = EmptyModel /\ y.eager = <<>> /\ y.composer = EmptyComposer
      /\ y.out = x.out /\ y.options = x.options
  BY <1>2, <1>3
<1>5. /\ EmptyModel.settled = <<>> /\ EmptyModel.active = <<>> /\ EmptyModel.tail = <<>>
      /\ EmptyModel.candidates = <<>>
  BY DEF EmptyModel
<1>6. Texts(<<>>) = <<>> /\ Display(EmptyComposer, Settings(x.options)) = <<>>
  BY <1>1, EmptySpans, EmptyBuffer
<1>7. KanaShown(y) /\ HoldsNothing(y)
  BY <1>3, <1>4, <1>5, <1>6 DEF KanaShown, HoldsNothing
<1>8. \A f \in {"record", "options", "lessons", "up", "taught"} : y[f] = x[f]
  BY <1>2, <1>3
<1> QED BY <1>3, <1>4, <1>7, <1>8 DEF y, z

\* ... with `text` committed.
LEMMA EndIs ==
  ASSUME NEW st \in CallState, NEW text \in Text
  PROVE  LET y == Forget(Emptied([st EXCEPT !.out.commit = text]))
         IN /\ y \in CallState /\ KanaShown(y) /\ HoldsNothing(y)
            /\ y.model = EmptyModel /\ y.out.commit = text
            /\ y.composer = EmptyComposer /\ y.eager = <<>>
            /\ \A f \in {"record", "options", "lessons", "up", "taught"} : y[f] = st[f]
<1> DEFINE x == [st EXCEPT !.out.commit = text]
           y == Forget(Emptied(x))
<1>1. x \in CallState /\ x.out.commit = text
  BY DEF CallState, Plainly
<1>2. \A f \in {"record", "options", "lessons", "up", "taught"} : x[f] = st[f]
  BY DEF CallState
<1> HIDE DEF x
<1>3. /\ y \in CallState /\ KanaShown(y) /\ HoldsNothing(y)
      /\ y.model = EmptyModel /\ y.out = x.out
      /\ y.composer = EmptyComposer /\ y.eager = <<>>
      /\ \A f \in {"record", "options", "lessons", "up", "taught"} : y[f] = x[f]
  BY <1>1, EmptiedIs
<1> HIDE DEF y
<1>4. \A f \in {"record", "options", "lessons", "up", "taught"} : y[f] = st[f]
  BY <1>2, <1>3
<1> QED BY <1>1, <1>3, <1>4 DEF y, x

\* anthy is asked for a reading.
LEMMA SetStringIs ==
  ASSUME AnthyAnswers, NEW st \in CallState, NEW reading \in Text
  PROVE  LET y == SetString(st, reading)
         IN /\ y \in CallState
            /\ \A f \in {"model", "out", "composer", "eager", "conv", "record",
                         "options", "lessons", "up", "taught"} : y[f] = st[f]
            /\ y.anthy # <<>> => /\ y.anthy = Analyse(reading, st.record)
                                 /\ Readings(y.anthy) = reading
<1>1. st.record \in Records
  BY DEF CallState
<1> DEFINE a == Analyse(reading, st.record)
<1>2. a \in Seq(Segment) /\ (a # <<>> => Readings(a) = reading)
  BY <1>1 DEF AnthyAnswers
<1>3. <<>> \in Seq(Segment)
  OBVIOUS
<1> HIDE DEF a
<1> DEFINE b == IF st.up THEN a ELSE <<>>
<1>4. b \in Seq(Segment) /\ (b # <<>> => b = a)
  BY <1>2, <1>3
<1> HIDE DEF b
<1>5. SetString(st, reading) = [st EXCEPT !.anthy = b]
  BY DEF SetString, a, b
<1> QED BY <1>2, <1>4, <1>5 DEF CallState, a

\* A conversion just made: every segment at its first candidate, none told of.
Fresh(y, st, asked, first) ==
  /\ y \in CallState
  /\ \A f \in {"model", "out", "composer", "eager", "anthy", "record",
               "options", "lessons", "up", "taught"} : y[f] = st[f]
  /\ y.conv.asked = asked /\ y.conv.count = Len(st.anthy)
  /\ y.conv.count \in Nat \ {0} /\ y.conv.active = 1
  /\ Len(y.conv.chosen) = y.conv.count /\ Len(y.conv.recorded) = y.conv.count
  /\ \A i \in 1..y.conv.count :
       /\ y.conv.chosen[i] = IF i = 1 THEN first ELSE 0
       /\ y.conv.recorded[i] = <<>>
  /\ y.conv.listed = st.conv.listed

LEMMA StartedIs ==
  ASSUME NEW st \in CallState, st.anthy # <<>>, NEW asked \in BOOLEAN, NEW first \in Nat
  PROVE  Fresh(Started(st, asked, first), st, asked, first)
<1> DEFINE size == Len(st.anthy)
           chosen == [i \in 1..size |-> IF i = 1 THEN first ELSE 0]
           recorded == [i \in 1..size |-> <<>>]
<1>1. st.anthy \in Seq(Segment) /\ st.conv \in Conversion /\ st.conv.listed \in Nat
  BY DEF CallState, Conversion
<1>2. size \in Nat \ {0}
  BY <1>1, EmptySeq
<1>3. chosen \in Seq(Nat) /\ Len(chosen) = size
  <2>1. chosen \in [1..size -> Nat]
    OBVIOUS
  <2> QED BY <1>2, <2>1, IsASeq, LenProperties
<1>4. recorded \in Seq(Text) /\ Len(recorded) = size
  <2>1. recorded \in [1..size -> Text]
    BY EmptyText
  <2> QED BY <1>2, <2>1, IsASeq, LenProperties
<1>5. \A i \in 1..size : chosen[i] = (IF i = 1 THEN first ELSE 0) /\ recorded[i] = <<>>
  OBVIOUS
<1> DEFINE c == [asked |-> asked, count |-> size, active |-> 1, chosen |-> chosen,
                 recorded |-> recorded, listed |-> st.conv.listed]
<1>6. Started(st, asked, first) = [st EXCEPT !.conv = c]
  BY DEF Started
<1> HIDE DEF size, chosen, recorded
<1>7. c \in Conversion
  BY <1>1, <1>2, <1>3, <1>4 DEF Conversion
<1>8. /\ c.asked = asked /\ c.count = size /\ c.active = 1 /\ c.chosen = chosen
      /\ c.recorded = recorded /\ c.listed = st.conv.listed
  OBVIOUS
<1> HIDE DEF c
<1> DEFINE y == [st EXCEPT !.conv = c]
<1>9. /\ y \in CallState /\ y.conv = c
      /\ \A f \in {"model", "out", "composer", "eager", "anthy", "record",
                   "options", "lessons", "up", "taught"} : y[f] = st[f]
  BY <1>7 DEF CallState
<1> HIDE DEF y
<1> QED BY <1>2, <1>3, <1>4, <1>5, <1>6, <1>8, <1>9 DEF y, size, Fresh

\* Nothing listed is the beginning of any list.
LEMMA NothingBegins == ASSUME NEW S, NEW list \in Seq(S) PROVE Begins(<<>>, list)
<1>1. 0 \in 0..Len(list)
  BY LenProperties
<1>2. SubSeq(list, 1, 0) = <<>>
  BY SubSeqEmpty
<1> QED BY <1>1, <1>2 DEF Begins

\* The kana shown, an eager conversion is made of it or nothing is.
LEMMA RefreshEagerIs ==
  ASSUME AnthyAnswers, NEW st \in CallState, KanaShown(st), st.model.candidates = <<>>
  PROVE  LET y == RefreshEager(st)
         IN /\ y \in CallState /\ Typing(y) /\ ~y.conv.asked
            /\ \A f \in {"model", "out", "composer", "eager", "record", "options",
                         "lessons", "up", "taught"} : y[f] = st[f]
<1> DEFINE y == RefreshEager(st)
           reading == Reading(st.composer, Settings(st.options))
           asked == SetString(st, reading)
<1>1. /\ st.composer \in Composer /\ st.options \in Options /\ st.record \in Records
  BY DEF CallState
<1>2. reading = FinishedKana(st.composer) /\ reading \in Text
  BY <1>1, Buffer
<1> HIDE DEF reading
<1>3. ASSUME y = Forget(st) PROVE /\ y \in CallState /\ Typing(y) /\ ~y.conv.asked
            /\ \A f \in {"model", "out", "composer", "eager", "record", "options",
                         "lessons", "up", "taught"} : y[f] = st[f]
  <2> HIDE DEF y
  <2>1. /\ y \in CallState /\ y.conv = NoConversion /\ y.anthy = <<>>
        /\ \A f \in {"model", "out", "composer", "eager", "record", "options",
                     "lessons", "up", "taught"} : y[f] = st[f]
    BY <1>3, ForgetIs
  <2>2. KanaShown(y) /\ HoldsNothing(y)
    BY <2>1 DEF KanaShown, HoldsNothing
  <2>3. ~NoConversion.asked
    BY DEF NoConversion
  <2> QED BY <2>1, <2>2, <2>3 DEF Typing
<1>4. CASE ~st.options.prediction \/ st.composer = EmptyComposer \/ asked.anthy = <<>>
  <2>1. y = Forget(st)
    BY <1>4 DEF RefreshEager, reading
  <2> QED BY <1>3, <2>1
<1>5. CASE ~(~st.options.prediction \/ st.composer = EmptyComposer \/ asked.anthy = <<>>)
  <2>1. y = Started(asked, FALSE, 0)
    BY <1>5 DEF RefreshEager, reading
  <2>2. /\ asked \in CallState /\ asked.anthy # <<>>
        /\ \A f \in {"model", "out", "composer", "eager", "conv", "record",
                     "options", "lessons", "up", "taught"} : asked[f] = st[f]
        /\ asked.anthy = Analyse(reading, st.record)
        /\ Readings(asked.anthy) = reading
    BY <1>2, <1>5, SetStringIs
  <2> HIDE DEF asked, y
  <2>3. /\ y \in CallState
        /\ \A f \in {"model", "out", "composer", "eager", "anthy", "record",
                     "options", "lessons", "up", "taught"} : y[f] = asked[f]
        /\ y.conv.asked = FALSE /\ y.conv.count = Len(asked.anthy)
        /\ y.conv.count \in Nat \ {0} /\ y.conv.active = 1
    <3>1. Fresh(Started(asked, FALSE, 0), asked, FALSE, 0)
      BY <2>2, StartedIs
    <3> QED BY <2>1, <3>1 DEF Fresh
  <2>4. \A f \in {"model", "out", "composer", "eager", "record",
                  "options", "lessons", "up", "taught"} : y[f] = st[f]
    BY <2>2, <2>3
  <2>5. KanaShown(y)
    BY <2>4 DEF KanaShown
  <2>6. Offers(y)
    BY <1>2, <1>5, <2>2, <2>3, <2>4 DEF Offers
  <2>7. OffersCurrent(y)
    <3> DEFINE a == Analyse(reading, st.record)
    <3>1. a = y.anthy /\ y.anthy # <<>> /\ y.anthy \in Seq(Segment)
      BY <2>2, <2>3 DEF CallState
    <3>2. a = Analyse(FinishedKana(y.composer), y.record)
      BY <1>2, <2>4
    <3> HIDE DEF a
    <3>3. 1 \in 1..Len(y.anthy)
      BY <2>2, <2>3
    <3>4. y.anthy[1].candidates \in Seq(Text)
      BY <3>1, <3>3, Segments
    <3>5. y.model.candidates = <<>>
      BY <2>4
    <3>6. Begins(y.model.candidates, y.anthy[1].candidates)
      BY <3>4, <3>5, NothingBegins
    <3> QED BY <3>1, <3>2, <3>6 DEF OffersCurrent
  <2> QED BY <2>3, <2>4, <2>5, <2>6, <2>7 DEF Typing, y
<1> QED BY <1>4, <1>5

\* What is chosen is text, segment by segment and settled together.
LEMMA ChosenTexts ==
  ASSUME NEW st \in CallState, Chooses(st)
  PROVE  /\ st.conv.count \in Nat \ {0} /\ st.conv.active \in 1..st.conv.count
         /\ Len(st.anthy) = st.conv.count /\ st.anthy \in Seq(Segment)
         /\ \A i \in 1..st.conv.count :
              /\ st.conv.chosen[i] \in Nat
              /\ st.conv.chosen[i] < Len(st.anthy[i].candidates)
              /\ Chosen(st, i) = st.anthy[i].candidates[st.conv.chosen[i] + 1]
              /\ Chosen(st, i) \in Text /\ Chosen(st, i) # <<>>
         /\ SettledText(st) \in Text
         /\ \A i \in 1..st.conv.count :
              /\ SubSeq(st.anthy, i + 1, st.conv.count) \in Seq(Segment)
              /\ Readings(SubSeq(st.anthy, i + 1, st.conv.count)) \in Text
<1>1. /\ st.anthy \in Seq(Segment) /\ st.conv.count \in Nat
      /\ st.conv.active \in Nat \ {0} /\ st.conv.chosen \in Seq(Nat)
  BY DEF CallState, Conversion
<1>2. st.conv.count \in Nat \ {0} /\ st.conv.active \in 1..st.conv.count
  BY <1>1 DEF Chooses
<1>3. ASSUME NEW i \in 1..st.conv.count
      PROVE  /\ st.conv.chosen[i] \in Nat
             /\ st.conv.chosen[i] < Len(st.anthy[i].candidates)
             /\ Chosen(st, i) = st.anthy[i].candidates[st.conv.chosen[i] + 1]
             /\ Chosen(st, i) \in Text /\ Chosen(st, i) # <<>>
  <2>1. /\ st.conv.chosen[i] \in Nat /\ i \in 1..Len(st.anthy)
        /\ st.conv.chosen[i] < Len(st.anthy[i].candidates)
    BY <1>1 DEF Chooses
  <2>2. Chosen(st, i) = st.anthy[i].candidates[st.conv.chosen[i] + 1]
    BY DEF Chosen, Fetch
  <2> QED BY <1>1, <2>1, <2>2, Segments
<1>4. SettledText(st) \in Text
  <2> DEFINE g == [i \in 1..(st.conv.active - 1) |-> Chosen(st, i)]
  <2>1. /\ st.conv.active - 1 \in Nat
        /\ \A i \in 1..(st.conv.active - 1) : g[i] = Chosen(st, i) /\ i \in 1..st.conv.count
    BY <1>2
  <2>2. DOMAIN g = 1..(st.conv.active - 1) /\ g = [i \in 1..(st.conv.active - 1) |-> g[i]]
    OBVIOUS
  <2>3. \A i \in 1..(st.conv.active - 1) : g[i] \in Text
    BY <1>3, <2>1
  <2> HIDE DEF g
  <2>4. g \in Seq(Seq(Scalar))
    BY <2>1, <2>2, <2>3, TextFunction
  <2>5. FlattenSeq(g) \in Text
    BY <2>4, FlattenType DEF Text
  <2> QED BY <2>5 DEF SettledText, g
<1>5. ASSUME NEW i \in 1..st.conv.count
      PROVE  /\ SubSeq(st.anthy, i + 1, st.conv.count) \in Seq(Segment)
             /\ Readings(SubSeq(st.anthy, i + 1, st.conv.count)) \in Text
  <2>1. /\ \A k \in i + 1..st.conv.count : st.anthy[k] \in Segment
        /\ i + 1 \in Int /\ st.conv.count \in Int
    BY <1>1, <1>2 DEF Chooses
  <2>2. SubSeq(st.anthy, i + 1, st.conv.count) \in Seq(Segment)
    BY <2>1, SubSeqProperties
  <2> QED BY <2>2, SpanReadings, ReadingsOf
<1> QED BY <1>1, <1>2, <1>3, <1>4, <1>5 DEF Chooses

\* The list a conversion keeps is that of its active segment.
ListFits(st) ==
  ~situation.others /\ st.conv.listed = st.conv.active =>
    Begins(st.model.candidates, st.anthy[st.conv.active].candidates)

\* show_segments shows the conversion as chosen, the highlight with it.
LEMMA ShowSegmentsIs ==
  ASSUME NEW st \in CallState, Chooses(st), Teaches(st), ListFits(st)
  PROVE  LET y == ShowSegments(st)
         IN /\ y \in CallState /\ Converting(y) /\ Pointed(y)
            /\ \A f \in {"out", "composer", "eager", "anthy", "record", "options",
                         "lessons", "up", "taught"} : y[f] = st[f]
            /\ y.conv = [st.conv EXCEPT !.listed = st.conv.active]
            /\ y.conv.asked
            /\ y.model.settled = Texts(st.eager) \o SettledText(st)
<1> DEFINE c == st.conv
           y == ShowSegments(st)
           list == IF c.listed = c.active THEN st.model.candidates ELSE <<>>
           m == [settled |-> Texts(st.eager) \o SettledText(st),
                 active |-> Chosen(st, c.active),
                 tail |-> Readings(SubSeq(st.anthy, c.active + 1, c.count)),
                 candidates |-> list, cursor |-> c.chosen[c.active]]
           d == [c EXCEPT !.listed = c.active]
<1>1. /\ c \in Conversion /\ st.model.candidates \in Seq(Text) /\ st.eager \in Seq(Span)
  BY DEF CallState, Model
<1>2. /\ c.count \in Nat \ {0} /\ c.active \in 1..c.count /\ c.active \in Nat
      /\ SettledText(st) \in Text /\ Chosen(st, c.active) \in Text
      /\ Readings(SubSeq(st.anthy, c.active + 1, c.count)) \in Text
      /\ c.chosen[c.active] \in Nat /\ st.anthy \in Seq(Segment)
      /\ Len(st.anthy) = c.count
  BY ChosenTexts
<1>3. Texts(st.eager) \o SettledText(st) \in Text
  BY <1>1, <1>2, SpanReadings, TextsOf, ConcatText
<1>4. list \in Seq(Text)
  BY <1>1
<1>5. y = [st EXCEPT !.model = m, !.conv.listed = c.active]
  BY DEF ShowSegments, Segmented, SettledText
<1>6. d \in Conversion /\ d.listed = c.active
      /\ \A f \in {"asked", "count", "active", "chosen", "recorded"} : d[f] = c[f]
  BY <1>1, <1>2 DEF Conversion
<1> HIDE DEF list, y
<1>7. m \in Model
  BY <1>2, <1>3, <1>4 DEF Model
<1>8. /\ m.settled = Texts(st.eager) \o SettledText(st) /\ m.active = Chosen(st, c.active)
      /\ m.tail = Readings(SubSeq(st.anthy, c.active + 1, c.count))
      /\ m.candidates = list /\ m.cursor = c.chosen[c.active]
  OBVIOUS
<1> HIDE DEF m
<1>9. /\ y \in CallState /\ y.model = m /\ y.conv = d
      /\ \A f \in {"out", "composer", "eager", "anthy", "record", "options",
                   "lessons", "up", "taught"} : y[f] = st[f]
  BY <1>5, <1>6, <1>7 DEF CallState
<1> HIDE DEF d
<1>10. \A i : Chosen(y, i) = Chosen(st, i)
  BY <1>6, <1>9 DEF Chosen, Fetch
<1>11. SettledText(y) = SettledText(st)
  BY <1>6, <1>9, <1>10 DEF SettledText
<1>12. Chooses(y)
  BY <1>6, <1>9 DEF Chooses
<1>13. Teaches(y)
  BY <1>6, <1>9, <1>10 DEF Teaches
<1>14. ConversionShown(y)
  BY <1>6, <1>8, <1>9, <1>10, <1>11 DEF ConversionShown
<1>15. ASSUME ~situation.others
       PROVE  Begins(y.model.candidates, y.anthy[y.conv.active].candidates)
  <2>1. y.model.candidates = list /\ y.anthy = st.anthy /\ y.conv.active = c.active
    BY <1>6, <1>8, <1>9
  <2>2. CASE c.listed = c.active
    BY <1>15, <2>1, <2>2 DEF ListFits, list
  <2>3. CASE c.listed # c.active
    <3>1. st.anthy[c.active].candidates \in Seq(Text)
      BY <1>2, Segments
    <3>2. list = <<>>
      BY <2>3 DEF list
    <3> QED BY <2>1, <3>1, <3>2, NothingBegins
  <2> QED BY <2>2, <2>3
<1>16. Pointed(y)
  BY <1>6, <1>8, <1>9 DEF Pointed
<1>17. y.conv.asked
  BY <1>12 DEF Chooses
<1>18. y.conv.listed = y.conv.active
  BY <1>6, <1>9
<1> QED BY <1>8, <1>9, <1>12, <1>13, <1>14, <1>15, <1>16, <1>17, <1>18
        DEF Converting, y, d

\* begin_conversion: the kana is converted as asked, or anthy is left with nothing.
BeginsWell(st) ==
  /\ st.composer # EmptyComposer
  /\ st.model.candidates # <<>> => st.model.cursor < st.options.cap
  /\ st.model.candidates = <<>> \/ (~situation.others => OffersCurrent(st))

LEMMA BeginConversionIs ==
  ASSUME AnthyAnswers, NEW st \in CallState, KanaShown(st), BeginsWell(st)
  PROVE  LET y == BeginConversion(st)
         IN /\ y \in CallState
            /\ \A f \in {"out", "composer", "eager", "record", "options",
                         "lessons", "up", "taught"} : y[f] = st[f]
            /\ \/ y.conv.asked /\ Converting(y) /\ Pointed(y)
               \/ y.model = st.model /\ y.conv = st.conv /\ y.anthy = <<>>
<1> DEFINE y == BeginConversion(st)
           adopt == IF st.conv.count > 0 /\ ~st.conv.asked /\ st.model.candidates # <<>>
                    THEN st.model.cursor ELSE 0
           reading == Reading(st.composer, Settings(st.options))
           asked == SetString(st, reading)
           first == IF Fetchable(asked, 1, adopt) THEN adopt ELSE 0
           z == Started(asked, TRUE, first)
<1>1. /\ st.composer \in Composer /\ st.options \in Options /\ st.record \in Records
      /\ st.model.cursor \in Nat /\ st.options.cap \in Nat \ {0}
  BY DEF CallState, Options, Model
<1>2. reading = FinishedKana(st.composer) /\ reading \in Text
  BY <1>1, Buffer
<1> HIDE DEF reading
<1>3. /\ asked \in CallState
      /\ \A f \in {"model", "out", "composer", "eager", "conv", "record",
                   "options", "lessons", "up", "taught"} : asked[f] = st[f]
      /\ asked.anthy # <<>> => asked.anthy = Analyse(reading, st.record)
  BY <1>2, SetStringIs
<1>4. CASE asked.anthy = <<>>
  <2>1. y = asked
    BY <1>4 DEF BeginConversion, reading
  <2> HIDE DEF y, asked
  <2> QED BY <1>3, <1>4, <2>1 DEF y
<1>5. CASE asked.anthy # <<>>
  <2>1. y = ShowSegments(z)
    BY <1>5 DEF BeginConversion, reading
  <2> HIDE DEF asked, y
  <2>2. adopt \in Nat /\ adopt < st.options.cap
    BY <1>1 DEF BeginsWell
  <2> HIDE DEF adopt
  <2>3. /\ first \in Nat /\ first < st.options.cap
        /\ first < Len(asked.anthy[1].candidates)
    <3>1. asked.anthy \in Seq(Segment)
      BY <1>3 DEF CallState
    <3>2. 1 \in 1..Len(asked.anthy)
      BY <1>5, <3>1, EmptySeq
    <3>3. /\ asked.anthy[1].candidates \in Seq(Text)
          /\ Len(asked.anthy[1].candidates) \in Nat \ {0}
      BY <3>1, <3>2, Segments
    <3>4. CASE Fetchable(asked, 1, adopt)
      <4>1. adopt + 1 \in 1..Len(asked.anthy[1].candidates)
        BY <3>3, <3>4 DEF Fetchable
      <4> QED BY <2>2, <3>3, <3>4, <4>1
    <3>5. CASE ~Fetchable(asked, 1, adopt)
      BY <1>1, <3>3, <3>5
    <3> QED BY <3>4, <3>5
  <2> HIDE DEF first
  <2>4. Fresh(z, asked, TRUE, first)
    BY <1>3, <1>5, <2>3, StartedIs
  <2> HIDE DEF z
  <2>5. /\ z \in CallState
        /\ \A f \in {"model", "out", "composer", "eager", "anthy", "record",
                     "options", "lessons", "up", "taught"} : z[f] = asked[f]
        /\ z.conv.asked /\ z.conv.count = Len(asked.anthy)
        /\ z.conv.count \in Nat \ {0} /\ z.conv.active = 1
        /\ Len(z.conv.chosen) = z.conv.count /\ Len(z.conv.recorded) = z.conv.count
        /\ \A i \in 1..z.conv.count : /\ z.conv.chosen[i] = IF i = 1 THEN first ELSE 0
                                      /\ z.conv.recorded[i] = <<>>
    BY <2>4 DEF Fresh
  <2>6. /\ z.anthy = asked.anthy /\ z.anthy \in Seq(Segment)
        /\ \A f \in {"model", "out", "composer", "eager", "record",
                     "options", "lessons", "up", "taught"} : z[f] = st[f]
    BY <1>3, <2>5 DEF CallState
  <2>7. Chooses(z)
    <3>1. ASSUME NEW i \in 1..z.conv.count
          PROVE  /\ z.conv.chosen[i] < Len(z.anthy[i].candidates)
                 /\ z.conv.chosen[i] < z.options.cap
      <4>1. z.options = st.options /\ i \in 1..Len(z.anthy)
        BY <2>5, <2>6
      <4>2. Len(z.anthy[i].candidates) \in Nat \ {0}
        BY <2>6, <4>1, Segments
      <4> QED BY <1>1, <2>3, <2>5, <2>6, <4>1, <4>2
    <3> QED BY <2>5, <2>6, <3>1 DEF Chooses, BeginsWell
  <2>8. Teaches(z)
    BY <2>5 DEF Teaches
  <2>9. ListFits(z)
    <3> SUFFICES ASSUME ~situation.others
                 PROVE  Begins(z.model.candidates, z.anthy[z.conv.active].candidates)
      BY DEF ListFits
    <3>1. z.model = st.model /\ z.conv.active = 1 /\ z.anthy = Analyse(reading, st.record)
      BY <1>3, <1>5, <2>5, <2>6
    <3>2. CASE st.model.candidates = <<>>
      <4>1. 1 \in 1..Len(z.anthy)
        BY <2>5
      <4>2. z.anthy[1].candidates \in Seq(Text)
        BY <2>6, <4>1, Segments
      <4> QED BY <3>1, <3>2, <4>2, NothingBegins
    <3>3. CASE st.model.candidates # <<>>
      <4>1. OffersCurrent(st)
        BY <3>3 DEF BeginsWell
      <4> QED BY <1>2, <3>1, <4>1 DEF OffersCurrent
    <3> QED BY <3>2, <3>3
  <2>10. /\ y \in CallState /\ Converting(y) /\ Pointed(y) /\ y.conv.asked
         /\ \A f \in {"out", "composer", "eager", "anthy", "record", "options",
                      "lessons", "up", "taught"} : y[f] = z[f]
    BY <2>1, <2>5, <2>7, <2>8, <2>9, ShowSegmentsIs
  <2>11. \A f \in {"out", "composer", "eager", "record", "options",
                   "lessons", "up", "taught"} : y[f] = st[f]
    BY <2>6, <2>10
  <2> QED BY <2>10, <2>11 DEF y
<1> QED BY <1>4, <1>5

\* What anthy is told of: what is on screen for each segment not told of yet.
Taught(st, through, i) ==
  IF i <= through /\ st.conv.recorded[i] = <<>> THEN Seen(st, i) ELSE st.conv.recorded[i]

LEMMA SeenIsText ==
  ASSUME NEW st \in CallState, Chooses(st), NEW i \in 1..st.conv.count
  PROVE  Seen(st, i) \in Text /\ Seen(st, i) # <<>>
<1>1. i \in 1..Len(st.anthy) /\ st.anthy \in Seq(Segment)
  BY ChosenTexts
<1>2. st.anthy[i].reading \in Text /\ st.anthy[i].reading # <<>>
  BY <1>1, Segments
<1>3. Chosen(st, i) \in Text /\ Chosen(st, i) # <<>>
  BY ChosenTexts
<1> QED BY <1>2, <1>3 DEF Seen

LEMMA RecordChoicesIs ==
  ASSUME NEW st \in CallState, Chooses(st), Len(st.conv.recorded) = st.conv.count,
         NEW through \in 1..st.conv.count
  PROVE  LET y == RecordChoices(st, through)
         IN /\ y \in CallState
            /\ \A f \in {"model", "out", "composer", "eager", "anthy", "options",
                         "up", "taught"} : y[f] = st[f]
            /\ \A f \in {"asked", "count", "active", "chosen", "listed"} :
                 y.conv[f] = st.conv[f]
            /\ Len(y.conv.recorded) = st.conv.count
            /\ \A i \in 1..st.conv.count : y.conv.recorded[i] = Taught(st, through, i)
            /\ y.lessons = st.lessons
                             \cup {<<i, Seen(st, i)>> : i \in Untaught(st, through)}
<1> DEFINE untaught == Untaught(st, through)
           told == [i \in untaught |-> Seen(st, i)]
           count == st.conv.count
           known == [i \in 1..count |->
                       IF i \in DOMAIN told THEN told[i] ELSE st.conv.recorded[i]]
           new == {<<i, told[i]>> : i \in DOMAIN told}
           r == IF <<>> \in Range(known) THEN st.record ELSE st.taught
           y == RecordChoices(st, through)
<1>1. /\ st.conv \in Conversion /\ st.conv.recorded \in Seq(Text) /\ count \in Nat
      /\ st.lessons \subseteq Nat \X Text /\ st.record \in Records /\ st.taught \in Records
  BY DEF CallState, Conversion
<1>2. untaught \subseteq 1..count
      /\ \A i \in 1..count : i \in untaught <=> i <= through /\ st.conv.recorded[i] = <<>>
  BY <1>1 DEF Untaught
<1>3. \A i \in untaught : told[i] = Seen(st, i) /\ Seen(st, i) \in Text
  BY <1>2, SeenIsText
<1>4. DOMAIN told = untaught
  OBVIOUS
<1> HIDE DEF untaught, told
<1>5. \A i \in 1..count : known[i] = Taught(st, through, i) /\ known[i] \in Text
  BY <1>1, <1>2, <1>3, <1>4 DEF Taught
<1>6. known \in Seq(Text) /\ Len(known) = count
  <2>1. known \in [1..count -> Text]
    BY <1>5
  <2> QED BY <1>1, <2>1, IsASeq, LenProperties
<1>7. new \subseteq Nat \X Text
      /\ new = {<<i, Seen(st, i)>> : i \in untaught}
  <2>1. new = {<<i, Seen(st, i)>> : i \in untaught}
    BY <1>3, <1>4
  <2>2. \A i \in untaught : i \in Nat /\ Seen(st, i) \in Text
    BY <1>1, <1>2, <1>3
  <2> HIDE DEF new
  <2> QED BY <2>1, <2>2
<1>8. r \in Records
  BY <1>1
<1>9. y = [st EXCEPT !.conv.recorded = known, !.lessons = st.lessons \cup new,
                     !.record = r]
  BY DEF RecordChoices, Teach, told, untaught
<1> HIDE DEF known, new, r, y
<1> DEFINE c == [st.conv EXCEPT !.recorded = known]
<1>10. /\ c \in Conversion /\ c.recorded = known
       /\ \A f \in {"asked", "count", "active", "chosen", "listed"} : c[f] = st.conv[f]
  BY <1>1, <1>6 DEF Conversion
<1> HIDE DEF c
<1>11. st.lessons \cup new \in SUBSET (Nat \X Text)
  BY <1>1, <1>7
<1>12. y \in CallState /\ y.conv = c /\ y.lessons = st.lessons \cup new
       /\ \A f \in {"model", "out", "composer", "eager", "anthy", "options",
                    "up", "taught"} : y[f] = st[f]
  BY <1>8, <1>9, <1>10, <1>11 DEF CallState, c
<1> QED BY <1>5, <1>6, <1>7, <1>10, <1>12 DEF y, untaught

\* show_candidate: another candidate of the active segment is chosen.
LEMMA ShowCandidateIs ==
  ASSUME NEW st \in CallState, Converting(st), NEW k \in Nat,
         k < Len(st.anthy[st.conv.active].candidates), k < st.options.cap
  PROVE  LET y == ShowCandidate(st, k)
         IN /\ y \in CallState /\ Converting(y) /\ Pointed(y)
            /\ \A f \in {"out", "composer", "eager", "anthy", "record", "options",
                         "lessons", "up", "taught"} : y[f] = st[f]
            /\ \A f \in {"asked", "count", "active", "recorded", "listed"} :
                 y.conv[f] = st.conv[f]
            /\ \A f \in {"settled", "tail", "candidates"} : y.model[f] = st.model[f]
            /\ y.model.active = st.anthy[st.conv.active].candidates[k + 1]
            /\ SettledText(y) = SettledText(st)
<1> DEFINE c == st.conv
           text == Fetch(st, c.active, k)
           chosen == [c.chosen EXCEPT ![c.active] = k]
           m == [st.model EXCEPT !.active = text, !.cursor = k]
           d == [c EXCEPT !.chosen = chosen]
           y == ShowCandidate(st, k)
<1>1. Chooses(st) /\ Teaches(st) /\ ConversionShown(st) /\ c.listed = c.active
  BY DEF Converting
<1>2. /\ st.model \in Model /\ c \in Conversion /\ c.chosen \in Seq(Nat)
      /\ st.anthy \in Seq(Segment) /\ Len(c.chosen) = c.count
  BY <1>1 DEF CallState, Conversion, Chooses
<1>3. c.count \in Nat \ {0} /\ c.active \in 1..c.count /\ Len(st.anthy) = c.count
  BY <1>1, ChosenTexts
<1>4. text = st.anthy[c.active].candidates[k + 1] /\ text \in Text
  BY <1>2, <1>3, Segments DEF Fetch
<1> HIDE DEF text
<1>5. /\ chosen \in Seq(Nat) /\ Len(chosen) = c.count /\ chosen[c.active] = k
      /\ \A i \in 1..c.count : i # c.active => chosen[i] = c.chosen[i]
  <2>1. c.chosen \in [1..c.count -> Nat]
    BY <1>2
  <2>2. chosen \in [1..c.count -> Nat]
    BY <2>1
  <2>3. chosen \in Seq(Nat) /\ Len(chosen) = c.count
    <3> HIDE DEF chosen
    <3>1. c.count \in Nat
      BY <1>3
    <3>2. chosen \in Seq(Nat)
      BY <2>2, <3>1, IsASeq
    <3> QED BY <2>2, <3>1, <3>2, LenProperties
  <2> QED BY <1>3, <2>1, <2>3
<1> HIDE DEF chosen
<1>6. /\ m \in Model /\ m.active = text /\ m.cursor = k
      /\ \A f \in {"settled", "tail", "candidates"} : m[f] = st.model[f]
  BY <1>2, <1>4 DEF Model
<1>7. /\ d \in Conversion /\ d.chosen = chosen
      /\ \A f \in {"asked", "count", "active", "recorded", "listed"} : d[f] = c[f]
  BY <1>2, <1>5 DEF Conversion
<1>8. y = [st EXCEPT !.conv.chosen[c.active] = k, !.model.active = text,
                     !.model.cursor = k]
  BY DEF ShowCandidate, text
<1>9. y \in CallState /\ y.conv = d /\ y.model = m
      /\ \A f \in {"out", "composer", "eager", "anthy", "record", "options",
                   "lessons", "up", "taught"} : y[f] = st[f]
  <2>1. y = [st EXCEPT !.conv = d, !.model = m]
    BY <1>8 DEF chosen
  <2> HIDE DEF y, d, m
  <2> QED BY <1>6, <1>7, <2>1 DEF CallState
<1> HIDE DEF y, d, m
<1>10. Chosen(y, c.active) = text
  BY <1>4, <1>5, <1>7, <1>9 DEF Chosen, Fetch
<1>11. \A i \in 1..c.count : i # c.active => Chosen(y, i) = Chosen(st, i)
  BY <1>5, <1>7, <1>9 DEF Chosen, Fetch
<1>12. SettledText(y) = SettledText(st)
  <2>1. \A i \in 1..(c.active - 1) : Chosen(y, i) = Chosen(st, i)
    BY <1>3, <1>11
  <2>2. [i \in 1..(c.active - 1) |-> Chosen(y, i)] = [i \in 1..(c.active - 1) |-> Chosen(st, i)]
    BY <2>1
  <2> QED BY <1>7, <1>9, <2>2 DEF SettledText
<1>13. Chooses(y)
  <2>1. \A i \in 1..c.count : /\ chosen[i] < Len(st.anthy[i].candidates)
                              /\ chosen[i] < st.options.cap
    BY <1>1, <1>5 DEF Chooses
  <2> QED BY <1>1, <1>5, <1>7, <1>9, <2>1 DEF Chooses
<1>14. Teaches(y)
  BY <1>1, <1>3, <1>7, <1>9, <1>11 DEF Teaches
<1>15. ConversionShown(y)
  BY <1>1, <1>6, <1>7, <1>9, <1>10, <1>12 DEF ConversionShown
<1>16. Converting(y)
  BY <1>1, <1>6, <1>7, <1>9, <1>13, <1>14, <1>15 DEF Converting
<1>17. Pointed(y)
  BY <1>5, <1>6, <1>7, <1>9 DEF Pointed
<1> QED BY <1>4, <1>6, <1>7, <1>9, <1>12, <1>16, <1>17 DEF y

\* What a conversion that was told of or not leaves unchanged.
LEMMA LearnedIs ==
  ASSUME NEW st \in CallState, Chooses(st), Teaches(st), NEW through \in 1..st.conv.count
  PROVE  LET y == IF st.options.learning THEN RecordChoices(st, through) ELSE st
         IN /\ y \in CallState
            /\ \A f \in {"model", "out", "composer", "eager", "anthy", "options"} :
                 y[f] = st[f]
            /\ \A f \in {"asked", "count", "active", "chosen", "listed"} :
                 y.conv[f] = st.conv[f]
            /\ Len(y.conv.recorded) = st.conv.count
            /\ \A i \in 1..st.conv.count : \/ y.conv.recorded[i] = st.conv.recorded[i]
                                           \/ i <= through /\ y.conv.recorded[i] = Seen(st, i)
            /\ y.lessons = st.lessons
                             \cup (IF st.options.learning
                                   THEN {<<i, Seen(st, i)>> : i \in Untaught(st, through)}
                                   ELSE {})
<1> DEFINE y == IF st.options.learning THEN RecordChoices(st, through) ELSE st
<1>1. Len(st.conv.recorded) = st.conv.count
  BY DEF Teaches
<1>2. CASE st.options.learning
  <2>1. y = RecordChoices(st, through)
    BY <1>2
  <2> HIDE DEF y
  <2>2. /\ y \in CallState
        /\ \A f \in {"model", "out", "composer", "eager", "anthy", "options",
                     "up", "taught"} : y[f] = st[f]
        /\ \A f \in {"asked", "count", "active", "chosen", "listed"} :
             y.conv[f] = st.conv[f]
        /\ Len(y.conv.recorded) = st.conv.count
        /\ \A i \in 1..st.conv.count : y.conv.recorded[i] = Taught(st, through, i)
        /\ y.lessons = st.lessons
                         \cup {<<i, Seen(st, i)>> : i \in Untaught(st, through)}
    BY <1>1, <2>1, RecordChoicesIs
  <2>3. \A i \in 1..st.conv.count : \/ y.conv.recorded[i] = st.conv.recorded[i]
                                    \/ i <= through /\ y.conv.recorded[i] = Seen(st, i)
    BY <2>2 DEF Taught
  <2>4. y.lessons = st.lessons
                      \cup (IF st.options.learning
                            THEN {<<i, Seen(st, i)>> : i \in Untaught(st, through)}
                            ELSE {})
    BY <1>2, <2>2
  <2> QED BY <2>2, <2>3, <2>4 DEF y
<1>3. CASE ~st.options.learning
  BY <1>1, <1>3
<1> QED BY <1>2, <1>3

\* Once the active segment is settled its text is behind the settled ones'.
LEMMA SettledGrows ==
  ASSUME NEW st \in CallState, Chooses(st), st.conv.active # st.conv.count,
         NEW z, z.conv.active = st.conv.active + 1,
         \A i \in 1..st.conv.count : Chosen(z, i) = Chosen(st, i)
  PROVE  SettledText(z) = SettledText(st) \o Chosen(st, st.conv.active)
<1> DEFINE a == st.conv.active
           g == [i \in 1..(a - 1) |-> Chosen(st, i)]
           h == [i \in 1..a |-> Chosen(st, i)]
<1>1. /\ a \in Nat \ {0} /\ a - 1 \in Nat /\ a \in 1..st.conv.count
      /\ \A i \in 1..a : i \in 1..st.conv.count /\ Chosen(st, i) \in Text
  <2>1. /\ st.conv.count \in Nat \ {0} /\ a \in 1..st.conv.count
        /\ \A i \in 1..st.conv.count : Chosen(st, i) \in Text
    BY ChosenTexts
  <2> HIDE DEF a
  <2>2. \A i \in 1..a : i \in 1..st.conv.count
    BY <2>1
  <2> QED BY <2>1, <2>2
<1>2. g \in Seq(Seq(Scalar)) /\ Len(g) = a - 1
  <2>1. DOMAIN g = 1..(a - 1) /\ g = [i \in 1..(a - 1) |-> g[i]]
    OBVIOUS
  <2>2. \A i \in 1..(a - 1) : g[i] \in Text
    BY <1>1
  <2> HIDE DEF g
  <2> QED BY <1>1, <2>1, <2>2, TextFunction
<1>3. h \in Seq(Seq(Scalar)) /\ Len(h) = a
  <2>1. DOMAIN h = 1..a /\ h = [i \in 1..a |-> h[i]]
    OBVIOUS
  <2>2. \A i \in 1..a : h[i] \in Text
    BY <1>1
  <2> HIDE DEF h
  <2> QED BY <1>1, <2>1, <2>2, TextFunction
<1>4. \A i \in 1..a : h[i] = IF i = a THEN Chosen(st, a) ELSE g[i]
  BY <1>1
<1>5. SettledText(st) = FlattenSeq(g)
  BY DEF SettledText
<1>6. SettledText(z) = FlattenSeq(h)
  <2>1. \A i \in 1..((a + 1) - 1) : Chosen(z, i) = Chosen(st, i)
    BY <1>1
  <2>2. (a + 1) - 1 = a
    BY <1>1
  <2>3. [i \in 1..a |-> Chosen(z, i)] = h
    BY <2>1, <2>2
  <2> QED BY <2>2, <2>3 DEF SettledText
<1> HIDE DEF g, h
<1>7. h = Append(g, Chosen(st, a))
  <2> DEFINE x == Chosen(st, a)
  <2>1. x \in Seq(Scalar)
    BY <1>1 DEF Text
  <2> HIDE DEF x
  <2>2. /\ Append(g, x) \in Seq(Seq(Scalar)) /\ Len(Append(g, x)) = a
        /\ \A i \in 1..(a - 1) : Append(g, x)[i] = g[i]
        /\ Append(g, x)[a] = x
    BY <1>1, <1>2, <2>1, AppendProperties
  <2>3. \A i \in 1..a : h[i] = Append(g, x)[i]
    BY <1>1, <1>4, <2>2 DEF x
  <2>4. h = Append(g, x)
    BY <1>3, <2>2, <2>3, SeqEqual
  <2> QED BY <2>4 DEF x
<1> DEFINE x == Chosen(st, a)
<1>8. x \in Seq(Scalar)
  BY <1>1 DEF Text
<1> HIDE DEF x
<1>9. FlattenSeq(Append(g, x)) = FlattenSeq(g) \o x
  BY <1>2, <1>8, FlattenAppend
<1> QED BY <1>5, <1>6, <1>7, <1>9 DEF x

\* select_candidate while converting: the text shown is settled, at the end of the
\* composition or on the way to it.
SelectsText(st, y, text) ==
  /\ y \in CallState /\ y.options = st.options
  /\ \/ /\ st.conv.active = st.conv.count
        /\ KanaShown(y) /\ HoldsNothing(y) /\ y.model = EmptyModel
        /\ y.composer = EmptyComposer /\ y.eager = <<>>
        /\ y.out.commit = st.model.settled \o text
     \/ /\ st.conv.active # st.conv.count
        /\ Converting(y) /\ Pointed(y)
        /\ y.composer = st.composer /\ y.eager = st.eager /\ y.out = st.out
        /\ y.model.settled = st.model.settled \o text

LEMMA SelectConvertedIs ==
  ASSUME NEW st \in CallState, Converting(st), NEW k \in Nat,
         k < Len(st.anthy[st.conv.active].candidates), k < st.options.cap
  PROVE  /\ SelectsText(st, SelectConverted(st, k),
                        st.anthy[st.conv.active].candidates[k + 1])
         /\ SelectConverted(st, k).lessons
              = st.lessons
                  \cup (IF st.options.learning
                        THEN {<<i, Seen(ShowCandidate(st, k), i)>> :
                                i \in Untaught(st, st.conv.active)}
                        ELSE {})
<1> DEFINE c == st.conv
           text == st.anthy[c.active].candidates[k + 1]
           final == ShowCandidate(st, k)
           known == IF st.options.learning THEN RecordChoices(final, c.active) ELSE final
           y == SelectConverted(st, k)
<1>1. /\ final \in CallState /\ Converting(final) /\ Pointed(final)
      /\ \A f \in {"out", "composer", "eager", "anthy", "record", "options",
                   "lessons", "up", "taught"} : final[f] = st[f]
      /\ \A f \in {"asked", "count", "active", "recorded", "listed"} :
           final.conv[f] = c[f]
      /\ \A f \in {"settled", "tail", "candidates"} : final.model[f] = st.model[f]
      /\ final.model.active = text /\ SettledText(final) = SettledText(st)
  BY ShowCandidateIs
<1>2. y = IF c.active = c.count
          THEN Forget(Emptied([known EXCEPT !.out.commit = Preedit(final.model)]))
          ELSE ShowSegments([known EXCEPT !.conv.active = @ + 1])
  BY DEF SelectConverted
<1>3. known = IF final.options.learning THEN RecordChoices(final, final.conv.active)
                                        ELSE final
  BY <1>1
<1>4. Untaught(final, c.active) = Untaught(st, c.active)
  BY <1>1 DEF Untaught
<1> HIDE DEF final, y, known
<1>5. Chooses(final) /\ Teaches(final) /\ ConversionShown(final)
      /\ final.conv.listed = final.conv.active
  BY <1>1 DEF Converting
<1>6. /\ c.count \in Nat \ {0} /\ c.active \in 1..c.count
      /\ final.conv.active \in 1..final.conv.count
      /\ Chosen(final, c.active) \in Text /\ SettledText(final) \in Text
      /\ \A i \in 1..c.count : Chosen(final, i) \in Text
      /\ Len(final.anthy) = c.count
  BY <1>1, <1>5, ChosenTexts
<1>7. /\ known \in CallState
      /\ \A f \in {"model", "out", "composer", "eager", "anthy", "options"} :
           known[f] = final[f]
      /\ \A f \in {"asked", "count", "active", "chosen", "listed"} :
           known.conv[f] = final.conv[f]
      /\ Len(known.conv.recorded) = c.count
      /\ \A i \in 1..c.count : \/ known.conv.recorded[i] = final.conv.recorded[i]
                               \/ /\ i <= c.active
                                  /\ known.conv.recorded[i] = Seen(final, i)
      /\ known.lessons = final.lessons
                           \cup (IF final.options.learning
                                 THEN {<<i, Seen(final, i)>> :
                                         i \in Untaught(final, c.active)}
                                 ELSE {})
  BY <1>1, <1>3, <1>5, <1>6, LearnedIs
<1>8. known.lessons = st.lessons \cup (IF st.options.learning
                                       THEN {<<i, Seen(final, i)>> :
                                               i \in Untaught(st, c.active)}
                                       ELSE {})
  BY <1>1, <1>4, <1>7
<1>9. /\ final.model \in Model /\ final.model.settled \in Text /\ text \in Text
      /\ st.model.settled \in Text
  BY <1>1 DEF CallState, Model
<1>10. CASE c.active = c.count
  <2>1. final.model.tail = <<>>
    <3>1. SubSeq(final.anthy, c.count + 1, c.count) = <<>>
      BY <1>6, SubSeqEmpty
    <3>2. final.model.tail = Readings(SubSeq(final.anthy, c.count + 1, c.count))
      BY <1>1, <1>5, <1>10 DEF ConversionShown
    <3> QED BY <3>1, <3>2, EmptySpans
  <2>2. Preedit(final.model) = st.model.settled \o text
    BY <1>1, <1>9, <2>1, ConcatText DEF Preedit
  <2>3. st.model.settled \o text \in Text
    BY <1>9, ConcatText
  <2>4. y = Forget(Emptied([known EXCEPT !.out.commit = st.model.settled \o text]))
    BY <1>2, <1>10, <2>2
  <2>5. /\ y \in CallState /\ KanaShown(y) /\ HoldsNothing(y) /\ y.model = EmptyModel
        /\ y.out.commit = st.model.settled \o text
        /\ y.composer = EmptyComposer /\ y.eager = <<>>
        /\ \A f \in {"record", "options", "lessons", "up", "taught"} : y[f] = known[f]
    BY <1>7, <2>3, <2>4, EndIs
  <2>6. y.options = st.options /\ y.lessons = known.lessons
    BY <1>1, <1>7, <2>5
  <2> QED BY <1>8, <1>10, <2>5, <2>6 DEF SelectsText, y, final
<1>11. CASE c.active # c.count
  <2> DEFINE z == [known EXCEPT !.conv.active = @ + 1]
             d == [known.conv EXCEPT !.active = @ + 1]
  <2>1. known.conv \in Conversion /\ known.conv.active = c.active /\ c.active + 1 \in Nat \ {0}
    BY <1>1, <1>6, <1>7 DEF CallState
  <2>2. /\ d \in Conversion /\ d.active = c.active + 1 /\ d.recorded = known.conv.recorded
        /\ \A f \in {"asked", "count", "chosen", "listed"} : d[f] = final.conv[f]
    BY <1>7, <2>1 DEF Conversion
  <2>3. z = [known EXCEPT !.conv = d]
    BY <1>7 DEF CallState
  <2>4. y = ShowSegments(z)
    BY <1>2, <1>11
  <2> HIDE DEF z, d
  <2>5. /\ z \in CallState /\ z.conv = d
        /\ \A f \in {"model", "out", "composer", "eager", "anthy", "options", "lessons"} :
             z[f] = known[f]
    BY <1>7, <2>2, <2>3 DEF CallState
  <2>6. \A i : Chosen(z, i) = Chosen(final, i)
    BY <1>7, <2>2, <2>5 DEF Chosen, Fetch
  <2>7. Chooses(z)
    BY <1>1, <1>5, <1>6, <1>7, <1>11, <2>2, <2>5 DEF Chooses
  <2>8. Teaches(z)
    <3>1. ASSUME NEW i \in 1..c.count, z.conv.recorded[i] # <<>>
          PROVE  i < c.active + 1 /\ z.conv.recorded[i] = Chosen(z, i)
      <4>1. z.conv.recorded[i] = known.conv.recorded[i]
        BY <2>2, <2>5
      <4>2. CASE known.conv.recorded[i] = final.conv.recorded[i]
        BY <1>1, <1>5, <1>6, <2>6, <3>1, <4>1, <4>2 DEF Teaches
      <4>3. CASE i <= c.active /\ known.conv.recorded[i] = Seen(final, i)
        BY <1>1, <1>6, <2>6, <4>1, <4>3 DEF Seen
      <4> QED BY <1>7, <4>2, <4>3
    <3> QED BY <1>1, <1>7, <2>2, <2>5, <3>1 DEF Teaches
  <2>9. ListFits(z)
    BY <1>1, <1>5, <1>6, <2>2, <2>5 DEF ListFits
  <2>10. /\ y \in CallState /\ Converting(y) /\ Pointed(y)
         /\ \A f \in {"out", "composer", "eager", "anthy", "record", "options",
                      "lessons", "up", "taught"} : y[f] = z[f]
         /\ y.model.settled = Texts(z.eager) \o SettledText(z)
    BY <2>4, <2>5, <2>7, <2>8, <2>9, ShowSegmentsIs
  <2>11. SettledText(z) = SettledText(final) \o text
    <3>1. final.conv.active # final.conv.count /\ z.conv.active = final.conv.active + 1
      BY <1>1, <1>11, <2>2, <2>5
    <3>2. SettledText(z) = SettledText(final) \o Chosen(final, final.conv.active)
      BY <1>1, <1>5, <2>6, <3>1, SettledGrows
    <3>3. Chosen(final, final.conv.active) = text
      BY <1>1, <1>5 DEF ConversionShown
    <3> QED BY <3>2, <3>3
  <2>12. y.model.settled = st.model.settled \o text
    <3>1. st.eager \in Seq(Span)
      BY DEF CallState
    <3>2. Texts(st.eager) \in Text
      BY <3>1, SpanReadings, TextsOf
    <3>3. Texts(z.eager) = Texts(st.eager)
      BY <1>1, <1>7, <2>5
    <3>4. st.model.settled = Texts(st.eager) \o SettledText(st)
      BY DEF Converting, ConversionShown
    <3>5. SettledText(final) \in Text /\ text \in Text
      BY <1>6, <1>9
    <3>6. Texts(st.eager) \o (SettledText(final) \o text)
            = (Texts(st.eager) \o SettledText(final)) \o text
      BY <3>2, <3>5, ConcatTexts
    <3> QED BY <1>1, <2>10, <2>11, <3>3, <3>4, <3>6
  <2>13. /\ y.options = st.options /\ y.composer = st.composer /\ y.eager = st.eager
         /\ y.out = st.out /\ y.lessons = known.lessons
    BY <1>1, <1>7, <2>5, <2>10
  <2> QED BY <1>8, <1>11, <2>10, <2>12, <2>13 DEF SelectsText, y, final
<1> QED BY <1>10, <1>11

\* The buffer as it stands is shown, and an eager conversion made of it.
LEMMA RetypedIs ==
  ASSUME AnthyAnswers, NEW st \in CallState
  PROVE  LET y == RefreshEager(ShowKana(st))
         IN /\ y \in CallState /\ Typing(y) /\ ~y.conv.asked
            /\ y.model.settled = Texts(st.eager)
            /\ \A f \in {"out", "composer", "eager", "record", "options",
                         "lessons", "up", "taught"} : y[f] = st[f]
<1> DEFINE x == ShowKana(st)
           y == RefreshEager(x)
<1>1. /\ x \in CallState /\ KanaShown(x) /\ x.model.candidates = <<>>
      /\ \A f \in {"out", "composer", "eager", "anthy", "record", "options",
                   "lessons", "up", "taught"} : x[f] = st[f]
  BY ShowKanaIs
<1> HIDE DEF x
<1>2. /\ y \in CallState /\ Typing(y) /\ ~y.conv.asked
      /\ \A f \in {"model", "out", "composer", "eager", "record", "options",
                   "lessons", "up", "taught"} : y[f] = x[f]
  BY <1>1, RefreshEagerIs
<1> HIDE DEF y
<1>3. y.model.settled = Texts(st.eager)
  BY <1>1, <1>2 DEF KanaShown
<1>4. \A f \in {"out", "composer", "eager", "record", "options",
                "lessons", "up", "taught"} : y[f] = st[f]
  BY <1>1, <1>2
<1> QED BY <1>2, <1>3, <1>4 DEF y, x

\* A composition that has ended: nothing of it is left but what it committed.
EndsWith(y, text) ==
  /\ y \in CallState /\ KanaShown(y) /\ HoldsNothing(y) /\ y.model = EmptyModel
  /\ y.out.commit = text /\ y.composer = EmptyComposer /\ y.eager = <<>>

LEMMA CommitKanaIs ==
  ASSUME NEW st \in CallState
  PROVE  /\ EndsWith(CommitKana(st),
                     Texts(st.eager) \o CommitText(st.composer, Settings(st.options)))
         /\ Texts(st.eager) \o CommitText(st.composer, Settings(st.options)) \in Text
         /\ CommitKana(st).options = st.options /\ CommitKana(st).lessons = st.lessons
<1> DEFINE text == Texts(st.eager) \o CommitText(st.composer, Settings(st.options))
<1>1. /\ st.composer \in Composer /\ st.options \in Options /\ st.eager \in Seq(Span)
  BY DEF CallState
<1>2. text \in Text
  <2>1. /\ Texts(st.eager) \in Text
        /\ CommitText(st.composer, Settings(st.options)) \in Text
    BY <1>1, Buffer, SpanReadings, TextsOf
  <2> QED BY <2>1, ConcatText
<1>3. CommitKana(st) = Forget(Emptied([st EXCEPT !.out.commit = text]))
  BY DEF CommitKana
<1> DEFINE y == CommitKana(st)
<1> HIDE DEF text, y
<1>4. /\ y \in CallState /\ KanaShown(y) /\ HoldsNothing(y)
      /\ y.model = EmptyModel /\ y.out.commit = text
      /\ y.composer = EmptyComposer /\ y.eager = <<>>
      /\ \A f \in {"record", "options", "lessons", "up", "taught"} : y[f] = st[f]
  BY <1>2, <1>3, EndIs DEF y
<1> QED BY <1>2, <1>4 DEF EndsWith, text, y

LEMMA CommitConversionIs ==
  ASSUME NEW st \in CallState, Converting(st)
  PROVE  /\ EndsWith(CommitConversion(st), Preedit(st.model))
         /\ CommitConversion(st).options = st.options
         /\ CommitConversion(st).lessons
              = st.lessons
                  \cup (IF st.options.learning
                        THEN {<<i, Seen(st, i)>> : i \in Untaught(st, st.conv.count)}
                        ELSE {})
<1> DEFINE known == IF st.options.learning THEN RecordChoices(st, st.conv.count) ELSE st
<1>1. Chooses(st) /\ Teaches(st)
  BY DEF Converting
<1>2. st.conv.count \in 1..st.conv.count
  BY <1>1, ChosenTexts
<1>3. /\ known \in CallState /\ known.options = st.options
      /\ known.lessons = st.lessons
                           \cup (IF st.options.learning
                                 THEN {<<i, Seen(st, i)>> : i \in Untaught(st, st.conv.count)}
                                 ELSE {})
  BY <1>1, <1>2, LearnedIs
<1>4. Preedit(st.model) \in Text
  <2>1. st.model.settled \in Text /\ st.model.active \in Text /\ st.model.tail \in Text
    BY DEF CallState, Model
  <2>2. st.model.settled \o st.model.active \in Text
    BY <2>1, ConcatText
  <2> QED BY <2>1, <2>2, ConcatText DEF Preedit
<1>5. CommitConversion(st) = Forget(Emptied([known EXCEPT !.out.commit = Preedit(st.model)]))
  BY DEF CommitConversion
<1> HIDE DEF known
<1>6. /\ EndsWith(CommitConversion(st), Preedit(st.model))
      /\ CommitConversion(st).options = known.options
      /\ CommitConversion(st).lessons = known.lessons
  BY <1>3, <1>4, <1>5, EndIs DEF EndsWith
<1> QED BY <1>3, <1>6

LEMMA CancelIs ==
  ASSUME AnthyAnswers, NEW st \in CallState
  PROVE  LET y == CancelConversion(st)
         IN /\ y \in CallState /\ Typing(y) /\ ~y.conv.asked
            /\ \A f \in {"out", "composer", "eager", "record", "options",
                         "lessons"} : y[f] = st[f]
<1> DEFINE x == Forget(st)
           y == RefreshEager(ShowKana(x))
<1>1. /\ x \in CallState
      /\ \A f \in {"out", "composer", "eager", "record", "options", "lessons"} : x[f] = st[f]
  BY ForgetIs
<1>2. y = CancelConversion(st)
  BY DEF CancelConversion
<1> HIDE DEF x
<1>3. /\ y \in CallState /\ Typing(y) /\ ~y.conv.asked
      /\ \A f \in {"out", "composer", "eager", "record", "options",
                   "lessons", "up", "taught"} : y[f] = x[f]
  BY <1>1, RetypedIs
<1> HIDE DEF y
<1>4. \A f \in {"out", "composer", "eager", "record", "options", "lessons"} : y[f] = st[f]
  BY <1>1, <1>3
<1> QED BY <1>2, <1>3, <1>4

LEMMA AdvanceCandidateIs ==
  ASSUME NEW st \in CallState, Converting(st)
  PROVE  LET y == AdvanceCandidate(st)
         IN /\ y \in CallState /\ Converting(y) /\ Pointed(y)
            /\ \A f \in {"out", "composer", "eager", "options", "lessons"} : y[f] = st[f]
<1> DEFINE size == Capped(Len(st.anthy[st.conv.active].candidates), st.options.cap)
           k == NextCandidate(st, size)
<1>1. /\ st.conv.active \in 1..Len(st.anthy) /\ st.anthy \in Seq(Segment)
      /\ st.conv.chosen[st.conv.active] \in Nat
  BY ChosenTexts DEF Converting
<1>2. Len(st.anthy[st.conv.active].candidates) \in Nat \ {0} /\ st.options.cap \in Nat \ {0}
  BY <1>1, Segments DEF CallState, Options
<1>3. k \in Nat /\ k < Len(st.anthy[st.conv.active].candidates) /\ k < st.options.cap
  <2>1. /\ size \in Nat \ {0} /\ size <= st.options.cap
        /\ size <= Len(st.anthy[st.conv.active].candidates)
    <3>1. \A l, c \in Nat \ {0} : /\ Capped(l, c) \in Nat \ {0}
                                  /\ Capped(l, c) <= c /\ Capped(l, c) <= l
      BY DEF Capped
    <3> QED BY <1>2, <3>1
  <2> HIDE DEF size
  <2>2. k = IF st.conv.chosen[st.conv.active] + 1 >= size THEN 0
            ELSE st.conv.chosen[st.conv.active] + 1
    BY DEF NextCandidate
  <2> HIDE DEF k
  <2>3. \A i \in Nat, z \in Nat \ {0} :
          LET j == IF i + 1 >= z THEN 0 ELSE i + 1 IN j \in Nat /\ j < z
    OBVIOUS
  <2>4. k \in Nat /\ k < size
    BY <1>1, <2>1, <2>2, <2>3
  <2> QED BY <1>2, <2>1, <2>4
<1>4. AdvanceCandidate(st) = ShowCandidate(st, k)
  BY DEF AdvanceCandidate
<1> HIDE DEF k
<1> QED BY <1>3, <1>4, ShowCandidateIs

\* select_from_eager: the first segment is settled as shown; the kana of the rest
\* is typed on in.
SelectsFirst(st, y, text, rest) ==
  /\ y \in CallState /\ y.options = st.options
  /\ \A lesson \in y.lessons : lesson \in st.lessons \/ lesson[1] = 0
  /\ \/ rest = <<>> /\ EndsWith(y, Texts(st.eager) \o text)
     \/ /\ rest # <<>> /\ Typing(y) /\ ~y.conv.asked /\ y.out = st.out
        /\ y.model.settled = Texts(st.eager) \o text
        /\ y.composer = [kana |-> rest, pending |-> <<>>]
        /\ y.eager = Append(st.eager, [text |-> text, reading |-> st.anthy[1].reading])

LEMMA SelectFirstIs ==
  ASSUME AnthyAnswers, NEW st \in CallState, st.anthy # <<>>,
         NEW k \in Nat, k < Len(st.anthy[1].candidates), NEW rest \in Text
  PROVE  SelectsFirst(st, SelectFirst(st, k, rest), st.anthy[1].candidates[k + 1], rest)
<1> DEFINE text == st.anthy[1].candidates[k + 1]
           span == [text |-> Fetch(st, 1, k), reading |-> st.anthy[1].reading]
           known == IF st.options.learning THEN LearnEagerChoice(st, span) ELSE st
           kept == [kana |-> rest, pending |-> <<>>]
           list == Append(st.eager, span)
           next == [known EXCEPT !.eager = Append(@, span), !.composer = kept]
           y == SelectFirst(st, k, rest)
<1>1. 1 \in 1..Len(st.anthy) /\ st.anthy \in Seq(Segment) /\ st.eager \in Seq(Span)
      /\ st.lessons \subseteq Nat \X Text /\ st.taught \in Records
  <2>1. st.anthy \in Seq(Segment)
    BY DEF CallState
  <2>2. 1 \in 1..Len(st.anthy)
    BY <2>1, EmptySeq
  <2> QED BY <2>1, <2>2 DEF CallState
<1>2. text \in Text /\ st.anthy[1].reading \in Text
  BY <1>1, Segments
<1>3. /\ span \in Span /\ span.text = text /\ span.reading = st.anthy[1].reading
      /\ span = [text |-> text, reading |-> st.anthy[1].reading]
  BY <1>2 DEF Span, Fetch
<1>4. kept \in Composer
  BY EmptySeq DEF Composer
<1>5. y = IF rest = <<>>
          THEN Forget(Emptied([next EXCEPT !.out.commit = Texts(next.eager)]))
          ELSE RefreshEager(ShowKana(next))
  BY DEF SelectFirst
<1> HIDE DEF span, kept, y, text
<1>6. /\ known \in CallState
      /\ \A f \in {"model", "out", "composer", "eager", "conv", "options"} :
           known[f] = st[f]
      /\ \A lesson \in known.lessons : lesson \in st.lessons \/ lesson[1] = 0
  <2>1. CASE ~st.options.learning
    BY <2>1
  <2>2. CASE st.options.learning
    <3> DEFINE staged == SetString(st, span.reading)
               told == st.lessons \cup {<<0, span.text>>}
               taught == [staged EXCEPT !.lessons = @ \cup {<<0, span.text>>},
                                        !.record = st.taught]
    <3>1. /\ staged \in CallState
          /\ \A f \in {"model", "out", "composer", "eager", "conv", "record",
                       "options", "lessons", "up", "taught"} : staged[f] = st[f]
      BY <1>2, <1>3, SetStringIs
    <3>2. known = taught \/ known = staged
      BY <2>2 DEF LearnEagerChoice
    <3> HIDE DEF staged, known
    <3>3. told \in SUBSET (Nat \X Text)
          /\ \A lesson \in told : lesson \in st.lessons \/ lesson[1] = 0
      BY <1>1, <1>2, <1>3
    <3> HIDE DEF told
    <3>4. taught = [staged EXCEPT !.lessons = told, !.record = st.taught]
      BY <3>1 DEF told
    <3> HIDE DEF taught
    <3>5. /\ taught \in CallState /\ taught.lessons = told
          /\ \A f \in {"model", "out", "composer", "eager", "conv", "options"} :
               taught[f] = staged[f]
      BY <1>1, <3>1, <3>3, <3>4 DEF CallState
    <3>6. CASE known = taught
      <4>1. \A f \in {"model", "out", "composer", "eager", "conv", "options"} :
              known[f] = st[f]
        BY <3>1, <3>5, <3>6
      <4> QED BY <3>3, <3>5, <3>6, <4>1
    <3>7. CASE known = staged
      BY <3>1, <3>7
    <3> QED BY <3>2, <3>6, <3>7
  <2> QED BY <2>1, <2>2
<1> HIDE DEF known
<1>7. list \in Seq(Span) /\ Texts(list) = Texts(st.eager) \o text /\ Texts(list) \in Text
  <2>1. /\ list \in Seq(Span) /\ Texts(list) = Texts(st.eager) \o text
        /\ Texts(st.eager) \in Text
    BY <1>1, <1>3, AppendSpan
  <2> QED BY <1>2, <2>1, ConcatText, SpanReadings, TextsOf
<1> HIDE DEF list
<1>8. next = [known EXCEPT !.eager = list, !.composer = kept]
  BY <1>6 DEF list
<1> HIDE DEF next
<1>9. /\ next \in CallState /\ next.eager = list /\ next.composer = kept
      /\ \A f \in {"model", "out", "conv", "options", "lessons"} : next[f] = known[f]
  BY <1>4, <1>6, <1>7, <1>8 DEF CallState
<1>10. CASE rest = <<>>
  <2>1. y = Forget(Emptied([next EXCEPT !.out.commit = Texts(list)]))
    BY <1>5, <1>9, <1>10
  <2>2. /\ y \in CallState /\ KanaShown(y) /\ HoldsNothing(y)
        /\ y.model = EmptyModel /\ y.out.commit = Texts(list)
        /\ y.composer = EmptyComposer /\ y.eager = <<>>
        /\ \A f \in {"record", "options", "lessons", "up", "taught"} : y[f] = next[f]
    BY <1>7, <1>9, <2>1, EndIs
  <2>3. y.options = st.options /\ y.lessons = known.lessons
    BY <1>6, <1>9, <2>2
  <2> QED BY <1>6, <1>7, <1>10, <2>2, <2>3 DEF SelectsFirst, EndsWith, y, text
<1>11. CASE rest # <<>>
  <2>1. y = RefreshEager(ShowKana(next))
    BY <1>5, <1>11
  <2>2. /\ y \in CallState /\ Typing(y) /\ ~y.conv.asked
        /\ y.model.settled = Texts(next.eager)
        /\ \A f \in {"out", "composer", "eager", "record", "options",
                     "lessons", "up", "taught"} : y[f] = next[f]
    BY <1>9, <2>1, RetypedIs
  <2>3. /\ y.options = st.options /\ y.lessons = known.lessons /\ y.out = st.out
        /\ y.composer = kept /\ y.eager = list
        /\ y.model.settled = Texts(st.eager) \o text
    BY <1>6, <1>7, <1>9, <2>2
  <2>4. list = Append(st.eager, [text |-> text, reading |-> st.anthy[1].reading])
    BY <1>3 DEF list
  <2> QED BY <1>6, <1>11, <2>2, <2>3, <2>4 DEF SelectsFirst, y, text, kept
<1> QED BY <1>10, <1>11

-------------------------------------------------------------------------------
(* Entering and leaving a call.                                            *)

\* The list refilled stays the beginning of the list it is of, is as long as the
\* cap and that list allow, and keeps the cursor on it.
LEMMA MaterializeIs ==
  ASSUME NEW m \in Model, NEW offered \in Seq(Text), NEW cap \in Nat \ {0}
  PROVE  LET y == Materialize(m, offered, cap)
         IN /\ y \in Model /\ y.settled = m.settled /\ y.active = m.active
            /\ y.tail = m.tail
            /\ Len(y.candidates) <= cap
            /\ y.cursor = 0 \/ y.cursor < Len(y.candidates)
            /\ m.candidates = <<>> /\ offered = <<>> => y.candidates = <<>>
<1> DEFINE had == m.candidates
           kept == Capped(Len(had), cap)
           all == Capped(Len(offered), cap)
           list == Listed(m, offered, cap)
           a == SubSeq(had, 1, kept)
           b == SubSeq(offered, Len(had) + 1, all)
           y == Materialize(m, offered, cap)
<1>1. had \in Seq(Text) /\ Len(had) \in Nat /\ Len(offered) \in Nat
  BY DEF Model
<1>2. kept \in 0..Len(had) /\ kept <= cap /\ all \in 0..Len(offered) /\ all <= cap
      /\ (kept = Len(had) \/ (kept = cap /\ Len(had) > cap))
  <2>1. \A l \in Nat, c \in Nat \ {0} :
          /\ Capped(l, c) \in 0..l /\ Capped(l, c) <= c
          /\ Capped(l, c) = l \/ (Capped(l, c) = c /\ l > c)
    BY DEF Capped
  <2> HIDE DEF had
  <2> QED BY <1>1, <2>1
<1> HIDE DEF kept, all
<1>3. a \in Seq(Text) /\ Len(a) = kept
  <2>1. \A i \in 1..kept : had[i] \in Text
    BY <1>1, <1>2
  <2> QED BY <1>2, <2>1, SubSeqProperties
<1>4. b \in Seq(Text) /\ Len(b) = IF Len(had) + 1 <= all THEN all - Len(had) ELSE 0
  <2>1. /\ \A i \in (Len(had) + 1)..all : offered[i] \in Text
        /\ Len(had) + 1 \in Int /\ all \in Int
    BY <1>1, <1>2
  <2>2. /\ b \in Seq(Text)
        /\ Len(b) = IF Len(had) + 1 <= all THEN all - (Len(had) + 1) + 1 ELSE 0
    BY <2>1, SubSeqProperties
  <2> HIDE DEF b, had
  <2> QED BY <1>1, <1>2, <2>2
<1>5. list = a \o b
  BY DEF Listed, kept, all
<1> HIDE DEF a, b, list, had
<1>6. list \in Seq(Text) /\ Len(list) = Len(a) + Len(b)
  BY <1>3, <1>4, <1>5, ConcatProperties
<1>7. Len(list) <= cap
  BY <1>1, <1>2, <1>3, <1>4, <1>6
<1>8. y = [m EXCEPT !.candidates = list, !.cursor = IF @ < Len(list) THEN @ ELSE 0]
  BY DEF Materialize, list
<1>9. /\ y \in Model /\ y.settled = m.settled /\ y.active = m.active
      /\ y.tail = m.tail /\ y.candidates = list
      /\ y.cursor = 0 \/ y.cursor < Len(list)
  <2> DEFINE cursor == IF m.cursor < Len(list) THEN m.cursor ELSE 0
  <2>1. m.cursor \in Nat /\ Len(list) \in Nat
    BY <1>6 DEF Model
  <2>2. cursor \in Nat /\ (cursor = 0 \/ cursor < Len(list))
    BY <2>1
  <2>3. y = [m EXCEPT !.candidates = list, !.cursor = cursor]
    BY <1>8 DEF Model
  <2> HIDE DEF y, cursor
  <2> QED BY <1>6, <2>2, <2>3 DEF Model
<1>10. ASSUME m.candidates = <<>>, offered = <<>> PROVE list = <<>>
  <2>1. Len(had) = 0 /\ Len(offered) = 0
    BY <1>10 DEF had
  <2>2. Len(list) = 0
    BY <1>2, <1>3, <1>4, <1>6, <2>1
  <2> QED BY <1>6, <2>2, EmptySeq
<1> HIDE DEF y
<1> QED BY <1>7, <1>9, <1>10 DEF y

LEMMA MaterializeBegins ==
  ASSUME NEW m \in Model, NEW cap \in Nat \ {0}, NEW whole \in Seq(Text),
         Begins(m.candidates, whole), NEW offered \in {<<>>, whole}
  PROVE  LET y == Materialize(m, offered, cap)
         IN /\ Begins(y.candidates, whole)
            /\ offered = whole /\ m.cursor < Len(whole) /\ m.cursor < cap =>
                 y.candidates # <<>> /\ y.cursor = m.cursor
<1> DEFINE had == m.candidates
           list == Listed(m, offered, cap)
           y == Materialize(m, offered, cap)
           all == Capped(Len(whole), cap)
<1>1. /\ had \in Seq(Text) /\ Len(had) \in Nat /\ Len(whole) \in Nat /\ m.cursor \in Nat
      /\ list = SubSeq(had, 1, Capped(Len(had), cap))
                  \o SubSeq(offered, Len(had) + 1, Capped(Len(offered), cap))
  BY DEF Model, Listed
<1>2. PICK k \in 0..Len(whole) : had = SubSeq(whole, 1, k)
  BY DEF Begins
<1>3. Len(had) = k
  <2>1. \A i \in 1..k : whole[i] \in Text
    BY <1>1
  <2> QED BY <1>2, <2>1, SubSeqProperties
<1>4. \A l \in Nat : /\ Capped(l, cap) \in 0..l
                     /\ Capped(l, cap) = IF l < cap THEN l ELSE cap
  BY DEF Capped
<1>5. /\ y.candidates = list
      /\ y.cursor = IF m.cursor < Len(list) THEN m.cursor ELSE 0
  BY DEF Materialize, Model
<1> HIDE DEF y, list
<1>6. CASE offered = whole
  <2>1. list = SubSeq(whole, 1, all)
    <3> HIDE DEF had
    <3> QED BY <1>1, <1>2, <1>6, RefilledList
  <2>2. all \in 0..Len(whole) /\ all = IF Len(whole) < cap THEN Len(whole) ELSE cap
    BY <1>1, <1>4
  <2> HIDE DEF all
  <2>3. Len(list) = all
    <3>1. \A i \in 1..all : whole[i] \in Text
      BY <1>1, <2>2
    <3> QED BY <2>1, <2>2, <3>1, SubSeqProperties
  <2>4. Begins(list, whole)
    BY <2>1, <2>2 DEF Begins
  <2>5. ASSUME m.cursor < Len(whole), m.cursor < cap PROVE list # <<>> /\ m.cursor < Len(list)
    <3>1. m.cursor < Len(list)
      BY <1>1, <2>2, <2>3, <2>5
    <3>2. list = <<>> => Len(list) = 0
      OBVIOUS
    <3>3. Len(list) # 0
      <4>1. m.cursor \in Nat /\ Len(list) \in Nat
        BY <1>1, <2>2, <2>3
      <4> QED BY <3>1, <4>1
    <3> QED BY <3>1, <3>2, <3>3
  <2> QED BY <1>5, <2>4, <2>5 DEF y
<1>7. CASE offered = <<>> /\ offered # whole
  <2> DEFINE kept == Capped(k, cap)
             none == Capped(0, cap)
  <2>1. kept \in 0..k /\ none = 0
    BY <1>4
  <2>2. Len(offered) = 0
    BY <1>7
  <2>3. list = SubSeq(had, 1, kept) \o SubSeq(offered, k + 1, 0)
    BY <1>1, <1>3, <2>1, <2>2
  <2> HIDE DEF kept, had
  <2>4. SubSeq(offered, k + 1, 0) = <<>>
    BY SubSeqEmpty
  <2>5. SubSeq(had, 1, kept) \in Seq(Text)
    <3>1. \A i \in 1..kept : had[i] \in Text
      BY <1>1, <1>3, <2>1
    <3> QED BY <2>1, <3>1, SubSeqProperties
  <2>6. list = SubSeq(had, 1, kept)
    BY <2>3, <2>4, <2>5, ConcatEmptySeq
  <2>7. list = SubSeq(whole, 1, kept)
    <3>1. CASE kept = 0
      <4>1. SubSeq(had, 1, 0) = <<>> /\ SubSeq(whole, 1, 0) = <<>>
        BY SubSeqEmpty
      <4> QED BY <2>6, <3>1, <4>1
    <3>2. CASE kept # 0
      <4>1. /\ 1 \in 1..Len(whole) /\ k \in 1..Len(whole)
            /\ 1 \in 1..(k - 1 + 1) /\ kept \in 1..(k - 1 + 1)
            /\ 1 + 1 - 1 = 1 /\ 1 + kept - 1 = kept
        BY <1>1, <2>1, <3>2
      <4> QED BY <1>2, <2>6, <4>1, SubSeqOfSubSeq
    <3> QED BY <3>1, <3>2
  <2>8. kept \in 0..Len(whole)
    BY <1>1, <2>1
  <2> QED BY <1>5, <1>7, <2>7, <2>8 DEF Begins, y
<1> QED BY <1>6, <1>7

\* What a call leaves behind.
Left(st) ==
  [st EXCEPT !.model = Materialize(st.model, Offered(st), st.options.cap),
             !.conv.listed = IF Offered(st) = <<>> THEN @ ELSE st.conv.active,
             !.out = NoOutput, !.lessons = {}, !.up = TRUE, !.taught = st.record]

LEMMA LeftIs ==
  ASSUME AnthyAnswers, NEW st, Sound(st),
         st.conv.asked /\ ~situation.others => Pointed(st)
  PROVE  LET y == Left(st)
         IN /\ Sound(y) /\ Len(y.model.candidates) <= y.options.cap
            /\ y.model.cursor = 0 \/ y.model.cursor < Len(y.model.candidates)
            /\ Preedit(y.model) = Preedit(st.model) /\ y.model.settled = st.model.settled
            /\ y.conv.asked /\ ~situation.others => y.model.candidates # <<>> /\ Pointed(y)
<1> DEFINE offered == Offered(st)
           cap == st.options.cap
           m == Materialize(st.model, offered, cap)
           listed == IF offered = <<>> THEN st.conv.listed ELSE st.conv.active
           d == [st.conv EXCEPT !.listed = listed]
           y == Left(st)
<1>1. /\ st \in CallState /\ st.model \in Model /\ st.conv \in Conversion
      /\ cap \in Nat \ {0} /\ st.anthy \in Seq(Segment) /\ st.record \in Records
  BY DEF Sound, CallState, Options
<1>2. st.anthy # <<>> => Len(st.anthy) \in Nat \ {0}
  BY <1>1, EmptySeq
<1>3. \A i \in 1..Len(st.anthy) : /\ st.anthy[i].candidates \in Seq(Text)
                                  /\ Len(st.anthy[i].candidates) \in Nat \ {0}
  BY <1>1, Segments
<1>4. /\ HoldsNothing(st) => offered = <<>> /\ st.model.candidates = <<>>
      /\ Offers(st) => /\ offered \in {<<>>, st.anthy[1].candidates}
                       /\ st.anthy = <<>> => offered = <<>>
                       /\ st.anthy # <<>> => 1 \in 1..Len(st.anthy)
      /\ Chooses(st) => /\ offered = st.anthy[st.conv.active].candidates
                        /\ st.conv.active \in 1..Len(st.anthy)
  <2>1. ASSUME HoldsNothing(st) PROVE offered = <<>> /\ st.model.candidates = <<>>
    <3>1. st.conv.count = 0
      BY <2>1 DEF HoldsNothing, NoConversion
    <3> QED BY <2>1, <3>1 DEF HoldsNothing, Offered
  <2>2. ASSUME Offers(st) PROVE /\ offered \in {<<>>, st.anthy[1].candidates}
                                /\ st.anthy = <<>> => offered = <<>>
                                /\ st.anthy # <<>> => 1 \in 1..Len(st.anthy)
    BY <1>2, <2>2 DEF Offers, Offered
  <2>3. ASSUME Chooses(st) PROVE /\ offered = st.anthy[st.conv.active].candidates
                                 /\ st.conv.active \in 1..Len(st.anthy)
    <3>1. /\ st.conv.count \in Nat \ {0} /\ st.conv.active \in 1..st.conv.count
          /\ Len(st.anthy) = st.conv.count
      BY <1>1, <2>3, ChosenTexts
    <3>2. st.anthy # <<>>
      BY <3>1, EmptySeq
    <3> QED BY <3>1, <3>2 DEF Offered
  <2> QED BY <2>1, <2>2, <2>3
<1>5. offered \in Seq(Text)
  <2>1. <<>> \in Seq(Text)
    OBVIOUS
  <2>2. HoldsNothing(st) \/ Offers(st) \/ Chooses(st)
    BY DEF Sound, Typing, Converting
  <2> QED BY <1>3, <1>4, <2>1, <2>2
<1> HIDE DEF offered, cap
<1>6. /\ m \in Model /\ m.settled = st.model.settled /\ m.active = st.model.active
      /\ m.tail = st.model.tail /\ Len(m.candidates) <= cap
      /\ m.cursor = 0 \/ m.cursor < Len(m.candidates)
      /\ st.model.candidates = <<>> /\ offered = <<>> => m.candidates = <<>>
  BY <1>1, <1>5, MaterializeIs
<1>7. ASSUME NEW whole \in Seq(Text), Begins(st.model.candidates, whole),
             offered \in {<<>>, whole}
      PROVE  /\ Begins(m.candidates, whole)
             /\ offered = whole /\ st.model.cursor < Len(whole) /\ st.model.cursor < cap =>
                 m.candidates # <<>> /\ m.cursor = st.model.cursor
  BY <1>1, <1>7, MaterializeBegins
<1> HIDE DEF m
<1>8. /\ d \in Conversion /\ d.listed = listed
      /\ \A f \in {"asked", "count", "active", "chosen", "recorded"} : d[f] = st.conv[f]
  BY <1>1 DEF Conversion
<1>9. NoOutput \in Plainly
  BY EmptyText DEF NoOutput, Plainly
<1>10. y = [st EXCEPT !.model = m, !.conv = d, !.out = NoOutput, !.lessons = {},
                      !.up = TRUE, !.taught = st.record]
  BY <1>1 DEF Left, m, offered, cap, CallState
<1> HIDE DEF y, d, listed
<1>11. /\ y \in CallState /\ y.model = m /\ y.conv = d
       /\ \A f \in {"composer", "eager", "anthy", "record", "options"} : y[f] = st[f]
  BY <1>1, <1>6, <1>8, <1>9, <1>10 DEF CallState
<1>12. Preedit(y.model) = Preedit(st.model) /\ y.model.settled = st.model.settled
  BY <1>6, <1>11 DEF Preedit
<1>13. y.options.cap = cap /\ y.conv.asked = st.conv.asked
  BY <1>8, <1>11 DEF cap
<1>14. CASE Typing(st)
  <2>1. KanaShown(y)
    BY <1>6, <1>11, <1>14 DEF Typing, KanaShown
  <2>2. ASSUME HoldsNothing(st) PROVE HoldsNothing(y)
    <3>1. offered = <<>> /\ m.candidates = <<>>
      BY <1>4, <1>6, <2>2
    <3>2. listed = st.conv.listed
      BY <3>1 DEF listed
    <3>3. d = st.conv
      BY <1>1, <3>2 DEF Conversion, d
    <3> QED BY <1>11, <2>2, <3>1, <3>3 DEF HoldsNothing
  <2>3. ASSUME Offers(st), ~situation.others => OffersCurrent(st)
        PROVE  Offers(y) /\ (~situation.others => OffersCurrent(y))
    <3>1. Offers(y)
      BY <1>8, <1>11, <2>3 DEF Offers
    <3>2. ASSUME ~situation.others PROVE OffersCurrent(y)
      <4> DEFINE answer == Analyse(FinishedKana(st.composer), st.record)
      <4>1. /\ answer # <<>> /\ (st.anthy # <<>> => st.anthy = answer)
            /\ Begins(st.model.candidates, answer[1].candidates)
        BY <2>3, <3>2 DEF OffersCurrent
      <4>2. answer = Analyse(FinishedKana(y.composer), y.record) /\ y.anthy = st.anthy
        BY <1>11
      <4> HIDE DEF answer
      <4>3. CASE st.anthy # <<>>
        <5>1. st.anthy[1].candidates \in Seq(Text)
          BY <1>3, <1>4, <2>3, <4>3
        <5>2. Begins(m.candidates, st.anthy[1].candidates)
          BY <1>4, <1>7, <2>3, <4>1, <4>3, <5>1
        <5> QED BY <1>11, <4>1, <4>2, <4>3, <5>2 DEF OffersCurrent
      <4>4. CASE st.anthy = <<>>
        <5>1. offered = <<>>
          BY <1>4, <2>3, <4>4
        <5> DEFINE whole == answer[1].candidates
        <5>2. whole \in Seq(Text)
          <6>1. st.composer \in Composer /\ st.options \in Options
            BY <1>1 DEF CallState
          <6>2. FinishedKana(st.composer) \in Text
            BY <6>1, Buffer
          <6>3. answer \in Seq(Segment)
            BY <1>1, <6>2 DEF answer, AnthyAnswers
          <6>4. 1 \in 1..Len(answer)
            BY <4>1, <6>3, EmptySeq
          <6> QED BY <6>3, <6>4, Segments
        <5>3. Begins(m.candidates, whole)
          BY <1>7, <4>1, <5>1, <5>2
        <5> QED BY <1>11, <4>1, <4>2, <4>4, <5>3 DEF OffersCurrent
      <4> QED BY <4>3, <4>4
    <3> QED BY <3>1, <3>2
  <2>4. Typing(y)
    BY <1>14, <2>1, <2>2, <2>3 DEF Typing
  <2>5. ~y.conv.asked
    <3>1. ~NoConversion.asked
      BY DEF NoConversion
    <3> QED BY <1>13, <1>14, <3>1 DEF Typing, HoldsNothing, Offers
  <2> QED BY <1>6, <1>11, <1>12, <1>13, <2>4, <2>5 DEF Sound, y
<1>15. CASE Converting(st)
  <2>1. /\ Chooses(st) /\ Teaches(st) /\ ConversionShown(st) /\ st.conv.asked
        /\ st.conv.listed = st.conv.active
    BY <1>15 DEF Converting, Chooses
  <2>2. \A i : Chosen(y, i) = Chosen(st, i)
    BY <1>8, <1>11 DEF Chosen, Fetch
  <2>3. SettledText(y) = SettledText(st)
    BY <1>8, <1>11, <2>2 DEF SettledText
  <2>4. d.listed = d.active
    BY <1>8, <2>1 DEF listed
  <2>5. Chooses(y)
    BY <1>8, <1>11, <2>1 DEF Chooses
  <2>6. Teaches(y)
    BY <1>8, <1>11, <2>1, <2>2 DEF Teaches
  <2>7. ConversionShown(y)
    BY <1>6, <1>8, <1>11, <2>1, <2>2, <2>3 DEF ConversionShown
  <2>8. ASSUME ~situation.others
        PROVE  /\ Begins(y.model.candidates, y.anthy[y.conv.active].candidates)
               /\ y.model.candidates # <<>> /\ Pointed(y)
    <3> DEFINE whole == st.anthy[st.conv.active].candidates
    <3>1. whole \in Seq(Text) /\ offered = whole /\ Begins(st.model.candidates, whole)
      BY <1>3, <1>4, <1>15, <2>1, <2>8 DEF Converting
    <3>2. st.model.cursor = st.conv.chosen[st.conv.active]
      BY <2>1, <2>8 DEF Pointed
    <3>3. st.model.cursor < Len(whole) /\ st.model.cursor < cap
      <4>1. st.conv.active \in 1..st.conv.count
        BY <1>1, <2>1, ChosenTexts
      <4> QED BY <2>1, <3>2, <4>1 DEF Chooses, cap
    <3> HIDE DEF whole
    <3>4. /\ Begins(m.candidates, whole) /\ m.candidates # <<>>
          /\ m.cursor = st.model.cursor
      BY <1>7, <3>1, <3>3
    <3>5. y.anthy[y.conv.active].candidates = whole /\ y.model = m
      BY <1>8, <1>11 DEF whole
    <3>6. Pointed(y)
      BY <1>8, <1>11, <3>2, <3>4 DEF Pointed
    <3> QED BY <3>4, <3>5, <3>6
  <2>9. Converting(y)
    BY <1>8, <1>11, <2>4, <2>5, <2>6, <2>7, <2>8 DEF Converting
  <2> QED BY <1>6, <1>11, <1>12, <1>13, <2>8, <2>9 DEF Sound, y
<1> QED BY <1>14, <1>15 DEF Sound

LEMMA EnterIs ==
  ASSUME AnthyInv, NEW u \in BOOLEAN, NEW r \in Records
  PROVE  LET y == Enter(u, r)
         IN /\ Sound(y) /\ y \in CallState
            /\ y.conv.asked /\ ~situation.others /\ ~indeterminate =>
                 model.candidates # <<>> /\ Pointed(y)
            /\ y.model = model /\ y.composer = composer /\ y.eager = eager
            /\ y.conv = conv /\ y.anthy = anthy /\ y.record = record
            /\ y.options = options /\ y.lessons = {} /\ y.out = NoOutput
            /\ y.out.commit = <<>>
<1> DEFINE y == Enter(u, r)
<1>1. /\ y.model = model /\ y.composer = composer /\ y.eager = eager
      /\ y.conv = conv /\ y.anthy = anthy /\ y.record = record
      /\ y.options = options /\ y.lessons = {} /\ y.out = NoOutput /\ y.up = u
      /\ y.taught = r
      /\ y = [model |-> y.model, out |-> y.out, composer |-> y.composer,
              eager |-> y.eager, conv |-> y.conv, anthy |-> y.anthy,
              record |-> y.record, options |-> y.options, lessons |-> y.lessons,
              up |-> y.up, taught |-> y.taught]
  BY DEF Enter
<1>2. /\ Plain.model = model /\ Plain.composer = composer /\ Plain.eager = eager
      /\ Plain.conv = conv /\ Plain.anthy = anthy /\ Plain.record = record
      /\ Plain.options = options
  BY DEF Plain, Enter
<1>3. Sound(Plain) /\ Plain \in CallState
  BY DEF AnthyInv, Sound
<1> DEFINE x == Plain
<1> HIDE DEF x, y
<1>4. NoOutput \in Plainly /\ NoOutput.commit = <<>>
  BY EmptyText DEF NoOutput, Plainly
<1>5. y \in CallState
  BY <1>1, <1>2, <1>3, <1>4 DEF CallState
<1>6. /\ x.model = y.model /\ x.composer = y.composer /\ x.eager = y.eager
      /\ x.conv = y.conv /\ x.anthy = y.anthy /\ x.record = y.record
      /\ x.options = y.options /\ Sound(x)
  BY <1>1, <1>2, <1>3 DEF x
<1>7. \A i : Chosen(y, i) = Chosen(x, i)
  BY <1>6 DEF Chosen, Fetch
<1>8. SettledText(y) = SettledText(x)
  BY <1>6, <1>7 DEF SettledText
<1>9. Typing(x) => Typing(y)
  BY <1>6 DEF Typing, KanaShown, HoldsNothing, Offers, OffersCurrent
<1>10. Converting(x) => Converting(y)
  <2>1. Chooses(x) => Chooses(y)
    BY <1>6 DEF Chooses
  <2>2. Teaches(x) => Teaches(y)
    BY <1>6, <1>7 DEF Teaches
  <2>3. ConversionShown(x) => ConversionShown(y)
    BY <1>6, <1>7, <1>8 DEF ConversionShown
  <2> QED BY <1>6, <2>1, <2>2, <2>3 DEF Converting
<1>11. y.conv.asked /\ ~situation.others /\ ~indeterminate =>
         model.candidates # <<>> /\ Pointed(y)
  <2>1. Pointed(x) => Pointed(y)
    BY <1>6 DEF Pointed
  <2> QED BY <1>1, <2>1 DEF AnthyInv, x
<1> QED BY <1>1, <1>4, <1>5, <1>6, <1>9, <1>10, <1>11 DEF Sound, y

\* ... whatever anthy and its record do meanwhile.
Entered(y) ==
  /\ Sound(y) /\ y \in CallState
  /\ y.conv.asked /\ ~situation.others /\ ~indeterminate =>
       model.candidates # <<>> /\ Pointed(y)
  /\ y.model = model /\ y.composer = composer /\ y.eager = eager
  /\ y.conv = conv /\ y.anthy = anthy /\ y.options = options
  /\ y.lessons = {} /\ y.out = NoOutput /\ y.out.commit = <<>>

LEMMA CallsEnter ==
  ASSUME AnthyInv PROVE Entered(Plain) /\ \A st \in Calls : Entered(st)
<1>1. record \in Records
  <2>1. Plain \in CallState /\ Plain.record = record
    BY DEF AnthyInv, Sound, Plain, Enter
  <2> QED BY <2>1 DEF CallState
<1>2. \A u \in BOOLEAN, r \in Records : Entered(Enter(u, r))
  BY EnterIs DEF Entered
<1>3. situation.records \subseteq Records
  BY DEF AnthyInv, Records
<1>4. ASSUME NEW st \in Calls PROVE Entered(st)
  <2>1. PICK u \in BOOLEAN, r \in situation.records : st = Enter(u, r)
    <3> DEFINE U == IF situation.fails THEN BOOLEAN ELSE {TRUE}
               R == situation.records
    <3>1. U \subseteq BOOLEAN
      OBVIOUS
    <3>2. Calls = {Enter(u, r) : u \in U, r \in R}
      BY DEF Calls
    <3> HIDE DEF U, R
    <3>3. \E u \in U, r \in R : st = Enter(u, r)
      BY <3>2, <1>4
    <3> QED BY <3>1, <3>3 DEF R
  <2> QED BY <1>2, <1>3, <2>1
<1> QED BY <1>1, <1>2, <1>4 DEF Plain

\* Nothing is deleted: the document gains what is committed, and what is published
\* is what the call left to show.
Delivered(st) ==
  /\ before' = before \o st.out.commit /\ before' \in Text
  /\ published'.preedit = Preedit(st.model) /\ model'.settled = st.model.settled

LEMMA LeaveKeeps ==
  ASSUME AnthyAnswers, AnthyInv, NEW st, Sound(st),
         st.conv.asked /\ ~situation.others => Pointed(st),
         NEW force, Leave(st, force), UNCHANGED situation, indeterminate' \in BOOLEAN
  PROVE  AnthyInv' /\ Delivered(st)
<1> DEFINE y == Left(st)
<1>1. /\ Sound(y) /\ Len(y.model.candidates) <= y.options.cap
      /\ y.model.cursor = 0 \/ y.model.cursor < Len(y.model.candidates)
      /\ Preedit(y.model) = Preedit(st.model) /\ y.model.settled = st.model.settled
      /\ y.conv.asked /\ ~situation.others => y.model.candidates # <<>> /\ Pointed(y)
  BY LeftIs
<1>2. /\ st \in CallState /\ st.out \in Plainly
  BY DEF Sound, CallState
<1>3. /\ model' = Materialize(st.model, Offered(st), st.options.cap)
      /\ published' = Project(model')
      /\ composer' = st.composer /\ eager' = st.eager /\ anthy' = st.anthy
      /\ conv' = [st.conv EXCEPT !.listed = IF Offered(st) = <<>> THEN @ ELSE st.conv.active]
      /\ record' = st.record /\ options' = st.options /\ lessons' = st.lessons
  BY DEF Leave, Refresh
<1>4. Plain' = y
  <2>1. /\ y.model = model' /\ y.out = NoOutput /\ y.composer = composer'
        /\ y.eager = eager' /\ y.conv = conv' /\ y.anthy = anthy'
        /\ y.record = record' /\ y.options = options' /\ y.lessons = {} /\ y.up = TRUE
        /\ y.taught = record'
    BY <1>2, <1>3 DEF Left, CallState
  <2>2. y = [model |-> y.model, out |-> y.out, composer |-> y.composer,
             eager |-> y.eager, conv |-> y.conv, anthy |-> y.anthy,
             record |-> y.record, options |-> y.options, lessons |-> y.lessons,
             up |-> y.up, taught |-> y.taught]
    BY <1>1 DEF Sound, CallState
  <2> HIDE DEF y
  <2> QED BY <2>1, <2>2 DEF Plain, Enter
<1>5. before' = before \o st.out.commit /\ before' \in Text
  <2>1. ~Deletes(st.out)
    BY <1>2 DEF Deletes, Plainly
  <2>2. before' = before \o st.out.commit
    BY <2>1 DEF Leave, Refresh
  <2>3. st.out.commit \in Text /\ before \in Text
    BY <1>2 DEF Plainly, AnthyInv
  <2> QED BY <2>2, <2>3, ConcatText
<1>6. y.model = model' /\ y.options = options' /\ y.conv = conv'
  BY <1>4 DEF Plain, Enter
<1> HIDE DEF y
<1>7. published'.preedit = Preedit(model')
  BY <1>3 DEF Project, Preedit
<1>8. Sound(Plain)'
  BY <1>1, <1>4 DEF Sound, Typing, Converting
<1>9. Pointed(y) => Pointed(Plain)'
  BY <1>4
<1> QED BY <1>1, <1>5, <1>6, <1>7, <1>8, <1>9 DEF AnthyInv, Delivered

\* What leaves the composition alone but for the highlight keeps the invariant.
LEMMA FrameKeeps ==
  ASSUME AnthyInv, NEW cursor \in Nat, model' = [model EXCEPT !.cursor = cursor],
         cursor = 0 \/ cursor < Len(model.candidates),
         indeterminate' \in BOOLEAN,
         (cursor = model.cursor /\ indeterminate' = indeterminate) \/ indeterminate',
         record' \in Records, record' = record \/ situation.others, before' \in Text,
         UNCHANGED <<published, composer, eager, conv, anthy, options, situation>>
  PROVE  AnthyInv'
<1> DEFINE x == Plain
           y == Plain'
<1>1. /\ x.model = model /\ x.composer = composer /\ x.eager = eager
      /\ x.conv = conv /\ x.anthy = anthy /\ x.record = record
      /\ x.options = options
  BY DEF Plain, Enter
<1>2. /\ y.model = model' /\ y.composer = composer /\ y.eager = eager
      /\ y.conv = conv /\ y.anthy = anthy /\ y.record = record'
      /\ y.options = options /\ y.lessons = {} /\ y.out = NoOutput /\ y.up = TRUE
      /\ y.taught = record'
      /\ y = [model |-> y.model, out |-> y.out, composer |-> y.composer,
              eager |-> y.eager, conv |-> y.conv, anthy |-> y.anthy,
              record |-> y.record, options |-> y.options, lessons |-> y.lessons,
              up |-> y.up, taught |-> y.taught]
  BY DEF Plain, Enter
<1>3. Sound(x) /\ x \in CallState /\ published.preedit = Preedit(model)
  BY DEF AnthyInv, Sound
<1> HIDE DEF x, y
<1>4. NoOutput \in Plainly
  BY EmptyText DEF NoOutput, Plainly
<1>5. model \in Model
  BY <1>1, <1>3 DEF CallState
<1>6. /\ model' \in Model /\ model'.cursor = cursor
      /\ model'.settled = model.settled /\ model'.active = model.active
      /\ model'.tail = model.tail /\ model'.candidates = model.candidates
  BY <1>5 DEF Model
<1>7. y \in CallState
  BY <1>1, <1>2, <1>3, <1>4, <1>6 DEF CallState
<1>8. \A i : Chosen(y, i) = Chosen(x, i)
  BY <1>1, <1>2 DEF Chosen, Fetch
<1>9. SettledText(y) = SettledText(x)
  BY <1>1, <1>2, <1>8 DEF SettledText
<1>10. Typing(x) => Typing(y)
  <2>1. KanaShown(x) => KanaShown(y)
    BY <1>1, <1>2, <1>6 DEF KanaShown
  <2>2. HoldsNothing(x) => HoldsNothing(y)
    BY <1>1, <1>2, <1>6 DEF HoldsNothing
  <2>3. Offers(x) => Offers(y)
    BY <1>1, <1>2, <1>6 DEF Offers
  <2>4. ~situation.others /\ OffersCurrent(x) => OffersCurrent(y)
    BY <1>1, <1>2, <1>6 DEF OffersCurrent
  <2> QED BY <2>1, <2>2, <2>3, <2>4 DEF Typing
<1>11. Converting(x) => Converting(y)
  <2>1. Chooses(x) => Chooses(y)
    BY <1>1, <1>2 DEF Chooses
  <2>2. Teaches(x) => Teaches(y)
    BY <1>1, <1>2, <1>8 DEF Teaches
  <2>3. ConversionShown(x) => ConversionShown(y)
    BY <1>1, <1>2, <1>6, <1>8, <1>9 DEF ConversionShown
  <2> QED BY <1>1, <1>2, <1>6, <2>1, <2>2, <2>3 DEF Converting
<1>12. Sound(y)
  BY <1>3, <1>7, <1>10, <1>11 DEF Sound
<1>13. Sound(Plain)'
  BY <1>12 DEF Sound, Typing, Converting, y
<1>14. published'.preedit = Preedit(model')
  BY <1>3, <1>6 DEF Preedit
<1>15. Pointed(x) /\ cursor = model.cursor => Pointed(Plain)'
  <2>1. Pointed(x) /\ cursor = model.cursor => Pointed(y)
    BY <1>1, <1>2, <1>6 DEF Pointed
  <2> QED BY <2>1 DEF y
<1> QED BY <1>6, <1>13, <1>14, <1>15 DEF AnthyInv, x

LEMMA AnthyInit == Init => AnthyInv
<1> SUFFICES ASSUME Init PROVE AnthyInv
  OBVIOUS
<1>1. /\ model = EmptyModel /\ published = Project(EmptyModel) /\ before = <<>>
      /\ composer = EmptyComposer /\ eager = <<>> /\ conv = NoConversion /\ anthy = <<>>
      /\ situation \in Situations /\ record \in situation.records
      /\ options \in situation.settings /\ indeterminate = FALSE
  BY DEF Init, ContextInit
<1>2. options \in Options /\ record \in Records
  BY <1>1, AnthyAssumption DEF Records
<1> DEFINE x == Plain
<1>3. /\ x.model = EmptyModel /\ x.composer = EmptyComposer /\ x.eager = <<>>
      /\ x.conv = NoConversion /\ x.anthy = <<>> /\ x.record = record
      /\ x.options = options /\ x.lessons = {} /\ x.out = NoOutput /\ x.up = TRUE
      /\ x.taught = record
      /\ x = [model |-> x.model, out |-> x.out, composer |-> x.composer,
              eager |-> x.eager, conv |-> x.conv, anthy |-> x.anthy,
              record |-> x.record, options |-> x.options, lessons |-> x.lessons,
              up |-> x.up, taught |-> x.taught]
  BY <1>1 DEF Plain, Enter
<1> HIDE DEF x
<1>4. /\ NoOutput \in Plainly /\ EmptyModel \in Model /\ EmptyComposer \in Composer
      /\ NoConversion \in Conversion /\ <<>> \in Seq(Span) /\ <<>> \in Seq(Segment)
  BY <1>2, EmptyText, EmptyModelType, EmptyBuffer, NoConversionType DEF NoOutput, Plainly
<1>5. x \in CallState
  BY <1>2, <1>3, <1>4 DEF CallState
<1>6. /\ EmptyModel.settled = <<>> /\ EmptyModel.active = <<>> /\ EmptyModel.tail = <<>>
      /\ EmptyModel.candidates = <<>> /\ EmptyModel.cursor = 0 /\ ~NoConversion.asked
  BY DEF EmptyModel, NoConversion
<1>7. Texts(<<>>) = <<>> /\ Display(EmptyComposer, Settings(options)) = <<>>
  BY <1>2, EmptySpans, EmptyBuffer
<1>8. Typing(x)
  BY <1>3, <1>6, <1>7 DEF Typing, KanaShown, HoldsNothing
<1>9. published.preedit = Preedit(model)
  BY <1>1 DEF Project, Preedit
<1>10. Len(model.candidates) <= options.cap
  <2>1. Len(<<>>) = 0 /\ options.cap \in Nat
    BY <1>2 DEF Options
  <2>2. Len(model.candidates) = 0
    BY <1>1, <1>6, <2>1
  <2> QED BY <2>1, <2>2
<1> QED BY <1>1, <1>5, <1>6, <1>8, <1>9, <1>10, EmptyText DEF AnthyInv, Sound, x

-------------------------------------------------------------------------------
(* The calls, one by one.                                                  *)

\* Either kind of state a call may leave.
LEMMA EndsSound ==
  ASSUME NEW y, NEW text, EndsWith(y, text)
  PROVE  /\ Sound(y) /\ ~y.conv.asked /\ Preedit(y.model) = <<>>
         /\ y.out.commit = text
<1>1. Typing(y)
  BY DEF EndsWith, Typing
<1>2. ~y.conv.asked
  BY DEF EndsWith, HoldsNothing, NoConversion
<1>3. Preedit(EmptyModel) = <<>>
  <2>1. /\ EmptyModel.settled = <<>> /\ EmptyModel.active = <<>> /\ EmptyModel.tail = <<>>
    BY DEF EmptyModel
  <2>2. <<>> \o <<>> = <<>>
    BY EmptyText, ConcatText
  <2> QED BY <2>1, <2>2 DEF Preedit
<1> QED BY <1>1, <1>2, <1>3 DEF EndsWith, Sound

\* Ending a composition leaves nothing of it but what it committed.
Over(text) ==
  /\ before' = before \o text /\ published'.preedit = <<>>
  /\ composer' = EmptyComposer /\ eager' = <<>> /\ ~conv'.asked

LEMMA EndKeeps ==
  ASSUME AnthyAnswers, AnthyInv, NEW y, NEW text, EndsWith(y, text), NEW force,
         Leave(y, force), UNCHANGED situation, indeterminate' \in BOOLEAN
  PROVE  AnthyInv' /\ Over(text) /\ lessons' = y.lessons
<1>1. Sound(y) /\ ~y.conv.asked /\ Preedit(y.model) = <<>> /\ y.out.commit = text
  BY EndsSound
<1>2. AnthyInv' /\ Delivered(y)
  BY <1>1, LeaveKeeps
<1>3. /\ composer' = EmptyComposer /\ eager' = <<>> /\ lessons' = y.lessons
      /\ conv' = [y.conv EXCEPT !.listed = IF Offered(y) = <<>> THEN @ ELSE y.conv.active]
  BY DEF Leave, EndsWith
<1>4. ~conv'.asked
  <2>1. y.conv \in Conversion
    BY <1>1 DEF Sound, CallState
  <2> QED BY <1>1, <1>3, <2>1 DEF Conversion
<1> QED BY <1>1, <1>2, <1>3, <1>4 DEF Over, Delivered

\* Before conversion is asked for, what is published is the kana as shown ...
LEMMA KanaPublished ==
  ASSUME AnthyInv, ~conv.asked
  PROVE  /\ model.settled = Texts(eager) /\ Texts(eager) \in Text
         /\ composer \in Composer /\ options \in Options
         /\ published.preedit = Texts(eager) \o Display(composer, Settings(options))
         /\ Display(composer, Settings(options)) \in Text
<1> DEFINE st == Plain
<1>1. /\ Sound(st) /\ st \in CallState /\ st.model = model /\ st.composer = composer
      /\ st.eager = eager /\ st.conv = conv /\ st.options = options
  BY CallsEnter DEF Entered
<1> HIDE DEF st
<1>2. KanaShown(st)
  BY <1>1 DEF Sound, Typing, Converting, Chooses
<1>3. composer \in Composer /\ options \in Options /\ eager \in Seq(Span)
  BY <1>1 DEF CallState
<1>4. Texts(eager) \in Text /\ Display(composer, Settings(options)) \in Text
  BY <1>3, Buffer, SpanReadings, TextsOf
<1>5. /\ model.settled = Texts(eager) /\ model.tail = <<>>
      /\ model.active = Display(composer, Settings(options))
  BY <1>1, <1>2 DEF KanaShown
<1>6. Preedit(model) = Texts(eager) \o Display(composer, Settings(options))
  <2>1. Texts(eager) \o Display(composer, Settings(options)) \in Text
    BY <1>4, ConcatText
  <2> QED BY <1>5, <2>1, ConcatText DEF Preedit
<1> QED BY <1>3, <1>4, <1>5, <1>6 DEF AnthyInv

\* ... so ending the composition commits what is on screen.
LEMMA EndedIs ==
  ASSUME AnthyInv, NEW st, Entered(st)
  PROVE  /\ EndsWith(Ended(st), OnScreen) /\ OnScreen \in Text
         /\ ~conv.asked => Ended(st).lessons = {}
<1>1. /\ Sound(st) /\ st \in CallState /\ st.model = model /\ st.composer = composer
      /\ st.eager = eager /\ st.conv = conv /\ st.options = options /\ st.lessons = {}
      /\ published.preedit = Preedit(model)
  BY DEF Entered, AnthyInv
<1>2. CASE conv.asked
  <2>1. Converting(st)
    <3>1. ~NoConversion.asked
      BY DEF NoConversion
    <3> QED BY <1>1, <1>2, <3>1 DEF Sound, Typing, HoldsNothing, Offers
  <2>2. EndsWith(CommitConversion(st), Preedit(st.model))
    BY <1>1, <2>1, CommitConversionIs
  <2>3. OnScreen = Preedit(st.model)
    BY <1>1, <1>2 DEF OnScreen
  <2>4. Preedit(st.model) \in Text
    <3>1. /\ CommitConversion(st).out.commit = Preedit(st.model)
          /\ CommitConversion(st).out \in Plainly
      BY <2>2 DEF EndsWith, CallState
    <3> QED BY <3>1 DEF Plainly
  <2> QED BY <1>2, <2>2, <2>3, <2>4 DEF Ended
<1>3. CASE ~conv.asked
  <2> DEFINE text == Texts(eager) \o CommitText(composer, Settings(options))
  <2>1. /\ EndsWith(CommitKana(st), text) /\ text \in Text
        /\ CommitKana(st).lessons = {}
    BY <1>1, CommitKanaIs
  <2>2. OnScreen = text
    <3>1. /\ Texts(eager) \in Text /\ composer \in Composer /\ options \in Options
          /\ published.preedit = Texts(eager) \o Display(composer, Settings(options))
      BY <1>3, KanaPublished
    <3> QED BY <1>3, <3>1, FinishedIsCommitted DEF OnScreen
  <2> HIDE DEF text
  <2> QED BY <1>3, <2>1, <2>2 DEF Ended
<1> QED BY <1>2, <1>3

\* Where nothing is composed nothing is on screen.
LEMMA NothingOnScreen ==
  ASSUME AnthyInv, composer = EmptyComposer
  PROVE  /\ ~conv.asked /\ HoldsNothing(Plain)
         /\ eager = <<>> => OnScreen = <<>> /\ published.preedit = <<>>
<1> DEFINE st == Plain
<1>1. /\ Sound(st) /\ st \in CallState /\ st.model = model /\ st.composer = composer
      /\ st.eager = eager /\ st.conv = conv /\ st.options = options
      /\ st.anthy = anthy
  BY CallsEnter DEF Entered
<1> HIDE DEF st
<1>2. HoldsNothing(st) /\ ~conv.asked
  <2>1. Typing(st)
    BY <1>1 DEF Sound, Converting, Chooses
  <2>2. HoldsNothing(st)
    BY <1>1, <2>1 DEF Typing, Offers
  <2>3. ~NoConversion.asked
    BY DEF NoConversion
  <2> QED BY <1>1, <2>2, <2>3 DEF HoldsNothing
<1>3. ASSUME eager = <<>> PROVE OnScreen = <<>> /\ published.preedit = <<>>
  <2>1. /\ published.preedit = Texts(eager) \o Display(composer, Settings(options))
        /\ composer \in Composer /\ options \in Options
    BY <1>2, KanaPublished
  <2>2. Texts(<<>>) = <<>> /\ Display(composer, Settings(options)) = <<>>
    BY <2>1, EmptySpans, EmptyBuffer
  <2>3. published.preedit = <<>>
    <3>1. <<>> \o <<>> = <<>>
      BY EmptyText, ConcatText
    <3> QED BY <1>3, <2>1, <2>2, <3>1
  <2>4. composer.pending # <<n>>
    <3>1. EmptyComposer.pending = <<>> /\ <<>> # <<n>>
      BY DEF EmptyComposer
    <3> QED BY <3>1
  <2> QED BY <1>2, <2>3, <2>4 DEF OnScreen, Finished
<1> QED BY <1>2, <1>3 DEF st

LEMMA ReturnKeeps ==
  ASSUME AnthyAnswers, AnthyInv, Return
  PROVE  AnthyInv' /\ Over(OnScreen)
<1>1. PICK st \in Calls : Leave(Ended(st), FALSE)
  BY DEF Return
<1>2. EndsWith(Ended(st), OnScreen)
  BY CallsEnter, EndedIs
<1>3. UNCHANGED <<indeterminate, situation>> /\ indeterminate \in BOOLEAN
  BY DEF Return, Handled, AnthyInv
<1> QED BY <1>1, <1>2, <1>3, EndKeeps

\* A call that changes nothing of the composition keeps the invariant.
Still == /\ before' = before /\ lessons' = {} /\ published'.preedit = published.preedit
         /\ composer' = composer /\ eager' = eager /\ conv'.asked = conv.asked

LEMMA EnteredKeeps ==
  ASSUME AnthyAnswers, AnthyInv, ~indeterminate, NEW st, Entered(st), NEW force,
         Leave(st, force), UNCHANGED <<situation, indeterminate>>
  PROVE  AnthyInv' /\ Still
<1>1. /\ Sound(st) /\ (st.conv.asked /\ ~situation.others => Pointed(st))
      /\ indeterminate' \in BOOLEAN
      /\ st.composer = composer /\ st.eager = eager /\ st.conv = conv
      /\ st.lessons = {} /\ st.out.commit = <<>> /\ st.model = model
  BY DEF Entered, AnthyInv
<1>2. AnthyInv' /\ Delivered(st)
  BY <1>1, LeaveKeeps
<1>3. /\ composer' = composer /\ eager' = eager /\ lessons' = {}
      /\ conv' = [conv EXCEPT !.listed = IF Offered(st) = <<>> THEN @ ELSE conv.active]
  BY <1>1 DEF Leave
<1>4. conv'.asked = conv.asked
  <2>1. conv \in Conversion
    BY <1>1 DEF Sound, CallState
  <2> QED BY <1>3, <2>1 DEF Conversion
<1>5. before' = before /\ published'.preedit = published.preedit
  BY <1>1, <1>2, ConcatText DEF Delivered, AnthyInv
<1> QED BY <1>2, <1>3, <1>4, <1>5 DEF Still

LEMMA CommitKeeps ==
  ASSUME AnthyAnswers, AnthyInv, Commit
  PROVE  /\ AnthyInv' /\ (Empty => Still) /\ (~Empty => Over(OnScreen))
         /\ before' = before \o OnScreen /\ published'.preedit = <<>>
<1>1. PICK st \in Calls : Leave(IF Empty THEN st ELSE Ended(st), FALSE)
  BY DEF Commit
<1>2. /\ UNCHANGED <<indeterminate, situation>> /\ indeterminate \in BOOLEAN
      /\ ~indeterminate /\ Entered(st) /\ before \in Text
  BY CallsEnter DEF Commit, Handled, Able, AnthyInv
<1>3. CASE Empty
  <2>1. AnthyInv' /\ Still
    BY <1>1, <1>2, <1>3, EnteredKeeps
  <2>2. OnScreen = <<>> /\ published.preedit = <<>>
    BY <1>3, NothingOnScreen DEF Empty
  <2> QED BY <1>2, <1>3, <2>1, <2>2, ConcatText DEF Still
<1>4. CASE ~Empty
  <2>1. EndsWith(Ended(st), OnScreen)
    BY <1>2, EndedIs
  <2> QED BY <1>1, <1>2, <1>4, <2>1, EndKeeps DEF Over
<1> QED BY <1>3, <1>4

LEMMA ResetKeeps ==
  ASSUME AnthyAnswers, AnthyInv, Reset
  PROVE  AnthyInv' /\ Over(<<>>) /\ lessons' = {}
<1> DEFINE y == Forget(Emptied(Plain))
<1>1. Plain \in CallState /\ Plain.out.commit = <<>> /\ Plain.lessons = {}
  BY CallsEnter DEF Entered
<1>2. EndsWith(y, <<>>) /\ y.lessons = {}
  BY <1>1, EmptiedIs DEF EndsWith
<1>3. Leave(y, indeterminate) /\ UNCHANGED situation /\ indeterminate' \in BOOLEAN
  BY DEF Reset
<1> HIDE DEF y
<1> QED BY <1>2, <1>3, EndKeeps

LEMMA DeclinedKeeps ==
  ASSUME AnthyAnswers, AnthyInv, TypeOther \/ BackspaceDeclined
  PROVE  AnthyInv' /\ Still
<1>1. Leave(Plain, FALSE) /\ UNCHANGED <<indeterminate, situation>> /\ ~indeterminate
  BY DEF TypeOther, BackspaceDeclined, Declined, Able
<1> QED BY <1>1, CallsEnter, EnteredKeeps

\* What a call that ends with Handled leaves of what it worked out.
Leaves(y) ==
  /\ Delivered(y) /\ composer' = y.composer /\ eager' = y.eager
  /\ lessons' = y.lessons /\ conv'.asked = y.conv.asked

LEMMA HandledKeeps ==
  ASSUME AnthyAnswers, AnthyInv, NEW y, Sound(y), y.conv.asked => Pointed(y),
         NEW force, Leave(y, force), UNCHANGED <<indeterminate, situation>>
  PROVE  AnthyInv' /\ Leaves(y)
<1>1. indeterminate' \in BOOLEAN
  BY DEF AnthyInv
<1>2. AnthyInv' /\ Delivered(y)
  BY <1>1, LeaveKeeps
<1>3. /\ composer' = y.composer /\ eager' = y.eager /\ lessons' = y.lessons
      /\ conv' = [y.conv EXCEPT !.listed = IF Offered(y) = <<>> THEN @ ELSE y.conv.active]
  BY DEF Leave
<1>4. conv'.asked = y.conv.asked
  <2>1. y.conv \in Conversion
    BY DEF Sound, CallState
  <2> QED BY <1>3, <2>1 DEF Conversion
<1> QED BY <1>2, <1>3, <1>4 DEF Leaves

\* The buffer and the selections are rewritten; the rest of the call stays.
Rewritten(st, e, c) == [st EXCEPT !.eager = e, !.composer = c]

LEMMA RewrittenIs ==
  ASSUME NEW st \in CallState, NEW c \in Composer, NEW e \in Seq(Span)
  PROVE  LET y == [st EXCEPT !.composer = c]
             z == Rewritten(st, e, c)
         IN /\ y \in CallState /\ y.composer = c /\ y.eager = st.eager
            /\ z \in CallState /\ z.composer = c /\ z.eager = e
            /\ \A f \in {"model", "out", "conv", "anthy", "record", "options",
                         "lessons", "up", "taught"} : y[f] = st[f] /\ z[f] = st[f]
BY DEF CallState, Rewritten

\* Is the kana shown, with nothing offered yet: what refresh_eager_conversion finds.
Retyped(y) == y \in CallState /\ KanaShown(y) /\ y.model.candidates = <<>>

LEMMA TypedIs ==
  ASSUME NEW st \in CallState, NEW key \in Keys
  PROVE  LET y == Typed(st, key)
         IN /\ Retyped(y) /\ y.composer # EmptyComposer
            /\ y.composer = Insert(st.composer, key)
            /\ y.conv = [st.conv EXCEPT !.listed = 0]
            /\ y.out = st.out /\ y.eager = st.eager /\ y.options = st.options
            /\ y.lessons = st.lessons
<1> DEFINE c == Insert(st.composer, key)
           x == [st EXCEPT !.composer = c]
<1>1. c \in Composer /\ c # EmptyComposer
  <2>1. st.composer \in Composer
    BY DEF CallState
  <2> QED BY <2>1, InsertType
<1>2. x \in CallState /\ x.composer = c /\ x.eager = st.eager /\ x.conv = st.conv
      /\ x.out = st.out /\ x.options = st.options /\ x.lessons = st.lessons
  <2>1. st.eager \in Seq(Span)
    BY DEF CallState
  <2> QED BY <1>1, <2>1, RewrittenIs
<1>3. Typed(st, key) = ShowKana(x)
  BY DEF Typed
<1> HIDE DEF x, c
<1>4. /\ Retyped(ShowKana(x)) /\ ShowKana(x).conv = [x.conv EXCEPT !.listed = 0]
      /\ \A f \in {"out", "composer", "eager", "options", "lessons"} :
           ShowKana(x)[f] = x[f]
  BY <1>2, ShowKanaIs DEF Retyped
<1> QED BY <1>1, <1>2, <1>3, <1>4 DEF c

\* Before conversion is asked for a call finds the kana shown.
LEMMA StillTyping ==
  ASSUME NEW st, Sound(st), ~st.conv.asked
  PROVE  Typing(st)
BY DEF Sound, Converting, Chooses

LEMMA StillConverting ==
  ASSUME NEW st, Sound(st), st.conv.asked
  PROVE  Converting(st)
BY DEF Sound, Typing, HoldsNothing, Offers, NoConversion

LEMMA RefreshedIs ==
  ASSUME AnthyAnswers, NEW st, Retyped(st)
  PROVE  LET y == RefreshEager(st)
         IN /\ Sound(y) /\ ~y.conv.asked
            /\ \A f \in {"out", "composer", "eager", "options", "lessons"} : y[f] = st[f]
BY RefreshEagerIs DEF Retyped, Sound

LEMMA TypeKeyKeeps ==
  ASSUME AnthyAnswers, AnthyInv, NEW key \in Keys, TypeKey(key)
  PROVE  AnthyInv' /\ lessons' = {} /\ ~conv.asked
<1> DEFINE then_ == IF key \in SentenceEnds THEN options.onPeriod ELSE "nothing"
           Then(more) == CASE then_ = "nothing" -> more
                           [] then_ = "convert" -> BeginConversion(more)
                           [] then_ = "commit"  -> CommitKana(more)
           Z(ended) == IF ended.conv.asked THEN ended ELSE RefreshEager(ended)
<1>1. PICK st \in Calls : Leave(Z(Then(Typed(st, key))), FALSE)
  BY DEF TypeKey
<1>2. UNCHANGED <<indeterminate, situation>> /\ ~conv.asked
  BY DEF TypeKey, Handled
<1>3. Sound(st) /\ st \in CallState /\ st.conv = conv /\ st.lessons = {} /\ st.out = NoOutput
  BY CallsEnter DEF Entered
<1> DEFINE more == Typed(st, key)
<1>4. /\ Retyped(more) /\ more.composer # EmptyComposer /\ ~more.conv.asked
      /\ more.lessons = {}
  <2>1. st.conv \in Conversion
    BY <1>3 DEF CallState
  <2> QED BY <1>2, <1>3, <2>1, TypedIs DEF Conversion
<1>5. then_ \in {"nothing", "convert", "commit"}
  <2>1. options \in Options
    <3>1. Plain \in CallState /\ Plain.options = options
      BY CallsEnter DEF Entered
    <3> QED BY <3>1 DEF CallState
  <2> QED BY <2>1 DEF Options
<1> DEFINE ended == Then(more)
           y == Z(ended)
<1>6. /\ y.conv.asked /\ Converting(y) /\ Pointed(y) /\ y \in CallState /\ y.lessons = {}
      \/ /\ y = RefreshEager(ended) /\ Retyped(ended) /\ ended.lessons = {}
  <2> HIDE DEF more, then_
  <2>1. CASE then_ = "nothing"
    BY <1>4, <2>1
  <2>2. CASE then_ = "convert"
    <3>1. ended = BeginConversion(more)
      BY <2>2
    <3>2. BeginsWell(more) /\ more \in CallState /\ KanaShown(more)
      BY <1>4 DEF BeginsWell, Retyped
    <3>3. /\ ended \in CallState
          /\ ended.lessons = more.lessons /\ ended.composer = more.composer
          /\ ended.eager = more.eager /\ ended.options = more.options
          /\ \/ ended.conv.asked /\ Converting(ended) /\ Pointed(ended)
             \/ ended.model = more.model /\ ended.conv = more.conv
      BY <3>1, <3>2, BeginConversionIs
    <3> HIDE DEF ended
    <3>4. CASE ended.conv.asked
      BY <1>4, <3>3, <3>4
    <3>5. CASE ~ended.conv.asked
      <4>1. Retyped(ended)
        BY <1>4, <3>3, <3>5 DEF Retyped, KanaShown
      <4> QED BY <1>4, <3>3, <3>5, <4>1
    <3> QED BY <3>4, <3>5
  <2>3. CASE then_ = "commit"
    <3>1. ended = CommitKana(more)
      BY <2>3
    <3>2. /\ EndsWith(ended, Texts(more.eager)
                               \o CommitText(more.composer, Settings(more.options)))
          /\ ended.lessons = more.lessons
      BY <1>4, <3>1, CommitKanaIs DEF Retyped
    <3> HIDE DEF ended
    <3>3. Retyped(ended) /\ ~ended.conv.asked
      BY <3>2 DEF EndsWith, Retyped, HoldsNothing, NoConversion
    <3> QED BY <1>4, <3>2, <3>3
  <2> QED BY <1>5, <2>1, <2>2, <2>3
<1>7. Leave(y, FALSE)
  BY <1>1
<1> HIDE DEF y, ended
<1>8. Sound(y) /\ (y.conv.asked => Pointed(y)) /\ y.lessons = {}
  <2>1. CASE y = RefreshEager(ended) /\ Retyped(ended) /\ ended.lessons = {}
    BY <2>1, RefreshedIs
  <2> QED BY <1>6, <2>1 DEF Sound
<1>9. AnthyInv' /\ Leaves(y)
  BY <1>2, <1>7, <1>8, HandledKeeps
<1> QED BY <1>2, <1>8, <1>9 DEF Leaves

-------------------------------------------------------------------------------
(* What anthy was told of.                                                 *)

\* L tells of segments of x not told of before, as they are on screen, and if of
\* any of all of them.
Told(L, x) ==
  /\ \A lesson \in L : /\ x.conv.recorded[lesson[1]] = <<>>
                       /\ lesson[2] = Seen(x, lesson[1])
  /\ L # {} => \A i \in 1..x.conv.count :
                 x.conv.recorded[i] = <<>> => \E lesson \in L : lesson[1] = i

LessonsOf(b, x, y, through) ==
  {} \cup (IF b THEN {<<i, Seen(y, i)>> : i \in Untaught(x, through)} ELSE {})

ToldOf(L, x, y, through) ==
  /\ \A lesson \in L : /\ x.conv.recorded[lesson[1]] = <<>>
                       /\ lesson[2] = Seen(y, lesson[1])
  /\ L # {} /\ through = x.conv.count =>
       \A i \in 1..x.conv.count :
         x.conv.recorded[i] = <<>> => \E lesson \in L : lesson[1] = i

LEMMA ToldIs ==
  ASSUME NEW b, NEW x, NEW y, NEW through
  PROVE  ToldOf(LessonsOf(b, x, y, through), x, y, through)
<1> DEFINE L == LessonsOf(b, x, y, through)
<1>1. CASE ~b
  BY <1>1 DEF LessonsOf, ToldOf
<1>2. CASE b
  <2>1. L = {<<i, Seen(y, i)>> : i \in Untaught(x, through)}
    BY <1>2 DEF LessonsOf
  <2>2. \A lesson \in L : \E i \in Untaught(x, through) : lesson = <<i, Seen(y, i)>>
    BY <2>1
  <2>3. \A i \in Untaught(x, through) : <<i, Seen(y, i)>> \in L
    BY <2>1
  <2>4. \A i : i \in Untaught(x, through) <=> i \in 1..through /\ x.conv.recorded[i] = <<>>
    BY DEF Untaught
  <2> HIDE DEF Untaught, L
  <2>5. ASSUME NEW lesson \in L
        PROVE  x.conv.recorded[lesson[1]] = <<>> /\ lesson[2] = Seen(y, lesson[1])
    <3>1. PICK i \in Untaught(x, through) : lesson = <<i, Seen(y, i)>>
      BY <2>2
    <3>2. lesson[1] = i /\ lesson[2] = Seen(y, i)
      BY <3>1
    <3> QED BY <2>4, <3>2
  <2>6. ASSUME through = x.conv.count, NEW i \in 1..x.conv.count,
               x.conv.recorded[i] = <<>>
        PROVE  \E lesson \in L : lesson[1] = i
    <3>1. <<i, Seen(y, i)>> \in L
      BY <2>3, <2>4, <2>6
    <3>2. <<i, Seen(y, i)>>[1] = i
      OBVIOUS
    <3> QED BY <3>1, <3>2
  <2> QED BY <2>5, <2>6 DEF ToldOf, L
<1> QED BY <1>1, <1>2

\* What is on screen for the segments makes up the preedit.
LEMMA SeenIsShown ==
  ASSUME NEW x \in CallState, Converting(x),
         NEW told, told = [i \in 1..x.conv.count |-> told[i]],
         \A i \in 1..x.conv.count : told[i] = Seen(x, i)
  PROVE  Preedit(x.model) = Texts(x.eager) \o FlattenSeq(told)
<1> DEFINE k == x.conv.active
           m == x.conv.count
           rest == SubSeq(x.anthy, k + 1, m)
           low == [i \in 1..(k - 1) |-> Chosen(x, i)]
           high == [i \in DOMAIN rest |-> rest[i].reading]
           one == <<Chosen(x, k)>>
<1>1. /\ Chooses(x) /\ ConversionShown(x)
      /\ m \in Nat \ {0} /\ k \in 1..m /\ Len(x.anthy) = m /\ x.anthy \in Seq(Segment)
      /\ \A i \in 1..m : Chosen(x, i) \in Text
  BY ChosenTexts DEF Converting
<1>2. rest \in Seq(Segment) /\ Len(rest) = m - k
      /\ \A i \in 1..(m - k) : rest[i] = x.anthy[k + i]
  <2>1. k + 1 \in 1..(Len(x.anthy) + 1) /\ m \in (k + 1 - 1)..Len(x.anthy)
    BY <1>1
  <2>2. m \in Nat /\ k \in Nat /\ x.anthy \in Seq(Segment)
    BY <1>1
  <2> DEFINE a == x.anthy
  <2> HIDE DEF m, k, a
  <2>3. /\ SubSeq(a, k + 1, m) \in Seq(Segment) /\ Len(SubSeq(a, k + 1, m)) = m - k
        /\ \A i \in 1..(m - k) : SubSeq(a, k + 1, m)[i] = a[k + i]
    BY <2>1, <2>2 DEF a
  <2> QED BY <2>3 DEF a
<1>3. DOMAIN rest = 1..(m - k)
  BY <1>2
<1> HIDE DEF rest
<1>4. low \in Seq(Text) /\ Len(low) = k - 1
  BY <1>1, TextFunction DEF Text
<1>5. high \in Seq(Text) /\ Len(high) = m - k
  <2>1. \A i \in 1..(m - k) : high[i] \in Text
    <3>1. \A i \in 1..(m - k) : k + i \in 1..Len(x.anthy)
      BY <1>1
    <3> QED BY <1>1, <1>2, <1>3, <3>1, Segments
  <2>2. DOMAIN high = 1..(m - k) /\ high = [i \in 1..(m - k) |-> high[i]]
    BY <1>3
  <2>3. m - k \in Nat
    BY <1>1
  <2> HIDE DEF high, m, k
  <2> QED BY <2>1, <2>2, <2>3, TextFunction DEF Text
<1>6. one \in Seq(Text) /\ Len(one) = 1 /\ one[1] = Chosen(x, k)
  <2>1. Chosen(x, k) \in Text
    BY <1>1
  <2> QED BY <2>1
<1>7. told \in Seq(Text) /\ Len(told) = m
  <2>1. \A i \in 1..m : told[i] \in Text
    BY <1>1, SeenIsText
  <2>2. DOMAIN told = 1..m /\ told = [i \in 1..m |-> told[i]]
    <3> HIDE DEF m
    <3> QED BY DEF m
  <2>3. m \in Nat
    BY <1>1
  <2> HIDE DEF m
  <2> QED BY <2>1, <2>2, <2>3, TextFunction DEF Text
<1>8. told = (low \o one) \o high
  <2>1. /\ \A i \in 1..(k - 1) : low[i] = Seen(x, i)
        /\ one[1] = Seen(x, k)
        /\ \A i \in 1..(m - k) : high[i] = Seen(x, k + i)
    <3>1. ASSUME NEW i \in 1..(k - 1) PROVE low[i] = Seen(x, i)
      <4>1. i <= x.conv.active
        BY <1>1
      <4>2. low[i] = Chosen(x, i)
        OBVIOUS
      <4> QED BY <4>1, <4>2 DEF Seen
    <3>2. one[1] = Seen(x, k)
      <4>1. x.conv.active <= x.conv.active
        BY <1>1
      <4> QED BY <1>6, <4>1 DEF Seen
    <3>3. ASSUME NEW i \in 1..(m - k) PROVE high[i] = Seen(x, k + i)
      <4>1. ~(k + i <= x.conv.active)
        BY <1>1
      <4>2. high[i] = rest[i].reading
        BY <1>3
      <4>3. rest[i] = x.anthy[k + i]
        BY <1>2
      <4>4. Seen(x, k + i) = x.anthy[k + i].reading
        BY <4>1 DEF Seen
      <4> QED BY <4>2, <4>3, <4>4
    <3> QED BY <3>1, <3>2, <3>3
  <2>2. \A i \in 1..m : told[i] = Seen(x, i)
    OBVIOUS
  <2>3. m \in Nat /\ k \in 1..m
    BY <1>1
  <2> HIDE DEF low, high, one, k, m
  <2> DEFINE all == (low \o one) \o high
  <2>4. /\ all \in Seq(Text) /\ Len(all) = m
        /\ \A i \in 1..(k - 1) : all[i] = low[i]
        /\ all[k] = one[1]
        /\ \A i \in 1..(m - k) : all[k + i] = high[i]
    <3> DEFINE T == Text
    <3>1. low \in Seq(T) /\ one \in Seq(T) /\ high \in Seq(T)
      BY <1>4, <1>5, <1>6
    <3> HIDE DEF T
    <3>2. /\ low \o one \in Seq(T) /\ Len(low \o one) = k
          /\ \A i \in 1..(k - 1) : (low \o one)[i] = low[i]
          /\ (low \o one)[k] = one[1]
      <4>1. Len(low) = k - 1 /\ Len(one) = 1 /\ k \in Nat \ {0}
        BY <1>4, <1>6, <2>3
      <4>2. /\ low \o one \in Seq(T) /\ Len(low \o one) = Len(low) + Len(one)
            /\ \A i \in 1..(Len(low) + Len(one)) :
                 (low \o one)[i] = IF i <= Len(low) THEN low[i] ELSE one[i - Len(low)]
        BY <3>1, ConcatProperties
      <4>3. k \in 1..(Len(low) + Len(one)) /\ ~(k <= Len(low)) /\ k - Len(low) = 1
        BY <4>1
      <4> DEFINE z == low \o one
      <4>4. /\ z \in Seq(T) /\ Len(z) = k
            /\ \A i \in 1..k : z[i] = IF i <= Len(low) THEN low[i] ELSE one[i - Len(low)]
        BY <4>1, <4>2
      <4> HIDE DEF z
      <4>5. \A i \in 1..(k - 1) : i \in 1..k /\ i <= Len(low)
        BY <4>1
      <4>6. (\A i \in 1..(k - 1) : z[i] = low[i]) /\ z[k] = one[1]
        BY <4>1, <4>3, <4>4, <4>5
      <4> QED BY <4>4, <4>6 DEF z
    <3>3. \A y \in Seq(T) : Len(y) = k =>
            /\ y \o high \in Seq(T) /\ Len(y \o high) = m
            /\ \A i \in 1..k : (y \o high)[i] = y[i]
            /\ \A i \in 1..(m - k) : (y \o high)[k + i] = high[i]
      <4>1. Len(high) = m - k /\ k \in Nat \ {0} /\ m \in Nat /\ k <= m
        BY <1>5, <2>3
      <4> SUFFICES ASSUME NEW y \in Seq(T), Len(y) = k
                   PROVE  /\ y \o high \in Seq(T) /\ Len(y \o high) = m
                          /\ \A i \in 1..k : (y \o high)[i] = y[i]
                          /\ \A i \in 1..(m - k) : (y \o high)[k + i] = high[i]
        OBVIOUS
      <4>2. /\ y \o high \in Seq(T) /\ Len(y \o high) = k + (m - k)
            /\ \A i \in 1..(k + (m - k)) :
                 (y \o high)[i] = IF i <= k THEN y[i] ELSE high[i - k]
        <5>1. /\ y \o high \in Seq(T) /\ Len(y \o high) = Len(y) + Len(high)
              /\ \A i \in 1..(Len(y) + Len(high)) :
                   (y \o high)[i] = IF i <= Len(y) THEN y[i] ELSE high[i - Len(y)]
          BY <3>1, ConcatProperties
        <5>2. Len(y) = k /\ Len(high) = m - k
          BY <4>1
        <5> QED BY <5>1, <5>2
      <4>3. \A i \in 1..(m - k) : /\ k + i \in 1..(k + (m - k)) /\ ~(k + i <= k)
                                  /\ (k + i) - k = i
        BY <4>1
      <4> QED BY <4>1, <4>2, <4>3
    <3> DEFINE z == low \o one
    <3>4. z \in Seq(T) /\ Len(z) = k /\ all = z \o high
      BY <3>2
    <3> HIDE DEF z
    <3>5. /\ all \in Seq(T) /\ Len(all) = m /\ \A i \in 1..k : all[i] = z[i]
          /\ \A i \in 1..(m - k) : all[k + i] = high[i]
      BY <3>3, <3>4
    <3> QED BY <2>3, <3>2, <3>5 DEF T, z
  <2> HIDE DEF all
  <2>5. ASSUME NEW i \in 1..m PROVE told[i] = all[i]
    <3>1. CASE i \in 1..(k - 1)
      BY <2>1, <2>2, <2>4, <3>1
    <3>2. CASE i = k
      BY <2>1, <2>2, <2>4, <3>2
    <3>3. CASE i > k
      <4>1. i - k \in 1..(m - k) /\ k + (i - k) = i
        BY <2>3, <3>3
      <4> QED BY <2>1, <2>2, <2>4, <4>1
    <3> QED BY <2>3, <3>1, <3>2, <3>3
  <2>6. told \in Seq(Text) /\ Len(told) = m
    BY <1>7
  <2>7. told = all
    BY <2>3, <2>4, <2>5, <2>6, SeqEqual
  <2> QED BY <2>7 DEF all
<1>9. FlattenSeq(told) = (FlattenSeq(low) \o FlattenSeq(one)) \o FlattenSeq(high)
  <2> HIDE DEF low, high, one, k, m
  <2>1. low \o one \in Seq(Seq(Scalar))
    BY <1>4, <1>6 DEF Text
  <2>2. low \in Seq(Seq(Scalar)) /\ one \in Seq(Seq(Scalar)) /\ high \in Seq(Seq(Scalar))
    BY <1>4, <1>5, <1>6 DEF Text
  <2>3. FlattenSeq(low \o one) = FlattenSeq(low) \o FlattenSeq(one)
    BY <2>2, FlattenConcat
  <2>4. FlattenSeq((low \o one) \o high) = FlattenSeq(low \o one) \o FlattenSeq(high)
    BY <2>1, <2>2, FlattenConcat
  <2> QED BY <1>8, <2>3, <2>4
<1>10. FlattenSeq(one) = Chosen(x, k)
  BY <1>1, FlattenOne DEF Text
<1>11. FlattenSeq(low) = SettledText(x) /\ FlattenSeq(high) = Readings(rest)
  BY DEF SettledText, Readings
<1>12. /\ x.model.settled = Texts(x.eager) \o SettledText(x)
       /\ x.model.active = Chosen(x, k) /\ x.model.tail = Readings(rest)
  BY <1>1 DEF ConversionShown, rest
<1>13. /\ Texts(x.eager) \in Text /\ SettledText(x) \in Text /\ Readings(rest) \in Text
  <2>1. x.eager \in Seq(Span)
    BY DEF CallState
  <2> QED BY <1>1, <1>2, <2>1, ChosenTexts, SpanReadings, TextsOf, ReadingsOf
<1> HIDE DEF low, high, one, k
<1> DEFINE a == Texts(x.eager) b == SettledText(x) c == Chosen(x, k) d == Readings(rest)
<1>14. a \in Text /\ b \in Text /\ c \in Text /\ d \in Text
  BY <1>1, <1>13
<1>15. Preedit(x.model) = ((a \o b) \o c) \o d
  BY <1>12 DEF Preedit
<1>16. FlattenSeq(told) = (b \o c) \o d
  BY <1>9, <1>10, <1>11
<1> HIDE DEF a, b, c, d
<1>17. ((a \o b) \o c) \o d = a \o ((b \o c) \o d)
  BY <1>14, ConcatAssociative DEF Text
<1> QED BY <1>15, <1>16, <1>17 DEF a

\* The step TaughtWhatWasCommitted allows.
TaughtAsCommitted ==
  /\ \A lesson \in lessons' : lesson[1] = 0 \/ conv.recorded[lesson[1]] = <<>>
  /\ conv.asked /\ ~conv'.asked /\ before' # before /\ lessons' # {} =>
       LET told(i) == IF conv.recorded[i] # <<>> THEN conv.recorded[i]
                      ELSE (CHOOSE lesson \in lessons' : lesson[1] = i)[2]
       IN before' = before \o Texts(eager)
                           \o FlattenSeq([i \in 1..conv.count |-> told(i)])

LEMMA NothingTaught ==
  ASSUME lessons' = {} PROVE TaughtAsCommitted
BY DEF TaughtAsCommitted

LEMMA ToldAsCommitted ==
  ASSUME NEW x \in CallState, Converting(x), x.conv.recorded = conv.recorded,
         x.conv.count = conv.count, x.eager = eager, Told(lessons', x),
         before \in Text, before' = before \o Preedit(x.model)
  PROVE  TaughtAsCommitted
<1> DEFINE told(i) == IF conv.recorded[i] # <<>> THEN conv.recorded[i]
                      ELSE (CHOOSE lesson \in lessons' : lesson[1] = i)[2]
           all == [i \in 1..conv.count |-> told(i)]
<1>1. \A lesson \in lessons' : conv.recorded[lesson[1]] = <<>>
  BY DEF Told
<1>2. ASSUME lessons' # {} PROVE before' = before \o Texts(eager) \o FlattenSeq(all)
  <2>1. \A i \in 1..conv.count : conv.recorded[i] # <<>> => conv.recorded[i] = Seen(x, i)
    <3>1. /\ Teaches(x) /\ x.conv.count = conv.count
      BY DEF Converting
    <3>2. x.conv.count \in Nat /\ x.conv.active \in Nat
      BY DEF CallState, Conversion
    <3>3. \A i \in 1..conv.count : conv.recorded[i] # <<>> =>
            i < x.conv.active /\ conv.recorded[i] = Chosen(x, i)
      BY <3>1 DEF Teaches
    <3>4. \A i \in 1..conv.count : i < x.conv.active => i <= x.conv.active
      BY <3>1, <3>2
    <3> QED BY <3>3, <3>4 DEF Seen
  <2>2. ASSUME NEW i \in 1..conv.count, conv.recorded[i] = <<>>
        PROVE  (CHOOSE lesson \in lessons' : lesson[1] = i)[2] = Seen(x, i)
    <3> DEFINE pick == CHOOSE lesson \in lessons' : lesson[1] = i
    <3>1. \E lesson \in lessons' : lesson[1] = i
      BY <1>2, <2>2 DEF Told
    <3>2. pick \in lessons' /\ pick[1] = i
      BY <3>1
    <3>3. \A lesson \in lessons' : lesson[2] = Seen(x, lesson[1])
      BY DEF Told
    <3> QED BY <3>2, <3>3
  <2>3. \A i \in 1..conv.count : told(i) = Seen(x, i)
    BY <2>1, <2>2
  <2> HIDE DEF told
  <2>4. all = [i \in 1..x.conv.count |-> all[i]] /\ \A i \in 1..x.conv.count : all[i] = Seen(x, i)
    BY <2>3
  <2> HIDE DEF all
  <2>5. Preedit(x.model) = Texts(eager) \o FlattenSeq(all)
    BY <2>4, SeenIsShown
  <2>6. Texts(eager) \in Text /\ FlattenSeq(all) \in Text
    <3>1. x.eager \in Seq(Span) /\ Chooses(x)
      BY DEF CallState, Converting
    <3>2. \A i \in 1..x.conv.count : all[i] \in Text
      BY <2>4, <3>1, SeenIsText
    <3>3. DOMAIN all = 1..x.conv.count /\ x.conv.count \in Nat
      <4>1. x.conv.count \in Nat
        BY DEF CallState, Conversion
      <4> QED BY <2>4, <4>1
    <3>4. all \in Seq(Seq(Scalar))
      BY <2>4, <3>2, <3>3, TextFunction
    <3> QED BY <3>1, <3>4, FlattenType, SpanReadings, TextsOf DEF Text
  <2> QED BY <2>5, <2>6, ConcatTexts
<1> HIDE DEF all, told
<1> QED BY <1>1, <1>2 DEF TaughtAsCommitted, all, told

\* Committing a conversion tells anthy of what is on screen.
LEMMA CommittedTells ==
  ASSUME AnthyInv, conv.asked, NEW st, Entered(st),
         lessons' = CommitConversion(st).lessons, before' = before \o Preedit(model)
  PROVE  TaughtAsCommitted
<1>1. /\ st \in CallState /\ Converting(st) /\ st.conv = conv /\ st.eager = eager
      /\ st.model = model /\ st.lessons = {} /\ before \in Text
  BY StillConverting DEF Entered, AnthyInv
<1>2. lessons' = {} \cup (IF st.options.learning
                         THEN {<<i, Seen(st, i)>> : i \in Untaught(st, st.conv.count)}
                         ELSE {})
  BY <1>1, CommitConversionIs
<1>3. Told(lessons', st)
  <2> DEFINE L == lessons'
             b == st.options.learning
             through == st.conv.count
  <2>1. L = LessonsOf(b, st, st, through)
    BY <1>2 DEF LessonsOf
  <2>2. ToldOf(LessonsOf(b, st, st, through), st, st, through)
    BY ToldIs
  <2> HIDE DEF L, b
  <2>3. ToldOf(L, st, st, through)
    BY <2>1, <2>2
  <2> QED BY <2>3 DEF Told, ToldOf, L
<1> QED BY <1>1, <1>3, ToldAsCommitted

LEMMA TypeKeyAfterKeeps ==
  ASSUME AnthyAnswers, AnthyInv, NEW key \in Keys, TypeKeyAfter(key)
  PROVE  AnthyInv' /\ before' = before \o OnScreen /\ TaughtAsCommitted
<1>1. PICK st \in Calls : Leave(RefreshEager(Typed(CommitConversion(st), key)), FALSE)
  BY DEF TypeKeyAfter
<1>2. UNCHANGED <<indeterminate, situation>> /\ conv.asked
  BY DEF TypeKeyAfter, Handled
<1>3. /\ Entered(st) /\ Sound(st) /\ st \in CallState /\ st.conv = conv
      /\ st.model = model /\ published.preedit = Preedit(model)
  BY CallsEnter DEF Entered, AnthyInv
<1>4. Converting(st)
  BY <1>2, <1>3, StillConverting
<1> DEFINE c == CommitConversion(st)
           x == Typed(c, key)
           y == RefreshEager(x)
<1>5. c \in CallState /\ c.out.commit = Preedit(model)
  BY <1>3, <1>4, CommitConversionIs DEF EndsWith
<1> HIDE DEF c
<1>6. Retyped(x) /\ x.out = c.out /\ x.lessons = c.lessons
  BY <1>5, TypedIs
<1>7. Leave(y, FALSE)
  BY <1>1 DEF c
<1> HIDE DEF x
<1>8. Sound(y) /\ ~y.conv.asked /\ y.out = c.out /\ y.lessons = c.lessons
  BY <1>6, RefreshedIs
<1> HIDE DEF y
<1>9. AnthyInv' /\ Leaves(y)
  BY <1>2, <1>7, <1>8, HandledKeeps
<1>10. before' = before \o Preedit(model) /\ lessons' = c.lessons
  BY <1>5, <1>8, <1>9 DEF Leaves, Delivered
<1>11. TaughtAsCommitted
  BY <1>2, <1>3, <1>10, CommittedTells DEF c
<1>12. OnScreen = Preedit(model)
  BY <1>2, <1>3 DEF OnScreen
<1> QED BY <1>9, <1>10, <1>11, <1>12

LEMMA EndTells ==
  ASSUME AnthyAnswers, AnthyInv, ~indeterminate, NEW st, Entered(st),
         Leave(Ended(st), FALSE), UNCHANGED <<indeterminate, situation>>
  PROVE  AnthyInv' /\ Over(OnScreen) /\ TaughtAsCommitted
<1>1. EndsWith(Ended(st), OnScreen) /\ (~conv.asked => Ended(st).lessons = {})
  BY EndedIs
<1>2. indeterminate \in BOOLEAN /\ published.preedit = Preedit(model)
      /\ st.conv = conv
  BY DEF AnthyInv, Entered
<1>3. AnthyInv' /\ Over(OnScreen) /\ lessons' = Ended(st).lessons
  <2> DEFINE y == Ended(st)
             text == OnScreen
  <2>1. EndsWith(y, text) /\ Leave(y, FALSE) /\ indeterminate' \in BOOLEAN
    BY <1>1, <1>2
  <2> HIDE DEF y, text
  <2>2. AnthyInv' /\ Over(text) /\ lessons' = y.lessons
    BY <2>1, EndKeeps
  <2> QED BY <2>2 DEF y, text
<1>4. CASE conv.asked
  <2>1. OnScreen = Preedit(model) /\ Ended(st) = CommitConversion(st)
    BY <1>2, <1>4 DEF OnScreen, Ended
  <2>2. before' = before \o Preedit(model)
    BY <1>3, <2>1 DEF Over
  <2>3. TaughtAsCommitted
    BY <1>3, <1>4, <2>1, <2>2, CommittedTells
  <2> QED BY <1>3, <2>3
<1>5. CASE ~conv.asked
  BY <1>1, <1>3, <1>5, NothingTaught
<1> QED BY <1>4, <1>5

LEMMA ReturnTells ==
  ASSUME AnthyAnswers, AnthyInv, Return
  PROVE  AnthyInv' /\ Over(OnScreen) /\ TaughtAsCommitted
<1>1. PICK st \in Calls : Leave(Ended(st), FALSE)
  BY DEF Return
<1>2. UNCHANGED <<indeterminate, situation>> /\ ~indeterminate /\ Entered(st)
  BY CallsEnter DEF Return, Handled, Able
<1> QED BY <1>1, <1>2, EndTells

LEMMA CommitTells ==
  ASSUME AnthyAnswers, AnthyInv, Commit
  PROVE  TaughtAsCommitted
<1>1. PICK st \in Calls : Leave(IF Empty THEN st ELSE Ended(st), FALSE)
  BY DEF Commit
<1>2. /\ UNCHANGED <<indeterminate, situation>> /\ ~indeterminate /\ Entered(st)
  BY CallsEnter DEF Commit, Handled, Able
<1>3. CASE Empty
  BY <1>3, CommitKeeps, NothingTaught DEF Still
<1>4. CASE ~Empty
  BY <1>1, <1>2, <1>4, EndTells
<1> QED BY <1>3, <1>4

\* What a call commits is no part of what it leaves on screen.
LEMMA CommittedIs ==
  ASSUME NEW st \in CallState, NEW text \in Text
  PROVE  LET y == [st EXCEPT !.out.commit = text]
         IN /\ y \in CallState /\ y.out.commit = text
            /\ (Sound(st) => Sound(y))
            /\ \A f \in {"model", "composer", "eager", "conv", "anthy", "record",
                         "options", "lessons"} : y[f] = st[f]
<1> DEFINE y == [st EXCEPT !.out.commit = text]
           out == [st.out EXCEPT !.commit = text]
<1>1. out \in Plainly /\ out.commit = text
  BY DEF CallState, Plainly
<1>2. y = [st EXCEPT !.out = out]
  BY DEF CallState, Plainly
<1> HIDE DEF y, out
<1>3. /\ y \in CallState /\ y.out.commit = text
      /\ \A f \in {"model", "composer", "eager", "conv", "anthy", "record",
                   "options", "lessons"} : y[f] = st[f]
  BY <1>1, <1>2 DEF CallState
<1>4. \A i : Chosen(y, i) = Chosen(st, i)
  BY <1>3 DEF Chosen, Fetch
<1>5. SettledText(y) = SettledText(st)
  BY <1>3, <1>4 DEF SettledText
<1>6. Typing(st) => Typing(y)
  BY <1>3 DEF Typing, KanaShown, HoldsNothing, Offers, OffersCurrent
<1>7. Converting(st) => Converting(y)
  <2>1. Chooses(st) => Chooses(y)
    BY <1>3 DEF Chooses
  <2>2. Teaches(st) => Teaches(y)
    BY <1>3, <1>4 DEF Teaches
  <2>3. ConversionShown(st) => ConversionShown(y)
    BY <1>3, <1>4, <1>5 DEF ConversionShown
  <2> QED BY <1>3, <2>1, <2>2, <2>3 DEF Converting
<1> QED BY <1>3, <1>6, <1>7 DEF Sound, y

LEMMA InsertSpaceKeeps ==
  ASSUME AnthyAnswers, AnthyInv, InsertSpace
  PROVE  AnthyInv' /\ before' = before \o OnScreen \o <<space>> /\ lessons' = {}
<1> DEFINE ended == IF eager = <<>> THEN Plain ELSE CommitKana(Plain)
           y == [ended EXCEPT !.out.commit = Append(@, space)]
<1>1. /\ Leave(y, FALSE) /\ UNCHANGED <<indeterminate, situation>>
      /\ composer = EmptyComposer
  BY DEF InsertSpace, Handled
<1>2. ~conv.asked /\ (eager = <<>> => OnScreen = <<>>)
  BY <1>1, NothingOnScreen
<1>3. Entered(Plain) /\ Sound(Plain) /\ before \in Text
      /\ Plain \in CallState /\ Plain.conv = conv /\ Plain.lessons = {}
      /\ Plain.out.commit = <<>>
  BY CallsEnter DEF Entered, AnthyInv
<1>4. /\ Sound(ended) /\ ~ended.conv.asked /\ ended.out.commit = OnScreen
      /\ ended.lessons = {} /\ OnScreen \in Text
  <2>1. CASE eager = <<>>
    <3>1. ended = Plain
      BY <2>1
    <3> HIDE DEF ended
    <3> QED BY <1>2, <1>3, <2>1, <3>1, EmptyText
  <2>2. CASE eager # <<>>
    <3>1. ended = Ended(Plain)
      BY <1>2, <1>3, <2>2 DEF Ended
    <3>2. EndsWith(Ended(Plain), OnScreen) /\ OnScreen \in Text /\ Ended(Plain).lessons = {}
      BY <1>2, <1>3, EndedIs
    <3> HIDE DEF ended
    <3> DEFINE e == Ended(Plain)
               text == OnScreen
    <3>3. EndsWith(e, text) /\ text \in Text /\ e.lessons = {} /\ ended = e
      BY <3>1, <3>2
    <3> HIDE DEF e, text
    <3>4. Sound(e) /\ ~e.conv.asked /\ e.out.commit = text
      BY <3>3, EndsSound
    <3> QED BY <3>3, <3>4 DEF text
  <2> QED BY <2>1, <2>2
<1> HIDE DEF ended
<1>5. Append(OnScreen, space) \in Text /\ Append(OnScreen, space) = OnScreen \o <<space>>
  <2>1. space \in Scalar
    BY AnthyAssumption
  <2> QED BY <1>4, <2>1 DEF Text
<1> DEFINE text == Append(OnScreen, space)
<1>6. y = [ended EXCEPT !.out.commit = text]
  <2>1. ended \in CallState
    BY <1>4 DEF Sound
  <2> QED BY <1>4, <2>1
<1> HIDE DEF y, text
<1>7. Sound(y) /\ y.out.commit = text /\ ~y.conv.asked /\ y.lessons = {}
  <2>1. ended \in CallState /\ text \in Text
    BY <1>4, <1>5 DEF Sound, text
  <2> QED BY <1>4, <1>6, <2>1, CommittedIs
<1>8. AnthyInv' /\ Leaves(y)
  BY <1>1, <1>7, HandledKeeps
<1>9. before' = before \o (OnScreen \o <<space>>)
  BY <1>5, <1>7, <1>8 DEF Leaves, Delivered, text
<1>10. <<space>> \in Text
  <2>1. space \in Scalar
    BY AnthyAssumption
  <2> QED BY <2>1 DEF Text
<1> QED BY <1>3, <1>4, <1>7, <1>8, <1>9, <1>10, ConcatTexts DEF Leaves

\* What a call may find when conversion has not been asked for.
LEMMA EnteredBegins ==
  ASSUME AnthyInv, ~conv.asked, composer # EmptyComposer, NEW st, Entered(st)
  PROVE  KanaShown(st) /\ BeginsWell(st) /\ Typing(st)
<1>1. Typing(st) /\ st \in CallState /\ st.composer = composer
      /\ st.model = model /\ st.options = options
  BY StillTyping DEF Entered
<1>2. model.candidates # <<>> => model.cursor < options.cap
  <2>1. options.cap \in Nat \ {0} /\ model.cursor \in Nat /\ Len(model.candidates) \in Nat
    <3>1. model \in Model /\ options \in Options
      BY <1>1 DEF CallState
    <3> QED BY <3>1 DEF Model, Options, Text
  <2> QED BY <2>1 DEF AnthyInv
<1>3. st.model.candidates = <<>> \/ (~situation.others => OffersCurrent(st))
  BY <1>1 DEF Typing, HoldsNothing
<1> QED BY <1>1, <1>2, <1>3 DEF BeginsWell, Typing

LEMMA BegunIs ==
  ASSUME AnthyAnswers, AnthyInv, ~conv.asked, composer # EmptyComposer,
         NEW st, Entered(st)
  PROVE  LET y == BeginConversion(st)
         IN /\ Sound(y) /\ (y.conv.asked => Pointed(y))
            /\ \A f \in {"out", "composer", "eager", "options", "lessons"} : y[f] = st[f]
<1> DEFINE y == BeginConversion(st)
<1>1. KanaShown(st) /\ BeginsWell(st) /\ Typing(st) /\ st \in CallState /\ ~st.conv.asked
      /\ st.composer # EmptyComposer
  BY EnteredBegins DEF Entered
<1>2. /\ y \in CallState
      /\ \A f \in {"out", "composer", "eager", "record", "options", "lessons"} :
           y[f] = st[f]
      /\ \/ y.conv.asked /\ Converting(y) /\ Pointed(y)
         \/ y.model = st.model /\ y.conv = st.conv /\ y.anthy = <<>>
  BY <1>1, BeginConversionIs
<1> HIDE DEF y
<1>3. ASSUME y.model = st.model, y.conv = st.conv, y.anthy = <<>> PROVE Typing(y)
  BY <1>1, <1>2, <1>3 DEF Typing, KanaShown, HoldsNothing, Offers, OffersCurrent
<1> QED BY <1>1, <1>2, <1>3 DEF Sound, y

\* A call that leaves the kana where it was.
KeepsReading == composer' = composer /\ eager' = eager

LEMMA ConvertKeeps ==
  ASSUME AnthyAnswers, AnthyInv, Convert
  PROVE  AnthyInv' /\ KeepsReading /\ lessons' = {}
<1>1. PICK st \in Calls :
        Leave(IF conv.asked THEN AdvanceCandidate(st) ELSE BeginConversion(st), FALSE)
  BY DEF Convert
<1>2. UNCHANGED <<indeterminate, situation>> /\ composer # EmptyComposer
  BY DEF Convert, Handled
<1>3. /\ Entered(st) /\ Sound(st) /\ st \in CallState /\ st.conv = conv
      /\ st.composer = composer /\ st.eager = eager /\ st.lessons = {}
  BY CallsEnter DEF Entered
<1> DEFINE y == IF conv.asked THEN AdvanceCandidate(st) ELSE BeginConversion(st)
<1>4. /\ Sound(y) /\ (y.conv.asked => Pointed(y))
      /\ \A f \in {"out", "composer", "eager", "options", "lessons"} : y[f] = st[f]
  <2>1. CASE conv.asked
    <3>1. Converting(st)
      BY <1>3, <2>1, StillConverting
    <3> DEFINE z == AdvanceCandidate(st)
    <3>2. /\ z \in CallState /\ Converting(z) /\ Pointed(z)
          /\ \A f \in {"out", "composer", "eager", "options", "lessons"} : z[f] = st[f]
      BY <1>3, <3>1, AdvanceCandidateIs
    <3>3. y = z
      BY <2>1
    <3> HIDE DEF y, z
    <3> QED BY <3>2, <3>3 DEF Sound
  <2>2. CASE ~conv.asked
    <3> DEFINE z == BeginConversion(st)
    <3>1. /\ Sound(z) /\ (z.conv.asked => Pointed(z))
          /\ \A f \in {"out", "composer", "eager", "options", "lessons"} : z[f] = st[f]
      BY <1>2, <1>3, <2>2, BegunIs
    <3>2. y = z
      BY <2>2
    <3> HIDE DEF y, z
    <3> QED BY <3>1, <3>2
  <2> QED BY <2>1, <2>2
<1>5. Leave(y, FALSE)
  BY <1>1
<1> HIDE DEF y
<1>6. AnthyInv' /\ Leaves(y)
  BY <1>2, <1>4, <1>5, HandledKeeps
<1> QED BY <1>3, <1>4, <1>6 DEF Leaves, KeepsReading

WholeKept == WholeReading(eager', composer') = WholeReading(eager, composer)

LEMMA KeptWhole == KeepsReading => WholeKept
BY DEF KeepsReading, WholeKept

LEMMA UnsettledIs ==
  ASSUME NEW st \in CallState
  PROVE  LET y == UnsettleAll(st)
         IN /\ y \in CallState /\ y.lessons = st.lessons /\ y.out = st.out
            /\ WholeReading(y.eager, y.composer) = WholeReading(st.eager, st.composer)
<1> DEFINE c == st.composer
           r == Readings(st.eager)
           d == [kana |-> r \o c.kana, pending |-> c.pending]
           y == UnsettleAll(st)
<1>1. c \in Composer /\ st.eager \in Seq(Span) /\ st.options \in Options
  BY DEF CallState
<1>2. r \in Text /\ c.kana \in Text /\ c.pending \in Seq(Keys) /\ <<>> \in Seq(Span)
  BY <1>1, SpanReadings, ReadingsOf DEF Composer
<1>3. d \in Composer
  BY <1>2, ConcatText DEF Composer
<1>4. y = Rewritten(st, <<>>, d)
  <2>1. [c EXCEPT !.kana = r \o @] = d
    <3> DEFINE a == r \o c.kana
    <3>1. c = [kana |-> c.kana, pending |-> c.pending]
      BY <1>1 DEF Composer
    <3> HIDE DEF a, c
    <3>2. [c EXCEPT !.kana = a] = [kana |-> a, pending |-> c.pending]
      BY <3>1
    <3> QED BY <3>2 DEF a
  <2> DEFINE e == [st EXCEPT !.eager = <<>>]
  <2>2. e.composer = c /\ y = [e EXCEPT !.composer.kana = r \o @]
    BY DEF UnsettleAll, CallState
  <2>3. y = [e EXCEPT !.composer = [e.composer EXCEPT !.kana = r \o @]]
    BY <2>2
  <2> HIDE DEF d, r, c, y
  <2>4. y = [e EXCEPT !.composer = d]
    BY <2>1, <2>2, <2>3
  <2> QED BY <2>4 DEF Rewritten
<1> DEFINE last == IF c.pending = <<n>> THEN <<hatsuon>> ELSE c.pending
<1>5. last \in Text
  <2>1. hatsuon \in Scalar
    BY RomajiAssumption
  <2>2. <<hatsuon>> \in Text
    BY <2>1 DEF Text
  <2> QED BY <1>2, <2>2, KeysAreText
<1>6. FinishedKana(c) = c.kana \o last /\ FinishedKana(d) = (r \o c.kana) \o last
  BY DEF FinishedKana
<1> HIDE DEF y, d, r, last
<1>7. /\ y \in CallState /\ y.composer = d /\ y.eager = <<>> /\ y.out = st.out
      /\ y.lessons = st.lessons
  BY <1>2, <1>3, <1>4, RewrittenIs
<1>8. WholeReading(y.eager, y.composer) = FinishedKana(d)
  <2>1. FinishedKana(d) \in Text
    BY <1>1, <1>3, Buffer
  <2> QED BY <1>7, <2>1, EmptySpans, ConcatText DEF WholeReading
<1>9. (r \o c.kana) \o last = r \o (c.kana \o last)
  BY <1>2, <1>5, ConcatTexts
<1> QED BY <1>6, <1>7, <1>8, <1>9 DEF WholeReading, y, r

LEMMA CancelledIs ==
  ASSUME AnthyAnswers, NEW st \in CallState
  PROVE  LET y == CancelConversion(st)
         IN /\ Sound(y) /\ ~y.conv.asked
            /\ y.composer = st.composer /\ y.eager = st.eager /\ y.lessons = st.lessons
<1> DEFINE y == CancelConversion(st)
<1>1. /\ y \in CallState /\ Typing(y) /\ ~y.conv.asked
      /\ \A f \in {"out", "composer", "eager", "record", "options", "lessons"} :
           y[f] = st[f]
  BY CancelIs
<1> HIDE DEF y
<1> QED BY <1>1 DEF Sound, y

LEMMA ShownAgainIs ==
  ASSUME AnthyAnswers, NEW st \in CallState
  PROVE  LET y == RefreshEager(ShowKana(st))
         IN /\ Sound(y) /\ ~y.conv.asked
            /\ y.composer = st.composer /\ y.eager = st.eager /\ y.lessons = st.lessons
<1> DEFINE y == RefreshEager(ShowKana(st))
<1>1. /\ y \in CallState /\ Typing(y) /\ ~y.conv.asked
      /\ \A f \in {"out", "composer", "eager", "record", "options",
                   "lessons", "up", "taught"} : y[f] = st[f]
  BY RetypedIs
<1> HIDE DEF y
<1> QED BY <1>1 DEF Sound, y

LEMMA EscapeKeeps ==
  ASSUME AnthyAnswers, AnthyInv, Escape
  PROVE  /\ AnthyInv' /\ lessons' = {}
         /\ WholeKept \/ (composer' = EmptyComposer /\ eager' = <<>>)
<1> DEFINE Z(st) == IF conv.asked THEN CancelConversion(st)
                    ELSE IF eager # <<>> THEN RefreshEager(ShowKana(UnsettleAll(st)))
                    ELSE Forget(Emptied(st))
<1>1. PICK st \in Calls : Leave(Z(st), FALSE)
  BY DEF Escape
<1>2. UNCHANGED <<indeterminate, situation>>
  BY DEF Escape, Handled
<1>3. /\ st \in CallState /\ st.composer = composer /\ st.eager = eager
      /\ st.lessons = {} /\ st.out.commit = <<>>
  BY CallsEnter DEF Entered
<1> DEFINE y == Z(st)
<1>4. /\ Sound(y) /\ ~y.conv.asked /\ y.lessons = {}
      /\ \/ WholeReading(y.eager, y.composer) = WholeReading(eager, composer)
         \/ y.composer = EmptyComposer /\ y.eager = <<>>
  <2>1. CASE conv.asked
    <3> DEFINE z == CancelConversion(st)
    <3>1. /\ Sound(z) /\ ~z.conv.asked
          /\ z.composer = st.composer /\ z.eager = st.eager /\ z.lessons = st.lessons
      BY <1>3, CancelledIs
    <3>2. y = z
      BY <2>1
    <3> HIDE DEF y, z
    <3> QED BY <1>3, <3>1, <3>2
  <2>2. CASE ~conv.asked /\ eager # <<>>
    <3> DEFINE x == UnsettleAll(st)
               z == RefreshEager(ShowKana(x))
    <3>1. /\ x \in CallState /\ x.lessons = st.lessons
          /\ WholeReading(x.eager, x.composer) = WholeReading(st.eager, st.composer)
      BY <1>3, UnsettledIs
    <3>2. y = z
      BY <2>2
    <3> HIDE DEF y, x
    <3>3. /\ Sound(z) /\ ~z.conv.asked
          /\ z.composer = x.composer /\ z.eager = x.eager /\ z.lessons = x.lessons
      BY <3>1, ShownAgainIs
    <3> HIDE DEF z
    <3> QED BY <1>3, <3>1, <3>2, <3>3
  <2>3. CASE ~conv.asked /\ eager = <<>>
    <3> DEFINE z == Forget(Emptied(st))
    <3>1. EndsWith(z, <<>>) /\ z.lessons = {}
      BY <1>3, EmptiedIs DEF EndsWith
    <3>2. y = z
      BY <2>3
    <3> HIDE DEF y, z
    <3>3. Sound(z) /\ ~z.conv.asked /\ z.composer = EmptyComposer /\ z.eager = <<>>
      BY <3>1, EndsSound DEF EndsWith
    <3> QED BY <3>1, <3>2, <3>3
  <2> QED BY <2>1, <2>2, <2>3
<1>5. Leave(y, FALSE)
  BY <1>1
<1> HIDE DEF y, Z
<1>6. AnthyInv' /\ Leaves(y)
  BY <1>2, <1>4, <1>5, HandledKeeps
<1> QED BY <1>4, <1>6 DEF Leaves, WholeKept

LEMMA ErasedIs ==
  ASSUME NEW c \in Composer PROVE Backspace(c) \in Composer
<1>1. c.kana \in Text /\ c.pending \in Seq(Keys)
  BY DEF Composer
<1>2. ASSUME NEW S, NEW s \in Seq(S) PROVE Front(s) \in Seq(S)
  <2>1. Len(s) \in Nat /\ \A i \in 1..(Len(s) - 1) : s[i] \in S
    OBVIOUS
  <2> QED BY <2>1, SubSeqProperties DEF Front
<1>3. /\ c.pending # <<>> => Front(c.pending) \in Seq(Keys)
      /\ c.kana # <<>> => Front(c.kana) \in Text
  BY <1>1, <1>2 DEF Text
<1> QED BY <1>1, <1>3 DEF Backspace, Composer

LEMMA BackspaceKeyKeeps ==
  ASSUME AnthyAnswers, AnthyInv, BackspaceKey
  PROVE  /\ AnthyInv' /\ lessons' = {}
         /\ conv.asked \/ composer = EmptyComposer => WholeKept
<1> DEFINE E(st) == [st EXCEPT !.composer = Backspace(@)]
           last == [kana |-> Last(eager).reading, pending |-> <<>>]
           L(st) == [st EXCEPT !.eager = Front(@), !.composer = last]
           Z(st) == IF conv.asked THEN CancelConversion(st)
                    ELSE IF composer # EmptyComposer THEN RefreshEager(ShowKana(E(st)))
                    ELSE RefreshEager(ShowKana(L(st)))
<1>1. PICK st \in Calls : Leave(Z(st), FALSE)
  BY DEF BackspaceKey
<1>2. UNCHANGED <<indeterminate, situation>> /\ ~Empty
  BY DEF BackspaceKey, Handled
<1>3. /\ st \in CallState /\ st.composer = composer /\ st.eager = eager
      /\ st.lessons = {} /\ st.out.commit = <<>>
      /\ composer \in Composer /\ eager \in Seq(Span) /\ st.options \in Options
  <2>1. \A z \in CallState : z.composer \in Composer /\ z.eager \in Seq(Span)
                             /\ z.options \in Options
    BY DEF CallState
  <2> QED BY <2>1, CallsEnter DEF Entered
<1> DEFINE y == Z(st)
<1>4. /\ Sound(y) /\ ~y.conv.asked /\ y.lessons = {}
      /\ conv.asked \/ composer = EmptyComposer =>
           WholeReading(y.eager, y.composer) = WholeReading(eager, composer)
  <2>1. CASE conv.asked
    <3> DEFINE z == CancelConversion(st)
    <3>1. /\ Sound(z) /\ ~z.conv.asked
          /\ z.composer = st.composer /\ z.eager = st.eager /\ z.lessons = st.lessons
      BY <1>3, CancelledIs
    <3>2. y = z
      BY <2>1
    <3> HIDE DEF y, z
    <3> QED BY <1>3, <3>1, <3>2
  <2>2. CASE ~conv.asked /\ composer # EmptyComposer
    <3> DEFINE c == Backspace(st.composer)
               x == [st EXCEPT !.composer = c]
               z == RefreshEager(ShowKana(x))
    <3>1. c \in Composer
      BY <1>3, ErasedIs
    <3>2. y = z
      BY <2>2
    <3> HIDE DEF y, c
    <3>3. x \in CallState /\ x.lessons = st.lessons
      BY <1>3, <3>1, RewrittenIs
    <3> HIDE DEF x
    <3>4. Sound(z) /\ ~z.conv.asked /\ z.lessons = x.lessons
      BY <3>3, ShownAgainIs
    <3> HIDE DEF z
    <3> QED BY <1>3, <2>2, <3>2, <3>3, <3>4
  <2>3. CASE ~conv.asked /\ composer = EmptyComposer
    <3> DEFINE e == Front(eager)
               x == Rewritten(st, e, last)
               z == RefreshEager(ShowKana(x))
    <3>1. eager # <<>>
      BY <1>2, <2>3 DEF Empty
    <3>2. /\ e \in Seq(Span) /\ Last(eager) \in Span
          /\ Readings(eager) = Readings(e) \o Last(eager).reading
      BY <1>3, <3>1, LastSpan
    <3>3. Last(eager).reading \in Text
      BY <3>2, SpanReadings
    <3>4. last \in Composer
      <4>1. <<>> \in Seq(Keys)
        OBVIOUS
      <4> QED BY <3>3, <4>1 DEF Composer
    <3>5. FinishedKana(last) = Last(eager).reading
      <4>1. last.pending = <<>> /\ <<>> # <<n>> /\ last.kana = Last(eager).reading
        OBVIOUS
      <4> QED BY <3>3, <4>1, ConcatText DEF FinishedKana
    <3>6. y = z
      BY <1>3, <2>3 DEF Rewritten
    <3> HIDE DEF y, e, last
    <3>7. x \in CallState /\ x.lessons = st.lessons /\ x.composer = last /\ x.eager = e
      <4>1. st \in CallState /\ e \in Seq(Span) /\ last \in Composer
        BY <1>3, <3>2, <3>4
      <4> QED BY <4>1, RewrittenIs
    <3> HIDE DEF x
    <3>8. /\ Sound(z) /\ ~z.conv.asked
          /\ z.composer = x.composer /\ z.eager = x.eager /\ z.lessons = x.lessons
      BY <3>7, ShownAgainIs
    <3> HIDE DEF z
    <3>9. WholeReading(e, last) = WholeReading(eager, composer)
      <4>1. FinishedKana(EmptyComposer) = <<>>
        BY <1>3, EmptyBuffer
      <4>2. Readings(eager) \in Text
        BY <1>3, SpanReadings, ReadingsOf
      <4> QED BY <2>3, <3>2, <3>5, <4>1, <4>2, ConcatText DEF WholeReading
    <3> QED BY <1>3, <3>6, <3>7, <3>8, <3>9
  <2> QED BY <2>1, <2>2, <2>3
<1>5. Leave(y, FALSE)
  BY <1>1
<1> HIDE DEF y, Z
<1>6. AnthyInv' /\ Leaves(y)
  BY <1>2, <1>4, <1>5, HandledKeeps
<1> QED BY <1>4, <1>6 DEF Leaves, WholeKept

\* A candidate anthy can fetch for the active segment is one of its list.
LEMMA FetchableIs ==
  ASSUME AnthyInv, NEW k \in Nat
  PROVE  LET whole == anthy[conv.active].candidates
         IN Fetchable([anthy |-> anthy], conv.active, k) =>
              /\ anthy # <<>> /\ conv.active \in 1..Len(anthy)
              /\ whole \in Seq(Text) /\ k < Len(whole) /\ whole[k + 1] \in Text
<1>1. anthy \in Seq(Segment)
  <2>1. Plain \in CallState /\ Plain.anthy = anthy
    BY CallsEnter DEF Entered
  <2> QED BY <2>1 DEF CallState
<1> SUFFICES ASSUME Fetchable([anthy |-> anthy], conv.active, k)
             PROVE  LET whole == anthy[conv.active].candidates
                    IN /\ anthy # <<>> /\ conv.active \in 1..Len(anthy)
                       /\ whole \in Seq(Text) /\ k < Len(whole)
                       /\ whole[k + 1] \in Text
  OBVIOUS
<1>2. /\ conv.active \in 1..Len(anthy)
      /\ k + 1 \in DOMAIN anthy[conv.active].candidates
  BY <1>1 DEF Fetchable
<1>3. anthy[conv.active].candidates \in Seq(Text)
  BY <1>1, <1>2, Segments
<1>4. anthy # <<>>
  BY <1>1, <1>2
<1> DEFINE whole == anthy[conv.active].candidates
<1> HIDE DEF whole
<1>5. whole \in Seq(Text) /\ k + 1 \in DOMAIN whole
  BY <1>2, <1>3 DEF whole
<1>6. k < Len(whole) /\ whole[k + 1] \in Text
  BY <1>5
<1> QED BY <1>2, <1>4, <1>5, <1>6 DEF whole

\* The cursor and the list are within the cap.
LEMMA ListIs ==
  ASSUME AnthyInv
  PROVE  /\ model \in Model /\ model.cursor \in Nat /\ Len(model.candidates) \in Nat
         /\ options \in Options /\ options.cap \in Nat \ {0}
         /\ Len(model.candidates) <= options.cap /\ record \in Records
         /\ conv \in Conversion /\ [model EXCEPT !.cursor = model.cursor] = model
<1>1. /\ Plain \in CallState /\ Plain.model = model /\ Plain.options = options
      /\ Plain.conv = conv
      /\ Plain.record = record
  BY CallsEnter DEF AnthyInv, Sound, Plain, Enter
<1>2. model \in Model /\ options \in Options /\ record \in Records /\ conv \in Conversion
  BY <1>1 DEF CallState
<1>3. model.cursor \in Nat /\ Len(model.candidates) \in Nat
  BY <1>2 DEF Model, Text
<1>4. options.cap \in Nat \ {0}
  BY <1>2 DEF Options
<1>5. [model EXCEPT !.cursor = model.cursor] = model
  BY <1>2 DEF Model
<1> QED BY <1>2, <1>3, <1>4, <1>5 DEF AnthyInv

\* A call the adapter fails keeps the invariant.
LEMMA AbortKeeps ==
  ASSUME AnthyInv, NEW cursor \in Nat, Abort(cursor),
         cursor = 0 \/ cursor < Len(model.candidates)
  PROVE  /\ AnthyInv' /\ KeepsReading /\ lessons' = {} /\ before' = before
         /\ published' = published
<1>1. /\ model' = [model EXCEPT !.cursor = cursor] /\ indeterminate' = TRUE
      /\ lessons' = {}
      /\ UNCHANGED <<published, before, composer, eager, conv, anthy, record, options,
                     situation>>
  BY DEF Abort
<1>2. record' \in Records /\ before' \in Text
  BY <1>1, ListIs DEF AnthyInv
<1>3. AnthyInv'
  BY <1>1, <1>2, FrameKeeps
<1> QED BY <1>1, <1>3 DEF KeepsReading

\* The highlight moves alone.
LEMMA BrowsedIs ==
  ASSUME NEW st, Sound(st), ~st.conv.asked, NEW k \in Nat
  PROVE  LET y == Browse(st, k)
         IN /\ Sound(y) /\ ~y.conv.asked
            /\ \A f \in {"out", "composer", "eager", "lessons"} : y[f] = st[f]
<1> DEFINE m == [st.model EXCEPT !.cursor = k]
           y == Browse(st, k)
<1>1. st \in CallState /\ st.model \in Model /\ Typing(st)
  BY StillTyping DEF Sound, CallState
<1>2. /\ m \in Model /\ m.settled = st.model.settled /\ m.active = st.model.active
      /\ m.tail = st.model.tail /\ m.candidates = st.model.candidates
  BY <1>1 DEF Model
<1>3. y = [st EXCEPT !.model = m]
  BY <1>1 DEF Browse, CallState
<1> HIDE DEF y, m
<1>4. /\ y \in CallState /\ y.model = m
      /\ \A f \in {"out", "composer", "eager", "conv", "anthy", "record", "options",
                   "lessons"} : y[f] = st[f]
  BY <1>1, <1>2, <1>3 DEF CallState
<1>5. Typing(y)
  BY <1>1, <1>2, <1>4 DEF Typing, KanaShown, HoldsNothing, Offers, OffersCurrent
<1> QED BY <1>4, <1>5 DEF Sound, y

LEMMA MoveCursorKeeps ==
  ASSUME AnthyAnswers, AnthyInv, MoveCursor
  PROVE  AnthyInv' /\ KeepsReading /\ lessons' = {}
<1>1. PICK k \in 0..(Len(model.candidates) - 1) :
        \/ ~conv.asked /\ Leave(Browse(Plain, k), FALSE) /\ Handled
        \/ /\ conv.asked /\ Fetchable([anthy |-> anthy], conv.active, k)
           /\ Leave(ShowCandidate(Plain, k), FALSE) /\ Handled
        \/ Abort(model.cursor)
  BY DEF MoveCursor
<1>2. /\ Entered(Plain) /\ Sound(Plain) /\ Plain \in CallState
      /\ Plain.conv = conv /\ Plain.composer = composer /\ Plain.eager = eager
      /\ Plain.anthy = anthy /\ Plain.options = options /\ Plain.lessons = {}
  BY CallsEnter DEF Entered
<1>3. k \in Nat /\ k < Len(model.candidates) /\ k < options.cap
  BY ListIs
<1>4. Handled => UNCHANGED <<indeterminate, situation>>
  BY DEF Handled
<1>5. ASSUME ~conv.asked, Leave(Browse(Plain, k), FALSE), Handled
      PROVE  AnthyInv' /\ KeepsReading /\ lessons' = {}
  <2> DEFINE y == Browse(Plain, k)
  <2>1. /\ Sound(y) /\ ~y.conv.asked
        /\ \A f \in {"out", "composer", "eager", "lessons"} : y[f] = Plain[f]
    BY <1>2, <1>3, <1>5, BrowsedIs
  <2>2. Leave(y, FALSE)
    BY <1>5
  <2> HIDE DEF y
  <2>3. AnthyInv' /\ Leaves(y)
    BY <1>4, <1>5, <2>1, <2>2, HandledKeeps
  <2> QED BY <1>2, <2>1, <2>3 DEF Leaves, KeepsReading
<1>6. ASSUME conv.asked, Fetchable([anthy |-> anthy], conv.active, k),
             Leave(ShowCandidate(Plain, k), FALSE), Handled
      PROVE  AnthyInv' /\ KeepsReading /\ lessons' = {}
  <2> DEFINE y == ShowCandidate(Plain, k)
             st == Plain
  <2>1. k < Len(st.anthy[st.conv.active].candidates) /\ k < st.options.cap
    BY <1>2, <1>3, <1>6, FetchableIs
  <2>2. Leave(y, FALSE)
    BY <1>6
  <2>3. Converting(st) /\ st \in CallState
    BY <1>2, <1>6, StillConverting
  <2>4. /\ st.composer = composer /\ st.eager = eager /\ st.lessons = {}
    BY <1>2
  <2>5. y = ShowCandidate(st, k)
    OBVIOUS
  <2> HIDE DEF y, st
  <2>6. /\ y \in CallState /\ Converting(y) /\ Pointed(y)
        /\ \A f \in {"out", "composer", "eager", "anthy", "record", "options",
                     "lessons", "up", "taught"} : y[f] = st[f]
    BY <1>3, <2>1, <2>3, <2>5, ShowCandidateIs
  <2>7. AnthyInv' /\ Leaves(y)
    BY <1>4, <1>6, <2>2, <2>6, HandledKeeps DEF Sound
  <2> QED BY <2>4, <2>6, <2>7 DEF Leaves, KeepsReading
<1>7. ASSUME Abort(model.cursor) PROVE AnthyInv' /\ KeepsReading /\ lessons' = {}
  <2>1. model.cursor \in Nat /\ (model.cursor = 0 \/ model.cursor < Len(model.candidates))
    BY ListIs DEF AnthyInv
  <2> QED BY <1>7, <2>1, AbortKeeps
<1> QED BY <1>1, <1>5, <1>6, <1>7

\* What selecting a candidate does to the composition, its text settled.
SettledOn(text) ==
  /\ WholeKept \/ (composer' = EmptyComposer /\ eager' = <<>>)
  /\ model'.settled = model.settled \o text \/ before' = before \o (model.settled \o text)

LEMMA SelectConvertedKeeps ==
  ASSUME AnthyAnswers, AnthyInv, conv.asked, NEW st, Entered(st),
         NEW k \in Nat, k < Len(st.anthy[st.conv.active].candidates), k < st.options.cap,
         Leave(SelectConverted(st, k), FALSE), UNCHANGED <<indeterminate, situation>>
  PROVE  AnthyInv' /\ TaughtAsCommitted /\ SettledOn(st.anthy[st.conv.active].candidates[k + 1])
<1> DEFINE text == st.anthy[st.conv.active].candidates[k + 1]
           y == SelectConverted(st, k)
           x == ShowCandidate(st, k)
<1>1. /\ st \in CallState /\ Converting(st) /\ st.conv = conv /\ st.eager = eager
      /\ st.composer = composer /\ st.model = model /\ st.lessons = {}
      /\ st.out.commit = <<>> /\ before \in Text
  BY StillConverting DEF Entered, AnthyInv
<1>2. /\ SelectsText(st, y, text)
      /\ y.lessons = st.lessons
           \cup (IF st.options.learning
                 THEN {<<i, Seen(x, i)>> : i \in Untaught(st, st.conv.active)}
                 ELSE {})
  BY <1>1, SelectConvertedIs
<1> DEFINE b == st.options.learning
           through == st.conv.active
<1>3. y.lessons = LessonsOf(b, st, x, through)
  BY <1>1, <1>2 DEF LessonsOf
<1>4. ToldOf(LessonsOf(b, st, x, through), st, x, through)
  BY ToldIs
<1>5. /\ x \in CallState /\ Converting(x)
      /\ x.eager = st.eager
      /\ x.conv.count = st.conv.count /\ x.conv.recorded = st.conv.recorded
      /\ x.conv.active = st.conv.active /\ x.anthy = st.anthy
      /\ x.model.settled = st.model.settled /\ x.model.tail = st.model.tail
      /\ x.model.active = text
  BY <1>1, ShowCandidateIs
<1>6. Leave(y, FALSE)
  OBVIOUS
<1> HIDE DEF y, x, b, text
<1>7. Sound(y) /\ (y.conv.asked => Pointed(y))
  <2>1. CASE st.conv.active = st.conv.count
    <3>1. y \in CallState /\ KanaShown(y) /\ HoldsNothing(y)
      BY <1>2, <2>1 DEF SelectsText
    <3>2. ~y.conv.asked
      BY <3>1 DEF HoldsNothing, NoConversion
    <3> QED BY <3>1, <3>2 DEF Sound, Typing
  <2>2. CASE st.conv.active # st.conv.count
    BY <1>2, <2>2 DEF SelectsText, Sound
  <2> QED BY <2>1, <2>2
<1>8. AnthyInv' /\ Leaves(y)
  BY <1>6, <1>7, HandledKeeps
<1>9. ToldOf(lessons', st, x, through)
  BY <1>3, <1>4, <1>8 DEF Leaves
<1>10. CASE st.conv.active = st.conv.count
  <2>1. /\ y.composer = EmptyComposer /\ y.eager = <<>>
        /\ y.out.commit = st.model.settled \o text
    BY <1>2, <1>10 DEF SelectsText
  <2>2. before' = before \o (model.settled \o text)
    BY <1>1, <1>8, <2>1 DEF Leaves, Delivered
  <2>3. Preedit(x.model) = st.model.settled \o text
    <3>1. x.model.tail = <<>>
      <4>1. /\ x.model.tail = Readings(SubSeq(x.anthy, x.conv.active + 1, x.conv.count))
            /\ Chooses(x)
        BY <1>5 DEF Converting, ConversionShown
      <4>2. /\ x.conv.count \in Nat
        BY <1>5 DEF CallState, Conversion
      <4>3. SubSeq(x.anthy, x.conv.active + 1, x.conv.count) = <<>>
        BY <1>5, <1>10, <4>2, SubSeqEmpty
      <4> QED BY <4>1, <4>3, EmptySpans
    <3>2. st.model.settled \o text \in Text
      <4>1. y.out \in Plainly
        BY <1>2 DEF SelectsText, CallState
      <4> QED BY <2>1, <4>1 DEF Plainly
    <3> QED BY <1>5, <3>1, <3>2, ConcatText DEF Preedit
  <2>4. Told(lessons', x)
    BY <1>5, <1>9, <1>10 DEF Told, ToldOf
  <2>5. TaughtAsCommitted
    <3>1. before' = before \o Preedit(x.model)
      BY <1>1, <2>2, <2>3
    <3> QED BY <1>1, <1>5, <2>4, <3>1, ToldAsCommitted
  <2> QED BY <1>8, <2>1, <2>2, <2>5 DEF SettledOn, Leaves, text
<1>11. CASE st.conv.active # st.conv.count
  <2>1. /\ Converting(y) /\ y.composer = st.composer /\ y.eager = st.eager
        /\ y.model.settled = st.model.settled \o text
    BY <1>2, <1>11 DEF SelectsText
  <2>2. conv'.asked
    BY <1>8, <2>1 DEF Leaves, Converting, Chooses
  <2>3. TaughtAsCommitted
    BY <1>1, <1>9, <2>2 DEF TaughtAsCommitted, ToldOf
  <2>4. WholeKept
    BY <1>1, <1>8, <2>1, KeptWhole DEF Leaves, KeepsReading
  <2>5. model'.settled = model.settled \o text
    BY <1>1, <1>8, <2>1 DEF Leaves, Delivered
  <2> QED BY <1>8, <2>3, <2>4, <2>5 DEF SettledOn, text
<1> QED BY <1>10, <1>11

LEMMA SelectFromEagerKeeps ==
  ASSUME AnthyAnswers, AnthyInv, ~conv.asked, NEW st, Entered(st), st.anthy # <<>>,
         NEW k \in Nat, k < Len(st.anthy[1].candidates),
         Leave(SelectFromEager(st, k), FALSE), UNCHANGED <<indeterminate, situation>>
  PROVE  AnthyInv' /\ TaughtAsCommitted /\ SettledOn(st.anthy[1].candidates[k + 1])
<1> DEFINE text == st.anthy[1].candidates[k + 1]
           rest == Readings(SubSeq(st.anthy, 2, st.conv.count))
           y == SelectFromEager(st, k)
<1>1. /\ st \in CallState /\ Typing(st) /\ st.conv = conv /\ st.eager = eager
      /\ st.composer = composer /\ st.model = model /\ st.lessons = {}
      /\ st.out.commit = <<>> /\ before \in Text
  BY StillTyping DEF Entered, AnthyInv
<1>2. KanaShown(st) /\ Offers(st)
  BY <1>1 DEF Typing, HoldsNothing
<1>3. /\ st.anthy \in Seq(Segment) /\ st.eager \in Seq(Span) /\ st.composer \in Composer
      /\ st.options \in Options
  BY <1>1 DEF CallState
<1>4. Len(st.anthy) = st.conv.count /\ Readings(st.anthy) = FinishedKana(st.composer)
  BY <1>2 DEF Offers
<1>5. rest \in Text /\ Readings(st.anthy) = st.anthy[1].reading \o rest
  BY <1>3, <1>4, FirstSegment
<1>6. y = SelectFirst(st, k, rest)
  BY DEF SelectFromEager
<1> HIDE DEF rest, y
<1>7. SelectsFirst(st, y, text, rest)
  BY <1>1, <1>5, <1>6, SelectFirstIs
<1>8. Texts(st.eager) = model.settled
  BY <1>1, <1>2 DEF KanaShown
<1>9. Leave(y, FALSE)
  BY DEF y
<1>10. 1 \in 1..Len(st.anthy)
  BY <1>3, EmptySeq
<1>11. /\ text \in Text /\ st.anthy[1].reading \in Text
  BY <1>3, <1>10, Segments
<1> HIDE DEF text
<1>12. Sound(y) /\ ~y.conv.asked
  <2>1. CASE rest = <<>>
    <3> DEFINE done == Texts(st.eager) \o text
    <3>1. EndsWith(y, done)
      <4>1. ~(rest # <<>>)
        BY <2>1
      <4> QED BY <1>7, <4>1 DEF SelectsFirst
    <3> HIDE DEF done
    <3> QED BY <3>1, EndsSound
  <2>2. CASE rest # <<>>
    BY <1>7, <2>2 DEF SelectsFirst, Sound
  <2> QED BY <2>1, <2>2
<1>13. AnthyInv' /\ Leaves(y)
  BY <1>9, <1>12, HandledKeeps
<1>14. TaughtAsCommitted
  <2>1. \A lesson \in lessons' : lesson[1] = 0
    BY <1>1, <1>7, <1>13 DEF Leaves, SelectsFirst
  <2> QED BY <2>1 DEF TaughtAsCommitted
<1>15. CASE rest = <<>>
  <2>1. EndsWith(y, Texts(st.eager) \o text)
    <3>1. ~(rest # <<>>)
      BY <1>15
    <3> QED BY <1>7, <3>1 DEF SelectsFirst
  <2>2. y.composer = EmptyComposer /\ y.eager = <<>> /\ y.out.commit = model.settled \o text
    BY <1>8, <2>1 DEF EndsWith
  <2> QED BY <1>13, <1>14, <2>2 DEF Leaves, Delivered, SettledOn, text
<1>16. CASE rest # <<>>
  <2> DEFINE span == [text |-> text, reading |-> st.anthy[1].reading]
             c == [kana |-> rest, pending |-> <<>>]
  <2>1. /\ y.model.settled = model.settled \o text /\ y.composer = c
        /\ y.eager = Append(st.eager, span)
    BY <1>7, <1>8, <1>16 DEF SelectsFirst
  <2>2. span \in Span /\ span.reading = st.anthy[1].reading
    BY <1>11 DEF Span
  <2>3. FinishedKana(c) = rest
    <3>1. c.pending = <<>> /\ <<>> # <<n>> /\ c.kana = rest
      OBVIOUS
    <3> QED BY <1>5, <3>1, ConcatText DEF FinishedKana
  <2> HIDE DEF span, c
  <2>4. /\ Readings(y.eager) = Readings(st.eager) \o st.anthy[1].reading
        /\ Readings(st.eager) \in Text
    BY <1>3, <2>1, <2>2, AppendSpan
  <2> DEFINE a == Readings(st.eager)  r == st.anthy[1].reading
  <2>5. a \in Text /\ r \in Text /\ rest \in Text /\ Readings(y.eager) = a \o r
    BY <1>5, <1>11, <2>4
  <2>6. WholeReading(y.eager, y.composer) = (a \o r) \o rest
    BY <2>1, <2>3, <2>5 DEF WholeReading
  <2>7. WholeReading(st.eager, st.composer) = a \o (r \o rest)
    BY <1>4, <1>5 DEF WholeReading
  <2> HIDE DEF a, r
  <2>8. WholeReading(y.eager, y.composer) = WholeReading(st.eager, st.composer)
    BY <2>5, <2>6, <2>7, ConcatTexts
  <2>9. WholeKept
    BY <1>1, <1>13, <2>8 DEF Leaves, WholeKept
  <2>10. model'.settled = model.settled \o text
    BY <1>13, <2>1 DEF Leaves, Delivered
  <2> QED BY <1>13, <1>14, <2>9, <2>10 DEF SettledOn, text
<1> QED BY <1>15, <1>16

\* The candidate the list shows is the one anthy is asked for.
LEMMA ShownIsFetched ==
  ASSUME AnthyInv, ~situation.others, NEW k \in 0..(Len(model.candidates) - 1),
         anthy # <<>>
  PROVE  model.candidates[k + 1] = anthy[conv.active].candidates[k + 1]
<1> DEFINE st == Plain
           whole == anthy[conv.active].candidates
<1>1. /\ Sound(st) /\ st.anthy = anthy /\ st.conv = conv /\ st.model = model
      /\ st \in CallState
  BY CallsEnter DEF Entered
<1> HIDE DEF st
<1>2. Begins(model.candidates, whole)
  <2>1. CASE Typing(st)
    <3>1. Offers(st) /\ OffersCurrent(st)
      BY <1>1, <2>1 DEF Typing, HoldsNothing
    <3>2. conv.active = 1 /\ anthy = Analyse(FinishedKana(st.composer), st.record)
      BY <1>1, <3>1 DEF Offers, OffersCurrent
    <3> QED BY <1>1, <3>1, <3>2 DEF OffersCurrent
  <2>2. CASE Converting(st)
    BY <1>1, <2>2 DEF Converting
  <2> QED BY <1>1, <2>1, <2>2 DEF Sound
<1>3. Len(model.candidates) \in Nat
  BY ListIs
<1> HIDE DEF whole
<1>4. PICK j \in 0..Len(whole) : model.candidates = SubSeq(whole, 1, j)
  BY <1>2 DEF Begins
<1>5. k + 1 \in 1..Len(model.candidates) /\ k + 1 \in DOMAIN SubSeq(whole, 1, j)
  <2>1. k + 1 \in 1..Len(model.candidates)
    BY <1>3
  <2>2. model.candidates \in Seq(Text)
    <3>1. model \in Model
      BY ListIs
    <3> QED BY <3>1 DEF Model
  <2> QED BY <1>4, <2>1, <2>2
<1>6. SubSeq(whole, 1, j)[k + 1] = whole[k + 1]
  BY <1>5
<1> QED BY <1>4, <1>6 DEF whole

LEMMA SelectKeeps ==
  ASSUME AnthyAnswers, AnthyInv, Able, NEW k \in 0..(Len(model.candidates) - 1), Select(k)
  PROVE  /\ AnthyInv' /\ TaughtAsCommitted
         /\ WholeKept \/ (composer' = EmptyComposer /\ eager' = <<>>)
         /\ ~situation.others /\ ~indeterminate' => SettledOn(model.candidates[k + 1])
<1>1. k \in Nat /\ k < Len(model.candidates) /\ k < options.cap
  BY ListIs
<1>2. CASE Abort(k)
  <2>1. AnthyInv' /\ KeepsReading /\ lessons' = {}
    BY <1>1, <1>2, AbortKeeps
  <2>2. indeterminate'
    BY <1>2 DEF Abort
  <2> QED BY <2>1, <2>2, NothingTaught, KeptWhole
<1>3. CASE ~Abort(k)
  <2> DEFINE Z(st) == IF conv.asked THEN SelectConverted(st, k) ELSE SelectFromEager(st, k)
  <2>1. PICK st \in Calls : Leave(Z(st), FALSE)
    BY <1>3 DEF Select
  <2>2. Fetchable([anthy |-> anthy], conv.active, k) /\ UNCHANGED <<indeterminate, situation>>
    BY <1>3 DEF Select, Handled
  <2>3. /\ Entered(st) /\ st.conv = conv /\ st.anthy = anthy /\ st.options = options
    BY CallsEnter DEF Entered
  <2>4. anthy # <<>> /\ k < Len(anthy[conv.active].candidates)
    BY <1>1, <2>2, FetchableIs
  <2> DEFINE text == anthy[conv.active].candidates[k + 1]
  <2>5. AnthyInv' /\ TaughtAsCommitted /\ SettledOn(text)
    <3>1. CASE conv.asked
      <4>1. Leave(SelectConverted(st, k), FALSE)
        BY <2>1, <3>1
      <4> QED BY <1>1, <2>2, <2>3, <2>4, <3>1, <4>1, SelectConvertedKeeps
    <3>2. CASE ~conv.asked
      <4>1. Leave(SelectFromEager(st, k), FALSE)
        BY <2>1, <3>2
      <4>2. conv.active = 1
        <5>1. Typing(st)
          BY <2>3, <3>2, StillTyping DEF Entered
        <5> QED BY <2>3, <5>1 DEF Typing, HoldsNothing, NoConversion, Offers
      <4>3. st.anthy # <<>> /\ k < Len(st.anthy[1].candidates)
            /\ text = st.anthy[1].candidates[k + 1]
        BY <2>3, <2>4, <4>2
      <4> QED BY <1>1, <2>2, <2>3, <3>2, <4>1, <4>3, SelectFromEagerKeeps
    <3> QED BY <3>1, <3>2
  <2>6. ~situation.others => text = model.candidates[k + 1]
    BY <2>4, ShownIsFetched
  <2> HIDE DEF text
  <2> QED BY <2>5, <2>6 DEF SettledOn
<1> QED BY <1>2, <1>3

\* An option that changes keeps what is on screen true to the options in force.
LEMMA ChosenOptions ==
  ASSUME ChangesBetween, AnthyInv, NEW st, Entered(st), NEW chosen \in situation.settings,
         \A o \in DOMAIN options : \/ options[o] = chosen[o]
                                   \/ Empty
                                   \/ o \in situation.midway
                                   \/ o = "cap" /\ chosen.cap > options.cap
  PROVE  LET y == [st EXCEPT !.options = chosen]
         IN /\ Sound(y) /\ y.options = chosen
            /\ (y.conv.asked /\ ~situation.others /\ ~indeterminate => Pointed(y))
            /\ \A f \in {"out", "composer", "eager", "conv", "lessons"} : y[f] = st[f]
<1> DEFINE y == [st EXCEPT !.options = chosen]
<1>1. /\ st \in CallState /\ Sound(st) /\ st.composer = composer /\ st.eager = eager
      /\ st.options = options /\ st.conv = conv
  BY DEF Entered
<1>2. chosen \in Options /\ options \in Options
  <2>1. situation \in Situations
    BY DEF AnthyInv
  <2>2. chosen \in Options
    BY <2>1, AnthyAssumption
  <2>3. options \in Options
    BY ListIs
  <2> QED BY <2>2, <2>3
<1>3. /\ y \in CallState /\ y.options = chosen
      /\ \A f \in {"model", "out", "composer", "eager", "conv", "anthy", "record",
                   "lessons"} : y[f] = st[f]
  BY <1>1, <1>2 DEF CallState
<1>4. /\ Empty \/ chosen.script = options.script
      /\ Empty \/ options.cap <= chosen.cap
  <2>1. "script" \notin situation.midway /\ "cap" \notin situation.midway
    BY DEF ChangesBetween, AnthyInv
  <2>2. DOMAIN options = {"prediction", "learning", "onPeriod", "script", "cap"}
    BY <1>2 DEF Options
  <2>3. options.cap \in Nat /\ chosen.cap \in Nat
    BY <1>2 DEF Options
  <2>4. Empty \/ chosen.script = options.script
    BY <2>1, <2>2
  <2>5. options.cap = chosen.cap \/ Empty \/ chosen.cap > options.cap
    BY <2>1, <2>2
  <2> QED BY <2>3, <2>4, <2>5
<1> HIDE DEF y
<1>5. \A i : Chosen(y, i) = Chosen(st, i)
  BY <1>3 DEF Chosen, Fetch
<1>6. SettledText(y) = SettledText(st)
  BY <1>3, <1>5 DEF SettledText
<1>7. KanaShown(st) => KanaShown(y)
  <2>1. Display(composer, Settings(chosen)) = Display(composer, Settings(options))
    <3>1. CASE Empty
      <4>1. composer = EmptyComposer
        BY <3>1 DEF Empty
      <4> QED BY <1>2, <4>1, EmptyBuffer
    <3>2. CASE ~Empty
      BY <1>4, <3>2 DEF Settings
    <3> QED BY <3>1, <3>2
  <2> QED BY <1>1, <1>3, <2>1 DEF KanaShown
<1>8. Typing(st) => Typing(y)
  BY <1>3, <1>7 DEF Typing, HoldsNothing, Offers, OffersCurrent
<1>9. Converting(st) => Converting(y)
  <2>1. Chooses(st) => Chooses(y)
    <3> SUFFICES ASSUME Chooses(st) PROVE Chooses(y)
      OBVIOUS
    <3>1. ~Empty
      BY <1>1 DEF Empty, Chooses
    <3>2. /\ options.cap <= chosen.cap /\ options.cap \in Nat /\ chosen.cap \in Nat
      BY <1>2, <1>4, <3>1 DEF Options
    <3>3. \A i \in 1..st.conv.count : /\ st.conv.chosen[i] \in Nat
                                      /\ st.conv.chosen[i] < options.cap
      BY <1>1, ChosenTexts DEF Chooses
    <3>4. \A i \in 1..st.conv.count : st.conv.chosen[i] < chosen.cap
      BY <3>2, <3>3
    <3> QED BY <1>3, <3>4 DEF Chooses
  <2>2. Teaches(st) => Teaches(y)
    BY <1>3, <1>5 DEF Teaches
  <2>3. ConversionShown(st) => ConversionShown(y)
    BY <1>3, <1>5, <1>6 DEF ConversionShown
  <2> QED BY <1>3, <2>1, <2>2, <2>3 DEF Converting
<1>10. Pointed(st) => Pointed(y)
  BY <1>3 DEF Pointed
<1>11. y.conv.asked /\ ~situation.others /\ ~indeterminate => Pointed(y)
  BY <1>3, <1>10 DEF Entered
<1> QED BY <1>1, <1>3, <1>8, <1>9, <1>11 DEF Sound, y

LEMMA SetOptionKeeps ==
  ASSUME AnthyAnswers, ChangesBetween, AnthyInv, SetOption
  PROVE  AnthyInv' /\ KeepsReading /\ lessons' = {}
<1>1. PICK chosen \in situation.settings, st \in Calls :
        /\ \A o \in DOMAIN options : \/ options[o] = chosen[o]
                                     \/ Empty
                                     \/ o \in situation.midway
                                     \/ o = "cap" /\ chosen.cap > options.cap
        /\ Leave(OptionsChanged([st EXCEPT !.options = chosen]), TRUE)
  BY DEF SetOption
<1>2. UNCHANGED <<indeterminate, situation>> /\ ~indeterminate
  BY DEF SetOption, Handled, Able
<1>3. /\ Entered(st) /\ st.composer = composer /\ st.eager = eager /\ st.lessons = {}
  BY CallsEnter DEF Entered
<1> DEFINE x == [st EXCEPT !.options = chosen]
           y == OptionsChanged(x)
<1>4. /\ Sound(x) /\ (x.conv.asked /\ ~situation.others => Pointed(x))
      /\ \A f \in {"out", "composer", "eager", "conv", "lessons"} : x[f] = st[f]
  BY <1>1, <1>2, <1>3, ChosenOptions
<1>5. Leave(y, TRUE)
  BY <1>1
<1> HIDE DEF x
<1>6. /\ Sound(y) /\ (y.conv.asked /\ ~situation.others => Pointed(y))
      /\ y.composer = x.composer /\ y.eager = x.eager /\ y.lessons = x.lessons
  <2>1. CASE y = x
    BY <1>4, <2>1
  <2>2. CASE y = RefreshEager(ShowKana(x))
    <3>1. x \in CallState
      BY <1>4 DEF Sound
    <3> DEFINE z == RefreshEager(ShowKana(x))
    <3>2. /\ Sound(z) /\ ~z.conv.asked
          /\ z.composer = x.composer /\ z.eager = x.eager /\ z.lessons = x.lessons
      BY <3>1, ShownAgainIs
    <3>3. y = z
      BY <2>2
    <3> HIDE DEF y, z
    <3> QED BY <3>2, <3>3
  <2>3. y = x \/ y = RefreshEager(ShowKana(x))
    BY DEF OptionsChanged
  <2> QED BY <2>1, <2>2, <2>3
<1> HIDE DEF y
<1>7. AnthyInv'
  <2>1. indeterminate' \in BOOLEAN
    BY <1>2 DEF AnthyInv
  <2> QED BY <1>2, <1>5, <1>6, <2>1, LeaveKeeps
<1>8. composer' = y.composer /\ eager' = y.eager /\ lessons' = y.lessons
  BY <1>5 DEF Leave
<1> QED BY <1>3, <1>4, <1>6, <1>7, <1>8 DEF KeepsReading

-------------------------------------------------------------------------------
(* Every step.                                                             *)

\* Nothing of the composition changes: the client acts, or another context teaches.
LEMMA ElsewhereKeeps ==
  ASSUME AnthyInv,
         TaughtElsewhere \/ Fallback \/ Send \/ UNCHANGED vars
  PROVE  /\ AnthyInv' /\ KeepsReading
         /\ \/ lessons' = {}
            \/ UNCHANGED vars
            \/ owed \in {"insert", "erase"} /\ owed' = "nothing" /\ lessons' = lessons
<1>1. /\ [model EXCEPT !.cursor = model.cursor] = model /\ model.cursor \in Nat
      /\ record \in Records
      /\ model.cursor = 0 \/ model.cursor < Len(model.candidates)
      /\ indeterminate \in BOOLEAN /\ before \in Text /\ situation \in Situations
  BY ListIs DEF AnthyInv
<1>2. /\ model' = [model EXCEPT !.cursor = model.cursor]
      /\ indeterminate' = indeterminate
      /\ record' \in Records /\ (record' = record \/ situation.others)
      /\ UNCHANGED <<published, composer, eager, conv, anthy, options, situation>>
  <2>1. CASE TaughtElsewhere
    <3>1. situation.records \subseteq Records
      BY <1>1 DEF Records
    <3> QED BY <1>1, <2>1, <3>1 DEF TaughtElsewhere
  <2>2. CASE Fallback
    BY <1>1, <2>2 DEF Fallback, ClientActs, anthyVars
  <2>3. CASE Send
    BY <1>1, <2>3 DEF Send
  <2>4. CASE UNCHANGED vars
    BY <1>1, <2>4 DEF vars, contextVars, anthyVars
  <2> QED BY <2>1, <2>2, <2>3, <2>4
<1>3. before' \in Text
  <2>1. CASE Fallback
    <3>1. SubSeq(before, 1, Len(before) - 1) \in Text
      BY <1>1, ButLast
    <3>2. \A s \in Scalar : Append(before, s) \in Text
      BY <1>1 DEF Text
    <3> QED BY <2>1, <3>1, <3>2 DEF Fallback, ClientActs
  <2>2. CASE TaughtElsewhere
    BY <1>1, <2>2 DEF TaughtElsewhere
  <2>3. CASE Send
    BY <2>3, EmptyText DEF Send
  <2>4. CASE UNCHANGED vars
    BY <1>1, <2>4 DEF vars, contextVars
  <2> QED BY <2>1, <2>2, <2>3, <2>4
<1>4. AnthyInv'
  BY <1>1, <1>2, <1>3, FrameKeeps
<1>5. Fallback => /\ owed \in {"insert", "erase"} /\ owed' = "nothing"
                  /\ lessons' = lessons
  BY DEF Fallback, ClientActs, anthyVars
<1>6. TaughtElsewhere \/ Send => lessons' = {}
  BY DEF TaughtElsewhere, Send
<1> QED BY <1>2, <1>4, <1>5, <1>6 DEF KeepsReading

\* A key is owed to the client only after a call that told anthy of nothing.
OwedQuietly == owed # "nothing" => lessons = {}

\* What is true of every step but those of typing, deleting and ending: the kana
\* stays, or nothing is composed any more.
MovesKana ==
  \/ \E key \in Keys : TypeKey(key) \/ TypeKeyAfter(key)
  \/ InsertSpace \/ Return \/ Commit \/ Reset
  \/ BackspaceKey /\ ~(conv.asked \/ composer = EmptyComposer)

LEMMA AnthyStep ==
  ASSUME AnthyAnswers, ChangesBetween, AnthyInv, OwedQuietly, [Next]_vars
  PROVE  /\ AnthyInv' /\ OwedQuietly' /\ (TaughtAsCommitted \/ UNCHANGED vars)
         /\ \/ MovesKana \/ WholeKept
            \/ composer' = EmptyComposer /\ eager' = <<>>
<1>1. CASE SelectCandidate
  <2>1. PICK k \in 0..(Len(model.candidates) - 1) : Able /\ Select(k)
    BY <1>1 DEF SelectCandidate
  <2>2. /\ AnthyInv' /\ TaughtAsCommitted
        /\ WholeKept \/ (composer' = EmptyComposer /\ eager' = <<>>)
    BY <2>1, SelectKeeps
  <2>3. owed' = "nothing"
    BY <2>1 DEF Select, Handled, Abort, Able, Idle
  <2> QED BY <2>2, <2>3 DEF OwedQuietly
<1>2. CASE MoveCursor
  BY <1>2, MoveCursorKeeps, NothingTaught, KeptWhole DEF OwedQuietly
<1>3. ASSUME NEW key \in Keys, TypeKey(key) PROVE AnthyInv' /\ OwedQuietly' /\ TaughtAsCommitted
  BY <1>3, TypeKeyKeeps, NothingTaught DEF OwedQuietly
<1>4. ASSUME NEW key \in Keys, TypeKeyAfter(key)
      PROVE  AnthyInv' /\ OwedQuietly' /\ TaughtAsCommitted
  BY <1>4, TypeKeyAfterKeeps DEF OwedQuietly, TypeKeyAfter, Handled
<1>5. CASE Convert
  BY <1>5, ConvertKeeps, NothingTaught, KeptWhole DEF OwedQuietly
<1>6. CASE InsertSpace
  BY <1>6, InsertSpaceKeeps, NothingTaught DEF OwedQuietly, MovesKana
<1>7. CASE Return
  BY <1>7, ReturnTells DEF OwedQuietly, MovesKana, Return, Handled
<1>8. CASE Escape
  BY <1>8, EscapeKeeps, NothingTaught DEF OwedQuietly
<1>9. CASE BackspaceKey
  BY <1>9, BackspaceKeyKeeps, NothingTaught DEF OwedQuietly, MovesKana
<1>10. CASE TypeOther \/ BackspaceDeclined
  <2>1. AnthyInv' /\ Still
    BY <1>10, DeclinedKeeps
  <2> QED BY <2>1, NothingTaught, KeptWhole DEF Still, KeepsReading, OwedQuietly
<1>11. CASE Commit
  BY <1>11, CommitKeeps, CommitTells DEF OwedQuietly, MovesKana, Commit, Handled
<1>12. CASE Reset
  BY <1>12, ResetKeeps, NothingTaught DEF OwedQuietly, MovesKana
<1>13. CASE SetOption
  BY <1>13, SetOptionKeeps, NothingTaught, KeptWhole DEF OwedQuietly
<1>14. CASE TaughtElsewhere \/ Fallback \/ Send \/ UNCHANGED vars
  <2>1. /\ AnthyInv' /\ KeepsReading
        /\ \/ lessons' = {}
           \/ UNCHANGED vars
           \/ owed \in {"insert", "erase"} /\ owed' = "nothing" /\ lessons' = lessons
    BY <1>14, ElsewhereKeeps
  <2>2. CASE lessons' = {}
    BY <2>1, <2>2, NothingTaught, KeptWhole DEF OwedQuietly
  <2>3. CASE UNCHANGED vars
    BY <2>1, <2>3, KeptWhole DEF OwedQuietly, vars, contextVars, anthyVars
  <2>4. CASE owed \in {"insert", "erase"} /\ lessons' = lessons
    <3>1. lessons' = {}
      BY <2>4 DEF OwedQuietly
    <3> QED BY <2>1, <3>1, NothingTaught, KeptWhole DEF OwedQuietly
  <2> QED BY <2>1, <2>2, <2>3, <2>4
<1>15. \A key \in Keys : TypeKey(key) \/ TypeKeyAfter(key) => MovesKana
  BY DEF MovesKana
<1> QED BY <1>1, <1>2, <1>3, <1>4, <1>5, <1>6, <1>7, <1>8, <1>9, <1>10, <1>11, <1>12,
           <1>13, <1>14, <1>15 DEF Next

\* The invariant holds throughout, and every step of the specification is one from
\* and to a state in which it does.
LEMMA AnthyAlways ==
  ASSUME AnthyAnswers, ChangesBetween PROVE Spec => [](AnthyInv /\ OwedQuietly)
<1>1. Init => AnthyInv /\ OwedQuietly
  BY AnthyInit DEF Init, ContextInit, OwedQuietly
<1>2. AnthyInv /\ OwedQuietly /\ [Next]_vars => AnthyInv' /\ OwedQuietly'
  BY AnthyStep
<1> QED BY <1>1, <1>2, PTL DEF Spec

-------------------------------------------------------------------------------
(* The theorems.                                                           *)

\* Until conversion is asked for the preedit is what was selected and the kana as
\* typed, whatever anthy offers meanwhile, in the script the composition began with:
\* a script changed in a composition is what ChangesBetween leaves out (show_kana).
THEOREM KanaUntilAsked ==
  ASSUME AnthyAnswers, ChangesBetween PROVE Spec => []ShowsWhatWasTyped
<1>1. AnthyInv => ShowsWhatWasTyped
  <2> SUFFICES ASSUME AnthyInv, ~conv.asked PROVE ShowsWhatWasTyped
    BY DEF ShowsWhatWasTyped
  <2>1. /\ Typing(Plain) /\ Plain.model = model /\ Plain.eager = eager
        /\ Plain.composer = composer /\ Plain.options = options
    BY CallsEnter, StillTyping DEF Entered
  <2>2. /\ model.settled = Texts(eager) /\ model.tail = <<>>
        /\ model.active = Display(composer, Settings(options))
    BY <2>1 DEF Typing, KanaShown
  <2>3. model \in Model
    BY ListIs
  <2> QED BY <2>2, <2>3 DEF ShowsWhatWasTyped, Model
<1> QED BY <1>1, AnthyAlways, PTL

\* Once conversion is asked for, the highlighted candidate and the text previewed
\* are one, as long as anthy's record is this context's alone (show_candidate,
\* show_segments and the materialization that ends every call).
THEOREM HighlightIsShown ==
  ASSUME AnthyAnswers, ChangesBetween PROVE Spec => []HighlightIsPreview
<1>1. AnthyInv => HighlightIsPreview
  <2> SUFFICES ASSUME AnthyInv, conv.asked, ~indeterminate, ~situation.others
               PROVE  /\ model.candidates # <<>>
                      /\ model.active = model.candidates[model.cursor + 1]
    BY DEF HighlightIsPreview
  <2> DEFINE st == Plain
  <2>1. /\ Converting(st) /\ st \in CallState /\ st.model = model /\ st.conv = conv
        /\ st.anthy = anthy
        /\ model.candidates # <<>> /\ Pointed(st)
    BY CallsEnter, StillConverting DEF Entered
  <2> HIDE DEF st
  <2>2. model.cursor = conv.chosen[conv.active]
    BY <2>1 DEF Pointed
  <2>3. /\ Chooses(st) /\ conv.active \in 1..conv.count /\ Len(anthy) = conv.count
        /\ Chosen(st, conv.active)
             = anthy[conv.active].candidates[conv.chosen[conv.active] + 1]
    BY <2>1, ChosenTexts DEF Converting
  <2>4. model.active = Chosen(st, conv.active)
    BY <2>1 DEF Converting, ConversionShown
  <2>5. /\ model.cursor \in Nat /\ Len(model.candidates) \in Nat
        /\ model \in Model
    BY ListIs
  <2>6. model.candidates \in Seq(Text)
    BY <2>5 DEF Model
  <2>7. Len(model.candidates) # 0
    BY <2>1, <2>6, EmptySeq
  <2>8. model.cursor \in 0..(Len(model.candidates) - 1)
    BY <2>5, <2>7 DEF AnthyInv
  <2>9. anthy # <<>>
    <3>1. Len(anthy) # 0
      BY <2>3
    <3> QED BY <3>1
  <2>10. model.candidates[model.cursor + 1]
           = anthy[conv.active].candidates[model.cursor + 1]
    BY <2>8, <2>9, ShownIsFetched
  <2> QED BY <2>1, <2>2, <2>3, <2>4, <2>10
<1> QED BY <1>1, AnthyAlways, PTL

\* Return, pathime_context_commit, a space behind the last selection and the next
\* key of a conversion commit exactly what is on screen, and leave none of it there.
THEOREM EndsDeliver ==
  ASSUME AnthyAnswers, ChangesBetween PROVE Spec => EndDeliversPreedit
<1> DEFINE Step ==
      /\ (Return \/ Commit) /\ indeterminate' = FALSE =>
           /\ before' = before \o OnScreen
           /\ published'.preedit = <<>>
      /\ InsertSpace => before' = before \o OnScreen \o <<space>>
      /\ (\E key \in Keys : TypeKeyAfter(key)) => before' = before \o OnScreen
<1>1. AnthyInv => Step
  <2> SUFFICES ASSUME AnthyInv PROVE Step
    OBVIOUS
  <2>1. Return => before' = before \o OnScreen /\ published'.preedit = <<>>
    BY ReturnTells DEF Over
  <2>2. Commit => before' = before \o OnScreen /\ published'.preedit = <<>>
    BY CommitKeeps
  <2>3. InsertSpace => before' = before \o OnScreen \o <<space>>
    BY InsertSpaceKeeps
  <2>4. ASSUME NEW key \in Keys, TypeKeyAfter(key) PROVE before' = before \o OnScreen
    BY <2>4, TypeKeyAfterKeeps
  <2> QED BY <2>1, <2>2, <2>3, <2>4
<1> HIDE DEF Step
<1>2. [](AnthyInv) => [][Step]_vars
  BY <1>1, PTL
<1>3. [][Step]_vars => EndDeliversPreedit
  BY DEF EndDeliversPreedit, Step
<1> QED BY <1>2, <1>3, AnthyAlways, PTL

\* Converting, choosing, browsing, selecting, walking back and changing options lose
\* no kana and move none (select_from_eager re-seeds the buffer from the readings of
\* anthy's segments, Escape and Backspace bring back what a selection consumed).
THEOREM KanaSurvives ==
  ASSUME AnthyAnswers, ChangesBetween PROVE Spec => ReadingSurvives
<1> DEFINE Step ==
      /\ composer # EmptyComposer \/ eager # <<>>
      /\ composer' # EmptyComposer \/ eager' # <<>>
      /\ \/ Convert \/ MoveCursor \/ SelectCandidate \/ SetOption
         \/ Escape \/ TypeOther
         \/ BackspaceKey /\ (conv.asked \/ composer = EmptyComposer)
      => WholeReading(eager', composer') = WholeReading(eager, composer)
<1>1. AnthyInv => Step
  <2> SUFFICES ASSUME AnthyInv, ~(composer' = EmptyComposer /\ eager' = <<>>)
               PROVE  (\/ Convert \/ MoveCursor \/ SelectCandidate \/ SetOption
                       \/ Escape \/ TypeOther
                       \/ BackspaceKey /\ (conv.asked \/ composer = EmptyComposer))
                      => WholeKept
    BY DEF WholeKept
  <2>1. Convert => WholeKept
    BY ConvertKeeps, KeptWhole
  <2>2. MoveCursor => WholeKept
    BY MoveCursorKeeps, KeptWhole
  <2>3. SelectCandidate => WholeKept
    BY SelectKeeps DEF SelectCandidate
  <2>4. SetOption => WholeKept
    BY SetOptionKeeps, KeptWhole
  <2>5. Escape => WholeKept
    BY EscapeKeeps
  <2>6. TypeOther => WholeKept
    BY DeclinedKeeps, KeptWhole DEF Still, KeepsReading
  <2>7. BackspaceKey /\ (conv.asked \/ composer = EmptyComposer) => WholeKept
    BY BackspaceKeyKeeps
  <2> QED BY <2>1, <2>2, <2>3, <2>4, <2>5, <2>6, <2>7
<1> HIDE DEF Step
<1>2. [](AnthyInv) => [][Step]_vars
  BY <1>1, PTL
<1>3. [][Step]_vars => ReadingSurvives
  BY DEF ReadingSurvives, Step
<1> QED BY <1>2, <1>3, AnthyAlways, PTL

\* Selecting a candidate settles the text the list shows there: the list, filled in
\* from anthy's and cut at the cap, is the beginning of anthy's own, call after call
\* (select_candidate, select_from_eager).
THEOREM SelectionsSettle ==
  ASSUME AnthyAnswers, ChangesBetween PROVE Spec => SelectDeliversShown
<1> DEFINE Step ==
      ~situation.others =>
        \A k \in 0..(Len(model.candidates) - 1) :
          Able /\ ~indeterminate' /\ Select(k) =>
            LET text == model.settled \o model.candidates[k + 1]
            IN model'.settled = text \/ before' = before \o text
<1>1. AnthyInv => Step
  BY SelectKeeps DEF SettledOn
<1> HIDE DEF Step
<1>2. [](AnthyInv) => [][Step]_vars
  BY <1>1, PTL
<1>3. [][Step]_vars => SelectDeliversShown
  BY DEF SelectDeliversShown, Step
<1> QED BY <1>2, <1>3, AnthyAlways, PTL

\* anthy is told of a segment once, and what it is told in the course of a conversion
\* is, put together, what that conversion commits (record_choices).
THEOREM TaughtWhatIsCommitted ==
  ASSUME AnthyAnswers, ChangesBetween PROVE Spec => TaughtWhatWasCommitted
<1>1. AnthyInv /\ OwedQuietly /\ [Next]_vars => [TaughtAsCommitted]_vars
  BY AnthyStep
<1>2. [](AnthyInv /\ OwedQuietly) /\ [][Next]_vars => [][TaughtAsCommitted]_vars
  BY <1>1, PTL
<1>3. [][TaughtAsCommitted]_vars => TaughtWhatWasCommitted
  BY DEF TaughtWhatWasCommitted, TaughtAsCommitted
<1> QED BY <1>2, <1>3, AnthyAlways, PTL DEF Spec

-------------------------------------------------------------------------------
(* Typing into the front end.                                              *)

\* A run nothing in the tables stands in, short of its end: what is waiting with one
\* more letter, or the end of that.
Open(s) ==
  \A i \in 1..(Len(s) - 1) :
    /\ s[i] \notin DOMAIN Symbols
    /\ \A j \in i..(Len(s) - 1) :
         LET part == SubSeq(s, i, j)
         IN ~Spells(part) /\ ~Doubled(part) /\ ~FinishesN(part)

\* What may wait for another letter.
Waits(p) == p = <<>> \/ Continues(p)

\* The beginnings that ReadWhole looks for.
Starts(s) == \E r \in DOMAIN RomajiTable : IsPrefix(r, s)
StartsDoubled(s) == Len(s) > 1 /\ Doubled(SubSeq(s, 1, 2))
StartsFinished(s) == Len(s) > 1 /\ FinishesN(SubSeq(s, 1, 2))

LEMMA Spellings ==
  ASSUME NEW r \in DOMAIN RomajiTable
  PROVE  /\ r \in Text /\ r \in Seq(Scalar) /\ Len(r) \in Nat \ {0}
         /\ RomajiTable[r] \in Text
<1>1. r \in Text \ {<<>>} /\ RomajiTable[r] \in Text
  BY RomajiAssumption
<1>2. Len(r) \in Nat /\ Len(r) > 0
  BY <1>1, TextIsSequence
<1> QED BY <1>1, <1>2 DEF Text

\* To be a prefix, letter by letter.
LEMMA PrefixIs ==
  ASSUME NEW p \in Text, NEW s \in Text
  PROVE  /\ Len(p) \in Nat /\ Len(s) \in Nat
         /\ IsPrefix(p, s) <=> Len(p) <= Len(s) /\ \A i \in 1..Len(p) : p[i] = s[i]
         /\ IsPrefix(p, s) /\ Len(p) = Len(s) => p = s
         /\ IsPrefix(p, s) <=> Len(p) <= Len(s) /\ p = SubSeq(s, 1, Len(p))
<1>1. p \in Seq(Scalar) /\ s \in Seq(Scalar) /\ Len(p) \in Nat /\ Len(s) \in Nat
  BY TextIsSequence DEF Text
<1>2. SubSeq(p, 1, Len(p)) = p
  BY <1>1, SubSeqFull
<1>3. ASSUME Len(p) <= Len(s)
      PROVE  p = SubSeq(s, 1, Len(p)) <=> \A i \in 1..Len(p) : p[i] = s[i]
  <2> DEFINE t == SubSeq(s, 1, Len(p))
  <2>1. t \in Seq(Scalar) /\ Len(t) = Len(p) /\ \A i \in 1..Len(p) : t[i] = s[i]
    <3>1. \A i \in 1..Len(p) : s[i] \in Scalar
      BY <1>1, <1>3, ElementOfSeq
    <3> QED BY <1>1, <1>3, <3>1, SubSeqProperties
  <2> HIDE DEF t
  <2>2. (\A i \in 1..Len(p) : p[i] = t[i]) => p = t
    BY <1>1, <2>1, SeqEqual
  <2> QED BY <2>1, <2>2
<1>4. IsPrefix(p, s) <=> Len(p) <= Len(s) /\ p = SubSeq(s, 1, Len(p))
  BY <1>2 DEF IsPrefix
<1>5. Len(p) = Len(s) => SubSeq(s, 1, Len(p)) = s
  BY <1>1, SubSeqFull
<1> QED BY <1>1, <1>3, <1>4, <1>5

LEMMA StrictPrefixIs ==
  ASSUME NEW p \in Text, NEW s \in Text
  PROVE  IsStrictPrefix(p, s) <=> IsPrefix(p, s) /\ Len(p) < Len(s)
<1>1. IsPrefix(p, s) => (p # s <=> Len(p) < Len(s))
  BY PrefixIs
<1> QED BY <1>1 DEF IsStrictPrefix

\* A part of a text, letter by letter.
LEMMA PartIs ==
  ASSUME NEW s \in Text, NEW i \in 1..Len(s), NEW j \in i..Len(s)
  PROVE  /\ SubSeq(s, i, j) \in Text /\ Len(SubSeq(s, i, j)) = j - i + 1
         /\ \A k \in 1..(j - i + 1) : SubSeq(s, i, j)[k] = s[i + k - 1]
<1>1. s \in Seq(Scalar) /\ Len(s) \in Nat /\ \A k \in 1..Len(s) : s[k] \in Scalar
  BY TextIsSequence DEF Text
<1>2. i \in Int /\ j \in Int /\ \A k \in i..j : s[k] \in Scalar
  BY <1>1
<1> QED BY <1>1, <1>2, SubSeqProperties DEF Text

LEMMA SamePart ==
  ASSUME NEW p \in Text, NEW s \in Text, IsPrefix(p, s),
         NEW i \in 1..Len(p), NEW j \in i..Len(p)
  PROVE  SubSeq(p, i, j) = SubSeq(s, i, j)
<1>1. /\ Len(p) \in Nat /\ Len(s) \in Nat /\ Len(p) <= Len(s)
      /\ \A k \in 1..Len(p) : p[k] = s[k]
  BY PrefixIs
<1> DEFINE a == SubSeq(p, i, j)
           b == SubSeq(s, i, j)
<1>2. /\ a \in Text /\ Len(a) = j - i + 1 /\ \A k \in 1..(j - i + 1) : a[k] = p[i + k - 1]
      /\ b \in Text /\ Len(b) = j - i + 1 /\ \A k \in 1..(j - i + 1) : b[k] = s[i + k - 1]
  BY <1>1, PartIs
<1> HIDE DEF a, b
<1>3. \A k \in 1..(j - i + 1) : i + k - 1 \in 1..Len(p)
  BY <1>1
<1>4. \A k \in 1..Len(a) : a[k] = b[k]
  BY <1>1, <1>2, <1>3
<1>5. a = b
  BY <1>2, <1>4, SeqEqual DEF Text
<1> QED BY <1>5 DEF a, b

\* Nothing stands in what waits, not even at its end.
LEMMA WaitsOpen ==
  ASSUME NEW p \in Text, Continues(p), NEW i \in 1..Len(p)
  PROVE  /\ p[i] \notin DOMAIN Symbols
         /\ \A j \in i..Len(p) : LET part == SubSeq(p, i, j)
                                 IN ~Spells(part) /\ ~Doubled(part) /\ ~FinishesN(part)
<1>1. PICK r \in DOMAIN RomajiTable : IsStrictPrefix(p, r)
  BY DEF Continues
<1>2. r \in Text /\ IsPrefix(p, r) /\ Len(p) < Len(r) /\ Len(p) \in Nat /\ Len(r) \in Nat
  BY <1>1, Spellings, StrictPrefixIs, PrefixIs
<1>3. i \in 1..(Len(r) - 1) /\ p[i] = r[i]
  BY <1>2, PrefixIs
<1>4. ASSUME NEW j \in i..Len(p)
      PROVE  ~Spells(SubSeq(p, i, j)) /\ ~Doubled(SubSeq(p, i, j))
             /\ ~FinishesN(SubSeq(p, i, j))
  <2>1. j \in i..(Len(r) - 1)
    BY <1>2
  <2>2. SubSeq(p, i, j) = SubSeq(r, i, j)
    BY <1>2, SamePart
  <2> QED BY <1>3, <2>1, <2>2, TableAssumption
<1> QED BY <1>3, <1>4, TableAssumption

\* At most one spelling starts a run.
LEMMA OneStarts ==
  ASSUME NEW s \in Text, NEW r \in DOMAIN RomajiTable, NEW t \in DOMAIN RomajiTable,
         IsPrefix(r, s), IsPrefix(t, s)
  PROVE  r = t
<1>1. /\ r \in Text /\ t \in Text /\ Len(r) \in Nat \ {0} /\ Len(t) \in Nat \ {0}
  BY Spellings
<1>2. ASSUME NEW x \in DOMAIN RomajiTable, NEW y \in DOMAIN RomajiTable,
             IsPrefix(x, s), IsPrefix(y, s), Len(x) < Len(y)
      PROVE  FALSE
  <2>1. x \in Text /\ y \in Text /\ Len(x) \in Nat \ {0} /\ Len(y) \in Nat \ {0}
    BY Spellings
  <2>2. IsPrefix(x, y)
    <3>1. /\ \A i \in 1..Len(x) : x[i] = s[i]
          /\ \A i \in 1..Len(y) : y[i] = s[i]
      BY <1>2, <2>1, PrefixIs
    <3>2. \A i \in 1..Len(x) : x[i] = y[i]
      BY <1>2, <2>1, <3>1
    <3> QED BY <1>2, <2>1, <3>2, PrefixIs
  <2>3. x = SubSeq(y, 1, Len(x))
    BY <2>1, <2>2, PrefixIs
  <2>4. 1 \in 1..(Len(y) - 1) /\ Len(x) \in 1..(Len(y) - 1)
    BY <1>2, <2>1
  <2>5. ~Spells(SubSeq(y, 1, Len(x)))
    BY <2>4, TableAssumption
  <2> QED BY <2>3, <2>5 DEF Spells
<1>3. Len(r) = Len(t)
  BY <1>1, <1>2
<1>4. r = SubSeq(s, 1, Len(r)) /\ t = SubSeq(s, 1, Len(t))
  BY <1>1, PrefixIs
<1> QED BY <1>3, <1>4

LEMMA LongestIs ==
  ASSUME NEW s \in Text, NEW r \in DOMAIN RomajiTable, IsPrefix(r, s)
  PROVE  Longest(s) = r
<1> DEFINE fits == {x \in DOMAIN RomajiTable : IsPrefix(x, s)}
<1>1. fits = {r}
  BY OneStarts
<1>2. Len(r) \in Nat
  BY Spellings
<1>3. Longest(s) = CHOOSE x \in fits : \A other \in fits : Len(other) <= Len(x)
  BY DEF Longest
<1> HIDE DEF fits
<1> QED BY <1>1, <1>2, <1>3

LEMMA ByLength ==
  ASSUME NEW P,
         \A s \in Text : (\A t \in Text : Len(t) < Len(s) => t \in P) => s \in P
  PROVE  Text \subseteq P
<1> DEFINE T == {k \in Nat : \A s \in Text : Len(s) < k => s \in P}
<1>1. \A s \in Text : Len(s) \in Nat
  BY TextIsSequence
<1>2. 0 \in T
  BY <1>1
<1>3. \A k \in Nat : k \in T => k + 1 \in T
  <2> SUFFICES ASSUME NEW k \in Nat, k \in T, NEW s \in Text, Len(s) < k + 1
               PROVE  s \in P
    OBVIOUS
  <2>1. \A t \in Text : Len(t) < Len(s) => Len(t) < k
    BY <1>1
  <2> QED BY <2>1
<1>4. Nat \subseteq T
  <2> HIDE DEF T
  <2> QED BY <1>2, <1>3, Induction
<1>5. ASSUME NEW s \in Text PROVE s \in P
  <2>1. Len(s) + 1 \in Nat /\ Len(s) < Len(s) + 1
    BY <1>1
  <2> QED BY <1>4, <2>1
<1> QED BY <1>5

\* What ReadWhole says of every run is what its definition says of it.
ReadsAs(s, x) ==
  x = IF s = <<>> THEN EmptyComposer
      ELSE IF Starts(s)
      THEN Before(RomajiTable[Longest(s)], ReadWhole[Drop(s, Len(Longest(s)))])
      ELSE IF StartsDoubled(s)  THEN Before(<<sokuon>>, ReadWhole[Tail(s)])
      ELSE IF StartsFinished(s) THEN Before(<<hatsuon>>, ReadWhole[Tail(s)])
      ELSE IF Continues(s)      THEN [kana |-> <<>>, pending |-> s]
      ELSE Before(Alone(s[1]), ReadWhole[Tail(s)])

LEMMA DropType ==
  ASSUME NEW s \in Text, NEW k \in 1..Len(s)
  PROVE  /\ Drop(s, k) \in Text /\ Len(Drop(s, k)) = Len(s) - k /\ Len(s) \in Nat
         /\ \A i \in 1..(Len(s) - k) : Drop(s, k)[i] = s[k + i]
<1>1. s \in Seq(Scalar) /\ Len(s) \in Nat /\ \A i \in 1..Len(s) : s[i] \in Scalar
  BY TextIsSequence DEF Text
<1>2. \A i \in (k + 1)..Len(s) : s[i] \in Scalar
  BY <1>1
<1>3. /\ SubSeq(s, k + 1, Len(s)) \in Seq(Scalar)
      /\ Len(SubSeq(s, k + 1, Len(s))) = IF k + 1 <= Len(s) THEN Len(s) - (k + 1) + 1 ELSE 0
      /\ \A i \in 1..Len(s) - (k + 1) + 1 : SubSeq(s, k + 1, Len(s))[i] = s[(k + 1) + i - 1]
  BY <1>1, <1>2, SubSeqProperties
<1>4. /\ Len(s) - (k + 1) + 1 = Len(s) - k /\ (k + 1 > Len(s) => Len(s) - k = 0)
      /\ \A i \in 1..(Len(s) - k) : (k + 1) + i - 1 = k + i
  BY <1>1
<1> DEFINE d == SubSeq(s, k + 1, Len(s))
<1> HIDE DEF d
<1>5. d \in Seq(Scalar) /\ Len(d) = Len(s) - k
  <2>1. d \in Seq(Scalar) /\ Len(d) = IF k + 1 <= Len(s) THEN Len(s) - (k + 1) + 1 ELSE 0
    BY <1>3 DEF d
  <2>2. CASE k + 1 <= Len(s)
    BY <1>1, <2>1, <2>2
  <2>3. CASE ~(k + 1 <= Len(s))
    <3>1. k = Len(s)
      BY <1>1, <2>3
    <3> QED BY <1>1, <2>1, <2>3, <3>1
  <2> QED BY <2>2, <2>3
<1>6. ASSUME NEW i \in 1..(Len(s) - k) PROVE d[i] = s[k + i]
  <2>1. i \in 1..(Len(s) - (k + 1) + 1) /\ (k + 1) + i - 1 = k + i
    BY <1>1
  <2>2. d[i] = s[(k + 1) + i - 1]
    BY <1>3, <2>1 DEF d
  <2> QED BY <2>1, <2>2
<1> QED BY <1>1, <1>5, <1>6 DEF d, Drop, Text

LEMMA BeforeType ==
  ASSUME NEW k \in Text, NEW x \in Resolved
  PROVE  /\ Before(k, x) \in Resolved /\ Before(k, x).kana = k \o x.kana
         /\ Before(k, x).pending = x.pending
BY ConcatText DEF Before, Resolved

LEMMA ReadWholeIs ==
  \A s \in Text : ReadsAs(s, ReadWhole[s]) /\ ReadWhole[s] \in Resolved
<1> DEFINE F(h) == [s \in Text |->
       IF s = <<>> THEN EmptyComposer
       ELSE IF \E r \in DOMAIN RomajiTable : IsPrefix(r, s)
       THEN Before(RomajiTable[Longest(s)], h[Drop(s, Len(Longest(s)))])
       ELSE IF Len(s) > 1 /\ Doubled(SubSeq(s, 1, 2)) THEN Before(<<sokuon>>, h[Tail(s)])
       ELSE IF Len(s) > 1 /\ FinishesN(SubSeq(s, 1, 2)) THEN Before(<<hatsuon>>, h[Tail(s)])
       ELSE IF Continues(s) THEN [kana |-> <<>>, pending |-> s]
       ELSE Before(Alone(s[1]), h[Tail(s)])]
           Here(s) == s = <<>> \/ (~Starts(s) /\ ~StartsDoubled(s)
                                    /\ ~StartsFinished(s) /\ Continues(s))
           once == {s \in Text : Here(s)}
           ground == [s \in Text |-> IF s = <<>> THEN EmptyComposer
                                    ELSE [kana |-> <<>>, pending |-> s]]
           head(s) == IF Starts(s) THEN RomajiTable[Longest(s)]
                      ELSE IF StartsDoubled(s) THEN <<sokuon>>
                      ELSE IF StartsFinished(s) THEN <<hatsuon>>
                      ELSE IF s = <<>> THEN <<>> ELSE Alone(s[1])
           rest == [s \in Text |-> IF s = <<>> THEN s
                                   ELSE IF Starts(s) THEN Drop(s, Len(Longest(s)))
                                   ELSE Tail(s)]
           step == [p \in Text \X Resolved |-> Before(head(p[1]), p[2])]
<1>1. <<>> \in Text /\ \A x \in Scalar : <<x>> \in Text
  BY DEF Text
<1>2. ASSUME NEW s \in Text, s # <<>>
      PROVE  /\ Tail(s) \in Text /\ Len(Tail(s)) = Len(s) - 1 /\ Len(s) \in Nat \ {0}
             /\ s[1] \in Scalar
  <2>1. Len(s) \in Nat \ {0} /\ \A i \in 1..Len(s) : s[i] \in Scalar
    BY <1>2, TextIsSequence
  <2> QED BY <1>2, <2>1, HeadTailProperties DEF Text
<1>3. ASSUME NEW s \in Text, Starts(s)
      PROVE  /\ RomajiTable[Longest(s)] \in Text
             /\ Drop(s, Len(Longest(s))) \in Text
             /\ Len(Drop(s, Len(Longest(s)))) < Len(s)
  <2>1. PICK r \in DOMAIN RomajiTable : IsPrefix(r, s)
    BY <1>3 DEF Starts
  <2>2. Longest(s) = r /\ r \in Text /\ Len(r) \in Nat \ {0} /\ RomajiTable[r] \in Text
    BY <2>1, LongestIs, Spellings
  <2>3. Len(r) \in 1..Len(s)
    BY <2>1, <2>2, PrefixIs
  <2>4. Drop(s, Len(r)) \in Text /\ Len(Drop(s, Len(r))) = Len(s) - Len(r) /\ Len(s) \in Nat
    BY <2>3, DropType
  <2> QED BY <2>2, <2>4
<1>4. ASSUME NEW s \in Text PROVE head(s) \in Text
  <2>1. CASE Starts(s)
    BY <1>3, <2>1
  <2>2. CASE ~Starts(s) /\ s # <<>>
    <3>1. Alone(s[1]) \in Text
      BY <1>1, <1>2, <2>2, RomajiAssumption DEF Alone
    <3> QED BY <1>1, <2>2, <3>1, RomajiAssumption
  <2>3. CASE ~Starts(s) /\ s = <<>>
    BY <1>1, <2>3, RomajiAssumption
  <2> QED BY <2>1, <2>2, <2>3
<1>5. ground \in [Text -> Resolved]
  BY <1>1 DEF Resolved, EmptyComposer
<1>6. step \in [Text \X Resolved -> Resolved]
  <2> HIDE DEF head
  <2> QED BY <1>4, BeforeType
<1>7. rest \in [Text -> Text]
  BY <1>2, <1>3
<1>8. \A s \in Text \ once : Len(rest[s]) < Len(s)
  <2> SUFFICES ASSUME NEW s \in Text, s \notin once PROVE Len(rest[s]) < Len(s)
    OBVIOUS
  <2>1. s # <<>>
    OBVIOUS
  <2> QED BY <1>2, <1>3, <2>1
<1>9. ASSUME NEW s \in Text, NEW h \in [Text -> Resolved]
      PROVE  F(h)[s] = IF s \in once THEN ground[s] ELSE step[<<s, h[rest[s]]>>]
  <2>1. CASE s \in once
    BY <2>1 DEF Starts, StartsDoubled, StartsFinished
  <2>2. CASE s \notin once
    <3>1. s # <<>> /\ rest[s] \in Text /\ h[rest[s]] \in Resolved
      BY <1>7, <2>2
    <3>2. F(h)[s] = Before(head(s), h[rest[s]])
      BY <2>2, <3>1 DEF Starts, StartsDoubled, StartsFinished
    <3>3. step[<<s, h[rest[s]]>>] = Before(head(s), h[rest[s]])
      <4>1. <<s, h[rest[s]]>> \in Text \X Resolved
        BY <3>1
      <4> HIDE DEF head, rest
      <4> QED BY <4>1
    <3> QED BY <2>2, <3>2, <3>3
  <2> QED BY <2>1, <2>2
<1>10. PICK h \in [Text -> Resolved] : Unwinds(h, Scalar, once, ground, step, rest)
  <2> HIDE DEF once, ground, step, rest
  <2>1. Shortens(rest, Scalar, once)
    BY <1>8 DEF Shortens, Text
  <2>2. /\ ground \in [Seq(Scalar) -> Resolved] /\ rest \in [Seq(Scalar) -> Seq(Scalar)]
        /\ step \in [Seq(Scalar) \X Resolved -> Resolved]
    BY <1>5, <1>6, <1>7 DEF Text
  <2>3. \E h \in [Seq(Scalar) -> Resolved] : Unwinds(h, Scalar, once, ground, step, rest)
    BY <2>1, <2>2, ShorteningRecursion
  <2> QED BY <2>3 DEF Text
<1>11. h = F(h)
  <2> DEFINE H == F(h)
  <2>1. \A s \in Text : H[s] = h[s]
    <3>1. \A s \in Text : H[s] = IF s \in once THEN ground[s] ELSE step[<<s, h[rest[s]]>>]
      BY <1>9
    <3> HIDE DEF H, once, ground, step, rest
    <3> QED BY <1>10, <3>1 DEF Unwinds, Text
  <2>2. H = [s \in Text |-> H[s]] /\ h = [s \in Text |-> h[s]]
    OBVIOUS
  <2> HIDE DEF H
  <2>3. H = h
    BY <2>1, <2>2
  <2> QED BY <2>3 DEF H
<1>12. ReadWhole = CHOOSE f : f = F(f)
  BY DEF ReadWhole
<1>13. ReadWhole = F(ReadWhole)
  <2> HIDE DEF F
  <2> QED BY <1>11, <1>12
<1>14. ASSUME NEW s \in Text PROVE ReadsAs(s, ReadWhole[s])
  <2> DEFINE g == ReadWhole
  <2>1. F(g)[s] = F(ReadWhole)[s]
    OBVIOUS
  <2> QED BY <1>13 DEF ReadsAs, Starts, StartsDoubled, StartsFinished
<1>15. \A s \in Text : ReadWhole[s] \in Resolved
  <2> DEFINE P == {s \in Text : ReadWhole[s] \in Resolved}
  <2>1. ASSUME NEW s \in Text, \A t \in Text : Len(t) < Len(s) => t \in P
        PROVE  s \in P
    <3>1. CASE s \in once
      <4>1. ReadWhole[s] = ground[s]
        BY <1>14, <3>1 DEF ReadsAs
      <4> HIDE DEF ground
      <4> QED BY <1>5, <4>1
    <3>2. CASE s \notin once
      <4>1. rest[s] \in P
        <5> HIDE DEF once, rest
        <5> QED BY <1>7, <1>8, <2>1, <3>2
      <4>2. ReadWhole[s] = Before(head(s), ReadWhole[rest[s]])
        BY <1>14, <3>2 DEF ReadsAs
      <4> HIDE DEF head, rest
      <4> QED BY <1>4, <4>1, <4>2, BeforeType
    <3> QED BY <3>1, <3>2
  <2> HIDE DEF P
  <2>2. Text \subseteq P
    BY <2>1, ByLength
  <2> QED BY <2>2 DEF P
<1> QED BY <1>14, <1>15

\* One letter more.
LEMMA OneMore ==
  ASSUME NEW s \in Text, NEW k \in Scalar
  PROVE  /\ Append(s, k) \in Text /\ Len(Append(s, k)) = Len(s) + 1 /\ Append(s, k) # <<>>
         /\ IsPrefix(s, Append(s, k)) /\ Len(s) \in Nat
         /\ \A i \in 1..Len(s) : Append(s, k)[i] = s[i]
         /\ Append(s, k)[Len(s) + 1] = k
<1>1. s \in Seq(Scalar) /\ Len(s) \in Nat
  BY TextIsSequence DEF Text
<1>2. /\ Append(s, k) \in Seq(Scalar) /\ Append(s, k) # <<>>
      /\ Len(Append(s, k)) = Len(s) + 1 /\ Append(s, k)[Len(s) + 1] = k
      /\ \A i \in 1..Len(s) : Append(s, k)[i] = s[i]
  BY <1>1, AppendProperties
<1>3. Append(s, k) \in Text
  BY <1>2 DEF Text
<1>4. IsPrefix(s, Append(s, k))
  <2> DEFINE a == Append(s, k)
  <2>1. a \in Text /\ Len(s) <= Len(a) /\ \A i \in 1..Len(s) : s[i] = a[i]
    BY <1>1, <1>2, <1>3
  <2> HIDE DEF a
  <2>2. IsPrefix(s, a)
    BY <2>1, PrefixIs
  <2> QED BY <2>2 DEF a
<1> QED BY <1>1, <1>2, <1>3, <1>4

LEMMA StartsOneMore ==
  ASSUME NEW s \in Text, NEW k \in Scalar, NEW r \in Text
  PROVE  /\ IsPrefix(r, s) => IsPrefix(r, Append(s, k))
         /\ IsPrefix(r, Append(s, k)) => IsPrefix(r, s) \/ r = Append(s, k)
<1> DEFINE a == Append(s, k)
<1>1. /\ a \in Text /\ Len(a) = Len(s) + 1 /\ Len(s) \in Nat
      /\ \A i \in 1..Len(s) : a[i] = s[i]
  BY OneMore
<1>2. Len(r) \in Nat
  BY TextIsSequence
<1> HIDE DEF a
<1>3. ASSUME IsPrefix(r, s) PROVE IsPrefix(r, a)
  <2>1. Len(r) <= Len(s) /\ \A i \in 1..Len(r) : r[i] = s[i]
    BY <1>3, PrefixIs
  <2>2. Len(r) <= Len(a) /\ \A i \in 1..Len(r) : r[i] = a[i]
    BY <1>1, <1>2, <2>1
  <2> QED BY <1>1, <2>2, PrefixIs
<1>4. ASSUME IsPrefix(r, a), r # a PROVE IsPrefix(r, s)
  <2>1. Len(r) <= Len(a) /\ Len(r) # Len(a) /\ \A i \in 1..Len(r) : r[i] = a[i]
    BY <1>1, <1>4, PrefixIs
  <2>2. Len(r) <= Len(s) /\ \A i \in 1..Len(r) : r[i] = s[i]
    BY <1>1, <1>2, <2>1
  <2> QED BY <2>2, PrefixIs
<1> QED BY <1>3, <1>4 DEF a

LEMMA TailIsDrop ==
  ASSUME NEW s \in Text, s # <<>>
  PROVE  /\ Tail(s) = Drop(s, 1) /\ Tail(s) \in Text /\ Len(Tail(s)) = Len(s) - 1
         /\ Len(s) \in Nat \ {0} /\ s[1] \in Scalar
<1>1. s \in Seq(Scalar) /\ Len(s) \in Nat \ {0} /\ \A i \in 1..Len(s) : s[i] \in Scalar
  BY TextIsSequence DEF Text
<1>2. /\ Tail(s) \in Text /\ Len(Tail(s)) = Len(s) - 1
      /\ \A i \in 1..Len(Tail(s)) : Tail(s)[i] = s[i + 1]
  BY <1>1, HeadTailProperties DEF Text
<1>3. /\ Drop(s, 1) \in Text /\ Len(Drop(s, 1)) = Len(s) - 1
      /\ \A i \in 1..(Len(s) - 1) : Drop(s, 1)[i] = s[1 + i]
  BY <1>1, DropType
<1>4. \A i \in 1..Len(Tail(s)) : Tail(s)[i] = Drop(s, 1)[i]
  BY <1>1, <1>2, <1>3
<1>5. Tail(s) = Drop(s, 1)
  BY <1>2, <1>3, <1>4, SeqEqual DEF Text
<1> QED BY <1>1, <1>2, <1>5

LEMMA DropOneMore ==
  ASSUME NEW s \in Text, NEW k \in Scalar, NEW m \in 1..Len(s)
  PROVE  Drop(Append(s, k), m) = Append(Drop(s, m), k)
<1> DEFINE a == Append(s, k)
           d == Drop(s, m)
           x == Drop(a, m)
           y == Append(d, k)
<1>1. /\ a \in Text /\ Len(a) = Len(s) + 1 /\ Len(s) \in Nat
      /\ a[Len(s) + 1] = k /\ \A i \in 1..Len(s) : a[i] = s[i]
  BY OneMore
<1>2. d \in Text /\ Len(d) = Len(s) - m /\ \A i \in 1..(Len(s) - m) : d[i] = s[m + i]
  BY DropType
<1> HIDE DEF a, d
<1>3. /\ x \in Text /\ Len(x) = Len(a) - m
      /\ \A i \in 1..(Len(a) - m) : x[i] = a[m + i]
  <2>1. m \in 1..Len(a)
    BY <1>1
  <2> QED BY <1>1, <2>1, DropType
<1>4. /\ y \in Text /\ Len(y) = Len(d) + 1
      /\ y[Len(d) + 1] = k /\ \A i \in 1..Len(d) : y[i] = d[i]
  BY <1>2, OneMore
<1> HIDE DEF x, y
<1>5. Len(x) = Len(y) /\ Len(x) = Len(d) + 1 /\ Len(d) \in Nat
  BY <1>1, <1>2, <1>3, <1>4
<1>6. ASSUME NEW i \in 1..Len(x) PROVE x[i] = y[i]
  <2>1. x[i] = a[m + i]
    BY <1>1, <1>3
  <2>2. CASE i = Len(d) + 1
    <3>1. m + i = Len(s) + 1
      BY <1>1, <1>2, <2>2
    <3> QED BY <1>1, <1>4, <2>1, <2>2, <3>1
  <2>3. CASE i # Len(d) + 1
    <3>1. i \in 1..Len(d)
      BY <1>5, <2>3
    <3>2. i \in 1..(Len(s) - m) /\ m + i \in 1..Len(s)
      BY <1>1, <1>2, <3>1
    <3> QED BY <1>1, <1>2, <1>4, <2>1, <3>1, <3>2
  <2> QED BY <2>2, <2>3
<1>7. x = y
  BY <1>3, <1>4, <1>5, <1>6, SeqEqual DEF Text
<1> QED BY <1>7 DEF x, y, a, d

\* What waits is read as waiting.
LEMMA WaitingReads ==
  ASSUME NEW p \in Text, Waits(p)
  PROVE  ReadWhole[p] = [kana |-> <<>>, pending |-> p]
<1>1. CASE p = <<>>
  BY <1>1, ReadWholeIs DEF ReadsAs, EmptyComposer
<1>2. CASE p # <<>>
  <2>1. Continues(p) /\ Len(p) \in Nat \ {0}
    BY <1>2, TextIsSequence DEF Waits
  <2>2. ~Starts(p)
    <3> SUFFICES ASSUME NEW r \in DOMAIN RomajiTable, IsPrefix(r, p) PROVE FALSE
      BY DEF Starts
    <3>1. r \in Text /\ Len(r) \in Nat \ {0} /\ Len(r) <= Len(p) /\ r = SubSeq(p, 1, Len(r))
      BY Spellings, PrefixIs
    <3>2. 1 \in 1..Len(p) /\ Len(r) \in 1..Len(p)
      BY <2>1, <3>1
    <3>3. ~Spells(SubSeq(p, 1, Len(r)))
      BY <2>1, <3>2, WaitsOpen
    <3> QED BY <3>1, <3>3 DEF Spells
  <2>3. ~StartsDoubled(p) /\ ~StartsFinished(p)
    <3> SUFFICES ASSUME Len(p) > 1
                 PROVE  ~Doubled(SubSeq(p, 1, 2)) /\ ~FinishesN(SubSeq(p, 1, 2))
      BY DEF StartsDoubled, StartsFinished
    <3>1. 1 \in 1..Len(p) /\ 2 \in 1..Len(p)
      BY <2>1
    <3> QED BY <2>1, <3>1, WaitsOpen
  <2> QED BY <1>2, <2>1, <2>2, <2>3, ReadWholeIs DEF ReadsAs
<1> QED BY <1>1, <1>2

LEMMA SameResolved ==
  ASSUME NEW x \in Resolved, NEW y \in Resolved,
         x.kana = y.kana, x.pending = y.pending
  PROVE  x = y
BY DEF Resolved

LEMMA BeforeBefore ==
  ASSUME NEW j \in Text, NEW k \in Text, NEW x \in Resolved
  PROVE  Before(j, Before(k, x)) = Before(j \o k, x)
<1>1. /\ Before(k, x) \in Resolved /\ Before(k, x).kana = k \o x.kana
      /\ Before(k, x).pending = x.pending /\ j \o k \in Text
  BY BeforeType, ConcatText
<1>2. /\ Before(j, Before(k, x)) \in Resolved
      /\ Before(j, Before(k, x)).kana = j \o (k \o x.kana)
      /\ Before(j, Before(k, x)).pending = x.pending
  BY <1>1, BeforeType
<1>3. /\ Before(j \o k, x) \in Resolved /\ Before(j \o k, x).kana = (j \o k) \o x.kana
      /\ Before(j \o k, x).pending = x.pending
  BY <1>1, BeforeType
<1>4. (j \o k) \o x.kana = j \o (k \o x.kana)
  BY ConcatTexts DEF Resolved
<1> DEFINE one == Before(j, Before(k, x))
           other == Before(j \o k, x)
<1> HIDE DEF one, other
<1>5. one = other
  BY <1>2, <1>3, <1>4, SameResolved DEF one, other
<1> QED BY <1>5 DEF one, other

LEMMA BeforeNothing ==
  ASSUME NEW k \in Text, NEW x \in Resolved
  PROVE  /\ Before(<<>>, x) = x
         /\ Before(k, EmptyComposer) = [kana |-> k, pending |-> <<>>]
<1>1. x.kana \in Text /\ <<>> \o x.kana = x.kana /\ k \o <<>> = k
  BY ConcatText DEF Resolved
<1>2. Before(<<>>, x) = x
  BY <1>1 DEF Before, Resolved
<1> QED BY <1>1, <1>2 DEF Before, EmptyComposer

\* The run read with one letter more is what was resolved of it, and the letter read
\* after what waits.
ReadsOn(s) ==
  /\ Waits(ReadWhole[s].pending)
  /\ \A k \in Scalar :
       ReadWhole[Append(s, k)]
         = Before(ReadWhole[s].kana, ReadWhole[Append(ReadWhole[s].pending, k)])

\* One step of reading put in front of a rest that is read on.
LEMMA ReadsOnBehind ==
  ASSUME NEW s \in Text, NEW t \in Text, NEW j \in Text, ReadsOn(t),
         ReadWhole[s] = Before(j, ReadWhole[t]),
         \A k \in Scalar : ReadWhole[Append(s, k)] = Before(j, ReadWhole[Append(t, k)])
  PROVE  ReadsOn(s)
<1> DEFINE x == ReadWhole[t]
<1>1. x \in Resolved
  BY ReadWholeIs
<1>2. x.kana \in Text /\ x.pending \in Text
  BY <1>1 DEF Resolved
<1>3. ReadWhole[s].kana = j \o x.kana /\ ReadWhole[s].pending = x.pending
  BY <1>1, BeforeType
<1>4. ASSUME NEW k \in Scalar
      PROVE  ReadWhole[Append(s, k)]
               = Before(ReadWhole[s].kana, ReadWhole[Append(ReadWhole[s].pending, k)])
  <2> DEFINE y == ReadWhole[Append(x.pending, k)]
  <2>1. y \in Resolved
    BY <1>2, OneMore, ReadWholeIs
  <2>2. ReadWhole[Append(t, k)] = Before(x.kana, y)
    BY DEF ReadsOn
  <2> HIDE DEF x, y
  <2>3. Before(j, Before(x.kana, y)) = Before(j \o x.kana, y)
    BY <1>2, <2>1, BeforeBefore
  <2> QED BY <1>3, <2>2, <2>3 DEF y
<1> QED BY <1>3, <1>4 DEF ReadsOn

\* What a doubled consonant or a finished n begins is spelled by nothing.

\* What continues with one letter more continued without it.
LEMMA ContinuesLess ==
  ASSUME NEW s \in Text, NEW k \in Scalar, Spells(Append(s, k)) \/ Continues(Append(s, k))
  PROVE  Continues(s)
<1> DEFINE a == Append(s, k)
<1>1. /\ a \in Text /\ Len(a) = Len(s) + 1 /\ Len(s) \in Nat
      /\ \A i \in 1..Len(s) : a[i] = s[i]
  BY OneMore
<1>2. PICK r \in DOMAIN RomajiTable : r = a \/ IsStrictPrefix(a, r)
  BY DEF Spells, Continues
<1> HIDE DEF a
<1>3. /\ r \in Text /\ Len(r) \in Nat /\ Len(a) <= Len(r)
      /\ \A i \in 1..Len(a) : a[i] = r[i]
  BY <1>1, <1>2, Spellings, PrefixIs, StrictPrefixIs
<1>4. Len(s) < Len(r) /\ \A i \in 1..Len(s) : s[i] = r[i]
  BY <1>1, <1>3
<1>5. IsStrictPrefix(s, r)
  BY <1>3, <1>4, <1>1, PrefixIs, StrictPrefixIs
<1> QED BY <1>5 DEF Continues

LEMMA FirstTwo ==
  ASSUME NEW s \in Text, NEW k \in Scalar, Len(s) > 1
  PROVE  SubSeq(Append(s, k), 1, 2) = SubSeq(s, 1, 2)
<1> DEFINE a == Append(s, k)
<1>1. a \in Text /\ IsPrefix(s, a) /\ Len(s) \in Nat
  BY OneMore
<1> HIDE DEF a
<1>2. 1 \in 1..Len(s) /\ 2 \in 1..Len(s)
  BY <1>1
<1>3. SubSeq(s, 1, 2) = SubSeq(a, 1, 2)
  BY <1>1, <1>2, SamePart
<1> QED BY <1>3 DEF a

LEMMA PairIs ==
  ASSUME NEW s \in Text, Len(s) = 2
  PROVE  SubSeq(s, 1, 2) = s /\ s[1] \in Scalar /\ s[2] \in Scalar
BY TextIsSequence, SubSeqFull DEF Text

LEMMA ReadOn == \A s \in Text : ReadsOn(s)
<1> DEFINE P == {s \in Text : ReadsOn(s)}
<1>1. ASSUME NEW s \in Text, \A t \in Text : Len(t) < Len(s) => t \in P
      PROVE  ReadsOn(s)
  <2>1. CASE Waits(s)
    <3>1. ReadWhole[s] = [kana |-> <<>>, pending |-> s]
      BY <2>1, WaitingReads
    <3>2. \A k \in Scalar : Before(<<>>, ReadWhole[Append(s, k)]) = ReadWhole[Append(s, k)]
      BY OneMore, ReadWholeIs, BeforeNothing, EmptyText
    <3> QED BY <2>1, <3>1, <3>2 DEF ReadsOn
  <2>2. CASE ~Waits(s)
    <3>1. /\ s # <<>> /\ ~Continues(s) /\ Tail(s) \in Text /\ Len(Tail(s)) = Len(s) - 1
          /\ Len(s) \in Nat \ {0} /\ s[1] \in Scalar /\ Tail(s) = Drop(s, 1)
      BY <2>2, TailIsDrop DEF Waits
    <3>2. ReadsOn(Tail(s))
      <4> DEFINE t == Tail(s)
      <4>1. t \in Text /\ Len(t) < Len(s)
        BY <3>1
      <4> HIDE DEF t
      <4>2. ReadsOn(t)
        BY <1>1, <4>1
      <4> QED BY <4>2 DEF t
    <3>3. ASSUME NEW k \in Scalar
          PROVE  /\ Append(s, k) \in Text /\ Append(s, k) # <<>>
                 /\ Len(Append(s, k)) = Len(s) + 1
                 /\ Append(s, k)[1] = s[1]
                 /\ ~Spells(Append(s, k)) /\ ~Continues(Append(s, k))
                 /\ Starts(Append(s, k)) <=> Starts(s)
                 /\ Tail(Append(s, k)) = Append(Tail(s), k)
                 /\ Len(s) > 1 => /\ StartsDoubled(Append(s, k)) <=> StartsDoubled(s)
                                  /\ StartsFinished(Append(s, k)) <=> StartsFinished(s)
                 /\ Len(s) = 1 => ~StartsDoubled(Append(s, k)) /\ ~StartsFinished(Append(s, k))
      <4> DEFINE a == Append(s, k)
      <4>1. /\ a \in Text /\ Len(a) = Len(s) + 1 /\ a # <<>>
            /\ \A i \in 1..Len(s) : a[i] = s[i]
        BY OneMore
      <4>2. ~Spells(a) /\ ~Continues(a)
        BY <3>1, ContinuesLess
      <4>3. Starts(a) <=> Starts(s)
        <5>1. \A r \in DOMAIN RomajiTable : IsPrefix(r, s) => IsPrefix(r, a)
          BY Spellings, StartsOneMore
        <5>2. \A r \in DOMAIN RomajiTable : IsPrefix(r, a) => IsPrefix(r, s)
          BY <4>2, Spellings, StartsOneMore DEF Spells
        <5> QED BY <5>1, <5>2 DEF Starts
      <4>4. Tail(a) = Append(Tail(s), k)
        <5>1. Drop(a, 1) = Append(Drop(s, 1), k)
          BY <3>1, DropOneMore
        <5>2. Tail(a) = Drop(a, 1)
          BY <4>1, TailIsDrop
        <5> QED BY <3>1, <5>1, <5>2
      <4>5. ASSUME Len(s) > 1
            PROVE  /\ StartsDoubled(a) <=> StartsDoubled(s)
                   /\ StartsFinished(a) <=> StartsFinished(s)
        <5>1. SubSeq(a, 1, 2) = SubSeq(s, 1, 2)
          BY <4>5, FirstTwo
        <5>2. Len(a) > 1
          BY <3>1, <4>1
        <5> QED BY <4>5, <5>1, <5>2 DEF StartsDoubled, StartsFinished
      <4>6. ASSUME Len(s) = 1 PROVE ~StartsDoubled(a) /\ ~StartsFinished(a)
        <5>1. s = <<s[1]>> /\ a[1] = s[1] /\ Len(a) = 2
          BY <3>1, <4>1, <4>6 DEF Text
        <5>2. SubSeq(a, 1, 2) = a
          BY <4>1, <5>1, PairIs
        <5>3. s[1] \notin Geminating /\ s[1] # n
          BY <3>1, <5>1, TableAssumption
        <5> QED BY <5>1, <5>2, <5>3 DEF StartsDoubled, StartsFinished, Doubled, FinishesN
      <4>7. a[1] = s[1]
        BY <3>1, <4>1
      <4> HIDE DEF a
      <4>8. a \in Text /\ a # <<>> /\ Len(a) = Len(s) + 1
        BY <4>1
      <4> QED BY <4>2, <4>3, <4>4, <4>5, <4>6, <4>7, <4>8 DEF a
    <3>4. CASE Starts(s)
      <4>1. PICK r \in DOMAIN RomajiTable : IsPrefix(r, s)
        BY <3>4 DEF Starts
      <4>2. /\ r \in Text /\ Len(r) \in 1..Len(s) /\ RomajiTable[r] \in Text
            /\ Longest(s) = r
        BY <4>1, Spellings, PrefixIs, LongestIs
      <4> DEFINE t == Drop(s, Len(r))
      <4>3. t \in Text /\ Len(t) < Len(s)
        BY <3>1, <4>2, DropType
      <4>4. ReadsOn(t)
        BY <1>1, <4>3
      <4>5. ReadWhole[s] = Before(RomajiTable[r], ReadWhole[t])
        BY <3>1, <3>4, <4>2, ReadWholeIs DEF ReadsAs
      <4>6. ASSUME NEW k \in Scalar
            PROVE  ReadWhole[Append(s, k)]
                     = Before(RomajiTable[r], ReadWhole[Append(t, k)])
        <5>1. Longest(Append(s, k)) = r
          BY <3>3, <4>1, <4>2, StartsOneMore, LongestIs
        <5>2. Drop(Append(s, k), Len(r)) = Append(t, k)
          BY <4>2, DropOneMore
        <5> HIDE DEF t
        <5> QED BY <3>3, <3>4, <5>1, <5>2, ReadWholeIs DEF ReadsAs
      <4> HIDE DEF t
      <4> QED BY <4>2, <4>3, <4>4, <4>5, <4>6, ReadsOnBehind
    <3>5. CASE ~Starts(s)
      <4> DEFINE t == Tail(s)
                 j == IF StartsDoubled(s) THEN <<sokuon>>
                      ELSE IF StartsFinished(s) THEN <<hatsuon>> ELSE Alone(s[1])
      <4>1. j \in Text
        <5>1. \A x \in Scalar : <<x>> \in Text /\ Alone(x) \in Text
          BY RomajiAssumption DEF Alone, Text
        <5> QED BY <3>1, <5>1, RomajiAssumption
      <4>2. ReadWhole[s] = Before(j, ReadWhole[t])
        BY <3>1, <3>5, ReadWholeIs DEF ReadsAs
      <4>3. ASSUME NEW k \in Scalar
            PROVE  ReadWhole[Append(s, k)] = Before(j, ReadWhole[Append(t, k)])
        <5>1. /\ StartsDoubled(Append(s, k)) <=> StartsDoubled(s)
              /\ StartsFinished(Append(s, k)) <=> StartsFinished(s)
          <6>1. Len(s) = 1 => ~StartsDoubled(s) /\ ~StartsFinished(s)
            BY DEF StartsDoubled, StartsFinished
          <6>2. Len(s) = 1 \/ Len(s) > 1
            BY <3>1
          <6> QED BY <3>3, <6>1, <6>2
        <5>2. ReadsAs(Append(s, k), ReadWhole[Append(s, k)])
          BY <3>3, ReadWholeIs
        <5> QED BY <3>3, <3>5, <5>1, <5>2 DEF ReadsAs
      <4> HIDE DEF t, j
      <4>4. t \in Text /\ ReadsOn(t)
        BY <3>1, <3>2 DEF t
      <4> QED BY <4>1, <4>2, <4>3, <4>4, ReadsOnBehind
    <3> QED BY <3>4, <3>5
  <2> QED BY <2>1, <2>2
<1>2. Text \subseteq P
  <2>1. \A s \in Text : (\A t \in Text : Len(t) < Len(s) => t \in P) => s \in P
    BY <1>1
  <2> HIDE DEF P
  <2> QED BY <2>1, ByLength
<1> QED BY <1>2

LEMMA OpenTail ==
  ASSUME NEW s \in Text, s # <<>>, Open(s)
  PROVE  Open(Tail(s))
<1> DEFINE t == Tail(s)
<1>1. /\ t \in Text /\ Len(t) = Len(s) - 1 /\ Len(s) \in Nat \ {0} /\ t = Drop(s, 1)
  BY TailIsDrop
<1>2. \A i \in 1..(Len(s) - 1) : t[i] = s[1 + i]
  BY <1>1, DropType
<1> HIDE DEF t
<1>3. ASSUME NEW i \in 1..(Len(t) - 1)
      PROVE  /\ t[i] \notin DOMAIN Symbols
             /\ \A j \in i..(Len(t) - 1) :
                  LET part == SubSeq(t, i, j)
                  IN ~Spells(part) /\ ~Doubled(part) /\ ~FinishesN(part)
  <2>1. i + 1 \in 1..(Len(s) - 1) /\ i \in 1..(Len(s) - 1) /\ i \in Int
    BY <1>1
  <2>2. t[i] = s[i + 1]
    BY <1>2, <2>1
  <2>3. ASSUME NEW j \in i..(Len(t) - 1) PROVE SubSeq(t, i, j) = SubSeq(s, i + 1, j + 1)
    <3> DEFINE x == SubSeq(t, i, j)
               y == SubSeq(s, i + 1, j + 1)
    <3>1. i \in 1..Len(t) /\ j \in i..Len(t) /\ i + 1 \in 1..Len(s) /\ j + 1 \in (i + 1)..Len(s)
      BY <1>1
    <3>2. /\ x \in Text /\ Len(x) = j - i + 1
          /\ \A k \in 1..(j - i + 1) : x[k] = t[i + k - 1]
      BY <1>1, <3>1, PartIs
    <3>3. /\ y \in Text /\ Len(y) = (j + 1) - (i + 1) + 1
          /\ \A k \in 1..((j + 1) - (i + 1) + 1) : y[k] = s[(i + 1) + k - 1]
      BY <1>1, <3>1, PartIs
    <3> HIDE DEF x, y
    <3>4. (j + 1) - (i + 1) + 1 = j - i + 1
      BY <2>1
    <3>5. ASSUME NEW k \in 1..Len(x) PROVE x[k] = y[k]
      <4>1. k \in 1..(j - i + 1) /\ i + k - 1 \in 1..(Len(s) - 1)
        BY <1>1, <2>1, <3>2
      <4>2. 1 + (i + k - 1) = (i + 1) + k - 1
        BY <2>1
      <4> QED BY <1>2, <3>2, <3>3, <3>4, <4>1, <4>2
    <3>6. x = y
      BY <3>2, <3>3, <3>4, <3>5, SeqEqual DEF Text
    <3> QED BY <3>6 DEF x, y
  <2>4. ASSUME NEW j \in i..(Len(t) - 1)
        PROVE  LET part == SubSeq(t, i, j)
               IN ~Spells(part) /\ ~Doubled(part) /\ ~FinishesN(part)
    <3>1. j + 1 \in (i + 1)..(Len(s) - 1)
      BY <1>1, <2>1
    <3>2. LET part == SubSeq(s, i + 1, j + 1)
          IN ~Spells(part) /\ ~Doubled(part) /\ ~FinishesN(part)
      BY <2>1, <3>1 DEF Open
    <3> QED BY <2>3, <3>2
  <2> QED BY <2>1, <2>2, <2>4 DEF Open
<1> QED BY <1>3 DEF Open, t

\* What waits, with one letter more.
LEMMA OpenOneMore ==
  ASSUME NEW p \in Text, Waits(p), NEW k \in Scalar
  PROVE  Open(Append(p, k))
<1> DEFINE a == Append(p, k)
<1>1. /\ a \in Text /\ Len(a) = Len(p) + 1 /\ Len(p) \in Nat /\ IsPrefix(p, a)
      /\ \A i \in 1..Len(p) : a[i] = p[i]
  BY OneMore
<1> HIDE DEF a
<1>2. ASSUME NEW i \in 1..(Len(a) - 1)
      PROVE  /\ a[i] \notin DOMAIN Symbols
             /\ \A j \in i..(Len(a) - 1) :
                  LET part == SubSeq(a, i, j)
                  IN ~Spells(part) /\ ~Doubled(part) /\ ~FinishesN(part)
  <2>1. i \in 1..Len(p) /\ p # <<>>
    BY <1>1, EmptyText
  <2>2. Continues(p)
    BY <2>1 DEF Waits
  <2>3. \A j \in i..(Len(a) - 1) : j \in i..Len(p) /\ SubSeq(a, i, j) = SubSeq(p, i, j)
    BY <1>1, <2>1, SamePart
  <2> QED BY <1>1, <2>1, <2>2, <2>3, WaitsOpen
<1> QED BY <1>2 DEF Open, a

\* Where nothing stands short of the end, resolving is reading.
LEMMA ResolvesOpen ==
  \A s \in Text : s # <<>> /\ Open(s) => Resolve[s] = ReadWhole[s]
<1> DEFINE P == {s \in Text : s # <<>> /\ Open(s) => Resolve[s] = ReadWhole[s]}
<1>1. ASSUME NEW s \in Text, \A t \in Text : Len(t) < Len(s) => t \in P,
             s # <<>>, Open(s)
      PROVE  Resolve[s] = ReadWhole[s]
  <2>1. /\ Tail(s) \in Text /\ Len(Tail(s)) = Len(s) - 1 /\ Len(s) \in Nat \ {0}
        /\ s[1] \in Scalar
    BY <1>1, TailIsDrop
  <2>2. Tail(s) # <<>> => Resolve[Tail(s)] = ReadWhole[Tail(s)]
    <3> DEFINE t == Tail(s)
    <3>1. t \in Text /\ Len(t) < Len(s) /\ Open(t)
      BY <1>1, <2>1, OpenTail
    <3> HIDE DEF t
    <3>2. t # <<>> => Resolve[t] = ReadWhole[t]
      BY <1>1, <3>1
    <3> QED BY <3>2 DEF t
  <2>3. /\ ReadWhole[<<>>] = EmptyComposer
        /\ \A x \in Scalar : <<x>> \in Text /\ Alone(x) \in Text
    <3>1. ReadWhole[<<>>] = EmptyComposer
      BY EmptyText, ReadWholeIs DEF ReadsAs
    <3> QED BY <3>1, RomajiAssumption DEF Alone, Text
  <2>4. Spells(s) <=> Starts(s)
    <3>1. Spells(s) => Starts(s)
      <4>1. IsPrefix(s, s)
        BY PrefixIs, <2>1
      <4> QED BY <4>1 DEF Spells, Starts
    <3>2. ASSUME NEW r \in DOMAIN RomajiTable, IsPrefix(r, s), r # s PROVE FALSE
      <4>1. r \in Text /\ Len(r) \in Nat \ {0} /\ Len(r) <= Len(s) /\ r = SubSeq(s, 1, Len(r))
        BY <3>2, Spellings, PrefixIs
      <4>2. Len(r) # Len(s)
        BY <3>2, <4>1, PrefixIs
      <4>3. 1 \in 1..(Len(s) - 1) /\ Len(r) \in 1..(Len(s) - 1)
        <5>1. \A a, b \in Nat \ {0} : a <= b /\ a # b => 1 \in 1..(b - 1) /\ a \in 1..(b - 1)
          OBVIOUS
        <5> QED BY <2>1, <4>1, <4>2, <5>1
      <4>4. ~Spells(SubSeq(s, 1, Len(r)))
        BY <1>1, <4>3 DEF Open
      <4> QED BY <4>1, <4>4 DEF Spells
    <3> QED BY <3>1, <3>2 DEF Spells, Starts
  <2>5. Doubled(s) <=> StartsDoubled(s)
    <3>1. CASE Len(s) > 2
      <4>1. 1 \in 1..(Len(s) - 1) /\ 2 \in 1..(Len(s) - 1)
        BY <2>1, <3>1
      <4>2. ~Doubled(SubSeq(s, 1, 2))
        BY <1>1, <4>1 DEF Open
      <4> QED BY <3>1, <4>2 DEF Doubled, StartsDoubled
    <3>2. CASE Len(s) = 2
      BY <3>2, PairIs DEF Doubled, StartsDoubled
    <3>3. CASE Len(s) = 1
      BY <3>3 DEF Doubled, StartsDoubled
    <3> QED BY <2>1, <3>1, <3>2, <3>3
  <2>6. FinishesN(s) <=> StartsFinished(s)
    <3>1. CASE Len(s) > 2
      <4>1. 1 \in 1..(Len(s) - 1) /\ 2 \in 1..(Len(s) - 1)
        BY <2>1, <3>1
      <4>2. ~FinishesN(SubSeq(s, 1, 2))
        BY <1>1, <4>1 DEF Open
      <4> QED BY <3>1, <4>2 DEF FinishesN, StartsFinished
    <3>2. CASE Len(s) = 2
      BY <3>2, PairIs DEF FinishesN, StartsFinished
    <3>3. CASE Len(s) = 1
      BY <3>3 DEF FinishesN, StartsFinished
    <3> QED BY <2>1, <3>1, <3>2, <3>3
  <2>7. CASE Spells(s)
    <3>1. s \in DOMAIN RomajiTable /\ IsPrefix(s, s)
      BY <2>1, <2>7, PrefixIs DEF Spells
    <3>2. Longest(s) = s /\ RomajiTable[s] \in Text
      BY <3>1, LongestIs, Spellings
    <3>3. Drop(s, Len(s)) = <<>>
      <4>1. Drop(s, Len(s)) \in Text /\ Len(Drop(s, Len(s))) = 0
        BY <2>1, DropType
      <4> QED BY <4>1, TextIsSequence
    <3>4. ReadWhole[s] = Before(RomajiTable[s], EmptyComposer)
      BY <1>1, <2>3, <2>4, <2>7, <3>2, <3>3, ReadWholeIs DEF ReadsAs
    <3>5. Resolve[s] = [kana |-> RomajiTable[s], pending |-> <<>>]
      BY <2>7, ResolveIs
    <3>6. EmptyComposer \in Resolved
      BY <2>3, EmptyText, ReadWholeIs
    <3> QED BY <3>2, <3>4, <3>5, <3>6, BeforeNothing
  <2>8. CASE ~Spells(s) /\ Doubled(s)
    <3>1. Len(s) = 2 /\ s[1] = s[2] /\ s[1] \in Geminating
      BY <2>8 DEF Doubled
    <3>2. Tail(s) = <<s[2]>>
      <4> DEFINE t == Tail(s)
      <4>1. t = Drop(s, 1) /\ t \in Text /\ Len(t) = 1
        BY <1>1, <2>1, <3>1, TailIsDrop
      <4>2. t[1] = s[2]
        <5>1. 1 \in 1..Len(s) /\ 1 \in 1..(Len(s) - 1) /\ 1 + 1 = 2
          BY <3>1
        <5>2. Drop(s, 1)[1] = s[1 + 1]
          BY <2>1, <5>1, DropType
        <5> QED BY <4>1, <5>1, <5>2
      <4> HIDE DEF t
      <4>3. t = <<t[1]>>
        BY <4>1 DEF Text
      <4> QED BY <4>2, <4>3 DEF t
    <3>3. <<s[2]>> \in Text /\ Waits(<<s[2]>>)
      BY <2>1, <2>3, <3>1, TableAssumption DEF Waits
    <3>4. ReadWhole[s] = Before(<<sokuon>>, [kana |-> <<>>, pending |-> <<s[2]>>])
      BY <1>1, <2>4, <2>5, <2>8, <3>2, <3>3, ReadWholeIs, WaitingReads DEF ReadsAs
    <3>5. Resolve[s] = [kana |-> <<sokuon>>, pending |-> <<s[2]>>]
      BY <2>8, ResolveIs
    <3>6. <<sokuon>> \in Text /\ <<sokuon>> \o <<>> = <<sokuon>>
      BY <2>3, ConcatText, RomajiAssumption
    <3> QED BY <3>4, <3>5, <3>6 DEF Before
  <2>9. CASE ~Spells(s) /\ ~Doubled(s) /\ FinishesN(s)
    <3>1. Tail(s) # <<>>
      <4>1. Len(Tail(s)) = 1 /\ Len(<<>>) = 0
        BY <2>1, <2>9, EmptyText DEF FinishesN
      <4> QED BY <4>1
    <3>2. Resolve[s] = Before(<<hatsuon>>, Resolve[Tail(s)])
      BY <2>9, ResolveIs
    <3>3. ReadWhole[s] = Before(<<hatsuon>>, ReadWhole[Tail(s)])
      BY <1>1, <2>4, <2>5, <2>6, <2>9, ReadWholeIs DEF ReadsAs
    <3> QED BY <2>2, <3>1, <3>2, <3>3
  <2>10. CASE ~Spells(s) /\ ~Doubled(s) /\ ~FinishesN(s) /\ Continues(s)
    BY <1>1, <2>4, <2>5, <2>6, <2>10, ResolveIs, ReadWholeIs DEF ReadsAs
  <2>11. CASE ~Spells(s) /\ ~Doubled(s) /\ ~FinishesN(s) /\ ~Continues(s)
    <3>1. ReadWhole[s] = Before(Alone(s[1]), ReadWhole[Tail(s)])
      BY <1>1, <2>4, <2>5, <2>6, <2>11, ReadWholeIs DEF ReadsAs
    <3>2. CASE Len(s) = 1
      <4>1. Tail(s) = <<>>
        BY <2>1, <3>2, TextIsSequence
      <4>2. Resolve[s] = [kana |-> Alone(s[1]), pending |-> <<>>]
        BY <2>11, <3>2, ResolveIs
      <4>3. EmptyComposer \in Resolved /\ Alone(s[1]) \in Text
        BY <2>1, <2>3, EmptyText, ReadWholeIs
      <4> QED BY <2>3, <3>1, <4>1, <4>2, <4>3, BeforeNothing
    <3>3. CASE Len(s) # 1
      <4>1. Resolve[s] = Before(<<s[1]>>, Resolve[Tail(s)])
        BY <2>11, <3>3, ResolveIs
      <4>2. 1 \in 1..(Len(s) - 1) /\ Tail(s) # <<>>
        <5>1. Len(Tail(s)) # 0 /\ Len(<<>>) = 0 /\ 1 \in 1..(Len(s) - 1)
          BY <2>1, <3>3, EmptyText
        <5> QED BY <5>1
      <4>3. Alone(s[1]) = <<s[1]>>
        BY <1>1, <4>2 DEF Open, Alone
      <4> QED BY <2>2, <3>1, <4>1, <4>2, <4>3
    <3> QED BY <3>2, <3>3
  <2> QED BY <2>7, <2>8, <2>9, <2>10, <2>11
<1>2. Text \subseteq P
  <2>1. \A s \in Text : (\A t \in Text : Len(t) < Len(s) => t \in P) => s \in P
    BY <1>1
  <2> HIDE DEF P
  <2> QED BY <2>1, ByLength
<1> QED BY <1>2

\* A key struck after what has been read of a run is read as its next letter.
LEMMA InsertReadsOn ==
  ASSUME NEW c, NEW k \in Scalar, NEW j \in Text, NEW s \in Text,
         c = Before(j, ReadWhole[s])
  PROVE  Insert(c, k) = Before(j, ReadWhole[Append(s, k)])
<1> DEFINE x == ReadWhole[s]
           next == ReadWhole[Append(x.pending, k)]
<1>1. x \in Resolved
  BY ReadWholeIs
<1>2. x.kana \in Text /\ x.pending \in Text /\ Waits(x.pending)
  BY <1>1, ReadOn DEF ReadsOn, Resolved
<1>3. c.kana = j \o x.kana /\ c.pending = x.pending
  BY <1>1, BeforeType
<1>4. Append(x.pending, k) \in Text /\ Append(x.pending, k) # <<>>
  BY <1>2, OneMore
<1>5. Resolve[Append(x.pending, k)] = next
  BY <1>2, <1>4, OpenOneMore, ResolvesOpen
<1>6. next \in Resolved
  BY <1>4, ReadWholeIs
<1>7. ReadWhole[Append(s, k)] = Before(x.kana, next)
  BY ReadOn DEF ReadsOn
<1>8. Insert(c, k) = Before(j \o x.kana, next)
  BY <1>3, <1>5 DEF Insert
<1> HIDE DEF x, next
<1>9. Before(j, Before(x.kana, next)) = Before(j \o x.kana, next)
  BY <1>2, <1>6, BeforeBefore
<1> QED BY <1>7, <1>8, <1>9

\* What waits was read of itself: typing resumed behind any kana goes on from it.
LEMMA ResumedReads ==
  ASSUME NEW c \in Resolved, Waits(c.pending)
  PROVE  c = Before(c.kana, ReadWhole[c.pending])
<1> DEFINE x == ReadWhole[c.pending]
           d == Before(c.kana, x)
<1>1. c.kana \in Text /\ c.pending \in Text
  BY DEF Resolved
<1>2. x \in Resolved /\ x.kana = <<>> /\ x.pending = c.pending
  <2>1. x \in Resolved
    BY <1>1, ReadWholeIs
  <2>2. x = [kana |-> <<>>, pending |-> c.pending]
    BY <1>1, WaitingReads
  <2> QED BY <2>1, <2>2
<1> HIDE DEF x
<1>3. d \in Resolved /\ d.kana = c.kana \o <<>> /\ d.pending = c.pending
  BY <1>1, <1>2, BeforeType
<1>4. c.kana \o <<>> = c.kana
  BY <1>1, ConcatText
<1> HIDE DEF d
<1>5. c = d
  BY <1>3, <1>4, SameResolved
<1> QED BY <1>5 DEF d, x

\* What a backspace takes: the last letter that waits, or else the last kana.
Erased(c, d) ==
  /\ d \in Resolved /\ Waits(d.pending)
  /\ \/ /\ d.kana = c.kana
        /\ \E x \in Scalar : c.pending = Append(d.pending, x)
     \/ /\ d.pending = <<>> /\ c.pending = <<>>
        /\ d.kana = Front(c.kana)
        /\ \E x \in Scalar : c.kana = Append(d.kana, x)

LEMMA BackspaceIs ==
  ASSUME NEW c \in Resolved, Waits(c.pending), c # EmptyComposer
  PROVE  Erased(c, Backspace(c))
<1>1. c.kana \in Text /\ c.pending \in Text
  BY DEF Resolved
<1>2. CASE c.pending # <<>>
  <2>1. PICK front \in Text, x \in Scalar : c.pending = Append(front, x)
    BY <1>1, <1>2, SequenceEmptyOrAppend DEF Text
  <2>2. Front(c.pending) = front
    BY <2>1, FrontOfAppend DEF Text
  <2>3. Backspace(c) = [c EXCEPT !.pending = front]
    BY <1>2, <2>2 DEF Backspace
  <2>4. Waits(front)
    BY <1>2, <2>1, ContinuesLess DEF Waits
  <2> DEFINE d == Backspace(c)
  <2>5. d \in Resolved /\ d.pending = front /\ d.kana = c.kana
    BY <1>1, <2>1, <2>3 DEF Resolved
  <2> HIDE DEF d
  <2> QED BY <2>1, <2>4, <2>5 DEF Erased, d
<1>3. CASE c.pending = <<>>
  <2>1. c.kana # <<>>
    BY <1>3 DEF EmptyComposer, Resolved
  <2>2. PICK front \in Text, x \in Scalar : c.kana = Append(front, x)
    BY <1>1, <2>1, SequenceEmptyOrAppend DEF Text
  <2>3. Front(c.kana) = front
    BY <2>2, FrontOfAppend DEF Text
  <2>4. Backspace(c) = [c EXCEPT !.kana = front]
    BY <1>3, <2>1, <2>3 DEF Backspace
  <2> DEFINE d == Backspace(c)
  <2>5. d \in Resolved /\ d.kana = front /\ d.pending = <<>>
    BY <1>1, <1>3, <2>2, <2>4 DEF Resolved
  <2> HIDE DEF d
  <2> QED BY <1>3, <2>2, <2>3, <2>5 DEF Erased, d, Waits
<1> QED BY <1>2, <1>3

\* A shifted letter leaves nothing that waits.
LEMMA InsertShiftedIs ==
  ASSUME NEW c \in Resolved, NEW k \in Scalar
  PROVE  InsertShifted(c, k) \in Resolved /\ InsertShifted(c, k).pending = <<>>
<1>1. c.kana \in Text /\ c.pending \in Text /\ <<k>> \in Text
  BY DEF Resolved, Text
<1>2. c.kana \o c.pending \o <<k>> \in Text
  BY <1>1, ConcatText
<1> QED BY <1>2, EmptyText DEF InsertShifted, Resolved

-------------------------------------------------------------------------------
(* Kana struck as they are.                                                *)

Kana == Struck \cup Made

\* What a kana was struck as.
AsStruck ==
  [x \in Scalar |-> IF \E pair \in DOMAIN Marked : Marked[pair] = x
                    THEN CHOOSE pair \in DOMAIN Marked : Marked[pair] = x
                    ELSE <<x>>]

LEMMA MarkedPairs ==
  ASSUME NEW pair \in DOMAIN Marked
  PROVE  /\ pair = <<pair[1], pair[2]>> /\ pair[1] \in Scalar /\ pair[2] \in Marks
         /\ pair[2] \in Scalar /\ pair \in Text /\ Marked[pair] \in Made
         /\ pair[1] \notin Made /\ pair[2] \notin Made
<1>1. pair \in Scalar \X Marks /\ Marks \subseteq Scalar
  BY KanaAssumption
<1>2. pair = <<pair[1], pair[2]>> /\ pair[1] \in Scalar /\ pair[2] \in Marks
  BY <1>1
<1>3. pair[2] \in Scalar
  BY <1>1, <1>2
<1>4. <<pair[1], pair[2]>> \in Text
  BY <1>2, <1>3 DEF Text
<1>5. Marked[pair] \in Made
  BY DEF Made
<1>6. pair[1] \notin Made /\ pair[2] \notin Made
  BY <1>2, MarkAssumption
<1> QED BY <1>2, <1>3, <1>4, <1>5, <1>6

LEMMA AsStruckIs ==
  /\ Becomes(AsStruck, Scalar, Scalar)
  /\ \A pair \in DOMAIN Marked : AsStruck[Marked[pair]] = pair
  /\ \A x \in Scalar \ Made : AsStruck[x] = <<x>>
<1>1. ASSUME NEW pair \in DOMAIN Marked PROVE AsStruck[Marked[pair]] = pair
  <2>1. Marked[pair] \in Scalar
    BY KanaAssumption
  <2>2. \A other \in DOMAIN Marked : Marked[other] = Marked[pair] => other = pair
    BY MarkAssumption DEF IsInjective
  <2>3. (CHOOSE other \in DOMAIN Marked : Marked[other] = Marked[pair]) = pair
    BY <2>2
  <2> QED BY <2>1, <2>3 DEF AsStruck
<1>2. ASSUME NEW x \in Scalar \ Made PROVE AsStruck[x] = <<x>>
  BY DEF Made, AsStruck
<1>3. ASSUME NEW x \in Scalar PROVE AsStruck[x] \in Seq(Scalar)
  <2>1. CASE x \in Made
    <3>1. PICK pair \in DOMAIN Marked : x = Marked[pair]
      BY <2>1 DEF Made
    <3> QED BY <1>1, <3>1, MarkedPairs DEF Text
  <2>2. CASE x \notin Made
    <3>1. <<x>> \in Seq(Scalar)
      OBVIOUS
    <3> QED BY <1>2, <2>2, <3>1
  <2> QED BY <2>1, <2>2
<1> QED BY <1>1, <1>2, <1>3 DEF Becomes

LEMMA UnmarkedIs ==
  ASSUME NEW t \in Text
  PROVE  Unmarked(t) = Joined(AsStruck, t)
<1>1. \A i \in DOMAIN t : t[i] \in Scalar
  BY DEF Text
<1>2. [i \in DOMAIN t |-> AsStruck[t[i]]]
        = [i \in DOMAIN t |->
             IF \E pair \in DOMAIN Marked : Marked[pair] = t[i]
             THEN CHOOSE pair \in DOMAIN Marked : Marked[pair] = t[i]
             ELSE <<t[i]>>]
  BY <1>1 DEF AsStruck
<1> QED BY <1>2 DEF Unmarked, Joined

\* One kana more is struck after what the others were struck as.
LEMMA UnmarkedGrows ==
  ASSUME NEW t \in Text, NEW x \in Scalar
  PROVE  Unmarked(Append(t, x)) = Unmarked(t) \o AsStruck[x] /\ Unmarked(t) \in Text
<1> DEFINE one == <<x>>
<1>1. t \in Seq(Scalar) /\ one \in Seq(Scalar) /\ Append(t, x) = t \o one
      /\ Append(t, x) \in Text
  BY AppendIsConcat DEF Text
<1>2. Joined(AsStruck, one) = AsStruck[x] /\ Joined(AsStruck, t) \in Seq(Scalar)
  BY <1>1, AsStruckIs, JoinedOne, JoinedType
<1> HIDE DEF one
<1>3. Unmarked(Append(t, x)) = Joined(AsStruck, t \o one)
      /\ Unmarked(t) = Joined(AsStruck, t)
  BY <1>1, UnmarkedIs
<1>4. Joined(AsStruck, t \o one) = Joined(AsStruck, t) \o Joined(AsStruck, one)
  BY <1>1, AsStruckIs, JoinedConcat
<1> QED BY <1>2, <1>3, <1>4 DEF Text

\* No mark stands behind a kana that takes it.
Unjoined(t) == \A i \in 2..Len(t) : <<t[i - 1], t[i]>> \notin DOMAIN Marked

LEMMA UnjoinedGrows ==
  ASSUME NEW t \in Text, NEW x \in Scalar
  PROVE  Unjoined(Append(t, x)) <=>
           Unjoined(t) /\ (t # <<>> => <<Last(t), x>> \notin DOMAIN Marked)
<1> DEFINE a == Append(t, x)
<1>1. /\ a \in Text /\ Len(a) = Len(t) + 1 /\ Len(t) \in Nat
      /\ a[Len(t) + 1] = x /\ \A i \in 1..Len(t) : a[i] = t[i]
  BY AppendProperties, LenProperties DEF Text
<1>2. Last(t) = t[Len(t)] /\ (t = <<>> <=> Len(t) = 0)
  BY EmptySeq DEF Last, Text
<1> HIDE DEF a
<1>3. ASSUME Unjoined(a)
      PROVE  Unjoined(t) /\ (t # <<>> => <<Last(t), x>> \notin DOMAIN Marked)
  <2>1. ASSUME NEW i \in 2..Len(t) PROVE <<t[i - 1], t[i]>> \notin DOMAIN Marked
    <3>1. i \in 2..Len(a) /\ a[i] = t[i] /\ a[i - 1] = t[i - 1]
      BY <1>1
    <3> QED BY <1>3, <3>1 DEF Unjoined
  <2>2. ASSUME t # <<>> PROVE <<Last(t), x>> \notin DOMAIN Marked
    <3> DEFINE i == Len(t) + 1
    <3>1. i \in 2..Len(a) /\ a[i] = x /\ a[i - 1] = Last(t)
      BY <1>1, <1>2, <2>2
    <3> HIDE DEF i
    <3> QED BY <1>3, <3>1 DEF Unjoined
  <2> QED BY <2>1, <2>2 DEF Unjoined
<1>4. ASSUME Unjoined(t), t # <<>> => <<Last(t), x>> \notin DOMAIN Marked
      PROVE  Unjoined(a)
  <2>1. ASSUME NEW i \in 2..Len(a) PROVE <<a[i - 1], a[i]>> \notin DOMAIN Marked
    <3>1. CASE i \in 2..Len(t)
      <4>1. a[i] = t[i] /\ a[i - 1] = t[i - 1]
        BY <1>1, <3>1
      <4> QED BY <1>4, <3>1, <4>1 DEF Unjoined
    <3>2. CASE i \notin 2..Len(t)
      <4>1. i = Len(t) + 1 /\ Len(t) \in 1..Len(t) /\ t # <<>>
        BY <1>1, <1>2, <3>2
      <4>2. a[i] = x /\ a[i - 1] = Last(t)
        BY <1>1, <1>2, <4>1
      <4> QED BY <1>4, <4>1, <4>2
    <3> QED BY <3>1, <3>2
  <2> QED BY <2>1 DEF Unjoined
<1> QED BY <1>3, <1>4 DEF a

\* Under kana entry: what was struck since stands behind what stood there before.
KanaSound(c, from, since) ==
  /\ c.pending = <<>>
  /\ c.kana \in Seq(Kana) /\ from \in Seq(Kana) /\ since \in Text
  /\ Unmarked(c.kana) = Unmarked(from) \o since
  /\ Unjoined(c.kana)

LEMMA KanaIsText == Kana \subseteq Scalar /\ Seq(Kana) \subseteq Text
<1>1. Kana \subseteq Scalar
  BY KanaAssumption DEF Kana, Struck, Made
<1> QED BY <1>1, SeqMonotonic DEF Text

LEMMA UnmarkedType == ASSUME NEW t \in Text PROVE Unmarked(t) \in Text
BY UnmarkedIs, AsStruckIs, JoinedType DEF Text

\* A mark that joins: the kana it joins was struck as itself.
LEMMA JoinKeeps ==
  ASSUME NEW front \in Seq(Kana), NEW l \in Kana, NEW struck \in Struck,
         <<l, struck>> \in DOMAIN Marked, Unjoined(Append(front, l)),
         NEW m, m = Marked[<<l, struck>>]
  PROVE  /\ m \in Kana /\ Unjoined(Append(front, m))
         /\ Unmarked(Append(front, m)) = Append(Unmarked(Append(front, l)), struck)
<1> DEFINE pair == <<l, struck>>
           f == Unmarked(front)
<1>1. /\ m \in Made /\ m \in Kana /\ l \notin Made /\ front \in Text
      /\ l \in Scalar /\ m \in Scalar /\ struck \in Scalar
  <2>1. pair[1] = l
    OBVIOUS
  <2>2. Marked[pair] \in Made /\ pair[1] \notin Made
    BY MarkedPairs
  <2> QED BY <2>1, <2>2, KanaIsText DEF Kana
<1>2. Unmarked(Append(front, m)) = f \o AsStruck[m] /\ f \in Text
  BY <1>1, UnmarkedGrows
<1>3. Unmarked(Append(front, l)) = f \o AsStruck[l]
  BY <1>1, UnmarkedGrows
<1>4. AsStruck[m] = pair /\ AsStruck[l] = <<l>>
  BY <1>1, AsStruckIs
<1> HIDE DEF f
<1>5. f \o <<l, struck>> = Append(f \o <<l>>, struck)
  <2> DEFINE one == <<l>>
             two == <<struck>>
  <2>1. one \in Text /\ two \in Text
    BY <1>1 DEF Text
  <2>2. pair = one \o two
    <3>1. /\ pair \in Text /\ Len(pair) = 2 /\ pair[1] = l /\ pair[2] = struck
          /\ Len(one) = 1 /\ Len(two) = 1 /\ one[1] = l /\ two[1] = struck
      BY <1>1 DEF Text
    <3> HIDE DEF one, two, pair
    <3>2. /\ one \o two \in Text /\ Len(one \o two) = 2
          /\ (one \o two)[1] = l /\ (one \o two)[2] = struck
      BY <2>1, <3>1, ConcatProperties DEF Text
    <3>3. \A i \in 1..2 : i = 1 \/ i = 2
      OBVIOUS
    <3> QED BY <3>1, <3>2, <3>3, SeqEqual DEF Text
  <2> HIDE DEF one, two, pair
  <2>3. f \o (one \o two) = (f \o one) \o two /\ f \o one \in Text
    BY <1>2, <2>1, ConcatTexts, ConcatText
  <2>4. Append(f \o one, struck) = (f \o one) \o <<struck>>
    BY <1>1, <2>3, AppendIsConcat DEF Text
  <2> QED BY <2>2, <2>3, <2>4 DEF one, two, pair
<1>6. Unjoined(Append(front, m))
  <2>1. Unjoined(front)
    BY <1>1, UnjoinedGrows
  <2>2. ASSUME NEW y PROVE <<y, m>> \notin DOMAIN Marked
    <3>1. ASSUME <<y, m>> \in DOMAIN Marked PROVE FALSE
      <4> DEFINE other == <<y, m>>
      <4>1. other[2] = m
        OBVIOUS
      <4>2. other[2] \notin Made
        BY <3>1, MarkedPairs
      <4> QED BY <1>1, <4>1, <4>2
    <3> QED BY <3>1
  <2> QED BY <1>1, <2>1, <2>2, UnjoinedGrows
<1> QED BY <1>1, <1>2, <1>3, <1>4, <1>5, <1>6

LEMMA InsertKanaKeeps ==
  ASSUME NEW c \in Resolved, NEW key \in DOMAIN KanaKeys, NEW from, NEW since,
         KanaSound(c, from, since)
  PROVE  /\ InsertKana(c, key) \in Resolved
         /\ KanaSound(InsertKana(c, key), from, Append(since, KanaKeys[key]))
<1> DEFINE struck == KanaKeys[key]
           next == InsertKana(c, key)
           k == c.kana
           more == Append(since, struck)
<1>1. /\ struck \in Struck /\ struck \in Kana /\ struck \in Scalar /\ struck \notin Made
      /\ k \in Seq(Kana) /\ k \in Text /\ from \in Text /\ since \in Text
  <2>1. struck \in Struck
    BY DEF Struck
  <2>2. struck \notin Made
    BY <2>1, MarkAssumption
  <2> QED BY <2>1, <2>2, KanaIsText DEF Kana, KanaSound
<1>2. Unmarked(from) \in Text /\ Unmarked(k) \in Text /\ Unmarked(k) = Unmarked(from) \o since
  BY <1>1, UnmarkedType DEF KanaSound
<1>3. Append(Unmarked(k), struck) = Unmarked(from) \o more /\ more \in Text
  <2> DEFINE two == <<struck>>
             u == Unmarked(from)
  <2>1. two \in Text /\ more = since \o two /\ more \in Text
    BY <1>1, AppendIsConcat, AppendProperties DEF Text
  <2>2. Append(Unmarked(k), struck) = Unmarked(k) \o two
    BY <1>1, <1>2, AppendIsConcat DEF Text
  <2> HIDE DEF two, u
  <2>3. (u \o since) \o two = u \o (since \o two)
    BY <1>1, <1>2, <2>1, ConcatTexts DEF u
  <2> QED BY <1>2, <2>1, <2>2, <2>3 DEF u
<1> DEFINE Good(t) == /\ t \in Seq(Kana) /\ Unjoined(t)
                      /\ Unmarked(t) = Append(Unmarked(k), struck)
<1>4. ASSUME NEW t, Good(t), next = [c EXCEPT !.kana = t]
      PROVE  next \in Resolved /\ KanaSound(next, from, more)
  <2>1. t \in Text
    BY <1>4, KanaIsText
  <2> HIDE DEF next
  <2>2. next \in Resolved /\ next.kana = t /\ next.pending = c.pending
    BY <1>4, <2>1 DEF Resolved
  <2> HIDE DEF more
  <2> QED BY <1>3, <1>4, <2>2 DEF KanaSound
<1>5. CASE k # <<>> /\ <<Last(k), struck>> \in DOMAIN Marked
  <2>1. PICK front \in Seq(Kana), l \in Kana : k = Append(front, l)
    BY <1>1, <1>5, SequenceEmptyOrAppend
  <2>2. Front(k) = front /\ Last(k) = l
    BY <2>1, FrontOfAppend
  <2> DEFINE m == Marked[<<l, struck>>]
  <2>3. next = [c EXCEPT !.kana = Append(front, m)]
    BY <1>5, <2>2 DEF InsertKana
  <2>4. Unjoined(Append(front, l))
    BY <2>1 DEF KanaSound
  <2>5. <<l, struck>> \in DOMAIN Marked
    BY <1>5, <2>2
  <2> HIDE DEF m, struck
  <2>6. /\ m \in Kana /\ Unjoined(Append(front, m))
        /\ Unmarked(Append(front, m)) = Append(Unmarked(Append(front, l)), struck)
    BY <1>1, <2>4, <2>5, JoinKeeps DEF m
  <2> DEFINE t == Append(front, m)
  <2>7. t \in Seq(Kana)
    BY <2>6, AppendProperties
  <2>8. next = [c EXCEPT !.kana = t] /\ Good(t)
    BY <2>1, <2>3, <2>6, <2>7
  <2> HIDE DEF t, next, more, Good
  <2>9. next \in Resolved /\ KanaSound(next, from, more)
    BY <1>4, <2>8
  <2> QED BY <2>9 DEF next, more, struck
<1>6. CASE ~(k # <<>> /\ <<Last(k), struck>> \in DOMAIN Marked)
  <2>1. next = [c EXCEPT !.kana = Append(k, struck)]
    BY <1>6 DEF InsertKana
  <2>2. Unjoined(k)
    BY DEF KanaSound
  <2>3. Unjoined(Append(k, struck))
    BY <1>1, <1>6, <2>2, UnjoinedGrows
  <2>4. Unmarked(Append(k, struck)) = Unmarked(k) \o AsStruck[struck]
    BY <1>1, UnmarkedGrows
  <2>5. AsStruck[struck] = <<struck>>
    BY <1>1, AsStruckIs
  <2>6. Append(Unmarked(k), struck) = Unmarked(k) \o <<struck>>
    BY <1>1, <1>2, AppendIsConcat DEF Text
  <2> DEFINE t == Append(k, struck)
  <2>7. t \in Seq(Kana)
    BY <1>1, AppendProperties
  <2>8. next = [c EXCEPT !.kana = t] /\ Good(t)
    BY <2>1, <2>3, <2>4, <2>5, <2>6, <2>7
  <2> HIDE DEF t, next, more, Good
  <2>9. next \in Resolved /\ KanaSound(next, from, more)
    BY <1>4, <2>8
  <2> QED BY <2>9 DEF next, more
<1> QED BY <1>5, <1>6

-------------------------------------------------------------------------------
(* What is shown of the buffer, in every script and style.                 *)

\* One scalar for every scalar.
Each(f, q) == [i \in DOMAIN q |-> f[q[i]]]

Maps(f, S, T) == \A x \in S : f[x] \in T

OneForOne(f, q, T, e) ==
  /\ e \in Seq(T) /\ Len(e) = Len(q) /\ Len(q) \in Nat
  /\ \A i \in 1..Len(q) : e[i] = f[q[i]]

LEMMA EachIs ==
  ASSUME NEW S, NEW T, NEW f, Maps(f, S, T), NEW q \in Seq(S)
  PROVE  OneForOne(f, q, T, Each(f, q))
<1>1. DOMAIN q = 1..Len(q) /\ Len(q) \in Nat /\ \A i \in 1..Len(q) : q[i] \in S
  OBVIOUS
<1>2. Each(f, q) \in [1..Len(q) -> T]
  BY <1>1 DEF Each, Maps
<1>3. Each(f, q) \in Seq(T) /\ Len(Each(f, q)) = Len(q)
  BY <1>1, <1>2, IsASeq, LenProperties
<1>4. \A i \in 1..Len(q) : Each(f, q)[i] = f[q[i]]
  BY <1>1 DEF Each
<1> QED BY <1>1, <1>3, <1>4 DEF OneForOne

LEMMA EachOne ==
  ASSUME NEW S, NEW T, NEW f, Maps(f, S, T), NEW x \in S
  PROVE  Each(f, <<x>>) = <<f[x]>>
<1> DEFINE q == <<x>>
           a == Each(f, q)
           b == <<f[x]>>
<1>1. /\ q \in Seq(S) /\ Len(q) = 1 /\ q[1] = x
      /\ b \in Seq(T) /\ Len(b) = 1 /\ b[1] = f[x]
  BY DEF Maps
<1> HIDE DEF q, b
<1>2. a \in Seq(T) /\ Len(a) = 1 /\ a[1] = f[x]
  <2>1. OneForOne(f, q, T, a)
    BY <1>1, EachIs
  <2> HIDE DEF a
  <2> QED BY <1>1, <2>1 DEF OneForOne
<1> HIDE DEF a
<1>3. a = b
  BY <1>1, <1>2, SeqEqual
<1> QED BY <1>3 DEF a, b, q

LEMMA EachConcat ==
  ASSUME NEW S, NEW T, NEW f, Maps(f, S, T), NEW q \in Seq(S), NEW r \in Seq(S)
  PROVE  Each(f, q \o r) = Each(f, q) \o Each(f, r)
<1> DEFINE p == q \o r
           a == Each(f, q)
           b == Each(f, r)
           c == Each(f, p)
           d == a \o b
<1>1. /\ p \in Seq(S) /\ Len(p) = Len(q) + Len(r) /\ Len(q) \in Nat /\ Len(r) \in Nat
      /\ \A i \in 1..(Len(q) + Len(r)) : p[i] = IF i <= Len(q) THEN q[i] ELSE r[i - Len(q)]
  BY ConcatProperties, LenProperties
<1> HIDE DEF p
<1>0. OneForOne(f, q, T, a) /\ OneForOne(f, r, T, b) /\ OneForOne(f, p, T, c)
  BY <1>1, EachIs
<1> HIDE DEF a, b, c
<1>2. /\ a \in Seq(T) /\ Len(a) = Len(q) /\ \A i \in 1..Len(q) : a[i] = f[q[i]]
      /\ b \in Seq(T) /\ Len(b) = Len(r) /\ \A i \in 1..Len(r) : b[i] = f[r[i]]
  BY <1>0 DEF OneForOne
<1>3. /\ c \in Seq(T) /\ Len(c) = Len(p) /\ \A i \in 1..Len(p) : c[i] = f[p[i]]
  BY <1>0 DEF OneForOne
<1>4. /\ d \in Seq(T) /\ Len(d) = Len(a) + Len(b)
      /\ \A i \in 1..(Len(a) + Len(b)) : d[i] = IF i <= Len(a) THEN a[i] ELSE b[i - Len(a)]
  BY <1>2, ConcatProperties
<1> HIDE DEF d
<1>5. ASSUME NEW i \in 1..Len(p) PROVE c[i] = d[i]
  <2>1. CASE i <= Len(q)
    <3>1. i \in 1..Len(q)
      BY <2>1, <1>1
    <3>2. c[i] = f[q[i]]
      BY <2>1, <1>1, <1>3
    <3>3. d[i] = a[i]
      BY <2>1, <1>1, <1>2, <1>4
    <3> QED BY <3>1, <3>2, <3>3, <1>2
  <2>2. CASE ~(i <= Len(q))
    <3>1. i - Len(q) \in 1..Len(r)
      BY <2>2, <1>1
    <3>2. c[i] = f[r[i - Len(q)]]
      BY <2>2, <1>1, <1>3
    <3>3. d[i] = b[i - Len(q)]
      BY <2>2, <1>1, <1>2, <1>4
    <3> QED BY <3>1, <3>2, <3>3, <1>2
  <2> QED BY <2>1, <2>2
<1>6. c = d
  BY <1>1, <1>2, <1>3, <1>4, <1>5, SeqEqual
<1> QED BY <1>6 DEF a, b, c, d, p

\* Restyling is one scalar for each, and leaves the others alone.
Restyle(settings) ==
  [x \in Scalar |-> IF settings = InScript(settings.script) THEN x ELSE Restyled(x, settings)]

LEMMA StyledIs ==
  ASSUME NEW settings
  PROVE  /\ Maps(Restyle(settings), Scalar, Scalar)
         /\ \A t \in Text : Styled(t, settings) = Each(Restyle(settings), t)
<1>1. ASSUME NEW x \in Scalar PROVE Restyle(settings)[x] \in Scalar
  <2>1. /\ \A y \in DOMAIN Periods : Periods[y] \in Scalar
        /\ \A y \in DOMAIN Brackets : Brackets[y] \in Scalar
        /\ \A y \in DOMAIN Middot : Middot[y] \in Scalar
    BY RomajiAssumption
  <2>2. Restyled(x, settings) \in Scalar
    BY <2>1 DEF Restyled
  <2> QED BY <2>2 DEF Restyle
<1>2. ASSUME NEW t \in Text PROVE Styled(t, settings) = Each(Restyle(settings), t)
  <2>1. \A i \in DOMAIN t : t[i] \in Scalar
    BY DEF Text
  <2>2. CASE settings = InScript(settings.script)
    <3>1. Styled(t, settings) = t
      BY <2>2 DEF Styled
    <3>2. \A i \in DOMAIN t : Restyle(settings)[t[i]] = t[i]
      BY <2>1, <2>2 DEF Restyle
    <3>3. t = [i \in DOMAIN t |-> t[i]]
      BY DEF Text
    <3> QED BY <3>1, <3>2, <3>3 DEF Each
  <2>3. CASE settings # InScript(settings.script)
    <3>1. \A i \in DOMAIN t : Restyle(settings)[t[i]] = Restyled(t[i], settings)
      BY <2>1, <2>3 DEF Restyle
    <3>2. Styled(t, settings) = [i \in DOMAIN t |-> Restyled(t[i], settings)]
      BY <2>3 DEF Styled
    <3> QED BY <3>1, <3>2 DEF Each
  <2> QED BY <2>2, <2>3
<1> QED BY <1>1, <1>2 DEF Maps

Singly(f, S) == [x \in S |-> <<f[x]>>]

LEMMA EachJoined ==
  ASSUME NEW S, NEW T, NEW f, Maps(f, S, T)
  PROVE  /\ Becomes(Singly(f, S), S, T)
         /\ \A q \in Seq(S) : Each(f, q) = Joined(Singly(f, S), q)
<1> DEFINE F == Singly(f, S)
           P == {q \in Seq(S) : Each(f, q) = Joined(F, q)}
<1>1. Becomes(F, S, T) /\ \A x \in S : F[x] = <<f[x]>>
  BY DEF Becomes, Singly, Maps
<1> HIDE DEF F
<1>2. <<>> \in P
  <2> DEFINE e == <<>>
             a == Each(f, e)
  <2>1. e \in Seq(S) /\ Len(e) = 0
    OBVIOUS
  <2> HIDE DEF e
  <2>2. OneForOne(f, e, T, a)
    BY <2>1, EachIs
  <2> HIDE DEF a
  <2>3. a = <<>>
    BY <2>1, <2>2, EmptySeq DEF OneForOne
  <2>4. Joined(F, <<>>) = <<>>
    BY JoinedEmpty
  <2> QED BY <2>1, <2>3, <2>4 DEF a, e
<1>3. ASSUME NEW q \in Seq(S), NEW x \in S, q \in P PROVE Append(q, x) \in P
  <2> DEFINE one == <<x>>
  <2>1. one \in Seq(S) /\ Append(q, x) = q \o one /\ Append(q, x) \in Seq(S)
    BY AppendIsConcat
  <2>2. Each(f, one) = F[x] /\ Joined(F, one) = F[x]
    BY <1>1, EachOne, JoinedOne
  <2> HIDE DEF one
  <2>3. Each(f, q \o one) = Each(f, q) \o Each(f, one)
    BY <2>1, EachConcat
  <2>4. Joined(F, q \o one) = Joined(F, q) \o Joined(F, one)
    BY <1>1, <2>1, JoinedConcat
  <2> QED BY <1>3, <2>1, <2>2, <2>3, <2>4
<1> HIDE DEF P
<1>4. Seq(S) \subseteq P
  BY <1>2, <1>3, SequenceInduction
<1> QED BY <1>1, <1>4 DEF P, F

\* What one kana is written as.
Written(script) ==
  [x \in Scalar |->
     IF script = "halfwidth" /\ x \in DOMAIN Halfwidth THEN Halfwidth[x]
     ELSE IF script = "katakana" /\ x \in DOMAIN Katakana THEN <<Katakana[x]>>
     ELSE <<x>>]

LEMMA ScriptedIs ==
  ASSUME NEW script \in {"hiragana", "katakana", "halfwidth"}
  PROVE  /\ Becomes(Written(script), Scalar, Scalar)
         /\ \A t \in Text : Scripted(t, script) = Joined(Written(script), t)
<1>1. ASSUME NEW x \in Scalar PROVE Written(script)[x] \in Seq(Scalar)
  <2>1. /\ \A h \in DOMAIN Halfwidth : Halfwidth[h] \in Text
        /\ \A h \in DOMAIN Katakana : Katakana[h] \in Scalar
    BY RomajiAssumption
  <2> QED BY <2>1 DEF Written, Text
<1>2. ASSUME NEW t \in Text PROVE Scripted(t, script) = Joined(Written(script), t)
  <2>1. \A i \in DOMAIN t : t[i] \in Scalar
    BY DEF Text
  <2>2. CASE script = "hiragana"
    <3> DEFINE f == [x \in Scalar |-> x]
    <3>1. Maps(f, Scalar, Scalar) /\ Singly(f, Scalar) = Written(script)
      BY <2>2 DEF Maps, Singly, Written
    <3>2. t = [i \in DOMAIN t |-> t[i]]
      BY DEF Text
    <3>3. Each(f, t) = t
      BY <2>1, <3>2 DEF Each
    <3> HIDE DEF f
    <3>4. Each(f, t) = Joined(Singly(f, Scalar), t)
      BY <3>1, EachJoined DEF Text
    <3> QED BY <2>2, <3>1, <3>3, <3>4 DEF Scripted
  <2>3. CASE script = "katakana"
    <3> DEFINE f == [x \in Scalar |-> IF x \in DOMAIN Katakana THEN Katakana[x] ELSE x]
    <3>1. Maps(f, Scalar, Scalar)
      BY RomajiAssumption DEF Maps
    <3>2. Singly(f, Scalar) = Written(script)
      BY <2>3 DEF Singly, Written
    <3>3. Scripted(t, script) = Each(f, t)
      BY <2>1, <2>3 DEF Scripted, Each
    <3> HIDE DEF f
    <3>4. Each(f, t) = Joined(Singly(f, Scalar), t)
      BY <3>1, EachJoined DEF Text
    <3> QED BY <3>2, <3>3, <3>4
  <2>4. CASE script = "halfwidth"
    <3>1. [i \in DOMAIN t |-> Written(script)[t[i]]]
            = [i \in DOMAIN t |-> IF t[i] \in DOMAIN Halfwidth THEN Halfwidth[t[i]]
                                                               ELSE <<t[i]>>]
      BY <2>1, <2>4 DEF Written
    <3> QED BY <2>4, <3>1 DEF Scripted, Joined
  <2> QED BY <2>2, <2>3, <2>4
<1> QED BY <1>1, <1>2 DEF Becomes

\* What one kana is shown as.
Shown(settings) == [x \in Scalar |-> Styled(Written(settings.script)[x], settings)]

LEMMA ShownIs ==
  ASSUME NEW settings \in AllSettings
  PROVE  /\ Becomes(Shown(settings), Scalar, Scalar)
         /\ \A t \in Text : Styled(Scripted(t, settings.script), settings)
                              = Joined(Shown(settings), t)
<1> DEFINE F == Written(settings.script)
           G == Shown(settings)
           f == Restyle(settings)
           P == {t \in Text : Each(f, Joined(F, t)) = Joined(G, t)}
<1>1. settings.script \in {"hiragana", "katakana", "halfwidth"}
  BY DEF AllSettings
<1>2. /\ Becomes(F, Scalar, Scalar)
      /\ \A t \in Text : Scripted(t, settings.script) = Joined(F, t)
  BY <1>1, ScriptedIs
<1>3. Maps(f, Scalar, Scalar) /\ \A t \in Text : Styled(t, settings) = Each(f, t)
  BY StyledIs
<1>4. \A x \in Scalar : F[x] \in Text
  BY <1>2 DEF Becomes, Text
<1>5. \A x \in Scalar : G[x] = Each(f, F[x])
  BY <1>3, <1>4 DEF Shown
<1> HIDE DEF F, G, f
<1>6. \A t \in Text : Each(f, t) \in Text
  <2>1. ASSUME NEW t \in Text PROVE Each(f, t) \in Text
    <3>1. OneForOne(f, t, Scalar, Each(f, t))
      BY <1>3, EachIs DEF Text
    <3> QED BY <3>1 DEF OneForOne, Text
  <2> QED BY <2>1
<1>7. Becomes(G, Scalar, Scalar)
  BY <1>4, <1>5, <1>6 DEF Becomes, Text
<1>8. <<>> \in P
  <2> DEFINE e == <<>>
             a == Each(f, e)
  <2>1. e \in Text /\ Len(e) = 0
    BY EmptyText
  <2> HIDE DEF e
  <2>2. OneForOne(f, e, Scalar, a)
    BY <1>3, <2>1, EachIs DEF Text
  <2> HIDE DEF a
  <2>3. a = <<>>
    BY <2>1, <2>2, EmptySeq DEF OneForOne
  <2>4. Joined(F, <<>>) = <<>> /\ Joined(G, <<>>) = <<>>
    BY JoinedEmpty
  <2> QED BY <2>1, <2>3, <2>4 DEF a, e
<1>9. ASSUME NEW t \in Text, NEW x \in Scalar, t \in P PROVE Append(t, x) \in P
  <2> DEFINE one == <<x>>
             j == Joined(F, t)
  <2>1. one \in Text /\ Append(t, x) = t \o one /\ Append(t, x) \in Text
    BY AppendIsConcat DEF Text
  <2>2. Joined(F, one) = F[x] /\ Joined(G, one) = G[x]
    BY <1>2, <1>7, JoinedOne
  <2> HIDE DEF one
  <2>3. Joined(F, t \o one) = j \o F[x] /\ Joined(G, t \o one) = Joined(G, t) \o G[x]
    <3>1. t \in Seq(Scalar) /\ one \in Seq(Scalar)
      BY <2>1 DEF Text
    <3>2. Joined(F, t \o one) = Joined(F, t) \o Joined(F, one)
      BY <1>2, <3>1, JoinedConcat
    <3>3. Joined(G, t \o one) = Joined(G, t) \o Joined(G, one)
      BY <1>7, <3>1, JoinedConcat
    <3> QED BY <2>2, <3>2, <3>3
  <2>4. j \in Text
    BY <1>2, JoinedType DEF Text
  <2> HIDE DEF j
  <2>5. Each(f, j \o F[x]) = Each(f, j) \o Each(f, F[x])
    BY <1>3, <1>4, <2>4, EachConcat DEF Text
  <2>6. Each(f, j) = Joined(G, t)
    BY <1>9 DEF j
  <2>7. Each(f, Joined(F, Append(t, x))) = Joined(G, Append(t, x))
    BY <1>5, <2>1, <2>3, <2>5, <2>6
  <2> QED BY <2>1, <2>7
<1> HIDE DEF P
<1>10. Text \subseteq P
  BY <1>8, <1>9, SequenceInduction DEF Text
<1>11. ASSUME NEW t \in Text
       PROVE  Styled(Scripted(t, settings.script), settings) = Joined(G, t)
  <2>1. Joined(F, t) \in Text
    BY <1>2, JoinedType DEF Text
  <2>2. Each(f, Joined(F, t)) = Joined(G, t)
    BY <1>10 DEF P
  <2> QED BY <1>2, <1>3, <2>1, <2>2
<1> QED BY <1>7, <1>11 DEF G

LEMMA DisplayIs ==
  ASSUME NEW settings \in AllSettings, NEW c \in Resolved
  PROVE  /\ Display(c, settings) = Joined(Shown(settings), c.kana) \o c.pending
         /\ Joined(Shown(settings), c.kana) \in Text
<1>1. c.kana \in Text
  BY DEF Resolved
<1>2. Becomes(Shown(settings), Scalar, Scalar)
      /\ Styled(Scripted(c.kana, settings.script), settings) = Joined(Shown(settings), c.kana)
  BY <1>1, ShownIs
<1>3. Joined(Shown(settings), c.kana) \in Text
  BY <1>1, <1>2, JoinedType DEF Text
<1> QED BY <1>2, <1>3 DEF Display

\* How much of the line one kana takes.
LEMMA ShownWidth ==
  ASSUME NEW settings \in AllSettings, NEW x \in Scalar
  PROVE  /\ Shown(settings)[x] \in Text
         /\ Len(Shown(settings)[x])
              = IF settings.script = "halfwidth" /\ x \in DOMAIN Halfwidth
                THEN Len(Halfwidth[x]) ELSE 1
<1> DEFINE w == Written(settings.script)[x]
           f == Restyle(settings)
           shows == Shown(settings)[x]
<1>1. settings.script \in {"hiragana", "katakana", "halfwidth"}
  BY DEF AllSettings
<1>2. w \in Text
  BY <1>1, ScriptedIs DEF Becomes, Text
<1>3. Len(w) = IF settings.script = "halfwidth" /\ x \in DOMAIN Halfwidth
               THEN Len(Halfwidth[x]) ELSE 1
  BY DEF Written
<1>4. shows = Styled(w, settings)
  BY DEF Shown
<1> HIDE DEF w, shows
<1>5. OneForOne(f, w, Scalar, Each(f, w)) /\ shows = Each(f, w)
  BY <1>2, <1>4, StyledIs, EachIs DEF Text
<1> HIDE DEF f
<1>6. shows \in Text /\ Len(shows) = Len(w)
  BY <1>5 DEF OneForOne, Text
<1> QED BY <1>3, <1>6 DEF shows

LEMMA ConcatBegins ==
  ASSUME NEW s \in Text, NEW t \in Text
  PROVE  IsPrefix(s, s \o t) /\ Len(s \o t) - Len(s) = Len(t)
<1> DEFINE c == s \o t
<1>1. /\ c \in Text /\ Len(c) = Len(s) + Len(t) /\ Len(s) \in Nat /\ Len(t) \in Nat
      /\ \A i \in 1..(Len(s) + Len(t)) : c[i] = IF i <= Len(s) THEN s[i] ELSE t[i - Len(s)]
  BY ConcatProperties, LenProperties DEF Text
<1> HIDE DEF c
<1>2. Len(s) <= Len(c) /\ Len(c) - Len(s) = Len(t)
  BY <1>1
<1>3. \A i \in 1..Len(s) : s[i] = c[i]
  BY <1>1
<1>4. IsPrefix(s, c)
  BY <1>1, <1>2, <1>3, PrefixIs
<1> QED BY <1>2, <1>4 DEF c

\* What a backspace takes off the line.
LEMMA ErasedTakesLast ==
  ASSUME NEW c \in Resolved, NEW d, Erased(c, d), NEW settings \in AllSettings
  PROVE  TakesLast(c, d, settings)
<1> DEFINE F == Shown(settings)
<1>1. /\ c.kana \in Text /\ c.pending \in Text
      /\ d \in Resolved /\ d.kana \in Text /\ d.pending \in Text
  BY DEF Erased, Resolved
<1>2. /\ Display(c, settings) = Joined(F, c.kana) \o c.pending
      /\ Display(d, settings) = Joined(F, d.kana) \o d.pending
      /\ Joined(F, c.kana) \in Text /\ Joined(F, d.kana) \in Text
  BY <1>1, DisplayIs
<1>3. Becomes(F, Scalar, Scalar)
  BY ShownIs
<1>4. \A x \in Scalar :
        /\ F[x] \in Text
        /\ Len(F[x]) = IF settings.script = "halfwidth" /\ x \in DOMAIN Halfwidth
                       THEN Len(Halfwidth[x]) ELSE 1
  BY ShownWidth
<1> HIDE DEF F
<1>5. CASE d.kana = c.kana /\ \E x \in Scalar : c.pending = Append(d.pending, x)
  <2>1. PICK x \in Scalar : c.pending = Append(d.pending, x)
    BY <1>5
  <2> DEFINE one == <<x>>
             left == Display(d, settings)
             shows == Display(c, settings)
  <2>2. /\ one \in Text /\ Len(one) = 1 /\ c.pending = d.pending \o one
        /\ c.pending # <<>>
    BY <1>1, <2>1, AppendIsConcat, FrontOfAppend DEF Text
  <2> HIDE DEF one
  <2>3. shows = left \o one /\ left \in Text
    <3>1. (Joined(F, c.kana) \o d.pending) \o one = Joined(F, c.kana) \o (d.pending \o one)
      BY <1>1, <1>2, <2>2, ConcatTexts
    <3> QED BY <1>1, <1>2, <1>5, <2>2, <3>1, ConcatText
  <2> HIDE DEF left, shows
  <2>4. IsPrefix(left, shows) /\ Len(shows) - Len(left) = 1
    BY <2>2, <2>3, ConcatBegins
  <2> QED BY <2>2, <2>4 DEF TakesLast, left, shows
<1>6. CASE /\ d.pending = <<>> /\ c.pending = <<>>
           /\ \E x \in Scalar : c.kana = Append(d.kana, x)
  <2>1. PICK x \in Scalar : c.kana = Append(d.kana, x)
    BY <1>6
  <2> DEFINE one == <<x>>
             left == Display(d, settings)
             shows == Display(c, settings)
             k == Joined(F, d.kana)
  <2>2. one \in Text /\ c.kana = d.kana \o one /\ Last(c.kana) = x
    BY <1>1, <2>1, AppendIsConcat, FrontOfAppend DEF Text
  <2>3. Joined(F, one) = F[x]
    BY <1>3, JoinedOne
  <2> HIDE DEF one
  <2>4. Joined(F, d.kana \o one) = Joined(F, d.kana) \o Joined(F, one)
    BY <1>1, <1>3, <2>2, JoinedConcat DEF Text
  <2>5. left = k /\ shows = k \o F[x] /\ k \in Text
    <3>1. \A t \in Text : t \o <<>> = t
      BY ConcatText
    <3> QED BY <1>2, <1>6, <2>2, <2>3, <2>4, <3>1
  <2>6. F[x] \in Text
    BY <1>4
  <2> HIDE DEF left, shows, k
  <2>7. IsPrefix(left, shows) /\ Len(shows) - Len(left) = Len(F[x])
    BY <2>5, <2>6, ConcatBegins
  <2> QED BY <1>4, <1>6, <2>2, <2>7 DEF TakesLast, left, shows
<1> QED BY <1>5, <1>6 DEF Erased

\* Under kana entry nothing of full width is shown in half-width katakana.
LEMMA HalfwidthOnly ==
  ASSUME NEW c \in Resolved, c.pending = <<>>, c.kana \in Seq(Kana),
         NEW settings \in AllSettings, settings.script = "halfwidth"
  PROVE  ToSet(Display(c, settings)) \cap Fullwidth = {}
<1> DEFINE F == Shown(settings)
           T == Scalar \ Fullwidth
           j == Joined(F, c.kana)
<1>1. ASSUME NEW x \in Kana PROVE F[x] \in Seq(T)
  <2>1. x \in Scalar /\ x \in DOMAIN Halfwidth
    BY KanaIsText, MarkAssumption DEF Kana
  <2>2. F[x] = Styled(Halfwidth[x], settings)
    BY <2>1 DEF Shown, Written
  <2>3. ToSet(F[x]) \cap Fullwidth = {}
    BY <2>1, <2>2, WidthAssumption
  <2>4. F[x] \in Seq(Scalar)
    BY <2>1, ShownWidth DEF Text
  <2> HIDE DEF F
  <2>5. \A i \in 1..Len(F[x]) : F[x][i] \in T
    BY <2>3, <2>4 DEF ToSet
  <2> HIDE DEF T
  <2>6. F[x] \in [1..Len(F[x]) -> T] /\ Len(F[x]) \in Nat
    BY <2>4, <2>5
  <2> QED BY <2>6, IsASeq
<1>2. Display(c, settings) = j
  <2>1. Display(c, settings) = Joined(F, c.kana) \o <<>> /\ Joined(F, c.kana) \in Text
    BY DisplayIs
  <2> QED BY <2>1, ConcatText
<1>3. j \in Seq(T)
  <2>1. Becomes(F, Kana, T)
    BY <1>1 DEF Becomes
  <2> HIDE DEF F, T
  <2> QED BY <2>1, JoinedType
<1> HIDE DEF j, F
<1>4. \A i \in DOMAIN j : j[i] \in T
  BY <1>3
<1> QED BY <1>2, <1>4 DEF ToSet

-------------------------------------------------------------------------------
(* The typing front end.                                                   *)

\* What is pending still waits; under romaji entry the buffer is what the letters
\* typed since read as, behind the kana that stood there; under kana entry it is
\* what was struck.
TypingInv ==
  /\ method \in {"romaji", "kana"}
  /\ buffer \in Resolved /\ base \in Text /\ typed \in Text
  /\ Waits(buffer.pending)
  /\ method = "romaji" => buffer = Before(base, ReadWhole[typed])
  /\ method = "kana" => KanaSound(buffer, base, typed)

LEMMA EmptyIs ==
  /\ EmptyComposer \in Resolved /\ Waits(EmptyComposer.pending)
  /\ EmptyComposer = Before(<<>>, ReadWhole[<<>>])
  /\ KanaSound(EmptyComposer, <<>>, <<>>)
<1>1. /\ EmptyComposer \in Resolved /\ EmptyComposer.pending = <<>>
      /\ EmptyComposer.kana = <<>>
  BY EmptyText DEF EmptyComposer, Resolved
<1>2. Waits(EmptyComposer.pending)
  BY <1>1 DEF Waits
<1>3. EmptyComposer = Before(<<>>, ReadWhole[<<>>])
  BY <1>1, <1>2, ResumedReads
<1>4. Unmarked(<<>>) = <<>>
  BY EmptyText, UnmarkedIs, JoinedEmpty
<1>5. Unmarked(<<>>) = Unmarked(<<>>) \o <<>>
  BY <1>4
<1>6. Unjoined(<<>>)
  BY EmptyText DEF Unjoined
<1>7. <<>> \in Seq(Kana) /\ <<>> \in Text
  BY EmptyText
<1> HIDE DEF EmptyComposer
<1>8. KanaSound(EmptyComposer, <<>>, <<>>)
  BY <1>1, <1>5, <1>6, <1>7 DEF KanaSound
<1> QED BY <1>1, <1>2, <1>3, <1>8

LEMMA TypingStarts == TypingInit => TypingInv
<1> SUFFICES ASSUME TypingInit PROVE TypingInv
  OBVIOUS
<1>1. /\ buffer = EmptyComposer /\ base = <<>> /\ typed = <<>>
      /\ method \in {"romaji", "kana"}
  BY DEF TypingInit
<1> HIDE DEF EmptyComposer
<1> QED BY <1>1, EmptyIs, EmptyText DEF TypingInv

LEMMA TypeKeeps ==
  ASSUME TypingInv, Type
  PROVE  TypingInv'
<1>1. PICK k \in TypedKeys : buffer' = Insert(buffer, k) /\ typed' = Append(typed, k)
  BY DEF Type
<1>2. method = "romaji" /\ method' = method /\ base' = base
  BY DEF Type
<1>3. k \in Scalar /\ base \in Text /\ typed \in Text
  BY KanaAssumption DEF TypingInv
<1>4. buffer = Before(base, ReadWhole[typed])
  BY <1>2 DEF TypingInv
<1> DEFINE more == Append(typed, k)
           x == ReadWhole[more]
<1>5. buffer' = Before(base, x)
  BY <1>1, <1>3, <1>4, InsertReadsOn
<1>6. more \in Text
  BY <1>3, OneMore
<1> HIDE DEF more
<1>7. x \in Resolved /\ Waits(x.pending)
  BY <1>6, ReadWholeIs, ReadOn DEF ReadsOn
<1> HIDE DEF x
<1>8. buffer' \in Resolved /\ buffer'.pending = x.pending
  BY <1>3, <1>5, <1>7, BeforeType
<1>9. typed' = more
  BY <1>1 DEF more
<1> QED BY <1>2, <1>3, <1>5, <1>6, <1>7, <1>8, <1>9 DEF TypingInv, x

\* Wherever typing is resumed, what stands in the buffer is where it goes on from.
LEMMA Resumes ==
  ASSUME method' = "romaji", buffer' \in Resolved, Waits(buffer'.pending),
         base' = buffer'.kana, typed' = buffer'.pending
  PROVE  TypingInv'
<1>1. buffer' = Before(base', ReadWhole[typed'])
  BY ResumedReads
<1>2. base' \in Text /\ typed' \in Text
  BY DEF Resolved
<1> QED BY <1>1, <1>2 DEF TypingInv

LEMMA TypeShiftedKeeps ==
  ASSUME TypingInv, TypeShifted
  PROVE  TypingInv'
<1>1. PICK k \in TypedKeys : buffer' = InsertShifted(buffer, k)
  BY DEF TypeShifted
<1>2. /\ method' = "romaji" /\ base' = buffer'.kana /\ typed' = buffer'.pending
  BY DEF TypeShifted
<1>3. k \in Scalar /\ buffer \in Resolved
  BY KanaAssumption DEF TypingInv
<1>4. buffer' \in Resolved /\ buffer'.pending = <<>>
  BY <1>1, <1>3, InsertShiftedIs
<1> QED BY <1>2, <1>4, Resumes DEF Waits

LEMMA TypeKanaKeeps ==
  ASSUME TypingInv, TypeKana
  PROVE  TypingInv'
<1>1. PICK k \in DOMAIN KanaKeys : /\ buffer' = InsertKana(buffer, k)
                                   /\ typed' = Append(typed, KanaKeys[k])
  BY DEF TypeKana
<1>2. method = "kana" /\ method' = method /\ base' = base
  BY DEF TypeKana
<1>3. buffer \in Resolved /\ KanaSound(buffer, base, typed) /\ base \in Text
  BY <1>2 DEF TypingInv
<1>4. buffer' \in Resolved /\ KanaSound(buffer', base', typed')
  BY <1>1, <1>2, <1>3, InsertKanaKeeps
<1>5. typed' \in Text /\ Waits(buffer'.pending)
  BY <1>4 DEF KanaSound, Waits
<1> QED BY <1>2, <1>3, <1>4, <1>5 DEF TypingInv

LEMMA EraseIs ==
  ASSUME TypingInv, Erase
  PROVE  Erased(buffer, buffer')
BY BackspaceIs DEF TypingInv, Erase

LEMMA EraseKeeps ==
  ASSUME TypingInv, Erase
  PROVE  TypingInv'
<1>1. Erased(buffer, buffer')
  BY EraseIs
<1>2. /\ base' = buffer'.kana /\ typed' = buffer'.pending /\ method' = method
      /\ buffer' = Backspace(buffer)
  BY DEF Erase
<1>3. buffer' \in Resolved /\ Waits(buffer'.pending)
  BY <1>1 DEF Erased
<1>4. CASE method = "romaji"
  BY <1>2, <1>3, <1>4, Resumes
<1>5. CASE method = "kana"
  <2>1. KanaSound(buffer, base, typed)
    BY <1>5 DEF TypingInv
  <2>2. PICK x \in Scalar : buffer.kana = Append(buffer'.kana, x)
    <3>1. \A t \in Text, x \in Scalar : Append(t, x) # <<>>
      BY FrontOfAppend DEF Text
    <3>2. buffer'.pending \in Text
      BY <1>3 DEF Resolved
    <3> QED BY <1>1, <2>1, <3>1, <3>2 DEF Erased, KanaSound
  <2> DEFINE k == buffer'.kana
  <2>3. k \in Text /\ buffer.kana = Append(k, x)
    BY <1>3, <2>2 DEF Resolved
  <2>4. buffer'.pending = <<>> /\ base' = k /\ typed' = <<>>
    <3>1. Append(k, x) # k
      BY <2>3, AppendProperties DEF Text
    <3> QED BY <1>1, <1>2, <2>3, <3>1 DEF Erased
  <2>5. k \in Seq(Kana)
    <3>1. buffer.kana \in Seq(Kana) /\ buffer.kana # <<>>
      BY <2>1, <2>3, FrontOfAppend DEF KanaSound, Text
    <3>2. PICK front \in Seq(Kana), y \in Kana : buffer.kana = Append(front, y)
      BY <3>1, SequenceEmptyOrAppend
    <3>3. Front(buffer.kana) = front
      BY <3>2, FrontOfAppend
    <3>4. Front(buffer.kana) = k
      BY <2>3, FrontOfAppend DEF Text
    <3> QED BY <3>2, <3>3, <3>4
  <2> HIDE DEF k
  <2>6. Unjoined(k)
    BY <2>1, <2>3, UnjoinedGrows DEF KanaSound
  <2>7. Unmarked(k) = Unmarked(k) \o <<>>
    BY <2>3, UnmarkedType, ConcatText
  <2>8. KanaSound(buffer', base', typed')
    BY <2>4, <2>5, <2>6, <2>7, EmptyText DEF KanaSound, k
  <2>9. base' \in Text /\ typed' \in Text
    BY <2>3, <2>4, EmptyText
  <2> QED BY <1>2, <1>3, <1>5, <2>8, <2>9 DEF TypingInv
<1> QED BY <1>4, <1>5 DEF TypingInv

LEMMA SetMethodKeeps ==
  ASSUME TypingInv, SetMethod
  PROVE  TypingInv'
<1>1. /\ buffer' = EmptyComposer /\ base' = <<>> /\ typed' = <<>>
      /\ method' \in {"romaji", "kana"}
  BY DEF SetMethod
<1> HIDE DEF EmptyComposer
<1> QED BY <1>1, EmptyIs, EmptyText DEF TypingInv

LEMMA TypingStep ==
  ASSUME TypingInv, [TypingNext]_typingVars
  PROVE  TypingInv'
<1>1. CASE Type
  BY <1>1, TypeKeeps
<1>2. CASE TypeShifted
  BY <1>2, TypeShiftedKeeps
<1>3. CASE TypeKana
  BY <1>3, TypeKanaKeeps
<1>4. CASE Erase
  BY <1>4, EraseKeeps
<1>5. CASE SetMethod
  BY <1>5, SetMethodKeeps
<1>6. CASE UNCHANGED typingVars
  BY <1>6 DEF typingVars, TypingInv
<1> QED BY <1>1, <1>2, <1>3, <1>4, <1>5, <1>6 DEF TypingNext

LEMMA TypingAlways == TypingSpec => []TypingInv
<1>1. TypingInit => TypingInv
  BY TypingStarts
<1>2. TypingInv /\ [TypingNext]_typingVars => TypingInv'
  BY TypingStep
<1> QED BY <1>1, <1>2, PTL DEF TypingSpec

\* However the letters come, and whatever was taken back in between, resolving key by
\* key gives what reading the run as a whole gives (RomajiComposer::step).
THEOREM KeyByKeyIsWhole == TypingSpec => []ResolvesLikeWhole
<1>1. TypingInv => ResolvesLikeWhole
  BY DEF TypingInv, ResolvesLikeWhole
<1> QED BY <1>1, TypingAlways, PTL

\* Under kana entry the buffer holds every kana and mark struck, joined wherever two
\* make one, and shows nothing of full width in half-width katakana (insert_kana,
\* project_script, project_styles).
THEOREM KanaAsStruck == TypingSpec => []KanaFollowsKeys
<1>1. TypingInv => KanaFollowsKeys
  <2> SUFFICES ASSUME TypingInv, method = "kana" PROVE KanaFollowsKeys
    BY DEF KanaFollowsKeys
  <2>1. KanaSound(buffer, base, typed) /\ buffer \in Resolved
    BY DEF TypingInv
  <2>2. /\ buffer.pending = <<>> /\ buffer.kana \in Seq(Kana)
        /\ Unmarked(buffer.kana) = Unmarked(base) \o typed
        /\ \A i \in 2..Len(buffer.kana) :
             <<buffer.kana[i - 1], buffer.kana[i]>> \notin DOMAIN Marked
    BY <2>1 DEF KanaSound, Unjoined
  <2>3. ASSUME NEW settings \in AllSettings, settings.script = "halfwidth"
        PROVE  ToSet(Display(buffer, settings)) \cap Fullwidth = {}
    BY <2>1, <2>2, <2>3, HalfwidthOnly
  <2> QED BY <2>2, <2>3 DEF KanaFollowsKeys
<1> QED BY <1>1, TypingAlways, PTL

\* A backspace takes the last character off what is shown, in every script and style
\* (RomajiComposer::backspace, display).
THEOREM BackspaceTakesShown == TypingSpec => EraseTakesLastShown
<1>1. ASSUME TypingInv, Erase, NEW settings \in AllSettings
      PROVE  TakesLast(buffer, buffer', settings)
  BY <1>1, EraseIs, ErasedTakesLast DEF TypingInv
<1>2. TypingInv /\ [TypingNext]_typingVars =>
        [Erase => \A settings \in AllSettings : TakesLast(buffer, buffer', settings)]_typingVars
  BY <1>1
<1> QED BY <1>2, TypingAlways, PTL DEF TypingSpec, EraseTakesLastShown
==================================================================================
