-------------------------------- MODULE MCAnthy --------------------------------
(* A vowel, the letter n and the full stop; anthy keeps at most two kana to a *)
(* segment and offers a conversion and the reading, in an order the record    *)
(* decides.                                                                   *)
EXTENDS AnthyProperties, TLC

CONSTANTS la, ln, stop, a, na, nn, kuten, ka, blank, hill, river

MCScalar      == {la, ln, stop, a, na, nn, kuten, ka, blank, hill, river}
MCKeys        == {la, ln, stop}
MCSentenceEnds == {stop}
MCRomajiTable == <<la>> :> <<a>> @@ <<ln, la>> :> <<na>> @@ <<ln, ln>> :> <<nn>>
MCSymbols     == stop :> <<kuten>>
MCGeminating  == {}
MCContinuesN  == {la, ln}
MCKatakana    == a :> ka
None          == <<>>
MCRecords     == {"plain", "learned"}

MCSegment(reading, r) ==
  LET kanji == IF reading[1] = a THEN <<hill>> ELSE <<river>>
  IN [reading |-> reading,
      candidates |-> IF r = "plain" THEN <<kanji, reading>> ELSE <<reading, kanji>>]

MCAnalyse(reading, r) ==
  LET head == IF Len(reading) > 2 THEN 2 ELSE 1
  IN [i \in 1..(Len(reading) + 1 - head) |->
        MCSegment(IF i = 1 THEN SubSeq(reading, 1, head)
                           ELSE <<reading[i + head - 1]>>, r)]

\* This is the only context anthy serves, and it always answers: eager candidates
\* go on and off and the cap is raised while composing; a sentence end converts.
Quiet ==
  [records |-> {"plain"},
   settings |-> [prediction : BOOLEAN, learning : {TRUE}, onPeriod : {"convert"},
                 script : {"hiragana"}, cap : {1, 2}],
   midway |-> {"prediction"}, others |-> FALSE, fails |-> FALSE, maxText |-> 3]

\* anthy may fail to answer, another context may teach its record, and learning
\* changes at any time; kana is shown as katakana and a sentence end commits.
Troubled ==
  [records |-> MCRecords,
   settings |-> [prediction : BOOLEAN, learning : BOOLEAN, onPeriod : {"commit"},
                 script : {"katakana"}, cap : {2}],
   midway |-> {"prediction", "learning"}, others |-> TRUE, fails |-> TRUE,
   maxText |-> 2]

MCSituations == {Quiet, Troubled}
================================================================================
