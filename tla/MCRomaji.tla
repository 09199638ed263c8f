------------------------------- MODULE MCRomaji -------------------------------
(* A romaji table with every shape of row: one, two and three letters, rows  *)
(* that share a start, and two rows for the syllabic n. A kana keyboard with  *)
(* one kana that takes one mark, one that takes both, and both marks.         *)
EXTENDS RomajiTyping, TLC

CONSTANTS la, lk, ly, ln, comma, ka, kya, ya, a, na, tsu, nn, touten, KKA, KA, KNA,
          ga, ha, ba, pa, voiced, semi, lslash, fslash, middot, corner, square, fcomma,
          htouten, hcomma, hslash, hcorner, hka, hha, hvoiced, hsemi

MCScalar == {la, lk, ly, ln, comma, ka, kya, ya, a, na, tsu, nn, touten, KKA, KA, KNA,
             ga, ha, ba, pa, voiced, semi, lslash, fslash, middot, corner, square,
             fcomma, htouten, hcomma, hslash, hcorner, hka, hha, hvoiced, hsemi}
MCTypedKeys   == {la, lk, ly, ln, comma, lslash}

MCRomajiTable ==
     <<la>>         :> <<a>>
  @@ <<lk, la>>     :> <<ka>>
  @@ <<lk, ly, la>> :> <<kya>>
  @@ <<ly, la>>     :> <<ya>>
  @@ <<ln, la>>     :> <<na>>
  @@ <<ln, ln>>     :> <<nn>>
MCSymbols    == comma :> <<touten>> @@ lslash :> <<fslash>>
MCKatakana   == (a :> KA) @@ (ka :> KKA) @@ (na :> KNA)

\* What the kana keys can make has a half-width form; a marked kana has two.
MCHalfwidth  ==
     ka :> <<hka>> @@ ga :> <<hka, hvoiced>> @@ ha :> <<hha>> @@ ba :> <<hha, hvoiced>>
  @@ pa :> <<hha, hsemi>> @@ voiced :> <<hvoiced>> @@ semi :> <<hsemi>>
  @@ touten :> <<htouten>> @@ corner :> <<hcorner>> @@ fslash :> <<hslash>>
MCPeriods    == (touten :> fcomma) @@ (htouten :> hcomma)
MCBrackets   == corner :> square
MCMiddot     == fslash :> middot
MCFullwidth  == {ka, ga, ha, ba, pa, voiced, semi, touten, fcomma, corner, square,
                 fslash, middot}
MCGeminating == {lk, ly}
MCContinuesN == {la, ly, ln}
MCKanaKeys   == (lk :> ka) @@ (ly :> ha) @@ (la :> voiced) @@ (ln :> semi)
                @@ (comma :> touten) @@ (lslash :> corner)
MCMarks      == {voiced, semi}
MCMarked     == (<<ka, voiced>> :> ga) @@ (<<ha, voiced>> :> ba) @@ (<<ha, semi>> :> pa)
================================================================================
