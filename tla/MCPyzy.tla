--------------------------------- MODULE MCPyzy ---------------------------------
(* Two letters: together they spell a character with two forms, the first      *)
(* alone another, the second alone none. Under double pinyin and bopomofo      *)
(* what is shown for a key is not the key.                                     *)
EXTENDS PyzyProperties, TLC

CONSTANTS ln, li, one, blank, quote, dquote, dot,
          niSimp, niTrad, en, dn, di, zn, zi, gap, bar,
          wideOne, wideBlank, wideLetter, o1, c1, o2, c2, kuten

MCKeys      == {ln, li, one, blank, quote, dot}
MCEmittable == MCKeys \cup {dquote}
MCLatin     == {ln, li, one, blank}
MCAlphabet  == {ln, li}
MCScalar    == MCEmittable \cup {niSimp, niTrad, en, dn, di, zn, zi, gap, bar, wideOne,
                 wideBlank, wideLetter, o1, c1, o2, c2, kuten}

MCFullWidth ==
  [s \in MCEmittable |-> CASE s = one -> wideOne [] s = blank -> wideBlank
                      [] OTHER -> wideLetter]

MCMarks(simplified) == [s \in {} |-> <<>>]

MCAccepts(t) == IF t = "bopomofo" THEN {ln, li, dot} ELSE {ln, li, quote}

Spelled(t, key) ==
  CASE t = "double"   -> IF key = ln THEN dn ELSE IF key = li THEN di ELSE gap
    [] t = "bopomofo" -> IF key = ln THEN zn ELSE IF key = li THEN zi ELSE gap
    [] t = "full"     -> IF key = quote THEN gap ELSE key

MCSpelling(t, run) == [i \in DOMAIN run |-> Spelled(t, run[i])]

MCConversions(t, run, simplified) ==
  CASE IsPrefix(<<ln, li>>, run) ->
         <<[text |-> <<IF simplified THEN niSimp ELSE niTrad>>, takes |-> 2],
           [text |-> <<en>>, takes |-> 1]>>
    [] run[1] = ln /\ ~IsPrefix(<<ln, li>>, run) -> <<[text |-> <<en>>, takes |-> 1]>>
    [] OTHER -> <<>>

MCSounds ==
  [s \in MCScalar |-> CASE s \in {niSimp, niTrad} -> <<ln, li>>
                        [] s \in {en, dn, zn, ln} -> <<ln>>
                        [] s \in {di, zi, li} -> <<li>>
                        [] OTHER -> <<>>]

Common == [scheme |-> "full", latin |-> "half", punctuation |-> "full",
           simplified |-> TRUE, cap |-> 2]

MCSettings ==
  {[Common EXCEPT !.scheme = "double", !.simplified = FALSE], Common,
   [Common EXCEPT !.simplified = FALSE, !.punctuation = "half", !.cap = 1]}

MCDocuments == {<<>>, <<one>>, <<o1>>}
================================================================================
