-------------------------------- MODULE MCTable --------------------------------
(* Scalars are numbers, because candidates are ordered by them. Table "t" is   *)
(* Chinese, adjusts to use and cuts a run at two keys, its longest code; table *)
(* "u" belongs to a Latin script and has a rule that cuts at one.              *)
EXTENDS TableProperties

A == 1
B == 2
Dot == 3
Blank == 4
X == 10
Y == 11
Z == 12
PromptA == 13
Nine == 22

MCScalar    == 1..14 \cup 20..33
MCEmittable == {A, B, Dot, Blank, 20, 21, 22}
MCLatin     == {A, B, Blank, 22}
MCFullWidth == [s \in MCEmittable |-> 23]
MCMarks(simplified) == [s \in {} |-> <<>>]
MCVariants  == [s \in MCScalar |-> IF s = Y THEN {"simplified"} ELSE IF s = X THEN {"traditional"}
                                   ELSE {"simplified", "traditional"}]

Line(keys, phrase, freq) == [keys |-> keys, phrase |-> phrase, freq |-> freq, chosen |-> 0]

Chinese ==
  [valid |-> {A, B}, start |-> {}, unchecked |-> {Nine}, single |-> {}, multi |-> {},
   max |-> 2, least |-> 0, rules |-> {}, above |-> 0,
   prefix |-> TRUE, adjusts |-> TRUE, cjk |-> TRUE, chinese |-> TRUE]

MCDatabase ==
  [t |-> [props |-> Chinese, prompts |-> [s \in {A} |-> <<PromptA>>],
          rows |-> <<Line(<<A>>, <<X>>, 5), Line(<<A, B>>, <<Y, Y>>, 5),
                     Line(<<B>>, <<Nine>>, 1)>>],
   u |-> [props |-> [Chinese EXCEPT !.rules = {[compound |-> 2, code |-> 1]}, !.start = {A},
                                    !.single = {Dot}, !.adjusts = FALSE, !.cjk = FALSE, !.chinese = FALSE],
          prompts |-> [s \in {} |-> <<>>],
          rows |-> <<Line(<<A>>, <<X>>, 5), Line(<<A, B>>, <<Y>>, 5),
                     Line(<<A, B>>, <<X, Y>>, 9), Line(<<B>>, <<Z>>, 1)>>]]

Plainly ==
  [table |-> "t", autoCommit |-> FALSE, autoSelect |-> FALSE, singleChar |-> FALSE,
   invalid |-> "candidate", learning |-> TRUE, variant |-> "all",
   latin |-> "half", punctuation |-> "full", simplified |-> TRUE, cap |-> 3]

MCSettings ==
  {Plainly,
   [Plainly EXCEPT !.autoSelect = TRUE, !.cap = 2],
   [Plainly EXCEPT !.autoCommit = TRUE, !.autoSelect = TRUE, !.invalid = "raw",
                   !.variant = "simplified_only"],
   [Plainly EXCEPT !.table = "u", !.learning = FALSE, !.singleChar = TRUE],
   [Plainly EXCEPT !.table = ""], [Plainly EXCEPT !.autoCommit = TRUE, !.cap = 1]}

MCDocuments == {<<>>}
\* Scalar 14 is the full-width stop.
MCKeys == {A, B, Dot}
MCEscapes == <<30, 31, 32>>
================================================================================
