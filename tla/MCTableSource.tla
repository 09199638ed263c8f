----------------------------- MODULE MCTableSource -----------------------------
(* A letter, two punctuation keys, the key the compiler may make a wildcard,   *)
(* and a character the coverage map has not.                                   *)
EXTENDS TableSource

A == 1
Percent == 2     \* punctuation LIKE gives a meaning
Mark == 3       \* the apostrophe, which a prompt literal is quoted with
Zed == 4
X == 10
Rare == 11

MCScalar   == (1..6) \cup {X, Rare} \cup 20..26
MCEscapes  == <<22, 23, 24>>
MCVariants == [s \in MCScalar |-> Script]

Chars(key, chars) == [is |-> "chars", key |-> key, chars |-> chars]
Word(key, word) == [is |-> "word", key |-> key, word |-> word]
Line_(keys, phrase, freq) ==
  [is |-> "row", keys |-> keys, phrase |-> phrase, freq |-> freq, counts |-> TRUE]

MCLines ==
  {[is |-> e, section |-> s] : e \in {"begin", "end"},
                               s \in {"DEFINITION", "TABLE", "GOUCI", "CHAR_PROMPTS_DEFINITION"}}
  \cup {Chars("valid", <<A, Percent, Mark>>), Chars("valid", <<A, Zed, Percent>>),
        Chars("valid", <<Percent>>), Chars("start", <<Percent>>), Chars("multi", <<Percent>>),
        Word("define", "true"), Word("define", "junk"), Word("prefix", "false"),
        [is |-> "language", key |-> "language", word |-> "zh"]}
  \cup {Line_(<<A>>, <<X>>, 5), Line_(<<Percent>>, <<X>>, 9), Line_(<<A, Percent>>, <<Rare>>, 9),
        Line_(<<A, Zed>>, <<X>>, 5), Line_(<<Zed, A>>, <<X>>, 5),
        [Line_(<<A>>, <<X>>, 0) EXCEPT !.counts = FALSE]}
  \cup {[is |-> "code", zi |-> <<Rare>>, code |-> <<A>>],
        [is |-> "prompt", of |-> Percent, text |-> <<X>>],
        [is |-> "prompt", of |-> Mark, text |-> <<X>>], [is |-> "text"]}

Plainly == [strip |-> TRUE, filter |-> TRUE, wildcard |-> {Zed}, threshold |-> 9,
            ranked |-> <<>>, transfers |-> FALSE]

MCCommands ==
  {Plainly,
   [Plainly EXCEPT !.strip = FALSE, !.filter = FALSE, !.transfers = TRUE,
      !.ranked = <<[keys |-> <<A>>, phrase |-> <<X>>, freq |-> 7, chosen |-> 0],
                   [keys |-> <<A>>, phrase |-> <<X>>, freq |-> 3, chosen |-> 0]>>]}

MCFormer ==
  {[Absent EXCEPT !.exists = TRUE, !.attrs = "valid" :> Chars("valid", <<A>>),
                  !.rows = <<[keys |-> <<A>>, phrase |-> <<X>>, freq |-> 1, chosen |-> 0]>>]}
================================================================================
