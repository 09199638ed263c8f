------------------------------- MODULE MCHangul -------------------------------
(* Texts for model checking Hangul: a one-scalar syllable, one with no       *)
(* precomposed form (two scalars), and a finished syllable.                  *)
EXTENDS HangulProperties

CONSTANTS jamo, filler

MCScalar   == {jamo, filler}
MCPreedits == {<<jamo>>, <<jamo, filler>>}
MCFinished == {<<jamo>>}

\* The changes of the preedit option in the middle of a syllable: one loses nothing,
\* the other leaves text the adapter takes for its own.
MCSyllableToWord == {<<"syllable", "word">>}
MCNoneToSyllable == {<<"none", "syllable">>}
================================================================================
