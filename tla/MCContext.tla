------------------------------- MODULE MCContext -------------------------------
(* Texts and candidate lists for model checking Context.                      *)
EXTENDS Context

CONSTANTS a, b

MCScalar == {a, b}
MCSpans  == {<<>>, <<a>>, <<b>>}
MCLists  == {<<>>, <<<<a>>, <<b>>, <<a, b>>>>, <<<<b>>, <<a>>>>}
================================================================================
