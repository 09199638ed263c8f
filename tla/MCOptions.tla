------------------------------- MODULE MCOptions -------------------------------
(* Contexts, clients and tables for model checking the option store.         *)
EXTENDS Options, TLC

CONSTANTS c1, c2, c3, t1, t2

MCContexts == {c1, c2, c3}
MCTables   == {t1, t2}

\* For a table engine no callback but the listener's matters; the Hangul engine
\* meets clients that lack either.
MCClients == [hangul |-> SUBSET {"delete", "changed"}, table |-> {{"changed"}}]
MCMaxLive == [hangul |-> 2, table |-> 3]

Interchangeable == Permutations(Contexts)
================================================================================
