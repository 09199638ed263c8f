------------------------------ MODULE MCLifetime -------------------------------
(***************************************************************************)
(* A small process: two engines, two contexts and two profiles.  Engine    *)
(* and context handles are only names.                                     *)
(***************************************************************************)
EXTENDS Lifetime, TLC

\* pathime.h gives handles no order and no meaning.
HandleSymmetry == Permutations(Handles) \cup Permutations(Contexts)
===============================================================================
