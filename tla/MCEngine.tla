------------------------------- MODULE MCEngine -------------------------------
(* Model-checking instances of EngineLoop. *)
EXTENDS EngineLoop, TLC

CONSTANTS s1, s2, x1, x2

\* Slots and sessions are only compared for equality.
EngineSymmetry == Permutations({s1, s2}) \cup Permutations({x1, x2})
=============================================================================
