------------------------------- MODULE MCBridge -------------------------------
(* Instances of Bridge for TLC. *)
EXTENDS Bridge, TLC

CONSTANTS a1, a2

Symmetry == Permutations(Agents) \cup Permutations(Jobs)
=============================================================================
