-------------------------- MODULE MCDuplicateGuard --------------------------
(* A small instance of DuplicateGuard. *)
EXTENDS DuplicateGuard, TLC

CONSTANTS k1, k2, k3, s1, s2

MCKeys == {k1, k2, k3}
MCSubmitters == {s1, s2}

MCSymmetry == Permutations(MCKeys) \cup Permutations(MCSubmitters)
=============================================================================
