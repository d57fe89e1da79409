--------------------------- MODULE MCBlockConfirm ---------------------------
(* A small instance of BlockConfirm. *)
EXTENDS BlockConfirm

CONSTANTS h1, h2, c1, c2

MCHashes == {h1, h2}
MCCallers == {c1, c2}

MCSymmetry == Permutations(MCHashes) \cup Permutations(MCCallers)
=============================================================================
