--------------------------- MODULE MCMessageWrite ---------------------------
(* Small instances of MessageWrite. *)
EXTENDS MessageWrite, TLC

Symmetry == Permutations(Attempts)
=============================================================================
