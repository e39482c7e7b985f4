--------------------------- MODULE MCCursorCache ---------------------------
(* Small instances of CursorCache. *)
EXTENDS CursorCache, TLC

Symmetry == Permutations(Keys) \cup Permutations(Handlers)
============================================================================
