----------------------------- MODULE MCClientKit -----------------------------
(* Small instances of the parts of ClientKit. *)
EXTENDS ClientKit
==============================================================================
