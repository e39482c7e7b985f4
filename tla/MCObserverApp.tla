---------------------------- MODULE MCObserverApp ----------------------------
(* Small instances of ObserverApp. *)
EXTENDS ObserverApp
==============================================================================
