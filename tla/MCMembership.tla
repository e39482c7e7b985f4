---------------------------- MODULE MCMembership ----------------------------
(* Small instances of Membership. *)
EXTENDS Membership, TLC

Symmetry == Permutations(Requests)

(* The bound on the requests that run at the same time. *)
MaxInFlight == 2

(* The requests, numbered in the order in which they arrive, which is no restriction; *)
(* create, invite and leave only, MaxInFlight of them at a time, which is one.         *)
Arrivals ==
    /\ \A r \in Requests : pc[r] = "idle" /\ pc'[r] # "idle" =>
          /\ \A q \in Requests : q < r => pc[q] # "idle"
          /\ req'[r].kind # "other"
    /\ Cardinality({r \in Requests : pc'[r] \notin {"idle", "done"}}) <= MaxInFlight
=============================================================================
