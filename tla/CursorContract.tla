--------------------------- MODULE CursorContract ---------------------------
(***************************************************************************)
(* What the delivery cursor promises whatever caching sits in front of the *)
(* database: the stored delivery_seq of an (agent, conversation) pair only *)
(* ever moves forward, and only to a value some caller really confirmed.   *)
(* Restarts of the server are stuttering steps of this specification.      *)
(***************************************************************************)
EXTENDS Integers

CONSTANTS Keys,     \* (agent, conversation) pairs
          Seqs      \* sequence numbers a caller may confirm

VARIABLES offered,  \* offered[k]: every value a caller confirmed for k
          stored    \* stored[k]: the durable cursor, NoRow before the first write

NoRow == -1

cvars == <<offered, stored>>

Init == /\ offered = [k \in Keys |-> {}]
        /\ stored  = [k \in Keys |-> NoRow]

(* A caller confirms that everything below s has reached the agent. *)
Offer(k, s) == /\ offered' = [offered EXCEPT ![k] = @ \cup {s}]
               /\ UNCHANGED stored

(* One statement moves any number of cursors to newer confirmed values. *)
Persist == /\ stored' \in [Keys -> Seqs \cup {NoRow}]
           /\ \A k \in Keys : \/ stored'[k] = stored[k]
                              \/ stored'[k] \in offered[k] /\ stored'[k] > stored[k]
           /\ UNCHANGED offered

Next == (\E k \in Keys, s \in Seqs : Offer(k, s)) \/ Persist

Spec == Init /\ [][Next]_cvars
=============================================================================
