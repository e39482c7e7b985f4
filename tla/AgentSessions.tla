----------------------------- MODULE AgentSessions -----------------------------
(***************************************************************************)
(* What the server keeps in memory for an agent in a conversation: the     *)
(* registry of its connections, the tail it reads from, and, if it is the  *)
(* resident, its listener.  The three share no state but the stored cursor *)
(* (CursorCache); a behaviour of this module is one of them at work.       *)
(***************************************************************************)
EXTENDS Connections, Reading, Resident

VARIABLE part   \* which one

vars == <<part, connVars, readVars, residentVars>>

Init ==
  /\ part \in {"connections", "reading", "resident"}
  /\ ConnectionsInit /\ ReadingInit /\ ResidentInit
  /\ part # "resident" => ~isMember

ConnectionsPart == part = "connections" /\ ConnectionsNext /\ UNCHANGED <<readVars, residentVars>>
ReadingPart == part = "reading" /\ ReadingNext /\ UNCHANGED <<connVars, residentVars>>
ResidentPart == part = "resident" /\ ResidentNext /\ UNCHANGED <<connVars, readVars>>

Next == /\ UNCHANGED part
        /\ ConnectionsPart \/ ReadingPart \/ ResidentPart

Spec == Init /\ [][Next]_vars
================================================================================
