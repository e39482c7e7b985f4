------------------------------ MODULE Connections ------------------------------
(***************************************************************************)
(* internal/api/conn_registry.go with the handlers that use it: SSE tails  *)
(* (sse.go), streamed writes (streaming.go) and the leave that cancels     *)
(* both and waits for them (conversations.go), for one agent in one        *)
(* conversation.  The registry's maps are guarded by a lock, so each of    *)
(* its methods is one step; between a handler's gate, its registration and *)
(* its deregistration anything may happen.  Waits are bounded by timeouts, *)
(* which may run out at any time.                                          *)
(***************************************************************************)
EXTENDS Integers, FiniteSets

CONSTANTS Tails,        \* requests for the SSE stream
          Writes,       \* streamed writes
          Leaves,       \* leave requests
          MessageIds    \* message_ids of the writes

Nobody == "nobody"

ASSUME ConnectionsAssumption ==
  /\ Tails \cap Writes = {}
  /\ Nobody \notin Tails \cup Writes

VARIABLES member,       \* the members row of the agent
          sse,          \* whose entry is in the sse map
          write,        \* write[m]: whose entry is in the write map under m
          claim,        \* claim[m]: who has the in_progress_messages row of m
          claims,       \* claims[m]: how often m has been claimed
          recorded,     \* message_ids with a dedup row
          handler,      \* handler[x]: where tail or write x is
          closed,       \* the tails and writes whose entry's done is closed
          leave         \* leave[l]: where it is, whom it waits for, how that ended

connVars == <<member, sse, write, claim, claims, recorded, handler, closed, leave>>

Idle == [at |-> "idle", cancelled |-> FALSE, msg |-> Nobody]
NoLeave == [at |-> "idle", waits |-> {}, drained |-> FALSE]

ConnectionsInit ==
  /\ member = TRUE
  /\ sse = Nobody
  /\ write = [m \in MessageIds |-> Nobody]
  /\ claim = [m \in MessageIds |-> Nobody]
  /\ claims = [m \in MessageIds |-> 0]
  /\ recorded = {}
  /\ handler = [x \in Tails \cup Writes |-> Idle]
  /\ closed = {}
  /\ leave = [l \in Leaves |-> NoLeave]

At(x, here, there) == /\ handler[x].at = here
                      /\ handler' = [handler EXCEPT ![x].at = there]

(* cancel() of the entries of xs *)
Cancel(xs) == [x \in Tails \cup Writes |->
                 IF x \in xs THEN [handler[x] EXCEPT !.cancelled = TRUE] ELSE handler[x]]

-----------------------------------------------------------------------------
(* SSEStream                                                               *)

(* requireMembership, and the position to start from *)
TailGate(t) ==
  /\ member
  /\ At(t, "idle", "gated")
  /\ UNCHANGED <<member, sse, write, claim, claims, recorded, closed, leave>>

(* The last connection wins: the prior one is cancelled and waited for. *)
RegisterSSE(t) ==
  /\ handler[t].at = "gated"
  /\ handler' = [Cancel({sse} \ {Nobody}) EXCEPT
                   ![t].at = IF sse = Nobody THEN "running" ELSE "priorWait"]
  /\ sse' = t
  /\ UNCHANGED <<member, write, claim, claims, recorded, closed, leave>>

(* The prior handler has deregistered, or 2 s are over. *)
PriorWaitEnds(t) ==
  /\ At(t, "priorWait", "running")
  /\ UNCHANGED <<member, sse, write, claim, claims, recorded, closed, leave>>

(* The session does not open or fails, the client has gone, the context is *)
(* cancelled, 24 h are over: the handler returns.                          *)
TailEnds(t) ==
  /\ At(t, "running", "returning")
  /\ UNCHANGED <<member, sse, write, claim, claims, recorded, closed, leave>>

(* Slip: the entry of the pair is removed, whosever it is. *)
WithoutAny(t) == Nobody

(* "removes the SSE entry iff it's the same one identified by h" *)
Without(t) == IF sse = t THEN Nobody ELSE sse

DeregisterSSE(t) ==
  /\ At(t, "returning", "ended")
  /\ sse' = Without(t)
  /\ closed' = closed \cup {t}
  /\ UNCHANGED <<member, write, claim, claims, recorded, leave>>

-----------------------------------------------------------------------------
(* StreamMessage, as far as the registry is concerned                      *)

(* requireMembership, the handshake and the dedup gate *)
WriteGate(w, m) ==
  /\ member
  /\ handler[w].at = "idle"
  /\ m \notin recorded
  /\ handler' = [handler EXCEPT ![w].at = "gated", ![w].msg = m]
  /\ UNCHANGED <<member, sse, write, claim, claims, recorded, closed, leave>>

(* ClaimInProgressMessage: claimed, or 409 *)
Claim(w) ==
  LET m == handler[w].msg
  IN /\ handler[w].at = "gated"
     /\ IF claim[m] = Nobody
        THEN /\ At(w, "gated", "claimed")
             /\ claim' = [claim EXCEPT ![m] = w]
             /\ claims' = [claims EXCEPT ![m] = @ + 1]
        ELSE /\ At(w, "gated", "refused")
             /\ UNCHANGED <<claim, claims>>
     /\ UNCHANGED <<member, sse, write, recorded, closed, leave>>

RegisterWrite(w) ==
  /\ At(w, "claimed", "running")
  /\ write' = [write EXCEPT ![handler[w].msg] = w]
  /\ UNCHANGED <<member, sse, claim, claims, recorded, closed, leave>>

(* The body ends, or breaks off, or a Submit fails since the context is    *)
(* cancelled; a blocked Scan does not notice that.  The outcome is         *)
(* recorded, unless that fails, and the claim given back.                  *)
WriteEnds(w) ==
  LET m == handler[w].msg
  IN /\ At(w, "running", "returning")
     /\ recorded' \in {recorded, recorded \cup {m}}
     /\ claim' = [claim EXCEPT ![m] = Nobody]
     /\ UNCHANGED <<member, sse, write, claims, closed, leave>>

(* By message_id: the entry found there is removed and its done closed. *)
DeregisterWrite(w) ==
  LET m == handler[w].msg
  IN /\ At(w, "returning", "ended")
     /\ write' = [write EXCEPT ![m] = Nobody]
     /\ closed' = closed \cup ({write[m]} \ {Nobody})
     /\ UNCHANGED <<member, sse, claim, claims, recorded, leave>>

-----------------------------------------------------------------------------
(* LeaveConversation                                                       *)

LeaveGate(l) ==
  /\ member
  /\ leave[l].at = "idle"
  /\ leave' = [leave EXCEPT ![l].at = "gated"]
  /\ UNCHANGED <<member, sse, write, claim, claims, recorded, handler, closed>>

LookupAndCancel(l) ==
  LET found == ({sse} \cup {write[m] : m \in MessageIds}) \ {Nobody}
  IN /\ leave[l].at = "gated"
     /\ leave' = [leave EXCEPT ![l].at = "waiting", ![l].waits = found]
     /\ handler' = Cancel(found)
     /\ UNCHANGED <<member, sse, write, claim, claims, recorded, closed>>

(* The goroutine of LookupAndCancel has received from every done. *)
AllClosed(l) == leave[l].waits \subseteq closed

(* WaitFor: done, or 5 s are over *)
LeaveWaitEnds(l) ==
  /\ leave[l].at = "waiting"
  /\ leave' \in {[leave EXCEPT ![l].at = "removing", ![l].drained = d] :
                   d \in {FALSE} \cup (IF AllClosed(l) THEN {TRUE} ELSE {})}
  /\ UNCHANGED <<member, sse, write, claim, claims, recorded, handler, closed>>

(* RemoveMember and agent_left; or the agent is the last member, or the    *)
(* row has gone.                                                           *)
RemoveMember(l) ==
  /\ leave[l].at = "removing"
  /\ \/ member /\ member' = FALSE /\ leave' = [leave EXCEPT ![l].at = "left"]
     \/ UNCHANGED member /\ leave' = [leave EXCEPT ![l].at = "refused"]
  /\ UNCHANGED <<sse, write, claim, claims, recorded, handler, closed>>

(* Another member invites the agent again. *)
Reinvite ==
  /\ ~member
  /\ member' = TRUE
  /\ UNCHANGED <<sse, write, claim, claims, recorded, handler, closed, leave>>

ConnectionsNext ==
  \/ \E t \in Tails : \/ TailGate(t) \/ RegisterSSE(t) \/ PriorWaitEnds(t)
                      \/ TailEnds(t) \/ DeregisterSSE(t)
  \/ \E w \in Writes : \/ \E m \in MessageIds : WriteGate(w, m)
                       \/ Claim(w) \/ RegisterWrite(w) \/ WriteEnds(w) \/ DeregisterWrite(w)
  \/ \E l \in Leaves : LeaveGate(l) \/ LookupAndCancel(l) \/ LeaveWaitEnds(l) \/ RemoveMember(l)
  \/ Reinvite

-----------------------------------------------------------------------------
Registered(x) == handler[x].at \in {"priorWait", "running", "returning"}

(* A leave can reach every tail: one that has not been told to end is the  *)
(* one the registry has, however many have been replaced and however late  *)
(* those deregister.  Unless a message_id has been claimed twice (its      *)
(* outcome was not recorded, or the race that WrittenOnce of MessageWrite  *)
(* shows), the same holds of writes, and a leave that has waited to the    *)
(* end goes on only when every handler it had found has returned.          *)
ConnectionsSound ==
  /\ \A t \in Tails : Registered(t) /\ ~handler[t].cancelled => sse = t
  /\ (\A m \in MessageIds : claims[m] <= 1) =>
       /\ \A w \in Writes : Registered(w) => write[handler[w].msg] = w
       /\ \A l \in Leaves : leave[l].drained =>
            \A x \in leave[l].waits : handler[x].at = "ended"

(* "Otherwise a streaming write could still be submitting records after    *)
(* the row is removed" (conversations.go:215): when the agent has left,    *)
(* nothing of it runs that has not been cancelled.  TLC refutes it: a      *)
(* request that passed its gate before the leave registers after           *)
(* LookupAndCancel, and nothing cancels it.                                *)
NothingAfterLeave ==
  ~member => \A x \in Tails \cup Writes : Registered(x) => handler[x].cancelled
================================================================================
