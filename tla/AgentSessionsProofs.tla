-------------------------- MODULE AgentSessionsProofs --------------------------
(***************************************************************************)
(* Proofs about AgentSessions, for every value of its constants.  The      *)
(* three parts share no variable, so each has an inductive invariant of    *)
(* its own, which a step of another part leaves alone.                     *)
(***************************************************************************)
EXTENDS AgentSessions, TLAPS

-----------------------------------------------------------------------------
(* The resident                                                            *)

ListenerStates == {"none", "listening", "draining", "closed", "gone"}

ResidentType ==
  /\ started \in Nat
  /\ entry \in {NoListener} \cup Ids
  /\ listener \in [Ids -> [at : ListenerStates, cancelled : BOOLEAN]]
  /\ response \in [by : {NoListener} \cup Ids, at : {"none", "waiting", "writing"}]
  /\ leaving \in [at : {"none", "waiting", "drained", "timed_out"}, waits : {NoListener} \cup Ids]

(* Only those started have left "none", so the next one is new; who is     *)
(* active has the entry; a response has a listener that would wait for it; *)
(* who has told a leave that it is done has closed its channel.            *)
ResidentInv ==
  /\ ResidentType
  /\ \A n \in Ids : n > started => listener[n].at = "none"
  /\ \A n \in Active : n = entry
  /\ response # NoResponse =>
       response.by \in Ids /\ listener[response.by].at \in {"listening", "draining"}
  /\ leaving.at = "drained" => leaving.waits \in DoneClosed

(* The server starts with no listener. *)
LEMMA ResidentInitially == Init => ResidentInv
  BY ResidentAssumption
     DEF Init, ResidentInit, ResidentInv, ResidentType, ListenerStates, Active, Ids, NoListener,
         NoResponse, NotLeaving, DoneClosed

(* A listener that starts is the only one of its conversation. *)
LEMMA ListenerStarts ==
  ResidentInv /\ StartListening /\ UNCHANGED <<response, leaving>> => ResidentInv'
<1> SUFFICES ASSUME ResidentInv, StartListening, UNCHANGED <<response, leaving>>
             PROVE  ResidentInv'
  OBVIOUS
<1> USE ResidentAssumption DEF ResidentInv, ResidentType, Active, Ids, NoListener, DoneClosed
<1>1. CASE entry # NoListener
  BY <1>1 DEF StartListening
<1>2. CASE entry = NoListener
  <2> DEFINE new == started + 1
  <2>1. new \in Ids /\ started' = new /\ entry' = new /\ listener[new].at = "none"
    BY <1>2 DEF StartListening
  <2>2. PICK c \in BOOLEAN : listener' = [listener EXCEPT ![new] =
                                            [at |-> "listening", cancelled |-> c]]
    BY <1>2 DEF StartListening
  <2>3. /\ listener' \in [Ids -> [at : ListenerStates, cancelled : BOOLEAN]]
        /\ listener'[new].at = "listening"
        /\ \A n \in Ids \ {new} : listener'[n] = listener[n]
    BY <2>1, <2>2 DEF ListenerStates
  <2>4. ResidentType'
    BY <2>1, <2>3
  <2>5. QED
    BY <1>2, <2>1, <2>3, <2>4
<1>3. QED
  BY <1>1, <1>2

(* A listener that is cancelled stays where it is. *)
LEMMA ListenerCancels ==
  ASSUME ResidentType, NEW n, listener' = [listener EXCEPT ![n].cancelled = TRUE]
  PROVE  listener' \in [Ids -> [at : ListenerStates, cancelled : BOOLEAN]]
<1>1. listener \in [Ids -> [at : ListenerStates, cancelled : BOOLEAN]]
  BY DEF ResidentType
<1>2. \A l \in [at : ListenerStates, cancelled : BOOLEAN] :
        [l EXCEPT !.cancelled = TRUE] \in [at : ListenerStates, cancelled : BOOLEAN]
  OBVIOUS
<1> QED BY <1>1, <1>2

(* What a listener that moves on changes. *)
LEMMA ListenerMoves ==
  ASSUME ResidentType, NEW n \in Ids, NEW there \in ListenerStates,
         listener' = [listener EXCEPT ![n].at = there]
  PROVE  /\ listener' \in [Ids -> [at : ListenerStates, cancelled : BOOLEAN]]
         /\ listener'[n].at = there
         /\ \A k \in Ids \ {n} : listener'[k] = listener[k]
  BY DEF ResidentType

(* Every step of the resident keeps it. *)
LEMMA ResidentInductive == ResidentInv /\ ResidentNext => ResidentInv'
<1> SUFFICES ASSUME ResidentInv, ResidentNext PROVE ResidentInv'
  OBVIOUS
<1> USE ResidentAssumption
    DEF ResidentInv, ResidentType, ListenerStates, Active, Ids, NoListener, NoResponse, NotLeaving,
        DoneClosed
<1>1. CASE Start
  <2>1. CASE StartListening
    BY <1>1, <2>1, ListenerStarts DEF Start
  <2>2. CASE UNCHANGED <<started, entry, listener>>
    BY <1>1, <2>2 DEF Start
  <2>3. QED
    BY <1>1, <2>1, <2>2 DEF Start
<1>2. CASE Invite
  BY <1>2 DEF Invite
<1>3. CASE NotifyInvite
  BY <1>3 DEF NotifyInvite
<1>4. CASE DiscoveryLoop
  BY <1>4, ListenerStarts DEF DiscoveryLoop
<1>5. CASE Shutdown
  <2>1. \A n \in Ids : listener'[n].at = listener[n].at
    BY <1>5 DEF Shutdown
  <2>2. \A n \in Ids : [listener[n] EXCEPT !.cancelled = TRUE]
                        \in [at : ListenerStates, cancelled : BOOLEAN]
    <3> TAKE n \in Ids
    <3>1. listener[n] \in [at : ListenerStates, cancelled : BOOLEAN]
      OBVIOUS
    <3> HIDE DEF ResidentInv, ResidentType, Ids, Active, DoneClosed
    <3> QED  BY <3>1
  <2>3. listener' \in [Ids -> [at : ListenerStates, cancelled : BOOLEAN]]
    <3> HIDE DEF ListenerStates
    <3> QED  BY <1>5, <2>2, Zenon DEF Shutdown
  <2>4. QED
    BY <1>5, <2>1, <2>3 DEF Shutdown
<1>6. CASE Respond
  BY <1>6 DEF Respond
<1>7. CASE ResponseEnds
  BY <1>7 DEF ResponseEnds
<1>8. CASE \E n \in Ids : OnMessageEnd(n)
  BY <1>8 DEF OnMessageEnd
<1>9. CASE \E n \in Ids : ListenerCancelled(n)
  <2> PICK n \in Ids : ListenerCancelled(n)
    BY <1>9
  <2>1. /\ listener' \in [Ids -> [at : ListenerStates, cancelled : BOOLEAN]]
        /\ listener[n].at = "listening" /\ listener'[n].at = "draining"
        /\ \A k \in Ids \ {n} : listener'[k] = listener[k]
    BY ListenerMoves DEF ListenerCancelled
  <2>2. QED
    BY <2>1 DEF ListenerCancelled
<1>10. CASE \E n \in Ids : CloseDone(n)
  <2> PICK n \in Ids : CloseDone(n)
    BY <1>10
  <2>1. /\ listener' \in [Ids -> [at : ListenerStates, cancelled : BOOLEAN]]
        /\ listener[n].at = "draining" /\ listener'[n].at = "closed"
        /\ \A k \in Ids \ {n} : listener'[k] = listener[k]
    BY ListenerMoves DEF CloseDone
  <2>2. QED
    BY <2>1 DEF CloseDone, Drained
<1>11. CASE \E n \in Ids : RemoveEntry(n)
  <2> PICK n \in Ids : RemoveEntry(n)
    BY <1>11
  <2>1. /\ listener' \in [Ids -> [at : ListenerStates, cancelled : BOOLEAN]]
        /\ listener[n].at = "closed" /\ listener'[n].at = "gone"
        /\ \A k \in Ids \ {n} : listener'[k] = listener[k]
    BY ListenerMoves DEF RemoveEntry
  <2>2. /\ entry' = NoListener
        /\ UNCHANGED <<started, response, leaving>>
    BY DEF RemoveEntry
  <2>3. \A k \in Ids \ {n} : k \notin Active
    BY <2>1
  <2>4. response = NoResponse
    BY <2>1, <2>3
  <2>5. \A k \in Ids : k \notin Active'
    BY <2>1, <2>3
  <2>6. (leaving.at = "drained" => leaving.waits \in DoneClosed)'
    BY <2>1, <2>2
  <2>7. (\A k \in Ids : k > started => listener[k].at = "none")'
    BY <2>1, <2>2
  <2>8. QED
    BY <2>1, <2>2, <2>4, <2>5, <2>6, <2>7
<1>12. CASE NotifyLeave
  <2>1. \A n \in Ids : listener'[n].at = listener[n].at
    BY <1>12 DEF NotifyLeave
  <2>2. listener' \in [Ids -> [at : ListenerStates, cancelled : BOOLEAN]]
    <3>1. CASE entry = NoListener
      BY <1>12, <3>1 DEF NotifyLeave
    <3>2. CASE entry # NoListener
      <4>1. listener' = [listener EXCEPT ![entry].cancelled = TRUE]
        BY <1>12, <3>2 DEF NotifyLeave
      <4> QED BY <4>1, ListenerCancels
    <3> QED BY <3>1, <3>2
  <2>3. QED
    BY <1>12, <2>1, <2>2 DEF NotifyLeave
<1>13. CASE LeaveGoesOn
  BY <1>13 DEF LeaveGoesOn
<1>14. CASE ResidentLeft
  BY <1>14 DEF ResidentLeft
<1>15. QED
  BY <1>1, <1>2, <1>3, <1>4, <1>5, <1>6, <1>7, <1>8, <1>9, <1>10, <1>11, <1>12, <1>13, <1>14
     DEF ResidentNext

(* The resident (internal/agent): one goroutine listens to a conversation, *)
(* and its response ends before it tells a leave that it is done, for any  *)
(* number of invites, leaves, listeners and messages.                      *)
THEOREM OneListener == Spec => []ResidentSound
<1>1. Init => ResidentInv
  BY ResidentInitially
<1>2. ResidentInv /\ [Next]_vars => ResidentInv'
  <2> SUFFICES ASSUME ResidentInv, [Next]_vars PROVE ResidentInv'
    OBVIOUS
  <2>1. CASE ResidentPart
    BY <2>1, ResidentInductive DEF ResidentPart
  <2>2. CASE UNCHANGED residentVars
    BY <2>2 DEF ResidentInv, ResidentType, Active, DoneClosed, residentVars
  <2>3. QED
    BY <2>1, <2>2 DEF Next, vars, ConnectionsPart, ReadingPart
<1>3. ResidentInv => ResidentSound
  BY DEF ResidentInv, ResidentType, ResidentSound, DoneClosed, NoResponse, NoListener
<1>4. QED
  BY <1>1, <1>2, <1>3, PTL DEF Spec

-----------------------------------------------------------------------------
(* Connections                                                             *)

Handlers == Tails \cup Writes
HandlerType == [at : {"idle", "gated", "priorWait", "claimed", "running", "returning", "ended",
                      "refused"},
                cancelled : BOOLEAN,
                msg : MessageIds \cup {Nobody}]

ConnectionsType ==
  /\ sse \in Tails \cup {Nobody}
  /\ write \in [MessageIds -> Writes \cup {Nobody}]
  /\ claims \in [MessageIds -> Nat]
  /\ handler \in [Handlers -> HandlerType]
  /\ closed \subseteq Handlers
  /\ leave \in [Leaves -> [at : {"idle", "gated", "waiting", "removing", "left", "refused"},
                           waits : SUBSET Handlers, drained : BOOLEAN]]

(* The write has claimed its message, now or before. *)
HasClaimed(w) == handler[w].at \in {"claimed", "running", "returning", "ended"}

TailsInv ==
  \A t \in Tails :
    /\ Registered(t) /\ ~handler[t].cancelled => sse = t
    /\ t \in closed => handler[t].at = "ended"

(* Each write that has claimed counts; entries and closed channels are     *)
(* those of writes that have claimed that message.                         *)
WritesInv ==
  /\ \A w \in Writes : handler[w].at # "priorWait"
  /\ \A w \in Writes : handler[w].at \in {"gated", "claimed", "running", "returning", "ended"}
                         => handler[w].msg \in MessageIds
  /\ \A w \in Writes : HasClaimed(w) => claims[handler[w].msg] >= 1
  /\ \A m \in MessageIds : write[m] # Nobody => HasClaimed(write[m]) /\ handler[write[m]].msg = m
  /\ \A w \in Writes : w \in closed => HasClaimed(w)

(* What holds of a message that has been claimed once *)
ClaimedOnceInv ==
  \A m \in MessageIds : claims[m] <= 1 =>
    /\ \A v, w \in Writes : HasClaimed(v) /\ HasClaimed(w) /\ handler[v].msg = m /\ handler[w].msg = m
                              => v = w
    /\ \A w \in Writes : handler[w].msg = m =>
         /\ Registered(w) => write[m] = w
         /\ w \in closed => handler[w].at = "ended"

LeavesInv ==
  \A l \in Leaves : leave[l].drained => /\ leave[l].at \in {"removing", "left", "refused"}
                                        /\ leave[l].waits \subseteq closed

ConnectionsInv ==
  /\ ConnectionsType
  /\ TailsInv
  /\ WritesInv
  /\ ClaimedOnceInv
  /\ LeavesInv

(* No request has come yet. *)
LEMMA ConnectionsInitially == Init => ConnectionsInv
  BY ConnectionsAssumption
     DEF Init, ConnectionsInit, ConnectionsInv, ConnectionsType, TailsInv, WritesInv, ClaimedOnceInv,
         LeavesInv, Handlers, HandlerType, HasClaimed, Registered, Idle, NoLeave

(* A step of a handler from one place to another *)
LEMMA Moves ==
  ASSUME handler \in [Handlers -> HandlerType], NEW x \in Handlers, NEW here, 
         NEW there \in {"gated", "running", "returning", "ended", "claimed", "refused"},
         At(x, here, there)
  PROVE  /\ handler' \in [Handlers -> HandlerType]
         /\ handler[x].at = here /\ handler'[x].at = there
         /\ \A y \in Handlers : /\ handler'[y].msg = handler[y].msg
                                /\ handler'[y].cancelled = handler[y].cancelled
                                /\ y # x => handler'[y].at = handler[y].at
  BY DEF At, HandlerType

(* Cancelling changes nothing but the flag. *)
LEMMA Cancels ==
  ASSUME handler \in [Handlers -> HandlerType], NEW xs
  PROVE  /\ Cancel(xs) \in [Handlers -> HandlerType]
         /\ \A y \in Handlers : /\ Cancel(xs)[y].at = handler[y].at
                                /\ Cancel(xs)[y].msg = handler[y].msg
                                /\ Cancel(xs)[y].cancelled = (y \in xs \/ handler[y].cancelled)
<1>1. \A y \in Handlers : [handler[y] EXCEPT !.cancelled = TRUE] \in HandlerType
  <2> TAKE y \in Handlers
  <2>1. handler[y] \in HandlerType
    OBVIOUS
  <2>2. QED
    BY <2>1 DEF HandlerType
<1>2. Cancel(xs) = [y \in Handlers |-> IF y \in xs THEN [handler[y] EXCEPT !.cancelled = TRUE]
                                        ELSE handler[y]]
  BY DEF Cancel, Handlers
<1>3. Cancel(xs) \in [Handlers -> HandlerType]
  BY <1>1, <1>2, Zenon
<1>4. QED
  BY <1>2, <1>3 DEF HandlerType

(* A step that keeps the places of the tails, or of the writes, keeps what *)
(* is said of them; so does one that leaves the leaves alone.              *)
LEMMA TailsKept ==
  ASSUME TailsInv, sse' = sse,
         \A t \in Tails : /\ handler'[t].at = handler[t].at
                          /\ handler[t].cancelled => handler'[t].cancelled
                          /\ t \in closed' => t \in closed
  PROVE  TailsInv'
  BY DEF TailsInv, Registered

(* The same for the writes ... *)
LEMMA WritesKept ==
  ASSUME ConnectionsType, WritesInv, ClaimedOnceInv, UNCHANGED <<write, claims>>,
         \A w \in Writes : /\ handler'[w].at = handler[w].at
                           /\ handler'[w].msg = handler[w].msg
                           /\ w \in closed' => w \in closed
  PROVE  WritesInv' /\ ClaimedOnceInv'
  BY DEF ConnectionsType, WritesInv, ClaimedOnceInv, HasClaimed, Registered

(* ... and for the leaves. *)
LEMMA LeavesKept ==
  ASSUME LeavesInv, UNCHANGED leave, closed \subseteq closed' PROVE LeavesInv'
  BY DEF LeavesInv

(* Every step keeps what is said of the tails ... *)
LEMMA TailsInductive ==
  ASSUME ConnectionsInv, NEW t \in Tails,
         TailGate(t) \/ RegisterSSE(t) \/ PriorWaitEnds(t) \/ TailEnds(t) \/ DeregisterSSE(t)
  PROVE  ConnectionsInv'
<1>0. /\ ConnectionsType /\ TailsInv /\ WritesInv /\ ClaimedOnceInv /\ LeavesInv
      /\ handler \in [Handlers -> HandlerType] /\ t \in Handlers
      /\ Tails \subseteq Handlers /\ Writes \subseteq Handlers /\ t \notin Writes /\ t # Nobody
  BY ConnectionsAssumption DEF ConnectionsInv, ConnectionsType, Handlers
<1>1. UNCHANGED <<write, claims, leave>> /\ closed' \in {closed, closed \cup {t}}
  BY DEF TailGate, RegisterSSE, PriorWaitEnds, TailEnds, DeregisterSSE
<1>2. CASE TailGate(t) \/ PriorWaitEnds(t) \/ TailEnds(t) \/ DeregisterSSE(t)
  <2>1. \E here, there \in {"idle", "gated", "priorWait", "running", "returning", "ended"} :
          /\ At(t, here, there)
          /\ there \in {"gated", "running", "returning", "ended"}
          /\ here # "idle" => there = "ended" \/ here = "priorWait" \/ there = "returning"
    BY <1>2 DEF TailGate, PriorWaitEnds, TailEnds, DeregisterSSE
  <2>2. /\ handler' \in [Handlers -> HandlerType]
        /\ \A y \in Handlers : /\ handler'[y].msg = handler[y].msg
                               /\ handler'[y].cancelled = handler[y].cancelled
                               /\ y # t => handler'[y].at = handler[y].at
    BY <1>0, <2>1, Moves
  <2>3. WritesInv' /\ ClaimedOnceInv'
    BY <1>0, <1>1, <2>2, WritesKept
  <2>4. TailsInv'
    <3>1. CASE TailGate(t)
      BY <1>0, <2>2, <3>1, Moves DEF TailGate, TailsInv, Registered
    <3>2. CASE PriorWaitEnds(t)
      BY <1>0, <2>2, <3>2, Moves DEF PriorWaitEnds, TailsInv, Registered
    <3>3. CASE TailEnds(t)
      BY <1>0, <2>2, <3>3, Moves DEF TailEnds, TailsInv, Registered
    <3>4. CASE DeregisterSSE(t)
      <4>1. handler'[t].at = "ended" /\ sse' = Without(t) /\ closed' = closed \cup {t}
        BY <1>0, <3>4, Moves DEF DeregisterSSE
      <4>2. QED
        BY <1>0, <2>2, <4>1 DEF Without, TailsInv, Registered
    <3>5. QED
      BY <1>2, <3>1, <3>2, <3>3, <3>4
  <2>5. sse' \in Tails \cup {Nobody}
    BY <1>0, <1>2 DEF TailGate, PriorWaitEnds, TailEnds, DeregisterSSE, Without, ConnectionsType
  <2>6. ConnectionsType'
    BY <1>0, <1>1, <2>2, <2>5 DEF ConnectionsType
  <2>7. QED
    BY <1>0, <1>1, <2>3, <2>4, <2>6, LeavesKept DEF ConnectionsInv
<1>3. CASE RegisterSSE(t)
  <2> DEFINE c == Cancel({sse} \ {Nobody})
  <2>1. /\ c \in [Handlers -> HandlerType]
        /\ \A y \in Handlers :
             /\ c[y].at = handler[y].at /\ c[y].msg = handler[y].msg
             /\ c[y].cancelled = (y \in {sse} \ {Nobody} \/ handler[y].cancelled)
    BY <1>0, Cancels
  <2>2. /\ handler[t].at = "gated" /\ sse' = t /\ closed' = closed
        /\ \E there \in {"running", "priorWait"} : handler' = [c EXCEPT ![t].at = there]
    BY <1>3 DEF RegisterSSE
  <2> HIDE DEF c
  <2>3. /\ handler' \in [Handlers -> HandlerType]
        /\ \A y \in Handlers : /\ handler'[y].msg = c[y].msg
                               /\ handler'[y].cancelled = c[y].cancelled
                               /\ y # t => handler'[y].at = c[y].at
    BY <1>0, <2>1, <2>2 DEF HandlerType
  <2>4. TailsInv'
    <3> SUFFICES ASSUME NEW u \in Tails
                 PROVE  /\ Registered(u)' /\ ~handler'[u].cancelled => sse' = u
                        /\ u \in closed' => handler'[u].at = "ended"
      BY DEF TailsInv
    <3>1. CASE u = t
      BY <1>0, <2>2, <3>1 DEF TailsInv
    <3>2. CASE u # t
      <4>1. handler'[u].at = handler[u].at
        BY <1>0, <2>1, <2>3, <3>2
      <4>2. u = sse \/ handler[u].cancelled => handler'[u].cancelled
        BY <1>0, <2>1, <2>3, ConnectionsAssumption
      <4>3. QED
        BY <1>0, <2>2, <4>1, <4>2 DEF TailsInv, Registered
    <3>3. QED
      BY <3>1, <3>2
  <2>5. WritesInv' /\ ClaimedOnceInv'
    <3>1. \A w \in Writes : handler'[w].at = handler[w].at /\ handler'[w].msg = handler[w].msg
      BY <1>0, <2>1, <2>3
    <3>2. QED
      BY <1>0, <1>1, <2>2, <3>1, WritesKept
  <2>6. ConnectionsType'
    BY <1>0, <1>1, <2>2, <2>3 DEF ConnectionsType
  <2>7. QED
    BY <1>0, <1>1, <2>2, <2>4, <2>5, <2>6, LeavesKept DEF ConnectionsInv
<1>4. QED
  BY <1>2, <1>3

(* What a step of the write w has to keep *)
WriterMoved(w) ==
  /\ handler' \in [Handlers -> HandlerType]
  /\ \A y \in Handlers \ {w} : handler'[y] = handler[y]
  /\ handler'[w].cancelled = handler[w].cancelled
  /\ write' \in [MessageIds -> Writes \cup {Nobody}]
  /\ claims' \in [MessageIds -> Nat]
  /\ closed \subseteq closed' /\ closed' \subseteq closed \cup Writes
  /\ WritesInv' /\ ClaimedOnceInv'

(* What a step of a write from here to there changes. *)
LEMMA WriterMoves ==
  ASSUME handler \in [Handlers -> HandlerType], NEW w \in Handlers, NEW here,
         NEW there \in {"running", "returning", "ended", "claimed", "refused"},
         At(w, here, there)
  PROVE  /\ handler' \in [Handlers -> HandlerType]
         /\ handler[w].at = here /\ handler'[w].at = there
         /\ handler'[w].msg = handler[w].msg
         /\ handler'[w].cancelled = handler[w].cancelled
         /\ \A y \in Handlers \ {w} : handler'[y] = handler[y]
  BY DEF At, HandlerType

(* ... of the writes ... *)
LEMMA WritesInductive ==
  ASSUME ConnectionsInv, NEW w \in Writes,
         \/ \E m \in MessageIds : WriteGate(w, m)
         \/ Claim(w) \/ RegisterWrite(w) \/ WriteEnds(w) \/ DeregisterWrite(w)
  PROVE  ConnectionsInv'
<1>0. /\ ConnectionsType /\ TailsInv /\ WritesInv /\ ClaimedOnceInv /\ LeavesInv
      /\ handler \in [Handlers -> HandlerType] /\ w \in Handlers
      /\ write \in [MessageIds -> Writes \cup {Nobody}] /\ claims \in [MessageIds -> Nat]
      /\ Tails \subseteq Handlers /\ Writes \subseteq Handlers /\ w \notin Tails /\ w # Nobody
      /\ Tails \cap Writes = {} /\ Nobody \notin Writes
  BY ConnectionsAssumption DEF ConnectionsInv, ConnectionsType, Handlers
<1>1. UNCHANGED <<sse, leave>>
  BY DEF WriteGate, Claim, RegisterWrite, WriteEnds, DeregisterWrite
<1>2. SUFFICES WriterMoved(w)
  <2>1. ConnectionsType'
    BY <1>0, <1>1, <1>2 DEF ConnectionsType, WriterMoved, Handlers
  <2>2. TailsInv'
    BY <1>0, <1>1, <1>2, TailsKept DEF WriterMoved
  <2>3. QED
    BY <1>0, <1>1, <1>2, <2>1, <2>2, LeavesKept DEF ConnectionsInv, WriterMoved
<1> DEFINE m == handler[w].msg
<1>3. ASSUME NEW k \in MessageIds, WriteGate(w, k) PROVE WriterMoved(w)
  <2>1. /\ handler' \in [Handlers -> HandlerType]
        /\ handler[w].at = "idle" /\ handler'[w].at = "gated" /\ handler'[w].msg = k
        /\ handler'[w].cancelled = handler[w].cancelled
        /\ \A y \in Handlers \ {w} : handler'[y] = handler[y]
        /\ UNCHANGED <<write, claims, closed>>
    BY <1>0, <1>3 DEF WriteGate, HandlerType
  <2>2. WritesInv'
    BY <1>0, <2>1 DEF WritesInv, HasClaimed
  <2>3. ClaimedOnceInv'
    BY <1>0, <2>1 DEF ClaimedOnceInv, WritesInv, HasClaimed, Registered
  <2>4. QED
    BY <1>0, <2>1, <2>2, <2>3 DEF WriterMoved
<1>4. CASE Claim(w) /\ claim[m] = Nobody
  <2>1. /\ handler' \in [Handlers -> HandlerType]
        /\ handler[w].at = "gated" /\ handler'[w].at = "claimed" /\ handler'[w].msg = m
        /\ handler'[w].cancelled = handler[w].cancelled
        /\ \A y \in Handlers \ {w} : handler'[y] = handler[y]
    BY <1>0, <1>4, WriterMoves DEF Claim
  <2>2. /\ m \in MessageIds /\ claims' = [claims EXCEPT ![m] = @ + 1]
        /\ UNCHANGED <<write, closed>>
    BY <1>0, <1>4, <2>1 DEF Claim, WritesInv
  <2>3. /\ claims' \in [MessageIds -> Nat] /\ claims'[m] = claims[m] + 1
        /\ \A k \in MessageIds \ {m} : claims'[k] = claims[k]
    BY <1>0, <2>2
  <2>4. WritesInv'
    BY <1>0, <2>1, <2>2, <2>3 DEF WritesInv, HasClaimed
  <2>5. ASSUME claims'[m] <= 1, NEW v \in Writes, HasClaimed(v) PROVE handler[v].msg # m
    BY <1>0, <2>2, <2>3, <2>5 DEF WritesInv, HasClaimed
  <2>6. ClaimedOnceInv'
    BY <1>0, <2>1, <2>2, <2>3, <2>5 DEF ClaimedOnceInv, WritesInv, HasClaimed, Registered
  <2>7. QED
    BY <1>0, <2>1, <2>2, <2>3, <2>4, <2>6 DEF WriterMoved
<1>5. CASE Claim(w) /\ claim[m] # Nobody
  <2>1. /\ handler' \in [Handlers -> HandlerType]
        /\ handler[w].at = "gated" /\ handler'[w].at = "refused" /\ handler'[w].msg = m
        /\ handler'[w].cancelled = handler[w].cancelled
        /\ \A y \in Handlers \ {w} : handler'[y] = handler[y]
        /\ UNCHANGED <<write, claims, closed>>
    BY <1>0, <1>5, WriterMoves DEF Claim
  <2>2. WritesInv'
    BY <1>0, <2>1 DEF WritesInv, HasClaimed
  <2>3. ClaimedOnceInv'
    BY <1>0, <2>1 DEF ClaimedOnceInv, WritesInv, HasClaimed, Registered
  <2>4. QED
    BY <1>0, <2>1, <2>2, <2>3 DEF WriterMoved
<1>6. CASE RegisterWrite(w)
  <2>1. /\ handler' \in [Handlers -> HandlerType]
        /\ handler[w].at = "claimed" /\ handler'[w].at = "running" /\ handler'[w].msg = m
        /\ handler'[w].cancelled = handler[w].cancelled
        /\ \A y \in Handlers \ {w} : handler'[y] = handler[y]
    BY <1>0, <1>6, WriterMoves DEF RegisterWrite
  <2>2. /\ m \in MessageIds /\ write' = [write EXCEPT ![m] = w]
        /\ UNCHANGED <<claims, closed>>
    BY <1>0, <1>6, <2>1 DEF RegisterWrite, WritesInv
  <2>3. WritesInv'
    BY <1>0, <2>1, <2>2 DEF WritesInv, HasClaimed
  <2>4. ClaimedOnceInv'
    BY <1>0, <2>1, <2>2 DEF ClaimedOnceInv, WritesInv, HasClaimed, Registered
  <2>5. QED
    BY <1>0, <2>1, <2>2, <2>3, <2>4 DEF WriterMoved
<1>7. CASE WriteEnds(w)
  <2>1. /\ handler' \in [Handlers -> HandlerType]
        /\ handler[w].at = "running" /\ handler'[w].at = "returning" /\ handler'[w].msg = m
        /\ handler'[w].cancelled = handler[w].cancelled
        /\ \A y \in Handlers \ {w} : handler'[y] = handler[y]
        /\ UNCHANGED <<write, claims, closed>>
    BY <1>0, <1>7, WriterMoves DEF WriteEnds
  <2>2. WritesInv'
    BY <1>0, <2>1 DEF WritesInv, HasClaimed
  <2>3. ClaimedOnceInv'
    BY <1>0, <2>1 DEF ClaimedOnceInv, WritesInv, HasClaimed, Registered
  <2>4. QED
    BY <1>0, <2>1, <2>2, <2>3 DEF WriterMoved
<1>8. CASE DeregisterWrite(w)
  <2>1. /\ handler' \in [Handlers -> HandlerType]
        /\ handler[w].at = "returning" /\ handler'[w].at = "ended" /\ handler'[w].msg = m
        /\ handler'[w].cancelled = handler[w].cancelled
        /\ \A y \in Handlers \ {w} : handler'[y] = handler[y]
    BY <1>0, <1>8, WriterMoves DEF DeregisterWrite
  <2>2. /\ m \in MessageIds /\ write' = [write EXCEPT ![m] = Nobody]
        /\ closed' = closed \cup ({write[m]} \ {Nobody})
        /\ UNCHANGED claims
    BY <1>0, <1>8, <2>1 DEF DeregisterWrite, WritesInv
  <2>3. WritesInv'
    BY <1>0, <2>1, <2>2 DEF WritesInv, HasClaimed
  <2>4. ASSUME claims[m] <= 1 PROVE write[m] = w
    BY <1>0, <2>1, <2>2, <2>4 DEF ClaimedOnceInv, Registered
  <2>5. ClaimedOnceInv'
    BY <1>0, <2>1, <2>2, <2>4 DEF ClaimedOnceInv, WritesInv, HasClaimed, Registered
  <2>6. QED
    BY <1>0, <2>1, <2>2, <2>3, <2>5 DEF WriterMoved
<1>9. QED
  BY <1>3, <1>4, <1>5, <1>6, <1>7, <1>8

(* ... and of the leaves. *)
LEMMA LeavesInductive ==
  ASSUME ConnectionsInv, NEW l \in Leaves,
         LeaveGate(l) \/ LookupAndCancel(l) \/ LeaveWaitEnds(l) \/ RemoveMember(l)
  PROVE  ConnectionsInv'
<1> DEFINE LeaveType == [at : {"idle", "gated", "waiting", "removing", "left", "refused"},
                         waits : SUBSET Handlers, drained : BOOLEAN]
           found == ({sse} \cup {write[k] : k \in MessageIds}) \ {Nobody}
<1>0. /\ ConnectionsType /\ TailsInv /\ WritesInv /\ ClaimedOnceInv /\ LeavesInv
      /\ handler \in [Handlers -> HandlerType]
      /\ leave \in [Leaves -> LeaveType] /\ leave[l] \in LeaveType
      /\ Tails \subseteq Handlers /\ Writes \subseteq Handlers
  BY DEF ConnectionsInv, ConnectionsType, Handlers
<1>1. UNCHANGED <<sse, write, claims, closed>>
  BY DEF LeaveGate, LookupAndCancel, LeaveWaitEnds, RemoveMember
<1>2. /\ handler' \in [Handlers -> HandlerType]
      /\ \A y \in Handlers : /\ handler'[y].at = handler[y].at
                             /\ handler'[y].msg = handler[y].msg
                             /\ handler[y].cancelled => handler'[y].cancelled
  <2>1. handler' = handler \/ handler' = Cancel(found)
    BY DEF LeaveGate, LookupAndCancel, LeaveWaitEnds, RemoveMember
  <2> HIDE DEF found
  <2>2. CASE handler' = handler
    BY <1>0, <2>2
  <2>3. CASE handler' = Cancel(found)
    <3>1. /\ Cancel(found) \in [Handlers -> HandlerType]
          /\ \A y \in Handlers :
               /\ Cancel(found)[y].at = handler[y].at
               /\ Cancel(found)[y].msg = handler[y].msg
               /\ Cancel(found)[y].cancelled = (y \in found \/ handler[y].cancelled)
      BY <1>0, Cancels, Zenon
    <3>2. QED
      BY <2>3, <3>1, Zenon
  <2>4. QED
    BY <2>1, <2>2, <2>3
<1>3. PICK e : /\ leave' = [leave EXCEPT ![l] = e]
               /\ e \in LeaveType
               /\ e.drained => /\ e.at \in {"removing", "left", "refused"}
                               /\ e.waits \subseteq closed
  <2>1. found \subseteq Handlers
    BY <1>0 DEF Handlers, ConnectionsType
  <2> HIDE DEF found
  <2>2. CASE LeaveGate(l)
    <3> DEFINE e == [leave[l] EXCEPT !.at = "gated"]
    <3>1. leave' = [leave EXCEPT ![l] = e] /\ leave[l].at = "idle"
      BY <2>2 DEF LeaveGate
    <3>2. e \in LeaveType /\ e.drained = leave[l].drained
      BY <1>0
    <3>3. QED
      BY <1>0, <3>1, <3>2 DEF LeavesInv
  <2>3. CASE LookupAndCancel(l)
    <3> DEFINE e == [leave[l] EXCEPT !.at = "waiting", !.waits = found]
    <3>1. leave' = [leave EXCEPT ![l] = e] /\ leave[l].at = "gated"
      BY <1>0, <2>3 DEF LookupAndCancel, found
    <3>2. e \in LeaveType /\ e.drained = leave[l].drained
      BY <1>0, <2>1
    <3>3. QED
      BY <1>0, <3>1, <3>2 DEF LeavesInv
  <2>4. CASE LeaveWaitEnds(l)
    <3>1. PICK d \in BOOLEAN : /\ leave' = [leave EXCEPT ![l].at = "removing", ![l].drained = d]
                               /\ d => leave[l].waits \subseteq closed
      BY <2>4 DEF LeaveWaitEnds, AllClosed
    <3> DEFINE e == [leave[l] EXCEPT !.at = "removing", !.drained = d]
    <3>2. leave' = [leave EXCEPT ![l] = e]
      BY <1>0, <3>1
    <3>3. e \in LeaveType /\ e.drained = d /\ e.at = "removing" /\ e.waits = leave[l].waits
      BY <1>0
    <3>4. QED
      BY <3>1, <3>2, <3>3
  <2>5. CASE RemoveMember(l)
    <3>1. PICK there \in {"left", "refused"} : leave' = [leave EXCEPT ![l].at = there]
      BY <2>5 DEF RemoveMember
    <3> DEFINE e == [leave[l] EXCEPT !.at = there]
    <3>2. leave' = [leave EXCEPT ![l] = e]
      BY <1>0, <3>1
    <3>3. /\ e \in LeaveType /\ e.drained = leave[l].drained /\ e.at = there
          /\ e.waits = leave[l].waits
      BY <1>0
    <3>4. QED
      BY <1>0, <3>2, <3>3 DEF LeavesInv
  <2>6. QED
    BY <2>2, <2>3, <2>4, <2>5
<1>4. leave' \in [Leaves -> LeaveType] /\ LeavesInv'
  <2> HIDE DEF LeaveType
  <2>1. leave' \in [Leaves -> LeaveType]
    BY <1>0, <1>3
  <2>2. QED
    BY <1>0, <1>1, <1>3, <2>1 DEF LeavesInv
<1>5. ConnectionsType'
  BY <1>0, <1>1, <1>2, <1>4 DEF ConnectionsType
<1>6. TailsInv' /\ WritesInv' /\ ClaimedOnceInv'
  BY <1>0, <1>1, <1>2, TailsKept, WritesKept
<1>7. QED
  BY <1>4, <1>5, <1>6 DEF ConnectionsInv

(* conn_registry.go: a leave reaches every tail, and writes that were      *)
(* claimed once; one that has waited to the end goes on when what it had   *)
(* found has returned, for any number of connections and leaves.           *)
THEOREM LeaveReachesAll == Spec => []ConnectionsSound
<1>1. Init => ConnectionsInv
  BY ConnectionsInitially
<1>2. ConnectionsInv /\ [Next]_vars => ConnectionsInv'
  <2> SUFFICES ASSUME ConnectionsInv, [Next]_vars PROVE ConnectionsInv'
    OBVIOUS
  <2>1. CASE ConnectionsPart
    <3>1. CASE Reinvite
      BY <3>1 DEF Reinvite, ConnectionsInv, ConnectionsType, TailsInv, WritesInv, ClaimedOnceInv,
                  LeavesInv, HasClaimed, Registered
    <3>2. QED
      BY <2>1, <3>1, TailsInductive, WritesInductive, LeavesInductive
         DEF ConnectionsPart, ConnectionsNext
  <2>2. CASE UNCHANGED connVars
    BY <2>2 DEF connVars, ConnectionsInv, ConnectionsType, TailsInv, WritesInv, ClaimedOnceInv,
                LeavesInv, HasClaimed, Registered
  <2>3. QED
    BY <2>1, <2>2 DEF Next, vars, ReadingPart, ResidentPart
<1>3. ConnectionsInv => ConnectionsSound
  <2> SUFFICES ASSUME ConnectionsInv PROVE ConnectionsSound
    OBVIOUS
  <2>1. \A w \in Writes : Registered(w) => HasClaimed(w) /\ handler[w].msg \in MessageIds
    BY DEF ConnectionsInv, WritesInv, Registered, HasClaimed
  <2>2. ASSUME \A m \in MessageIds : claims[m] <= 1, NEW x \in closed
        PROVE  handler[x].at = "ended"
    <3>1. CASE x \in Tails
      BY <3>1 DEF ConnectionsInv, TailsInv
    <3>2. CASE x \in Writes
      BY <2>2, <3>2 DEF ConnectionsInv, WritesInv, ClaimedOnceInv, HasClaimed
    <3>3. QED
      BY <3>1, <3>2 DEF ConnectionsInv, ConnectionsType, Handlers
  <2>3. QED
    BY <2>1, <2>2 DEF ConnectionsInv, TailsInv, ClaimedOnceInv, LeavesInv, ConnectionsSound
<1>4. QED
  BY <1>1, <1>2, <1>3, PTL DEF Spec

-----------------------------------------------------------------------------
(* Reading                                                                 *)

ReadingType ==
  /\ records \in Nat /\ headSeq \in Nat /\ deliverySeq \in Nat /\ ackSeq \in Nat
  /\ tail \in [up : BOOLEAN, next : Nat, ended : BOOLEAN]
  /\ eventCh \in Seq(Nat) /\ wire \in Seq(Nat)
  /\ lastEventId \in Nat \cup {NoId}
  /\ known \subseteq Nat

(* The records of s follow one another. *)
Consecutive(s) == \A i \in 1 .. Len(s) : i < Len(s) => s[i + 1] = s[i] + 1

(* The client has all before n. *)
KnownBefore(n) == \A k \in Nat : k < n => k \in known

(* n continues what is on its way to the client. *)
Continues(n) == IF wire = <<>> THEN KnownBefore(n) ELSE n = wire[Len(wire)] + 1

(* From the client's records over the wire and the channel to the next     *)
(* record of the tailer, nothing is left out.                              *)
ReadingInv ==
  /\ ReadingType
  /\ \A k \in known : KnownBefore(k)
  /\ KnownBefore(deliverySeq) /\ KnownBefore(lastEventId + 1)
  /\ ackSeq <= headSeq
  /\ Consecutive(wire) /\ Consecutive(eventCh)
  /\ wire # <<>> => KnownBefore(wire[1])
  /\ eventCh # <<>> => tail.up /\ Continues(eventCh[1])
  /\ tail.up => IF eventCh = <<>> THEN Continues(tail.next)
                ELSE tail.next = eventCh[Len(eventCh)] + 1

(* Nothing has been read. *)
LEMMA ReadingInitially == Init => ReadingInv
  BY DEF Init, ReadingInit, ReadingInv, ReadingType, Consecutive, KnownBefore, Continues, NoTail, NoId

(* A sequence is empty when its length is 0. *)
LEMMA EmptyIsShort == \A q \in Seq(Nat) : q = <<>> <=> Len(q) = 0
  OBVIOUS

(* eventCh and wire stay consecutive when the next record is appended. *)
LEMMA AppendKeeps ==
  ASSUME NEW s \in Seq(Nat), Consecutive(s), NEW n \in Nat, s # <<>> => n = s[Len(s)] + 1
  PROVE  /\ Append(s, n) \in Seq(Nat) /\ Append(s, n) # <<>>
         /\ Append(s, n)[Len(Append(s, n))] = n
         /\ Append(s, n)[1] = IF s = <<>> THEN n ELSE s[1]
         /\ Consecutive(Append(s, n))
<1> DEFINE t == Append(s, n)
<1>1. t \in Seq(Nat) /\ Len(s) \in Nat /\ Len(t) = Len(s) + 1
  OBVIOUS
<1>2. t[Len(s) + 1] = n /\ \A i \in 1 .. Len(s) : t[i] = s[i]
  OBVIOUS
<1> HIDE DEF t
<1>3. (s = <<>>) <=> Len(s) = 0
  BY EmptyIsShort
<1>4. t # <<>>
  BY <1>1, EmptyIsShort
<1>5. t[1] = IF s = <<>> THEN n ELSE s[1]
  <2>1. CASE s = <<>>
    BY <1>2, <1>3, <2>1
  <2>2. CASE s # <<>>
    <3>1. 1 \in 1 .. Len(s)
      BY <1>1, <1>3, <2>2
    <3>2. QED
      BY <1>2, <2>2, <3>1
  <2>3. QED
    BY <2>1, <2>2
<1>6. Consecutive(t)
  <2> SUFFICES ASSUME NEW i \in 1 .. Len(t), i < Len(t) PROVE t[i + 1] = t[i] + 1
    BY DEF Consecutive
  <2>1. i \in 1 .. Len(s) /\ t[i] = s[i]
    BY <1>1, <1>2
  <2>2. CASE i = Len(s)
    BY <1>1, <1>2, <1>3, <2>1, <2>2
  <2>3. CASE i < Len(s)
    <3>1. i + 1 \in 1 .. Len(s)
      BY <1>1, <2>1, <2>3
    <3>2. QED
      BY <1>2, <2>1, <2>3, <3>1 DEF Consecutive
  <2>4. QED
    BY <1>1, <2>1, <2>2, <2>3
<1>7. QED
  BY <1>1, <1>2, <1>4, <1>5, <1>6 DEF t

(* ... and when the first is taken off. *)
LEMMA TailKeeps ==
  ASSUME NEW s \in Seq(Nat), s # <<>>, Consecutive(s)
  PROVE  /\ Head(s) = s[1] /\ s[1] \in Nat
         /\ Tail(s) \in Seq(Nat) /\ Consecutive(Tail(s))
         /\ IF Tail(s) = <<>> THEN s[Len(s)] = s[1]
            ELSE Tail(s)[1] = s[1] + 1 /\ Tail(s)[Len(Tail(s))] = s[Len(s)]
<1> DEFINE t == Tail(s)
<1>1. t \in Seq(Nat) /\ Len(s) \in Nat \ {0} /\ Len(t) = Len(s) - 1
  OBVIOUS
<1>2. \A i \in 1 .. Len(t) : t[i] = s[i + 1]
  OBVIOUS
<1>4. Head(s) = s[1] /\ s[1] \in Nat
  OBVIOUS
<1> HIDE DEF t
<1>3. (t = <<>>) <=> Len(t) = 0
  BY <1>1, EmptyIsShort
<1>5. Consecutive(t)
  <2> SUFFICES ASSUME NEW i \in 1 .. Len(t), i < Len(t) PROVE t[i + 1] = t[i] + 1
    BY DEF Consecutive
  <2>1. /\ i + 1 \in 1 .. Len(t) /\ i + 1 \in 1 .. Len(s) /\ i + 1 < Len(s)
    BY <1>1
  <2>2. s[(i + 1) + 1] = s[i + 1] + 1
    BY <2>1 DEF Consecutive
  <2>3. QED
    BY <1>2, <2>1, <2>2
<1>6. CASE t = <<>>
  BY <1>1, <1>3, <1>4, <1>5, <1>6 DEF t
<1>7. CASE t # <<>>
  <2>1. 1 \in 1 .. Len(t) /\ Len(t) \in 1 .. Len(t) /\ 1 \in 1 .. Len(s) /\ 1 < Len(s)
    BY <1>1, <1>3, <1>7
  <2>2. t[1] = s[1] + 1
    BY <1>2, <2>1 DEF Consecutive
  <2>3. t[Len(t)] = s[Len(s)]
    BY <1>1, <1>2, <2>1
  <2>4. QED
    BY <1>1, <1>4, <1>5, <1>7, <2>2, <2>3 DEF t
<1>8. QED
  BY <1>6, <1>7 DEF t

(* Every step of the client, the handler and the server keeps it. *)
LEMMA ReadingInductive == ReadingInv /\ ReadingNext => ReadingInv'
<1> SUFFICES ASSUME ReadingInv, ReadingNext PROVE ReadingInv'
  OBVIOUS
<1> USE DEF ReadingInv, ReadingType, KnownBefore, Continues, NoId
<1>1. CASE RecordAppended
  BY <1>1 DEF RecordAppended
<1>2. CASE \E h \in 0 .. MaxRecords : HeadAdvances(h)
  BY <1>2, ReadingAssumption DEF HeadAdvances
<1>3. CASE \E from \in 0 .. records : ConnectFrom(from)
  BY <1>3 DEF ConnectFrom, StartTail, Consecutive
<1>4. CASE ConnectResume
  BY <1>4 DEF ConnectResume, StartTail, Consecutive, Max2
<1>5. CASE ConnectStored
  BY <1>5 DEF ConnectStored, StartTail, Consecutive
<1>6. CASE TailerSends
  <2>1. tail' = [tail EXCEPT !.next = @ + 1] /\ tail' \in [up : BOOLEAN, next : Nat, ended : BOOLEAN]
    <3>1. tail \in [up : BOOLEAN, next : Nat, ended : BOOLEAN] /\ tail' = [tail EXCEPT !.next = @ + 1]
      BY <1>6 DEF TailerSends
    <3>2. QED
      BY ONLY <3>1
  <2>2. /\ eventCh' \in Seq(Nat) /\ eventCh' # <<>> /\ Consecutive(eventCh')
        /\ eventCh'[Len(eventCh')] = tail.next
        /\ eventCh'[1] = IF eventCh = <<>> THEN tail.next ELSE eventCh[1]
    <3>1. tail.next \in Nat /\ (eventCh # <<>> => tail.next = eventCh[Len(eventCh)] + 1)
      BY <1>6 DEF TailerSends
    <3>2. eventCh' = Append(eventCh, tail.next)
      BY <1>6 DEF TailerSends
    <3>3. QED
      BY <3>1, <3>2, AppendKeeps
  <2>3. Consecutive(wire)'
    BY <1>6 DEF TailerSends, Consecutive
  <2>4. Consecutive(eventCh)'
    BY <2>2 DEF Consecutive
  <2>5. (tail.up /\ Continues(eventCh[1]))'
    BY <1>6, <2>1, <2>2 DEF TailerSends
  <2>6. tail'.next = eventCh'[Len(eventCh')] + 1
    BY <1>6, <2>1, <2>2
  <2>7. QED
    BY <1>6, <2>1, <2>2, <2>3, <2>4, <2>5, <2>6 DEF TailerSends
<1>7. CASE TailerEnds
  BY <1>7 DEF TailerEnds
<1>8. CASE WriterFlushes
  <2> DEFINE e == eventCh[1]
  <2>1. /\ Head(eventCh) = e /\ e \in Nat
        /\ Tail(eventCh) \in Seq(Nat) /\ Consecutive(Tail(eventCh))
        /\ IF Tail(eventCh) = <<>> THEN eventCh[Len(eventCh)] = e
           ELSE Tail(eventCh)[1] = e + 1 /\ Tail(eventCh)[Len(Tail(eventCh))] = eventCh[Len(eventCh)]
    BY <1>8, TailKeeps DEF WriterFlushes
  <2>2. /\ Append(wire, e) \in Seq(Nat) /\ Append(wire, e) # <<>> /\ Consecutive(Append(wire, e))
        /\ Append(wire, e)[Len(Append(wire, e))] = e
        /\ Append(wire, e)[1] = IF wire = <<>> THEN e ELSE wire[1]
    <3>1. wire # <<>> => e = wire[Len(wire)] + 1
      BY <1>8 DEF WriterFlushes
    <3>2. QED
      BY <2>1, <3>1, AppendKeeps
  <2>3. /\ wire' = Append(wire, e) /\ eventCh' = Tail(eventCh)
        /\ UNCHANGED <<records, headSeq, deliverySeq, ackSeq, tail, lastEventId, known>>
    BY <1>8, <2>1 DEF WriterFlushes, WriterCursor
  <2>4. Consecutive(wire)' /\ Consecutive(eventCh)'
    BY <2>1, <2>2, <2>3 DEF Consecutive
  <2>5. KnownBefore(wire[1])'
    BY <1>8, <2>2, <2>3 DEF WriterFlushes
  <2>6. wire' # <<>> /\ wire'[Len(wire')] = e
    BY <2>2, <2>3
  <2>7. tail.up /\ tail.next = eventCh[Len(eventCh)] + 1
    BY <1>8 DEF WriterFlushes
  <2>8. eventCh' # <<>> => (tail.up /\ Continues(eventCh[1]))'
    BY <2>1, <2>3, <2>6, <2>7
  <2>9. (tail.up => IF eventCh = <<>> THEN Continues(tail.next)
                    ELSE tail.next = eventCh[Len(eventCh)] + 1)'
    BY <2>1, <2>3, <2>6, <2>7
  <2>10. QED
    BY <2>1, <2>2, <2>3, <2>4, <2>5, <2>8, <2>9
<1>9. CASE TailReturns
  BY <1>9 DEF TailReturns, NoTail, Consecutive
<1>10. CASE \E seq \in known : AckCursor(seq)
  BY <1>10 DEF AckCursor, Max2
<1>11. CASE ClientReads
  <2> DEFINE r == wire[1]
  <2>1. /\ Head(wire) = r /\ r \in Nat
        /\ Tail(wire) \in Seq(Nat) /\ Consecutive(Tail(wire))
        /\ IF Tail(wire) = <<>> THEN wire[Len(wire)] = r
           ELSE Tail(wire)[1] = r + 1 /\ Tail(wire)[Len(Tail(wire))] = wire[Len(wire)]
    BY <1>11, TailKeeps DEF ClientReads
  <2>2. /\ wire' = Tail(wire) /\ known' = known \cup {r} /\ lastEventId' = r
        /\ UNCHANGED <<records, headSeq, deliverySeq, ackSeq, tail, eventCh>>
    BY <1>11, <2>1 DEF ClientReads
  <2>3. \A k \in Nat : k < r + 1 => k \in known'
    BY <1>11, <2>1, <2>2 DEF ClientReads
  <2>4. \A n : KnownBefore(n) => KnownBefore(n)'
    BY <2>2
  <2>5. Consecutive(wire)' /\ Consecutive(eventCh)'
    BY <2>1, <2>2 DEF Consecutive
  <2>6. \A n : Continues(n) => Continues(n)'
    BY <1>11, <2>1, <2>2, <2>3 DEF ClientReads
  <2>7. wire' # <<>> => KnownBefore(wire[1])'
    BY <2>1, <2>2, <2>3
  <2>8. (\A k \in known : KnownBefore(k))' /\ KnownBefore(deliverySeq)' /\ KnownBefore(lastEventId + 1)'
    <3>1. (\A k \in known : KnownBefore(k))'
      BY <2>1, <2>2, <2>3, <2>4
    <3>2. KnownBefore(deliverySeq)'
      BY <2>2, <2>4
    <3>3. KnownBefore(lastEventId + 1)'
      BY <2>2, <2>3
    <3>4. QED
      BY <3>1, <3>2, <3>3
  <2>9. (eventCh # <<>> => tail.up /\ Continues(eventCh[1]))'
    BY <2>2, <2>6
  <2>10. (tail.up => IF eventCh = <<>> THEN Continues(tail.next)
                     ELSE tail.next = eventCh[Len(eventCh)] + 1)'
    BY <2>2, <2>6
  <2>11. ReadingType'
    BY <2>1, <2>2
  <2>12. QED
    BY <2>2, <2>5, <2>7, <2>8, <2>9, <2>10, <2>11
<1>12. CASE ConnectionLost
  BY <1>12 DEF ConnectionLost, NoTail, Consecutive
<1>13. CASE ClientForgets
  BY <1>13 DEF ClientForgets
<1>14. CASE \E flushed \in 0 .. deliverySeq - 1 : ServerRestarts(flushed)
  BY <1>14 DEF ServerRestarts, NoTail, Consecutive
<1>15. QED
  BY <1>1, <1>2, <1>3, <1>4, <1>5, <1>6, <1>7, <1>8, <1>9, <1>10, <1>11, <1>12, <1>13, <1>14
     DEF ReadingNext

(* sse.go, ack.go: a client that reads, loses its connection, resumes and  *)
(* acknowledges has no gap, and the stored cursor is not past what it has  *)
(* confirmed, for streams and channels of any length.                      *)
THEOREM NothingMissed == Spec => []NoGap
<1>1. Init => ReadingInv
  BY ReadingInitially
<1>2. ReadingInv /\ [Next]_vars => ReadingInv'
  <2> SUFFICES ASSUME ReadingInv, [Next]_vars PROVE ReadingInv'
    OBVIOUS
  <2>1. CASE ReadingPart
    BY <2>1, ReadingInductive DEF ReadingPart
  <2>2. CASE UNCHANGED readVars
    BY <2>2 DEF readVars, ReadingInv, ReadingType, Consecutive, KnownBefore, Continues
  <2>3. QED
    BY <2>1, <2>2 DEF Next, vars, ConnectionsPart, ResidentPart
<1>3. ReadingInv => NoGap
  BY DEF ReadingInv, ReadingType, KnownBefore, NoGap, Unread
<1>4. QED
  BY <1>1, <1>2, <1>3, PTL DEF Spec
================================================================================
