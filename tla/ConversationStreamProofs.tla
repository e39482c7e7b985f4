------------------------ MODULE ConversationStreamProofs ------------------------
(***************************************************************************)
(* Proofs about ConversationStream for any set of conversations, messages, *)
(* agents and connections, any length of the logs and any number of        *)
(* retries and faults.                                                     *)
(***************************************************************************)
EXTENDS ConversationStream, ConversationFeedProofs

(***************************************************************************)
(* The inductive invariant                                                 *)
(***************************************************************************)

(* An append or an end has its message_start before it on the log. *)
LogInv == \A c \in Conversations :
  /\ Len(log[c]) <= MaxEvents[c]
  /\ \A s \in 0 .. Len(log[c]) - 1 :
       log[c][s + 1].event \in {"message_append", "message_end"} =>
         log[c][s + 1].message_id \in Started(log[c], s)

(* One connection, or the timer that will open one, is current, and it is at the place the *)
(* hook has reached.                                                                       *)
ReaderInv ==
  /\ \A s \in Slots : conns[s] # Free => conns[s].next <= Len(log[conns[s].cid])
  /\ \A s \in Slots : Current(s) => conns[s].cid = cid /\ conns[s].next = lastSeq + 1
  /\ \A s, t \in Slots : Current(s) /\ Current(t) => s = t
  /\ timers > 0 => cid # NoConversation /\ \A s \in Slots : ~Current(s)

(* Message by message and event by event, the hook has what the first n records say. *)
LiveInv ==
  /\ lastSeq < Len(Log)
  /\ Tells(messages, Log, lastSeq + 1, cid)
  /\ TellsSystem(systemEvents, Log, lastSeq + 1)

(***************************************************************************)
(* The reducer keeps the types                                             *)
(***************************************************************************)

(* The reducer keeps the shapes that the components render. *)
LEMMA ReduceTypes ==
  ASSUME NEW msgs, DOMAIN msgs \subseteq Messages, ValuesOf(msgs) \subseteq UIMessages(Conversations, Seqs),
         NEW c \in Conversations, NEW n \in Seqs, NEW f \in Events,
         f.event \in {"message_append", "message_end"} => f.message_id \in DOMAIN msgs
  PROVE  /\ DOMAIN ReduceMessages(msgs, c, n, f) \subseteq Messages
         /\ ValuesOf(ReduceMessages(msgs, c, n, f)) \subseteq UIMessages(Conversations, Seqs)
<1> DEFINE m == f.message_id
           U == UIMessages(Conversations, Seqs)
<1>1. PICK out : out = ReduceMessages(msgs, c, n, f)
  OBVIOUS
<1>2. ReduceCases(out, msgs, c, n, f, m)
  BY <1>1, ReduceParts
<1>3. \A x \in DOMAIN msgs : msgs[x] \in U
  BY DEF ValuesOf
<1>4. ASSUME NEW q \in U PROVE Extended(q, n) \in U /\ Finished(q, TRUE) \in U /\ Finished(q, FALSE) \in U
  <2>1. Append(q.content, n) \in Seq(Seqs)
    BY AppendProperties DEF UIMessages
  <2>2. Extended(q, n) \in U
    BY <2>1 DEF Extended, UIMessages
  <2>3. Finished(q, TRUE) \in U /\ Finished(q, FALSE) \in U
    BY DEF Finished, UIMessages
  <2> QED BY <2>2, <2>3
<1>5. ASSUME NEW q \in U, m \in DOMAIN msgs, out = Replaced(msgs, m, q)
      PROVE  DOMAIN out \subseteq Messages /\ \A x \in DOMAIN out : out[x] \in U
  BY <1>3, <1>5 DEF Replaced
<1>6. CASE f.event = "message_start"
  <2>1. m \in Messages /\ f.sender_id \in Agents
    BY <1>6, EventFields DEF MessageEvents
  <2>2. <<>> \in Seq(Seqs)
    OBVIOUS
  <2>3. Entry(m, f.sender_id, c, <<>>, TRUE, FALSE, n) \in U
    BY <2>1, <2>2 DEF Entry, UIMessages
  <2>4. out = Put(msgs, m, Entry(m, f.sender_id, c, <<>>, TRUE, FALSE, n))
    BY <1>2, <1>6 DEF ReduceCases
  <2>5. DOMAIN out \subseteq Messages /\ \A x \in DOMAIN out : out[x] \in U
    BY <1>3, <2>1, <2>3, <2>4 DEF Put
  <2> QED BY <1>1, <2>5 DEF ValuesOf
<1>7. CASE m \in DOMAIN msgs /\ f.event \in {"message_append", "message_end", "message_abort"}
  <2>1. \E q \in U : out = Replaced(msgs, m, q)
    BY <1>2, <1>3, <1>4, <1>7 DEF ReduceCases
  <2>2. DOMAIN out \subseteq Messages /\ \A x \in DOMAIN out : out[x] \in U
    BY <1>5, <1>7, <2>1
  <2> QED BY <1>1, <2>2 DEF ValuesOf
<1>8. CASE f.event \notin MessageEvents \/ (f.event = "message_abort" /\ m \notin DOMAIN msgs)
  BY <1>1, <1>2, <1>8 DEF ReduceCases
<1> QED BY <1>6, <1>7, <1>8 DEF MessageEvents

LEMMA ReduceSystemTypes ==
  ASSUME NEW evs, ValuesOf(evs) \subseteq SystemEvents(Seqs), NEW n \in Seqs, NEW f \in Events
  PROVE  ValuesOf(ReduceSystemEvents(evs, n, f)) \subseteq SystemEvents(Seqs)
<1>1. CASE f.event \in MembershipEvents
  <2> DEFINE x == [kind |-> f.event, agentId |-> f.agent_id, seq |-> n]
  <2>1. x \in SystemEvents(Seqs)
    BY <1>1, EventFields DEF SystemEvents
  <2>2. ReduceSystemEvents(evs, n, f) = Put(evs, n, x)
    BY <1>1 DEF ReduceSystemEvents
  <2>3. ValuesOf(Put(evs, n, x)) \subseteq ValuesOf(evs) \cup {x}
    BY DEF ValuesOf, Put
  <2> QED BY <2>1, <2>2, <2>3
<1>2. CASE f.event \notin MembershipEvents
  BY <1>2 DEF ReduceSystemEvents
<1> QED BY <1>1, <1>2

(***************************************************************************)
(* The steps                                                               *)
(***************************************************************************)

StreamInv == TypeOK /\ LogInv /\ ReaderInv /\ LiveInv

LEMMA SeqsFacts == /\ Seqs \subseteq Nat
                   /\ \A c \in Conversations : MaxEvents[c] \in Nat /\ \A n \in 0 .. MaxEvents[c] : n \in Seqs
<1>1. \A c \in Conversations : MaxEvents[c] \in Nat
  BY StreamAssumption
<1> QED BY <1>1 DEF Seqs

(* A slot holds a connection with its fields, or none. *)
LEMMA ConnFields ==
  ASSUME NEW r \in Connections \cup {Free}
  PROVE  /\ r.st \in {"connecting", "open", "closing"} <=> r # Free
         /\ r # Free => /\ r \in Connections /\ r.cid \in Conversations
                        /\ r.next \in Seqs /\ r.next \in Nat /\ r.cancelled \in BOOLEAN
<1>1. CASE r = Free
  BY <1>1 DEF Free
<1>2. CASE r # Free
  <2>1. r \in Connections
    BY <1>2
  <2>2. /\ r.st \in {"connecting", "open", "closing"} /\ r.cid \in Conversations
        /\ r.next \in Seqs /\ r.cancelled \in BOOLEAN
    BY <2>1 DEF Connections
  <2> QED BY <1>2, <2>1, <2>2, SeqsFacts
<1> QED BY <1>1, <1>2

LEMMA NewConn ==
  ASSUME NEW c \in Conversations, NEW n \in Seqs
  PROVE  /\ Connecting(c, n) \in Connections /\ Connecting(c, n) # Free
         /\ Connecting(c, n).cid = c /\ Connecting(c, n).next = n /\ ~Connecting(c, n).cancelled
  BY DEF Connecting, Connections, Free

(* What a step that leaves the log and the hook alone preserves. *)
LEMMA HookKept ==
  ASSUME LogInv, LiveInv, UNCHANGED <<log, cid, hook>>
  PROVE  LogInv' /\ LiveInv'
<1>1. log' = log /\ cid' = cid /\ messages' = messages /\ systemEvents' = systemEvents /\ lastSeq' = lastSeq
  BY DEF hook
<1>2. LogInv'
  BY <1>1 DEF LogInv
<1>3. Log' = Log
  BY <1>1 DEF Log
<1>4. LiveInv'
  BY <1>1, <1>3 DEF LiveInv
<1> QED BY <1>2, <1>4

LEMMA HookTypesKept ==
  ASSUME TypeOK, UNCHANGED <<log, cid, hook>>, connected' \in BOOLEAN, error' \in BOOLEAN,
         retryCount' \in 0 .. MaxRetries, timers' \in 0 .. 1,
         conns' \in [Slots -> Connections \cup {Free}], faults' \in 0 .. MaxFaults
  PROVE  TypeOK'
<1>1. /\ log' = log /\ cid' = cid /\ messages' = messages /\ systemEvents' = systemEvents /\ lastSeq' = lastSeq
      /\ membershipChanged' = membershipChanged /\ liveMembership' = liveMembership
  BY DEF hook
<1> QED BY <1>1 DEF TypeOK

(* The hook's place lies within the log of the conversation it shows. *)
LEMMA Place ==
  ASSUME TypeOK, LogInv, lastSeq < Len(Log)
  PROVE  /\ lastSeq \in Int /\ lastSeq + 1 \in Nat /\ lastSeq + 1 <= Len(Log)
         /\ cid # NoConversation => /\ cid \in Conversations /\ Log = log[cid] /\ Len(log[cid]) \in Nat
                                    /\ lastSeq + 1 \in Seqs
<1>1. lastSeq \in Int /\ lastSeq + 1 \in Nat
  BY SeqsFacts DEF TypeOK, NoSeq
<1>2. Len(Log) \in Nat
  BY DEF TypeOK, Log
<1>3. lastSeq + 1 <= Len(Log)
  BY <1>1, <1>2
<1>4. ASSUME cid # NoConversation PROVE /\ cid \in Conversations /\ Log = log[cid] /\ Len(log[cid]) \in Nat
                                        /\ lastSeq + 1 \in Seqs
  <2>1. cid \in Conversations /\ Log = log[cid]
    BY <1>4 DEF TypeOK, Log
  <2>2. Len(log[cid]) <= MaxEvents[cid] /\ MaxEvents[cid] \in Nat
    BY <2>1, SeqsFacts DEF LogInv
  <2>3. lastSeq + 1 \in 0 .. MaxEvents[cid]
    BY <1>1, <1>2, <1>3, <2>1, <2>2
  <2> QED BY <1>2, <2>1, <2>3, SeqsFacts
<1> QED BY <1>1, <1>3, <1>4

(* A connection that is over: its slot is free, and the retry timer runs at most if it was *)
(* the current one.                                                                        *)
LEMMA SlotFreed ==
  ASSUME TypeOK, ReaderInv, NEW s \in Slots, conns' = [conns EXCEPT ![s] = Free],
         UNCHANGED <<log, cid, lastSeq>>, timers' = timers \/ Current(s)
  PROVE  ReaderInv' /\ conns' \in [Slots -> Connections \cup {Free}]
<1>1. /\ conns' \in [Slots -> Connections \cup {Free}]
      /\ \A t \in Slots : conns'[t] = IF t = s THEN Free ELSE conns[t]
  BY DEF TypeOK
<1>2. \A t \in Slots : Current(t)' <=> Current(t) /\ t # s
  BY <1>1 DEF Current
<1>3. \A t \in Slots : conns'[t] # Free => conns'[t] = conns[t]
  BY <1>1
<1>4. Current(s) => cid # NoConversation /\ \A t \in Slots : ~Current(t)'
  <2>1. Current(s) => conns[s].cid = cid /\ conns[s].cid \in Conversations
    BY ConnFields DEF TypeOK, ReaderInv, Current
  <2> QED BY <1>2, <2>1, StreamAssumption DEF ReaderInv
<1>5. timers' > 0 => cid' # NoConversation /\ \A t \in Slots : ~Current(t)'
  BY <1>2, <1>4 DEF ReaderInv
<1>6. /\ \A t \in Slots : conns'[t] # Free => conns'[t].next <= Len(log'[conns'[t].cid])
      /\ \A t \in Slots : Current(t)' => conns'[t].cid = cid' /\ conns'[t].next = lastSeq' + 1
      /\ \A t, u \in Slots : Current(t)' /\ Current(u)' => t = u
  BY <1>2, <1>3 DEF ReaderInv, Current
<1> QED BY <1>1, <1>5, <1>6 DEF ReaderInv

LEMMA OnErrorStatus ==
  ASSUME TypeOK, ReaderInv, NEW s \in Slots, OnError(s)
  PROVE  /\ connected' \in BOOLEAN /\ error' \in BOOLEAN
         /\ retryCount' \in 0 .. MaxRetries /\ timers' \in 0 .. 1
         /\ timers' = timers \/ Current(s)
<1>1. CASE Current(s)
  <2>1. ~(timers > 0)
    BY <1>1 DEF ReaderInv
  <2>2. timers = 0 /\ retryCount \in 0 .. MaxRetries /\ MaxRetries \in Nat
    BY <2>1, StreamAssumption DEF TypeOK
  <2>3. /\ connected' = FALSE /\ error' = TRUE
        /\ \/ retryCount' = retryCount /\ timers' = timers
           \/ retryCount < MaxRetries /\ retryCount' = retryCount + 1 /\ timers' = timers + 1
    BY <1>1, <2>2 DEF OnError
  <2>4. connected' \in BOOLEAN /\ error' \in BOOLEAN
    BY <2>3
  <2>5. retryCount' \in 0 .. MaxRetries /\ timers' \in 0 .. 1
    BY <2>2, <2>3
  <2> QED BY <1>1, <2>4, <2>5
<1>2. CASE ~Current(s)
  <2>1. connected' = connected /\ error' = error /\ retryCount' = retryCount /\ timers' = timers
    BY <1>2 DEF OnError, status
  <2>2. connected \in BOOLEAN /\ error \in BOOLEAN /\ retryCount \in 0 .. MaxRetries /\ timers \in 0 .. 1
    BY DEF TypeOK
  <2> QED BY <2>1, <2>2
<1> QED BY <1>1, <1>2

(* A connection fails or breaks off, its reader told. *)
LEMMA FailPreserves ==
  ASSUME StreamInv, NEW s \in Slots, faults < MaxFaults, faults' = faults + 1,
         conns' = [conns EXCEPT ![s] = Free], OnError(s), UNCHANGED <<log, cid, hook>>
  PROVE  StreamInv'
<1>1. TypeOK /\ LogInv /\ ReaderInv /\ LiveInv
  BY DEF StreamInv
<1>2. faults' \in 0 .. MaxFaults
  BY <1>1, StreamAssumption DEF TypeOK
<1>3. ReaderInv' /\ conns' \in [Slots -> Connections \cup {Free}]
  BY <1>1, OnErrorStatus, SlotFreed DEF hook
<1>4. TypeOK'
  BY <1>1, <1>2, <1>3, OnErrorStatus, HookTypesKept
<1> QED BY <1>1, <1>3, <1>4, HookKept DEF StreamInv

(* A connection ends without a word. *)
LEMMA EndPreserves ==
  ASSUME StreamInv, NEW s \in Slots, faults' \in 0 .. MaxFaults,
         conns' = [conns EXCEPT ![s] = Free], UNCHANGED <<log, cid, hook, status>>
  PROVE  StreamInv'
<1>1. TypeOK /\ LogInv /\ ReaderInv /\ LiveInv
  BY DEF StreamInv
<1>2. connected' = connected /\ error' = error /\ retryCount' = retryCount /\ timers' = timers /\ lastSeq' = lastSeq
  BY DEF status, hook
<1>3. ReaderInv' /\ conns' \in [Slots -> Connections \cup {Free}]
  BY <1>1, <1>2, SlotFreed
<1>4. TypeOK'
  <2>1. connected \in BOOLEAN /\ error \in BOOLEAN /\ retryCount \in 0 .. MaxRetries /\ timers \in 0 .. 1
    BY <1>1 DEF TypeOK
  <2> QED BY <1>1, <1>2, <1>3, <2>1, HookTypesKept
<1> QED BY <1>1, <1>3, <1>4, HookKept DEF StreamInv

LEMMA OpenPreserves ==
  ASSUME StreamInv, NEW s \in Slots, Open(s)
  PROVE  StreamInv'
<1>1. TypeOK /\ LogInv /\ ReaderInv /\ LiveInv
  BY DEF StreamInv
<1>2. /\ conns[s].st = "connecting" /\ conns' = [conns EXCEPT ![s].st = "open"]
      /\ OnOpen(s) /\ UNCHANGED <<log, cid, hook, faults>>
  BY DEF Open
<1>3. conns[s] # Free /\ conns[s] \in Connections
  BY <1>1, <1>2, ConnFields DEF TypeOK
<1> DEFINE r == [conns[s] EXCEPT !.st = "open"]
<1>4. /\ r \in Connections /\ r # Free /\ r.cid = conns[s].cid /\ r.next = conns[s].next
      /\ r.cancelled = conns[s].cancelled
  BY <1>3 DEF Connections, Free
<1>5. /\ conns' \in [Slots -> Connections \cup {Free}]
      /\ \A t \in Slots : conns'[t] = IF t = s THEN r ELSE conns[t]
  BY <1>1, <1>2, <1>4 DEF TypeOK
<1> HIDE DEF r
<1>6. /\ connected' \in BOOLEAN /\ error' \in BOOLEAN /\ retryCount' \in 0 .. MaxRetries /\ timers' = timers
  <2>1. \/ connected' = TRUE /\ error' = FALSE /\ retryCount' = 0 /\ timers' = timers
        \/ connected' = connected /\ error' = error /\ retryCount' = retryCount /\ timers' = timers
    BY <1>2 DEF OnOpen, status
  <2>2. connected \in BOOLEAN /\ error \in BOOLEAN /\ retryCount \in 0 .. MaxRetries /\ 0 \in 0 .. MaxRetries
    BY <1>1, StreamAssumption DEF TypeOK
  <2> QED BY <2>1, <2>2
<1>7. \A t \in Slots : /\ Current(t)' <=> Current(t)
                       /\ conns'[t] = Free <=> conns[t] = Free
                       /\ conns'[t].cid = conns[t].cid /\ conns'[t].next = conns[t].next
  BY <1>3, <1>4, <1>5 DEF Current
<1>8. log' = log /\ cid' = cid /\ lastSeq' = lastSeq
  BY <1>2 DEF hook
<1>9. ReaderInv'
  BY <1>1, <1>6, <1>7, <1>8 DEF ReaderInv
<1>10. TypeOK'
  <2>1. timers' \in 0 .. 1 /\ faults' \in 0 .. MaxFaults
    BY <1>1, <1>2, <1>6 DEF TypeOK
  <2> QED BY <1>1, <1>2, <1>5, <1>6, <2>1, HookTypesKept
<1> QED BY <1>1, <1>2, <1>9, <1>10, HookKept DEF StreamInv

LEMMA RetryPreserves ==
  ASSUME StreamInv, RetryTimer
  PROVE  StreamInv'
<1>1. TypeOK /\ LogInv /\ ReaderInv /\ LiveInv
  BY DEF StreamInv
<1>2. /\ timers > 0 /\ timers' = timers - 1
      /\ UNCHANGED <<log, cid, hook, connected, error, retryCount, faults>>
  BY DEF RetryTimer
<1>3. PICK s \in Slots : conns[s] = Free /\ conns' = [conns EXCEPT ![s] = Connecting(cid, From(lastSeq))]
  BY DEF RetryTimer
<1>4. timers' = 0
  BY <1>1, <1>2 DEF TypeOK
<1>5. cid # NoConversation /\ \A t \in Slots : ~Current(t)
  BY <1>1, <1>2 DEF ReaderInv
<1>6. From(lastSeq) = lastSeq + 1
  BY DEF From, NoSeq
<1>7. cid \in Conversations /\ lastSeq + 1 \in Seqs /\ lastSeq + 1 <= Len(log[cid])
  BY <1>1, <1>5, Place DEF LiveInv
<1> DEFINE r == Connecting(cid, lastSeq + 1)
<1>8. r \in Connections /\ r # Free /\ r.cid = cid /\ r.next = lastSeq + 1 /\ ~r.cancelled
  BY <1>7, NewConn
<1> HIDE DEF r
<1>9. /\ conns' \in [Slots -> Connections \cup {Free}]
      /\ \A t \in Slots : conns'[t] = IF t = s THEN r ELSE conns[t]
  BY <1>1, <1>3, <1>6, <1>8 DEF TypeOK, r
<1>10. \A t \in Slots : Current(t)' <=> t = s
  BY <1>5, <1>8, <1>9 DEF Current
<1>11. log' = log /\ cid' = cid /\ lastSeq' = lastSeq
  BY <1>2 DEF hook
<1>12. ReaderInv'
  BY <1>1, <1>4, <1>7, <1>8, <1>9, <1>10, <1>11 DEF ReaderInv
<1>13. TypeOK'
  <2>1. /\ connected' \in BOOLEAN /\ error' \in BOOLEAN /\ retryCount' \in 0 .. MaxRetries
        /\ timers' \in 0 .. 1 /\ faults' \in 0 .. MaxFaults
    BY <1>1, <1>2, <1>4 DEF TypeOK
  <2> QED BY <1>1, <1>2, <1>9, <2>1, HookTypesKept
<1> QED BY <1>1, <1>2, <1>12, <1>13, HookKept DEF StreamInv

LEMMA ServerFailsPreserves ==
  ASSUME StreamInv, NEW s \in Slots, ServerFails(s)
  PROVE  StreamInv'
<1>1. TypeOK /\ LogInv /\ ReaderInv /\ LiveInv
  BY DEF StreamInv
<1>2. ParseFrame([event |-> "error"]) = {}
  BY DEF ParseFrame, ValidEvents, MessageEvents, MembershipEvents
<1>3. /\ faults < MaxFaults /\ faults' = faults + 1 /\ conns[s].st = "open"
      /\ UNCHANGED <<status, log, cid, hook>> /\ conns' = [conns EXCEPT ![s].st = "closing"]
  BY <1>2 DEF ServerFails
<1>8. conns[s] # Free /\ conns[s] \in Connections
  BY <1>1, <1>3, ConnFields DEF TypeOK
<1> DEFINE r == [conns[s] EXCEPT !.st = "closing"]
<1>9. /\ r \in Connections /\ r # Free /\ r.cid = conns[s].cid /\ r.next = conns[s].next
      /\ r.cancelled = conns[s].cancelled
  BY <1>8 DEF Connections, Free
<1>10. /\ conns' \in [Slots -> Connections \cup {Free}]
       /\ \A t \in Slots : conns'[t] = IF t = s THEN r ELSE conns[t]
  BY <1>1, <1>3, <1>9 DEF TypeOK
<1> HIDE DEF r
<1>11. \A t \in Slots : /\ Current(t)' <=> Current(t)
                        /\ conns'[t] = Free <=> conns[t] = Free
                        /\ conns'[t].cid = conns[t].cid /\ conns'[t].next = conns[t].next
  BY <1>8, <1>9, <1>10 DEF Current
<1>4. faults' \in 0 .. MaxFaults
  BY <1>1, <1>3, StreamAssumption DEF TypeOK
<1>5. lastSeq' = lastSeq /\ connected' = connected /\ error' = error /\ retryCount' = retryCount /\ timers' = timers
  BY <1>3 DEF hook, status
<1>6. ReaderInv'
  BY <1>1, <1>3, <1>5, <1>11 DEF ReaderInv
<1>7. TypeOK'
  <2>1. /\ connected' \in BOOLEAN /\ error' \in BOOLEAN /\ retryCount' \in 0 .. MaxRetries
        /\ timers' \in 0 .. 1 /\ conns' \in [Slots -> Connections \cup {Free}]
    BY <1>1, <1>5, <1>10 DEF TypeOK
  <2> QED BY <1>1, <1>3, <1>4, <2>1, HookTypesKept
<1> QED BY <1>1, <1>3, <1>6, <1>7, HookKept DEF StreamInv

(* A cancelled connection keeps everything else. *)
LEMMA Cancelled ==
  ASSUME NEW r \in Connections
  PROVE  /\ [r EXCEPT !.cancelled = TRUE] \in Connections /\ [r EXCEPT !.cancelled = TRUE] # Free
         /\ [r EXCEPT !.cancelled = TRUE].cid = r.cid /\ [r EXCEPT !.cancelled = TRUE].next = r.next
         /\ [r EXCEPT !.cancelled = TRUE].cancelled
  BY DEF Connections, Free

(* Nothing is told of no records. *)
LEMMA TellsNothing ==
  ASSUME NEW l, NEW c
  PROVE  Tells(Empty, l, 0, c) /\ TellsSystem(Empty, l, 0)
<1>1. 0 .. 0 - 1 = {} /\ DOMAIN Empty = {}
  BY DEF Empty
<1>2. \A m, e : SeqsOf(l, 0, m, e) = {}
  BY <1>1 DEF SeqsOf
<1>3. Started(l, 0) = {}
  BY <1>2 DEF Started
<1>4. SystemSeqs(l, 0) = {}
  BY <1>1 DEF SystemSeqs
<1> QED BY <1>1, <1>3, <1>4 DEF Tells, TellsSystem

LEMMA SelectPreserves ==
  ASSUME StreamInv, NEW c \in Conversations, Select(c)
  PROVE  StreamInv'
<1>1. TypeOK /\ LogInv /\ ReaderInv /\ LiveInv
  BY DEF StreamInv
<1>2. /\ cid' = c /\ messages' = Empty /\ systemEvents' = Empty /\ lastSeq' = NoSeq
      /\ connected' = FALSE /\ error' = FALSE /\ membershipChanged' = FALSE /\ liveMembership' = FALSE
      /\ retryCount' = 0 /\ timers' = 0 /\ log' = log /\ faults' = faults
  BY DEF Select
<1>3. PICK s \in Slots : conns[s] = Free /\ conns' = [Cleanup EXCEPT ![s] = Connecting(c, From(NoSeq))]
  BY DEF Select
<1>4. From(NoSeq) = 0 /\ 0 \in Seqs
  <2>1. 0 \in 0 .. MaxEvents[c]
    BY SeqsFacts
  <2> QED BY <2>1, SeqsFacts DEF From
<1> DEFINE r == Connecting(c, 0)
<1>5. r \in Connections /\ r # Free /\ r.cid = c /\ r.next = 0 /\ ~r.cancelled
  BY <1>4, NewConn
<1> HIDE DEF r
<1>6. \A t \in Slots : conns'[t] = IF t = s THEN r ELSE
                                   IF conns[t] = Free THEN Free ELSE [conns[t] EXCEPT !.cancelled = TRUE]
  BY <1>3, <1>4 DEF Cleanup, r
<1>7. \A t \in Slots : conns[t] # Free => conns[t] \in Connections
  BY <1>1 DEF TypeOK
<1>8. ASSUME NEW t \in Slots, t # s
      PROVE  /\ conns'[t] \in Connections \cup {Free}
             /\ conns'[t] # Free => /\ conns[t] # Free /\ conns'[t].cid = conns[t].cid
                                    /\ conns'[t].next = conns[t].next /\ conns'[t].cancelled
  <2>1. CASE conns[t] = Free
    BY <1>6, <1>8, <2>1
  <2>2. CASE conns[t] # Free
    <3>1. conns'[t] = [conns[t] EXCEPT !.cancelled = TRUE] /\ conns[t] \in Connections
      BY <1>6, <1>7, <1>8, <2>2
    <3> QED BY <2>2, <3>1, Cancelled
  <2> QED BY <2>1, <2>2
<1>9. conns' \in [Slots -> Connections \cup {Free}]
  <2>1. \A t \in Slots : conns'[t] \in Connections \cup {Free}
    BY <1>5, <1>6, <1>8
  <2>2. conns' = [t \in Slots |-> conns'[t]]
    BY <1>3 DEF Cleanup
  <2> QED BY <2>1, <2>2
<1>10. \A t \in Slots : Current(t)' <=> t = s
  BY <1>5, <1>6, <1>8 DEF Current
<1>11. conns'[s] = r
  BY <1>6
<1>12. TypeOK'
  <2>1. ValuesOf(Empty) = {} /\ DOMAIN Empty = {}
    BY DEF ValuesOf, Empty
  <2>2. 0 \in 0 .. MaxRetries /\ 0 \in 0 .. 1
    BY StreamAssumption
  <2> QED BY <1>1, <1>2, <1>9, <2>1, <2>2 DEF TypeOK
<1>13. LogInv'
  BY <1>1, <1>2 DEF LogInv
<1>14. Len(log[c]) \in Nat
  BY <1>1 DEF TypeOK
<1>15. ReaderInv'
  <2>1. \A t \in Slots : conns'[t] # Free => conns'[t].next <= Len(log'[conns'[t].cid])
    BY <1>1, <1>2, <1>5, <1>8, <1>11, <1>14 DEF ReaderInv
  <2>2. lastSeq' + 1 = 0
    BY <1>2 DEF NoSeq
  <2>3. ~(timers' > 0)
    BY <1>2
  <2> QED BY <1>2, <1>5, <1>10, <1>11, <2>1, <2>2, <2>3 DEF ReaderInv
<1>16. LiveInv'
  <2>1. Log' = log[c]
    BY <1>2, StreamAssumption DEF Log
  <2>2. lastSeq' + 1 = 0 /\ lastSeq' < Len(log[c])
    BY <1>2, <1>14 DEF NoSeq
  <2>3. Tells(messages', log[c], 0, c) /\ TellsSystem(systemEvents', log[c], 0)
    BY <1>2, TellsNothing
  <2> QED BY <1>2, <2>1, <2>2, <2>3 DEF LiveInv
<1> QED BY <1>12, <1>13, <1>15, <1>16 DEF StreamInv

(* A log with one more record says the same of the ones it had. *)
LEMMA WritePreserves ==
  ASSUME StreamInv, NEW c \in Conversations, NEW e \in Events, Write(c, e)
  PROVE  StreamInv'
<1>1. TypeOK /\ LogInv /\ ReaderInv /\ LiveInv
  BY DEF StreamInv
<1>2. /\ Len(log[c]) < MaxEvents[c]
      /\ e.event \in {"message_append", "message_end"} => e.message_id \in Started(log[c], Len(log[c]))
      /\ log' = [log EXCEPT ![c] = Append(@, e)]
      /\ UNCHANGED <<cid, hook, status, conns, faults>>
  BY DEF Write
<1>3. /\ cid' = cid /\ messages' = messages /\ systemEvents' = systemEvents /\ lastSeq' = lastSeq
      /\ membershipChanged' = membershipChanged /\ liveMembership' = liveMembership
      /\ connected' = connected /\ error' = error /\ retryCount' = retryCount /\ timers' = timers
      /\ conns' = conns /\ faults' = faults
  BY <1>2 DEF hook, status
<1>4. \A d \in Conversations : log[d] \in Seq(Events) /\ Len(log[d]) \in Nat
  BY <1>1 DEF TypeOK
<1>5. /\ Append(log[c], e) \in Seq(Events) /\ Len(Append(log[c], e)) = Len(log[c]) + 1
      /\ \A i \in 1 .. Len(log[c]) : Append(log[c], e)[i] = log[c][i]
      /\ Append(log[c], e)[Len(log[c]) + 1] = e
  BY <1>4, AppendProperties
<1>6. \A d \in Conversations : log'[d] = IF d = c THEN Append(log[c], e) ELSE log[d]
  BY <1>1, <1>2 DEF TypeOK
<1>7. \A d \in Conversations : /\ log'[d] \in Seq(Events) /\ Len(log'[d]) \in Nat /\ Len(log[d]) <= Len(log'[d])
                               /\ \A i \in 1 .. Len(log[d]) : log'[d][i] = log[d][i]
  <2> TAKE d \in Conversations
  <2>1. CASE d = c
    <3>1. log'[d] = Append(log[c], e)
      BY <1>6, <2>1
    <3>2. Len(log[c]) \in Nat /\ Len(log'[d]) = Len(log[c]) + 1
      BY <1>4, <1>5, <3>1
    <3>3. Len(log'[d]) \in Nat /\ Len(log[d]) <= Len(log'[d])
      BY <2>1, <3>2
    <3> QED BY <1>5, <2>1, <3>1, <3>3
  <2>2. CASE d # c
    <3>1. log'[d] = log[d]
      BY <1>6, <2>2
    <3> QED BY <1>4, <3>1
  <2> QED BY <2>1, <2>2
<1>8. TypeOK'
  <2>1. log' \in [Conversations -> Seq(Events)]
    BY <1>1, <1>2, <1>5 DEF TypeOK
  <2> QED BY <1>1, <1>3, <2>1 DEF TypeOK
<1>9. ASSUME NEW d \in Conversations, NEW n \in 0 .. Len(log[d])
      PROVE  /\ Started(log'[d], n) = Started(log[d], n)
             /\ \A msgs, x : Tells(msgs, log[d], n, x) => Tells(msgs, log'[d], n, x)
             /\ \A evs : TellsSystem(evs, log[d], n) => TellsSystem(evs, log'[d], n)
  <2>1. n \in Nat /\ \A i \in 1 .. n : log'[d][i] = log[d][i]
    BY <1>4, <1>7
  <2> QED BY <2>1, TellsSame
<1>10. LogInv'
  <2> SUFFICES ASSUME NEW d \in Conversations
               PROVE  /\ Len(log'[d]) <= MaxEvents[d]
                      /\ \A s \in 0 .. Len(log'[d]) - 1 :
                           log'[d][s + 1].event \in {"message_append", "message_end"} =>
                             log'[d][s + 1].message_id \in Started(log'[d], s)
    BY DEF LogInv
  <2>1. Len(log'[d]) <= MaxEvents[d]
    BY <1>1, <1>2, <1>4, <1>5, <1>6, SeqsFacts DEF LogInv
  <2>2. ASSUME NEW s \in 0 .. Len(log'[d]) - 1, log'[d][s + 1].event \in {"message_append", "message_end"}
        PROVE  log'[d][s + 1].message_id \in Started(log'[d], s)
    <3>1. CASE s < Len(log[d])
      <4>1. s \in 0 .. Len(log[d]) - 1 /\ s + 1 \in 1 .. Len(log[d]) /\ s \in 0 .. Len(log[d])
        BY <1>4, <3>1
      <4>2. log'[d][s + 1] = log[d][s + 1] /\ Started(log'[d], s) = Started(log[d], s)
        BY <1>7, <1>9, <4>1
      <4>3. log[d][s + 1].event \in {"message_append", "message_end"} =>
              log[d][s + 1].message_id \in Started(log[d], s)
        BY <1>1, <4>1 DEF LogInv
      <4> QED BY <2>2, <4>2, <4>3
    <3>2. CASE ~(s < Len(log[d]))
      <4>1. d = c /\ s = Len(log[c])
        <5>1. s \in Int /\ s <= Len(log'[d]) - 1 /\ Len(log'[d]) \in Nat /\ Len(log[d]) \in Nat
          BY <1>4, <1>7
        <5>2. d = c
          <6>1. d # c => log'[d] = log[d]
            BY <1>6
          <6> QED BY <3>2, <5>1, <6>1
        <5>3. Len(log'[d]) = Len(log[c]) + 1
          BY <1>5, <1>6, <5>2
        <5> QED BY <3>2, <5>1, <5>2, <5>3
      <4>2. log'[d][s + 1] = e
        BY <1>5, <1>6, <4>1
      <4>3. Started(log'[d], s) = Started(log[d], s)
        BY <1>4, <1>9, <4>1
      <4> QED BY <1>2, <2>2, <4>1, <4>2, <4>3
    <3> QED BY <3>1, <3>2
  <2> QED BY <2>1, <2>2
<1>11. ReaderInv'
  <2>1. ASSUME NEW s \in Slots, conns[s] # Free PROVE conns[s].next <= Len(log'[conns[s].cid])
    <3>1. conns[s].cid \in Conversations /\ conns[s].next \in Nat
      BY <1>1, <2>1, ConnFields DEF TypeOK
    <3>2. conns[s].next <= Len(log[conns[s].cid])
      BY <1>1, <2>1 DEF ReaderInv
    <3> QED BY <1>4, <1>7, <3>1, <3>2
  <2> QED BY <1>1, <1>3, <2>1 DEF ReaderInv, Current
<1>12. LiveInv'
  <2>1. CASE cid = NoConversation
    <3>1. Log' = Log
      BY <1>3, <2>1 DEF Log
    <3> QED BY <1>1, <1>3, <3>1 DEF LiveInv
  <2>2. CASE cid # NoConversation
    <3>1. /\ cid \in Conversations /\ Log = log[cid] /\ lastSeq \in Int /\ lastSeq + 1 \in Nat
          /\ lastSeq + 1 <= Len(log[cid])
      BY <1>1, <2>2, Place DEF LiveInv
    <3>2. Log' = log'[cid]
      BY <1>3, <2>2 DEF Log
    <3>3. lastSeq' < Len(Log')
      BY <1>3, <1>4, <1>7, <3>1, <3>2
    <3>4. Tells(messages, log[cid], lastSeq + 1, cid) /\ TellsSystem(systemEvents, log[cid], lastSeq + 1)
      BY <1>1, <3>1 DEF LiveInv
    <3>5. Tells(messages, log'[cid], lastSeq + 1, cid) /\ TellsSystem(systemEvents, log'[cid], lastSeq + 1)
      <4>1. lastSeq + 1 \in 0 .. Len(log[cid])
        BY <1>4, <3>1
      <4> QED BY <1>9, <3>1, <3>4, <4>1
    <3> QED BY <1>3, <3>2, <3>3, <3>5 DEF LiveInv
  <2> QED BY <2>1, <2>2
<1> QED BY <1>8, <1>10, <1>11, <1>12 DEF StreamInv

(* The record that a frame carries goes to the reducer only if the connection is current, *)
(* and then it is the one that follows what the hook has seen.                            *)
LEMMA DeliverPreserves ==
  ASSUME StreamInv, NEW s \in Slots, NEW recent \in BOOLEAN, Deliver(s, recent)
  PROVE  StreamInv'
<1>1. TypeOK /\ LogInv /\ ReaderInv /\ LiveInv
  BY DEF StreamInv
<1>2. PICK seq, f : /\ seq = conns[s].next /\ f = log[conns[s].cid][seq + 1]
                    /\ conns[s].st = "open" /\ seq < Len(log[conns[s].cid])
                    /\ conns' = [conns EXCEPT ![s].next = @ + 1]
                    /\ UNCHANGED <<log, cid, status, faults>>
                    /\ IF conns[s].cancelled \/ ParseFrame(f) = {}
                       THEN UNCHANGED hook
                       ELSE /\ lastSeq' = seq
                            /\ messages' = ReduceMessages(messages, conns[s].cid, seq, f)
                            /\ systemEvents' = ReduceSystemEvents(systemEvents, seq, f)
                            /\ membershipChanged' = (membershipChanged \/ f.event \in MembershipEvents)
                            /\ liveMembership' = (liveMembership \/ (f.event \in MembershipEvents /\ recent))
  BY DEF Deliver, Dropped
<1>3. /\ conns[s] # Free /\ conns[s] \in Connections /\ conns[s].cid \in Conversations
      /\ seq \in Nat /\ conns[s].cancelled \in BOOLEAN
  BY <1>1, <1>2, ConnFields DEF TypeOK
<1>4. \A d \in Conversations : log[d] \in Seq(Events) /\ Len(log[d]) \in Nat
  BY <1>1 DEF TypeOK
<1>5. seq \in 0 .. Len(log[conns[s].cid]) - 1 /\ seq + 1 \in 1 .. Len(log[conns[s].cid])
  BY <1>2, <1>3, <1>4
<1>6. f \in Events /\ ParseFrame(f) # {}
  <2>1. f \in Events
    BY <1>2, <1>3, <1>4, <1>5
  <2> QED BY <2>1, EventFields DEF ParseFrame, ValidEvents
<1>7. seq \in Seqs /\ seq + 1 \in Seqs
  <2>1. Len(log[conns[s].cid]) <= MaxEvents[conns[s].cid] /\ MaxEvents[conns[s].cid] \in Nat
    BY <1>1, <1>3, SeqsFacts DEF LogInv
  <2>2. seq \in 0 .. MaxEvents[conns[s].cid] /\ seq + 1 \in 0 .. MaxEvents[conns[s].cid]
    BY <1>2, <1>3, <1>4, <2>1
  <2> QED BY <1>3, <2>2, SeqsFacts
<1> DEFINE r == [conns[s] EXCEPT !.next = @ + 1]
<1>8. /\ r \in Connections /\ r # Free /\ r.cid = conns[s].cid /\ r.next = seq + 1
      /\ r.cancelled = conns[s].cancelled
  BY <1>2, <1>3, <1>7 DEF Connections, Free
<1>9. /\ conns' \in [Slots -> Connections \cup {Free}]
      /\ \A t \in Slots : conns'[t] = IF t = s THEN r ELSE conns[t]
  BY <1>1, <1>2, <1>8 DEF TypeOK
<1> HIDE DEF r
<1>10. \A t \in Slots : Current(t)' <=> Current(t)
  BY <1>3, <1>8, <1>9 DEF Current
<1>11. /\ log' = log /\ cid' = cid /\ connected' = connected /\ error' = error
       /\ retryCount' = retryCount /\ timers' = timers /\ faults' = faults
  BY <1>2 DEF status
<1>12. \A t \in Slots : conns'[t] # Free => conns'[t].next <= Len(log'[conns'[t].cid])
  <2>1. seq + 1 <= Len(log[conns[s].cid])
    BY <1>5
  <2> QED BY <1>1, <1>8, <1>9, <1>11, <2>1 DEF ReaderInv
<1>13. \A t, u \in Slots : Current(t)' /\ Current(u)' => t = u
  BY <1>1, <1>10 DEF ReaderInv
<1>14. timers' > 0 => cid' # NoConversation /\ \A t \in Slots : ~Current(t)'
  BY <1>1, <1>10, <1>11 DEF ReaderInv
<1>15. LogInv'
  BY <1>1, <1>11 DEF LogInv
<1>16. /\ connected \in BOOLEAN /\ error \in BOOLEAN /\ retryCount \in 0 .. MaxRetries
       /\ timers \in 0 .. 1 /\ faults \in 0 .. MaxFaults
  BY <1>1 DEF TypeOK
<1>17. CASE conns[s].cancelled
  <2>1. UNCHANGED <<log, cid, hook>> /\ lastSeq' = lastSeq
    BY <1>2, <1>11, <1>17 DEF hook
  <2>2. TypeOK'
    BY <1>1, <1>9, <1>11, <1>16, <2>1, HookTypesKept
  <2>3. \A t \in Slots : Current(t)' => conns'[t].cid = cid' /\ conns'[t].next = lastSeq' + 1
    <3>1. ~Current(s)
      BY <1>17 DEF Current
    <3> QED BY <1>1, <1>9, <1>10, <1>11, <2>1, <3>1 DEF ReaderInv
  <2>4. ReaderInv'
    BY <1>12, <1>13, <1>14, <2>3 DEF ReaderInv
  <2> QED BY <1>1, <2>1, <2>2, <2>4, HookKept DEF StreamInv
<1>18. CASE ~conns[s].cancelled
  <2>1. Current(s)
    BY <1>3, <1>18 DEF Current
  <2>2. conns[s].cid = cid /\ seq = lastSeq + 1
    BY <1>1, <1>2, <2>1 DEF ReaderInv
  <2>3. /\ lastSeq' = seq
        /\ messages' = ReduceMessages(messages, cid, seq, f)
        /\ systemEvents' = ReduceSystemEvents(systemEvents, seq, f)
        /\ membershipChanged' = (membershipChanged \/ f.event \in MembershipEvents)
        /\ liveMembership' = (liveMembership \/ (f.event \in MembershipEvents /\ recent))
    BY <1>2, <1>6, <1>18, <2>2
  <2>4. cid \in Conversations /\ cid # NoConversation /\ Log = log[cid] /\ Log' = log[cid]
    BY <1>3, <1>11, <2>2, StreamAssumption DEF Log
  <2>5. Tells(messages, log[cid], seq, cid) /\ TellsSystem(systemEvents, log[cid], seq)
    BY <1>1, <2>2, <2>4 DEF LiveInv
  <2>6. f = log[cid][seq + 1]
    BY <1>2, <2>2
  <2>7. f.event \in {"message_append", "message_end"} => f.message_id \in Started(log[cid], seq)
    BY <1>1, <1>5, <2>2, <2>4, <2>6 DEF LogInv
  <2>8. Tells(messages', log[cid], seq + 1, cid)
    BY <1>3, <1>6, <2>3, <2>5, <2>6, <2>7, ReduceTells
  <2>9. TellsSystem(systemEvents', log[cid], seq + 1)
    BY <1>3, <2>3, <2>5, <2>6, ReduceTellsSystem
  <2>10. LiveInv'
    BY <1>2, <1>11, <2>2, <2>3, <2>4, <2>8, <2>9 DEF LiveInv
  <2>11. \A t \in Slots : Current(t)' => conns'[t].cid = cid' /\ conns'[t].next = lastSeq' + 1
    BY <1>1, <1>8, <1>9, <1>10, <1>11, <2>1, <2>2, <2>3 DEF ReaderInv
  <2>12. ReaderInv'
    BY <1>12, <1>13, <1>14, <2>11 DEF ReaderInv
  <2>13. DOMAIN messages = Started(log[cid], seq)
    BY <2>5 DEF Tells
  <2>14. DOMAIN messages' \subseteq Messages /\ ValuesOf(messages') \subseteq UIMessages(Conversations, Seqs)
    <3>1. DOMAIN messages \subseteq Messages /\ ValuesOf(messages) \subseteq UIMessages(Conversations, Seqs)
      BY <1>1 DEF TypeOK
    <3>2. f.event \in {"message_append", "message_end"} => f.message_id \in DOMAIN messages
      BY <2>7, <2>13
    <3> QED BY <1>6, <1>7, <2>3, <2>4, <3>1, <3>2, ReduceTypes
  <2>15. ValuesOf(systemEvents') \subseteq SystemEvents(Seqs)
    <3>1. ValuesOf(systemEvents) \subseteq SystemEvents(Seqs)
      BY <1>1 DEF TypeOK
    <3> QED BY <1>6, <1>7, <2>3, <3>1, ReduceSystemTypes
  <2>16. membershipChanged' \in BOOLEAN /\ liveMembership' \in BOOLEAN
    BY <2>3
  <2>17. TypeOK'
    BY <1>1, <1>7, <1>9, <1>11, <2>3, <2>14, <2>15, <2>16 DEF TypeOK
  <2> QED BY <1>15, <2>10, <2>12, <2>17 DEF StreamInv
<1> QED BY <1>3, <1>17, <1>18

LEMMA StreamInvInit == Init => StreamInv
<1> SUFFICES ASSUME Init PROVE StreamInv
  OBVIOUS
<1>1. /\ log = [c \in Conversations |-> <<>>] /\ cid = NoConversation
      /\ messages = Empty /\ systemEvents = Empty /\ lastSeq = NoSeq
      /\ connected = FALSE /\ error = FALSE /\ membershipChanged = FALSE /\ liveMembership = FALSE
      /\ retryCount = 0 /\ timers = 0 /\ conns = [s \in Slots |-> Free] /\ faults = 0
  BY DEF Init
<1>2. TypeOK
  <2>1. ValuesOf(Empty) = {} /\ DOMAIN Empty = {}
    BY DEF ValuesOf, Empty
  <2>2. 0 \in 0 .. MaxRetries /\ 0 \in 0 .. 1 /\ 0 \in 0 .. MaxFaults
    BY StreamAssumption
  <2>3. log \in [Conversations -> Seq(Events)] /\ conns \in [Slots -> Connections \cup {Free}]
    BY <1>1
  <2> QED BY <1>1, <2>1, <2>2, <2>3 DEF TypeOK
<1>3. LogInv
  <2>1. \A c \in Conversations : log[c] = <<>> /\ Len(log[c]) = 0 /\ 0 .. Len(log[c]) - 1 = {}
    BY <1>1
  <2> QED BY <2>1, SeqsFacts DEF LogInv
<1>4. ReaderInv
  BY <1>1 DEF ReaderInv, Current
<1>5. LiveInv
  <2>1. Log = <<>> /\ Len(Log) = 0
    BY <1>1 DEF Log
  <2>2. lastSeq + 1 = 0 /\ lastSeq < Len(Log)
    BY <1>1, <2>1 DEF NoSeq
  <2> QED BY <1>1, <2>2, TellsNothing DEF LiveInv
<1> QED BY <1>2, <1>3, <1>4, <1>5 DEF StreamInv

LEMMA StreamInvNext == StreamInv /\ [Next]_vars => StreamInv'
<1> SUFFICES ASSUME StreamInv, [Next]_vars PROVE StreamInv'
  OBVIOUS
<1>1. ASSUME NEW c \in Conversations, Select(c) PROVE StreamInv'
  BY <1>1, SelectPreserves
<1>2. ASSUME NEW c \in Conversations, NEW e \in Events, Write(c, e) PROVE StreamInv'
  BY <1>2, WritePreserves
<1>3. CASE RetryTimer
  BY <1>3, RetryPreserves
<1>4. ASSUME NEW s \in Slots, Open(s) PROVE StreamInv'
  BY <1>4, OpenPreserves
<1>5. ASSUME NEW s \in Slots, OpenFails(s) PROVE StreamInv'
  BY <1>5, FailPreserves DEF OpenFails
<1>6. ASSUME NEW s \in Slots, NEW recent \in BOOLEAN, Deliver(s, recent) PROVE StreamInv'
  BY <1>6, DeliverPreserves
<1>7. ASSUME NEW s \in Slots, StreamBreaks(s) PROVE StreamInv'
  BY <1>7, FailPreserves DEF StreamBreaks
<1>8. ASSUME NEW s \in Slots, ServerFails(s) PROVE StreamInv'
  BY <1>8, ServerFailsPreserves
<1>9. ASSUME NEW s \in Slots, Done(s) PROVE StreamInv'
  <2>1. /\ faults < MaxFaults /\ faults' = faults + 1
        /\ conns' = [conns EXCEPT ![s] = Free] /\ UNCHANGED <<log, cid, hook, status>>
    BY <1>9 DEF Done
  <2>2. faults' \in 0 .. MaxFaults
    BY <2>1, StreamAssumption DEF StreamInv, TypeOK
  <2> QED BY <2>1, <2>2, EndPreserves
<1>10. ASSUME NEW s \in Slots, AbortSeen(s) PROVE StreamInv'
  <2>1. conns' = [conns EXCEPT ![s] = Free] /\ UNCHANGED <<log, cid, hook, status>> /\ faults' = faults
    BY <1>10 DEF AbortSeen
  <2>2. faults' \in 0 .. MaxFaults
    BY <2>1 DEF StreamInv, TypeOK
  <2> QED BY <2>1, <2>2, EndPreserves
<1>12. ASSUME NEW s \in Slots, Closed(s) PROVE StreamInv'
  <2>1. conns' = [conns EXCEPT ![s] = Free] /\ UNCHANGED <<log, cid, hook, status>> /\ faults' = faults
    BY <1>12 DEF Closed
  <2>2. faults' \in 0 .. MaxFaults
    BY <2>1 DEF StreamInv, TypeOK
  <2> QED BY <2>1, <2>2, EndPreserves
<1>11. CASE UNCHANGED vars
  <2>1. /\ UNCHANGED <<log, cid, hook, status, conns, faults>>
        /\ connected' = connected /\ error' = error /\ retryCount' = retryCount /\ timers' = timers
        /\ lastSeq' = lastSeq
    BY <1>11 DEF vars, hook, status
  <2>2. TypeOK /\ LogInv /\ ReaderInv /\ LiveInv
    BY DEF StreamInv
  <2>3. TypeOK'
    <3>1. /\ connected \in BOOLEAN /\ error \in BOOLEAN /\ retryCount \in 0 .. MaxRetries
          /\ timers \in 0 .. 1 /\ faults \in 0 .. MaxFaults /\ conns \in [Slots -> Connections \cup {Free}]
      BY <2>2 DEF TypeOK
    <3> QED BY <2>1, <2>2, <3>1, HookTypesKept
  <2>4. ReaderInv'
    BY <2>1, <2>2 DEF ReaderInv, Current
  <2> QED BY <2>1, <2>2, <2>3, <2>4, HookKept DEF StreamInv
<1> QED BY <1>1, <1>2, <1>3, <1>4, <1>5, <1>6, <1>7, <1>8, <1>9, <1>10, <1>11, <1>12 DEF Next

LEMMA StreamInvAlways == Spec => []StreamInv
  BY StreamInvInit, StreamInvNext, PTL DEF Spec

(***************************************************************************)
(* What follows                                                            *)
(***************************************************************************)

(* The hook's state, the connections and the logs have their types: no step of the hook, the *)
(* client or the server loop makes a message, an event or a position that the components do  *)
(* not know how to show.                                                                      *)
THEOREM StreamTypes == Spec => []TypeOK
<1>1. StreamInv => TypeOK
  BY DEF StreamInv
<1> QED BY <1>1, StreamInvAlways, PTL

(* However often a conversation is switched, a connection fails or a retry is scheduled, at  *)
(* most one connection feeds the hook, and none while a retry is pending.                     *)
THEOREM OnlyOneReader == Spec => []OneReader
<1>1. StreamInv => OneReader
  <2> SUFFICES ASSUME StreamInv PROVE OneReader
    OBVIOUS
  <2>1. /\ \A s, t \in Slots : Current(s) /\ Current(t) => s = t
        /\ timers > 0 => \A s \in Slots : ~Current(s)
        /\ timers \in 0 .. 1
    BY DEF StreamInv, ReaderInv, TypeOK
  <2>2. CASE Reading = {}
    BY <2>1, <2>2, FS_EmptySet DEF OneReader
  <2>3. CASE Reading # {}
    <3>1. PICK s \in Slots : Current(s) /\ Reading = {s}
      BY <2>1, <2>3 DEF Reading
    <3>2. Cardinality(Reading) = 1
      BY <3>1, FS_Singleton
    <3>3. timers = 0
      BY <2>1, <3>1
    <3> QED BY <3>2, <3>3 DEF OneReader
  <2> QED BY <2>2, <2>3
<1> QED BY <1>1, StreamInvAlways, PTL

(* The live view is what the first lastSeq + 1 records of the conversation shown say, whatever *)
(* was replayed, reconnected, aborted or switched away from on the way there.                  *)
THEOREM LiveViewIsPrefix == Spec => []LiveIsLogPrefix
<1>1. StreamInv => LiveIsLogPrefix
  <2> SUFFICES ASSUME LiveInv PROVE LiveIsLogPrefix
    BY DEF StreamInv
  <2>1. ValuesOf(messages) = MessagesIn(Log, lastSeq + 1, cid)
    <3>1. /\ DOMAIN messages = Started(Log, lastSeq + 1)
          /\ \A m \in Started(Log, lastSeq + 1) : messages[m] = MessageIn(Log, lastSeq + 1, m, cid)
      BY DEF LiveInv, Tells
    <3> QED BY <3>1 DEF ValuesOf, MessagesIn
  <2>2. ValuesOf(systemEvents) = SystemEventsIn(Log, lastSeq + 1)
    <3>1. /\ DOMAIN systemEvents = SystemSeqs(Log, lastSeq + 1)
          /\ \A s \in SystemSeqs(Log, lastSeq + 1) :
               systemEvents[s] = [kind |-> Log[s + 1].event, agentId |-> Log[s + 1].agent_id, seq |-> s]
      BY DEF LiveInv, TellsSystem
    <3> QED BY <3>1 DEF ValuesOf, SystemEventsIn, SystemSeqs
  <2> QED BY <2>1, <2>2 DEF LiveInv, LiveIsLogPrefix
<1> QED BY <1>1, StreamInvAlways, PTL
================================================================================
