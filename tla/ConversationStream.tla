-------------------------- MODULE ConversationStream --------------------------
(***************************************************************************)
(* The live view of one conversation: the hook useConversationStream, the  *)
(* fetch-based SSE client openConversationStream under it, and the server  *)
(* loop ObserverSSEStream it reads from.  The hook resets everything when  *)
(* another conversation is selected, aborts the old connection and opens a *)
(* new one; the old connection's callbacks still arrive until its reader   *)
(* notices.  A connection that fails is retried after a delay, with the    *)
(* sequence number of the last frame as Last-Event-ID, MaxRetries times    *)
(* between two successful opens.                                           *)
(***************************************************************************)
EXTENDS ConversationFeed

CONSTANTS Conversations,   \* conversation ids
          Slots,           \* bound: connections that exist at the same time
          MaxEvents,       \* MaxEvents[c], bound: records of c's log
          MaxRetries,      \* MAX_RETRIES (5 in the code)
          MaxFaults        \* bound: failures of the network and the server

NoConversation == "none"

ASSUME StreamAssumption ==
  /\ NoConversation \notin Conversations
  /\ MaxEvents \in [Conversations -> Nat] /\ MaxRetries \in Nat /\ MaxFaults \in Nat

VARIABLES log,                 \* log[c]: the S2 stream of conversation c
          cid,                 \* the conversation shown, NoConversation before one is
          messages,            \* messagesRef, published as liveMessages
          systemEvents,        \* systemEventsRef, published as liveSystemEvents
          lastSeq,             \* lastSeqRef, published as lastSeenSeq
          connected, error,    \* what the hook reports of the connection
          membershipChanged,   \* agentMembershipChangedAt # 0
          liveMembership,      \* lastLiveMembershipChangeAt # 0
          retryCount,          \* of the current effect
          timers,              \* pending retry timers of the current effect
          conns,               \* conns[s]: a call of openConversationStream
          faults               \* failures so far

hook == <<messages, systemEvents, lastSeq, membershipChanged, liveMembership>>
status == <<connected, error, retryCount, timers>>
vars == <<log, cid, hook, status, conns, faults>>

NoSeq == -1
Seqs == UNION {0 .. MaxEvents[c] : c \in Conversations}

(* A connection: waiting for the response, reading, or with nothing more   *)
(* to read, since the server has returned ("closing").  next is the record *)
(* the server sends next (while waiting, the one it will start with);      *)
(* cancelled is the closure flag of the effect that opened it.             *)
Free == [st |-> "free"]
Connections == [st : {"connecting", "open", "closing"}, cid : Conversations, next : Seqs, cancelled : BOOLEAN]
Connecting(c, from) == [st |-> "connecting", cid |-> c, next |-> from, cancelled |-> FALSE]

(* The hook's state, the connections and the logs have their types. *)
TypeOK ==
  /\ log \in [Conversations -> Seq(Events)]
  /\ cid \in Conversations \cup {NoConversation}
  /\ DOMAIN messages \subseteq Messages
  /\ ValuesOf(messages) \subseteq UIMessages(Conversations, Seqs)
  /\ ValuesOf(systemEvents) \subseteq SystemEvents(Seqs)
  /\ lastSeq \in Seqs \cup {NoSeq}
  /\ {connected, error, membershipChanged, liveMembership} \subseteq BOOLEAN
  /\ retryCount \in 0 .. MaxRetries
  /\ timers \in 0 .. 1
  /\ conns \in [Slots -> Connections \cup {Free}]
  /\ faults \in 0 .. MaxFaults

Init ==
  /\ log = [c \in Conversations |-> <<>>]
  /\ cid = NoConversation
  /\ messages = Empty /\ systemEvents = Empty /\ lastSeq = NoSeq
  /\ connected = FALSE /\ error = FALSE
  /\ membershipChanged = FALSE /\ liveMembership = FALSE
  /\ retryCount = 0 /\ timers = 0
  /\ conns = [s \in Slots |-> Free]
  /\ faults = 0

(* Slip: the name the branch for server errors in the reading loop tests. *)
ValidEventsAndError == MessageEvents \cup MembershipEvents \cup {"error"}

(* VALID_EVENTS: the event names parseFrame lets through. *)
ValidEvents == MessageEvents \cup MembershipEvents

(* parseFrame: the frame, or null for an event it does not know.  The id   *)
(* and data lines of the server's frames are always well-formed.           *)
ParseFrame(f) == IF f.event \in ValidEvents THEN {f} ELSE {}

Current(s) == conns[s] # Free /\ ~conns[s].cancelled

(* The write path appends a record.  Nothing of a message but an abort can *)
(* precede its message_start; a message may be started twice and ended     *)
(* twice, as the runs of MessageWrite show.                                *)
Write(c, e) ==
  /\ Len(log[c]) < MaxEvents[c]
  /\ e.event \in {"message_append", "message_end"} =>
        e.message_id \in Started(log[c], Len(log[c]))
  /\ log' = [log EXCEPT ![c] = Append(@, e)]
  /\ UNCHANGED <<cid, hook, status, conns, faults>>

-----------------------------------------------------------------------------
(* Slip: the server starts again with the record the client already has. *)
FromInclusive(seq) == IF seq # NoSeq THEN seq ELSE 0

(* connect sends Last-Event-ID unless lastSeqRef is null, and the server   *)
(* reads from the record after it, or from the first one.                  *)
From(seq) == IF seq # NoSeq THEN seq + 1 ELSE 0

(* The cleanup of the effect for the connections: flag and abort signal.   *)
Cleanup == [s \in Slots |-> IF conns[s] = Free THEN Free ELSE [conns[s] EXCEPT !.cancelled = TRUE]]

(* The cleanup, the timer included, then a run of the effect for c:        *)
(* everything reset, and connect().                                        *)
Select(c) ==
  /\ c # cid
  /\ \E s \in Slots :
       /\ conns[s] = Free
       /\ conns' = [Cleanup EXCEPT ![s] = Connecting(c, From(NoSeq))]
  /\ cid' = c
  /\ messages' = Empty /\ systemEvents' = Empty /\ lastSeq' = NoSeq
  /\ connected' = FALSE /\ error' = FALSE
  /\ membershipChanged' = FALSE /\ liveMembership' = FALSE
  /\ retryCount' = 0 /\ timers' = 0
  /\ UNCHANGED <<log, faults>>

(* onOpen, when the response headers have arrived with status 200. *)
OnOpen(s) ==
  IF Current(s)
  THEN connected' = TRUE /\ error' = FALSE /\ retryCount' = 0 /\ UNCHANGED timers
  ELSE UNCHANGED status

(* Slip: the count compared the wrong way round, one retry too many. *)
OnErrorOnceMore(s) ==
  IF Current(s)
  THEN /\ connected' = FALSE
       /\ error' = TRUE
       /\ IF retryCount > MaxRetries
          THEN UNCHANGED <<retryCount, timers>>
          ELSE retryCount' = retryCount + 1 /\ timers' = timers + 1
  ELSE UNCHANGED status

(* onError, called by the SSE client at most once per connection. *)
OnError(s) ==
  IF Current(s)
  THEN /\ connected' = FALSE
       /\ error' = TRUE
       /\ IF retryCount >= MaxRetries
          THEN UNCHANGED <<retryCount, timers>>
          ELSE retryCount' = retryCount + 1 /\ timers' = timers + 1
  ELSE UNCHANGED status

(* Slip: the timer fires and forgets to connect. *)
RetryTimerIdle ==
  /\ timers > 0
  /\ timers' = timers - 1
  /\ UNCHANGED <<log, cid, hook, connected, error, retryCount, conns, faults>>

(* The timer of onError fires: connect() with the position reached. *)
RetryTimer ==
  /\ timers > 0
  /\ \E s \in Slots : conns[s] = Free /\ conns' = [conns EXCEPT ![s] = Connecting(cid, From(lastSeq))]
  /\ timers' = timers - 1
  /\ UNCHANGED <<log, cid, hook, connected, error, retryCount, faults>>

(* fetch resolves with a body: onOpen, and the reading loop begins. *)
Open(s) ==
  /\ conns[s].st = "connecting"
  /\ conns' = [conns EXCEPT ![s].st = "open"]
  /\ OnOpen(s)
  /\ UNCHANGED <<log, cid, hook, faults>>

(* fetch rejects, or the response is an error or has no body. *)
OpenFails(s) ==
  /\ conns[s].st = "connecting"
  /\ faults < MaxFaults
  /\ faults' = faults + 1
  /\ conns' = [conns EXCEPT ![s] = Free]
  /\ OnError(s)
  /\ UNCHANGED <<log, cid, hook>>

(* "if (cancelled) return" at the head of onFrame *)
Dropped(s) == conns[s].cancelled

(* reader.read() yields the next record of the stream: parseFrame and      *)
(* onFrame.  recent is the outcome of the comparison of the record's       *)
(* timestamp with the clock (LIVE_MEMBERSHIP_WINDOW_MS).                   *)
Deliver(s, recent) ==
  /\ conns[s].st = "open"
  /\ conns[s].next < Len(log[conns[s].cid])
  /\ conns' = [conns EXCEPT ![s].next = @ + 1]
  /\ LET seq == conns[s].next
         f == log[conns[s].cid][seq + 1]
     IN IF Dropped(s) \/ ParseFrame(f) = {}
        THEN UNCHANGED hook
        ELSE /\ lastSeq' = seq
             /\ messages' = ReduceMessages(messages, conns[s].cid, seq, f)
             /\ systemEvents' = ReduceSystemEvents(systemEvents, seq, f)
             /\ membershipChanged' = (membershipChanged \/ f.event \in MembershipEvents)
             /\ liveMembership' = (liveMembership \/ (f.event \in MembershipEvents /\ recent))
  /\ UNCHANGED <<log, cid, status, faults>>

(* The body breaks off: reader.read() rejects. *)
StreamBreaks(s) ==
  /\ conns[s].st \in {"open", "closing"}
  /\ faults < MaxFaults
  /\ faults' = faults + 1
  /\ conns' = [conns EXCEPT ![s] = Free]
  /\ OnError(s)
  /\ UNCHANGED <<log, cid, hook>>

(* The server's read session fails: it sends an event named error, which   *)
(* parseFrame refuses unless it is among the valid ones, and returns.      *)
ServerFails(s) ==
  /\ conns[s].st = "open"
  /\ faults < MaxFaults
  /\ faults' = faults + 1
  /\ IF ParseFrame([event |-> "error"]) = {} THEN UNCHANGED status ELSE OnError(s)
  /\ conns' = [conns EXCEPT ![s].st = "closing"]
  /\ UNCHANGED <<log, cid, hook>>

(* The client reads the end of that response: done, and it just returns.   *)
Closed(s) ==
  /\ conns[s].st = "closing"
  /\ conns' = [conns EXCEPT ![s] = Free]
  /\ UNCHANGED <<log, cid, hook, status, faults>>

(* The server ends the response in order (24 hours, a writer that was too  *)
(* slow, the end of its read session): done, and the client just returns.  *)
Done(s) ==
  /\ conns[s].st = "open"
  /\ conns' = [conns EXCEPT ![s] = Free]
  /\ faults < MaxFaults
  /\ faults' = faults + 1
  /\ UNCHANGED <<log, cid, hook, status>>

(* The abort signal reaches a cancelled connection: AbortError, no callback. *)
AbortSeen(s) ==
  /\ conns[s] # Free
  /\ conns[s].cancelled
  /\ conns' = [conns EXCEPT ![s] = Free]
  /\ UNCHANGED <<log, cid, hook, status, faults>>

Next ==
  \/ \E c \in Conversations : Select(c) \/ \E e \in Events : Write(c, e)
  \/ RetryTimer
  \/ \E s \in Slots :
       \/ Open(s) \/ OpenFails(s)
       \/ \E recent \in BOOLEAN : Deliver(s, recent)
       \/ StreamBreaks(s) \/ ServerFails(s) \/ Closed(s) \/ Done(s) \/ AbortSeen(s)

Spec == Init /\ [][Next]_vars

(* Timers fire, a response arrives or fails, an abort is noticed, what the *)
(* server has is sent, one after the other, and the end of a response      *)
(* reaches the client.                                                     *)
FairSpec ==
  /\ Spec
  /\ WF_vars(RetryTimer)
  /\ \A s \in Slots : /\ WF_vars(Open(s) \/ OpenFails(s))
                      /\ WF_vars(\E recent \in BOOLEAN : Deliver(s, recent))
                      /\ WF_vars(AbortSeen(s)) /\ WF_vars(Closed(s))

-----------------------------------------------------------------------------
Reading == {s \in Slots : Current(s)}
Log == IF cid = NoConversation THEN <<>> ELSE log[cid]

(* The live view is exactly what the first lastSeq + 1 records of the      *)
(* conversation shown say: reconnects, replays, switches to another        *)
(* conversation and callbacks of an aborted connection neither lose nor    *)
(* repeat an append, and nothing of another conversation gets in.          *)
LiveIsLogPrefix ==
  /\ lastSeq < Len(Log)
  /\ ValuesOf(messages) = MessagesIn(Log, lastSeq + 1, cid)
  /\ ValuesOf(systemEvents) = SystemEventsIn(Log, lastSeq + 1)

(* At most one connection feeds the hook, and none while a retry is        *)
(* pending: the client calls onError once per connection, and only when    *)
(* that connection is over.                                                *)
OneReader == Cardinality(Reading) + timers <= 1

(* Given up: the error stays, as many retries as allowed have failed. *)
GaveUp == error /\ retryCount = MaxRetries /\ timers = 0 /\ Reading = {}

(* The server has closed the stream and the hook has not been told. *)
Hushed == connected /\ Reading = {}

(* A record of the conversation shown reaches the live view, in spite of   *)
(* failed and broken connections, unless the retries are used up, the      *)
(* server has closed the stream or another conversation is selected.       *)
CatchesUp ==
  \A c \in Conversations : \A n \in Seqs :
    (cid = c /\ Len(log[c]) > n) ~> (lastSeq >= n \/ cid # c \/ GaveUp \/ Hushed)

(* "Whether the underlying EventSource/fetch stream is currently open."    *)
(* (useConversationStream.ts:41).  It does not hold: a stream that the     *)
(* server closes is over without onError, so connected stays true and      *)
(* nothing reconnects.                                                     *)
ConnectedIsOpen == connected => \E s \in Reading : conns[s].st \in {"open", "closing"}
=============================================================================
