-------------------------------- MODULE Reading --------------------------------
(***************************************************************************)
(* How an agent reads a conversation: SSEStream (internal/api/sse.go), its *)
(* tailer with the bounded channel and its writer, resumption by ?from,    *)
(* Last-Event-ID or the stored cursor, and AckCursor (ack.go).  What the   *)
(* writer has flushed may be lost on its way.  One connection at a time:   *)
(* Connections is about those that overlap.  The stored delivery cursor is *)
(* what callers of CursorCache see of it: it only moves forward, unless a  *)
(* restart forgets moves that were not flushed.                            *)
(***************************************************************************)
EXTENDS Integers, Sequences

CONSTANTS MaxRecords,   \* bound: records of the stream
          ChanCap       \* sseChanCap (64 in the code)

ASSUME ReadingAssumption == MaxRecords \in Nat /\ ChanCap \in Nat \ {0}

VARIABLES records,      \* records on the S2 stream, numbered from 0
          headSeq,      \* head_seq: may lag behind, or be one ahead of the last record
          deliverySeq,  \* the stored cursor: the next record to deliver
          ackSeq,
          tail,         \* the connection: its next record, and whether the tailer has ended
          eventCh,      \* records between tailer and writer
          wire,         \* records flushed and not yet read by the client
          lastEventId,  \* what the client would resume after, NoId when it has forgotten
          known         \* records the client has read, or passed over by ?from

readVars == <<records, headSeq, deliverySeq, ackSeq, tail, eventCh, wire, lastEventId, known>>

NoId == -1
NoTail == [up |-> FALSE, next |-> 0, ended |-> TRUE]
Max2(a, b) == IF a > b THEN a ELSE b

ReadingInit ==
  /\ records = 1 /\ headSeq = 0
  /\ deliverySeq = 0 /\ ackSeq = 0
  /\ tail = NoTail /\ eventCh = <<>> /\ wire = <<>>
  /\ lastEventId = NoId /\ known = {}

-----------------------------------------------------------------------------
(* The write path: a record is appended, and head_seq follows, by a        *)
(* streamed write one too far.                                             *)
RecordAppended ==
  /\ records < MaxRecords
  /\ records' = records + 1
  /\ UNCHANGED <<headSeq, deliverySeq, ackSeq, tail, eventCh, wire, lastEventId, known>>

HeadAdvances(h) ==
  /\ h \in headSeq + 1 .. records
  /\ headSeq' = h
  /\ UNCHANGED <<records, deliverySeq, ackSeq, tail, eventCh, wire, lastEventId, known>>

-----------------------------------------------------------------------------
(* The start of SSEStream at a position: a fresh session and channel; what *)
(* an earlier connection had under way is gone.                            *)
StartTail(from) ==
  /\ tail' = [up |-> TRUE, next |-> from, ended |-> FALSE]
  /\ eventCh' = <<>> /\ wire' = <<>>

(* ?from wins over everything and leaves the cursor alone. *)
ConnectFrom(from) ==
  /\ ~tail.up
  /\ StartTail(from)
  /\ known' = known \cup 0 .. from - 1
  /\ UNCHANGED <<records, headSeq, deliverySeq, ackSeq, lastEventId>>

(* Last-Event-ID: the client has confirmed what it has read. *)
ConnectResume ==
  /\ ~tail.up /\ lastEventId # NoId
  /\ StartTail(lastEventId + 1)
  /\ deliverySeq' = Max2(deliverySeq, lastEventId + 1)
  /\ UNCHANGED <<records, headSeq, ackSeq, lastEventId, known>>

(* Neither: from the stored cursor. *)
ConnectStored ==
  /\ ~tail.up
  /\ StartTail(deliverySeq)
  /\ UNCHANGED <<records, headSeq, deliverySeq, ackSeq, lastEventId, known>>

(* The tailer goroutine moves the next event into the channel. *)
TailerSends ==
  /\ tail.up /\ ~tail.ended
  /\ tail.next < records
  /\ Len(eventCh) < ChanCap
  /\ eventCh' = Append(eventCh, tail.next)
  /\ tail' = [tail EXCEPT !.next = @ + 1]
  /\ UNCHANGED <<records, headSeq, deliverySeq, ackSeq, wire, lastEventId, known>>

(* The tailer ends: its session fails or, the channel being full for       *)
(* 500 ms, it cancels and drops the event it holds.                        *)
TailerEnds ==
  /\ tail.up /\ ~tail.ended
  /\ tail' = [tail EXCEPT !.ended = TRUE]
  /\ UNCHANGED <<records, headSeq, deliverySeq, ackSeq, eventCh, wire, lastEventId, known>>

(* Slip: the cursor is advanced by what has been flushed. *)
FlushedCursor(seq) == deliverySeq' = Max2(deliverySeq, seq + 1)

(* "Deliberately NOT advancing delivery_seq here" *)
WriterCursor(seq) == UNCHANGED deliverySeq

(* The writer takes an event from the channel, also when the tailer has    *)
(* ended: the select may find both ready.  (It skips a payload it cannot   *)
(* parse; the server writes none.)                                         *)
WriterFlushes ==
  /\ tail.up /\ eventCh # <<>>
  /\ wire' = Append(wire, Head(eventCh))
  /\ eventCh' = Tail(eventCh)
  /\ WriterCursor(Head(eventCh))
  /\ UNCHANGED <<records, headSeq, ackSeq, tail, lastEventId, known>>

(* The handler returns, since the tailer has ended, the context is done, a *)
(* write fails or another tail replaces it; the channel is dropped.        *)
TailReturns ==
  /\ tail.up
  /\ tail' = NoTail /\ eventCh' = <<>>
  /\ UNCHANGED <<records, headSeq, deliverySeq, ackSeq, wire, lastEventId, known>>

-----------------------------------------------------------------------------
(* AckCursor: beyond the head it is refused; else ack_seq and the delivery *)
(* cursor move, unless they are there already.                             *)
AckCursor(seq) ==
  /\ seq <= headSeq
  /\ ackSeq' = Max2(ackSeq, seq)
  /\ deliverySeq' = Max2(deliverySeq, seq + 1)
  /\ UNCHANGED <<records, headSeq, tail, eventCh, wire, lastEventId, known>>

(* ListUnread: event_delta, shown when it is positive *)
Unread == headSeq - ackSeq

(* The client: it reads what arrives, in order; what is flushed may be     *)
(* lost; it may be started anew; it acknowledges what it has read.         *)
ClientReads ==
  /\ wire # <<>>
  /\ known' = known \cup {Head(wire)} /\ lastEventId' = Head(wire)
  /\ wire' = Tail(wire)
  /\ UNCHANGED <<records, headSeq, deliverySeq, ackSeq, tail, eventCh>>

ConnectionLost ==
  /\ wire # <<>>
  /\ wire' = <<>> /\ tail' = NoTail /\ eventCh' = <<>>
  /\ UNCHANGED <<records, headSeq, deliverySeq, ackSeq, lastEventId, known>>

ClientForgets ==
  /\ lastEventId # NoId
  /\ lastEventId' = NoId
  /\ UNCHANGED <<records, headSeq, deliverySeq, ackSeq, tail, eventCh, wire, known>>

(* The server is started anew: the part of the cursor's moves that was not *)
(* flushed is forgotten.                                                   *)
ServerRestarts(flushed) ==
  /\ deliverySeq' = flushed
  /\ tail' = NoTail /\ eventCh' = <<>>
  /\ UNCHANGED <<records, headSeq, ackSeq, wire, lastEventId, known>>

ReadingNext ==
  \/ RecordAppended \/ \E h \in 0 .. MaxRecords : HeadAdvances(h)
  \/ \E from \in 0 .. records : ConnectFrom(from)
  \/ ConnectResume \/ ConnectStored
  \/ TailerSends \/ TailerEnds \/ WriterFlushes \/ TailReturns
  \/ \E seq \in known : AckCursor(seq)
  \/ ClientReads \/ ConnectionLost \/ ClientForgets
  \/ \E flushed \in 0 .. deliverySeq - 1 : ServerRestarts(flushed)

-----------------------------------------------------------------------------
(* Whatever is lost, dropped, replaced or forgotten at a restart, the      *)
(* client's records have no gap and the stored cursor is not past them: a  *)
(* connection without a position of its own brings everything the client   *)
(* has not read.  The cursor moves by what the client confirms             *)
(* (Last-Event-ID, ack), never by what was flushed.  What is acknowledged  *)
(* never makes the count of unread records negative.                       *)
NoGap ==
  /\ \A s \in known : 0 .. s \subseteq known
  /\ 0 .. deliverySeq - 1 \subseteq known
  /\ Unread >= 0
================================================================================
