--------------------------- MODULE ConversationFeed ---------------------------
(***************************************************************************)
(* What the observer UI makes of one conversation's event log: the reducer *)
(* that useConversationStream applies to every SSE frame, the history rows *)
(* that the server assembles from the same log, their merge, the           *)
(* interleaved feed and the blocks that MessageFeed renders.  Everything   *)
(* here is a function of a log; the connection that delivers the log is    *)
(* ConversationStream.                                                     *)
(*                                                                         *)
(* A log is a sequence of events; the record at index i has sequence       *)
(* number i - 1.  The text of a message_append is represented by the       *)
(* sequence number of its record, so content is a sequence of numbers and  *)
(* a lost, repeated or misplaced append shows.                             *)
(***************************************************************************)
EXTENDS Integers, Sequences, FiniteSets, SequencesExt

CONSTANTS Messages,      \* message ids
          Agents,        \* agent ids
          HistoryLimit   \* the page size useMessages asks for (100 in the code)

ASSUME HistoryLimitAssumption == HistoryLimit \in Nat \ {0}

(* The agent id of a message whose message_start was not seen. *)
NoAgent == "unknown"

MessageEvents == {"message_start", "message_append", "message_end", "message_abort"}
MembershipEvents == {"agent_joined", "agent_left"}

(* The payloads of the six event types: a message event names its message  *)
(* (a message_start its sender too), a membership event its agent.         *)
Events == [event : {"message_start"}, message_id : Messages, sender_id : Agents]
            \cup [event : MessageEvents \ {"message_start"}, message_id : Messages]
            \cup [event : MembershipEvents, agent_id : Agents]

(* Message and SystemEvent, the shapes the components render. *)
UIMessages(Convs, Seqs) ==
  [id : Messages, agentId : Agents \cup {NoAgent}, conversationId : Convs, content : Seq(Seqs),
   isStreaming : BOOLEAN, streamComplete : BOOLEAN, seq : Seqs]
SystemEvents(Seqs) == [kind : MembershipEvents, agentId : Agents, seq : Seqs]

(* Array.prototype.sort by seq, for elements whose seqs all differ: in     *)
(* place i the one that has i - 1 below it.  (The sort of the community    *)
(* modules ends in an operator that the provers cannot unfold.)            *)
TheOne(S) == CHOOSE s \in S : TRUE
SortBySeq(S) ==
  [i \in 1 .. Cardinality(S) |-> TheOne({x \in S : Cardinality({y \in S : y.seq < x.seq}) = i - 1})]

(* Map.prototype.set *)
Put(map, k, v) == [x \in DOMAIN map \cup {k} |-> IF x = k THEN v ELSE map[x]]
Empty == <<>>
ValuesOf(map) == {map[k] : k \in DOMAIN map}

-----------------------------------------------------------------------------
(* The reducer: the effect of one frame on the map of live messages.       *)

(* case 'message_start': a fresh message, whatever was there before. *)
OnMessageStart(messages, cid, seq, p) ==
  Put(messages, p.message_id,
      [id |-> p.message_id, agentId |-> p.sender_id, conversationId |-> cid, content |-> <<>>,
       isStreaming |-> TRUE, streamComplete |-> FALSE, seq |-> seq])

(* case 'message_append': the text is added to the message, or to a        *)
(* placeholder without a sender when its message_start was not seen.       *)
OnMessageAppend(messages, cid, seq, p) ==
  IF p.message_id \in DOMAIN messages
  THEN [messages EXCEPT ![p.message_id].content = Append(@, seq)]
  ELSE Put(messages, p.message_id,
           [id |-> p.message_id, agentId |-> NoAgent, conversationId |-> cid, content |-> <<seq>>,
            isStreaming |-> TRUE, streamComplete |-> FALSE, seq |-> seq])

(* case 'message_end': ignored for a message that is not there. *)
OnMessageEnd(messages, p) ==
  IF p.message_id \in DOMAIN messages
  THEN [messages EXCEPT ![p.message_id].isStreaming = FALSE, ![p.message_id].streamComplete = TRUE]
  ELSE messages

(* case 'message_abort': the partial text stays, marked as not complete. *)
OnMessageAbort(messages, p) ==
  IF p.message_id \in DOMAIN messages
  THEN [messages EXCEPT ![p.message_id].isStreaming = FALSE, ![p.message_id].streamComplete = FALSE]
  ELSE messages

(* The message part of onFrame; membership frames leave it alone. *)
ReduceMessages(messages, cid, seq, f) ==
  CASE f.event = "message_start"  -> OnMessageStart(messages, cid, seq, f)
    [] f.event = "message_append" -> OnMessageAppend(messages, cid, seq, f)
    [] f.event = "message_end"    -> OnMessageEnd(messages, f)
    [] f.event = "message_abort"  -> OnMessageAbort(messages, f)
    [] OTHER -> messages

(* case 'agent_joined' | 'agent_left': one entry per sequence number. *)
ReduceSystemEvents(events, seq, f) ==
  IF f.event \in MembershipEvents
  THEN Put(events, seq, [kind |-> f.event, agentId |-> f.agent_id, seq |-> seq])
  ELSE events

(* onFrame: the hook's two maps after the frames of the first n records.   *)
OnFrame(maps, cid, seq, f) ==
  [messages |-> ReduceMessages(maps.messages, cid, seq, f),
   systemEvents |-> ReduceSystemEvents(maps.systemEvents, seq, f)]
LiveMaps(log, n, cid) ==
  FoldLeft(LAMBDA maps, i : OnFrame(maps, cid, i - 1, log[i]),
           [messages |-> Empty, systemEvents |-> Empty], [i \in 1 .. n |-> i])

(* flush, flushSystem: the published array, sorted by sequence number. *)
Flush(map) == SortBySeq(ValuesOf(map))

-----------------------------------------------------------------------------
(* History: what the server assembles and useMessages adapts.              *)

(* One step of AssembleMessages: rows in the order they ended, and the     *)
(* messages that have started and not ended.                               *)
AssembleStep(acc, seq, f) ==
  LET m == f.message_id
      known == f.event \in MessageEvents /\ m \in DOMAIN acc.pending
      close(status) ==
        [rows |-> Append(acc.rows, [message_id |-> m, sender_id |-> acc.pending[m].sender_id,
                                    content |-> acc.pending[m].content,
                                    seq_start |-> acc.pending[m].seq_start, status |-> status]),
         pending |-> [x \in DOMAIN acc.pending \ {m} |-> acc.pending[x]]]
  IN CASE f.event = "message_start" ->
            [acc EXCEPT !.pending = Put(@, m, [sender_id |-> f.sender_id, content |-> <<>>,
                                               seq_start |-> seq])]
       [] f.event = "message_append" /\ known -> [acc EXCEPT !.pending[m].content = Append(@, seq)]
       [] f.event = "message_end" /\ known -> close("complete")
       [] f.event = "message_abort" /\ known -> close("aborted")
       [] OTHER -> acc

(* AssembleMessages: the closed rows, then one in_progress row per message *)
(* still pending.  The rows are a set: seq_start tells them apart.         *)
Assembled(log) ==
  FoldLeft(LAMBDA acc, i : AssembleStep(acc, i - 1, log[i]),
           [rows |-> <<>>, pending |-> Empty], [i \in 1 .. Len(log) |-> i])
AssembleMessages(log) ==
  LET done == Assembled(log)
  IN ToSet(done.rows)
       \cup {[message_id |-> m, sender_id |-> done.pending[m].sender_id,
              content |-> done.pending[m].content, seq_start |-> done.pending[m].seq_start,
              status |-> "in_progress"] : m \in DOMAIN done.pending}

(* ObserverGetHistory without a cursor: of the rows that start before      *)
(* upper, which is head_seq + 1, the newest, HistoryLimit of them.  The    *)
(* log fits into the first window read (8 * limit records).                *)
HistoryPage(log, upper) ==
  LET rows == {r \in AssembleMessages(log) : r.seq_start < upper}
  IN {r \in rows : Cardinality({q \in rows : q.seq_start > r.seq_start}) < HistoryLimit}

(* toUIMessage *)
ToUIMessage(h, cid) ==
  [id |-> h.message_id, agentId |-> h.sender_id, conversationId |-> cid, content |-> h.content,
   isStreaming |-> h.status = "in_progress", streamComplete |-> h.status = "complete",
   seq |-> h.seq_start]

(* The queryFn of useMessages: the page, adapted and sorted. *)
UseMessages(log, upper, cid) ==
  SortBySeq({ToUIMessage(h, cid) : h \in HistoryPage(log, upper)})

-----------------------------------------------------------------------------
(* Merging and rendering.                                                  *)

(* The map by id that mergeHistoryAndLive fills: of two rows with one id   *)
(* the later one stays.                                                    *)
ById(rows) == FoldLeft(LAMBDA byId, m : Put(byId, m.id, m), Empty, rows)

(* Slip: the page goes over what the stream has brought. *)
MergeHistoryLast(history, live) == Flush(ById(live \o history))

(* mergeHistoryAndLive: live last. *)
MergeHistoryAndLive(history, live) == Flush(ById(history \o live))

(* buildFeed: messages and system events in one order. *)
BuildFeed(history, live, systemEvents) ==
  LET messages == MergeHistoryAndLive(history, live)
      item(kind, x) == [_kind |-> kind, seq |-> x.seq, item |-> x]
  IN SortBySeq({item("message", m) : m \in ToSet(messages)}
                 \cup {item("system", s) : s \in ToSet(systemEvents)})

(* currentMsg.agent?.id = item.agentId: a block whose agent is not among   *)
(* the agents passed in takes no second message.                           *)
SameBlock(block, item, agents) == block.agentId \in agents /\ block.agentId = item.agentId

(* groupFeed: adjacent messages of one agent form a block, a system event  *)
(* stands alone and ends the block before it.                              *)
GroupStep(blocks, f, agents) ==
  IF f._kind = "system"
  THEN Append(blocks, [kind |-> "system", agentId |-> f.item.agentId, items |-> <<f.item>>])
  ELSE IF /\ blocks # <<>>
          /\ Last(blocks).kind = "messages"
          /\ SameBlock(Last(blocks), f.item, agents)
  THEN [blocks EXCEPT ![Len(blocks)].items = Append(@, f.item)]
  ELSE Append(blocks, [kind |-> "messages", agentId |-> f.item.agentId, items |-> <<f.item>>])

GroupFeed(feed, agents) ==
  FoldLeft(LAMBDA blocks, f : GroupStep(blocks, f, agents), <<>>, feed)

-----------------------------------------------------------------------------
(* Reference definitions: what a log says, without running it.             *)

(* The sequence numbers below n of records of message m with event e *)
SeqsOf(log, n, m, e) ==
  {s \in 0 .. n - 1 : log[s + 1].event = e /\ log[s + 1].event \in MessageEvents
                        /\ log[s + 1].message_id = m}
MaxOf(S) == CHOOSE s \in S : \A t \in S : t <= s
Started(log, n) == {m \in Messages : SeqsOf(log, n, m, "message_start") # {}}

(* The numbers of S in increasing order: in place i the one that has i - 1 *)
(* below it.                                                               *)
InOrder(S) ==
  [i \in 1 .. Cardinality(S) |-> TheOne({s \in S : Cardinality({t \in S : t < s}) = i - 1})]

(* Message m after the first n records: what follows its last              *)
(* message_start, with the outcome of its last terminal record.            *)
MessageIn(log, n, m, cid) ==
  LET first == MaxOf(SeqsOf(log, n, m, "message_start"))
      after(e) == {s \in SeqsOf(log, n, m, e) : s > first}
      terminal == after("message_end") \cup after("message_abort")
  IN [id |-> m, agentId |-> log[first + 1].sender_id, conversationId |-> cid,
      content |-> InOrder(after("message_append")),
      isStreaming |-> terminal = {},
      streamComplete |-> terminal # {} /\ MaxOf(terminal) \in after("message_end"),
      seq |-> first]

MessagesIn(log, n, cid) == {MessageIn(log, n, m, cid) : m \in Started(log, n)}

SystemEventsIn(log, n) ==
  {[kind |-> log[s + 1].event, agentId |-> log[s + 1].agent_id, seq |-> s] :
     s \in {t \in 0 .. n - 1 : log[t + 1].event \in MembershipEvents}}
=============================================================================
