------------------------------- MODULE FeedView -------------------------------
(***************************************************************************)
(* The feed of the conversation shown: App.tsx merges the page that        *)
(* useMessages has cached with what the stream has delivered, and          *)
(* MessageFeed cuts the result into blocks.  The two sources are loaded    *)
(* independently: the page may cover more or fewer records than the        *)
(* stream, and the stream starts over when the conversation is selected    *)
(* again.  ConversationStream shows that the stream's part is the effect   *)
(* of the first records of the log; here it is their number.               *)
(***************************************************************************)
EXTENDS ConversationFeed

CONSTANT MaxLog   \* bound: records of the log

VARIABLES feedLog,    \* the event log of the conversation
          feedLive,   \* records the stream has delivered
          feedPage,   \* records covered by the cached history page
          feedUpper   \* the server's head_seq + 1 when it was made

feedVars == <<feedLog, feedLive, feedPage, feedUpper>>

FeedInit == feedLog = <<>> /\ feedLive = 0 /\ feedPage = 0 /\ feedUpper = 0

(* A record is appended; as in ConversationStream. *)
FeedWrite(e) ==
  /\ Len(feedLog) < MaxLog
  /\ e.event \in {"message_append", "message_end"} =>
        e.message_id \in Started(feedLog, Len(feedLog))
  /\ feedLog' = Append(feedLog, e)
  /\ UNCHANGED <<feedLive, feedPage, feedUpper>>

(* The stream delivers a record, or starts over. *)
FeedDeliver == /\ feedLive < Len(feedLog)
               /\ feedLive' = feedLive + 1
               /\ UNCHANGED <<feedLog, feedPage, feedUpper>>
FeedRestart == /\ feedLive > 0
               /\ feedLive' = 0
               /\ UNCHANGED <<feedLog, feedPage, feedUpper>>

(* A fetch of useMessages answers with a page over the first n records;    *)
(* head_seq, which a streamed message advances only at its end, may be     *)
(* behind them.                                                            *)
FeedPageLoads(n, upper) ==
  /\ n \in feedPage .. Len(feedLog) /\ upper \in feedUpper .. n
  /\ <<n, upper>> # <<feedPage, feedUpper>>
  /\ feedPage' = n /\ feedUpper' = upper
  /\ UNCHANGED <<feedLog, feedLive>>

FeedNext == \/ \E e \in Events : FeedWrite(e)
            \/ FeedDeliver \/ FeedRestart
            \/ \E n, upper \in 0 .. MaxLog : FeedPageLoads(n, upper)

-----------------------------------------------------------------------------
Shown == "shown"   \* the id of the conversation shown

LiveMessages == Flush(LiveMaps(feedLog, feedLive, Shown).messages)
LiveSystemEvents == Flush(LiveMaps(feedLog, feedLive, Shown).systemEvents)

(* The two useMemos of App.tsx that feed MessageFeed. *)
Feed == BuildFeed(UseMessages(SubSeq(feedLog, 1, feedPage), feedUpper, Shown),
                  LiveMessages, LiveSystemEvents)

(* MessageFeed: the feed as it is rendered, block by block. *)
Blocks(agents) == GroupFeed(Feed, agents)

(* App.tsx, agents: the members it knows of and whoever appears in the     *)
(* feed; a message without a start has no sender.                          *)
AgentsOfFeed(members) == (members \cup {Feed[i].item.agentId : i \in DOMAIN Feed}) \ {NoAgent}

(* The name that MessageGroup and SystemLine show: the agent's, or a       *)
(* stand-in, which SystemLine makes of the id.                             *)
MessageGroupName(block, agents) ==
  IF block.agentId \in agents THEN block.agentId ELSE "unknown-agent"
SystemLineName(block, agents) ==
  IF block.agentId \in agents THEN block.agentId ELSE <<"agent", block.agentId>>

(* The feed has every message the stream has brought exactly as the log    *)
(* has it, from the page only messages the stream has not met, each        *)
(* message once, everything in the order of the log; once the stream has   *)
(* caught up with the page, the page adds nothing.  The blocks that        *)
(* MessageFeed renders are the feed cut into pieces, none of them with the *)
(* messages of two agents, whichever agents are known; with the agents     *)
(* that App.tsx makes of the feed, every block bears its sender's name,    *)
(* and no block could be joined with the one before it.                    *)
FeedIsMerged ==
  LET shown == {Feed[i].item : i \in {j \in DOMAIN Feed : Feed[j]._kind = "message"}}
      page == HistoryPage(SubSeq(feedLog, 1, feedPage), feedUpper)
      live == MessagesIn(feedLog, feedLive, Shown)
  IN /\ \A i, j \in DOMAIN Feed : i < j => Feed[i].seq < Feed[j].seq
     /\ live \subseteq shown
     /\ \A m, n \in shown : m.id = n.id => m = n
     /\ {m.id : m \in shown} = Started(feedLog, feedLive) \cup {h.message_id : h \in page}
     /\ feedPage <= feedLive => shown = live
     /\ {Feed[i].item : i \in DOMAIN Feed} \ shown = SystemEventsIn(feedLog, feedLive)
     /\ \A known \in SUBSET Agents :
          LET blocks == Blocks(known)
          IN /\ FlattenSeq([i \in DOMAIN blocks |-> blocks[i].items])
                  = [i \in DOMAIN Feed |-> Feed[i].item]
             /\ \A i \in DOMAIN blocks : \A x \in ToSet(blocks[i].items) :
                  x.agentId = blocks[i].agentId
     /\ \A members \in SUBSET Agents :
          LET agents == AgentsOfFeed(members)
              blocks == Blocks(agents)
              name(b) == IF b.kind = "system" THEN SystemLineName(b, agents)
                         ELSE MessageGroupName(b, agents)
          IN \A i \in DOMAIN blocks :
               /\ blocks[i].agentId # NoAgent => name(blocks[i]) = blocks[i].agentId
               /\ i > 1 /\ blocks[i].kind = "messages" /\ blocks[i].agentId # NoAgent
                    => <<blocks[i - 1].kind, blocks[i - 1].agentId>>
                         # <<"messages", blocks[i].agentId>>
===============================================================================
