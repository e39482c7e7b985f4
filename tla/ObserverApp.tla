----------------------------- MODULE ObserverApp -----------------------------
(***************************************************************************)
(* The page of the observer UI, App.tsx with its sidebar, header and       *)
(* member list: the polled list of conversations (useConversations), which *)
(* one is shown, what counts as viewed, unread and active, the membership  *)
(* toasts with their timers, and the agents it derives from members,       *)
(* senders and membership events.  A React commit (a state change, the     *)
(* renders and effects it causes, in their order) is one step.             *)
(*                                                                         *)
(* The stream of the conversation shown is ConversationStream; here it is  *)
(* the frames that change what App derives from it.                        *)
(***************************************************************************)
EXTENDS Integers, Sequences, FiniteSets, SequencesExt

CONSTANTS Conversations,  \* conversation ids
          Agents,         \* the agents looked at; others may be members too
          MaxHead,        \* bound: head_seq of a conversation
          MaxClock,       \* bound: values of Date.now() that a live frame may get
          ToastLimit      \* toasts on the screen (3 in the code)

ASSUME AppAssumption == MaxHead \in Nat /\ MaxClock \in Nat /\ ToastLimit \in Nat \ {0}

VARIABLES server,         \* server[c]: head_seq and members, NotThere before c exists
          data,           \* convQ.data: the conversations of the last answered poll
          listStatus,     \* convQ.status: pending | success | error
          activeConvId,   \* the conversation shown
          lastSeen,       \* lastSeenSeqRef: the head_seq of the last poll, per conversation
          advanced,       \* conversations whose lastAdvanceAt is within ACTIVE_WINDOW_MS
          viewed,         \* viewedSeqRef
          met,            \* senders and membership events of the feed, as agents
          speaking,       \* senders with a live message that is streaming
          clock,          \* Date.now()
          liveAt,         \* stream.lastLiveMembershipChangeAt, 0 for none
          toasts,         \* ids of the toasts on the screen, newest first
          toastTimers     \* ids with a pending dismiss timer

polled == <<data, listStatus, lastSeen, advanced>>
streamed == <<met, speaking, liveAt, clock, toasts, toastTimers>>
vars == <<server, polled, activeConvId, viewed, streamed>>

NotThere == [head |-> -1, members |-> {}]
Nobody == "none"
NoHead == -1
Summaries == [head : 0 .. MaxHead, members : SUBSET Agents]
There == {c \in Conversations : server[c] # NotThere}
Listed == DOMAIN data

(* The page's state has its types, and only listed conversations are known. *)
TypeOK ==
  /\ server \in [Conversations -> Summaries \cup {NotThere}]
  /\ Listed \subseteq Conversations /\ data \in [Listed -> Summaries]
  /\ listStatus \in {"pending", "success", "error"}
  /\ activeConvId \in Listed \cup {Nobody}
  /\ lastSeen \in [Conversations -> NoHead .. MaxHead]
  /\ viewed \in [Conversations -> NoHead .. MaxHead]
  /\ advanced \subseteq Listed
  /\ met \subseteq Agents /\ speaking \subseteq met
  /\ clock \in 0 .. MaxClock /\ liveAt \in 0 .. clock
  /\ toasts \in UNION {[1 .. n -> 1 .. MaxClock] : n \in 0 .. ToastLimit}
  /\ toastTimers \subseteq 1 .. MaxClock

Init ==
  /\ server = [c \in Conversations |-> NotThere]
  /\ data = <<>> /\ listStatus = "pending"
  /\ activeConvId = Nobody
  /\ lastSeen = [c \in Conversations |-> NoHead]
  /\ advanced = {}
  /\ viewed = [c \in Conversations |-> NoHead]
  /\ met = {} /\ speaking = {}
  /\ clock = 0 /\ liveAt = 0
  /\ toasts = <<>> /\ toastTimers = {}

-----------------------------------------------------------------------------
(* The server's side: a conversation appears, grows, or gets or loses a    *)
(* member (which also is a record).                                        *)
Create(c) ==
  /\ server[c] = NotThere
  /\ \E m \in SUBSET Agents : server' = [server EXCEPT ![c] = [head |-> 0, members |-> m]]
  /\ UNCHANGED <<polled, activeConvId, viewed, streamed>>

Grow(c) ==
  /\ server[c] # NotThere
  /\ server[c].head < MaxHead
  /\ \E m \in {server[c].members} \cup {server[c].members \cup {a} : a \in Agents}
              \cup {server[c].members \ {a} : a \in Agents} :
       server' = [server EXCEPT ![c] = [head |-> @.head + 1, members |-> m]]
  /\ UNCHANGED <<polled, activeConvId, viewed, streamed>>

-----------------------------------------------------------------------------
(* Slip: every advance counts as viewed, not only the first sight. *)
FirstSightAlways(c, head) == head > lastSeen[c]

(* "prev === -1 && !viewedSeqRef.current.has(c.id)" in the poll effect *)
FirstSight(c, head) == lastSeen[c] = NoHead /\ viewed[c] = NoHead

(* Slip: nothing marks the conversation shown. *)
MarkViewedNot(shown, seen, v) == v

(* The effect on [activeConvId, convQ.data]: the conversation shown is     *)
(* viewed up to its head.                                                  *)
MarkViewed(shown, seen, v) ==
  [c \in Conversations |-> IF c = shown /\ seen[c] # NoHead THEN seen[c] ELSE v[c]]

(* The effect that shows the first conversation once the list is there. *)
AutoSelect(list) == IF activeConvId = Nobody /\ list # {} THEN list ELSE {activeConvId}

(* A poll answers (the interval of useConversations, or a refetch that a   *)
(* membership frame asked for): the new list, then the effects in order:   *)
(* advances and first sights, viewed, the first selection.                 *)
Poll ==
  /\ There # {} \/ listStatus # "success"
  /\ data' = [c \in There |-> server[c]]
  /\ listStatus' = "success"
  /\ lastSeen' = [c \in Conversations |->
                    IF server[c].head > lastSeen[c] THEN server[c].head ELSE lastSeen[c]]
  /\ advanced' = advanced \cup {c \in There : server[c].head > lastSeen[c]}
  /\ \E first \in AutoSelect(There) :
       /\ activeConvId' = first
       /\ viewed' = MarkViewed(first, lastSeen',
                      [c \in Conversations |->
                         IF c \in There /\ FirstSight(c, server[c].head) THEN server[c].head
                         ELSE viewed[c]])
  /\ UNCHANGED <<server, streamed>>

(* A poll fails after its retry: the old list stays, with an error. *)
PollFails ==
  /\ listStatus # "error"
  /\ listStatus' = "error"
  /\ UNCHANGED <<server, data, lastSeen, advanced, activeConvId, viewed, streamed>>

(* ACTIVE_WINDOW_MS have passed since the last advance of c was polled. *)
Decay(c) ==
  /\ c \in advanced
  /\ advanced' = advanced \ {c}
  /\ UNCHANGED <<server, data, listStatus, lastSeen, activeConvId, viewed, streamed>>

(* onSelect: the conversation is shown and viewed; the stream starts over. *)
Select(c) ==
  /\ c \in Listed
  /\ c # activeConvId
  /\ activeConvId' = c
  /\ viewed' = MarkViewed(c, lastSeen, viewed)
  /\ met' = {} /\ speaking' = {} /\ liveAt' = 0
  /\ UNCHANGED <<server, polled, clock, toasts, toastTimers>>

-----------------------------------------------------------------------------
(* A frame of the stream of the conversation shown. *)
SpeakerFrame(a) ==
  /\ activeConvId # Nobody
  /\ met' = met \cup {a}
  /\ \/ speaking' = speaking \cup {a}
     \/ speaking' = speaking \ {a}
  /\ <<met, speaking>>' # <<met, speaking>>
  /\ UNCHANGED <<server, polled, activeConvId, viewed, liveAt, clock, toasts, toastTimers>>

(* Slip: "The previous implementation cleared the newest timer on every    *)
(* effect re-run" (App.tsx:113).                                           *)
ArmTimerClearing(id) == toastTimers' = (toastTimers \ {liveAt}) \cup {id}

ArmTimer(id) == toastTimers' = toastTimers \cup {id}

(* Slip: the list is not cut. *)
WithToastUncut(id) == <<id>> \o toasts

(* [toast, ...prev].slice(0, 3) *)
WithToast(id) == LET all == <<id>> \o toasts
                 IN SubSeq(all, 1, IF Len(all) < ToastLimit THEN Len(all) ELSE ToastLimit)

(* A membership frame within the live window at time now.  A second one in *)
(* the same millisecond leaves the state, and so the effect, alone.        *)
LiveMembershipFrame(a, now) ==
  /\ activeConvId # Nobody
  /\ now > 0
  /\ clock' = now
  /\ liveAt' = now
  /\ met' = met \cup {a}
  /\ IF now = liveAt
     THEN UNCHANGED <<toasts, toastTimers>>
     ELSE /\ toasts' = WithToast(now)
          /\ ArmTimer(now)
  /\ UNCHANGED <<server, polled, activeConvId, viewed, speaking>>

(* prev.filter: the toasts at the positions that are kept, in order (one   *)
(* sequence; without the recursion of SelectSeq, which no proof unfolds).  *)
ToastsAt(kept) ==
  {[i \in DOMAIN at |-> toasts[at[i]]] :
     at \in {f \in [1 .. Cardinality(kept) -> kept] : \A i, j \in DOMAIN f : i < j => f[i] < f[j]}}

(* A dismiss timer fires. *)
DismissTimer(id) ==
  /\ id \in toastTimers
  /\ toasts' \in ToastsAt({i \in DOMAIN toasts : toasts[i] # id})
  /\ toastTimers' = toastTimers \ {id}
  /\ UNCHANGED <<server, polled, activeConvId, viewed, met, speaking, liveAt, clock>>

Next ==
  \/ \E c \in Conversations : Create(c) \/ Grow(c) \/ Decay(c) \/ Select(c)
  \/ Poll \/ PollFails
  \/ \E a \in Agents : \/ SpeakerFrame(a)
                       \/ \E now \in {clock, clock + 1} \cap 0 .. MaxClock :
                            LiveMembershipFrame(a, now)
  \/ \E id \in toastTimers : DismissTimer(id)

Spec == Init /\ [][Next]_vars

(* The list is refetched every 1.5 s, whatever the last answer was, and    *)
(* the server answers now and then; windows and timers run out.            *)
FairSpec ==
  /\ Spec
  /\ WF_vars(Poll)
  /\ \A c \in Conversations : WF_vars(Decay(c))
  /\ \A id \in 1 .. MaxClock : WF_vars(DismissTimer(id))

-----------------------------------------------------------------------------
(* What is rendered.                                                       *)

Unread == {c \in Listed \ {activeConvId} :
             data[c].head > IF viewed[c] = NoHead THEN 0 ELSE viewed[c]}

(* ConversationSidebar: the conversations that stream, then the unread     *)
(* ones, then the rest.                                                    *)
Rank(c) == (IF c \in advanced THEN 0 ELSE 2) + (IF c \in Unread THEN 0 ELSE 1)

(* ConvItem: what a row says at its right edge. *)
Row(c) == IF c \in advanced THEN "live" ELSE IF c \in Unread THEN "new" ELSE "quiet"

(* EmptyState, in place of a conversation *)
EmptyState == CASE activeConvId # Nobody -> "conversation"
                [] activeConvId = Nobody /\ listStatus = "error" -> "error"
                [] activeConvId = Nobody /\ listStatus = "pending" -> "loading"
                [] activeConvId = Nobody /\ listStatus = "success" -> "scanning"

(* activeConv.memberIds, as far as the last poll knows them *)
MemberIds == IF activeConvId \in Listed THEN data[activeConvId].members ELSE {}

(* Slip: the agents of the feed only. *)
AgentIdsOfFeed == met

(* agents: members, senders and agents of membership events, with the      *)
(* status of each.                                                         *)
AgentIds == MemberIds \cup met

StatusOf(a) == IF a \in speaking THEN "streaming" ELSE "online"

(* MemberList: the members among the agents, by status. *)
MemberGroup(s) == {a \in AgentIds : a \in MemberIds /\ StatusOf(a) = s}

(* StatusGroup: the number at the head of a group *)
StatusGroupCount(s) == Cardinality(MemberGroup(s))

(* ConversationHeader: how many of the members are online. *)
OnlineCount == LET members == {a \in AgentIds : a \in MemberIds}
               IN Cardinality({a \in members : StatusOf(a) = "streaming"})
                    + Cardinality({a \in members : StatusOf(a) = "online"})

-----------------------------------------------------------------------------
(* Selecting another conversation never makes one unread: what a poll has  *)
(* reported while a conversation was shown counts as viewed, so only a     *)
(* later poll that reports an advance flags it.                            *)
OnlyAdvanceFlags ==
  [][\A c \in Unread' \ Unread : lastSeen'[c] > lastSeen[c]]_vars

(* An advance of a conversation that is listed and not shown becomes       *)
(* visible in the sidebar as unread, once it has stopped streaming, above  *)
(* every quiet one, unless it is selected; and a conversation that exists  *)
(* makes the empty page go away, failed polls notwithstanding.             *)
AdvanceShows ==
  /\ \A c \in Conversations :
       (c \in Listed /\ c # activeConvId /\ server[c].head > data[c].head)
         ~> \/ Row(c) = "new" /\ \A d \in Listed : Row(d) = "quiet" => Rank(c) < Rank(d)
            \/ activeConvId = c
  /\ (There # {}) ~> (EmptyState = "conversation")

(* Every toast goes away, however many membership frames follow it. *)
ToastGoesAway ==
  \A id \in 1 .. MaxClock : (id \in ToSet(toasts)) ~> (id \notin ToSet(toasts))

(* A member of the conversation shown appears in the member list, and in   *)
(* the header's count, although nothing but polls brings members and the   *)
(* stream brings its messages first; unless it leaves or another           *)
(* conversation is selected.                                               *)
MemberShows ==
  \A c \in Conversations : \A a \in Agents :
    (activeConvId = c /\ a \in server[c].members)
      ~> \/ /\ a \in MemberGroup("streaming") \cup MemberGroup("online")
            /\ OnlineCount = Cardinality(MemberIds)
            /\ StatusGroupCount("streaming") + StatusGroupCount("online") = OnlineCount
         \/ activeConvId # c
         \/ a \notin server[c].members
=============================================================================
