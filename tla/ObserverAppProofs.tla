---------------------------- MODULE ObserverAppProofs ----------------------------
(***************************************************************************)
(* Proofs about ObserverApp, for any number of conversations and agents,   *)
(* heads of any length and any number of toasts.                           *)
(***************************************************************************)
EXTENDS ObserverApp, SequenceTheorems, FiniteSetTheorems, TLAPS

(***************************************************************************)
(* The state but for the toasts, with what relates the three records of a  *)
(* head: the list's, lastSeenSeqRef and viewedSeqRef.                      *)
(***************************************************************************)
Heads == NoHead .. MaxHead

ServerInv == server \in [Conversations -> Summaries \cup {NotThere}]

(* Only listed conversations are known, and the last poll's head is the one seen. *)
ListInv ==
  /\ Listed \subseteq Conversations /\ data \in [Listed -> Summaries]
  /\ listStatus \in {"pending", "success", "error"}
  /\ activeConvId \in Listed \cup {Nobody}
  /\ advanced \subseteq Listed
  /\ lastSeen \in [Conversations -> Heads]
  /\ \A c \in Conversations : lastSeen[c] = IF c \in Listed THEN data[c].head ELSE NoHead
  /\ \A c \in Conversations : lastSeen[c] <= server[c].head

(* A listed conversation has been viewed once, the one shown up to the head seen. *)
ViewedInv ==
  /\ viewed \in [Conversations -> Heads]
  /\ \A c \in Listed : viewed[c] # NoHead
  /\ activeConvId \in Listed => viewed[activeConvId] = lastSeen[activeConvId]

(* What the stream has told. *)
FeedInv ==
  /\ met \subseteq Agents /\ speaking \subseteq met
  /\ clock \in 0 .. MaxClock /\ liveAt \in 0 .. clock
  /\ toastTimers \subseteq 1 .. MaxClock

ToastsInv == toasts \in UNION {[1 .. n -> 1 .. MaxClock] : n \in 0 .. ToastLimit}

PageInv == ServerInv /\ ListInv /\ ViewedInv /\ FeedInv /\ ToastsInv

LEMMA ServerHeads ==
  ASSUME ServerInv, NEW c \in Conversations
  PROVE  /\ server[c].head \in Heads
         /\ c \in There => server[c] \in Summaries /\ server[c].head \in 0 .. MaxHead
         /\ c \notin There => server[c].head = NoHead
<1> USE AppAssumption
<1>1. CASE server[c] \in Summaries
  <2>1. server[c].head \in 0 .. MaxHead
    BY <1>1 DEF Summaries
  <2>2. server[c] # NotThere
    BY <2>1 DEF NotThere
  <2> QED BY <1>1, <2>1, <2>2 DEF There, Heads, NoHead
<1>2. CASE server[c] = NotThere
  BY <1>2 DEF There, NotThere, Heads, NoHead
<1> QED BY <1>1, <1>2 DEF ServerInv

(* A conversation appears or grows: nothing that the page knows changes. *)
LEMMA ServerMoves ==
  ASSUME PageInv, ServerInv', \A c \in Conversations : server[c].head <= server'[c].head,
         UNCHANGED <<polled, activeConvId, viewed, streamed>>
  PROVE  PageInv'
<1> USE DEF PageInv
<1>1. UNCHANGED <<data, listStatus, lastSeen, advanced, activeConvId, viewed, met, speaking, liveAt,
                  clock, toasts, toastTimers>>
  BY DEF polled, streamed
<1>2. Listed' = Listed
  BY <1>1 DEF Listed
<1>3. ASSUME NEW c \in Conversations PROVE lastSeen[c] <= server'[c].head
  <2>1. lastSeen[c] \in Int /\ server[c].head \in Int /\ server'[c].head \in Int
    BY ServerHeads, AppAssumption DEF ListInv, Heads, NoHead, ServerInv, Summaries, NotThere
  <2> QED BY <2>1 DEF ListInv
<1>4. ListInv'
  BY <1>1, <1>2, <1>3 DEF ListInv
<1>5. ViewedInv' /\ FeedInv' /\ ToastsInv'
  BY <1>1, <1>2 DEF ViewedInv, FeedInv, ToastsInv
<1> QED BY <1>4, <1>5

LEMMA CreateStep ==
  ASSUME PageInv, NEW c \in Conversations, Create(c)
  PROVE  PageInv'
<1> USE AppAssumption
<1>1. PICK m \in SUBSET Agents : server' = [server EXCEPT ![c] = [head |-> 0, members |-> m]]
  BY DEF Create
<1>2. [head |-> 0, members |-> m] \in Summaries
  BY DEF Summaries
<1>3. ServerInv'
  BY <1>1, <1>2 DEF PageInv, ServerInv
<1>4. ASSUME NEW d \in Conversations PROVE server[d].head <= server'[d].head
  <2>1. CASE d = c
    BY <1>1, <2>1 DEF Create, NotThere, PageInv, ServerInv
  <2>2. CASE d # c
    BY <1>1, <2>2, ServerHeads DEF PageInv, ServerInv, Heads, NoHead
  <2> QED BY <2>1, <2>2
<1> QED BY <1>3, <1>4, ServerMoves DEF Create

LEMMA GrowStep ==
  ASSUME PageInv, NEW c \in Conversations, Grow(c)
  PROVE  PageInv'
<1> USE AppAssumption
<1>1. c \in There /\ server[c] \in Summaries /\ server[c].head \in 0 .. MaxHead
      /\ server[c].members \subseteq Agents /\ server[c].head < MaxHead
  BY ServerHeads DEF Grow, There, PageInv, Summaries
<1>2. PICK m \in SUBSET Agents :
        server' = [server EXCEPT ![c] = [head |-> server[c].head + 1, members |-> m]]
  BY <1>1 DEF Grow
<1>3. [head |-> server[c].head + 1, members |-> m] \in Summaries
  BY <1>1 DEF Summaries
<1>4. ServerInv'
  BY <1>2, <1>3 DEF PageInv, ServerInv
<1>5. ASSUME NEW d \in Conversations PROVE server[d].head <= server'[d].head
  <2>1. CASE d = c
    BY <1>1, <1>2, <2>1 DEF PageInv, ServerInv
  <2>2. CASE d # c
    BY <1>2, <2>2, ServerHeads DEF PageInv, ServerInv, Heads, NoHead
  <2> QED BY <2>1, <2>2
<1> QED BY <1>4, <1>5, ServerMoves DEF Grow

(* What a poll leaves of each conversation. *)
LEMMA PollTells ==
  ASSUME PageInv, Poll
  PROVE  /\ Listed \subseteq There /\ Listed' = There /\ There \subseteq Conversations
         /\ \A c \in There : data'[c] = server[c]
         /\ lastSeen' \in [Conversations -> Heads]
         /\ \A c \in Conversations : lastSeen'[c] = server[c].head
         /\ activeConvId' \in There \cup {Nobody}
         /\ activeConvId \in Listed /\ activeConvId # Nobody => activeConvId' = activeConvId
         /\ viewed' \in [Conversations -> Heads]
         /\ \A c \in There : viewed'[c] = IF c = activeConvId' \/ c \notin Listed
                                          THEN IF c = activeConvId' \/ viewed[c] = NoHead
                                               THEN server[c].head ELSE viewed[c]
                                          ELSE viewed[c]
<1> USE AppAssumption
<1>1. \A c \in Conversations : /\ server[c].head \in Heads /\ lastSeen[c] \in Heads /\ viewed[c] \in Heads
                               /\ lastSeen[c] <= server[c].head
                               /\ (c \in Listed => data[c].head \in 0 .. MaxHead /\ lastSeen[c] = data[c].head)
                               /\ (c \notin Listed => lastSeen[c] = NoHead)
                               /\ (c \in There => server[c].head \in 0 .. MaxHead)
                               /\ (c \notin There => server[c].head = NoHead)
  BY ServerHeads DEF PageInv, ListInv, ViewedInv, Summaries
<1>2. There \subseteq Conversations
  BY DEF There
<1>3. Listed \subseteq There
  <2> SUFFICES ASSUME NEW c \in Listed PROVE c \in There
    OBVIOUS
  <2>1. c \in Conversations
    BY DEF PageInv, ListInv
  <2>2. server[c].head # NoHead
    BY <1>1, <2>1 DEF Heads, NoHead
  <2> QED BY <1>1, <2>1, <2>2
<1>4. /\ data' = [c \in There |-> server[c]]
      /\ lastSeen' = [c \in Conversations |->
                        IF server[c].head > lastSeen[c] THEN server[c].head ELSE lastSeen[c]]
  BY DEF Poll
<1>5. Listed' = There /\ \A c \in There : data'[c] = server[c]
  BY <1>4 DEF Listed
<1>6. \A c \in Conversations : lastSeen'[c] = server[c].head
  BY <1>1, <1>4 DEF Heads, NoHead
<1>7. lastSeen' \in [Conversations -> Heads]
  BY <1>1, <1>4
<1> DEFINE base == [c \in Conversations |->
                      IF c \in There /\ FirstSight(c, server[c].head) THEN server[c].head
                      ELSE viewed[c]]
<1>8. activeConvId' \in AutoSelect(There) /\ viewed' = MarkViewed(activeConvId', lastSeen', base)
  BY DEF Poll
<1>9. /\ activeConvId' \in There \cup {Nobody}
      /\ activeConvId \in Listed /\ activeConvId # Nobody => activeConvId' = activeConvId
  BY <1>3, <1>8 DEF AutoSelect, PageInv, ListInv
<1>10. base \in [Conversations -> Heads]
  BY <1>1
<1>11. ASSUME NEW c \in Conversations
       PROVE  viewed'[c] = IF c = activeConvId' /\ server[c].head # NoHead THEN server[c].head ELSE base[c]
  BY <1>6, <1>8, <1>11 DEF MarkViewed
<1>12. viewed' \in [Conversations -> Heads]
  <2>1. DOMAIN viewed' = Conversations /\ viewed' = [c \in Conversations |-> viewed'[c]]
    BY <1>8 DEF MarkViewed
  <2> QED BY <1>1, <1>10, <1>11, <2>1
<1>13. ASSUME NEW c \in There
       PROVE  viewed'[c] = IF c = activeConvId' \/ c \notin Listed
                           THEN IF c = activeConvId' \/ viewed[c] = NoHead
                                THEN server[c].head ELSE viewed[c]
                           ELSE viewed[c]
  <2>1. c \in Conversations /\ server[c].head # NoHead
    BY <1>1, <1>2 DEF NoHead
  <2>2. base[c] = IF c \notin Listed /\ viewed[c] = NoHead THEN server[c].head ELSE viewed[c]
    <3>1. FirstSight(c, server[c].head) <=> lastSeen[c] = NoHead /\ viewed[c] = NoHead
      BY DEF FirstSight
    <3>2. c \in Listed => lastSeen[c] # NoHead
      BY <1>1, <2>1 DEF NoHead
    <3>3. c \notin Listed => lastSeen[c] = NoHead
      BY <1>1, <2>1
    <3> QED BY <2>1, <3>1, <3>2, <3>3
  <2> HIDE DEF base
  <2> QED BY <1>11, <2>1, <2>2
<1> HIDE DEF base
<1> QED BY <1>2, <1>3, <1>5, <1>6, <1>7, <1>9, <1>12, <1>13

LEMMA PollStep ==
  ASSUME PageInv, Poll
  PROVE  PageInv'
<1> USE AppAssumption
<1>1. \A c \in There : server[c] \in Summaries /\ server[c].head \in 0 .. MaxHead
  BY ServerHeads, PollTells DEF PageInv
<1>2. UNCHANGED <<server, met, speaking, liveAt, clock, toasts, toastTimers>> /\ listStatus' = "success"
  BY DEF Poll, streamed
<1>3. There' = There
  BY <1>2 DEF There
<1>4. ListInv'
  <2>1. data' \in [There -> Summaries]
    BY <1>1 DEF Poll
  <2>2. advanced' \subseteq There
    <3>1. advanced \subseteq Listed /\ Listed \subseteq There
      BY PollTells DEF PageInv, ListInv
    <3> QED BY <3>1 DEF Poll
  <2>3. ASSUME NEW c \in Conversations
        PROVE  /\ lastSeen'[c] = IF c \in There THEN data'[c].head ELSE NoHead
               /\ lastSeen'[c] <= server[c].head
    <3>1. lastSeen'[c] = server[c].head
      BY PollTells
    <3>2. server[c].head \in Int /\ (c \notin There => server[c].head = NoHead)
      BY ServerHeads DEF PageInv, Heads, NoHead
    <3>3. c \in There => data'[c] = server[c]
      BY PollTells
    <3> QED BY <3>1, <3>2, <3>3
  <2> QED BY <1>2, <2>1, <2>2, <2>3, PollTells DEF ListInv
<1>5. ViewedInv'
  <2>1. ASSUME NEW c \in There PROVE viewed'[c] # NoHead
    <3>1. c \in Listed => viewed[c] # NoHead
      BY DEF PageInv, ViewedInv
    <3>2. server[c].head # NoHead
      BY <1>1 DEF NoHead
    <3> QED BY <3>1, <3>2, PollTells
  <2>2. activeConvId' \in There => viewed'[activeConvId'] = lastSeen'[activeConvId']
    BY PollTells
  <2> QED BY <2>1, <2>2, PollTells DEF ViewedInv
<1>6. ServerInv' /\ FeedInv' /\ ToastsInv'
  BY <1>2 DEF PageInv, ServerInv, FeedInv, ToastsInv
<1> QED BY <1>4, <1>5, <1>6 DEF PageInv

LEMMA SelectStep ==
  ASSUME PageInv, NEW c \in Conversations, Select(c)
  PROVE  PageInv'
<1> USE AppAssumption
<1>1. /\ c \in Listed /\ activeConvId' = c /\ viewed' = MarkViewed(c, lastSeen, viewed)
      /\ met' = {} /\ speaking' = {} /\ liveAt' = 0
      /\ UNCHANGED <<server, data, listStatus, lastSeen, advanced, clock, toasts, toastTimers>>
  BY DEF Select, polled
<1>2. Listed' = Listed
  BY <1>1 DEF Listed
<1>3. ServerInv' /\ ToastsInv'
  BY <1>1 DEF PageInv, ServerInv, ToastsInv
<1>4. ListInv'
  BY <1>1, <1>2 DEF PageInv, ListInv
<1>5. FeedInv'
  BY <1>1 DEF PageInv, FeedInv
<1>6. ViewedInv'
  <2>1. lastSeen[c] # NoHead
    BY <1>1 DEF PageInv, ListInv, Summaries, NoHead
  <2>2. \A d \in Conversations : viewed'[d] = IF d = c THEN lastSeen[d] ELSE viewed[d]
    BY <1>1, <2>1 DEF MarkViewed
  <2>3. viewed' \in [Conversations -> Heads]
    BY <1>1 DEF MarkViewed, PageInv, ListInv, ViewedInv
  <2>4. Listed \subseteq Conversations
    BY DEF PageInv, ListInv
  <2> QED BY <1>1, <1>2, <2>1, <2>2, <2>3, <2>4 DEF PageInv, ViewedInv
<1> QED BY <1>3, <1>4, <1>5, <1>6 DEF PageInv

(* The newest toasts that fit, the new one first. *)
LEMMA NewToastFits ==
  ASSUME ToastsInv, NEW id \in 1 .. MaxClock
  PROVE  WithToast(id) \in UNION {[1 .. n -> 1 .. MaxClock] : n \in 0 .. ToastLimit}
<1> USE AppAssumption
<1> DEFINE all == <<id>> \o toasts
           n == IF Len(all) < ToastLimit THEN Len(all) ELSE ToastLimit
<1>1. PICK k \in 0 .. ToastLimit : toasts \in [1 .. k -> 1 .. MaxClock]
  BY DEF ToastsInv
<1>2. toasts \in Seq(1 .. MaxClock) /\ <<id>> \in Seq(1 .. MaxClock)
  BY <1>1
<1>3. all \in Seq(1 .. MaxClock)
  BY <1>2, ConcatProperties
<1> HIDE DEF all
<1>4. Len(all) \in Nat /\ \A i \in 1 .. Len(all) : all[i] \in 1 .. MaxClock
  BY <1>3
<1>5. n \in 0 .. ToastLimit /\ n <= Len(all)
  BY <1>4
<1> HIDE DEF n
<1>6. SubSeq(all, 1, n) = [i \in 1 .. n |-> all[i]]
  BY <1>4, <1>5
<1>7. [i \in 1 .. n |-> all[i]] \in [1 .. n -> 1 .. MaxClock]
  BY <1>4, <1>5
<1>8. WithToast(id) = SubSeq(all, 1, n)
  BY DEF WithToast, all, n
<1> QED BY <1>5, <1>6, <1>7, <1>8

LEMMA FilteredToastsFit ==
  ASSUME ToastsInv, NEW id, NEW left \in ToastsAt({i \in DOMAIN toasts : toasts[i] # id})
  PROVE  left \in UNION {[1 .. n -> 1 .. MaxClock] : n \in 0 .. ToastLimit}
<1> USE AppAssumption
<1> DEFINE kept == {i \in DOMAIN toasts : toasts[i] # id}
<1>1. PICK k \in 0 .. ToastLimit : toasts \in [1 .. k -> 1 .. MaxClock]
  BY DEF ToastsInv
<1>2. kept \subseteq 1 .. k
  BY <1>1
<1>3. PICK f \in [1 .. Cardinality(kept) -> kept] : left = [i \in DOMAIN f |-> toasts[f[i]]]
  BY DEF ToastsAt
<1> HIDE DEF kept
<1>4. Cardinality(kept) \in 0 .. ToastLimit
  <2>1. IsFiniteSet(1 .. k) /\ Cardinality(1 .. k) = k
    BY <1>1, FS_Interval
  <2>2. IsFiniteSet(kept) /\ Cardinality(kept) <= k
    BY <1>2, <2>1, FS_Subset
  <2>3. Cardinality(kept) \in Nat
    BY <2>2, FS_CardinalityType
  <2> QED BY <2>2, <2>3
<1>5. left \in [1 .. Cardinality(kept) -> 1 .. MaxClock]
  <2>1. \A i \in 1 .. Cardinality(kept) : f[i] \in 1 .. k
    BY <1>2, <1>3
  <2> QED BY <1>1, <1>3, <2>1
<1> QED BY <1>4, <1>5

LEMMA FrameStep ==
  ASSUME PageInv, NEW a \in Agents,
         \/ SpeakerFrame(a)
         \/ \E now \in {clock, clock + 1} \cap 0 .. MaxClock : LiveMembershipFrame(a, now)
  PROVE  PageInv'
<1> USE AppAssumption
<1>1. UNCHANGED <<server, data, listStatus, lastSeen, advanced, activeConvId, viewed>>
  BY DEF SpeakerFrame, LiveMembershipFrame, polled
<1>2. ServerInv' /\ ListInv' /\ ViewedInv'
  BY <1>1 DEF PageInv, ServerInv, ListInv, ViewedInv, Listed
<1>3. CASE SpeakerFrame(a)
  <2>1. /\ met' = met \cup {a} /\ speaking' \subseteq speaking \cup {a}
        /\ UNCHANGED <<liveAt, clock, toasts, toastTimers>>
    BY <1>3 DEF SpeakerFrame
  <2> QED BY <1>2, <2>1 DEF PageInv, FeedInv, ToastsInv
<1>4. ASSUME NEW now \in {clock, clock + 1} \cap 0 .. MaxClock, LiveMembershipFrame(a, now)
      PROVE  PageInv'
  <2>1. /\ clock' = now /\ liveAt' = now /\ met' = met \cup {a} /\ speaking' = speaking
        /\ now \in 1 .. MaxClock
        /\ \/ UNCHANGED <<toasts, toastTimers>>
           \/ toasts' = WithToast(now) /\ toastTimers' = toastTimers \cup {now}
    BY <1>4 DEF LiveMembershipFrame, ArmTimer
  <2>2. ToastsInv'
    BY <2>1, NewToastFits DEF PageInv, ToastsInv
  <2>3. FeedInv'
    <3>1. met' \subseteq Agents /\ speaking' \subseteq met'
      BY <2>1 DEF PageInv, FeedInv
    <3>2. clock' \in 0 .. MaxClock /\ liveAt' \in 0 .. clock'
      BY <2>1
    <3>3. toastTimers' \subseteq 1 .. MaxClock
      BY <2>1 DEF PageInv, FeedInv
    <3> QED BY <3>1, <3>2, <3>3 DEF FeedInv
  <2> QED BY <1>2, <2>2, <2>3 DEF PageInv
<1> QED BY <1>3, <1>4

LEMMA PageStep == PageInv /\ [Next]_vars => PageInv'
<1> SUFFICES ASSUME PageInv, [Next]_vars PROVE PageInv'
  OBVIOUS
<1>1. CASE PollFails
  BY <1>1 DEF PollFails, streamed, PageInv, ServerInv, ListInv, ViewedInv, FeedInv, ToastsInv, Listed
<1>2. ASSUME NEW c \in Conversations, Decay(c) PROVE PageInv'
  BY <1>2 DEF Decay, streamed, PageInv, ServerInv, ListInv, ViewedInv, FeedInv, ToastsInv, Listed
<1>3. ASSUME NEW id \in toastTimers, DismissTimer(id) PROVE PageInv'
  <2>1. /\ UNCHANGED <<server, polled, activeConvId, viewed, met, speaking, liveAt, clock>>
        /\ toastTimers' \subseteq toastTimers
        /\ toasts' \in ToastsAt({i \in DOMAIN toasts : toasts[i] # id})
    BY <1>3 DEF DismissTimer
  <2>2. ToastsInv'
    BY <2>1, FilteredToastsFit DEF PageInv, ToastsInv
  <2> QED BY <2>1, <2>2 DEF polled, PageInv, ServerInv, ListInv, ViewedInv, FeedInv, Listed
<1>4. CASE UNCHANGED vars
  BY <1>4 DEF vars, polled, streamed, PageInv, ServerInv, ListInv, ViewedInv, FeedInv, ToastsInv, Listed
<1> QED BY <1>1, <1>2, <1>3, <1>4, CreateStep, GrowStep, SelectStep, PollStep, FrameStep DEF Next

LEMMA PageStarts == Init => PageInv
<1> USE AppAssumption
<1> SUFFICES ASSUME Init PROVE PageInv
  OBVIOUS
<1>1. DOMAIN data = {} /\ data = [c \in {} |-> server[c]]
  BY DEF Init
<1>2. ListInv
  BY <1>1 DEF Init, ListInv, Listed, Heads, NoHead, NotThere
<1>3. ServerInv /\ ViewedInv /\ FeedInv
  BY <1>1 DEF Init, ServerInv, ViewedInv, FeedInv, Listed, Heads, NoHead
<1>4. ToastsInv
  <2>1. <<>> \in [1 .. 0 -> 1 .. MaxClock]
    OBVIOUS
  <2> QED BY <2>1 DEF Init, ToastsInv
<1> QED BY <1>2, <1>3, <1>4 DEF PageInv

(* Every toast on the screen has its dismiss timer. *)
Timed == \A i \in DOMAIN toasts : toasts[i] \in toastTimers

LEMMA TimedStep == PageInv /\ Timed /\ [Next]_vars => Timed'
<1> SUFFICES ASSUME PageInv, Timed, [Next]_vars PROVE Timed'
  OBVIOUS
<1> USE AppAssumption
<1>1. PICK k \in 0 .. ToastLimit : toasts \in [1 .. k -> 1 .. MaxClock]
  BY DEF PageInv, ToastsInv
<1>2. ASSUME NEW id \in 1 .. MaxClock, toasts' = WithToast(id), toastTimers' = toastTimers \cup {id}
      PROVE  Timed'
  <2> DEFINE all == <<id>> \o toasts
             n == IF Len(all) < ToastLimit THEN Len(all) ELSE ToastLimit
  <2>1. /\ <<id>> \in Seq(1 .. MaxClock) /\ Len(<<id>>) = 1 /\ <<id>>[1] = id
        /\ toasts \in Seq(1 .. MaxClock) /\ Len(toasts) = k /\ DOMAIN toasts = 1 .. k
    BY <1>1
  <2>2. /\ all \in Seq(1 .. MaxClock) /\ Len(all) = k + 1
        /\ \A i \in 1 .. k + 1 : all[i] = IF i <= 1 THEN <<id>>[i] ELSE toasts[i - 1]
    <3>1. /\ all \in Seq(1 .. MaxClock) /\ Len(all) = Len(<<id>>) + Len(toasts)
          /\ \A i \in 1 .. Len(<<id>>) + Len(toasts) :
               all[i] = IF i <= Len(<<id>>) THEN <<id>>[i] ELSE toasts[i - Len(<<id>>)]
      BY <2>1, ConcatProperties
    <3> HIDE DEF all
    <3> QED BY <1>1, <2>1, <3>1
  <2> HIDE DEF all
  <2>3. \A i \in 1 .. k + 1 : all[i] = id \/ all[i] \in toastTimers
    BY <1>1, <2>1, <2>2 DEF Timed
  <2>4. n \in Nat /\ n <= k + 1
    BY <1>1, <2>2
  <2> HIDE DEF n
  <2>5. SubSeq(all, 1, n) = [i \in 1 .. n |-> all[i]]
    BY <2>2, <2>4
  <2>6. toasts' = [i \in 1 .. n |-> all[i]]
    BY <1>2, <2>5 DEF WithToast, all, n
  <2>7. \A i \in 1 .. n : all[i] \in toastTimers'
    BY <1>2, <2>3, <2>4, <1>1
  <2>8. DOMAIN toasts' = 1 .. n /\ \A i \in 1 .. n : toasts'[i] = all[i]
    BY <2>6
  <2> QED BY <2>7, <2>8 DEF Timed
<1>3. ASSUME NEW a \in Agents, NEW now \in {clock, clock + 1} \cap 0 .. MaxClock,
             LiveMembershipFrame(a, now)
      PROVE  Timed'
  <2>1. /\ now \in 1 .. MaxClock
        /\ \/ UNCHANGED <<toasts, toastTimers>>
           \/ toasts' = WithToast(now) /\ toastTimers' = toastTimers \cup {now}
    BY <1>3 DEF LiveMembershipFrame, ArmTimer
  <2>2. CASE UNCHANGED <<toasts, toastTimers>>
    BY <2>2 DEF Timed
  <2> QED BY <1>2, <2>1, <2>2
<1>4. ASSUME NEW id \in toastTimers, DismissTimer(id) PROVE Timed'
  <2> DEFINE kept == {i \in DOMAIN toasts : toasts[i] # id}
  <2>1. PICK f \in [1 .. Cardinality(kept) -> kept] : toasts' = [i \in DOMAIN f |-> toasts[f[i]]]
    BY <1>4 DEF DismissTimer, ToastsAt
  <2>2. toastTimers' = toastTimers \ {id}
    BY <1>4 DEF DismissTimer
  <2>3. \A i \in DOMAIN f : toasts[f[i]] \in toastTimers \ {id}
    BY <2>1 DEF Timed
  <2> HIDE DEF kept
  <2> QED BY <2>1, <2>2, <2>3 DEF Timed
<1>5. ASSUME UNCHANGED <<toasts, toastTimers>> PROVE Timed'
  BY <1>5 DEF Timed
<1>6. \/ UNCHANGED <<toasts, toastTimers>>
      \/ \E a \in Agents : \E now \in {clock, clock + 1} \cap 0 .. MaxClock : LiveMembershipFrame(a, now)
      \/ \E id \in toastTimers : DismissTimer(id)
  BY DEF Next, vars, streamed, Create, Grow, Decay, Select, Poll, PollFails, SpeakerFrame
<1> QED BY <1>3, <1>4, <1>5, <1>6

(***************************************************************************)
(* The theorems.                                                           *)
(***************************************************************************)

(* The page's state has its types, and it knows, marks and shows only what a poll has listed:  *)
(* the three records of a head stay within the heads there are, and the toasts within the limit *)
(* of App.tsx.                                                                                  *)
THEOREM TypeCorrect == Spec => []TypeOK
<1>1. PageInv => TypeOK
  BY DEF PageInv, ServerInv, ListInv, ViewedInv, FeedInv, ToastsInv, TypeOK, Heads
<1> QED BY <1>1, PageStarts, PageStep, PTL DEF Spec

(* Nothing becomes unread that was read before but by a poll that reports an advance of it:    *)
(* not by selecting another conversation, nor by the first selection, nor by a failed poll.    *)
THEOREM OnlyPolledAdvancesFlag == Spec => OnlyAdvanceFlags
<1> DEFINE Flags == \A c \in Unread' \ Unread : lastSeen'[c] > lastSeen[c]
<1> USE AppAssumption
<1>1. PageInv /\ [Next]_vars => [Flags]_vars
  <2> SUFFICES ASSUME PageInv, Next, NEW c \in Unread' \ Unread PROVE lastSeen'[c] > lastSeen[c]
    OBVIOUS
  <2>1. CASE Poll
    <3>1. /\ c \in There /\ c \in Conversations /\ c # activeConvId'
          /\ data'[c].head > IF viewed'[c] = NoHead THEN 0 ELSE viewed'[c]
          /\ data'[c] = server[c] /\ lastSeen'[c] = server[c].head
      BY <2>1, PollTells DEF Unread
    <3>2. server[c].head \in 0 .. MaxHead
      BY <3>1, ServerHeads DEF PageInv
    <3>3. CASE c \notin Listed
      <4>1. lastSeen[c] = NoHead
        BY <3>1, <3>3 DEF PageInv, ListInv
      <4> QED BY <3>1, <3>2, <4>1 DEF NoHead
    <3>4. CASE c \in Listed
      <4>1. viewed'[c] = viewed[c]
        BY <2>1, <3>1, <3>4, PollTells
      <4>2. viewed[c] # NoHead /\ viewed[c] \in Heads
        BY <3>1, <3>4 DEF PageInv, ViewedInv
      <4>3. c = activeConvId => viewed[c] = lastSeen[c]
        BY <3>4 DEF PageInv, ViewedInv
      <4>4. lastSeen[c] = data[c].head /\ data[c].head \in 0 .. MaxHead
        BY <3>1, <3>4 DEF PageInv, ListInv, Summaries
      <4>5. c # activeConvId => ~(data[c].head > viewed[c])
        BY <3>4, <4>2 DEF Unread
      <4> QED BY <3>1, <3>2, <4>1, <4>2, <4>3, <4>4, <4>5 DEF Heads, NoHead
    <3> QED BY <3>3, <3>4
  <2>2. ASSUME NEW d \in Conversations, Select(d) PROVE FALSE
    <3>1. /\ Listed' = Listed /\ data' = data /\ activeConvId' = d /\ d \in Listed
          /\ viewed' = MarkViewed(d, lastSeen, viewed)
      BY <2>2 DEF Select, polled, Listed
    <3>2. c \in Listed /\ c # d /\ c \in Conversations
      BY <3>1 DEF Unread, PageInv, ListInv
    <3>3. viewed'[c] = viewed[c]
      BY <3>1, <3>2 DEF MarkViewed
    <3>4. viewed[c] # NoHead /\ viewed[c] \in Heads /\ data[c].head \in 0 .. MaxHead
      BY <3>2 DEF PageInv, ListInv, ViewedInv, Summaries
    <3>5. data[c].head > viewed[c]
      BY <3>1, <3>3, <3>4 DEF Unread
    <3>6. c = activeConvId
      BY <3>2, <3>4, <3>5 DEF Unread
    <3>7. viewed[c] = data[c].head
      BY <3>2, <3>6 DEF PageInv, ListInv, ViewedInv
    <3> QED BY <3>4, <3>5, <3>7
  <2>3. CASE UNCHANGED <<data, activeConvId, viewed>>
    BY <2>3 DEF Unread, Listed
  <2>4. \/ Poll \/ (\E d \in Conversations : Select(d)) \/ UNCHANGED <<data, activeConvId, viewed>>
    BY DEF Next, Create, Grow, Decay, PollFails, SpeakerFrame, LiveMembershipFrame, DismissTimer, polled
  <2> QED BY <2>1, <2>2, <2>3, <2>4
<1> QED BY <1>1, PageStarts, PageStep, PTL DEF Spec, OnlyAdvanceFlags

(* What ToastGoesAway rests on: a toast on the screen has its dismiss timer, whatever other    *)
(* toasts, selections and frames have come since it was armed.                                 *)
THEOREM ToastsHaveTimers == Spec => []Timed
<1>1. Init => Timed
  BY DEF Init, Timed
<1> QED BY <1>1, PageStarts, PageStep, TimedStep, PTL DEF Spec
==================================================================================
