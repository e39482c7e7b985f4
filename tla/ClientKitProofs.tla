----------------------------- MODULE ClientKitProofs -----------------------------
(***************************************************************************)
(* Proofs about the parts of ClientKit, one section for each: any number   *)
(* of tabs, users, slides, mockups, loads and fields.                      *)
(***************************************************************************)
EXTENDS ClientKit, ConversationFeedProofs

(***************************************************************************)
(* The feed                                                                *)
(***************************************************************************)
LEMMA FeedMove == [Next]_vars => FeedNext \/ UNCHANGED feedVars
<1> SUFFICES ASSUME [Next]_vars PROVE FeedNext \/ UNCHANGED feedVars
  OBVIOUS
<1>1. FeedPart \/ UNCHANGED feedVars
  BY DEF Next, vars, TransientsPart, IdentityPart, FetchPart, ScrollingPart, PreviewsPart, ToastsPart,
         SidebarPart, CarouselPart, ChartsPart, FormsPart
<1> QED BY <1>1 DEF FeedPart

(* The stream and the page cover records of a log in which no text comes before its message. *)
FeedInv ==
  /\ feedLog \in Seq(Events) /\ InOrderOnLog(feedLog)
  /\ feedLive \in 0 .. Len(feedLog) /\ feedPage \in 0 .. Len(feedLog)

LEMMA FeedStep == FeedInv /\ [Next]_vars => FeedInv'
<1> SUFFICES ASSUME FeedInv, FeedNext PROVE FeedInv'
  BY FeedMove DEF FeedInv, feedVars
<1>1. PICK N \in Nat : N = Len(feedLog)
  BY LenProperties DEF FeedInv
<1>2. ASSUME NEW e \in Events, FeedWrite(e) PROVE FeedInv'
  <2>1. PICK log : log = Append(feedLog, e) /\ log = feedLog'
    BY <1>2 DEF FeedWrite
  <2>2. log \in Seq(Events) /\ Len(log) = N + 1 /\ log[N + 1] = e /\ \A i \in 1 .. N : log[i] = feedLog[i]
    <3>1. feedLog \in Seq(Events)
      BY DEF FeedInv
    <3>2. /\ Append(feedLog, e) \in Seq(Events) /\ Len(Append(feedLog, e)) = Len(feedLog) + 1
          /\ Append(feedLog, e)[Len(feedLog) + 1] = e
          /\ \A i \in 1 .. Len(feedLog) : Append(feedLog, e)[i] = feedLog[i]
      BY <3>1, AppendProperties
    <3> QED BY <1>1, <2>1, <3>2
  <2>3. ASSUME NEW s \in 0 .. N PROVE Started(log, s) = Started(feedLog, s)
    <3>1. s \in Nat /\ \A i \in 1 .. s : log[i] = feedLog[i]
      BY <1>1, <2>2
    <3> QED BY <3>1, TellsSame
  <2>4. ASSUME NEW s \in 0 .. N, log[s + 1].event \in {"message_append", "message_end"}
        PROVE  log[s + 1].message_id \in Started(log, s)
    <3>1. CASE s = N
      BY <1>1, <1>2, <2>2, <2>3, <2>4, <3>1 DEF FeedWrite
    <3>2. CASE s # N
      <4>1. s \in 0 .. N - 1 /\ log[s + 1] = feedLog[s + 1]
        BY <1>1, <2>2, <3>2
      <4> QED BY <1>1, <2>3, <2>4, <4>1 DEF FeedInv, InOrderOnLog
    <3> QED BY <3>1, <3>2
  <2>5. InOrderOnLog(log)
    <3>1. 0 .. Len(log) - 1 = 0 .. N
      BY <1>1, <2>2
    <3> QED BY <2>4, <3>1 DEF InOrderOnLog
  <2>6. feedLive' = feedLive /\ feedPage' = feedPage
    BY <1>2 DEF FeedWrite
  <2>7. feedLive \in 0 .. N + 1 /\ feedPage \in 0 .. N + 1
    BY <1>1 DEF FeedInv
  <2> QED BY <2>1, <2>2, <2>5, <2>6, <2>7 DEF FeedInv
<1>3. CASE FeedDeliver
  BY <1>1, <1>3 DEF FeedDeliver, FeedInv
<1>4. CASE FeedRestart
  BY <1>1, <1>4 DEF FeedRestart, FeedInv
<1>5. ASSUME NEW n, NEW upper, FeedPageLoads(n, upper) PROVE FeedInv'
  <2>1. n \in 0 .. N
    BY <1>1, <1>5 DEF FeedPageLoads, FeedInv
  <2> QED BY <1>1, <1>5, <2>1 DEF FeedPageLoads, FeedInv
<1> QED BY <1>2, <1>3, <1>4, <1>5 DEF FeedNext

(* The messages and the system events of the feed. *)
LEMMA FeedMerges ==
  ASSUME FeedInv
  PROVE  LET shown == {Feed[i].item : i \in {j \in DOMAIN Feed : Feed[j]._kind = "message"}}
             page == HistoryPage(SubSeq(feedLog, 1, feedPage), feedUpper)
             live == MessagesIn(feedLog, feedLive, Shown)
         IN /\ \E V : Feed \in Seq(V)
            /\ \A i, j \in DOMAIN Feed : i < j => Feed[i].seq < Feed[j].seq
            /\ live \subseteq shown
            /\ \A m, n \in shown : m.id = n.id => m = n
            /\ {m.id : m \in shown} = Started(feedLog, feedLive) \cup {h.message_id : h \in page}
            /\ feedPage <= feedLive => shown = live
            /\ {Feed[i].item : i \in DOMAIN Feed} \ shown = SystemEventsIn(feedLog, feedLive)
<1>1. PICK l, N, k, n : l = feedLog /\ N = Len(feedLog) /\ k = feedPage /\ n = feedLive
  OBVIOUS
<1>2. l \in Seq(Events) /\ InOrderOnLog(l) /\ N = Len(l) /\ N \in Nat
      /\ k \in 0 .. N /\ n \in 0 .. N /\ k \in Nat /\ n \in Nat /\ k <= N /\ n <= N
  BY <1>1, LenProperties DEF FeedInv
<1>3. PICK page : page = PageOf(l, k, feedUpper)
  OBVIOUS
<1>4. PICK H : H = {ToUIMessage(h, Shown) : h \in page}
  OBVIOUS
<1>5. /\ Numbered(H, k) /\ \A x \in H : Begun(x, l, k)
      /\ {x.id : x \in H} = {h.message_id : h \in page}
      /\ UseMessagesOf(l, k, feedUpper, Shown) = SortBySeq(H)
  BY <1>2, <1>3, <1>4, PageRows
<1>6. PICK M, E, maps : /\ M = MessagesIn(l, n, Shown) /\ E = SystemEventsIn(l, n)
                        /\ maps = LiveMaps(l, n, Shown)
  OBVIOUS
<1>7. Tells(maps.messages, l, n, Shown) /\ TellsSystem(maps.systemEvents, l, n)
  BY <1>2, <1>6, LiveMapsTell
<1>8. /\ ValuesOf(maps.messages) = M /\ Numbered(M, n) /\ \A x \in M : Begun(x, l, n)
      /\ \A x, y \in M : x.id = y.id => x = y
      /\ {x.id : x \in M} = Started(l, n)
  BY <1>2, <1>6, <1>7, TellsValues
<1>9. /\ ValuesOf(maps.systemEvents) = E /\ Numbered(E, n)
      /\ \A x \in E : l[x.seq + 1].event \in MembershipEvents
  BY <1>2, <1>6, <1>7, TellsSystemValues
<1>10. LiveMessages = SortBySeq(M) /\ LiveSystemEvents = SortBySeq(E)
  BY <1>1, <1>6, <1>8, <1>9 DEF LiveMessages, LiveSystemEvents, Flush
<1>11. Feed = BuildFeed(SortBySeq(H), SortBySeq(M), SortBySeq(E))
  BY <1>1, <1>5, <1>10 DEF Feed, UseMessagesOf
<1>12. \A j \in Nat : \A S : j <= N /\ Numbered(S, j) => Numbered(S, N)
  BY <1>2 DEF Numbered
<1>13. ASSUME NEW i \in Nat, NEW j \in Nat, i <= j, NEW x, Begun(x, l, i) PROVE Begun(x, l, j)
  <2>1. SeqsOf(l, i, x.id, "message_start") \subseteq SeqsOf(l, j, x.id, "message_start")
    BY <1>13, BegunLonger
  <2> QED BY <1>13, <2>1 DEF Begun
<1>14. InPlace(l, N, H, M, E) /\ Numbered(H, N) /\ Numbered(M, N) /\ OneEach(M)
  BY <1>2, <1>5, <1>8, <1>9, <1>12, <1>13 DEF OneEach, InPlace
<1>15. PICK W, T : W = Merged(H, M) /\ T = Tagged(W, E)
  OBVIOUS
<1>16. PICK shown : shown = {Feed[i].item : i \in {j \in DOMAIN Feed : Feed[j]._kind = "message"}}
  OBVIOUS
<1>17. /\ Feed \in Seq(T)
       /\ \A i, j \in DOMAIN Feed : i < j => Feed[i].seq < Feed[j].seq
       /\ shown = W
       /\ {Feed[i].item : i \in DOMAIN Feed} \ shown = E
  <2>1. FeedHas(Feed, W, E)
    BY <1>2, <1>11, <1>14, <1>15, FeedHasAll
  <2> QED BY <1>15, <1>16, <2>1 DEF FeedHas
<1>18. /\ M \subseteq shown
       /\ \A x \in shown : x \in M \/ (x \in H /\ \A y \in M : y.id # x.id)
       /\ \A x, y \in shown : x.id = y.id => x = y
       /\ {x.id : x \in shown} = {x.id : x \in M} \cup {x.id : x \in H}
  <2>1. /\ M \subseteq Merged(H, M)
        /\ \A x \in Merged(H, M) : x \in M \/ (x \in H /\ \A y \in M : y.id # x.id)
        /\ OneEach(Merged(H, M))
        /\ {x.id : x \in Merged(H, M)} = {x.id : x \in M} \cup {x.id : x \in H}
    BY <1>2, <1>14, MergedRows
  <2> QED BY <1>15, <1>17, <2>1 DEF OneEach
<1>19. ASSUME k <= n PROVE shown = M
  <2> SUFFICES ASSUME NEW x \in H PROVE \E y \in M : y.id = x.id
    BY <1>18
  <2>1. Begun(x, l, n)
    BY <1>2, <1>5, <1>13, <1>19
  <2>2. x.id \in Started(l, n)
    BY <2>1 DEF Begun, Started
  <2> QED BY <1>8, <2>2
<1> QED BY <1>1, <1>3, <1>5, <1>6, <1>8, <1>16, <1>17, <1>18, <1>19 DEF PageOf

LEMMA FeedKept == FeedInv => FeedIsMerged
<1> SUFFICES ASSUME FeedInv PROVE FeedIsMerged
  OBVIOUS
<1>1. PICK V : Feed \in Seq(V)
  BY FeedMerges
<1> DEFINE items == [i \in DOMAIN Feed |-> Feed[i].item]
<1>2. ASSUME NEW agents
      PROVE  /\ FlattenSeq([i \in DOMAIN Blocks(agents) |-> Blocks(agents)[i].items]) = items
             /\ \A i \in DOMAIN Blocks(agents) : \A x \in ToSet(Blocks(agents)[i].items) :
                  x.agentId = Blocks(agents)[i].agentId
             /\ \A i \in DOMAIN Blocks(agents) :
                  \E j \in DOMAIN Feed : Blocks(agents)[i].agentId = Feed[j].item.agentId
             /\ Apart(Blocks(agents), agents)
  BY <1>1, GroupFeedCuts DEF Blocks
<1>3. ASSUME NEW members,
             NEW i \in DOMAIN Blocks(AgentsOfFeed(members)),
             Blocks(AgentsOfFeed(members))[i].agentId # NoAgent
      PROVE  LET agents == AgentsOfFeed(members)
                 b == Blocks(agents)[i]
             IN /\ b.agentId \in agents
                /\ SystemLineName(b, agents) = b.agentId /\ MessageGroupName(b, agents) = b.agentId
                /\ i > 1 /\ b.kind = "messages"
                     => <<Blocks(agents)[i - 1].kind, Blocks(agents)[i - 1].agentId>> # <<"messages", b.agentId>>
  <2>1. PICK agents, blocks : agents = AgentsOfFeed(members) /\ blocks = Blocks(agents)
    OBVIOUS
  <2>2. blocks[i].agentId \in agents
    <3>1. \E j \in DOMAIN Feed : blocks[i].agentId = Feed[j].item.agentId
      BY <1>2, <1>3, <2>1
    <3> QED BY <1>3, <2>1, <3>1 DEF AgentsOfFeed
  <2>3. Apart(blocks, agents) /\ i \in DOMAIN blocks
    BY <1>2, <1>3, <2>1
  <2>4. i > 1 /\ blocks[i].kind = "messages"
          => <<blocks[i - 1].kind, blocks[i - 1].agentId>> # <<"messages", blocks[i].agentId>>
    BY <2>2, <2>3 DEF Apart
  <2> QED BY <2>1, <2>2, <2>4 DEF SystemLineName, MessageGroupName
<1> HIDE DEF items
<1>4. \A known \in SUBSET Agents :
        LET blocks == Blocks(known)
        IN /\ FlattenSeq([i \in DOMAIN blocks |-> blocks[i].items]) = [i \in DOMAIN Feed |-> Feed[i].item]
           /\ \A i \in DOMAIN blocks : \A x \in ToSet(blocks[i].items) : x.agentId = blocks[i].agentId
  BY <1>2 DEF items
<1>5. \A members \in SUBSET Agents :
        LET agents == AgentsOfFeed(members)
            blocks == Blocks(agents)
            name(b) == IF b.kind = "system" THEN SystemLineName(b, agents)
                       ELSE MessageGroupName(b, agents)
        IN \A i \in DOMAIN blocks :
             /\ blocks[i].agentId # NoAgent => name(blocks[i]) = blocks[i].agentId
             /\ i > 1 /\ blocks[i].kind = "messages" /\ blocks[i].agentId # NoAgent
                  => <<blocks[i - 1].kind, blocks[i - 1].agentId>> # <<"messages", blocks[i].agentId>>
  BY <1>3
<1> QED BY <1>4, <1>5, FeedMerges DEF FeedIsMerged

(* Whatever the log, however far the stream and the page have come, and however the stream has  *)
(* been started over: the feed is the log's messages, each once, in the order of the log, and   *)
(* its blocks are the feed cut where the sender changes.                                        *)
THEOREM FeedMergesLog == Spec => []FeedIsMerged
<1>1. Init => FeedInv
  <2> SUFFICES ASSUME Init PROVE FeedInv
    OBVIOUS
  <2>1. feedLog = <<>> /\ feedLive = 0 /\ feedPage = 0
    BY DEF Init, FeedInit
  <2>2. feedLog \in Seq(Events) /\ Len(feedLog) = 0 /\ 0 .. 0 - 1 = {}
    BY <2>1
  <2> QED BY <2>1, <2>2 DEF FeedInv, InOrderOnLog
<1> QED BY <1>1, FeedStep, FeedKept, PTL DEF Spec

(***************************************************************************)
(* Transients                                                              *)
(***************************************************************************)

(* A part moves, or its variables stay as they are. *)
LEMMA TransientsMove == [Next]_vars => TransientsNext \/ UNCHANGED transientVars
<1> SUFFICES ASSUME [Next]_vars PROVE TransientsNext \/ UNCHANGED transientVars
  OBVIOUS
<1>1. TransientsPart \/ UNCHANGED transientVars
  BY DEF Next, vars, FeedPart, IdentityPart, FetchPart, ScrollingPart, PreviewsPart, ToastsPart,
         SidebarPart, CarouselPart, ChartsPart, FormsPart
<1> QED BY <1>1 DEF TransientsPart

(* Fading, flashing apart, is what a timer ends; the pending copies are counted. *)
TransientsInv ==
  /\ streaming \in BOOLEAN /\ copyTimers \in Nat
  /\ fading /\ ~streaming => fadeTimer
  /\ copied => copyTimers > 0

LEMMA TransientsStep == TransientsInv /\ [Next]_vars => TransientsInv'
<1> SUFFICES ASSUME TransientsInv, TransientsNext PROVE TransientsInv'
  BY TransientsMove DEF TransientsInv, transientVars, flashVars, caretVars, copyVars
<1> USE DEF TransientsInv, flashVars, caretVars, copyVars
<1>1. ASSUME NEW value, IncrementFlash(value) PROVE TransientsInv'
  BY <1>1 DEF IncrementFlash
<1>2. CASE FlashEnds
  BY <1>2 DEF FlashEnds
<1>3. ASSUME NEW now \in BOOLEAN, NEW text, MessageUpdate(now, text) PROVE TransientsInv'
  <2>1. CASE now = streaming
    BY <1>3, <2>1 DEF MessageUpdate, CaretEffect
  <2>2. CASE now # streaming
    <3>1. streaming' = now /\ fadeTimer' = ~now /\ copied' = copied /\ copyTimers' = copyTimers
      BY <1>3, <2>2 DEF MessageUpdate, CaretEffect
    <3> QED BY <3>1
  <2> QED BY <2>1, <2>2
<1>4. CASE FadeEnds
  BY <1>4 DEF FadeEnds
<1>5. CASE HandleCopy
  BY <1>5 DEF HandleCopy
<1>6. CASE CopyEnds
  BY <1>6 DEF CopyEnds
<1> QED BY <1>1, <1>2, <1>3, <1>4, <1>5, <1>6 DEF TransientsNext

(* However often a message is updated, ends and streams again, and however often it is copied: *)
(* a caret without a stream and the "copied" mark have a timer that takes them back.            *)
THEOREM TransientsHaveTimers == Spec => []TransientsTimed
<1>1. Init => TransientsInv
  BY DEF Init, TransientsInit, TransientsInv
<1>2. TransientsInv => TransientsTimed
  BY DEF TransientsInv, TransientsTimed, ShowCaret
<1> QED BY <1>1, <1>2, TransientsStep, PTL DEF Spec

(***************************************************************************)
(* Identity                                                                *)
(***************************************************************************)

LEMMA IdentityMove == [Next]_vars => IdentityNext \/ UNCHANGED identityVars
<1> SUFFICES ASSUME [Next]_vars PROVE IdentityNext \/ UNCHANGED identityVars
  OBVIOUS
<1>1. IdentityPart \/ UNCHANGED identityVars
  BY DEF Next, vars, FeedPart, TransientsPart, FetchPart, ScrollingPart, PreviewsPart, ToastsPart,
         SidebarPart, CarouselPart, ChartsPart, FormsPart
<1> QED BY <1>1 DEF IdentityPart

(* The requests have their fields. *)
Outs == {"none", "no_agent_id", "network_error", "code_of_envelope", "code_of_status", "undefined",
         "syntax_error", "value"}
IdentityInv ==
  /\ registered \in Nat
  /\ boot \in [Tabs -> {"start", "posting", "done", "failed"}]
  /\ call \in [Tabs -> [at : {"idle", "sent", "done"}, id : Nat, out : Outs,
                        res : {"none", "lost"} \cup Statuses]]
  /\ RequestsSound

(* The id that a request may carry has been handed out. *)
LEMMA StoredIsKnown == IdentityInv => GetAgentId \in 0 .. registered
  BY DEF IdentityInv, RequestsSound, GetAgentId, NoId

LEMMA IdentityStep == IdentityInv /\ [Next]_vars => IdentityInv'
<1> SUFFICES ASSUME IdentityInv, IdentityNext PROVE IdentityInv'
  BY IdentityMove DEF IdentityInv, RequestsSound, identityVars
<1> DEFINE Calls == [at : {"idle", "sent", "done"}, id : Nat, out : Outs, res : {"none", "lost"} \cup Statuses]
           Sound(k) == k.id \in 0 .. registered /\ (k.res = "refused" => k.out \in {"code_of_envelope", "code_of_status"})
<1>1. /\ registered \in Nat /\ boot \in [Tabs -> {"start", "posting", "done", "failed"}]
      /\ call \in [Tabs -> Calls] /\ storedId \in 0 .. registered /\ \A t \in Tabs : Sound(call[t])
  BY DEF IdentityInv, RequestsSound, NoId
<1>2. ASSUME NEW t \in Tabs, NEW k \in Calls, Sound(k), call' = [call EXCEPT ![t] = k],
             UNCHANGED <<storedId, registered>>, boot' \in [Tabs -> {"start", "posting", "done", "failed"}]
      PROVE  IdentityInv'
  BY <1>1, <1>2 DEF IdentityInv, RequestsSound, NoId
<1>3. ASSUME registered' \in Nat, registered <= registered', storedId' \in 0 .. registered', UNCHANGED call,
             boot' \in [Tabs -> {"start", "posting", "done", "failed"}]
      PROVE  IdentityInv'
  <2>1. \A t \in Tabs : call[t].id \in 0 .. registered'
    BY <1>1, <1>3
  <2> QED BY <1>1, <1>3, <2>1 DEF IdentityInv, RequestsSound, NoId
<1>4. ASSUME NEW t \in Tabs, Bootstrap(t) PROVE IdentityInv'
  <2>1. registered' = registered /\ storedId' = storedId /\ call' = call
        /\ boot' \in [Tabs -> {"start", "posting", "done", "failed"}]
    BY <1>1, <1>4 DEF Bootstrap
  <2> QED BY <1>1, <1>3, <2>1
<1>5. ASSUME NEW t \in Tabs, BootAnswer(t) PROVE IdentityInv'
  <2>1. /\ registered' \in {registered, registered + 1} /\ call' = call
        /\ storedId' \in {storedId, registered'}
        /\ \E b \in {"done", "failed"} : boot' = [boot EXCEPT ![t] = b]
    BY <1>5, <1>1 DEF BootAnswer, BootBody, SetAgentId, NoId
  <2> QED BY <1>1, <1>3, <2>1
<1>6. ASSUME NEW t \in Tabs, Reload(t) PROVE IdentityInv'
  <2>1. Idle \in Calls /\ Sound(Idle)
    BY <1>1 DEF Idle, NoId, Outs
  <2>2. boot' \in [Tabs -> {"start", "posting", "done", "failed"}]
    BY <1>1, <1>6 DEF Reload
  <2> QED BY <1>2, <1>6, <2>1, <2>2 DEF Reload
<1>7. ASSUME NEW t \in Tabs, NEW e \in Endpoints, Request(t, e) PROVE IdentityInv'
  <2>1. PICK k : /\ call' = [call EXCEPT ![t] = k]
                 /\ \/ k = [Idle EXCEPT !.at = "sent"]
                    \/ k = [Idle EXCEPT !.at = "done", !.out = "no_agent_id"]
                    \/ k = [Idle EXCEPT !.at = "sent", !.id = GetAgentId]
    BY <1>7 DEF Request
  <2>2. /\ Idle.id = 0 /\ Idle.res = "none" /\ Idle \in Calls
        /\ GetAgentId \in 0 .. registered /\ GetAgentId \in Nat /\ "no_agent_id" \in Outs
    BY <1>1, StoredIsKnown DEF Idle, NoId, Outs
  <2>3. k \in Calls /\ k.res = "none" /\ k.id \in {0, GetAgentId}
    BY <2>1, <2>2
  <2>4. Sound(k)
    BY <1>1, <2>2, <2>3
  <2> QED BY <1>1, <1>2, <1>7, <2>1, <2>3, <2>4 DEF Request
<1>8. ASSUME NEW t \in Tabs, Answer(t) PROVE IdentityInv'
  <2>1. PICK status \in Statuses \cup {"lost"}, out \in Outs :
             /\ call' = [call EXCEPT ![t].at = "done", ![t].res = status, ![t].out = out]
             /\ status = "refused" => out \in {"code_of_envelope", "code_of_status"}
    <3>1. ASSUME NEW status \in Statuses, NEW body \in Bodies
          PROVE  /\ Outcome(status, body) \in Outs
                 /\ status = "refused" => Outcome(status, body) \in {"code_of_envelope", "code_of_status"}
      BY DEF Outcome, Statuses, Bodies, Outs
    <3>2. "network_error" \in Outs /\ "lost" # "refused"
      BY DEF Outs
    <3> QED BY <1>8, <3>1, <3>2 DEF Answer
  <2> DEFINE k == [call[t] EXCEPT !.at = "done", !.res = status, !.out = out]
  <2>2. k \in Calls /\ Sound(k)
    BY <1>1, <2>1
  <2>3. call' = [call EXCEPT ![t] = k]
    BY <2>1
  <2> QED BY <1>1, <1>2, <1>8, <2>2, <2>3 DEF Answer
<1> QED BY <1>4, <1>5, <1>6, <1>7, <1>8 DEF IdentityNext

(* Every id that a tab stores or sends has been handed out by the server, and a refusal has a *)
(* code, whatever the tabs, the store and the connection do in between.                       *)
THEOREM OnlyKnownIds == Spec => []RequestsSound
<1>1. Init => IdentityInv
  BY DEF Init, IdentityInit, IdentityInv, RequestsSound, Idle, NoId, Outs
<1>2. IdentityInv => RequestsSound
  BY DEF IdentityInv
<1> QED BY <1>1, <1>2, IdentityStep, PTL DEF Spec

(***************************************************************************)
(* CustomFetch                                                             *)
(***************************************************************************)

LEMMA FetchMove == [Next]_vars => FetchNext \/ UNCHANGED fetchVars
<1> SUFFICES ASSUME [Next]_vars PROVE FetchNext \/ UNCHANGED fetchVars
  OBVIOUS
<1>1. FetchPart \/ UNCHANGED fetchVars
  BY DEF Next, vars, FeedPart, TransientsPart, IdentityPart, ScrollingPart, PreviewsPart, ToastsPart,
         SidebarPart, CarouselPart, ChartsPart, FormsPart
<1> QED BY <1>1 DEF FetchPart

(* A call on its way: what it sends was fixed when it was made. *)
OnItsWay(k) ==
  /\ k.base = IF k.relative THEN k.asked[1] ELSE Null
  /\ IF k.given THEN k.authorization = "own" /\ k.at = "fetch"
     ELSE k.authorization \in {Null, k.asked[2]}
Ended(k) ==
  /\ ~k.ok /\ k.legible => k.out = "ApiError"
  /\ k.ok => k.out # "ApiError"
Sent == [at : {"token", "fetch"}, base : Bases \cup {Null}, relative : BOOLEAN,
         method : {"GET", "HEAD", "POST"}, responseType : {"json", "text", "blob", "auto"},
         authorization : {"own", Null} \cup Getters, given : BOOLEAN,
         asked : (Bases \cup {Null}) \X (Getters \cup {Null})]
FetchInv ==
  /\ baseUrl \in Bases \cup {Null} /\ getter \in Getters \cup {Null}
  /\ \/ fetching.at = "idle"
     \/ fetching \in Sent /\ OnItsWay(fetching)
     \/ fetching.at = "settled" /\ Ended(fetching)

(* A refusal that can be read to its end is an ApiError. *)
LEMMA RefusalIsApiError ==
  ASSUME NEW r \in Responses, NEW method, r.text # "cut" \/ HasNoBody(r, method)
  PROVE  ParseErrorBody(r, method).out = "ApiError"
<1>1. HasNoBody(r, method) \in BOOLEAN
  BY DEF HasNoBody, Responses
<1>2. CASE HasNoBody(r, method)
  BY <1>2 DEF ParseErrorBody, ApiError
<1>3. CASE ~HasNoBody(r, method) /\ r.text # "cut"
  BY <1>3 DEF ParseErrorBody, ApiError
<1> QED BY <1>1, <1>2, <1>3

(* What is made of a success is a value or an error of its own. *)
LEMMA SuccessIsNoApiError ==
  ASSUME NEW r \in Responses, NEW method, NEW responseType \in {"json", "text", "blob", "auto"}
  PROVE  ParseSuccessBody(r, method, responseType).out # "ApiError"
<1>1. \A x : Value(x).out = "value" /\ \A e : Failed(e).out = e
  BY DEF Value, Failed
<1>2. r.text \in {"blank", "object", "broken", "plain", "cut"} /\ r.media \in {"none", "json", "text", "other"}
  BY DEF Responses
<1>3. ParseJsonBody(r).out # "ApiError"
  BY <1>1, <1>2 DEF ParseJsonBody
<1>4. InferResponseType(r) \in {"json", "text", "blob"}
  BY <1>2 DEF InferResponseType
<1>5. PICK type \in {"json", "text", "blob"} :
        type = IF responseType = "auto" THEN InferResponseType(r) ELSE responseType
  BY <1>4
<1>6. ParseSuccessBody(r, method, responseType) =
        IF HasNoBody(r, method) THEN Value(Null)
        ELSE CASE type = "json" -> ParseJsonBody(r)
               [] type = "text" -> IF r.text = "cut" THEN Failed("TypeError")
                                   ELSE Value(IF r.text = "blank" THEN Null ELSE "raw")
               [] type = "blob" -> IF ~r.blob \/ r.text = "cut" THEN Failed("TypeError")
                                   ELSE Value("blob")
  BY <1>5 DEF ParseSuccessBody
<1>7. CASE type = "json"
  BY <1>1, <1>3, <1>6, <1>7
<1>8. CASE type = "text"
  BY <1>1, <1>6, <1>8
<1>9. CASE type = "blob"
  BY <1>1, <1>6, <1>9
<1> QED BY <1>5, <1>7, <1>8, <1>9

LEMMA FetchStep == FetchInv /\ [Next]_vars => FetchInv'
<1> SUFFICES ASSUME FetchInv, FetchNext PROVE FetchInv'
  BY FetchMove DEF FetchInv, OnItsWay, Ended, fetchVars
<1>1. /\ baseUrl \in Bases \cup {Null} /\ getter \in Getters \cup {Null}
      /\ \/ fetching.at = "idle"
         \/ fetching \in Sent /\ OnItsWay(fetching)
         \/ fetching.at = "settled" /\ Ended(fetching)
  BY DEF FetchInv
<1>2. fetching.at \in {"token", "fetch"} => fetching \in Sent /\ OnItsWay(fetching)
  BY <1>1
<1>3. ASSUME baseUrl' \in Bases \cup {Null}, getter' \in Getters \cup {Null}, UNCHANGED fetching
      PROVE  FetchInv'
  BY <1>1, <1>3 DEF FetchInv, OnItsWay, Ended
<1>4. ASSUME NEW k, k \in Sent /\ OnItsWay(k), fetching' = k, UNCHANGED <<baseUrl, getter>> PROVE FetchInv'
  BY <1>1, <1>4 DEF FetchInv, OnItsWay
<1>5. ASSUME NEW ok \in BOOLEAN, NEW legible \in BOOLEAN, NEW end, fetching' = Settled(ok, legible, end),
             ~ok /\ legible => end.out = "ApiError", ok => end.out # "ApiError",
             UNCHANGED <<baseUrl, getter>>
      PROVE  FetchInv'
  <2>1. /\ Settled(ok, legible, end).at = "settled" /\ Settled(ok, legible, end).ok = ok
        /\ Settled(ok, legible, end).legible = legible /\ Settled(ok, legible, end).out = end.out
    BY DEF Settled
  <2>2. fetching'.at = "settled" /\ Ended(fetching)'
    BY <1>5, <2>1 DEF Ended
  <2> QED BY <1>1, <1>5, <2>2 DEF FetchInv
<1>6. \A x : [out |-> "TypeError", data |-> x].out # "ApiError" /\ [out |-> "GetterError", data |-> x].out # "ApiError"
  OBVIOUS
<1>7. ASSUME NEW input \in Inputs, NEW opts \in Options, NEW own \in {"GET", "POST"},
             CustomFetch(input, opts, own)
      PROVE  FetchInv'
  <2> DEFINE method == ResolveMethod(input, opts, own)
             ask == AsksGetter(opts)
             k == [at |-> IF ask THEN "token" ELSE "fetch", base |-> ApplyBaseUrl(input),
                   relative |-> input.relative, method |-> method, responseType |-> opts.responseType,
                   authorization |-> MergeHeaders(opts), given |-> opts.authorization,
                   asked |-> <<baseUrl, IF ask THEN getter ELSE Null>>]
  <2>1. UNCHANGED <<baseUrl, getter>>
    BY <1>7 DEF CustomFetch
  <2>2. CASE opts.body /\ method \in {"GET", "HEAD"}
    <3>1. fetching' = Settled(TRUE, TRUE, [out |-> "TypeError", data |-> Null])
      BY <1>7, <2>2 DEF CustomFetch
    <3> QED BY <1>5, <1>6, <2>1, <3>1
  <2>3. CASE ~(opts.body /\ method \in {"GET", "HEAD"})
    <3>1. fetching' = k
      BY <1>7, <2>3 DEF CustomFetch
    <3>2. input.relative \in BOOLEAN
      <4>1. CASE \E r \in BOOLEAN : input = [kind |-> "string", relative |-> r]
        BY <4>1
      <4>2. CASE \E kind \in {"url", "request"} : input = [kind |-> kind, relative |-> FALSE]
        BY <4>2
      <4> QED BY <4>1, <4>2 DEF Inputs
    <3>3. method \in {"GET", "HEAD", "POST"} /\ opts.responseType \in {"json", "text", "blob", "auto"}
      BY DEF Options, ResolveMethod
    <3>4. /\ ApplyBaseUrl(input) \in Bases \cup {Null}
          /\ ApplyBaseUrl(input) = IF input.relative THEN baseUrl ELSE Null
      BY <1>1, <3>2 DEF ApplyBaseUrl
    <3>5. /\ opts.authorization \in BOOLEAN /\ MergeHeaders(opts) \in {"own", Null}
          /\ opts.authorization => MergeHeaders(opts) = "own" /\ ~ask
          /\ ~opts.authorization => MergeHeaders(opts) = Null
      BY DEF MergeHeaders, AsksGetter, Options, Null
    <3>6. k \in Sent
      BY <1>1, <3>2, <3>3, <3>4, <3>5 DEF Sent
    <3>7. OnItsWay(k)
      BY <3>4, <3>5 DEF OnItsWay
    <3> QED BY <1>4, <2>1, <3>1, <3>6, <3>7
  <2> QED BY <2>2, <2>3
<1>8. CASE TokenArrives
  <2>1. fetching \in Sent /\ OnItsWay(fetching) /\ UNCHANGED <<baseUrl, getter>>
    BY <1>2, <1>8 DEF TokenArrives
  <2>6. fetching.at = "token" /\ ~fetching.given
    BY <1>8, <2>1 DEF TokenArrives, OnItsWay
  <2>2. ASSUME NEW a \in {fetching.authorization, fetching.asked[2]},
               fetching' = [fetching EXCEPT !.at = "fetch", !.authorization = a]
        PROVE  FetchInv'
    <3>1. fetching' \in Sent
      BY <2>1, <2>2 DEF Sent
    <3>2. OnItsWay(fetching')
      BY <2>1, <2>2, <2>6 DEF OnItsWay, Sent
    <3> QED BY <1>4, <2>1, <3>1, <3>2
  <2>3. CASE fetching' = [fetching EXCEPT !.at = "fetch", !.authorization = fetching.asked[2]]
    BY <2>2, <2>3
  <2>4. CASE fetching' = [fetching EXCEPT !.at = "fetch"]
    <3>1. fetching' = [fetching EXCEPT !.at = "fetch", !.authorization = fetching.authorization]
      BY <2>1, <2>4 DEF Sent
    <3> QED BY <2>2, <3>1
  <2>5. CASE fetching' = Settled(TRUE, TRUE, [out |-> "GetterError", data |-> Null])
    BY <1>5, <1>6, <2>1, <2>5
  <2> QED BY <1>8, <2>3, <2>4, <2>5 DEF TokenArrives
<1>9. CASE ResponseArrives
  <2>1. fetching \in Sent /\ UNCHANGED <<baseUrl, getter>>
    BY <1>2, <1>9 DEF ResponseArrives
  <2>2. CASE fetching' = Settled(TRUE, FALSE, Failed("TypeError"))
    BY <1>5, <1>6, <2>1, <2>2 DEF Failed
  <2>3. ASSUME NEW r \in Responses,
               fetching' = Settled(r.ok, r.text # "cut" \/ HasNoBody(r, fetching.method),
                                   IF r.ok THEN ParseSuccessBody(r, fetching.method, fetching.responseType)
                                   ELSE ParseErrorBody(r, fetching.method))
        PROVE  FetchInv'
    <3>1. r.ok \in BOOLEAN /\ (r.text # "cut" \/ HasNoBody(r, fetching.method)) \in BOOLEAN
      BY DEF Responses
    <3>2. fetching.responseType \in {"json", "text", "blob", "auto"}
      BY <2>1 DEF Sent
    <3>3. CASE r.ok
      <4>1. ParseSuccessBody(r, fetching.method, fetching.responseType).out # "ApiError"
        BY <3>2, SuccessIsNoApiError
      <4> QED BY <1>5, <2>1, <2>3, <3>1, <3>3, <4>1
    <3>4. CASE ~r.ok
      <4>1. r.text # "cut" \/ HasNoBody(r, fetching.method) => ParseErrorBody(r, fetching.method).out = "ApiError"
        BY RefusalIsApiError
      <4> QED BY <1>5, <2>1, <2>3, <3>1, <3>4, <4>1
    <3> QED BY <3>1, <3>3, <3>4
  <2> QED BY <1>9, <2>2, <2>3 DEF ResponseArrives
<1>10. ASSUME NEW b \in Bases \cup {Null}, SetBaseUrl(b) PROVE FetchInv'
  BY <1>1, <1>3, <1>10 DEF SetBaseUrl
<1>11. ASSUME NEW g \in Getters \cup {Null}, SetAuthTokenGetter(g) PROVE FetchInv'
  BY <1>1, <1>3, <1>11 DEF SetAuthTokenGetter
<1>12. CASE UseHealthCheck
  <2>1. PICK opts \in Options : HealthCheck(opts)
    BY <1>12 DEF UseHealthCheck
  <2>2. [opts EXCEPT !.method = "GET"] \in Options
    BY DEF Options
  <2>3. [kind |-> "string", relative |-> TRUE] \in Inputs
    BY DEF Inputs
  <2> QED BY <1>7, <2>1, <2>2, <2>3 DEF HealthCheck
<1> QED BY <1>7, <1>8, <1>9, <1>10, <1>11, <1>12 DEF FetchNext

(* A call goes to the base, and with the token of the getter, that were configured when it was *)
(* made, or with the Authorization header that its caller gave; a refusal that can be read is  *)
(* an ApiError and a success never is.                                                         *)
THEOREM CallsKeepTheirConfiguration == Spec => []FetchSound
<1>1. Init => FetchInv
  BY DEF Init, FetchInit, FetchInv, NotCalled
<1>2. FetchInv => FetchSound
  <2> SUFFICES ASSUME FetchInv PROVE FetchSound
    OBVIOUS
  <2>1. fetching.at = "fetch" => OnItsWay(fetching)
    BY DEF FetchInv
  <2>2. fetching.at = "settled" => Ended(fetching)
    BY DEF FetchInv, Sent
  <2> QED BY <2>1, <2>2 DEF FetchSound, OnItsWay, Ended
<1> QED BY <1>1, <1>2, FetchStep, PTL DEF Spec

(***************************************************************************)
(* Previews                                                                *)
(***************************************************************************)

LEMMA PreviewsMove == [Next]_vars => PreviewsNext \/ UNCHANGED previewVars
<1> SUFFICES ASSUME [Next]_vars PROVE PreviewsNext \/ UNCHANGED previewVars
  OBVIOUS
<1>1. PreviewsPart \/ UNCHANGED previewVars
  BY DEF Next, vars, FeedPart, TransientsPart, IdentityPart, FetchPart, ScrollingPart, ToastsPart,
         SidebarPart, CarouselPart, ChartsPart, FormsPart
<1> QED BY <1>1 DEF PreviewsPart

(* The server: what a scan has read is on disk unless a change is still to be told, queued or  *)
(* was not watched; a module that was written is the source that is remembered.                *)
ScanInv ==
  /\ vite \in {"start", "configuring", "serving", "failed"}
  /\ scan \in {"none", "reading", "read"}
  /\ vite = "start" => scan = "none" /\ ~fileEvent
  /\ scan = "read" /\ ~unseen /\ ~fileEvent /\ ~refreshQueued => found = onDisk
  /\ ~broken => written = currentSource
  /\ vite \in {"configuring", "serving"} /\ scan = "none" /\ ~unseen /\ ~fileEvent /\ ~broken
       => written = onDisk

(* The page: only the last load is not cancelled. *)
LoadInv ==
  /\ loadNo \in Nat
  /\ loads \subseteq [n : Nat, cancelled : BOOLEAN]
  /\ \A l \in loads : ~l.cancelled => l.n = loadNo
  /\ preview.load \in {0, loadNo}

LEMMA ScanStep == ScanInv /\ [Next]_vars => ScanInv'
<1> SUFFICES ASSUME ScanInv, PreviewsNext PROVE ScanInv'
  BY PreviewsMove DEF ScanInv, previewVars, serverVars
<1> USE DEF ScanInv
<1>1. ASSUME NEW f, FileChange(f) PROVE ScanInv'
  <2>1. vite = "serving" => fileEvent'
    BY <1>1 DEF FileChange
  <2>2. vite # "serving" => unseen' /\ ~fileEvent'
    BY <1>1 DEF FileChange
  <2>3. UNCHANGED <<vite, scan, found, refreshQueued, currentSource, written, broken>>
    BY <1>1 DEF FileChange
  <2> QED BY <2>1, <2>2, <2>3
<1>2. CASE ConfigureServer
  BY <1>2 DEF ConfigureServer, Refresh
<1>3. CASE Watch
  BY <1>3 DEF Watch
<1>4. CASE OnFileAddedOrRemoved
  BY <1>4 DEF OnFileAddedOrRemoved, Refresh
<1>5. CASE Rescan
  BY <1>5 DEF Rescan, Refresh
<1>6. CASE DiscoverComponents
  BY <1>6 DEF DiscoverComponents
<1>7. CASE FinishRefresh
  <2>1. /\ scan = "read" /\ currentSource' = found
        /\ written' = IF found = currentSource THEN written ELSE found
        /\ broken' = (broken /\ written' # found)
        /\ scan' = IF refreshQueued THEN "reading" ELSE "none"
        /\ UNCHANGED <<onDisk, vite, found, fileEvent, unseen>>
    BY <1>7 DEF FinishRefresh, FollowUp
  <2>2. ~broken' => written' = found
    BY <2>1
  <2> QED BY <2>1, <2>2
<1>8. CASE RefreshFails
  BY <1>8 DEF RefreshFails
<1>9. CASE App
  BY <1>9 DEF App, serverVars
<1>10. ASSUME NEW l, LoadComponent(l) PROVE ScanInv'
  BY <1>10 DEF LoadComponent, serverVars
<1> QED BY <1>1, <1>2, <1>3, <1>4, <1>5, <1>6, <1>7, <1>8, <1>9, <1>10 DEF PreviewsNext

LEMMA LoadStep == LoadInv /\ [Next]_vars => LoadInv'
<1> SUFFICES ASSUME LoadInv, PreviewsNext PROVE LoadInv'
  BY PreviewsMove DEF LoadInv, previewVars, pageVars
<1>1. CASE App
  <2>1. CASE Gallery
    BY <1>1, <2>1 DEF Gallery, LoadInv
  <2>2. CASE PreviewRenderer
    <3>1. loadNo' = loadNo + 1 /\ loadNo' \in Nat
      BY <2>2 DEF PreviewRenderer, LoadInv
    <3>2. preview'.load \in {0, loadNo'}
      BY <2>2 DEF PreviewRenderer, Blank
    <3>3. \A l \in loads : /\ [l EXCEPT !.cancelled = TRUE] \in [n : Nat, cancelled : BOOLEAN]
                           /\ [l EXCEPT !.cancelled = TRUE].cancelled
      BY DEF LoadInv
    <3>4. [n |-> loadNo', cancelled |-> FALSE] \in [n : Nat, cancelled : BOOLEAN]
      BY <3>1
    <3>5. \A l \in loads' : \/ \E k \in loads : l = [k EXCEPT !.cancelled = TRUE]
                            \/ l = [n |-> loadNo', cancelled |-> FALSE]
      BY <2>2 DEF PreviewRenderer
    <3>6. ASSUME NEW l \in loads'
          PROVE  l \in [n : Nat, cancelled : BOOLEAN] /\ (~l.cancelled => l.n = loadNo')
      <4>1. CASE \E k \in loads : l = [k EXCEPT !.cancelled = TRUE]
        BY <3>3, <4>1
      <4>2. CASE l = [n |-> loadNo', cancelled |-> FALSE]
        BY <3>4, <4>2
      <4> QED BY <3>5, <4>1, <4>2
    <3> QED BY <3>1, <3>2, <3>6 DEF LoadInv
  <2> QED BY <1>1, <2>1, <2>2 DEF App
<1>2. ASSUME NEW l \in loads, LoadComponent(l) PROVE LoadInv'
  <2>1. /\ loads' \subseteq loads /\ loadNo' = loadNo
        /\ \E is : Show(l, is)
    BY <1>2 DEF LoadComponent
  <2>2. PICK is : preview' = IF l.cancelled THEN preview ELSE [load |-> l.n, is |-> is]
    BY <2>1 DEF Show
  <2>3. preview'.load \in {0, loadNo}
    BY <2>2 DEF LoadInv
  <2> QED BY <2>1, <2>3 DEF LoadInv
<1>3. \/ App \/ (\E l \in loads : LoadComponent(l)) \/ UNCHANGED <<loads, loadNo, preview>>
  BY DEF PreviewsNext, FileChange, ConfigureServer, Watch, OnFileAddedOrRemoved, Rescan, DiscoverComponents,
         FinishRefresh, RefreshFails, pageVars
<1>4. CASE UNCHANGED <<loads, loadNo, preview>>
  BY <1>4 DEF LoadInv
<1> QED BY <1>1, <1>2, <1>3, <1>4

(* Whatever changes on disk while scans run, queue and fail, and however the loads of a page *)
(* overlap: the module written is what is on disk when nothing is under way, and the page     *)
(* shows its last load.                                                                       *)
THEOREM PreviewsFollowDisk == Spec => []PreviewsSound
<1>1. Init => ScanInv /\ LoadInv
  BY DEF Init, PreviewsInit, ScanInv, LoadInv, Blank
<1>2. ScanInv /\ LoadInv => PreviewsSound
  BY DEF ScanInv, LoadInv, PreviewsSound, PreviewFresh, ShownIsCurrent
<1> QED BY <1>1, <1>2, ScanStep, LoadStep, PTL DEF Spec

(***************************************************************************)
(* Toasts                                                                  *)
(***************************************************************************)

LEMMA ToastsMove ==
  [Next]_vars => \/ ToastStoreNext \/ UseToastNext \/ ToasterNext \/ ToastCloseNext
                 \/ UNCHANGED toastVars
<1> SUFFICES ASSUME [Next]_vars
             PROVE  \/ ToastStoreNext \/ UseToastNext \/ ToasterNext \/ ToastCloseNext
                    \/ UNCHANGED toastVars
  OBVIOUS
<1>1. ToastsPart \/ UNCHANGED toastVars
  BY DEF Next, vars, FeedPart, TransientsPart, IdentityPart, FetchPart, ScrollingPart, PreviewsPart,
         SidebarPart, CarouselPart, ChartsPart, FormsPart
<1> QED BY <1>1 DEF ToastsPart, ToastStore, UseToast, Toaster, ToastCloses, MockupToastStore,
                    MockupUseToast, MockupToaster, MockupToastCloses

(* The store: the toasts with a timer are those that were dismissed; timers and toasts have ids *)
(* that were given out.                                                                        *)
Toast == [id : Nat, open : BOOLEAN, closes : BOOLEAN, dismissed : BOOLEAN]
Timed(t, timers) == t.dismissed <=> t.id \in timers
StoreInv ==
  /\ lastId \in Nat /\ toastTimeouts \subseteq 1 .. lastId
  /\ memory \in Seq(Toast)
  /\ \A i \in DOMAIN memory : Timed(memory[i], toastTimeouts) /\ memory[i].id \in 1 .. lastId

(* The subscribers: listeners has each of them once, and only they have an effect to run again; *)
(* who has rendered since it subscribed shows the store, unless it has been told to render.     *)
Subscribed(u) == user[u].at \in {"joined", "notified", "current"}
ListenersInv ==
  /\ listeners \in Seq(Users) /\ IsInjective(listeners)
  /\ DOMAIN user = Users
  /\ \A u \in Users : /\ DOMAIN user[u] = {"at", "effect", "toasts"}
                      /\ Subscribed(u) <=> Contains(listeners, u)
                      /\ user[u].effect => Subscribed(u)
                      /\ user[u].at = "current" => user[u].toasts = memory

(* The toasts that a filter keeps come from the store. *)
LEMMA ToastsKept ==
  ASSUME NEW id, StoreInv, NEW toasts \in Filtered({i \in DOMAIN memory : memory[i].id # id})
  PROVE  /\ toasts \in Seq(Toast)
         /\ \A i \in DOMAIN toasts : \E j \in DOMAIN memory : toasts[i] = memory[j] /\ memory[j].id # id
<1> DEFINE kept == {i \in DOMAIN memory : memory[i].id # id}
<1>1. IsFiniteSet(kept) /\ Cardinality(kept) \in Nat
  <2>1. memory \in Seq(Toast) /\ DOMAIN memory = 1 .. Len(memory) /\ Len(memory) \in Nat
    BY DEF StoreInv
  <2>2. IsFiniteSet(1 .. Len(memory))
    BY <2>1, FS_Interval
  <2> QED BY <2>1, <2>2, FS_Subset, FS_CardinalityType
<1>2. PICK f \in [1 .. Cardinality(kept) -> kept] : toasts = [i \in DOMAIN f |-> memory[f[i]]]
  BY DEF Filtered
<1>3. \A i \in 1 .. Cardinality(kept) : f[i] \in DOMAIN memory /\ memory[f[i]].id # id /\ memory[f[i]] \in Toast
  BY <1>2 DEF StoreInv
<1> HIDE DEF kept
<1>4. toasts = [i \in 1 .. Cardinality(kept) |-> memory[f[i]]]
  BY <1>2
<1> QED BY <1>1, <1>3, <1>4

ShownAreKnown ==
  /\ DOMAIN user = Users
  /\ \A u \in Users : /\ DOMAIN user[u] = {"at", "effect", "toasts"}
                      /\ \A i \in DOMAIN user[u].toasts : user[u].toasts[i].id \in 1 .. lastId

(* A map over the store that keeps ids, and dismisses what gets a timer. *)
LEMMA MapKeepsStore ==
  ASSUME StoreInv, NEW toasts, DOMAIN toasts = DOMAIN memory, NEW timers,
         \A i \in DOMAIN memory : /\ toasts[i] \in Toast /\ toasts[i].id = memory[i].id
                                  /\ Timed(toasts[i], timers),
         toasts = [i \in DOMAIN memory |-> toasts[i]]
  PROVE  /\ toasts \in Seq(Toast)
         /\ \A i \in DOMAIN toasts : Timed(toasts[i], timers) /\ toasts[i].id \in 1 .. lastId
<1>1. DOMAIN memory = 1 .. Len(memory) /\ Len(memory) \in Nat
  BY DEF StoreInv
<1>2. toasts \in [1 .. Len(memory) -> Toast]
  BY <1>1
<1>3. toasts \in Seq(Toast)
  BY <1>1, <1>2
<1>4. ASSUME NEW i \in DOMAIN memory PROVE toasts[i].id \in 1 .. lastId
  BY <1>4 DEF StoreInv
<1> QED BY <1>3, <1>4

LEMMA StoreStep == StoreInv /\ ShownAreKnown /\ [Next]_vars => StoreInv'
<1> SUFFICES ASSUME StoreInv, ShownAreKnown, [Next]_vars PROVE StoreInv'
  OBVIOUS
<1> USE ToastAssumption
<1>1. \A i \in DOMAIN memory : memory[i] \in Toast /\ Timed(memory[i], toastTimeouts)
                               /\ memory[i].id \in 1 .. lastId
  BY DEF StoreInv
<1>2. CASE AddToast
  <2> DEFINE new == NewToast(lastId + 1)
             all == <<new>> \o memory
             n == IF Len(all) < TOAST_LIMIT THEN Len(all) ELSE TOAST_LIMIT
  <2>1. memory' = SubSeq(all, 1, n) /\ lastId' = lastId + 1 /\ toastTimeouts' = toastTimeouts
    BY <1>2 DEF AddToast, Dispatch
  <2>2. new \in Toast /\ new.id = lastId + 1 /\ ~new.dismissed
    BY DEF StoreInv, Toast, NewToast
  <2>3. /\ all \in Seq(Toast) /\ Len(all) = Len(memory) + 1 /\ Len(memory) \in Nat
        /\ \A i \in 1 .. Len(all) : all[i] = IF i = 1 THEN new ELSE memory[i - 1]
    <3> HIDE DEF new
    <3>1. <<new>> \in Seq(Toast) /\ Len(<<new>>) = 1 /\ <<new>>[1] = new
      BY <2>2
    <3>2. memory \in Seq(Toast) /\ Len(memory) \in Nat
      BY DEF StoreInv
    <3>3. /\ all \in Seq(Toast) /\ Len(all) = Len(<<new>>) + Len(memory)
          /\ \A i \in 1 .. Len(<<new>>) + Len(memory) :
               all[i] = IF i <= Len(<<new>>) THEN <<new>>[i] ELSE memory[i - Len(<<new>>)]
      BY <3>1, <3>2, ConcatProperties
    <3> HIDE DEF all
    <3> QED BY <3>1, <3>2, <3>3
  <2> HIDE DEF all, new
  <2>4. n \in Nat /\ n <= Len(all)
    BY <2>3
  <2> HIDE DEF n
  <2>5. /\ SubSeq(all, 1, n) \in Seq(Toast) /\ DOMAIN SubSeq(all, 1, n) = 1 .. n
        /\ \A i \in 1 .. n : SubSeq(all, 1, n)[i] = all[i]
    <3>1. \A i \in 1 .. n : all[i] \in Toast
      BY <2>3, <2>4
    <3>2. /\ SubSeq(all, 1, n) \in Seq(Toast)
          /\ Len(SubSeq(all, 1, n)) = IF 1 <= n THEN n - 1 + 1 ELSE 0
          /\ \A i \in 1 .. n - 1 + 1 : SubSeq(all, 1, n)[i] = all[1 + i - 1]
      BY <2>4, <3>1, SubSeqProperties
    <3> QED BY <2>4, <3>2
  <2>6. ASSUME NEW i \in 1 .. n PROVE Timed(all[i], toastTimeouts) /\ all[i].id \in 1 .. lastId + 1
    <3>1. CASE i = 1
      <4>1. lastId + 1 \notin toastTimeouts /\ lastId + 1 \in 1 .. lastId + 1
        BY DEF StoreInv
      <4> QED BY <2>2, <2>3, <2>4, <3>1, <4>1 DEF Timed
    <3>2. CASE i # 1
      <4>1. i - 1 \in DOMAIN memory /\ all[i] = memory[i - 1]
        BY <2>3, <2>4, <3>2 DEF StoreInv
      <4> QED BY <1>1, <4>1 DEF StoreInv
    <3> QED BY <3>1, <3>2
  <2>7. lastId + 1 \in Nat /\ toastTimeouts \subseteq 1 .. lastId + 1
    BY DEF StoreInv
  <2> QED BY <2>1, <2>5, <2>6, <2>7 DEF StoreInv
<1>3. ASSUME NEW id, UpdateToast(id) PROVE StoreInv'
  <2>4. PICK open_ \in BOOLEAN, keeps \in BOOLEAN :
          Dispatch(MapToasts(LAMBDA t : IF t.id = id
                                        THEN [t EXCEPT !.open = open_, !.closes = keeps /\ @]
                                        ELSE t))
    BY <1>3 DEF UpdateToast
  <2> DEFINE toasts == [i \in DOMAIN memory |->
                          IF memory[i].id = id THEN [memory[i] EXCEPT !.open = open_, !.closes = keeps /\ @]
                          ELSE memory[i]]
  <2>1. memory' = toasts /\ UNCHANGED <<lastId, toastTimeouts>>
    BY <1>3, <2>4 DEF UpdateToast, Dispatch, MapToasts
  <2>2. \A i \in DOMAIN memory : /\ toasts[i] \in Toast /\ toasts[i].id = memory[i].id
                                 /\ Timed(toasts[i], toastTimeouts)
    BY <1>1 DEF Toast, Timed
  <2>3. DOMAIN toasts = DOMAIN memory /\ toasts = [i \in DOMAIN memory |-> toasts[i]]
    OBVIOUS
  <2> HIDE DEF toasts
  <2> QED BY <2>1, <2>2, <2>3, MapKeepsStore DEF StoreInv
<1>4. ASSUME NEW id \in 1 .. lastId, DismissToast(id) PROVE StoreInv'
  <2> DEFINE toasts == [i \in DOMAIN memory |->
                          IF memory[i].id = id THEN Dismissed(memory[i]) ELSE memory[i]]
             timers == toastTimeouts \cup {id}
  <2>1. memory' = toasts /\ lastId' = lastId /\ toastTimeouts' = timers
    BY <1>4 DEF DismissToast, AddToRemoveQueue, Dispatch, MapToasts
  <2>2. \A i \in DOMAIN memory : /\ toasts[i] \in Toast /\ toasts[i].id = memory[i].id
                                 /\ Timed(toasts[i], timers)
    BY <1>1 DEF Toast, Dismissed, Timed
  <2>3. DOMAIN toasts = DOMAIN memory /\ toasts = [i \in DOMAIN memory |-> toasts[i]]
    OBVIOUS
  <2>4. timers \subseteq 1 .. lastId
    BY <1>4 DEF StoreInv
  <2> HIDE DEF toasts, timers
  <2> QED BY <2>1, <2>2, <2>3, <2>4, MapKeepsStore DEF StoreInv
<1>5. CASE DismissAll
  <2> DEFINE toasts == [i \in DOMAIN memory |-> Dismissed(memory[i])]
             timers == toastTimeouts \cup {memory[i].id : i \in DOMAIN memory}
  <2>1. memory' = toasts /\ lastId' = lastId /\ toastTimeouts' = timers
    BY <1>5 DEF DismissAll, AddToRemoveQueue, Dispatch, MapToasts
  <2>2. \A i \in DOMAIN memory : /\ toasts[i] \in Toast /\ toasts[i].id = memory[i].id
                                 /\ Timed(toasts[i], timers)
    BY <1>1 DEF Toast, Dismissed, Timed
  <2>3. DOMAIN toasts = DOMAIN memory /\ toasts = [i \in DOMAIN memory |-> toasts[i]]
    OBVIOUS
  <2>4. timers \subseteq 1 .. lastId
    BY <1>1 DEF StoreInv
  <2> HIDE DEF toasts, timers
  <2> QED BY <2>1, <2>2, <2>3, <2>4, MapKeepsStore DEF StoreInv
<1>6. ASSUME NEW id, RemoveToast(id) PROVE StoreInv'
  <2>1. /\ memory' \in Filtered({i \in DOMAIN memory : memory[i].id # id})
        /\ toastTimeouts' = toastTimeouts \ {id} /\ lastId' = lastId
    BY <1>6 DEF RemoveToast, Dispatch
  <2>2. /\ memory' \in Seq(Toast)
        /\ \A i \in DOMAIN memory' : \E j \in DOMAIN memory : memory'[i] = memory[j] /\ memory[j].id # id
    BY <2>1, ToastsKept
  <2>3. \A j \in DOMAIN memory : memory[j].id # id => Timed(memory[j], toastTimeouts \ {id})
    BY <1>1 DEF Timed
  <2> QED BY <1>1, <2>1, <2>2, <2>3 DEF StoreInv
<1>7. ASSUME NEW u \in Users, ToastClose(u) PROVE StoreInv'
  <2>1. PICK i \in DOMAIN user[u].toasts : DismissToast(user[u].toasts[i].id)
    BY <1>7 DEF ToastClose
  <2>2. user[u].toasts[i].id \in 1 .. lastId
    BY DEF ShownAreKnown
  <2> QED BY <1>4, <2>1, <2>2
<1>8. ASSUME UNCHANGED <<memory, lastId, toastTimeouts>> PROVE StoreInv'
  BY <1>8 DEF StoreInv
<1>9. UseToastNext \/ ToasterNext \/ UNCHANGED toastVars => UNCHANGED <<memory, lastId, toastTimeouts>>
  BY DEF UseToastNext, ToasterNext, MountUser, Subscribe, UnmountUser, RenderUser, Resubscribe, toastVars
<1> QED BY <1>2, <1>3, <1>4, <1>5, <1>6, <1>7, <1>8, <1>9, ToastsMove DEF ToastStoreNext, ToastCloseNext

(* What a user shows was in the store when it rendered. *)
LEMMA ShownStep == StoreInv /\ ShownAreKnown /\ [Next]_vars => ShownAreKnown'
<1> SUFFICES ASSUME StoreInv, ShownAreKnown, [Next]_vars PROVE ShownAreKnown'
  OBVIOUS
<1>1. lastId' \in Nat /\ lastId <= lastId' /\ 1 .. lastId \subseteq 1 .. lastId'
  <2>1. lastId' \in {lastId, lastId + 1}
    BY ToastsMove DEF ToastStoreNext, UseToastNext, ToasterNext, ToastCloseNext, AddToast, DismissAll,
       UpdateToast, DismissToast, RemoveToast, MountUser, Subscribe, UnmountUser, RenderUser, Resubscribe,
       ToastClose, toastVars
  <2> QED BY <2>1 DEF StoreInv
<1>2. ASSUME NEW u \in Users, user'[u].toasts \in {user[u].toasts, memory, <<>>}
      PROVE  \A i \in DOMAIN user'[u].toasts : user'[u].toasts[i].id \in 1 .. lastId'
  BY <1>1, <1>2 DEF StoreInv, ShownAreKnown
<1>3. ASSUME NEW u \in Users, NEW toasts, Dispatch(toasts)
      PROVE  user'[u].toasts \in {user[u].toasts, memory, <<>>}
  BY <1>3 DEF Dispatch, ShownAreKnown
<1>4. ASSUME NEW u \in Users, NEW v \in Users,
             MountUser(v) \/ Subscribe(v) \/ UnmountUser(v) \/ RenderUser(v) \/ Resubscribe(v)
      PROVE  user'[u].toasts \in {user[u].toasts, memory, <<>>}
  BY <1>4 DEF MountUser, Subscribe, UnmountUser, RenderUser, Resubscribe, ShownAreKnown, Out
<1>5. ToastStoreNext \/ ToastCloseNext => \E toasts : Dispatch(toasts)
  BY DEF ToastStoreNext, ToastCloseNext, AddToast, UpdateToast, DismissToast, DismissAll, ToastClose, RemoveToast
<1>6. \A u \in Users : user'[u].toasts \in {user[u].toasts, memory, <<>>}
  BY <1>3, <1>4, <1>5, ToastsMove DEF UseToastNext, ToasterNext, toastVars
<1>7. DOMAIN user' = Users /\ \A u \in Users : DOMAIN user'[u] = {"at", "effect", "toasts"}
  <2>1. ASSUME NEW toasts, Dispatch(toasts)
        PROVE  DOMAIN user' = Users /\ \A u \in Users : DOMAIN user'[u] = {"at", "effect", "toasts"}
    BY <2>1 DEF Dispatch, ShownAreKnown
  <2>2. ASSUME NEW v \in Users,
               MountUser(v) \/ Subscribe(v) \/ UnmountUser(v) \/ RenderUser(v) \/ Resubscribe(v)
        PROVE  DOMAIN user' = Users /\ \A u \in Users : DOMAIN user'[u] = {"at", "effect", "toasts"}
    BY <2>2 DEF MountUser, Subscribe, UnmountUser, RenderUser, Resubscribe, ShownAreKnown, Out
  <2> QED BY <1>5, <2>1, <2>2, ToastsMove DEF UseToastNext, ToasterNext, toastVars, ShownAreKnown
<1> QED BY <1>2, <1>6, <1>7 DEF ShownAreKnown

LEMMA RestLength ==
  \A n \in Nat : \A p \in 1 .. n : n - (p + 1) + 1 = n - p /\ (p + 1 <= n \/ n - p = 0)
<1> SUFFICES ASSUME NEW n \in Nat, NEW p \in 1 .. n
             PROVE  n - (p + 1) + 1 = n - p /\ (p + 1 <= n \/ n - p = 0)
  OBVIOUS
<1>1. n - (p + 1) + 1 = n - p
  OBVIOUS
<1>2. p + 1 <= n \/ n - p = 0
  OBVIOUS
<1> QED BY <1>1, <1>2

(* splice(index, 1) at the only place of a subscriber takes that subscriber out, and no other. *)
LEMMA CutOut ==
  ASSUME NEW s \in Seq(Users), IsInjective(s), NEW u
  PROVE  /\ RemoveFirst(s, u) \in Seq(Users) /\ IsInjective(RemoveFirst(s, u))
         /\ \A v : Contains(RemoveFirst(s, u), v) <=> v # u /\ Contains(s, v)
<1>1. Len(s) \in Nat /\ DOMAIN s = 1 .. Len(s)
  OBVIOUS
<1>2. CASE ~Contains(s, u)
  <2>1. RemoveFirst(s, u) = s
    BY <1>2 DEF RemoveFirst, Contains
  <2> QED BY <1>2, <2>1
<1>3. CASE Contains(s, u)
  <2>1. PICK p \in 1 .. Len(s) : s[p] = u
    BY <1>3 DEF Contains
  <2>2. {i \in 1 .. Len(s) : s[i] = u} = {p}
    BY <1>1, <2>1 DEF IsInjective
  <2>3. SelectInSeq(s, LAMBDA v : v = u) = p
    <3>1. SelectInSeq(s, LAMBDA v : v = u) = Min({p})
      BY <2>2 DEF SelectInSeq
    <3>2. Min({p}) = p
      BY <2>1 DEF Min
    <3> QED BY <3>1, <3>2
  <2> DEFINE r == SubSeq(s, 1, p - 1) \o SubSeq(s, p + 1, Len(s))
  <2>4. RemoveFirst(s, u) = r
    BY <2>1, <2>3 DEF RemoveFirst, RemoveAt
  <2>5. /\ r \in Seq(Users) /\ Len(r) = Len(s) - 1 /\ DOMAIN r = 1 .. Len(s) - 1
        /\ \A i \in 1 .. Len(s) - 1 : r[i] = IF i < p THEN s[i] ELSE s[i + 1]
    <3>1. /\ SubSeq(s, 1, p - 1) \in Seq(Users) /\ Len(SubSeq(s, 1, p - 1)) = p - 1
          /\ \A i \in 1 .. p - 1 : SubSeq(s, 1, p - 1)[i] = s[i]
      BY <1>1, <2>1, SubSeqProperties
    <3>2. /\ SubSeq(s, p + 1, Len(s)) \in Seq(Users) /\ Len(SubSeq(s, p + 1, Len(s))) = Len(s) - p
          /\ \A i \in 1 .. Len(s) - p : SubSeq(s, p + 1, Len(s))[i] = s[p + i]
      <4> DEFINE m == p + 1
                 n == Len(s)
      <4>1. m \in Int /\ n \in Int /\ \A i \in m .. n : s[i] \in Users
        BY <1>1, <2>1
      <4> HIDE DEF m, n
      <4>2. /\ SubSeq(s, m, n) \in Seq(Users)
            /\ Len(SubSeq(s, m, n)) = IF m <= n THEN n - m + 1 ELSE 0
            /\ \A i \in 1 .. n - m + 1 : SubSeq(s, m, n)[i] = s[m + i - 1]
        BY <4>1, SubSeqProperties
      <4>3. m = p + 1 /\ n = Len(s)
        BY DEF m, n
      <4>4. n - m + 1 = Len(s) - p /\ (m <= n \/ Len(s) - p = 0)
        <5>1. /\ Len(s) - (p + 1) + 1 = Len(s) - p
              /\ p + 1 <= Len(s) \/ Len(s) - p = 0
          BY <1>1, <2>1, RestLength
        <5> QED BY <4>3, <5>1
      <4>5. \A i \in 1 .. Len(s) - p : m + i - 1 = p + i
        BY <1>1, <2>1, <4>3
      <4>6. Len(SubSeq(s, m, n)) = Len(s) - p
        <5>1. CASE m <= n
          BY <4>2, <4>4, <5>1
        <5>2. CASE ~(m <= n)
          BY <4>2, <4>4, <5>2
        <5> QED BY <5>1, <5>2
      <4> QED BY <4>2, <4>3, <4>4, <4>5, <4>6
    <3> DEFINE front == SubSeq(s, 1, p - 1)
               rear == SubSeq(s, p + 1, Len(s))
    <3> HIDE DEF front, rear
    <3>3. /\ front \o rear \in Seq(Users) /\ Len(front \o rear) = Len(front) + Len(rear)
          /\ \A i \in 1 .. Len(front) + Len(rear) :
               (front \o rear)[i] = IF i <= Len(front) THEN front[i] ELSE rear[i - Len(front)]
      BY <3>1, <3>2, ConcatProperties DEF front, rear
    <3>4. /\ Len(front) = p - 1 /\ Len(rear) = Len(s) - p
          /\ \A i \in 1 .. p - 1 : front[i] = s[i]
          /\ \A i \in 1 .. Len(s) - p : rear[i] = s[p + i]
      BY <3>1, <3>2 DEF front, rear
    <3>5. r = front \o rear
      BY DEF front, rear
    <3> HIDE DEF r
    <3>6. Len(front) + Len(rear) = Len(s) - 1
      BY <1>1, <2>1, <3>4
    <3>7. r \in Seq(Users) /\ Len(r) = Len(s) - 1
      BY <3>3, <3>5, <3>6
    <3>8. ASSUME NEW i \in 1 .. Len(s) - 1 PROVE r[i] = IF i < p THEN s[i] ELSE s[i + 1]
      <4>1. r[i] = IF i <= Len(front) THEN front[i] ELSE rear[i - Len(front)]
        BY <3>3, <3>5, <3>6
      <4>2. CASE i < p
        BY <1>1, <2>1, <3>4, <4>1, <4>2
      <4>3. CASE i >= p
        <5>1. ~(i <= Len(front)) /\ i - Len(front) \in 1 .. Len(s) - p /\ p + (i - Len(front)) = i + 1
          BY <1>1, <2>1, <3>4, <4>3
        <5>2. rear[i - Len(front)] = s[i + 1]
          BY <3>4, <5>1
        <5> QED BY <2>1, <4>1, <4>3, <5>1, <5>2
      <4> QED BY <2>1, <4>2, <4>3
    <3> QED BY <1>1, <3>7, <3>8
  <2> HIDE DEF r
  <2>6. IsInjective(r)
    <3> SUFFICES ASSUME NEW a \in DOMAIN r, NEW b \in DOMAIN r, r[a] = r[b] PROVE a = b
      BY DEF IsInjective
    <3> DEFINE x == IF a < p THEN a ELSE a + 1
               y == IF b < p THEN b ELSE b + 1
    <3>1. x \in DOMAIN s /\ y \in DOMAIN s /\ s[x] = s[y]
      BY <1>1, <2>1, <2>5
    <3>2. x = y
      BY <3>1 DEF IsInjective
    <3> QED BY <1>1, <2>1, <2>5, <3>2
  <2>7. ASSUME NEW v PROVE Contains(r, v) <=> v # u /\ Contains(s, v)
    <3>1. ASSUME Contains(r, v) PROVE v # u /\ Contains(s, v)
      <4>1. PICK i \in 1 .. Len(s) - 1 : r[i] = v
        BY <2>5, <3>1 DEF Contains
      <4> DEFINE x == IF i < p THEN i ELSE i + 1
      <4>2. x \in 1 .. Len(s) /\ s[x] = v /\ x # p
        BY <1>1, <2>1, <2>5, <4>1
      <4>3. s[x] # s[p]
        BY <1>1, <2>1, <4>2 DEF IsInjective
      <4> QED BY <2>1, <4>2, <4>3 DEF Contains
    <3>2. ASSUME v # u, Contains(s, v) PROVE Contains(r, v)
      <4>1. PICK i \in 1 .. Len(s) : s[i] = v
        BY <3>2 DEF Contains
      <4> DEFINE x == IF i < p THEN i ELSE i - 1
      <4>2. i # p
        BY <2>1, <3>2, <4>1
      <4>3. x \in 1 .. Len(s) - 1 /\ r[x] = v
        BY <1>1, <2>1, <2>5, <4>1, <4>2
      <4> QED BY <2>5, <4>3 DEF Contains
    <3> QED BY <3>1, <3>2
  <2> QED BY <2>4, <2>5, <2>6, <2>7
<1> QED BY <1>2, <1>3

LEMMA AppendTells ==
  ASSUME NEW s \in Seq(Users), IsInjective(s), NEW u \in Users, ~Contains(s, u)
  PROVE  /\ Append(s, u) \in Seq(Users) /\ IsInjective(Append(s, u))
         /\ \A v : Contains(Append(s, u), v) <=> v = u \/ Contains(s, v)
<1>1. /\ Append(s, u) \in Seq(Users) /\ Len(Append(s, u)) = Len(s) + 1 /\ Len(s) \in Nat
      /\ DOMAIN s = 1 .. Len(s) /\ DOMAIN Append(s, u) = 1 .. Len(s) + 1
      /\ \A i \in 1 .. Len(s) + 1 : Append(s, u)[i] = IF i <= Len(s) THEN s[i] ELSE u
  OBVIOUS
<1> DEFINE r == Append(s, u)
<1> HIDE DEF r
<1>2. IsInjective(r)
  <2> SUFFICES ASSUME NEW a \in 1 .. Len(s) + 1, NEW b \in 1 .. Len(s) + 1, r[a] = r[b] PROVE a = b
    BY <1>1 DEF IsInjective, r
  <2>1. CASE a <= Len(s) /\ b <= Len(s)
    BY <1>1, <2>1 DEF IsInjective, r
  <2>2. CASE a <= Len(s) /\ b > Len(s)
    BY <1>1, <2>2 DEF Contains, r
  <2>3. CASE a > Len(s) /\ b <= Len(s)
    BY <1>1, <2>3 DEF Contains, r
  <2>4. CASE a > Len(s) /\ b > Len(s)
    BY <1>1, <2>4
  <2> QED BY <1>1, <2>1, <2>2, <2>3, <2>4
<1>3. ASSUME NEW v PROVE Contains(r, v) <=> v = u \/ Contains(s, v)
  <2>1. ASSUME Contains(r, v) PROVE v = u \/ Contains(s, v)
    BY <1>1, <2>1 DEF Contains, r
  <2>2. ASSUME Contains(s, v) PROVE Contains(r, v)
    BY <1>1, <2>2 DEF Contains, r
  <2>3. Contains(r, u)
    <3>1. Len(s) + 1 \in 1 .. Len(r) /\ r[Len(s) + 1] = u
      BY <1>1 DEF r
    <3> QED BY <3>1 DEF Contains
  <2> QED BY <2>1, <2>2, <2>3
<1> QED BY <1>1, <1>2, <1>3 DEF r

LEMMA ListenersStep == ListenersInv /\ [Next]_vars => ListenersInv'
<1> SUFFICES ASSUME ListenersInv, [Next]_vars PROVE ListenersInv'
  OBVIOUS
<1>1. ASSUME NEW toasts, Dispatch(toasts) PROVE ListenersInv'
  <2>1. listeners' = listeners /\ DOMAIN user' = Users
    BY <1>1 DEF Dispatch
  <2>2. ASSUME NEW u \in Users
        PROVE  /\ DOMAIN user'[u] = {"at", "effect", "toasts"}
               /\ Subscribed(u)' <=> Contains(listeners, u)
               /\ user'[u].effect => Subscribed(u)'
               /\ user'[u].at # "current"
    <3>1. user'[u] = IF Contains(listeners, u) THEN [user[u] EXCEPT !.at = "notified"] ELSE user[u]
      BY <1>1 DEF Dispatch
    <3>2. CASE Contains(listeners, u)
      BY <3>1, <3>2 DEF ListenersInv, Subscribed
    <3>3. CASE ~Contains(listeners, u)
      BY <3>1, <3>3 DEF ListenersInv, Subscribed
    <3> QED BY <3>2, <3>3
  <2> QED BY <2>1, <2>2 DEF ListenersInv
<1>2. ASSUME NEW u \in Users, MountUser(u) PROVE ListenersInv'
  <2>1. /\ user' = [user EXCEPT ![u] = [at |-> "mounted", effect |-> FALSE, toasts |-> memory]]
        /\ ~Contains(listeners, u) /\ listeners' = listeners /\ memory' = memory
    BY <1>2 DEF MountUser, ListenersInv, Subscribed
  <2> QED BY <2>1 DEF ListenersInv, Subscribed
<1>3. ASSUME NEW u \in Users, Subscribe(u) PROVE ListenersInv'
  <2>1. /\ user' = [user EXCEPT ![u].at = "joined"] /\ memory' = memory
        /\ ~Contains(listeners, u) /\ listeners' = Append(listeners, u)
    BY <1>3 DEF Subscribe, ListenersInv, Subscribed
  <2>2. /\ listeners' \in Seq(Users) /\ IsInjective(listeners')
        /\ \A v : Contains(listeners', v) <=> v = u \/ Contains(listeners, v)
    BY <2>1, AppendTells DEF ListenersInv
  <2> QED BY <2>1, <2>2 DEF ListenersInv, Subscribed
<1>4. ASSUME NEW u \in Users, RenderUser(u) PROVE ListenersInv'
  <2>1. /\ user' = [user EXCEPT ![u] = [at |-> "current", effect |-> TRUE, toasts |-> memory]]
        /\ Contains(listeners, u) /\ listeners' = listeners /\ memory' = memory
    BY <1>4 DEF RenderUser, ListenersInv, Subscribed
  <2> QED BY <2>1 DEF ListenersInv, Subscribed
<1>8. ASSUME NEW u \in Users, Resubscribe(u) PROVE ListenersInv'
  <2> DEFINE s == RemoveFirst(listeners, u)
  <2>1. /\ user' = [user EXCEPT ![u].effect = FALSE] /\ memory' = memory
        /\ Contains(listeners, u) /\ listeners' = Append(s, u)
    BY <1>8 DEF Resubscribe, Unsubscribed, ListenersInv
  <2>2. /\ s \in Seq(Users) /\ IsInjective(s)
        /\ \A v : Contains(s, v) <=> v # u /\ Contains(listeners, v)
    BY CutOut DEF ListenersInv
  <2> HIDE DEF s
  <2>3. /\ listeners' \in Seq(Users) /\ IsInjective(listeners')
        /\ \A v : Contains(listeners', v) <=> v = u \/ Contains(s, v)
    BY <2>1, <2>2, AppendTells
  <2> QED BY <2>1, <2>2, <2>3 DEF ListenersInv, Subscribed
<1>5. ASSUME NEW u \in Users, UnmountUser(u) PROVE ListenersInv'
  <2>1. user' = [user EXCEPT ![u] = [at |-> "out", effect |-> FALSE, toasts |-> <<>>]] /\ memory' = memory
    BY <1>5 DEF UnmountUser, Out
  <2>2. /\ listeners' \in Seq(Users) /\ IsInjective(listeners')
        /\ \A v : Contains(listeners', v) <=> v # u /\ Contains(listeners, v)
    <3>1. CASE user[u].at = "mounted"
      BY <1>5, <3>1 DEF UnmountUser, ListenersInv, Subscribed
    <3>2. CASE user[u].at # "mounted"
      BY <1>5, <3>2, CutOut DEF UnmountUser, Unsubscribed, ListenersInv
    <3> QED BY <3>1, <3>2
  <2> QED BY <2>1, <2>2 DEF ListenersInv, Subscribed
<1>6. CASE UNCHANGED toastVars
  BY <1>6 DEF toastVars, ListenersInv, Subscribed
<1>7. ToastStoreNext \/ ToastCloseNext => \E toasts : Dispatch(toasts)
  BY DEF ToastStoreNext, ToastCloseNext, AddToast, UpdateToast, DismissToast, DismissAll, ToastClose, RemoveToast
<1> QED BY <1>1, <1>2, <1>3, <1>4, <1>5, <1>6, <1>7, <1>8, ToastsMove DEF UseToastNext, ToasterNext

(* Whatever is added, updated, dismissed and removed while components come, render late, change *)
(* their subscription and go: the subscribers are those whose first effect has run, once each;  *)
(* who has rendered since shows the store or will render again; and the toasts with a remove    *)
(* timer are those that were dismissed.                                                         *)
THEOREM ToastsAreSound == Spec => []ToastsSound
<1>1. Init => StoreInv /\ ShownAreKnown /\ ListenersInv
  <2> SUFFICES ASSUME ToastsInit PROVE StoreInv /\ ShownAreKnown /\ ListenersInv
    BY DEF Init
  <2>1. StoreInv
    BY DEF ToastsInit, StoreInv
  <2>2. ListenersInv
    BY DEF ToastsInit, ListenersInv, Subscribed, Contains, IsInjective, Out
  <2>3. ShownAreKnown
    BY DEF ToastsInit, ShownAreKnown, Out
  <2> QED BY <2>1, <2>2, <2>3
<1>2. StoreInv /\ ListenersInv => ToastsSound
  BY DEF StoreInv, ListenersInv, Subscribed, ToastsSound, Timed
<1> QED BY <1>1, <1>2, StoreStep, ShownStep, ListenersStep, PTL DEF Spec

(***************************************************************************)
(* Scrolling                                                               *)
(***************************************************************************)

LEMMA ScrollingMoves == [Next]_vars => ScrollingNext \/ UNCHANGED scrollVars
<1> SUFFICES ASSUME [Next]_vars PROVE ScrollingNext \/ UNCHANGED scrollVars
  OBVIOUS
<1>1. ScrollingPart \/ UNCHANGED scrollVars
  BY DEF Next, vars, FeedPart, TransientsPart, IdentityPart, FetchPart, PreviewsPart, ToastsPart,
         SidebarPart, CarouselPart, ChartsPart, FormsPart
<1> QED BY <1>1 DEF ScrollingPart

(* The view and what it heads for are within the content; the handler knows of a follower that *)
(* it is one, or is about to be called; and a follower that is known and not on its way to the *)
(* end is there.                                                                               *)
ScrollingInv ==
  /\ scrollEnd \in Nat /\ scrollTop \in 0 .. scrollEnd
  /\ target \in {NoTarget} \cup 0 .. scrollEnd
  /\ scrollEvent \in BOOLEAN /\ isAtBottom \in BOOLEAN
  /\ reader = "follows" => /\ isAtBottom \/ scrollEvent
                           /\ isAtBottom => NearBottom \/ scrollEvent \/ target # NoTarget

LEMMA ScrollingStep == ScrollingInv /\ [Next]_vars => ScrollingInv'
<1> SUFFICES ASSUME ScrollingInv, ScrollingNext PROVE ScrollingInv'
  BY ScrollingMoves DEF ScrollingInv, NearBottom, scrollVars
<1> USE ScrollAssumption DEF NoTarget
<1>1. ASSUME NEW end \in 0 .. MaxScroll, FeedRenders(end) PROVE ScrollingInv'
  <2>1. /\ scrollEnd' = end /\ end \in Nat
        /\ scrollTop' \in 0 .. end
        /\ scrollEvent' \in BOOLEAN /\ (scrollEvent => scrollEvent')
        /\ UNCHANGED isAtBottom
    BY <1>1 DEF FeedRenders, Layout, ScrollingInv
  <2>2. CASE isAtBottom
    <3>1. target' = IF scrollTop' = scrollEnd' THEN NoTarget ELSE scrollEnd'
      BY <1>1, <2>2 DEF FeedRenders, FollowEffect, ScrollToBottom
    <3>2. target' \in {NoTarget} \cup 0 .. end
      BY <2>1, <3>1
    <3>3. target' = NoTarget => scrollTop' = end
      BY <2>1, <3>1
    <3>4. scrollTop' = end => NearBottom'
      BY <2>1 DEF NearBottom
    <3> QED BY <2>1, <2>2, <3>2, <3>3, <3>4 DEF ScrollingInv
  <2>3. CASE ~isAtBottom
    <3>1. target' = IF target > scrollEnd' THEN scrollEnd' ELSE target
      BY <1>1, <2>3 DEF FeedRenders, FollowEffect
    <3>2. target' \in {NoTarget} \cup 0 .. end
      BY <2>1, <3>1 DEF ScrollingInv
    <3>3. reader' = reader
      BY <1>1, <2>3 DEF FeedRenders
    <3> QED BY <2>1, <2>3, <3>2, <3>3 DEF ScrollingInv
  <2> QED BY <2>2, <2>3
<1>2. ASSUME NEW end \in 0 .. MaxScroll, ConversationRenders(end) PROVE ScrollingInv'
  BY <1>2 DEF ConversationRenders, ScrollingInv, NearBottom
<1>3. ASSUME NEW top \in 0 .. scrollEnd, ReaderScrolls(top) PROVE ScrollingInv'
  BY <1>3 DEF ReaderScrolls, ScrollingInv
<1>6. ASSUME NEW end \in 0 .. MaxScroll, ResizeView(end) PROVE ScrollingInv'
  <2>1. /\ scrollEnd' = end /\ end \in Nat /\ scrollTop' \in 0 .. end
        /\ scrollEvent' \in BOOLEAN /\ (scrollEvent => scrollEvent')
        /\ target' \in {NoTarget} \cup 0 .. end
        /\ UNCHANGED isAtBottom
    BY <1>6 DEF ResizeView, Layout, ScrollingInv
  <2>2. reader' = "follows" => /\ reader = "follows"
                              /\ ~(target' = NoTarget /\ ~scrollEvent' /\ ~NearBottom')
    BY <1>6 DEF ResizeView
  <2> QED BY <2>1, <2>2 DEF ScrollingInv
<1>4. CASE SmoothStep
  <2>1. /\ target \in 0 .. scrollEnd /\ scrollEvent' = TRUE /\ UNCHANGED <<scrollEnd, isAtBottom>>
        /\ scrollTop' = IF target > scrollTop THEN scrollTop + 1
                        ELSE IF target < scrollTop THEN scrollTop - 1 ELSE scrollTop
        /\ target' = IF scrollTop' = target THEN NoTarget ELSE target
    BY <1>4 DEF SmoothStep, ScrollingInv
  <2>2. scrollTop' \in 0 .. scrollEnd
    BY <2>1 DEF ScrollingInv
  <2> QED BY <2>1, <2>2 DEF ScrollingInv
<1>5. CASE HandleScroll
  <2>1. /\ isAtBottom' = NearBottom /\ UNCHANGED <<scrollEnd, scrollTop>> /\ scrollEvent' = FALSE
        /\ target' \in {target, NoTarget, scrollEnd}
        /\ reader' = "follows" => NearBottom
    BY <1>5 DEF HandleScroll, ScrollToBottom
  <2>2. NearBottom \in BOOLEAN /\ NearBottom' = NearBottom
    BY <2>1 DEF NearBottom
  <2>3. target' \in {NoTarget} \cup 0 .. scrollEnd'
    BY <2>1 DEF ScrollingInv
  <2>4. reader' = "follows" => isAtBottom' /\ NearBottom'
    BY <2>1, <2>2
  <2> QED BY <2>1, <2>2, <2>3, <2>4 DEF ScrollingInv
<1> QED BY <1>1, <1>2, <1>3, <1>4, <1>5, <1>6 DEF ScrollingNext

(***************************************************************************)
(* Carousel                                                                *)
(***************************************************************************)

LEMMA CarouselMoves ==
  [Next]_vars => CarouselsNext \/ CarouselButtonsNext \/ UNCHANGED carouselVars
<1> SUFFICES ASSUME [Next]_vars
             PROVE  CarouselsNext \/ CarouselButtonsNext \/ UNCHANGED carouselVars
  OBVIOUS
<1>1. CarouselPart \/ UNCHANGED carouselVars
  BY DEF Next, vars, FeedPart, TransientsPart, IdentityPart, FetchPart, ScrollingPart, PreviewsPart,
         ToastsPart, SidebarPart, ChartsPart, FormsPart
<1> QED BY <1>1 DEF CarouselPart, CarouselAtWork, CarouselButtons, MockupCarousel, MockupCarouselButtons

(* An Embla whose effects have run is listened to. *)
CarouselInv ==
  /\ api \in {"none", "new", "used"}
  /\ api = "used" => heard = {"reInit", "select"}
  /\ ButtonsTrue

LEMMA CarouselStep == CarouselInv /\ [Next]_vars => CarouselInv'
<1> SUFFICES ASSUME CarouselInv, CarouselsNext \/ CarouselButtonsNext PROVE CarouselInv'
  <2>1. CASE UNCHANGED carouselVars
    BY <2>1 DEF CarouselInv, ButtonsTrue, carouselVars, emblaVars
  <2> QED BY <2>1, CarouselMoves
<1>1. OnSelect => ButtonsTrue'
  BY DEF OnSelect, ButtonsTrue
<1>2. CASE EmblaMade
  BY <1>2 DEF EmblaMade, CarouselInv, ButtonsTrue
<1>3. CASE ApiEffects
  BY <1>1, <1>3 DEF ApiEffects, ListenTo, CarouselInv
<1>4. ASSUME NEW d, ScrollBy(d) PROVE CarouselInv'
  <2>1. api' = api /\ heard' = heard /\ Emit("select")
    BY <1>4 DEF ScrollBy
  <2>2. CASE api = "used"
    BY <1>1, <2>1, <2>2 DEF Emit, CarouselInv
  <2>3. CASE api # "used"
    BY <2>1, <2>3 DEF CarouselInv, ButtonsTrue
  <2> QED BY <2>2, <2>3
<1>5. ASSUME NEW n, NEW loop, ReInit(n, loop) PROVE CarouselInv'
  <2>1. api' = api /\ heard' = heard /\ (api = "none" \/ Emit("reInit"))
    BY <1>5 DEF ReInit
  <2>2. CASE api = "used"
    BY <1>1, <2>1, <2>2 DEF Emit, CarouselInv
  <2>3. CASE api # "used"
    BY <2>1, <2>3 DEF CarouselInv, ButtonsTrue
  <2> QED BY <2>2, <2>3
<1>6. ASSUME NEW s, ParentScrollsTo(s) PROVE CarouselInv'
  BY <1>4, <1>6 DEF ParentScrollsTo
<1> QED BY <1>2, <1>3, <1>4, <1>5, <1>6
        DEF CarouselsNext, CarouselButtonsNext, CarouselKeyDown, CarouselPrevious, CarouselNext

(***************************************************************************)
(* Sidebar                                                                 *)
(***************************************************************************)

LEMMA SidebarMoves ==
  [Next]_vars => \/ SidebarWindowNext \/ SidebarProviderNext \/ SheetDismissed \/ ClickToggle
                 \/ UNCHANGED sidebarVars
<1> SUFFICES ASSUME [Next]_vars
             PROVE  \/ SidebarWindowNext \/ SidebarProviderNext \/ SheetDismissed \/ ClickToggle
                    \/ UNCHANGED sidebarVars
  OBVIOUS
<1>1. SidebarPart \/ UNCHANGED sidebarVars
  BY DEF Next, vars, FeedPart, TransientsPart, IdentityPart, FetchPart, ScrollingPart, PreviewsPart,
         ToastsPart, CarouselPart, ChartsPart, FormsPart
<1> QED BY <1>1 DEF SidebarPart, SidebarWindow, SidebarSheet, SidebarProvider, SidebarClick,
                    MockupSidebarWindow, MockupSidebarSheet, MockupSidebarProvider, MockupSidebarClick

(* The closure of the last render has captured that render; only a parent is asked. *)
SidebarInv ==
  /\ controlled \in BOOLEAN /\ isMobile \in BOOLEAN /\ narrow \in BOOLEAN /\ open \in BOOLEAN
  /\ toggle = Captured(isMobile, open)
  /\ keyToggle \in [isMobile : BOOLEAN, open : BOOLEAN] /\ asked \subseteq BOOLEAN
  /\ ~controlled => asked = {} /\ cookie \subseteq {open}

LEMMA RendersCapture ==
  ASSUME NEW m, NEW o, SidebarInv, Render(m, o)
  PROVE  isMobile' = m /\ open' = o /\ toggle' = Captured(m, o)
<1>1. CASE <<m, o>> = <<toggle.isMobile, toggle.open>>
  <2>1. m = isMobile /\ o = open
    BY <1>1 DEF SidebarInv, Captured
  <2> QED BY <1>1, <2>1 DEF Render, Memoized, SidebarInv
<1>2. CASE <<m, o>> # <<toggle.isMobile, toggle.open>>
  BY <1>2 DEF Render, Memoized
<1> QED BY <1>1, <1>2

(* What setOpen does, of whoever calls it. *)
LEMMA OpenIsSet ==
  ASSUME SidebarInv, NEW value \in BOOLEAN, SetOpen(value), keyToggle' = toggle'
  PROVE  SidebarInv'
<1>1. cookie' = {value} /\ UNCHANGED <<controlled, narrow>>
  BY DEF SetOpen, layoutVars
<1>2. CASE controlled
  <2>1. UNCHANGED <<isMobile, open, toggle>>
    BY <1>2 DEF SetOpen
  <2>2. asked' = {value}
    BY <1>2 DEF SetOpen
  <2> QED BY <1>1, <1>2, <2>1, <2>2 DEF SidebarInv, Captured
<1>3. CASE ~controlled
  <2>1. isMobile' = isMobile /\ open' = value /\ toggle' = Captured(isMobile, value) /\ asked' = asked
    BY <1>3, RendersCapture DEF SetOpen
  <2> QED BY <1>1, <1>3, <2>1 DEF SidebarInv, Captured
<1> QED BY <1>2, <1>3

LEMMA SidebarStep == SidebarInv /\ [Next]_vars => SidebarInv'
<1> SUFFICES ASSUME SidebarInv, [Next]_vars PROVE SidebarInv'
  OBVIOUS
<1>1. CASE Resize
  BY <1>1 DEF Resize, layoutVars, SidebarInv, Captured
<1>2. CASE UseIsMobile
  <2>1. isMobile' = narrow /\ open' = open /\ toggle' = Captured(narrow, open)
    BY <1>2, RendersCapture DEF UseIsMobile
  <2> QED BY <1>2, <2>1 DEF UseIsMobile, layoutVars, SidebarInv, Captured
<1>3. CASE ListenKeys
  BY <1>3 DEF ListenKeys, layoutVars, SidebarInv, Captured
<1>4. ASSUME NEW value, SetOpenMobile(value) PROVE SidebarInv'
  BY <1>4 DEF SetOpenMobile, layoutVars, SidebarInv, Captured
<1>5. CASE ClickToggle
  <2>1. (~toggle.open) \in BOOLEAN
    OBVIOUS
  <2>2. CASE toggle.isMobile
    BY <1>4, <1>5, <2>2 DEF ClickToggle, ToggleSidebar
  <2>3. CASE ~toggle.isMobile
    BY <1>5, <2>1, <2>3, OpenIsSet DEF ClickToggle, ToggleSidebar
  <2> QED BY <2>2, <2>3
<1>6. CASE HandleKeyDown
  <2>1. (~keyToggle.open) \in BOOLEAN
    OBVIOUS
  <2>2. CASE keyToggle.isMobile
    BY <1>4, <1>6, <2>2 DEF HandleKeyDown, ToggleSidebar
  <2>3. CASE ~keyToggle.isMobile
    BY <1>6, <2>1, <2>3, OpenIsSet DEF HandleKeyDown, ToggleSidebar
  <2> QED BY <2>2, <2>3
<1>7. ASSUME NEW value \in BOOLEAN, ContextSetOpen(value) PROVE SidebarInv'
  BY <1>7, OpenIsSet DEF ContextSetOpen
<1>8. CASE SheetDismissed
  BY <1>4, <1>8 DEF SheetDismissed
<1>9. CASE ParentAnswers
  <2>1. PICK o \in asked \cup {open} : Render(isMobile, o)
    BY <1>9 DEF ParentAnswers
  <2>2. isMobile' = isMobile /\ open' = o /\ toggle' = Captured(isMobile, o)
    BY <2>1, RendersCapture
  <2>3. controlled /\ asked' = {} /\ UNCHANGED <<controlled, narrow, keyToggle>>
    BY <1>9 DEF ParentAnswers, SidebarInv, layoutVars
  <2> QED BY <2>1, <2>2, <2>3 DEF SidebarInv, Captured
<1>10. CASE UNCHANGED sidebarVars
  BY <1>10 DEF sidebarVars, layoutVars, SidebarInv, Captured
<1> QED BY <1>1, <1>2, <1>3, <1>5, <1>6, <1>7, <1>8, <1>9, <1>10, SidebarMoves
        DEF SidebarWindowNext, SidebarProviderNext

LEMMA SidebarStarts == Init => SidebarInv
<1>1. Init => SidebarInit
  BY DEF Init
<1>2. SidebarInit => SidebarInv
  <2> SUFFICES ASSUME SidebarInit PROVE SidebarInv
    OBVIOUS
  <2>1. /\ controlled \in BOOLEAN /\ isMobile = FALSE /\ narrow \in BOOLEAN /\ open \in BOOLEAN
        /\ asked = {} /\ cookie = {} /\ toggle = Captured(FALSE, open) /\ keyToggle = toggle
    BY DEF SidebarInit
  <2>2. Captured(FALSE, open) \in [isMobile : BOOLEAN, open : BOOLEAN]
    BY <2>1 DEF Captured
  <2>3. toggle = Captured(isMobile, open)
    BY <2>1
  <2> QED BY <2>1, <2>2, <2>3 DEF SidebarInv
<1> QED BY <1>1, <1>2

(* However the layout, the parent and the keyboard have changed the state since the last       *)
(* render: a click on the trigger or the rail does the opposite of what is on the screen.      *)
THEOREM ClicksWork == Spec => ClickWorks
<1> DEFINE Works == ClickToggle => IF isMobile THEN openMobile' = ~openMobile
                                   ELSE IF controlled THEN asked' = {~open} ELSE open' = ~open
<1>1. SidebarInv => Works
  <2> SUFFICES ASSUME SidebarInv, ClickToggle PROVE Works
    OBVIOUS
  <2>1. toggle.isMobile = isMobile /\ toggle.open = open
    BY DEF SidebarInv, Captured
  <2>2. CASE isMobile
    BY <2>1, <2>2 DEF ClickToggle, ToggleSidebar, SetOpenMobile
  <2>3. CASE ~isMobile
    <3>1. SetOpen(~open)
      BY <2>1, <2>3 DEF ClickToggle, ToggleSidebar
    <3>2. CASE controlled
      BY <2>3, <3>1, <3>2 DEF SetOpen
    <3>3. CASE ~controlled
      BY <2>3, <3>1, <3>3 DEF SetOpen, Render
    <3> QED BY <3>2, <3>3
  <2> QED BY <2>2, <2>3
<1> QED BY <1>1, SidebarStarts, SidebarStep, PTL DEF Spec, ClickWorks

(***************************************************************************)
(* Charts                                                                  *)
(***************************************************************************)

LEMMA ChartsMove == [Next]_vars => ChartContainerNext \/ ChartTooltipNext \/ UNCHANGED chartVars
<1> SUFFICES ASSUME [Next]_vars
             PROVE  ChartContainerNext \/ ChartTooltipNext \/ UNCHANGED chartVars
  OBVIOUS
<1>1. ChartsPart \/ UNCHANGED chartVars
  BY DEF Next, vars, FeedPart, TransientsPart, IdentityPart, FetchPart, ScrollingPart, PreviewsPart,
         ToastsPart, SidebarPart, CarouselPart, FormsPart
<1> QED BY <1>1 DEF ChartsPart, ChartContainers, ChartTooltips, MockupChartContainers, MockupChartTooltips

(* The memo has the dependencies and the value of the last render. *)
ChartsInv ==
  /\ payload \in Payloads
  /\ tooltipLabel = [deps |-> TooltipDeps, value |-> TooltipLabel]

(* The value depends on nothing but the dependencies and the props that stay. *)
LEMMA LabelFromDeps ==
  ASSUME options' = options, TooltipDeps' = TooltipDeps
  PROVE  TooltipLabel' = TooltipLabel
<1>1. UNCHANGED <<label, payload, config>>
  BY DEF TooltipDeps
<1> QED BY <1>1 DEF TooltipLabel, LabelOf, GetPayloadConfig

LEMMA RenderKeepsMemo ==
  ASSUME tooltipLabel = [deps |-> TooltipDeps, value |-> TooltipLabel], options' = options,
         TooltipRender
  PROVE  tooltipLabel' = [deps |-> TooltipDeps, value |-> TooltipLabel]'
<1>1. CASE TooltipDeps' = TooltipDeps
  BY <1>1, LabelFromDeps DEF TooltipRender
<1>2. CASE TooltipDeps' # TooltipDeps
  BY <1>2 DEF TooltipRender
<1> QED BY <1>1, <1>2

LEMMA ChartsStep == ChartsInv /\ [Next]_vars => ChartsInv'
<1> SUFFICES ASSUME ChartsInv, [Next]_vars PROVE ChartsInv'
  OBVIOUS
<1>1. ASSUME NEW c, ChartContainer(c) PROVE ChartsInv'
  BY <1>1, RenderKeepsMemo DEF ChartContainer, ChartsInv
<1>2. ASSUME NEW a, NEW p \in Payloads, NEW l, ChartTooltip(a, p, l) PROVE ChartsInv'
  BY <1>2, RenderKeepsMemo DEF ChartTooltip, ChartsInv
<1>3. CASE UNCHANGED chartVars
  <2>1. UNCHANGED <<options, config, payload, label, tooltipLabel>>
    BY <1>3 DEF chartVars
  <2>2. TooltipDeps' = TooltipDeps
    BY <2>1 DEF TooltipDeps
  <2> QED BY <2>1, <2>2, LabelFromDeps DEF ChartsInv
<1> QED BY <1>1, <1>2, <1>3, ChartsMove DEF ChartContainerNext, ChartTooltipNext

LEMMA PayloadsAreSequences == Payloads \subseteq Seq(Items)
<1> SUFFICES ASSUME NEW p \in Payloads PROVE p \in Seq(Items)
  OBVIOUS
<1>1. CASE p = <<>>
  BY <1>1
<1>2. CASE \E i \in Items : p = <<i>>
  BY <1>2
<1>3. CASE \E i \in Items, k \in Keys : p = <<i, [dataKey |-> k, alias |-> None, hidden |-> FALSE]>>
  <2>1. PICK i \in Items, k \in Keys : p = <<i, [dataKey |-> k, alias |-> None, hidden |-> FALSE]>>
    BY <1>3
  <2>2. [dataKey |-> k, alias |-> None, hidden |-> FALSE] \in Items
    BY DEF Items
  <2> QED BY <2>1, <2>2
<1> QED BY <1>1, <1>2, <1>3 DEF Payloads

LEMMA TooltipIsTrue == ChartsInv => TooltipTrue
<1> SUFFICES ASSUME ChartsInv PROVE TooltipTrue
  OBVIOUS
<1>1. payload \in Seq(Items)
  BY PayloadsAreSequences DEF ChartsInv
<1>2. tooltipLabel.value = TooltipLabel
  BY DEF ChartsInv
<1>3. ASSUME active, payload # <<>>, ~(NestLabel /\ (Rows = {} \/ options.formatter))
      PROVE  \E place \in {0} \cup Rows : LabelPlaces = {place}
  <2>1. CASE ~NestLabel
    <3>1. LabelPlaces = {0}
      BY <1>3, <2>1 DEF LabelPlaces
    <3> QED BY <3>1
  <2>2. CASE NestLabel
    <3>1. Rows \subseteq {1}
      BY <1>1, <2>2 DEF Rows, NestLabel
    <3>2. Rows = {1} /\ ~options.formatter
      BY <1>3, <2>2, <3>1
    <3>3. LabelPlaces = {1}
      BY <1>3, <2>2, <3>2 DEF LabelPlaces
    <3> QED BY <3>2, <3>3
  <2> QED BY <2>1, <2>2
<1>4. ASSUME NEW i \in Rows, payload[i].alias = None, LegendName(payload[i].dataKey) # <<>>
      PROVE  RowName(i) = LegendName(payload[i].dataKey)
  <2> DEFINE k == payload[i].dataKey
  <2>1. GetPayloadConfig(payload[i], Or(options.nameKey, k))
          = GetPayloadConfig([dataKey |-> k, alias |-> None], Or(options.nameKey, k))
    BY <1>4 DEF GetPayloadConfig
  <2> QED BY <1>4, <2>1 DEF RowName, LegendName
<1> QED BY <1>2, <1>3, <1>4 DEF TooltipTrue

(***************************************************************************)
(* Forms                                                                   *)
(***************************************************************************)

LEMMA FormsMove == [Next]_vars => ValidatedNext \/ FieldErrorNext \/ UNCHANGED formVars
<1> SUFFICES ASSUME [Next]_vars PROVE ValidatedNext \/ FieldErrorNext \/ UNCHANGED formVars
  OBVIOUS
<1>1. FormsPart \/ UNCHANGED formVars
  BY DEF Next, vars, FeedPart, TransientsPart, IdentityPart, FetchPart, ScrollingPart, PreviewsPart,
         ToastsPart, SidebarPart, CarouselPart, ChartsPart
<1> QED BY <1>1 DEF FormsPart, FormFields, FieldErrors, MockupFormFields, MockupFieldErrors

FormsInv ==
  /\ fieldErrors \in [Fields -> {"none", "silent", "text"}]
  /\ children \in BOOLEAN
  /\ fieldContent = [deps |-> FieldDeps, value |-> FieldContent]

LEMMA FormsStep == FormsInv /\ [Next]_vars => FormsInv'
<1> SUFFICES ASSUME FormsInv, [Next]_vars PROVE FormsInv'
  OBVIOUS
<1>1. FieldDeps' = FieldDeps => FieldContent' = FieldContent
  BY DEF FieldDeps, FieldContent
<1>2. ASSUME NEW f \in Fields, NEW e \in {"none", "silent", "text"}, Validated(f, e) PROVE FormsInv'
  <2>1. UNCHANGED <<children, errors, fieldContent>> /\ FieldDeps' = FieldDeps
    BY <1>2 DEF Validated, FieldDeps
  <2>2. fieldErrors' \in [Fields -> {"none", "silent", "text"}]
    BY <1>2 DEF Validated, FormsInv
  <2> QED BY <1>1, <2>1, <2>2 DEF FormsInv
<1>3. ASSUME NEW c \in BOOLEAN, NEW es, FieldError(c, es) PROVE FormsInv'
  <2>1. /\ children' = c /\ fieldErrors' = fieldErrors
        /\ fieldContent' = IF FieldDeps' = fieldContent.deps THEN fieldContent
                           ELSE [deps |-> FieldDeps', value |-> FieldContent']
    BY <1>3 DEF FieldError
  <2>2. fieldContent' = [deps |-> FieldDeps', value |-> FieldContent']
    BY <1>1, <2>1 DEF FormsInv
  <2> QED BY <2>1, <2>2 DEF FormsInv
<1>4. CASE UNCHANGED formVars
  <2>1. UNCHANGED <<fieldErrors, children, errors, fieldContent>> /\ FieldDeps' = FieldDeps
    BY <1>4 DEF formVars, FieldDeps
  <2> QED BY <1>1, <2>1 DEF FormsInv
<1> QED BY <1>2, <1>3, <1>4, FormsMove DEF ValidatedNext, FieldErrorNext

(* Only the FormMessage of a field has the id that its control is described by. *)
LEMMA MessageOfField ==
  ASSUME NEW f \in Fields, NEW g \in Fields, NEW m \in FormMessage(g),
         m.id \in FormControl(f).describedBy
  PROVE  g = f /\ HasError(f)
<1>1. m.id = <<g, "form-item-message">>
  BY DEF FormMessage, FormMessageId
<1>2. /\ FormControl(f).describedBy \subseteq {<<f, "form-item-description">>, <<f, "form-item-message">>}
      /\ ~HasError(f) => FormControl(f).describedBy = {<<f, "form-item-description">>}
  BY DEF FormControl, FormDescriptionId, FormMessageId
<1>3. "form-item-message" # "form-item-description"
  OBVIOUS
<1> QED BY <1>1, <1>2, <1>3

LEMMA ErrorIsAnnounced == FormsInv => ErrorAnnounced
<1> SUFFICES ASSUME FormsInv PROVE ErrorAnnounced
  OBVIOUS
<1>1. ASSUME NEW f \in Fields
      PROVE  LET shown == UNION {FormMessage(g) : g \in Fields}
                 read == {m \in shown : m.id \in FormControl(f).describedBy}
             IN /\ FormLabel(f).htmlFor = FormControl(f).id
                /\ FormLabel(f).destructive = FormControl(f).invalid
                /\ fieldErrors[f] = "text" => FormControl(f).invalid /\ {m.body : m \in read} = {"text"}
                /\ fieldErrors[f] = "none" => ~FormControl(f).invalid /\ read = {}
  <2> DEFINE shown == UNION {FormMessage(g) : g \in Fields}
             read == {m \in shown : m.id \in FormControl(f).describedBy}
  <2>1. /\ FormLabel(f).htmlFor = FormControl(f).id
        /\ FormLabel(f).destructive = FormControl(f).invalid
    BY DEF FormLabel, FormControl
  <2>2. FormControl(f).invalid = HasError(f)
    BY DEF FormControl
  <2>3. \A m \in read : m \in FormMessage(f) /\ HasError(f)
    BY MessageOfField
  <2>4. ASSUME fieldErrors[f] = "none" PROVE read = {} /\ ~HasError(f)
    BY <2>3, <2>4 DEF HasError
  <2>5. ASSUME fieldErrors[f] = "text" PROVE HasError(f) /\ {m.body : m \in read} = {"text"}
    <3> DEFINE said == [id |-> FormMessageId(f), body |-> "text"]
    <3>1. HasError(f)
      BY <2>5 DEF HasError
    <3>2. FormMessage(f) = {said}
      BY <2>5, <3>1 DEF FormMessage
    <3>3. said \in shown
      BY <3>2
    <3>4. said.id \in FormControl(f).describedBy
      BY <3>1 DEF FormControl
    <3>5. read = {said}
      BY <2>3, <3>2, <3>3, <3>4
    <3>6. {m.body : m \in {said}} = {"text"}
      OBVIOUS
    <3> QED BY <3>1, <3>5, <3>6
  <2> HIDE DEF read, shown
  <2>6. /\ fieldErrors[f] = "text" => FormControl(f).invalid /\ {m.body : m \in read} = {"text"}
        /\ fieldErrors[f] = "none" => ~FormControl(f).invalid /\ read = {}
    BY <2>2, <2>4, <2>5
  <2> QED BY <2>1, <2>6 DEF read, shown
<1>2. fieldContent.value.of = IF children \/ errors = NoErrors THEN {}
                              ELSE {i \in DOMAIN errors : errors[i] = "text"}
  <2>1. fieldContent.value = FieldContent
    BY DEF FormsInv
  <2>2. CASE children
    BY <2>1, <2>2 DEF FieldContent
  <2>3. CASE ~children /\ errors = NoErrors
    BY <2>1, <2>3 DEF FieldContent
  <2>4. CASE ~children /\ errors # NoErrors
    BY <2>1, <2>4 DEF FieldContent
  <2> QED BY <2>2, <2>3, <2>4
<1> QED BY <1>1, <1>2 DEF ErrorAnnounced

-----------------------------------------------------------------------------
LEMMA PartsStart ==
  Init => ScrollingInv /\ CarouselInv /\ SidebarInv /\ ChartsInv /\ FormsInv
<1> SUFFICES ASSUME Init PROVE ScrollingInv /\ CarouselInv /\ SidebarInv /\ ChartsInv /\ FormsInv
  OBVIOUS
<1>1. ScrollingInit /\ CarouselInit
  BY DEF Init
<1>2. ScrollingInv
  <2>1. /\ scrollEnd = 0 /\ scrollTop = 0 /\ target = NoTarget /\ scrollEvent = FALSE /\ isAtBottom = TRUE
    BY <1>1 DEF ScrollingInit
  <2>2. NearBottom
    BY <2>1 DEF NearBottom
  <2>3. 0 \in 0 .. 0
    OBVIOUS
  <2> QED BY <2>1, <2>2, <2>3 DEF ScrollingInv
<1>3. CarouselInv
  BY <1>1 DEF CarouselInit, CarouselInv, ButtonsTrue
<1>4. SidebarInv
  BY SidebarStarts
<1>5. ChartsInv
  <2>1. \E optionsOf, configs : ChartsInit(optionsOf, configs)
    BY DEF Init
  <2> QED BY <2>1 DEF ChartsInit, ChartsInv, Payloads
<1>6. FormsInv
  <2>1. \E hints : FormsInit(hints)
    BY DEF Init
  <2> QED BY <2>1 DEF FormsInit, FormsInv
<1> QED BY <1>2, <1>3, <1>4, <1>5, <1>6

(* Whatever has been scrolled, resized, hovered, validated or made anew meanwhile: what a part *)
(* has copied, memoized or noted is what its source says now.  (For the feed: a reader whom    *)
(* none of the three losses named there has hit sees the end and is known to follow it.)       *)
THEOREM CopiesAreCurrent == Spec => []DerivedIsCurrent
<1>1. SidebarInv => AlwaysNamed
  BY DEF SidebarInv, AlwaysNamed, OnScreen, DataCollapsible, State, ButtonTextShown, GroupPartsShown,
         MenuPartsShown, SubMenuShown, Tooltips, TooltipShown
<1>3. ScrollingInv => FollowerSeesEnd
  BY DEF ScrollingInv, FollowerSeesEnd
<1>2. ScrollingInv /\ CarouselInv /\ SidebarInv /\ ChartsInv /\ FormsInv => DerivedIsCurrent
  BY <1>1, <1>3, TooltipIsTrue, ErrorIsAnnounced DEF CarouselInv, DerivedIsCurrent
<1> QED BY <1>2, PartsStart, ScrollingStep, CarouselStep, SidebarStep, ChartsStep, FormsStep,
           PTL DEF Spec
==================================================================================
