------------------------ MODULE ConversationFeedProofs ------------------------
(***************************************************************************)
(* Lemmas about ConversationFeed: what the reducer makes of a log, record  *)
(* by record and from its beginning, and what becomes of it in the feed.   *)
(***************************************************************************)
EXTENDS ConversationFeed, SequenceTheorems, FiniteSetTheorems, TLAPS

(* Message by message and event by event, the maps have what the first n records say. *)
LastStart(l, n, m) == MaxOf(SeqsOf(l, n, m, "message_start"))

Tells(msgs, l, n, c) ==
  /\ DOMAIN msgs = Started(l, n)
  /\ \A m \in Started(l, n) :
       /\ LastStart(l, n, m) \in SeqsOf(l, n, m, "message_start")
       /\ \A s \in SeqsOf(l, n, m, "message_start") : s <= LastStart(l, n, m)
       /\ msgs[m] = MessageIn(l, n, m, c)

SystemSeqs(l, n) == {s \in 0 .. n - 1 : l[s + 1].event \in MembershipEvents}
TellsSystem(evs, l, n) ==
  /\ DOMAIN evs = SystemSeqs(l, n)
  /\ \A s \in SystemSeqs(l, n) : evs[s] = [kind |-> l[s + 1].event, agentId |-> l[s + 1].agent_id, seq |-> s]

(***************************************************************************)
(* What a log says                                                         *)
(***************************************************************************)

(* A record of a log has the fields of its event. *)
LEMMA EventFields ==
  ASSUME NEW f \in Events
  PROVE  /\ f.event \in MessageEvents \cup MembershipEvents
         /\ f.event \in MessageEvents => f.message_id \in Messages
         /\ f.event = "message_start" => f.sender_id \in Agents
         /\ f.event \in MembershipEvents => f.agent_id \in Agents
  BY DEF Events, MessageEvents, MembershipEvents

(* A sequence with one more in its last place. *)
LEMMA IsAppended ==
  ASSUME NEW V, NEW k \in Nat, NEW s \in [1 .. k -> V], NEW t \in [1 .. k + 1 -> V],
         \A i \in 1 .. k : t[i] = s[i]
  PROVE  t = Append(s, t[k + 1])
<1>1. s \in Seq(V) /\ Len(s) = k /\ t \in Seq(V) /\ Len(t) = k + 1
  OBVIOUS
<1>2. t[k + 1] \in V
  OBVIOUS
<1> DEFINE u == Append(s, t[k + 1])
<1>3. /\ u \in Seq(V) /\ Len(u) = k + 1 /\ u[k + 1] = t[k + 1]
      /\ \A i \in 1 .. k : u[i] = s[i]
  BY <1>1, <1>2, AppendProperties
<1>4. \A i \in 1 .. k + 1 : i \in 1 .. k \/ i = k + 1
  OBVIOUS
<1>5. \A i \in 1 .. k + 1 : t[i] = u[i]
  BY <1>3, <1>4
<1> HIDE DEF u
<1>6. t = u
  BY <1>1, <1>3, <1>5, SeqEqual
<1> QED BY <1>6 DEF u

(* A number above all of a set comes last when the set is put in order. *)
LEMMA InOrderOfNext ==
  ASSUME NEW S \in SUBSET Int, IsFiniteSet(S), NEW n \in Int, \A s \in S : s < n
  PROVE  InOrder(S \cup {n}) = Append(InOrder(S), n)
<1> DEFINE k == Cardinality(S)
           T == S \cup {n}
           Low(s) == Cardinality({t \in S : t < s})
           LowT(s) == Cardinality({t \in T : t < s})
           P(i) == {s \in S : Low(s) = i - 1}
           Q(i) == {s \in T : LowT(s) = i - 1}
<1>0. n \notin S
  OBVIOUS
<1>1. k \in Nat /\ Cardinality(T) = k + 1
  BY <1>0, FS_AddElement, FS_CardinalityType
<1>2. ASSUME NEW s \in S PROVE LowT(s) = Low(s) /\ Low(s) \in Nat /\ Low(s) < k
  <2> DEFINE L == {t \in S : t < s}
  <2>1. {t \in T : t < s} = L
    OBVIOUS
  <2>2. L \subseteq S \ {s}
    OBVIOUS
  <2>3. Cardinality(S \ {s}) = k - 1 /\ IsFiniteSet(S \ {s})
    BY FS_RemoveElement
  <2>4. IsFiniteSet(L) /\ Cardinality(L) <= Cardinality(S \ {s}) /\ Cardinality(L) \in Nat
    BY <2>2, <2>3, FS_Subset, FS_CardinalityType
  <2> QED BY <1>1, <2>1, <2>3, <2>4
<1>3. LowT(n) = k
  <2>1. ~(n < n) /\ \A t \in S : t < n
    OBVIOUS
  <2>2. {t \in T : t < n} = S
    BY <2>1
  <2> QED BY <2>2
<1>6. InOrder(T) = [i \in 1 .. k + 1 |-> TheOne(Q(i))]
  BY <1>1 DEF InOrder
<1>7. InOrder(S) = [i \in 1 .. k |-> TheOne(P(i))]
  BY DEF InOrder
<1> HIDE DEF k, Low, LowT
<1>4. ASSUME NEW i \in 1 .. k PROVE Q(i) = P(i)
  <2>1. LowT(n) # i - 1
    BY <1>1, <1>3
  <2>2. \A s \in S : LowT(s) = Low(s)
    BY <1>2
  <2> QED BY <2>1, <2>2
<1>5. Q(k + 1) = {n}
  <2>1. \A s \in S : LowT(s) # k
    BY <1>1, <1>2
  <2> DEFINE Here(s) == LowT(s) = (k + 1) - 1
  <2>3. \A s \in T : Here(s) <=> s = n
    <3>1. (k + 1) - 1 = k
      BY <1>1
    <3> SUFFICES ASSUME NEW s \in T PROVE LowT(s) = k <=> s = n
      BY <3>1, Zenon
    <3> QED BY <1>3, <2>1
  <2>4. n \in T
    OBVIOUS
  <2> HIDE DEF Here, T
  <2>5. {s \in T : Here(s)} = {n}
    BY <2>3, <2>4
  <2> QED BY <2>5, Zenon DEF Here
<1>8. TheOne(Q(k + 1)) = n
  BY <1>5 DEF TheOne
<1> HIDE DEF P, Q, T
<1> DEFINE V == {TheOne(Q(i)) : i \in 1 .. k + 1}
<1>9. InOrder(T) \in [1 .. k + 1 -> V]
  BY <1>6
<1>10. \A i \in 1 .. k : i \in 1 .. k + 1
  BY <1>1
<1>11. \A i \in 1 .. k : TheOne(P(i)) = TheOne(Q(i)) /\ TheOne(P(i)) \in V
  BY <1>4, <1>10
<1>12. InOrder(S) \in [1 .. k -> V]
  BY <1>7, <1>11
<1>13. \A i \in 1 .. k : InOrder(T)[i] = InOrder(S)[i]
  BY <1>6, <1>7, <1>10, <1>11
<1>14. InOrder(T)[k + 1] = n
  BY <1>1, <1>6, <1>8
<1> HIDE DEF V
<1>15. InOrder(T) = Append(InOrder(S), InOrder(T)[k + 1])
  BY <1>1, <1>9, <1>12, <1>13, IsAppended
<1> QED BY <1>14, <1>15 DEF T

LEMMA InOrderOfNone == InOrder({}) = <<>>
<1>1. Cardinality({}) = 0
  BY FS_EmptySet
<1> QED BY <1>1 DEF InOrder

(* The records of a message that count after n + 1 are those that count after n, and perhaps *)
(* the one that came.                                                                        *)
LEMMA SeqsOfRange ==
  ASSUME NEW l, NEW n \in Nat, NEW m, NEW e
  PROVE  SeqsOf(l, n, m, e) \subseteq 0 .. n - 1 /\ IsFiniteSet(SeqsOf(l, n, m, e))
<1>1. SeqsOf(l, n, m, e) \subseteq 0 .. n - 1
  BY DEF SeqsOf
<1>2. IsFiniteSet(0 .. n - 1)
  BY FS_Interval
<1> QED BY <1>1, <1>2, FS_Subset

LEMMA SeqsOfMore ==
  ASSUME NEW l, NEW n \in Nat, l[n + 1].event \in MessageEvents
  PROVE  SeqsOf(l, n + 1, l[n + 1].message_id, l[n + 1].event)
           = SeqsOf(l, n, l[n + 1].message_id, l[n + 1].event) \cup {n}
<1>1. 0 .. n + 1 - 1 = (0 .. n - 1) \cup {n}
  OBVIOUS
<1> QED BY <1>1 DEF SeqsOf

LEMMA SeqsOfKeep ==
  ASSUME NEW l, NEW n \in Nat, NEW m, NEW e,
         l[n + 1].event # e \/ l[n + 1].event \notin MessageEvents \/ l[n + 1].message_id # m
  PROVE  SeqsOf(l, n + 1, m, e) = SeqsOf(l, n, m, e)
<1>1. 0 .. n + 1 - 1 = (0 .. n - 1) \cup {n}
  OBVIOUS
<1> QED BY <1>1 DEF SeqsOf

LEMMA SeqsOfSame ==
  ASSUME NEW l, NEW l2, NEW n \in Nat, \A i \in 1 .. n : l2[i] = l[i], NEW m, NEW e
  PROVE  SeqsOf(l2, n, m, e) = SeqsOf(l, n, m, e)
<1>1. \A s \in 0 .. n - 1 : s + 1 \in 1 .. n
  OBVIOUS
<1>2. \A s \in 0 .. n - 1 : l2[s + 1] = l[s + 1]
  BY <1>1
<1> QED BY <1>2 DEF SeqsOf

(* MessageIn, its parts named. *)
After(l, n, m, e) == {s \in SeqsOf(l, n, m, e) : s > LastStart(l, n, m)}
Terminal(l, n, m) == After(l, n, m, "message_end") \cup After(l, n, m, "message_abort")

(* Whether the log leaves the message streaming, and whether it ended complete. *)
Verdict(l, n, m, streaming, complete) ==
  /\ streaming <=> Terminal(l, n, m) = {}
  /\ complete <=> /\ Terminal(l, n, m) # {}
                  /\ MaxOf(Terminal(l, n, m)) \in After(l, n, m, "message_end")

Entry(m, sender, c, text, streaming, complete, s) ==
  [id |-> m, agentId |-> sender, conversationId |-> c, content |-> text, isStreaming |-> streaming,
   streamComplete |-> complete, seq |-> s]

LEMMA SomeVerdict ==
  ASSUME NEW l, NEW n, NEW m
  PROVE  \E i \in BOOLEAN, p \in BOOLEAN : Verdict(l, n, m, i, p)
<1> DEFINE streaming == Terminal(l, n, m) = {}
           complete == Terminal(l, n, m) # {} /\ MaxOf(Terminal(l, n, m)) \in After(l, n, m, "message_end")
<1>1. Verdict(l, n, m, streaming, complete)
  BY DEF Verdict
<1>2. streaming \in BOOLEAN /\ complete \in BOOLEAN
  OBVIOUS
<1> QED BY <1>1, <1>2, Zenon

LEMMA MessageInParts ==
  ASSUME NEW l, NEW n, NEW m, NEW c, NEW i \in BOOLEAN, NEW p \in BOOLEAN, Verdict(l, n, m, i, p)
  PROVE  MessageIn(l, n, m, c) =
           Entry(m, l[LastStart(l, n, m) + 1].sender_id, c, InOrder(After(l, n, m, "message_append")),
                 i, p, LastStart(l, n, m))
<1>1. /\ i = (Terminal(l, n, m) = {})
      /\ p = (/\ Terminal(l, n, m) # {}
              /\ MaxOf(Terminal(l, n, m)) \in After(l, n, m, "message_end"))
  BY DEF Verdict
<1> QED BY <1>1, Zenon DEF MessageIn, LastStart, After, Terminal, Entry

LEMMA MaxOfNext ==
  ASSUME NEW n \in Nat, NEW S \in SUBSET (0 .. n - 1)
  PROVE  MaxOf(S \cup {n}) = n
<1>1. \A t \in S \cup {n} : t <= n
  OBVIOUS
<1>2. \A s \in S : ~(n <= s)
  OBVIOUS
<1> QED BY <1>1, <1>2 DEF MaxOf

(* A record of another message, or of none, says nothing of m. *)
LEMMA NextOther ==
  ASSUME NEW l, NEW n \in Nat, NEW m, NEW c,
         l[n + 1].event \notin MessageEvents \/ l[n + 1].message_id # m
  PROVE  /\ \A e : SeqsOf(l, n + 1, m, e) = SeqsOf(l, n, m, e)
         /\ LastStart(l, n + 1, m) = LastStart(l, n, m)
         /\ MessageIn(l, n + 1, m, c) = MessageIn(l, n, m, c)
<1>1. \A e : SeqsOf(l, n + 1, m, e) = SeqsOf(l, n, m, e)
  BY SeqsOfKeep
<1>2. LastStart(l, n + 1, m) = LastStart(l, n, m)
  BY <1>1 DEF LastStart
<1>3. \A e : After(l, n + 1, m, e) = After(l, n, m, e)
  BY <1>1, <1>2 DEF After
<1>4. Terminal(l, n + 1, m) = Terminal(l, n, m)
  BY <1>3 DEF Terminal
<1>5. PICK i \in BOOLEAN, p \in BOOLEAN : Verdict(l, n, m, i, p)
  BY SomeVerdict
<1>6. Verdict(l, n + 1, m, i, p)
  BY <1>3, <1>4, <1>5 DEF Verdict
<1>7. MessageIn(l, n, m, c) = Entry(m, l[LastStart(l, n, m) + 1].sender_id, c,
                                    InOrder(After(l, n, m, "message_append")), i, p, LastStart(l, n, m))
  BY <1>5, MessageInParts
<1>8. MessageIn(l, n + 1, m, c) = Entry(m, l[LastStart(l, n + 1, m) + 1].sender_id, c,
                                        InOrder(After(l, n + 1, m, "message_append")), i, p,
                                        LastStart(l, n + 1, m))
  BY <1>6, MessageInParts
<1> QED BY <1>1, <1>2, <1>3, <1>7, <1>8

(* A message_start begins m afresh. *)
LEMMA NextStart ==
  ASSUME NEW l, NEW n \in Nat, NEW m, NEW c,
         l[n + 1].event = "message_start", l[n + 1].message_id = m
  PROVE  /\ SeqsOf(l, n + 1, m, "message_start") = SeqsOf(l, n, m, "message_start") \cup {n}
         /\ LastStart(l, n + 1, m) = n
         /\ MessageIn(l, n + 1, m, c) =
              Entry(m, l[n + 1].sender_id, c, <<>>, TRUE, FALSE, n)
<1>0. "message_start" \in MessageEvents
  BY DEF MessageEvents
<1>1. SeqsOf(l, n + 1, m, "message_start") = SeqsOf(l, n, m, "message_start") \cup {n}
  BY <1>0, SeqsOfMore
<1>2. LastStart(l, n + 1, m) = n
  <2>1. SeqsOf(l, n, m, "message_start") \in SUBSET (0 .. n - 1)
    BY SeqsOfRange
  <2>2. MaxOf(SeqsOf(l, n, m, "message_start") \cup {n}) = n
    BY <2>1, MaxOfNext
  <2> QED BY <1>1, <2>2, Zenon DEF LastStart
<1>3. ASSUME NEW e \in {"message_append", "message_end", "message_abort"}
      PROVE  After(l, n + 1, m, e) = {}
  <2>1. l[n + 1].event # e
    BY <1>3
  <2>2. SeqsOf(l, n + 1, m, e) \subseteq 0 .. n - 1
    <3>1. SeqsOf(l, n + 1, m, e) = SeqsOf(l, n, m, e)
      BY <2>1, SeqsOfKeep
    <3> QED BY <3>1, SeqsOfRange
  <2>3. \A s \in 0 .. n - 1 : ~(s > n)
    OBVIOUS
  <2> QED BY <1>2, <2>2, <2>3 DEF After
<1>4. Terminal(l, n + 1, m) = {}
  BY <1>3 DEF Terminal
<1>5. Verdict(l, n + 1, m, TRUE, FALSE)
  BY <1>4 DEF Verdict
<1>6. MessageIn(l, n + 1, m, c) = Entry(m, l[LastStart(l, n + 1, m) + 1].sender_id, c,
                                        InOrder(After(l, n + 1, m, "message_append")), TRUE, FALSE,
                                        LastStart(l, n + 1, m))
  BY <1>5, MessageInParts, Zenon
<1> QED BY <1>1, <1>2, <1>3, <1>6, InOrderOfNone

(* A message with one more append in its text. *)
Extended(q, n) == [q EXCEPT !.content = Append(@, n)]

LEMMA ExtendedEntry ==
  ASSUME NEW id, NEW a, NEW c, NEW k, NEW i \in BOOLEAN, NEW p \in BOOLEAN, NEW s, NEW n
  PROVE  Extended(Entry(id, a, c, k, i, p, s), n) = Entry(id, a, c, Append(k, n), i, p, s)
<1> DEFINE R == [id : {id}, agentId : {a}, conversationId : {c}, content : {k, Append(k, n)},
                 isStreaming : BOOLEAN, streamComplete : BOOLEAN, seq : {s}]
<1>1. PICK q : q = Entry(id, a, c, k, i, p, s)
  OBVIOUS
<1>2. PICK x : x = Extended(q, n)
  OBVIOUS
<1>3. PICK y : y = Entry(id, a, c, Append(k, n), i, p, s)
  OBVIOUS
<1>4. q \in R /\ q.content = k /\ q.isStreaming = i /\ q.streamComplete = p
  BY <1>1 DEF Entry
<1>5. x \in R /\ x.content = Append(k, n) /\ x.isStreaming = i /\ x.streamComplete = p
  BY <1>2, <1>4 DEF Extended
<1>6. y \in R /\ y.content = Append(k, n) /\ y.isStreaming = i /\ y.streamComplete = p
  BY <1>3 DEF Entry
<1>7. x = y
  BY <1>5, <1>6
<1> QED BY <1>1, <1>2, <1>3, <1>7, Zenon

(* A message_append adds to the text of a message that has started. *)
LEMMA NextAppend ==
  ASSUME NEW l, NEW n \in Nat, NEW m, NEW c,
         l[n + 1].event = "message_append", l[n + 1].message_id = m,
         LastStart(l, n, m) \in SeqsOf(l, n, m, "message_start")
  PROVE  /\ SeqsOf(l, n + 1, m, "message_start") = SeqsOf(l, n, m, "message_start")
         /\ LastStart(l, n + 1, m) = LastStart(l, n, m)
         /\ MessageIn(l, n + 1, m, c) = Extended(MessageIn(l, n, m, c), n)
<1>1. /\ SeqsOf(l, n + 1, m, "message_append") = SeqsOf(l, n, m, "message_append") \cup {n}
      /\ \A e : e # "message_append" => SeqsOf(l, n + 1, m, e) = SeqsOf(l, n, m, e)
  <2>1. l[n + 1].event \in MessageEvents
    BY DEF MessageEvents
  <2>2. SeqsOf(l, n + 1, m, "message_append") = SeqsOf(l, n, m, "message_append") \cup {n}
    BY <2>1, SeqsOfMore
  <2>3. ASSUME NEW e, e # "message_append" PROVE SeqsOf(l, n + 1, m, e) = SeqsOf(l, n, m, e)
    <3>1. l[n + 1].event # e
      BY <2>3
    <3> QED BY <3>1, SeqsOfKeep
  <2> QED BY <2>2, <2>3
<1>2. LastStart(l, n + 1, m) = LastStart(l, n, m)
  BY <1>1 DEF LastStart
<1>3. n > LastStart(l, n, m)
  BY SeqsOfRange
<1>4. After(l, n + 1, m, "message_append") = After(l, n, m, "message_append") \cup {n}
  BY <1>1, <1>2, <1>3 DEF After
<1>5. Terminal(l, n + 1, m) = Terminal(l, n, m) /\ After(l, n + 1, m, "message_end") = After(l, n, m, "message_end")
  BY <1>1, <1>2 DEF After, Terminal
<1>6. InOrder(After(l, n + 1, m, "message_append")) = Append(InOrder(After(l, n, m, "message_append")), n)
  <2> DEFINE S == After(l, n, m, "message_append")
  <2>1. /\ SeqsOf(l, n, m, "message_append") \subseteq 0 .. n - 1
        /\ IsFiniteSet(SeqsOf(l, n, m, "message_append"))
    BY SeqsOfRange
  <2>2. IsFiniteSet(S) /\ S \subseteq 0 .. n - 1
    BY <2>1, FS_Subset DEF After
  <2>3. S \in SUBSET Int /\ \A s \in S : s < n
    BY <2>2
  <2> HIDE DEF S
  <2>4. InOrder(S \cup {n}) = Append(InOrder(S), n)
    BY <2>2, <2>3, InOrderOfNext
  <2> QED BY <1>4, <2>4 DEF S
<1>7. PICK i \in BOOLEAN, p \in BOOLEAN : Verdict(l, n, m, i, p)
  BY SomeVerdict
<1>8. Verdict(l, n + 1, m, i, p)
  BY <1>5, <1>7 DEF Verdict
<1> DEFINE Msg(k) == Entry(m, l[LastStart(l, n, m) + 1].sender_id, c, k, i, p, LastStart(l, n, m))
<1>9. MessageIn(l, n, m, c) = Msg(InOrder(After(l, n, m, "message_append")))
  BY <1>7, MessageInParts
<1>10. MessageIn(l, n + 1, m, c)
         = Entry(m, l[LastStart(l, n + 1, m) + 1].sender_id, c,
                 InOrder(After(l, n + 1, m, "message_append")), i, p, LastStart(l, n + 1, m))
  BY <1>8, MessageInParts
<1>11. MessageIn(l, n + 1, m, c) = Msg(Append(InOrder(After(l, n, m, "message_append")), n))
  BY <1>2, <1>6, <1>10
<1>12. ASSUME NEW k PROVE Extended(Msg(k), n) = Msg(Append(k, n))
  BY ExtendedEntry
<1> HIDE DEF Msg
<1>13. Extended(Msg(InOrder(After(l, n, m, "message_append"))), n)
         = Msg(Append(InOrder(After(l, n, m, "message_append")), n))
  BY <1>12
<1> QED BY <1>1, <1>2, <1>9, <1>11, <1>13

(* A message with its outcome settled. *)
Finished(q, complete) == [q EXCEPT !.isStreaming = FALSE, !.streamComplete = complete]

LEMMA FinishedEntry ==
  ASSUME NEW id, NEW a, NEW c, NEW k, NEW i \in BOOLEAN, NEW p \in BOOLEAN, NEW s,
         NEW b \in BOOLEAN, NEW f \in BOOLEAN, ~f
  PROVE  Finished(Entry(id, a, c, k, i, p, s), b) = Entry(id, a, c, k, f, b, s)
<1> DEFINE R == [id : {id}, agentId : {a}, conversationId : {c}, content : {k}, isStreaming : BOOLEAN,
                 streamComplete : BOOLEAN, seq : {s}]
<1>1. PICK q : q = Entry(id, a, c, k, i, p, s)
  OBVIOUS
<1>2. PICK x : x = Finished(q, b)
  OBVIOUS
<1>3. PICK y : y = Entry(id, a, c, k, f, b, s)
  OBVIOUS
<1>4. q \in R
  BY <1>1 DEF Entry
<1>5. x \in R /\ x.isStreaming = FALSE /\ x.streamComplete = b
  BY <1>2, <1>4 DEF Finished
<1>6. y \in R /\ y.isStreaming = FALSE /\ y.streamComplete = b
  BY <1>3 DEF Entry
<1>7. x = y
  BY <1>5, <1>6
<1> QED BY <1>1, <1>2, <1>3, <1>7, Zenon

(* A terminal record settles the outcome of a message that has started. *)
LEMMA NextTerminal ==
  ASSUME NEW l, NEW n \in Nat, NEW m, NEW c,
         l[n + 1].event \in {"message_end", "message_abort"}, l[n + 1].message_id = m,
         LastStart(l, n, m) \in SeqsOf(l, n, m, "message_start"),
         NEW b \in BOOLEAN, b <=> l[n + 1].event = "message_end"
  PROVE  /\ SeqsOf(l, n + 1, m, "message_start") = SeqsOf(l, n, m, "message_start")
         /\ LastStart(l, n + 1, m) = LastStart(l, n, m)
         /\ MessageIn(l, n + 1, m, c) = Finished(MessageIn(l, n, m, c), b)
<1> DEFINE ev == l[n + 1].event
<1>1. /\ SeqsOf(l, n + 1, m, ev) = SeqsOf(l, n, m, ev) \cup {n}
      /\ \A e : e # ev => SeqsOf(l, n + 1, m, e) = SeqsOf(l, n, m, e)
  <2>1. ev \in MessageEvents
    BY DEF MessageEvents
  <2>2. SeqsOf(l, n + 1, m, ev) = SeqsOf(l, n, m, ev) \cup {n}
    BY <2>1, SeqsOfMore
  <2>3. ASSUME NEW e, e # ev PROVE SeqsOf(l, n + 1, m, e) = SeqsOf(l, n, m, e)
    <3>1. l[n + 1].event # e
      BY <2>3
    <3> QED BY <3>1, SeqsOfKeep
  <2> QED BY <2>2, <2>3
<1>2. SeqsOf(l, n + 1, m, "message_start") = SeqsOf(l, n, m, "message_start")
  BY <1>1
<1>3. LastStart(l, n + 1, m) = LastStart(l, n, m)
  BY <1>2 DEF LastStart
<1>4. n > LastStart(l, n, m)
  BY SeqsOfRange
<1>5. /\ After(l, n + 1, m, ev) = After(l, n, m, ev) \cup {n}
      /\ \A e : e # ev => After(l, n + 1, m, e) = After(l, n, m, e)
  BY <1>1, <1>3, <1>4 DEF After
<1>6. Terminal(l, n + 1, m) = Terminal(l, n, m) \cup {n}
  BY <1>5 DEF Terminal
<1>7. \A e : After(l, n, m, e) \subseteq 0 .. n - 1
  BY SeqsOfRange DEF After
<1>8. MaxOf(Terminal(l, n + 1, m)) = n
  <2>1. Terminal(l, n, m) \in SUBSET (0 .. n - 1)
    BY <1>7 DEF Terminal
  <2> QED BY <1>6, <2>1, MaxOfNext
<1>9. n \in After(l, n + 1, m, "message_end") <=> ev = "message_end"
  <2>1. n \notin 0 .. n - 1
    OBVIOUS
  <2> QED BY <1>5, <1>7, <2>1
<1>10. After(l, n + 1, m, "message_append") = After(l, n, m, "message_append")
  BY <1>5
<1>11. Terminal(l, n + 1, m) # {}
  BY <1>6
<1>12. PICK i \in BOOLEAN, p \in BOOLEAN : Verdict(l, n, m, i, p)
  BY SomeVerdict
<1>13. PICK f \in BOOLEAN : ~f
  OBVIOUS
<1>14. Verdict(l, n + 1, m, f, b)
  BY <1>8, <1>9, <1>11, <1>13 DEF Verdict
<1> DEFINE k == InOrder(After(l, n, m, "message_append"))
           a == l[LastStart(l, n, m) + 1].sender_id
<1>15. MessageIn(l, n, m, c) = Entry(m, a, c, k, i, p, LastStart(l, n, m))
  BY <1>12, MessageInParts
<1>16. MessageIn(l, n + 1, m, c) = Entry(m, a, c, k, f, b, LastStart(l, n, m))
  BY <1>3, <1>10, <1>14, MessageInParts
<1>17. Finished(Entry(m, a, c, k, i, p, LastStart(l, n, m)), b) = Entry(m, a, c, k, f, b, LastStart(l, n, m))
  BY <1>13, FinishedEntry
<1> QED BY <1>2, <1>3, <1>15, <1>16, <1>17

(***************************************************************************)
(* The reducer                                                             *)
(***************************************************************************)

(* What the frame f does to the entry of its message, by case. *)
Replaced(msgs, m, q) == [msgs EXCEPT ![m] = q]

ReduceCases(out, msgs, c, n, f, m) ==
  /\ f.event \notin MessageEvents => out = msgs
  /\ f.event = "message_start" => out = Put(msgs, m, Entry(m, f.sender_id, c, <<>>, TRUE, FALSE, n))
  /\ f.event = "message_append" /\ m \in DOMAIN msgs => out = Replaced(msgs, m, Extended(msgs[m], n))
  /\ f.event = "message_end" /\ m \in DOMAIN msgs => out = Replaced(msgs, m, Finished(msgs[m], TRUE))
  /\ f.event = "message_abort" /\ m \in DOMAIN msgs => out = Replaced(msgs, m, Finished(msgs[m], FALSE))
  /\ f.event = "message_abort" /\ m \notin DOMAIN msgs => out = msgs

LEMMA ReduceParts ==
  ASSUME NEW msgs, NEW c, NEW n, NEW f
  PROVE  ReduceCases(ReduceMessages(msgs, c, n, f), msgs, c, n, f, f.message_id)
<1> DEFINE out == ReduceMessages(msgs, c, n, f)
           m == f.message_id
<1>1. f.event \notin MessageEvents => out = msgs
  BY DEF ReduceMessages, MessageEvents
<1>2. ASSUME f.event = "message_start"
      PROVE  out = Put(msgs, m, Entry(m, f.sender_id, c, <<>>, TRUE, FALSE, n))
  <2>1. out = OnMessageStart(msgs, c, n, f)
    BY <1>2 DEF ReduceMessages
  <2> QED BY <2>1 DEF OnMessageStart, Entry
<1>3. ASSUME f.event = "message_append", m \in DOMAIN msgs
      PROVE  out = Replaced(msgs, m, Extended(msgs[m], n))
  <2>1. out = OnMessageAppend(msgs, c, n, f)
    BY <1>3 DEF ReduceMessages
  <2> QED BY <1>3, <2>1, Zenon DEF OnMessageAppend, Extended, Replaced
<1>4. ASSUME f.event = "message_end", m \in DOMAIN msgs
      PROVE  out = Replaced(msgs, m, Finished(msgs[m], TRUE))
  <2>1. out = OnMessageEnd(msgs, f)
    BY <1>4 DEF ReduceMessages
  <2> QED BY <1>4, <2>1, Zenon DEF OnMessageEnd, Finished, Replaced
<1>5. ASSUME f.event = "message_abort"
      PROVE  /\ m \in DOMAIN msgs => out = Replaced(msgs, m, Finished(msgs[m], FALSE))
             /\ m \notin DOMAIN msgs => out = msgs
  <2>1. out = OnMessageAbort(msgs, f)
    BY <1>5 DEF ReduceMessages
  <2> QED BY <1>5, <2>1, Zenon DEF OnMessageAbort, Finished, Replaced
<1> HIDE DEF out
<1>6. ReduceCases(out, msgs, c, n, f, m)
  BY <1>1, <1>2, <1>3, <1>4, <1>5, Zenon DEF ReduceCases
<1> QED BY <1>6 DEF out

(* What Tells says of one message. *)
TellsOf(q, l, n, m, c) ==
  /\ LastStart(l, n, m) \in SeqsOf(l, n, m, "message_start")
  /\ \A s \in SeqsOf(l, n, m, "message_start") : s <= LastStart(l, n, m)
  /\ q = MessageIn(l, n, m, c)

LEMMA TellsByMessage ==
  ASSUME NEW msgs, NEW l, NEW n, NEW c
  PROVE  Tells(msgs, l, n, c) <=> /\ DOMAIN msgs = Started(l, n)
                                  /\ \A m \in Started(l, n) : TellsOf(msgs[m], l, n, m, c)
  BY DEF Tells, TellsOf

(* A record changes what is told of its own message only. *)
LEMMA TellsOther ==
  ASSUME NEW l, NEW n \in Nat, NEW m, NEW c, NEW q,
         l[n + 1].event \notin MessageEvents \/ l[n + 1].message_id # m
  PROVE  /\ TellsOf(q, l, n, m, c) => TellsOf(q, l, n + 1, m, c)
         /\ m \in Started(l, n + 1) <=> m \in Started(l, n)
<1>1. /\ \A e : SeqsOf(l, n + 1, m, e) = SeqsOf(l, n, m, e)
      /\ LastStart(l, n + 1, m) = LastStart(l, n, m)
      /\ MessageIn(l, n + 1, m, c) = MessageIn(l, n, m, c)
  BY NextOther
<1> QED BY <1>1 DEF TellsOf, Started

(* The reducer keeps up with the log: after the frame of record n, the messages are those of *)
(* the first n + 1 records.                                                                  *)
LEMMA ReduceTells ==
  ASSUME NEW l, NEW n \in Nat, NEW c, NEW msgs, NEW f \in Events, f = l[n + 1],
         Tells(msgs, l, n, c),
         f.event \in {"message_append", "message_end"} => f.message_id \in Started(l, n)
  PROVE  Tells(ReduceMessages(msgs, c, n, f), l, n + 1, c)
<1> DEFINE m == f.message_id
<1>1. PICK out : out = ReduceMessages(msgs, c, n, f)
  OBVIOUS
<1>r. ReduceCases(out, msgs, c, n, f, m)
  BY <1>1, ReduceParts
<1>2. DOMAIN msgs = Started(l, n) /\ \A x \in Started(l, n) : TellsOf(msgs[x], l, n, x, c)
  BY TellsByMessage
<1>3. \A x \in Started(l, n) : f.event \notin MessageEvents \/ x # m =>
        x \in Started(l, n + 1) /\ TellsOf(msgs[x], l, n + 1, x, c)
  BY <1>2, TellsOther
<1>4. \A x : f.event \notin MessageEvents \/ x # m =>
        (x \in Started(l, n + 1) <=> x \in Started(l, n))
  BY TellsOther
<1>5. CASE f.event \notin MessageEvents
  <2>1. out = msgs
    BY <1>5, <1>r DEF ReduceCases
  <2>2. Started(l, n + 1) = Started(l, n)
    BY <1>4, <1>5
  <2>3. Tells(out, l, n + 1, c)
    BY <1>2, <1>3, <1>5, <2>1, <2>2, TellsByMessage
  <2> QED BY <1>1, <2>3
<1>6. ASSUME /\ \A x \in DOMAIN msgs \ {m} : x \in DOMAIN out /\ out[x] = msgs[x]
             /\ DOMAIN out = DOMAIN msgs \cup {m}
             /\ m \in Started(l, n + 1) /\ TellsOf(out[m], l, n + 1, m, c)
      PROVE  Tells(out, l, n + 1, c)
  <2>1. DOMAIN out = Started(l, n + 1)
    BY <1>2, <1>4, <1>6
  <2>2. \A x \in Started(l, n + 1) : TellsOf(out[x], l, n + 1, x, c)
    BY <1>2, <1>3, <1>4, <1>6
  <2> QED BY <2>1, <2>2, TellsByMessage
<1>7. CASE f.event = "message_start"
  <2>1. out = Put(msgs, m, Entry(m, f.sender_id, c, <<>>, TRUE, FALSE, n))
    BY <1>7, <1>r DEF ReduceCases
  <2>2. /\ DOMAIN out = DOMAIN msgs \cup {m} /\ out[m] = Entry(m, f.sender_id, c, <<>>, TRUE, FALSE, n)
        /\ \A x \in DOMAIN msgs \ {m} : x \in DOMAIN out /\ out[x] = msgs[x]
    BY <2>1 DEF Put
  <2>3. m \in Messages
    BY <1>7, EventFields DEF MessageEvents
  <2>4. /\ SeqsOf(l, n + 1, m, "message_start") = SeqsOf(l, n, m, "message_start") \cup {n}
        /\ LastStart(l, n + 1, m) = n
        /\ MessageIn(l, n + 1, m, c) = Entry(m, l[n + 1].sender_id, c, <<>>, TRUE, FALSE, n)
    BY <1>7, NextStart
  <2>5. SeqsOf(l, n, m, "message_start") \subseteq 0 .. n - 1
    BY SeqsOfRange
  <2>6. \A s \in SeqsOf(l, n + 1, m, "message_start") : s <= n
    BY <2>4, <2>5
  <2>7. m \in Started(l, n + 1) /\ TellsOf(out[m], l, n + 1, m, c)
    BY <2>2, <2>3, <2>4, <2>6 DEF TellsOf, Started
  <2> QED BY <1>1, <1>6, <2>2, <2>7
<1>8. CASE f.event \in {"message_append", "message_end", "message_abort"} /\ m \in Started(l, n)
  <2>1. TellsOf(msgs[m], l, n, m, c)
    BY <1>2, <1>8
  <2>2. /\ LastStart(l, n, m) \in SeqsOf(l, n, m, "message_start")
        /\ \A s \in SeqsOf(l, n, m, "message_start") : s <= LastStart(l, n, m)
        /\ msgs[m] = MessageIn(l, n, m, c)
    BY <2>1 DEF TellsOf
  <2>3. PICK q : /\ out = Replaced(msgs, m, q) /\ q = MessageIn(l, n + 1, m, c)
                 /\ SeqsOf(l, n + 1, m, "message_start") = SeqsOf(l, n, m, "message_start")
                 /\ LastStart(l, n + 1, m) = LastStart(l, n, m)
    <3>1. CASE f.event = "message_append"
      <4>1. out = Replaced(msgs, m, Extended(msgs[m], n))
        BY <1>2, <1>8, <3>1, <1>r DEF ReduceCases
      <4>2. /\ SeqsOf(l, n + 1, m, "message_start") = SeqsOf(l, n, m, "message_start")
            /\ LastStart(l, n + 1, m) = LastStart(l, n, m)
            /\ MessageIn(l, n + 1, m, c) = Extended(MessageIn(l, n, m, c), n)
        BY <2>2, <3>1, NextAppend
      <4> QED BY <2>2, <4>1, <4>2
    <3>2. ASSUME NEW b \in BOOLEAN, b <=> l[n + 1].event = "message_end",
                 f.event \in {"message_end", "message_abort"}
          PROVE  /\ SeqsOf(l, n + 1, m, "message_start") = SeqsOf(l, n, m, "message_start")
                 /\ LastStart(l, n + 1, m) = LastStart(l, n, m)
                 /\ MessageIn(l, n + 1, m, c) = Finished(MessageIn(l, n, m, c), b)
      BY <2>2, <3>2, NextTerminal
    <3>3. CASE f.event = "message_end"
      <4>1. out = Replaced(msgs, m, Finished(msgs[m], TRUE))
        BY <1>2, <1>8, <3>3, <1>r DEF ReduceCases
      <4> QED BY <2>2, <3>2, <3>3, <4>1
    <3>4. CASE f.event = "message_abort"
      <4>1. out = Replaced(msgs, m, Finished(msgs[m], FALSE))
        BY <1>2, <1>8, <3>4, <1>r DEF ReduceCases
      <4> QED BY <2>2, <3>2, <3>4, <4>1
    <3> QED BY <1>8, <3>1, <3>3, <3>4
  <2>4. /\ DOMAIN out = DOMAIN msgs \cup {m} /\ out[m] = q
        /\ \A x \in DOMAIN msgs \ {m} : x \in DOMAIN out /\ out[x] = msgs[x]
    BY <1>2, <1>8, <2>3 DEF Replaced
  <2>5. m \in Started(l, n + 1) /\ TellsOf(out[m], l, n + 1, m, c)
    BY <1>8, <2>2, <2>3, <2>4 DEF TellsOf, Started
  <2> QED BY <1>1, <1>6, <2>4, <2>5
<1>9. CASE f.event = "message_abort" /\ m \notin Started(l, n)
  <2>1. out = msgs
    BY <1>2, <1>9, <1>r DEF ReduceCases
  <2>2. SeqsOf(l, n + 1, m, "message_start") = SeqsOf(l, n, m, "message_start")
    BY <1>9, SeqsOfKeep
  <2>3. m \notin Started(l, n + 1)
    BY <1>9, <2>2 DEF Started
  <2>4. Started(l, n + 1) = Started(l, n)
    BY <1>4, <1>9, <2>3
  <2>5. \A x \in Started(l, n + 1) : x # m /\ TellsOf(out[x], l, n + 1, x, c)
    BY <1>3, <2>1, <2>3, <2>4
  <2> QED BY <1>1, <1>2, <2>1, <2>4, <2>5, TellsByMessage
<1> QED BY <1>5, <1>7, <1>8, <1>9 DEF MessageEvents

LEMMA ReduceTellsSystem ==
  ASSUME NEW l, NEW n \in Nat, NEW evs, NEW f, f = l[n + 1], TellsSystem(evs, l, n)
  PROVE  TellsSystem(ReduceSystemEvents(evs, n, f), l, n + 1)
<1> DEFINE x == [kind |-> f.event, agentId |-> f.agent_id, seq |-> n]
<1>1. SystemSeqs(l, n + 1) = IF f.event \in MembershipEvents THEN SystemSeqs(l, n) \cup {n} ELSE SystemSeqs(l, n)
  <2>1. 0 .. n + 1 - 1 = (0 .. n - 1) \cup {n}
    OBVIOUS
  <2> QED BY <2>1 DEF SystemSeqs
<1>2. n \notin SystemSeqs(l, n)
  BY DEF SystemSeqs
<1>3. CASE f.event \in MembershipEvents
  <2>1. ReduceSystemEvents(evs, n, f) = Put(evs, n, x)
    BY <1>3 DEF ReduceSystemEvents
  <2>2. /\ DOMAIN Put(evs, n, x) = DOMAIN evs \cup {n} /\ Put(evs, n, x)[n] = x
        /\ \A s \in DOMAIN evs : s # n => Put(evs, n, x)[s] = evs[s]
    BY DEF Put
  <2>3. /\ DOMAIN evs = SystemSeqs(l, n)
        /\ \A s \in SystemSeqs(l, n) :
             evs[s] = [kind |-> l[s + 1].event, agentId |-> l[s + 1].agent_id, seq |-> s]
    BY DEF TellsSystem
  <2>4. ASSUME NEW s \in SystemSeqs(l, n + 1)
        PROVE  Put(evs, n, x)[s] = [kind |-> l[s + 1].event, agentId |-> l[s + 1].agent_id, seq |-> s]
    BY <1>1, <1>2, <1>3, <2>2, <2>3
  <2> QED BY <1>1, <1>3, <2>1, <2>2, <2>3, <2>4 DEF TellsSystem
<1>4. CASE f.event \notin MembershipEvents
  BY <1>1, <1>4 DEF ReduceSystemEvents, TellsSystem
<1> QED BY <1>3, <1>4

(* What a log says of its first n records stays true as it grows. *)
LEMMA TellsSame ==
  ASSUME NEW l, NEW l2, NEW n \in Nat, \A i \in 1 .. n : l2[i] = l[i]
  PROVE  /\ Started(l2, n) = Started(l, n)
         /\ \A msgs, c : Tells(msgs, l, n, c) => Tells(msgs, l2, n, c)
         /\ \A evs : TellsSystem(evs, l, n) => TellsSystem(evs, l2, n)
<1>1. \A m, e : SeqsOf(l2, n, m, e) = SeqsOf(l, n, m, e)
  BY SeqsOfSame
<1>2. Started(l2, n) = Started(l, n)
  BY <1>1 DEF Started
<1>3. \A s \in 0 .. n - 1 : l2[s + 1] = l[s + 1]
  <2>1. \A s \in 0 .. n - 1 : s + 1 \in 1 .. n
    OBVIOUS
  <2> QED BY <2>1
<1>4. ASSUME NEW m, NEW c, LastStart(l, n, m) \in SeqsOf(l, n, m, "message_start")
      PROVE  LastStart(l2, n, m) = LastStart(l, n, m) /\ MessageIn(l2, n, m, c) = MessageIn(l, n, m, c)
  <2>1. LastStart(l2, n, m) = LastStart(l, n, m)
    BY <1>1 DEF LastStart
  <2>2. l2[LastStart(l, n, m) + 1] = l[LastStart(l, n, m) + 1]
    BY <1>3, <1>4, SeqsOfRange
  <2>3. /\ \A e : After(l2, n, m, e) = After(l, n, m, e)
        /\ Terminal(l2, n, m) = Terminal(l, n, m)
    BY <1>1, <2>1 DEF After, Terminal
  <2>4. PICK i \in BOOLEAN, p \in BOOLEAN : Verdict(l, n, m, i, p)
    BY SomeVerdict
  <2>5. Verdict(l2, n, m, i, p)
    BY <2>3, <2>4 DEF Verdict
  <2>6. MessageIn(l, n, m, c) = Entry(m, l[LastStart(l, n, m) + 1].sender_id, c,
                                      InOrder(After(l, n, m, "message_append")), i, p, LastStart(l, n, m))
    BY <2>4, MessageInParts
  <2>7. MessageIn(l2, n, m, c) = Entry(m, l2[LastStart(l2, n, m) + 1].sender_id, c,
                                       InOrder(After(l2, n, m, "message_append")), i, p, LastStart(l2, n, m))
    BY <2>5, MessageInParts
  <2> QED BY <2>1, <2>2, <2>3, <2>6, <2>7
<1>5. ASSUME NEW msgs, NEW c, Tells(msgs, l, n, c) PROVE Tells(msgs, l2, n, c)
  <2>1. \A m \in Started(l, n) : TellsOf(msgs[m], l, n, m, c)
    BY <1>5, TellsByMessage
  <2>2. \A m \in Started(l2, n) : TellsOf(msgs[m], l2, n, m, c)
    BY <1>1, <1>2, <1>4, <2>1 DEF TellsOf
  <2> QED BY <1>2, <1>5, <2>2, TellsByMessage
<1>6. ASSUME NEW evs, TellsSystem(evs, l, n) PROVE TellsSystem(evs, l2, n)
  <2>1. SystemSeqs(l2, n) = SystemSeqs(l, n) /\ SystemSeqs(l, n) \subseteq 0 .. n - 1
    BY <1>3 DEF SystemSeqs
  <2> QED BY <1>3, <1>6, <2>1 DEF TellsSystem
<1> QED BY <1>2, <1>5, <1>6

(***************************************************************************)
(* Induction.  The induction theorems of the library take a predicate as   *)
(* their parameter; here the predicate is a set of numbers, and that every *)
(* set of numbers has a least element follows from the order of the finite *)
(* sets under inclusion, which is well-founded.                            *)
(***************************************************************************)
LEMMA Smallest ==
  ASSUME NEW T \in SUBSET Nat, T # {}
  PROVE  \E x \in T : \A y \in T : x <= y
<1> DEFINE R == StrictSubsetOrdering(Nat)
           F == FiniteSubsetsOf(Nat)
           W == {0 .. n : n \in T}
<1>1. IsWellFoundedOn(R, F)
  BY FS_StrictSubsetOrderingWellFounded
<1>2. ASSUME NEW n \in T PROVE 0 .. n \in F
  <2>1. IsFiniteSet(0 .. n) /\ 0 .. n \subseteq Nat
    BY FS_Interval
  <2> QED BY <2>1 DEF FiniteSubsetsOf
<1>3. ASSUME NEW m \in T, NEW n \in T, m < n PROVE <<0 .. m, 0 .. n>> \in R
  <2>1. 0 .. m \subseteq 0 .. n /\ n \in 0 .. n /\ n \notin 0 .. m
    BY <1>3
  <2>2. 0 .. m # 0 .. n
    BY <2>1
  <2>3. 0 .. m \in SUBSET Nat /\ 0 .. n \in SUBSET Nat
    OBVIOUS
  <2> QED BY <2>1, <2>2, <2>3 DEF StrictSubsetOrdering
<1>4. W \subseteq F /\ W # {}
  BY <1>2
<1>5. \E X \in W : \A Y \in W : ~(<<Y, X>> \in R)
  <2> HIDE DEF R, F, W
  <2> QED BY <1>1, <1>4, WFMin
<1>6. PICK n \in T : \A m \in T : ~(<<0 .. m, 0 .. n>> \in R)
  BY <1>5
<1> HIDE DEF R
<1>7. \A m \in T : ~(m < n)
  BY <1>3, <1>6
<1>8. \A m \in T : m \in Nat /\ n \in Nat
  OBVIOUS
<1>9. \A m \in T : n <= m
  BY <1>7, <1>8
<1> QED BY <1>9

LEMMA InductTo ==
  ASSUME NEW N \in Nat, NEW S, 0 \in S, \A n \in 0 .. N : n \in S /\ n < N => n + 1 \in S
  PROVE  \A n \in 0 .. N : n \in S
<1> SUFFICES ASSUME {n \in 0 .. N : n \notin S} # {} PROVE FALSE
  OBVIOUS
<1>1. PICK T : T = {n \in 0 .. N : n \notin S}
  OBVIOUS
<1>2. T \in SUBSET Nat /\ T # {}
  BY <1>1
<1>3. PICK x \in T : \A y \in T : x <= y
  BY <1>2, Smallest
<1>4. x # 0 /\ x \in 0 .. N /\ x \notin S
  BY <1>1
<1>5. x - 1 \in 0 .. N /\ x - 1 < N /\ ~(x <= x - 1) /\ (x - 1) + 1 = x
  BY <1>4
<1>6. x - 1 \in S
  BY <1>1, <1>3, <1>5
<1> QED BY <1>4, <1>5, <1>6

(***************************************************************************)
(* Sorting                                                                 *)
(***************************************************************************)

(* Elements told apart by their numbers, put in the order of the numbers: nothing is added, *)
(* nothing is lost.                                                                         *)
Numbered(S, n) == /\ \A x \in S : x.seq \in 0 .. n - 1
                  /\ \A x, y \in S : x.seq = y.seq => x = y

LEMMA NumberedIsFinite ==
  ASSUME NEW n \in Nat, NEW S, Numbered(S, n)
  PROVE  IsFiniteSet(S) /\ Cardinality(S) \in Nat
<1> DEFINE T == 0 .. n - 1
           f == [x \in S |-> x.seq]
<1>1. IsFiniteSet(T)
  BY FS_Interval
<1>2. f \in Injection(S, T)
  BY DEF Injection, Numbered, IsInjective
<1>3. IsFiniteSet(S)
  BY <1>1, <1>2, FS_Injection
<1> QED BY <1>3, FS_CardinalityType

LEMMA SortBySeqSorts ==
  ASSUME NEW n \in Nat, NEW S, Numbered(S, n)
  PROVE  /\ SortBySeq(S) \in [1 .. Cardinality(S) -> S]
         /\ \A i, j \in 1 .. Cardinality(S) : i < j => SortBySeq(S)[i].seq < SortBySeq(S)[j].seq
         /\ \A x \in S : \E i \in 1 .. Cardinality(S) : SortBySeq(S)[i] = x
<1> DEFINE Below(x) == {y \in S : y.seq < x.seq}
           c(x) == Cardinality(Below(x))
           At(i) == {x \in S : c(x) = i - 1}
<1>1. PICK k \in Nat : k = Cardinality(S) /\ IsFiniteSet(S)
  BY NumberedIsFinite
<1>2. \A x \in S : x.seq \in Int
  BY DEF Numbered
<1>3. ASSUME NEW x \in S PROVE IsFiniteSet(Below(x)) /\ c(x) \in 0 .. k - 1
  <2>1. Below(x) \subseteq S \ {x}
    BY <1>2
  <2>2. Cardinality(S \ {x}) = k - 1 /\ IsFiniteSet(S \ {x})
    BY <1>1, FS_RemoveElement
  <2>3. IsFiniteSet(Below(x)) /\ c(x) <= Cardinality(S \ {x}) /\ c(x) \in Nat
    BY <2>1, <2>2, FS_Subset, FS_CardinalityType
  <2> QED BY <1>1, <2>2, <2>3
<1>12. ASSUME NEW x \in S PROVE c(x) \in Int
  <2>1. c(x) \in 0 .. k - 1
    BY <1>3
  <2> HIDE DEF c
  <2> QED BY <2>1
<1>4. ASSUME NEW x \in S, NEW y \in S, x.seq < y.seq PROVE c(x) < c(y)
  <2>1. Below(x) \subseteq Below(y) /\ x \in Below(y) /\ x \notin Below(x)
    BY <1>2, <1>4
  <2>2. IsFiniteSet(Below(y))
    BY <1>3
  <2>4. c(x) \in Int /\ c(y) \in Int
    BY <1>12
  <2> HIDE DEF Below
  <2>3. c(x) <= c(y) /\ c(x) # c(y)
    BY <2>1, <2>2, FS_Subset
  <2> HIDE DEF c
  <2> QED BY <2>3, <2>4
<1> HIDE DEF c
<1>5. \A x, y \in S : c(x) = c(y) => x = y
  <2> SUFFICES ASSUME NEW x \in S, NEW y \in S, x # y PROVE c(x) # c(y)
    OBVIOUS
  <2>1. x.seq < y.seq \/ y.seq < x.seq
    BY <1>2 DEF Numbered
  <2>2. c(x) < c(y) \/ c(y) < c(x)
    BY <1>4, <2>1
  <2> QED BY <1>12, <2>2
<1>6. ASSUME NEW i \in 1 .. k PROVE \E x \in S : c(x) = i - 1
  <2> DEFINE T == 0 .. k - 1
             f == [x \in S |-> c(x)]
  <2>1. IsFiniteSet(T) /\ Cardinality(T) = k
    BY FS_Interval
  <2>2. f \in Injection(S, T)
    BY <1>3, <1>5 DEF Injection, IsInjective
  <2>3. f \in Surjection(S, T)
    BY <1>1, <2>1, <2>2, FS_Injection
  <2>4. i - 1 \in T
    OBVIOUS
  <2> QED BY <2>3, <2>4 DEF Surjection
<1>7. SortBySeq(S) = [i \in 1 .. k |-> TheOne(At(i))]
  BY <1>1 DEF SortBySeq, c
<1>8. ASSUME NEW i \in 1 .. k PROVE SortBySeq(S)[i] \in S /\ c(SortBySeq(S)[i]) = i - 1
  <2>1. TheOne(At(i)) \in At(i)
    BY <1>6 DEF TheOne
  <2> QED BY <1>7, <2>1
<1>9. SortBySeq(S) \in [1 .. k -> S]
  BY <1>7, <1>8
<1>10. ASSUME NEW i \in 1 .. k, NEW j \in 1 .. k, i < j
       PROVE  SortBySeq(S)[i].seq < SortBySeq(S)[j].seq
  <2>1. PICK x \in S, y \in S : /\ x = SortBySeq(S)[i] /\ y = SortBySeq(S)[j]
                                /\ c(x) = i - 1 /\ c(y) = j - 1
    BY <1>8
  <2>2. ~(y.seq < x.seq) /\ x.seq # y.seq
    BY <1>4, <1>10, <2>1 DEF Numbered
  <2> QED BY <1>2, <2>1, <2>2
<1>11. ASSUME NEW x \in S PROVE \E i \in 1 .. k : SortBySeq(S)[i] = x
  <2>1. c(x) \in 0 .. k - 1
    BY <1>3
  <2>2. c(x) + 1 \in 1 .. k /\ (c(x) + 1) - 1 = c(x)
    BY <1>1, <2>1
  <2>3. c(SortBySeq(S)[c(x) + 1]) = c(x) /\ SortBySeq(S)[c(x) + 1] \in S
    BY <1>8, <2>2
  <2>4. SortBySeq(S)[c(x) + 1] = x
    BY <1>5, <2>3
  <2> QED BY <2>2, <2>4
<1> QED BY <1>1, <1>9, <1>10, <1>11

(***************************************************************************)
(* Folds                                                                   *)
(***************************************************************************)

(* What FoldLeft unfolds to runs over the sets of places; the maximum is taken away first. *)
LEMMA MaxOfPlaces ==
  ASSUME NEW k \in Nat, NEW s \in SUBSET (1 .. k), s # {}
  PROVE  Max(s) \in s /\ \A i \in s : i <= Max(s)
<1>1. \A i \in s : i \in 1 .. k
  OBVIOUS
<1>2. PICK T : T = {k - i : i \in s}
  OBVIOUS
<1>3. \A i \in s : k - i \in Nat /\ k - i \in T
  BY <1>1, <1>2
<1>4. T \in SUBSET Nat /\ T # {}
  BY <1>2, <1>3
<1>5. PICK x \in T : \A y \in T : x <= y
  BY <1>4, Smallest
<1>6. PICK i \in s : x = k - i
  BY <1>2
<1>7. \A j \in s : k - i <= k - j
  BY <1>3, <1>5, <1>6
<1>8. \A j \in s : i >= j
  BY <1>1, <1>7
<1>9. Max(s) \in s /\ \A j \in s : Max(s) >= j
  BY <1>8 DEF Max
<1> QED BY <1>1, <1>9

LEMMA PlacesBelow ==
  ASSUME NEW k \in Nat
  PROVE  /\ SUBSET (1 .. 0) = {{}}
         /\ \A s \in SUBSET (1 .. k + 1) : s # {} => s \ {Max(s)} \in SUBSET (1 .. k)
         /\ 1 .. k + 1 \in SUBSET (1 .. k + 1) /\ 1 .. k + 1 # {}
         /\ Max(1 .. k + 1) = k + 1 /\ (1 .. k + 1) \ {k + 1} = 1 .. k
<1>1. ASSUME NEW s \in SUBSET (1 .. k + 1), s # {} PROVE s \ {Max(s)} \in SUBSET (1 .. k)
  <2>1. k + 1 \in Nat
    OBVIOUS
  <2>2. Max(s) \in s /\ \A i \in s : i <= Max(s)
    BY <1>1, <2>1, MaxOfPlaces
  <2>3. \A i \in s : i \in 1 .. k + 1
    OBVIOUS
  <2>4. PICK x : x = Max(s)
    OBVIOUS
  <2>5. x \in 1 .. k + 1 /\ \A i \in s : i \in 1 .. k + 1 /\ i <= x
    BY <2>2, <2>3, <2>4
  <2>6. \A i \in s \ {x} : i \in 1 .. k
    BY <2>5
  <2> QED BY <2>4, <2>6
<1>2. /\ k + 1 \in Nat /\ 1 .. k + 1 \in SUBSET (1 .. k + 1)
      /\ k + 1 \in 1 .. k + 1 /\ 1 .. k + 1 # {} /\ (1 .. k + 1) \ {k + 1} = 1 .. k
  OBVIOUS
<1>3. Max(1 .. k + 1) \in 1 .. k + 1 /\ \A i \in 1 .. k + 1 : i <= Max(1 .. k + 1)
  BY <1>2, MaxOfPlaces
<1>4. Max(1 .. k + 1) = k + 1
  BY <1>2, <1>3
<1> QED BY <1>1, <1>2, <1>4

LEMMA Places ==
  ASSUME NEW N \in Nat, NEW n \in 1 .. N
  PROVE  /\ 1 .. n # {} /\ 1 .. n \in SUBSET (1 .. N)
         /\ Max(1 .. n) = n /\ (1 .. n) \ {n} = 1 .. n - 1
<1>1. PICK k \in Nat : n = k + 1
  <2>1. n - 1 \in Nat /\ n = (n - 1) + 1
    OBVIOUS
  <2> QED BY <2>1
<1>2. 1 .. n # {} /\ Max(1 .. n) = n /\ (1 .. n) \ {n} = 1 .. k
  BY <1>1, PlacesBelow
<1>3. k = n - 1 /\ 1 .. n \in SUBSET (1 .. N)
  BY <1>1
<1> QED BY <1>2, <1>3

(* One lemma for each fold of ConversationFeed: there is a function g with what the fold has    *)
(* made of the first n elements.  The four proofs differ in the step alone: a step that is a    *)
(* parameter would be an operator, and a lemma about any operator could not be cited.           *)

(* The maps of the hook, record by record. *)
LEMMA LiveMapsSteps ==
  ASSUME NEW l, NEW N \in Nat, NEW c
  PROVE  \E g : /\ g[0] = [messages |-> Empty, systemEvents |-> Empty]
                /\ \A n \in 1 .. N : g[n] = OnFrame(g[n - 1], c, n - 1, l[n])
                /\ g[N] = LiveMaps(l, N, c)
<1> DEFINE q == [i \in 1 .. N |-> i]
           At(f, s) == IF s = {} THEN [messages |-> Empty, systemEvents |-> Empty]
                       ELSE OnFrame(f[s \ {Max(s)}], c, q[Max(s)] - 1, l[q[Max(s)]])
           Is(f, D) == f = [s \in SUBSET D |-> At(f, s)]
           S == {k \in 0 .. N : \E f : Is(f, 1 .. k)}
<1>1. LiveMaps(l, N, c) = (CHOOSE f : Is(f, DOMAIN q))[DOMAIN q]
  BY DEF LiveMaps, FoldLeft, MapThenFoldSet
<1>2. DOMAIN q = 1 .. N /\ \A i \in 1 .. N : q[i] = i
  OBVIOUS
<1> HIDE DEF q
<1>3. \A f : At(f, {}) = [messages |-> Empty, systemEvents |-> Empty]
  OBVIOUS
<1>4. ASSUME NEW f, NEW s, s # {}
      PROVE  At(f, s) = OnFrame(f[s \ {Max(s)}], c, q[Max(s)] - 1, l[q[Max(s)]])
  BY <1>4
<1> HIDE DEF At
<1>5. 0 \in S
  <2> DEFINE h == [s \in SUBSET (1 .. 0) |-> At(<<>>, s)]
  <2>1. \A s \in SUBSET (1 .. 0) : At(<<>>, s) = At(h, s)
    BY <1>3, PlacesBelow
  <2>2. Is(h, 1 .. 0)
    BY <2>1
  <2>3. 0 \in 0 .. N
    OBVIOUS
  <2> HIDE DEF Is, h
  <2> QED BY <2>2, <2>3
<1>6. ASSUME NEW k \in 0 .. N, k \in S, k < N PROVE k + 1 \in S
  <2>1. PICK f : Is(f, 1 .. k)
    BY <1>6
  <2>2. k \in Nat /\ k + 1 \in 0 .. N
    BY <1>6
  <2> DEFINE h == [s \in SUBSET (1 .. k + 1) |-> At(f, s)]
  <2>3. ASSUME NEW s \in SUBSET (1 .. k) PROVE h[s] = f[s]
    <3>1. s \in SUBSET (1 .. k + 1)
      OBVIOUS
    <3> QED BY <2>1, <3>1
  <2>4. ASSUME NEW s \in SUBSET (1 .. k + 1) PROVE At(f, s) = At(h, s)
    <3>1. CASE s = {}
      BY <1>3, <3>1
    <3>2. CASE s # {}
      <4>1. s \ {Max(s)} \in SUBSET (1 .. k)
        BY <2>2, <3>2, PlacesBelow
      <4>2. h[s \ {Max(s)}] = f[s \ {Max(s)}]
        BY <2>3, <4>1
      <4> HIDE DEF h
      <4> QED BY <1>4, <3>2, <4>2
    <3> QED BY <3>1, <3>2
  <2>5. Is(h, 1 .. k + 1)
    BY <2>4
  <2> HIDE DEF Is, h
  <2> QED BY <2>2, <2>5
<1>7. N \in S
  <2> HIDE DEF S
  <2>1. N \in Nat /\ \A k \in 0 .. N : k \in S
    BY <1>5, <1>6, InductTo
  <2> QED BY <2>1
<1>8. PICK f : f = (CHOOSE h : Is(h, 1 .. N)) /\ Is(f, 1 .. N)
  <2> HIDE DEF Is
  <2> QED BY <1>7
<1>9. ASSUME NEW n \in 1 .. N PROVE f[1 .. n] = OnFrame(f[1 .. n - 1], c, n - 1, l[n])
  <2>1. /\ 1 .. n # {} /\ 1 .. n \in SUBSET (1 .. N)
        /\ Max(1 .. n) = n /\ (1 .. n) \ {n} = 1 .. n - 1
    BY Places
  <2>2. f[1 .. n] = At(f, 1 .. n)
    BY <1>8, <2>1
  <2>3. At(f, 1 .. n) = OnFrame(f[(1 .. n) \ {Max(1 .. n)}], c, q[Max(1 .. n)] - 1, l[q[Max(1 .. n)]])
    BY <1>4, <2>1
  <2> QED BY <1>2, <2>1, <2>2, <2>3
<1> DEFINE g == [n \in 0 .. N |-> f[1 .. n]]
<1>10. g[0] = [messages |-> Empty, systemEvents |-> Empty] /\ g[N] = LiveMaps(l, N, c)
  <2>1. 1 .. 0 = {} /\ 0 \in 0 .. N /\ N \in 0 .. N
    OBVIOUS
  <2>2. f[{}] = [messages |-> Empty, systemEvents |-> Empty]
    BY <1>3, <1>8
  <2> HIDE DEF Is
  <2> QED BY <1>1, <1>2, <1>8, <2>1, <2>2
<1>11. \A n \in 1 .. N : g[n] = OnFrame(g[n - 1], c, n - 1, l[n])
  <2>1. \A n \in 1 .. N : n \in 0 .. N /\ n - 1 \in 0 .. N
    OBVIOUS
  <2> QED BY <1>9, <2>1
<1> HIDE DEF g
<1> QED BY <1>10, <1>11

(* The rows of the history, record by record. *)
LEMMA AssembledSteps ==
  ASSUME NEW l \in Seq(Events)
  PROVE  \E g : /\ g[0] = [rows |-> <<>>, pending |-> Empty]
                /\ \A n \in 1 .. Len(l) : g[n] = AssembleStep(g[n - 1], n - 1, l[n])
                /\ g[Len(l)] = Assembled(l)
<1> DEFINE q == [i \in 1 .. Len(l) |-> i]
           At(f, s) == IF s = {} THEN [rows |-> <<>>, pending |-> Empty]
                       ELSE AssembleStep(f[s \ {Max(s)}], q[Max(s)] - 1, l[q[Max(s)]])
           Is(f, D) == f = [s \in SUBSET D |-> At(f, s)]
           S == {k \in 0 .. Len(l) : \E f : Is(f, 1 .. k)}
<1>1. Assembled(l) = (CHOOSE f : Is(f, DOMAIN q))[DOMAIN q]
  BY DEF Assembled, FoldLeft, MapThenFoldSet
<1>2. DOMAIN q = 1 .. Len(l) /\ \A i \in 1 .. Len(l) : q[i] = i
  BY LenProperties
<1> HIDE DEF q
<1>3. \A f : At(f, {}) = [rows |-> <<>>, pending |-> Empty]
  OBVIOUS
<1>4. ASSUME NEW f, NEW s, s # {}
      PROVE  At(f, s) = AssembleStep(f[s \ {Max(s)}], q[Max(s)] - 1, l[q[Max(s)]])
  BY <1>4
<1> HIDE DEF At
<1>5. 0 \in S
  <2> DEFINE h == [s \in SUBSET (1 .. 0) |-> At(<<>>, s)]
  <2>1. \A s \in SUBSET (1 .. 0) : At(<<>>, s) = At(h, s)
    BY <1>3, PlacesBelow
  <2>2. Is(h, 1 .. 0)
    BY <2>1
  <2>3. 0 \in 0 .. Len(l)
    BY LenProperties
  <2> HIDE DEF Is, h
  <2> QED BY <2>2, <2>3
<1>6. ASSUME NEW k \in 0 .. Len(l), k \in S, k < Len(l) PROVE k + 1 \in S
  <2>1. PICK f : Is(f, 1 .. k)
    BY <1>6
  <2>2. k \in Nat /\ k + 1 \in 0 .. Len(l)
    BY <1>6, LenProperties
  <2> DEFINE h == [s \in SUBSET (1 .. k + 1) |-> At(f, s)]
  <2>3. ASSUME NEW s \in SUBSET (1 .. k) PROVE h[s] = f[s]
    <3>1. s \in SUBSET (1 .. k + 1)
      OBVIOUS
    <3> QED BY <2>1, <3>1
  <2>4. ASSUME NEW s \in SUBSET (1 .. k + 1) PROVE At(f, s) = At(h, s)
    <3>1. CASE s = {}
      BY <1>3, <3>1
    <3>2. CASE s # {}
      <4>1. s \ {Max(s)} \in SUBSET (1 .. k)
        BY <2>2, <3>2, PlacesBelow
      <4>2. h[s \ {Max(s)}] = f[s \ {Max(s)}]
        BY <2>3, <4>1
      <4> HIDE DEF h
      <4> QED BY <1>4, <3>2, <4>2
    <3> QED BY <3>1, <3>2
  <2>5. Is(h, 1 .. k + 1)
    BY <2>4
  <2> HIDE DEF Is, h
  <2> QED BY <2>2, <2>5
<1>7. Len(l) \in S
  <2> HIDE DEF S
  <2>1. Len(l) \in Nat /\ \A k \in 0 .. Len(l) : k \in S
    BY <1>5, <1>6, LenProperties, InductTo
  <2> QED BY <2>1
<1>8. PICK f : f = (CHOOSE h : Is(h, 1 .. Len(l))) /\ Is(f, 1 .. Len(l))
  <2> HIDE DEF Is
  <2> QED BY <1>7
<1>9. ASSUME NEW n \in 1 .. Len(l) PROVE f[1 .. n] = AssembleStep(f[1 .. n - 1], n - 1, l[n])
  <2>1. /\ 1 .. n # {} /\ 1 .. n \in SUBSET (1 .. Len(l))
        /\ Max(1 .. n) = n /\ (1 .. n) \ {n} = 1 .. n - 1
    BY LenProperties, Places
  <2>2. f[1 .. n] = At(f, 1 .. n)
    BY <1>8, <2>1
  <2>3. At(f, 1 .. n) = AssembleStep(f[(1 .. n) \ {Max(1 .. n)}], q[Max(1 .. n)] - 1, l[q[Max(1 .. n)]])
    BY <1>4, <2>1
  <2> QED BY <1>2, <2>1, <2>2, <2>3
<1> DEFINE g == [n \in 0 .. Len(l) |-> f[1 .. n]]
<1>10. g[0] = [rows |-> <<>>, pending |-> Empty] /\ g[Len(l)] = Assembled(l)
  <2>1. 1 .. 0 = {} /\ 0 \in 0 .. Len(l) /\ Len(l) \in 0 .. Len(l)
    BY LenProperties
  <2>2. f[{}] = [rows |-> <<>>, pending |-> Empty]
    BY <1>3, <1>8
  <2> HIDE DEF Is
  <2> QED BY <1>1, <1>2, <1>8, <2>1, <2>2
<1>11. \A n \in 1 .. Len(l) : g[n] = AssembleStep(g[n - 1], n - 1, l[n])
  <2>1. \A n \in 1 .. Len(l) : n \in 0 .. Len(l) /\ n - 1 \in 0 .. Len(l)
    BY LenProperties
  <2> QED BY <1>9, <2>1
<1> HIDE DEF g
<1> QED BY <1>10, <1>11

(* The map by id, row by row. *)
LEMMA ByIdSteps ==
  ASSUME NEW V, NEW rows \in Seq(V)
  PROVE  \E g : /\ g[0] = Empty
                /\ \A n \in 1 .. Len(rows) : g[n] = Put(g[n - 1], rows[n].id, rows[n])
                /\ g[Len(rows)] = ById(rows)
<1> DEFINE At(f, s) == IF s = {} THEN Empty
                       ELSE Put(f[s \ {Max(s)}], rows[Max(s)].id, rows[Max(s)])
           Is(f, D) == f = [s \in SUBSET D |-> At(f, s)]
           S == {k \in 0 .. Len(rows) : \E f : Is(f, 1 .. k)}
<1>1. ById(rows) = (CHOOSE f : Is(f, DOMAIN rows))[DOMAIN rows]
  BY DEF ById, FoldLeft, MapThenFoldSet
<1>2. DOMAIN rows = 1 .. Len(rows)
  BY LenProperties
<1>3. \A f : At(f, {}) = Empty
  OBVIOUS
<1>4. ASSUME NEW f, NEW s, s # {}
      PROVE  At(f, s) = Put(f[s \ {Max(s)}], rows[Max(s)].id, rows[Max(s)])
  BY <1>4
<1> HIDE DEF At
<1>5. 0 \in S
  <2> DEFINE h == [s \in SUBSET (1 .. 0) |-> At(<<>>, s)]
  <2>1. \A s \in SUBSET (1 .. 0) : At(<<>>, s) = At(h, s)
    BY <1>3, PlacesBelow
  <2>2. Is(h, 1 .. 0)
    BY <2>1
  <2>3. 0 \in 0 .. Len(rows)
    BY LenProperties
  <2> HIDE DEF Is, h
  <2> QED BY <2>2, <2>3
<1>6. ASSUME NEW k \in 0 .. Len(rows), k \in S, k < Len(rows) PROVE k + 1 \in S
  <2>1. PICK f : Is(f, 1 .. k)
    BY <1>6
  <2>2. k \in Nat /\ k + 1 \in 0 .. Len(rows)
    BY <1>6, LenProperties
  <2> DEFINE h == [s \in SUBSET (1 .. k + 1) |-> At(f, s)]
  <2>3. ASSUME NEW s \in SUBSET (1 .. k) PROVE h[s] = f[s]
    <3>1. s \in SUBSET (1 .. k + 1)
      OBVIOUS
    <3> QED BY <2>1, <3>1
  <2>4. ASSUME NEW s \in SUBSET (1 .. k + 1) PROVE At(f, s) = At(h, s)
    <3>1. CASE s = {}
      BY <1>3, <3>1
    <3>2. CASE s # {}
      <4>1. s \ {Max(s)} \in SUBSET (1 .. k)
        BY <2>2, <3>2, PlacesBelow
      <4>2. h[s \ {Max(s)}] = f[s \ {Max(s)}]
        BY <2>3, <4>1
      <4> HIDE DEF h
      <4> QED BY <1>4, <3>2, <4>2
    <3> QED BY <3>1, <3>2
  <2>5. Is(h, 1 .. k + 1)
    BY <2>4
  <2> HIDE DEF Is, h
  <2> QED BY <2>2, <2>5
<1>7. Len(rows) \in S
  <2> HIDE DEF S
  <2>1. Len(rows) \in Nat /\ \A k \in 0 .. Len(rows) : k \in S
    BY <1>5, <1>6, LenProperties, InductTo
  <2> QED BY <2>1
<1>8. PICK f : f = (CHOOSE h : Is(h, 1 .. Len(rows))) /\ Is(f, 1 .. Len(rows))
  <2> HIDE DEF Is
  <2> QED BY <1>7
<1>9. ASSUME NEW n \in 1 .. Len(rows) PROVE f[1 .. n] = Put(f[1 .. n - 1], rows[n].id, rows[n])
  <2>1. /\ 1 .. n # {} /\ 1 .. n \in SUBSET (1 .. Len(rows))
        /\ Max(1 .. n) = n /\ (1 .. n) \ {n} = 1 .. n - 1
    BY LenProperties, Places
  <2>2. f[1 .. n] = At(f, 1 .. n)
    BY <1>8, <2>1
  <2>3. At(f, 1 .. n) = Put(f[(1 .. n) \ {Max(1 .. n)}], rows[Max(1 .. n)].id, rows[Max(1 .. n)])
    BY <1>4, <2>1
  <2> QED BY <1>2, <2>1, <2>2, <2>3
<1> DEFINE g == [n \in 0 .. Len(rows) |-> f[1 .. n]]
<1>10. g[0] = Empty /\ g[Len(rows)] = ById(rows)
  <2>1. 1 .. 0 = {} /\ 0 \in 0 .. Len(rows) /\ Len(rows) \in 0 .. Len(rows)
    BY LenProperties
  <2>2. f[{}] = Empty
    BY <1>3, <1>8
  <2> HIDE DEF Is
  <2> QED BY <1>1, <1>2, <1>8, <2>1, <2>2
<1>11. \A n \in 1 .. Len(rows) : g[n] = Put(g[n - 1], rows[n].id, rows[n])
  <2>1. \A n \in 1 .. Len(rows) : n \in 0 .. Len(rows) /\ n - 1 \in 0 .. Len(rows)
    BY LenProperties
  <2> QED BY <1>9, <2>1
<1> HIDE DEF g
<1> QED BY <1>10, <1>11

(* The blocks, item by item. *)
LEMMA GroupFeedSteps ==
  ASSUME NEW V, NEW feed \in Seq(V), NEW agents
  PROVE  \E g : /\ g[0] = <<>>
                /\ \A n \in 1 .. Len(feed) : g[n] = GroupStep(g[n - 1], feed[n], agents)
                /\ g[Len(feed)] = GroupFeed(feed, agents)
<1> DEFINE At(f, s) == IF s = {} THEN <<>>
                       ELSE GroupStep(f[s \ {Max(s)}], feed[Max(s)], agents)
           Is(f, D) == f = [s \in SUBSET D |-> At(f, s)]
           S == {k \in 0 .. Len(feed) : \E f : Is(f, 1 .. k)}
<1>1. GroupFeed(feed, agents) = (CHOOSE f : Is(f, DOMAIN feed))[DOMAIN feed]
  BY DEF GroupFeed, FoldLeft, MapThenFoldSet
<1>2. DOMAIN feed = 1 .. Len(feed)
  BY LenProperties
<1>3. \A f : At(f, {}) = <<>>
  OBVIOUS
<1>4. ASSUME NEW f, NEW s, s # {}
      PROVE  At(f, s) = GroupStep(f[s \ {Max(s)}], feed[Max(s)], agents)
  BY <1>4
<1> HIDE DEF At
<1>5. 0 \in S
  <2> DEFINE h == [s \in SUBSET (1 .. 0) |-> At(<<>>, s)]
  <2>1. \A s \in SUBSET (1 .. 0) : At(<<>>, s) = At(h, s)
    BY <1>3, PlacesBelow
  <2>2. Is(h, 1 .. 0)
    BY <2>1
  <2>3. 0 \in 0 .. Len(feed)
    BY LenProperties
  <2> HIDE DEF Is, h
  <2> QED BY <2>2, <2>3
<1>6. ASSUME NEW k \in 0 .. Len(feed), k \in S, k < Len(feed) PROVE k + 1 \in S
  <2>1. PICK f : Is(f, 1 .. k)
    BY <1>6
  <2>2. k \in Nat /\ k + 1 \in 0 .. Len(feed)
    BY <1>6, LenProperties
  <2> DEFINE h == [s \in SUBSET (1 .. k + 1) |-> At(f, s)]
  <2>3. ASSUME NEW s \in SUBSET (1 .. k) PROVE h[s] = f[s]
    <3>1. s \in SUBSET (1 .. k + 1)
      OBVIOUS
    <3> QED BY <2>1, <3>1
  <2>4. ASSUME NEW s \in SUBSET (1 .. k + 1) PROVE At(f, s) = At(h, s)
    <3>1. CASE s = {}
      BY <1>3, <3>1
    <3>2. CASE s # {}
      <4>1. s \ {Max(s)} \in SUBSET (1 .. k)
        BY <2>2, <3>2, PlacesBelow
      <4>2. h[s \ {Max(s)}] = f[s \ {Max(s)}]
        BY <2>3, <4>1
      <4> HIDE DEF h
      <4> QED BY <1>4, <3>2, <4>2
    <3> QED BY <3>1, <3>2
  <2>5. Is(h, 1 .. k + 1)
    BY <2>4
  <2> HIDE DEF Is, h
  <2> QED BY <2>2, <2>5
<1>7. Len(feed) \in S
  <2> HIDE DEF S
  <2>1. Len(feed) \in Nat /\ \A k \in 0 .. Len(feed) : k \in S
    BY <1>5, <1>6, LenProperties, InductTo
  <2> QED BY <2>1
<1>8. PICK f : f = (CHOOSE h : Is(h, 1 .. Len(feed))) /\ Is(f, 1 .. Len(feed))
  <2> HIDE DEF Is
  <2> QED BY <1>7
<1>9. ASSUME NEW n \in 1 .. Len(feed) PROVE f[1 .. n] = GroupStep(f[1 .. n - 1], feed[n], agents)
  <2>1. /\ 1 .. n # {} /\ 1 .. n \in SUBSET (1 .. Len(feed))
        /\ Max(1 .. n) = n /\ (1 .. n) \ {n} = 1 .. n - 1
    BY LenProperties, Places
  <2>2. f[1 .. n] = At(f, 1 .. n)
    BY <1>8, <2>1
  <2>3. At(f, 1 .. n) = GroupStep(f[(1 .. n) \ {Max(1 .. n)}], feed[Max(1 .. n)], agents)
    BY <1>4, <2>1
  <2> QED BY <1>2, <2>1, <2>2, <2>3
<1> DEFINE g == [n \in 0 .. Len(feed) |-> f[1 .. n]]
<1>10. g[0] = <<>> /\ g[Len(feed)] = GroupFeed(feed, agents)
  <2>1. 1 .. 0 = {} /\ 0 \in 0 .. Len(feed) /\ Len(feed) \in 0 .. Len(feed)
    BY LenProperties
  <2>2. f[{}] = <<>>
    BY <1>3, <1>8
  <2> HIDE DEF Is
  <2> QED BY <1>1, <1>2, <1>8, <2>1, <2>2
<1>11. \A n \in 1 .. Len(feed) : g[n] = GroupStep(g[n - 1], feed[n], agents)
  <2>1. \A n \in 1 .. Len(feed) : n \in 0 .. Len(feed) /\ n - 1 \in 0 .. Len(feed)
    BY LenProperties
  <2> QED BY <1>9, <2>1
<1> HIDE DEF g
<1> QED BY <1>10, <1>11

(***************************************************************************)
(* Flattening                                                              *)
(***************************************************************************)

(* h has, for every number of pieces of q, what they are joined together. *)
Joined(h, q, V) ==
  /\ h \in [0 .. Len(q) -> Seq(V)] /\ h[0] = <<>>
  /\ \A i \in 1 .. Len(q) : h[i] = h[i - 1] \o q[i]

LEMMA FlattenIsJoined ==
  ASSUME NEW V, NEW q \in Seq(Seq(V)), NEW h, Joined(h, q, V)
  PROVE  FlattenSeq(q) = h[Len(q)]
<1> DEFINE Is(f) == f = [i \in 1 .. Len(q) |-> IF i = 1 THEN q[i] ELSE f[i - 1] \o q[i]]
<1>1. FlattenSeq(q) = IF Len(q) = 0 THEN q ELSE (CHOOSE f : Is(f))[Len(q)]
  BY DEF FlattenSeq
<1>2. Len(q) \in Nat /\ (Len(q) = 0 => q = <<>>)
  BY LenProperties, EmptySeq
<1>3. CASE Len(q) = 0
  BY <1>1, <1>2, <1>3 DEF Joined
<1>4. CASE Len(q) # 0
  <2>1. \A i \in 1 .. Len(q) : i \in 0 .. Len(q) /\ i - 1 \in 0 .. Len(q) /\ (i # 1 => i - 1 \in 1 .. Len(q))
    BY <1>2
  <2>2. \A i \in 1 .. Len(q) : q[i] \in Seq(V)
    BY ElementOfSeq
  <2>3. ASSUME NEW i \in 1 .. Len(q), i = 1 PROVE h[i] = q[i]
    <3>1. h[i] = h[i - 1] \o q[i] /\ h[0] = <<>>
      BY DEF Joined
    <3>2. i - 1 = 0 /\ q[i] \in Seq(V)
      BY <2>2, <2>3
    <3> QED BY <3>1, <3>2, ConcatEmptySeq
  <2> DEFINE f == [i \in 1 .. Len(q) |-> h[i]]
  <2>4. Is(f)
    <3>1. ASSUME NEW i \in 1 .. Len(q) PROVE h[i] = IF i = 1 THEN q[i] ELSE f[i - 1] \o q[i]
      <4>1. CASE i = 1
        BY <2>3, <4>1
      <4>2. CASE i # 1
        <5>1. h[i] = h[i - 1] \o q[i] /\ f[i - 1] = h[i - 1]
          BY <2>1, <4>2 DEF Joined
        <5> QED BY <4>2, <5>1
      <4> QED BY <4>1, <4>2
    <3> QED BY <3>1
  <2>5. PICK u : u = (CHOOSE x : Is(x)) /\ Is(u)
    <3> HIDE DEF Is, f
    <3> QED BY <2>4
  <2> DEFINE S == {k \in 0 .. Len(q) : k = 0 \/ u[k] = h[k]}
  <2>6. 0 \in S
    BY <1>2
  <2>7. ASSUME NEW k \in 0 .. Len(q), k \in S, k < Len(q) PROVE k + 1 \in S
    <3>1. k + 1 \in 1 .. Len(q) /\ k + 1 \in 0 .. Len(q) /\ (k + 1) - 1 = k /\ (k + 1 = 1 <=> k = 0)
      BY <1>2, <2>7
    <3>2. u[k + 1] = IF k = 0 THEN q[k + 1] ELSE u[k] \o q[k + 1]
      <4>1. \A i \in 1 .. Len(q) : u[i] = IF i = 1 THEN q[i] ELSE u[i - 1] \o q[i]
        BY <2>5
      <4> HIDE DEF Is
      <4> QED BY <3>1, <4>1
    <3>3. h[k + 1] = IF k = 0 THEN q[k + 1] ELSE h[k] \o q[k + 1]
      BY <2>3, <3>1 DEF Joined
    <3>4. u[k + 1] = h[k + 1]
      BY <2>7, <3>2, <3>3
    <3> QED BY <3>1, <3>4
  <2>8. \A k \in 0 .. Len(q) : k \in S
    <3> HIDE DEF S
    <3> QED BY <1>2, <2>6, <2>7, InductTo
  <2>9. u[Len(q)] = h[Len(q)]
    BY <1>2, <1>4, <2>8
  <2> HIDE DEF Is
  <2> QED BY <1>1, <1>4, <2>5, <2>9
<1> QED BY <1>3, <1>4

(* Another piece, and another element in the last piece. *)
LEMMA JoinedAppend ==
  ASSUME NEW V, NEW q \in Seq(Seq(V)), NEW h, Joined(h, q, V), NEW x \in Seq(V)
  PROVE  \E g : Joined(g, Append(q, x), V) /\ g[Len(Append(q, x))] = h[Len(q)] \o x
<1>1. PICK k \in Nat : k = Len(q)
  BY LenProperties
<1>2. PICK p : p = Append(q, x)
  OBVIOUS
<1>3. Len(p) = k + 1 /\ p[k + 1] = x /\ \A i \in 1 .. k : p[i] = q[i]
  BY <1>1, <1>2, AppendProperties
<1> DEFINE g == [i \in 0 .. k + 1 |-> IF i = k + 1 THEN h[k] \o x ELSE h[i]]
<1>4. h \in [0 .. k -> Seq(V)] /\ h[0] = <<>> /\ \A i \in 1 .. k : h[i] = h[i - 1] \o q[i]
  BY <1>1 DEF Joined
<1>5. h[k] \o x \in Seq(V)
  BY <1>4, ConcatProperties
<1>6. g \in [0 .. k + 1 -> Seq(V)] /\ g[0] = <<>> /\ g[k + 1] = h[k] \o x
  BY <1>4, <1>5
<1>7. ASSUME NEW i \in 1 .. k + 1 PROVE g[i] = g[i - 1] \o p[i]
  <2>1. CASE i = k + 1
    <3>1. g[i - 1] = h[k] /\ p[i] = x /\ g[i] = h[k] \o x
      BY <1>3, <2>1
    <3> QED BY <3>1
  <2>2. CASE i # k + 1
    <3>1. i \in 1 .. k /\ g[i] = h[i] /\ g[i - 1] = h[i - 1] /\ p[i] = q[i]
      BY <1>3, <2>2
    <3> QED BY <1>4, <3>1
  <2> QED BY <2>1, <2>2
<1> HIDE DEF g
<1>8. Joined(g, p, V) /\ g[Len(p)] = h[Len(q)] \o x
  BY <1>1, <1>3, <1>6, <1>7 DEF Joined
<1> QED BY <1>2, <1>8

(* \o and Append under names that the provers leave as they are. *)
Cat(a, b) == a \o b
Add(a, v) == Append(a, v)

LEMMA AddToCat ==
  ASSUME NEW V, NEW a \in Seq(V), NEW b \in Seq(V), NEW v \in V
  PROVE  Add(Cat(a, b), v) = Cat(a, Add(b, v))
  BY DEF Add, Cat

LastExtended(p, q, v) ==
  /\ Len(p) = Len(q) /\ p[Len(q)] = Append(q[Len(q)], v)
  /\ \A i \in 1 .. Len(q) : i # Len(q) => p[i] = q[i]

LEMMA JoinedExtend ==
  ASSUME NEW V, NEW q \in Seq(Seq(V)), NEW h, Joined(h, q, V), NEW v \in V, q # <<>>,
         NEW p, LastExtended(p, q, v)
  PROVE  \E g : Joined(g, p, V) /\ g[Len(p)] = Add(h[Len(q)], v)
<1>1. PICK k \in Nat : k = Len(q) /\ k # 0
  BY LenProperties, EmptySeq
<1>2. h \in [0 .. k -> Seq(V)] /\ h[0] = <<>> /\ \A i \in 1 .. k : h[i] = h[i - 1] \o q[i]
  BY <1>1 DEF Joined
<1>3. h[k] \in Seq(V) /\ h[k - 1] \in Seq(V) /\ q[k] \in Seq(V) /\ h[k] = h[k - 1] \o q[k] /\ <<v>> \in Seq(V)
  <2>1. k \in 1 .. Len(q) /\ k \in 0 .. k /\ k - 1 \in 0 .. k
    BY <1>1
  <2>2. q[k] \in Seq(V)
    BY <2>1, ElementOfSeq
  <2>3. <<v>> \in Seq(V)
    OBVIOUS
  <2>4. h[k] \in Seq(V) /\ h[k - 1] \in Seq(V)
    BY <1>2, <2>1
  <2> QED BY <1>1, <1>2, <2>1, <2>2, <2>3, <2>4
<1>4. Append(h[k], v) = h[k - 1] \o Append(q[k], v)
  <2>1. h[k] = Cat(h[k - 1], q[k])
    BY <1>3 DEF Cat
  <2>2. Add(h[k], v) = Cat(h[k - 1], Add(q[k], v))
    BY <1>3, <2>1, AddToCat
  <2> QED BY <2>2 DEF Cat, Add
<1> DEFINE g == [h EXCEPT ![k] = Append(h[k], v)]
<1>5. Append(h[k], v) \in Seq(V)
  BY <1>3, AppendProperties
<1>6. g \in [0 .. k -> Seq(V)] /\ g[0] = <<>> /\ g[k] = Append(h[k], v)
  BY <1>1, <1>2, <1>5
<1>7. ASSUME NEW i \in 1 .. k PROVE g[i] = g[i - 1] \o p[i]
  <2>1. g[i - 1] = h[i - 1]
    BY <1>2
  <2>2. CASE i = k
    BY <1>1, <1>4, <1>6, <2>1, <2>2 DEF LastExtended
  <2>3. CASE i # k
    <3>1. g[i] = h[i] /\ p[i] = q[i]
      BY <1>1, <1>2, <2>3 DEF LastExtended
    <3> QED BY <1>1, <1>2, <2>1, <3>1
  <2> QED BY <2>2, <2>3
<1> HIDE DEF g
<1>8. Joined(g, p, V) /\ g[Len(p)] = Add(h[Len(q)], v)
  BY <1>1, <1>6, <1>7 DEF Joined, LastExtended, Add
<1> QED BY <1>8

(***************************************************************************)
(* The stream and the history, from the beginning of the log               *)
(***************************************************************************)

(* An append or an end has its message_start before it on the log. *)
InOrderOnLog(l) ==
  \A s \in 0 .. Len(l) - 1 :
    l[s + 1].event \in {"message_append", "message_end"} => l[s + 1].message_id \in Started(l, s)

LEMMA NothingBegun ==
  ASSUME NEW l, NEW c
  PROVE  Started(l, 0) = {} /\ Tells(Empty, l, 0, c) /\ TellsSystem(Empty, l, 0)
<1>1. \A m, e : SeqsOf(l, 0, m, e) = {}
  BY DEF SeqsOf
<1>2. Started(l, 0) = {}
  BY <1>1 DEF Started
<1>3. SystemSeqs(l, 0) = {}
  BY DEF SystemSeqs
<1>4. DOMAIN Empty = {}
  BY DEF Empty
<1> QED BY <1>2, <1>3, <1>4 DEF Tells, TellsSystem

(* On such a log the hook's maps are what its first N records say. *)
LEMMA LiveMapsTell ==
  ASSUME NEW l \in Seq(Events), InOrderOnLog(l), NEW N \in 0 .. Len(l), NEW c
  PROVE  /\ Tells(LiveMaps(l, N, c).messages, l, N, c)
         /\ TellsSystem(LiveMaps(l, N, c).systemEvents, l, N)
<1>1. N \in Nat /\ Len(l) \in Nat
  BY LenProperties
<1>2. PICK g : /\ g[0] = [messages |-> Empty, systemEvents |-> Empty]
               /\ \A n \in 1 .. N : g[n] = OnFrame(g[n - 1], c, n - 1, l[n])
               /\ g[N] = LiveMaps(l, N, c)
  BY <1>1, LiveMapsSteps
<1> DEFINE Told(n) == Tells(g[n].messages, l, n, c) /\ TellsSystem(g[n].systemEvents, l, n)
           S == {n \in 0 .. N : Told(n)}
<1>3. 0 \in S
  BY <1>1, <1>2, NothingBegun
<1>4. ASSUME NEW n \in 0 .. N, n \in S, n < N PROVE n + 1 \in S
  <2>1. n \in Nat /\ n + 1 \in 1 .. N /\ n + 1 \in 0 .. N /\ (n + 1) - 1 = n /\ n + 1 \in 1 .. Len(l)
        /\ n \in 0 .. Len(l) - 1
    BY <1>1, <1>4
  <2>2. g[n + 1] = OnFrame(g[n], c, n, l[n + 1])
    BY <1>2, <2>1
  <2>3. l[n + 1] \in Events
    BY <2>1, ElementOfSeq
  <2>4. l[n + 1].event \in {"message_append", "message_end"} => l[n + 1].message_id \in Started(l, n)
    BY <2>1 DEF InOrderOnLog
  <2>5. Tells(g[n].messages, l, n, c) /\ TellsSystem(g[n].systemEvents, l, n)
    BY <1>4
  <2>6. Tells(ReduceMessages(g[n].messages, c, n, l[n + 1]), l, n + 1, c)
    BY <2>1, <2>3, <2>4, <2>5, ReduceTells
  <2>7. TellsSystem(ReduceSystemEvents(g[n].systemEvents, n, l[n + 1]), l, n + 1)
    BY <2>1, <2>5, ReduceTellsSystem
  <2>8. /\ g[n + 1].messages = ReduceMessages(g[n].messages, c, n, l[n + 1])
        /\ g[n + 1].systemEvents = ReduceSystemEvents(g[n].systemEvents, n, l[n + 1])
    BY <2>2 DEF OnFrame
  <2> QED BY <2>1, <2>6, <2>7, <2>8
<1> HIDE DEF S
<1>5. \A n \in 0 .. N : n \in S
  BY <1>1, <1>3, <1>4, InductTo
<1> QED BY <1>1, <1>2, <1>5 DEF S

(* What a message has to do with the log: it bears the number of a message_start of its own. *)
Begun(x, l, n) == x.id \in Messages /\ x.seq \in SeqsOf(l, n, x.id, "message_start")

LEMMA BegunOnce ==
  ASSUME NEW l, NEW n \in Nat, NEW x, NEW y, Begun(x, l, n), Begun(y, l, n)
  PROVE  /\ x.seq \in 0 .. n - 1 /\ l[x.seq + 1].event = "message_start"
         /\ x.seq = y.seq => x.id = y.id
  BY DEF Begun, SeqsOf

LEMMA BegunLonger ==
  ASSUME NEW l, NEW l2, NEW n \in Nat, NEW k \in Nat, n <= k, \A i \in 1 .. n : l2[i] = l[i],
         NEW m, NEW e
  PROVE  SeqsOf(l2, n, m, e) = SeqsOf(l, n, m, e) /\ SeqsOf(l, n, m, e) \subseteq SeqsOf(l, k, m, e)
<1>1. SeqsOf(l2, n, m, e) = SeqsOf(l, n, m, e)
  BY SeqsOfSame
<1>2. 0 .. n - 1 \subseteq 0 .. k - 1
  OBVIOUS
<1> QED BY <1>1, <1>2 DEF SeqsOf

(* The published arrays have the messages and the system events of the log. *)
LEMMA TellsValues ==
  ASSUME NEW l, NEW n \in Nat, NEW c, NEW msgs, Tells(msgs, l, n, c)
  PROVE  /\ ValuesOf(msgs) = MessagesIn(l, n, c)
         /\ Numbered(MessagesIn(l, n, c), n)
         /\ \A x \in MessagesIn(l, n, c) : Begun(x, l, n)
         /\ \A x, y \in MessagesIn(l, n, c) : x.id = y.id => x = y
         /\ {x.id : x \in MessagesIn(l, n, c)} = Started(l, n)
<1>1. ValuesOf(msgs) = MessagesIn(l, n, c)
  BY DEF Tells, ValuesOf, MessagesIn
<1>2. \A m : MessageIn(l, n, m, c).id = m /\ MessageIn(l, n, m, c).seq = LastStart(l, n, m)
  BY DEF MessageIn, LastStart
<1>3. \A x \in MessagesIn(l, n, c) : x = MessageIn(l, n, x.id, c) /\ x.id \in Started(l, n)
  BY <1>2 DEF MessagesIn
<1>4. ASSUME NEW x \in MessagesIn(l, n, c) PROVE Begun(x, l, n)
  BY <1>2, <1>3 DEF Begun, Tells, Started
<1>5. \A x, y \in MessagesIn(l, n, c) : x.id = y.id => x = y
  BY <1>3
<1>6. Numbered(MessagesIn(l, n, c), n)
  BY <1>4, <1>5, BegunOnce DEF Numbered
<1>7. {x.id : x \in MessagesIn(l, n, c)} = Started(l, n)
  BY <1>2, <1>3 DEF MessagesIn
<1> QED BY <1>1, <1>4, <1>5, <1>6, <1>7

LEMMA TellsSystemValues ==
  ASSUME NEW l, NEW n \in Nat, NEW evs, TellsSystem(evs, l, n)
  PROVE  /\ ValuesOf(evs) = SystemEventsIn(l, n)
         /\ Numbered(SystemEventsIn(l, n), n)
         /\ \A x \in SystemEventsIn(l, n) : x.seq \in 0 .. n - 1 /\ l[x.seq + 1].event \in MembershipEvents
<1>1. ValuesOf(evs) = SystemEventsIn(l, n)
  BY DEF TellsSystem, SystemSeqs, ValuesOf, SystemEventsIn
<1>2. \A x \in SystemEventsIn(l, n) :
        /\ x.seq \in 0 .. n - 1 /\ l[x.seq + 1].event \in MembershipEvents
        /\ x = [kind |-> l[x.seq + 1].event, agentId |-> l[x.seq + 1].agent_id, seq |-> x.seq]
  BY DEF SystemEventsIn
<1>3. Numbered(SystemEventsIn(l, n), n)
  BY <1>2 DEF Numbered
<1> QED BY <1>1, <1>2, <1>3

(* A sequence is over its elements, and Append adds one. *)
LEMMA AppendToSet ==
  ASSUME NEW V, NEW s \in Seq(V), NEW x
  PROVE  Append(s, x) \in Seq(V \cup {x}) /\ ToSet(Append(s, x)) = ToSet(s) \cup {x}
<1>1. s \in Seq(V \cup {x})
  BY SeqMonotonic
<1>2. PICK t : t = Append(s, x)
  OBVIOUS
<1>3. /\ t \in Seq(V \cup {x}) /\ Len(t) = Len(s) + 1 /\ t[Len(s) + 1] = x
      /\ \A i \in 1 .. Len(s) : t[i] = s[i]
  BY <1>1, <1>2, AppendProperties
<1>4. DOMAIN s = 1 .. Len(s) /\ DOMAIN t = 1 .. Len(s) + 1 /\ Len(s) \in Nat
  BY <1>1, <1>3, LenProperties
<1>5. ToSet(t) = ToSet(s) \cup {x}
  <2>1. \A i : i \in 1 .. Len(s) + 1 <=> i \in 1 .. Len(s) \/ i = Len(s) + 1
    BY <1>4
  <2> QED BY <1>3, <1>4, <2>1 DEF ToSet
<1> QED BY <1>2, <1>3, <1>5

(* The rows so far, closed and pending, begin where a message of theirs begins, each in a *)
(* place of its own.                                                                      *)
AssembledInv(acc, l, n) ==
  /\ acc = [rows |-> acc.rows, pending |-> acc.pending] /\ \E V : acc.rows \in Seq(V)
  /\ \A r \in ToSet(acc.rows) :
       r.message_id \in Messages /\ r.seq_start \in SeqsOf(l, n, r.message_id, "message_start")
  /\ \A m \in DOMAIN acc.pending :
       /\ m \in Messages /\ "seq_start" \in DOMAIN acc.pending[m]
       /\ acc.pending[m].seq_start \in SeqsOf(l, n, m, "message_start")
  /\ \A r, q \in ToSet(acc.rows) : r.seq_start = q.seq_start => r = q
  /\ \A r \in ToSet(acc.rows), m \in DOMAIN acc.pending : r.seq_start # acc.pending[m].seq_start

(* AssembleStep, case by case. *)
AssembleCases(out, acc, n, f, m) ==
  \/ out = acc
  \/ /\ f.event = "message_start"
     /\ out = [acc EXCEPT !.pending = Put(acc.pending, m, [sender_id |-> f.sender_id, content |-> <<>>,
                                                           seq_start |-> n])]
  \/ /\ f.event \in MessageEvents /\ m \in DOMAIN acc.pending
     /\ out = [acc EXCEPT !.pending[m].content = Append(@, n)]
  \/ /\ f.event \in MessageEvents /\ m \in DOMAIN acc.pending
     /\ \E r : /\ r.message_id = m /\ r.seq_start = acc.pending[m].seq_start
               /\ out = [rows |-> Append(acc.rows, r),
                         pending |-> [x \in DOMAIN acc.pending \ {m} |-> acc.pending[x]]]

LEMMA AssembleParts ==
  ASSUME NEW acc, NEW n, NEW f
  PROVE  AssembleCases(AssembleStep(acc, n, f), acc, n, f, f.message_id)
<1> DEFINE m == f.message_id
           known == f.event \in MessageEvents /\ m \in DOMAIN acc.pending
           row(status) == [message_id |-> m, sender_id |-> acc.pending[m].sender_id,
                           content |-> acc.pending[m].content,
                           seq_start |-> acc.pending[m].seq_start, status |-> status]
           close(status) == [rows |-> Append(acc.rows, row(status)),
                             pending |-> [x \in DOMAIN acc.pending \ {m} |-> acc.pending[x]]]
           out == AssembleStep(acc, n, f)
<1>1. CASE f.event = "message_start"
  BY <1>1 DEF AssembleStep, AssembleCases
<1>2. CASE f.event = "message_append" /\ known
  <2>1. out = [acc EXCEPT !.pending[m].content = Append(@, n)]
    BY <1>2, Zenon DEF AssembleStep
  <2> HIDE DEF out
  <2>2. AssembleCases(out, acc, n, f, m)
    BY <1>2, <2>1, Zenon DEF AssembleCases
  <2> QED BY <2>2 DEF out
<1>3. ASSUME NEW status, known, out = close(status) PROVE AssembleCases(out, acc, n, f, m)
  <2>1. row(status).message_id = m /\ row(status).seq_start = acc.pending[m].seq_start
    OBVIOUS
  <2> HIDE DEF out, row
  <2> QED BY <1>3, <2>1 DEF AssembleCases
<1>4. CASE f.event = "message_end" /\ known
  <2>1. out = close("complete")
    BY <1>4 DEF AssembleStep
  <2> QED BY <1>3, <1>4, <2>1
<1>5. CASE f.event = "message_abort" /\ known
  <2>1. out = close("aborted")
    BY <1>5 DEF AssembleStep
  <2> QED BY <1>3, <1>5, <2>1
<1>6. CASE f.event \notin MessageEvents \/ (~known /\ f.event # "message_start")
  <2>1. out = acc
    BY <1>6 DEF AssembleStep, MessageEvents
  <2> HIDE DEF out
  <2>2. AssembleCases(out, acc, n, f, m)
    BY <2>1 DEF AssembleCases
  <2> QED BY <2>2 DEF out
<1> QED BY <1>1, <1>2, <1>4, <1>5, <1>6 DEF MessageEvents

LEMMA AssembleKeeps ==
  ASSUME NEW l, NEW n \in Nat, NEW f \in Events, f = l[n + 1], NEW acc, AssembledInv(acc, l, n)
  PROVE  AssembledInv(AssembleStep(acc, n, f), l, n + 1)
<1> DEFINE m == f.message_id
<1>1. PICK out : out = AssembleStep(acc, n, f) /\ AssembleCases(out, acc, n, f, m)
  BY AssembleParts
<1>2. AssembledInv(acc, l, n + 1) /\ \A x : SeqsOf(l, n, x, "message_start") \subseteq 0 .. n - 1
  <2>1. \A x : SeqsOf(l, n, x, "message_start") \subseteq SeqsOf(l, n + 1, x, "message_start")
    BY BegunLonger
  <2>2. \A x : SeqsOf(l, n, x, "message_start") \subseteq 0 .. n - 1
    BY SeqsOfRange
  <2> QED BY <2>1, <2>2 DEF AssembledInv
<1>3. PICK V : acc.rows \in Seq(V)
  BY DEF AssembledInv
<1>4. CASE out = acc
  BY <1>1, <1>2, <1>4
<1>5. ASSUME f.event = "message_start",
             out = [acc EXCEPT !.pending = Put(acc.pending, m, [sender_id |-> f.sender_id, content |-> <<>>,
                                                                seq_start |-> n])]
      PROVE  AssembledInv(out, l, n + 1)
  <2> DEFINE new == [sender_id |-> f.sender_id, content |-> <<>>, seq_start |-> n]
  <2>1. /\ out = [rows |-> out.rows, pending |-> out.pending]
        /\ out.rows = acc.rows /\ out.pending = Put(acc.pending, m, new)
    BY <1>5 DEF AssembledInv
  <2>2. m \in Messages /\ n \in SeqsOf(l, n + 1, m, "message_start")
    <3>1. m \in Messages /\ f.event \in MessageEvents
      BY <1>5, EventFields DEF MessageEvents
    <3> QED BY <1>5, <3>1 DEF SeqsOf
  <2>3. "seq_start" \in DOMAIN new /\ new.seq_start = n
    OBVIOUS
  <2> HIDE DEF new
  <2>4. \A x \in DOMAIN out.pending : \/ x = m /\ out.pending[x] = new
                                      \/ x \in DOMAIN acc.pending /\ out.pending[x] = acc.pending[x]
    BY <2>1 DEF Put
  <2>5. \A r \in ToSet(acc.rows) : r.seq_start # n
    BY <1>2 DEF AssembledInv
  <2> QED BY <1>2, <2>1, <2>2, <2>3, <2>4, <2>5 DEF AssembledInv
<1>6. ASSUME m \in DOMAIN acc.pending, out = [acc EXCEPT !.pending[m].content = Append(@, n)]
      PROVE  AssembledInv(out, l, n + 1)
  <2>1. /\ out = [rows |-> out.rows, pending |-> out.pending] /\ out.rows = acc.rows
        /\ DOMAIN out.pending = DOMAIN acc.pending
        /\ \A x \in DOMAIN acc.pending :
             /\ DOMAIN out.pending[x] = DOMAIN acc.pending[x]
             /\ out.pending[x].seq_start = acc.pending[x].seq_start
    BY <1>6 DEF AssembledInv
  <2> QED BY <1>2, <2>1 DEF AssembledInv
<1>7. ASSUME m \in DOMAIN acc.pending, NEW r, r.message_id = m, r.seq_start = acc.pending[m].seq_start,
             out = [rows |-> Append(acc.rows, r),
                    pending |-> [x \in DOMAIN acc.pending \ {m} |-> acc.pending[x]]]
      PROVE  AssembledInv(out, l, n + 1)
  <2>1. /\ out = [rows |-> out.rows, pending |-> out.pending]
        /\ out.rows = Append(acc.rows, r)
        /\ DOMAIN out.pending = DOMAIN acc.pending \ {m}
        /\ \A x \in DOMAIN acc.pending \ {m} : out.pending[x] = acc.pending[x]
    BY <1>7
  <2>2. Append(acc.rows, r) \in Seq(V \cup {r}) /\ ToSet(Append(acc.rows, r)) = ToSet(acc.rows) \cup {r}
    BY <1>3, AppendToSet
  <2>3. \A x \in DOMAIN acc.pending \ {m} : acc.pending[x].seq_start # r.seq_start
    BY <1>2, <1>7 DEF AssembledInv, SeqsOf
  <2>4. r.message_id \in Messages /\ r.seq_start \in SeqsOf(l, n + 1, r.message_id, "message_start")
    BY <1>2, <1>7 DEF AssembledInv
  <2>5. \A q \in ToSet(acc.rows) : q.seq_start # r.seq_start
    BY <1>2, <1>7 DEF AssembledInv
  <2>6. ToSet(out.rows) = ToSet(acc.rows) \cup {r} /\ \E W : out.rows \in Seq(W)
    BY <2>1, <2>2
  <2> QED BY <1>2, <2>1, <2>3, <2>4, <2>5, <2>6 DEF AssembledInv
<1>8. AssembledInv(out, l, n + 1)
  BY <1>1, <1>2, <1>5, <1>6, <1>7 DEF AssembleCases
<1> QED BY <1>1, <1>8

(* The rows of the history: of messages that began in the log, no two with the same number. *)
LEMMA HistoryRows ==
  ASSUME NEW l \in Seq(Events)
  PROVE  /\ \A h \in AssembleMessages(l) :
              /\ h.message_id \in Messages
              /\ h.seq_start \in SeqsOf(l, Len(l), h.message_id, "message_start")
         /\ \A h, k \in AssembleMessages(l) : h.seq_start = k.seq_start => h = k
<1>1. PICK N \in Nat : N = Len(l)
  BY LenProperties
<1>2. PICK g : /\ g[0] = [rows |-> <<>>, pending |-> Empty]
               /\ \A n \in 1 .. N : g[n] = AssembleStep(g[n - 1], n - 1, l[n])
               /\ g[N] = Assembled(l)
  BY <1>1, AssembledSteps
<1> DEFINE S == {n \in 0 .. N : AssembledInv(g[n], l, n)}
<1>3. 0 \in S
  <2>1. PICK a : a = g[0]
    OBVIOUS
  <2>2. a.rows = <<>> /\ a.pending = Empty /\ a = [rows |-> a.rows, pending |-> a.pending]
    BY <1>2, <2>1
  <2>3. ToSet(a.rows) = {} /\ DOMAIN a.pending = {}
    BY <2>2 DEF Empty, ToSet
  <2>4. \E V : a.rows \in Seq(V)
    <3>1. <<>> \in Seq({})
      OBVIOUS
    <3> QED BY <2>2, <3>1
  <2>5. AssembledInv(a, l, 0)
    BY <2>2, <2>3, <2>4 DEF AssembledInv
  <2> QED BY <2>1, <2>5
<1>4. ASSUME NEW n \in 0 .. N, n \in S, n < N PROVE n + 1 \in S
  <2>1. n \in Nat /\ n + 1 \in 1 .. N /\ n + 1 \in 0 .. N /\ (n + 1) - 1 = n /\ n + 1 \in 1 .. Len(l)
    BY <1>1, <1>4
  <2>2. g[n + 1] = AssembleStep(g[n], n, l[n + 1]) /\ l[n + 1] \in Events
    BY <1>2, <2>1, ElementOfSeq
  <2>3. AssembledInv(AssembleStep(g[n], n, l[n + 1]), l, n + 1)
    BY <1>4, <2>1, <2>2, AssembleKeeps
  <2> QED BY <2>1, <2>2, <2>3
<1>5. AssembledInv(Assembled(l), l, N)
  <2> HIDE DEF S
  <2>1. \A n \in 0 .. N : n \in S
    BY <1>3, <1>4, InductTo
  <2> QED BY <1>2, <2>1 DEF S
<1>6. PICK done : done = Assembled(l)
  OBVIOUS
<1> DEFINE open(m) == [message_id |-> m, sender_id |-> done.pending[m].sender_id,
                       content |-> done.pending[m].content, seq_start |-> done.pending[m].seq_start,
                       status |-> "in_progress"]
<1>7. AssembleMessages(l) = ToSet(done.rows) \cup {open(m) : m \in DOMAIN done.pending}
  BY <1>6 DEF AssembleMessages
<1>8. \A m : open(m).message_id = m /\ open(m).seq_start = done.pending[m].seq_start
  OBVIOUS
<1> HIDE DEF open
<1>9. \A m, k \in DOMAIN done.pending : done.pending[m].seq_start = done.pending[k].seq_start => m = k
  BY <1>5, <1>6 DEF AssembledInv, SeqsOf
<1>10. \A h \in AssembleMessages(l) :
         /\ h.message_id \in Messages
         /\ h.seq_start \in SeqsOf(l, N, h.message_id, "message_start")
  BY <1>5, <1>6, <1>7, <1>8 DEF AssembledInv
<1>11. \A h, k \in AssembleMessages(l) : h.seq_start = k.seq_start => h = k
  BY <1>5, <1>6, <1>7, <1>8, <1>9 DEF AssembledInv
<1> QED BY <1>1, <1>10, <1>11

(* What useMessages hands to the feed, for a page over the first k records of a log. *)
PageOf(l, k, upper) == HistoryPage(SubSeq(l, 1, k), upper)
UseMessagesOf(l, k, upper, c) == UseMessages(SubSeq(l, 1, k), upper, c)

LEMMA PageRows ==
  ASSUME NEW l \in Seq(Events), NEW k \in 0 .. Len(l), NEW upper, NEW c
  PROVE  LET page == PageOf(l, k, upper)
             shown == {ToUIMessage(h, c) : h \in page}
         IN /\ Numbered(shown, k)
            /\ \A x \in shown : Begun(x, l, k)
            /\ {x.id : x \in shown} = {h.message_id : h \in page}
            /\ UseMessagesOf(l, k, upper, c) = SortBySeq(shown)
<1>1. k \in Nat /\ Len(l) \in Nat /\ \A i \in 1 .. k : l[i] \in Events
  BY LenProperties, ElementOfSeq
<1>2. PICK p : p = SubSeq(l, 1, k)
  OBVIOUS
<1>3. p \in Seq(Events) /\ Len(p) = k /\ \A i \in 1 .. k : p[i] = l[i]
  <2>1. /\ p \in Seq(Events) /\ Len(p) = IF 1 <= k THEN k - 1 + 1 ELSE 0
        /\ \A i \in 1 .. k - 1 + 1 : p[i] = l[1 + i - 1]
    BY <1>1, <1>2, SubSeqProperties
  <2>2. k - 1 + 1 = k /\ \A i \in 1 .. k : 1 + i - 1 = i
    BY <1>1
  <2> QED BY <1>1, <2>1, <2>2
<1> DEFINE page == HistoryPage(p, upper)
           shown == {ToUIMessage(h, c) : h \in page}
<1>4. page \subseteq AssembleMessages(p)
  BY DEF HistoryPage
<1>5. /\ \A h \in page : /\ h.message_id \in Messages
                         /\ h.seq_start \in SeqsOf(l, k, h.message_id, "message_start")
      /\ \A h, q \in page : h.seq_start = q.seq_start => h = q
  <2>1. \A m : SeqsOf(p, k, m, "message_start") = SeqsOf(l, k, m, "message_start")
    BY <1>1, <1>3, SeqsOfSame
  <2> HIDE DEF page
  <2> QED BY <1>3, <1>4, <2>1, HistoryRows
<1>6. \A h : ToUIMessage(h, c).id = h.message_id /\ ToUIMessage(h, c).seq = h.seq_start
  BY DEF ToUIMessage
<1>7. UseMessages(p, upper, c) = SortBySeq(shown)
  BY DEF UseMessages
<1> HIDE DEF page
<1>8. \A x \in shown : \E h \in page : x = ToUIMessage(h, c) /\ x.id = h.message_id /\ x.seq = h.seq_start
  BY <1>6
<1>9. {x.id : x \in shown} = {h.message_id : h \in page}
  BY <1>6
<1> HIDE DEF shown
<1>10. \A x \in shown : Begun(x, l, k)
  BY <1>5, <1>8 DEF Begun
<1>11. Numbered(shown, k)
  BY <1>1, <1>5, <1>8, <1>10, BegunOnce DEF Numbered
<1> QED BY <1>2, <1>7, <1>9, <1>10, <1>11 DEF page, shown, PageOf, UseMessagesOf

(* The map by id has the last row of every id. *)
LEMMA ByIdHasLast ==
  ASSUME NEW V, NEW rows \in Seq(V)
  PROVE  /\ DOMAIN ById(rows) = {rows[i].id : i \in 1 .. Len(rows)}
         /\ \A x \in DOMAIN ById(rows) : \E i \in 1 .. Len(rows) :
              /\ ById(rows)[x] = rows[i] /\ rows[i].id = x
              /\ \A j \in 1 .. Len(rows) : rows[j].id = x => j <= i
<1>1. PICK N \in Nat : N = Len(rows)
  BY LenProperties
<1>2. PICK g : /\ g[0] = Empty /\ g[N] = ById(rows)
               /\ \A n \in 1 .. N : g[n] = Put(g[n - 1], rows[n].id, rows[n])
  BY <1>1, ByIdSteps
<1> DEFINE Has(n) == /\ DOMAIN g[n] = {rows[i].id : i \in 1 .. n}
                     /\ \A x \in DOMAIN g[n] : \E i \in 1 .. n :
                          /\ g[n][x] = rows[i] /\ rows[i].id = x
                          /\ \A j \in 1 .. n : rows[j].id = x => j <= i
           S == {n \in 0 .. N : Has(n)}
<1>3. 0 \in S
  <2>1. DOMAIN g[0] = {} /\ 1 .. 0 = {}
    BY <1>2 DEF Empty
  <2> QED BY <2>1
<1>4. ASSUME NEW n \in 0 .. N, n \in S, n < N PROVE n + 1 \in S
  <2>1. n \in Nat /\ n + 1 \in 1 .. N /\ n + 1 \in 0 .. N /\ (n + 1) - 1 = n
    BY <1>4
  <2>2. PICK id, row : id = rows[n + 1].id /\ row = rows[n + 1]
    OBVIOUS
  <2>3. /\ DOMAIN g[n + 1] = DOMAIN g[n] \cup {id} /\ g[n + 1][id] = row
        /\ \A x \in DOMAIN g[n] : x # id => g[n + 1][x] = g[n][x]
    <3>1. g[n + 1] = Put(g[n], id, row)
      BY <1>2, <2>1, <2>2
    <3> QED BY <3>1 DEF Put
  <2>4. \A i : i \in 1 .. n + 1 <=> i \in 1 .. n \/ i = n + 1
    BY <2>1
  <2>5. DOMAIN g[n + 1] = {rows[i].id : i \in 1 .. n + 1}
    BY <1>4, <2>2, <2>3, <2>4
  <2>6. ASSUME NEW x \in DOMAIN g[n + 1]
        PROVE  \E i \in 1 .. n + 1 : /\ g[n + 1][x] = rows[i] /\ rows[i].id = x
                                     /\ \A j \in 1 .. n + 1 : rows[j].id = x => j <= i
    <3>1. CASE x = id
      <4>1. \A j \in 1 .. n + 1 : j <= n + 1
        BY <2>1
      <4> QED BY <2>2, <2>3, <2>4, <3>1, <4>1
    <3>2. CASE x # id
      <4>1. PICK i \in 1 .. n : /\ g[n][x] = rows[i] /\ rows[i].id = x
                                /\ \A j \in 1 .. n : rows[j].id = x => j <= i
        BY <1>4, <2>3, <3>2
      <4>2. i \in 1 .. n + 1 /\ g[n + 1][x] = rows[i]
        BY <2>3, <2>4, <3>2, <4>1
      <4>3. \A j \in 1 .. n + 1 : rows[j].id = x => j <= i
        BY <2>2, <2>4, <3>2, <4>1
      <4> QED BY <4>1, <4>2, <4>3
    <3> QED BY <3>1, <3>2
  <2> HIDE DEF Has
  <2>7. Has(n + 1)
    BY <2>5, <2>6 DEF Has
  <2> QED BY <2>1, <2>7
<1>5. Has(N)
  <2> HIDE DEF S
  <2>1. \A n \in 0 .. N : n \in S
    BY <1>3, <1>4, InductTo
  <2>2. N \in S
    BY <2>1
  <2> QED BY <2>2 DEF S
<1> QED BY <1>1, <1>2, <1>5

(* The merge: every message of the stream, of the page only messages with other ids, each id once. *)
OneEach(S) == \A x, y \in S : x.id = y.id => x = y
Merged(H, M) == ValuesOf(ById(SortBySeq(H) \o SortBySeq(M)))

LEMMA MergedRows ==
  ASSUME NEW n \in Nat, NEW k \in Nat, NEW H, Numbered(H, k), NEW M, Numbered(M, n), OneEach(M)
  PROVE  LET W == Merged(H, M)
         IN /\ M \subseteq W
            /\ \A x \in W : x \in M \/ (x \in H /\ \A y \in M : y.id # x.id)
            /\ OneEach(W)
            /\ {x.id : x \in W} = {x.id : x \in M} \cup {x.id : x \in H}
<1>1. PICK hs, a : /\ hs = SortBySeq(H) /\ a \in Nat /\ hs \in [1 .. a -> H]
                   /\ \A x \in H : \E i \in 1 .. a : hs[i] = x
  BY SortBySeqSorts, NumberedIsFinite
<1>2. PICK ms, b : /\ ms = SortBySeq(M) /\ b \in Nat /\ ms \in [1 .. b -> M]
                   /\ \A x \in M : \E i \in 1 .. b : ms[i] = x
  BY SortBySeqSorts, NumberedIsFinite
<1> DEFINE V == H \cup M
<1>3. hs \in Seq(V) /\ Len(hs) = a /\ ms \in Seq(V) /\ Len(ms) = b
  <2>1. hs \in [1 .. a -> V] /\ ms \in [1 .. b -> V]
    BY <1>1, <1>2
  <2> QED BY <1>1, <1>2, <2>1
<1>4. PICK rows : rows = hs \o ms
  OBVIOUS
<1>5. /\ rows \in Seq(V) /\ Len(rows) = a + b
      /\ \A i \in 1 .. a + b : rows[i] = IF i <= a THEN hs[i] ELSE ms[i - a]
  <2> HIDE DEF V
  <2>1. /\ hs \o ms \in Seq(V) /\ Len(hs \o ms) = Len(hs) + Len(ms)
        /\ \A i \in 1 .. Len(hs) + Len(ms) : (hs \o ms)[i] = IF i <= Len(hs) THEN hs[i] ELSE ms[i - Len(hs)]
    BY <1>3, ConcatProperties
  <2> QED BY <1>3, <1>4, <2>1
<1>6. /\ \A i \in 1 .. a : i \in 1 .. a + b /\ rows[i] = hs[i]
      /\ \A i \in 1 .. b : i + a \in 1 .. a + b /\ rows[i + a] = ms[i]
  BY <1>1, <1>2, <1>5
<1>7. \A i \in 1 .. a + b : (i <= a /\ rows[i] \in H) \/ (i > a /\ rows[i] \in M)
  <2>1. \A i \in 1 .. a + b : (i <= a /\ i \in 1 .. a) \/ (i > a /\ i - a \in 1 .. b)
    BY <1>1, <1>2
  <2> QED BY <1>1, <1>2, <1>5, <2>1
<1>8. PICK byId : byId = ById(rows)
  OBVIOUS
<1> HIDE DEF V
<1>9. /\ DOMAIN byId = {rows[i].id : i \in 1 .. a + b}
      /\ \A x \in DOMAIN byId : \E i \in 1 .. a + b :
           /\ byId[x] = rows[i] /\ rows[i].id = x
           /\ \A j \in 1 .. a + b : rows[j].id = x => j <= i
  <2>1. /\ DOMAIN ById(rows) = {rows[i].id : i \in 1 .. Len(rows)}
        /\ \A x \in DOMAIN ById(rows) : \E i \in 1 .. Len(rows) :
             /\ ById(rows)[x] = rows[i] /\ rows[i].id = x
             /\ \A j \in 1 .. Len(rows) : rows[j].id = x => j <= i
    BY <1>5, ByIdHasLast
  <2> QED BY <1>5, <1>8, <2>1
<1>10. PICK W : W = ValuesOf(byId)
  OBVIOUS
<1>11. \A x \in W : x.id \in DOMAIN byId /\ x = byId[x.id]
  BY <1>9, <1>10 DEF ValuesOf
<1>12. \A z \in DOMAIN byId : byId[z] \in W /\ byId[z].id = z
  BY <1>9, <1>10 DEF ValuesOf
<1>13. ASSUME NEW y \in M PROVE y.id \in DOMAIN byId /\ byId[y.id] = y
  <2>1. PICK q \in 1 .. b : ms[q] = y
    BY <1>2
  <2>2. q + a \in 1 .. a + b /\ rows[q + a] = y /\ q + a > a
    BY <1>1, <1>6, <2>1
  <2>3. y.id \in DOMAIN byId
    BY <1>9, <2>2
  <2>4. PICK i \in 1 .. a + b : byId[y.id] = rows[i] /\ rows[i].id = y.id /\ q + a <= i
    BY <1>9, <2>2, <2>3
  <2>5. rows[i] \in M
    BY <1>1, <1>2, <1>7, <2>2, <2>4
  <2> QED BY <2>3, <2>4, <2>5 DEF OneEach
<1>14. M \subseteq W
  BY <1>12, <1>13
<1>15. ASSUME NEW x \in W PROVE x \in M \/ (x \in H /\ \A y \in M : y.id # x.id)
  <2>1. x \in M \/ x \in H
    BY <1>7, <1>9, <1>11
  <2>2. \A y \in M : y.id = x.id => x = y
    BY <1>11, <1>13
  <2> QED BY <2>1, <2>2
<1>16. \A x, y \in W : x.id = y.id => x = y
  BY <1>11
<1>17. ASSUME NEW x \in H PROVE x.id \in DOMAIN byId
  <2>1. PICK q \in 1 .. a : hs[q] = x
    BY <1>1
  <2> QED BY <1>6, <1>9, <2>1
<1>18. {x.id : x \in W} = {x.id : x \in M} \cup {x.id : x \in H}
  <2>1. \A x \in W : x.id \in {y.id : y \in M} \cup {y.id : y \in H}
    BY <1>15
  <2>2. \A y \in M \cup H : \E x \in W : x.id = y.id
    BY <1>12, <1>13, <1>17
  <2> QED BY <2>1, <2>2
<1> QED BY <1>1, <1>2, <1>4, <1>8, <1>10, <1>14, <1>15, <1>16, <1>18 DEF Merged, OneEach

(* The elements of what has been sorted are those of the set. *)
LEMMA SortedSet ==
  ASSUME NEW n \in Nat, NEW S, Numbered(S, n)
  PROVE  ToSet(SortBySeq(S)) = S /\ SortBySeq(S) \in Seq(S)
<1>1. PICK k, s : /\ s = SortBySeq(S) /\ k \in Nat /\ s \in [1 .. k -> S]
                  /\ \A x \in S : \E i \in 1 .. k : s[i] = x
  BY SortBySeqSorts, NumberedIsFinite
<1>2. ToSet(s) = S
  BY <1>1 DEF ToSet
<1>3. s \in Seq(S)
  BY <1>1
<1> QED BY <1>1, <1>2, <1>3

(* The feed of any page, any messages and system events of the stream that have their places in *)
(* one log: the merged messages and the system events, in the order of the log.                 *)
InPlace(l, n, H, M, E) ==
  /\ Numbered(H, n) /\ \A x \in H : Begun(x, l, n)
  /\ Numbered(M, n) /\ (\A x \in M : Begun(x, l, n)) /\ OneEach(M)
  /\ Numbered(E, n) /\ \A x \in E : l[x.seq + 1].event \in MembershipEvents
Item(kind, x) == [_kind |-> kind, seq |-> x.seq, item |-> x]
Tagged(W, E) == {Item("message", m) : m \in W} \cup {Item("system", s) : s \in E}

FeedHas(feed, W, E) ==
  LET shown == {feed[i].item : i \in {j \in DOMAIN feed : feed[j]._kind = "message"}}
  IN /\ feed \in Seq(Tagged(W, E))
     /\ \A i, j \in DOMAIN feed : i < j => feed[i].seq < feed[j].seq
     /\ shown = W
     /\ {feed[i].item : i \in DOMAIN feed} \ shown = E

LEMMA FeedHasAll ==
  ASSUME NEW l, NEW n \in Nat,
         NEW H, NEW M, NEW E, InPlace(l, n, H, M, E)
  PROVE  FeedHas(BuildFeed(SortBySeq(H), SortBySeq(M), SortBySeq(E)), Merged(H, M), E)
<1> USE DEF InPlace
<1>1. PICK W : W = Merged(H, M)
  OBVIOUS
<1>2. /\ \A x \in W : x \in M \/ x \in H
      /\ \A x, y \in W : x.id = y.id => x = y
  BY <1>1, MergedRows DEF OneEach
<1>3. \A x \in W : Begun(x, l, n)
  BY <1>2
<1>4. Numbered(W, n)
  <2>1. \A x \in W : x.seq \in 0 .. n - 1
    BY <1>3, BegunOnce
  <2>2. ASSUME NEW x \in W, NEW y \in W, x.seq = y.seq PROVE x.id = y.id
    <3>1. Begun(x, l, n) /\ Begun(y, l, n)
      BY <1>3
    <3> QED BY <2>2, <3>1 DEF Begun, SeqsOf
  <2> QED BY <1>2, <2>1, <2>2 DEF Numbered
<1>5. /\ ToSet(MergeHistoryAndLive(SortBySeq(H), SortBySeq(M))) = W
      /\ ToSet(SortBySeq(E)) = E
  <2>1. MergeHistoryAndLive(SortBySeq(H), SortBySeq(M)) = SortBySeq(W)
    BY <1>1 DEF MergeHistoryAndLive, Flush, Merged
  <2> QED BY <1>4, <2>1, SortedSet
<1>6. PICK T : T = Tagged(W, E)
  OBVIOUS
<1>7. BuildFeed(SortBySeq(H), SortBySeq(M), SortBySeq(E)) = SortBySeq(T)
  BY <1>5, <1>6 DEF BuildFeed, Tagged, Item
<1>8. \A k, x : Item(k, x)._kind = k /\ Item(k, x).item = x /\ Item(k, x).seq = x.seq
  BY DEF Item
<1>9. /\ \A t \in T : \/ t.item \in W /\ t = Item("message", t.item) /\ t._kind = "message"
                      \/ t.item \in E /\ t = Item("system", t.item) /\ t._kind = "system"
      /\ \A x \in W : Item("message", x) \in T
      /\ \A x \in E : Item("system", x) \in T
  BY <1>6, <1>8 DEF Tagged
<1>10. \A x \in W : x.seq \in 0 .. n - 1 /\ l[x.seq + 1].event = "message_start"
  BY <1>3, BegunOnce
<1>11. \A x \in E : x.seq \in 0 .. n - 1 /\ l[x.seq + 1].event # "message_start"
  BY DEF Numbered, MembershipEvents
<1>12. \A t \in T : t.seq = t.item.seq
  BY <1>8, <1>9
<1>13. Numbered(T, n)
  <2>1. \A t \in T : t.seq \in 0 .. n - 1
    BY <1>9, <1>10, <1>11, <1>12
  <2>2. ASSUME NEW t \in T, NEW u \in T, t.seq = u.seq PROVE t = u
    <3>1. t.item.seq = u.item.seq
      BY <1>12, <2>2
    <3>2. CASE t.item \in W /\ t = Item("message", t.item) /\ u.item \in W /\ u = Item("message", u.item)
      <4>1. t.item = u.item
        BY <1>4, <3>1, <3>2 DEF Numbered
      <4> QED BY <3>2, <4>1
    <3>3. CASE t.item \in E /\ t = Item("system", t.item) /\ u.item \in E /\ u = Item("system", u.item)
      <4>1. t.item = u.item
        BY <3>1, <3>3 DEF Numbered
      <4> QED BY <3>3, <4>1
    <3>4. ~(t.item \in W /\ u.item \in E) /\ ~(t.item \in E /\ u.item \in W)
      BY <1>10, <1>11, <3>1
    <3> QED BY <1>9, <3>2, <3>3, <3>4
  <2> QED BY <2>1, <2>2 DEF Numbered
<1>14. PICK k, feed : /\ feed = SortBySeq(T) /\ k \in Nat /\ feed \in [1 .. k -> T] /\ DOMAIN feed = 1 .. k
                      /\ \A i, j \in 1 .. k : i < j => feed[i].seq < feed[j].seq
                      /\ \A x \in T : \E i \in 1 .. k : feed[i] = x
  <2>1. PICK k, feed : k = Cardinality(T) /\ feed = SortBySeq(T)
    OBVIOUS
  <2>2. /\ k \in Nat /\ feed \in [1 .. k -> T]
        /\ \A i, j \in 1 .. k : i < j => feed[i].seq < feed[j].seq
        /\ \A x \in T : \E i \in 1 .. k : feed[i] = x
    BY <1>13, <2>1, SortBySeqSorts, NumberedIsFinite
  <2> QED BY <2>1, <2>2
<1>15. feed \in Seq(T)
  BY <1>14
<1>16. {feed[i].item : i \in {j \in DOMAIN feed : feed[j]._kind = "message"}} = W
  <2>1. \A i \in DOMAIN feed : feed[i] \in T
    BY <1>14
  <2>2. \A x \in W : \E i \in DOMAIN feed : feed[i]._kind = "message" /\ feed[i].item = x
    BY <1>8, <1>9, <1>14
  <2>3. \A i \in DOMAIN feed : feed[i]._kind = "message" => feed[i].item \in W
    BY <1>9, <2>1
  <2> QED BY <2>2, <2>3
<1>17. {feed[i].item : i \in DOMAIN feed} \ W = E
  <2>1. \A i \in DOMAIN feed : feed[i] \in T
    BY <1>14
  <2>2. \A x \in E : \E i \in DOMAIN feed : feed[i].item = x
    BY <1>8, <1>9, <1>14
  <2>3. \A i \in DOMAIN feed : feed[i].item \in W \/ feed[i].item \in E
    BY <1>9, <2>1
  <2>4. \A x \in E : x \notin W
    BY <1>10, <1>11
  <2> QED BY <2>2, <2>3, <2>4
<1> QED BY <1>1, <1>6, <1>7, <1>14, <1>15, <1>16, <1>17 DEF FeedHas

(***************************************************************************)
(* The blocks                                                              *)
(***************************************************************************)
BlocksOf(U) == [kind : {"messages", "system"}, agentId : {x.agentId : x \in U}, items : Seq(U)]
Pieces(B) == [i \in DOMAIN B |-> B[i].items]

(* No block of messages could be joined with the one before it. *)
Apart(B, agents) ==
  \A i \in DOMAIN B : i > 1 /\ B[i].kind = "messages" /\ B[i].agentId \in agents
    => <<B[i - 1].kind, B[i - 1].agentId>> # <<"messages", B[i].agentId>>

(* The blocks B are the items s cut into pieces of one agent each. *)
CutInto(B, s, U, agents) ==
  /\ s \in Seq(U) /\ B \in Seq(BlocksOf(U))
  /\ \E h : Joined(h, Pieces(B), U) /\ h[Len(B)] = s
  /\ \A i \in DOMAIN B : \A x \in ToSet(B[i].items) : x.agentId = B[i].agentId
  /\ Apart(B, agents)

LEMMA PiecesSeq ==
  ASSUME NEW U, NEW B \in Seq(BlocksOf(U))
  PROVE  /\ DOMAIN B = 1 .. Len(B) /\ Len(B) \in Nat
         /\ Pieces(B) \in Seq(Seq(U)) /\ Len(Pieces(B)) = Len(B)
         /\ \A i \in 1 .. Len(B) : B[i] \in BlocksOf(U) /\ Pieces(B)[i] = B[i].items
<1>1. DOMAIN B = 1 .. Len(B) /\ Len(B) \in Nat
  BY LenProperties
<1>2. \A i \in 1 .. Len(B) : B[i] \in BlocksOf(U)
  BY ElementOfSeq
<1>3. \A i \in 1 .. Len(B) : B[i].items \in Seq(U)
  BY <1>2 DEF BlocksOf
<1>4. Pieces(B) = [i \in 1 .. Len(B) |-> B[i].items]
  BY <1>1 DEF Pieces
<1>5. Pieces(B) \in [1 .. Len(B) -> Seq(U)]
  BY <1>3, <1>4
<1>6. Pieces(B) \in Seq(Seq(U)) /\ Len(Pieces(B)) = Len(B)
  BY <1>1, <1>5
<1> QED BY <1>1, <1>2, <1>4, <1>6

(* An item begins a block of its own. *)
LEMMA NewBlockCuts ==
  ASSUME NEW U, NEW agents, NEW s, NEW B, CutInto(B, s, U, agents), NEW x \in U,
         NEW b \in BlocksOf(U), b.items = <<x>>, b.agentId = x.agentId,
         B # <<>> /\ b.kind = "messages" /\ x.agentId \in agents
           => <<B[Len(B)].kind, B[Len(B)].agentId>> # <<"messages", x.agentId>>
  PROVE  CutInto(Append(B, b), Append(s, x), U, agents)
<1>1. PICK k : k = Len(B) /\ B \in Seq(BlocksOf(U)) /\ s \in Seq(U)
  BY DEF CutInto
<1>2. k \in Nat /\ DOMAIN B = 1 .. k /\ Pieces(B) \in Seq(Seq(U)) /\ Len(Pieces(B)) = k
      /\ \A i \in 1 .. k : B[i] \in BlocksOf(U) /\ Pieces(B)[i] = B[i].items
  BY <1>1, PiecesSeq
<1>3. PICK p : p = Append(B, b)
  OBVIOUS
<1>4. p \in Seq(BlocksOf(U)) /\ Len(p) = k + 1 /\ p[k + 1] = b /\ \A i \in 1 .. k : p[i] = B[i]
  BY <1>1, <1>3, AppendProperties
<1>5. DOMAIN p = 1 .. k + 1 /\ Pieces(p) \in Seq(Seq(U)) /\ Len(Pieces(p)) = k + 1
      /\ \A i \in 1 .. k + 1 : Pieces(p)[i] = p[i].items
  BY <1>4, PiecesSeq
<1>6. \A i : i \in 1 .. k + 1 <=> i \in 1 .. k \/ i = k + 1
  BY <1>2
<1>7. Append(s, x) \in Seq(U) /\ Append(s, x) = s \o <<x>> /\ <<x>> \in Seq(U)
  BY <1>1, AppendProperties, AppendIsConcat
<1>8. Pieces(p) = Append(Pieces(B), <<x>>)
  <2>1. PICK q, r : q = Pieces(p) /\ r = Append(Pieces(B), <<x>>)
    OBVIOUS
  <2>2. r \in Seq(Seq(U)) /\ Len(r) = k + 1 /\ r[k + 1] = <<x>> /\ \A i \in 1 .. k : r[i] = Pieces(B)[i]
    BY <1>2, <1>7, <2>1, AppendProperties
  <2>3. \A i \in 1 .. k + 1 : q[i] = r[i]
    BY <1>2, <1>4, <1>5, <1>6, <2>1, <2>2
  <2>4. q \in Seq(Seq(U)) /\ Len(q) = k + 1
    BY <1>5, <2>1
  <2>5. q = r
    BY <2>2, <2>3, <2>4, SeqEqual
  <2> QED BY <2>1, <2>5
<1>9. \E h : Joined(h, Pieces(p), U) /\ h[Len(p)] = Append(s, x)
  <2>1. PICK h : Joined(h, Pieces(B), U) /\ h[k] = s
    BY <1>1 DEF CutInto
  <2>2. PICK q, y, t : q = Pieces(B) /\ y = <<x>> /\ t = s \o <<x>>
    OBVIOUS
  <2>3. q \in Seq(Seq(U)) /\ y \in Seq(U) /\ Joined(h, q, U) /\ Len(q) = k /\ h[k] \o y = t
    BY <1>2, <1>7, <2>1, <2>2
  <2>4. PICK g : Joined(g, Append(q, y), U) /\ g[Len(Append(q, y))] = h[Len(q)] \o y
    BY <2>3, JoinedAppend
  <2>5. Append(q, y) = Pieces(p)
    BY <1>8, <2>2
  <2> QED BY <1>4, <1>5, <1>7, <2>2, <2>3, <2>4, <2>5
<1>10. ASSUME NEW i \in 1 .. k + 1, NEW y \in ToSet(p[i].items) PROVE y.agentId = p[i].agentId
  <2>1. CASE i \in 1 .. k
    BY <1>2, <1>4, <1>10, <2>1 DEF CutInto
  <2>2. CASE i = k + 1
    <3>1. ToSet(<<x>>) = {x}
      BY DEF ToSet
    <3> QED BY <1>4, <1>10, <2>2, <3>1
  <2> QED BY <1>6, <2>1, <2>2
<1>11. Apart(p, agents)
  <2> SUFFICES ASSUME NEW i \in 1 .. k + 1, i > 1, p[i].kind = "messages", p[i].agentId \in agents
               PROVE  <<p[i - 1].kind, p[i - 1].agentId>> # <<"messages", p[i].agentId>>
    BY <1>5 DEF Apart
  <2>1. CASE i \in 1 .. k
    <3>1. i - 1 \in 1 .. k
      BY <1>2, <2>1
    <3>2. p[i] = B[i] /\ p[i - 1] = B[i - 1]
      BY <1>4, <2>1, <3>1
    <3> QED BY <1>2, <2>1, <3>2 DEF CutInto, Apart
  <2>2. CASE i = k + 1
    <3>1. i - 1 = k /\ k \in 1 .. k
      BY <1>2, <2>2
    <3>2. p[i - 1] = B[k] /\ p[i] = b /\ B # <<>>
      BY <1>1, <1>2, <1>4, <2>2, <3>1
    <3> QED BY <1>1, <3>2
  <2> QED BY <1>6, <2>1, <2>2
<1>12. CutInto(p, Append(s, x), U, agents)
  BY <1>4, <1>5, <1>7, <1>9, <1>10, <1>11 DEF CutInto
<1> QED BY <1>3, <1>12

(* An item joins the last block. *)
LEMMA LastBlockCuts ==
  ASSUME NEW U, NEW agents, NEW s, NEW B, CutInto(B, s, U, agents), NEW x \in U,
         B # <<>>, B[Len(B)].agentId = x.agentId
  PROVE  CutInto([B EXCEPT ![Len(B)].items = Append(@, x)], Append(s, x), U, agents)
<1>1. PICK k : k = Len(B) /\ B \in Seq(BlocksOf(U)) /\ s \in Seq(U)
  BY DEF CutInto
<1>2. /\ k \in Nat /\ k # 0 /\ k \in 1 .. k /\ DOMAIN B = 1 .. k
      /\ Pieces(B) \in Seq(Seq(U)) /\ Len(Pieces(B)) = k
      /\ \A i \in 1 .. k : B[i] \in BlocksOf(U) /\ Pieces(B)[i] = B[i].items
  <2>1. k # 0 /\ k \in Nat
    BY <1>1, LenProperties, EmptySeq
  <2>2. k \in 1 .. k
    BY <2>1
  <2> QED BY <1>1, <2>1, <2>2, PiecesSeq
<1>3. PICK w : w = Append(B[k].items, x)
  OBVIOUS
<1>4. B[k].items \in Seq(U) /\ w \in Seq(U) /\ ToSet(w) = ToSet(B[k].items) \cup {x}
      /\ B[k] \in BlocksOf(U)
  <2>1. B[k].items \in Seq(U) /\ B[k] \in BlocksOf(U)
    BY <1>2 DEF BlocksOf
  <2>2. w \in Seq(U)
    BY <1>3, <2>1, AppendProperties
  <2>3. ToSet(w) = ToSet(B[k].items) \cup {x}
    BY <1>3, <2>1, AppendToSet
  <2> QED BY <2>1, <2>2, <2>3
<1>5. PICK p : p = [B EXCEPT ![Len(B)].items = Append(@, x)] /\ p = [B EXCEPT ![k].items = w]
  <2>1. [B EXCEPT ![Len(B)].items = Append(@, x)] = [B EXCEPT ![k].items = w]
    BY <1>1, <1>3
  <2> QED BY <2>1
<1>6. /\ DOMAIN p = 1 .. k
      /\ p[k].items = w /\ p[k].kind = B[k].kind /\ p[k].agentId = B[k].agentId
      /\ p[k] \in BlocksOf(U)
      /\ \A i \in 1 .. k : i # k => p[i] = B[i]
  <2>1. /\ DOMAIN p = 1 .. k /\ p[k] = [B[k] EXCEPT !.items = w]
        /\ \A i \in 1 .. k : i # k => p[i] = B[i]
    BY <1>2, <1>5
  <2>2. PICK b, c : b = B[k] /\ c = [b EXCEPT !.items = w]
    OBVIOUS
  <2>3. b \in BlocksOf(U) /\ w \in Seq(U)
    BY <1>4, <2>2
  <2>4. c.items = w /\ c.kind = b.kind /\ c.agentId = b.agentId /\ c \in BlocksOf(U)
    BY <2>2, <2>3 DEF BlocksOf
  <2> QED BY <2>1, <2>2, <2>4
<1>7. p \in Seq(BlocksOf(U)) /\ Len(p) = k
  <2>1. \A i \in 1 .. k : p[i] \in BlocksOf(U)
    BY <1>2, <1>6
  <2>2. p = [i \in 1 .. k |-> p[i]]
    BY <1>5, <1>6, <1>2
  <2>3. p \in [1 .. k -> BlocksOf(U)]
    BY <2>1, <2>2
  <2> QED BY <1>2, <2>3
<1>8. Pieces(p) \in Seq(Seq(U)) /\ Len(Pieces(p)) = k /\ \A i \in 1 .. k : Pieces(p)[i] = p[i].items
  BY <1>7, PiecesSeq
<1>9. LastExtended(Pieces(p), Pieces(B), x)
  <2>1. Pieces(p)[k] = Append(Pieces(B)[k], x)
    BY <1>2, <1>3, <1>6, <1>8
  <2>2. \A i \in 1 .. k : i # k => Pieces(p)[i] = Pieces(B)[i]
    BY <1>2, <1>6, <1>8
  <2>3. PICK q, r : q = Pieces(p) /\ r = Pieces(B)
    OBVIOUS
  <2>4. LastExtended(q, r, x)
    BY <1>2, <1>8, <2>1, <2>2, <2>3 DEF LastExtended
  <2> QED BY <2>3, <2>4
<1>10. \E h : Joined(h, Pieces(p), U) /\ h[Len(p)] = Append(s, x)
  <2>1. PICK h : Joined(h, Pieces(B), U) /\ h[k] = s
    BY <1>1 DEF CutInto
  <2>2. PICK q, r : q = Pieces(B) /\ r = Pieces(p)
    OBVIOUS
  <2>3. q \in Seq(Seq(U)) /\ q # <<>> /\ Len(q) = k /\ Joined(h, q, U) /\ LastExtended(r, q, x) /\ Len(r) = k
    BY <1>2, <1>8, <1>9, <2>1, <2>2, EmptySeq
  <2>4. PICK g : Joined(g, r, U) /\ g[Len(r)] = Add(h[Len(q)], x)
    BY <2>3, JoinedExtend
  <2> QED BY <1>7, <2>1, <2>2, <2>3, <2>4 DEF Add
<1>11. Append(s, x) \in Seq(U)
  BY <1>1, AppendProperties
<1>12. ASSUME NEW i \in 1 .. k, NEW y \in ToSet(p[i].items) PROVE y.agentId = p[i].agentId
  <2>1. CASE i = k
    BY <1>1, <1>2, <1>4, <1>6, <1>12, <2>1 DEF CutInto
  <2>2. CASE i # k
    BY <1>2, <1>6, <1>12, <2>2 DEF CutInto
  <2> QED BY <2>1, <2>2
<1>13. \A i \in 1 .. k : p[i].kind = B[i].kind /\ p[i].agentId = B[i].agentId
  BY <1>6
<1>14. Apart(p, agents)
  <2> SUFFICES ASSUME NEW i \in 1 .. k, i > 1, p[i].kind = "messages", p[i].agentId \in agents
               PROVE  <<p[i - 1].kind, p[i - 1].agentId>> # <<"messages", p[i].agentId>>
    BY <1>6 DEF Apart
  <2>1. i - 1 \in 1 .. k
    BY <1>2
  <2> QED BY <1>2, <1>13, <2>1 DEF CutInto, Apart
<1>15. CutInto(p, Append(s, x), U, agents)
  BY <1>6, <1>7, <1>10, <1>11, <1>12, <1>14 DEF CutInto
<1> QED BY <1>5, <1>15

LEMMA GroupStepCuts ==
  ASSUME NEW U, NEW agents, NEW s, NEW B, CutInto(B, s, U, agents), NEW f, f.item \in U
  PROVE  CutInto(GroupStep(B, f, agents), Append(s, f.item), U, agents)
<1> DEFINE x == f.item
           block(kind) == [kind |-> kind, agentId |-> x.agentId, items |-> <<x>>]
           joins == B # <<>> /\ B[Len(B)].kind = "messages" /\ SameBlock(B[Len(B)], x, agents)
<1>1. \A kind \in {"messages", "system"} :
        /\ block(kind) \in BlocksOf(U) /\ block(kind).kind = kind
        /\ block(kind).items = <<x>> /\ block(kind).agentId = x.agentId
  <2>1. <<x>> \in Seq(U)
    OBVIOUS
  <2> QED BY <2>1 DEF BlocksOf
<1>2. CASE f._kind = "system"
  <2>1. GroupStep(B, f, agents) = Append(B, block("system"))
    BY <1>2 DEF GroupStep
  <2> HIDE DEF block
  <2>2. PICK b : b = block("system")
    OBVIOUS
  <2>3. CutInto(Append(B, b), Append(s, x), U, agents)
    BY <1>1, <2>2, NewBlockCuts
  <2> QED BY <2>1, <2>2, <2>3
<1>3. CASE f._kind # "system" /\ joins
  <2>1. GroupStep(B, f, agents) = [B EXCEPT ![Len(B)].items = Append(@, x)]
    BY <1>3 DEF GroupStep, Last
  <2>2. B # <<>> /\ B[Len(B)].agentId = x.agentId
    BY <1>3 DEF SameBlock
  <2>3. CutInto([B EXCEPT ![Len(B)].items = Append(@, x)], Append(s, x), U, agents)
    BY <2>2, LastBlockCuts
  <2> QED BY <2>1, <2>3
<1>4. CASE f._kind # "system" /\ ~joins
  <2>1. GroupStep(B, f, agents) = Append(B, block("messages"))
    BY <1>4 DEF GroupStep, Last
  <2>2. B # <<>> /\ x.agentId \in agents
          => <<B[Len(B)].kind, B[Len(B)].agentId>> # <<"messages", x.agentId>>
    BY <1>4 DEF SameBlock
  <2> HIDE DEF block
  <2>3. PICK b : b = block("messages")
    OBVIOUS
  <2>4. CutInto(Append(B, b), Append(s, x), U, agents)
    BY <1>1, <2>2, <2>3, NewBlockCuts
  <2> QED BY <2>1, <2>3, <2>4
<1> QED BY <1>2, <1>3, <1>4

(* Whatever the feed, and whichever agents are known, its blocks are its items cut into pieces. *)
LEMMA GroupFeedCuts ==
  ASSUME NEW V, NEW feed \in Seq(V), NEW agents
  PROVE  LET blocks == GroupFeed(feed, agents)
             items == [i \in DOMAIN feed |-> feed[i].item]
         IN /\ FlattenSeq([i \in DOMAIN blocks |-> blocks[i].items]) = items
            /\ \A i \in DOMAIN blocks : \A x \in ToSet(blocks[i].items) : x.agentId = blocks[i].agentId
            /\ \A i \in DOMAIN blocks : \E j \in DOMAIN feed : blocks[i].agentId = feed[j].item.agentId
            /\ Apart(blocks, agents)
<1>1. PICK N \in Nat : N = Len(feed) /\ DOMAIN feed = 1 .. N
  BY LenProperties
<1>2. PICK g : /\ g[0] = <<>> /\ g[N] = GroupFeed(feed, agents)
               /\ \A n \in 1 .. N : g[n] = GroupStep(g[n - 1], feed[n], agents)
  BY <1>1, GroupFeedSteps
<1>3. PICK U : U = {feed[i].item : i \in 1 .. N}
  OBVIOUS
<1> DEFINE front(n) == [i \in 1 .. n |-> feed[i].item]
           S == {n \in 0 .. N : CutInto(g[n], front(n), U, agents)}
<1>4. \A n \in 0 .. N : front(n) \in [1 .. n -> U] /\ front(n) \in Seq(U)
  <2> SUFFICES ASSUME NEW n \in 0 .. N PROVE front(n) \in [1 .. n -> U] /\ front(n) \in Seq(U)
    OBVIOUS
  <2>1. \A i \in 1 .. n : i \in 1 .. N
    BY <1>1
  <2>2. \A i \in 1 .. n : feed[i].item \in U
    BY <1>3, <2>1
  <2>3. front(n) \in [1 .. n -> U] /\ n \in Nat
    BY <1>1, <2>2
  <2> HIDE DEF front
  <2> QED BY <2>3
<1>5. 0 \in S
  <2>1. 0 \in 0 .. N
    BY <1>1
  <2>2. front(0) = <<>>
    BY <1>4, <2>1
  <2>3. PICK B : B = g[0] /\ B = <<>> /\ DOMAIN B = {} /\ Len(B) = 0
    BY <1>2
  <2>4. B \in Seq(BlocksOf(U)) /\ Pieces(B) = <<>>
    BY <2>3 DEF Pieces
  <2>5. Joined([i \in 0 .. 0 |-> <<>>], Pieces(B), U)
    <3>1. <<>> \in Seq(U) /\ 0 .. 0 = {0} /\ 1 .. 0 = {}
      OBVIOUS
    <3> QED BY <2>4, <3>1 DEF Joined
  <2>6. [i \in 0 .. 0 |-> <<>>][0] = <<>>
    OBVIOUS
  <2>7. CutInto(B, <<>>, U, agents)
    <3>1. <<>> \in Seq(U)
      OBVIOUS
    <3>2. \E h : Joined(h, Pieces(B), U) /\ h[Len(B)] = <<>>
      BY <2>3, <2>5, <2>6
    <3> QED BY <2>3, <2>4, <3>1, <3>2 DEF CutInto, Apart
  <2> HIDE DEF front
  <2> QED BY <2>1, <2>2, <2>3, <2>7
<1>6. ASSUME NEW n \in 0 .. N, n \in S, n < N PROVE n + 1 \in S
  <2>1. n \in Nat /\ n + 1 \in 1 .. N /\ n + 1 \in 0 .. N /\ (n + 1) - 1 = n
    BY <1>1, <1>6
  <2>2. g[n + 1] = GroupStep(g[n], feed[n + 1], agents) /\ feed[n + 1].item \in U
    BY <1>2, <1>3, <2>1
  <2>3. front(n + 1) = Append(front(n), feed[n + 1].item)
    <3>1. front(n + 1)[n + 1] = feed[n + 1].item /\ \A i \in 1 .. n : front(n + 1)[i] = front(n)[i]
      BY <2>1
    <3>2. front(n) \in [1 .. n -> U] /\ front(n + 1) \in [1 .. n + 1 -> U]
      BY <1>4, <2>1
    <3> HIDE DEF front
    <3>3. front(n + 1) = Append(front(n), front(n + 1)[n + 1])
      BY <2>1, <3>1, <3>2, IsAppended
    <3> QED BY <3>1, <3>3
  <2> HIDE DEF front
  <2>4. CutInto(g[n], front(n), U, agents)
    BY <1>6
  <2>5. CutInto(g[n + 1], Append(front(n), feed[n + 1].item), U, agents)
    BY <2>2, <2>4, GroupStepCuts
  <2> QED BY <2>1, <2>3, <2>5
<1>7. CutInto(g[N], front(N), U, agents)
  <2> HIDE DEF S
  <2>1. \A n \in 0 .. N : n \in S
    BY <1>5, <1>6, InductTo
  <2> QED BY <1>1, <2>1 DEF S
<1>8. PICK B : B = GroupFeed(feed, agents) /\ B = g[N]
  BY <1>2
<1>9. B \in Seq(BlocksOf(U)) /\ DOMAIN B = 1 .. Len(B) /\ \A i \in 1 .. Len(B) : B[i] \in BlocksOf(U)
  BY <1>7, <1>8, PiecesSeq DEF CutInto
<1>10. FlattenSeq(Pieces(B)) = front(N)
  <2> HIDE DEF front
  <2>1. PICK h : Joined(h, Pieces(B), U) /\ h[Len(B)] = front(N)
    BY <1>7, <1>8 DEF CutInto
  <2>2. Pieces(B) \in Seq(Seq(U)) /\ Len(Pieces(B)) = Len(B)
    BY <1>9, PiecesSeq
  <2>3. FlattenSeq(Pieces(B)) = h[Len(Pieces(B))]
    BY <2>1, <2>2, FlattenIsJoined
  <2> QED BY <2>1, <2>2, <2>3
<1>11. \A i \in DOMAIN B : \E j \in DOMAIN feed : B[i].agentId = feed[j].item.agentId
  <2>1. \A i \in DOMAIN B : B[i].agentId \in {x.agentId : x \in U}
    BY <1>9 DEF BlocksOf
  <2> QED BY <1>1, <1>3, <2>1
<1>12. FlattenSeq([i \in DOMAIN B |-> B[i].items]) = [i \in DOMAIN feed |-> feed[i].item]
  BY <1>1, <1>10 DEF Pieces
<1>13. /\ \A i \in DOMAIN B : \A x \in ToSet(B[i].items) : x.agentId = B[i].agentId
       /\ Apart(B, agents)
  BY <1>7, <1>8 DEF CutInto
<1> QED BY <1>8, <1>11, <1>12, <1>13
===============================================================================
