-------------------------- MODULE MembershipProofs --------------------------
(***************************************************************************)
(* Proofs about Membership for any set of agents and of requests, any      *)
(* number of crashes and every combination of faults.                      *)
(***************************************************************************)
EXTENDS Membership, SequenceTheorems, FiniteSetTheorems, WellFoundedInduction, TLAPS

(* The first record of a request, and any edit of one, is a request record. *)
LEMMA ReqTypes ==
  /\ NoReq \in Reqs
  /\ \A q \in Reqs, x \in Answers : [q EXCEPT !.answer = x] \in Reqs
  /\ \A q \in Reqs, x \in SUBSET Agents : [q EXCEPT !.seen = x] \in Reqs
  /\ \A q \in Reqs, x \in Nat : [q EXCEPT !.seq = x] \in Reqs
  /\ \A k \in {"invite", "leave", "other"}, a, b \in Agents :
       [NoReq EXCEPT !.kind = k, !.by = a, !.target = b] \in Reqs
<1>1. NoReq \in Reqs
  BY CreatorAssumption DEF NoReq, Reqs, Answers
<1>2. \A q \in Reqs, x \in Answers : [q EXCEPT !.answer = x] \in Reqs
  BY DEF Reqs
<1>3. \A q \in Reqs, x \in SUBSET Agents : [q EXCEPT !.seen = x] \in Reqs
  BY DEF Reqs
<1>4. \A q \in Reqs, x \in Nat : [q EXCEPT !.seq = x] \in Reqs
  BY DEF Reqs
<1>5. \A k \in {"invite", "leave", "other"}, a, b \in Agents :
        [NoReq EXCEPT !.kind = k, !.by = a, !.target = b] \in Reqs
  BY <1>1 DEF Reqs
<1> QED BY <1>1, <1>2, <1>3, <1>4, <1>5

(* A reply keeps the types. *)
LEMMA ReplyType ==
  ASSUME TypeOK, NEW r \in Requests, NEW x \in Answers, Reply(r, x)
  PROVE  pc' \in [Requests -> PCs] /\ req' \in [Requests -> Reqs]
<1>1. [req[r] EXCEPT !.answer = x] \in Reqs
  BY ReqTypes DEF TypeOK
<1>2. req' = [req EXCEPT ![r] = [req[r] EXCEPT !.answer = x]]
  BY DEF Reply
<1>3. req' \in [Requests -> Reqs]
  BY <1>1, <1>2 DEF TypeOK
<1>4. pc' \in [Requests -> PCs]
  BY DEF TypeOK, Reply, PCs
<1> QED BY <1>3, <1>4

LEMMA GotoType ==
  ASSUME TypeOK, NEW r \in Requests, NEW x \in PCs, Goto(r, x)
  PROVE  pc' \in [Requests -> PCs]
  BY DEF TypeOK, Goto

(* The outcome of the gate keeps the types. *)
LEMMA GateType ==
  ASSUME TypeOK, NEW r \in Requests, NEW q \in Reqs, Admit(r, q) \/ Refuse(r, q)
  PROVE  pc' \in [Requests -> PCs] /\ req' \in [Requests -> Reqs]
<1>1. {"served", "none", "not_member"} \subseteq Answers
  BY DEF Answers
<1>2. CASE Refuse(r, q)
  <2>1. [q EXCEPT !.answer = "not_member"] \in Reqs
    BY <1>1, ReqTypes
  <2> QED BY <1>2, <2>1 DEF TypeOK, Refuse, Goto, PCs
<1>3. CASE Admit(r, q)
  <2>1. [q EXCEPT !.answer = IF q.kind = "other" THEN "served" ELSE "none"] \in Reqs
    BY <1>1, ReqTypes
  <2>2. Admitted(q.kind) \in PCs
    BY DEF Admitted, PCs
  <2>3. pc' \in [Requests -> PCs]
    BY <1>3, <2>2, GotoType DEF Admit
  <2>4. req' \in [Requests -> Reqs]
    BY <1>3, <2>1 DEF TypeOK, Admit
  <2> QED BY <2>3, <2>4
<1> QED BY <1>2, <1>3

(* What a request is about, and what its reads have seen, are agents. *)
LEMMA ReqFields ==
  ASSUME TypeOK, NEW r \in Requests
  PROVE  /\ req[r] \in Reqs /\ req[r].by \in Agents /\ req[r].target \in Agents
         /\ req[r].seen \in SUBSET Agents /\ req[r].seq \in Nat
  BY DEF TypeOK, Reqs

(* The deletion of a row touches only what the waiting transactions have seen. *)
LEMMA RowGoneFacts ==
  ASSUME TypeOK, NEW a
  PROVE  /\ RowGone(a) \in [Requests -> Reqs]
         /\ \A q \in Requests : ~Locking(q) => RowGone(a)[q].seen = req[q].seen
         /\ \A q \in Requests : Locking(q) => RowGone(a)[q].seen = req[q].seen \ {a}
<1> DEFINE s(q) == IF Locking(q) THEN req[q].seen \ {a} ELSE req[q].seen
<1>1. \A q \in Requests : req[q] \in Reqs /\ s(q) \in SUBSET Agents
  BY ReqFields DEF TypeOK
<1>2. \A q \in Reqs, x \in SUBSET Agents : [q EXCEPT !.seen = x].seen = x
  BY DEF Reqs
<1>3. RowGone(a) = [q \in Requests |-> [req[q] EXCEPT !.seen = s(q)]]
  BY DEF RowGone
<1>4. ASSUME NEW q \in Requests
      PROVE  [req[q] EXCEPT !.seen = s(q)] \in Reqs /\ [req[q] EXCEPT !.seen = s(q)].seen = s(q)
  <2> HIDE DEF s
  <2> QED BY <1>1, <1>2, ReqTypes
<1>5. \A q \in Requests : RowGone(a)[q].seen = s(q)
  <2> HIDE DEF s
  <2> QED BY <1>3, <1>4
<1>6. RowGone(a) \in [Requests -> Reqs]
  <2> HIDE DEF s
  <2> QED BY <1>3, <1>4
<1> QED BY <1>5, <1>6

(* Type correctness of one step. *)
LEMMA TypeStep == TypeOK /\ [Next]_vars => TypeOK'
<1> SUFFICES ASSUME TypeOK, [Next]_vars PROVE TypeOK'
  OBVIOUS
<1>p. /\ {"isMember", "isMemberSet", "add", "addSet", "check", "checking", "lock", "locking", "remove",
          "invalidate", "append", "head", "done", "dead"} \subseteq PCs
      /\ Answers = {"none", "error", "not_member", "last_member", "already_member", "served",
                    "created", "invited", "left"}
  BY DEF PCs, Answers
<1>1. ASSUME NEW r \in Requests, CreateRow(r) PROVE TypeOK'
  <2>1. pc' \in [Requests -> PCs] /\ req' \in [Requests -> Reqs]
    <3>1. CASE req' = [req EXCEPT ![r] = NoReq] /\ Goto(r, "add")
      BY <1>p, <3>1, GotoType, ReqTypes DEF TypeOK
    <3>2. CASE Reply(r, "error")
      BY <1>p, <3>2, ReplyType
    <3> QED BY <1>1, <3>1, <3>2 DEF CreateRow
  <2>2. exists' \in BOOLEAN
    BY <1>1 DEF CreateRow
  <2> QED BY <1>1, <2>1, <2>2 DEF TypeOK, CreateRow
<1>2. ASSUME NEW r \in Requests, Arrive(r) PROVE TypeOK'
  <2>1. PICK k \in {"invite", "leave", "other"}, a \in Agents, b \in Agents :
          LET q == [NoReq EXCEPT !.kind = k, !.by = a, !.target = b] IN
          \/ Admit(r, q)
          \/ Refuse(r, q)
          \/ Goto(r, "isMember") /\ req' = [req EXCEPT ![r] = q]
    BY <1>2 DEF Arrive
  <2> DEFINE q == [NoReq EXCEPT !.kind = k, !.by = a, !.target = b]
  <2>2. q \in Reqs
    BY ReqTypes
  <2> HIDE DEF q
  <2>3. pc' \in [Requests -> PCs] /\ req' \in [Requests -> Reqs]
    <3>1. CASE Admit(r, q) \/ Refuse(r, q)
      BY <2>2, <3>1, GateType
    <3>2. CASE Goto(r, "isMember") /\ req' = [req EXCEPT ![r] = q]
      BY <1>p, <2>2, <3>2, GotoType DEF TypeOK
    <3> QED BY <2>1, <3>1, <3>2 DEF q
  <2> QED BY <1>2, <2>3 DEF TypeOK, Arrive
<1>3. ASSUME NEW r \in Requests, IsMemberRead(r) PROVE TypeOK'
  <2>1. [req[r] EXCEPT !.seen = members \cap {req[r].by}] \in Reqs
    BY ReqTypes, ReqFields DEF TypeOK
  <2>2. pc' \in [Requests -> PCs] /\ req' \in [Requests -> Reqs]
    <3>1. CASE req' = [req EXCEPT ![r].seen = members \cap {req[r].by}] /\ Goto(r, "isMemberSet")
      BY <1>p, <2>1, <3>1, GotoType DEF TypeOK
    <3>2. CASE Reply(r, "error")
      BY <1>p, <3>2, ReplyType
    <3> QED BY <1>3, <3>1, <3>2 DEF IsMemberRead
  <2> QED BY <1>3, <2>2 DEF TypeOK, IsMemberRead
<1>4. ASSUME NEW r \in Requests, IsMemberSet(r) PROVE TypeOK'
  <2> DEFINE q == [req[r] EXCEPT !.seen = {}]
  <2>1. q \in Reqs
    BY ReqTypes, ReqFields
  <2>2. Admit(r, q) \/ Refuse(r, q)
    BY <1>4 DEF IsMemberSet
  <2> HIDE DEF q
  <2>3. pc' \in [Requests -> PCs] /\ req' \in [Requests -> Reqs]
    BY <2>1, <2>2, GateType
  <2>4. cache' \in [Agents -> {"yes", "no", "none"}]
    BY <1>4 DEF IsMemberSet, TypeOK
  <2> QED BY <1>4, <2>3, <2>4 DEF TypeOK, IsMemberSet
<1>5. ASSUME NEW r \in Requests, AddMember(r) PROVE TypeOK'
  <2>1. [req[r] EXCEPT !.seen = members \cap {req[r].target}] \in Reqs
    BY ReqTypes, ReqFields DEF TypeOK
  <2>2. pc' \in [Requests -> PCs] /\ req' \in [Requests -> Reqs]
    <3>1. CASE req' = [req EXCEPT ![r].seen = members \cap {req[r].target}] /\ Goto(r, "addSet")
      BY <1>p, <2>1, <3>1, GotoType DEF TypeOK
    <3>2. CASE Reply(r, "error")
      BY <1>p, <3>2, ReplyType
    <3> QED BY <1>5, <3>1, <3>2 DEF AddMember
  <2>3. members' \in SUBSET Agents
    BY <1>5, ReqFields DEF AddMember, TypeOK
  <2> QED BY <1>5, <2>2, <2>3 DEF TypeOK, AddMember
<1>6. ASSUME NEW r \in Requests, AddMemberSet(r) PROVE TypeOK'
  <2>1. pc' \in [Requests -> PCs] /\ req' \in [Requests -> Reqs]
    <3>1. CASE UNCHANGED req /\ Goto(r, "append")
      BY <1>p, <3>1, GotoType DEF TypeOK
    <3>2. CASE Reply(r, "already_member")
      BY <1>p, <3>2, ReplyType
    <3> QED BY <1>6, <3>1, <3>2 DEF AddMemberSet
  <2>2. cache' \in [Agents -> {"yes", "no", "none"}]
    BY <1>6 DEF AddMemberSet, TypeOK
  <2> QED BY <1>6, <2>1, <2>2 DEF TypeOK, AddMemberSet
<1>7. ASSUME NEW r \in Requests, LockMembers(r) \/ LockRow(r) \/ Locked(r) \/ LockFails(r)
      PROVE  TypeOK'
  <2>1. [req[r] EXCEPT !.seen = members] \in Reqs
    BY ReqTypes, ReqFields DEF TypeOK
  <2>2. pc' \in [Requests -> PCs] /\ req' \in [Requests -> Reqs]
    <3>1. CASE /\ req' = [req EXCEPT ![r].seen = members]
               /\ \E x \in {"checking", "locking"} : Goto(r, x)
      BY <1>p, <2>1, <3>1, GotoType DEF TypeOK
    <3>2. CASE UNCHANGED req /\ \E x \in {"lock", "remove"} : Goto(r, x)
      BY <1>p, <3>2, GotoType DEF TypeOK
    <3>3. CASE Reply(r, "error")
      BY <1>p, <3>3, ReplyType
    <3>4. CASE UNCHANGED <<req, pc>>
      BY <3>4 DEF TypeOK
    <3> QED BY <1>7, <3>1, <3>2, <3>3, <3>4 DEF LockMembers, LockRow, Locked, LockFails
  <2>3. lock' \in [Requests -> SUBSET Agents]
    BY <1>7, ReqFields DEF LockMembers, LockRow, Locked, LockFails, Wanted, TypeOK
  <2> QED BY <1>7, <2>2, <2>3 DEF TypeOK, LockMembers, LockRow, Locked, LockFails
<1>8. ASSUME NEW r \in Requests, RemoveRefused(r) PROVE TypeOK'
  <2>1. pc' \in [Requests -> PCs] /\ req' \in [Requests -> Reqs]
    BY <1>8, <1>p, ReplyType DEF RemoveRefused
  <2>2. lock' \in [Requests -> SUBSET Agents]
    BY <1>8 DEF RemoveRefused, Rollback, TypeOK
  <2> QED BY <1>8, <2>1, <2>2 DEF TypeOK, RemoveRefused
<1>9. ASSUME NEW r \in Requests, RemoveCommit(r) PROVE TypeOK'
  <2> DEFINE gone == RowGone(req[r].by)
  <2>1. gone \in [Requests -> Reqs]
    BY RowGoneFacts
  <2> HIDE DEF gone
  <2>2. pc' \in [Requests -> PCs] /\ req' \in [Requests -> Reqs]
    <3>1. CASE Goto(r, "invalidate") /\ req' = gone
      BY <1>p, <2>1, <3>1, GotoType
    <3>2. CASE Goto(r, "done") /\ req' = [gone EXCEPT ![r].answer = "error"]
      <4>1. [gone[r] EXCEPT !.answer = "error"] \in Reqs
        BY <1>p, <2>1, ReqTypes
      <4> QED BY <1>p, <2>1, <3>2, <4>1, GotoType
    <3>3. CASE Reply(r, "error")
      BY <1>p, <3>3, ReplyType
    <3> QED BY <1>9, <3>1, <3>2, <3>3 DEF RemoveCommit, gone
  <2>3. lock' \in [Requests -> SUBSET Agents] /\ members' \in SUBSET Agents
    BY <1>9 DEF RemoveCommit, TypeOK
  <2> QED BY <1>9, <2>2, <2>3 DEF TypeOK, RemoveCommit
<1>10. ASSUME NEW r \in Requests, Invalidate(r) PROVE TypeOK'
  <2>1. pc' \in [Requests -> PCs]
    BY <1>10, <1>p, GotoType DEF Invalidate
  <2> QED BY <1>10, <2>1 DEF TypeOK, Invalidate
<1>11. ASSUME NEW r \in Requests, AppendEvent(r) PROVE TypeOK'
  <2>1. Event(r) \in Events
    BY ReqFields DEF Event, Joined, Left, Events
  <2>a. Append(log, Event(r)) \in Seq(Events)
    BY <2>1, AppendProperties DEF TypeOK
  <2>2. log' \in Seq(Events)
    BY <1>11, <2>a DEF AppendEvent, TypeOK
  <2>3. LastSeq \in Nat
    BY LenProperties DEF TypeOK, LastSeq
  <2>4. [req[r] EXCEPT !.seq = LastSeq] \in Reqs
    BY <2>3, ReqTypes, ReqFields
  <2>5. pc' \in [Requests -> PCs] /\ req' \in [Requests -> Reqs]
    <3>1. CASE req' = [req EXCEPT ![r].seq = LastSeq] /\ Goto(r, "head")
      BY <1>p, <2>4, <3>1, GotoType DEF TypeOK
    <3>2. CASE \E x \in Answers : Reply(r, x)
      BY <3>2, ReplyType
    <3> QED BY <1>11, <1>p, <3>1, <3>2 DEF AppendEvent
  <2> QED BY <1>11, <2>2, <2>5 DEF TypeOK, AppendEvent
<1>12. ASSUME NEW r \in Requests, AdvanceHead(r) PROVE TypeOK'
  <2>1. Success(r) \in Answers
    BY <1>p DEF Success
  <2>2. pc' \in [Requests -> PCs] /\ req' \in [Requests -> Reqs]
    BY <1>12, <2>1, ReplyType DEF AdvanceHead
  <2>3. head' \in Nat
    BY <1>12, ReqFields DEF AdvanceHead, UpdateHead, TypeOK
  <2> QED BY <1>12, <2>2, <2>3 DEF TypeOK, AdvanceHead
<1>13. ASSUME NEW a \in Agents, Expire(a) PROVE TypeOK'
  BY <1>13 DEF TypeOK, Expire
<1>14. CASE Crash
  <2>1. pc' \in [Requests -> PCs]
    BY <1>14, <1>p DEF Crash, TypeOK
  <2>2. cache' \in [Agents -> {"yes", "no", "none"}]
    BY <1>14 DEF Crash
  <2> QED BY <1>14, <2>1, <2>2 DEF TypeOK, Crash
<1>15. CASE UNCHANGED vars
  BY <1>15 DEF TypeOK, vars
<1> QED
  BY <1>1, <1>2, <1>3, <1>4, <1>5, <1>6, <1>7, <1>8, <1>9, <1>10, <1>11, <1>12, <1>13, <1>14, <1>15
     DEF Next, Handler

(***************************************************************************)
(* Why a conversation is never emptied                                     *)
(***************************************************************************)

(* A request takes row locks, or is about to delete. *)
Txn == {"checking", "locking", "remove"}

(* Row locks are held within transactions only, each row by one, and about to delete are  *)
(* those that hold all they have seen.  The rows that a transaction has seen are there:   *)
(* invites only add rows, and a deleted row drops out of what the others have seen.       *)
LockInv ==
    /\ \A r \in Requests : pc[r] \notin Txn => lock[r] = {}
    /\ \A r \in Requests : pc[r] \in Txn => lock[r] \subseteq req[r].seen /\ req[r].seen \subseteq members
    /\ \A r \in Requests : pc[r] = "remove" => lock[r] = req[r].seen
    /\ \A q, r \in Requests : q # r => lock[q] \cap lock[r] = {}

(* A step of a request outside its transactions leaves the others what they hold. *)
LEMMA ElsewhereKeepsLock ==
  ASSUME TypeOK, LockInv, NEW r \in Requests, UNCHANGED lock, members \subseteq members',
         NEW x, x \notin Txn, pc' = [pc EXCEPT ![r] = x], pc[r] \notin Txn,
         \A q \in Requests \ {r} : req'[q] = req[q]
  PROVE  LockInv'
<1>1. \A q \in Requests \ {r} : pc'[q] = pc[q] /\ req'[q] = req[q]
  BY DEF TypeOK
<1>2. pc'[r] = x
  BY DEF TypeOK
<1> QED BY <1>1, <1>2 DEF LockInv, Txn

(* The lock invariant survives every step. *)
LEMMA LockStep == TypeOK /\ LockInv /\ [Next]_vars => LockInv'
<1> SUFFICES ASSUME TypeOK, LockInv, [Next]_vars PROVE LockInv'
  OBVIOUS
<1>1. ASSUME NEW r \in Requests, CreateRow(r) \/ AddMember(r) \/ AddMemberSet(r) PROVE LockInv'
  <2>1. \A q \in Requests \ {r} : req'[q] = req[q]
    BY <1>1 DEF CreateRow, AddMember, AddMemberSet, Reply, TypeOK
  <2>2. UNCHANGED lock /\ members \subseteq members'
    BY <1>1 DEF CreateRow, AddMember, AddMemberSet
  <2>3. \E x \in {"add", "addSet", "append", "done"} : pc' = [pc EXCEPT ![r] = x]
    BY <1>1 DEF CreateRow, AddMember, AddMemberSet, Goto, Reply
  <2>4. pc[r] \notin Txn
    BY <1>1 DEF CreateRow, AddMember, AddMemberSet, Txn
  <2> QED BY <2>1, <2>2, <2>3, <2>4, ElsewhereKeepsLock DEF Txn
<1>2. ASSUME NEW r \in Requests, Arrive(r) \/ IsMemberSet(r) PROVE LockInv'
  <2>1. PICK q : Admit(r, q) \/ Refuse(r, q) \/ (Goto(r, "isMember") /\ req' = [req EXCEPT ![r] = q])
    BY <1>2 DEF Arrive, IsMemberSet
  <2>2. \A p \in Requests \ {r} : req'[p] = req[p]
    BY <2>1 DEF Admit, Refuse, TypeOK
  <2>3. UNCHANGED <<lock, members>>
    BY <1>2 DEF Arrive, IsMemberSet
  <2>4. \E x \in {"add", "check", "done", "isMember"} : pc' = [pc EXCEPT ![r] = x]
    BY <2>1 DEF Admit, Refuse, Goto, Admitted
  <2>5. pc[r] \notin Txn
    BY <1>2 DEF Arrive, IsMemberSet, Txn
  <2> QED BY <2>2, <2>3, <2>4, <2>5, ElsewhereKeepsLock DEF Txn
<1>3. ASSUME NEW r \in Requests, IsMemberRead(r) \/ Invalidate(r) PROVE LockInv'
  <2>1. \A q \in Requests \ {r} : req'[q] = req[q]
    BY <1>3 DEF IsMemberRead, Invalidate, Reply, TypeOK
  <2>2. UNCHANGED <<lock, members>>
    BY <1>3 DEF IsMemberRead, Invalidate
  <2>3. \E x \in {"isMemberSet", "append", "done"} : pc' = [pc EXCEPT ![r] = x]
    BY <1>3 DEF IsMemberRead, Invalidate, Goto, Reply
  <2>4. pc[r] \notin Txn
    BY <1>3 DEF IsMemberRead, Invalidate, Txn
  <2> QED BY <2>1, <2>2, <2>3, <2>4, ElsewhereKeepsLock DEF Txn
<1>4. ASSUME NEW r \in Requests, AppendEvent(r) \/ AdvanceHead(r) PROVE LockInv'
  <2>1. \A q \in Requests \ {r} : req'[q] = req[q]
    BY <1>4 DEF AppendEvent, AdvanceHead, Reply, TypeOK
  <2>2. UNCHANGED <<lock, members>>
    BY <1>4 DEF AppendEvent, AdvanceHead
  <2>3. \E x \in {"head", "done"} : pc' = [pc EXCEPT ![r] = x]
    BY <1>4 DEF AppendEvent, AdvanceHead, Goto, Reply
  <2>4. pc[r] \notin Txn
    BY <1>4 DEF AppendEvent, AdvanceHead, Txn
  <2> QED BY <2>1, <2>2, <2>3, <2>4, ElsewhereKeepsLock DEF Txn
<1>5. ASSUME NEW r \in Requests, LockMembers(r) \/ LockRow(r) \/ Locked(r) \/ LockFails(r)
      PROVE  LockInv'
  <2>0. UNCHANGED members /\ \A q \in Requests \ {r} : req'[q] = req[q] /\ pc'[q] = pc[q]
    BY <1>5 DEF LockMembers, LockRow, Locked, LockFails, Goto, Reply, TypeOK
  <2>1. CASE /\ pc[r] \notin Txn /\ (\E x \in {"checking", "locking"} : Goto(r, x)) /\ UNCHANGED lock
             /\ req' = [req EXCEPT ![r].seen = members]
    <3>1. pc'[r] \in {"checking", "locking"} /\ req'[r].seen = members
      BY <2>1 DEF Goto, TypeOK, Reqs
    <3>2. lock[r] = {}
      BY <2>1 DEF LockInv
    <3> QED BY <2>0, <2>1, <3>1, <3>2 DEF LockInv, Txn
  <2>2. CASE LockRow(r)
    <3>1. PICK a \in Wanted(r) : Free(a) /\ lock' = [lock EXCEPT ![r] = @ \cup {a}]
      BY <2>2 DEF LockRow
    <3>2. pc[r] \in {"checking", "locking"} /\ pc'[r] = pc[r] /\ req'[r] = req[r]
      BY <2>2 DEF LockRow, Locking
    <3>3. lock'[r] = lock[r] \cup {a} /\ \A q \in Requests \ {r} : lock'[q] = lock[q] /\ a \notin lock[q]
      BY <3>1 DEF TypeOK, Free
    <3>4. a \in req[r].seen
      BY <3>1 DEF Wanted
    <3> QED BY <2>0, <3>2, <3>3, <3>4 DEF LockInv, Txn
  <2>3. CASE Locked(r) /\ pc[r] = "locking"
    <3>1. pc'[r] = "remove" /\ req'[r] = req[r] /\ UNCHANGED lock
      BY <2>3 DEF Locked, Goto, TypeOK
    <3>2. lock[r] = req[r].seen
      BY <2>3 DEF Locked, Wanted, LockInv, Txn
    <3> QED BY <2>0, <2>3, <3>1, <3>2 DEF LockInv, Txn
  <2>4. CASE LockFails(r) \/ (Locked(r) /\ pc[r] # "locking")
    <3>1. lock' = [lock EXCEPT ![r] = {}] /\ pc'[r] \notin Txn
      BY <2>4 DEF LockFails, Locked, Txn, Goto, Reply, TypeOK
    <3>2. lock'[r] = {} /\ \A q \in Requests \ {r} : lock'[q] = lock[q]
      BY <3>1 DEF TypeOK
    <3> QED BY <2>0, <3>1, <3>2 DEF LockInv, Txn
  <2>5. CASE pc[r] \notin Txn /\ UNCHANGED lock /\ pc'[r] \notin Txn
    BY <2>0, <2>5 DEF LockInv, Txn
  <2>6. CASE LockMembers(r)
    <3>1. pc[r] \notin Txn /\ UNCHANGED lock
      BY <2>6 DEF LockMembers, Txn
    <3>2. CASE Reply(r, "error")
      <4>1. pc'[r] = "done"
        BY <3>2 DEF Reply, TypeOK
      <4> QED BY <2>5, <3>1, <4>1 DEF Txn
    <3>3. CASE req' = [req EXCEPT ![r].seen = members] /\ \E x \in {"checking", "locking"} : Goto(r, x)
      BY <2>1, <3>1, <3>3
    <3> QED BY <2>6, <3>2, <3>3 DEF LockMembers
  <2> QED BY <1>5, <2>2, <2>3, <2>4, <2>6
<1>6. ASSUME NEW r \in Requests, RemoveRefused(r) \/ RemoveCommit(r) PROVE LockInv'
  <2> DEFINE a == req[r].by
  <2>1. /\ pc[r] = "remove" /\ pc'[r] \notin Txn /\ lock'[r] = {}
        /\ \A q \in Requests \ {r} : pc'[q] = pc[q] /\ lock'[q] = lock[q]
    BY <1>6 DEF RemoveRefused, RemoveCommit, Rollback, Goto, Reply, TypeOK, Txn
  <2>2. CASE members' = members /\ \A q \in Requests \ {r} : req'[q].seen = req[q].seen
    BY <2>1, <2>2 DEF LockInv, Txn
  <2>3. CASE /\ RemoveCommit(r) /\ members' = members \ {a}
             /\ \A q \in Requests \ {r} : req'[q].seen = RowGone(a)[q].seen
    <3>1. \A q \in Requests \ {r} :
            /\ pc[q] = "remove" => req'[q].seen = req[q].seen
            /\ pc[q] \in {"checking", "locking"} => req'[q].seen = req[q].seen \ {a}
      BY <2>3, RowGoneFacts DEF Locking
    <3>2. a \in lock[r]
      BY <2>1, <2>3 DEF LockInv, RemoveCommit
    <3>3. \A q \in Requests \ {r} : a \notin lock[q]
      BY <3>2 DEF LockInv
    <3>4. \A q \in Requests \ {r} :
            pc[q] \in Txn => lock[q] \subseteq req'[q].seen /\ req'[q].seen \subseteq members'
      BY <2>3, <3>1, <3>3 DEF LockInv, Txn
    <3>5. \A q \in Requests \ {r} : pc[q] = "remove" => lock[q] = req'[q].seen
      BY <3>1 DEF LockInv
    <3>6. \A q, p \in Requests : q # p => lock'[q] \cap lock'[p] = {}
      BY <2>1 DEF LockInv
    <3>7. \A q \in Requests : pc'[q] \notin Txn => lock'[q] = {}
      BY <2>1 DEF LockInv
    <3>8. \A q \in Requests \ {r} : pc'[q] \in Txn => lock'[q] \subseteq req'[q].seen /\ req'[q].seen \subseteq members'
      BY <2>1, <3>4
    <3>9. \A q \in Requests \ {r} : pc'[q] = "remove" => lock'[q] = req'[q].seen
      BY <2>1, <3>5
    <3> QED BY <2>1, <3>6, <3>7, <3>8, <3>9 DEF LockInv, Txn
  <2>4. \A q \in Requests \ {r} :
          /\ [RowGone(a) EXCEPT ![r].answer = "error"][q] = RowGone(a)[q]
          /\ \A x : [req EXCEPT ![r].answer = x][q] = req[q]
    BY RowGoneFacts DEF TypeOK
  <2>5. CASE UNCHANGED members /\ \E x : Reply(r, x)
    BY <2>2, <2>4, <2>5 DEF Reply
  <2>6. CASE /\ RemoveCommit(r) /\ members' = members \ {a}
             /\ req' \in {RowGone(a), [RowGone(a) EXCEPT ![r].answer = "error"]}
    BY <2>3, <2>4, <2>6
  <2>7. RemoveRefused(r) => UNCHANGED members /\ \E x : Reply(r, x)
    BY DEF RemoveRefused
  <2>8. RemoveCommit(r) =>
          \/ UNCHANGED members /\ \E x : Reply(r, x)
          \/ members' = members \ {a} /\ req' \in {RowGone(a), [RowGone(a) EXCEPT ![r].answer = "error"]}
    BY DEF RemoveCommit
  <2> QED BY <1>6, <2>5, <2>6, <2>7, <2>8
<1>7. ASSUME NEW a \in Agents, Expire(a) PROVE LockInv'
  BY <1>7 DEF Expire, LockInv
<1>8. CASE Crash
  <2>1. \A q \in Requests : pc'[q] \notin Txn /\ lock'[q] = {}
    BY <1>8 DEF Crash, Txn
  <2> QED BY <2>1 DEF LockInv, Txn
<1>9. CASE UNCHANGED vars
  BY <1>9 DEF vars, LockInv
<1> QED BY <1>1, <1>2, <1>3, <1>4, <1>5, <1>6, <1>7, <1>8, <1>9 DEF Next, Handler

(* Initially there is neither a conversation nor a transaction. *)
LEMMA InitOK == Init => TypeOK /\ LockInv
<1> SUFFICES ASSUME Init PROVE TypeOK /\ LockInv
  OBVIOUS
<1>1. <<>> \in Seq(Events) /\ "idle" \in PCs
  BY DEF PCs
<1>2. TypeOK
  BY <1>1, ReqTypes DEF Init, TypeOK
<1>3. LockInv
  BY DEF Init, LockInv, Txn
<1> QED BY <1>2, <1>3

(* The inductive invariant of the membership operations. *)
LEMMA InvariantHolds == Spec => [](TypeOK /\ LockInv)
<1>1. TypeOK /\ LockInv /\ [Next]_vars => (TypeOK /\ LockInv)'
  BY TypeStep, LockStep
<1> QED BY <1>1, InitOK, PTL DEF Spec

(* The rows, the cache, the stream and every request keep their types. *)
THEOREM TypeCorrect == Spec => []TypeOK
  BY InvariantHolds, PTL

(* The rows only ever shrink by the commit of a RemoveMember, and that one leaves the *)
(* other row it has locked.                                                            *)
LEMMA NeverEmptiedStep ==
  ASSUME TypeOK, LockInv, [Next]_vars, members # {}
  PROVE  members' # {}
<1>1. ASSUME NEW r \in Requests, RemoveCommit(r) PROVE members' # {}
  <2>1. req[r].by \in req[r].seen /\ req[r].seen # {req[r].by} /\ req[r].seen \subseteq members
    BY <1>1 DEF RemoveCommit, LockInv, Txn
  <2>2. PICK b \in req[r].seen : b # req[r].by
    BY <2>1
  <2>3. b \in members \ {req[r].by}
    BY <2>1, <2>2
  <2> QED BY <1>1, <2>3 DEF RemoveCommit
<1>2. ASSUME NEW r \in Requests,
             \/ CreateRow(r) \/ Arrive(r) \/ IsMemberRead(r) \/ IsMemberSet(r)
             \/ AddMember(r) \/ AddMemberSet(r)
         \/ LockMembers(r) \/ LockRow(r) \/ Locked(r) \/ LockFails(r)
             \/ RemoveRefused(r) \/ Invalidate(r) \/ AppendEvent(r) \/ AdvanceHead(r)
      PROVE  members \subseteq members'
  BY <1>2 DEF CreateRow, Arrive, IsMemberRead, IsMemberSet, AddMember, AddMemberSet, LockMembers,
              LockRow, Locked, LockFails, RemoveRefused, Invalidate, AppendEvent, AdvanceHead
<1>3. ASSUME NEW a \in Agents, Expire(a) PROVE members' = members
  BY <1>3 DEF Expire
<1>4. Crash \/ UNCHANGED vars => members' = members
  BY DEF Crash, vars
<1> QED BY <1>1, <1>2, <1>3, <1>4 DEF Next, Handler

(* For every number of members leaving, joining and being re-invited at once, with failing *)
(* commits and crashes: the last-member rule of RemoveMember holds.                        *)
THEOREM ConversationNeverEmptied == Spec => NeverEmptied
<1>1. TypeOK /\ LockInv /\ [Next]_vars => [members # {} => members' # {}]_vars
  BY NeverEmptiedStep
<1> QED BY <1>1, InvariantHolds, PTL DEF Spec, NeverEmptied

(***************************************************************************)
(* No wait for a row lock is for ever: the safety half of AllAnswered      *)
(***************************************************************************)

(* The transaction of r has a step to take: it has all its rows, or a row it wants is *)
(* free, or Postgres breaks the circle of waits it is in.                              *)
Moves(r) == \/ pc[r] = "remove"
            \/ Locking(r) /\ (Wanted(r) = {} \/ \E a \in Wanted(r) : Free(a))
            \/ Locking(r) /\ Circle(r)

(* LockMembersForUpdate, RemoveMember: a row lock has one holder and lives in a transaction *)
(* of a request under way, so none outlives its request or the process; and though a        *)
(* transaction holds some rows while it waits for others, whoever waits does so, directly   *)
(* or through those it waits for, for one that has a step to take.                          *)
LocksReturn ==
    /\ \A r \in Requests : lock[r] # {} => pc[r] \in Txn
    /\ \A q, r \in Requests : q # r => lock[q] \cap lock[r] = {}
    /\ \A r \in Requests, S \in SUBSET Requests :
          Locking(r) /\ r \in S /\ Closed(S) => \E q \in S : Moves(q)

(* Any family of sets of requests has a smallest one. *)
LEMMA SmallestSet ==
  ASSUME NEW F \in SUBSET (SUBSET Requests), F # {}
  PROVE  \E S \in F : \A T \in F : T \subseteq S => T = S
<1>1. IsWellFoundedOn(StrictSubsetOrdering(Requests), SUBSET Requests)
  BY FS_StrictSubsetOrderingWellFounded, FS_FiniteSubsetsOfFinite, RequestsAssumption
<1>2. PICK S \in F : \A T \in F : ~(<<T, S>> \in StrictSubsetOrdering(Requests))
  BY <1>1, WFMin
<1>3. \A T \in F : T \subseteq S => T = S
  BY <1>2 DEF StrictSubsetOrdering
<1> QED BY <1>3

(* Among transactions none of which has a step to take, all wait for one another, and the *)
(* smallest set of them that waits for nobody else would be a circle.                      *)
LEMMA SomebodyMoves ==
  ASSUME TypeOK, LockInv, NEW r \in Requests, NEW S \in SUBSET Requests,
         Locking(r), r \in S, Closed(S)
  PROVE  \E q \in S : Moves(q)
<1> SUFFICES ASSUME \A q \in S : ~Moves(q) PROVE FALSE
  OBVIOUS
<1> DEFINE B == {q \in S : Locking(q)}
           F == {T \in SUBSET B : T # {} /\ Closed(T)}
<1>1. \A p \in B, q \in Requests : Waits(p, q) => q \in B
  <2> SUFFICES ASSUME NEW p \in B, NEW q \in Requests, Waits(p, q) PROVE q \in B
    OBVIOUS
  <2>1. q \in S
    BY DEF Closed
  <2>2. pc[q] \in Txn
    BY DEF Waits, LockInv
  <2>3. pc[q] # "remove"
    BY <2>1 DEF Moves
  <2> QED BY <2>1, <2>2, <2>3 DEF Txn, Locking
<1>2. B \in F
  BY <1>1 DEF Closed
<1>3. F \in SUBSET (SUBSET Requests) /\ F # {}
  BY <1>2
<1>4. PICK T \in F : \A U \in F : U \subseteq T => U = T
  <2> HIDE DEF F
  <2> QED BY <1>3, SmallestSet
<1>5. PICK t \in T : Locking(t) /\ ~Moves(t)
  OBVIOUS
<1>6. PICK a \in Wanted(t) : ~Free(a)
  BY <1>5 DEF Moves
<1>7. PICK q \in Requests : a \in lock[q]
  BY <1>6 DEF Free
<1>8. Waits(t, q)
  BY <1>5, <1>6, <1>7 DEF Waits
<1>9. PICK C \in SUBSET Requests :
        Closed(C) /\ (\A p \in Requests : Waits(t, p) => p \in C) /\ t \notin C
  BY <1>5 DEF Moves, Circle
<1>10. T \cap C \in F
  <2>1. Closed(T \cap C)
    BY <1>9 DEF Closed
  <2>2. q \in T \cap C
    BY <1>7, <1>8, <1>9 DEF Closed
  <2> QED BY <2>1, <2>2
<1>11. T \cap C = T
  BY <1>4, <1>10
<1> QED BY <1>9, <1>11

(* For every number of concurrent leaves, failing statements and crashes: a row lock has *)
(* one holder, none is left behind by a request that has returned or died, and there is  *)
(* no wait, in a circle or not, whose end no transaction can bring nearer.               *)
THEOREM LockWaitsEnd == Spec => []LocksReturn
<1>1. TypeOK /\ LockInv => LocksReturn
  BY SomebodyMoves DEF LockInv, LocksReturn
<1> QED BY <1>1, InvariantHolds, PTL

(***************************************************************************)
(* head_seq and the stream                                                 *)
(***************************************************************************)

(* Only the request that makes a step moves, or changes more than what it has seen. *)
SameReq(q) == /\ req'[q].kind = req[q].kind /\ req'[q].by = req[q].by /\ req'[q].target = req[q].target
              /\ req'[q].seq = req[q].seq /\ req'[q].answer = req[q].answer
              /\ ~Locking(q) => req'[q].seen = req[q].seen

Step(r) == CreateRow(r) \/ Arrive(r) \/ Handler(r)

LEMMA RowGoneRest ==
  ASSUME TypeOK, NEW a, NEW q \in Requests
  PROVE  /\ RowGone(a)[q].kind = req[q].kind /\ RowGone(a)[q].by = req[q].by
         /\ RowGone(a)[q].target = req[q].target /\ RowGone(a)[q].seq = req[q].seq
         /\ RowGone(a)[q].answer = req[q].answer
         /\ ~Locking(q) => RowGone(a)[q].seen = req[q].seen
<1>1. PICK s : RowGone(a)[q] = [req[q] EXCEPT !.seen = s]
  BY DEF RowGone
<1>2. req[q] \in Reqs
  BY DEF TypeOK
<1> QED BY <1>1, <1>2, RowGoneFacts DEF Reqs

LEMMA OthersStay ==
  ASSUME TypeOK, NEW r \in Requests, Step(r), NEW q \in Requests, q # r
  PROVE  pc'[q] = pc[q] /\ SameReq(q)
<1> DEFINE Untouched == pc'[q] = pc[q] /\ req'[q] = req[q]
<1>0. Untouched => pc'[q] = pc[q] /\ SameReq(q)
  BY DEF SameReq
<1>1. CASE CreateRow(r) \/ AddMember(r) \/ AddMemberSet(r)
  BY <1>0, <1>1 DEF CreateRow, AddMember, AddMemberSet, Goto, Reply, TypeOK
<1>2. CASE Arrive(r) \/ IsMemberSet(r)
  <2>1. PICK p : Admit(r, p) \/ Refuse(r, p) \/ (Goto(r, "isMember") /\ req' = [req EXCEPT ![r] = p])
    BY <1>2 DEF Arrive, IsMemberSet
  <2> QED BY <1>0, <2>1 DEF Admit, Refuse, Goto, TypeOK
<1>3. CASE IsMemberRead(r) \/ LockMembers(r) \/ LockRow(r) \/ Locked(r) \/ LockFails(r)
  BY <1>0, <1>3 DEF IsMemberRead, LockMembers, LockRow, Locked, LockFails, Goto, Reply, TypeOK
<1>4. CASE RemoveRefused(r) \/ Invalidate(r) \/ AppendEvent(r) \/ AdvanceHead(r)
  BY <1>0, <1>4 DEF RemoveRefused, Invalidate, AppendEvent, AdvanceHead, Goto, Reply, TypeOK
<1>5. CASE RemoveCommit(r)
  <2>1. pc'[q] = pc[q]
    BY <1>5 DEF RemoveCommit, Goto, Reply, TypeOK
  <2>2. CASE Reply(r, "error")
    BY <1>0, <2>2 DEF Reply, TypeOK
  <2>3. CASE req' \in {RowGone(req[r].by), [RowGone(req[r].by) EXCEPT ![r].answer = "error"]}
    <3>1. req'[q] = RowGone(req[r].by)[q]
      BY <2>3, RowGoneFacts
    <3> QED BY <2>1, <3>1, RowGoneRest DEF SameReq
  <2> QED BY <1>5, <2>2, <2>3 DEF RemoveCommit
<1> QED BY <1>1, <1>2, <1>3, <1>4, <1>5 DEF Step, Handler

(* head_seq, and the record a request has written, stay below the length of the stream. *)
HeadInv ==
    /\ head = 0 \/ head < Len(log)
    /\ \A r \in Requests : req[r].seq = 0 \/ req[r].seq < Len(log)
    /\ \A r \in Requests : pc[r] \notin {"head", "dead"} => req[r].seq <= head

(* The seq of a request is given by its append only. *)
LEMMA SeqStep ==
  ASSUME TypeOK, NEW r \in Requests, Step(r)
  PROVE  \/ AppendEvent(r) /\ req'[r].seq = Len(log) /\ pc'[r] = "head" /\ log' = Append(log, Event(r))
         \/ req'[r].seq = req[r].seq
         \/ req'[r].seq = 0
<1>0. req[r] \in Reqs /\ NoReq.seq = 0
  BY DEF TypeOK, NoReq
<1>a. \A x : /\ req' = [req EXCEPT ![r].answer = x] => req'[r].seq = req[r].seq
             /\ req' = [req EXCEPT ![r].seen = x] => req'[r].seq = req[r].seq
  BY <1>0 DEF TypeOK, Reqs
<1>1. CASE CreateRow(r)
  BY <1>0, <1>1, <1>a DEF CreateRow, Reply, TypeOK
<1>2. CASE Arrive(r) \/ IsMemberSet(r)
  <2>1. PICK p \in Reqs : /\ p.seq \in {0, req[r].seq}
                          /\ Admit(r, p) \/ Refuse(r, p) \/ (Goto(r, "isMember") /\ req' = [req EXCEPT ![r] = p])
    <3>1. CASE Arrive(r)
      <4>1. \A k \in {"invite", "leave", "other"}, a, b \in Agents :
              /\ [NoReq EXCEPT !.kind = k, !.by = a, !.target = b] \in Reqs
              /\ [NoReq EXCEPT !.kind = k, !.by = a, !.target = b].seq = 0
        BY ReqTypes DEF NoReq
      <4>2. PICK k \in {"invite", "leave", "other"}, a \in Agents, b \in Agents :
              LET q == [NoReq EXCEPT !.kind = k, !.by = a, !.target = b]
              IN  Admit(r, q) \/ Refuse(r, q) \/ (Goto(r, "isMember") /\ req' = [req EXCEPT ![r] = q])
        BY <3>1 DEF Arrive
      <4>3. PICK q \in Reqs : /\ q.seq = 0
                              /\ Admit(r, q) \/ Refuse(r, q)
                                 \/ (Goto(r, "isMember") /\ req' = [req EXCEPT ![r] = q])
        BY <4>1, <4>2, Zenon
      <4> QED BY <4>3
    <3>2. CASE IsMemberSet(r)
      <4>1. [req[r] EXCEPT !.seen = {}] \in Reqs /\ [req[r] EXCEPT !.seen = {}].seq = req[r].seq
        BY <1>0 DEF Reqs
      <4>2. Admit(r, [req[r] EXCEPT !.seen = {}]) \/ Refuse(r, [req[r] EXCEPT !.seen = {}])
        BY <3>2 DEF IsMemberSet
      <4> QED BY <4>1, <4>2
    <3> QED BY <1>2, <3>1, <3>2
  <2>2. \A x : [p EXCEPT !.answer = x].seq = p.seq
    BY DEF Reqs
  <2>3. req' = [req EXCEPT ![r] = p] \/ \E x : req' = [req EXCEPT ![r] = [p EXCEPT !.answer = x]]
    BY <2>1 DEF Admit, Refuse
  <2>4. req'[r] = p \/ \E x : req'[r] = [p EXCEPT !.answer = x]
    BY <2>3 DEF TypeOK
  <2> QED BY <2>1, <2>2, <2>4
<1>3. CASE IsMemberRead(r) \/ AddMember(r) \/ AddMemberSet(r)
         \/ LockMembers(r) \/ LockRow(r) \/ Locked(r) \/ LockFails(r)
  BY <1>3, <1>a DEF IsMemberRead, AddMember, AddMemberSet, LockMembers, LockRow, Locked, LockFails, Reply
<1>4. CASE RemoveRefused(r) \/ Invalidate(r) \/ AdvanceHead(r)
  BY <1>4, <1>a DEF RemoveRefused, Invalidate, AdvanceHead, Reply
<1>5. CASE RemoveCommit(r)
  <2>1. CASE req' = RowGone(req[r].by)
    BY <2>1, RowGoneRest
  <2>2. CASE req' = [RowGone(req[r].by) EXCEPT ![r].answer = "error"]
    <3>1. RowGone(req[r].by)[r] \in Reqs
      BY RowGoneFacts
    <3>2. req'[r].seq = RowGone(req[r].by)[r].seq
      BY <2>2, <3>1, RowGoneFacts DEF Reqs
    <3> QED BY <3>2, RowGoneRest
  <2> QED BY <1>5, <1>a, <2>1, <2>2 DEF RemoveCommit, Reply
<1>6. CASE AppendEvent(r)
  <2>1. CASE req' = [req EXCEPT ![r].seq = LastSeq] /\ log' = Append(log, Event(r)) /\ Goto(r, "head")
    BY <1>0, <1>6, <2>1 DEF LastSeq, Goto, TypeOK, Reqs
  <2> QED BY <1>6, <1>a, <2>1 DEF AppendEvent, Reply
<1> QED BY <1>1, <1>2, <1>3, <1>4, <1>5, <1>6 DEF Step, Handler

(* The stream grows by one record at a time. *)
LEMMA LogStep ==
  ASSUME TypeOK, [Next]_vars
  PROVE  \/ log' = log
         \/ \E r \in Requests : AppendEvent(r) /\ log' = Append(log, Event(r))
<1>1. ASSUME NEW r \in Requests,
             \/ CreateRow(r) \/ Arrive(r) \/ IsMemberRead(r) \/ IsMemberSet(r) \/ AddMember(r)
             \/ AddMemberSet(r) \/ LockMembers(r) \/ LockRow(r) \/ Locked(r) \/ LockFails(r)
             \/ RemoveRefused(r) \/ RemoveCommit(r)
             \/ Invalidate(r) \/ AdvanceHead(r)
      PROVE  UNCHANGED log
  BY <1>1 DEF CreateRow, Arrive, IsMemberRead, IsMemberSet, AddMember, AddMemberSet, LockMembers,
              LockRow, Locked, LockFails, RemoveRefused, RemoveCommit, Invalidate, AdvanceHead
<1>2. ASSUME NEW r \in Requests, AppendEvent(r) PROVE log' \in {log, Append(log, Event(r))}
  BY <1>2 DEF AppendEvent
<1>3. (\E a \in Agents : Expire(a)) \/ Crash \/ UNCHANGED vars => UNCHANGED log
  BY DEF Expire, Crash, vars
<1> QED BY <1>1, <1>2, <1>3 DEF Next, Handler

(* head_seq only ever rises, to the record of the request that advances it. *)
LEMMA HeadStep ==
  ASSUME TypeOK, [Next]_vars
  PROVE  \/ head' = head
         \/ \E r \in Requests : AdvanceHead(r) /\ head < req[r].seq /\ head' = req[r].seq
<1>1. ASSUME NEW r \in Requests,
             \/ CreateRow(r) \/ Arrive(r) \/ IsMemberRead(r) \/ IsMemberSet(r) \/ AddMember(r)
             \/ AddMemberSet(r) \/ LockMembers(r) \/ LockRow(r) \/ Locked(r) \/ LockFails(r)
             \/ RemoveRefused(r) \/ RemoveCommit(r)
             \/ Invalidate(r) \/ AppendEvent(r)
      PROVE  UNCHANGED head
  BY <1>1 DEF CreateRow, Arrive, IsMemberRead, IsMemberSet, AddMember, AddMemberSet, LockMembers,
              LockRow, Locked, LockFails, RemoveRefused, RemoveCommit, Invalidate, AppendEvent
<1>2. ASSUME NEW r \in Requests, AdvanceHead(r)
      PROVE  head' = head \/ (head < req[r].seq /\ head' = req[r].seq)
  BY <1>2 DEF AdvanceHead, UpdateHead
<1>3. (\E a \in Agents : Expire(a)) \/ Crash \/ UNCHANGED vars => UNCHANGED head
  BY DEF Expire, Crash, vars
<1> QED BY <1>1, <1>2, <1>3 DEF Next, Handler

LEMMA HeadInvStep ==
  ASSUME "pg" \notin Faults, TypeOK, HeadInv, [Next]_vars
  PROVE  HeadInv'
<1>l. /\ Len(log) \in Nat /\ Len(log') \in Nat /\ Len(log) <= Len(log')
      /\ \A r \in Requests : log' = Append(log, Event(r)) => Len(log') = Len(log) + 1
  <2>1. Len(log) \in Nat
    BY LenProperties DEF TypeOK
  <2>2. \A r \in Requests : Event(r) \in Events
    BY ReqFields DEF Event, Joined, Left, Events
  <2>3. \A r \in Requests : log' = Append(log, Event(r)) => Len(log') = Len(log) + 1
    BY <2>2, AppendProperties DEF TypeOK
  <2> QED BY <2>1, <2>3, LogStep
<1>h. head \in Nat /\ head' \in Nat /\ head <= head'
  <2>1. head \in Nat /\ \A r \in Requests : req[r].seq \in Nat
    BY ReqFields DEF TypeOK
  <2> QED BY <2>1, HeadStep
<1>s. \A r \in Requests : req[r].seq \in Nat
  BY ReqFields
<1>1. head' = 0 \/ head' < Len(log')
  BY <1>h, <1>l, <1>s, HeadStep DEF HeadInv
<1>2. ASSUME NEW q \in Requests
      PROVE  /\ req'[q].seq = 0 \/ req'[q].seq < Len(log')
             /\ pc'[q] \notin {"head", "dead"} => req'[q].seq <= head'
  <2>1. CASE /\ req'[q].seq \in {0, req[q].seq}
             /\ pc'[q] \notin {"head", "dead"} => pc[q] \notin {"head", "dead"}
    BY <1>h, <1>l, <1>s, <2>1 DEF HeadInv
  <2>2. CASE Step(q)
    <3>1. CASE AppendEvent(q) /\ req'[q].seq = Len(log) /\ pc'[q] = "head" /\ log' = Append(log, Event(q))
      BY <1>l, <3>1
    <3>2. CASE AdvanceHead(q)
      <4>1. req'[q].seq = req[q].seq /\ req[q].seq <= head'
        BY <1>h, <1>s, <3>2 DEF AdvanceHead, UpdateHead, Reply, TypeOK, Reqs
      <4> QED BY <1>l, <1>s, <4>1 DEF HeadInv
    <3>3. CASE req'[q].seq \in {0, req[q].seq} /\ ~AdvanceHead(q)
      <4>1. pc[q] \notin {"head", "dead"}
        BY <2>2, <3>3 DEF Step, Handler, CreateRow, Arrive, IsMemberRead, IsMemberSet, AddMember,
              AddMemberSet, LockMembers, LockRow, Locked, LockFails, Locking, RemoveRefused, RemoveCommit,
              Invalidate, AppendEvent
      <4> QED BY <2>1, <3>3, <4>1
    <3> QED BY <2>2, <3>1, <3>2, <3>3, SeqStep
  <2>3. CASE \E r \in Requests \ {q} : Step(r)
    BY <2>1, <2>3, OthersStay DEF SameReq
  <2>4. (\E a \in Agents : Expire(a)) \/ UNCHANGED vars => UNCHANGED <<pc, req>>
    BY DEF Expire, vars
  <2>5. Crash => req' = req /\ (pc'[q] = pc[q] \/ pc'[q] = "dead")
    BY DEF Crash
  <2> QED BY <2>1, <2>2, <2>3, <2>4, <2>5 DEF Next, Step
<1> QED BY <1>1, <1>2 DEF HeadInv

(* While Postgres answers, whatever S2 does: head_seq has reached the record of every request *)
(* that was answered, in whichever order their updates arrived, and stays within the stream.  *)
THEOREM HeadWithinLog == "pg" \notin Faults => (Spec => []HeadFollowsLog)
<1> SUFFICES ASSUME "pg" \notin Faults PROVE Spec => []HeadFollowsLog
  OBVIOUS
<1>1. Init => HeadInv
  BY DEF Init, HeadInv, NoReq
<1>2. TypeOK /\ HeadInv /\ [Next]_vars => HeadInv'
  BY HeadInvStep
<1>3. TypeOK /\ HeadInv => HeadFollowsLog
  <2>1. TypeOK => Len(log) \in Nat /\ head \in Nat /\ \A r \in Requests : req[r].seq \in Nat
    BY LenProperties, ReqFields DEF TypeOK
  <2> QED BY <2>1 DEF HeadInv, HeadFollowsLog
<1> QED BY <1>1, <1>2, <1>3, TypeCorrect, PTL DEF Spec

(***************************************************************************)
(* The balance of joins and leaves                                         *)
(***************************************************************************)

(* What a request has come to stand for says what it may be doing; only a finished one failed. *)
KindInv == \A r \in Requests :
    /\ pc[r] \in {"add", "addSet"} => req[r].kind \in {"create", "invite"}
    /\ pc[r] \in {"check", "checking", "lock", "locking", "remove", "invalidate"} => req[r].kind = "leave"
    /\ pc[r] = "append" => req[r].kind # "other"
    /\ req[r].answer = "error" => pc[r] = "done"

Creating(r) == pc[r] = "add" /\ req[r].kind = "create"

(* Until the creator's row is in, nobody passes the gate: a create announces a row that is new. *)
FirstInv ==
    /\ ~exists => members = {}
    /\ \A q, r \in Requests : Creating(q) /\ Creating(r) => q = r
    /\ \A r \in Requests : Creating(r) => exists /\ members = {}
    /\ members = {} => \A a \in Agents : cache[a] # "yes"
    /\ members = {} => \A r \in Requests :
         /\ pc[r] \in {"idle", "isMember", "isMemberSet", "done", "dead"} \/ Creating(r)
         /\ pc[r] = "isMemberSet" => req[r].seen = {}

(* The requests that have inserted, or deleted, the row of a and are still to announce it. *)
Joining(r) == /\ req[r].kind \in {"create", "invite"}
              /\ pc[r] = "append" \/ (pc[r] = "addSet" /\ WasNew(r))
Leaving(r) == pc[r] = "invalidate" \/ (pc[r] = "append" /\ req[r].kind = "leave")
Joiners(a) == {r \in Requests : Joining(r) /\ req[r].target = a}
Leavers(a) == {r \in Requests : Leaving(r) /\ req[r].by = a}

Row(a) == IF a \in members THEN 1 ELSE 0
Broken == \E r \in Requests : pc[r] = "dead" \/ req[r].answer = "error"

(* Each agent's rows, records and announcements on their way add up, unless a request failed. *)
BalanceInv ==
    /\ \A a \in Agents : IsFiniteSet(Joiners(a)) /\ IsFiniteSet(Leavers(a))
    /\ ~Broken => \A a \in Agents :
         Count(Joined(a)) + Cardinality(Joiners(a)) = Count(Left(a)) + Cardinality(Leavers(a)) + Row(a)

(* What becomes of the request that makes a step: where it goes, and what it is about. *)
LEMMA GateMove ==
  ASSUME TypeOK, NEW r \in Requests, NEW p \in Reqs, Admit(r, p) \/ Refuse(r, p)
  PROVE  /\ pc'[r] \in {"add", "check", "done"} /\ req'[r].answer # "error"
         /\ pc'[r] = "add" => req'[r].kind = "invite"
         /\ pc'[r] = "check" => req'[r].kind = "leave"
<1>1. \A x \in {"served", "none", "not_member"} :
        [p EXCEPT !.answer = x].kind = p.kind /\ [p EXCEPT !.answer = x].answer = x
  BY DEF Reqs
<1>2. CASE Refuse(r, p)
  <2>1. pc'[r] = "done" /\ req'[r] = [p EXCEPT !.answer = "not_member"]
    BY <1>2 DEF Refuse, Goto, TypeOK
  <2> QED BY <1>1, <2>1
<1>3. CASE Admit(r, p)
  <2>1. PICK x \in {"served", "none"} : req'[r] = [p EXCEPT !.answer = x]
    BY <1>3 DEF Admit, TypeOK
  <2>2. pc'[r] = Admitted(p.kind)
    BY <1>3 DEF Admit, Goto, TypeOK
  <2>3. /\ Admitted(p.kind) \in {"add", "check", "done"}
        /\ Admitted(p.kind) = "add" => p.kind = "invite"
        /\ Admitted(p.kind) = "check" => p.kind = "leave"
    BY DEF Admitted
  <2> QED BY <1>1, <2>1, <2>2, <2>3
<1> QED BY <1>2, <1>3

LEMMA ArriveMove ==
  ASSUME TypeOK, NEW r \in Requests, Arrive(r) \/ IsMemberSet(r)
  PROVE  /\ pc[r] \in {"idle", "isMemberSet"} /\ pc'[r] \in {"isMember", "add", "check", "done"}
         /\ pc'[r] = "add" => req'[r].kind = "invite"
         /\ pc'[r] = "check" => req'[r].kind = "leave"
         /\ req'[r].answer # "error"
<1>1. CASE Arrive(r)
  <2>1. PICK p \in Reqs : /\ p.answer = "none"
                          /\ Admit(r, p) \/ Refuse(r, p) \/ (Goto(r, "isMember") /\ req' = [req EXCEPT ![r] = p])
    <3>1. \A k \in {"invite", "leave", "other"}, a, b \in Agents :
            /\ [NoReq EXCEPT !.kind = k, !.by = a, !.target = b] \in Reqs
            /\ [NoReq EXCEPT !.kind = k, !.by = a, !.target = b].answer = "none"
      BY ReqTypes DEF NoReq
    <3> QED BY <1>1, <3>1 DEF Arrive
  <2>2. CASE Admit(r, p) \/ Refuse(r, p)
    BY <1>1, <2>2, GateMove DEF Arrive
  <2>3. CASE Goto(r, "isMember") /\ req' = [req EXCEPT ![r] = p]
    BY <1>1, <2>1, <2>3 DEF Arrive, Goto, TypeOK
  <2> QED BY <2>1, <2>2, <2>3
<1>2. CASE IsMemberSet(r)
  <2>1. [req[r] EXCEPT !.seen = {}] \in Reqs
    BY ReqFields, ReqTypes
  <2>2. Admit(r, [req[r] EXCEPT !.seen = {}]) \/ Refuse(r, [req[r] EXCEPT !.seen = {}])
    BY <1>2 DEF IsMemberSet
  <2> QED BY <1>2, <2>1, <2>2, GateMove DEF IsMemberSet
<1> QED BY <1>1, <1>2

(* A step on the way of a handler leaves alone what the request is about. *)
LEMMA AimStays ==
  ASSUME TypeOK, NEW r \in Requests,
         \/ IsMemberRead(r) \/ AddMember(r) \/ AddMemberSet(r)
         \/ LockMembers(r) \/ LockRow(r) \/ Locked(r) \/ LockFails(r)
         \/ RemoveRefused(r) \/ RemoveCommit(r) \/ Invalidate(r) \/ AppendEvent(r) \/ AdvanceHead(r)
  PROVE  /\ req'[r].kind = req[r].kind /\ req'[r].by = req[r].by /\ req'[r].target = req[r].target
         /\ req'[r].answer = req[r].answer \/ pc'[r] = "done"
<1>0. req[r] \in Reqs
  BY DEF TypeOK
<1> DEFINE Same == /\ req'[r].kind = req[r].kind /\ req'[r].by = req[r].by
                   /\ req'[r].target = req[r].target
<1>1. \A x : /\ req' = [req EXCEPT ![r].seen = x] => Same /\ req'[r].answer = req[r].answer
             /\ req' = [req EXCEPT ![r].seq = x] => Same /\ req'[r].answer = req[r].answer
             /\ req' = [req EXCEPT ![r].answer = x] => Same
  BY <1>0 DEF TypeOK, Reqs
<1>2. \A x : Reply(r, x) => Same /\ pc'[r] = "done"
  BY <1>1 DEF Reply, TypeOK
<1>3. CASE IsMemberRead(r) \/ AddMember(r) \/ AddMemberSet(r)
  BY <1>1, <1>2, <1>3 DEF IsMemberRead, AddMember, AddMemberSet
<1>4. CASE LockMembers(r) \/ LockRow(r) \/ Locked(r) \/ LockFails(r)
  BY <1>1, <1>2, <1>4 DEF LockMembers, LockRow, Locked, LockFails
<1>5. CASE RemoveRefused(r) \/ Invalidate(r) \/ AdvanceHead(r)
  BY <1>1, <1>2, <1>5 DEF RemoveRefused, Invalidate, AdvanceHead
<1>6. CASE AppendEvent(r)
  BY <1>1, <1>2, <1>6 DEF AppendEvent
<1>7. CASE RemoveCommit(r)
  <2>1. CASE req' = RowGone(req[r].by)
    BY <2>1, RowGoneRest
  <2>2. CASE req' = [RowGone(req[r].by) EXCEPT ![r].answer = "error"] /\ Goto(r, "done")
    <3>1. RowGone(req[r].by)[r] \in Reqs
      BY RowGoneFacts
    <3>2. /\ req'[r].kind = RowGone(req[r].by)[r].kind /\ req'[r].by = RowGone(req[r].by)[r].by
          /\ req'[r].target = RowGone(req[r].by)[r].target
      BY <2>2, <3>1, RowGoneFacts DEF Reqs
    <3>3. pc'[r] = "done"
      BY <2>2 DEF Goto, TypeOK
    <3> QED BY <3>2, <3>3, RowGoneRest
  <2> QED BY <1>2, <1>7, <2>1, <2>2 DEF RemoveCommit
<1> QED BY <1>3, <1>4, <1>5, <1>6, <1>7

(* Where the other steps lead. *)
LEMMA HandlerMove ==
  ASSUME TypeOK, NEW r \in Requests
  PROVE  /\ IsMemberRead(r) => pc[r] = "isMember" /\ pc'[r] \in {"isMemberSet", "done"}
         /\ AddMember(r) => pc[r] = "add" /\ pc'[r] \in {"addSet", "done"}
         /\ AddMemberSet(r) => pc[r] = "addSet" /\ pc'[r] \in {"append", "done"}
         /\ LockMembers(r) => pc[r] \in {"check", "lock"} /\ pc'[r] \in {"checking", "locking", "done"}
         /\ LockRow(r) => pc[r] \in {"checking", "locking"} /\ pc'[r] = pc[r]
         /\ Locked(r) => pc[r] \in {"checking", "locking"} /\ pc'[r] \in {"lock", "remove"}
         /\ LockFails(r) => pc[r] \in {"checking", "locking"} /\ pc'[r] = "done"
         /\ RemoveRefused(r) => pc[r] = "remove" /\ pc'[r] = "done"
         /\ RemoveCommit(r) => pc[r] = "remove" /\ pc'[r] \in {"invalidate", "done"}
         /\ Invalidate(r) => pc[r] = "invalidate" /\ pc'[r] = "append"
         /\ AppendEvent(r) => pc[r] = "append" /\ pc'[r] \in {"head", "done"}
         /\ AdvanceHead(r) => pc[r] = "head" /\ pc'[r] = "done"
  BY DEF TypeOK, Goto, Reply, IsMemberRead, AddMember, AddMemberSet, LockMembers, LockRow, Locked, LockFails,
         Locking, RemoveRefused, RemoveCommit, Invalidate, AppendEvent, AdvanceHead

LEMMA CreateMove ==
  ASSUME TypeOK, NEW r \in Requests, CreateRow(r)
  PROVE  /\ pc'[r] \in {"add", "done"} /\ UNCHANGED members
         /\ pc'[r] = "add" => exists' /\ req'[r].kind = "create" /\ req'[r].answer = "none"
         /\ pc'[r] = "done" => req'[r].answer = "error"
<1>1. CASE /\ exists' = TRUE /\ req' = [req EXCEPT ![r] = NoReq] /\ Goto(r, "add")
  BY <1>1 DEF CreateRow, Goto, TypeOK, NoReq
<1>2. CASE Reply(r, "error")
  BY <1>2, ReqFields DEF CreateRow, Reply, TypeOK, Reqs
<1> QED BY <1>1, <1>2 DEF CreateRow

(* A property of the request that steps, and of those that do not. *)
LEMMA KindStep ==
  ASSUME TypeOK, KindInv, [Next]_vars
  PROVE  KindInv'
<1> DEFINE K(q) == /\ pc'[q] \in {"add", "addSet"} => req'[q].kind \in {"create", "invite"}
                   /\ pc'[q] \in {"check", "checking", "lock", "locking", "remove", "invalidate"} =>
                        req'[q].kind = "leave"
                   /\ pc'[q] = "append" => req'[q].kind # "other"
                   /\ req'[q].answer = "error" => pc'[q] = "done"
<1>1. ASSUME NEW r \in Requests, Step(r) PROVE K(r)
  <2>1. CASE CreateRow(r)
    BY <2>1, CreateMove
  <2>2. CASE Arrive(r) \/ IsMemberSet(r)
    BY <2>2, ArriveMove
  <2>3. CASE \/ IsMemberRead(r) \/ AddMember(r) \/ AddMemberSet(r)
         \/ LockMembers(r) \/ LockRow(r) \/ Locked(r) \/ LockFails(r)
             \/ RemoveRefused(r) \/ RemoveCommit(r) \/ Invalidate(r) \/ AppendEvent(r) \/ AdvanceHead(r)
    BY <2>3, HandlerMove, AimStays DEF KindInv
  <2> QED BY <1>1, <2>1, <2>2, <2>3 DEF Step, Handler
<1>2. ASSUME NEW q \in Requests, NEW r \in Requests, Step(r) PROVE K(q)
  BY <1>1, <1>2, OthersStay DEF SameReq, KindInv
<1>3. ASSUME (\E a \in Agents : Expire(a)) \/ UNCHANGED vars, NEW q \in Requests PROVE K(q)
  BY <1>3 DEF Expire, vars, KindInv
<1>4. ASSUME Crash, NEW q \in Requests PROVE K(q)
  BY <1>4 DEF Crash, KindInv
<1>5. \A q \in Requests : K(q)
  BY <1>2, <1>3, <1>4 DEF Next, Step
<1> QED BY <1>5 DEF KindInv

(* Only the row of the creator comes in while there is no member, and it comes in once. *)
LEMMA FirstStep ==
  ASSUME TypeOK, LockInv, KindInv, FirstInv, [Next]_vars
  PROVE  FirstInv'
<1>n. members # {} => members' # {}
  BY NeverEmptiedStep
<1>o. \A r \in Requests : Step(r) => \A q \in Requests \ {r} : pc'[q] = pc[q] /\ SameReq(q)
  BY OthersStay
<1>1. ASSUME NEW r \in Requests, CreateRow(r) PROVE FirstInv'
  <2>1. /\ ~exists /\ members' = {} /\ cache' = cache
        /\ \A q \in Requests : pc[q] \in {"idle", "done", "dead"}
    BY <1>1 DEF CreateRow, FirstInv
  <2>2. /\ pc'[r] \in {"add", "done"}
        /\ pc'[r] = "add" => exists' /\ req'[r].kind = "create"
    BY <1>1, CreateMove
  <2>3. \A q \in Requests \ {r} : pc'[q] \in {"idle", "done", "dead"}
    BY <1>1, <1>o, <2>1 DEF Step
  <2> QED BY <2>1, <2>2, <2>3 DEF FirstInv, Creating
<1>2. ASSUME NEW r \in Requests, Step(r), ~CreateRow(r) PROVE FirstInv'
  <2>1. exists' = exists
    BY <1>2 DEF Step, Handler, Arrive, IsMemberRead, IsMemberSet, AddMember, AddMemberSet, LockMembers,
          LockRow, Locked, LockFails, RemoveRefused, RemoveCommit, Invalidate, AppendEvent, AdvanceHead
  <2>2. ~(pc'[r] = "add" /\ req'[r].kind = "create")
    <3>1. CASE Arrive(r) \/ IsMemberSet(r)
      BY <3>1, ArriveMove
    <3> QED BY <1>2, <3>1, HandlerMove DEF Step, Handler
  <2>3. \A q \in Requests : Creating(q)' => Creating(q) /\ q # r
    BY <1>2, <1>o, <2>2 DEF Creating, SameReq
  <2>4. CASE AddMember(r)
    <3>1. CASE members' = members
      <4>1. pc'[r] \in {"addSet", "done"} /\ (pc'[r] = "addSet" => members' # {})
        BY <2>4, HandlerMove, ReqFields DEF AddMember, Reply, TypeOK
      <4> QED BY <1>o, <1>2, <2>1, <2>3, <2>4, <3>1, <4>1 DEF FirstInv, AddMember, Creating, SameReq, Locking
    <3>2. CASE members' # members
      <4>1. members' # {}
        BY <2>4, <3>2 DEF AddMember
      <4>2. exists
        BY <2>4, <4>1 DEF AddMember, FirstInv, Creating
      <4>3. \A q \in Requests : ~Creating(q)'
        BY <2>3, <2>4, <3>2 DEF AddMember, FirstInv, Creating
      <4> QED BY <2>1, <4>1, <4>2, <4>3 DEF FirstInv
    <3> QED BY <3>1, <3>2
  <2>5. CASE ~AddMember(r) /\ members # {}
    <3>1. members' # {} /\ exists
      BY <1>n, <2>5 DEF FirstInv
    <3>2. \A q \in Requests : ~Creating(q)'
      BY <2>3, <2>5 DEF FirstInv
    <3> QED BY <2>1, <3>1, <3>2 DEF FirstInv
  <2>6. CASE ~AddMember(r) /\ members = {}
    <3>1. Arrive(r) \/ IsMemberRead(r) \/ IsMemberSet(r)
      BY <1>2, <2>6, HandlerMove DEF Step, Handler, FirstInv, Creating
    <3>2. members' = {} /\ \A a \in Agents : cache'[a] # "yes"
      BY <2>6, <3>1 DEF FirstInv, Arrive, IsMemberRead, IsMemberSet, TypeOK
    <3>3. pc'[r] \in {"isMember", "isMemberSet", "done"} /\ (pc'[r] = "isMemberSet" => req'[r].seen = {})
      <4>1. CASE IsMemberRead(r)
        BY <2>6, <4>1, ReqFields DEF IsMemberRead, Goto, Reply, TypeOK, Reqs
      <4>2. CASE IsMemberSet(r)
        BY <2>6, <4>2 DEF IsMemberSet, FirstInv, Refuse, Goto, TypeOK
      <4>3. CASE Arrive(r)
        BY <2>6, <4>3 DEF Arrive, FirstInv, Refuse, Goto, TypeOK
      <4> QED BY <3>1, <4>1, <4>2, <4>3
    <3> QED BY <1>o, <1>2, <2>1, <2>3, <2>6, <3>2, <3>3 DEF FirstInv, Creating, SameReq, Locking
  <2> QED BY <2>4, <2>5, <2>6
<1>3. ASSUME NEW a \in Agents, Expire(a) PROVE FirstInv'
  BY <1>3 DEF Expire, FirstInv, Creating, TypeOK
<1>4. CASE Crash
  <2>1. /\ \A q \in Requests : pc'[q] \in {"idle", "done", "dead"}
        /\ UNCHANGED <<exists, members, req>> /\ \A a \in Agents : cache'[a] = "none"
    BY <1>4 DEF Crash, TypeOK, PCs
  <2> QED BY <2>1 DEF FirstInv, Creating
<1>5. CASE UNCHANGED vars
  BY <1>5 DEF vars, FirstInv, Creating
<1> QED BY <1>1, <1>2, <1>3, <1>4, <1>5 DEF Next, Step

(* A failure is never forgotten. *)
LEMMA BrokenStays ==
  ASSUME TypeOK, KindInv, [Next]_vars, Broken
  PROVE  Broken'
<1>1. PICK q \in Requests : pc[q] = "dead" \/ req[q].answer = "error"
  BY DEF Broken
<1>2. pc[q] \in {"done", "dead"}
  BY <1>1 DEF KindInv
<1>3. ~Step(q)
  BY <1>2, HandlerMove, ArriveMove DEF Step, Handler, CreateRow
<1>4. pc'[q] = pc[q] /\ req'[q].answer = req[q].answer
  <2>1. \A r \in Requests : Step(r) => pc'[q] = pc[q] /\ req'[q].answer = req[q].answer
    BY <1>3, OthersStay DEF SameReq
  <2>2. (\E a \in Agents : Expire(a)) \/ Crash \/ UNCHANGED vars => req' = req /\ pc'[q] = pc[q]
    BY <1>2 DEF Expire, Crash, vars, TypeOK
  <2> QED BY <2>1, <2>2 DEF Next, Step
<1> QED BY <1>1, <1>4 DEF Broken

(* How often a record is on a stream. *)
Times(s, e) == Cardinality({i \in 1 .. Len(s) : s[i] = e})

LEMMA TimesOfAppend ==
  ASSUME NEW S, NEW s \in Seq(S), NEW e \in S, NEW f
  PROVE  /\ Times(s, f) \in Nat
         /\ Times(Append(s, e), f) = Times(s, f) + (IF e = f THEN 1 ELSE 0)
<1> DEFINE A == {i \in 1 .. Len(s) : s[i] = f}
           t == Append(s, e)
           B == {i \in 1 .. Len(t) : t[i] = f}
<1>1. Len(s) \in Nat
  BY LenProperties
<1>2. /\ Len(t) = Len(s) + 1 /\ t[Len(s) + 1] = e
      /\ \A i \in 1 .. Len(s) : t[i] = s[i]
  BY AppendProperties
<1>3. IsFiniteSet(1 .. Len(s))
  BY <1>1, FS_Interval
<1>4. IsFiniteSet(A) /\ Cardinality(A) \in Nat
  BY <1>3, FS_Subset, FS_CardinalityType
<1>5. Len(s) + 1 \notin A
  BY <1>1
<1>6. B = IF e = f THEN A \cup {Len(s) + 1} ELSE A
  BY <1>1, <1>2
<1>7. Cardinality(A \cup {Len(s) + 1}) = Cardinality(A) + 1
  BY <1>4, <1>5, FS_AddElement
<1>8. Cardinality(B) = Cardinality(A) + (IF e = f THEN 1 ELSE 0)
  <2>1. CASE e = f
    BY <1>6, <1>7, <2>1
  <2>2. CASE e # f
    <3>1. B = A
      BY <1>6, <2>2
    <3>2. (IF e = f THEN 1 ELSE 0) = 0
      BY <2>2
    <3>3. Cardinality(B) = Cardinality(A)
      BY <3>1
    <3> HIDE DEF A, B
    <3> QED BY <1>4, <3>2, <3>3
  <2> QED BY <2>1, <2>2
<1>9. Times(s, f) = Cardinality(A) /\ Times(Append(s, e), f) = Cardinality(B)
  BY DEF Times
<1> QED BY <1>4, <1>8, <1>9

(* Two sets that agree on everything but r differ in size by what they say of r. *)
In(r, S) == IF r \in S THEN 1 ELSE 0

LEMMA OneApart ==
  ASSUME NEW S, NEW T, NEW r, IsFiniteSet(S), S \ {r} = T \ {r}
  PROVE  /\ IsFiniteSet(T) /\ Cardinality(S) \in Nat /\ Cardinality(T) \in Nat
         /\ Cardinality(T) + In(r, S) = Cardinality(S) + In(r, T)
<1> DEFINE R == S \ {r}
<1>1. IsFiniteSet(R) /\ Cardinality(R) \in Nat
  BY FS_Subset, FS_CardinalityType
<1>2. r \notin R
  OBVIOUS
<1>3. IsFiniteSet(R \cup {r}) /\ Cardinality(R \cup {r}) = Cardinality(R) + 1
  BY <1>1, <1>2, FS_AddElement
<1>5. T = IF r \in T THEN R \cup {r} ELSE R
  OBVIOUS
<1>6. IsFiniteSet(S) /\ Cardinality(S) = Cardinality(R) + In(r, S)
  <2>1. CASE r \in S
    <3>1. S = R \cup {r} /\ In(r, S) = 1
      BY <2>1 DEF In
    <3> QED BY <1>3, <3>1
  <2>2. CASE r \notin S
    <3>1. S = R /\ In(r, S) = 0
      BY <2>2 DEF In
    <3> QED BY <1>1, <3>1
  <2> QED BY <2>1, <2>2
<1>7. IsFiniteSet(T) /\ Cardinality(T) = Cardinality(R) + In(r, T)
  BY <1>1, <1>3, <1>5 DEF In
<1> QED BY <1>1, <1>6, <1>7 DEF In

(* Only the request that steps joins or leaves the announcements on their way. *)
LEMMA PendingStep ==
  ASSUME TypeOK, NEW r \in Requests, Step(r), NEW a \in Agents
  PROVE  /\ Joiners(a) \ {r} = Joiners(a)' \ {r}
         /\ Leavers(a) \ {r} = Leavers(a)' \ {r}
<1>1. \A q \in Requests \ {r} : pc'[q] = pc[q] /\ SameReq(q)
  BY OthersStay
<1>2. \A q \in Requests \ {r} :
        /\ (Joining(q)' /\ req'[q].target = a) <=> (Joining(q) /\ req[q].target = a)
        /\ (Leaving(q)' /\ req'[q].by = a) <=> (Leaving(q) /\ req[q].by = a)
  BY <1>1 DEF SameReq, Locking, Joining, Leaving, WasNew
<1> QED BY <1>2 DEF Joiners, Leavers

(* The share of the request that steps: its announcement is on its way from the moment its *)
(* row is written until its record is on the stream.                                       *)
LEMMA ShareOfStep ==
  ASSUME "s2" \notin Faults, TypeOK, LockInv, KindInv, FirstInv, NEW r \in Requests, Step(r),
         ~Broken', NEW a \in Agents
  PROVE  /\ Times(log, Joined(a)) \in Nat /\ Times(log, Left(a)) \in Nat
         /\ Times(log', Joined(a)) + In(r, Joiners(a)') + In(r, Leavers(a)) + Times(log, Left(a)) + Row(a)
             = Times(log', Left(a)) + In(r, Leavers(a)') + In(r, Joiners(a)) + Times(log, Joined(a)) + Row(a)'
<1> DEFINE J == Joining(r) /\ req[r].target = a
           L == Leaving(r) /\ req[r].by = a
           J2 == Joining(r)' /\ req'[r].target = a
           L2 == Leaving(r)' /\ req'[r].by = a
<1>1. /\ In(r, Joiners(a)) = IF J THEN 1 ELSE 0
      /\ In(r, Leavers(a)) = IF L THEN 1 ELSE 0
      /\ In(r, Joiners(a)') = IF J2 THEN 1 ELSE 0
      /\ In(r, Leavers(a)') = IF L2 THEN 1 ELSE 0
  BY DEF In, Joiners, Leavers
<1>2. \A e \in Events : /\ Times(log, Joined(a)) \in Nat /\ Times(log, Left(a)) \in Nat
                        /\ Times(Append(log, e), Joined(a)) = Times(log, Joined(a)) + (IF e = Joined(a) THEN 1 ELSE 0)
                        /\ Times(Append(log, e), Left(a)) = Times(log, Left(a)) + (IF e = Left(a) THEN 1 ELSE 0)
  BY TimesOfAppend DEF TypeOK
<1>3. Joined(a) \in Events
  BY DEF Joined, Events
<1>4. ~(pc'[r] = "done" /\ req'[r].answer = "error")
  BY DEF Broken
<1>5. Reply(r, "error") => FALSE
  BY <1>4, ReqFields DEF Reply, TypeOK, Reqs
<1>6. CASE pc[r] \notin {"addSet", "append", "invalidate"} /\ pc'[r] \notin {"addSet", "append", "invalidate"}
  <2>1. ~J /\ ~L /\ ~J2 /\ ~L2
    BY <1>6 DEF Joining, Leaving
  <2>2. log' = log
    BY <1>6, HandlerMove DEF Step, Handler, CreateRow, Arrive, IsMemberRead, IsMemberSet, AddMember,
          LockMembers, LockRow, Locked, LockFails, RemoveRefused, RemoveCommit, AdvanceHead
  <2>3. members' = members
    <3>1. CASE AddMember(r)
      BY <1>5, <1>6, <3>1 DEF AddMember, Goto, TypeOK
    <3>2. CASE RemoveCommit(r)
      <4>1. pc'[r] = "done"
        BY <1>6, <3>2, HandlerMove
      <4>2. req'[r].answer # "error"
        BY <1>4, <4>1
      <4>3. req' # [RowGone(req[r].by) EXCEPT ![r].answer = "error"]
        BY <4>2, RowGoneFacts DEF Reqs
      <4> QED BY <1>5, <3>2, <4>1, <4>3 DEF RemoveCommit, Goto, TypeOK
    <3> QED BY <1>6, <3>1, <3>2, HandlerMove DEF Step, Handler, CreateRow, Arrive, IsMemberRead,
             IsMemberSet, LockMembers, LockRow, Locked, LockFails, RemoveRefused, AdvanceHead
  <2> QED BY <1>1, <1>2, <1>3, <2>1, <2>2, <2>3 DEF Row
<1>7. CASE AddMember(r) /\ pc'[r] = "addSet"
  <2>1. /\ req' = [req EXCEPT ![r].seen = members \cap {req[r].target}]
        /\ members' = members \cup {req[r].target} /\ log' = log
    BY <1>5, <1>7 DEF AddMember
  <2>2. req'[r].seen = members \cap {req[r].target} /\ req'[r].kind \in {"create", "invite"}
    BY <1>7, <2>1, AimStays, ReqFields DEF KindInv, AddMember, TypeOK, Reqs
  <2>3. req[r].kind = "create" => members = {}
    BY <1>7 DEF AddMember, FirstInv, Creating
  <2>4. Joining(r)' <=> req[r].target \notin members
    BY <1>7, <2>2, <2>3, AimStays DEF Joining, WasNew
  <2>5. ~J /\ ~L /\ ~L2 /\ (J2 <=> req[r].target = a /\ a \notin members)
    BY <1>7, <2>4, AimStays DEF Joining, Leaving, AddMember
  <2>6. Row(a)' = IF J2 THEN Row(a) + 1 ELSE Row(a)
    BY <2>1, <2>5 DEF Row
  <2> QED BY <1>1, <1>2, <1>3, <2>1, <2>5, <2>6 DEF Row
<1>8. CASE AddMemberSet(r)
  <2>1. pc[r] = "addSet" /\ UNCHANGED <<members, log>> /\ req[r].kind \in {"create", "invite"}
    BY <1>8 DEF AddMemberSet, KindInv
  <2>2. Joining(r)' <=> Joining(r)
    BY <1>8, <2>1, AimStays DEF AddMemberSet, Joining, WasNew, Goto, Reply, TypeOK
  <2>3. (J2 <=> J) /\ ~L /\ ~L2
    BY <1>8, <2>1, <2>2, AimStays, HandlerMove DEF Leaving
  <2> QED BY <1>1, <1>2, <1>3, <2>1, <2>3 DEF Row
<1>9. CASE RemoveCommit(r) /\ pc'[r] = "invalidate"
  <2>1. members' = members \ {req[r].by} /\ log' = log
    BY <1>5, <1>9 DEF RemoveCommit, Reply, TypeOK
  <2>2. req[r].by \in members
    BY <1>9 DEF RemoveCommit, LockInv, Txn
  <2>3. ~J /\ ~L /\ ~J2 /\ (L2 <=> req[r].by = a)
    BY <1>9, AimStays DEF RemoveCommit, Joining, Leaving
  <2>4. Row(a) = IF L2 THEN Row(a)' + 1 ELSE Row(a)'
    BY <2>1, <2>2, <2>3 DEF Row
  <2> QED BY <1>1, <1>2, <1>3, <2>1, <2>3, <2>4 DEF Row
<1>10. CASE Invalidate(r)
  <2>1. /\ pc[r] = "invalidate" /\ pc'[r] = "append" /\ UNCHANGED <<members, log, req>>
        /\ req[r].kind = "leave"
    BY <1>10, HandlerMove DEF Invalidate, KindInv
  <2>2. ~J /\ ~J2 /\ (L2 <=> L)
    BY <2>1 DEF Joining, Leaving
  <2> QED BY <1>1, <1>2, <1>3, <2>1, <2>2 DEF Row
<1>11. CASE AppendEvent(r)
  <2>1. pc[r] = "append" /\ pc'[r] = "head" /\ members' = members /\ log' = Append(log, Event(r))
    BY <1>11, HandlerMove DEF AppendEvent, Goto, TypeOK
  <2>2. req[r].kind \in {"create", "invite", "leave"}
    BY <2>1, ReqFields DEF KindInv, Reqs
  <2>3. ~J2 /\ ~L2 /\ (J <=> req[r].kind # "leave" /\ req[r].target = a)
        /\ (L <=> req[r].kind = "leave" /\ req[r].by = a)
    BY <2>1, <2>2 DEF Joining, Leaving
  <2>4. Event(r) \in Events
    BY ReqFields DEF Event, Joined, Left, Events
  <2>5. (Event(r) = Joined(a) <=> J) /\ (Event(r) = Left(a) <=> L)
    BY <2>3 DEF Event, Joined, Left
  <2>6. /\ Times(log', Joined(a)) = Times(log, Joined(a)) + (IF J THEN 1 ELSE 0)
        /\ Times(log', Left(a)) = Times(log, Left(a)) + (IF L THEN 1 ELSE 0)
    BY <1>2, <2>1, <2>4, <2>5
  <2>7. /\ Times(log, Joined(a)) \in Nat /\ Times(log, Left(a)) \in Nat
        /\ Row(a)' = Row(a) /\ Row(a) \in {0, 1}
    BY <1>2, <1>3, <2>1 DEF Row
  <2> QED BY <1>1, <2>3, <2>6, <2>7
<1>12. \/ pc[r] \notin {"addSet", "append", "invalidate"} /\ pc'[r] \notin {"addSet", "append", "invalidate"}
       \/ AddMember(r) /\ pc'[r] = "addSet"
       \/ AddMemberSet(r)
       \/ RemoveCommit(r) /\ pc'[r] = "invalidate"
       \/ Invalidate(r)
       \/ AppendEvent(r)
  BY HandlerMove, ArriveMove, CreateMove DEF Step, Handler, CreateRow
<1> QED BY <1>6, <1>7, <1>8, <1>9, <1>10, <1>11, <1>12

LEMMA BalanceStep ==
  ASSUME "s2" \notin Faults, TypeOK, LockInv, KindInv, FirstInv, BalanceInv, [Next]_vars
  PROVE  BalanceInv'
<1> DEFINE Fits(a) ==
      /\ IsFiniteSet(Joiners(a)') /\ IsFiniteSet(Leavers(a)')
      /\ ~Broken' => Times(log', Joined(a)) + Cardinality(Joiners(a)')
                       = Times(log', Left(a)) + Cardinality(Leavers(a)') + Row(a)'
<1>0. /\ \A e : Count(e) = Times(log, e)
      /\ ~Broken' => ~Broken
  BY BrokenStays DEF Count, Times
<1>1. ASSUME NEW a \in Agents, NEW r \in Requests, Step(r) PROVE Fits(a)
  <2>1. /\ IsFiniteSet(Joiners(a)') /\ Cardinality(Joiners(a)) \in Nat /\ Cardinality(Joiners(a)') \in Nat
        /\ Cardinality(Joiners(a)') + In(r, Joiners(a)) = Cardinality(Joiners(a)) + In(r, Joiners(a)')
    BY <1>1, PendingStep, OneApart DEF BalanceInv
  <2>2. /\ IsFiniteSet(Leavers(a)') /\ Cardinality(Leavers(a)) \in Nat /\ Cardinality(Leavers(a)') \in Nat
        /\ Cardinality(Leavers(a)') + In(r, Leavers(a)) = Cardinality(Leavers(a)) + In(r, Leavers(a)')
    BY <1>1, PendingStep, OneApart DEF BalanceInv
  <2>3. ASSUME ~Broken'
        PROVE  Times(log', Joined(a)) + Cardinality(Joiners(a)')
                 = Times(log', Left(a)) + Cardinality(Leavers(a)') + Row(a)'
    <3>1. Times(log, Joined(a)) + Cardinality(Joiners(a)) = Times(log, Left(a)) + Cardinality(Leavers(a)) + Row(a)
      BY <1>0, <2>3 DEF BalanceInv
    <3>2. /\ Times(log, Joined(a)) \in Nat /\ Times(log, Left(a)) \in Nat
          /\ Times(log', Joined(a)) + In(r, Joiners(a)') + In(r, Leavers(a)) + Times(log, Left(a)) + Row(a)
              = Times(log', Left(a)) + In(r, Leavers(a)') + In(r, Joiners(a)) + Times(log, Joined(a)) + Row(a)'
      BY <1>1, <2>3, ShareOfStep
    <3>3. Times(log', Joined(a)) \in Nat /\ Times(log', Left(a)) \in Nat
      <4>1. log' \in Seq(Events)
        BY TypeStep DEF TypeOK
      <4>2. Joined(a) \in Events
        BY DEF Joined, Events
      <4> QED BY <4>1, <4>2, TimesOfAppend
    <3>4. /\ In(r, Joiners(a)) \in Nat /\ In(r, Joiners(a)') \in Nat
          /\ In(r, Leavers(a)) \in Nat /\ In(r, Leavers(a)') \in Nat
      BY DEF In
    <3>5. Row(a) \in Nat /\ Row(a)' \in Nat
      BY DEF Row
    <3> DEFINE tj == Times(log, Joined(a))
               tl == Times(log, Left(a))
               tj2 == Times(log', Joined(a))
               tl2 == Times(log', Left(a))
               cj == Cardinality(Joiners(a))
               cl == Cardinality(Leavers(a))
               cj2 == Cardinality(Joiners(a)')
               cl2 == Cardinality(Leavers(a)')
               j == In(r, Joiners(a))
               l == In(r, Leavers(a))
               j2 == In(r, Joiners(a)')
               l2 == In(r, Leavers(a)')
               w == Row(a)
               w2 == Row(a)'
    <3>6. /\ tj + cj = tl + cl + w /\ cj2 + j = cj + j2 /\ cl2 + l = cl + l2
          /\ tj2 + j2 + l + tl + w = tl2 + l2 + j + tj + w2
      BY <2>1, <2>2, <3>1, <3>2
    <3>7. /\ tj \in Nat /\ tl \in Nat /\ tj2 \in Nat /\ tl2 \in Nat /\ cj \in Nat /\ cl \in Nat
          /\ cj2 \in Nat /\ cl2 \in Nat /\ j \in Nat /\ l \in Nat /\ j2 \in Nat /\ l2 \in Nat
          /\ w \in Nat /\ w2 \in Nat
      BY <2>1, <2>2, <3>2, <3>3, <3>4, <3>5
    <3> HIDE DEF tj, tl, tj2, tl2, cj, cl, cj2, cl2, j, l, j2, l2, w, w2
    <3>8. tj2 + cj2 = tl2 + cl2 + w2
      BY <3>6, <3>7
    <3> QED BY <3>8 DEF tj2, cj2, tl2, cl2, w2
  <2> QED BY <2>1, <2>2, <2>3
<1>2. ASSUME NEW a \in Agents, (\E b \in Agents : Expire(b)) \/ UNCHANGED vars PROVE Fits(a)
  <2>1. UNCHANGED <<members, log, pc, req>>
    BY <1>2 DEF Expire, vars
  <2>2. Joiners(a)' = Joiners(a) /\ Leavers(a)' = Leavers(a) /\ Row(a)' = Row(a) /\ (Broken' <=> Broken)
    BY <2>1 DEF Joiners, Leavers, Joining, Leaving, WasNew, Row, Broken
  <2> QED BY <1>0, <2>1, <2>2 DEF BalanceInv
<1>3. ASSUME NEW a \in Agents, Crash PROVE Fits(a)
  <2>1. UNCHANGED <<members, log, req>> /\ \A q \in Requests : pc'[q] \in {"idle", "done", "dead"}
    BY <1>3 DEF Crash
  <2>2. Joiners(a)' = {} /\ Leavers(a)' = {} /\ Row(a)' = Row(a)
    BY <2>1 DEF Joiners, Leavers, Joining, Leaving, Row
  <2>3. IsFiniteSet({})
    BY FS_EmptySet
  <2>4. ASSUME ~Broken' PROVE Joiners(a) = {} /\ Leavers(a) = {}
    <3>1. \A q \in Requests : pc[q] \in {"idle", "done"}
      BY <1>3, <2>4 DEF Crash, Broken
    <3> QED BY <3>1 DEF Joiners, Leavers, Joining, Leaving
  <2> QED BY <1>0, <2>1, <2>2, <2>3, <2>4 DEF BalanceInv
<1>4. \A a \in Agents : Fits(a)
  BY <1>1, <1>2, <1>3 DEF Next, Step
<1>5. \A e : Count(e)' = Times(log', e)
  BY DEF Count, Times
<1> QED BY <1>4, <1>5 DEF BalanceInv

(* While S2 answers, for any number of requests on any number of agents, with failing       *)
(* statements and crashes: as long as no request has failed or died, and none is running,   *)
(* the stream tells the membership, an agent's joins outnumbering its leaves by its one row. *)
THEOREM StreamTellsMembership == "s2" \notin Faults => (Spec => []JoinsBalance)
<1> SUFFICES ASSUME "s2" \notin Faults PROVE Spec => []JoinsBalance
  OBVIOUS
<1> DEFINE Inv == TypeOK /\ LockInv /\ KindInv /\ FirstInv /\ BalanceInv
<1>1. Init => Inv
  <2> SUFFICES ASSUME Init PROVE Inv
    OBVIOUS
  <2>1. KindInv /\ FirstInv
    BY DEF Init, KindInv, FirstInv, Creating, NoReq
  <2>2. \A a \in Agents : Joiners(a) = {} /\ Leavers(a) = {} /\ Row(a) = 0
    BY DEF Init, Joiners, Leavers, Joining, Leaving, Row
  <2>3. \A e : Count(e) = 0
    <3>1. \A e : {i \in 1 .. Len(log) : log[i] = e} = {}
      BY DEF Init
    <3> QED BY <3>1, FS_EmptySet DEF Count
  <2>4. IsFiniteSet({}) /\ Cardinality({}) = 0
    BY FS_EmptySet
  <2>5. BalanceInv
    <3> SUFFICES ASSUME NEW a \in Agents
                 PROVE  /\ IsFiniteSet(Joiners(a)) /\ IsFiniteSet(Leavers(a))
                        /\ Count(Joined(a)) + Cardinality(Joiners(a))
                             = Count(Left(a)) + Cardinality(Leavers(a)) + Row(a)
      BY DEF BalanceInv
    <3> QED BY <2>2, <2>3, <2>4
  <2> QED BY <2>1, <2>5, InitOK
<1>2. Inv /\ [Next]_vars => Inv'
  BY TypeStep, LockStep, KindStep, FirstStep, BalanceStep
<1>3. Inv => JoinsBalance
  <2> SUFFICES ASSUME Inv, Quiet, ~Failed, NEW a \in Agents
               PROVE  Count(Joined(a)) = Count(Left(a)) + Row(a)
    BY DEF JoinsBalance, Row
  <2>1. ~Broken
    BY DEF Broken, Quiet, Failed
  <2>2. Joiners(a) = {} /\ Leavers(a) = {}
    BY DEF Quiet, Joiners, Leavers, Joining, Leaving
  <2>3. Cardinality({}) = 0
    BY FS_EmptySet
  <2>4. Count(Joined(a)) \in Nat /\ Count(Left(a)) \in Nat
    <3>1. Joined(a) \in Events
      BY DEF Joined, Events
    <3>2. Count(Joined(a)) = Times(log, Joined(a)) /\ Count(Left(a)) = Times(log, Left(a))
      BY DEF Count, Times
    <3> QED BY <3>1, <3>2, TimesOfAppend DEF TypeOK
  <2> QED BY <2>1, <2>2, <2>3, <2>4 DEF BalanceInv, Row
<1> QED BY <1>1, <1>2, <1>3, PTL DEF Spec
=============================================================================
