----------------------------- MODULE Membership -----------------------------
(***************************************************************************)
(* Membership of one conversation: CreateConversation, InviteAgent,        *)
(* LeaveConversation and the membership gate of every other endpoint       *)
(* (internal/api), over the members table, the in-process membership cache *)
(* (internal/store) and the agent_joined and agent_left records on the     *)
(* conversation's S2 stream.                                               *)
(*                                                                         *)
(* A request is one HTTP request.  Its calls to Postgres, to the cache and *)
(* to S2 are separate steps, so requests interleave between a statement    *)
(* and the cache entry that is to reflect it.  A failed call may have had  *)
(* its effect or not.  log[i] has sequence number i - 1.                   *)
(***************************************************************************)
EXTENDS Integers, Sequences, FiniteSets

CONSTANTS Agents,      \* registered agents
          Creator,     \* the agent that creates the conversation
          Requests,    \* HTTP requests on it
          MaxCrashes,  \* bound on the crashes of the server
          Faults       \* which calls may fail, or end with their context: "pg", "s2"

ASSUME CreatorAssumption == Creator \in Agents
ASSUME FaultsAssumption == Faults \subseteq {"pg", "s2"}
ASSUME RequestsAssumption == IsFiniteSet(Requests)
ASSUME CrashesAssumption == MaxCrashes \in Nat

VARIABLES exists,   \* the conversations row is there
          members,  \* the members rows
          cache,    \* membershipCache: "yes", "no" or "none" for each agent
          log,      \* the membership records of the stream
          head,     \* conversations.head_seq
          lock,     \* lock[r]: the members rows that the transaction of r has locked
          pc,       \* where each request stands
          req,      \* what each request is about
          crashes

vars == <<exists, members, cache, log, head, lock, pc, req, crashes>>

Joined(a) == [type |-> "agent_joined", agent |-> a]
Left(a)   == [type |-> "agent_left", agent |-> a]

(* by: the caller; target: whose membership the request is about;       *)
(* seen: the rows a read returned; seq: the record it appended.         *)
NoReq == [kind |-> "create", by |-> Creator, target |-> Creator, seen |-> {}, seq |-> 0,
          answer |-> "none"]

Init == /\ exists = FALSE
        /\ members = {}
        /\ cache = [a \in Agents |-> "none"]
        /\ log = <<>>
        /\ head = 0
        /\ lock = [r \in Requests |-> {}]
        /\ pc = [r \in Requests |-> "idle"]
        /\ req = [r \in Requests |-> NoReq]
        /\ crashes = 0

Goto(r, where) == pc' = [pc EXCEPT ![r] = where]
Reply(r, answer) == /\ pc' = [pc EXCEPT ![r] = "done"]
                    /\ req' = [req EXCEPT ![r].answer = answer]

(***************************************************************************)
(* CreateConversation                                                      *)
(***************************************************************************)

(* INSERT INTO conversations; the conversation_id is fresh, so it happens once. *)
CreateRow(r) ==
    /\ pc[r] = "idle" /\ ~exists
    /\ \A q \in Requests : pc[q] \in {"idle", "done", "dead"}
    /\ \/ /\ exists' = TRUE
          /\ req' = [req EXCEPT ![r] = NoReq]
          /\ Goto(r, "add")
       \/ /\ "pg" \in Faults
          /\ exists' \in BOOLEAN
          /\ Reply(r, "error")
    /\ UNCHANGED <<members, cache, log, head, lock, crashes>>

(***************************************************************************)
(* requireMembership                                                       *)
(***************************************************************************)

(* The first step of the handler once the caller is known to be a member. *)
Admitted(kind) == CASE kind = "invite" -> "add"
                    [] kind = "leave"  -> "check"
                    [] OTHER -> "done"

Admit(r, q) == /\ Goto(r, Admitted(q.kind))
               /\ req' = [req EXCEPT ![r] =
                      [q EXCEPT !.answer = IF q.kind = "other" THEN "served" ELSE "none"]]

Refuse(r, q) == /\ Goto(r, "done")
                /\ req' = [req EXCEPT ![r] = [q EXCEPT !.answer = "not_member"]]

(* ConversationExists, then the cache: a hit decides, a miss goes to Postgres. *)
Arrive(r) ==
    /\ pc[r] = "idle" /\ exists
    /\ \E kind \in {"invite", "leave", "other"}, a, b \in Agents :
         LET q == [NoReq EXCEPT !.kind = kind, !.by = a, !.target = b] IN
         /\ kind # "invite" => b = a
         /\ \/ cache[a] = "yes" /\ Admit(r, q)
            \/ cache[a] = "no" /\ Refuse(r, q)
            \/ cache[a] = "none" /\ Goto(r, "isMember") /\ req' = [req EXCEPT ![r] = q]
    /\ UNCHANGED <<exists, members, cache, log, head, lock, crashes>>

(* SELECT EXISTS on the members table. *)
IsMemberRead(r) ==
    /\ pc[r] = "isMember"
    /\ \/ /\ req' = [req EXCEPT ![r].seen = members \cap {req[r].by}]
          /\ Goto(r, "isMemberSet")
       \/ "pg" \in Faults /\ Reply(r, "error")
    /\ UNCHANGED <<exists, members, cache, log, head, lock, crashes>>

(* The answer, whatever has happened since the read, goes into the cache. *)
IsMemberSet(r) ==
    LET a == req[r].by
        q == [req[r] EXCEPT !.seen = {}] IN
    /\ pc[r] = "isMemberSet"
    /\ \/ req[r].seen # {} /\ cache' = [cache EXCEPT ![a] = "yes"] /\ Admit(r, q)
       \/ req[r].seen = {} /\ cache' = [cache EXCEPT ![a] = "no"] /\ Refuse(r, q)
    /\ UNCHANGED <<exists, members, log, head, lock, crashes>>

(* The TTL of an entry has passed, or the LRU has evicted it. *)
Expire(a) == /\ cache[a] # "none"
             /\ cache' = [cache EXCEPT ![a] = "none"]
             /\ UNCHANGED <<exists, members, log, head, lock, pc, req, crashes>>

(***************************************************************************)
(* AddMember, from CreateConversation and InviteAgent                      *)
(***************************************************************************)

(* INSERT ... ON CONFLICT DO NOTHING RETURNING; seen: was the row there already. *)
AddMember(r) ==
    /\ pc[r] = "add"
    /\ \/ /\ req' = [req EXCEPT ![r].seen = members \cap {req[r].target}]
          /\ Goto(r, "addSet")
          /\ members' = members \cup {req[r].target}
       \/ /\ "pg" \in Faults
          /\ Reply(r, "error")
          /\ members' \in {members, members \cup {req[r].target}}
    /\ UNCHANGED <<exists, cache, log, head, lock, crashes>>

(* Slip: a re-invite is announced like an invite. *)
AnnounceAlways(r) == TRUE

(* wasNew: only then is agent_joined appended; a create is always new. *)
WasNew(r) == req[r].kind = "create" \/ req[r].seen = {}

(* members.Set(true), in either case. *)
AddMemberSet(r) ==
    /\ pc[r] = "addSet"
    /\ cache' = [cache EXCEPT ![req[r].target] = "yes"]
    /\ IF WasNew(r) THEN Goto(r, "append") /\ UNCHANGED req
                    ELSE Reply(r, "already_member")
    /\ UNCHANGED <<exists, members, log, head, lock, crashes>>

(***************************************************************************)
(* LockMembersForUpdate and RemoveMember: a transaction each, whose        *)
(* SELECT ... FOR UPDATE locks row by row, in no stated order, holding the *)
(* rows it has while it waits for the next                                 *)
(***************************************************************************)
Locking(r) == pc[r] \in {"checking", "locking"}
Wanted(r)  == req[r].seen \ lock[r]
Free(a)    == \A q \in Requests : a \notin lock[q]

(* p waits for a row that q has locked. *)
Waits(p, q) == Locking(p) /\ Wanted(p) \cap lock[q] # {}

(* Nobody in S waits for anybody outside. *)
Closed(S) == \A p \in S, q \in Requests : Waits(p, q) => q \in S

(* r waits for itself: whatever holds those it waits for, and theirs, holds r. *)
Circle(r) == \A S \in SUBSET Requests :
    Closed(S) /\ (\A q \in Requests : Waits(r, q) => q \in S) => r \in S

(* Slip: RemoveMember relies on the LockMembersForUpdate before it, and reads the rows *)
(* without locking them.                                                               *)
ReadMembers(r) ==
    /\ pc[r] \in {"check", "lock"}
    /\ req' = [req EXCEPT ![r].seen = members]
    /\ Goto(r, IF pc[r] = "check" THEN "checking" ELSE "remove")
    /\ UNCHANGED <<exists, members, cache, log, head, lock, crashes>>

(* Once the caller's connections are gone: BEGIN and the start of the SELECT, which takes *)
(* its snapshot.                                                                          *)
LockMembers(r) ==
    /\ pc[r] \in {"check", "lock"}
    /\ \/ /\ req' = [req EXCEPT ![r].seen = members]
          /\ Goto(r, IF pc[r] = "check" THEN "checking" ELSE "locking")
       \/ "pg" \in Faults /\ Reply(r, "error")
    /\ UNCHANGED <<exists, members, cache, log, head, lock, crashes>>

(* A row that nobody else has locked is granted. *)
LockRow(r) ==
    /\ Locking(r)
    /\ \E a \in Wanted(r) : Free(a) /\ lock' = [lock EXCEPT ![r] = @ \cup {a}]
    /\ UNCHANGED <<exists, members, cache, log, head, pc, req, crashes>>

(* The SELECT has all its rows.  LockMembersForUpdate commits and is rid of them. *)
Locked(r) ==
    /\ Wanted(r) = {}
    /\ \/ pc[r] = "checking" /\ Goto(r, "lock") /\ lock' = [lock EXCEPT ![r] = {}]
       \/ pc[r] = "locking" /\ Goto(r, "remove") /\ UNCHANGED lock
    /\ UNCHANGED <<exists, members, cache, log, head, req, crashes>>

(* The statement or the first commit fails: with the connection, or because Postgres has *)
(* found the transaction in a circle of waits and breaks it.                             *)
LockFails(r) ==
    /\ Locking(r)
    /\ "pg" \in Faults \/ Circle(r)
    /\ lock' = [lock EXCEPT ![r] = {}]
    /\ Reply(r, "error")
    /\ UNCHANGED <<exists, members, cache, log, head, crashes>>

(* Slip: the early return leaves its transaction open. *)
KeepLock(r) == UNCHANGED lock

(* The deferred Rollback of an early return. *)
Rollback(r) == lock' = [lock EXCEPT ![r] = {}]

(* ErrNotMember, ErrLastMember: the transaction is rolled back. *)
RemoveRefused(r) ==
    /\ pc[r] = "remove"
    /\ \/ req[r].by \notin req[r].seen /\ Reply(r, "not_member")
       \/ req[r].seen = {req[r].by} /\ Reply(r, "last_member")
    /\ Rollback(r)
    /\ UNCHANGED <<exists, members, cache, log, head, crashes>>

(* The row of a is gone: it drops out of the SELECT of those who wait for it.  A row *)
(* that is inserted for a afterwards is a new one, which their snapshot does not see. *)
RowGone(a) == [q \in Requests |-> [req[q] EXCEPT !.seen = IF Locking(q) THEN @ \ {a} ELSE @]]

(* DELETE and COMMIT; an error of the commit leaves open whether it took effect. *)
RemoveCommit(r) ==
    /\ pc[r] = "remove"
    /\ req[r].by \in req[r].seen /\ req[r].seen # {req[r].by}
    /\ lock' = [lock EXCEPT ![r] = {}]
    /\ \/ /\ members' = members \ {req[r].by}
          /\ \/ Goto(r, "invalidate") /\ req' = RowGone(req[r].by)
             \/ /\ "pg" \in Faults
                /\ Goto(r, "done") /\ req' = [RowGone(req[r].by) EXCEPT ![r].answer = "error"]
       \/ "pg" \in Faults /\ Reply(r, "error") /\ UNCHANGED members
    /\ UNCHANGED <<exists, cache, log, head, crashes>>

Invalidate(r) ==
    /\ pc[r] = "invalidate"
    /\ cache' = [cache EXCEPT ![req[r].by] = "none"]
    /\ Goto(r, "append")
    /\ UNCHANGED <<exists, members, log, head, lock, req, crashes>>

(***************************************************************************)
(* The record on the stream and head_seq, common to the three handlers     *)
(***************************************************************************)
Event(r) == IF req[r].kind = "leave" THEN Left(req[r].by) ELSE Joined(req[r].target)
Success(r) == CASE req[r].kind = "create" -> "created"
                [] req[r].kind = "invite" -> "invited"
                [] OTHER -> "left"

(* Slip: the end of the append, already one past the record, is counted down twice. *)
LastSeqTwice == Len(log) - 1

(* res.EndSeq - 1 of an append of one record. *)
LastSeq == Len(log)

(* AppendEvents; its failure is a 500 to a create or an invite, but a leave is *)
(* answered 200 all the same, without the head_seq update.                     *)
AppendEvent(r) ==
    /\ pc[r] = "append"
    /\ \/ /\ log' = Append(log, Event(r))
          /\ req' = [req EXCEPT ![r].seq = LastSeq]
          /\ Goto(r, "head")
       \/ /\ "s2" \in Faults
          /\ log' \in {log, Append(log, Event(r))}
          /\ Reply(r, IF req[r].kind = "leave" THEN "left" ELSE "error")
    /\ UNCHANGED <<exists, members, cache, head, lock, crashes>>

(* Slip: the update without its WHERE clause, the last writer wins. *)
UpdateHeadLast(seq) == head' = seq

(* UPDATE conversations SET head_seq = seq WHERE head_seq < seq *)
UpdateHead(seq) == head' = IF head < seq THEN seq ELSE head

(* Its error is only logged. *)
AdvanceHead(r) ==
    /\ pc[r] = "head"
    /\ \/ UpdateHead(req[r].seq)
       \/ "pg" \in Faults /\ UNCHANGED head
    /\ Reply(r, Success(r))
    /\ UNCHANGED <<exists, members, cache, log, lock, crashes>>

(***************************************************************************)
(* The process dies: the cache, the transactions and the requests are gone *)
(***************************************************************************)
Crash == /\ crashes < MaxCrashes
         /\ crashes' = crashes + 1
         /\ cache' = [a \in Agents |-> "none"]
         /\ lock' = [r \in Requests |-> {}]
         /\ pc' = [r \in Requests |-> IF pc[r] \in {"idle", "done"} THEN pc[r] ELSE "dead"]
         /\ UNCHANGED <<exists, members, log, head, req>>

(***************************************************************************)
(* Specification                                                           *)
(***************************************************************************)
Handler(r) == \/ IsMemberRead(r) \/ IsMemberSet(r)
              \/ AddMember(r) \/ AddMemberSet(r)
              \/ LockMembers(r) \/ LockRow(r) \/ Locked(r) \/ LockFails(r) \/ RemoveRefused(r)
              \/ RemoveCommit(r) \/ Invalidate(r) \/ AppendEvent(r) \/ AdvanceHead(r)

Next == \/ \E r \in Requests : CreateRow(r) \/ Arrive(r) \/ Handler(r)
        \/ \E a \in Agents : Expire(a)
        \/ Crash

Spec == Init /\ [][Next]_vars

(* A handler that has been started runs: its calls return, a free row is granted to one *)
(* of those who want it, and Postgres looks for circles of waits.                       *)
Fairness == \A r \in Requests : WF_vars(Handler(r))

FairSpec == Spec /\ Fairness

(***************************************************************************)
(* Properties                                                              *)
(***************************************************************************)
PCs == {"idle", "isMember", "isMemberSet", "add", "addSet", "check", "checking", "lock", "locking",
        "remove", "invalidate", "append", "head", "done", "dead"}
Answers == {"none", "error", "not_member", "last_member", "already_member", "served", "created",
            "invited", "left"}

Reqs == [kind : {"create", "invite", "leave", "other"}, by : Agents, target : Agents,
         seen : SUBSET Agents, seq : Nat, answer : Answers]
Events == [type : {"agent_joined", "agent_left"}, agent : Agents]

TypeOK ==
    /\ exists \in BOOLEAN
    /\ members \in SUBSET Agents
    /\ cache \in [Agents -> {"yes", "no", "none"}]
    /\ log \in Seq(Events)
    /\ head \in Nat
    /\ lock \in [Requests -> SUBSET Agents]
    /\ pc \in [Requests -> PCs]
    /\ req \in [Requests -> Reqs]
    /\ crashes \in Nat

(* RemoveMember: however leaves and invites interleave and whichever of their *)
(* statements fail, a conversation that has members is never left without.    *)
NeverEmptied == [][members # {} => members' # {}]_vars

Quiet == \A r \in Requests : pc[r] \in {"idle", "done"}
Failed == \E r \in Requests : req[r].answer = "error"
Count(e) == Cardinality({i \in 1 .. Len(log) : log[i] = e})

(* InviteAgent, LeaveConversation: when no request runs and none has failed or died,  *)
(* the stream tells the membership: an agent's joins outnumber its leaves by one      *)
(* exactly when it is a member, and never by more.                                    *)
JoinsBalance == Quiet /\ ~Failed => \A a \in Agents :
    Count(Joined(a)) = Count(Left(a)) + (IF a \in members THEN 1 ELSE 0)

(* UpdateConversationHeadSeq: head_seq has reached the record of every request that   *)
(* was answered, in whichever order the updates arrived, and never passes the stream. *)
HeadFollowsLog == /\ head <= Len(log)
                  /\ head = Len(log) => head = 0
                  /\ \A r \in Requests : pc[r] = "done" => head >= req[r].seq

(* RemoveMember: every request is answered; no leave waits for ever on the row locks of *)
(* another, be it one that has returned or one that waits for it in turn.                *)
AllAnswered == \A r \in Requests : pc[r] \notin {"idle", "done"} ~> pc[r] \in {"done", "dead"}

(* DESIGN.md: the cache is "Synchronously invalidated on invite/leave": when no *)
(* request is in flight, no departed agent is let in on a cached answer.        *)
DepartedIsRefused == Quiet => \A a \in Agents : cache[a] = "yes" => a \in members

(* LeaveConversation: "The row is gone -- still return 200. The stream is eventually *)
(* consistent": a leave that was answered comes to be on the stream.                 *)
LeftIsLogged == \A r \in Requests : (req[r].answer = "left") ~> Count(Left(req[r].by)) > 0
=============================================================================
