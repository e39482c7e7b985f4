------------------------- MODULE MessageWriteProofs -------------------------
(***************************************************************************)
(* Proofs about MessageWrite for any number of requests and message_ids,   *)
(* any bound on chunks and crashes and every combination of faults.        *)
(***************************************************************************)
EXTENDS MessageWrite, SequenceTheorems, TLAPS

(* The records a handler writes are records, and so is a batch of them. *)
LEMMA RecordTypes ==
  ASSUME NEW a \in Attempts
  PROVE  /\ Start(a) \in Records /\ \A n \in Nat : Chunk(a, n) \in Records
         /\ End(a) \in Records /\ Abort(a) \in Records
         /\ CompleteBatch(a) \in Seq(Records)
  BY DEF Start, Chunk, End, Abort, Record, Records, CompleteBatch

(* The three shapes a messages_dedup row is written in. *)
LEMMA RowTypes ==
  /\ NoRow \in DedupRows /\ Aborted \in DedupRows
  /\ \A r \in Ranges : Complete(r) \in DedupRows
  BY DEF NoRow, Aborted, Complete, DedupRows, Ranges

(* The range a streamed message is given is a pair of naturals. *)
LEMMA RangeType ==
  ASSUME NEW before \in Nat, NEW after \in Nat
  PROVE  StreamRange(before, after) \in Ranges
  BY DEF StreamRange, Ranges

(* One past the last record is a natural number. *)
LEMMA TailType == TypeOK => Tail0 \in Nat
  BY LenProperties DEF TypeOK, Tail0

(* Every pc a handler goes to is one of the known ones. *)
PCs == WritePCs \cup {"idle", "claim", "done", "dead"}

LEMMA GotoType ==
  ASSUME TypeOK, NEW a \in Attempts, NEW where \in PCs, Goto(a, where)
  PROVE  pc' \in [Attempts -> PCs]
  BY DEF TypeOK, Goto, PCs

LEMMA ReplyType ==
  ASSUME TypeOK, NEW a \in Attempts,
         NEW answer \in Answers,
         Reply(a, answer)
  PROVE  pc' \in [Attempts -> PCs] /\ req' \in [Attempts -> Requests]
<1>0. req[a] \in Requests
  BY DEF TypeOK
<1>1. [req[a] EXCEPT !.answer = answer] \in Requests
  BY <1>0 DEF Requests
<1>2. req' = [req EXCEPT ![a] = [req[a] EXCEPT !.answer = answer]]
  BY DEF Reply
<1>3. req' \in [Attempts -> Requests]
  BY <1>1, <1>2 DEF TypeOK
<1>4. pc' \in [Attempts -> PCs]
  BY DEF TypeOK, Reply, PCs
<1> QED BY <1>3, <1>4

LEMMA InsertType ==
  ASSUME TypeOK, NEW m \in Msgs, NEW row \in DedupRows, InsertDedup(m, row)
  PROVE  dedup' \in [Msgs -> DedupRows]
  BY DEF TypeOK, InsertDedup

LEMMA SubmitType ==
  ASSUME TypeOK, NEW a \in Attempts, NEW rec \in Records, NEW next \in PCs, Submit(a, rec, next)
  PROVE  pc' \in [Attempts -> PCs] /\ wire' \in [Attempts -> Seq(Seq(Records))]
<1>1. <<rec>> \in Seq(Records)
  OBVIOUS
<1>2. Append(wire[a], <<rec>>) \in Seq(Seq(Records))
  BY <1>1, AppendProperties DEF TypeOK
<1>3. wire' \in [Attempts -> Seq(Seq(Records))]
  BY <1>2 DEF TypeOK, Submit
<1>4. "closeAbort" \in PCs
  BY DEF PCs, WritePCs
<1>5. pc' \in [Attempts -> PCs]
  BY <1>4, GotoType DEF Submit
<1> QED BY <1>3, <1>5

(* The abort path starts with a context and a session of its own. *)
Sessions == {"whole", "failed", "silent"}
Contexts == {"live", "cut", "ended"}

LEMMA ToAbortType ==
  ASSUME TypeOK, NEW a \in Attempts, ToAbort(a)
  PROVE  /\ pc' \in [Attempts -> PCs]
         /\ session' \in [Attempts -> Sessions] /\ ctx' \in [Attempts -> Contexts]
<1>1. "abortAppend" \in PCs
  BY DEF PCs, WritePCs
<1> QED BY <1>1, GotoType DEF TypeOK, ToAbort, Sessions, Contexts

(* Type correctness of one step. *)
LEMMA TypeStep == TypeOK /\ [Next]_vars => TypeOK'
<1> SUFFICES ASSUME TypeOK, [Next]_vars PROVE TypeOK'
  OBVIOUS
<1>t. TypeOK <=> /\ log \in Seq(Records) /\ claims \in SUBSET Attempts
                 /\ dedup \in [Msgs -> DedupRows] /\ head \in Nat
                 /\ pc \in [Attempts -> PCs] /\ req \in [Attempts -> Requests]
                 /\ wire \in [Attempts -> Seq(Seq(Records))]
                 /\ aborts \in SUBSET Attempts
                 /\ session \in [Attempts -> Sessions] /\ ctx \in [Attempts -> Contexts]
                 /\ sweep \in [Msgs -> {"none", "abort", "dedup", "delete"}] /\ crashes \in Nat
  BY DEF TypeOK, PCs, Sessions, Contexts
<1>u. TypeOK' <=> /\ log' \in Seq(Records) /\ claims' \in SUBSET Attempts
                  /\ dedup' \in [Msgs -> DedupRows] /\ head' \in Nat
                  /\ pc' \in [Attempts -> PCs] /\ req' \in [Attempts -> Requests]
                  /\ wire' \in [Attempts -> Seq(Seq(Records))]
                  /\ aborts' \in SUBSET Attempts
                  /\ session' \in [Attempts -> Sessions] /\ ctx' \in [Attempts -> Contexts]
                  /\ sweep' \in [Msgs -> {"none", "abort", "dedup", "delete"}] /\ crashes' \in Nat
  BY DEF TypeOK, PCs, Sessions, Contexts
<1>p. /\ WritePCs \subseteq PCs /\ {"claim", "done", "dead"} \subseteq PCs
      /\ {"append", "tail", "open", "body", "close", "closeAbort", "tailEnd", "dedup", "head",
          "release", "abortAppend", "abortDedup", "abortRelease"} \subseteq PCs
  BY DEF PCs, WritePCs
<1>r. \A a \in Attempts : req[a] \in Requests /\ req[a].msg \in Msgs /\ req[a].range \in Ranges
                          /\ req[a].tail \in Nat /\ req[a].sent \in Nat
  BY DEF TypeOK, Requests
<1>a. Answers = {"none", "created", "replayed", "already_aborted", "in_progress_conflict",
                 "failed", "unsettled", "error"}
  BY DEF Answers
<1>l. \A a \in Attempts : /\ Append(log, Abort(a)) \in Seq(Records)
                          /\ log \o CompleteBatch(a) \in Seq(Records)
  BY RecordTypes, AppendProperties, ConcatProperties DEF TypeOK
<1>w. ASSUME NEW a \in Attempts, NEW bs \in Seq(Seq(Records)), Abandon(a, bs)
      PROVE  wire' \in [Attempts -> Seq(Seq(Records))]
  BY <1>w DEF Abandon, TypeOK
<1>1. ASSUME NEW a \in Attempts, NEW k \in {"send", "stream"}, Gate(a, k) PROVE TypeOK'
  <2>1. CASE pc' = [pc EXCEPT ![a] = "claim"] /\ req' = [req EXCEPT ![a].kind = k]
    <3>1. [req[a] EXCEPT !.kind = k] \in Requests
      BY <1>r DEF Requests
    <3>2. req' = [req EXCEPT ![a] = [req[a] EXCEPT !.kind = k]]
      BY <2>1
    <3>3. req' \in [Attempts -> Requests] /\ pc' \in [Attempts -> PCs]
      BY <1>t, <1>p, <2>1, <3>1, <3>2
    <3> QED BY <1>1, <1>t, <1>u, <3>3 DEF Gate, tables, sessions, sweepVars
  <2>2. CASE \E x \in Answers : Reply(a, x)
    BY <1>1, <1>t, <1>u, <2>2, ReplyType DEF Gate, tables, sessions, sweepVars
  <2> QED BY <1>1, <1>a, <2>1, <2>2 DEF Gate
<1>2. ASSUME NEW a \in Attempts, Claim(a) PROVE TypeOK'
  <2>1. claims' \in SUBSET Attempts
    BY <1>2, <1>t DEF Claim
  <2>2. pc' \in [Attempts -> PCs] /\ req' \in [Attempts -> Requests]
    <3>1. CASE \E x \in Answers : Reply(a, x)
      BY <3>1, ReplyType
    <3>2. CASE UNCHANGED req /\ \E x \in PCs : Goto(a, x)
      BY <1>t, <3>2, GotoType
    <3> QED BY <1>2, <1>a, <1>p, <3>1, <3>2 DEF Claim
  <2> QED BY <1>2, <1>t, <1>u, <2>1, <2>2 DEF Claim, sessions, sweepVars
<1>3. ASSUME NEW a \in Attempts, AppendComplete(a) PROVE TypeOK'
  <2>1. <<Tail0, Tail0 + 2>> \in Ranges
    BY TailType DEF Ranges
  <2>2. req' \in [Attempts -> Requests]
    <3>1. [req[a] EXCEPT !.sent = 1, !.range = <<Tail0, Tail0 + 2>>] \in Requests
      BY <1>r, <2>1 DEF Requests
    <3>2. [req[a] EXCEPT !.sent = 1] \in Requests
      BY <1>r DEF Requests
    <3>3. \/ req' = [req EXCEPT ![a] = [req[a] EXCEPT !.sent = 1, !.range = <<Tail0, Tail0 + 2>>]]
          \/ req' = [req EXCEPT ![a] = [req[a] EXCEPT !.sent = 1]]
      BY <1>3, <1>t DEF AppendComplete
    <3> QED BY <1>t, <3>1, <3>2, <3>3
  <2>3. <<CompleteBatch(a)>> \in Seq(Seq(Records))
    BY RecordTypes
  <2>4. wire' \in [Attempts -> Seq(Seq(Records))]
    BY <1>3, <1>t, <1>w, <2>3 DEF AppendComplete
  <2>5. log' \in Seq(Records)
    BY <1>3, <1>t, <1>l DEF AppendComplete
  <2>6. pc' \in [Attempts -> PCs]
    BY <1>3, <1>p, GotoType DEF AppendComplete
  <2> QED BY <1>3, <1>t, <1>u, <2>2, <2>4, <2>5, <2>6 DEF AppendComplete, tables, sessions, sweepVars
<1>4. ASSUME NEW a \in Attempts, CheckTailBefore(a) PROVE TypeOK'
  <2>1. PICK t \in Nat : req' = [req EXCEPT ![a].tail = t]
    BY <1>4, TailType DEF CheckTailBefore, Tails
  <2>2. [req[a] EXCEPT !.tail = t] \in Requests
    BY <1>r DEF Requests
  <2>3. req' = [req EXCEPT ![a] = [req[a] EXCEPT !.tail = t]]
    BY <2>1
  <2>4. req' \in [Attempts -> Requests]
    BY <1>t, <2>2, <2>3
  <2>5. pc' \in [Attempts -> PCs]
    BY <1>4, <1>p, GotoType DEF CheckTailBefore
  <2> QED BY <1>4, <1>t, <1>u, <2>4, <2>5 DEF CheckTailBefore, tables, sessions, sweepVars
<1>5. ASSUME NEW a \in Attempts, CheckTailAfter(a) PROVE TypeOK'
  <2>1. PICK t \in Nat : req' = [req EXCEPT ![a].range = StreamRange(req[a].tail, t)]
    BY <1>5, TailType DEF CheckTailAfter, Tails
  <2>2. [req[a] EXCEPT !.range = StreamRange(req[a].tail, t)] \in Requests
    BY <1>r, RangeType DEF Requests
  <2>3. req' = [req EXCEPT ![a] = [req[a] EXCEPT !.range = StreamRange(req[a].tail, t)]]
    BY <2>1
  <2>4. req' \in [Attempts -> Requests]
    BY <1>t, <2>2, <2>3
  <2>5. pc' \in [Attempts -> PCs]
    BY <1>5, <1>p, GotoType DEF CheckTailAfter
  <2> QED BY <1>5, <1>t, <1>u, <2>4, <2>5 DEF CheckTailAfter, tables, sessions, sweepVars
<1>6. ASSUME NEW a \in Attempts, SubmitStart(a) PROVE TypeOK'
  <2>1. CASE Submit(a, Start(a), "body") /\ UNCHANGED sessions
    <3>1. pc' \in [Attempts -> PCs] /\ wire' \in [Attempts -> Seq(Seq(Records))]
      BY <1>p, <2>1, SubmitType, RecordTypes
    <3> QED BY <1>6, <1>t, <1>u, <2>1, <3>1 DEF SubmitStart, tables, sessions, sweepVars
  <2>2. CASE ToAbort(a) /\ UNCHANGED wire
    BY <1>6, <1>t, <1>u, <2>2, ToAbortType DEF SubmitStart, tables, sweepVars
  <2> QED BY <1>6, <2>1, <2>2 DEF SubmitStart
<1>7. ASSUME NEW a \in Attempts, SubmitChunk(a) PROVE TypeOK'
  <2>0. Chunk(a, req[a].sent + 1) \in Records
    BY <1>r, RecordTypes
  <2>1. pc' \in [Attempts -> PCs] /\ wire' \in [Attempts -> Seq(Seq(Records))]
    BY <1>7, <1>p, <2>0, SubmitType DEF SubmitChunk
  <2>2. [req[a] EXCEPT !.sent = @ + 1] \in Requests
    BY <1>r DEF Requests
  <2>3. req' = [req EXCEPT ![a] = [req[a] EXCEPT !.sent = @ + 1]]
    BY <1>7 DEF SubmitChunk
  <2>4. req' \in [Attempts -> Requests]
    BY <1>t, <2>2, <2>3
  <2> QED BY <1>7, <1>t, <1>u, <2>1, <2>4 DEF SubmitChunk, tables, sessions, sweepVars
<1>8. ASSUME NEW a \in Attempts, SubmitEnd(a) PROVE TypeOK'
  <2>1. pc' \in [Attempts -> PCs] /\ wire' \in [Attempts -> Seq(Seq(Records))]
    BY <1>8, <1>p, SubmitType, RecordTypes DEF SubmitEnd
  <2> QED BY <1>8, <1>t, <1>u, <2>1 DEF SubmitEnd, tables, sessions, sweepVars
<1>9. ASSUME NEW a \in Attempts, BodyFails(a) PROVE TypeOK'
  <2>1. pc' \in [Attempts -> PCs]
    BY <1>9, <1>p, GotoType DEF BodyFails
  <2> QED BY <1>9, <1>t, <1>u, <2>1 DEF BodyFails, tables, sessions, sweepVars
<1>10. ASSUME NEW a \in Attempts, CloseSession(a) \/ CloseForAbort(a) PROVE TypeOK'
  <2>1. wire' \in [Attempts -> Seq(Seq(Records))]
    BY <1>10, <1>t, <1>w DEF CloseSession, CloseForAbort
  <2>2. /\ pc' \in [Attempts -> PCs]
        /\ session' \in [Attempts -> Sessions] /\ ctx' \in [Attempts -> Contexts]
    <3>1. CASE ToAbort(a)
      BY <3>1, ToAbortType
    <3>2. CASE /\ Goto(a, "tailEnd") /\ UNCHANGED session
               /\ ctx' = [ctx EXCEPT ![a] = IF Ended(a) THEN "ended" ELSE "live"]
      <4>1. pc' \in [Attempts -> PCs]
        BY <1>p, <3>2, GotoType
      <4> QED BY <1>t, <3>2, <4>1 DEF Contexts
    <3> QED BY <1>10, <3>1, <3>2 DEF CloseSession, CloseForAbort
  <2> QED BY <1>10, <1>t, <1>u, <2>1, <2>2 DEF CloseSession, CloseForAbort, tables, sweepVars
<1>11. ASSUME NEW a \in Attempts, DedupComplete(a) \/ AbortDedup(a) PROVE TypeOK'
  <2>1. pc' \in [Attempts -> PCs]
    BY <1>11, <1>p, GotoType DEF DedupComplete, AbortDedup
  <2>2. dedup' \in [Msgs -> DedupRows]
    BY <1>11, <1>t, <1>r, InsertType, RowTypes DEF DedupComplete, AbortDedup
  <2> QED BY <1>11, <1>t, <1>u, <2>1, <2>2 DEF DedupComplete, AbortDedup, sessions, sweepVars
<1>12. ASSUME NEW a \in Attempts, AdvanceHead(a) PROVE TypeOK'
  <2>1. pc' \in [Attempts -> PCs]
    BY <1>12, <1>p, GotoType DEF AdvanceHead
  <2>2. head' \in Nat
    BY <1>12, <1>t, <1>r DEF AdvanceHead, UpdateHead, Ranges
  <2> QED BY <1>12, <1>t, <1>u, <2>1, <2>2 DEF AdvanceHead, sessions, sweepVars
<1>13. ASSUME NEW a \in Attempts, Release(a) \/ AbortRelease(a) PROVE TypeOK'
  <2>1. pc' \in [Attempts -> PCs] /\ req' \in [Attempts -> Requests]
    BY <1>13, <1>a, ReplyType DEF Release, AbortRelease
  <2>2. claims' \in SUBSET Attempts
    BY <1>13, <1>t DEF Release, AbortRelease, DeleteInProgress
  <2> QED BY <1>13, <1>t, <1>u, <2>1, <2>2 DEF Release, AbortRelease, sessions, sweepVars
<1>14. ASSUME NEW a \in Attempts, AbortAppend(a) PROVE TypeOK'
  <2>1. pc' \in [Attempts -> PCs]
    BY <1>14, <1>p, GotoType DEF AbortAppend
  <2>2. log' \in Seq(Records) /\ aborts' \in SUBSET Attempts
    BY <1>14, <1>t, <1>l DEF AbortAppend
  <2> QED BY <1>14, <1>t, <1>u, <2>1, <2>2 DEF AbortAppend, tables, sessions, sweepVars
<1>15. ASSUME NEW a \in Attempts, Land(a) PROVE TypeOK'
  <2>1. wire[a] \in Seq(Seq(Records)) /\ wire[a] # <<>>
    BY <1>15, <1>t DEF Land
  <2>2. Head(wire[a]) \in Seq(Records) /\ Tail(wire[a]) \in Seq(Seq(Records))
    BY <2>1, HeadTailProperties
  <2>3. log \o Head(wire[a]) \in Seq(Records)
    BY <1>t, <2>2, ConcatProperties
  <2>4. log' \in Seq(Records) /\ wire' \in [Attempts -> Seq(Seq(Records))]
    BY <1>15, <1>t, <2>2, <2>3 DEF Land
  <2> QED BY <1>15, <1>t, <1>u, <2>4 DEF Land, tables, sessions, sweepVars
<1>16. ASSUME NEW a \in Attempts, Break(a) \/ Lose(a) \/ LandAbort(a) PROVE TypeOK'
  <2>0. <<>> \in Seq(Seq(Records))
    OBVIOUS
  <2>1. wire' \in [Attempts -> Seq(Seq(Records))]
    BY <1>16, <1>t, <2>0 DEF Break, Lose, LandAbort
  <2>2. log' \in Seq(Records) /\ aborts' \in SUBSET Attempts
    BY <1>16, <1>t, <1>l DEF Break, Lose, LandAbort
  <2>3. session' \in [Attempts -> Sessions]
    BY <1>16, <1>t DEF Break, Lose, LandAbort, Sessions, sessions
  <2> QED BY <1>16, <1>t, <1>u, <2>1, <2>2, <2>3 DEF Break, Lose, LandAbort, tables, sessions, sweepVars
<1>22. ASSUME NEW a \in Attempts, EndRequest(a) \/ CancelWrite(a) PROVE TypeOK'
  <2>1. ctx' \in [Attempts -> Contexts]
    BY <1>22, <1>t DEF EndRequest, CancelWrite, Contexts
  <2> QED BY <1>22, <1>t, <1>u, <2>1 DEF EndRequest, CancelWrite, tables, sweepVars
<1>23. ASSUME NEW a \in Attempts, AbortExpires(a) PROVE TypeOK'
  <2>1. pc' \in [Attempts -> PCs] /\ req' \in [Attempts -> Requests]
    BY <1>23, <1>a, ReplyType DEF AbortExpires
  <2> QED BY <1>23, <1>t, <1>u, <2>1 DEF AbortExpires, tables, sessions, sweepVars
<1>17. ASSUME NEW m \in Msgs, SweepAbort(m) PROVE TypeOK'
  <2>1. Row(m) \subseteq Attempts
    BY <1>t DEF Row
  <2>4. PICK a \in Attempts : log' = log \/ log' = Append(log, Abort(a))
    BY <1>17, <2>1 DEF SweepAbort
  <2>5. log \in Seq(Records) /\ Append(log, Abort(a)) \in Seq(Records)
    BY <1>t, <1>l
  <2>2. log' \in Seq(Records)
    BY <2>4, <2>5
  <2>3. sweep' \in [Msgs -> {"none", "abort", "dedup", "delete"}]
    BY <1>17, <1>t DEF SweepAbort
  <2> QED BY <1>17, <1>t, <1>u, <2>2, <2>3 DEF SweepAbort, tables, sessions
<1>18. ASSUME NEW m \in Msgs, SweepDedup(m) PROVE TypeOK'
  <2>1. dedup' \in [Msgs -> DedupRows]
    BY <1>18, <1>t, InsertType, RowTypes DEF SweepDedup
  <2> QED BY <1>18, <1>t, <1>u, <2>1 DEF SweepDedup, sessions
<1>19. ASSUME NEW m \in Msgs, SweepDelete(m) PROVE TypeOK'
  BY <1>19, <1>t, <1>u DEF SweepDelete, DeleteInProgress, sessions
<1>20. CASE Crash
  <2>1. pc' \in [Attempts -> PCs]
    BY <1>20, <1>t, <1>p DEF Crash
  <2>0. [a \in Attempts |-> <<>>] \in [Attempts -> Seq(Seq(Records))]
    OBVIOUS
  <2>2. wire' \in [Attempts -> Seq(Seq(Records))]
    BY <1>20, <1>t, <2>0 DEF Crash
  <2>3. session' \in [Attempts -> Sessions] /\ ctx' \in [Attempts -> Contexts]
    BY <1>20, <1>t DEF Crash, Sessions, Contexts
  <2> QED BY <1>20, <1>t, <1>u, <2>1, <2>2, <2>3 DEF Crash, tables
<1>21. CASE UNCHANGED vars
  BY <1>21, <1>t, <1>u DEF vars, tables, sessions, sweepVars
<1> QED
  BY <1>1, <1>2, <1>3, <1>4, <1>5, <1>6, <1>7, <1>8, <1>9, <1>10, <1>11, <1>12, <1>13, <1>14,
     <1>15, <1>16, <1>17, <1>18, <1>19, <1>20, <1>21, <1>22, <1>23 DEF Next, Handler, Body, Sweep

(***************************************************************************)
(* The claim                                                               *)
(***************************************************************************)

(* What makes ClaimExclusive inductive: while the sweep runs no request is past *)
(* the gate, not even one that has yet to claim.                                *)
QuietSweep == ~Serving => \A a \in Attempts : pc[a] \in {"idle", "done", "dead"}

ClaimInv == ClaimExclusive /\ QuietSweep

(* What a step of a handler that neither claims nor releases does to the claims. *)
LEMMA MoveKeepsClaim ==
  ASSUME TypeOK, ClaimInv, NEW a \in Attempts, Writing(a),
         UNCHANGED <<claims, sweep>>,
         \A b \in Attempts : req'[b].msg = req[b].msg,
         \E x \in WritePCs : Goto(a, x)
  PROVE  ClaimInv'
<1>1. \A b \in Attempts : Writing(b)' <=> Writing(b)
  BY DEF TypeOK, Writing, Goto
<1>2. Serving'
  BY DEF ClaimInv, ClaimExclusive, Serving
<1> QED BY <1>1, <1>2 DEF ClaimInv, ClaimExclusive, QuietSweep, TypeOK

(* A handler that leaves its write path takes its own row with it, or leaves it there. *)
LEMMA LeaveKeepsClaim ==
  ASSUME TypeOK, ClaimInv, NEW a \in Attempts, UNCHANGED sweep,
         claims' \in {claims, claims \ Row(req[a].msg)}, Writing(a),
         \A b \in Attempts : req'[b].msg = req[b].msg,
         pc' = [pc EXCEPT ![a] = "done"]
  PROVE  ClaimInv'
<1>1. \A b \in Attempts : Writing(b)' => Writing(b) /\ b # a
  BY DEF TypeOK, Writing, WritePCs
<1>2. \A b \in Attempts : Writing(b)' => b \in claims'
  <2> SUFFICES ASSUME NEW b \in Attempts, Writing(b)' PROVE b \in claims'
    OBVIOUS
  <2>1. b \in claims /\ a \in claims /\ b # a
    BY <1>1 DEF ClaimInv, ClaimExclusive
  <2>2. req[a].msg # req[b].msg
    BY <2>1 DEF ClaimInv, ClaimExclusive
  <2> QED BY <2>1, <2>2 DEF Row
<1>3. \A b, c \in claims' : req'[b].msg = req'[c].msg => b = c
  BY DEF ClaimInv, ClaimExclusive, TypeOK
<1>4. Serving'
  BY DEF ClaimInv, ClaimExclusive, Serving
<1> QED BY <1>2, <1>3, <1>4 DEF ClaimInv, ClaimExclusive, QuietSweep

(* Reply changes nothing of a request but its answer. *)
LEMMA ReplyKeepsMsg ==
  ASSUME TypeOK, NEW a \in Attempts, NEW x, Reply(a, x)
  PROVE  /\ \A b \in Attempts : req'[b].msg = req[b].msg
         /\ pc' = [pc EXCEPT ![a] = "done"]
  BY DEF TypeOK, Reply, Requests

(* Nor does any other assignment to a request touch its message_id. *)
LEMMA EditKeepsMsg ==
  ASSUME TypeOK, NEW a \in Attempts
  PROVE  /\ \A k : req' = [req EXCEPT ![a].kind = k] => \A b \in Attempts : req'[b].msg = req[b].msg
         /\ \A k : req' = [req EXCEPT ![a].sent = k] => \A b \in Attempts : req'[b].msg = req[b].msg
         /\ \A k : req' = [req EXCEPT ![a].tail = k] => \A b \in Attempts : req'[b].msg = req[b].msg
         /\ \A k : req' = [req EXCEPT ![a].range = k] => \A b \in Attempts : req'[b].msg = req[b].msg
         /\ \A k, l : req' = [req EXCEPT ![a].sent = k, ![a].range = l]
                       => \A b \in Attempts : req'[b].msg = req[b].msg
<1>1. \A k : req' = [req EXCEPT ![a].kind = k] => \A b \in Attempts : req'[b].msg = req[b].msg
  BY DEF TypeOK, Requests
<1>2. \A k : req' = [req EXCEPT ![a].sent = k] => \A b \in Attempts : req'[b].msg = req[b].msg
  BY DEF TypeOK, Requests
<1>3. \A k : req' = [req EXCEPT ![a].tail = k] => \A b \in Attempts : req'[b].msg = req[b].msg
  BY DEF TypeOK, Requests
<1>4. \A k : req' = [req EXCEPT ![a].range = k] => \A b \in Attempts : req'[b].msg = req[b].msg
  BY DEF TypeOK, Requests
<1>5. \A k, l : req' = [req EXCEPT ![a].sent = k, ![a].range = l]
                => \A b \in Attempts : req'[b].msg = req[b].msg
  BY DEF TypeOK, Requests
<1> QED BY <1>1, <1>2, <1>3, <1>4, <1>5

(* A step that moves no handler and adds no row, while the sweep has not just started. *)
LEMMA QuietKeepsClaim ==
  ASSUME TypeOK, ClaimInv, claims' \subseteq claims, UNCHANGED <<pc, req>>,
         ~Serving \/ UNCHANGED <<claims, sweep>>
  PROVE  ClaimInv'
<1>1. CASE UNCHANGED <<claims, sweep>>
  BY <1>1 DEF ClaimInv, ClaimExclusive, QuietSweep, Serving, Writing
<1>2. CASE ~Serving
  <2>1. \A a \in Attempts : pc[a] \in {"idle", "done", "dead"} /\ ~Writing(a)
    BY <1>2 DEF ClaimInv, QuietSweep, Writing, WritePCs
  <2> QED BY <2>1 DEF ClaimInv, ClaimExclusive, QuietSweep, Writing
<1> QED BY <1>1, <1>2

(* Exclusion survives every step. *)
LEMMA ClaimStep == TypeOK /\ ClaimInv /\ [Next]_vars => ClaimInv'
<1> SUFFICES ASSUME TypeOK, ClaimInv, [Next]_vars PROVE ClaimInv'
  OBVIOUS
<1>0. WritePCs = {"append", "tail", "open", "body", "close", "closeAbort", "tailEnd", "dedup",
                  "head", "release", "abortAppend", "abortDedup", "abortRelease"}
  BY DEF WritePCs
<1>s. UNCHANGED sweep => (Serving' <=> Serving)
  BY DEF Serving
<1>1. ASSUME NEW a \in Attempts, NEW k \in {"send", "stream"}, Gate(a, k) PROVE ClaimInv'
  <2>1. \A b \in Attempts : req'[b].msg = req[b].msg
    BY <1>1, ReplyKeepsMsg, EditKeepsMsg DEF Gate
  <2>2. pc' = [pc EXCEPT ![a] = "claim"] \/ pc' = [pc EXCEPT ![a] = "done"]
    BY <1>1 DEF Gate, Reply
  <2>3. \A b \in Attempts : Writing(b)' => Writing(b)
    BY <1>0, <2>2 DEF Writing, TypeOK
  <2>4. Serving' /\ claims' = claims
    BY <1>1, <1>s DEF Gate, tables, sessions, sweepVars
  <2> QED BY <2>1, <2>3, <2>4 DEF ClaimInv, ClaimExclusive, QuietSweep, TypeOK
<1>2. ASSUME NEW a \in Attempts, Claim(a) PROVE ClaimInv'
  <2>1. \A b \in Attempts : req'[b].msg = req[b].msg
    BY <1>2, ReplyKeepsMsg DEF Claim
  <2>2. \A b \in Attempts : b # a => (Writing(b)' <=> Writing(b))
    BY <1>2 DEF Claim, Writing, TypeOK, Goto, Reply
  <2>3. Writing(a)' => claims' = claims \cup {a}
    BY <1>2, <1>0 DEF Claim, Writing, TypeOK, Goto, Reply
  <2>4. claims' \in {claims, claims \cup {a}} /\ (claims' # claims => Row(req[a].msg) = {})
    BY <1>2 DEF Claim
  <2>5. \A b, c \in claims' : req'[b].msg = req'[c].msg => b = c
    BY <2>1, <2>4 DEF ClaimInv, ClaimExclusive, Row, TypeOK
  <2>6. Serving'
    BY <1>2, <1>s DEF Claim, sessions, sweepVars, ClaimInv, QuietSweep
  <2>7. \A b \in Attempts : Writing(b)' => b \in claims'
    BY <2>2, <2>3, <2>4 DEF ClaimInv, ClaimExclusive
  <2> QED BY <2>5, <2>6, <2>7 DEF ClaimInv, ClaimExclusive, QuietSweep
<1>3. ASSUME NEW a \in Attempts, AppendComplete(a) \/ CheckTailBefore(a) \/ CheckTailAfter(a)
      PROVE  ClaimInv'
  <2>1. \A b \in Attempts : req'[b].msg = req[b].msg
    BY <1>3, EditKeepsMsg DEF AppendComplete, CheckTailBefore, CheckTailAfter
  <2>2. Writing(a) /\ UNCHANGED <<claims, sweep>>
    BY <1>3, <1>0 DEF AppendComplete, CheckTailBefore, CheckTailAfter, Writing, tables, sessions, sweepVars
  <2>3. \E x \in WritePCs : Goto(a, x)
    BY <1>3, <1>0 DEF AppendComplete, CheckTailBefore, CheckTailAfter
  <2> QED BY <2>1, <2>2, <2>3, MoveKeepsClaim
<1>4. ASSUME NEW a \in Attempts, SubmitStart(a) \/ SubmitChunk(a) \/ SubmitEnd(a)
      PROVE  ClaimInv'
  <2>1. \A b \in Attempts : req'[b].msg = req[b].msg
    BY <1>4, EditKeepsMsg DEF SubmitStart, SubmitChunk, SubmitEnd
  <2>2. Writing(a) /\ UNCHANGED <<claims, sweep>>
    BY <1>4, <1>0 DEF SubmitStart, SubmitChunk, SubmitEnd, Writing, tables, sessions, sweepVars
  <2>3. \E x \in WritePCs : Goto(a, x)
    BY <1>4, <1>0 DEF SubmitStart, SubmitChunk, SubmitEnd, Submit, ToAbort
  <2> QED BY <2>1, <2>2, <2>3, MoveKeepsClaim
<1>5. ASSUME NEW a \in Attempts,
             \/ BodyFails(a) \/ CloseSession(a) \/ CloseForAbort(a) \/ DedupComplete(a)
             \/ AdvanceHead(a) \/ AbortAppend(a) \/ AbortDedup(a)
      PROVE  ClaimInv'
  <2>1. Writing(a) /\ UNCHANGED <<claims, sweep, req>>
    BY <1>5, <1>0 DEF BodyFails, CloseSession, CloseForAbort, DedupComplete, AdvanceHead,
                      AbortAppend, AbortDedup, Writing, tables, sessions, sweepVars
  <2>2. \E x \in WritePCs : Goto(a, x)
    BY <1>5, <1>0 DEF BodyFails, CloseSession, CloseForAbort, DedupComplete, AdvanceHead,
                      AbortAppend, AbortDedup, ToAbort
  <2> QED BY <2>1, <2>2, MoveKeepsClaim
<1>6. ASSUME NEW a \in Attempts, Release(a) \/ AbortRelease(a) \/ AbortExpires(a) PROVE ClaimInv'
  <2>1. \A b \in Attempts : req'[b].msg = req[b].msg
    BY <1>6, ReplyKeepsMsg DEF Release, AbortRelease, AbortExpires
  <2>2. pc' = [pc EXCEPT ![a] = "done"]
    BY <1>6 DEF Release, AbortRelease, AbortExpires, Reply
  <2>3. Writing(a) /\ UNCHANGED sweep /\ claims' \in {claims, claims \ Row(req[a].msg)}
    BY <1>6, <1>0 DEF Release, AbortRelease, AbortExpires, Writing, tables, sweepVars, DeleteInProgress
  <2> QED BY <2>1, <2>2, <2>3, LeaveKeepsClaim
<1>7. ASSUME NEW a \in Attempts,
             Land(a) \/ Break(a) \/ Lose(a) \/ LandAbort(a) \/ EndRequest(a) \/ CancelWrite(a)
      PROVE  ClaimInv'
  <2>1. UNCHANGED <<claims, sweep, pc, req>>
    BY <1>7 DEF Land, Break, Lose, LandAbort, EndRequest, CancelWrite, tables, sweepVars
  <2> QED BY <2>1, QuietKeepsClaim
<1>8. ASSUME NEW m \in Msgs, Sweep(m) PROVE ClaimInv'
  <2>1. ~Serving
    BY <1>8 DEF Sweep, SweepAbort, SweepDedup, SweepDelete, Serving
  <2>2. UNCHANGED <<pc, req>> /\ claims' \subseteq claims
    BY <1>8 DEF Sweep, SweepAbort, SweepDedup, SweepDelete, DeleteInProgress, tables
  <2> QED BY <2>1, <2>2, QuietKeepsClaim
<1>9. CASE Crash
  <2>1. \A a \in Attempts : pc'[a] \in {"idle", "done", "dead"} /\ ~Writing(a)'
    BY <1>9, <1>0 DEF Crash, Writing
  <2>2. UNCHANGED <<claims, req>>
    BY <1>9 DEF Crash, tables
  <2> QED BY <2>1, <2>2 DEF ClaimInv, ClaimExclusive, QuietSweep
<1>10. CASE UNCHANGED vars
  <2>1. UNCHANGED <<claims, sweep, pc, req>>
    BY <1>10 DEF vars, tables, sweepVars
  <2> QED BY <2>1, QuietKeepsClaim
<1> QED
  BY <1>1, <1>2, <1>3, <1>4, <1>5, <1>6, <1>7, <1>8, <1>9, <1>10 DEF Next, Handler, Body

(***************************************************************************)
(* Theorems                                                                *)
(***************************************************************************)

(* Initially there is no writer, no row and no sweep. *)
LEMMA InitOK == Init => TypeOK /\ ClaimInv
<1> SUFFICES ASSUME Init PROVE TypeOK /\ ClaimInv
  OBVIOUS
<1>1. \A m \in Msgs : NoReq(m) \in Requests
  BY DEF NoReq, Requests, Ranges, Answers
<1>2. req \in [Attempts -> Requests]
  BY <1>1 DEF Init
<1>3. <<>> \in Seq(Records) /\ [a \in Attempts |-> <<>>] \in [Attempts -> Seq(Seq(Records))]
  OBVIOUS
<1>4. TypeOK
  BY <1>2, <1>3, RowTypes DEF Init, TypeOK
<1>5. Serving /\ claims = {} /\ \A a \in Attempts : ~Writing(a)
  BY DEF Init, Serving, Writing, WritePCs
<1> QED BY <1>4, <1>5 DEF ClaimInv, ClaimExclusive, QuietSweep

(* The inductive invariant of the write path. *)
LEMMA InvariantHolds == Spec => [](TypeOK /\ ClaimInv)
<1>1. TypeOK /\ ClaimInv /\ [Next]_vars => (TypeOK /\ ClaimInv)'
  BY TypeStep, ClaimStep
<1> QED BY <1>1, InitOK, PTL DEF Spec

(* The stream, the two tables and every request keep their types, the ranges that *)
(* StreamMessage computes from two tails included.                                *)
THEOREM TypeCorrect == Spec => []TypeOK
  BY InvariantHolds, PTL

(* Whatever fails, and through crashes: a message_id has at most one row, a handler *)
(* that writes holds it, and the sweep of a restarted server meets no writer.       *)
THEOREM OneWriterPerMessage == Spec => []ClaimExclusive
<1>1. ClaimInv => ClaimExclusive
  BY DEF ClaimInv
<1> QED BY <1>1, InvariantHolds, PTL

(* No step replaces a recorded outcome: every insert is ON CONFLICT DO NOTHING. *)
LEMMA OutcomeStep ==
  ASSUME TypeOK, [Next]_vars
  PROVE  \A m \in Msgs : dedup[m].status # "none" => dedup'[m] = dedup[m]
<1>1. \/ UNCHANGED dedup
      \/ \E m \in Msgs, row \in DedupRows : InsertDedup(m, row)
  <2>1. ASSUME NEW a \in Attempts, DedupComplete(a) \/ AbortDedup(a)
        PROVE  \/ UNCHANGED dedup
               \/ \E m \in Msgs, row \in DedupRows : InsertDedup(m, row)
    <3>1. req[a].msg \in Msgs /\ req[a].range \in Ranges
      BY DEF TypeOK, Requests
    <3> QED BY <2>1, <3>1, RowTypes DEF DedupComplete, AbortDedup
  <2>2. ASSUME NEW m \in Msgs, SweepDedup(m)
        PROVE  \/ UNCHANGED dedup
               \/ \E n \in Msgs, row \in DedupRows : InsertDedup(n, row)
    BY <2>2, RowTypes DEF SweepDedup
  <2>3. ASSUME NEW a \in Attempts,
               \/ Gate(a, "send") \/ Gate(a, "stream") \/ Claim(a)
               \/ AppendComplete(a) \/ CheckTailBefore(a) \/ CheckTailAfter(a)
               \/ SubmitStart(a) \/ SubmitChunk(a) \/ SubmitEnd(a) \/ BodyFails(a)
        PROVE  UNCHANGED dedup
    BY <2>3 DEF Gate, Claim, AppendComplete, CheckTailBefore, CheckTailAfter, SubmitStart,
                SubmitChunk, SubmitEnd, BodyFails, tables
  <2>4. ASSUME NEW a \in Attempts,
               \/ CloseSession(a) \/ CloseForAbort(a) \/ AdvanceHead(a) \/ Release(a)
               \/ AbortAppend(a) \/ AbortRelease(a) \/ AbortExpires(a)
               \/ Land(a) \/ Break(a) \/ Lose(a) \/ LandAbort(a) \/ EndRequest(a) \/ CancelWrite(a)
        PROVE  UNCHANGED dedup
    BY <2>4 DEF CloseSession, CloseForAbort, AdvanceHead, Release, AbortAppend, AbortRelease, AbortExpires,
                Land, Break, Lose, LandAbort, EndRequest, CancelWrite, tables
  <2>5. ASSUME NEW m \in Msgs, SweepAbort(m) \/ SweepDelete(m) PROVE UNCHANGED dedup
    BY <2>5 DEF SweepAbort, SweepDelete, tables
  <2>6. Crash \/ UNCHANGED vars => UNCHANGED dedup
    BY DEF Crash, vars, tables
  <2> QED BY <2>1, <2>2, <2>3, <2>4, <2>5, <2>6 DEF Next, Handler, Body, Sweep
<1> QED BY <1>1 DEF InsertDedup, TypeOK

(* The first outcome recorded for a message_id is the one every later retry is given, *)
(* whichever of its attempts, or the sweep, recorded it.                               *)
THEOREM OutcomeNeverReplaced == Spec => OutcomeFinal
<1>1. TypeOK /\ [Next]_vars
        => [\A m \in Msgs : dedup[m].status # "none" => dedup'[m] = dedup[m]]_vars
  BY OutcomeStep
<1> QED BY <1>1, TypeCorrect, PTL DEF Spec, OutcomeFinal

(***************************************************************************)
(* How the stream grows                                                    *)
(***************************************************************************)

(* What a handler hands to S2 is of its own making, and never empty. *)
Batches(a) == {<<Start(a)>>, <<End(a)>>, CompleteBatch(a)} \cup {<<Chunk(a, n)>> : n \in Nat}
OwnBatches == \A a \in Attempts : wire[a] \in Seq(Batches(a))

(* No step changes what message a request is about. *)
LEMMA MsgStep ==
  ASSUME TypeOK, [Next]_vars
  PROVE  \A b \in Attempts : req'[b].msg = req[b].msg
<1>1. ASSUME NEW a \in Attempts, \/ Gate(a, "send") \/ Gate(a, "stream") \/ Claim(a)
                                \/ Release(a) \/ AbortRelease(a) \/ AbortExpires(a)
      PROVE  \A b \in Attempts : req'[b].msg = req[b].msg
  BY <1>1, ReplyKeepsMsg, EditKeepsMsg DEF Gate, Claim, Release, AbortRelease, AbortExpires
<1>2. ASSUME NEW a \in Attempts,
             AppendComplete(a) \/ CheckTailBefore(a) \/ CheckTailAfter(a) \/ SubmitChunk(a)
      PROVE  \A b \in Attempts : req'[b].msg = req[b].msg
  BY <1>2, EditKeepsMsg DEF AppendComplete, CheckTailBefore, CheckTailAfter, SubmitChunk
<1>3. ASSUME NEW a \in Attempts,
             \/ SubmitStart(a) \/ SubmitEnd(a) \/ BodyFails(a) \/ CloseSession(a) \/ CloseForAbort(a)
             \/ DedupComplete(a) \/ AdvanceHead(a) \/ AbortAppend(a) \/ AbortDedup(a)
             \/ Land(a) \/ Break(a) \/ Lose(a) \/ LandAbort(a) \/ EndRequest(a) \/ CancelWrite(a)
      PROVE  UNCHANGED req
  BY <1>3 DEF SubmitStart, SubmitEnd, BodyFails, CloseSession, CloseForAbort, DedupComplete,
              AdvanceHead, AbortAppend, AbortDedup, Land, Break, Lose, LandAbort, EndRequest, CancelWrite
<1>4. ASSUME NEW m \in Msgs, Sweep(m) PROVE UNCHANGED req
  BY <1>4 DEF Sweep, SweepAbort, SweepDedup, SweepDelete
<1>5. Crash \/ UNCHANGED vars => UNCHANGED req
  BY DEF Crash, vars
<1> QED BY <1>1, <1>2, <1>3, <1>4, <1>5 DEF Next, Handler, Body

(* The calls that fail with batches in flight. *)
Lost(a) == \/ Lose(a) \/ AppendComplete(a)
           \/ "s2" \in Faults /\ Break(a)
           \/ ("s2" \in Faults \/ Cut(a)) /\ (CloseSession(a) \/ CloseForAbort(a)) /\ pc'[a] = "abortAppend"

(* What becomes of the batches of a request in a step. *)
LEMMA WireStep ==
  ASSUME TypeOK, [Next]_vars, NEW a \in Attempts
  PROVE  \/ wire'[a] = wire[a]
         \/ wire'[a] = <<>> /\ (Lost(a) \/ Crash)
         \/ Land(a) /\ wire'[a] = Tail(wire[a])
         \/ AppendComplete(a) /\ wire'[a] = <<CompleteBatch(a)>>
         \/ SubmitStart(a) /\ wire'[a] = Append(wire[a], <<Start(a)>>)
         \/ SubmitChunk(a) /\ wire'[a] = Append(wire[a], <<Chunk(a, req[a].sent + 1)>>)
         \/ SubmitEnd(a) /\ wire'[a] = Append(wire[a], <<End(a)>>)
<1> USE DEF TypeOK
<1>1. ASSUME NEW b \in Attempts,
             \/ Gate(b, "send") \/ Gate(b, "stream") \/ Claim(b) \/ CheckTailBefore(b)
             \/ CheckTailAfter(b) \/ BodyFails(b) \/ DedupComplete(b) \/ AdvanceHead(b) \/ Release(b)
             \/ AbortAppend(b) \/ AbortDedup(b) \/ AbortRelease(b) \/ AbortExpires(b) \/ LandAbort(b)
             \/ EndRequest(b) \/ CancelWrite(b)
      PROVE  UNCHANGED wire
  BY <1>1 DEF Gate, Claim, CheckTailBefore, CheckTailAfter, BodyFails, DedupComplete, AdvanceHead,
              Release, AbortAppend, AbortDedup, AbortRelease, AbortExpires, LandAbort, EndRequest,
              CancelWrite
<1>2. ASSUME NEW m \in Msgs, Sweep(m) PROVE UNCHANGED wire
  BY <1>2 DEF Sweep, SweepAbort, SweepDedup, SweepDelete
<1>3. ASSUME NEW b \in Attempts, CloseSession(b) \/ CloseForAbort(b) \/ Break(b) \/ Lose(b)
      PROVE  wire'[a] = wire[a] \/ (wire'[a] = <<>> /\ Lost(a))
  <2>1. CASE CloseSession(b) \/ CloseForAbort(b)
    <3>1. \/ wire'[a] = wire[a]
          \/ a = b /\ wire'[a] = <<>> /\ ("s2" \in Faults \/ Cut(a)) /\ pc'[a] = "abortAppend"
      BY <2>1 DEF CloseSession, CloseForAbort, Abandon, ToAbort, Goto
    <3> QED BY <2>1, <3>1 DEF Lost
  <2>2. CASE Break(b) \/ Lose(b)
    <3>1. wire'[a] = wire[a] \/ (a = b /\ wire'[a] = <<>>)
      BY <2>2 DEF Break, Lose
    <3>2. Break(b) => "s2" \in Faults
      BY DEF Break
    <3> QED BY <2>2, <3>1, <3>2 DEF Lost
  <2> QED BY <1>3, <2>1, <2>2
<1>4. ASSUME NEW b \in Attempts, Land(b) PROVE IF a = b THEN wire'[a] = Tail(wire[a]) ELSE wire'[a] = wire[a]
  BY <1>4 DEF Land
<1>5. ASSUME NEW b \in Attempts, AppendComplete(b)
      PROVE  \/ wire'[a] = wire[a] \/ (wire'[a] = <<>> /\ Lost(a))
             \/ a = b /\ wire'[a] = <<CompleteBatch(a)>>
  <2>1. \/ wire'[a] = wire[a] \/ (a = b /\ wire'[a] = <<>>)
        \/ a = b /\ wire'[a] = <<CompleteBatch(a)>>
    BY <1>5 DEF AppendComplete, Abandon
  <2> QED BY <1>5, <2>1 DEF Lost
<1>6. ASSUME NEW b \in Attempts, SubmitStart(b)
      PROVE  wire'[a] = wire[a] \/ (a = b /\ wire'[a] = Append(wire[a], <<Start(a)>>))
  BY <1>6 DEF SubmitStart, Submit
<1>7. ASSUME NEW b \in Attempts, SubmitChunk(b)
      PROVE  wire'[a] = wire[a] \/ (a = b /\ wire'[a] = Append(wire[a], <<Chunk(a, req[a].sent + 1)>>))
  BY <1>7 DEF SubmitChunk, Submit
<1>8. ASSUME NEW b \in Attempts, SubmitEnd(b)
      PROVE  wire'[a] = wire[a] \/ (a = b /\ wire'[a] = Append(wire[a], <<End(a)>>))
  BY <1>8 DEF SubmitEnd, Submit
<1>9. Crash \/ UNCHANGED vars => wire'[a] = wire[a] \/ (wire'[a] = <<>> /\ Crash)
  BY DEF Crash, vars
<1> QED BY <1>1, <1>2, <1>3, <1>4, <1>5, <1>6, <1>7, <1>8, <1>9 DEF Next, Handler, Body

(* What a record of a request may be. *)
OwnRecords(a) == {Start(a), End(a), Abort(a)} \cup {Chunk(a, n) : n \in Nat}

(* A batch is a short sequence of records of its request. *)
LEMMA BatchFacts ==
  ASSUME NEW a \in Attempts, NEW s \in Batches(a) \cup {<<Abort(a)>>}
  PROVE  /\ s \in Seq(Records) /\ Len(s) >= 1
         /\ \A i \in 1 .. Len(s) : s[i] \in OwnRecords(a) /\ s[i].by = a
<1>0. \A r \in OwnRecords(a) : r.by = a /\ r \in Records
  <2>1. /\ Start(a).by = a /\ End(a).by = a /\ Abort(a).by = a
        /\ \A n \in Nat : Chunk(a, n).by = a
    BY DEF Start, Chunk, End, Abort, Record
  <2> QED BY <2>1, RecordTypes DEF OwnRecords
<1>1. CASE s = CompleteBatch(a)
  <2>1. s = <<Start(a), Chunk(a, 1), End(a)>>
    BY <1>1 DEF CompleteBatch
  <2>2. {Start(a), Chunk(a, 1), End(a)} \subseteq OwnRecords(a)
    BY DEF OwnRecords
  <2>3. /\ Len(s) = 3 /\ s \in Seq(Records)
        /\ \A i \in 1 .. Len(s) : s[i] \in {Start(a), Chunk(a, 1), End(a)}
    BY <1>0, <2>1, <2>2
  <2> QED BY <1>0, <2>2, <2>3
<1>2. CASE \E r \in OwnRecords(a) : s = <<r>>
  <2>1. PICK r \in OwnRecords(a) : s = <<r>>
    BY <1>2
  <2>2. <<r>> \in Seq(Records) /\ Len(<<r>>) = 1 /\ \A i \in 1 .. 1 : <<r>>[i] = r
    BY <1>0
  <2> QED BY <1>0, <2>1, <2>2
<1> QED BY <1>1, <1>2 DEF Batches, OwnRecords

(* Every batch handed over is its request's own. *)
LEMMA OwnBatchesStep == TypeOK /\ OwnBatches /\ [Next]_vars => OwnBatches'
<1> SUFFICES ASSUME TypeOK, OwnBatches, [Next]_vars, NEW a \in Attempts
             PROVE  wire'[a] \in Seq(Batches(a))
  BY DEF OwnBatches
<1>1. wire[a] \in Seq(Batches(a))
  BY DEF OwnBatches
<1>2. CASE wire'[a] \in {wire[a], <<>>}
  <2>1. <<>> \in Seq(Batches(a))
    BY EmptySeq
  <2> QED BY <1>1, <1>2, <2>1
<1>3. CASE Land(a) /\ wire'[a] = Tail(wire[a])
  BY <1>1, <1>3, HeadTailProperties DEF Land
<1>4. CASE \E b \in Batches(a) : wire'[a] = Append(wire[a], b)
  BY <1>1, <1>4, AppendProperties
<1>5. CASE wire'[a] = <<CompleteBatch(a)>>
  <2>1. CompleteBatch(a) \in Batches(a)
    BY DEF Batches
  <2> QED BY <1>5, <2>1
<1>6. <<Start(a)>> \in Batches(a) /\ <<Chunk(a, req[a].sent + 1)>> \in Batches(a) /\ <<End(a)>> \in Batches(a)
  <2>1. req[a].sent + 1 \in Nat
    BY DEF TypeOK, Requests
  <2> QED BY <2>1 DEF Batches
<1> QED BY <1>2, <1>3, <1>4, <1>5, <1>6, WireStep

(* The steps that append to the stream, and what. *)
Appends(b, s) ==
    \/ AppendComplete(b) /\ s = CompleteBatch(b)
    \/ Land(b) /\ s = Head(wire[b])
    \/ (AbortAppend(b) \/ LandAbort(b) \/ \E m \in Msgs : SweepAbort(m) /\ b \in Row(m)) /\ s = <<Abort(b)>>

(* The stream only changes by one of them. *)
LEMMA LogStep ==
  ASSUME TypeOK, OwnBatches, [Next]_vars
  PROVE  \/ log' = log
         \/ \E b \in Attempts : \E s \in Batches(b) \cup {<<Abort(b)>>} : Appends(b, s) /\ log' = log \o s
<1>a. \A b \in Attempts : Append(log, Abort(b)) = log \o <<Abort(b)>>
  BY AppendIsConcat, RecordTypes DEF TypeOK
<1>1. ASSUME NEW b \in Attempts,
             \/ Gate(b, "send") \/ Gate(b, "stream") \/ Claim(b) \/ CheckTailBefore(b) \/ CheckTailAfter(b)
             \/ SubmitStart(b) \/ SubmitChunk(b) \/ SubmitEnd(b) \/ BodyFails(b) \/ CloseSession(b)
             \/ CloseForAbort(b) \/ DedupComplete(b) \/ AdvanceHead(b) \/ Release(b)
             \/ AbortDedup(b) \/ AbortRelease(b) \/ AbortExpires(b) \/ Break(b) \/ Lose(b)
             \/ EndRequest(b) \/ CancelWrite(b)
      PROVE  UNCHANGED log
  BY <1>1 DEF Gate, Claim, CheckTailBefore, CheckTailAfter, SubmitStart, SubmitChunk, SubmitEnd, BodyFails,
              CloseSession, CloseForAbort, DedupComplete, AdvanceHead, Release, AbortDedup, AbortRelease,
              AbortExpires, Break, Lose, EndRequest, CancelWrite
<1>2. ASSUME NEW b \in Attempts, AbortAppend(b) \/ LandAbort(b)
      PROVE  log' = log \/ (Appends(b, <<Abort(b)>>) /\ log' = log \o <<Abort(b)>>)
  BY <1>a, <1>2 DEF AbortAppend, LandAbort, Appends
<1>3. ASSUME NEW b \in Attempts, AppendComplete(b)
      PROVE  log' = log \/ (Appends(b, CompleteBatch(b)) /\ log' = log \o CompleteBatch(b))
  BY <1>3 DEF AppendComplete, Appends
<1>4. ASSUME NEW b \in Attempts, Land(b)
      PROVE  \E s \in Batches(b) : Appends(b, s) /\ log' = log \o s
  <2>1. wire[b] \in Seq(Batches(b)) /\ wire[b] # <<>>
    BY <1>4 DEF OwnBatches, Land
  <2>2. Head(wire[b]) \in Batches(b)
    BY <2>1, HeadTailProperties
  <2> QED BY <1>4, <2>2 DEF Land, Appends
<1>5. ASSUME NEW m \in Msgs, SweepAbort(m)
      PROVE  log' = log \/ \E b \in Attempts : Appends(b, <<Abort(b)>>) /\ log' = log \o <<Abort(b)>>
  BY <1>5, <1>a DEF SweepAbort, Appends, Row, TypeOK
<1>6. ASSUME NEW m \in Msgs, SweepDedup(m) \/ SweepDelete(m) PROVE UNCHANGED log
  BY <1>6 DEF SweepDedup, SweepDelete
<1>7. Crash \/ UNCHANGED vars => UNCHANGED log
  BY DEF Crash, vars
<1>8. \A b \in Attempts : CompleteBatch(b) \in Batches(b)
  BY DEF Batches
<1> QED BY <1>1, <1>2, <1>3, <1>4, <1>5, <1>6, <1>7, <1>8 DEF Next, Handler, Body, Sweep

(* Appending leaves what is on the stream where it is; what is new is of one request. *)
LEMMA Appended ==
  ASSUME TypeOK, NEW b \in Attempts, NEW s \in Batches(b) \cup {<<Abort(b)>>}, log' = log \o s
  PROVE  /\ Len(log) \in Nat /\ Len(log') \in Nat /\ Len(log') = Len(log) + Len(s) /\ Len(s) >= 1
         /\ \A i \in 1 .. Len(log) : log'[i] = log[i]
         /\ \A i \in Len(log) + 1 .. Len(log') :
              log'[i] = s[i - Len(log)] /\ log'[i].by = b /\ log'[i] \in OwnRecords(b)
<1>1. log \in Seq(Records) /\ s \in Seq(Records)
  BY BatchFacts DEF TypeOK
<1>2. Len(log) \in Nat /\ Len(s) \in Nat
  BY <1>1, LenProperties
<1>3. /\ Len(log') = Len(log) + Len(s)
      /\ \A i \in 1 .. Len(log) + Len(s) : log'[i] = IF i <= Len(log) THEN log[i] ELSE s[i - Len(log)]
  BY <1>1, ConcatProperties
<1>4. \A i \in Len(log) + 1 .. Len(log') :
        log'[i] = s[i - Len(log)] /\ i - Len(log) \in 1 .. Len(s)
  BY <1>2, <1>3
<1>5. \A i \in 1 .. Len(log) : log'[i] = log[i]
  BY <1>2, <1>3
<1> QED BY <1>2, <1>3, <1>4, <1>5, BatchFacts

(* Nothing on the stream is ever changed. *)
LEMMA LogKept ==
  ASSUME TypeOK, OwnBatches, [Next]_vars
  PROVE  /\ Len(log) \in Nat /\ Len(log') \in Nat /\ Len(log) <= Len(log')
         /\ \A i \in 1 .. Len(log) : i \in 1 .. Len(log') /\ log'[i] = log[i]
         /\ \A i \in 1 .. Len(log') : i \in 1 .. Len(log) \/ i \in Len(log) + 1 .. Len(log')
<1>1. Len(log) \in Nat
  BY LenProperties DEF TypeOK
<1>2. Len(log') \in Nat /\ Len(log) <= Len(log') /\ \A i \in 1 .. Len(log) : log'[i] = log[i]
  BY <1>1, LogStep, Appended
<1> QED BY <1>1, <1>2

(* A request is moved by its own handler and by a crash only. *)
LEMMA Elsewhere ==
  ASSUME TypeOK, [Next]_vars, NEW a \in Attempts
  PROVE  \/ pc'[a] = pc[a] /\ req'[a] = req[a]
         \/ Gate(a, "send") \/ Gate(a, "stream") \/ Handler(a) \/ Body(a)
         \/ Crash /\ pc'[a] = "dead" /\ req'[a] = req[a]
<1> USE DEF TypeOK
<1>1. ASSUME NEW b \in Attempts \ {a}, \/ Gate(b, "send") \/ Gate(b, "stream") \/ Claim(b)
                                        \/ Release(b) \/ AbortRelease(b) \/ AbortExpires(b)
      PROVE  pc'[a] = pc[a] /\ req'[a] = req[a]
  BY <1>1 DEF Gate, Claim, Release, AbortRelease, AbortExpires, Goto, Reply
<1>2. ASSUME NEW b \in Attempts \ {a},
             AppendComplete(b) \/ CheckTailBefore(b) \/ CheckTailAfter(b) \/ SubmitChunk(b)
      PROVE  pc'[a] = pc[a] /\ req'[a] = req[a]
  BY <1>2 DEF AppendComplete, CheckTailBefore, CheckTailAfter, SubmitChunk, Submit, Goto
<1>3. ASSUME NEW b \in Attempts \ {a},
             \/ SubmitStart(b) \/ SubmitEnd(b) \/ BodyFails(b) \/ CloseSession(b) \/ CloseForAbort(b)
             \/ DedupComplete(b) \/ AdvanceHead(b) \/ AbortAppend(b) \/ AbortDedup(b)
      PROVE  pc'[a] = pc[a] /\ req'[a] = req[a]
  BY <1>3 DEF SubmitStart, SubmitEnd, Submit, BodyFails, CloseSession, CloseForAbort, DedupComplete,
              AdvanceHead, AbortAppend, AbortDedup, ToAbort, Goto
<1>4. ASSUME NEW b \in Attempts, \/ Land(b) \/ Break(b) \/ Lose(b) \/ LandAbort(b)
                                 \/ EndRequest(b) \/ CancelWrite(b)
      PROVE  UNCHANGED <<pc, req>>
  BY <1>4 DEF Land, Break, Lose, LandAbort, EndRequest, CancelWrite
<1>5. ASSUME NEW m \in Msgs, Sweep(m) PROVE UNCHANGED <<pc, req>>
  BY <1>5 DEF Sweep, SweepAbort, SweepDedup, SweepDelete
<1>6. ASSUME Crash PROVE pc'[a] \in {pc[a], "dead"} /\ req'[a] = req[a]
  BY <1>6 DEF Crash
<1>7. UNCHANGED vars => UNCHANGED <<pc, req>>
  BY DEF vars
<1> QED BY <1>1, <1>2, <1>3, <1>4, <1>5, <1>6, <1>7 DEF Next, Handler, Body

(* Where each step of a handler leaves it. *)
LEMMA Targets ==
  ASSUME TypeOK, NEW a \in Attempts
  PROVE  /\ Gate(a, "send") \/ Gate(a, "stream") => pc'[a] \in {"claim", "done"}
         /\ Claim(a) => pc'[a] \in {"append", "tail", "done"}
         /\ AppendComplete(a) => pc'[a] \in {"dedup", "abortAppend"}
         /\ CheckTailBefore(a) => pc'[a] = "open"
         /\ SubmitStart(a) => pc'[a] \in {"body", "closeAbort", "abortAppend"}
         /\ SubmitChunk(a) => pc'[a] \in {"body", "closeAbort"}
         /\ SubmitEnd(a) => pc'[a] \in {"close", "closeAbort"}
         /\ BodyFails(a) => pc'[a] = "closeAbort"
         /\ CloseSession(a) => pc'[a] \in {"tailEnd", "abortAppend"}
         /\ CloseForAbort(a) => pc'[a] = "abortAppend"
         /\ CheckTailAfter(a) => pc'[a] = "dedup"
         /\ DedupComplete(a) => pc'[a] = "head"
         /\ AdvanceHead(a) => pc'[a] = "release"
         /\ AbortAppend(a) => pc'[a] = "abortDedup"
         /\ AbortDedup(a) => pc'[a] = "abortRelease"
         /\ Release(a) \/ AbortRelease(a) \/ AbortExpires(a) => pc'[a] = "done"
<1> USE DEF TypeOK, Goto, Reply, ToAbort
<1>1. Gate(a, "send") \/ Gate(a, "stream") => pc'[a] \in {"claim", "done"}
  BY DEF Gate
<1>2. Claim(a) => pc'[a] \in {"append", "tail", "done"}
  BY DEF Claim
<1>3. AppendComplete(a) => pc'[a] \in {"dedup", "abortAppend"}
  BY DEF AppendComplete
<1>4. CheckTailBefore(a) => pc'[a] = "open"
  BY DEF CheckTailBefore
<1>5. SubmitStart(a) => pc'[a] \in {"body", "closeAbort", "abortAppend"}
  BY DEF SubmitStart, Submit
<1>6. SubmitChunk(a) => pc'[a] \in {"body", "closeAbort"}
  BY DEF SubmitChunk, Submit
<1>7. SubmitEnd(a) => pc'[a] \in {"close", "closeAbort"}
  BY DEF SubmitEnd, Submit
<1>8. BodyFails(a) => pc'[a] = "closeAbort"
  BY DEF BodyFails
<1>9. CloseSession(a) => pc'[a] \in {"tailEnd", "abortAppend"}
  BY DEF CloseSession
<1>10. CloseForAbort(a) => pc'[a] = "abortAppend"
  BY DEF CloseForAbort
<1>11. CheckTailAfter(a) => pc'[a] = "dedup"
  BY DEF CheckTailAfter
<1>12. /\ DedupComplete(a) => pc'[a] = "head"
       /\ AdvanceHead(a) => pc'[a] = "release"
  BY DEF DedupComplete, AdvanceHead
<1>13. /\ AbortAppend(a) => pc'[a] = "abortDedup"
       /\ AbortDedup(a) => pc'[a] = "abortRelease"
  BY DEF AbortAppend, AbortDedup
<1>14. Release(a) \/ AbortRelease(a) \/ AbortExpires(a) => pc'[a] = "done"
  BY DEF Release, AbortRelease, AbortExpires
<1> QED
  BY <1>1, <1>2, <1>3, <1>4, <1>5, <1>6, <1>7, <1>8, <1>9, <1>10, <1>11, <1>12, <1>13, <1>14

(* By which step a request gets where it is, unless it is there already. *)
Stays(a) == pc'[a] = pc[a] /\ req'[a] = req[a]

LEMMA Arrives ==
  ASSUME TypeOK, [Next]_vars, NEW a \in Attempts
  PROVE  /\ pc'[a] = "idle" => Stays(a)
         /\ pc'[a] = "claim" => Stays(a) \/ Gate(a, "send") \/ Gate(a, "stream")
         /\ pc'[a] \in {"append", "tail"} => Stays(a) \/ Claim(a)
         /\ pc'[a] = "open" => Stays(a) \/ CheckTailBefore(a)
         /\ pc'[a] = "body" => Stays(a) \/ SubmitStart(a) \/ SubmitChunk(a)
         /\ pc'[a] = "close" => Stays(a) \/ SubmitEnd(a)
         /\ pc'[a] = "closeAbort" => \/ Stays(a) \/ SubmitStart(a) \/ SubmitChunk(a) \/ SubmitEnd(a)
                                     \/ BodyFails(a)
         /\ pc'[a] = "tailEnd" => Stays(a) \/ CloseSession(a)
         /\ pc'[a] = "dedup" => Stays(a) \/ AppendComplete(a) \/ CheckTailAfter(a)
         /\ pc'[a] = "head" => Stays(a) \/ DedupComplete(a)
         /\ pc'[a] = "release" => Stays(a) \/ AdvanceHead(a)
         /\ pc'[a] = "abortDedup" => Stays(a) \/ AbortAppend(a)
         /\ pc'[a] = "abortRelease" => Stays(a) \/ AbortDedup(a)
  BY Elsewhere, Targets DEF Handler, Body, Stays

(* By which step a row of messages_dedup, or the sweep, gets where it is. *)
LEMMA DedupStep ==
  ASSUME TypeOK, [Next]_vars, NEW m \in Msgs
  PROVE  \/ dedup'[m] = dedup[m]
         \/ \E a \in Attempts : req[a].msg = m /\ DedupComplete(a) /\ dedup'[m] = Complete(req[a].range)
         \/ \E a \in Attempts : req[a].msg = m /\ AbortDedup(a) /\ dedup'[m] = Aborted
         \/ SweepDedup(m) /\ dedup'[m] = Aborted
<1> USE DEF TypeOK
<1>1. ASSUME NEW a \in Attempts, DedupComplete(a)
      PROVE  dedup'[m] = dedup[m] \/ (req[a].msg = m /\ dedup'[m] = Complete(req[a].range))
  BY <1>1 DEF DedupComplete, InsertDedup
<1>2. ASSUME NEW a \in Attempts, AbortDedup(a)
      PROVE  dedup'[m] = dedup[m] \/ (req[a].msg = m /\ dedup'[m] = Aborted)
  BY <1>2 DEF AbortDedup, InsertDedup
<1>3. ASSUME NEW n \in Msgs, SweepDedup(n)
      PROVE  dedup'[m] = dedup[m] \/ (n = m /\ dedup'[m] = Aborted)
  BY <1>3 DEF SweepDedup, InsertDedup
<1>4. ASSUME NEW a \in Attempts,
             \/ Gate(a, "send") \/ Gate(a, "stream") \/ Claim(a) \/ AppendComplete(a)
             \/ CheckTailBefore(a) \/ CheckTailAfter(a) \/ SubmitStart(a) \/ SubmitChunk(a)
             \/ SubmitEnd(a) \/ BodyFails(a)
      PROVE  UNCHANGED dedup
  BY <1>4 DEF Gate, Claim, AppendComplete, CheckTailBefore, CheckTailAfter, SubmitStart, SubmitChunk,
              SubmitEnd, BodyFails, tables
<1>5. ASSUME NEW a \in Attempts,
             \/ CloseSession(a) \/ CloseForAbort(a) \/ AdvanceHead(a) \/ Release(a) \/ AbortAppend(a)
             \/ AbortRelease(a) \/ AbortExpires(a) \/ Land(a) \/ Break(a) \/ Lose(a) \/ LandAbort(a)
             \/ EndRequest(a) \/ CancelWrite(a)
      PROVE  UNCHANGED dedup
  BY <1>5 DEF CloseSession, CloseForAbort, AdvanceHead, Release, AbortAppend, AbortRelease, AbortExpires,
              Land, Break, Lose, LandAbort, EndRequest, CancelWrite, tables
<1>6. ASSUME NEW n \in Msgs, SweepAbort(n) \/ SweepDelete(n) PROVE UNCHANGED dedup
  BY <1>6 DEF SweepAbort, SweepDelete, tables
<1>7. Crash \/ UNCHANGED vars => UNCHANGED dedup
  BY DEF Crash, vars, tables
<1> QED BY <1>1, <1>2, <1>3, <1>4, <1>5, <1>6, <1>7 DEF Next, Handler, Body, Sweep

LEMMA SweepStep ==
  ASSUME TypeOK, [Next]_vars, NEW m \in Msgs
  PROVE  /\ sweep'[m] = "dedup" => sweep[m] = "dedup" \/ SweepAbort(m)
         /\ sweep'[m] = "delete" => sweep[m] = "delete" \/ SweepDedup(m)
<1> USE DEF TypeOK
<1>1. ASSUME NEW a \in Attempts,
             \/ Gate(a, "send") \/ Gate(a, "stream") \/ Handler(a) \/ Body(a)
             \/ Land(a) \/ Break(a) \/ Lose(a) \/ LandAbort(a) \/ EndRequest(a) \/ CancelWrite(a)
      PROVE  UNCHANGED sweep
  BY <1>1 DEF Gate, Handler, Body, Claim, AppendComplete, CheckTailBefore, CheckTailAfter, SubmitStart,
              SubmitChunk, SubmitEnd, BodyFails, CloseSession, CloseForAbort, DedupComplete, AdvanceHead,
              Release, AbortAppend, AbortDedup, AbortRelease, AbortExpires, Land, Break, Lose, LandAbort,
              EndRequest, CancelWrite, sweepVars
<1>2. ASSUME NEW n \in Msgs, SweepAbort(n)
      PROVE  sweep'[m] = sweep[m] \/ (n = m /\ sweep'[m] \in {"dedup", "none"})
  BY <1>2 DEF SweepAbort
<1>3. ASSUME NEW n \in Msgs, SweepDedup(n) PROVE sweep'[m] = sweep[m] \/ (n = m /\ sweep'[m] = "delete")
  BY <1>3 DEF SweepDedup
<1>4. ASSUME NEW n \in Msgs, SweepDelete(n) PROVE sweep'[m] = sweep[m] \/ sweep'[m] = "none"
  BY <1>4 DEF SweepDelete
<1>5. ASSUME Crash PROVE sweep'[m] \in {"abort", "none"}
  BY <1>5 DEF Crash
<1>6. UNCHANGED vars => UNCHANGED sweep
  BY DEF vars, sweepVars
<1> QED BY <1>1, <1>2, <1>3, <1>4, <1>5, <1>6 DEF Next, Sweep

(* What becomes of the session of a request, and of its context, in a step. *)
LEMMA SessionStep ==
  ASSUME TypeOK, [Next]_vars, NEW a \in Attempts
  PROVE  \/ session'[a] = session[a] /\ ctx'[a] = ctx[a]
         \/ Break(a) /\ session'[a] = "failed" /\ ctx'[a] = ctx[a]
         \/ Lose(a) /\ session'[a] \in {"failed", "silent"} /\ ctx'[a] = ctx[a]
         \/ EndRequest(a) /\ session'[a] = session[a] /\ ctx'[a] = "ended"
         \/ CancelWrite(a) /\ session'[a] = session[a] /\ ctx'[a] = "cut"
         \/ /\ CloseSession(a) /\ pc'[a] = "tailEnd"
            /\ session'[a] = session[a] /\ ctx'[a] = IF Ended(a) THEN "ended" ELSE "live"
         \/ /\ SubmitStart(a) \/ CloseSession(a) \/ CloseForAbort(a)
            /\ pc'[a] = "abortAppend" /\ session'[a] = "whole" /\ ctx'[a] = "live"
         \/ /\ Crash
            /\ session'[a] = IF pc[a] \in Streaming THEN "whole" ELSE session[a]
            /\ ctx'[a] = IF pc[a] = "done" THEN ctx[a] ELSE "live"
<1> USE DEF TypeOK
<1>1. ASSUME NEW b \in Attempts,
             \/ Gate(b, "send") \/ Gate(b, "stream") \/ Claim(b) \/ AppendComplete(b)
             \/ CheckTailBefore(b) \/ CheckTailAfter(b) \/ SubmitChunk(b) \/ SubmitEnd(b) \/ BodyFails(b)
             \/ DedupComplete(b) \/ AdvanceHead(b) \/ Release(b)
      PROVE  UNCHANGED <<session, ctx>>
  BY <1>1 DEF Gate, Claim, AppendComplete, CheckTailBefore, CheckTailAfter, SubmitChunk, SubmitEnd,
              BodyFails, DedupComplete, AdvanceHead, Release, sessions
<1>2. ASSUME NEW b \in Attempts,
             AbortAppend(b) \/ AbortDedup(b) \/ AbortRelease(b) \/ AbortExpires(b) \/ Land(b) \/ LandAbort(b)
      PROVE  UNCHANGED <<session, ctx>>
  BY <1>2 DEF AbortAppend, AbortDedup, AbortRelease, AbortExpires, Land, LandAbort, sessions
<1>3. ASSUME NEW m \in Msgs, Sweep(m) PROVE UNCHANGED <<session, ctx>>
  BY <1>3 DEF Sweep, SweepAbort, SweepDedup, SweepDelete, sessions
<1>4. ASSUME NEW b \in Attempts, Break(b) \/ Lose(b)
      PROVE  /\ UNCHANGED ctx
             /\ \/ session'[a] = session[a]
                \/ a = b /\ session'[a] \in {"failed", "silent"} /\ (Break(b) => session'[a] = "failed" \/ Lose(b))
  BY <1>4 DEF Break, Lose
<1>5. ASSUME NEW b \in Attempts, EndRequest(b) \/ CancelWrite(b)
      PROVE  /\ UNCHANGED session
             /\ \/ ctx'[a] = ctx[a]
                \/ a = b /\ EndRequest(b) /\ ctx'[a] = "ended"
                \/ a = b /\ CancelWrite(b) /\ ctx'[a] = "cut"
  BY <1>5 DEF EndRequest, CancelWrite
<1>6. ASSUME NEW b \in Attempts, ToAbort(b)
      PROVE  \/ session'[a] = session[a] /\ ctx'[a] = ctx[a]
             \/ a = b /\ pc'[a] = "abortAppend" /\ session'[a] = "whole" /\ ctx'[a] = "live"
  BY <1>6 DEF ToAbort, Goto
<1>7. ASSUME NEW b \in Attempts, SubmitStart(b) PROVE UNCHANGED <<session, ctx>> \/ ToAbort(b)
  BY <1>7 DEF SubmitStart, sessions
<1>8. ASSUME NEW b \in Attempts, CloseSession(b), ~ToAbort(b)
      PROVE  /\ UNCHANGED session
             /\ IF a = b THEN pc'[a] = "tailEnd" /\ ctx'[a] = IF Ended(a) THEN "ended" ELSE "live"
                         ELSE ctx'[a] = ctx[a]
  BY <1>8 DEF CloseSession, Goto
<1>9. ASSUME NEW b \in Attempts, CloseForAbort(b) PROVE ToAbort(b)
  BY <1>9 DEF CloseForAbort
<1>10. ASSUME Crash
       PROVE  /\ session'[a] = IF pc[a] \in Streaming THEN "whole" ELSE session[a]
              /\ ctx'[a] = IF pc[a] = "done" THEN ctx[a] ELSE "live"
  BY <1>10 DEF Crash
<1>11. UNCHANGED vars => UNCHANGED <<session, ctx>>
  BY DEF vars, sessions
<1>12. ASSUME NEW b \in Attempts, SubmitStart(b) \/ CloseSession(b) \/ CloseForAbort(b)
       PROVE  \/ session'[a] = session[a] /\ ctx'[a] = ctx[a]
              \/ /\ CloseSession(a) /\ pc'[a] = "tailEnd"
                 /\ session'[a] = session[a] /\ ctx'[a] = IF Ended(a) THEN "ended" ELSE "live"
              \/ /\ SubmitStart(a) \/ CloseSession(a) \/ CloseForAbort(a)
                 /\ pc'[a] = "abortAppend" /\ session'[a] = "whole" /\ ctx'[a] = "live"
  <2>1. CASE ToAbort(b)
    BY <1>6, <1>12, <2>1
  <2>2. CASE ~ToAbort(b)
    BY <1>7, <1>8, <1>9, <1>12, <2>2
  <2> QED BY <2>1, <2>2
<1>13. ASSUME NEW b \in Attempts, Break(b) \/ Lose(b)
       PROVE  \/ session'[a] = session[a] /\ ctx'[a] = ctx[a]
              \/ Break(a) /\ session'[a] = "failed" /\ ctx'[a] = ctx[a]
              \/ Lose(a) /\ session'[a] \in {"failed", "silent"} /\ ctx'[a] = ctx[a]
  BY <1>4, <1>13
<1>14. ASSUME NEW b \in Attempts, EndRequest(b) \/ CancelWrite(b)
       PROVE  \/ session'[a] = session[a] /\ ctx'[a] = ctx[a]
              \/ EndRequest(a) /\ session'[a] = session[a] /\ ctx'[a] = "ended"
              \/ CancelWrite(a) /\ session'[a] = session[a] /\ ctx'[a] = "cut"
  BY <1>5, <1>14
<1> HIDE DEF TypeOK
<1>15. CASE \E b \in Attempts : Gate(b, "send") \/ Gate(b, "stream") \/ Handler(b) \/ Body(b)
  BY <1>1, <1>2, <1>12, <1>15 DEF Handler, Body
<1>16. CASE \E b \in Attempts : \/ EndRequest(b) \/ CancelWrite(b) \/ Land(b) \/ Break(b) \/ Lose(b)
                               \/ LandAbort(b)
  BY <1>2, <1>13, <1>14, <1>16
<1> QED BY <1>3, <1>10, <1>11, <1>15, <1>16 DEF Next

(* A context that has ended is not live again for the calls that carry it. *)
LEMMA StillLive ==
  ASSUME TypeOK, [Next]_vars, NEW a \in Attempts,
         pc'[a] \notin {"idle", "dead", "abortAppend"}, ~Ended(a)'
  PROVE  ~Ended(a)
<1>1. Crash => pc[a] = "done"
  BY DEF Crash, TypeOK
<1>2. CancelWrite(a) => ~Ended(a)
  BY DEF CancelWrite, Cut, Ended
<1> QED BY <1>1, <1>2, SessionStep DEF Ended

(* An answer is given by the gate, by a failing or losing claim, or at the very end. *)
LEMMA AnswerMoves ==
  ASSUME TypeOK, [Next]_vars, NEW a \in Attempts
  PROVE  \/ req'[a].answer = req[a].answer
         \/ /\ pc'[a] = "done"
            /\ \/ req'[a].answer = "replayed" /\ dedup[req[a].msg].status = "complete"
               \/ req'[a].answer \in {"already_aborted", "in_progress_conflict", "unsettled", "error"}
               \/ Release(a) /\ req'[a].answer = "created"
               \/ AbortRelease(a) /\ req'[a].answer = "failed"
<1>0. req[a] \in Requests
  BY DEF TypeOK
<1>r. \A x : Reply(a, x) => req'[a].answer = x /\ pc'[a] = "done"
  BY <1>0 DEF Reply, TypeOK, Requests
<1>1. ASSUME NEW k \in {"send", "stream"}, Gate(a, k)
      PROVE  \/ req'[a].answer = req[a].answer
             \/ /\ pc'[a] = "done"
                /\ \/ req'[a].answer = "replayed" /\ dedup[req[a].msg].status = "complete"
                   \/ req'[a].answer \in {"already_aborted", "error"}
  <2>1. CASE req' = [req EXCEPT ![a].kind = k]
    BY <1>0, <2>1 DEF TypeOK, Requests
  <2> QED BY <1>1, <1>r, <2>1 DEF Gate
<1>2. ASSUME Claim(a)
      PROVE  \/ req'[a].answer = req[a].answer
             \/ pc'[a] = "done" /\ req'[a].answer \in {"in_progress_conflict", "error"}
  BY <1>2, <1>r DEF Claim
<1>3. /\ Release(a) => pc'[a] = "done" /\ req'[a].answer = "created"
      /\ AbortRelease(a) => pc'[a] = "done" /\ req'[a].answer = "failed"
      /\ AbortExpires(a) => pc'[a] = "done" /\ req'[a].answer = "unsettled"
  BY <1>r DEF Release, AbortRelease, AbortExpires
<1>4. AppendComplete(a) \/ CheckTailBefore(a) \/ CheckTailAfter(a) \/ SubmitChunk(a)
        => req'[a].answer = req[a].answer
  BY DEF AppendComplete, CheckTailBefore, CheckTailAfter, SubmitChunk, TypeOK, Requests
<1>5. ASSUME \/ SubmitStart(a) \/ SubmitEnd(a) \/ BodyFails(a) \/ CloseSession(a) \/ CloseForAbort(a)
             \/ DedupComplete(a) \/ AdvanceHead(a) \/ AbortAppend(a) \/ AbortDedup(a)
      PROVE  req' = req
  BY <1>5 DEF SubmitStart, SubmitEnd, BodyFails, CloseSession, CloseForAbort, DedupComplete, AdvanceHead,
         AbortAppend, AbortDedup
<1>6. CASE Gate(a, "send") \/ Gate(a, "stream")
  BY <1>1, <1>6
<1>7. CASE Handler(a) \/ Body(a) \/ req'[a] = req[a]
  BY <1>2, <1>3, <1>4, <1>5, <1>7 DEF Handler, Body
<1> QED BY <1>6, <1>7, Elsewhere

(* A request that has its answer is done, for good. *)
AnsweredDone == \A a \in Attempts : req[a].answer # "none" => pc[a] = "done"

LEMMA DoneStep ==
  ASSUME TypeOK, AnsweredDone, [Next]_vars
  PROVE  AnsweredDone'
<1> SUFFICES ASSUME NEW a \in Attempts, req'[a].answer # "none" PROVE pc'[a] = "done"
  BY DEF AnsweredDone
<1>1. CASE pc[a] = "done"
  <2>1. /\ \A k \in {"send", "stream"} : ~Gate(a, k)
        /\ ~Claim(a) /\ ~AppendComplete(a) /\ ~CheckTailBefore(a) /\ ~SubmitStart(a) /\ ~SubmitChunk(a)
        /\ ~SubmitEnd(a) /\ ~BodyFails(a) /\ ~CloseSession(a) /\ ~CloseForAbort(a) /\ ~CheckTailAfter(a)
    BY <1>1 DEF Gate, Claim, AppendComplete, CheckTailBefore, SubmitStart, SubmitChunk, SubmitEnd,
          BodyFails, CloseSession, CloseForAbort, CheckTailAfter
  <2>2. /\ ~DedupComplete(a) /\ ~AdvanceHead(a) /\ ~Release(a)
        /\ ~AbortAppend(a) /\ ~AbortDedup(a) /\ ~AbortRelease(a) /\ ~AbortExpires(a)
    BY <1>1 DEF DedupComplete, AdvanceHead, Release, AbortAppend, AbortDedup, AbortRelease, AbortExpires
  <2>3. Crash => pc'[a] = "done"
    BY <1>1 DEF Crash, TypeOK
  <2> QED BY <1>1, <2>1, <2>2, <2>3, Elsewhere DEF Handler, Body
<1>2. CASE pc[a] # "done"
  BY <1>2, AnswerMoves DEF AnsweredDone
<1> QED BY <1>1, <1>2

(***************************************************************************)
(* The outcome of an answered write                                        *)
(***************************************************************************)

(* From the insert of its outcome on, the row of a request is there, unless the *)
(* request's context had ended by then.                                         *)
RecordedInv == \A a \in Attempts :
    \/ pc[a] \in {"head", "release"} /\ ~Ended(a)
    \/ pc[a] = "abortRelease"
    \/ req[a].answer = "created" /\ ~Ended(a)
    \/ req[a].answer = "failed"
    => dedup[req[a].msg].status # "none"

(* Without failing statements, an insert whose context is live always leaves a row. *)
LEMMA RecordedStep ==
  ASSUME "pg" \notin Faults, TypeOK, AnsweredDone, RecordedInv, [Next]_vars
  PROVE  RecordedInv'
<1> SUFFICES ASSUME NEW a \in Attempts,
                    \/ pc'[a] \in {"head", "release"} /\ ~Ended(a)'
                    \/ pc'[a] = "abortRelease"
                    \/ req'[a].answer = "created" /\ ~Ended(a)'
                    \/ req'[a].answer = "failed"
             PROVE  dedup'[req[a].msg].status # "none"
  BY MsgStep DEF RecordedInv
<1> DEFINE m == req[a].msg
<1>m. m \in Msgs
  BY DEF TypeOK, Requests
<1>k. dedup[m].status # "none" => dedup'[m].status # "none"
  BY <1>m, OutcomeStep
<1>i. ASSUME NEW row \in {Complete(req[a].range), Aborted}, InsertDedup(m, row)
      PROVE  dedup'[m].status # "none"
  <2>1. row.status # "none"
    BY DEF Complete, Aborted
  <2> QED BY <1>m, <1>k, <1>i, <2>1 DEF InsertDedup, TypeOK
<1>1. CASE pc'[a] \in {"head", "release"} /\ ~Ended(a)'
  <2>1. ~Ended(a)
    BY <1>1, StillLive
  <2>2. CASE Stays(a)
    BY <1>1, <1>k, <2>1, <2>2 DEF Stays, RecordedInv
  <2>3. CASE DedupComplete(a)
    BY <1>i, <2>1, <2>3 DEF DedupComplete
  <2>4. CASE AdvanceHead(a)
    BY <1>k, <2>1, <2>4 DEF AdvanceHead, RecordedInv
  <2> QED BY <1>1, <2>2, <2>3, <2>4, Arrives
<1>2. CASE pc'[a] = "abortRelease"
  <2>1. CASE Stays(a)
    BY <1>2, <1>k, <2>1 DEF Stays, RecordedInv
  <2>2. CASE AbortDedup(a)
    BY <1>i, <2>2 DEF AbortDedup
  <2> QED BY <1>2, <2>1, <2>2, Arrives
<1>3. CASE req'[a].answer = "created" /\ ~Ended(a)'
  <2>1. pc'[a] = "done"
    BY <1>3, DoneStep DEF AnsweredDone
  <2>2. ~Ended(a)
    BY <1>3, <2>1, StillLive
  <2>3. CASE Release(a)
    BY <1>k, <2>2, <2>3 DEF Release, RecordedInv
  <2> QED BY <1>3, <1>k, <2>2, <2>3, AnswerMoves DEF RecordedInv
<1>4. CASE req'[a].answer = "failed"
  <2>1. CASE AbortRelease(a)
    BY <1>k, <2>1 DEF AbortRelease, RecordedInv
  <2> QED BY <1>4, <1>k, <2>1, AnswerMoves DEF RecordedInv
<1> QED BY <1>1, <1>2, <1>3, <1>4

(* Where Postgres answers, whatever S2 does, whichever contexts end and whenever the server *)
(* dies: an answered write has its outcome in messages_dedup, so a retry that starts later  *)
(* never writes again, but for a write whose request had ended before the insert, and an    *)
(* abort path whose append has used up the time of its insert.                              *)
THEOREM AnswerMeansRecorded == "pg" \notin Faults => (Spec => []AnsweredIsRecorded)
<1> SUFFICES ASSUME "pg" \notin Faults PROVE Spec => []AnsweredIsRecorded
  OBVIOUS
<1>1. Init => AnsweredDone /\ RecordedInv
  <2> SUFFICES ASSUME Init PROVE AnsweredDone /\ RecordedInv
    OBVIOUS
  <2>1. \A a \in Attempts : pc[a] = "idle" /\ req[a].answer = "none"
    BY DEF Init, NoReq
  <2> QED BY <2>1 DEF AnsweredDone, RecordedInv
<1>2. TypeOK /\ AnsweredDone /\ RecordedInv /\ [Next]_vars => (AnsweredDone /\ RecordedInv)'
  BY DoneStep, RecordedStep
<1>3. RecordedInv => AnsweredIsRecorded
  BY DEF RecordedInv, AnsweredIsRecorded
<1> QED BY <1>1, <1>2, <1>3, TypeCorrect, PTL DEF Spec

(***************************************************************************)
(* An "aborted" row and its record                                         *)
(***************************************************************************)

(* Whoever writes an "aborted" row has appended the message_abort before: a handler *)
(* that has failed, or the sweep.                                                   *)
AbortOnLog(m) == \E i \in 1 .. Len(log) : /\ log[i].type = "message_abort"
                                          /\ req[log[i].by].msg = m
AbortInv ==
    \A m \in Msgs :
      \/ \E a \in Attempts : pc[a] = "abortDedup" /\ req[a].msg = m
      \/ sweep[m] = "dedup" \/ dedup[m].status = "aborted"
      => AbortOnLog(m)

(* While S2 answers, the record is there when the row is written. *)
LEMMA AbortStep ==
  ASSUME "s2" \notin Faults, "late" \notin Faults, TypeOK, OwnBatches, AbortInv, [Next]_vars
  PROVE  AbortInv'
<1> SUFFICES ASSUME NEW m \in Msgs,
                    \/ \E a \in Attempts : pc'[a] = "abortDedup" /\ req'[a].msg = m
                    \/ sweep'[m] = "dedup" \/ dedup'[m].status = "aborted"
             PROVE  AbortOnLog(m)'
  BY DEF AbortInv
<1>l. log \in Seq(Records) /\ \A i \in 1 .. Len(log) : log[i].by \in Attempts
  <2>1. log \in Seq(Records)
    BY DEF TypeOK
  <2>2. \A i \in 1 .. Len(log) : log[i] \in Records
    BY <2>1, ElementOfSeq
  <2> QED BY <2>1, <2>2 DEF Records
<1>1. CASE AbortOnLog(m)
  <2>1. PICK i \in 1 .. Len(log) : log[i].type = "message_abort" /\ req[log[i].by].msg = m
    BY <1>1 DEF AbortOnLog
  <2>2. i \in 1 .. Len(log') /\ log'[i] = log[i]
    BY LogKept
  <2> QED BY <1>l, <2>1, <2>2, MsgStep DEF AbortOnLog
<1>2. ASSUME NEW b \in Attempts, req[b].msg = m, log' = Append(log, Abort(b)) PROVE AbortOnLog(m)'
  <2>1. Len(log) + 1 \in 1 .. Len(log') /\ log'[Len(log) + 1] = Abort(b)
    BY <1>2, <1>l, RecordTypes, AppendProperties, LenProperties
  <2>2. Abort(b).type = "message_abort" /\ Abort(b).by = b
    BY DEF Abort, Record
  <2> QED BY <1>2, <2>1, <2>2, MsgStep DEF AbortOnLog
<1>3. ASSUME NEW a \in Attempts, pc'[a] = "abortDedup", req'[a].msg = m PROVE AbortOnLog(m)'
  <2>0. req[a].msg = m
    BY <1>3, MsgStep
  <2>1. CASE Stays(a)
    BY <1>1, <1>3, <2>0, <2>1 DEF Stays, AbortInv
  <2>2. CASE AbortAppend(a)
    <3>1. log' = Append(log, Abort(a))
      BY <2>2 DEF AbortAppend
    <3> QED BY <1>2, <2>0, <3>1
  <2> QED BY <1>3, <2>1, <2>2, Arrives
<1>4. CASE sweep'[m] = "dedup"
  <2>1. CASE sweep[m] = "dedup"
    BY <1>1, <2>1 DEF AbortInv
  <2>2. CASE SweepAbort(m)
    <3>1. PICK a \in Row(m) : log' = Append(log, Abort(a))
      BY <1>4, <2>2 DEF SweepAbort, TypeOK
    <3>2. a \in Attempts /\ req[a].msg = m
      BY DEF Row, TypeOK
    <3> QED BY <1>2, <3>1, <3>2
  <2> QED BY <1>4, <2>1, <2>2, SweepStep
<1>5. CASE dedup'[m].status = "aborted"
  <2>1. CASE dedup'[m] = dedup[m]
    BY <1>1, <1>5, <2>1 DEF AbortInv
  <2>2. ASSUME NEW a \in Attempts, req[a].msg = m, AbortDedup(a) PROVE AbortOnLog(m)'
    BY <1>1, <2>2 DEF AbortDedup, AbortInv
  <2>3. ASSUME NEW a \in Attempts, dedup'[m] = Complete(req[a].range) PROVE FALSE
    BY <1>5, <2>3 DEF Complete
  <2>4. CASE SweepDedup(m)
    BY <1>1, <2>4 DEF SweepDedup, AbortInv
  <2> QED BY <2>1, <2>2, <2>3, <2>4, DedupStep
<1> QED BY <1>3, <1>4, <1>5

(* While S2 answers, and through failing statements and crashes: an "aborted" row of      *)
(* messages_dedup, of a handler or of the sweep, has its message_abort on the stream.     *)
THEOREM AbortedMeansAbort ==
  "s2" \notin Faults /\ "late" \notin Faults => (Spec => []AbortedIsOnLog)
<1> SUFFICES ASSUME "s2" \notin Faults, "late" \notin Faults PROVE Spec => []AbortedIsOnLog
  OBVIOUS
<1>1. Init => OwnBatches /\ AbortInv
  <2>1. \A a \in Attempts : <<>> \in Seq(Batches(a))
    BY EmptySeq
  <2> QED BY <2>1 DEF Init, OwnBatches, AbortInv, NoRow
<1>2. TypeOK /\ OwnBatches /\ AbortInv /\ [Next]_vars => (OwnBatches /\ AbortInv)'
  BY OwnBatchesStep, AbortStep
<1>3. AbortInv => AbortedIsOnLog
  BY DEF AbortInv, AbortedIsOnLog, AbortOnLog
<1> QED BY <1>1, <1>2, <1>3, TypeCorrect, PTL DEF Spec

(***************************************************************************)
(* A message that is open has its row                                      *)
(***************************************************************************)

(* message_end is the last thing a handler submits. *)
EndQueued == \A a \in Attempts :
    pc[a] = "close" /\ wire[a] # <<>> => wire[a][Len(wire[a])] = <<End(a)>>

(* While S2 answers and nobody leaves: what is handed over is ordered before its session *)
(* is closed, and only the end of its request cuts a session off.                        *)
InFlightInv == \A a \in Attempts :
    /\ wire[a] # <<>> => pc[a] \in {"body", "close", "closeAbort"} /\ session[a] = "whole"
    /\ Cut(a) => Ended(a)
    /\ pc[a] = "close" /\ session[a] # "whole" => Ended(a)

(* Whoever may delete a row, or has all its records ordered, has ended the message. *)
Past(a) == \/ pc[a] = "close" /\ wire[a] = <<>> /\ session[a] = "whole"
           \/ pc[a] \in {"tailEnd", "dedup", "head", "release"} /\ ~Ended(a)
           \/ pc[a] \in {"abortDedup", "abortRelease"}
EndedInv == \A m \in Msgs :
    \/ \E a \in Attempts : req[a].msg = m /\ Past(a)
    \/ sweep[m] \in {"dedup", "delete"}
    => ~Unfinished(m)

AnchorInv == EndQueued /\ InFlightInv /\ EndedInv /\ UnfinishedIsClaimed

(* The last batch of a queue stays the last until it is ordered. *)
LEMMA LastOfTail ==
  ASSUME NEW S, NEW s \in Seq(S), s # <<>>
  PROVE  IF Tail(s) = <<>> THEN Head(s) = s[Len(s)] ELSE Tail(s)[Len(Tail(s))] = s[Len(s)]
<1>1. PICK t \in Seq(S) : t = Tail(s) /\ Len(t) = Len(s) - 1 /\ \A i \in 1 .. Len(t) : t[i] = s[i + 1]
  BY HeadTailProperties
<1>2. Len(s) \in Nat /\ Len(t) \in Nat /\ Head(s) = s[1]
  BY HeadTailProperties, LenProperties
<1>3. CASE t = <<>>
  <2>1. Len(t) = 0
    BY <1>3
  <2> QED BY <1>1, <1>2, <1>3, <2>1
<1>4. CASE t # <<>>
  <2>1. Len(t) \in 1 .. Len(t)
    BY <1>2, <1>4, EmptySeq
  <2>2. t[Len(t)] = s[Len(s)]
    BY <1>1, <1>2, <2>1
  <2> QED BY <1>1, <1>4, <2>2
<1> QED BY <1>3, <1>4

(* Whatever fails. *)
LEMMA EndQueuedStep == TypeOK /\ OwnBatches /\ EndQueued /\ [Next]_vars => EndQueued'
<1> SUFFICES ASSUME TypeOK, OwnBatches, EndQueued, [Next]_vars,
                    NEW a \in Attempts, pc'[a] = "close", wire'[a] # <<>>
             PROVE  wire'[a][Len(wire'[a])] = <<End(a)>>
  BY DEF EndQueued
<1>1. wire[a] \in Seq(Batches(a)) /\ <<End(a)>> \in Batches(a)
  BY DEF OwnBatches, Batches
<1>2. CASE Stays(a) /\ wire'[a] = wire[a]
  BY <1>2 DEF EndQueued, Stays
<1>3. CASE Stays(a) /\ Land(a) /\ wire'[a] = Tail(wire[a])
  <2>1. wire[a] # <<>> /\ wire[a][Len(wire[a])] = <<End(a)>>
    BY <1>3 DEF Land, EndQueued, Stays
  <2> QED BY <1>1, <1>3, <2>1, LastOfTail
<1>4. CASE wire'[a] = Append(wire[a], <<End(a)>>)
  BY <1>1, <1>4, AppendProperties
<1>5. SubmitEnd(a) /\ pc'[a] = "close" => wire'[a] = Append(wire[a], <<End(a)>>)
  BY DEF SubmitEnd, Submit, Goto, TypeOK
<1>6. \/ AppendComplete(a) => pc'[a] # "close"
      \/ SubmitStart(a) => pc'[a] # "close"
      \/ SubmitChunk(a) => pc'[a] # "close"
  BY Targets
<1> QED BY <1>2, <1>3, <1>4, <1>5, <1>6, Arrives, WireStep, Targets

(* The request hands over a record only while its session is whole. *)
LEMMA SubmitsWhole ==
  ASSUME TypeOK, NEW a \in Attempts, SubmitStart(a) \/ SubmitChunk(a) \/ SubmitEnd(a)
  PROVE  /\ wire'[a] = wire[a] \/ (session[a] = "whole" /\ session'[a] = "whole")
         /\ pc'[a] \in {"body", "close"} =>
              /\ session[a] = "whole" /\ session'[a] = "whole" /\ ctx'[a] = ctx[a]
              /\ SubmitStart(a) => wire'[a] = Append(wire[a], <<Start(a)>>)
              /\ SubmitChunk(a) => wire'[a] = Append(wire[a], <<Chunk(a, req[a].sent + 1)>>)
              /\ SubmitEnd(a) => wire'[a] = Append(wire[a], <<End(a)>>)
<1> USE DEF TypeOK, Submit, Goto
<1>1. ASSUME NEW rec, NEW next, Submit(a, rec, next), UNCHANGED sessions
      PROVE  /\ wire'[a] = wire[a] \/ (session[a] = "whole" /\ session'[a] = "whole")
             /\ pc'[a] \in {"body", "close"} =>
                  /\ session[a] = "whole" /\ session'[a] = "whole" /\ ctx'[a] = ctx[a]
                  /\ wire'[a] = Append(wire[a], <<rec>>)
  BY <1>1 DEF sessions
<1> HIDE DEF Submit, Goto
<1>2. CASE SubmitStart(a)
  <2>1. ~SubmitChunk(a) /\ ~SubmitEnd(a)
    BY <1>2 DEF SubmitStart, SubmitChunk, SubmitEnd
  <2>2. CASE ToAbort(a) /\ UNCHANGED wire
    BY <1>2, <2>1, <2>2 DEF ToAbort, Goto
  <2>3. CASE Submit(a, Start(a), "body") /\ UNCHANGED sessions
    BY <1>1, <1>2, <2>1, <2>3
  <2> QED BY <1>2, <2>2, <2>3 DEF SubmitStart
<1>3. CASE SubmitChunk(a)
  <2>1. ~SubmitStart(a)
    BY <1>3 DEF SubmitStart, SubmitChunk
  <2>2. Submit(a, Chunk(a, req[a].sent + 1), "body") /\ UNCHANGED sessions
    BY <1>3 DEF SubmitChunk
  <2>3. ~SubmitEnd(a)
    <3>1. SubmitEnd(a) => UNCHANGED req
      BY DEF SubmitEnd
    <3>2. req'[a].sent = req[a].sent + 1 /\ req[a].sent \in Nat
      BY <1>3 DEF SubmitChunk, Requests
    <3> QED BY <3>1, <3>2
  <2> QED BY <1>1, <1>3, <2>1, <2>2, <2>3
<1>4. CASE SubmitEnd(a) /\ ~SubmitChunk(a)
  <2>1. ~SubmitStart(a)
    BY <1>4 DEF SubmitStart, SubmitEnd
  <2>2. Submit(a, End(a), "close") /\ UNCHANGED sessions
    BY <1>4 DEF SubmitEnd
  <2> QED BY <1>1, <1>4, <2>1, <2>2
<1> QED BY <1>2, <1>3, <1>4

(* While S2 answers and nobody leaves, no session fails but at the end of its request. *)
LEMMA InFlightStep ==
  ASSUME Faults \cap {"s2", "late", "leave"} = {}, TypeOK, InFlightInv, [Next]_vars
  PROVE  InFlightInv'
<1>f. "s2" \notin Faults /\ "late" \notin Faults /\ "leave" \notin Faults
  OBVIOUS
<1>n. \A a \in Attempts : ~Break(a) /\ ~CancelWrite(a)
  BY <1>f DEF Break, CancelWrite
<1>1. ASSUME NEW a \in Attempts, wire'[a] # <<>> PROVE pc'[a] \in {"body", "close", "closeAbort"}
  <2>0. ~Crash
    BY <1>1, <1>f DEF Crash
  <2>1. wire'[a] = wire[a] \/ Land(a) => pc[a] \in {"body", "close", "closeAbort"} /\ session[a] = "whole"
    BY <1>1 DEF InFlightInv, Land
  <2>3. CloseSession(a) \/ CloseForAbort(a) => wire'[a] = <<>> \/ (wire[a] = <<>> \/ session[a] # "whole")
    BY <1>f DEF CloseSession, CloseForAbort, Abandon, TypeOK
  <2>5. CASE wire'[a] = wire[a] \/ Land(a)
    <3>1. wire[a] # <<>>
      BY <1>1, <2>5 DEF Land
    <3>2. \/ pc'[a] = pc[a] \/ SubmitChunk(a) \/ SubmitEnd(a) \/ BodyFails(a)
      <4>1. \A k \in {"send", "stream"} : ~Gate(a, k)
        BY <2>1, <2>5 DEF Gate
      <4>2. /\ ~Claim(a) /\ ~AppendComplete(a) /\ ~CheckTailBefore(a) /\ ~SubmitStart(a)
            /\ ~CheckTailAfter(a) /\ ~DedupComplete(a) /\ ~AdvanceHead(a) /\ ~Release(a)
            /\ ~AbortAppend(a) /\ ~AbortDedup(a) /\ ~AbortRelease(a) /\ ~AbortExpires(a)
        BY <2>1, <2>5 DEF Claim, AppendComplete, CheckTailBefore, SubmitStart, CheckTailAfter,
              DedupComplete, AdvanceHead, Release, AbortAppend, AbortDedup, AbortRelease, AbortExpires
      <4>3. ~CloseSession(a) /\ ~CloseForAbort(a)
        <5>1. Land(a) => pc'[a] = pc[a]
          BY DEF Land
        <5>2. CloseSession(a) \/ CloseForAbort(a) => pc'[a] # pc[a]
          BY Targets DEF CloseSession, CloseForAbort
        <5> QED BY <1>1, <2>1, <2>3, <2>5, <3>1, <5>1, <5>2
      <4> QED BY <2>0, <4>1, <4>2, <4>3, Elsewhere DEF Handler, Body
    <3> QED BY <2>1, <2>5, <3>2, Targets
  <2>6. CASE (SubmitStart(a) \/ SubmitChunk(a) \/ SubmitEnd(a)) /\ wire'[a] # wire[a]
    <3>1. SubmitStart(a) => pc'[a] \in {"body", "closeAbort"}
      BY <2>6 DEF SubmitStart, Submit, Goto, TypeOK
    <3> QED BY <2>6, <3>1, Targets
  <2>7. ~AppendComplete(a) \/ wire'[a] = wire[a]
    BY <1>1, <1>f DEF AppendComplete, Abandon, TypeOK
  <2> QED BY <1>1, <2>0, <2>5, <2>6, <2>7, WireStep
<1>2. ASSUME NEW a \in Attempts, wire'[a] # <<>> PROVE session'[a] = "whole"
  <2>1. CASE wire[a] # <<>>
    <3>1. session[a] = "whole" /\ ~Lose(a)
      BY <1>2, <2>1 DEF InFlightInv, Lose, TypeOK
    <3> QED BY <1>n, <3>1, SessionStep
  <2>2. CASE wire[a] = <<>>
    <3>1. SubmitStart(a) \/ SubmitChunk(a) \/ SubmitEnd(a)
      <4>1. ~AppendComplete(a)
        BY <1>2, <1>f, <2>2 DEF AppendComplete, Abandon, TypeOK
      <4> QED BY <1>2, <2>2, <4>1, WireStep DEF Land
    <3> QED BY <1>2, <2>2, <3>1, SubmitsWhole
  <2> QED BY <2>1, <2>2
<1>3. ASSUME NEW a \in Attempts, Cut(a)' PROVE Ended(a)'
  BY <1>3, <1>n, SessionStep DEF InFlightInv, Cut, Ended
<1>4. ASSUME NEW a \in Attempts, pc'[a] = "close", session'[a] # "whole" PROVE Ended(a)'
  <2>1. Stays(a)
    BY <1>4, SubmitsWhole, Arrives
  <2>2. ~Crash
    BY <1>4 DEF Crash
  <2>3. Ended(a)
    <3>1. CASE session[a] # "whole"
      BY <1>4, <2>1, <3>1 DEF InFlightInv, Stays
    <3>2. CASE session[a] = "whole"
      <4>1. Lose(a)
        BY <1>4, <1>n, <2>2, <3>2, SessionStep
      <4> QED BY <4>1 DEF Lose, InFlightInv
    <3> QED BY <3>1, <3>2
  <2> QED BY <1>4, <1>n, <2>2, <2>3, SessionStep DEF Ended
<1> QED BY <1>1, <1>2, <1>3, <1>4 DEF InFlightInv

(* What it means in the next state, written out. *)
LEMMA UnfinishedNext ==
  ASSUME NEW m \in Msgs
  PROVE  Unfinished(m)' <=>
           \E i \in 1 .. Len(log') :
             /\ log'[i].type = "message_start" /\ req'[log'[i].by].msg = m
             /\ \A j \in i + 1 .. Len(log') :
                  ~(log'[j].type \in {"message_end", "message_abort"} /\ req'[log'[j].by].msg = m)
  BY DEF Unfinished, Terminates

(* What appending does to an open message: its own start opens it, an end or an abort closes it. *)
LEMMA UnfinishedAppended ==
  ASSUME TypeOK, [Next]_vars, NEW m \in Msgs,
         NEW b \in Attempts, NEW s \in Batches(b) \cup {<<Abort(b)>>}, log' = log \o s
  PROVE  /\ Unfinished(m)' => Unfinished(m) \/ (req[b].msg = m /\ \E i \in 1 .. Len(s) : s[i] = Start(b))
         /\ req[b].msg = m /\ s[Len(s)] \in {End(b), Abort(b)} => ~Unfinished(m)'
<1>a. /\ Len(log) \in Nat /\ Len(s) \in Nat /\ Len(log') = Len(log) + Len(s) /\ Len(s) >= 1
      /\ \A i \in 1 .. Len(log) : log'[i] = log[i]
      /\ \A i \in Len(log) + 1 .. Len(log') : /\ log'[i] = s[i - Len(log)] /\ log'[i].by = b
                                              /\ log'[i] \in OwnRecords(b)
  BY Appended, BatchFacts, LenProperties
<1>b. \A i \in 1 .. Len(log) : log[i].by \in Attempts
  <2>1. \A i \in 1 .. Len(log) : log[i] \in Records
    BY ElementOfSeq DEF TypeOK
  <2> QED BY <2>1 DEF Records
<1>c. /\ Start(b).by = b /\ End(b).type = "message_end" /\ End(b).by = b
      /\ Abort(b).type = "message_abort" /\ Abort(b).by = b
      /\ \A r \in OwnRecords(b) : r.type = "message_start" => r = Start(b)
  BY DEF Start, Chunk, End, Abort, Record, OwnRecords
<1>1. ASSUME Unfinished(m)', ~Unfinished(m)
      PROVE  req[b].msg = m /\ \E i \in 1 .. Len(s) : s[i] = Start(b)
  <2>1. PICK i \in 1 .. Len(log') :
          /\ log'[i].type = "message_start" /\ req'[log'[i].by].msg = m
          /\ \A j \in i + 1 .. Len(log') :
               ~(log'[j].type \in {"message_end", "message_abort"} /\ req'[log'[j].by].msg = m)
    BY <1>1, UnfinishedNext
  <2>2. i \notin 1 .. Len(log)
    <3> SUFFICES ASSUME i \in 1 .. Len(log) PROVE FALSE
      OBVIOUS
    <3>1. log[i].type = "message_start" /\ req[log[i].by].msg = m
      BY <1>a, <1>b, <2>1, MsgStep
    <3>2. \A j \in i + 1 .. Len(log) : ~Terminates(log[j], m)
      <4> TAKE j \in i + 1 .. Len(log)
      <4>1. j \in 1 .. Len(log) /\ j \in i + 1 .. Len(log') /\ log'[j] = log[j]
        BY <1>a
      <4>2. log[j].by \in Attempts /\ req'[log[j].by].msg = req[log[j].by].msg
        BY <1>b, <4>1, MsgStep
      <4> QED BY <2>1, <4>1, <4>2 DEF Terminates
    <3> QED BY <1>1, <3>1, <3>2 DEF Unfinished
  <2>3. i \in Len(log) + 1 .. Len(log') /\ i - Len(log) \in 1 .. Len(s)
    BY <1>a, <2>1, <2>2
  <2>4. log'[i] = Start(b)
    BY <1>a, <1>c, <2>1, <2>3
  <2>5. req'[b].msg = m
    BY <1>c, <2>1, <2>4
  <2> QED BY <1>a, <2>3, <2>4, <2>5, MsgStep
<1>2. ASSUME req[b].msg = m, s[Len(s)] \in {End(b), Abort(b)}, Unfinished(m)' PROVE FALSE
  <2>1. PICK i \in 1 .. Len(log') :
          /\ log'[i].type = "message_start"
          /\ \A j \in i + 1 .. Len(log') :
               ~(log'[j].type \in {"message_end", "message_abort"} /\ req'[log'[j].by].msg = m)
    BY <1>2, UnfinishedNext
  <2>2. Len(log') \in Len(log) + 1 .. Len(log') /\ log'[Len(log')] = s[Len(s)]
    <3>1. Len(log') \in Len(log) + 1 .. Len(log') /\ Len(log') - Len(log) = Len(s)
      BY <1>a
    <3> QED BY <1>a, <3>1
  <2>3. /\ log'[Len(log')].type \in {"message_end", "message_abort"}
        /\ log'[Len(log')].by = b /\ req'[b].msg = m
    BY <1>2, <1>c, <2>2, MsgStep
  <2>4. Len(log') \in i + 1 .. Len(log')
    BY <1>a, <2>1, <2>3
  <2> QED BY <2>1, <2>3, <2>4
<1> QED BY <1>1, <1>2

(* Only a request of that message, in its write path, opens it. *)
LEMMA OpenedBy ==
  ASSUME TypeOK, ClaimInv, OwnBatches, InFlightInv, [Next]_vars,
         NEW m \in Msgs, ~Unfinished(m), Unfinished(m)'
  PROVE  \E b \in Attempts : /\ req[b].msg = m /\ Writing(b) /\ b \in claims
                             /\ AppendComplete(b) \/ Land(b)
<1>1. log' # log
  <2> SUFFICES ASSUME log' = log PROVE FALSE
    OBVIOUS
  <2>1. \A i \in 1 .. Len(log) : log[i].by \in Attempts
    <3>1. \A i \in 1 .. Len(log) : log[i] \in Records
      BY ElementOfSeq DEF TypeOK
    <3> QED BY <3>1 DEF Records
  <2>2. PICK i \in 1 .. Len(log) :
          /\ log[i].type = "message_start" /\ req'[log[i].by].msg = m
          /\ \A j \in i + 1 .. Len(log) :
               ~(log[j].type \in {"message_end", "message_abort"} /\ req'[log[j].by].msg = m)
    BY UnfinishedNext
  <2>3. \A j \in i + 1 .. Len(log) : j \in 1 .. Len(log)
    BY LenProperties DEF TypeOK
  <2>4. \A j \in i + 1 .. Len(log) : ~Terminates(log[j], m)
    BY <2>1, <2>2, <2>3, MsgStep DEF Terminates
  <2> QED BY <2>1, <2>2, <2>4, MsgStep DEF Unfinished
<1>b. PICK b \in Attempts : \E s \in Batches(b) \cup {<<Abort(b)>>} : Appends(b, s) /\ log' = log \o s
  BY <1>1, LogStep
<1>2. PICK s \in Batches(b) \cup {<<Abort(b)>>} : Appends(b, s) /\ log' = log \o s
  BY <1>b
<1>3. req[b].msg = m /\ \E i \in 1 .. Len(s) : s[i] = Start(b)
  BY <1>2, UnfinishedAppended
<1>4. s # <<Abort(b)>>
  <2>1. Abort(b) # Start(b)
    BY DEF Abort, Start, Record
  <2>2. Len(<<Abort(b)>>) = 1 /\ <<Abort(b)>>[1] = Abort(b)
    OBVIOUS
  <2> QED BY <1>3, <2>1, <2>2
<1>5. AppendComplete(b) \/ Land(b)
  BY <1>2, <1>4 DEF Appends
<1>6. Writing(b)
  <2>1. AppendComplete(b) => pc[b] = "append"
    BY DEF AppendComplete
  <2>2. Land(b) => pc[b] \in {"body", "close", "closeAbort"}
    BY DEF Land, InFlightInv
  <2> QED BY <1>5, <2>1, <2>2 DEF Writing, WritePCs
<1> QED BY <1>3, <1>5, <1>6 DEF ClaimInv, ClaimExclusive

(* What has ended stays so while its writer has nothing more to append, or the sweep runs. *)
LEMMA StillEnded ==
  ASSUME TypeOK, ClaimInv, OwnBatches, InFlightInv, [Next]_vars, NEW m \in Msgs, ~Unfinished(m),
         \/ ~Serving
         \/ \E a \in Attempts : req[a].msg = m /\ Writing(a) /\ pc[a] # "append" /\ wire[a] = <<>>
  PROVE  ~Unfinished(m)'
<1> SUFFICES ASSUME Unfinished(m)' PROVE FALSE
  OBVIOUS
<1>1. PICK b \in Attempts : /\ req[b].msg = m /\ Writing(b) /\ b \in claims
                            /\ AppendComplete(b) \/ Land(b)
  BY OpenedBy
<1>2. Serving
  BY <1>1 DEF ClaimInv, ClaimExclusive
<1>3. PICK a \in Attempts : req[a].msg = m /\ Writing(a) /\ pc[a] # "append" /\ wire[a] = <<>>
  BY <1>2
<1>4. a = b
  BY <1>1, <1>3 DEF ClaimInv, ClaimExclusive
<1> QED BY <1>1, <1>3, <1>4 DEF AppendComplete, Land

(* A row is deleted by the sweep, or by the request that is about to answer. *)
LEMMA ClaimsStep ==
  ASSUME TypeOK, [Next]_vars, NEW c \in claims, c \notin claims'
  PROVE  \/ sweep[req[c].msg] = "delete"
         \/ \E a \in Attempts : /\ req[a].msg = req[c].msg
                                /\ pc[a] = "abortRelease" \/ (pc[a] = "release" /\ ~Ended(a))
<1>1. ASSUME NEW a \in Attempts,
             \/ Gate(a, "send") \/ Gate(a, "stream") \/ AppendComplete(a) \/ CheckTailBefore(a)
             \/ SubmitStart(a) \/ SubmitChunk(a) \/ SubmitEnd(a) \/ BodyFails(a) \/ CloseSession(a)
             \/ CloseForAbort(a) \/ CheckTailAfter(a) \/ DedupComplete(a) \/ AdvanceHead(a)
             \/ AbortAppend(a) \/ AbortDedup(a) \/ AbortExpires(a)
      PROVE  UNCHANGED claims
  BY <1>1 DEF Gate, AppendComplete, CheckTailBefore, SubmitStart, SubmitChunk, SubmitEnd, BodyFails,
              CloseSession, CloseForAbort, CheckTailAfter, DedupComplete, AdvanceHead, AbortAppend,
              AbortDedup, AbortExpires, tables
<1>7. ASSUME NEW a \in Attempts, \/ Land(a) \/ Break(a) \/ Lose(a) \/ LandAbort(a)
                                 \/ EndRequest(a) \/ CancelWrite(a)
      PROVE  UNCHANGED claims
  BY <1>7 DEF Land, Break, Lose, LandAbort, EndRequest, CancelWrite, tables
<1>2. ASSUME NEW a \in Attempts, Claim(a) PROVE claims \subseteq claims'
  BY <1>2 DEF Claim
<1>3. ASSUME NEW a \in Attempts, Release(a) \/ AbortRelease(a)
      PROVE  /\ req[a].msg = req[c].msg
             /\ pc[a] = "abortRelease" \/ (pc[a] = "release" /\ ~Ended(a))
  BY <1>3 DEF Release, AbortRelease, DeleteInProgress, Row
<1>4. ASSUME NEW m \in Msgs, SweepDelete(m) PROVE sweep[req[c].msg] = "delete"
  BY <1>4 DEF SweepDelete, DeleteInProgress, Row
<1>5. ASSUME NEW m \in Msgs, SweepAbort(m) \/ SweepDedup(m) PROVE UNCHANGED claims
  BY <1>5 DEF SweepAbort, SweepDedup, tables
<1>6. Crash \/ UNCHANGED vars => UNCHANGED claims
  BY DEF Crash, vars, tables
<1> QED BY <1>1, <1>2, <1>3, <1>4, <1>5, <1>6, <1>7 DEF Next, Handler, Body, Sweep

(* While S2 answers, nobody gives a row back before the message has ended. *)
LEMMA EndedStep ==
  ASSUME Faults \cap {"s2", "late", "leave"} = {},
         TypeOK, ClaimInv, OwnBatches, EndQueued, InFlightInv, EndedInv, [Next]_vars
  PROVE  EndedInv'
<1>f. "s2" \notin Faults /\ "late" \notin Faults /\ "leave" \notin Faults
  OBVIOUS
<1>p. ASSUME NEW m \in Msgs, NEW a \in Attempts, req[a].msg = m, Past(a) PROVE ~Unfinished(m)'
  <2>1. Writing(a) /\ pc[a] # "append"
    BY <1>p DEF Writing, WritePCs, Past
  <2>2. wire[a] = <<>>
    BY <1>p DEF InFlightInv, Past
  <2>3. ~Unfinished(m)
    BY <1>p DEF EndedInv
  <2> QED BY <1>p, <2>1, <2>2, <2>3, StillEnded
<1>e. ASSUME NEW m \in Msgs, NEW b \in Attempts, req[b].msg = m,
             NEW s \in {CompleteBatch(b), <<End(b)>>, <<Abort(b)>>}, log' = log \o s
      PROVE  ~Unfinished(m)'
  <2>1. s \in Batches(b) \cup {<<Abort(b)>>}
    BY DEF Batches
  <2>2. s[Len(s)] \in {End(b), Abort(b)}
    BY DEF CompleteBatch
  <2> QED BY <1>e, <2>1, <2>2, UnfinishedAppended
<1>a. \A b \in Attempts : Append(log, Abort(b)) = log \o <<Abort(b)>>
  BY AppendIsConcat, RecordTypes DEF TypeOK
<1>1. ASSUME NEW m \in Msgs, NEW a \in Attempts, req'[a].msg = m,
             pc'[a] = "close", wire'[a] = <<>>, session'[a] = "whole"
      PROVE  ~Unfinished(m)'
  <2>0. req[a].msg = m /\ wire[a] \in Seq(Batches(a)) /\ ~Crash
    BY <1>1, MsgStep DEF OwnBatches, Crash
  <2>1. Stays(a)
    <3>1. SubmitEnd(a) => wire'[a] = Append(wire[a], <<End(a)>>)
      BY <1>1, SubmitsWhole
    <3>2. Append(wire[a], <<End(a)>>) # <<>>
      BY <2>0, AppendProperties DEF Batches
    <3> QED BY <1>1, <3>1, <3>2, Arrives
  <2>4. pc[a] = "close" /\ session[a] = "whole"
    BY <1>1, <2>0, <2>1, SessionStep DEF Stays
  <2>2. CASE wire[a] = <<>>
    BY <1>p, <2>0, <2>2, <2>4 DEF Past
  <2>3. CASE wire[a] # <<>>
    <3>1. ~AppendComplete(a) /\ ~SubmitStart(a) /\ ~SubmitChunk(a) /\ ~SubmitEnd(a)
      <4>1. SubmitEnd(a) => wire'[a] # <<>>
        BY <1>1, <2>0, SubmitsWhole, AppendProperties DEF Batches
      <4> QED BY <1>1, <2>4, <4>1 DEF AppendComplete, SubmitStart, SubmitChunk
    <3>l. ~Lost(a)
      <4>1. ~Lose(a)
        BY <1>1 DEF Lose, TypeOK
      <4> QED BY <1>1, <1>f, <3>1, <4>1 DEF Lost
    <3>2. Land(a) /\ Tail(wire[a]) = <<>>
      BY <1>1, <2>0, <2>3, <3>1, <3>l, WireStep
    <3>3. wire[a][Len(wire[a])] = <<End(a)>>
      BY <2>3, <2>4 DEF EndQueued
    <3>4. Head(wire[a]) = <<End(a)>>
      BY <2>0, <2>3, <3>2, <3>3, LastOfTail
    <3>5. log' = log \o <<End(a)>>
      BY <3>2, <3>4 DEF Land
    <3> QED BY <1>e, <2>0, <3>5
  <2> QED BY <2>2, <2>3
<1>2. ASSUME NEW m \in Msgs, NEW a \in Attempts, req'[a].msg = m,
             \/ pc'[a] \in {"tailEnd", "dedup", "head", "release"} /\ ~Ended(a)'
             \/ pc'[a] \in {"abortDedup", "abortRelease"}
      PROVE  ~Unfinished(m)'
  <2>0. req[a].msg = m
    BY <1>2, MsgStep
  <2>1. CASE Past(a)
    BY <1>p, <2>0, <2>1
  <2>2. CASE AppendComplete(a)
    <3>1. log' = log \o CompleteBatch(a)
      BY <1>2, <2>2 DEF AppendComplete, Goto, TypeOK
    <3> QED BY <1>e, <2>0, <3>1
  <2>3. CASE AbortAppend(a)
    <3>1. log' = log \o <<Abort(a)>>
      BY <1>a, <1>f, <2>3 DEF AbortAppend
    <3> QED BY <1>e, <2>0, <3>1
  <2>9. pc'[a] \in {"tailEnd", "dedup", "head", "release"} => ~Ended(a)
    BY <1>2, StillLive
  <2>4. CASE CloseSession(a)
    <3>1. pc'[a] = "tailEnd"
      BY <1>2, <2>4, Targets
    <3>2. pc[a] = "close" /\ wire[a] = <<>> /\ session[a] # "failed"
      BY <2>4, <3>1 DEF CloseSession, ToAbort, Goto, TypeOK
    <3>3. session[a] = "whole"
      BY <2>9, <3>1, <3>2 DEF InFlightInv
    <3> QED BY <2>1, <3>2, <3>3 DEF Past
  <2>5. /\ CheckTailAfter(a) => pc[a] = "tailEnd"
        /\ DedupComplete(a) => pc[a] = "dedup"
        /\ AdvanceHead(a) => pc[a] = "head"
        /\ AbortDedup(a) => pc[a] = "abortDedup"
    BY DEF CheckTailAfter, DedupComplete, AdvanceHead, AbortDedup
  <2>6. CASE pc'[a] \in {"tailEnd", "dedup", "head", "release"}
    BY <2>1, <2>2, <2>4, <2>5, <2>6, <2>9, Arrives DEF Stays, Past
  <2>7. CASE pc'[a] \in {"abortDedup", "abortRelease"}
    BY <2>1, <2>3, <2>5, <2>7, Arrives DEF Stays, Past
  <2> QED BY <1>2, <2>6, <2>7
<1>3. ASSUME NEW m \in Msgs, sweep'[m] \in {"dedup", "delete"} PROVE ~Unfinished(m)'
  <2>1. CASE sweep[m] \in {"dedup", "delete"}
    <3>1. ~Serving /\ ~Unfinished(m)
      BY <2>1 DEF Serving, EndedInv
    <3> QED BY <3>1, StillEnded
  <2>2. CASE SweepAbort(m)
    <3>1. PICK b \in Row(m) : log' = Append(log, Abort(b))
      BY <1>3, <2>2 DEF SweepAbort, TypeOK
    <3>2. b \in Attempts /\ req[b].msg = m
      BY DEF Row, TypeOK
    <3> QED BY <1>a, <1>e, <3>1, <3>2
  <2>3. SweepDedup(m) => sweep[m] = "dedup"
    BY DEF SweepDedup
  <2> QED BY <1>3, <2>1, <2>2, <2>3, SweepStep
<1> QED BY <1>1, <1>2, <1>3 DEF EndedInv, Past

(* So the row of an open message is still there. *)
LEMMA AnchorStep ==
  ASSUME Faults \cap {"s2", "late", "leave"} = {}, TypeOK, ClaimInv, OwnBatches, AnchorInv, [Next]_vars
  PROVE  AnchorInv'
<1> USE DEF AnchorInv
<1>1. EndQueued' /\ InFlightInv' /\ EndedInv'
  BY EndQueuedStep, InFlightStep, EndedStep
<1>2. ASSUME NEW m \in Msgs, Unfinished(m)' PROVE Row(m)' # {}
  <2>1. CASE ~Unfinished(m)
    <3>1. PICK b \in Attempts : /\ req[b].msg = m /\ b \in claims
                                /\ AppendComplete(b) \/ Land(b)
      BY <1>2, <2>1, OpenedBy
    <3>2. claims' = claims
      BY <3>1 DEF AppendComplete, Land, tables
    <3> QED BY <3>1, <3>2, MsgStep DEF Row
  <2>2. CASE Unfinished(m)
    <3>1. PICK c \in claims : req[c].msg = m
      BY <2>2 DEF UnfinishedIsClaimed, Row
    <3>2. c \in Attempts
      BY DEF TypeOK
    <3>3. c \in claims'
      BY <2>2, <3>1, ClaimsStep DEF EndedInv, Past
    <3> QED BY <3>1, <3>2, <3>3, MsgStep DEF Row
  <2> QED BY <2>1, <2>2
<1> QED BY <1>1, <1>2 DEF UnfinishedIsClaimed

(* While S2 answers and nobody leaves, through failing statements, requests that end at any *)
(* point and crashes: a message that readers see open has its row in in_progress_messages,  *)
(* for its handler or for the recovery sweep.                                               *)
THEOREM OpenMessageIsAnchored ==
  Faults \cap {"s2", "late", "leave"} = {} => (Spec => []UnfinishedIsClaimed)
<1> SUFFICES ASSUME Faults \cap {"s2", "late", "leave"} = {} PROVE Spec => []UnfinishedIsClaimed
  OBVIOUS
<1>1. Init => OwnBatches /\ AnchorInv
  <2> SUFFICES ASSUME Init PROVE OwnBatches /\ AnchorInv
    OBVIOUS
  <2>1. \A a \in Attempts : wire[a] = <<>> /\ wire[a] \in Seq(Batches(a))
    BY EmptySeq DEF Init
  <2>2. \A m \in Msgs : ~Unfinished(m)
    BY DEF Init, Unfinished
  <2>3. \A a \in Attempts : ~Cut(a) /\ pc[a] = "idle"
    BY DEF Init, Cut
  <2>4. EndedInv
    BY <2>2 DEF EndedInv
  <2> QED BY <2>1, <2>2, <2>3, <2>4 DEF OwnBatches, AnchorInv, EndQueued, InFlightInv,
                                        UnfinishedIsClaimed
<1>2. TypeOK /\ ClaimInv /\ OwnBatches /\ AnchorInv /\ [Next]_vars => (OwnBatches /\ AnchorInv)'
  BY OwnBatchesStep, AnchorStep
<1>3. AnchorInv => UnfinishedIsClaimed
  BY DEF AnchorInv
<1> QED BY <1>1, <1>2, <1>3, InvariantHolds, PTL DEF Spec

(***************************************************************************)
(* head_seq and the answered writes                                        *)
(***************************************************************************)

(* Before its first submit a request has nothing in flight, whatever has failed so far. *)
FreshPCs == {"idle", "claim", "append", "tail", "open"}
Fresh == \A a \in Attempts :
    pc[a] \in FreshPCs => wire[a] = <<>> /\ req[a].sent = 0 /\ session[a] = "whole"

LEMMA FreshStep == TypeOK /\ Fresh /\ [Next]_vars => Fresh'
<1> SUFFICES ASSUME TypeOK, Fresh, [Next]_vars, NEW a \in Attempts, pc'[a] \in FreshPCs
             PROVE  wire'[a] = <<>> /\ req'[a].sent = 0 /\ session'[a] = "whole"
  BY DEF Fresh
<1>0. FreshPCs = {"idle", "claim", "append", "tail", "open"}
  BY DEF FreshPCs
<1>1. Stays(a) \/ Gate(a, "send") \/ Gate(a, "stream") \/ Claim(a) \/ CheckTailBefore(a)
  BY <1>0, Arrives
<1>2. pc[a] \in FreshPCs
  <2>1. /\ Gate(a, "send") \/ Gate(a, "stream") => pc[a] = "idle"
        /\ Claim(a) => pc[a] = "claim"
        /\ CheckTailBefore(a) => pc[a] = "tail"
    BY DEF Gate, Claim, CheckTailBefore
  <2> QED BY <1>0, <1>1, <2>1 DEF Stays
<1>3. wire[a] = <<>> /\ req[a].sent = 0 /\ session[a] = "whole"
  BY <1>2 DEF Fresh
<1>4. wire'[a] = <<>>
  <2>1. ~AppendComplete(a) /\ ~SubmitStart(a) /\ ~SubmitChunk(a) /\ ~SubmitEnd(a)
    BY <1>0, Targets
  <2> QED BY <1>3, <2>1, WireStep DEF Land
<1>5. req'[a].sent = 0
  <2>1. ASSUME NEW k \in {"send", "stream"}, Gate(a, k) PROVE req'[a].sent = req[a].sent
    BY <2>1 DEF Gate, Reply, TypeOK, Requests
  <2>2. Claim(a) \/ CheckTailBefore(a) => req'[a].sent = req[a].sent
    BY DEF Claim, CheckTailBefore, Reply, TypeOK, Requests
  <2>3. CASE Gate(a, "send") \/ Gate(a, "stream")
    BY <1>3, <2>1, <2>3
  <2> QED BY <1>1, <1>3, <2>2, <2>3 DEF Stays
<1>6. session'[a] = "whole"
  BY <1>3, SessionStep DEF Break, Lose
<1> QED BY <1>4, <1>5, <1>6

(* What a session has ordered is on the stream, and the stream is longer for it. *)
LEMMA Landed ==
  ASSUME TypeOK, OwnBatches, NEW a \in Attempts, Land(a)
  PROVE  /\ wire[a] \in Seq(Batches(a)) /\ wire[a] # <<>> /\ Head(wire[a]) \in Batches(a)
         /\ log' = log \o Head(wire[a]) /\ Len(log') >= Len(log) + 1
         /\ wire'[a] = Tail(wire[a]) /\ Stays(a)
<1>1. wire[a] \in Seq(Batches(a)) /\ wire[a] # <<>>
  BY DEF Land, OwnBatches
<1>2. Head(wire[a]) \in Batches(a)
  BY <1>1, HeadTailProperties
<1>3. log' = log \o Head(wire[a]) /\ wire'[a] = Tail(wire[a]) /\ Stays(a)
  <2>1. wire \in [Attempts -> Seq(Seq(Records))]
    BY DEF TypeOK
  <2>2. wire'[a] = Tail(wire[a])
    BY <2>1 DEF Land
  <2> QED BY <2>2 DEF Land, Stays
<1>4. Len(log') >= Len(log) + 1
  <2>1. PICK s : s = Head(wire[a])
    OBVIOUS
  <2>2. log' = log \o s /\ s \in Batches(a) \cup {<<Abort(a)>>}
    BY <1>2, <1>3, <2>1
  <2>3. Len(log) \in Nat /\ Len(log') = Len(log) + Len(s) /\ Len(s) >= 1 /\ Len(s) \in Nat
    BY <2>2, Appended, BatchFacts, LenProperties
  <2> QED BY <2>3
<1> QED BY <1>1, <1>2, <1>3, <1>4

(* The batches of a request that stays where it is. *)
LEMMA WireStays ==
  ASSUME TypeOK, [Next]_vars, NEW a \in Attempts, Stays(a), pc[a] \in {"body", "close"}
  PROVE  wire'[a] = wire[a] \/ Land(a) \/ Lose(a) \/ ("s2" \in Faults /\ Break(a))
<1>1. ~Crash
  BY DEF Stays, Crash
<1>2. /\ ~AppendComplete(a)
      /\ SubmitChunk(a) => req'[a].sent # req[a].sent
      /\ ~SubmitStart(a)
  BY DEF AppendComplete, SubmitStart, SubmitChunk, TypeOK, Requests
<1>3. SubmitEnd(a) => pc'[a] # pc[a]
  BY Targets DEF SubmitEnd
<1>4. ~CloseForAbort(a) /\ ~CloseSession(a)
  BY Targets DEF CloseForAbort, Stays
<1> QED BY <1>1, <1>2, <1>3, <1>4, WireStep DEF Stays, Lost

(* Past the session its verdict stays; before, a session that is whole has been so. *)
LEMMA VerdictStays ==
  ASSUME TypeOK, [Next]_vars, NEW a \in Attempts
  PROVE  /\ pc[a] \in {"append", "tailEnd", "dedup", "head", "release", "done", "dead"}
              => session'[a] = session[a]
         /\ Stays(a) /\ pc[a] \in {"body", "close"} /\ session'[a] = "whole"
              => session[a] = "whole" /\ ~Break(a) /\ ~Lose(a)
<1>1. /\ Break(a) \/ Lose(a) => pc[a] \in {"body", "close", "closeAbort"} /\ session'[a] # "whole"
      /\ SubmitStart(a) \/ CloseSession(a) \/ CloseForAbort(a) => pc[a] \in {"open", "close", "closeAbort"}
  BY DEF Break, Lose, SubmitStart, CloseSession, CloseForAbort, TypeOK
<1>2. Crash /\ pc[a] \in {"body", "close"} => ~Stays(a)
  BY DEF Crash, Stays, TypeOK
<1> QED BY <1>1, <1>2, SessionStep DEF Stays, Streaming

(* head_seq never goes back. *)
LEMMA HeadGrows ==
  ASSUME TypeOK, [Next]_vars
  PROVE  head \in Nat /\ head' \in Nat /\ head <= head'
<1>1. ASSUME NEW b \in Attempts, AdvanceHead(b) PROVE head' = head \/ (head < req[b].range[2] /\ head' = req[b].range[2])
  BY <1>1 DEF AdvanceHead, UpdateHead
<1>2. ASSUME NEW b \in Attempts,
             \/ Gate(b, "send") \/ Gate(b, "stream") \/ Claim(b) \/ AppendComplete(b)
             \/ CheckTailBefore(b) \/ CheckTailAfter(b) \/ SubmitStart(b) \/ SubmitChunk(b)
             \/ SubmitEnd(b) \/ BodyFails(b) \/ CloseSession(b) \/ CloseForAbort(b)
      PROVE  UNCHANGED head
  BY <1>2 DEF Gate, Claim, AppendComplete, CheckTailBefore, CheckTailAfter, SubmitStart, SubmitChunk,
              SubmitEnd, BodyFails, CloseSession, CloseForAbort, tables
<1>3. ASSUME NEW b \in Attempts,
             \/ DedupComplete(b) \/ Release(b) \/ AbortAppend(b) \/ AbortDedup(b) \/ AbortRelease(b)
             \/ AbortExpires(b) \/ Land(b) \/ Break(b) \/ Lose(b) \/ LandAbort(b)
             \/ EndRequest(b) \/ CancelWrite(b)
      PROVE  UNCHANGED head
  BY <1>3 DEF DedupComplete, Release, AbortAppend, AbortDedup, AbortRelease, AbortExpires, Land, Break,
              Lose, LandAbort, EndRequest, CancelWrite, tables
<1>4. ASSUME NEW m \in Msgs, Sweep(m) PROVE UNCHANGED head
  BY <1>4 DEF Sweep, SweepAbort, SweepDedup, SweepDelete, tables
<1>5. Crash \/ UNCHANGED vars => UNCHANGED head
  BY DEF Crash, vars, tables
<1>6. \A b \in Attempts : req[b].range[2] \in Nat
  BY DEF TypeOK, Requests, Ranges
<1>7. head \in Nat
  BY DEF TypeOK
<1>8. \/ UNCHANGED head
      \/ \E b \in Attempts : head < req[b].range[2] /\ head' = req[b].range[2]
  BY <1>1, <1>2, <1>3, <1>4, <1>5 DEF Next, Handler, Body
<1> QED BY <1>6, <1>7, <1>8

(* What the two tails and the records ordered between them say about the range that *)
(* is given to head_seq: the tail before is not past the start, the end is in it.   *)
EndBy(a, n) == \E i \in 1 .. Len(log) : log[i] = End(a) /\ i <= n

RangeOf(a) ==
    /\ pc[a] = "open" => req[a].tail <= Len(log) + 1
    /\ session[a] = "whole" =>
         /\ pc[a] \in {"body", "close"} =>
              req[a].tail <= IF wire[a] = <<>> THEN Len(log) ELSE Len(log) + 1
         /\ pc[a] = "close" /\ wire[a] = <<>> => EndBy(a, Len(log))
         /\ pc[a] = "tailEnd" => EndBy(a, Len(log)) /\ req[a].tail <= Len(log)
         /\ pc[a] \in {"dedup", "head"} /\ ~Ended(a) => EndBy(a, req[a].range[2])
         /\ (pc[a] = "release" \/ req[a].answer = "created") /\ ~Ended(a) => EndBy(a, head)

RangeInv == \A a \in Attempts : RangeOf(a)

(* While S2 and Postgres answer, for a session that has lost nothing and a request that is *)
(* still there.                                                                            *)
LEMMA RangeStep ==
  ASSUME "s2" \notin Faults, "pg" \notin Faults,
         TypeOK, OwnBatches, EndQueued, Fresh, AnsweredDone, RangeInv, [Next]_vars
  PROVE  RangeInv'
<1> SUFFICES ASSUME NEW a \in Attempts PROVE RangeOf(a)'
  BY DEF RangeInv
<1>k. /\ Len(log) \in Nat /\ Len(log') \in Nat /\ Len(log) <= Len(log')
      /\ \A i \in 1 .. Len(log) : i \in 1 .. Len(log') /\ log'[i] = log[i]
  BY LogKept
<1>r. req[a].tail \in Nat /\ req[a].range \in Nat \X Nat /\ req[a].range[2] \in Nat
  BY DEF TypeOK, Requests, Ranges
<1>e. ASSUME NEW n \in Nat, NEW o \in Nat, EndBy(a, n), n <= o
      PROVE  \E i \in 1 .. Len(log') : log'[i] = End(a) /\ i <= o
  <2>1. PICK i \in 1 .. Len(log) : log[i] = End(a) /\ i <= n
    BY <1>e DEF EndBy
  <2> QED BY <1>e, <1>k, <2>1
<1>i. RangeOf(a)
  BY DEF RangeInv
<1>1. ASSUME pc'[a] = "open" PROVE req'[a].tail <= Len(log') + 1
  <2>1. CASE Stays(a)
    BY <1>1, <1>i, <1>k, <1>r, <2>1 DEF Stays, RangeOf
  <2>2. CASE CheckTailBefore(a)
    <3>1. req'[a].tail \in {0, Tail0}
      BY <2>2 DEF CheckTailBefore, Tails, TypeOK, Requests
    <3> QED BY <1>k, <3>1 DEF Tail0
  <2> QED BY <1>1, <2>1, <2>2, Arrives
<1>2. ASSUME pc'[a] \in {"body", "close"}, session'[a] = "whole"
      PROVE  req'[a].tail <= IF wire'[a] = <<>> THEN Len(log') ELSE Len(log') + 1
  <2>1. CASE Stays(a)
    <3>0. pc[a] \in {"body", "close"} /\ session[a] = "whole" /\ ~Lose(a)
      BY <1>2, <2>1, VerdictStays DEF Stays
    <3>1. CASE wire'[a] = wire[a]
      BY <1>i, <1>k, <1>r, <2>1, <3>0, <3>1 DEF Stays, RangeOf
    <3>2. CASE Land(a)
      <4>1. req[a].tail <= Len(log) + 1 /\ Len(log') >= Len(log) + 1
        BY <1>i, <1>k, <1>r, <3>0, <3>2, Landed DEF RangeOf
      <4> QED BY <1>k, <1>r, <2>1, <4>1 DEF Stays
    <3> QED BY <2>1, <3>0, <3>1, <3>2, WireStays
  <2>2. CASE SubmitStart(a) \/ SubmitChunk(a) \/ SubmitEnd(a)
    <3>1. wire[a] \in Seq(Batches(a)) /\ \A x \in Batches(a) : Append(wire[a], x) # <<>>
      BY AppendProperties DEF OwnBatches
    <3>2. /\ session[a] = "whole"
          /\ wire'[a] \in {Append(wire[a], <<Start(a)>>), Append(wire[a], <<Chunk(a, req[a].sent + 1)>>),
                           Append(wire[a], <<End(a)>>)}
      BY <1>2, <2>2, SubmitsWhole
    <3>3. wire'[a] # <<>>
      <4>1. req[a].sent + 1 \in Nat
        BY DEF TypeOK, Requests
      <4> QED BY <3>1, <3>2, <4>1 DEF Batches
    <3>4. req'[a].tail = req[a].tail
      BY <2>2 DEF SubmitStart, SubmitChunk, SubmitEnd, TypeOK, Requests
    <3>5. req[a].tail <= Len(log) + 1
      BY <1>i, <1>k, <1>r, <2>2, <3>2 DEF SubmitStart, SubmitChunk, SubmitEnd, RangeOf
    <3> QED BY <1>k, <1>r, <3>3, <3>4, <3>5
  <2> QED BY <1>2, <2>1, <2>2, Arrives
<1>3. ASSUME pc'[a] = "close", wire'[a] = <<>>, session'[a] = "whole" PROVE EndBy(a, Len(log))'
  <2>1. Stays(a)
    <3>1. SubmitEnd(a) => wire'[a] = Append(wire[a], <<End(a)>>)
      BY <1>3, SubmitsWhole
    <3>2. wire[a] \in Seq(Batches(a)) /\ <<End(a)>> \in Batches(a)
      BY DEF OwnBatches, Batches
    <3>3. Append(wire[a], <<End(a)>>) # <<>>
      BY <3>2, AppendProperties
    <3> QED BY <1>3, <3>1, <3>3, Arrives
  <2>0. pc[a] = "close" /\ session[a] = "whole" /\ ~Lose(a)
    BY <1>3, <2>1, VerdictStays DEF Stays
  <2>2. CASE wire'[a] = wire[a]
    BY <1>3, <1>e, <1>i, <1>k, <2>0, <2>2 DEF EndBy, RangeOf
  <2>3. CASE Land(a)
    <3>1. wire[a][Len(wire[a])] = <<End(a)>> /\ Tail(wire[a]) = <<>> /\ wire[a] \in Seq(Batches(a)) /\ wire[a] # <<>>
      BY <1>3, <2>0, <2>3, Landed DEF EndQueued
    <3>2. log' = log \o <<End(a)>> /\ <<End(a)>> \in Batches(a)
      BY <2>3, <3>1, LastOfTail, Landed
    <3>3. Len(log') = Len(log) + 1 /\ log'[Len(log')] = <<End(a)>>[1]
      BY <1>k, <3>2, Appended
    <3> QED BY <1>k, <3>3 DEF EndBy
  <2> QED BY <2>0, <2>1, <2>2, <2>3, WireStays
<1>4. ASSUME pc'[a] = "tailEnd", session'[a] = "whole"
      PROVE  EndBy(a, Len(log))' /\ req'[a].tail <= Len(log')
  <2>1. CloseSession(a) => pc[a] = "close" /\ wire[a] = <<>> /\ session[a] = "whole" /\ req' = req
    BY <1>4 DEF CloseSession, ToAbort, Goto, TypeOK
  <2>2. Stays(a) => pc[a] = "tailEnd" /\ session[a] = "whole" /\ req'[a] = req[a]
    BY <1>4, VerdictStays DEF Stays
  <2>3. EndBy(a, Len(log)) /\ req[a].tail <= Len(log) /\ req'[a] = req[a]
    BY <1>4, <1>i, <2>1, <2>2, Arrives DEF RangeOf
  <2> QED BY <1>e, <1>k, <1>r, <2>3 DEF EndBy
<1>5. ASSUME pc'[a] \in {"dedup", "head"}, session'[a] = "whole", ~Ended(a)'
      PROVE  EndBy(a, req[a].range[2])'
  <2>0. ~Ended(a)
    BY <1>5, StillLive
  <2>1. CASE Stays(a) \/ DedupComplete(a)
    <3>1. pc[a] \in {"dedup", "head"} /\ req'[a] = req[a]
      BY <1>5, <2>1 DEF Stays, DedupComplete
    <3>2. EndBy(a, req[a].range[2])
      BY <1>5, <1>i, <2>0, <3>1, VerdictStays DEF RangeOf
    <3>3. PICK n \in Nat : n = req[a].range[2] /\ n = req'[a].range[2]
      BY <1>r, <3>1
    <3>4. EndBy(a, n) /\ n <= n
      BY <3>2, <3>3
    <3>5. \E i \in 1 .. Len(log') : log'[i] = End(a) /\ i <= n
      BY <1>e, <3>4
    <3> QED BY <3>3, <3>5 DEF EndBy
  <2>2. CASE AppendComplete(a)
    <3>1. log' = log \o CompleteBatch(a) /\ CompleteBatch(a) \in Batches(a) /\ req'[a].range = <<Tail0, Tail0 + 2>>
      BY <1>5, <2>2 DEF AppendComplete, Goto, Batches, TypeOK, Requests
    <3>2. CompleteBatch(a) = <<Start(a), Chunk(a, 1), End(a)>> /\ Len(CompleteBatch(a)) = 3
      BY DEF CompleteBatch
    <3>3. /\ Len(log') = Len(log) + 3
          /\ \A i \in Len(log) + 1 .. Len(log') : log'[i] = CompleteBatch(a)[i - Len(log)]
      BY <3>1, <3>2, Appended
    <3>4. Len(log') \in Len(log) + 1 .. Len(log') /\ Len(log') - Len(log) = 3
      BY <1>k, <3>3
    <3>5. log'[Len(log')] = CompleteBatch(a)[3]
      BY <3>3, <3>4
    <3>6. log'[Len(log')] = End(a) /\ req'[a].range[2] = Len(log')
      BY <1>k, <3>1, <3>2, <3>3, <3>5 DEF Tail0
    <3> QED BY <1>k, <3>4, <3>6 DEF EndBy
  <2>3. CASE CheckTailAfter(a)
    <3>0. Tails(Ended(a)) = {Tail0}
      BY <2>0 DEF Tails
    <3>1. req'[a].range = StreamRange(req[a].tail, Len(log) + 1)
      BY <2>3, <3>0 DEF CheckTailAfter, Tail0, TypeOK, Requests
    <3>2. EndBy(a, Len(log)) /\ req[a].tail <= Len(log)
      BY <1>5, <1>i, <2>3, VerdictStays DEF CheckTailAfter, RangeOf
    <3>3. req'[a].range[2] = Len(log) + 1
      BY <1>k, <1>r, <3>1, <3>2 DEF StreamRange
    <3> QED BY <1>e, <1>k, <3>2, <3>3 DEF EndBy
  <2> QED BY <1>5, <2>1, <2>2, <2>3, Arrives
<1>6. ASSUME pc'[a] = "release" \/ req'[a].answer = "created", session'[a] = "whole", ~Ended(a)'
      PROVE  EndBy(a, head)'
  <2>0. /\ AdvanceHead(a) \/ Release(a) \/ (Stays(a) /\ pc[a] = "release") \/ req[a].answer = "created"
        /\ pc'[a] \in {"release", "done"} \/ (Crash /\ req[a].answer = "created")
    <3>1. CASE pc'[a] = "release"
      BY <3>1, Arrives DEF Stays
    <3>2. CASE req'[a].answer = "created"
      <4>1. pc'[a] = "done"
        BY <3>2, DoneStep DEF AnsweredDone
      <4>2. Release(a) \/ req[a].answer = "created"
        BY <3>2, AnswerMoves
      <4> QED BY <4>1, <4>2
    <3> QED BY <1>6, <3>1, <3>2
  <2>1. pc'[a] \in {"release", "done"}
    BY <2>0, <1>6, DoneStep DEF AnsweredDone, Crash, TypeOK
  <2>2. ~Ended(a)
    BY <1>6, <2>1, StillLive
  <2>3. /\ AdvanceHead(a) => pc[a] = "head"
        /\ Release(a) => pc[a] = "release"
        /\ req[a].answer = "created" => pc[a] = "done"
    BY DEF AdvanceHead, Release, AnsweredDone
  <2>4. session[a] = "whole"
    BY <1>6, <2>0, <2>3, VerdictStays
  <2>5. CASE EndBy(a, head)
    BY <1>e, <2>5, HeadGrows DEF EndBy
  <2>6. CASE AdvanceHead(a)
    <3>1. EndBy(a, req[a].range[2])
      BY <1>i, <2>2, <2>3, <2>4, <2>6 DEF RangeOf
    <3>2. head' \in Nat /\ req[a].range[2] <= head'
      BY <1>r, <2>2, <2>6, HeadGrows DEF AdvanceHead, UpdateHead
    <3> QED BY <1>e, <1>r, <3>1, <3>2 DEF EndBy
  <2> QED BY <1>i, <2>0, <2>2, <2>3, <2>4, <2>5, <2>6 DEF RangeOf
<1> QED BY <1>1, <1>2, <1>3, <1>4, <1>5, <1>6 DEF RangeOf

(* While S2 and Postgres answer, with any number of writes at once, leaves, requests that  *)
(* end at any point and a server that may die: head_seq has reached the last record of     *)
(* every write that was answered in time and lost nothing in silence.                      *)
THEOREM HeadReachesAnswered ==
  "s2" \notin Faults /\ "pg" \notin Faults => (Spec => []HeadCoversAnswered)
<1> SUFFICES ASSUME "s2" \notin Faults, "pg" \notin Faults PROVE Spec => []HeadCoversAnswered
  OBVIOUS
<1> DEFINE IInv == OwnBatches /\ EndQueued /\ Fresh /\ AnsweredDone /\ RangeInv
<1>1. Init => IInv
  <2> SUFFICES ASSUME Init PROVE IInv
    OBVIOUS
  <2>1. \A a \in Attempts : wire[a] = <<>> /\ wire[a] \in Seq(Batches(a)) /\ pc[a] = "idle"
    BY EmptySeq DEF Init
  <2>2. \A a \in Attempts : req[a].answer = "none" /\ req[a].sent = 0 /\ session[a] = "whole"
    BY DEF Init, NoReq
  <2> QED BY <2>1, <2>2 DEF OwnBatches, EndQueued, Fresh, AnsweredDone, RangeInv, RangeOf
<1>2. TypeOK /\ IInv /\ [Next]_vars => IInv'
  BY OwnBatchesStep, EndQueuedStep, FreshStep, DoneStep, RangeStep
<1>3. IInv => HeadCoversAnswered
  BY DEF RangeInv, RangeOf, EndBy, HeadCoversAnswered
<1> QED BY <1>1, <1>2, <1>3, TypeCorrect, PTL DEF Spec

(***************************************************************************)
(* A whole copy of every message that is said to be complete               *)
(***************************************************************************)

(* Only the session of a request, or its one batch, adds chunks of it. *)
LEMMA ChunkFacts ==
  ASSUME NEW a \in Attempts
  PROVE  /\ \A n \in Nat : IsChunk(Chunk(a, n), a) /\ Chunk(a, n).part = n
         /\ ~IsChunk(Start(a), a) /\ ~IsChunk(End(a), a) /\ ~IsChunk(Abort(a), a)
  BY DEF IsChunk, Start, Chunk, End, Abort, Record

LEMMA NoNewChunk ==
  ASSUME TypeOK, OwnBatches, [Next]_vars, NEW a \in Attempts, ~Land(a), ~AppendComplete(a)
  PROVE  \A l \in Len(log) + 1 .. Len(log') : ~IsChunk(log'[l], a)
<1>1. CASE log' = log
  BY <1>1, LogKept
<1>2. ASSUME NEW b \in Attempts, NEW s \in Batches(b) \cup {<<Abort(b)>>}, Appends(b, s), log' = log \o s
      PROVE  \A l \in Len(log) + 1 .. Len(log') : ~IsChunk(log'[l], a)
  <2>1. /\ \A i \in Len(log) + 1 .. Len(log') : log'[i] = s[i - Len(log)] /\ log'[i].by = b
        /\ Len(log) \in Nat /\ Len(log') = Len(log) + Len(s)
    BY <1>2, Appended
  <2>2. CASE a # b
    BY <2>1, <2>2 DEF IsChunk
  <2>3. CASE a = b
    <3>1. s = <<Abort(a)>>
      BY <1>2, <2>3 DEF Appends
    <3>2. Len(s) = 1 /\ s[1] = Abort(a)
      BY <3>1
    <3>3. \A i \in Len(log) + 1 .. Len(log') : log'[i] = Abort(a)
      BY <2>1, <3>2
    <3> QED BY <3>3, ChunkFacts
  <2> QED BY <2>2, <2>3
<1> QED BY <1>1, <1>2, LogStep

(* Between i and j the first c chunks of a's message are on the stream, each once, in order. *)
Copied(a, i, j, c) ==
    /\ \A n \in 1 .. c : \E k \in i .. j : log[k] = Chunk(a, n)
    /\ \A k \in i .. j : IsChunk(log[k], a) => log[k].part \in 1 .. c
    /\ \A k, l \in i .. j :
         k < l /\ IsChunk(log[k], a) /\ IsChunk(log[l], a) => log[k].part < log[l].part

(* More of the stream takes nothing from the chunks, and one more may be the next. *)
LEMMA CopiedGrows ==
  ASSUME TypeOK, OwnBatches, [Next]_vars, NEW a \in Attempts, NEW i \in 1 .. Len(log), NEW c \in Nat,
         Copied(a, i, Len(log), c)
  PROVE  /\ (\A l \in Len(log) + 1 .. Len(log') : ~IsChunk(log'[l], a)) => Copied(a, i, Len(log), c)'
         /\ Len(log') = Len(log) + 1 /\ log'[Len(log')] = Chunk(a, c + 1)
              => Copied(a, i, Len(log), c + 1)'
<1>k. /\ Len(log) \in Nat /\ Len(log') \in Nat /\ Len(log) <= Len(log')
      /\ \A l \in 1 .. Len(log) : l \in 1 .. Len(log') /\ log'[l] = log[l]
  BY LogKept
<1>o. \A l \in i .. Len(log) : l \in i .. Len(log') /\ log'[l] = log[l]
  BY <1>k
<1>n. \A l \in i .. Len(log') : l \in i .. Len(log) \/ l \in Len(log) + 1 .. Len(log')
  BY <1>k
<1>c. /\ \A n \in 1 .. c : \E k \in i .. Len(log) : log[k] = Chunk(a, n)
      /\ \A k \in i .. Len(log) : IsChunk(log[k], a) => log[k].part \in 1 .. c
      /\ \A k, l \in i .. Len(log) :
           k < l /\ IsChunk(log[k], a) /\ IsChunk(log[l], a) => log[k].part < log[l].part
  BY DEF Copied
<1>d. \A d : Copied(a, i, Len(log), d)' <=>
        /\ \A n \in 1 .. d : \E k \in i .. Len(log') : log'[k] = Chunk(a, n)
        /\ \A k \in i .. Len(log') : IsChunk(log'[k], a) => log'[k].part \in 1 .. d
        /\ \A k, l \in i .. Len(log') :
             k < l /\ IsChunk(log'[k], a) /\ IsChunk(log'[l], a) => log'[k].part < log'[l].part
  BY DEF Copied, Chunk, Record, IsChunk
<1>1. ASSUME \A l \in Len(log) + 1 .. Len(log') : ~IsChunk(log'[l], a)
      PROVE  Copied(a, i, Len(log), c)'
  <2>1. \A k \in i .. Len(log') : IsChunk(log'[k], a) => k \in i .. Len(log) /\ log'[k] = log[k]
    BY <1>1, <1>n, <1>o
  <2>2. \A n \in 1 .. c : \E k \in i .. Len(log') : log'[k] = Chunk(a, n)
    BY <1>c, <1>o
  <2>3. \A k \in i .. Len(log') : IsChunk(log'[k], a) => log'[k].part \in 1 .. c
    BY <1>c, <2>1
  <2>4. \A k, l \in i .. Len(log') :
          k < l /\ IsChunk(log'[k], a) /\ IsChunk(log'[l], a) => log'[k].part < log'[l].part
    BY <1>c, <2>1
  <2> QED BY <1>d, <2>2, <2>3, <2>4
<1>2. ASSUME Len(log') = Len(log) + 1, log'[Len(log')] = Chunk(a, c + 1)
      PROVE  Copied(a, i, Len(log), c + 1)'
  <2>0. Len(log') \in i .. Len(log') /\ log'[Len(log')].part = c + 1 /\ c + 1 \in 1 .. c + 1
    BY <1>2, <1>k, ChunkFacts
  <2>1. \A k \in i .. Len(log') : (k \in i .. Len(log) /\ log'[k] = log[k]) \/ k = Len(log')
    BY <1>2, <1>k, <1>n, <1>o
  <2>2. \A n \in 1 .. c + 1 : \E k \in i .. Len(log') : log'[k] = Chunk(a, n)
    <3>1. \A n \in 1 .. c + 1 : n \in 1 .. c \/ n = c + 1
      OBVIOUS
    <3> QED BY <1>2, <1>c, <1>o, <2>0, <3>1
  <2>3. \A k \in i .. Len(log') : IsChunk(log'[k], a) => log'[k].part \in 1 .. c + 1
    <3>1. 1 .. c \subseteq 1 .. c + 1
      OBVIOUS
    <3> QED BY <1>c, <2>0, <2>1, <3>1
  <2>4. ASSUME NEW k \in i .. Len(log'), NEW l \in i .. Len(log'),
               k < l, IsChunk(log'[k], a), IsChunk(log'[l], a)
        PROVE  log'[k].part < log'[l].part
    <3>1. k \in i .. Len(log) /\ log'[k] = log[k]
      BY <1>k, <2>1, <2>4
    <3>2. log'[k].part \in 1 .. c
      BY <1>c, <2>4, <3>1
    <3>3. CASE l = Len(log')
      BY <2>0, <3>2, <3>3
    <3>4. CASE l \in i .. Len(log) /\ log'[l] = log[l]
      BY <1>c, <2>4, <3>1, <3>4
    <3> QED BY <2>1, <3>3, <3>4
  <2>5. \A k, l \in i .. Len(log') :
          k < l /\ IsChunk(log'[k], a) /\ IsChunk(log'[l], a) => log'[k].part < log'[l].part
    BY <2>4
  <2> QED BY <1>d, <2>2, <2>3, <2>5
<1> QED BY <1>1, <1>2

(* A whole copy stays one, as long as its request reads no further chunk. *)
LEMMA CopyStays ==
  ASSUME TypeOK, OwnBatches, [Next]_vars, NEW a \in Attempts,
         WholeCopy(a), req'[a].sent = req[a].sent
  PROVE  WholeCopy(a)'
<1>1. PICK i \in 1 .. Len(log), j \in 1 .. Len(log) :
        /\ i < j /\ log[i] = Start(a) /\ log[j] = End(a)
        /\ \A n \in 1 .. req[a].sent : \E k \in i .. j : log[k] = Chunk(a, n)
        /\ \A k, l \in i .. j :
             k < l /\ IsChunk(log[k], a) /\ IsChunk(log[l], a) => log[k].part < log[l].part
  BY DEF WholeCopy
<1>2. /\ Len(log) \in Nat /\ Len(log') \in Nat /\ Len(log) <= Len(log')
      /\ \A l \in 1 .. Len(log) : l \in 1 .. Len(log') /\ log'[l] = log[l]
  BY LogKept
<1>3. \A l \in i .. j : log'[l] = log[l]
  BY <1>1, <1>2
<1>4. i \in 1 .. Len(log') /\ j \in 1 .. Len(log') /\ log'[i] = Start(a) /\ log'[j] = End(a)
  BY <1>1, <1>2
<1>5. /\ \A n \in 1 .. req'[a].sent : \E k \in i .. j : log'[k] = Chunk(a, n)
      /\ \A k, l \in i .. j :
           k < l /\ IsChunk(log'[k], a) /\ IsChunk(log'[l], a) => log'[k].part < log'[l].part
  BY <1>1, <1>3
<1> QED BY <1>1, <1>4, <1>5 DEF WholeCopy

(* How far a streamed message has got: all of it in flight, its start and its first *)
(* c chunks ordered, or all of it ordered.  Ending: whether its end, too, has been  *)
(* handed over.                                                                     *)
Ending(a) == IF pc[a] = "close" THEN 1 ELSE 0
Unstarted(a) ==
    /\ Len(wire[a]) = req[a].sent + 1 + Ending(a)
    /\ \A k \in 1 .. Len(wire[a]) :
         wire[a][k] = IF k = 1 THEN <<Start(a)>>
                      ELSE IF k <= req[a].sent + 1 THEN <<Chunk(a, k - 1)>> ELSE <<End(a)>>
StartedAt(a, i, c) ==
    /\ log[i] = Start(a) /\ Copied(a, i, Len(log), c)
    /\ Len(wire[a]) = req[a].sent - c + Ending(a) /\ c <= req[a].sent
    /\ \A k \in 1 .. Len(wire[a]) :
         wire[a][k] = IF k <= req[a].sent - c THEN <<Chunk(a, c + k)>> ELSE <<End(a)>>
Started(a) == \E i \in 1 .. Len(log), c \in Nat : StartedAt(a, i, c)
Through(a) == pc[a] = "close" /\ wire[a] = <<>> /\ WholeCopy(a)

ProgressOf(a) ==
    /\ pc[a] \in {"body", "close"} /\ session[a] = "whole" => Unstarted(a) \/ Started(a) \/ Through(a)
    /\ pc[a] \in {"tailEnd", "dedup", "head", "release"} => WholeCopy(a) \/ session[a] = "silent"
Progress == \A a \in Attempts : ProgressOf(a)

(* A copy, or a loss, that no later step takes back: its request submits no more. *)
SettledPCs == {"dedup", "head", "release", "done", "dead"}
Settled(m) == \E a \in Attempts : /\ req[a].msg = m /\ pc[a] \in SettledPCs
                                  /\ WholeCopy(a) \/ session[a] = "silent"
SettledInv == \A m \in Msgs : Vouched(m) => Settled(m)

(* A step that neither moves the request nor touches its batches. *)
LEMMA ProgressRests ==
  ASSUME TypeOK, OwnBatches, Progress, [Next]_vars, NEW a \in Attempts,
         Stays(a), wire'[a] = wire[a], ~Land(a), pc[a] \in {"body", "close"}, session[a] = "whole"
  PROVE  Unstarted(a)' \/ Started(a)' \/ Through(a)'
<1>1. Unstarted(a) \/ Started(a) \/ Through(a)
  BY DEF Progress, ProgressOf
<1>2. Ending(a)' = Ending(a)
  BY DEF Stays, Ending
<1>3. CASE Unstarted(a)
  BY <1>2, <1>3 DEF Unstarted, Stays
<1>4. CASE Through(a)
  BY <1>4, CopyStays DEF Through, Stays
<1>5. CASE Started(a)
  <2>1. PICK i \in 1 .. Len(log), c \in Nat : StartedAt(a, i, c)
    BY <1>5 DEF Started
  <2>2. /\ i \in 1 .. Len(log') /\ log'[i] = log[i]
        /\ \A l \in Len(log) + 1 .. Len(log') : ~IsChunk(log'[l], a)
    <3>1. ~AppendComplete(a)
      BY DEF AppendComplete
    <3> QED BY <3>1, LogKept, NoNewChunk
  <2>3. Copied(a, i, Len(log), c)'
    BY <2>1, <2>2, CopiedGrows DEF StartedAt
  <2>4. StartedAt(a, i, c)'
    BY <1>2, <2>1, <2>2, <2>3 DEF StartedAt, Stays
  <2> QED BY <2>2, <2>4 DEF Started
<1> QED BY <1>1, <1>3, <1>4, <1>5

(* The oldest batch of the session is ordered: the start, a chunk or the end. *)
LEMMA ProgressLands ==
  ASSUME TypeOK, OwnBatches, Progress, [Next]_vars, NEW a \in Attempts,
         Land(a), pc[a] \in {"body", "close"}, session[a] = "whole"
  PROVE  Unstarted(a)' \/ Started(a)' \/ Through(a)'
<1>1. Unstarted(a) \/ Started(a) \/ Through(a)
  BY DEF Progress, ProgressOf
<1>2. Stays(a) /\ Ending(a)' = Ending(a) /\ Ending(a) \in {0, 1} /\ (Ending(a) = 1 <=> pc[a] = "close")
  BY Landed DEF Stays, Ending
<1>3. PICK t \in Seq(Batches(a)) :
        /\ t = wire'[a] /\ Len(wire[a]) \in Nat \ {0} /\ Len(t) = Len(wire[a]) - 1
        /\ \A k \in 1 .. Len(t) : t[k] = wire[a][k + 1]
  <2>1. wire[a] \in Seq(Batches(a)) /\ wire[a] # <<>> /\ wire'[a] = Tail(wire[a])
    BY Landed
  <2> QED BY <2>1, HeadTailProperties, EmptySeq
<1>4. PICK s \in Batches(a) : s = wire[a][1] /\ log' = log \o s
  <2>1. Head(wire[a]) \in Batches(a) /\ log' = log \o Head(wire[a])
    BY Landed
  <2>2. Head(wire[a]) = wire[a][1]
    OBVIOUS
  <2> QED BY <2>1, <2>2
<1>5. /\ Len(log) \in Nat /\ Len(log') = Len(log) + Len(s)
      /\ \A i \in 1 .. Len(log) : log'[i] = log[i]
      /\ \A i \in Len(log) + 1 .. Len(log') : log'[i] = s[i - Len(log)]
  BY <1>4, Appended
<1>6. req[a].sent \in Nat /\ req'[a].sent = req[a].sent
  BY <1>2 DEF TypeOK, Requests, Stays
<1>7. ASSUME NEW r \in Records, s = <<r>>
      PROVE  Len(log') = Len(log) + 1 /\ log'[Len(log) + 1] = r
  <2>1. Len(s) = 1 /\ s[1] = r
    BY <1>7
  <2> QED BY <1>5, <2>1
<1>8. CASE Unstarted(a)
  <2>0. /\ Len(wire[a]) = req[a].sent + 1 + Ending(a)
        /\ \A k \in 1 .. Len(wire[a]) :
             /\ k = 1 => wire[a][k] = <<Start(a)>>
             /\ k # 1 /\ k <= req[a].sent + 1 => wire[a][k] = <<Chunk(a, k - 1)>>
             /\ k # 1 /\ ~(k <= req[a].sent + 1) => wire[a][k] = <<End(a)>>
    BY <1>8, Zenon DEF Unstarted
  <2>1. s = <<Start(a)>>
    <3>1. 1 \in 1 .. Len(wire[a])
      BY <1>3
    <3> QED BY <1>4, <2>0, <3>1
  <2>2. Len(log') = Len(log) + 1 /\ log'[Len(log) + 1] = Start(a)
    BY <1>7, <2>1, RecordTypes
  <2>4. PICK i \in Nat : i = Len(log) + 1
    BY <1>5
  <2>c. Copied(a, i, Len(log), 0)'
    <3>1. \A k \in i .. Len(log') : k = i /\ ~IsChunk(log'[k], a)
      BY <2>2, <2>4, ChunkFacts
    <3>2. \A k, l \in i .. Len(log') : ~(k < l)
      BY <3>1
    <3>3. \A n \in 1 .. 0 : FALSE
      OBVIOUS
    <3> QED BY <3>1, <3>2, <3>3 DEF Copied
  <2>5. \A k \in 1 .. Len(t) : t[k] = IF k <= req[a].sent - 0 THEN <<Chunk(a, 0 + k)>> ELSE <<End(a)>>
    <3> TAKE k \in 1 .. Len(t)
    <3>1. /\ k + 1 \in 1 .. Len(wire[a]) /\ k + 1 # 1 /\ (k + 1 <= req[a].sent + 1 <=> k <= req[a].sent - 0)
          /\ k + 1 - 1 = 0 + k
      BY <1>3, <1>6
    <3>2. t[k] = wire[a][k + 1]
      BY <1>3
    <3>3. CASE k <= req[a].sent - 0
      <4>1. wire[a][k + 1] = <<Chunk(a, (k + 1) - 1)>>
        BY <2>0, <3>1, <3>3, Zenon
      <4> QED BY <3>1, <3>2, <3>3, <4>1
    <3>4. CASE ~(k <= req[a].sent - 0)
      <4>1. wire[a][k + 1] = <<End(a)>>
        BY <2>0, <3>1, <3>4, Zenon
      <4> QED BY <3>2, <3>4, <4>1
    <3> QED BY <3>3, <3>4
  <2>6. StartedAt(a, i, 0)'
    <3>1. Len(t) = req'[a].sent - 0 + Ending(a)' /\ 0 <= req'[a].sent
      BY <1>2, <1>3, <1>6, <2>0
    <3>2. log'[i] = Start(a)
      BY <2>2, <2>4
    <3>3. /\ Len(wire'[a]) = req'[a].sent - 0 + Ending(a)'
          /\ \A k \in 1 .. Len(wire'[a]) :
               wire'[a][k] = IF k <= req'[a].sent - 0 THEN <<Chunk(a, 0 + k)>> ELSE <<End(a)>>
      BY <1>3, <1>6, <2>5, <3>1
    <3> QED BY <2>c, <3>1, <3>2, <3>3 DEF StartedAt, Chunk, End, Start, Record
  <2>7. i \in 1 .. Len(log')
    BY <1>5, <2>2, <2>4
  <2> QED BY <2>6, <2>7 DEF Started
<1>9. CASE Started(a)
  <2>1. PICK i \in 1 .. Len(log), c \in Nat : StartedAt(a, i, c)
    BY <1>9 DEF Started
  <2>2. i \in 1 .. Len(log') /\ log'[i] = Start(a)
    BY <1>5, <2>1 DEF StartedAt
  <2>3. /\ Len(wire[a]) = req[a].sent - c + Ending(a) /\ c <= req[a].sent
        /\ Copied(a, i, Len(log), c)
        /\ \A k \in 1 .. Len(wire[a]) :
             /\ k <= req[a].sent - c => wire[a][k] = <<Chunk(a, c + k)>>
             /\ ~(k <= req[a].sent - c) => wire[a][k] = <<End(a)>>
    BY <2>1, Zenon DEF StartedAt
  <2>f. 1 \in 1 .. Len(wire[a])
    BY <1>3
  <2>4. CASE c < req[a].sent
    <3>1. s = <<Chunk(a, c + 1)>> /\ c + 1 \in Nat
      <4>1. 1 <= req[a].sent - c
        BY <1>6, <2>4
      <4>2. wire[a][1] = <<Chunk(a, c + 1)>>
        BY <2>3, <2>f, <4>1, Zenon
      <4> QED BY <1>4, <4>2
    <3>2. Len(log') = Len(log) + 1 /\ log'[Len(log')] = Chunk(a, c + 1)
      BY <1>7, <3>1, RecordTypes
    <3>3. Copied(a, i, Len(log), c + 1)'
      BY <2>3, <3>2, CopiedGrows
    <3>6. \A k \in 1 .. Len(t) :
            t[k] = IF k <= req[a].sent - (c + 1) THEN <<Chunk(a, (c + 1) + k)>> ELSE <<End(a)>>
      <4> TAKE k \in 1 .. Len(t)
      <4>0. PICK x \in Nat, y \in Nat : x = req[a].sent /\ y = Len(wire[a])
        BY <1>3, <1>6
      <4>i. k \in 1 .. y - 1
        BY <1>3, <4>0
      <4>j. k + 1 \in 1 .. y /\ c + (k + 1) = (c + 1) + k /\ (k + 1 <= x - c <=> k <= x - (c + 1))
        BY <4>i
      <4>1. /\ k + 1 \in 1 .. Len(wire[a]) /\ c + (k + 1) = (c + 1) + k
            /\ (k + 1 <= req[a].sent - c <=> k <= req[a].sent - (c + 1))
        BY <4>0, <4>j
      <4>2. t[k] = wire[a][k + 1]
        BY <1>3
      <4>3. CASE k <= req[a].sent - (c + 1)
        <5>1. wire[a][k + 1] = <<Chunk(a, c + (k + 1))>>
          BY <2>3, <4>1, <4>3, Zenon
        <5> QED BY <4>1, <4>2, <4>3, <5>1
      <4>4. CASE ~(k <= req[a].sent - (c + 1))
        <5>1. wire[a][k + 1] = <<End(a)>>
          BY <2>3, <4>1, <4>4, Zenon
        <5> QED BY <4>2, <4>4, <5>1
      <4> QED BY <4>3, <4>4
    <3>7. StartedAt(a, i, c + 1)'
      <4>1. Len(t) = req'[a].sent - (c + 1) + Ending(a)' /\ c + 1 <= req'[a].sent
        BY <1>2, <1>3, <1>6, <2>3, <2>4
      <4>2. /\ Len(wire'[a]) = req'[a].sent - (c + 1) + Ending(a)'
            /\ \A k \in 1 .. Len(wire'[a]) :
                 wire'[a][k] = IF k <= req'[a].sent - (c + 1) THEN <<Chunk(a, (c + 1) + k)>> ELSE <<End(a)>>
        BY <1>3, <1>6, <3>6, <4>1
      <4> QED BY <2>2, <3>3, <4>1, <4>2 DEF StartedAt, Chunk, End, Start, Record
    <3> QED BY <2>2, <3>1, <3>7 DEF Started
  <2>5. CASE c = req[a].sent
    <3>1. Ending(a) = 1 /\ Len(wire[a]) = 1 /\ pc[a] = "close"
      BY <1>2, <1>3, <1>6, <2>3, <2>5
    <3>2. s = <<End(a)>> /\ t = <<>>
      <4>1. wire[a][1] = <<End(a)>>
        <5>1. ~(1 <= req[a].sent - c)
          BY <1>6, <2>5
        <5> QED BY <2>3, <2>f, <5>1, Zenon
      <4>2. Len(t) = 0
        BY <1>3, <3>1
      <4> QED BY <1>4, <4>1, <4>2, EmptySeq
    <3>3. Len(log') = Len(log) + 1 /\ log'[Len(log')] = End(a)
      BY <1>7, <3>2, RecordTypes
    <3>4. \A l \in Len(log) + 1 .. Len(log') : ~IsChunk(log'[l], a)
      <4>1. \A l \in Len(log) + 1 .. Len(log') : l = Len(log')
        BY <1>5, <3>3
      <4> QED BY <3>3, <4>1, ChunkFacts
    <3>5. Copied(a, i, Len(log), c)'
      BY <2>3, <3>4, CopiedGrows
    <3>6. Len(log') \in 1 .. Len(log') /\ i < Len(log') /\ c = req'[a].sent
      BY <1>5, <1>6, <2>5, <3>3
    <3>7. WholeCopy(a)'
      BY <2>2, <3>3, <3>5, <3>6 DEF WholeCopy, Copied
    <3> QED BY <1>2, <1>3, <3>1, <3>2, <3>7 DEF Through, Stays
  <2> QED BY <1>6, <2>3, <2>4, <2>5
<1>10. ~Through(a)
  BY DEF Through, Land
<1> QED BY <1>1, <1>8, <1>9, <1>10

(* The request hands over its start, a further chunk, or its end. *)
LEMMA ProgressSubmits ==
  ASSUME TypeOK, OwnBatches, Fresh, Progress, [Next]_vars, NEW a \in Attempts,
         SubmitStart(a) \/ SubmitChunk(a) \/ SubmitEnd(a), pc'[a] \in {"body", "close"}
  PROVE  Unstarted(a)' \/ Started(a)'
<1>0. session[a] = "whole"
  BY SubmitsWhole
<1>1. /\ wire[a] \in Seq(Batches(a)) /\ req[a].sent \in Nat /\ req[a].sent + 1 \in Nat
      /\ {<<Start(a)>>, <<Chunk(a, req[a].sent + 1)>>, <<End(a)>>} \subseteq Batches(a)
  <2>1. req[a].sent \in Nat /\ req[a].sent + 1 \in Nat
    BY DEF TypeOK, Requests
  <2> QED BY <2>1 DEF OwnBatches, Batches
<1>2. /\ Len(wire[a]) \in Nat
      /\ \A x \in Batches(a) : /\ Len(Append(wire[a], x)) = Len(wire[a]) + 1
                               /\ \A k \in 1 .. Len(wire[a]) : Append(wire[a], x)[k] = wire[a][k]
                               /\ Append(wire[a], x)[Len(wire[a]) + 1] = x
  BY <1>1, AppendProperties, LenProperties
<1>i. \A k \in 1 .. Len(wire[a]) + 1 : k \in 1 .. Len(wire[a]) \/ k = Len(wire[a]) + 1
  BY <1>2
<1>3. CASE SubmitStart(a)
  <2>1. pc'[a] = "body" /\ wire'[a] = Append(wire[a], <<Start(a)>>) /\ req'[a] = req[a]
    <3>1. pc'[a] = "body"
      BY <1>3, Targets
    <3> QED BY <1>3, <3>1, SubmitsWhole DEF SubmitStart
  <2>2. wire[a] = <<>> /\ req[a].sent = 0
    BY <1>3 DEF SubmitStart, Fresh, FreshPCs
  <2>3. Len(wire'[a]) = 1 /\ wire'[a][1] = <<Start(a)>>
    BY <1>1, <1>2, <2>1, <2>2
  <2> QED BY <2>1, <2>2, <2>3 DEF Unstarted, Ending
<1>4. CASE SubmitChunk(a)
  <2>1. /\ pc[a] = "body" /\ pc'[a] = "body" /\ wire'[a] = Append(wire[a], <<Chunk(a, req[a].sent + 1)>>)
        /\ req'[a].sent = req[a].sent + 1 /\ log' = log
    <3>1. pc'[a] = "body"
      BY <1>4, Targets
    <3> QED BY <1>4, <3>1, SubmitsWhole DEF SubmitChunk, TypeOK, Requests
  <2>2. /\ Len(wire'[a]) = Len(wire[a]) + 1 /\ wire'[a][Len(wire[a]) + 1] = <<Chunk(a, req[a].sent + 1)>>
        /\ \A k \in 1 .. Len(wire[a]) : wire'[a][k] = wire[a][k]
    BY <1>1, <1>2, <2>1
  <2>e. Ending(a) = 0 /\ Ending(a)' = 0
    BY <2>1 DEF Ending
  <2>3. CASE Unstarted(a)
    <3>1. Len(wire[a]) = req[a].sent + 1
      BY <1>1, <2>3, <2>e DEF Unstarted
    <3>2. \A k \in 1 .. Len(wire[a]) :
            wire[a][k] = IF k = 1 THEN <<Start(a)>> ELSE <<Chunk(a, k - 1)>>
      BY <1>1, <1>2, <2>3, <3>1 DEF Unstarted
    <3>3. \A k \in 1 .. Len(wire'[a]) :
            wire'[a][k] = IF k = 1 THEN <<Start(a)>>
                          ELSE IF k <= req'[a].sent + 1 THEN <<Chunk(a, k - 1)>> ELSE <<End(a)>>
      <4> TAKE k \in 1 .. Len(wire'[a])
      <4>1. CASE k \in 1 .. Len(wire[a])
        <5>1. k <= req'[a].sent + 1
          BY <1>1, <2>1, <3>1, <4>1
        <5> QED BY <2>2, <3>2, <4>1, <5>1
      <4>2. CASE k = Len(wire[a]) + 1
        <5>1. k # 1 /\ k <= req'[a].sent + 1 /\ k - 1 = req[a].sent + 1
          BY <1>1, <2>1, <3>1, <4>2
        <5>2. wire'[a][k] = <<Chunk(a, k - 1)>>
          BY <2>2, <4>2, <5>1
        <5> QED BY <5>1, <5>2
      <4> QED BY <1>i, <2>2, <4>1, <4>2
    <3>4. Len(wire'[a]) = req'[a].sent + 1 + Ending(a)'
      BY <1>1, <2>1, <2>2, <2>e, <3>1
    <3> QED BY <3>3, <3>4 DEF Unstarted, Start, Chunk, End, Record
  <2>4. CASE Started(a)
    <3>1. PICK i \in 1 .. Len(log), c \in Nat : StartedAt(a, i, c)
      BY <2>4 DEF Started
    <3>2. /\ log[i] = Start(a) /\ Copied(a, i, Len(log), c) /\ c <= req[a].sent
          /\ Len(wire[a]) = req[a].sent - c
          /\ \A k \in 1 .. Len(wire[a]) : wire[a][k] = <<Chunk(a, c + k)>>
      <4>1. /\ log[i] = Start(a) /\ Copied(a, i, Len(log), c) /\ c <= req[a].sent
            /\ Len(wire[a]) = req[a].sent - c + Ending(a)
            /\ \A k \in 1 .. Len(wire[a]) : k <= req[a].sent - c => wire[a][k] = <<Chunk(a, c + k)>>
        BY <3>1, Zenon DEF StartedAt
      <4>2. Len(wire[a]) = req[a].sent - c /\ \A k \in 1 .. Len(wire[a]) : k <= req[a].sent - c
        BY <1>1, <2>e, <4>1
      <4> QED BY <4>1, <4>2, Zenon
    <3>3. \A k \in 1 .. Len(wire'[a]) :
            wire'[a][k] = IF k <= req'[a].sent - c THEN <<Chunk(a, c + k)>> ELSE <<End(a)>>
      <4> TAKE k \in 1 .. Len(wire'[a])
      <4>1. k <= req'[a].sent - c
        BY <1>1, <1>2, <2>1, <2>2, <3>2
      <4>2. CASE k \in 1 .. Len(wire[a])
        BY <2>2, <3>2, <4>1, <4>2
      <4>3. CASE k = Len(wire[a]) + 1
        <5>1. c + k = req[a].sent + 1
          BY <1>1, <3>2, <4>3
        <5>2. wire'[a][k] = <<Chunk(a, c + k)>>
          BY <2>2, <4>3, <5>1
        <5> QED BY <4>1, <5>2
      <4> QED BY <1>i, <2>2, <4>2, <4>3
    <3>4. Copied(a, i, Len(log), c)'
      BY <2>1, <3>2 DEF Copied, IsChunk, Chunk, Record
    <3>5. Len(wire'[a]) = req'[a].sent - c + Ending(a)' /\ c <= req'[a].sent
      BY <1>1, <2>1, <2>2, <2>e, <3>2
    <3>8. log'[i] = Start(a) /\ i \in 1 .. Len(log')
      BY <2>1, <3>2
    <3>9. StartedAt(a, i, c)'
      BY <3>3, <3>4, <3>5, <3>8 DEF StartedAt, Start, Chunk, End, Record
    <3> QED BY <3>8, <3>9 DEF Started
  <2> QED BY <1>0, <2>1, <2>3, <2>4 DEF Progress, ProgressOf, Through
<1>5. CASE SubmitEnd(a)
  <2>1. /\ pc[a] = "body" /\ pc'[a] = "close" /\ wire'[a] = Append(wire[a], <<End(a)>>)
        /\ req'[a] = req[a] /\ log' = log
    <3>1. pc'[a] = "close"
      BY <1>5, Targets
    <3> QED BY <1>5, <3>1, SubmitsWhole DEF SubmitEnd
  <2>2. /\ Len(wire'[a]) = Len(wire[a]) + 1 /\ wire'[a][Len(wire[a]) + 1] = <<End(a)>>
        /\ \A k \in 1 .. Len(wire[a]) : wire'[a][k] = wire[a][k]
    BY <1>1, <1>2, <2>1
  <2>e. Ending(a) = 0 /\ Ending(a)' = 1
    BY <2>1 DEF Ending
  <2>3. CASE Unstarted(a)
    <3>1. Len(wire[a]) = req[a].sent + 1
      BY <1>1, <2>3, <2>e DEF Unstarted
    <3>2. \A k \in 1 .. Len(wire'[a]) :
            wire'[a][k] = IF k = 1 THEN <<Start(a)>>
                          ELSE IF k <= req'[a].sent + 1 THEN <<Chunk(a, k - 1)>> ELSE <<End(a)>>
      <4>1. \A k \in 1 .. Len(wire[a]) :
              k <= req[a].sent + 1 /\ wire[a][k] = IF k = 1 THEN <<Start(a)>> ELSE <<Chunk(a, k - 1)>>
        BY <1>1, <1>2, <2>3, <3>1 DEF Unstarted
      <4>2. Len(wire[a]) + 1 # 1 /\ ~(Len(wire[a]) + 1 <= req[a].sent + 1)
        BY <1>1, <3>1
      <4> QED BY <1>i, <2>1, <2>2, <4>1, <4>2
    <3>3. Len(wire'[a]) = req'[a].sent + 1 + Ending(a)'
      BY <1>1, <2>1, <2>2, <2>e, <3>1
    <3> QED BY <3>2, <3>3 DEF Unstarted, Start, Chunk, End, Record
  <2>4. CASE Started(a)
    <3>1. PICK i \in 1 .. Len(log), c \in Nat : StartedAt(a, i, c)
      BY <2>4 DEF Started
    <3>2. /\ log[i] = Start(a) /\ Copied(a, i, Len(log), c) /\ c <= req[a].sent
          /\ Len(wire[a]) = req[a].sent - c + Ending(a)
          /\ \A k \in 1 .. Len(wire[a]) :
               wire[a][k] = IF k <= req[a].sent - c THEN <<Chunk(a, c + k)>> ELSE <<End(a)>>
      BY <3>1 DEF StartedAt
    <3>3. \A k \in 1 .. Len(wire'[a]) :
            wire'[a][k] = IF k <= req'[a].sent - c THEN <<Chunk(a, c + k)>> ELSE <<End(a)>>
      <4>1. ~(Len(wire[a]) + 1 <= req[a].sent - c)
        BY <1>1, <2>e, <3>2
      <4> QED BY <1>i, <2>1, <2>2, <3>2, <4>1
    <3>4. Copied(a, i, Len(log), c)'
      BY <2>1, <3>2 DEF Copied, IsChunk, Chunk, Record
    <3>5. Len(wire'[a]) = req'[a].sent - c + Ending(a)' /\ c <= req'[a].sent
      BY <1>1, <2>1, <2>2, <2>e, <3>2
    <3>8. log'[i] = Start(a) /\ i \in 1 .. Len(log')
      BY <2>1, <3>2
    <3>9. StartedAt(a, i, c)'
      BY <3>3, <3>4, <3>5, <3>8 DEF StartedAt, Start, Chunk, End, Record
    <3> QED BY <3>8, <3>9 DEF Started
  <2> QED BY <1>0, <2>1, <2>3, <2>4 DEF Progress, ProgressOf, Through
<1> QED BY <1>3, <1>4, <1>5

(* Whatever fails: every step of a request keeps its progress. *)
LEMMA ProgressStep ==
  ASSUME TypeOK, OwnBatches, Fresh, Progress, [Next]_vars
  PROVE  Progress'
<1> SUFFICES ASSUME NEW a \in Attempts PROVE ProgressOf(a)'
  BY DEF Progress
<1>0. ProgressOf(a)
  BY DEF Progress
<1>1. ASSUME pc'[a] \in {"body", "close"}, session'[a] = "whole"
      PROVE  Unstarted(a)' \/ Started(a)' \/ Through(a)'
  <2>2. CASE Stays(a)
    <3>1. pc[a] \in {"body", "close"} /\ session[a] = "whole" /\ ~Break(a) /\ ~Lose(a)
      BY <1>1, <2>2, VerdictStays DEF Stays
    <3>2. CASE Land(a)
      BY <3>1, <3>2, ProgressLands
    <3>3. CASE ~Land(a)
      BY <2>2, <3>1, <3>3, WireStays, ProgressRests
    <3> QED BY <3>2, <3>3
  <2>3. CASE SubmitStart(a) \/ SubmitChunk(a) \/ SubmitEnd(a)
    BY <1>1, <2>3, ProgressSubmits
  <2> QED BY <1>1, <2>2, <2>3, Arrives
<1>2. ASSUME pc'[a] \in {"tailEnd", "dedup", "head", "release"}
      PROVE  WholeCopy(a)' \/ session'[a] = "silent"
  <2>1. CASE AppendComplete(a)
    <3>1. /\ log' = log \o CompleteBatch(a) /\ CompleteBatch(a) \in Batches(a)
          /\ req'[a].sent = 1
      BY <1>2, <2>1 DEF AppendComplete, Goto, Batches, TypeOK, Requests
    <3>2. /\ Len(CompleteBatch(a)) = 3 /\ CompleteBatch(a)[1] = Start(a)
          /\ CompleteBatch(a)[2] = Chunk(a, 1) /\ CompleteBatch(a)[3] = End(a)
      BY DEF CompleteBatch
    <3>3. /\ Len(log) \in Nat /\ Len(log') = Len(log) + 3
          /\ \A i \in Len(log) + 1 .. Len(log') : log'[i] = CompleteBatch(a)[i - Len(log)]
      <4>1. /\ Len(log) \in Nat /\ Len(log') = Len(log) + Len(CompleteBatch(a))
            /\ \A i \in Len(log) + 1 .. Len(log') : log'[i] = CompleteBatch(a)[i - Len(log)]
        BY <3>1, Appended
      <4> QED BY <3>2, <4>1
    <3>4. PICK k \in Nat : k = Len(log)
      BY <3>3
    <3>5. log'[k + 1] = Start(a) /\ log'[k + 2] = Chunk(a, 1) /\ log'[k + 3] = End(a)
      <4>1. \A i \in {k + 1, k + 2, k + 3} : i \in Len(log) + 1 .. Len(log')
        BY <3>3, <3>4
      <4>2. k + 1 - Len(log) = 1 /\ k + 2 - Len(log) = 2 /\ k + 3 - Len(log) = 3
        BY <3>4
      <4> QED BY <3>2, <3>3, <4>1, <4>2
    <3>6. \A l \in k + 1 .. k + 3 : IsChunk(log'[l], a) => l = k + 2
      <4>1. \A l \in k + 1 .. k + 3 : l = k + 1 \/ l = k + 2 \/ l = k + 3
        OBVIOUS
      <4> QED BY <3>5, <4>1, ChunkFacts
    <3>7. /\ \A n \in 1 .. req'[a].sent : \E l \in k + 1 .. k + 3 : log'[l] = Chunk(a, n)
          /\ \A x, l \in k + 1 .. k + 3 :
               x < l /\ IsChunk(log'[x], a) /\ IsChunk(log'[l], a) => log'[x].part < log'[l].part
      <4>1. k + 2 \in k + 1 .. k + 3 /\ \A n \in 1 .. req'[a].sent : n = 1
        BY <3>1
      <4>2. \A x, l \in k + 1 .. k + 3 : x < l => ~(x = k + 2 /\ l = k + 2)
        OBVIOUS
      <4> QED BY <3>5, <3>6, <4>1, <4>2
    <3>8. k + 1 \in 1 .. Len(log') /\ k + 3 \in 1 .. Len(log') /\ k + 1 < k + 3
      BY <3>3, <3>4
    <3> QED BY <3>5, <3>7, <3>8 DEF WholeCopy
  <2>2. CASE Stays(a) \/ CloseSession(a) \/ CheckTailAfter(a) \/ DedupComplete(a) \/ AdvanceHead(a)
    <3>1. req'[a].sent = req[a].sent
      <4>1. CheckTailAfter(a) => req'[a].sent = req[a].sent
        BY DEF CheckTailAfter, TypeOK, Requests
      <4>2. Stays(a) \/ CloseSession(a) \/ DedupComplete(a) \/ AdvanceHead(a) => req'[a] = req[a]
        BY DEF Stays, CloseSession, DedupComplete, AdvanceHead
      <4> QED BY <2>2, <4>1, <4>2
    <3>2. CASE CloseSession(a)
      <4>1. /\ pc[a] = "close" /\ wire[a] = <<>> /\ session[a] # "failed" /\ session'[a] = session[a]
        BY <1>2, <3>2 DEF CloseSession, ToAbort, Goto, TypeOK
      <4>2. CASE session[a] = "whole"
        <5>2. Len(wire[a]) = 0 /\ Ending(a) = 1 /\ req[a].sent \in Nat
          BY <4>1 DEF Ending, TypeOK, Requests
        <5>3. ~Unstarted(a) /\ ~Started(a)
          BY <5>2 DEF Unstarted, Started, StartedAt
        <5>4. WholeCopy(a)
          BY <1>0, <4>1, <4>2, <5>3 DEF ProgressOf, Through
        <5> QED BY <3>1, <5>4, CopyStays
      <4> QED BY <4>1, <4>2 DEF TypeOK
    <3>3. CASE ~CloseSession(a)
      <4>1. pc[a] \in {"tailEnd", "dedup", "head", "release"}
        BY <1>2, <2>2, <3>3 DEF Stays, CheckTailAfter, DedupComplete, AdvanceHead
      <4>2. session'[a] = session[a] /\ (WholeCopy(a) \/ session[a] = "silent")
        BY <1>0, <4>1, VerdictStays DEF ProgressOf
      <4> QED BY <3>1, <4>2, CopyStays
    <3> QED BY <3>2, <3>3
  <2> QED BY <1>2, <2>1, <2>2, Arrives
<1> QED BY <1>1, <1>2 DEF ProgressOf

(* What is settled stays settled. *)
LEMMA SettledStays ==
  ASSUME TypeOK, OwnBatches, [Next]_vars, NEW m \in Msgs, Settled(m)
  PROVE  Settled(m)'
<1>1. PICK a \in Attempts : /\ req[a].msg = m /\ pc[a] \in SettledPCs
                            /\ WholeCopy(a) \/ session[a] = "silent"
  BY DEF Settled
<1>2. SettledPCs = {"dedup", "head", "release", "done", "dead"}
  BY DEF SettledPCs
<1>3. pc'[a] \in SettledPCs /\ req'[a].sent = req[a].sent
  <2>1. /\ \A k \in {"send", "stream"} : ~Gate(a, k)
        /\ ~Claim(a) /\ ~AppendComplete(a) /\ ~CheckTailBefore(a) /\ ~SubmitStart(a) /\ ~SubmitChunk(a)
        /\ ~SubmitEnd(a) /\ ~BodyFails(a) /\ ~CloseSession(a) /\ ~CloseForAbort(a) /\ ~CheckTailAfter(a)
        /\ ~AbortAppend(a) /\ ~AbortDedup(a) /\ ~AbortRelease(a) /\ ~AbortExpires(a)
    BY <1>1, <1>2 DEF Gate, Claim, AppendComplete, CheckTailBefore, SubmitStart, SubmitChunk, SubmitEnd,
          BodyFails, CloseSession, CloseForAbort, CheckTailAfter, AbortAppend, AbortDedup, AbortRelease,
          AbortExpires
  <2>2. CASE DedupComplete(a) \/ AdvanceHead(a) \/ Release(a)
    <3>1. req'[a].sent = req[a].sent
      BY <2>2 DEF DedupComplete, AdvanceHead, Release, Reply, TypeOK, Requests
    <3> QED BY <1>2, <2>2, <3>1, Targets
  <2> QED BY <1>1, <1>2, <2>1, <2>2, Elsewhere DEF Handler, Body
<1>4. session'[a] = session[a]
  BY <1>1, <1>2, VerdictStays
<1> QED BY <1>1, <1>3, <1>4, CopyStays, MsgStep DEF Settled

(* A row turns complete, and an answer is given, for what is settled only. *)
LEMMA SettledStep ==
  ASSUME TypeOK, OwnBatches, Fresh, Progress, SettledInv, [Next]_vars
  PROVE  SettledInv'
<1>0. ASSUME NEW a \in Attempts, NEW m \in Msgs, req[a].msg = m, DedupComplete(a) \/ Release(a)
      PROVE  Settled(m)'
  <2>1. pc[a] \in {"dedup", "release"} /\ pc[a] \in SettledPCs
    BY <1>0 DEF DedupComplete, Release, SettledPCs
  <2>2. Settled(m)
    BY <1>0, <2>1 DEF Progress, ProgressOf, Settled
  <2> QED BY <2>2, SettledStays
<1>v. \A m \in Msgs : Vouched(m) => Settled(m)
  BY DEF SettledInv
<1>1. ASSUME NEW m \in Msgs, dedup'[m].status = "complete" PROVE Settled(m)'
  <2>1. dedup'[m] = dedup[m] \/ \E a \in Attempts : req[a].msg = m /\ DedupComplete(a)
    BY <1>1, DedupStep DEF Aborted
  <2>2. CASE dedup'[m] = dedup[m]
    BY <1>1, <1>v, <2>2, SettledStays DEF Vouched
  <2> QED BY <1>0, <2>1, <2>2
<1>2. ASSUME NEW m \in Msgs, NEW a \in Attempts, req'[a].msg = m, req'[a].answer \in {"created", "replayed"}
      PROVE  Settled(m)'
  <2>1. req[a].msg = m
    BY <1>2, MsgStep
  <2>2. CASE req[a].answer \in {"created", "replayed"} \/ dedup[m].status = "complete"
    BY <1>v, <2>1, <2>2, SettledStays DEF Vouched
  <2>3. CASE Release(a)
    BY <1>0, <2>1, <2>3
  <2> QED BY <1>2, <2>1, <2>2, <2>3, AnswerMoves
<1>3. \A m \in Msgs : Vouched(m)' =>
        \/ dedup'[m].status = "complete"
        \/ \E a \in Attempts : req'[a].msg = m /\ req'[a].answer \in {"created", "replayed"}
  BY DEF Vouched
<1> QED BY <1>1, <1>2, <1>3 DEF SettledInv

(* Whatever fails, whoever leaves and whenever a request or the server ends: a "complete" row, *)
(* a 200 or 201 and a replayed answer stand for a message that is on the stream, from start to *)
(* end, with every chunk once and in order, or for one whose cancelled session has lost        *)
(* records and reported no error.                                                              *)
THEOREM CompleteMeansWhole == Spec => []CompleteIsOnLog
<1> DEFINE IInv == OwnBatches /\ Fresh /\ Progress /\ SettledInv
<1>1. Init => IInv
  <2> SUFFICES ASSUME Init PROVE IInv
    OBVIOUS
  <2>1. \A a \in Attempts : wire[a] = <<>> /\ wire[a] \in Seq(Batches(a)) /\ pc[a] = "idle"
    BY EmptySeq DEF Init
  <2>2. \A a \in Attempts : req[a].answer = "none" /\ req[a].sent = 0 /\ session[a] = "whole"
    BY DEF Init, NoReq
  <2>3. \A m \in Msgs : dedup[m].status = "none"
    BY DEF Init, NoRow
  <2> QED BY <2>1, <2>2, <2>3 DEF OwnBatches, Fresh, Progress, ProgressOf, SettledInv, Vouched
<1>2. TypeOK /\ IInv /\ [Next]_vars => IInv'
  BY OwnBatchesStep, FreshStep, ProgressStep, SettledStep
<1>3. SettledInv => CompleteIsOnLog
  BY DEF SettledInv, Settled, CompleteIsOnLog, OnLog
<1> QED BY <1>1, <1>2, <1>3, TypeCorrect, PTL DEF Spec
=============================================================================
