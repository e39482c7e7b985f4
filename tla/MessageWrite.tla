---------------------------- MODULE MessageWrite ----------------------------
(***************************************************************************)
(* The two message-write handlers of internal/api (SendMessage in          *)
(* messages.go, StreamMessage in streaming.go), the abort path they share  *)
(* and the recovery sweep of cmd/server/main.go, over one conversation:    *)
(* its S2 stream, its in_progress_messages and messages_dedup rows and its *)
(* head_seq.                                                               *)
(*                                                                         *)
(* An attempt is one HTTP request.  Attempts with the same message_id are  *)
(* retries, or two requests racing.  Every call a handler makes to S2 or   *)
(* to Postgres is one step; a failed call may have had its effect or not.  *)
(* The append session is pipelined: Submit hands a record over, S2 orders  *)
(* it later.  Record 0 of a stream is the agent_joined of its creator, so  *)
(* log[i] has sequence number i.                                           *)
(***************************************************************************)
EXTENDS Integers, Sequences, FiniteSets

CONSTANTS Msgs,        \* client-supplied message_ids
          Attempts,    \* HTTP requests that write a message
          MaxChunks,   \* bound on the chunks of a streamed body
          MaxCrashes,  \* bound on the crashes of the server
          Faults       \* what may happen: "pg", "s2": calls fail; "late": a failed append may
                       \* still be ordered by S2 afterwards; "ctx": the context of a request
                       \* ends (disconnect, timeout); "leave": a leave cancels a streamed write

ASSUME FaultsAssumption == Faults \subseteq {"pg", "s2", "late", "ctx", "leave"}
ASSUME BoundsAssumption == MaxChunks \in Nat /\ MaxCrashes \in Nat

VARIABLES log,        \* the S2 stream, agent_joined excluded
          claims,     \* in_progress_messages: the attempts whose row is there
          dedup,      \* messages_dedup by message_id
          head,       \* conversations.head_seq
          pc,         \* where each attempt stands
          req,        \* what each attempt is about and has been answered
          wire,       \* wire[a]: batches handed to S2, not yet ordered
          aborts,     \* attempts whose message_abort is handed to S2, not yet ordered
          session,    \* session[a]: a's append session is "whole", has "failed", or has
                      \* lost records and keeps no error of it, "silent"
          ctx,        \* ctx[a]: the context of a's calls is "live", "cut" by a leave, or "ended"
          sweep,      \* sweep[m]: what the recovery sweep has still to do for row m
          crashes

tables == <<claims, dedup, head>>
sessions == <<session, ctx>>
sweepVars == <<sweep, crashes>>
vars == <<log, tables, pc, req, wire, aborts, sessions, sweepVars>>

(***************************************************************************)
(* Records, rows and replies                                               *)
(***************************************************************************)
Record(t, a, n) == [type |-> t, by |-> a, part |-> n]
Start(a)    == Record("message_start", a, 0)
Chunk(a, n) == Record("message_append", a, n)
End(a)      == Record("message_end", a, 0)
Abort(a)    == Record("message_abort", a, 0)

(* NewCompleteMessageEvents: one batch, which S2 orders as a unit. *)
CompleteBatch(a) == <<Start(a), Chunk(a, 1), End(a)>>

NoRow == [status |-> "none", start |-> 0, end |-> 0]
Aborted == [status |-> "aborted", start |-> 0, end |-> 0]
Complete(range) == [status |-> "complete", start |-> range[1], end |-> range[2]]

NoReq(m) == [msg |-> m, kind |-> "send", sent |-> 0, tail |-> 0, range |-> <<0, 0>>, answer |-> "none"]

(* The rows of in_progress_messages for message m: at most one. *)
Row(m) == {a \in claims : req[a].msg = m}

(* CheckTail answers one past the last record. *)
Tail0 == Len(log) + 1

(* The HTTP listener starts once the sweep is through. *)
Serving == \A m \in Msgs : sweep[m] = "none"

(* The pcs between a successful claim and the delete of the claim. *)
WritePCs == {"append", "tail", "open", "body", "close", "closeAbort", "tailEnd", "dedup", "head",
             "release", "abortAppend", "abortDedup", "abortRelease"}
Writing(a) == pc[a] \in WritePCs

Init == /\ log = <<>>
        /\ claims = {}
        /\ dedup = [m \in Msgs |-> NoRow]
        /\ head = 0
        /\ pc = [a \in Attempts |-> "idle"]
        /\ req \in [Attempts -> {NoReq(m) : m \in Msgs}]
        /\ wire = [a \in Attempts |-> <<>>]
        /\ aborts = {}
        /\ session = [a \in Attempts |-> "whole"]
        /\ ctx = [a \in Attempts |-> "live"]
        /\ sweep = [m \in Msgs |-> "none"]
        /\ crashes = 0

(***************************************************************************)
(* Statements on the two tables                                            *)
(***************************************************************************)

(* Slip: the later outcome replaces the earlier one. *)
InsertReplacing(m, row) == dedup' = [dedup EXCEPT ![m] = row]

(* INSERT INTO messages_dedup ... ON CONFLICT DO NOTHING *)
InsertDedup(m, row) ==
    dedup' = IF dedup[m].status = "none" THEN [dedup EXCEPT ![m] = row] ELSE dedup

(* DELETE FROM in_progress_messages WHERE message_id = m *)
DeleteInProgress(m) == claims' = claims \ Row(m)

(* Slip: the update without its WHERE clause, the last writer wins. *)
UpdateHeadLast(seq) == head' = seq

(* UPDATE conversations SET head_seq = seq WHERE head_seq < seq *)
UpdateHead(seq) == head' = IF head < seq THEN seq ELSE head

(***************************************************************************)
(* The dedup gate and the claim, common to both handlers                   *)
(***************************************************************************)
Goto(a, where) == pc' = [pc EXCEPT ![a] = where]
Reply(a, answer) == /\ pc' = [pc EXCEPT ![a] = "done"]
                    /\ req' = [req EXCEPT ![a].answer = answer]

(* GetMessageDedup, for a request of either kind. *)
Gate(a, kind) ==
    LET m == req[a].msg IN
    /\ pc[a] = "idle" /\ Serving
    /\ \/ /\ dedup[m].status = "none"
          /\ pc' = [pc EXCEPT ![a] = "claim"]
          /\ req' = [req EXCEPT ![a].kind = kind]
       \/ dedup[m].status = "complete" /\ Reply(a, "replayed")
       \/ dedup[m].status = "aborted" /\ Reply(a, "already_aborted")
       \/ Faults \cap {"pg", "ctx"} # {} /\ Reply(a, "error")
    /\ UNCHANGED <<log, tables, wire, aborts, sessions, sweepVars>>

(* Slip: a row that is already there does not stop the second writer. *)
ClaimAnyway(a) ==
    /\ pc[a] = "claim"
    /\ claims' = claims \cup {a}
    /\ Goto(a, IF req[a].kind = "send" THEN "append" ELSE "tail")
    /\ UNCHANGED <<log, req, dedup, head, wire, aborts, sessions, sweepVars>>

(* ClaimInProgressMessage: INSERT ... ON CONFLICT DO NOTHING, and the row count.  An *)
(* error, also that of a context that ends, says nothing of whether the row is there. *)
Claim(a) ==
    /\ pc[a] = "claim"
    /\ \/ /\ Row(req[a].msg) = {}
          /\ claims' = claims \cup {a}
          /\ \/ /\ Goto(a, IF req[a].kind = "send" THEN "append" ELSE "tail")
                /\ UNCHANGED req
             \/ Faults \cap {"pg", "ctx"} # {} /\ Reply(a, "error")
       \/ /\ Row(req[a].msg) # {}
          /\ Reply(a, "in_progress_conflict")
          /\ UNCHANGED claims
       \/ Faults \cap {"pg", "ctx"} # {} /\ Reply(a, "error") /\ UNCHANGED claims
    /\ UNCHANGED <<log, dedup, head, wire, aborts, sessions, sweepVars>>

(***************************************************************************)
(* Contexts: the calls carry that of the request; those of an append       *)
(* session streamCtx, which is cancelled with it, and by LookupAndCancel   *)
(* of a leave; those of the abort path one of their own                    *)
(***************************************************************************)
Cut(a)   == ctx[a] # "live"
Ended(a) == ctx[a] = "ended"

Streaming == {"tail", "open", "body", "close", "closeAbort"}

(* The client disconnects, or the time of the request is up. *)
EndRequest(a) == /\ "ctx" \in Faults
                 /\ pc[a] \in Streaming \cup {"tailEnd", "dedup", "head", "release"} /\ ~Ended(a)
                 /\ ctx' = [ctx EXCEPT ![a] = "ended"]
                 /\ UNCHANGED <<log, tables, pc, req, wire, aborts, session, sweepVars>>

(* The agent leaves the conversation. *)
CancelWrite(a) == /\ "leave" \in Faults
                  /\ pc[a] \in Streaming /\ ~Cut(a)
                  /\ ctx' = [ctx EXCEPT ![a] = "cut"]
                  /\ UNCHANGED <<log, tables, pc, req, wire, aborts, session, sweepVars>>

(* The session is left, for the abort path. *)
ToAbort(a) == /\ Goto(a, "abortAppend")
              /\ ctx' = [ctx EXCEPT ![a] = "live"]
              /\ session' = [session EXCEPT ![a] = "whole"]

(***************************************************************************)
(* S2                                                                      *)
(***************************************************************************)

(* The oldest batch of a's session is ordered. *)
Land(a) == /\ wire[a] # <<>>
           /\ log' = log \o Head(wire[a])
           /\ wire' = [wire EXCEPT ![a] = Tail(@)]
           /\ UNCHANGED <<tables, pc, req, aborts, sessions, sweepVars>>

(* The session fails: what it had not ordered is lost, and the error sticks (cachedErr). *)
Break(a) == /\ "s2" \in Faults
            /\ pc[a] \in {"body", "close", "closeAbort"} /\ wire[a] # <<>>
            /\ wire' = [wire EXCEPT ![a] = <<>>]
            /\ session' = [session EXCEPT ![a] = "failed"]
            /\ UNCHANGED <<log, tables, pc, req, aborts, ctx, sweepVars>>

(* The session's context is cancelled under it.  drainLoop drops acknowledgements that fail *)
(* with context.Canceled: when all do, no error sticks.                                     *)
Lose(a) == /\ Cut(a)
           /\ pc[a] \in {"body", "close"} /\ wire[a] # <<>>
           /\ wire' = [wire EXCEPT ![a] = <<>>]
           /\ \E s \in {"failed", "silent"} : session' = [session EXCEPT ![a] = s]
           /\ UNCHANGED <<log, tables, pc, req, aborts, ctx, sweepVars>>

(* An abort whose append had timed out is ordered after all. *)
LandAbort(a) == /\ a \in aborts
                /\ log' = Append(log, Abort(a))
                /\ aborts' = aborts \ {a}
                /\ UNCHANGED <<tables, pc, req, wire, sessions, sweepVars>>

(* What becomes of batches when the call that waits for them fails. *)
Abandon(a, batches) == wire' = [wire EXCEPT ![a] = IF "late" \in Faults THEN batches ELSE <<>>]

(***************************************************************************)
(* SendMessage                                                             *)
(***************************************************************************)

(* AppendEvents of the three records: ordered and acknowledged, or an error. *)
AppendComplete(a) ==
    /\ pc[a] = "append"
    /\ \/ /\ log' = log \o CompleteBatch(a)
          /\ req' = [req EXCEPT ![a].sent = 1, ![a].range = <<Tail0, Tail0 + 2>>]
          /\ Goto(a, "dedup") /\ UNCHANGED wire
       \/ /\ Faults \cap {"s2", "ctx"} # {}
          /\ req' = [req EXCEPT ![a].sent = 1]
          /\ Goto(a, "abortAppend")
          /\ \/ log' = log \o CompleteBatch(a) /\ UNCHANGED wire
             \/ UNCHANGED log /\ Abandon(a, <<CompleteBatch(a)>>)
    /\ UNCHANGED <<tables, aborts, sessions, sweepVars>>

(***************************************************************************)
(* StreamMessage                                                           *)
(***************************************************************************)

(* CheckTail: one past the last record, or an error, which is ignored and leaves 0. *)
Tails(over) == (IF over THEN {} ELSE {Tail0}) \cup (IF over \/ "s2" \in Faults THEN {0} ELSE {})

(* Before the session, with streamCtx. *)
CheckTailBefore(a) ==
    /\ pc[a] = "tail"
    /\ \E t \in Tails(Cut(a)) : req' = [req EXCEPT ![a].tail = t]
    /\ Goto(a, "open")
    /\ UNCHANGED <<log, tables, wire, aborts, sessions, sweepVars>>

(* Submit: the session takes the record, or the handler turns to the abort path. *)
(* Its error (ErrSlowWriter, context.Canceled) does not tell whether the record  *)
(* was taken.                                                                    *)
Submit(a, rec, next) ==
    \/ /\ session[a] = "whole"
       /\ wire' = [wire EXCEPT ![a] = Append(@, <<rec>>)]
       /\ Goto(a, next)
    \/ /\ "s2" \in Faults \/ Cut(a)
       /\ \/ UNCHANGED wire
          \/ session[a] = "whole" /\ wire' = [wire EXCEPT ![a] = Append(@, <<rec>>)]
       /\ Goto(a, "closeAbort")

(* OpenAppendSession and the submit of message_start. *)
SubmitStart(a) ==
    /\ pc[a] = "open"
    /\ \/ Submit(a, Start(a), "body") /\ UNCHANGED sessions
       \/ ("s2" \in Faults \/ Cut(a)) /\ ToAbort(a) /\ UNCHANGED wire
    /\ UNCHANGED <<log, tables, req, aborts, sweepVars>>

SubmitChunk(a) ==
    /\ pc[a] = "body" /\ req[a].sent < MaxChunks
    /\ Submit(a, Chunk(a, req[a].sent + 1), "body")
    /\ req' = [req EXCEPT ![a].sent = @ + 1]
    /\ UNCHANGED <<log, tables, aborts, sessions, sweepVars>>

(* The body ends cleanly. *)
SubmitEnd(a) ==
    /\ pc[a] = "body"
    /\ Submit(a, End(a), "close")
    /\ UNCHANGED <<log, tables, req, aborts, sessions, sweepVars>>

(* A malformed or oversized line, invalid UTF-8, a deadline or a disconnect. *)
BodyFails(a) == /\ pc[a] = "body"
                /\ Goto(a, "closeAbort")
                /\ UNCHANGED <<log, tables, req, wire, aborts, sessions, sweepVars>>

(* Slip: Close does not wait for the acknowledgements it is owed. *)
CloseEarly(a) == /\ pc[a] = "close"
                 /\ Goto(a, "tailEnd")
                 /\ UNCHANGED <<log, tables, req, wire, aborts, sessions, sweepVars>>

(* Slip: Close forgets the error that has stuck. *)
CloseForgetting(a) ==
    /\ pc[a] = "close" /\ wire[a] = <<>>
    /\ Goto(a, "tailEnd")
    /\ UNCHANGED <<log, tables, req, wire, aborts, sessions, sweepVars>>

(* session.Close drains the tickets: nil means that every record is ordered, or that *)
(* no error of those that are not has stuck.                                         *)
CloseSession(a) ==
    /\ pc[a] = "close"
    /\ \/ /\ wire[a] = <<>> /\ session[a] # "failed"
          /\ Goto(a, "tailEnd")
          /\ ctx' = [ctx EXCEPT ![a] = IF Ended(a) THEN "ended" ELSE "live"]
          /\ UNCHANGED <<wire, session>>
       \/ session[a] # "whole" /\ ToAbort(a) /\ UNCHANGED wire
       \/ ("s2" \in Faults \/ Cut(a)) /\ ToAbort(a) /\ Abandon(a, wire[a])
    /\ UNCHANGED <<log, tables, req, aborts, sweepVars>>

(* abortAndReply: session.Close, its result ignored. *)
CloseForAbort(a) ==
    /\ pc[a] = "closeAbort"
    /\ ToAbort(a)
    /\ \/ wire[a] = <<>> /\ UNCHANGED wire
       \/ ("s2" \in Faults \/ Cut(a)) /\ Abandon(a, wire[a])
    /\ UNCHANGED <<log, tables, req, aborts, sweepVars>>

(* Slip: a tail that is not known is counted down from 0. *)
StreamRangeUnchecked(before, after) == <<before + 1, after - 1>>

(* seqStart = tailBefore + 1, seqEnd = tailAfter, both 0 when that is no range. *)
StreamRange(before, after) == IF after < before + 1 THEN <<0, 0>> ELSE <<before + 1, after>>

(* With the context of the request. *)
CheckTailAfter(a) ==
    /\ pc[a] = "tailEnd"
    /\ \E t \in Tails(Ended(a)) : req' = [req EXCEPT ![a].range = StreamRange(req[a].tail, t)]
    /\ Goto(a, "dedup")
    /\ UNCHANGED <<log, tables, wire, aborts, sessions, sweepVars>>

(***************************************************************************)
(* After the append: three statements, with the request's context, whose   *)
(* errors are only logged                                                  *)
(***************************************************************************)
DedupComplete(a) ==
    /\ pc[a] = "dedup"
    /\ \/ ~Ended(a) /\ InsertDedup(req[a].msg, Complete(req[a].range))
       \/ ("pg" \in Faults \/ Ended(a)) /\ UNCHANGED dedup
    /\ Goto(a, "head")
    /\ UNCHANGED <<log, claims, head, req, wire, aborts, sessions, sweepVars>>

AdvanceHead(a) ==
    /\ pc[a] = "head"
    /\ \/ ~Ended(a) /\ UpdateHead(req[a].range[2])
       \/ ("pg" \in Faults \/ Ended(a)) /\ UNCHANGED head
    /\ Goto(a, "release")
    /\ UNCHANGED <<log, claims, dedup, req, wire, aborts, sessions, sweepVars>>

(* Slip: the claim is never given back. *)
ReleaseNothing(a) == /\ pc[a] = "release"
                     /\ Reply(a, "created")
                     /\ UNCHANGED <<log, tables, wire, aborts, sessions, sweepVars>>

(* DeleteInProgressMessage, and the answer: 201 from SendMessage, 200 from StreamMessage. *)
Release(a) ==
    /\ pc[a] = "release"
    /\ \/ ~Ended(a) /\ DeleteInProgress(req[a].msg)
       \/ ("pg" \in Faults \/ Ended(a)) /\ UNCHANGED claims
    /\ Reply(a, "created")
    /\ UNCHANGED <<log, dedup, head, wire, aborts, sessions, sweepVars>>

(***************************************************************************)
(* finalizeCompleteAbort, finalizeStreamAbort: best effort, step by step,  *)
(* in one context of five seconds, detached from the request's             *)
(***************************************************************************)
AbortAppend(a) ==
    /\ pc[a] = "abortAppend"
    /\ \/ log' = Append(log, Abort(a)) /\ UNCHANGED aborts
       \/ "s2" \in Faults /\ UNCHANGED <<log, aborts>>
       \/ "late" \in Faults /\ aborts' = aborts \cup {a} /\ UNCHANGED log
    /\ Goto(a, "abortDedup")
    /\ UNCHANGED <<tables, req, wire, sessions, sweepVars>>

(* Slip: the abort path forgets the dedup row. *)
AbortNoDedup(a) == /\ pc[a] = "abortDedup"
                   /\ Goto(a, "abortRelease")
                   /\ UNCHANGED <<log, tables, req, wire, aborts, sessions, sweepVars>>

AbortDedup(a) ==
    /\ pc[a] = "abortDedup"
    /\ \/ InsertDedup(req[a].msg, Aborted)
       \/ "pg" \in Faults /\ UNCHANGED dedup
    /\ Goto(a, "abortRelease")
    /\ UNCHANGED <<log, claims, head, req, wire, aborts, sessions, sweepVars>>

AbortRelease(a) ==
    /\ pc[a] = "abortRelease"
    /\ \/ DeleteInProgress(req[a].msg)
       \/ "pg" \in Faults /\ UNCHANGED claims
    /\ Reply(a, "failed")
    /\ UNCHANGED <<log, dedup, head, wire, aborts, sessions, sweepVars>>

(* The append has used up the five seconds: the statements still to come fail with their *)
(* context.  The answer is that of AbortRelease; "unsettled" tells the two apart.         *)
AbortExpires(a) == /\ "s2" \in Faults
                   /\ pc[a] \in {"abortDedup", "abortRelease"}
                   /\ Reply(a, "unsettled")
                   /\ UNCHANGED <<log, tables, wire, aborts, sessions, sweepVars>>

(***************************************************************************)
(* Crash and recoverInProgressMessages                                     *)
(***************************************************************************)

(* The process dies; the next one lists the rows before it serves.  Without *)
(* "late", what S2 had not ordered by then is lost.                         *)
Crash ==
    /\ crashes < MaxCrashes
    /\ crashes' = crashes + 1
    /\ pc' = [a \in Attempts |-> IF pc[a] \in {"idle", "done"} THEN pc[a] ELSE "dead"]
    /\ wire' = IF "late" \in Faults THEN wire ELSE [a \in Attempts |-> <<>>]
    /\ \/ sweep' = [m \in Msgs |-> IF Row(m) # {} THEN "abort" ELSE "none"]
       \/ "pg" \in Faults /\ sweep' = [m \in Msgs |-> "none"]
    /\ ctx' = [a \in Attempts |-> IF pc[a] = "done" THEN ctx[a] ELSE "live"]
    /\ session' = [a \in Attempts |-> IF pc[a] \in Streaming THEN "whole" ELSE session[a]]
    /\ UNCHANGED <<log, tables, req, aborts>>

(* The sweep takes the rows one after the other. *)
BetweenRows == \A m \in Msgs : sweep[m] \in {"none", "abort"}

(* Slip: the row is resolved without a message_abort on the stream. *)
SweepNoAbort(m) == /\ sweep[m] = "abort" /\ BetweenRows
                   /\ sweep' = [sweep EXCEPT ![m] = "dedup"]
                   /\ UNCHANGED <<log, tables, pc, req, wire, aborts, sessions, crashes>>

(* message_abort(server_crash) for row m; if it fails the row is kept. *)
SweepAbort(m) ==
    /\ sweep[m] = "abort" /\ BetweenRows
    /\ \E a \in Row(m) :
         \/ /\ log' = Append(log, Abort(a))
            /\ sweep' = [sweep EXCEPT ![m] = "dedup"]
         \/ /\ "s2" \in Faults
            /\ log' \in {log, Append(log, Abort(a))}
            /\ sweep' = [sweep EXCEPT ![m] = "none"]
    /\ UNCHANGED <<tables, pc, req, wire, aborts, sessions, crashes>>

(* retryMeta of InsertMessageDedupAborted; after three failures it goes on. *)
SweepDedup(m) ==
    /\ sweep[m] = "dedup"
    /\ \/ InsertDedup(m, Aborted)
       \/ "pg" \in Faults /\ UNCHANGED dedup
    /\ sweep' = [sweep EXCEPT ![m] = "delete"]
    /\ UNCHANGED <<log, claims, head, pc, req, wire, aborts, sessions, crashes>>

(* retryMeta of DeleteInProgressMessage; after three failures the row is orphaned. *)
SweepDelete(m) ==
    /\ sweep[m] = "delete"
    /\ \/ DeleteInProgress(m)
       \/ "pg" \in Faults /\ UNCHANGED claims
    /\ sweep' = [sweep EXCEPT ![m] = "none"]
    /\ UNCHANGED <<log, dedup, head, pc, req, wire, aborts, sessions, crashes>>

(***************************************************************************)
(* Specification                                                           *)
(***************************************************************************)
Handler(a) ==
    \/ Claim(a)
    \/ AppendComplete(a)
    \/ CheckTailBefore(a) \/ SubmitStart(a)
    \/ CloseSession(a) \/ CloseForAbort(a) \/ CheckTailAfter(a)
    \/ DedupComplete(a) \/ AdvanceHead(a) \/ Release(a)
    \/ AbortAppend(a) \/ AbortDedup(a) \/ AbortRelease(a) \/ AbortExpires(a)

(* The client's part: its body goes on, ends or breaks off. *)
Body(a) == SubmitChunk(a) \/ SubmitEnd(a) \/ BodyFails(a)

Sweep(m) == SweepAbort(m) \/ SweepDedup(m) \/ SweepDelete(m)

Next == \/ \E a \in Attempts : \/ Gate(a, "send") \/ Gate(a, "stream")
                                \/ Handler(a) \/ Body(a)
                                \/ EndRequest(a) \/ CancelWrite(a)
                                \/ Land(a) \/ Break(a) \/ Lose(a) \/ LandAbort(a)
        \/ \E m \in Msgs : Sweep(m)
        \/ Crash

Spec == Init /\ [][Next]_vars

(* Handlers run: calls return; S2 orders what it was handed; the sweep runs to its end *)
(* before serving.  A body need not end: a blank line is skipped, and puts off the idle *)
(* deadline.                                                                            *)
Fairness == /\ \A a \in Attempts : WF_vars(Handler(a)) /\ WF_vars(Land(a))
            /\ \A m \in Msgs : WF_vars(Sweep(m))

FairSpec == Spec /\ Fairness

(***************************************************************************)
(* Properties                                                              *)
(***************************************************************************)
Records == [type : {"message_start", "message_append", "message_end", "message_abort"},
            by : Attempts, part : Nat]
DedupRows == [status : {"none", "complete", "aborted"}, start : Nat, end : Nat]
Ranges == Nat \X Nat
Answers == {"none", "created", "replayed", "already_aborted", "in_progress_conflict", "failed",
            "unsettled", "error"}
Requests == [msg : Msgs, kind : {"send", "stream"}, sent : Nat, tail : Nat, range : Ranges,
             answer : Answers]

TypeOK ==
    /\ log \in Seq(Records)
    /\ claims \in SUBSET Attempts
    /\ dedup \in [Msgs -> DedupRows]
    /\ head \in Nat
    /\ pc \in [Attempts -> WritePCs \cup {"idle", "claim", "done", "dead"}]
    /\ req \in [Attempts -> Requests]
    /\ wire \in [Attempts -> Seq(Seq(Records))]
    /\ aborts \in SUBSET Attempts
    /\ session \in [Attempts -> {"whole", "failed", "silent"}]
    /\ ctx \in [Attempts -> {"live", "cut", "ended"}]
    /\ sweep \in [Msgs -> {"none", "abort", "dedup", "delete"}]
    /\ crashes \in Nat

(* ClaimInProgressMessage: the row is a lock.  A handler between its claim and *)
(* its delete has its row there, and no two of them, nor a handler and the     *)
(* sweep, ever work on the same message_id.                                    *)
ClaimExclusive ==
    /\ \A a \in Attempts : Writing(a) => a \in claims
    /\ \A a, b \in claims : req[a].msg = req[b].msg => a = b
    /\ ~Serving => \A a \in Attempts : ~Writing(a)

(* A whole copy of a's message is on the stream: its chunks in order, each once. *)
IsChunk(r, a) == r.type = "message_append" /\ r.by = a
WholeCopy(a) ==
    \E i, j \in 1 .. Len(log) :
        /\ i < j /\ log[i] = Start(a) /\ log[j] = End(a)
        /\ \A n \in 1 .. req[a].sent : \E k \in i .. j : log[k] = Chunk(a, n)
        /\ \A k, l \in i .. j :
             k < l /\ IsChunk(log[k], a) /\ IsChunk(log[l], a) => log[k].part < log[l].part

OnLog(m) == \E a \in Attempts : req[a].msg = m /\ WholeCopy(a)
Vouched(m) == dedup[m].status = "complete"
                \/ \E a \in Attempts : req[a].msg = m /\ req[a].answer \in {"created", "replayed"}

(* SendMessage, StreamMessage: a "complete" row, and a 200 or 201, are only ever given  *)
(* for a message that is on the stream from start to end, its chunks in order, unless a *)
(* cancelled session of the message has kept its losses to itself.                      *)
CompleteIsOnLog == \A m \in Msgs :
    Vouched(m) => OnLog(m) \/ \E a \in Attempts : req[a].msg = m /\ session[a] = "silent"

(* messages_dedup: the first outcome recorded for a message_id is never replaced, *)
(* by a racing attempt or by the sweep of a later process.                        *)
OutcomeFinal == [][\A m \in Msgs : dedup[m].status # "none" => dedup'[m] = dedup[m]]_vars

(* The message is open on the stream: its last message_start has no end and no abort. *)
Terminates(r, m) == r.type \in {"message_end", "message_abort"} /\ req[r.by].msg = m
Unfinished(m) == \E i \in 1 .. Len(log) :
    /\ log[i].type = "message_start" /\ req[log[i].by].msg = m
    /\ \A j \in i + 1 .. Len(log) : ~Terminates(log[j], m)

(* in_progress_messages is the recovery anchor: a message that readers see open *)
(* has its row, through crashes and failing statements, as long as S2 answers.  *)
UnfinishedIsClaimed == \A m \in Msgs : Unfinished(m) => Row(m) # {}

(* schema.sql: an "aborted" row means a message_abort was written. *)
AbortedIsOnLog == \A m \in Msgs :
    dedup[m].status = "aborted" => \E i \in 1 .. Len(log) : /\ log[i].type = "message_abort"
                                                          /\ req[log[i].by].msg = m

(* A write that is answered has its outcome recorded, so a retry that starts later is  *)
(* answered from messages_dedup and never writes again, unless the context of the      *)
(* insert was over: the request's after the append, the abort path's after its append. *)
AnsweredIsRecorded == \A a \in Attempts :
    \/ req[a].answer = "created" /\ ~Ended(a)
    \/ req[a].answer = "failed"
    => dedup[req[a].msg].status # "none"

(* UpdateConversationHeadSeq: once a write is answered, head_seq has reached its last  *)
(* record, however the updates of concurrent writes are ordered, so the agent sees it as *)
(* unread and may ack it, unless that record was lost in silence or the request's        *)
(* context was over before the update.                                                   *)
HeadCoversAnswered == \A a \in Attempts :
    req[a].answer = "created" /\ ~Ended(a) /\ session[a] = "whole" =>
        \E i \in 1 .. Len(log) : log[i] = End(a) /\ head >= i

(* Its body goes on for ever, or the request's context was over before the delete, or when *)
(* the claim took effect.                                                                  *)
Kept(a) == \/ pc[a] = "body"
           \/ req[a].answer = "created" /\ Ended(a)
           \/ req[a].answer = "error"

(* Every claim is given back, by its handler, or by the sweep after a crash; it stays for *)
(* good only with a body that never ends, or when the client has gone, or the time is up, *)
(* before the claim is confirmed or between the append and the delete.                    *)
ClaimResolved == \A m \in Msgs : []<>(Row(m) = {}) \/ <>[](\E a \in Row(m) : Kept(a))

(* FUTURE.md: "The first attempt wins in S2, the second attempt gets the cached *)
(* response without a second S2 write."                                         *)
WrittenOnce == \A a, b \in Attempts :
    req[a].msg = req[b].msg /\ WholeCopy(a) /\ WholeCopy(b) => a = b

(* CLIENT.md: a streamed message of four records 42 .. 45 is answered with *)
(* seq_start 42 and seq_end 45.                                            *)
StreamedRange == \A a \in Attempts :
    req[a].answer = "created" => \E i, j \in 1 .. Len(log) :
        /\ log[i] = Start(a) /\ log[j] = End(a)
        /\ req[a].range = <<i, j>>

(* CLIENT.md: a message is message_start, message_append..., then message_end *)
(* or message_abort: nothing ends a message that has already ended.           *)
OneTerminal == ~ \E i, j \in 1 .. Len(log) :
    /\ i < j /\ log[i].by = log[j].by
    /\ log[i].type = "message_end" /\ log[j].type = "message_abort"

(* spec.md: "Our server returns success to the client only after S2 acknowledges.  This *)
(* means: a successful write is durable": not when a cancelled session has lost records  *)
(* in silence.                                                                            *)
SuccessIsDurable == \A m \in Msgs : Vouched(m) => OnLog(m)

(* http-api-layer-plan.md, of a write that conflicts: "the in-flight writer will resolve *)
(* the message_id": not when its body never ends, or its delete comes too late.          *)
ClaimsEnd == \A m \in Msgs : (Row(m) # {}) ~> (Row(m) = {})
==============================================================================
