----------------------------- MODULE CursorCache -----------------------------
(***************************************************************************)
(* The two-tier delivery cursor of internal/store/cursor_cache.go: a hot   *)
(* map with a dirty set in memory, and the guarded upsert into the cursors *)
(* table.  FlushAll and FlushOne release the lock before they talk to      *)
(* Postgres, so a flush is several steps: begin (drain the dirty set under *)
(* the lock), the statement taking effect in Postgres, and the return to   *)
(* the caller, which restores the dirty marks when it is an error.  An     *)
(* error says nothing about whether the statement took effect, and one     *)
(* that was in flight at a crash may still take effect after the restart.  *)
(***************************************************************************)
EXTENDS Integers

CONSTANTS Keys,      \* cursorKey: (agent, conversation) pairs
          MaxSeq,    \* bound on the sequence numbers confirmed
          Handlers   \* goroutines that call FlushOne (SSE handlers, listeners)

ASSUME MaxSeqAssumption == MaxSeq \in Nat
ASSUME HandlersAssumption == Handlers \cap {"loop", "main"} = {}

VARIABLES hot,      \* cursorCache.cursors: hot[k], Absent when there is no entry
          dirty,    \* cursorCache.dirty
          pg,       \* cursors.delivery_seq: pg[k], NoRow when there is no row
          flight,   \* flight[t]: the flush thread t has begun and not returned from
          late,     \* statements whose caller is gone and that may still take effect
          server,   \* up | stopping | flushed | closed
          loop,     \* the flusher goroutine: ticking | final | done
          offered   \* history: every value ever passed to Update

vars == <<hot, dirty, pg, flight, late, server, loop, offered>>

Seqs   == 0 .. MaxSeq
Absent == -1
NoRow  == -1
Threads == Handlers \cup {"loop", "main"}

(* seqs of one upsert, Absent for the keys it does not mention *)
Statements == [Keys -> Seqs \cup {Absent}]
NoStatement == [k \in Keys |-> Absent]

Idle == [phase |-> "idle", seqs |-> NoStatement, restore |-> {}]
Flights == [phase : {"idle", "exec", "applied"}, seqs : Statements, restore : SUBSET Keys]

TypeOK == /\ hot \in Statements
          /\ dirty \in SUBSET Keys
          /\ pg \in [Keys -> Seqs \cup {NoRow}]
          /\ flight \in [Threads -> Flights]
          /\ late \in SUBSET Statements
          /\ server \in {"up", "stopping", "flushed", "closed"}
          /\ loop \in {"ticking", "final", "done"}
          /\ offered \in [Keys -> SUBSET Seqs]

(* GetDeliveryCursor: the hot entry if there is one, else the row, else 0. *)
GetDeliveryCursor(k) == IF hot[k] # Absent THEN hot[k]
                        ELSE IF pg[k] # NoRow THEN pg[k] ELSE 0

(* Slip: the upsert without its WHERE clause, the last statement wins. *)
UpsertUnguarded(rows, seqs) == [k \in Keys |-> IF seqs[k] # Absent THEN seqs[k] ELSE rows[k]]

(* Slip: "next to deliver" applied once more on the way into the table. *)
UpsertNext(rows, seqs) == [k \in Keys |-> IF rows[k] < seqs[k] THEN seqs[k] + 1 ELSE rows[k]]

(* INSERT ... ON CONFLICT DO UPDATE ... WHERE delivery_seq < EXCLUDED.delivery_seq *)
Upsert(rows, seqs) == [k \in Keys |-> IF rows[k] < seqs[k] THEN seqs[k] ELSE rows[k]]

Init == /\ hot = NoStatement
        /\ dirty = {}
        /\ pg = [k \in Keys |-> NoRow]
        /\ flight = [t \in Threads |-> Idle]
        /\ late = {}
        /\ server = "up"
        /\ loop = "ticking"
        /\ offered = [k \in Keys |-> {}]

(* The in-memory guard: an entry that is at least s wins. *)
Newer(k, s) == hot[k] < s

(* cursorCache.Update, from an ack, a Last-Event-ID or the resident's tailer. *)
(* An update the guard ignores changes nothing.                               *)
Update(k, s) ==
    /\ server # "closed"
    /\ offered' = [offered EXCEPT ![k] = @ \cup {s}]
    /\ IF Newer(k, s) THEN /\ hot' = [hot EXCEPT ![k] = s]
                           /\ dirty' = dirty \cup {k}
                      ELSE UNCHANGED <<hot, dirty>>
    /\ UNCHANGED <<pg, flight, late, server, loop>>

(* snapshotDirty drains the dirty keys under the lock; thread t then executes *)
(* one statement for all of them.                                             *)
SnapshotDirty(t) ==
    /\ flight[t].phase = "idle"
    /\ dirty # {}
    /\ flight' = [flight EXCEPT ![t] =
           [phase |-> "exec",
            seqs |-> [k \in Keys |-> IF k \in dirty THEN hot[k] ELSE Absent],
            restore |-> dirty]]
    /\ dirty' = {}

(* Run: a tick starts FlushAll. *)
TickFlush == /\ loop = "ticking" /\ server # "closed"
             /\ SnapshotDirty("loop")
             /\ UNCHANGED <<hot, pg, late, server, loop, offered>>

(* Run: ctx is done, one last FlushAll, after which the goroutine ends. *)
FinalFlush ==
    /\ loop = "ticking" /\ server \in {"stopping", "flushed"}
    /\ flight["loop"].phase = "idle"
    /\ \/ SnapshotDirty("loop") /\ loop' = "final"
       \/ dirty = {} /\ loop' = "done" /\ UNCHANGED <<dirty, flight>>
    /\ UNCHANGED <<hot, pg, late, server, offered>>

(* FlushOne drops the dirty mark optimistically and remembers whether there was one. *)
FlushOne(t, k) ==
    /\ server # "closed"
    /\ flight[t].phase = "idle"
    /\ hot[k] # Absent
    /\ flight' = [flight EXCEPT ![t] =
           [phase |-> "exec",
            seqs |-> [NoStatement EXCEPT ![k] = hot[k]],
            restore |-> dirty \cap {k}]]
    /\ dirty' = dirty \ {k}
    /\ UNCHANGED <<hot, pg, late, server, loop, offered>>

(* Postgres executes the statement of thread t. *)
Apply(t) == /\ flight[t].phase = "exec"
            /\ pg' = Upsert(pg, flight[t].seqs)
            /\ flight' = [flight EXCEPT ![t].phase = "applied"]
            /\ UNCHANGED <<hot, dirty, late, server, loop, offered>>

(* What the goroutine does once its flush has returned. *)
Returned(t) == /\ loop' = IF t = "loop" /\ loop = "final" THEN "done" ELSE loop
               /\ server' = IF t = "main" THEN "flushed" ELSE server

(* Exec returns nil. *)
ExecOk(t) == /\ flight[t].phase = "applied"
             /\ flight' = [flight EXCEPT ![t] = Idle]
             /\ Returned(t)
             /\ UNCHANGED <<hot, dirty, pg, late, offered>>

(* Slip: the error is returned and the drained keys stay clean. *)
RestoreNothing(t) == UNCHANGED dirty

(* restoreDirty: the keys whose mark this flush took. *)
RestoreDirty(t) == dirty' = dirty \cup flight[t].restore

(* Exec returns an error: before the statement took effect (it may yet, or *)
(* never) or after (the answer was lost).                                  *)
ExecErr(t) == /\ flight[t].phase # "idle"
              /\ RestoreDirty(t)
              /\ \/ flight[t].phase = "exec" /\ late' = late \cup {flight[t].seqs}
                 \/ UNCHANGED late
              /\ flight' = [flight EXCEPT ![t] = Idle]
              /\ Returned(t)
              /\ UNCHANGED <<hot, pg, offered>>

(* A statement whose caller has given up takes effect. *)
ApplyLate(s) == /\ s \in late
                /\ pg' = Upsert(pg, s)
                /\ late' = late \ {s}
                /\ UNCHANGED <<hot, dirty, flight, server, loop, offered>>

(* SIGTERM: the context of the flusher is done and the drain begins. *)
Signal == /\ server = "up"
          /\ server' = "stopping"
          /\ UNCHANGED <<hot, dirty, pg, flight, late, loop, offered>>

(* shutdown: the last FlushAll of main, once HTTP and the resident have drained. *)
ShutdownFlush ==
    /\ server = "stopping" /\ flight["main"].phase = "idle"
    /\ \/ SnapshotDirty("main") /\ UNCHANGED server
       \/ dirty = {} /\ server' = "flushed" /\ UNCHANGED <<dirty, flight>>
    /\ UNCHANGED <<hot, pg, late, loop, offered>>

(* ListenAndServe failed: run returns without shutdown, straight to Close. *)
ServeError == /\ server = "up"
              /\ server' = "flushed"
              /\ UNCHANGED <<hot, dirty, pg, flight, late, loop, offered>>

(* Slip: Close does not wait for the flusher or for the connections in use. *)
CloseAtOnce == /\ server = "flushed"
               /\ server' = "closed"
               /\ UNCHANGED <<hot, dirty, pg, flight, late, loop, offered>>

(* Close waits for the flusher goroutine, and pool.Close for every connection. *)
Close == /\ server = "flushed" /\ loop = "done"
         /\ \A t \in Threads : flight[t].phase = "idle"
         /\ server' = "closed"
         /\ UNCHANGED <<hot, dirty, pg, flight, late, loop, offered>>

(* The process dies, or has ended, and a new one starts with an empty hot tier. *)
Restart ==
    /\ hot' = NoStatement
    /\ dirty' = {}
    /\ flight' = [t \in Threads |-> Idle]
    /\ late' = late \cup {flight[t].seqs : t \in {u \in Threads : flight[u].phase = "exec"}}
    /\ server' = "up"
    /\ loop' = "ticking"
    /\ UNCHANGED <<pg, offered>>

Flush == \/ TickFlush \/ FinalFlush \/ ShutdownFlush
         \/ \E t \in Handlers, k \in Keys : FlushOne(t, k)
         \/ \E t \in Threads : Apply(t) \/ ExecOk(t) \/ ExecErr(t)

Next == \/ \E k \in Keys, s \in Seqs : Update(k, s)
        \/ Flush
        \/ \E s \in late : ApplyLate(s)
        \/ Signal \/ ServeError \/ Close \/ Restart

Spec == Init /\ [][Next]_vars

(* Every call to Postgres returns, an answer or an error; the ticker meets a  *)
(* dirty mark that keeps coming back; Postgres does not refuse the flusher's  *)
(* statement for ever.                                                        *)
Fairness == /\ \A t \in Threads : WF_vars(ExecOk(t) \/ ExecErr(t))
            /\ SF_vars(TickFlush)
            /\ SF_vars(Apply("loop"))

FairSpec == Spec /\ Fairness

(***************************************************************************)
(* Properties                                                              *)
(***************************************************************************)

(* snapshotDirty, restoreDirty: an advance that is only in memory is never *)
(* forgotten.  Either its key is dirty, or a flush that will re-mark it on *)
(* failure is carrying exactly that value.                                 *)
Carried(k) == \E t \in Threads : /\ flight[t].phase # "idle"
                                 /\ k \in flight[t].restore
                                 /\ flight[t].seqs[k] = hot[k]
NoLostUpdate == \A k \in Keys : hot[k] > pg[k] => k \in dirty \/ Carried(k)

(* batchUpsertDeliveryCursor: whatever order statements land in, the flusher's, *)
(* a handler's or those of a dead process, the stored cursor never goes back.   *)
StoredMonotone == [][\A k \in Keys : pg'[k] >= pg[k]]_vars

(* shutdown, Run, Close: a shutdown that leaves a cursor behind the hot tier *)
(* has left its key marked dirty (a flush failed, or it was updated after    *)
(* the last snapshot); an advance is never silently lost.                    *)
CloseLosesNothing == server = "closed" => \A k \in Keys : pg[k] >= hot[k] \/ k \in dirty

(* Run: as long as the server stays up, an advance reaches Postgres. *)
EventuallyStored ==
    \A k \in Keys, s \in Seqs :
        (hot[k] = s) ~> (pg[k] >= s \/ hot[k] = Absent \/ server # "up")

(* The two tiers together implement the contract of the stored cursor. *)
Contract == INSTANCE CursorContract WITH stored <- pg
ImplementsContract == Contract!Spec

(* CLIENT.md: "The server never regresses either cursor": what a header-less *)
(* reconnect is given never goes back while the server runs.                 *)
ReadMonotone == [][\A k \in Keys : \/ GetDeliveryCursor(k)' >= GetDeliveryCursor(k)
                                   \/ Restart]_vars
==============================================================================
