-------------------------- MODULE CursorCacheProofs --------------------------
(***************************************************************************)
(* Proofs about CursorCache for every set of keys and handlers and every   *)
(* bound on the sequence numbers.  NoLostUpdate is not inductive alone: a  *)
(* flush that returns nil must have written what it carried (InFlight), a  *)
(* closed server must have no flush left that could return (Quiet), and    *)
(* the contract needs to know where every value in the system came from    *)
(* (Provenance).                                                           *)
(***************************************************************************)
EXTENDS CursorCache, TLAPS

(* Every value in memory, in a statement or in the table was confirmed by a caller. *)
Known(k, v) == v = Absent \/ v \in offered[k]
Provenance == /\ \A k \in Keys : Known(k, hot[k]) /\ Known(k, pg[k])
              /\ \A t \in Threads, k \in Keys : Known(k, flight[t].seqs[k])
              /\ \A s \in late, k \in Keys : Known(k, s[k])

(* A flush that is about to return nil has written what it carries. *)
InFlight == \A t \in Threads, k \in Keys :
                flight[t].phase = "applied" => pg[k] >= flight[t].seqs[k]

(* Close waited for every flush, and none starts afterwards. *)
Quiet == server = "closed" => \A t \in Threads : flight[t].phase = "idle"

IInv == TypeOK /\ NoLostUpdate /\ InFlight /\ Quiet /\ Provenance

(* The guarded upsert keeps the type of the table, never lowers a row and *)
(* leaves each row at least as high as the statement.                     *)
LEMMA UpsertFacts ==
  ASSUME NEW rows \in [Keys -> Seqs \cup {NoRow}], NEW seqs \in Statements
  PROVE  /\ Upsert(rows, seqs) \in [Keys -> Seqs \cup {NoRow}]
         /\ \A k \in Keys : /\ Upsert(rows, seqs)[k] >= rows[k]
                            /\ Upsert(rows, seqs)[k] >= seqs[k]
                            /\ Upsert(rows, seqs)[k] \in {rows[k], seqs[k]}
  BY MaxSeqAssumption DEF Upsert, Statements, Seqs, Absent, NoRow

(* A flight record put together from well-typed parts is well typed. *)
LEMMA IdleType == Idle \in Flights /\ NoStatement \in Statements
  BY DEF Idle, Flights, NoStatement, Statements

(* Type correctness of one step. *)
LEMMA TypeStep == TypeOK /\ [Next]_vars => TypeOK'
<1> SUFFICES ASSUME TypeOK, [Next]_vars PROVE TypeOK'
  OBVIOUS
<1> USE IdleType
<1>1. ASSUME NEW k \in Keys, NEW s \in Seqs, Update(k, s) PROVE TypeOK'
  BY <1>1 DEF TypeOK, Update, Statements
<1>2. ASSUME NEW t \in Threads, SnapshotDirty(t)
      PROVE  flight' \in [Threads -> Flights] /\ dirty' \in SUBSET Keys
  BY <1>2 DEF TypeOK, SnapshotDirty, Flights, Statements
<1>3. CASE TickFlush
  BY <1>2, <1>3 DEF TypeOK, TickFlush, Threads
<1>4. CASE FinalFlush
  BY <1>2, <1>4 DEF TypeOK, FinalFlush, Threads
<1>5. CASE ShutdownFlush
  BY <1>2, <1>5 DEF TypeOK, ShutdownFlush, Threads
<1>6. ASSUME NEW t \in Handlers, NEW k \in Keys, FlushOne(t, k) PROVE TypeOK'
  BY <1>6 DEF TypeOK, FlushOne, Flights, Statements
<1>7. ASSUME NEW t \in Threads, Apply(t) PROVE TypeOK'
  <2>1. flight[t].seqs \in Statements
    BY DEF TypeOK, Flights
  <2>2. pg' \in [Keys -> Seqs \cup {NoRow}]
    BY <1>7, <2>1, UpsertFacts DEF TypeOK, Apply
  <2> QED BY <1>7, <2>2 DEF TypeOK, Apply, Flights
<1>8. ASSUME NEW t \in Threads, ExecOk(t) PROVE TypeOK'
  BY <1>8 DEF TypeOK, ExecOk, Returned
<1>9. ASSUME NEW t \in Threads, ExecErr(t) PROVE TypeOK'
  <2>1. flight[t].seqs \in Statements /\ flight[t].restore \in SUBSET Keys
    BY DEF TypeOK, Flights
  <2>2. dirty' \in SUBSET Keys /\ late' \in SUBSET Statements
    BY <1>9, <2>1 DEF TypeOK, ExecErr, RestoreDirty
  <2> QED BY <1>9, <2>2 DEF TypeOK, ExecErr, Returned
<1>10. ASSUME NEW s \in late, ApplyLate(s) PROVE TypeOK'
  <2>1. pg' \in [Keys -> Seqs \cup {NoRow}]
    BY <1>10, UpsertFacts DEF TypeOK, ApplyLate
  <2> QED BY <1>10, <2>1 DEF TypeOK, ApplyLate
<1>11. CASE Signal \/ ServeError \/ Close
  BY <1>11 DEF TypeOK, Signal, ServeError, Close
<1>12. CASE Restart
  <2>1. late' \in SUBSET Statements
    BY <1>12 DEF TypeOK, Restart, Flights
  <2> QED BY <1>12, <2>1 DEF TypeOK, Restart
<1>13. CASE UNCHANGED vars
  BY <1>13 DEF TypeOK, vars
<1> QED
  BY <1>1, <1>3, <1>4, <1>5, <1>6, <1>7, <1>8, <1>9, <1>10, <1>11, <1>12, <1>13 DEF Next, Flush

(* The part of the invariant that NoLostUpdate rests on, one step at a time. *)
LEMMA InFlightStep == TypeOK /\ InFlight /\ Quiet /\ [Next]_vars => InFlight' /\ Quiet'
<1> SUFFICES ASSUME TypeOK, InFlight, Quiet, [Next]_vars PROVE InFlight' /\ Quiet'
  OBVIOUS
<1> USE DEF InFlight, Quiet
<1>1. ASSUME NEW k \in Keys, NEW s \in Seqs, Update(k, s) PROVE InFlight' /\ Quiet'
  BY <1>1 DEF Update
<1>2. CASE TickFlush
  BY <1>2 DEF TickFlush, SnapshotDirty, TypeOK, Flights
<1>3. CASE FinalFlush
  BY <1>3 DEF FinalFlush, SnapshotDirty, TypeOK, Flights
<1>4. CASE ShutdownFlush
  BY <1>4 DEF ShutdownFlush, SnapshotDirty, TypeOK, Flights
<1>5. ASSUME NEW t \in Handlers, NEW k \in Keys, FlushOne(t, k) PROVE InFlight' /\ Quiet'
  BY <1>5 DEF FlushOne, TypeOK, Flights
<1>6. ASSUME NEW t \in Threads, Apply(t) PROVE InFlight' /\ Quiet'
  <2>1. flight[t].seqs \in Statements /\ \A u \in Threads : flight[u].seqs \in Statements
    BY DEF TypeOK, Flights
  <2>2. \A k \in Keys : pg'[k] >= pg[k] /\ pg'[k] >= flight[t].seqs[k]
    BY <1>6, <2>1, UpsertFacts DEF Apply, TypeOK
  <2>3. \A u \in Threads, k \in Keys : flight'[u].seqs[k] = flight[u].seqs[k]
    BY <1>6 DEF Apply, TypeOK, Flights
  <2>4. \A u \in Threads : u # t => flight'[u] = flight[u]
    BY <1>6 DEF Apply, TypeOK
  <2>5. \A k \in Keys : pg[k] \in Int /\ pg'[k] \in Int
    BY <1>6, TypeStep, MaxSeqAssumption DEF TypeOK, Next, Flush, Seqs, NoRow
  <2>6. \A u \in Threads, k \in Keys : flight[u].seqs[k] \in Int
    BY <2>1, MaxSeqAssumption DEF Statements, Seqs, Absent
  <2>7. InFlight'
    BY <2>2, <2>3, <2>4, <2>5, <2>6
  <2>8. Quiet'
    BY <1>6 DEF Apply
  <2> QED BY <2>7, <2>8
<1>7. ASSUME NEW t \in Threads, ExecOk(t) \/ ExecErr(t) PROVE InFlight' /\ Quiet'
  BY <1>7 DEF ExecOk, ExecErr, Returned, TypeOK, Idle
<1>8. ASSUME NEW s \in late, ApplyLate(s) PROVE InFlight' /\ Quiet'
  <2>1. \A k \in Keys : pg'[k] >= pg[k]
    BY <1>8, UpsertFacts DEF ApplyLate, TypeOK
  <2>2. \A u \in Threads, k \in Keys : flight[u].seqs[k] \in Int
    BY MaxSeqAssumption DEF TypeOK, Flights, Statements, Seqs, Absent
  <2>3. \A k \in Keys : pg[k] \in Int /\ pg'[k] \in Int
    BY <1>8, TypeStep, MaxSeqAssumption DEF TypeOK, Next, Seqs, NoRow
  <2> QED BY <1>8, <2>1, <2>2, <2>3 DEF ApplyLate
<1>9. CASE Signal \/ ServeError \/ Close
  BY <1>9 DEF Signal, ServeError, Close
<1>10. CASE Restart
  BY <1>10 DEF Restart, Idle
<1>11. CASE UNCHANGED vars
  BY <1>11 DEF vars
<1> QED
  BY <1>1, <1>2, <1>3, <1>4, <1>5, <1>6, <1>7, <1>8, <1>9, <1>10, <1>11 DEF Next, Flush

(* The values being compared are integers. *)
LEMMA Numbers ==
  ASSUME TypeOK
  PROVE  /\ \A k \in Keys : hot[k] \in Int /\ pg[k] \in Int
         /\ \A t \in Threads, k \in Keys : flight[t].seqs[k] \in Int
         /\ \A t \in Threads : flight[t].seqs \in Statements
  BY MaxSeqAssumption DEF TypeOK, Flights, Statements, Seqs, Absent, NoRow

(* snapshotDirty hands its keys, with their values, from the dirty set to the flush. *)
LEMMA SnapshotKeepsUpdates ==
  ASSUME TypeOK, NoLostUpdate, NEW t \in Threads, SnapshotDirty(t), UNCHANGED <<hot, pg>>
  PROVE  NoLostUpdate'
<1> SUFFICES ASSUME NEW k \in Keys, hot[k] > pg[k] PROVE Carried(k)'
  BY DEF NoLostUpdate
<1>1. CASE k \in dirty
  BY <1>1 DEF SnapshotDirty, TypeOK, Carried
<1>2. CASE Carried(k)
  <2>1. PICK u \in Threads : flight[u].phase # "idle" /\ k \in flight[u].restore
                                                     /\ flight[u].seqs[k] = hot[k]
    BY <1>2 DEF Carried
  <2>2. flight'[u] = flight[u]
    BY <2>1 DEF SnapshotDirty, TypeOK
  <2> QED BY <2>1, <2>2 DEF Carried
<1> QED BY <1>1, <1>2 DEF NoLostUpdate

(* No step forgets an advance that is only in memory. *)
LEMMA NoLostUpdateStep == TypeOK /\ InFlight /\ NoLostUpdate /\ [Next]_vars => NoLostUpdate'
<1> SUFFICES ASSUME TypeOK, InFlight, NoLostUpdate, [Next]_vars PROVE NoLostUpdate'
  OBVIOUS
<1>1. ASSUME NEW k \in Keys, NEW s \in Seqs, Update(k, s) PROVE NoLostUpdate'
  BY <1>1 DEF Update, NoLostUpdate, Carried, TypeOK, Statements
<1>2. CASE TickFlush
  BY <1>2, SnapshotKeepsUpdates DEF TickFlush, Threads
<1>3. CASE FinalFlush
  <2>1. CASE SnapshotDirty("loop")
    BY <1>3, <2>1, SnapshotKeepsUpdates DEF FinalFlush, Threads
  <2>2. CASE UNCHANGED <<dirty, flight>>
    BY <1>3, <2>2 DEF FinalFlush, NoLostUpdate, Carried
  <2> QED BY <1>3, <2>1, <2>2 DEF FinalFlush
<1>4. CASE ShutdownFlush
  <2>1. CASE SnapshotDirty("main")
    BY <1>4, <2>1, SnapshotKeepsUpdates DEF ShutdownFlush, Threads
  <2>2. CASE UNCHANGED <<dirty, flight>>
    BY <1>4, <2>2 DEF ShutdownFlush, NoLostUpdate, Carried
  <2> QED BY <1>4, <2>1, <2>2 DEF ShutdownFlush
<1>5. ASSUME NEW t \in Handlers, NEW j \in Keys, FlushOne(t, j) PROVE NoLostUpdate'
  <2> SUFFICES ASSUME NEW k \in Keys, hot[k] > pg[k] PROVE k \in dirty' \/ Carried(k)'
    BY <1>5 DEF FlushOne, NoLostUpdate
  <2>1. t \in Threads
    BY DEF Threads
  <2>2. CASE k \in dirty /\ k # j
    BY <1>5, <2>2 DEF FlushOne
  <2>3. CASE k \in dirty /\ k = j
    BY <1>5, <2>1, <2>3 DEF FlushOne, TypeOK, Carried, NoStatement
  <2>4. CASE Carried(k)
    <3>1. PICK u \in Threads : flight[u].phase # "idle" /\ k \in flight[u].restore
                                                       /\ flight[u].seqs[k] = hot[k]
      BY <2>4 DEF Carried
    <3>2. flight'[u] = flight[u] /\ hot' = hot
      BY <1>5, <3>1 DEF FlushOne, TypeOK
    <3> QED BY <3>1, <3>2 DEF Carried
  <2> QED BY <2>2, <2>3, <2>4 DEF NoLostUpdate
<1>6. ASSUME NEW t \in Threads, Apply(t) PROVE NoLostUpdate'
  <2>1. \A k \in Keys : pg'[k] >= pg[k] /\ pg[k] \in Int /\ pg'[k] \in Int /\ hot[k] \in Int
    BY <1>6, UpsertFacts, Numbers, TypeStep, MaxSeqAssumption DEF Apply, TypeOK, Seqs, NoRow
  <2>2. \A u \in Threads : /\ flight'[u].restore = flight[u].restore
                           /\ flight'[u].seqs = flight[u].seqs
                           /\ flight[u].phase # "idle" => flight'[u].phase # "idle"
    BY <1>6 DEF Apply, TypeOK, Flights
  <2>3. \A k \in Keys : Carried(k) => Carried(k)'
    BY <1>6, <2>2 DEF Carried, Apply
  <2> QED BY <1>6, <2>1, <2>3 DEF Apply, NoLostUpdate
<1>7. ASSUME NEW t \in Threads, ExecOk(t) PROVE NoLostUpdate'
  <2> SUFFICES ASSUME NEW k \in Keys, hot[k] > pg[k] PROVE k \in dirty' \/ Carried(k)'
    BY <1>7 DEF ExecOk, NoLostUpdate
  <2>1. CASE k \in dirty
    BY <1>7, <2>1 DEF ExecOk
  <2>2. CASE Carried(k)
    <3>1. PICK u \in Threads : flight[u].phase # "idle" /\ k \in flight[u].restore
                                                       /\ flight[u].seqs[k] = hot[k]
      BY <2>2 DEF Carried
    <3>2. u # t
      BY <1>7, <3>1, Numbers DEF ExecOk, InFlight
    <3>3. flight'[u] = flight[u] /\ hot' = hot
      BY <1>7, <3>2 DEF ExecOk, TypeOK
    <3> QED BY <3>1, <3>3 DEF Carried
  <2> QED BY <2>1, <2>2 DEF NoLostUpdate
<1>8. ASSUME NEW t \in Threads, ExecErr(t) PROVE NoLostUpdate'
  <2> SUFFICES ASSUME NEW k \in Keys, hot[k] > pg[k] PROVE k \in dirty' \/ Carried(k)'
    BY <1>8 DEF ExecErr, NoLostUpdate
  <2>1. CASE k \in dirty
    BY <1>8, <2>1 DEF ExecErr, RestoreDirty
  <2>2. CASE Carried(k)
    <3>1. PICK u \in Threads : flight[u].phase # "idle" /\ k \in flight[u].restore
                                                       /\ flight[u].seqs[k] = hot[k]
      BY <2>2 DEF Carried
    <3>2. CASE u = t
      BY <1>8, <3>1, <3>2 DEF ExecErr, RestoreDirty
    <3>3. CASE u # t
      <4>1. flight'[u] = flight[u] /\ hot' = hot
        BY <1>8, <3>3 DEF ExecErr, TypeOK
      <4> QED BY <3>1, <4>1 DEF Carried
    <3> QED BY <3>2, <3>3
  <2> QED BY <2>1, <2>2 DEF NoLostUpdate
<1>9. ASSUME NEW s \in late, ApplyLate(s) PROVE NoLostUpdate'
  <2>1. \A k \in Keys : pg'[k] >= pg[k] /\ pg[k] \in Int /\ pg'[k] \in Int /\ hot[k] \in Int
    BY <1>9, UpsertFacts, Numbers, TypeStep, MaxSeqAssumption DEF ApplyLate, TypeOK, Seqs, NoRow
  <2> QED BY <1>9, <2>1 DEF ApplyLate, NoLostUpdate, Carried
<1>10. CASE Signal \/ ServeError \/ Close
  BY <1>10 DEF Signal, ServeError, Close, NoLostUpdate, Carried
<1>11. CASE Restart
  <2>1. \A k \in Keys : hot'[k] = -1 /\ pg'[k] >= -1
    BY <1>11, MaxSeqAssumption DEF Restart, NoStatement, Absent, TypeOK, Seqs, NoRow
  <2>2. \A k \in Keys : pg'[k] \in Int
    BY <1>11, Numbers DEF Restart
  <2> QED BY <2>1, <2>2 DEF NoLostUpdate
<1>12. CASE UNCHANGED vars
  BY <1>12 DEF vars, NoLostUpdate, Carried
<1> QED
  BY <1>1, <1>2, <1>3, <1>4, <1>5, <1>6, <1>7, <1>8, <1>9, <1>10, <1>11, <1>12 DEF Next, Flush

(* Values only travel: from Update into the hot tier, into statements, into the table. *)
LEMMA ProvenanceStep == TypeOK /\ Provenance /\ [Next]_vars => Provenance'
<1> SUFFICES ASSUME TypeOK, Provenance, [Next]_vars PROVE Provenance'
  OBVIOUS
<1> USE DEF Provenance, Known
<1>1. ASSUME NEW k \in Keys, NEW s \in Seqs, Update(k, s) PROVE Provenance'
  BY <1>1 DEF Update, TypeOK, Statements
<1>2. ASSUME NEW t \in Threads, SnapshotDirty(t), UNCHANGED <<hot, offered>>
      PROVE  \A u \in Threads, k \in Keys : Known(k, flight[u].seqs[k])'
  BY <1>2 DEF SnapshotDirty, TypeOK
<1>3. CASE TickFlush
  BY <1>2, <1>3 DEF TickFlush, Threads
<1>4. CASE FinalFlush
  BY <1>2, <1>4 DEF FinalFlush, Threads
<1>5. CASE ShutdownFlush
  BY <1>2, <1>5 DEF ShutdownFlush, Threads
<1>6. ASSUME NEW t \in Handlers, NEW j \in Keys, FlushOne(t, j) PROVE Provenance'
  BY <1>6 DEF FlushOne, TypeOK, NoStatement
<1>7. ASSUME NEW t \in Threads, Apply(t) PROVE Provenance'
  <2>1. \A k \in Keys : pg'[k] \in {pg[k], flight[t].seqs[k]}
    BY <1>7, UpsertFacts, Numbers DEF Apply, TypeOK
  <2>2. \A u \in Threads : flight'[u].seqs = flight[u].seqs
    BY <1>7 DEF Apply, TypeOK, Flights
  <2> QED BY <1>7, <2>1, <2>2 DEF Apply
<1>8. ASSUME NEW t \in Threads, ExecOk(t) PROVE Provenance'
  BY <1>8 DEF ExecOk, TypeOK, Idle, NoStatement
<1>9. ASSUME NEW t \in Threads, ExecErr(t) PROVE Provenance'
  BY <1>9 DEF ExecErr, TypeOK, Idle, NoStatement
<1>10. ASSUME NEW s \in late, ApplyLate(s) PROVE Provenance'
  <2>1. \A k \in Keys : pg'[k] \in {pg[k], s[k]}
    BY <1>10, UpsertFacts DEF ApplyLate, TypeOK
  <2> QED BY <1>10, <2>1 DEF ApplyLate
<1>11. CASE Signal \/ ServeError \/ Close
  BY <1>11 DEF Signal, ServeError, Close
<1>12. CASE Restart
  BY <1>12 DEF Restart, TypeOK, Idle, NoStatement
<1>13. CASE UNCHANGED vars
  BY <1>13 DEF vars
<1> QED
  BY <1>1, <1>3, <1>4, <1>5, <1>6, <1>7, <1>8, <1>9, <1>10, <1>11, <1>12, <1>13 DEF Next, Flush

(* The whole invariant is inductive. *)
THEOREM InvariantHolds == Spec => []IInv
<1>1. Init => IInv
  BY MaxSeqAssumption DEF Init, IInv, TypeOK, NoLostUpdate, InFlight, Quiet, Provenance, Known,
        Idle, Flights, NoStatement, Statements, Seqs, Absent, NoRow
<1>2. IInv /\ [Next]_vars => IInv'
  BY TypeStep, NoLostUpdateStep, InFlightStep, ProvenanceStep DEF IInv
<1> QED BY <1>1, <1>2, PTL DEF Spec

(* Every reachable state of the two-tier cursor is well typed. *)
THEOREM TypeCorrect == Spec => []TypeOK
<1>1. IInv => TypeOK
  BY DEF IInv
<1> QED BY <1>1, InvariantHolds, PTL

(* cursorCache: an advance that is only in memory is marked dirty or being   *)
(* written by a flush that will mark it again if it fails, for any number of *)
(* flushing goroutines.                                                      *)
THEOREM NothingForgotten == Spec => []NoLostUpdate
<1>1. IInv => NoLostUpdate
  BY DEF IInv
<1> QED BY <1>1, InvariantHolds, PTL

(* Close: after a shutdown every cursor that is behind is still marked dirty. *)
THEOREM NothingLostAtClose == Spec => []CloseLosesNothing
<1>1. ASSUME IInv, server = "closed", NEW k \in Keys PROVE pg[k] >= hot[k] \/ k \in dirty
  <2>1. ~ Carried(k)
    BY <1>1 DEF IInv, Quiet, Carried
  <2>2. hot[k] \in Int /\ pg[k] \in Int
    BY <1>1, Numbers DEF IInv
  <2> QED BY <1>1, <2>1, <2>2 DEF IInv, NoLostUpdate
<1>2. IInv => CloseLosesNothing
  BY <1>1 DEF CloseLosesNothing
<1> QED BY <1>2, InvariantHolds, PTL

(* The only statements that touch the table are guarded upserts. *)
LEMMA StoredStep ==
  ASSUME TypeOK, Next
  PROVE  \/ UNCHANGED pg
         \/ \E s \in Statements : /\ pg' = Upsert(pg, s) /\ UNCHANGED offered
                                  /\ s \in late \/ \E t \in Threads : s = flight[t].seqs
<1>1. ASSUME NEW t \in Threads, Apply(t)
      PROVE  \E s \in Statements : /\ pg' = Upsert(pg, s) /\ UNCHANGED offered
                                   /\ s \in late \/ \E u \in Threads : s = flight[u].seqs
  BY <1>1, Numbers DEF Apply
<1>2. ASSUME NEW s \in late, ApplyLate(s)
      PROVE  s \in Statements /\ pg' = Upsert(pg, s) /\ UNCHANGED offered
  BY <1>2 DEF ApplyLate, TypeOK
<1>3. ASSUME ~(\E t \in Threads : Apply(t)), ~(\E s \in late : ApplyLate(s))
      PROVE  UNCHANGED pg
  BY <1>3 DEF Next, Flush, Update, TickFlush, FinalFlush, ShutdownFlush, FlushOne, ExecOk, ExecErr,
              Signal, ServeError, Close, Restart
<1> QED BY <1>1, <1>2, <1>3

(* batchUpsertDeliveryCursor: the stored cursor never goes back, whichever      *)
(* order the statements of live goroutines and of dead processes take effect in. *)
THEOREM StoredNeverRegresses == Spec => StoredMonotone
<1>1. TypeOK /\ [Next]_vars => [\A k \in Keys : pg'[k] >= pg[k]]_vars
  <2> SUFFICES ASSUME TypeOK, Next PROVE \A k \in Keys : pg'[k] >= pg[k]
    OBVIOUS
  <2>1. CASE UNCHANGED pg
    BY <2>1, Numbers
  <2>2. ASSUME NEW s \in Statements, pg' = Upsert(pg, s) PROVE \A k \in Keys : pg'[k] >= pg[k]
    BY <2>2, UpsertFacts DEF TypeOK
  <2> QED BY <2>1, <2>2, StoredStep
<1> QED BY <1>1, TypeCorrect, PTL DEF Spec, StoredMonotone

(* The cache, its flushers and the crashes between them implement the contract *)
(* of the stored cursor: it moves forward, to confirmed values only.           *)
THEOREM CacheImplementsContract == Spec => ImplementsContract
<1>1. Init => Contract!Init
  BY DEF Init, Contract!Init, NoRow, Contract!NoRow
<1>2. IInv /\ [Next]_vars => [Contract!Next]_Contract!cvars
  <2> SUFFICES ASSUME IInv, Next PROVE Contract!Next \/ UNCHANGED Contract!cvars
    BY DEF vars, Contract!cvars
  <2>1. ASSUME NEW k \in Keys, NEW s \in Seqs, Update(k, s) PROVE Contract!Next
    BY <2>1 DEF Update, Contract!Next, Contract!Offer
  <2>2. ASSUME NEW s \in Statements, pg' = Upsert(pg, s), UNCHANGED offered,
               s \in late \/ \E t \in Threads : s = flight[t].seqs
        PROVE  Contract!Persist
    <3>1. \A k \in Keys : Known(k, s[k])
      BY <2>2 DEF IInv, Provenance
    <3>2. /\ pg' \in [Keys -> Seqs \cup {NoRow}]
          /\ \A k \in Keys : pg'[k] >= pg[k] /\ pg'[k] \in {pg[k], s[k]}
      BY <2>2, UpsertFacts DEF IInv, TypeOK
    <3>3. \A k \in Keys : pg'[k] = pg[k] \/ (pg'[k] \in offered[k] /\ pg'[k] > pg[k])
      BY <3>1, <3>2, Numbers, MaxSeqAssumption DEF IInv, TypeOK, Known, Absent, NoRow, Seqs
    <3> QED BY <2>2, <3>2, <3>3 DEF Contract!Persist, NoRow, Contract!NoRow
  <2>3. CASE \E k \in Keys, s \in Seqs : Update(k, s)
    BY <2>1, <2>3
  <2>4. CASE ~ \E k \in Keys, s \in Seqs : Update(k, s)
    <3>1. UNCHANGED offered
      BY <2>4 DEF Next, Flush, TickFlush, FinalFlush, ShutdownFlush, FlushOne, Apply, ExecOk,
                  ExecErr, ApplyLate, Signal, ServeError, Close, Restart
    <3> QED BY <2>2, <3>1, StoredStep DEF IInv, Contract!Next, Contract!cvars
  <2> QED BY <2>3, <2>4
<1> QED BY <1>1, <1>2, InvariantHolds, PTL DEF Spec, ImplementsContract, Contract!Spec

==============================================================================
