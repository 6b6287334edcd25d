----------------------- MODULE ContinuityWrite_proofs ------------------------
(***************************************************************************)
(* Theorems about ContinuityWrite, for any number of calls, hosts, entries *)
(* and throwing database calls.                                            *)
(***************************************************************************)
EXTENDS ContinuityWrite, TLAPS

\* Types: every variable of the write saga stays in its range, whatever the
\* calls, the database and the hosts do.
LEMMA TypeInit == Init => TypeOK
  BY StoreAssumption, IndexingAssumption, WriteAssumption
     DEF Init, TypeOK, StoreInit, StoreType, IndexState, IndexingInit,
         IndexingType, IndexPhase, WritingInit, WritingType, WritePhase, CallState

\* The statements on the two tables keep their types.
LEMMA StoreStatementsTyped ==
  ASSUME StoreType, NEW i \in Ids,
         \/ InsertRow(i) \/ DeleteRow(i) \/ PutVector(i) \/ DropVector(i)
         \/ DropStatus(i) \/ PutStatus(i, "indexed") \/ PutStatus(i, "failed")
         \/ UNCHANGED store
  PROVE  StoreType'
  BY StoreAssumption
     DEF StoreType, store, IndexState, InsertRow, DeleteRow, PutVector,
         DropVector, DropStatus, PutStatus

\* A step of an index call keeps the types.
LEMMA IndexStepTyped ==
  ASSUME StoreType, IndexingType, NEW p \in Procs, NEW i \in Ids, IndexStep(p, i)
  PROVE  StoreType' /\ IndexingType'
<1> USE DEF IndexingType, IndexPhase
<1>1. CASE IndexCheck(p, i)
  BY <1>1, IndexingAssumption, StoreStatementsTyped DEF IndexCheck, Throws
<1>2. CASE IndexEmbed(p)
  BY <1>2, StoreStatementsTyped DEF IndexEmbed
<1>3. CASE IndexPutVector(p, i)
  BY <1>3, IndexingAssumption, StoreStatementsTyped DEF IndexPutVector, Throws
<1>4. CASE IndexPutStatus(p, i)
  BY <1>4, IndexingAssumption, StoreStatementsTyped DEF IndexPutStatus, Throws
<1>5. CASE IndexRecordFailure(p, i)
  BY <1>5, IndexingAssumption, StoreStatementsTyped DEF IndexRecordFailure, Throws
<1> QED BY <1>1, <1>2, <1>3, <1>4, <1>5 DEF IndexStep

LEMMA ReportTyped ==
  ASSUME leak \in [Procs -> BOOLEAN], NEW p \in Procs, Reports(p) \/ UNCHANGED leak
  PROVE  leak' \in [Procs -> BOOLEAN]
  BY Zenon DEF Reports

\* A step of a store call keeps the types.
LEMMA WriteStepTyped ==
  ASSUME StoreType, IndexingType, WritingType,
         NEW p \in Procs, NEW i \in Ids, WriteStep(p, i)
  PROVE  StoreType' /\ IndexingType' /\ WritingType'
<1>1. CASE WriteStoreRow(p, i)
  BY <1>1, IndexingAssumption, StoreStatementsTyped
     DEF WriteStoreRow, Throws, IndexCalls, IndexingType, IndexPhase,
         WritingType, WritePhase
<1>2. CASE WriteIndexing(p, i)
  BY <1>2, IndexStepTyped DEF WriteIndexing, WritingType
<1>3. CASE WriteIndexed(p)
  BY <1>3, StoreStatementsTyped
     DEF WriteIndexed, IndexReturns, IndexingType, IndexPhase, WritingType, WritePhase
<1>4. CASE WriteUndoRow(p, i)
  <2>1. StoreType' /\ IndexingType'
    BY <1>4, IndexingAssumption, StoreStatementsTyped DEF WriteUndoRow, Throws, IndexingType
  <2>2. leak' \in [Procs -> BOOLEAN]
    BY <1>4, ReportTyped DEF WriteUndoRow, WritingType
  <2>3. wr' \in [Procs -> WritePhase]
    BY <1>4 DEF WriteUndoRow, WritingType, WritePhase
  <2> QED BY <2>1, <2>2, <2>3 DEF WritingType
<1>5. CASE WriteUndoVector(p, i)
  <2>1. StoreType' /\ IndexingType'
    BY <1>5, IndexingAssumption, StoreStatementsTyped DEF WriteUndoVector, Throws, IndexingType
  <2>2. leak' \in [Procs -> BOOLEAN]
    BY <1>5, ReportTyped DEF WriteUndoVector, WritingType
  <2>3. wr' \in [Procs -> WritePhase]
    BY <1>5 DEF WriteUndoVector, WritingType, WritePhase
  <2> QED BY <2>1, <2>2, <2>3 DEF WritingType
<1>6. CASE WriteUndoStatus(p, i)
  <2>1. StoreType' /\ IndexingType'
    BY <1>6, IndexingAssumption, StoreStatementsTyped DEF WriteUndoStatus, Throws, IndexingType
  <2>2. leak' \in [Procs -> BOOLEAN]
    BY <1>6, ReportTyped DEF WriteUndoStatus, WritingType
  <2>3. wr' \in [Procs -> WritePhase]
    BY <1>6 DEF WriteUndoStatus, WritingType, WritePhase
  <2> QED BY <2>1, <2>2, <2>3 DEF WritingType
<1> QED BY <1>1, <1>2, <1>3, <1>4, <1>5, <1>6 DEF WriteStep

LEMMA TypeStep == TypeOK /\ [Next]_vars => TypeOK'
<1> SUFFICES ASSUME TypeOK, [Next]_vars PROVE TypeOK'
  OBVIOUS
<1> USE DEF TypeOK
<1>1. ASSUME NEW p \in Procs, Gate(p) PROVE TypeOK'
  BY <1>1, IndexingAssumption
     DEF Gate, Becomes, Throws, CallState, store, StoreType, IndexingType, WritingType
<1>2. ASSUME NEW p \in Procs, BeginWrite(p) PROVE TypeOK'
  BY <1>2 DEF BeginWrite, WriteCalls, Becomes, CallState, store, StoreType,
              IndexingType, WritingType, WritePhase
<1>3. ASSUME NEW p \in Procs, Write(p) PROVE TypeOK'
  BY <1>3, WriteAssumption, WriteStepTyped DEF Write
<1>4. ASSUME NEW p \in Procs, EndWrite(p) PROVE TypeOK'
  BY <1>4 DEF EndWrite, WriteReturns, Becomes, CallState, store, StoreType,
              IndexingType, WritingType, WritePhase
<1>5. ASSUME NEW h \in Hosts, Crash(h) PROVE TypeOK'
  BY <1>5 DEF Crash, CallState, store, StoreType, IndexingType, WritingType
<1>6. CASE UNCHANGED vars
  BY <1>6 DEF vars, StoreType, IndexingType, WritingType
<1> QED BY <1>1, <1>2, <1>3, <1>4, <1>5, <1>6 DEF Next, Step

THEOREM TypeCorrect == Spec => []TypeOK
<1>1. QED BY TypeInit, TypeStep, PTL DEF Spec

-----------------------------------------------------------------------------
(* The inductive invariant.                                                *)

\* How the phases of a call, its store call and its index call fit together.
PhasesAgree(p) ==
    /\ ix[p] /= "idle" <=> wr[p] = "index"
    /\ wr[p] /= "idle" => call[p] \in {"writing", "crashed"}
    /\ call[p] = "writing" => wr[p] /= "idle"

\* What a call's own rows say while it runs.
IndexedWhenDone(p) ==
    /\ status[p] = "indexed" <=>
         ix[p] = "ok" \/ wr[p] = "stored" \/ call[p] = "stored"
    /\ wr[p] \in {"index", "stored"} \/ call[p] = "stored" => p \in rows

\* Whose vector stands at i's rowid, or why none does.
Explained(i) ==
    \/ /\ vec[RowId[i]] \in Ids
       /\ RowId[vec[RowId[i]]] = RowId[i]
       /\ vec[RowId[i]] \in Procs <=> i \in Procs
    \/ \E p \in Procs \ {i} : RowId[p] = RowId[i] /\ Removed(p, i)

\* The vector behind a status row that says, or is about to say, "indexed".
OwnsVector(p) == ix[p] = "status" \/ status[p] = "indexed" => Explained(p)

\* A call's rows before it stores and after it rolled back.
LeavesNothing(p) ==
    /\ call[p] \in {"idle", "gated"} \/ wr[p] = "store" =>
         p \notin rows /\ status[p] = "absent"
    /\ wr[p] \in {"undoVector", "undoStatus"} /\ ~leak[p] => p \notin rows
    /\ (wr[p] = "rejected" \/ call[p] = "rejected") /\ ~leak[p] =>
         p \notin rows /\ status[p] = "absent"

\* The entries that were there before, and the calls that have one's rowid.
OldEntry(i) ==
    /\ i \in rows /\ status[i] = "indexed" /\ Explained(i)
    /\ vec[RowId[i]] \notin Procs
    /\ \A p \in Procs : RowId[p] = RowId[i] => ix[p] \in {"idle", "check", "error"}

SagaInv ==
    /\ TypeOK
    /\ \A p \in Procs : PhasesAgree(p) /\ IndexedWhenDone(p) /\ LeavesNothing(p)

VectorInv ==
    /\ \A p \in Procs : OwnsVector(p)
    /\ \A i \in Ids \ Procs : OldEntry(i)

-----------------------------------------------------------------------------
(* A step of one call leaves the rows and phases of every other entry.     *)

LEMMA StatementFrame ==
  ASSUME StoreType, NEW q \in Ids, NEW i \in Ids \ {q},
         \/ InsertRow(q) \/ DeleteRow(q) \/ PutVector(q) \/ DropVector(q)
         \/ DropStatus(q) \/ PutStatus(q, "indexed") \/ PutStatus(q, "failed")
         \/ UNCHANGED store
  PROVE  /\ i \in rows' <=> i \in rows
         /\ status'[i] = status[i]
         /\ RowId[i] /= RowId[q] => vec'[RowId[i]] = vec[RowId[i]]
  BY StoreAssumption
     DEF StoreType, store, InsertRow, DeleteRow, PutVector, DropVector,
         DropStatus, PutStatus

LEMMA WriteStepFrame ==
  ASSUME TypeOK, NEW q \in Procs, WriteStep(q, q), NEW i \in Ids \ {q}
  PROVE  /\ i \in rows' <=> i \in rows
         /\ status'[i] = status[i]
         /\ RowId[i] /= RowId[q] => vec'[RowId[i]] = vec[RowId[i]]
         /\ i \in Procs => ix'[i] = ix[i] /\ wr'[i] = wr[i]
         /\ i \in Procs => leak'[i] = leak[i]
<1> USE WriteAssumption DEF TypeOK, IndexingType, WritingType
<1>1. CASE WriteStoreRow(q, q)
  BY <1>1, StatementFrame DEF WriteStoreRow, Throws, IndexCalls
<1>2. CASE WriteIndexing(q, q)
  BY <1>2, StatementFrame
     DEF WriteIndexing, IndexStep, IndexCheck, IndexEmbed, IndexPutVector,
         IndexPutStatus, IndexRecordFailure, Throws
<1>3. CASE WriteIndexed(q)
  BY <1>3, StatementFrame DEF WriteIndexed, IndexReturns
<1>4. CASE WriteUndoRow(q, q)
  BY <1>4, StatementFrame DEF WriteUndoRow, Throws, Reports
<1>5. CASE WriteUndoVector(q, q)
  BY <1>5, StatementFrame DEF WriteUndoVector, Throws, Reports
<1>6. CASE WriteUndoStatus(q, q)
  BY <1>6, StatementFrame DEF WriteUndoStatus, Throws, Reports
<1> QED BY <1>1, <1>2, <1>3, <1>4, <1>5, <1>6 DEF WriteStep

-----------------------------------------------------------------------------
(* The saga invariant is preserved.                                        *)

Saga(p) == PhasesAgree(p) /\ IndexedWhenDone(p) /\ LeavesNothing(p)

\* A call's own step keeps its part of the invariant.
LEMMA OwnWriteStep ==
  ASSUME TypeOK, NEW p \in Procs, Saga(p), call[p] = "writing",
         WriteStep(p, p), UNCHANGED call
  PROVE  Saga(p)'
<1> USE WriteAssumption DEF TypeOK, StoreType, IndexingType, WritingType, Saga,
        PhasesAgree, IndexedWhenDone, LeavesNothing
<1>1. CASE WriteStoreRow(p, p)
  BY <1>1 DEF WriteStoreRow, InsertRow, Throws, IndexCalls, store
<1>2. CASE WriteIndexing(p, p)
  <2>1. CASE IndexCheck(p, p)
    BY <1>2, <2>1 DEF WriteIndexing, IndexCheck, PutStatus, Throws, store
  <2>2. CASE IndexEmbed(p)
    BY <1>2, <2>2 DEF WriteIndexing, IndexEmbed, store
  <2>3. CASE IndexPutVector(p, p)
    BY <1>2, <2>3 DEF WriteIndexing, IndexPutVector, PutVector, Throws, store
  <2>4. CASE IndexPutStatus(p, p)
    BY <1>2, <2>4 DEF WriteIndexing, IndexPutStatus, PutStatus, Throws, store
  <2>5. CASE IndexRecordFailure(p, p)
    BY <1>2, <2>5 DEF WriteIndexing, IndexRecordFailure, PutStatus, Throws, store
  <2> QED BY <1>2, <2>1, <2>2, <2>3, <2>4, <2>5 DEF WriteIndexing, IndexStep
<1>3. CASE WriteIndexed(p)
  BY <1>3 DEF WriteIndexed, IndexReturns, store
<1>4. CASE WriteUndoRow(p, p)
  BY <1>4 DEF WriteUndoRow, DeleteRow, Throws, Reports, store
<1>5. CASE WriteUndoVector(p, p)
  BY <1>5 DEF WriteUndoVector, DropVector, Throws, Reports, store
<1>6. CASE WriteUndoStatus(p, p)
  BY <1>6 DEF WriteUndoStatus, DropStatus, Throws, Reports, store
<1> QED BY <1>1, <1>2, <1>3, <1>4, <1>5, <1>6 DEF WriteStep

\* A call whose rows and phases do not change keeps its part of the invariant.
LEMMA OtherCallStep ==
  ASSUME NEW p \in Procs, Saga(p),
         p \in rows' <=> p \in rows, status'[p] = status[p],
         ix'[p] = ix[p], wr'[p] = wr[p], leak'[p] = leak[p], call'[p] = call[p]
  PROVE  Saga(p)'
  BY DEF Saga, PhasesAgree, IndexedWhenDone, LeavesNothing

LEMMA SagaInit == Init => SagaInv
<1> SUFFICES ASSUME Init PROVE SagaInv
  OBVIOUS
<1>1. TypeOK
  BY TypeInit
<1>2. ASSUME NEW p \in Procs PROVE Saga(p)
  BY WriteAssumption
     DEF Init, StoreInit, IndexingInit, WritingInit, Saga, PhasesAgree,
         IndexedWhenDone, LeavesNothing
<1> QED BY <1>1, <1>2 DEF SagaInv, Saga

LEMMA SagaStep == SagaInv /\ [Next]_vars => SagaInv'
<1> SUFFICES ASSUME SagaInv, [Next]_vars PROVE SagaInv'
  OBVIOUS
<1>1. TypeOK /\ TypeOK'
  BY TypeStep DEF SagaInv
<1>2. ASSUME NEW p \in Procs PROVE Saga(p)
  BY DEF SagaInv, Saga
<1>3. SUFFICES ASSUME NEW p \in Procs PROVE Saga(p)'
  BY <1>1 DEF SagaInv, Saga
<1>4. ASSUME NEW q \in Procs, Gate(q) PROVE Saga(p)'
  BY <1>1, <1>2, <1>4
     DEF Gate, Becomes, Throws, store, TypeOK, Saga, PhasesAgree,
         IndexedWhenDone, LeavesNothing
<1>5. ASSUME NEW q \in Procs, BeginWrite(q) PROVE Saga(p)'
  BY <1>1, <1>2, <1>5
     DEF BeginWrite, WriteCalls, Becomes, store, TypeOK, WritingType, Saga,
         PhasesAgree, IndexedWhenDone, LeavesNothing
<1>6. ASSUME NEW q \in Procs, Write(q) PROVE Saga(p)'
  <2>1. CASE p = q
    BY <1>1, <1>2, <1>6, <2>1, OwnWriteStep DEF Write
  <2>2. CASE p /= q
    BY <1>1, <1>2, <1>6, <2>2, WriteAssumption, WriteStepFrame, OtherCallStep DEF Write
  <2> QED BY <2>1, <2>2
<1>7. ASSUME NEW q \in Procs, EndWrite(q) PROVE Saga(p)'
  BY <1>1, <1>2, <1>7
     DEF EndWrite, WriteReturns, Becomes, store, TypeOK, WritingType, Saga,
         PhasesAgree, IndexedWhenDone, LeavesNothing
<1>8. ASSUME NEW h \in Hosts, Crash(h) PROVE Saga(p)'
  BY <1>1, <1>2, <1>8
     DEF Crash, Ended, store, TypeOK, Saga, PhasesAgree, IndexedWhenDone, LeavesNothing
<1>9. CASE UNCHANGED vars
  BY <1>2, <1>9, OtherCallStep DEF vars
<1> QED BY <1>4, <1>5, <1>6, <1>7, <1>8, <1>9 DEF Next, Step

LEMMA SagaInvariant == Spec => []SagaInv
<1>1. QED BY SagaInit, SagaStep, PTL DEF Spec

\* A rejected call whose rollback reports no failure left neither a row nor a
\* status row, for any rowids, faults and crashes
\* (storeContinuityEntryWithVectorConsistency).
THEOREM RejectionLeavesNothing == Spec => []RejectedLeavesNothing
<1>1. SagaInv => RejectedLeavesNothing
  BY DEF SagaInv, LeavesNothing, RejectedLeavesNothing
<1>2. QED BY <1>1, SagaInvariant, PTL

-----------------------------------------------------------------------------
(* One turn of an event loop covers the gate and the insert.               *)

\* The gate has let p pass and its row is not stored: p holds the event loop.
Unwritten(p) == call[p] = "gated" \/ (call[p] = "writing" /\ wr[p] = "store")

DistinctFrom(p, q) == p /= q /\ Host[p] = Host[q] => Text[p] /= Text[q]

DistinctInv ==
    /\ \A i \in Ids : link[i] = NoId
    /\ faults = MaxFaults =>
         /\ \A p, q \in rows \cap Procs : DistinctFrom(p, q)
         /\ \A p \in Procs, q \in rows \cap Procs : Unwritten(p) => DistinctFrom(p, q)

LEMMA UnwrittenRuns ==
  ASSUME SagaInv, NEW p \in Procs, Unwritten(p), NEW q \in Procs \ {p}, Host[p] = Host[q]
  PROVE  ~ Runs(q)
<1>1. PhasesAgree(p)
  BY DEF SagaInv
<1>2. ~ Suspended(p)
  BY <1>1 DEF PhasesAgree, Unwritten, Suspended, Ended
<1> QED BY <1>2 DEF Runs

\* A statement stores no row but its own, and links nothing.
LEMMA StatementRows ==
  ASSUME StoreType, NEW q \in Ids, \A i \in Ids : link[i] = NoId,
         \/ DeleteRow(q) \/ PutVector(q) \/ DropVector(q)
         \/ DropStatus(q) \/ PutStatus(q, "indexed") \/ PutStatus(q, "failed")
         \/ UNCHANGED store
  PROVE  rows' \subseteq rows /\ \A i \in Ids : link'[i] = NoId
  BY DEF StoreType, store, DeleteRow, PutVector, DropVector, DropStatus, PutStatus

LEMMA WriteMoves ==
  ASSUME TypeOK, NEW q \in Procs, WriteStep(q, q), \A i \in Ids : link[i] = NoId
  PROVE  /\ \A i \in Ids : link'[i] = NoId
         /\ rows' \subseteq rows \/ (wr[q] = "store" /\ rows' = rows \cup {q})
         /\ faults' = MaxFaults => faults = MaxFaults
         /\ wr'[q] /= "store"
<1>0. StoreType /\ q \in Ids /\ faults \in 0..MaxFaults /\ MaxFaults \in Nat
      /\ wr \in [Procs -> WritePhase]
  BY WriteAssumption, IndexingAssumption DEF TypeOK, IndexingType, WritingType
<1>1. CASE WriteStoreRow(q, q)
  <2>1. CASE InsertRow(q)
    BY <1>0, <1>1, <2>1 DEF WriteStoreRow, InsertRow, StoreType, Throws
  <2>2. CASE Throws("store")
    BY <1>0, <1>1, <2>2, StatementRows DEF WriteStoreRow, Throws
  <2> QED BY <1>1, <2>1, <2>2 DEF WriteStoreRow
<1>2. CASE WriteIndexing(q, q)
  <2>1. \/ PutVector(q) \/ PutStatus(q, "indexed") \/ PutStatus(q, "failed")
        \/ UNCHANGED store
    BY <1>2 DEF WriteIndexing, IndexStep, IndexCheck, IndexEmbed, IndexPutVector,
                IndexPutStatus, IndexRecordFailure, Throws
  <2>2. UNCHANGED faults \/ (faults > 0 /\ faults' = faults - 1)
    BY <1>2 DEF WriteIndexing, IndexStep, IndexCheck, IndexEmbed, IndexPutVector,
                IndexPutStatus, IndexRecordFailure, Throws
  <2>3. wr'[q] = "index"
    BY <1>2 DEF WriteIndexing
  <2> QED BY <1>0, <2>1, <2>2, <2>3, StatementRows
<1>3. CASE WriteIndexed(q)
  BY <1>0, <1>3, StatementRows DEF WriteIndexed
<1>4. CASE WriteUndoRow(q, q) \/ WriteUndoVector(q, q) \/ WriteUndoStatus(q, q)
  <2>1. DeleteRow(q) \/ DropVector(q) \/ DropStatus(q) \/ UNCHANGED store
    BY <1>4 DEF WriteUndoRow, WriteUndoVector, WriteUndoStatus, Throws
  <2>2. UNCHANGED faults \/ (faults > 0 /\ faults' = faults - 1)
    BY <1>4 DEF WriteUndoRow, WriteUndoVector, WriteUndoStatus, Throws
  <2>3. wr'[q] \in {"undoVector", "undoStatus", "rejected"}
    BY <1>0, <1>4 DEF WriteUndoRow, WriteUndoVector, WriteUndoStatus
  <2> QED BY <1>0, <2>1, <2>2, <2>3, StatementRows
<1> QED BY <1>1, <1>2, <1>3, <1>4 DEF WriteStep

\* The steps that store nothing, and let no call pass the gate.
LEMMA DistinctFrame ==
  ASSUME DistinctInv, UNCHANGED <<rows, link>>, faults' = MaxFaults => faults = MaxFaults,
         \A p \in Procs : Unwritten(p)' => Unwritten(p)
  PROVE  DistinctInv'
  BY DEF DistinctInv, DistinctFrom

LEMMA DistinctStep == SagaInv /\ DistinctInv /\ [Next]_vars => DistinctInv'
<1> SUFFICES ASSUME SagaInv, DistinctInv, [Next]_vars PROVE DistinctInv'
  OBVIOUS
<1>0. TypeOK /\ call \in [Procs -> CallState] /\ Procs \subseteq Ids
      /\ faults \in 0..MaxFaults /\ MaxFaults \in Nat /\ wr \in [Procs -> WritePhase]
  BY WriteAssumption, IndexingAssumption DEF SagaInv, TypeOK, IndexingType, WritingType
<1>1. ASSUME NEW q \in Procs, Gate(q) PROVE DistinctInv'
  <2>1. UNCHANGED <<rows, link, wr>> /\ call[q] = "idle"
    BY <1>1 DEF Gate, store, Throws
  <2>2. UNCHANGED faults \/ (faults > 0 /\ faults' = faults - 1)
    BY <1>1 DEF Gate, Throws
  <2>3. \A p \in Procs \ {q} : Unwritten(p)' <=> Unwritten(p)
    BY <1>0, <1>1, <2>1 DEF Gate, Becomes, Unwritten
  <2>4. CASE call'[q] = "gated" /\ faults' = MaxFaults
    <3>1. ~ Duplicate(q)
      BY <1>0, <1>1, <2>2, <2>4 DEF Gate, Becomes, Throws
    <3>2. \A r \in rows \ {q} : Text[r] /= Text[q]
      <4>1. rows \subseteq Ids
        BY <1>0 DEF TypeOK, StoreType
      <4> QED BY <3>1, <4>1 DEF Duplicate, Active, DistinctInv
    <3>3. \A r \in rows \cap Procs : DistinctFrom(q, r)
      BY <3>2 DEF DistinctFrom
    <3> QED BY <1>0, <2>1, <2>2, <2>3, <3>3 DEF DistinctInv, DistinctFrom
  <2>5. CASE ~ (call'[q] = "gated" /\ faults' = MaxFaults)
    <3>1. call'[q] \in {"skipped", "duplicate", "gated", "rejected"}
      BY <1>0, <1>1 DEF Gate, Becomes
    <3>2. faults' = MaxFaults => ~ Unwritten(q)'
      BY <2>5, <3>1 DEF Unwritten
    <3> QED BY <1>0, <2>1, <2>2, <2>3, <3>2 DEF DistinctInv, DistinctFrom
  <2> QED BY <2>4, <2>5
<1>2. ASSUME NEW q \in Procs, BeginWrite(q) PROVE DistinctInv'
  <2>1. UNCHANGED <<rows, link, faults>>
    BY <1>2 DEF BeginWrite, store
  <2>2. \A p \in Procs : Unwritten(p)' => Unwritten(p)
    BY <1>0, <1>2 DEF BeginWrite, Becomes, WriteCalls, Unwritten
  <2> QED BY <2>1, <2>2, DistinctFrame
<1>3. ASSUME NEW q \in Procs, Write(q) PROVE DistinctInv'
  <2>1. WriteStep(q, q) /\ call[q] = "writing" /\ Runs(q) /\ UNCHANGED call
    BY <1>3 DEF Write
  <2>2. /\ \A i \in Ids : link'[i] = NoId
        /\ rows' \subseteq rows \/ (wr[q] = "store" /\ rows' = rows \cup {q})
        /\ faults' = MaxFaults => faults = MaxFaults
        /\ wr'[q] /= "store"
    BY <1>0, <2>1, WriteMoves DEF DistinctInv
  <2>3. \A p \in Procs : Unwritten(p)' => Unwritten(p) /\ p /= q
    <3>1. \A p \in Procs \ {q} : wr'[p] = wr[p]
      BY <1>0, <2>1, WriteStepFrame
    <3> QED BY <2>1, <2>2, <3>1 DEF Unwritten
  <2>4. CASE rows' \subseteq rows
    BY <2>2, <2>3, <2>4 DEF DistinctInv, DistinctFrom
  <2>5. CASE wr[q] = "store" /\ rows' = rows \cup {q}
    <3> SUFFICES ASSUME faults' = MaxFaults
                 PROVE  /\ \A p, r \in rows' \cap Procs : DistinctFrom(p, r)
                        /\ \A p \in Procs, r \in rows' \cap Procs :
                              Unwritten(p)' => DistinctFrom(p, r)
      BY <2>2 DEF DistinctInv, DistinctFrom
    <3>1. \A r \in rows \cap Procs : DistinctFrom(q, r) /\ DistinctFrom(r, q)
      BY <2>1, <2>2, <2>5 DEF DistinctInv, Unwritten, DistinctFrom
    <3>2. DistinctFrom(q, q)
      BY DEF DistinctFrom
    <3>3. ASSUME NEW p \in Procs, Unwritten(p)' PROVE DistinctFrom(p, q)
      <4>1. Unwritten(p) /\ p /= q
        BY <2>3, <3>3
      <4>2. Host[p] /= Host[q]
        BY <2>1, <4>1, UnwrittenRuns
      <4> QED BY <4>2 DEF DistinctFrom
    <3> QED BY <2>2, <2>3, <2>5, <3>1, <3>2, <3>3 DEF DistinctInv
  <2> QED BY <2>2, <2>4, <2>5
<1>4. ASSUME NEW q \in Procs, EndWrite(q) PROVE DistinctInv'
  <2>1. UNCHANGED <<rows, link, faults>>
    BY <1>4 DEF EndWrite, store
  <2>2. \A p \in Procs : Unwritten(p)' => Unwritten(p)
    BY <1>0, <1>4 DEF EndWrite, Becomes, WriteReturns, Unwritten
  <2> QED BY <2>1, <2>2, DistinctFrame
<1>5. ASSUME NEW h \in Hosts, Crash(h) PROVE DistinctInv'
  <2>1. UNCHANGED <<rows, link, faults, wr>>
    BY <1>5 DEF Crash, store
  <2>2. \A p \in Procs : Unwritten(p)' => Unwritten(p)
    BY <1>0, <1>5, <2>1 DEF Crash, Unwritten
  <2> QED BY <2>1, <2>2, DistinctFrame
<1>6. CASE UNCHANGED vars
  BY <1>6, DistinctFrame DEF vars, Unwritten
<1> QED BY <1>1, <1>2, <1>3, <1>4, <1>5, <1>6 DEF Next, Step

LEMMA DistinctInit == Init => DistinctInv
  BY DEF Init, StoreInit, DistinctInv, DistinctFrom, Unwritten

\* Until a database call throws, two calls of one host never both store the
\* same text, however their awaits interleave and whichever hosts crash
\* (evaluateContinuityWriteQualityGate).
THEOREM HostStoresOnce == Spec => []NoDuplicateRows
<1>1. Init => SagaInv /\ DistinctInv
  BY SagaInit, DistinctInit
<1>2. SagaInv /\ DistinctInv /\ [Next]_vars => SagaInv' /\ DistinctInv'
  BY SagaStep, DistinctStep
<1>3. DistinctInv => NoDuplicateRows
  BY DEF DistinctInv, DistinctFrom, NoDuplicateRows
<1>4. QED BY <1>1, <1>2, <1>3, PTL DEF Spec

-----------------------------------------------------------------------------
(* Which entries a "duplicate" answer may point at in vain.                *)

Given(r) == call[r] \in {"rejected", "crashed"}

\* r's write is past its row's deletion: it will be answered "rejected".
RolledBack(r) == wr[r] \in {"undoVector", "undoStatus", "rejected"}

\* The entry the gate saw is stored, or its own call rolled it back.
Accounted(p) ==
    \E r \in Ids :
        /\ Text[r] = Text[p]
        /\ r \in rows \/ (r \in Procs /\ (RolledBack(r) \/ Given(r)))

DuplicateInv == \A p \in Procs : call[p] = "duplicate" => Accounted(p)

\* Only the write of r takes r's row away, and then it is rolling back.
LEMMA RowLeaves ==
  ASSUME SagaInv, NEW q \in Procs, WriteStep(q, q), call[q] = "writing", NEW r \in Ids
  PROVE  /\ r \in rows => r \in rows' \/ (r = q /\ RolledBack(r)')
         /\ r \in Procs /\ RolledBack(r) => RolledBack(r)'
<1>1. TypeOK /\ wr \in [Procs -> WritePhase] /\ StoreType /\ q \in Ids
  BY WriteAssumption DEF SagaInv, TypeOK, WritingType
<1>2. CASE r /= q
  BY <1>1, <1>2, WriteStepFrame DEF RolledBack
<1>3. CASE r = q
  <2>1. CASE WriteStoreRow(q, q) \/ WriteIndexing(q, q) \/ WriteIndexed(q)
    <3>1. rows \subseteq rows'
      <4>1. CASE WriteStoreRow(q, q)
        BY <4>1 DEF WriteStoreRow, InsertRow, Throws, store
      <4>2. CASE WriteIndexing(q, q)
        BY <4>2 DEF WriteIndexing, IndexStep, IndexCheck, IndexEmbed, Throws, store,
           IndexPutVector, IndexPutStatus, IndexRecordFailure, PutVector, PutStatus
      <4>3. CASE WriteIndexed(q)
        BY <4>3 DEF WriteIndexed, store
      <4> QED BY <2>1, <4>1, <4>2, <4>3
    <3>2. ~ RolledBack(q)
      BY <2>1 DEF WriteStoreRow, WriteIndexing, WriteIndexed, RolledBack
    <3> QED BY <1>3, <3>1, <3>2
  <2>2. CASE WriteUndoRow(q, q)
    BY <1>1, <1>3, <2>2 DEF WriteUndoRow, RolledBack
  <2>3. CASE WriteUndoVector(q, q)
    BY <1>1, <1>3, <2>3 DEF WriteUndoVector, DropVector, store, RolledBack
  <2>4. CASE WriteUndoStatus(q, q)
    BY <1>1, <1>3, <2>4 DEF WriteUndoStatus, DropStatus, store, RolledBack
  <2> QED BY <2>1, <2>2, <2>3, <2>4 DEF WriteStep
<1> QED BY <1>2, <1>3

LEMMA DuplicateStep == SagaInv /\ DuplicateInv /\ [Next]_vars => DuplicateInv'
<1> SUFFICES ASSUME SagaInv, DuplicateInv, [Next]_vars,
                    NEW p \in Procs, call'[p] = "duplicate"
             PROVE  Accounted(p)'
  BY DEF DuplicateInv
<1>0. TypeOK /\ call \in [Procs -> CallState] /\ wr \in [Procs -> WritePhase]
  BY DEF SagaInv, TypeOK, WritingType
<1>1. ASSUME NEW q \in Procs, Gate(q) PROVE Accounted(p)'
  <2>1. UNCHANGED <<rows, wr>>
    BY <1>1 DEF Gate, store
  <2>2. \A r \in Procs : Given(r) => Given(r)'
    BY <1>0, <1>1 DEF Gate, Becomes, Given
  <2>3. CASE call[p] = "duplicate"
    BY <2>1, <2>2, <2>3 DEF DuplicateInv, Accounted, RolledBack
  <2>4. CASE call[p] /= "duplicate"
    <3>1. p = q /\ Duplicate(p)
      BY <1>0, <1>1, <2>4 DEF Gate, Becomes
    <3>2. rows \subseteq Ids
      BY <1>0 DEF TypeOK, StoreType
    <3> QED BY <2>1, <3>1, <3>2 DEF Duplicate, Accounted
  <2> QED BY <2>3, <2>4
<1>2. ASSUME NEW q \in Procs, BeginWrite(q) PROVE Accounted(p)'
  <2>1. UNCHANGED rows /\ call[p] = "duplicate"
    BY <1>0, <1>2 DEF BeginWrite, Becomes, store
  <2>2. \A r \in Procs : (Given(r) => Given(r)') /\ (RolledBack(r) => RolledBack(r)')
    BY <1>0, <1>2 DEF BeginWrite, Becomes, WriteCalls, Given, RolledBack,
       SagaInv, PhasesAgree
  <2> QED BY <2>1, <2>2 DEF DuplicateInv, Accounted
<1>3. ASSUME NEW q \in Procs, Write(q) PROVE Accounted(p)'
  <2>1. WriteStep(q, q) /\ call[q] = "writing" /\ call' = call
    BY <1>3 DEF Write
  <2>2. PICK r \in Ids : /\ Text[r] = Text[p]
                         /\ r \in rows \/ (r \in Procs /\ (RolledBack(r) \/ Given(r)))
    BY <2>1 DEF DuplicateInv, Accounted
  <2>3. r \in Procs /\ Given(r) => Given(r)'
    BY <2>1 DEF Given
  <2> QED BY <2>1, <2>2, <2>3, RowLeaves DEF Accounted
<1>4. ASSUME NEW q \in Procs, EndWrite(q) PROVE Accounted(p)'
  <2>1. UNCHANGED rows /\ call[p] = "duplicate"
    BY <1>0, <1>4 DEF EndWrite, Becomes, store
  <2>2. \A r \in Procs : Given(r) => Given(r)'
    BY <1>0, <1>4 DEF EndWrite, Becomes, Given
  <2>3. \A r \in Procs : RolledBack(r) => RolledBack(r)' \/ Given(r)'
    BY <1>0, <1>4 DEF EndWrite, Becomes, WriteReturns, Given, RolledBack
  <2> QED BY <2>1, <2>2, <2>3 DEF DuplicateInv, Accounted
<1>5. ASSUME NEW h \in Hosts, Crash(h) PROVE Accounted(p)'
  <2>1. UNCHANGED <<rows, wr>> /\ call[p] = "duplicate"
    BY <1>0, <1>5 DEF Crash, store
  <2>2. \A r \in Procs : Given(r) => Given(r)'
    BY <1>0, <1>5 DEF Crash, Given
  <2> QED BY <2>1, <2>2 DEF DuplicateInv, Accounted, RolledBack
<1>6. CASE UNCHANGED vars
  BY <1>6 DEF vars, DuplicateInv, Accounted, RolledBack, Given
<1> QED BY <1>1, <1>2, <1>3, <1>4, <1>5, <1>6 DEF Next, Step

\* Once every call is answered, a text refused as a duplicate is in the store,
\* or the call that wrote it was itself rejected, or its host died: nothing
\* but that call's own rollback takes away the entry a gate saw, so
\* DuplicateIsStored can fail in no other way
\* (evaluateContinuityWriteQualityGate, storeContinuityEntryWithVectorConsistency).
THEOREM OnlyRollbackLosesDuplicates ==
  Spec => [](Finished => \A p \in Procs : call[p] = "duplicate" =>
                \/ \E r \in rows : Text[r] = Text[p]
                \/ \E r \in Procs : /\ Text[r] = Text[p]
                                    /\ call[r] \in {"rejected", "crashed"})
<1> DEFINE Kept == Finished => \A p \in Procs : call[p] = "duplicate" =>
                \/ \E r \in rows : Text[r] = Text[p]
                \/ \E r \in Procs : /\ Text[r] = Text[p]
                                    /\ call[r] \in {"rejected", "crashed"}
<1>1. Init => SagaInv /\ DuplicateInv
  BY SagaInit DEF Init, DuplicateInv
<1>2. SagaInv /\ DuplicateInv /\ [Next]_vars => SagaInv' /\ DuplicateInv'
  BY SagaStep, DuplicateStep
<1>3. SagaInv /\ DuplicateInv => Kept
  <2> SUFFICES ASSUME SagaInv, DuplicateInv, Finished,
                      NEW p \in Procs, call[p] = "duplicate"
               PROVE  \/ \E r \in rows : Text[r] = Text[p]
                      \/ \E r \in Procs : /\ Text[r] = Text[p]
                                          /\ call[r] \in {"rejected", "crashed"}
    OBVIOUS
  <2>1. PICK r \in Ids : /\ Text[r] = Text[p]
                         /\ r \in rows \/ (r \in Procs /\ (RolledBack(r) \/ Given(r)))
    BY DEF DuplicateInv, Accounted
  <2>2. r \in Procs /\ RolledBack(r) => Given(r)
    BY DEF SagaInv, PhasesAgree, RolledBack, Given, Finished, Ended
  <2> QED BY <2>1, <2>2 DEF Given
<1> HIDE DEF Kept
<1>4. Spec => []Kept
  BY <1>1, <1>2, <1>3, PTL DEF Spec
<1> QED BY <1>4 DEF Kept

-----------------------------------------------------------------------------
(* Why a vector is not its entry's own.                                    *)

\* What a step of one call's store call does to the vectors.
LEMMA VectorMoves ==
  ASSUME TypeOK, NEW q \in Procs, Saga(q), call[q] = "writing", WriteStep(q, q), UNCHANGED call
  PROVE  \/ /\ vec' = [vec EXCEPT ![RowId[q]] = q]
            /\ ix[q] = "vector"
         \/ /\ vec' = [vec EXCEPT ![RowId[q]] = NoId]
            /\ wr'[q] = "undoStatus" /\ status[q] /= "indexed"
         \/ vec' = vec
<1> USE WriteAssumption DEF TypeOK, WritingType
<1>1. CASE WriteStoreRow(q, q)
  BY <1>1 DEF WriteStoreRow, InsertRow, Throws, store
<1>2. CASE WriteIndexing(q, q)
  BY <1>2 DEF WriteIndexing, IndexStep, IndexCheck, IndexEmbed, IndexPutVector,
              IndexPutStatus, IndexRecordFailure, PutStatus, PutVector, Throws, store
<1>3. CASE WriteIndexed(q)
  BY <1>3 DEF WriteIndexed, store
<1>4. CASE WriteUndoRow(q, q)
  BY <1>4 DEF WriteUndoRow, DeleteRow, Throws, store
<1>5. CASE WriteUndoVector(q, q)
  BY <1>5 DEF WriteUndoVector, DropVector, Throws, store, Saga, PhasesAgree, IndexedWhenDone
<1>6. CASE WriteUndoStatus(q, q)
  BY <1>6 DEF WriteUndoStatus, DropStatus, Throws, store
<1> QED BY <1>1, <1>2, <1>3, <1>4, <1>5, <1>6 DEF WriteStep

\* A withdrawal is final, for the caller and for the others.
LEMMA WithdrawalStays ==
  ASSUME TypeOK, NEW q \in Procs, WriteStep(q, q), UNCHANGED call,
         NEW p \in Procs, Withdrew(p)
  PROVE  Withdrew(p)'
<1>1. CASE p /= q
  BY <1>1, WriteAssumption, WriteStepFrame DEF Withdrew
<1>2. CASE p = q
  BY <1>2 DEF TypeOK, WritingType, Withdrew, WriteStep, WriteStoreRow, WriteIndexing,
              WriteIndexed, WriteUndoRow, WriteUndoVector, WriteUndoStatus
<1> QED BY <1>1, <1>2

\* How a call's index phases follow each other.
LEMMA IndexPhases ==
  ASSUME TypeOK, NEW q \in Procs, Saga(q), call[q] = "writing", WriteStep(q, q)
  PROVE  /\ ix'[q] = "status" => ix[q] = "vector" /\ vec'[RowId[q]] = q
         /\ status'[q] = "indexed" => ix[q] = "status" \/ status[q] = "indexed"
         /\ ix'[q] \in {"idle", "check", "error"} \/ ix[q] \in {"check", "embed", "vector", "status", "failed"}
         /\ ix[q] = "check" /\ Collides(q) => ix'[q] = "error"
<1> USE WriteAssumption, StoreAssumption DEF TypeOK, StoreType, IndexingType
<1>1. CASE WriteStoreRow(q, q)
  BY <1>1 DEF WriteStoreRow, InsertRow, Throws, IndexCalls, store, Saga, PhasesAgree
<1>2. CASE WriteIndexing(q, q)
  <2>1. CASE IndexCheck(q, q)
    BY <1>2, <2>1 DEF WriteIndexing, IndexCheck, PutStatus, Throws, store, Saga,
                      PhasesAgree, IndexedWhenDone
  <2>2. CASE IndexEmbed(q)
    BY <1>2, <2>2 DEF IndexEmbed, store
  <2>3. CASE IndexPutVector(q, q)
    BY <1>2, <2>3 DEF IndexPutVector, PutVector, Throws, store
  <2>4. CASE IndexPutStatus(q, q)
    BY <1>2, <2>4 DEF IndexPutStatus, PutStatus, Throws, store
  <2>5. CASE IndexRecordFailure(q, q)
    BY <1>2, <2>5 DEF IndexRecordFailure, PutStatus, Throws, store
  <2> QED BY <1>2, <2>1, <2>2, <2>3, <2>4, <2>5 DEF WriteIndexing, IndexStep
<1>3. CASE WriteIndexed(q)
  BY <1>3 DEF WriteIndexed, IndexReturns, store
<1>4. CASE WriteUndoRow(q, q)
  BY <1>4 DEF WriteUndoRow, DeleteRow, Throws, store, Saga, PhasesAgree
<1>5. CASE WriteUndoVector(q, q)
  BY <1>5 DEF WriteUndoVector, DropVector, Throws, store, Saga, PhasesAgree
<1>6. CASE WriteUndoStatus(q, q)
  BY <1>6 DEF WriteUndoStatus, DropStatus, Throws, store, Saga, PhasesAgree
<1> QED BY <1>1, <1>2, <1>3, <1>4, <1>5, <1>6 DEF WriteStep

\* Every step of the saga is a step of one call's store call, or leaves the
\* tables and the index phases alone and takes no withdrawal back.
LEMMA StepShape ==
  ASSUME SagaInv, [Next]_vars
  PROVE  \/ \E q \in Procs : Write(q)
         \/ /\ UNCHANGED <<rows, status, vec, ix>>
            /\ \A p \in Procs : Withdrew(p) => Withdrew(p)'
<1>0. \A p \in Procs : PhasesAgree(p)
  BY DEF SagaInv
<1>1. call \in [Procs -> CallState] /\ wr \in [Procs -> WritePhase]
  BY DEF SagaInv, TypeOK, WritingType
<1>2. ASSUME NEW q \in Procs, Gate(q) \/ BeginWrite(q) \/ EndWrite(q)
      PROVE  /\ UNCHANGED <<rows, status, vec, ix>>
             /\ \A p \in Procs : Withdrew(p) => Withdrew(p)'
  <2>1. UNCHANGED <<rows, status, vec, ix>>
    BY <1>2 DEF Gate, BeginWrite, EndWrite, store, Throws
  <2>2. ASSUME NEW p \in Procs, Withdrew(p) PROVE Withdrew(p)'
    BY <1>0, <1>1, <1>2, <2>2
       DEF Gate, BeginWrite, EndWrite, WriteCalls, WriteReturns, Becomes, Withdrew,
           PhasesAgree
  <2> QED BY <2>1, <2>2
<1>3. ASSUME NEW h \in Hosts, Crash(h)
      PROVE  /\ UNCHANGED <<rows, status, vec, ix>>
             /\ \A p \in Procs : Withdrew(p) => Withdrew(p)'
  BY <1>1, <1>3 DEF Crash, store, Withdrew, Ended
<1>4. CASE UNCHANGED vars
  BY <1>4 DEF vars, Withdrew
<1> QED BY <1>2, <1>3, <1>4 DEF Next, Step

LEMMA VectorInit == Init => VectorInv
<1> SUFFICES ASSUME Init PROVE VectorInv
  OBVIOUS
<1>1. ASSUME NEW p \in Procs PROVE OwnsVector(p)
  BY WriteAssumption DEF Init, StoreInit, IndexingInit, OwnsVector
<1>2. ASSUME NEW i \in Ids \ Procs PROVE OldEntry(i)
  <2>1. vec[RowId[i]] = CHOOSE j \in Ids \ Procs : RowId[j] = RowId[i]
    BY StoreAssumption DEF Init, StoreInit
  <2>2. vec[RowId[i]] \in Ids \ Procs /\ RowId[vec[RowId[i]]] = RowId[i]
    BY <2>1
  <2> QED BY <2>2 DEF Init, StoreInit, IndexingInit, OldEntry, Explained
<1> QED BY <1>1, <1>2 DEF VectorInv

\* A step of another call leaves an entry's vector explained.
LEMMA ExplainedStays ==
  ASSUME SagaInv, NEW q \in Procs, Write(q), NEW i \in Ids, Explained(i),
         i \notin Procs => (RowId[q] = RowId[i] => ix[q] /= "vector"),
         i = q => vec'[RowId[i]] /= NoId \/ vec' = vec
  PROVE  Explained(i)'
<1>1. /\ TypeOK /\ Saga(q) /\ WriteStep(q, q) /\ call[q] = "writing" /\ call' = call
      /\ q \in Ids /\ NoId \notin Ids /\ RowId \in [Ids -> RowIds]
      /\ vec \in [RowIds -> Ids \cup {NoId}]
  BY WriteAssumption, StoreAssumption DEF SagaInv, Saga, Write, TypeOK, StoreType
<1>2. \A p \in Procs : Withdrew(p) => Withdrew(p)'
  BY <1>1, WithdrawalStays
<1>3. CASE vec'[RowId[i]] = vec[RowId[i]]
  BY <1>2, <1>3 DEF Explained, Removed
<1>4. CASE RowId[q] = RowId[i] /\ vec' = [vec EXCEPT ![RowId[q]] = q] /\ ix[q] = "vector"
  BY <1>1, <1>4 DEF Explained
<1>5. CASE /\ RowId[q] = RowId[i] /\ vec' = [vec EXCEPT ![RowId[q]] = NoId]
           /\ wr'[q] = "undoStatus"
  <2>1. vec'[RowId[i]] = NoId /\ Withdrew(q)'
    BY <1>1, <1>5 DEF Withdrew
  <2>2. CASE i /= q
    BY <1>5, <2>1, <2>2 DEF Explained, Removed
  <2>3. CASE i = q
    BY <1>3, <2>1, <2>3
  <2> QED BY <2>2, <2>3
<1>6. \/ vec'[RowId[i]] = vec[RowId[i]]
      \/ RowId[q] = RowId[i]
  BY <1>1, VectorMoves
<1> QED BY <1>1, <1>3, <1>4, <1>5, <1>6, VectorMoves

LEMMA VectorStep == SagaInv /\ VectorInv /\ [Next]_vars => VectorInv'
<1> SUFFICES ASSUME SagaInv, VectorInv, [Next]_vars PROVE VectorInv'
  OBVIOUS
<1> USE WriteAssumption
<1>1. CASE UNCHANGED <<rows, status, vec, ix>> /\ \A p \in Procs : Withdrew(p) => Withdrew(p)'
  BY <1>1 DEF VectorInv, OwnsVector, OldEntry, Explained, Removed
<1>2. ASSUME NEW q \in Procs, Write(q) PROVE VectorInv'
  <2>1. TypeOK /\ Saga(q) /\ WriteStep(q, q) /\ call[q] = "writing" /\ call' = call
    BY <1>2 DEF SagaInv, Saga, Write
  <2>2. ASSUME NEW i \in Ids \ {q}
        PROVE  /\ i \in rows' <=> i \in rows
               /\ status'[i] = status[i]
               /\ i \in Procs => ix'[i] = ix[i]
    BY <2>1, WriteStepFrame
  <2>3. ASSUME NEW i \in Ids \ Procs, RowId[q] = RowId[i]
        PROVE  /\ ix[q] \in {"idle", "check", "error"}
               /\ ix'[q] \in {"idle", "check", "error"}
    <3>1. ix[q] \in {"idle", "check", "error"} /\ status[i] = "indexed" /\ i /= q
      BY <2>3 DEF VectorInv, OldEntry
    <3>2. Collides(q)
      BY <2>3, <3>1 DEF Collides
    <3> QED BY <2>1, <3>1, <3>2, IndexPhases
  <2>4. ASSUME NEW p \in Procs PROVE OwnsVector(p)'
    <3>1. SUFFICES ASSUME (ix[p] = "status" \/ status[p] = "indexed")' PROVE Explained(p)'
      BY DEF OwnsVector
    <3>2. CASE p /= q
      <4>1. Explained(p)
        BY <2>2, <3>1, <3>2 DEF VectorInv, OwnsVector
      <4> QED BY <1>2, <3>2, <4>1, ExplainedStays
    <3>3. CASE p = q /\ vec'[RowId[q]] = q
      BY <3>3 DEF Explained
    <3>4. CASE p = q /\ vec'[RowId[q]] /= q
      <4>1. ix[q] = "status" \/ status[q] = "indexed"
        BY <2>1, <3>1, <3>4, IndexPhases
      <4>2. Explained(q)
        BY <4>1 DEF VectorInv, OwnsVector
      <4>3. vec' = vec
        <5>1. ix[q] /= "vector"
          BY <2>1, <4>1 DEF Saga, PhasesAgree, IndexedWhenDone
        <5>2. wr'[q] /= "undoStatus" \/ status[q] = "indexed"
          BY <2>1, <4>1 DEF Saga, PhasesAgree, WriteStep, WriteStoreRow, WriteIndexing,
             WriteIndexed, WriteUndoRow, WriteUndoVector, WriteUndoStatus, TypeOK, WritingType
        <5> QED BY <2>1, <5>1, <5>2, VectorMoves
      <4> QED BY <1>2, <3>4, <4>2, <4>3, ExplainedStays
    <3> QED BY <3>2, <3>3, <3>4
  <2>5. ASSUME NEW i \in Ids \ Procs PROVE OldEntry(i)'
    <3>1. OldEntry(i) /\ i /= q
      BY DEF VectorInv
    <3>2. Explained(i)'
      BY <1>2, <2>3, <3>1, ExplainedStays DEF OldEntry
    <3>3. vec'[RowId[i]] \notin Procs
      BY <2>1, <2>3, <3>1, VectorMoves, StoreAssumption DEF OldEntry, TypeOK, StoreType
    <3>4. ASSUME NEW p \in Procs, RowId[p] = RowId[i] PROVE ix'[p] \in {"idle", "check", "error"}
      BY <2>2, <2>3, <3>1, <3>4 DEF OldEntry
    <3> QED BY <2>2, <3>1, <3>2, <3>3, <3>4 DEF OldEntry
  <2> QED BY <2>4, <2>5 DEF VectorInv
<1> QED BY <1>1, <1>2, StepShape

LEMMA VectorInvariant == Spec => [](SagaInv /\ VectorInv)
<1>1. Init => SagaInv /\ VectorInv
  BY SagaInit, VectorInit
<1>2. SagaInv /\ VectorInv /\ [Next]_vars => SagaInv' /\ VectorInv'
  BY SagaStep, VectorStep
<1>3. QED BY <1>1, <1>2, PTL DEF Spec

\* A stored entry marked "indexed" is ranked by its own embedding unless another
\* entry with its rowid displaced the vector, by a rollback or by a write that
\* overlapped its own; for any rowids, faults and crashes
\* (indexContinuityVectorEntry, deleteContinuityVectorEntry).
THEOREM SearchIsSound == Spec => []SearchSound
<1>1. SagaInv /\ VectorInv => SearchSound
  <2> SUFFICES ASSUME SagaInv, VectorInv, NEW i \in rows, status[i] = "indexed",
                      vec[RowId[i]] /= i
               PROVE  \E p \in Ids \ {i} :
                         RowId[p] = RowId[i] /\ (Overwrote(p, i) \/ Removed(p, i))
    BY DEF SearchSound
  <2>1. i \in Ids
    BY DEF SagaInv, TypeOK, StoreType
  <2>2. Explained(i)
    BY <2>1 DEF VectorInv, OwnsVector, OldEntry
  <2> QED BY <2>1, <2>2, WriteAssumption DEF Explained, Overwrote
<1>2. QED BY <1>1, VectorInvariant, PTL

-----------------------------------------------------------------------------
(* The saga implements atomic publication.                                 *)

LEMMA Answers ==
  /\ AnswerTo("stored") = "stored"
  /\ AnswerTo("crashed") = "lost"
  /\ \A s \in {"skipped", "duplicate", "rejected"} : AnswerTo(s) = "refused"
  /\ \A s \in {"idle", "gated", "writing"} : AnswerTo(s) = "pending"
  BY DEF AnswerTo

\* Only the call that changes state gets an answer, if it is one of those shown.
LEMMA AnswerChanges ==
  ASSUME call \in [Procs -> CallState], NEW q \in Procs, NEW state, Becomes(q, state)
  PROVE  /\ q \in Lone => Answer' = [Answer EXCEPT ![q] = AnswerTo(state)]
         /\ q \notin Lone => Answer' = Answer
  BY DEF Becomes, Answer, Lone

\* A call shown is published exactly when its status row says "indexed".
LEMMA PublishedMeans ==
  SagaInv /\ VectorInv => Published = {p \in Lone : status[p] = "indexed"}
<1> SUFFICES ASSUME SagaInv, VectorInv
             PROVE  Published = {p \in Lone : status[p] = "indexed"}
  OBVIOUS
<1>1. ASSUME NEW p \in Lone, status[p] = "indexed"
      PROVE  p \in rows /\ vec[RowId[p]] = p
  <2>1. p \in Procs /\ \A q \in Procs \ {p} : RowId[q] /= RowId[p]
    BY DEF Lone
  <2>2. PhasesAgree(p) /\ IndexedWhenDone(p) /\ Explained(p)
    BY <1>1, <2>1 DEF SagaInv, VectorInv, OwnsVector
  <2>3. p \in rows
    BY <1>1, <2>2 DEF PhasesAgree, IndexedWhenDone
  <2>4. vec[RowId[p]] = p
    BY <2>1, <2>2 DEF Explained
  <2> QED BY <2>3, <2>4
<1> QED BY <1>1 DEF Published, Searchable

LEMMA PublicationInit ==
  ASSUME Init
  PROVE  Publication!Init
<1>1. SagaInv /\ VectorInv
  BY SagaInit, VectorInit
<1>2. Published = {}
  BY <1>1, PublishedMeans, WriteAssumption DEF Init, StoreInit, Lone
<1>3. Answer = [w \in Lone |-> "pending"]
  BY Answers DEF Init, Answer, Lone
<1> QED BY <1>2, <1>3 DEF Publication!Init

\* A step of a call that is shown.
LEMMA ShownStep ==
  ASSUME SagaInv, NEW q \in Lone, Step(q),
         Published = {p \in Lone : status[p] = "indexed"},
         Published' = {p \in Lone : status'[p] = "indexed"}
  PROVE  [Publication!Next]_<<Published, Answer>>
<1>1. TypeOK /\ call \in [Procs -> CallState] /\ q \in Procs /\ Saga(q)
  BY DEF SagaInv, TypeOK, Lone, Saga
<1>2. CASE Gate(q)
  <2>1. Published' = Published
    BY <1>2 DEF Gate, Throws, store
  <2>2. Answer[q] = "pending" /\ q \notin Published
    BY <1>1, <1>2, Answers DEF Gate, Answer, Saga, LeavesNothing
  <2>3. CASE \E s \in {"skipped", "duplicate", "rejected"} : Becomes(q, s)
    <3>1. Answer' = [Answer EXCEPT ![q] = "refused"]
      BY <1>1, <2>3, AnswerChanges, Answers
    <3> QED BY <2>1, <2>2, <3>1 DEF Publication!Next, Publication!Refuse
  <2>4. CASE Becomes(q, "gated")
    <3>1. Answer' = [Answer EXCEPT ![q] = "pending"]
      BY <1>1, <2>4, AnswerChanges, Answers
    <3>2. Answer' = Answer
      BY <2>2, <3>1 DEF Answer
    <3> QED BY <2>1, <3>2
  <2> QED BY <1>2, <2>3, <2>4 DEF Gate
<1>3. CASE BeginWrite(q)
  <2>1. Answer' = [Answer EXCEPT ![q] = "pending"]
    BY <1>1, <1>3, AnswerChanges, Answers DEF BeginWrite
  <2>2. Answer[q] = "pending"
    BY <1>1, <1>3, Answers DEF BeginWrite, Answer
  <2>3. Answer' = Answer
    BY <2>1, <2>2 DEF Answer
  <2>4. Published' = Published
    BY <1>3 DEF BeginWrite, store
  <2> QED BY <2>3, <2>4
<1>4. CASE Write(q)
  <2>1. WriteStep(q, q) /\ call[q] = "writing"
    BY <1>4 DEF Write
  <2>2. \A p \in Lone \ {q} : status'[p] = status[p]
    BY <1>1, <2>1, WriteAssumption, WriteStepFrame DEF Lone
  <2>3. status[q] = "indexed" => status'[q] = "indexed"
    BY <1>1, <2>1 DEF Saga, PhasesAgree, IndexedWhenDone, WriteStep, WriteStoreRow,
        WriteIndexing, IndexStep, IndexCheck, IndexEmbed, IndexPutVector,
        IndexPutStatus, IndexRecordFailure, WriteIndexed, WriteUndoRow,
        WriteUndoVector, WriteUndoStatus, store
  <2>4. Answer' = Answer /\ Answer[q] = "pending"
    BY <1>1, <1>4, <2>1, Answers DEF Write, Answer
  <2>5. CASE status'[q] = "indexed"
    <3>1. Published' = Published \cup {q}
      BY <2>2, <2>5
    <3> QED BY <2>4, <3>1 DEF Publication!Next, Publication!Publish
  <2>6. CASE status'[q] /= "indexed"
    <3>1. Published' = Published
      BY <2>2, <2>3, <2>6
    <3> QED BY <2>4, <3>1
  <2> QED BY <2>5, <2>6
<1>5. CASE EndWrite(q)
  <2>1. Published' = Published
    BY <1>5 DEF EndWrite, store
  <2>2. Answer[q] = "pending"
    BY <1>1, <1>5, Answers DEF EndWrite, Answer
  <2>3. CASE wr[q] = "stored"
    <3>1. Answer' = [Answer EXCEPT ![q] = "stored"]
      BY <1>1, <1>5, <2>3, AnswerChanges, Answers DEF EndWrite
    <3>2. q \in Published
      BY <1>1, <2>3 DEF Saga, IndexedWhenDone
    <3> QED BY <2>1, <2>2, <3>1, <3>2 DEF Publication!Next, Publication!Confirm
  <2>4. CASE wr[q] = "rejected"
    <3>1. Answer' = [Answer EXCEPT ![q] = "refused"]
      BY <1>1, <1>5, <2>4, AnswerChanges, Answers DEF EndWrite
    <3>2. q \notin Published
      BY <1>1, <1>5, <2>4 DEF EndWrite, Saga, PhasesAgree, IndexedWhenDone
    <3> QED BY <2>1, <2>2, <3>1, <3>2 DEF Publication!Next, Publication!Refuse
  <2> QED BY <1>5, <2>3, <2>4 DEF EndWrite
<1> QED BY <1>2, <1>3, <1>4, <1>5 DEF Step

\* A step of a call that shares its rowid with another changes nothing shown.
LEMMA HiddenStep ==
  ASSUME SagaInv, NEW q \in Procs \ Lone, Step(q)
  PROVE  Answer' = Answer /\ \A p \in Lone : status'[p] = status[p]
<1>1. TypeOK /\ call \in [Procs -> CallState] /\ Lone \subseteq Procs \ {q}
  BY DEF SagaInv, TypeOK, Lone
<1>2. CASE Gate(q) \/ BeginWrite(q) \/ EndWrite(q)
  <2>1. status' = status
    BY <1>2 DEF Gate, BeginWrite, EndWrite, store, Throws
  <2>2. \E s \in CallState : Becomes(q, s)
    BY <1>2 DEF Gate, BeginWrite, EndWrite, CallState
  <2> QED BY <1>1, <2>1, <2>2, AnswerChanges
<1>3. CASE Write(q)
  <2>1. WriteStep(q, q) /\ call' = call
    BY <1>3 DEF Write
  <2> QED BY <1>1, <2>1, WriteAssumption, WriteStepFrame DEF Answer
<1> QED BY <1>2, <1>3 DEF Step

LEMMA PublicationStep ==
  ASSUME SagaInv, Published = {p \in Lone : status[p] = "indexed"},
         (Published = {p \in Lone : status[p] = "indexed"})', [Next]_vars
  PROVE  [Publication!Next]_<<Published, Answer>>
<1>1. Published' = {p \in Lone : status'[p] = "indexed"}
  BY DEF Lone
<1>2. Lone \subseteq Procs /\ call \in [Procs -> CallState]
  BY DEF SagaInv, TypeOK, Lone
<1>3. ASSUME NEW q \in Procs, Step(q) PROVE [Publication!Next]_<<Published, Answer>>
  <2>1. CASE q \in Lone
    BY <1>1, <1>3, <2>1, ShownStep
  <2>2. CASE q \notin Lone
    BY <1>1, <1>3, <2>2, HiddenStep
  <2> QED BY <2>1, <2>2
<1>4. ASSUME NEW h \in Hosts, Crash(h) PROVE [Publication!Next]_<<Published, Answer>>
  <2> DEFINE lost == {p \in Lone : Host[p] = h /\ call[p] \notin Ended}
  <2>1. Published' = Published
    BY <1>1, <1>4 DEF Crash, store
  <2>2. \A p \in lost : Answer[p] = "pending"
    BY <1>2, Answers DEF Answer, CallState, Ended
  <2>3. Answer' = [p \in Lone |-> IF p \in lost THEN "lost" ELSE Answer[p]]
    BY <1>2, <1>4, Answers DEF Crash, Answer, Lone
  <2>4. Publication!Lose(lost)
    BY <2>1, <2>2, <2>3 DEF Publication!Lose
  <2> QED BY <2>4 DEF Publication!Next
<1>5. CASE UNCHANGED vars
  BY <1>1, <1>5 DEF vars, Answer, Lone
<1> QED BY <1>3, <1>4, <1>5 DEF Next

\* Storing the row, indexing it and undoing both is, to a reader and to a caller
\* whose rowid no other call has, one atomic publication: an entry appears once,
\* before its call answers "stored", and never for a call that is refused
\* (storeContinuityEntryWithVectorConsistency).
THEOREM PublicationIsAtomic == Spec => AtomicPublication
<1>1. Init => Publication!Init
  BY PublicationInit
<1> DEFINE Meaning == Published = {p \in Lone : status[p] = "indexed"}
<1>2. SagaInv /\ VectorInv => Meaning
  BY PublishedMeans
<1>3. SagaInv /\ Meaning /\ Meaning' /\ [Next]_vars
        => [Publication!Next]_<<Published, Answer>>
  BY PublicationStep
<1> HIDE DEF Meaning
<1>4. QED
  BY <1>1, <1>2, <1>3, VectorInvariant, PTL
     DEF Spec, AtomicPublication, Publication!Spec
=============================================================================
