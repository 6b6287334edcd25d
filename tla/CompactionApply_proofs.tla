----------------------- MODULE CompactionApply_proofs -----------------------
(***************************************************************************)
(* Theorems about CompactionApply, for any number of executions, hosts,    *)
(* previews, groups, entries and throwing database calls.  Only that no    *)
(* entry is lost to search uses that an event loop serialises its host.    *)
(***************************************************************************)
EXTENDS CompactionApply, FiniteSetTheorems, TLAPS

\* Nothing links to the summary of a's group n.
NoLink(a, n) == \A s \in Entries : link[s] /= Summary(a, n)

Clean(a, n) ==
    /\ Summary(a, n) \notin rows
    /\ status[Summary(a, n)] = "absent"
    /\ NoLink(a, n)

\* The newest group execution a may have left anything of.
Reached(a) ==
    IF pc[a] \in {"idle", "read", "rejected"} THEN 0
    ELSE IF pc[a] = "crashed" THEN MaxGroups
    ELSE IF \/ pc[a] \in {"restore", "restoring"}
            \/ pc[a] = "write" /\ wr[a] \in {"store", "rejected"}
         THEN grp[a] - 1
    ELSE grp[a]

\* The newest group all sources of which are linked, going forward.
Behind(a) ==
    IF pc[a] \in {"write", "mark"} THEN grp[a] - 1
    ELSE IF pc[a] \in {"drop", "dropStatus", "commit", "success"} THEN grp[a]
    ELSE 0

\* A rollback step of a that left links behind threw, and was reported.
Excused(a) == leak[a] /\ "clear" \in FaultyCalls

Phases(a) ==
    /\ grp[a] \in 1..GroupCount(a)
    /\ pc[a] = "write" => wr[a] /= "idle"
    /\ pc[a] \notin {"write", "crashed"} => wr[a] = "idle"
    /\ ix[a] /= "idle" => \/ pc[a] \in {"restoring", "crashed"}
                          \/ pc[a] = "write" /\ wr[a] = "index"
    /\ pc[a] \in {"drop", "dropStatus", "restore", "restoring"} => todo[a] \subseteq Source(a)
    /\ pc[a] \in {"dropStatus", "restoring"} => cur[a] \in todo[a]
    /\ pc[a] \in {"commit", "success"} => grp[a] = GroupCount(a)
    /\ \/ pc[a] \in {"idle", "read", "mark", "drop", "dropStatus", "commit", "success"}
       \/ pc[a] = "write" /\ wr[a] \in {"store", "index", "stored", "undoRow"}
       => ~leak[a]

Links(a) ==
    \A s \in Entries, n \in 1..MaxGroups : link[s] = Summary(a, n) =>
        /\ n <= GroupCount(a) /\ s \in Groups[pv[a]][n]
        /\ Summary(a, n) \in rows \/ Excused(a)

Progress(a) ==
    /\ ~leak[a] => \A n \in 1..MaxGroups : n > Reached(a) => Clean(a, n)
    /\ \A n \in 1..Behind(a) : \A s \in Groups[pv[a]][n] : link[s] = Summary(a, n)
    /\ pc[a] \in {"write", "mark"} => NoLink(a, grp[a])
    /\ pc[a] = "mark" \/ (pc[a] = "write" /\ wr[a] \in {"index", "stored"}) => Sum(a) \in rows
    /\ pc[a] = "write" /\ wr[a] \in {"undoVector", "undoStatus"} /\ ~leak[a] =>
         Sum(a) \notin rows
    /\ pc[a] = "deleteSummary" =>
         \A s \in Entries : link[s] = Sum(a) => Excused(a)
    /\ pc[a] \in {"summaryVector", "summaryStatus"} /\ ~leak[a] =>
         NoLink(a, grp[a]) /\ Sum(a) \notin rows

\* Entries are never deleted, and only entries are compacted, into summaries.
Compacting ==
    /\ Entries \subseteq rows
    /\ \A i \in Summaries : link[i] = NoId
    /\ \A s \in Entries : link[s] \in Summaries \cup {NoId}
    /\ \A p \in applied : \E a \in Procs : pc[a] = "success" /\ pv[a] = p

Execution(a) == Phases(a) /\ Links(a) /\ Progress(a)

IInv == TypeOK /\ Compacting /\ \A a \in Procs : Execution(a)

\* What a successful execution shows, when no two ids share a rowid.
Shows(a) ==
    /\ pc[a] = "write" /\ wr[a] = "index" =>
         /\ ix[a] = "check" => status[Sum(a)] = "absent"
         /\ ix[a] = "status" => vec[RowId[Sum(a)]] = Sum(a)
         /\ ix[a] = "ok" => Searchable(Sum(a))
    /\ (pc[a] = "write" /\ wr[a] = "stored") \/ pc[a] = "mark" => Searchable(Sum(a))
    /\ \A n \in 1..Behind(a) : Active(Summary(a, n)) /\ Searchable(Summary(a, n))

-----------------------------------------------------------------------------
(* Constants.                                                              *)

LEMMA SummaryFacts ==
    /\ \A a, b \in Procs : \A m, n \in 1..MaxGroups :
         Summary(a, m) = Summary(b, n) <=> a = b /\ m = n
    /\ \A a \in Procs : \A n \in 1..MaxGroups :
         /\ Summary(a, n) \in Summaries /\ Summary(a, n) \in Ids
         /\ Summary(a, n) \notin Entries /\ Summary(a, n) /= NoId
    /\ \A i \in Summaries : \E a \in Procs : \E n \in 1..MaxGroups : i = Summary(a, n)
    /\ Ids = Entries \cup Summaries /\ NoId \notin Ids /\ MaxGroups \in Nat
    /\ \A i \in Ids : RowId[i] \in RowIds
<1>1. \A a, b \in Procs : \A m, n \in 1..MaxGroups :
         Summary(a, m) = Summary(b, n) <=> a = b /\ m = n
  BY DEF Summary
<1>2. \A a \in Procs : \A n \in 1..MaxGroups : Summary(a, n) \in Summaries
  BY DEF Summaries
<1>3. \A i \in Summaries : \E a \in Procs : \E n \in 1..MaxGroups : i = Summary(a, n)
  BY DEF Summaries
<1> QED
  BY <1>1, <1>2, <1>3, ApplyAssumption, StoreAssumption DEF ApplyAssumption, StoreAssumption

LEMMA GroupFacts ==
    ASSUME NEW p \in Previews
    PROVE  /\ Len(Groups[p]) \in 1..MaxGroups
           /\ DOMAIN Groups[p] = 1..Len(Groups[p])
           /\ \A n \in 1..Len(Groups[p]) :
                /\ Groups[p][n] \subseteq Entries
                /\ IsFiniteSet(Groups[p][n])
                /\ Groups[p][n] /= {}
<1>1. Groups[p] \in Seq(SUBSET Entries) /\ Len(Groups[p]) \in 1..MaxGroups
  BY ApplyAssumption DEF ApplyAssumption
<1>2. DOMAIN Groups[p] = 1..Len(Groups[p])
  BY <1>1
<1>3. \A n \in 1..Len(Groups[p]) :
        Groups[p][n] \subseteq Entries /\ IsFiniteSet(Groups[p][n]) /\ Cardinality(Groups[p][n]) >= 2
  BY <1>1, <1>2, ApplyAssumption DEF ApplyAssumption
<1> QED
  BY <1>1, <1>2, <1>3, FS_EmptySet

\* An update that changed as many rows as it was asked for found them all.
LEMMA AllMarked ==
    ASSUME NEW S, IsFiniteSet(S), MarkCount(S) = Cardinality(S)
    PROVE  \A s \in S : Active(s)
<1>1. {i \in S : Active(i)} \in SUBSET S
  OBVIOUS
<1>2. {i \in S : Active(i)} = S
  BY <1>1, FS_Subset DEF MarkCount
<1> QED
  BY <1>2

-----------------------------------------------------------------------------
(* The statements on the store, and the calls that are made of them.       *)

\* What a statement about entry or summary i may change.
Touches(i) ==
    /\ StoreType'
    /\ \A j \in Ids : j /= i => /\ j \in rows' <=> j \in rows
                               /\ link'[j] = link[j]
                               /\ status'[j] = status[j]
    /\ link'[i] \in {link[i], NoId}
    /\ \A r \in RowIds : r /= RowId[i] => vec'[r] = vec[r]

LEMMA StatementTouches ==
    ASSUME StoreType, NEW i \in Ids,
           \/ InsertRow(i) \/ DeleteRow(i) \/ PutVector(i) \/ DropVector(i)
           \/ DropStatus(i) \/ PutStatus(i, "indexed") \/ PutStatus(i, "failed")
           \/ UNCHANGED store
    PROVE  Touches(i)
BY StoreAssumption
   DEF StoreType, store, IndexState, InsertRow, DeleteRow, PutVector, DropVector,
       DropStatus, PutStatus, Touches, StoreAssumption

\* The subroutine phases of process p, and no other's, may change.
Stays(p) == \A q \in Procs \ {p} : ix'[q] = ix[q] /\ wr'[q] = wr[q] /\ leak'[q] = leak[q]

LEMMA ThrowTyped ==
    ASSUME IndexingType, NEW call, Throws(call)
    PROVE  faults' \in 0..MaxFaults
BY IndexingAssumption DEF IndexingType, Throws, IndexingAssumption

\* An index call leaves the rows alone, and vec and status of other ids.
LEMMA IndexStepTouches ==
    ASSUME StoreType, IndexingType, NEW p \in Procs, NEW i \in Ids, IndexStep(p, i)
    PROVE  /\ IndexingType' /\ Touches(i) /\ rows' = rows /\ link' = link
           /\ \A q \in Procs \ {p} : ix'[q] = ix[q]
           /\ ix'[p] /= "idle"
<1>1. ix \in [Procs -> IndexPhase] /\ faults \in 0..MaxFaults
  BY DEF IndexingType
<1>2. faults' \in 0..MaxFaults
  BY <1>1, ThrowTyped DEF IndexStep, IndexCheck, IndexEmbed, IndexPutVector, IndexPutStatus,
     IndexRecordFailure
<1>3. Touches(i)
  BY StatementTouches DEF IndexStep, IndexCheck, IndexEmbed, IndexPutVector, IndexPutStatus,
     IndexRecordFailure, Throws
<1>4. rows' = rows /\ link' = link
  BY DEF IndexStep, IndexCheck, IndexEmbed, IndexPutVector, IndexPutStatus,
     IndexRecordFailure, Throws, PutStatus, PutVector, store
<1>5. \E phase \in IndexPhase \ {"idle"} : ix' = [ix EXCEPT ![p] = phase]
  BY DEF IndexStep, IndexCheck, IndexEmbed, IndexPutVector, IndexPutStatus,
     IndexRecordFailure, IndexPhase
<1> QED
  BY <1>1, <1>2, <1>3, <1>4, <1>5 DEF IndexingType

\* A store call changes the row, link, status and vector of its entry only.
LEMMA WriteStepTouches ==
    ASSUME StoreType, IndexingType, WritingType, NEW p \in Procs, NEW i \in Ids, WriteStep(p, i)
    PROVE  IndexingType' /\ WritingType' /\ Touches(i) /\ Stays(p)
<1>1. /\ ix \in [Procs -> IndexPhase] /\ faults \in 0..MaxFaults
      /\ wr \in [Procs -> WritePhase] /\ leak \in [Procs -> BOOLEAN]
  BY DEF IndexingType, WritingType
<1>2. faults' \in 0..MaxFaults /\ Touches(i)
  BY <1>1, ThrowTyped, StatementTouches, IndexStepTouches
     DEF WriteStep, WriteStoreRow, WriteIndexing, WriteIndexed, WriteUndoRow, WriteUndoVector,
         WriteUndoStatus, Throws, writing, store, IndexingType
<1>3. \/ ix' = ix \/ (\E phase \in IndexPhase : ix' = [ix EXCEPT ![p] = phase])
      \/ IndexStep(p, i)
  BY DEF WriteStep, WriteStoreRow, WriteIndexing, WriteIndexed, WriteUndoRow, WriteUndoVector,
         WriteUndoStatus, IndexCalls, IndexReturns, IndexPhase
<1>4. ix' \in [Procs -> IndexPhase] /\ \A q \in Procs \ {p} : ix'[q] = ix[q]
  BY <1>1, <1>3, IndexStepTouches DEF IndexingType
<1>5. \/ wr' = wr \/ \E phase \in WritePhase : wr' = [wr EXCEPT ![p] = phase]
  BY DEF WriteStep, WriteStoreRow, WriteIndexing, WriteIndexed, WriteUndoRow, WriteUndoVector,
         WriteUndoStatus, WritePhase
<1>6. leak' = leak \/ leak' = [leak EXCEPT ![p] = TRUE]
  BY DEF WriteStep, WriteStoreRow, WriteIndexing, WriteIndexed, WriteUndoRow, WriteUndoVector,
         WriteUndoStatus, Reports
<1>7. leak' \in [Procs -> BOOLEAN] /\ \A q \in Procs \ {p} : leak'[q] = leak[q]
  BY <1>1, <1>6
<1> QED
  BY <1>1, <1>2, <1>4, <1>5, <1>7 DEF IndexingType, WritingType, Stays

-----------------------------------------------------------------------------
(* What a step of one execution leaves to the others.                      *)

Frame(a) ==
    /\ pv' = pv
    /\ Stays(a)
    /\ \A b \in Procs \ {a} :
         /\ pc'[b] = pc[b] /\ grp'[b] = grp[b] /\ todo'[b] = todo[b]
         /\ cur'[b] = cur[b] /\ vfail'[b] = vfail[b] /\ restore'[b] = restore[b]
    /\ \A i \in Ids : i /= Sum(a) => (i \in rows' <=> i \in rows)
    /\ \A i \in Ids :
         \/ link'[i] = link[i]
         \/ i \in Entries /\ link[i] = NoId /\ link'[i] = Sum(a)
         \/ i \in Entries /\ link[i] = Sum(a) /\ link'[i] = NoId
    /\ \A i \in Summaries : i /= Sum(a) =>
         status'[i] = status[i] /\ (RowIdsInjective => vec'[RowId[i]] = vec[RowId[i]])

LEMMA CurrentGroup ==
    ASSUME IInv, NEW a \in Procs
    PROVE  /\ grp[a] \in 1..MaxGroups /\ GroupCount(a) \in 1..MaxGroups
           /\ MaxGroups \in Nat /\ grp[a] <= GroupCount(a)
           /\ pv[a] \in Previews /\ Source(a) \subseteq Entries
           /\ Sum(a) \in Summaries /\ Sum(a) \in Ids /\ Sum(a) \notin Entries /\ Sum(a) /= NoId
<1>1. pv[a] \in Previews /\ grp[a] \in 1..GroupCount(a)
  BY DEF IInv, TypeOK, Execution, Phases
<1> QED
  BY <1>1, GroupFacts, SummaryFacts DEF GroupCount, Source, Sum

LEMMA BehindFacts ==
    ASSUME IInv, NEW a \in Procs
    PROVE  \A n \in 1..Behind(a) :
              n \in 1..MaxGroups /\ n <= GroupCount(a) /\ Groups[pv[a]][n] \subseteq Entries
<1>1. /\ grp[a] \in 1..MaxGroups /\ GroupCount(a) \in 1..MaxGroups
      /\ grp[a] <= GroupCount(a) /\ pv[a] \in Previews
  BY CurrentGroup
<1>2. Behind(a) \in {grp[a], grp[a] - 1, 0}
  BY DEF Behind
<1>3. \A n \in 1..GroupCount(a) : Groups[pv[a]][n] \subseteq Entries
  BY <1>1, GroupFacts DEF GroupCount
<1>4. MaxGroups \in Nat
  BY ApplyAssumption DEF ApplyAssumption
<1> QED
  BY <1>1, <1>2, <1>3, <1>4

\* Summaries of other executions are other summaries.
LEMMA OtherSummaries ==
    ASSUME IInv, NEW a \in Procs, NEW b \in Procs \ {a}, NEW n \in 1..MaxGroups
    PROVE  Summary(b, n) /= Sum(a) /\ Summary(b, n) \in Ids /\ Summary(b, n) \in Summaries
           /\ Summary(b, n) /= NoId /\ Summary(b, n) \notin Entries
<1>1. grp[a] \in 1..MaxGroups /\ a /= b
  BY CurrentGroup
<1> QED
  BY <1>1, SummaryFacts DEF Sum

LEMMA OthersKept ==
    ASSUME IInv, NEW a \in Procs, Frame(a), NEW b \in Procs \ {a}
    PROVE  Execution(b)'
<1>1. \A n \in 1..MaxGroups :
         /\ Summary(b, n) \in rows' <=> Summary(b, n) \in rows
         /\ status'[Summary(b, n)] = status[Summary(b, n)]
         /\ \A s \in Entries : link'[s] = Summary(b, n) <=> link[s] = Summary(b, n)
  <2> SUFFICES ASSUME NEW n \in 1..MaxGroups
               PROVE  /\ Summary(b, n) \in rows' <=> Summary(b, n) \in rows
                      /\ status'[Summary(b, n)] = status[Summary(b, n)]
                      /\ \A s \in Entries : link'[s] = Summary(b, n) <=> link[s] = Summary(b, n)
    OBVIOUS
  <2>1. /\ Summary(b, n) /= Sum(a) /\ Summary(b, n) \in Ids /\ Summary(b, n) \in Summaries
        /\ Summary(b, n) /= NoId
    BY OtherSummaries
  <2>2. Entries \subseteq Ids
    BY SummaryFacts
  <2> QED
    BY <2>1, <2>2 DEF Frame
<1>2. /\ pv'[b] = pv[b] /\ pc'[b] = pc[b] /\ grp'[b] = grp[b] /\ wr'[b] = wr[b]
      /\ ix'[b] = ix[b] /\ leak'[b] = leak[b] /\ todo'[b] = todo[b] /\ cur'[b] = cur[b]
  BY DEF Frame, Stays
<1>3. Phases(b) /\ Links(b) /\ Progress(b) /\ grp[b] \in 1..MaxGroups
  BY CurrentGroup DEF IInv, Execution
<1>4. GroupCount(b)' = GroupCount(b) /\ Source(b)' = Source(b) /\ Sum(b)' = Sum(b)
  BY <1>2 DEF GroupCount, Source, Sum
<1>5. Phases(b)'
  BY <1>2, <1>3, <1>4 DEF Phases
<1>6. Links(b)'
  BY <1>1, <1>2, <1>3, <1>4 DEF Links, Excused
<1>7. Progress(b)'
  <2>1. Reached(b)' = Reached(b) /\ Behind(b)' = Behind(b)
    BY <1>2 DEF Reached, Behind
  <2>2. \A n \in 1..MaxGroups : /\ Clean(b, n)' <=> Clean(b, n)
                                /\ NoLink(b, n)' <=> NoLink(b, n)
    BY <1>1 DEF Clean, NoLink
  <2>3. /\ Sum(b) \in rows' <=> Sum(b) \in rows
        /\ \A s \in Entries : link'[s] = Sum(b) <=> link[s] = Sum(b)
    BY <1>1, <1>3 DEF Sum
  <2>4. \A n \in 1..Behind(b) : \A s \in Groups[pv[b]][n] : link'[s] = Summary(b, n)
    BY <1>1, <1>3, BehindFacts DEF Progress
  <2> QED
    BY <1>2, <1>3, <1>4, <2>1, <2>2, <2>3, <2>4 DEF Progress, Excused
<1> QED
  BY <1>5, <1>6, <1>7 DEF Execution

LEMMA CompactingKept ==
    ASSUME IInv, NEW a \in Procs, Frame(a), pc[a] /= "success",
           applied' = applied \/ (applied' = applied \cup {pv[a]} /\ pc'[a] = "success")
    PROVE  Compacting'
<1>1. Sum(a) \in Summaries /\ Sum(a) \notin Entries /\ Sum(a) \in Ids /\ Sum(a) /= NoId
  BY CurrentGroup
<1>2. Entries \subseteq rows' /\ \A s \in Entries : link'[s] \in Summaries \cup {NoId}
  BY <1>1, SummaryFacts DEF Frame, IInv, Compacting
<1>3. \A i \in Summaries : link'[i] = NoId
  BY <1>1, SummaryFacts DEF Frame, IInv, Compacting
<1>4. \A p \in applied' : \E b \in Procs : pc'[b] = "success" /\ pv'[b] = p
  BY DEF Frame, IInv, Compacting
<1> QED
  BY <1>2, <1>3, <1>4 DEF Compacting

-----------------------------------------------------------------------------
(* The steps forward.                                                      *)

Safe(a) == TypeOK' /\ Frame(a) /\ Execution(a)'

\* Links only depend on the rows, the links and what was reported.
LEMMA LinksKept ==
    ASSUME NEW a \in Procs, Links(a), pv' = pv, UNCHANGED <<rows, link>>, leak[a] => leak'[a]
    PROVE  Links(a)'
BY DEF Links, Excused, GroupCount

LEMMA BeginSafe ==
    ASSUME IInv, NEW a \in Procs, Begin(a)
    PROVE  Safe(a)
<1>1. TypeOK'
  BY DEF IInv, TypeOK, Begin, writing, store, Goes, Forward, Backward, Ended, StoreType,
     IndexingType, WritingType
<1>2. Frame(a)
  BY DEF Begin, writing, store, Goes, Frame, Stays, IInv, TypeOK
<1>3. Phases(a)'
  BY DEF Begin, writing, store, Goes, Phases, IInv, TypeOK, Execution, GroupCount
<1>4. Links(a)'
  BY LinksKept DEF Begin, writing, store, IInv, Execution
<1>5. Progress(a)'
  BY DEF Begin, writing, store, Goes, Progress, Reached, Behind, Clean, NoLink, IInv, TypeOK,
     Execution
<1> QED
  BY <1>1, <1>2, <1>3, <1>4, <1>5 DEF Safe, Execution

\* A group begins: the groups before it are linked, the rest is clean.
LEMMA GroupBegun ==
    ASSUME IInv, NEW a \in Procs, NEW n \in 1..GroupCount(a), BeginGroup(a, n),
           UNCHANGED <<store, ix, leak>>, wr[a] = "idle", ix[a] = "idle", ~leak[a],
           \A m \in 1..MaxGroups : m >= n => Clean(a, m),
           \A m \in 1..(n - 1) : \A s \in Groups[pv[a]][m] : link[s] = Summary(a, m)
    PROVE  Phases(a)' /\ Progress(a)'
<1>1. /\ pc'[a] = "write" /\ wr'[a] = "store" /\ grp'[a] = n /\ pv' = pv
      /\ ix'[a] = "idle" /\ ~leak'[a] /\ n \in 1..MaxGroups /\ n \in Nat
  BY CurrentGroup DEF BeginGroup, WriteCalls, Goes, IInv, TypeOK, WritingType
<1>2. Phases(a)'
  BY <1>1 DEF Phases, GroupCount
<1>3. Reached(a)' = n - 1 /\ Behind(a)' = n - 1
  BY <1>1 DEF Reached, Behind
<1>4. \A m \in 1..MaxGroups : m > n - 1 => Clean(a, m)'
  BY <1>1 DEF Clean, NoLink, store
<1>5. NoLink(a, n)'
  BY <1>1, <1>4 DEF Clean, NoLink
<1>6. Progress(a)'
  BY <1>1, <1>3, <1>4, <1>5 DEF Progress, store
<1> QED
  BY <1>2, <1>6

LEMMA ReadSourcesSafe ==
    ASSUME IInv, NEW a \in Procs, ReadSources(a)
    PROVE  Safe(a)
<1>1. /\ 1 \in 1..MaxGroups /\ 1 \in 1..GroupCount(a)
      /\ pc[a] = "read" /\ wr[a] = "idle" /\ ix[a] = "idle" /\ ~leak[a] /\ Reached(a) = 0
  BY CurrentGroup DEF IInv, Execution, Phases, ReadSources, Reached
<1>2. faults' \in 0..MaxFaults
  BY ThrowTyped DEF ReadSources, IInv, TypeOK, IndexingType
<1>3. TypeOK'
  BY <1>1, <1>2 DEF IInv, TypeOK, ReadSources, BeginGroup, WriteCalls, Throws, store, Goes, Forward,
     Backward, Ended, StoreType, IndexingType, WritingType, WritePhase
<1>4. Frame(a)
  BY DEF ReadSources, BeginGroup, WriteCalls, Throws, store, Goes, Frame, Stays, IInv, TypeOK,
     WritingType
<1>5. Links(a)'
  BY LinksKept DEF ReadSources, BeginGroup, Throws, store, IInv, Execution
<1>6. Phases(a)' /\ Progress(a)'
  <2>1. CASE BeginGroup(a, 1)
    <3>1. \A m \in 1..MaxGroups : m >= 1 => Clean(a, m)
      BY <1>1 DEF IInv, Execution, Progress
    <3> QED
      BY <1>1, <2>1, <3>1, GroupBegun DEF ReadSources, Throws, store
  <2>2. CASE Goes(a, "rejected") /\ UNCHANGED <<store, ix, leak, wr, pv, grp, todo, cur>>
    <3>1. /\ pc'[a] = "rejected" /\ wr'[a] = "idle" /\ ix'[a] = "idle" /\ ~leak'[a]
      BY <1>1, <2>2 DEF Goes, IInv, TypeOK
    <3>2. Phases(a)'
      BY <1>1, <2>2, <3>1 DEF IInv, Execution, Phases, GroupCount
    <3>3. Reached(a)' = 0 /\ Behind(a)' = 0
      BY <3>1 DEF Reached, Behind
    <3>4. Progress(a)'
      BY <1>1, <2>2, <3>1, <3>3 DEF IInv, Execution, Progress, Clean, NoLink, store
    <3> QED
      BY <3>2, <3>4
  <2> QED
    BY <2>1, <2>2 DEF ReadSources, Throws, store
<1> QED
  BY <1>3, <1>4, <1>5, <1>6 DEF Safe, Execution

\* What a statement about the summary of the current group leaves alone.
LEMMA SummaryTouched ==
    ASSUME IInv, NEW a \in Procs, Touches(Sum(a))
    PROVE  /\ \A i \in Ids : i /= Sum(a) => (i \in rows' <=> i \in rows)
           /\ \A i \in Ids : link'[i] = link[i]
           /\ \A i \in Summaries : i /= Sum(a) =>
                status'[i] = status[i] /\ (RowIdsInjective => vec'[RowId[i]] = vec[RowId[i]])
           /\ \A m \in 1..MaxGroups : m /= grp[a] => (Clean(a, m)' <=> Clean(a, m))
           /\ \A m \in 1..MaxGroups : NoLink(a, m)' <=> NoLink(a, m)
           /\ \A s \in Entries : link'[s] = link[s]
<1>1. Sum(a) \in Ids /\ Sum(a) \in Summaries /\ link[Sum(a)] = NoId
  BY CurrentGroup DEF IInv, Compacting
<1>2. Summaries \subseteq Ids /\ Entries \subseteq Ids /\ \A i \in Ids : RowId[i] \in RowIds
  BY SummaryFacts
<1>3. \A i \in Ids : i /= Sum(a) => (i \in rows' <=> i \in rows)
  BY DEF Touches
<1>4. \A i \in Ids : link'[i] = link[i]
  BY <1>1 DEF Touches
<1>5. \A i \in Summaries : i /= Sum(a) =>
                status'[i] = status[i] /\ (RowIdsInjective => vec'[RowId[i]] = vec[RowId[i]])
  BY <1>1, <1>2 DEF Touches, RowIdsInjective
<1>6. \A m \in 1..MaxGroups : NoLink(a, m)' <=> NoLink(a, m)
  BY <1>2, <1>4 DEF NoLink
<1>7. \A m \in 1..MaxGroups : m /= grp[a] =>
        Summary(a, m) \in Ids /\ Summary(a, m) \in Summaries /\ Summary(a, m) /= Sum(a)
  <2>1. grp[a] \in 1..MaxGroups
    BY CurrentGroup
  <2> QED
    BY <2>1, SummaryFacts DEF Sum
<1>8. \A m \in 1..MaxGroups : m /= grp[a] => (Clean(a, m)' <=> Clean(a, m))
  BY <1>3, <1>5, <1>6, <1>7 DEF Clean
<1> QED
  BY <1>2, <1>3, <1>4, <1>5, <1>6, <1>8

LEMMA WriteSummarySafe ==
    ASSUME IInv, NEW a \in Procs, WriteSummary(a)
    PROVE  Safe(a)
<1>1. Sum(a) \in Ids /\ grp[a] \in 1..MaxGroups /\ MaxGroups \in Nat /\ pc[a] = "write"
  BY CurrentGroup DEF WriteSummary
<1>2. IndexingType' /\ WritingType' /\ Touches(Sum(a)) /\ Stays(a)
  BY <1>1, WriteStepTouches DEF IInv, TypeOK, WriteSummary
<1>3. TypeOK'
  BY <1>2 DEF Touches, IInv, TypeOK, WriteSummary, control
<1>4. Frame(a)
  BY <1>2, SummaryTouched DEF Frame, WriteSummary, control
<1>5. \/ /\ wr[a] = "store" /\ wr'[a] = "index" /\ ix'[a] = "check" /\ leak' = leak
         /\ Sum(a) \in rows'
      \/ wr[a] = "store" /\ wr'[a] = "rejected" /\ UNCHANGED <<store, ix, leak>>
      \/ wr[a] = "index" /\ wr'[a] = "index" /\ UNCHANGED <<rows, link, leak>>
      \/ /\ wr[a] = "index" /\ wr'[a] \in {"stored", "undoRow"} /\ ix'[a] = "idle"
         /\ UNCHANGED <<store, leak>>
      \/ /\ wr[a] = "undoRow" /\ wr'[a] = "undoVector" /\ ix' = ix
         /\ Sum(a) \notin rows' \/ leak'[a]
      \/ /\ wr[a] \in {"undoVector", "undoStatus"} /\ ix' = ix /\ UNCHANGED rows
         /\ leak[a] => leak'[a]
         /\ \/ wr[a] = "undoVector" /\ wr'[a] = "undoStatus"
            \/ wr'[a] = "rejected" /\ (status'[Sum(a)] = "absent" \/ leak'[a])
  <2>1. /\ wr \in [Procs -> WritePhase] /\ ix \in [Procs -> IndexPhase]
        /\ leak \in [Procs -> BOOLEAN] /\ status \in [Ids -> IndexState]
    BY DEF IInv, TypeOK, WritingType, IndexingType, StoreType
  <2>2. CASE WriteStoreRow(a, Sum(a))
    BY <1>1, <2>1, <2>2 DEF WriteStoreRow, InsertRow, IndexCalls, Throws, store
  <2>3. CASE WriteIndexing(a, Sum(a))
    BY <1>1, <2>3, IndexStepTouches DEF WriteIndexing, IInv, TypeOK
  <2>4. CASE WriteIndexed(a)
    BY <1>1, <2>1, <2>4 DEF WriteIndexed, IndexReturns
  <2>5. CASE WriteUndoRow(a, Sum(a))
    BY <1>1, <2>1, <2>5 DEF WriteUndoRow, DeleteRow, Reports, Throws, store
  <2>6. CASE WriteUndoVector(a, Sum(a))
    BY <1>1, <2>1, <2>6 DEF WriteUndoVector, DropVector, Reports, Throws, store
  <2>7. CASE WriteUndoStatus(a, Sum(a))
    BY <1>1, <2>1, <2>7 DEF WriteUndoStatus, DropStatus, Reports, Throws, store
  <2> QED
    BY <2>2, <2>3, <2>4, <2>5, <2>6, <2>7 DEF WriteStep, WriteSummary
<1>6. UNCHANGED <<pc, pv, grp, todo, cur, vfail, restore>>
  BY DEF WriteSummary, control
<1>7. Phases(a) /\ Links(a) /\ Progress(a)
  BY DEF IInv, Execution
<1>8. Phases(a)'
  BY <1>1, <1>5, <1>6, <1>7 DEF Phases, GroupCount
<1>9. leak[a] => leak'[a]
  BY <1>1, <1>5, <1>7 DEF Phases
<1>10. Links(a)'
  <2>1. NoLink(a, grp[a])
    BY <1>1, <1>7 DEF Progress
  <2>2. \A n \in 1..MaxGroups : \A s \in Entries : link[s] = Summary(a, n) =>
          n /= grp[a] /\ Summary(a, n) \in Ids /\ Summary(a, n) /= Sum(a)
    BY <1>1, <2>1, SummaryFacts DEF NoLink, Sum
  <2> QED
    BY <1>2, <1>6, <1>7, <1>9, <2>2, SummaryTouched DEF Links, Excused, GroupCount
<1>11. Progress(a)'
  <2>1. Behind(a)' = Behind(a) /\ Sum(a)' = Sum(a) /\ NoLink(a, grp[a])'
    BY <1>1, <1>2, <1>6, <1>7, SummaryTouched DEF Behind, Sum, Progress
  <2>2. \A n \in 1..Behind(a) : \A s \in Groups[pv[a]][n] : link'[s] = Summary(a, n)
    BY <1>2, <1>7, BehindFacts, SummaryTouched DEF Progress
  <2>3. \A m \in 1..MaxGroups : m /= grp[a] => (Clean(a, m)' <=> Clean(a, m))
    BY <1>2, SummaryTouched
  <2>4. ASSUME ~leak'[a], NEW m \in 1..MaxGroups, m > Reached(a)'
        PROVE  Clean(a, m)'
    <3>1. CASE m = grp[a]
      BY <1>1, <1>5, <1>6, <1>7, <2>1, <2>4, <3>1 DEF Reached, Progress, Clean, Sum, store, NoLink, Phases
    <3>2. CASE m /= grp[a]
      BY <1>1, <1>5, <1>6, <1>7, <1>9, <2>3, <2>4, <3>2 DEF Reached, Progress
    <3> QED
      BY <3>1, <3>2
  <2>5. (wr'[a] \in {"index", "stored"}) => Sum(a) \in rows'
    BY <1>1, <1>5, <1>7 DEF Progress, store
  <2>6. wr'[a] \in {"undoVector", "undoStatus"} /\ ~leak'[a] => Sum(a) \notin rows'
    BY <1>1, <1>5, <1>7, <1>9 DEF Progress
  <2> QED
    BY <1>1, <1>6, <2>1, <2>2, <2>4, <2>5, <2>6 DEF Progress
<1> QED
  BY <1>3, <1>4, <1>8, <1>10, <1>11 DEF Safe, Execution

ControlType ==
    /\ pc \in [Procs -> {"idle"} \cup Forward \cup Backward \cup Ended]
    /\ pv \in [Procs -> Previews]
    /\ grp \in [Procs -> 1..MaxGroups]
    /\ todo \in [Procs -> SUBSET Entries]
    /\ cur \in [Procs -> Entries \cup {NoId}]
    /\ vfail \in [Procs -> BOOLEAN]
    /\ restore \in [Procs -> BOOLEAN]

LEMMA UndoTyped ==
    ASSUME IInv, NEW a \in Procs, NEW n \in 0..GroupCount(a), Undo(a, n)
    PROVE  ControlType'
<1>1. n \in Nat /\ (n /= 0 => n \in 1..MaxGroups)
  BY CurrentGroup
<1>2. CASE n = 0
  BY <1>2 DEF Undo, Goes, IInv, TypeOK, ControlType, Ended
<1>3. CASE n /= 0
  BY <1>1, <1>3 DEF Undo, Goes, IInv, TypeOK, ControlType, Backward
<1> QED
  BY <1>2, <1>3

\* A rollback moves on to the applied groups up to n, or ends.
LEMMA Undone ==
    ASSUME IInv, NEW a \in Procs, NEW n \in 0..GroupCount(a), Undo(a, n), TypeOK',
           wr'[a] = "idle", ix'[a] = "idle",
           \A m \in 1..MaxGroups : m > n /\ ~leak'[a] => Clean(a, m)'
    PROVE  Phases(a)' /\ Progress(a)'
<1>1. n \in Nat /\ GroupCount(a)' = GroupCount(a) /\ pv' = pv
  BY CurrentGroup DEF Undo, GroupCount
<1>2. CASE n = 0
  <2>1. pc'[a] = "rejected" /\ grp' = grp
    BY <1>2 DEF Undo, Goes, IInv, TypeOK
  <2> QED
    BY <1>1, <1>2, <2>1 DEF Phases, Progress, Reached, Behind, IInv, Execution
<1>3. CASE n /= 0
  <2>1. pc'[a] = "clear" /\ grp'[a] = n
    BY <1>3 DEF Undo, Goes, IInv, TypeOK
  <2> QED
    BY <1>1, <1>3, <2>1 DEF Phases, Progress, Reached, Behind
<1> QED
  BY <1>2, <1>3

LEMMA SummaryWrittenSafe ==
    ASSUME IInv, NEW a \in Procs, SummaryWritten(a)
    PROVE  Safe(a)
<1>1. /\ grp[a] \in 1..MaxGroups /\ MaxGroups \in Nat /\ pc[a] = "write"
      /\ grp[a] <= GroupCount(a) /\ GroupCount(a) \in Nat
  BY CurrentGroup DEF SummaryWritten
<1>2. Phases(a) /\ Links(a) /\ Progress(a)
  BY DEF IInv, Execution
<1>3. /\ wr'[a] = "idle" /\ ix' = ix /\ ix[a] = "idle" /\ leak' = leak
      /\ UNCHANGED <<pv, rows, link, status>>
  BY <1>1, <1>2 DEF SummaryWritten, WriteReturns, IInv, TypeOK, WritingType, Undo, store, Phases
<1>4. TypeOK'
  <2>1. WritingType' /\ StoreType' /\ IndexingType'
    BY DEF IInv, TypeOK, SummaryWritten, WriteReturns, store, StoreType, IndexingType, WritingType,
       WritePhase
  <2>2. ControlType'
    BY <1>1, UndoTyped DEF SummaryWritten, Goes, IInv, TypeOK, ControlType, Forward
  <2> QED
    BY <2>1, <2>2 DEF IInv, TypeOK, SummaryWritten, ControlType
<1>5. Frame(a)
  BY DEF SummaryWritten, Undo, WriteReturns, store, Goes, Frame, Stays, IInv, TypeOK, WritingType
<1>6. Links(a)'
  BY <1>2, <1>3, LinksKept
<1>7. \A m \in 1..MaxGroups : Clean(a, m)' <=> Clean(a, m)
  BY <1>3 DEF Clean, NoLink
<1>8. Phases(a)' /\ Progress(a)'
  <2>1. CASE wr[a] = "stored" /\ Goes(a, "mark") /\ UNCHANGED grp
    <3>1. pc'[a] = "mark" /\ Reached(a)' = grp[a] /\ Reached(a) = grp[a]
          /\ Behind(a)' = Behind(a)
      BY <1>1, <2>1 DEF Goes, IInv, TypeOK, Reached, Behind
    <3> QED
      BY <1>1, <1>2, <1>3, <1>7, <2>1, <3>1 DEF Phases, Progress, GroupCount, NoLink, Sum
  <2>2. CASE wr[a] = "rejected" /\ Undo(a, grp[a] - 1)
    <3>1. \A m \in 1..MaxGroups : m > grp[a] - 1 /\ ~leak'[a] => Clean(a, m)'
      BY <1>1, <1>2, <1>3, <1>7, <2>2 DEF Progress, Reached
    <3>2. grp[a] - 1 \in 0..GroupCount(a)
      BY <1>1
    <3> QED
      BY <1>3, <1>4, <2>2, <3>1, <3>2, Undone
  <2> QED
    BY <2>1, <2>2 DEF SummaryWritten
<1> QED
  BY <1>4, <1>5, <1>6, <1>8 DEF Safe, Execution

LEMMA MarkSafe ==
    ASSUME IInv, NEW a \in Procs, Mark(a)
    PROVE  Safe(a)
<1>1. /\ grp[a] \in 1..MaxGroups /\ MaxGroups \in Nat /\ pc[a] = "mark"
      /\ Source(a) \subseteq Entries /\ Entries \subseteq Ids
      /\ Sum(a) \in Ids /\ Sum(a) \notin Entries /\ Sum(a) /= NoId
  BY CurrentGroup, SummaryFacts DEF Mark
<1>2. /\ Phases(a) /\ Links(a) /\ Progress(a)
      /\ wr[a] = "idle" /\ ix[a] = "idle" /\ ~leak[a] /\ Sum(a) \in rows /\ NoLink(a, grp[a])
  BY <1>1 DEF IInv, Execution, Phases, Progress
<1>3. /\ UNCHANGED <<rows, status, vec, ix, wr, leak, applied, pv, grp, cur, vfail>>
      /\ faults' \in 0..MaxFaults
  BY ThrowTyped DEF Mark, MarkCompacted, Throws, store, IInv, TypeOK, IndexingType
<1>4. \/ link' = link
      \/ link' = [i \in Ids |-> IF i \in Source(a) /\ Active(i) THEN Sum(a) ELSE link[i]]
  BY DEF Mark, MarkCompacted, Throws, store
<1>5. TypeOK'
  <2>1. StoreType'
    BY <1>1, <1>3, <1>4 DEF IInv, TypeOK, StoreType
  <2>2. ControlType'
    <3>1. \E to \in {"drop", "clear", "thrown"} : Goes(a, to)
      BY DEF Mark
    <3>2. /\ todo' = [todo EXCEPT ![a] = Source(a)] \/ todo' = todo
          /\ restore' = [restore EXCEPT ![a] = FALSE] \/ restore' = restore
      BY DEF Mark
    <3>3. {"drop", "clear", "thrown"} \subseteq {"idle"} \cup Forward \cup Backward \cup Ended
      BY DEF Forward, Backward, Ended
    <3> QED
      BY <1>1, <1>3, <3>1, <3>2, <3>3 DEF Goes, IInv, TypeOK, ControlType
  <2> QED
    BY <1>3, <2>1, <2>2 DEF IInv, TypeOK, ControlType, IndexingType, WritingType
<1>6. Frame(a)
  BY <1>1, <1>3, <1>4 DEF Mark, Goes, Frame, Stays, Active, IInv, TypeOK, StoreType
<1>7. \A n \in 1..MaxGroups : Summary(a, n) = Sum(a) <=> n = grp[a]
  BY <1>1, SummaryFacts DEF Sum
<1>8. \A n \in 1..MaxGroups : Summary(a, n) /= NoId
  BY SummaryFacts
<1>9. \A s \in Entries : \/ link'[s] = link[s]
                         \/ s \in Source(a) /\ link[s] = NoId /\ link'[s] = Sum(a)
  BY <1>1, <1>4 DEF Active
<1>10. Links(a)'
  BY <1>2, <1>3, <1>7, <1>9, CurrentGroup DEF Links, Source, Excused, GroupCount
<1>11. \A m \in 1..MaxGroups : m > grp[a] => (Clean(a, m) => Clean(a, m)')
  BY <1>1, <1>3, <1>7, <1>8, <1>9 DEF Clean, NoLink
<1>12. Reached(a) = grp[a] /\ Reached(a)' = grp[a]
  BY <1>1, <1>3 DEF Reached, Mark, Goes, IInv, TypeOK
<1>13. \A m \in 1..MaxGroups : m > grp[a] => Clean(a, m)'
  BY <1>2, <1>11, <1>12 DEF Progress
<1>14. CASE pc'[a] \in {"clear", "thrown"}
  BY <1>1, <1>2, <1>3, <1>10, <1>12, <1>13, <1>14, <1>5, <1>6 DEF Safe, Execution, Phases, Progress, Behind,
     GroupCount
<1>15. CASE /\ MarkCount(Source(a)) = Cardinality(Source(a)) /\ MarkCompacted(Source(a), Sum(a))
            /\ todo' = [todo EXCEPT ![a] = Source(a)] /\ Goes(a, "drop")
  <2>1. pc'[a] = "drop" /\ todo'[a] = Source(a)
    BY <1>15 DEF Goes, IInv, TypeOK
  <2>2. IsFiniteSet(Source(a))
    BY CurrentGroup, GroupFacts DEF Source, GroupCount
  <2>3. \A s \in Source(a) : Active(s)
    BY <1>15, <2>2, AllMarked
  <2>4. \A s \in Source(a) : link'[s] = Sum(a)
    BY <1>1, <1>15, <2>3 DEF MarkCompacted
  <2>5. Phases(a)'
    BY <1>2, <1>3, <2>1 DEF Phases, GroupCount, Source
  <2>6. \A n \in 1..(grp[a] - 1) : \A s \in Groups[pv[a]][n] : link'[s] = Summary(a, n)
    <3>1. Behind(a) = grp[a] - 1
      BY <1>1 DEF Behind
    <3> QED
      BY <1>2, <1>8, <1>9, <3>1, BehindFacts DEF Progress
  <2>7. Behind(a)' = grp[a]
    BY <1>3, <2>1 DEF Behind
  <2>8. \A n \in 1..grp[a] : \A s \in Groups[pv[a]][n] : link'[s] = Summary(a, n)
    BY <1>1, <2>4, <2>6 DEF Source, Sum
  <2>9. Progress(a)'
    BY <1>3, <1>12, <1>13, <2>1, <2>7, <2>8 DEF Progress
  <2> QED
    BY <1>5, <1>6, <1>10, <2>5, <2>9 DEF Safe, Execution
<1> QED
  BY <1>14, <1>15 DEF Mark, Goes, IInv, TypeOK

\* The steps on the vectors of sources touch no summary.
LEMMA SourceTouched ==
    ASSUME IInv, NEW a \in Procs, NEW s \in Entries, Touches(s), UNCHANGED <<rows, link>>
    PROVE  /\ \A i \in Summaries :
                status'[i] = status[i] /\ (RowIdsInjective => vec'[RowId[i]] = vec[RowId[i]])
           /\ \A m \in 1..MaxGroups : Clean(a, m)' <=> Clean(a, m)
<1>1. s \in Ids /\ Summaries \subseteq Ids /\ s \notin Summaries
  BY SummaryFacts, ApplyAssumption DEF ApplyAssumption
<1>2. \A i \in Summaries : i /= s /\ status'[i] = status[i]
  BY <1>1 DEF Touches
<1>3. \A i \in Ids : RowId[i] \in RowIds
  BY SummaryFacts
<1>4. \A i \in Summaries : RowIdsInjective => vec'[RowId[i]] = vec[RowId[i]]
  BY <1>1, <1>2, <1>3 DEF Touches, RowIdsInjective
<1>5. \A m \in 1..MaxGroups : Summary(a, m) \in Summaries
  BY SummaryFacts
<1> QED
  BY <1>2, <1>4, <1>5 DEF Clean, NoLink

LEMMA DropSourceTouches ==
    ASSUME IInv, NEW a \in Procs, DropSourceVector(a) \/ DropSourceStatus(a)
    PROVE  \E s \in Entries : Touches(s)
<1>1. Source(a) \subseteq Entries /\ Entries \subseteq Ids
  BY CurrentGroup, SummaryFacts
<1>2. Phases(a)
  BY DEF IInv, Execution
<1>3. CASE DropSourceVector(a)
  <2>1. PICK s \in todo[a] : DropVector(s) \/ UNCHANGED store
    BY <1>3 DEF DropSourceVector, Throws
  <2>2. todo[a] \subseteq Source(a)
    BY <1>2, <1>3 DEF DropSourceVector, Phases
  <2> QED
    BY <1>1, <2>1, <2>2, StatementTouches DEF IInv, TypeOK
<1>4. CASE DropSourceStatus(a)
  <2>1. cur[a] \in Entries /\ (DropStatus(cur[a]) \/ UNCHANGED store)
    BY <1>1, <1>2, <1>4 DEF DropSourceStatus, Throws, Phases
  <2> QED
    BY <1>1, <2>1, StatementTouches DEF IInv, TypeOK
<1> QED
  BY <1>3, <1>4

LEMMA DropSourceSafe ==
    ASSUME IInv, NEW a \in Procs, DropSourceVector(a) \/ DropSourceStatus(a)
    PROVE  Safe(a)
<1>1. /\ grp[a] \in 1..MaxGroups /\ MaxGroups \in Nat /\ pc[a] \in {"drop", "dropStatus"}
      /\ Source(a) \subseteq Entries /\ Entries \subseteq Ids
  BY CurrentGroup, SummaryFacts DEF DropSourceVector, DropSourceStatus
<1>2. /\ Phases(a) /\ Links(a) /\ Progress(a)
      /\ wr[a] = "idle" /\ ix[a] = "idle" /\ ~leak[a] /\ todo[a] \subseteq Source(a)
  BY <1>1 DEF IInv, Execution, Phases
<1>3. /\ UNCHANGED <<rows, link, ix, wr, leak, applied, pv, grp, restore>>
      /\ faults' \in 0..MaxFaults
  BY ThrowTyped DEF DropSourceVector, DropSourceStatus, DropVector, DropStatus, Throws, store,
     IInv, TypeOK, IndexingType
<1>4. \E s \in Entries : Touches(s)
  BY DropSourceTouches
<1>5. TypeOK'
  <2>1. ControlType'
    <3>1. pc' = pc \/ \E to \in {"drop", "dropStatus"} : Goes(a, to)
      BY DEF DropSourceVector, DropSourceStatus
    <3>2. /\ todo' = todo \/ \E s \in Ids \cup {NoId} : todo' = [todo EXCEPT ![a] = @ \ {s}]
          /\ cur' = cur \/ \E s \in Entries \cup {NoId} : cur' = [cur EXCEPT ![a] = s]
          /\ vfail' = vfail \/ vfail' = [vfail EXCEPT ![a] = TRUE]
      BY <1>1, <1>2 DEF DropSourceVector, DropSourceStatus, IInv, TypeOK, ControlType
    <3>3. {"drop", "dropStatus"} \subseteq {"idle"} \cup Forward \cup Backward \cup Ended
      BY DEF Forward
    <3>4. /\ pc' \in [Procs -> {"idle"} \cup Forward \cup Backward \cup Ended]
          /\ todo' \in [Procs -> SUBSET Entries]
      BY <3>1, <3>2, <3>3 DEF Goes, IInv, TypeOK, ControlType
    <3>5. /\ cur' \in [Procs -> Entries \cup {NoId}]
          /\ vfail' \in [Procs -> BOOLEAN]
      BY <1>1, <3>2 DEF IInv, TypeOK, ControlType
    <3> QED
      BY <1>3, <3>4, <3>5 DEF IInv, TypeOK, ControlType
  <2> QED
    BY <1>3, <1>4, <2>1 DEF Touches, IInv, TypeOK, ControlType, IndexingType, WritingType
<1>6. Frame(a)
  <2>1. /\ \A i \in Summaries :
            status'[i] = status[i] /\ (RowIdsInjective => vec'[RowId[i]] = vec[RowId[i]])
    BY <1>3, <1>4, SourceTouched
  <2> QED
    BY <1>3, <2>1 DEF DropSourceVector, DropSourceStatus, Goes, Frame, Stays, IInv, TypeOK
<1>7. /\ pc'[a] \in {"drop", "dropStatus"} /\ todo'[a] \subseteq todo[a]
      /\ pc'[a] = "dropStatus" => cur'[a] \in todo'[a]
  BY <1>1 DEF DropSourceVector, DropSourceStatus, Goes, IInv, TypeOK
<1>8. Phases(a)'
  BY <1>1, <1>2, <1>3, <1>7 DEF Phases, GroupCount, Source
<1>9. Links(a)'
  BY <1>2, <1>3, LinksKept
<1>10. Progress(a)'
  <2>1. \A m \in 1..MaxGroups : Clean(a, m)' <=> Clean(a, m)
    BY <1>3, <1>4, SourceTouched
  <2>2. /\ Reached(a) = grp[a] /\ Reached(a)' = grp[a]
        /\ Behind(a) = grp[a] /\ Behind(a)' = grp[a]
    BY <1>1, <1>3, <1>7 DEF Reached, Behind
  <2> QED
    BY <1>2, <1>3, <1>7, <2>1, <2>2 DEF Progress
<1> QED
  BY <1>5, <1>6, <1>8, <1>9, <1>10 DEF Safe, Execution

LEMMA GroupDoneSafe ==
    ASSUME IInv, NEW a \in Procs, GroupDone(a)
    PROVE  Safe(a)
<1>1. /\ grp[a] \in 1..MaxGroups /\ MaxGroups \in Nat /\ pc[a] = "drop"
      /\ GroupCount(a) \in 1..MaxGroups /\ grp[a] <= GroupCount(a)
  BY CurrentGroup DEF GroupDone
<1>2. /\ Phases(a) /\ Links(a) /\ Progress(a)
      /\ wr[a] = "idle" /\ ix[a] = "idle" /\ ~leak[a] /\ Reached(a) = grp[a] /\ Behind(a) = grp[a]
  BY <1>1 DEF IInv, Execution, Phases, Reached, Behind
<1>3. UNCHANGED <<store, ix, faults, leak, applied, pv, todo, cur>>
  BY DEF GroupDone, BeginGroup
<1>4. TypeOK'
  <2>1. WritingType' /\ StoreType' /\ IndexingType'
    BY <1>3 DEF GroupDone, BeginGroup, WriteCalls, IInv, TypeOK, store, StoreType, IndexingType,
       WritingType, WritePhase
  <2>2. ControlType'
    <3>1. (grp[a] < GroupCount(a)) => grp[a] + 1 \in 1..MaxGroups
      BY <1>1
    <3> QED
      BY <1>3, <3>1 DEF GroupDone, BeginGroup, Goes, IInv, TypeOK, ControlType, Forward, Backward
  <2> QED
    BY <1>3, <2>1, <2>2 DEF IInv, TypeOK, ControlType
<1>5. Frame(a)
  BY <1>3 DEF GroupDone, BeginGroup, WriteCalls, store, Goes, Frame, Stays, IInv, TypeOK, WritingType
<1>6. Links(a)'
  BY <1>2, <1>3, LinksKept DEF store
<1>7. Phases(a)' /\ Progress(a)'
  <2>1. CASE BeginGroup(a, grp[a] + 1) /\ grp[a] < GroupCount(a)
    <3>1. grp[a] + 1 \in 1..GroupCount(a) /\ (grp[a] + 1) - 1 = grp[a]
      BY <1>1, <2>1
    <3>2. \A m \in 1..MaxGroups : m >= grp[a] + 1 => Clean(a, m)
      BY <1>1, <1>2 DEF Progress
    <3>3. \A m \in 1..grp[a] : \A s \in Groups[pv[a]][m] : link[s] = Summary(a, m)
      BY <1>2 DEF Progress
    <3> QED
      BY <1>2, <1>3, <2>1, <3>1, <3>2, <3>3, GroupBegun
  <2>2. CASE /\ Goes(a, "clear") \/ (Goes(a, "commit") /\ grp[a] = GroupCount(a))
             /\ UNCHANGED <<wr, grp>>
    <3>1. pc'[a] = "clear" \/ (pc'[a] = "commit" /\ grp[a] = GroupCount(a))
      BY <2>2 DEF Goes, IInv, TypeOK
    <3>2. Reached(a)' = grp[a] /\ Behind(a)' \in {0, grp[a]}
      BY <2>2, <3>1 DEF Reached, Behind
    <3> QED
      BY <1>1, <1>2, <1>3, <2>2, <3>1, <3>2 DEF Phases, Progress, GroupCount, Clean, NoLink, store
  <2> QED
    BY <2>1, <2>2 DEF GroupDone
<1> QED
  BY <1>4, <1>5, <1>6, <1>7 DEF Safe, Execution

LEMMA CommitSafe ==
    ASSUME IInv, NEW a \in Procs, Commit(a)
    PROVE  Safe(a)
<1>1. /\ grp[a] \in 1..MaxGroups /\ MaxGroups \in Nat /\ pc[a] = "commit"
      /\ GroupCount(a) \in 1..MaxGroups /\ pv[a] \in Previews
  BY CurrentGroup DEF Commit
<1>2. /\ Phases(a) /\ Links(a) /\ Progress(a) /\ grp[a] = GroupCount(a)
      /\ wr[a] = "idle" /\ ix[a] = "idle" /\ ~leak[a] /\ Reached(a) = grp[a] /\ Behind(a) = grp[a]
  BY <1>1 DEF IInv, Execution, Phases, Reached, Behind
<1>3. /\ UNCHANGED <<store, ix, wr, leak, pv, todo, cur>> /\ faults' \in 0..MaxFaults
  BY ThrowTyped DEF Commit, Undo, Throws, IInv, TypeOK, IndexingType
<1>4. GroupCount(a) \in 0..GroupCount(a)
  BY <1>1
<1>5. TypeOK'
  <2>1. ControlType'
    BY <1>4, UndoTyped DEF Commit, Goes, IInv, TypeOK, ControlType, Ended
  <2>2. applied' \in SUBSET Previews
    BY <1>1 DEF Commit, IInv, TypeOK
  <2> QED
    BY <1>3, <2>1, <2>2 DEF IInv, TypeOK, ControlType, store, StoreType, IndexingType, WritingType
<1>6. Frame(a)
  BY <1>3 DEF Commit, Undo, store, Goes, Frame, Stays, IInv, TypeOK
<1>7. Links(a)'
  BY <1>2, <1>3, LinksKept DEF store
<1>8. \A m \in 1..MaxGroups : Clean(a, m)' <=> Clean(a, m)
  BY <1>3 DEF Clean, NoLink, store
<1>9. Phases(a)' /\ Progress(a)'
  <2>1. CASE Undo(a, GroupCount(a))
    <3>1. \A m \in 1..MaxGroups : m > GroupCount(a) /\ ~leak'[a] => Clean(a, m)'
      BY <1>2, <1>8 DEF Progress
    <3> QED
      BY <1>2, <1>3, <1>4, <1>5, <2>1, <3>1, Undone
  <2>2. CASE Goes(a, "success") /\ UNCHANGED grp
    <3>1. pc'[a] = "success"
      BY <2>2 DEF Goes, IInv, TypeOK
    <3>2. Reached(a)' = grp[a] /\ Behind(a)' = grp[a]
      BY <2>2, <3>1 DEF Reached, Behind
    <3> QED
      BY <1>1, <1>2, <1>3, <1>8, <2>2, <3>1, <3>2 DEF Phases, Progress, GroupCount, store
  <2> QED
    BY <2>1, <2>2 DEF Commit
<1> QED
  BY <1>5, <1>6, <1>7, <1>9 DEF Safe, Execution

-----------------------------------------------------------------------------
(* The steps back.                                                         *)

LEMMA ClearLinksSafe ==
    ASSUME IInv, NEW a \in Procs, ClearLinks(a)
    PROVE  Safe(a)
<1>1. /\ grp[a] \in 1..MaxGroups /\ MaxGroups \in Nat /\ pc[a] = "clear"
      /\ Source(a) \subseteq Entries /\ Entries \subseteq Ids /\ Sum(a) /= NoId
      /\ NoId \notin Ids
  BY CurrentGroup, SummaryFacts DEF ClearLinks
<1>2. Phases(a) /\ Links(a) /\ Progress(a) /\ wr[a] = "idle" /\ ix[a] = "idle" /\ Reached(a) = grp[a]
  BY <1>1 DEF IInv, Execution, Phases, Reached
<1>3. /\ UNCHANGED <<rows, status, vec, ix, wr, applied, pv, grp, todo, cur, vfail, restore>>
      /\ faults' \in 0..MaxFaults
  BY ThrowTyped DEF ClearLinks, ClearCompacted, Throws, store, IInv, TypeOK, IndexingType
<1>4. leak[a] => leak'[a]
  BY DEF ClearLinks, Reports, IInv, TypeOK, WritingType
<1>5. \/ link' = link /\ leak'[a] /\ "clear" \in FaultyCalls
      \/ link' = [i \in Ids |-> IF i \in Source(a) /\ link[i] = Sum(a) THEN NoId ELSE link[i]]
  BY DEF ClearLinks, ClearCompacted, Throws, store, Reports, IInv, TypeOK, WritingType
<1>6. TypeOK'
  <2>1. StoreType'
    BY <1>3, <1>5 DEF IInv, TypeOK, StoreType
  <2>2. leak' \in [Procs -> BOOLEAN]
    BY DEF ClearLinks, Reports, IInv, TypeOK, WritingType
  <2>3. pc' \in [Procs -> {"idle"} \cup Forward \cup Backward \cup Ended]
    BY DEF ClearLinks, Goes, IInv, TypeOK, Backward
  <2> QED
    BY <1>3, <2>1, <2>2, <2>3 DEF IInv, TypeOK, IndexingType, WritingType
<1>7. Frame(a)
  <2>1. \A i \in Ids : \/ link'[i] = link[i]
                       \/ i \in Entries /\ link[i] = Sum(a) /\ link'[i] = NoId
    BY <1>1, <1>5
  <2> QED
    BY <1>3, <2>1 DEF ClearLinks, Reports, Goes, Frame, Stays, IInv, TypeOK, WritingType
<1>8. \A n \in 1..MaxGroups : Summary(a, n) /= NoId
  BY SummaryFacts
<1>9. \A s \in Entries : link'[s] \in {link[s], NoId}
  BY <1>1, <1>5
<1>10. Links(a)'
  BY <1>2, <1>3, <1>4, <1>8, <1>9 DEF Links, Excused, GroupCount
<1>11. \A s \in Entries : link'[s] = Sum(a) => Excused(a)'
  BY <1>1, <1>2, <1>5, <1>9 DEF Links, Excused, Sum, Source
<1>12. pc'[a] = "deleteSummary"
  BY DEF ClearLinks, Goes, IInv, TypeOK
<1>13. Phases(a)'
  BY <1>2, <1>3, <1>12 DEF Phases, GroupCount
<1>14. Progress(a)'
  <2>1. \A m \in 1..MaxGroups : Clean(a, m) => Clean(a, m)'
    BY <1>3, <1>8, <1>9 DEF Clean, NoLink
  <2>2. Reached(a)' = grp[a] /\ Behind(a)' = 0 /\ Sum(a)' = Sum(a)
    BY <1>3, <1>12 DEF Reached, Behind, Sum
  <2> QED
    BY <1>2, <1>4, <1>11, <1>12, <2>1, <2>2 DEF Progress
<1> QED
  BY <1>6, <1>7, <1>10, <1>13, <1>14 DEF Safe, Execution

LEMMA DeleteSummarySafe ==
    ASSUME IInv, NEW a \in Procs, DeleteSummary(a)
    PROVE  Safe(a)
<1>1. /\ grp[a] \in 1..MaxGroups /\ MaxGroups \in Nat /\ pc[a] = "deleteSummary" /\ Sum(a) \in Ids
  BY CurrentGroup DEF DeleteSummary
<1>2. Phases(a) /\ Links(a) /\ Progress(a) /\ wr[a] = "idle" /\ ix[a] = "idle" /\ Reached(a) = grp[a]
  BY <1>1 DEF IInv, Execution, Phases, Reached
<1>3. /\ UNCHANGED <<ix, wr, applied, pv, grp, todo, cur, vfail, restore>>
      /\ faults' \in 0..MaxFaults
  BY ThrowTyped DEF DeleteSummary, Throws, IInv, TypeOK, IndexingType
<1>4. leak[a] => leak'[a]
  BY DEF DeleteSummary, Reports, IInv, TypeOK, WritingType
<1>5. Touches(Sum(a))
  BY <1>1, StatementTouches DEF DeleteSummary, Throws, IInv, TypeOK
<1>6. Sum(a) \notin rows' \/ leak'[a]
  BY DEF DeleteSummary, DeleteRow, Reports, IInv, TypeOK, WritingType
<1>7. TypeOK'
  <2>1. leak' \in [Procs -> BOOLEAN]
    BY DEF DeleteSummary, Reports, IInv, TypeOK, WritingType
  <2>2. pc' \in [Procs -> {"idle"} \cup Forward \cup Backward \cup Ended]
    BY DEF DeleteSummary, Goes, IInv, TypeOK, Backward
  <2> QED
    BY <1>3, <1>5, <2>1, <2>2 DEF Touches, IInv, TypeOK, IndexingType, WritingType
<1>8. Frame(a)
  BY <1>3, <1>5, SummaryTouched DEF DeleteSummary, Reports, Goes, Frame, Stays, IInv, TypeOK, WritingType
<1>9. Links(a)'
  <2>1. \A n \in 1..MaxGroups : n /= grp[a] => Summary(a, n) /= Sum(a) /\ Summary(a, n) \in Ids
    BY <1>1, SummaryFacts DEF Sum
  <2>2. \A s \in Entries : link[s] = Summary(a, grp[a]) => Excused(a)
    BY <1>1, <1>2 DEF Progress, Sum
  <2>3. Excused(a) => Excused(a)'
    BY <1>4 DEF Excused
  <2> QED
    BY <1>2, <1>3, <1>5, <2>1, <2>2, <2>3, SummaryTouched DEF Links, GroupCount
<1>10. pc'[a] = "summaryVector"
  BY DEF DeleteSummary, Goes, IInv, TypeOK
<1>11. Phases(a)'
  BY <1>2, <1>3, <1>10 DEF Phases, GroupCount
<1>12. Progress(a)'
  <2>1. \A m \in 1..MaxGroups : m > grp[a] => (Clean(a, m)' <=> Clean(a, m))
    BY <1>1, <1>5, SummaryTouched
  <2>2. Reached(a)' = grp[a] /\ Behind(a)' = 0 /\ Sum(a)' = Sum(a)
    BY <1>3, <1>10 DEF Reached, Behind, Sum
  <2>3. ~leak[a] => NoLink(a, grp[a])
    BY <1>1, <1>2 DEF Progress, Excused, NoLink, Sum
  <2>4. NoLink(a, grp[a])' <=> NoLink(a, grp[a])
    BY <1>1, <1>3, <1>5, SummaryTouched DEF NoLink
  <2> QED
    BY <1>1, <1>2, <1>3, <1>4, <1>6, <1>10, <2>1, <2>2, <2>3, <2>4 DEF Progress
<1> QED
  BY <1>7, <1>8, <1>9, <1>11, <1>12 DEF Safe, Execution

\* After the summary of a group is removed, its sources are restored or the
\* group before it is rolled back.
LEMMA CleanedUpSafe ==
    ASSUME IInv, NEW a \in Procs, CleanedUp(a)
    PROVE  /\ ControlType'
           /\ UNCHANGED <<pv, cur>>
           /\ \A b \in Procs \ {a} :
                /\ pc'[b] = pc[b] /\ grp'[b] = grp[b] /\ todo'[b] = todo[b]
                /\ vfail'[b] = vfail[b] /\ restore'[b] = restore[b]
           /\ (/\ TypeOK' /\ wr'[a] = "idle" /\ ix'[a] = "idle"
              /\ \A m \in 1..MaxGroups : m >= grp[a] /\ ~leak'[a] => Clean(a, m)')
                => Phases(a)' /\ Progress(a)'
<1>1. /\ grp[a] \in 1..MaxGroups /\ MaxGroups \in Nat /\ GroupCount(a) \in 1..MaxGroups
      /\ Source(a) \subseteq Entries /\ grp[a] <= GroupCount(a)
  BY CurrentGroup
<1>2. CASE Undo(a, grp[a] - 1)
  <2>1. grp[a] - 1 \in 0..GroupCount(a)
    BY <1>1
  <2>2. ControlType'
    BY <1>2, <2>1, UndoTyped
  <2>3. ASSUME TypeOK', wr'[a] = "idle", ix'[a] = "idle",
               \A m \in 1..MaxGroups : m >= grp[a] /\ ~leak'[a] => Clean(a, m)'
        PROVE  Phases(a)' /\ Progress(a)'
    <3>1. \A m \in 1..MaxGroups : m > grp[a] - 1 /\ ~leak'[a] => Clean(a, m)'
      BY <1>1, <2>3
    <3> QED
      BY <1>2, <2>1, <2>3, <3>1, Undone
  <2> QED
    BY <1>2, <2>2, <2>3 DEF Undo, Goes, IInv, TypeOK
<1>3. CASE /\ todo' = [todo EXCEPT ![a] = Source(a)] /\ Goes(a, "restore")
           /\ UNCHANGED <<pv, grp, cur, vfail, restore>>
  <2>1. ControlType'
    BY <1>1, <1>3 DEF Goes, IInv, TypeOK, ControlType, Backward
  <2>2. pc'[a] = "restore" /\ todo'[a] = Source(a)
    BY <1>3 DEF Goes, IInv, TypeOK
  <2>3. ASSUME TypeOK', wr'[a] = "idle", ix'[a] = "idle",
               \A m \in 1..MaxGroups : m >= grp[a] /\ ~leak'[a] => Clean(a, m)'
        PROVE  Phases(a)' /\ Progress(a)'
    <3>1. Reached(a)' = grp[a] - 1 /\ Behind(a)' = 0
      BY <1>3, <2>2 DEF Reached, Behind
    <3> QED
      BY <1>1, <1>3, <2>2, <2>3, <3>1 DEF Phases, Progress, GroupCount, Source
  <2> QED
    BY <1>3, <2>1, <2>3 DEF Goes, IInv, TypeOK
<1> QED
  BY <1>2, <1>3 DEF CleanedUp

LEMMA DropSummarySafe ==
    ASSUME IInv, NEW a \in Procs, DropSummaryVector(a) \/ DropSummaryStatus(a)
    PROVE  Safe(a)
<1>1. /\ grp[a] \in 1..MaxGroups /\ MaxGroups \in Nat /\ Sum(a) \in Ids
      /\ pc[a] \in {"summaryVector", "summaryStatus"}
  BY CurrentGroup DEF DropSummaryVector, DropSummaryStatus
<1>2. Phases(a) /\ Links(a) /\ Progress(a) /\ wr[a] = "idle" /\ ix[a] = "idle" /\ Reached(a) = grp[a]
  BY <1>1 DEF IInv, Execution, Phases, Reached
<1>3. UNCHANGED <<rows, link, ix, wr, applied, pv>> /\ faults' \in 0..MaxFaults
  BY ThrowTyped, CleanedUpSafe DEF DropSummaryVector, DropSummaryStatus, DropVector, DropStatus,
     Throws, store, IInv, TypeOK, IndexingType
<1>4. (leak[a] => leak'[a]) /\ leak' \in [Procs -> BOOLEAN]
      /\ \A b \in Procs \ {a} : leak'[b] = leak[b]
  BY DEF DropSummaryVector, DropSummaryStatus, Reports, IInv, TypeOK, WritingType
<1>5. Touches(Sum(a))
  BY <1>1, StatementTouches DEF DropSummaryVector, DropSummaryStatus, Throws, IInv, TypeOK
<1>6. ControlType' /\ \A b \in Procs \ {a} :
         /\ pc'[b] = pc[b] /\ grp'[b] = grp[b] /\ todo'[b] = todo[b] /\ cur'[b] = cur[b]
         /\ vfail'[b] = vfail[b] /\ restore'[b] = restore[b]
  <2>1. CASE CleanedUp(a)
    BY <2>1, CleanedUpSafe
  <2>2. CASE Goes(a, "summaryStatus") /\ UNCHANGED <<pv, grp, todo, cur, vfail, restore>>
    BY <2>2 DEF Goes, IInv, TypeOK, ControlType, Backward
  <2> QED
    BY <2>1, <2>2 DEF DropSummaryVector, DropSummaryStatus
<1>7. TypeOK'
  BY <1>3, <1>4, <1>5, <1>6 DEF Touches, IInv, TypeOK, ControlType, IndexingType, WritingType
<1>8. Frame(a)
  BY <1>3, <1>4, <1>5, <1>6, SummaryTouched DEF Frame, Stays
<1>9. Links(a)'
  BY <1>2, <1>3, <1>4, LinksKept
<1>10. \A m \in 1..MaxGroups : m > grp[a] /\ ~leak'[a] => Clean(a, m)'
  BY <1>1, <1>2, <1>4, <1>5, SummaryTouched DEF Progress
<1>11. ~leak'[a] => Sum(a) \notin rows' /\ \A s \in Entries : link'[s] /= Sum(a)
  BY <1>1, <1>2, <1>3, <1>4 DEF Progress, NoLink, Sum
<1>12. Phases(a)' /\ Progress(a)'
  <2>1. CASE CleanedUp(a)
    <3>1. pc'[a] /= "summaryStatus"
      BY <2>1 DEF CleanedUp, Undo, Goes, IInv, TypeOK
    <3>2. status'[Sum(a)] = "absent" \/ leak'[a]
      BY <1>1, <3>1 DEF DropSummaryVector, DropSummaryStatus, DropStatus, Reports, Goes, IInv,
         TypeOK, WritingType, StoreType, store
    <3>3. Summary(a, grp[a]) = Sum(a)
      BY DEF Sum
    <3>4. ~leak'[a] => /\ Summary(a, grp[a]) \notin rows'
                       /\ status'[Summary(a, grp[a])] = "absent"
                       /\ \A s \in Entries : link'[s] /= Summary(a, grp[a])
      BY <1>11, <3>2, <3>3
    <3>5. \A m \in 1..MaxGroups : m >= grp[a] /\ ~leak'[a] => Clean(a, m)'
      BY <1>1, <1>10, <3>4 DEF Clean, NoLink
    <3> QED
      BY <1>2, <1>3, <1>7, <2>1, <3>5, CleanedUpSafe
  <2>2. CASE Goes(a, "summaryStatus") /\ UNCHANGED <<pv, grp, todo, cur, vfail, restore>>
    <3>1. pc'[a] = "summaryStatus" /\ grp' = grp
      BY <2>2 DEF Goes, IInv, TypeOK
    <3>2. Reached(a)' = grp[a] /\ Behind(a)' = 0 /\ Sum(a)' = Sum(a)
      BY <3>1 DEF Reached, Behind, Sum
    <3> QED
      BY <1>2, <1>3, <1>10, <1>11, <3>1, <3>2 DEF Phases, Progress, GroupCount, NoLink, Sum
  <2> QED
    BY <2>1, <2>2 DEF DropSummaryVector, DropSummaryStatus
<1> QED
  BY <1>7, <1>8, <1>9, <1>12 DEF Safe, Execution

LEMMA RestoreSafe ==
    ASSUME IInv, NEW a \in Procs, RestoreVector(a) \/ RestoringVector(a) \/ RestoredVector(a)
    PROVE  Safe(a)
<1>1. /\ grp[a] \in 1..MaxGroups /\ MaxGroups \in Nat /\ pc[a] \in {"restore", "restoring"}
      /\ Source(a) \subseteq Entries /\ Entries \subseteq Ids
  BY CurrentGroup, SummaryFacts DEF RestoreVector, RestoringVector, RestoredVector
<1>2. /\ Phases(a) /\ Links(a) /\ Progress(a) /\ wr[a] = "idle" /\ Reached(a) = grp[a] - 1
      /\ todo[a] \subseteq Source(a) /\ (pc[a] = "restoring" => cur[a] \in todo[a])
  BY <1>1 DEF IInv, Execution, Phases, Reached
<1>3. UNCHANGED <<rows, link, wr, applied, pv, grp, vfail, restore>> /\ IndexingType'
      /\ \A b \in Procs \ {a} : ix'[b] = ix[b]
  <2>1. CASE RestoringVector(a)
    BY <1>1, <1>2, <2>1, IndexStepTouches DEF RestoringVector, control, IInv, TypeOK
  <2>2. CASE RestoreVector(a) \/ RestoredVector(a)
    BY <2>2 DEF RestoreVector, RestoredVector, IndexCalls, IndexReturns, store, IInv, TypeOK,
       IndexingType, IndexPhase
  <2> QED
    BY <2>1, <2>2
<1>4. (leak[a] => leak'[a]) /\ leak' \in [Procs -> BOOLEAN]
      /\ \A b \in Procs \ {a} : leak'[b] = leak[b]
  BY DEF RestoreVector, RestoringVector, RestoredVector, Reports, IInv, TypeOK, WritingType
<1>5. UNCHANGED store \/ (pc[a] = "restoring" /\ Touches(cur[a]))
  BY <1>1, <1>2, IndexStepTouches DEF RestoreVector, RestoringVector, RestoredVector, IInv, TypeOK
<1>6. TypeOK'
  <2>1. ControlType'
    BY <1>1, <1>2 DEF RestoreVector, RestoringVector, RestoredVector, control, Goes, IInv, TypeOK,
       ControlType, Backward
  <2>2. StoreType'
    BY <1>5 DEF Touches, store, IInv, TypeOK, StoreType
  <2> QED
    BY <1>3, <1>4, <2>1, <2>2 DEF IInv, TypeOK, ControlType, WritingType
<1>7. /\ \A i \in Summaries :
            status'[i] = status[i] /\ (RowIdsInjective => vec'[RowId[i]] = vec[RowId[i]])
      /\ \A m \in 1..MaxGroups : Clean(a, m)' <=> Clean(a, m)
  <2>1. CASE UNCHANGED store
    BY <2>1 DEF store, Clean, NoLink
  <2>2. CASE pc[a] = "restoring" /\ Touches(cur[a])
    BY <1>1, <1>2, <1>3, <2>2, SourceTouched
  <2> QED
    BY <1>5, <2>1, <2>2
<1>8. Frame(a)
  BY <1>3, <1>4, <1>7 DEF RestoreVector, RestoringVector, RestoredVector, control, Goes, Frame, Stays,
     IInv, TypeOK
<1>9. Links(a)'
  BY <1>2, <1>3, <1>4, LinksKept
<1>10. /\ pc'[a] \in {"restore", "restoring"} /\ todo'[a] \subseteq todo[a]
       /\ pc'[a] = "restoring" => cur'[a] \in todo'[a]
       /\ pc'[a] = "restore" => ix'[a] = "idle"
  <2>1. CASE RestoreVector(a)
    BY <2>1 DEF RestoreVector, Goes, IInv, TypeOK
  <2>2. CASE RestoringVector(a)
    BY <1>2, <2>2 DEF RestoringVector, control
  <2>3. CASE RestoredVector(a)
    BY <2>3 DEF RestoredVector, IndexReturns, Goes, IInv, TypeOK, IndexingType
  <2> QED
    BY <2>1, <2>2, <2>3
<1>11. Phases(a)'
  BY <1>1, <1>2, <1>3, <1>10 DEF Phases, GroupCount, Source
<1>12. Progress(a)'
  <2>1. Reached(a)' = grp[a] - 1 /\ Behind(a)' = 0
    BY <1>3, <1>10 DEF Reached, Behind
  <2> QED
    BY <1>1, <1>2, <1>4, <1>7, <1>10, <2>1 DEF Progress
<1> QED
  BY <1>6, <1>8, <1>9, <1>11, <1>12 DEF Safe, Execution

LEMMA GroupUndoneSafe ==
    ASSUME IInv, NEW a \in Procs, GroupUndone(a)
    PROVE  Safe(a)
<1>1. /\ grp[a] \in 1..MaxGroups /\ MaxGroups \in Nat /\ GroupCount(a) \in 1..MaxGroups
      /\ grp[a] <= GroupCount(a) /\ grp[a] - 1 \in 0..GroupCount(a) /\ Undo(a, grp[a] - 1)
      /\ pc[a] = "restore"
  BY CurrentGroup DEF GroupUndone
<1>2. /\ Phases(a) /\ Links(a) /\ Progress(a) /\ wr[a] = "idle" /\ ix[a] = "idle"
      /\ Reached(a) = grp[a] - 1
  BY <1>1 DEF IInv, Execution, Phases, Reached
<1>3. UNCHANGED <<store, ix, faults, wr, leak, applied, pv>>
  BY DEF GroupUndone, writing, Undo
<1>4. TypeOK'
  BY <1>1, <1>3, UndoTyped DEF IInv, TypeOK, ControlType, store, StoreType, IndexingType, WritingType
<1>5. Frame(a)
  BY <1>1, <1>3 DEF Undo, store, Goes, Frame, Stays, IInv, TypeOK
<1>6. Links(a)'
  BY <1>2, <1>3, LinksKept DEF store
<1>7. \A m \in 1..MaxGroups : m > grp[a] - 1 /\ ~leak'[a] => Clean(a, m)'
  BY <1>2, <1>3 DEF Progress, Clean, NoLink, store
<1>8. Phases(a)' /\ Progress(a)'
  BY <1>1, <1>2, <1>3, <1>4, <1>7, Undone
<1> QED
  BY <1>4, <1>5, <1>6, <1>8 DEF Safe, Execution

-----------------------------------------------------------------------------
(* The invariant.                                                          *)

LEMMA StepSafe ==
    ASSUME IInv, NEW a \in Procs, Step(a)
    PROVE  Safe(a)
BY BeginSafe, ReadSourcesSafe, WriteSummarySafe, SummaryWrittenSafe, MarkSafe, DropSourceSafe,
   GroupDoneSafe, CommitSafe, ClearLinksSafe, DeleteSummarySafe, DropSummarySafe, RestoreSafe,
   GroupUndoneSafe
   DEF Step, GoForward, GoBack

\* Only a commit changes what is applied, and it ends in success.
LEMMA AppliedBy ==
    ASSUME IInv, NEW a \in Procs, Step(a)
    PROVE  /\ pc[a] /= "success"
           /\ \/ applied' = applied /\ pc'[a] /= "success"
              \/ applied' = applied \cup {pv[a]} /\ pc'[a] = "success" /\ pc[a] = "commit"
                 /\ UNCHANGED <<store, pv>>
<1>1. CASE Commit(a)
  BY <1>1 DEF Commit, Undo, Goes, IInv, TypeOK
<1>2. CASE /\ ~Commit(a) /\ (GoForward(a) \/ GoBack(a))
  <2>1. applied' = applied /\ pc[a] /= "success"
    BY <1>2 DEF GoForward, GoBack, Begin, ReadSources, WriteSummary, SummaryWritten, Mark,
       DropSourceVector, DropSourceStatus, GroupDone, ClearLinks, DeleteSummary, DropSummaryVector,
       DropSummaryStatus, RestoreVector, RestoringVector, RestoredVector, GroupUndone
  <2>2. pc'[a] = pc[a] \/ \E label \in ({"rejected", "thrown", "commit"} \cup Forward \cup Backward) : Goes(a, label)
    BY <1>2 DEF GoForward, GoBack, Begin, ReadSources, WriteSummary, SummaryWritten, Mark,
       DropSourceVector, DropSourceStatus, GroupDone, ClearLinks, DeleteSummary, DropSummaryVector,
       DropSummaryStatus, RestoreVector, RestoringVector, RestoredVector, GroupUndone, BeginGroup,
       Undo, CleanedUp, control, Forward, Backward
  <2>3. pc'[a] /= "success"
    BY <2>1, <2>2 DEF Goes, IInv, TypeOK, Forward, Backward
  <2> QED
    BY <2>1, <2>3
<1> QED
  BY <1>1, <1>2 DEF Step, GoForward

LEMMA CrashSafe ==
    ASSUME IInv, NEW h \in Hosts, Crash(h)
    PROVE  IInv'
<1>1. /\ UNCHANGED <<rows, link, status, vec, ix, faults, wr, leak, applied, pv, grp, todo, cur, vfail, restore>>
      /\ \A a \in Procs : pc'[a] = pc[a] \/ (pc'[a] = "crashed" /\ pc[a] \notin Ended)
      /\ pc' \in [Procs -> {"idle"} \cup Forward \cup Backward \cup Ended]
  BY DEF Crash, writing, store, IInv, TypeOK, Ended
<1>2. TypeOK'
  BY <1>1 DEF IInv, TypeOK, StoreType, IndexingType, WritingType
<1>3. Compacting'
  BY <1>1 DEF IInv, Compacting, Ended
<1>4. ASSUME NEW a \in Procs PROVE Execution(a)'
  <2>1. Phases(a) /\ Links(a) /\ Progress(a) /\ MaxGroups \in Nat
    BY CurrentGroup DEF IInv, Execution
  <2>2. Links(a)'
    BY <1>1, <2>1, LinksKept
  <2>3. CASE pc'[a] = pc[a]
    BY <1>1, <2>1, <2>2, <2>3 DEF Execution, Phases, Progress, Reached, Behind, Clean, NoLink,
       GroupCount, Source, Sum, Excused
  <2>4. CASE pc'[a] = "crashed"
    BY <1>1, <2>1, <2>2, <2>4 DEF Execution, Phases, Progress, Reached, Behind, GroupCount
  <2> QED
    BY <1>1, <2>3, <2>4
<1> QED
  BY <1>2, <1>3, <1>4 DEF IInv

LEMMA Stuttering ==
    ASSUME IInv, UNCHANGED vars
    PROVE  IInv'
<1>1. TypeOK' /\ Compacting'
  BY DEF IInv, TypeOK, Compacting, StoreType, IndexingType, WritingType, vars
<1>2. \A a \in Procs : Execution(a)'
  BY DEF IInv, Execution, Phases, Links, Progress, Reached, Behind, Clean, NoLink,
     GroupCount, Source, Sum, Excused, vars
<1> QED
  BY <1>1, <1>2 DEF IInv

LEMMA IInvInit ==
    Init => IInv
<1> SUFFICES ASSUME Init PROVE IInv
  OBVIOUS
<1>1. \A a \in Procs : GroupCount(a) \in 1..MaxGroups /\ MaxGroups \in Nat /\ 1 \in 1..MaxGroups
  BY GroupFacts, SummaryFacts DEF Init, GroupCount
<1>2. TypeOK
  <2>1. StoreType
    BY SummaryFacts DEF Init, StoreInit, StoreType, IndexState
  <2> QED
    BY <1>1, <2>1, IndexingAssumption
       DEF Init, TypeOK, IndexingInit, IndexingType, IndexPhase, WritingInit, WritingType, WritePhase,
           IndexingAssumption
<1>3. Compacting
  BY SummaryFacts DEF Init, StoreInit, Compacting
<1>4. ASSUME NEW a \in Procs PROVE Execution(a)
  <2>1. \A n \in 1..MaxGroups : Summary(a, n) \in Ids /\ Summary(a, n) \notin Entries
                                /\ Summary(a, n) /= NoId
    BY SummaryFacts
  <2>2. \A n \in 1..MaxGroups : Clean(a, n)
    BY <2>1, SummaryFacts DEF Init, StoreInit, Clean, NoLink
  <2>3. Phases(a) /\ Links(a)
    BY <1>1, <2>2 DEF Init, IndexingInit, WritingInit, Phases, Links, Clean, NoLink
  <2>4. Progress(a)
    BY <2>2 DEF Init, IndexingInit, WritingInit, Progress, Behind
  <2> QED
    BY <2>3, <2>4 DEF Execution
<1> QED
  BY <1>2, <1>3, <1>4 DEF IInv

LEMMA IInvStep ==
    IInv /\ [Next]_vars => IInv'
<1> SUFFICES ASSUME IInv, [Next]_vars PROVE IInv'
  OBVIOUS
<1>1. ASSUME NEW a \in Procs, Step(a) PROVE IInv'
  <2>1. TypeOK' /\ Frame(a) /\ Execution(a)'
    BY <1>1, StepSafe DEF Safe
  <2>2. Compacting'
    BY <1>1, <2>1, AppliedBy, CompactingKept
  <2> QED
    BY <2>1, <2>2, OthersKept DEF IInv
<1> QED
  BY <1>1, CrashSafe, Stuttering DEF Next

LEMMA IInvAlways == Spec => []IInv
BY IInvInit, IInvStep, PTL DEF Spec

\* Every variable of the saga stays in its range.
THEOREM ApplyTypeOK == Spec => []TypeOK
<1>1. IInv => TypeOK
  BY DEF IInv
<1> QED
  BY <1>1, IInvAlways, PTL

\* A rejected execution that reports no rollback failure left no row, status or
\* link of any of its groups behind, whatever calls threw and whoever else ran.
THEOREM RejectionLeavesNoTrace == Spec => []RejectedLeavesNoTrace
<1>1. IInv => RejectedLeavesNoTrace
  BY DEF IInv, Execution, Progress, Reached, Clean, NoLink, RejectedLeavesNoTrace
<1> QED
  BY <1>1, IInvAlways, PTL

LEMMA LinkOwned ==
    ASSUME IInv, NEW i \in rows, link[i] /= NoId
    PROVE  \E a \in Procs : \E n \in 1..MaxGroups :
              /\ i \in Entries /\ link[i] = Summary(a, n)
              /\ Summary(a, n) \in rows \/ Excused(a)
<1>1. i \in Entries /\ link[i] \in Summaries
  BY SummaryFacts DEF IInv, TypeOK, StoreType, Compacting
<1>2. PICK a \in Procs, n \in 1..MaxGroups : link[i] = Summary(a, n)
  BY <1>1, SummaryFacts
<1> QED
  BY <1>1, <1>2 DEF IInv, Execution, Links

\* No content is lost behind a summary that does not exist, as long as links
\* can be cleared: then a summary is deleted only when nothing links to it.
THEOREM NothingDangles ==
    ASSUME "clear" \notin FaultyCalls
    PROVE  Spec => []NoDanglingLink
<1>1. IInv => NoDanglingLink
  BY LinkOwned DEF NoDanglingLink, Excused
<1> QED
  BY <1>1, IInvAlways, PTL

\* Content lost behind a missing summary has been reported by the rollback.
LossReported ==
    \A i \in rows : link[i] /= NoId /\ link[i] \notin rows =>
        \E a \in Procs : leak[a] /\ \E n \in 1..MaxGroups : link[i] = Summary(a, n)

\* Whatever throws, a dangling link belongs to an execution that reports that
\* its rollback failed.
THEOREM LossIsReported == Spec => []LossReported
<1>1. IInv => LossReported
  BY LinkOwned DEF LossReported, Excused
<1> QED
  BY <1>1, IInvAlways, PTL

-----------------------------------------------------------------------------
(* The saga implements the ledger.                                         *)

\* The sources of a preview that was applied, and of nothing else, are absorbed.
LEMMA AbsorbedKept ==
    ASSUME IInv, NEW a \in Procs, Frame(a), pc[a] /= "success", pc'[a] /= "success"
    PROVE  Absorbed' = Absorbed
<1> SUFFICES ASSUME NEW s \in Entries PROVE Absorbed'[s] = Absorbed[s]
  BY DEF Absorbed
<1>1. s \in Ids /\ (link'[s] = link[s] \/ (link[s] = NoId /\ link'[s] = Sum(a))
                                       \/ (link[s] = Sum(a) /\ link'[s] = NoId))
  BY SummaryFacts DEF Frame
<1>2. \A b \in Procs : pc'[b] = "success" <=> pc[b] = "success"
  BY DEF Frame
<1>3. \A b \in Procs : pc[b] = "success" =>
        \A n \in 1..MaxGroups : Summary(b, n) /= Sum(a) /\ Summary(b, n) /= NoId
  BY OtherSummaries
<1> QED
  BY <1>1, <1>2, <1>3 DEF Absorbed

\* All sources of an execution that is about to commit are linked to its
\* summaries, each to that of the only group it is in.
LEMMA AllLinked ==
    ASSUME IInv, NEW a \in Procs, pc[a] \in {"commit", "success"}
    PROVE  \A n \in 1..GroupCount(a) : \A s \in Groups[pv[a]][n] : link[s] = Summary(a, n)
<1>1. Behind(a) = GroupCount(a)
  BY DEF Behind, IInv, Execution, Phases
<1> QED
  BY <1>1 DEF IInv, Execution, Progress

LEMMA CommitCompacts ==
    ASSUME IInv, NEW a \in Procs, pc[a] = "commit", pc'[a] = "success", Frame(a),
           applied' = applied \cup {pv[a]}, UNCHANGED <<store, pv>>
    PROVE  Ledger!Compact(a, pv[a])
<1> DEFINE G == Groups[pv[a]]
<1>1. /\ pv[a] \in Previews /\ DOMAIN G = 1..GroupCount(a) /\ GroupCount(a) \in 1..MaxGroups
      /\ \A n \in 1..GroupCount(a) : G[n] \subseteq Entries /\ G[n] /= {} /\ n \in 1..MaxGroups
      /\ MaxGroups \in Nat
  BY CurrentGroup, GroupFacts DEF GroupCount
<1>2. \A n \in 1..GroupCount(a) : \A s \in G[n] : link[s] = Summary(a, n)
  BY AllLinked
<1>3. \A m, n \in 1..GroupCount(a) : m /= n => G[m] \cap G[n] = {}
  BY <1>1, ApplyAssumption DEF ApplyAssumption
<1>4. \A s \in Entries : (\E n \in DOMAIN G : s \in G[n]) =>
         Absorbed[s] = NoId /\ Absorbed'[s] = <<a, CHOOSE n \in DOMAIN G : s \in G[n]>>
  <2> SUFFICES ASSUME NEW s \in Entries, NEW n \in DOMAIN G, s \in G[n]
               PROVE  Absorbed[s] = NoId /\ Absorbed'[s] = <<a, CHOOSE m \in DOMAIN G : s \in G[m]>>
    OBVIOUS
  <2>1. link[s] = Summary(a, n) /\ link'[s] = Summary(a, n) /\ n \in 1..MaxGroups
    BY <1>1, <1>2 DEF store
  <2>2. n = CHOOSE m \in DOMAIN G : s \in G[m]
    BY <1>1, <1>3
  <2>3. \A b \in Procs : pc[b] = "success" => \A m \in 1..MaxGroups : link[s] /= Summary(b, m)
    BY <2>1, SummaryFacts
  <2> QED
    BY <2>1, <2>2, <2>3 DEF Absorbed, Summary
<1>5. \A s \in Entries : ~(\E n \in DOMAIN G : s \in G[n]) => Absorbed'[s] = Absorbed[s]
  <2> SUFFICES ASSUME NEW s \in Entries, \A n \in DOMAIN G : s \notin G[n]
               PROVE  Absorbed'[s] = Absorbed[s]
    OBVIOUS
  <2>1. \A n \in 1..MaxGroups : link[s] /= Summary(a, n)
    BY <1>1 DEF IInv, Execution, Links
  <2>2. \A b \in Procs \ {a} : pc'[b] = pc[b]
    BY DEF Frame
  <2> QED
    BY <2>1, <2>2 DEF Absorbed, store
<1>6. pv[a] \notin applied
  <2> SUFFICES ASSUME pv[a] \in applied PROVE FALSE
    OBVIOUS
  <2>1. PICK b \in Procs : pc[b] = "success" /\ pv[b] = pv[a]
    BY DEF IInv, Compacting
  <2>2. 1 \in 1..GroupCount(a) /\ 1 \in 1..MaxGroups /\ GroupCount(b) = GroupCount(a)
    BY <1>1, <2>1 DEF GroupCount
  <2>3. PICK s \in G[1] : TRUE
    BY <1>1, <2>2
  <2>4. link[s] = Summary(a, 1) /\ link[s] = Summary(b, 1)
    BY <1>2, <2>1, <2>2, AllLinked
  <2> QED
    BY <2>1, <2>2, <2>4, SummaryFacts
<1>7. \A n \in DOMAIN G : \A s \in G[n] : Absorbed[s] = NoId
  BY <1>1, <1>4
<1>8. Absorbed' = [s \in Entries |-> IF \E n \in DOMAIN G : s \in G[n]
                                   THEN <<a, CHOOSE n \in DOMAIN G : s \in G[n]>>
                                   ELSE Absorbed[s]]
  <2>1. Absorbed' = [s \in Entries |-> Absorbed'[s]]
    BY DEF Absorbed
  <2> QED
    BY <1>4, <1>5, <2>1
<1> QED
  BY <1>6, <1>7, <1>8 DEF Ledger!Compact

LEMMA LedgerInit ==
    Init => Ledger!Init
<1> SUFFICES ASSUME Init PROVE Ledger!Init
  OBVIOUS
<1>1. Absorbed = [s \in Entries |-> NoId]
  BY DEF Init, Absorbed
<1> QED
  BY <1>1 DEF Init, Ledger!Init

LEMMA LedgerStep ==
    IInv /\ [Next]_vars => [Ledger!Next]_<<Absorbed, applied>>
<1> SUFFICES ASSUME IInv, [Next]_vars PROVE [Ledger!Next]_<<Absorbed, applied>>
  OBVIOUS
<1>1. ASSUME NEW a \in Procs, Step(a) PROVE [Ledger!Next]_<<Absorbed, applied>>
  <2>1. Frame(a) /\ pc[a] /= "success" /\ pv[a] \in Previews
    BY <1>1, StepSafe, AppliedBy, CurrentGroup DEF Safe
  <2>2. CASE applied' = applied /\ pc'[a] /= "success"
    BY <2>1, <2>2, AbsorbedKept
  <2>3. CASE applied' = applied \cup {pv[a]} /\ pc'[a] = "success" /\ pc[a] = "commit"
             /\ UNCHANGED <<store, pv>>
    <3>1. Ledger!Compact(a, pv[a])
      BY <2>1, <2>3, CommitCompacts
    <3> QED
      BY <2>1, <3>1 DEF Ledger!Next
  <2> QED
    BY <1>1, <2>2, <2>3, AppliedBy
<1>2. ASSUME NEW h \in Hosts, Crash(h) PROVE UNCHANGED <<Absorbed, applied>>
  <2>1. UNCHANGED <<link, applied>> /\ \A a \in Procs : pc'[a] = "success" <=> pc[a] = "success"
    BY <1>2 DEF Crash, writing, store, Ended, IInv, TypeOK
  <2> QED
    BY <2>1 DEF Absorbed
<1>3. CASE UNCHANGED vars
  BY <1>3 DEF vars, Absorbed
<1> QED
  BY <1>1, <1>2, <1>3 DEF Next

\* For any executions, hosts, faults and crashes the saga looks to readers of
\* applied previews like one step that compacts all groups, at most once per
\* preview, and that nothing undoes.
THEOREM CompactionIsAtomic == Spec => AtomicCompaction
<1>1. Spec => Ledger!Init /\ [][Ledger!Next]_<<Absorbed, applied>>
  BY LedgerInit, LedgerStep, IInvAlways, PTL DEF Spec
<1> QED
  BY <1>1 DEF AtomicCompaction, Ledger!Spec

-----------------------------------------------------------------------------
(* What was applied stays whole, when no two ids share a rowid.            *)

LEMMA ShowsOthers ==
    ASSUME IInv, RowIdsInjective, NEW a \in Procs, Frame(a), NEW b \in Procs \ {a}, Shows(b)
    PROVE  Shows(b)'
<1>1. \A n \in 1..MaxGroups :
         /\ status'[Summary(b, n)] = status[Summary(b, n)]
         /\ vec'[RowId[Summary(b, n)]] = vec[RowId[Summary(b, n)]]
         /\ Active(Summary(b, n)) => Active(Summary(b, n))'
  <2> SUFFICES ASSUME NEW n \in 1..MaxGroups
               PROVE  /\ status'[Summary(b, n)] = status[Summary(b, n)]
                      /\ vec'[RowId[Summary(b, n)]] = vec[RowId[Summary(b, n)]]
                      /\ Active(Summary(b, n)) => Active(Summary(b, n))'
    OBVIOUS
  <2>1. /\ Summary(b, n) /= Sum(a) /\ Summary(b, n) \in Ids /\ Summary(b, n) \in Summaries
        /\ Summary(b, n) /= NoId /\ Summary(b, n) \notin Entries
    BY OtherSummaries
  <2> QED
    BY <2>1 DEF Frame, Active
<1>2. pc'[b] = pc[b] /\ grp'[b] = grp[b] /\ wr'[b] = wr[b] /\ ix'[b] = ix[b]
  BY DEF Frame, Stays
<1>3. Behind(b)' = Behind(b) /\ Sum(b)' = Sum(b)
  BY <1>2 DEF Behind, Sum
<1>4. Sum(b) = Summary(b, grp[b]) /\ grp[b] \in 1..MaxGroups
  BY CurrentGroup DEF Sum
<1>5. status'[Sum(b)] = status[Sum(b)] /\ vec'[RowId[Sum(b)]] = vec[RowId[Sum(b)]]
  BY <1>1, <1>4
<1>6. \A n \in 1..Behind(b) : n \in 1..MaxGroups
  BY BehindFacts
<1> QED
  BY <1>1, <1>2, <1>3, <1>5, <1>6 DEF Shows, Searchable

\* Groups behind an execution show their summaries as long as nothing but the
\* current summary and its sources is touched.
LEMMA ShownKept ==
    ASSUME IInv, RowIdsInjective, NEW a \in Procs, NEW n \in 1..MaxGroups,
           Active(Summary(a, n)), Searchable(Summary(a, n)), rows' = rows,
           \/ UNCHANGED <<status, vec>> \/ (\E s \in Entries : Touches(s)), Compacting'
    PROVE  Active(Summary(a, n))' /\ Searchable(Summary(a, n))'
<1>1. /\ Summary(a, n) \in Ids /\ Summary(a, n) \in Summaries /\ Summary(a, n) \notin Entries
  BY SummaryFacts
<1>2. Active(Summary(a, n))'
  BY <1>1 DEF Active, Compacting
<1>3. CASE UNCHANGED <<status, vec>>
  BY <1>2, <1>3 DEF Searchable
<1>4. ASSUME NEW s \in Entries, Touches(s) PROVE Searchable(Summary(a, n))'
  <2>1. s \in Ids /\ s /= Summary(a, n) /\ RowId[Summary(a, n)] \in RowIds
    BY <1>1, SummaryFacts
  <2>2. RowId[Summary(a, n)] /= RowId[s]
    BY <1>1, <2>1 DEF RowIdsInjective
  <2> QED
    BY <1>1, <1>4, <2>1, <2>2 DEF Touches, Searchable
<1> QED
  BY <1>2, <1>3, <1>4

LEMMA ShowsWriting ==
    ASSUME IInv, RowIdsInjective, NEW a \in Procs, WriteSummary(a), Shows(a), Safe(a)
    PROVE  Shows(a)'
<1>1. /\ Sum(a) \in Ids /\ grp[a] \in 1..MaxGroups /\ MaxGroups \in Nat /\ pc[a] = "write"
      /\ RowId[Sum(a)] \in RowIds
  BY CurrentGroup, SummaryFacts DEF WriteSummary
<1>2. UNCHANGED <<pc, grp>>
  BY DEF WriteSummary, control
<1>3. Behind(a) = grp[a] - 1 /\ Behind(a)' = grp[a] - 1 /\ Sum(a)' = Sum(a)
  BY <1>1, <1>2 DEF Behind, Sum
<1>4. Touches(Sum(a))
  BY <1>1, WriteStepTouches DEF IInv, TypeOK, WriteSummary
<1>5. ASSUME NEW n \in 1..(grp[a] - 1) PROVE Active(Summary(a, n))' /\ Searchable(Summary(a, n))'
  <2>1. n \in 1..MaxGroups /\ n /= grp[a]
    BY <1>1
  <2>2. /\ Summary(a, n) \in Ids /\ Summary(a, n) \in Summaries /\ Summary(a, n) /= Sum(a)
    BY <1>1, <2>1, SummaryFacts DEF Sum
  <2> QED
    BY <1>3, <1>4, <2>2, SummaryTouched DEF Shows, Active, Searchable
<1>6. /\ wr'[a] = "index" =>
           /\ ix'[a] = "check" => status'[Sum(a)] = "absent"
           /\ ix'[a] = "status" => vec'[RowId[Sum(a)]] = Sum(a)
           /\ ix'[a] = "ok" => status'[Sum(a)] = "indexed" /\ vec'[RowId[Sum(a)]] = Sum(a)
      /\ wr'[a] = "stored" => status'[Sum(a)] = "indexed" /\ vec'[RowId[Sum(a)]] = Sum(a)
  <2>1. /\ wr \in [Procs -> WritePhase] /\ ix \in [Procs -> IndexPhase]
        /\ status \in [Ids -> IndexState] /\ vec \in [RowIds -> Ids \cup {NoId}]
    BY DEF IInv, TypeOK, WritingType, IndexingType, StoreType
  <2>2. CASE WriteStoreRow(a, Sum(a))
    <3>1. wr[a] = "store"
      BY <2>2 DEF WriteStoreRow
    <3>2. Reached(a) = grp[a] - 1 /\ ~leak[a]
      BY <1>1, <3>1 DEF Reached, IInv, Execution, Phases
    <3>3. status[Sum(a)] = "absent"
      BY <1>1, <3>2 DEF IInv, Execution, Progress, Clean, Sum
    <3> QED
      BY <1>1, <2>1, <2>2, <3>3 DEF WriteStoreRow, InsertRow, IndexCalls, Throws
  <2>3. CASE WriteIndexing(a, Sum(a))
    <3>1. /\ wr[a] = "index" /\ wr' = wr
          /\ ix[a] = "check" => status[Sum(a)] = "absent"
          /\ ix[a] = "status" => vec[RowId[Sum(a)]] = Sum(a)
      BY <1>1, <2>3 DEF WriteIndexing, Shows
    <3>2. CASE IndexCheck(a, Sum(a))
      BY <1>1, <2>1, <3>1, <3>2 DEF IndexCheck
    <3>3. CASE IndexEmbed(a)
      BY <1>1, <2>1, <3>1, <3>3 DEF IndexEmbed
    <3>4. CASE IndexPutVector(a, Sum(a))
      BY <1>1, <2>1, <3>1, <3>4 DEF IndexPutVector, PutVector
    <3>5. CASE IndexPutStatus(a, Sum(a))
      BY <1>1, <2>1, <3>1, <3>5 DEF IndexPutStatus, PutStatus
    <3>6. CASE IndexRecordFailure(a, Sum(a))
      BY <1>1, <2>1, <3>1, <3>6 DEF IndexRecordFailure
    <3> QED
      BY <2>3, <3>2, <3>3, <3>4, <3>5, <3>6 DEF WriteIndexing, IndexStep
  <2>4. CASE WriteIndexed(a)
    BY <1>1, <2>1, <2>4 DEF WriteIndexed, IndexReturns, store, Shows, Searchable
  <2>5. CASE WriteUndoRow(a, Sum(a)) \/ WriteUndoVector(a, Sum(a)) \/ WriteUndoStatus(a, Sum(a))
    BY <2>1, <2>5 DEF WriteUndoRow, WriteUndoVector, WriteUndoStatus
  <2> QED
    BY <2>2, <2>3, <2>4, <2>5 DEF WriteStep, WriteSummary
<1> QED
  BY <1>1, <1>2, <1>3, <1>5, <1>6 DEF Shows, Searchable

LEMMA ShowsOwn ==
    ASSUME IInv, RowIdsInjective, NEW a \in Procs, Step(a), Shows(a), Compacting'
    PROVE  Shows(a)'
<1>1. Safe(a) /\ grp[a] \in 1..MaxGroups /\ MaxGroups \in Nat /\ Sum(a) \in Summaries
  BY StepSafe, CurrentGroup
<1>2. CASE WriteSummary(a)
  BY <1>1, <1>2, ShowsWriting
<1>3. CASE pc'[a] \notin {"write", "mark", "drop", "dropStatus", "commit", "success"}
  BY <1>3 DEF Shows, Behind
<1>4. CASE /\ pc'[a] \in {"write", "mark", "drop", "dropStatus", "commit", "success"}
           /\ ~WriteSummary(a)
  <2>1. \A n \in 1..Behind(a) : n \in 1..MaxGroups /\ Active(Summary(a, n)) /\ Searchable(Summary(a, n))
    BY BehindFacts DEF Shows
  <2>2. ReadSources(a) \/ SummaryWritten(a) \/ Mark(a) \/ DropSourceVector(a) \/ DropSourceStatus(a)
        \/ GroupDone(a) \/ Commit(a)
    BY <1>4 DEF Step, GoForward, GoBack, Begin, ClearLinks, DeleteSummary, DropSummaryVector,
       DropSummaryStatus, CleanedUp, RestoreVector, RestoringVector, RestoredVector, GroupUndone,
       Undo, Goes, control, IInv, TypeOK
  <2>3. CASE ReadSources(a) \/ SummaryWritten(a) \/ GroupDone(a) \/ Commit(a)
    <3>1. UNCHANGED store
      BY <2>3 DEF ReadSources, SummaryWritten, GroupDone, Commit, BeginGroup, Undo, Throws
    <3>2. \/ pc'[a] = "write" /\ wr'[a] = "store" /\ grp'[a] - 1 \in {0, Behind(a)}
          \/ pc'[a] = "mark" /\ grp' = grp /\ Behind(a) = grp[a] - 1 /\ wr[a] = "stored" /\ pc[a] = "write"
          \/ pc'[a] \in {"commit", "success"} /\ grp' = grp /\ Behind(a) = grp[a]
      BY <1>1, <1>4, <2>3 DEF ReadSources, SummaryWritten, GroupDone, Commit, BeginGroup, WriteCalls,
         Undo, Goes, Behind, IInv, TypeOK, WritingType
    <3>3. Behind(a)' \in {0, Behind(a)}
      BY <3>2 DEF Behind
    <3>4. \A n \in 1..Behind(a)' : Active(Summary(a, n))' /\ Searchable(Summary(a, n))'
      BY <2>1, <3>1, <3>3 DEF Active, Searchable, store
    <3> QED
      BY <3>1, <3>2, <3>4 DEF Shows, Searchable, store, Sum
  <2>4. CASE DropSourceVector(a) \/ DropSourceStatus(a)
    <3>1. pc[a] \in {"drop", "dropStatus"} /\ pc'[a] \in {"drop", "dropStatus"} /\ UNCHANGED <<rows, grp>>
      BY <2>4 DEF DropSourceVector, DropSourceStatus, DropVector, DropStatus, Throws, Goes, store, IInv,
         TypeOK
    <3>2. \E s \in Entries : Touches(s)
      BY <2>4, DropSourceTouches
    <3>3. Behind(a)' = Behind(a)
      BY <3>1 DEF Behind
    <3>4. \A n \in 1..Behind(a) : Active(Summary(a, n))' /\ Searchable(Summary(a, n))'
      BY <2>1, <3>1, <3>2, ShownKept
    <3> QED
      BY <3>1, <3>3, <3>4 DEF Shows
  <2>5. CASE Mark(a)
    <3>1. /\ pc[a] = "mark" /\ pc'[a] = "drop" /\ UNCHANGED <<rows, status, vec, grp>>
      BY <1>4, <2>5 DEF Mark, MarkCompacted, Throws, Goes, store, IInv, TypeOK
    <3>2. Behind(a) = grp[a] - 1 /\ Behind(a)' = grp[a]
      BY <3>1 DEF Behind
    <3>3. Active(Sum(a)) /\ Searchable(Sum(a))
      BY <1>1, <3>1 DEF Shows, Active, IInv, Compacting, Execution, Progress
    <3>4. \A n \in 1..grp[a] : n \in 1..MaxGroups /\ Active(Summary(a, n)) /\ Searchable(Summary(a, n))
      BY <1>1, <2>1, <3>2, <3>3 DEF Sum
    <3>5. \A n \in 1..grp[a] : Active(Summary(a, n))' /\ Searchable(Summary(a, n))'
      BY <3>1, <3>4, ShownKept
    <3> QED
      BY <3>1, <3>2, <3>5 DEF Shows
  <2> QED
    BY <2>2, <2>3, <2>4, <2>5
<1> QED
  BY <1>2, <1>3, <1>4

LEMMA ShowsCrash ==
    ASSUME IInv, NEW h \in Hosts, Crash(h), NEW a \in Procs, Shows(a)
    PROVE  Shows(a)'
<1>1. UNCHANGED <<rows, link, status, vec, ix, wr, grp>> /\ (pc'[a] = pc[a] \/ pc'[a] = "crashed")
  BY DEF Crash, writing, store, IInv, TypeOK
<1> QED
  BY <1>1 DEF Shows, Behind, Sum, Active, Searchable

LEMMA ShowsAlways ==
    ASSUME RowIdsInjective
    PROVE  Spec => [](IInv /\ \A a \in Procs : Shows(a))
<1> DEFINE Inv == IInv /\ \A a \in Procs : Shows(a)
<1>1. Init => Inv
  BY IInvInit DEF Init, Shows, Behind
<1>2. Inv /\ [Next]_vars => Inv'
  <2> SUFFICES ASSUME Inv, [Next]_vars, NEW b \in Procs PROVE Shows(b)'
    BY IInvStep
  <2>1. IInv'
    BY IInvStep
  <2>2. ASSUME NEW a \in Procs, Step(a) PROVE Shows(b)'
    <3>1. CASE b = a
      BY <2>1, <2>2, <3>1, ShowsOwn DEF IInv
    <3>2. CASE b /= a
      BY <2>2, <3>2, StepSafe, ShowsOthers DEF Safe
    <3> QED
      BY <3>1, <3>2
  <2>3. CASE UNCHANGED vars
    BY <2>3 DEF vars, Shows, Behind, Sum, Active, Searchable
  <2> QED
    BY <2>2, <2>3, ShowsCrash DEF Next
<1> QED
  BY <1>1, <1>2, PTL DEF Spec

\* An apply that reported success stays whole whatever other executions do, roll
\* back or lose, and whichever calls throw, when no two ids share a rowid.
THEOREM CommittedStaysIntact ==
    ASSUME RowIdsInjective
    PROVE  Spec => []CommittedIntact
<1> DEFINE Inv == IInv /\ \A a \in Procs : Shows(a)
<1>1. Inv => CommittedIntact
  <2> SUFFICES ASSUME Inv, NEW a \in Procs, pc[a] = "success", NEW n \in 1..GroupCount(a)
               PROVE  /\ Active(Summary(a, n)) /\ Searchable(Summary(a, n))
                      /\ \A s \in Groups[pv[a]][n] : s \in rows /\ link[s] = Summary(a, n)
    BY DEF CommittedIntact
  <2>1. Behind(a) = GroupCount(a)
    BY DEF Behind, IInv, Execution, Phases
  <2>2. Active(Summary(a, n)) /\ Searchable(Summary(a, n)) /\ Groups[pv[a]][n] \subseteq Entries
    BY <2>1, BehindFacts DEF Shows
  <2> QED
    BY <2>2, AllLinked DEF IInv, Compacting
<1> QED
  BY <1>1, ShowsAlways, PTL

-----------------------------------------------------------------------------
(* No entry is lost to semantic search.                                    *)

\* Executions over one source run on one host.
SourcesOnOneHost ==
    \A a, b \in Procs : Sources(pv[a]) \cap Sources(pv[b]) /= {} => Host[a] = Host[b]

Lost == \E a \in Procs : leak[a] \/ pc[a] \in {"thrown", "crashed"}

\* s is compacted by a, and will not be set free without its vector.
Holds(a, s) == \E n \in 1..MaxGroups :
    /\ link[s] = Summary(a, n)
    /\ \/ n < grp[a]
       \/ pc[a] \in {"drop", "dropStatus", "commit", "success"}
       \/ pc[a] = "clear" /\ restore[a]

\* Whether s can be found is up to a.
Owes(a, s) ==
    \/ Holds(a, s)
    \/ /\ pc[a] \in {"deleteSummary", "summaryVector", "summaryStatus"}
       /\ restore[a] /\ s \in Source(a)
    \/ /\ pc[a] \in {"restore", "restoring"} /\ s \in todo[a]
       /\ ~(pc[a] = "restoring" /\ cur[a] = s /\ ix[a] = "ok")

\* A status row tells the truth, but for a deletion between its two halves.
Truthful(s) == status[s] = "indexed" =>
    \/ vec[RowId[s]] = s
    \/ \E a \in Procs : pc[a] = "dropStatus" /\ cur[a] = s

\* An index call that is about to write the status row has written the vector.
Written(a) == pc[a] = "restoring" /\ ix[a] = "status" => vec[RowId[cur[a]]] = cur[a]

Findable ==
    /\ \A s \in Entries : Truthful(s) /\ (Searchable(s) \/ \E a \in Procs : Owes(a, s))
    /\ \A a \in Procs : Written(a)

FindInv == SourcesOnOneHost /\ (Lost \/ Findable)

\* A step of a that leaves the vectors of entries alone, and owes what it owed.
Quiet(a) ==
    /\ \A s \in Entries : status'[s] = status[s] /\ vec'[RowId[s]] = vec[RowId[s]]
    /\ pc[a] /= "dropStatus"
    /\ pc'[a] = "restoring" => ix'[a] /= "status"
    /\ \A s \in Entries : Owes(a, s) => Owes(a, s)'

-----------------------------------------------------------------------------
LEMMA OwesOthers ==
    ASSUME IInv, NEW a \in Procs, Frame(a), NEW b \in Procs \ {a}, NEW s \in Entries
    PROVE  Owes(b, s) => Owes(b, s)'
<1>1. s \in Ids
  BY SummaryFacts
<1>2. \A n \in 1..MaxGroups : link[s] = Summary(b, n) => link'[s] = Summary(b, n)
  BY <1>1, OtherSummaries DEF Frame
<1>3. /\ pc'[b] = pc[b] /\ grp'[b] = grp[b] /\ todo'[b] = todo[b] /\ cur'[b] = cur[b]
      /\ restore'[b] = restore[b] /\ ix'[b] = ix[b] /\ Source(b)' = Source(b)
  BY DEF Frame, Stays, Source
<1> QED
  BY <1>2, <1>3 DEF Owes, Holds

\* The source that a loop of b is working on is an entry of its preview.
LEMMA CurrentSource ==
    ASSUME IInv, NEW b \in Procs
    PROVE  /\ \A s \in todo[b] : pc[b] \in {"drop", "dropStatus", "restore", "restoring"} =>
                s \in Entries /\ s \in Source(b) /\ s \in Sources(pv[b])
           /\ pc[b] \in {"dropStatus", "restoring"} => cur[b] \in todo[b]
<1>1. Phases(b)
  BY DEF IInv, Execution
<1>2. Source(b) \subseteq Entries /\ grp[b] \in 1..GroupCount(b) /\ pv[b] \in Previews
  BY <1>1, CurrentGroup DEF Phases
<1>3. Source(b) \subseteq Sources(pv[b])
  BY <1>2, GroupFacts DEF Source, Sources, GroupCount
<1> QED
  BY <1>1, <1>2, <1>3 DEF Phases

\* While a works on a source, no other execution is between two statements on it.
LEMMA TurnsOnOneSource ==
    ASSUME IInv, SourcesOnOneHost, NEW a \in Procs, Runs(a), NEW b \in Procs \ {a},
           pc[a] \in {"drop", "dropStatus", "restore", "restoring"},
           cur[b] \in todo[a]
    PROVE  /\ pc[b] /= "dropStatus"
           /\ ~(pc[b] = "restoring" /\ ix[b] = "status")
<1>1. SUFFICES ASSUME pc[b] = "dropStatus" \/ (pc[b] = "restoring" /\ ix[b] = "status")
               PROVE  FALSE
  OBVIOUS
<1>2. cur[b] \in Sources(pv[a]) /\ cur[b] \in Sources(pv[b])
  BY <1>1, CurrentSource
<1>3. Suspended(b)
  BY <1>2 DEF SourcesOnOneHost, Runs
<1>4. wr[b] = "idle" /\ (pc[b] = "dropStatus" => ix[b] = "idle")
  BY <1>1 DEF IInv, Execution, Phases
<1> QED
  BY <1>1, <1>3, <1>4 DEF Suspended, Ended

LEMMA QuietKeeps ==
    ASSUME IInv, NEW a \in Procs, Frame(a), Quiet(a), Findable
    PROVE  Findable'
<1>1. ASSUME NEW s \in Entries PROVE Truthful(s)'
  BY <1>1 DEF Findable, Truthful, Quiet, Frame
<1>2. ASSUME NEW s \in Entries PROVE Searchable(s)' \/ \E b \in Procs : Owes(b, s)'
  BY <1>2, OwesOthers DEF Findable, Searchable, Quiet
<1>3. ASSUME NEW b \in Procs PROVE Written(b)'
  <2>1. CASE b = a
    BY <2>1 DEF Quiet, Written
  <2>2. CASE b /= a
    BY <2>2, CurrentSource DEF Findable, Written, Quiet, Frame, Stays
  <2> QED
    BY <2>1, <2>2
<1> QED
  BY <1>1, <1>2, <1>3 DEF Findable

\* Statements about the current summary leave the vectors of entries alone.
LEMMA EntriesUntouched ==
    ASSUME IInv, RowIdsInjective, NEW a \in Procs, Touches(Sum(a)) \/ UNCHANGED <<status, vec>>
    PROVE  \A s \in Entries : status'[s] = status[s] /\ vec'[RowId[s]] = vec[RowId[s]]
<1>1. /\ Sum(a) \in Ids /\ Sum(a) \notin Entries
      /\ Entries \subseteq Ids /\ \A s \in Entries : RowId[s] \in RowIds
  BY CurrentGroup, SummaryFacts
<1> QED
  BY <1>1 DEF Touches, RowIdsInjective

\* Statements about one source leave the vectors of other entries alone.
LEMMA OtherEntries ==
    ASSUME RowIdsInjective, NEW x \in Entries, Touches(x), NEW s \in Entries, s /= x
    PROVE  status'[s] = status[s] /\ vec'[RowId[s]] = vec[RowId[s]]
BY SummaryFacts DEF Touches, RowIdsInjective

\* Nothing is linked to a summary of a group that was not reached.
LEMMA HeldReached ==
    ASSUME IInv, NEW a \in Procs, ~leak[a], NEW s \in Entries, NEW n \in 1..MaxGroups,
           link[s] = Summary(a, n)
    PROVE  n <= Reached(a) /\ s \in Groups[pv[a]][n]
<1>1. grp[a] \in 1..MaxGroups /\ MaxGroups \in Nat
  BY CurrentGroup
<1>2. Reached(a) \in Nat
  BY <1>1 DEF Reached
<1> QED
  BY <1>1, <1>2 DEF IInv, Execution, Progress, Links, Clean, NoLink

\* A rollback that moves on to group n holds the groups up to n.
LEMMA OwesUndone ==
    ASSUME IInv, NEW a \in Procs, NEW n \in 0..GroupCount(a), Undo(a, n), NEW s \in Entries,
           NEW m \in 1..MaxGroups, m <= n, link'[s] = Summary(a, m)
    PROVE  Owes(a, s)'
<1>1. n \in 1..MaxGroups /\ m \in Nat /\ n \in Nat
  BY CurrentGroup
<1>2. pc'[a] = "clear" /\ restore'[a]
  BY <1>1 DEF Undo, Goes, IInv, TypeOK
<1> QED
  BY <1>2 DEF Owes, Holds

\* The steps of a that only move on.
LEMMA MovesQuietly ==
    ASSUME IInv, RowIdsInjective, NEW a \in Procs, ~leak[a], pc'[a] /= "thrown",
           \/ Begin(a) \/ ReadSources(a) \/ WriteSummary(a) \/ SummaryWritten(a) \/ Mark(a)
           \/ GroupDone(a) \/ Commit(a)
    PROVE  Quiet(a)
<1>1. /\ grp[a] \in 1..MaxGroups /\ MaxGroups \in Nat /\ grp[a] <= GroupCount(a)
      /\ GroupCount(a) \in 1..MaxGroups /\ Entries \subseteq Ids
  BY CurrentGroup, SummaryFacts
<1>2. Phases(a)
  BY DEF IInv, Execution
<1>3. \A s \in Entries : status'[s] = status[s] /\ vec'[RowId[s]] = vec[RowId[s]]
  <2>1. CASE WriteSummary(a)
    BY <2>1, <1>1, CurrentGroup, WriteStepTouches, EntriesUntouched DEF WriteSummary, IInv, TypeOK
  <2>2. CASE ~WriteSummary(a)
    BY <2>2, EntriesUntouched DEF Begin, ReadSources, SummaryWritten, Mark, MarkCompacted, GroupDone,
       Commit, BeginGroup, Undo, Throws, writing, store
  <2> QED
    BY <2>1, <2>2
<1>4. /\ pc[a] \in {"idle", "read", "write", "mark", "drop", "commit"}
      /\ pc'[a] /= "restoring"
  BY DEF Begin, ReadSources, WriteSummary, SummaryWritten, Mark, GroupDone, Commit, BeginGroup,
     Undo, Goes, control, IInv, TypeOK
<1>5. ASSUME NEW s \in Entries, Owes(a, s) PROVE Owes(a, s)'
  <2>1. PICK n \in 1..MaxGroups : /\ link[s] = Summary(a, n)
                                  /\ n < grp[a] \/ pc[a] \in {"drop", "commit"}
    BY <1>4, <1>5 DEF Owes, Holds
  <2>2. n <= Reached(a) /\ n \in Nat
    BY <1>1, <1>2, <2>1, HeldReached
  <2>3. link'[s] = link[s]
    <3>1. CASE WriteSummary(a)
      <4>1. Touches(Sum(a))
        BY <3>1, CurrentGroup, WriteStepTouches DEF WriteSummary, IInv, TypeOK
      <4> QED
        BY <4>1, SummaryTouched
    <3>2. CASE Mark(a)
      BY <3>2, <2>1, <1>1, SummaryFacts DEF Mark, MarkCompacted, Active, Throws, store
    <3>3. CASE ~WriteSummary(a) /\ ~Mark(a)
      BY <3>3 DEF Begin, ReadSources, SummaryWritten, GroupDone, Commit, BeginGroup, Undo, Throws,
         writing, store
    <3> QED
      BY <3>1, <3>2, <3>3
  <2>4. CASE Begin(a) \/ WriteSummary(a) \/ Mark(a)
    <3>1. grp' = grp /\ pc[a] \notin {"drop", "commit"}
      BY <2>4 DEF Begin, WriteSummary, Mark, control
    <3> QED
      BY <2>1, <2>3, <3>1 DEF Owes, Holds
  <2>5. CASE ReadSources(a)
    BY <2>2, <2>5, <2>1 DEF ReadSources, Reached
  <2>6. CASE SummaryWritten(a)
    <3>1. n < grp[a]
      BY <2>1, <2>6 DEF SummaryWritten
    <3>2. CASE grp' = grp
      BY <2>1, <2>3, <3>1, <3>2 DEF Owes, Holds
    <3>3. CASE Undo(a, grp[a] - 1)
      <4>1. n <= grp[a] - 1 /\ grp[a] - 1 \in 0..GroupCount(a)
        BY <1>1, <2>2, <3>1
      <4> QED
        BY <2>1, <2>3, <3>3, <4>1, OwesUndone
    <3> QED
      BY <2>6, <3>2, <3>3 DEF SummaryWritten
  <2>7. CASE GroupDone(a)
    <3>1. n <= grp[a] /\ pc[a] = "drop"
      BY <2>2, <2>7 DEF GroupDone, Reached
    <3>2. CASE grp' = grp
      <4>1. pc'[a] = "commit" \/ (pc'[a] = "clear" /\ restore'[a])
        BY <2>7, <3>2, <1>1 DEF GroupDone, BeginGroup, Goes, IInv, TypeOK
      <4> QED
        BY <2>1, <2>3, <4>1 DEF Owes, Holds
    <3>3. CASE BeginGroup(a, grp[a] + 1)
      <4>1. grp'[a] = grp[a] + 1
        BY <3>3 DEF BeginGroup, IInv, TypeOK
      <4> QED
        BY <1>1, <2>1, <2>2, <2>3, <3>1, <4>1 DEF Owes, Holds
    <3> QED
      BY <2>7, <3>2, <3>3 DEF GroupDone
  <2>8. CASE Commit(a)
    <3>1. n <= GroupCount(a)
      BY <1>1, <1>2, <2>2, <2>8 DEF Commit, Reached, Phases
    <3>2. CASE Goes(a, "success")
      BY <2>1, <2>3, <3>2 DEF Goes, Owes, Holds, IInv, TypeOK
    <3>3. CASE Undo(a, GroupCount(a))
      <4>1. GroupCount(a) \in 0..GroupCount(a)
        BY <1>1
      <4> QED
        BY <2>1, <2>3, <3>1, <3>3, <4>1, OwesUndone
    <3> QED
      BY <2>8, <3>2, <3>3 DEF Commit
  <2> QED
    BY <2>4, <2>5, <2>6, <2>7, <2>8
<1> QED
  BY <1>3, <1>4, <1>5 DEF Quiet

\* A group that was cleaned up is restored, or its sources kept their vectors.
LEMMA OwesCleanedUp ==
    ASSUME IInv, NEW a \in Procs, CleanedUp(a), ~leak[a], NEW s \in Entries, link'[s] = link[s],
           pc[a] \in {"summaryVector", "summaryStatus"}, Owes(a, s)
    PROVE  Owes(a, s)'
<1>1. /\ grp[a] \in 1..MaxGroups /\ MaxGroups \in Nat /\ grp[a] <= GroupCount(a)
      /\ GroupCount(a) \in 1..MaxGroups
  BY CurrentGroup
<1>2. CASE restore[a]
  <2>1. pc'[a] = "restore" /\ todo'[a] = Source(a) /\ grp' = grp
    BY <1>2 DEF CleanedUp, Goes, IInv, TypeOK
  <2> QED
    BY <1>2, <2>1 DEF Owes, Holds
<1>3. CASE ~restore[a]
  <2>1. PICK n \in 1..MaxGroups : link[s] = Summary(a, n) /\ n < grp[a]
    BY <1>3 DEF Owes, Holds
  <2>2. n <= grp[a] - 1 /\ grp[a] - 1 \in 0..GroupCount(a)
    BY <1>1, <2>1
  <2>3. Undo(a, grp[a] - 1)
    BY <1>3 DEF CleanedUp
  <2> QED
    BY <2>1, <2>2, <2>3, OwesUndone
<1> QED
  BY <1>2, <1>3

\* The steps of a rollback that do not touch the vectors of sources.
LEMMA GoesBackQuietly ==
    ASSUME IInv, RowIdsInjective, NEW a \in Procs, ~leak[a], ~leak'[a],
           \/ ClearLinks(a) \/ DeleteSummary(a) \/ DropSummaryVector(a) \/ DropSummaryStatus(a)
           \/ RestoreVector(a) \/ RestoredVector(a) \/ GroupUndone(a)
    PROVE  Quiet(a)
<1>1. /\ grp[a] \in 1..MaxGroups /\ MaxGroups \in Nat /\ grp[a] <= GroupCount(a)
      /\ GroupCount(a) \in 1..MaxGroups /\ Sum(a) \in Ids /\ Entries \subseteq Ids
  BY CurrentGroup, SummaryFacts
<1>2. \A s \in Entries : status'[s] = status[s] /\ vec'[RowId[s]] = vec[RowId[s]]
  <2>1. CASE DeleteSummary(a) \/ DropSummaryVector(a) \/ DropSummaryStatus(a)
    <3>1. Touches(Sum(a))
      BY <1>1, <2>1, StatementTouches DEF DeleteSummary, DropSummaryVector, DropSummaryStatus,
         Throws, IInv, TypeOK
    <3> QED
      BY <3>1, EntriesUntouched
  <2>2. CASE ClearLinks(a) \/ RestoreVector(a) \/ RestoredVector(a) \/ GroupUndone(a)
    BY <2>2, EntriesUntouched DEF ClearLinks, ClearCompacted, RestoreVector, RestoredVector,
       GroupUndone, Undo, Throws, writing, store
  <2> QED
    BY <2>1, <2>2
<1>3. /\ pc[a] \in {"clear", "deleteSummary", "summaryVector", "summaryStatus", "restore", "restoring"}
      /\ pc'[a] = "restoring" => ix'[a] = "check"
  <2>1. CASE RestoreVector(a)
    BY <2>1 DEF RestoreVector, Goes, IndexCalls, IInv, TypeOK, IndexingType
  <2>2. CASE ~RestoreVector(a)
    <3>1. \E label \in {"deleteSummary", "summaryVector", "summaryStatus", "restore", "clear", "rejected"} :
             Goes(a, label)
      BY <2>2 DEF ClearLinks, DeleteSummary, DropSummaryVector, DropSummaryStatus,
         RestoredVector, GroupUndone, CleanedUp, Undo
    <3>2. pc[a] \in {"clear", "deleteSummary", "summaryVector", "summaryStatus", "restore", "restoring"}
      BY <2>2 DEF ClearLinks, DeleteSummary, DropSummaryVector, DropSummaryStatus,
         RestoredVector, GroupUndone
    <3> QED
      BY <3>1, <3>2 DEF Goes, IInv, TypeOK
  <2> QED
    BY <2>1, <2>2
<1>4. ASSUME NEW s \in Entries, Owes(a, s) PROVE Owes(a, s)'
  <2>1. CASE ClearLinks(a)
    <3>1. PICK n \in 1..MaxGroups : /\ link[s] = Summary(a, n)
                                    /\ n < grp[a] \/ restore[a]
      BY <1>4, <2>1 DEF Owes, Holds, ClearLinks
    <3>2. n <= Reached(a) /\ s \in Groups[pv[a]][n] /\ n \in Nat
      BY <1>1, <3>1, HeldReached
    <3>3. /\ n <= grp[a] /\ pc'[a] = "deleteSummary" /\ UNCHANGED <<grp, restore, pv>>
          /\ ClearCompacted(Source(a), Sum(a))
      BY <2>1, <3>2 DEF ClearLinks, Reached, Reports, Goes, IInv, TypeOK, WritingType
    <3>4. CASE n = grp[a]
      BY <3>1, <3>2, <3>3, <3>4 DEF Owes, Source
    <3>5. CASE n < grp[a]
      <4>1. link'[s] = link[s]
        BY <1>1, <3>1, <3>3, <3>5, SummaryFacts DEF ClearCompacted, Sum
      <4> QED
        BY <3>1, <3>3, <3>5, <4>1 DEF Owes, Holds
    <3> QED
      BY <1>1, <3>2, <3>3, <3>4, <3>5
  <2>2. CASE DeleteSummary(a)
    <3>1. pc'[a] = "summaryVector" /\ UNCHANGED <<grp, restore, pv>>
      BY <2>2 DEF DeleteSummary, Goes, IInv, TypeOK
    <3>2. link'[s] = link[s]
      BY <1>1, <2>2, CurrentGroup DEF DeleteSummary, DeleteRow, Throws, store, IInv, TypeOK, StoreType
    <3> QED
      BY <1>4, <2>2, <3>1, <3>2 DEF Owes, Holds, Source, DeleteSummary
  <2>3. CASE DropSummaryVector(a) \/ DropSummaryStatus(a)
    <3>1. link'[s] = link[s]
      BY <2>3 DEF DropSummaryVector, DropSummaryStatus, DropVector, DropStatus, Throws, store
    <3>2. CASE CleanedUp(a)
      BY <1>4, <2>3, <3>1, <3>2, OwesCleanedUp DEF DropSummaryVector, DropSummaryStatus
    <3>3. CASE Goes(a, "summaryStatus") /\ UNCHANGED <<pv, grp, todo, restore>> /\ pc[a] = "summaryVector"
      <4>1. pc'[a] = "summaryStatus" /\ Source(a)' = Source(a)
        BY <3>3 DEF Goes, IInv, TypeOK, Source
      <4> QED
        BY <1>4, <3>1, <3>3, <4>1 DEF Owes, Holds
    <3> QED
      BY <2>3, <3>2, <3>3 DEF DropSummaryVector, DropSummaryStatus
  <2>4. CASE RestoreVector(a)
    <3>1. /\ link' = link /\ pc[a] = "restore" /\ pc'[a] = "restoring" /\ ix'[a] = "check"
          /\ UNCHANGED <<grp, todo>>
      BY <2>4 DEF RestoreVector, Goes, IndexCalls, store, IInv, TypeOK, IndexingType
    <3> QED
      BY <1>4, <3>1 DEF Owes, Holds
  <2>5. CASE RestoredVector(a)
    <3>1. /\ link' = link /\ pc[a] = "restoring" /\ pc'[a] = "restore" /\ UNCHANGED grp
          /\ ix[a] = "ok" /\ todo'[a] = todo[a] \ {cur[a]}
      BY <2>5 DEF RestoredVector, Goes, Reports, store, IInv, TypeOK, WritingType
    <3> QED
      BY <1>4, <3>1 DEF Owes, Holds
  <2>6. CASE GroupUndone(a)
    <3>1. PICK n \in 1..MaxGroups : link[s] = Summary(a, n) /\ n < grp[a]
      BY <1>4, <2>6 DEF Owes, Holds, GroupUndone
    <3>2. n <= grp[a] - 1 /\ grp[a] - 1 \in 0..GroupCount(a)
      BY <1>1, <3>1
    <3>3. Undo(a, grp[a] - 1) /\ link' = link
      BY <2>6 DEF GroupUndone, writing, store
    <3> QED
      BY <3>1, <3>2, <3>3, OwesUndone
  <2> QED
    BY <1>4, <2>1, <2>2, <2>3, <2>4, <2>5, <2>6
<1> QED
  BY <1>2, <1>3, <1>4 DEF Quiet
\* The steps that delete or rebuild the vector of a source: all but that source
\* are left alone, and what happens to it is settled before another execution
\* works on it.
LEMMA SourceStep ==
    ASSUME IInv, RowIdsInjective, NEW a \in Procs, Frame(a), NEW x \in Entries, Touches(x), Findable,
           Written(a)', \A b \in Procs \ {a} : Written(b)',
           pc[a] = "dropStatus" => cur[a] = x, Truthful(x)',
           Searchable(x)' \/ Owes(a, x)' \/ (\E b \in Procs \ {a} : Owes(b, x)),
           \A s \in Entries \ {x} : Owes(a, s) => Owes(a, s)'
    PROVE  Findable'
<1>1. ASSUME NEW s \in Entries, s /= x
      PROVE  Truthful(s)' /\ (Searchable(s)' \/ \E b \in Procs : Owes(b, s)')
  <2>1. status'[s] = status[s] /\ vec'[RowId[s]] = vec[RowId[s]]
    BY <1>1, OtherEntries
  <2>2. \A b \in Procs : pc[b] = "dropStatus" /\ cur[b] = s => pc'[b] = pc[b] /\ cur'[b] = cur[b]
    BY <1>1 DEF Frame
  <2>3. Truthful(s)'
    <3>1. CASE status[s] /= "indexed" \/ vec[RowId[s]] = s
      BY <2>1, <3>1 DEF Truthful
    <3>2. CASE status[s] = "indexed" /\ vec[RowId[s]] /= s
      <4>1. PICK b \in Procs : pc[b] = "dropStatus" /\ cur[b] = s
        BY <1>1, <3>2 DEF Findable, Truthful
      <4> QED
        BY <2>2, <4>1 DEF Truthful
    <3> QED
      BY <3>1, <3>2
  <2> QED
    BY <1>1, <2>1, <2>3, OwesOthers DEF Findable, Searchable
<1> QED
  BY <1>1, OwesOthers DEF Findable

LEMMA OthersWritten ==
    ASSUME IInv, RowIdsInjective, SourcesOnOneHost, NEW a \in Procs, Runs(a), Frame(a), Findable,
           pc[a] \in {"drop", "dropStatus", "restore", "restoring"},
           NEW x \in todo[a], x \in Entries, Touches(x),
           NEW b \in Procs \ {a}
    PROVE  Written(b)'
<1>1. CASE cur[b] = x
  BY <1>1, TurnsOnOneSource DEF Written, Frame, Stays
<1>2. CASE cur[b] /= x
  <2>1. pc[b] = "restoring" => cur[b] \in Entries
    BY CurrentSource
  <2> QED
    BY <1>2, <2>1, OtherEntries DEF Findable, Written, Frame, Stays
<1> QED
  BY <1>1, <1>2

LEMMA DropsFindably ==
    ASSUME IInv, RowIdsInjective, "vectorStatus" \notin FaultyCalls, SourcesOnOneHost, NEW a \in Procs,
           Runs(a), Frame(a), DropSourceVector(a) \/ DropSourceStatus(a), Findable
    PROVE  Findable'
<1>1. /\ grp[a] \in 1..MaxGroups /\ MaxGroups \in Nat /\ Entries \subseteq Ids
      /\ pc[a] \in {"drop", "dropStatus"} /\ Progress(a)
  BY CurrentGroup, SummaryFacts DEF DropSourceVector, DropSourceStatus, IInv, Execution
<1>2. pc'[a] \in {"drop", "dropStatus"} /\ UNCHANGED <<link, grp>>
  BY DEF DropSourceVector, DropSourceStatus, DropVector, DropStatus, Throws, Goes, store, IInv, TypeOK
<1>3. \A s \in Entries : Owes(a, s) => Owes(a, s)'
  BY <1>1, <1>2 DEF Owes, Holds
<1>4. \A s \in Source(a) : link[s] = Sum(a)
  BY <1>1 DEF Progress, Behind, Source, Sum
<1>5. \A s \in todo[a] : s \in Entries /\ Owes(a, s)'
  BY <1>1, <1>2, <1>4, CurrentSource DEF Owes, Holds, Sum
<1>6. Written(a)'
  BY <1>2 DEF Written
<1>7. CASE DropSourceVector(a)
  <2>1. PICK x \in todo[a] : UNCHANGED store \/ (DropVector(x) /\ cur'[a] = x /\ pc'[a] = "dropStatus")
    BY <1>7 DEF DropSourceVector, Throws, Goes, IInv, TypeOK
  <2>2. CASE UNCHANGED store
    <3>1. Quiet(a)
      BY <1>2, <1>3, <1>7, <2>2 DEF Quiet, store, DropSourceVector
    <3> QED
      BY <3>1, QuietKeeps
  <2>3. CASE DropVector(x) /\ cur'[a] = x /\ pc'[a] = "dropStatus"
    <3>1. x \in Entries /\ x \in Ids /\ Owes(a, x)' /\ pc[a] = "drop"
      BY <1>1, <1>5, <1>7 DEF DropSourceVector
    <3>2. Touches(x)
      BY <2>3, <3>1, StatementTouches DEF IInv, TypeOK
    <3>3. Truthful(x)'
      BY <2>3 DEF Truthful
    <3>4. \A b \in Procs \ {a} : Written(b)'
      BY <3>1, <3>2, OthersWritten
    <3> QED
      BY <1>3, <1>6, <3>1, <3>2, <3>3, <3>4, SourceStep
  <2> QED
    BY <2>1, <2>2, <2>3
<1>8. CASE DropSourceStatus(a)
  <2>1. PICK x \in todo[a] : x = cur[a] /\ pc[a] = "dropStatus" /\ DropStatus(x)
    BY <1>8, CurrentSource DEF DropSourceStatus, Throws
  <2>2. x \in Entries /\ x \in Ids /\ Owes(a, x)'
    BY <1>1, <1>5, <2>1
  <2>3. Touches(x)
    BY <2>1, <2>2, StatementTouches DEF IInv, TypeOK
  <2>4. Truthful(x)'
    <3>1. status'[x] = "absent"
      BY <2>1, <2>2 DEF DropStatus, IInv, TypeOK, StoreType
    <3> QED
      BY <3>1 DEF Truthful
  <2>5. \A b \in Procs \ {a} : Written(b)'
    BY <2>1, <2>2, <2>3, OthersWritten
  <2> QED
    BY <1>3, <1>6, <2>1, <2>2, <2>3, <2>4, <2>5, SourceStep
<1> QED
  BY <1>7, <1>8

LEMMA RestoresFindably ==
    ASSUME IInv, RowIdsInjective, SourcesOnOneHost, NEW a \in Procs, Runs(a), Frame(a),
           RestoringVector(a), Findable
    PROVE  Findable'
<1>1. PICK x \in todo[a] : x = cur[a] /\ pc[a] = "restoring" /\ IndexStep(a, x) /\ UNCHANGED control
  BY CurrentSource DEF RestoringVector
<1>2. x \in Entries /\ x \in Ids /\ RowId[x] \in RowIds
  BY <1>1, CurrentSource, SummaryFacts
<1>3. Touches(x) /\ link' = link
  BY <1>1, <1>2, IndexStepTouches DEF IInv, TypeOK
<1>4. \A b \in Procs \ {a} : Written(b)'
  BY <1>1, <1>2, <1>3, OthersWritten
<1>5. \A s \in Entries \ {x} : Owes(a, s) => Owes(a, s)'
  BY <1>1, <1>3 DEF Owes, Holds, control, Source
<1>6. /\ status \in [Ids -> IndexState] /\ vec \in [RowIds -> Ids \cup {NoId}]
      /\ ix \in [Procs -> IndexPhase] /\ cur'[a] = x
  BY <1>1 DEF IInv, TypeOK, StoreType, IndexingType, control
<1>7. status[x] = "indexed" => vec[RowId[x]] = x
  BY <1>1, <1>2, TurnsOnOneSource DEF Findable, Truthful
<1>8. /\ status'[x] = "indexed" => vec'[RowId[x]] = x
      /\ ix'[a] = "status" => vec'[RowId[x]] = x
      /\ ix'[a] = "ok" => status'[x] = "indexed"
  <2>1. Written(a)
    BY DEF Findable
  <2>2. CASE IndexCheck(a, x)
    BY <1>2, <1>6, <1>7, <2>2 DEF IndexCheck, PutStatus, Throws, store
  <2>3. CASE IndexEmbed(a)
    BY <1>6, <1>7, <2>3 DEF IndexEmbed, store
  <2>4. CASE IndexPutVector(a, x)
    BY <1>2, <1>6, <1>7, <2>4 DEF IndexPutVector, PutVector, Throws, store
  <2>5. CASE IndexPutStatus(a, x)
    BY <1>1, <1>2, <1>6, <1>7, <2>1, <2>5 DEF IndexPutStatus, PutStatus, Throws, store, Written
  <2>6. CASE IndexRecordFailure(a, x)
    BY <1>2, <1>6, <1>7, <2>6 DEF IndexRecordFailure, PutStatus, Throws, store
  <2> QED
    BY <1>1, <2>2, <2>3, <2>4, <2>5, <2>6 DEF IndexStep
<1>9. Truthful(x)' /\ Written(a)'
  BY <1>6, <1>8 DEF Truthful, Written
<1>10. Searchable(x)' \/ Owes(a, x)'
  BY <1>1, <1>8 DEF Searchable, Owes, control
<1> QED
  BY <1>1, <1>2, <1>3, <1>4, <1>5, <1>9, <1>10, SourceStep

\* What was reported or cut short stays so.
LEMMA LossStays ==
    ASSUME IInv, NEW a \in Procs, Step(a), Lost
    PROVE  Lost'
<1>1. PICK b \in Procs : leak[b] \/ pc[b] \in {"thrown", "crashed"}
  BY DEF Lost
<1>2. Frame(a)
  BY StepSafe DEF Safe
<1>3. CASE b /= a
  BY <1>1, <1>2, <1>3 DEF Frame, Stays, Lost
<1>4. CASE b = a
  <2>1. pc[a] \notin {"thrown", "crashed"}
    BY DEF Step, GoForward, GoBack, Begin, ReadSources, WriteSummary, SummaryWritten, Mark,
       DropSourceVector, DropSourceStatus, GroupDone, Commit, ClearLinks, DeleteSummary,
       DropSummaryVector, DropSummaryStatus, RestoreVector, RestoringVector, RestoredVector, GroupUndone
  <2>2. leak' = leak \/ Reports(a)
    BY DEF Step, GoForward, GoBack, Begin, ReadSources, WriteSummary, SummaryWritten, Mark,
       DropSourceVector, DropSourceStatus, GroupDone, Commit, ClearLinks, DeleteSummary,
       DropSummaryVector, DropSummaryStatus, RestoreVector, RestoringVector, RestoredVector, GroupUndone,
       WriteStep, WriteStoreRow, WriteIndexing, WriteIndexed, WriteUndoRow, WriteUndoVector,
       WriteUndoStatus, writing
  <2> QED
    BY <1>1, <1>4, <2>1, <2>2 DEF Reports, Lost, IInv, TypeOK, WritingType
<1> QED
  BY <1>3, <1>4

LEMMA FindStep ==
    ASSUME IInv, RowIdsInjective, "vectorStatus" \notin FaultyCalls, FindInv, [Next]_vars
    PROVE  FindInv'
<1>1. ASSUME NEW a \in Procs, Step(a) PROVE FindInv'
  <2>1. Frame(a) /\ Runs(a)
    BY <1>1, StepSafe DEF Safe, Step
  <2>2. SourcesOnOneHost'
    BY <2>1 DEF Frame, FindInv, SourcesOnOneHost
  <2>3. SUFFICES ASSUME ~Lost' PROVE Findable'
    BY <2>2 DEF FindInv
  <2>4. ~Lost /\ Findable /\ SourcesOnOneHost /\ ~leak[a] /\ ~leak'[a] /\ pc'[a] /= "thrown"
    BY <1>1, <2>3, LossStays DEF FindInv, Lost
  <2>5. CASE Quiet(a)
    BY <2>1, <2>4, <2>5, QuietKeeps
  <2>6. CASE DropSourceVector(a) \/ DropSourceStatus(a)
    BY <2>1, <2>4, <2>6, DropsFindably
  <2>7. CASE RestoringVector(a)
    BY <2>1, <2>4, <2>7, RestoresFindably
  <2> QED
    BY <1>1, <2>4, <2>5, <2>6, <2>7, MovesQuietly, GoesBackQuietly DEF Step, GoForward, GoBack
<1>2. ASSUME NEW h \in Hosts, Crash(h) PROVE FindInv'
  <2>1. Lost'
    BY <1>2 DEF Crash, Lost, IInv, TypeOK
  <2> QED
    BY <1>2, <2>1 DEF Crash, FindInv, SourcesOnOneHost
<1>3. CASE UNCHANGED vars
  BY <1>3 DEF vars, FindInv, SourcesOnOneHost, Lost, Findable, Truthful, Searchable, Owes, Holds, Source, Written
<1> QED
  BY <1>1, <1>2, <1>3 DEF Next

\* No entry is lost to search: once all executions have ended, and none crashed,
\* threw or reported a rollback failure, every active entry has its vector. It
\* takes that executions over one source run on one host, that no two ids share
\* a rowid, and that no vector deletion fails between its two statements.
THEOREM NothingActiveIsLost ==
    ASSUME RowIdsInjective, "vectorStatus" \notin FaultyCalls
    PROVE  Spec /\ SourcesOnOneHost => []ActiveSearchable
<1> DEFINE Inv == /\ IInv /\ \A a \in Procs : Shows(a)
                  /\ FindInv
<1>1. Init /\ SourcesOnOneHost => FindInv
  <2> SUFFICES ASSUME Init, SourcesOnOneHost PROVE Findable
    BY DEF FindInv
  <2>1. ASSUME NEW s \in Entries PROVE status[s] = "indexed" /\ vec[RowId[s]] = s
    <3>1. s \in Ids /\ RowId[s] \in RowIds /\ Entries \subseteq Ids
      BY SummaryFacts
    <3> QED
      BY <3>1 DEF Init, StoreInit, RowIdsInjective
  <2> QED
    BY <2>1 DEF Init, Findable, Truthful, Searchable, Written
<1>2. IInv /\ FindInv /\ [Next]_vars => FindInv'
  BY FindStep
<1>3. Inv => ActiveSearchable
  <2> SUFFICES ASSUME Inv, NEW i \in rows, Active(i),
                      \A a \in Procs : pc[a] \in {"success", "rejected"} /\ ~leak[a]
               PROVE  Searchable(i)
    BY DEF ActiveSearchable
  <2>1. Findable
    BY DEF FindInv, Lost
  <2>2. CASE i \in Entries
    <3>1. ASSUME NEW a \in Procs PROVE ~Owes(a, i)
      <4>1. \A n \in 1..MaxGroups : Summary(a, n) /= NoId
        BY SummaryFacts
      <4> QED
        BY <4>1 DEF Owes, Holds, Active
    <3> QED
      BY <2>1, <2>2, <3>1 DEF Findable
  <2>3. CASE i \notin Entries
    <3>1. i \in Summaries
      BY <2>3, SummaryFacts DEF IInv, TypeOK, StoreType
    <3>2. PICK a \in Procs, n \in 1..MaxGroups : i = Summary(a, n)
      BY <3>1, SummaryFacts
    <3>3. n <= Reached(a)
      <4>1. grp[a] \in 1..MaxGroups /\ MaxGroups \in Nat
        BY CurrentGroup
      <4>2. Reached(a) \in Nat
        BY <4>1 DEF Reached
      <4> QED
        BY <3>2, <4>1, <4>2 DEF IInv, Execution, Progress, Clean
    <3>4. pc[a] = "success" /\ n \in 1..Behind(a)
      BY <3>3 DEF Reached, Behind
    <3> QED
      BY <3>2, <3>4 DEF Shows
  <2> QED
    BY <2>2, <2>3
<1>4. Spec => [](IInv /\ \A a \in Procs : Shows(a))
  BY ShowsAlways
<1> QED
  BY <1>1, <1>2, <1>3, <1>4, PTL DEF Spec

-----------------------------------------------------------------------------
(* What is compacted is out of the vector index.                           *)

\* No source is in the previews of two executions.
DisjointSources ==
    \A a, b \in Procs : a /= b => Sources(pv[a]) \cap Sources(pv[b]) = {}

\* a has dealt with the vector of source s of its group n, if it is linked.
Due(a, n, s) ==
    \/ n < grp[a]
    \/ n = grp[a] /\ pc[a] \in {"commit", "success", "thrown"}
    \/ n = grp[a] /\ pc[a] \in {"drop", "dropStatus"} /\ ~vfail[a] /\ s \notin todo[a]

Dropped(a) == pc[a] /= "crashed" /\ ~leak[a] =>
    \A s \in Entries : \A n \in 1..MaxGroups :
        link[s] = Summary(a, n) /\ Due(a, n, s) => status[s] = "absent"

DropInv == DisjointSources /\ \A a \in Procs : Dropped(a)

\* Reports are not withdrawn, and no step forward or back is a crash.
LEMMA LeakStays ==
    ASSUME IInv, NEW a \in Procs, Step(a)
    PROVE  (leak[a] => leak'[a]) /\ pc[a] /= "crashed"
<1>1. pc[a] \notin {"crashed"}
  BY DEF Step, GoForward, GoBack, Begin, ReadSources, WriteSummary, SummaryWritten, Mark,
     DropSourceVector, DropSourceStatus, GroupDone, Commit, ClearLinks, DeleteSummary,
     DropSummaryVector, DropSummaryStatus, RestoreVector, RestoringVector, RestoredVector, GroupUndone
<1>2. leak' = leak \/ Reports(a)
  BY DEF Step, GoForward, GoBack, Begin, ReadSources, WriteSummary, SummaryWritten, Mark,
     DropSourceVector, DropSourceStatus, GroupDone, Commit, ClearLinks, DeleteSummary,
     DropSummaryVector, DropSummaryStatus, RestoreVector, RestoringVector, RestoredVector, GroupUndone,
     WriteStep, WriteStoreRow, WriteIndexing, WriteIndexed, WriteUndoRow, WriteUndoVector,
     WriteUndoStatus, writing
<1> QED
  BY <1>1, <1>2 DEF Reports, IInv, TypeOK, WritingType

\* Only the two loops over sources write the status row of an entry.
LEMMA EntryStatus ==
    ASSUME IInv, NEW a \in Procs, Step(a), NEW s \in Entries
    PROVE  \/ status'[s] = status[s]
           \/ DropSourceStatus(a) /\ status'[s] = "absent"
           \/ RestoringVector(a) /\ s = cur[a]
<1>1. /\ Sum(a) \in Ids /\ Sum(a) \notin Entries /\ Entries \subseteq Ids /\ s \in Ids /\ s /= Sum(a)
  BY CurrentGroup, SummaryFacts
<1>2. CASE WriteSummary(a) \/ DeleteSummary(a) \/ DropSummaryVector(a) \/ DropSummaryStatus(a)
  <2>1. Touches(Sum(a))
    BY <1>1, <1>2, StatementTouches, WriteStepTouches DEF WriteSummary, DeleteSummary, DropSummaryVector,
       DropSummaryStatus, Throws, IInv, TypeOK
  <2> QED
    BY <1>1, <2>1 DEF Touches
<1>3. CASE DropSourceStatus(a)
  BY <1>1, <1>3 DEF DropSourceStatus, DropStatus, Throws, store, IInv, TypeOK, StoreType
<1>4. CASE RestoringVector(a)
  <2>1. PICK x \in todo[a] : x = cur[a] /\ IndexStep(a, x) /\ pc[a] = "restoring"
    BY <1>4, CurrentSource DEF RestoringVector
  <2>2. x \in Ids
    BY <1>1, <2>1, CurrentSource
  <2>3. Touches(x)
    BY <2>1, <2>2, IndexStepTouches DEF IInv, TypeOK
  <2> QED
    BY <1>1, <1>4, <2>1, <2>3 DEF Touches
<1>5. CASE \/ Begin(a) \/ ReadSources(a) \/ SummaryWritten(a) \/ Mark(a) \/ DropSourceVector(a)
           \/ GroupDone(a) \/ Commit(a) \/ ClearLinks(a) \/ RestoreVector(a) \/ RestoredVector(a)
           \/ GroupUndone(a)
  <2>1. status' = status
    BY <1>5 DEF Begin, ReadSources, SummaryWritten, Mark, MarkCompacted, DropSourceVector, DropVector,
       GroupDone, Commit, ClearLinks, ClearCompacted, RestoreVector, RestoredVector, GroupUndone,
       Undo, Throws, writing, store
  <2> QED
    BY <2>1
<1> QED
  BY <1>2, <1>3, <1>4, <1>5 DEF Step, GoForward, GoBack

\* Only Mark links an entry to a summary.
LEMMA LinksShrink ==
    ASSUME IInv, NEW a \in Procs, Step(a), ~Mark(a), NEW s \in Entries, NEW n \in 1..MaxGroups,
           link'[s] = Summary(a, n)
    PROVE  link[s] = Summary(a, n)
<1>1. /\ Sum(a) \in Ids /\ Sum(a) \notin Entries /\ Entries \subseteq Ids /\ s \in Ids /\ s /= Sum(a)
      /\ Summary(a, n) /= NoId
  BY CurrentGroup, SummaryFacts
<1>2. CASE WriteSummary(a) \/ DeleteSummary(a) \/ DropSummaryVector(a) \/ DropSummaryStatus(a)
  <2>1. Touches(Sum(a))
    BY <1>1, <1>2, StatementTouches, WriteStepTouches DEF WriteSummary, DeleteSummary, DropSummaryVector,
       DropSummaryStatus, Throws, IInv, TypeOK
  <2> QED
    BY <1>1, <2>1 DEF Touches
<1>3. CASE RestoringVector(a)
  <2>1. PICK x \in todo[a] : x = cur[a] /\ IndexStep(a, x) /\ pc[a] = "restoring"
    BY <1>3, CurrentSource DEF RestoringVector
  <2>2. x \in Ids
    BY <1>1, <2>1, CurrentSource
  <2>3. link' = link
    BY <2>1, <2>2, IndexStepTouches DEF IInv, TypeOK
  <2> QED
    BY <2>3
<1>4. CASE \/ Begin(a) \/ ReadSources(a) \/ SummaryWritten(a) \/ DropSourceVector(a)
           \/ DropSourceStatus(a) \/ GroupDone(a) \/ Commit(a) \/ RestoreVector(a)
           \/ RestoredVector(a) \/ GroupUndone(a)
  <2>1. link' = link
    BY <1>4 DEF Begin, ReadSources, SummaryWritten, DropSourceVector, DropVector, DropSourceStatus,
       DropStatus, GroupDone, Commit, RestoreVector, RestoredVector, GroupUndone, Undo, Throws,
       writing, store
  <2> QED
    BY <2>1
<1>5. CASE ClearLinks(a)
  BY <1>1, <1>5 DEF ClearLinks, ClearCompacted, Throws, store
<1> QED
  BY <1>2, <1>3, <1>4, <1>5 DEF Step, GoForward, GoBack

\* Nothing becomes due but by marking and dropping.
LEMMA DueBefore ==
    ASSUME IInv, NEW a \in Procs, Step(a), ~Mark(a), ~DropSourceVector(a), ~DropSourceStatus(a),
           NEW s \in Entries, NEW n \in 1..MaxGroups, Due(a, n, s)'
    PROVE  Due(a, n, s)
<1>1. /\ grp[a] \in 1..MaxGroups /\ MaxGroups \in Nat /\ grp[a] <= GroupCount(a)
      /\ GroupCount(a) \in 1..MaxGroups /\ n \in Nat
  BY CurrentGroup
<1>2. Phases(a)
  BY DEF IInv, Execution
<1>3. ASSUME NEW m \in 0..GroupCount(a), Undo(a, m), m <= grp[a] PROVE n < grp[a]
  <2>1. pc'[a] \in {"rejected", "clear"} /\ (grp' = grp \/ grp'[a] = m)
    BY <1>3 DEF Undo, Goes, IInv, TypeOK
  <2> QED
    BY <1>1, <1>3, <2>1 DEF Due
<1>4. CASE ReadSources(a)
  <2>1. (grp' = grp /\ pc'[a] = "rejected") \/ (grp'[a] = 1 /\ pc'[a] = "write")
    BY <1>4 DEF ReadSources, BeginGroup, Goes, IInv, TypeOK
  <2> QED
    BY <1>1, <2>1 DEF Due
<1>5. CASE GroupDone(a)
  <2>1. CASE pc'[a] = "clear" /\ grp' = grp
    BY <2>1 DEF Due
  <2>2. CASE ~vfail[a] /\ pc'[a] = "commit" /\ grp' = grp
    BY <1>5, <2>2 DEF Due, GroupDone
  <2>3. CASE ~vfail[a] /\ pc'[a] = "write" /\ grp'[a] = grp[a] + 1
    BY <1>1, <1>5, <2>3 DEF Due, GroupDone
  <2> QED
    BY <1>5, <2>1, <2>2, <2>3 DEF GroupDone, BeginGroup, Goes, IInv, TypeOK
<1>6. CASE Commit(a)
  <2>1. grp[a] = GroupCount(a) /\ pc[a] = "commit"
    BY <1>2, <1>6 DEF Commit, Phases
  <2>2. CASE grp' = grp /\ Goes(a, "success")
    BY <2>1, <2>2 DEF Due
  <2>3. CASE Undo(a, GroupCount(a))
    BY <1>1, <1>3, <2>1, <2>3 DEF Due
  <2> QED
    BY <1>6, <2>2, <2>3 DEF Commit
<1>7. CASE SummaryWritten(a) \/ GroupUndone(a) \/ DropSummaryVector(a) \/ DropSummaryStatus(a)
  <2>1. CASE Undo(a, grp[a] - 1)
    BY <1>1, <1>3, <2>1 DEF Due
  <2>2. CASE grp' = grp /\ \E label \in {"mark", "summaryStatus", "restore"} : Goes(a, label)
    BY <2>2 DEF Due, Goes, IInv, TypeOK
  <2> QED
    BY <1>7, <2>1, <2>2 DEF SummaryWritten, GroupUndone, DropSummaryVector, DropSummaryStatus, CleanedUp
<1>8. CASE \/ Begin(a) \/ ClearLinks(a) \/ DeleteSummary(a) \/ RestoreVector(a) \/ RestoredVector(a)
  <2>1. grp' = grp /\ \E label \in {"read", "rejected", "deleteSummary", "summaryVector", "restore",
                                    "restoring"} : Goes(a, label)
    BY <1>8 DEF Begin, ClearLinks, DeleteSummary, RestoreVector, RestoredVector
  <2> QED
    BY <2>1 DEF Due, Goes, IInv, TypeOK
<1>9. CASE WriteSummary(a) \/ RestoringVector(a)
  BY <1>9 DEF WriteSummary, RestoringVector, control, Due
<1> QED
  BY <1>4, <1>5, <1>6, <1>7, <1>8, <1>9 DEF Step, GoForward, GoBack

LEMMA DroppedOwn ==
    ASSUME IInv, NEW a \in Procs, Step(a), Safe(a), Dropped(a)
    PROVE  Dropped(a)'
<1> SUFFICES ASSUME ~leak'[a], NEW s \in Entries, NEW n \in 1..MaxGroups,
                    link'[s] = Summary(a, n), Due(a, n, s)'
             PROVE  status'[s] = "absent"
  BY DEF Dropped
<1>1. ~leak[a] /\ pc[a] /= "crashed"
  BY LeakStays
<1>2. /\ grp[a] \in 1..MaxGroups /\ MaxGroups \in Nat /\ grp[a] <= GroupCount(a)
      /\ pv[a] \in Previews /\ n \in Nat
      /\ \A m \in 1..MaxGroups : Summary(a, n) = Summary(a, m) => m = n
  BY CurrentGroup, SummaryFacts
<1>3. CASE Mark(a)
  <2>1. /\ status' = status /\ grp' = grp /\ pc[a] = "mark"
        /\ \/ pc'[a] = "drop" /\ todo'[a] = Source(a)
           \/ pc'[a] = "clear"
           \/ pc'[a] = "thrown" /\ link' = link
    BY <1>3 DEF Mark, MarkCompacted, Throws, Goes, store, IInv, TypeOK
  <2>2. CASE n < grp[a]
    <3>1. Summary(a, n) /= Sum(a) /\ Summary(a, n) /= NoId /\ s \in Ids
      BY <1>2, <2>2, SummaryFacts DEF Sum
    <3>2. link[s] = Summary(a, n)
      BY <3>1 DEF Safe, Frame
    <3> QED
      BY <1>1, <2>1, <2>2, <3>2 DEF Dropped, Due
  <2>3. CASE n = grp[a]
    <3>1. NoLink(a, grp[a])
      BY <2>1 DEF IInv, Execution, Progress
    <3>2. pc'[a] = "drop" /\ todo'[a] = Source(a) /\ s \notin Source(a)
      BY <2>1, <2>3, <3>1 DEF Due, NoLink
    <3>3. s \in Groups[pv[a]][n]
      BY DEF Safe, Execution, Links, Frame
    <3> QED
      BY <2>3, <3>2, <3>3 DEF Source
  <2> QED
    BY <1>2, <2>1, <2>2, <2>3 DEF Due
<1>4. CASE DropSourceVector(a)
  <2>1. /\ status' = status /\ grp' = grp /\ pc[a] = "drop" /\ link' = link
    BY <1>4 DEF DropSourceVector, DropVector, Throws, store
  <2>2. CASE Due(a, n, s)
    BY <1>1, <2>1, <2>2 DEF Dropped
  <2>3. CASE ~Due(a, n, s)
    <3>1. n = grp[a] /\ pc'[a] \in {"drop", "dropStatus"} /\ ~vfail'[a] /\ s \notin todo'[a]
      <4>1. pc'[a] \in {"drop", "dropStatus"}
        BY <1>4 DEF DropSourceVector, Goes, IInv, TypeOK
      <4> QED
        BY <2>1, <2>3, <4>1 DEF Due
    <3>2. vfail' = vfail /\ s \in todo[a]
      BY <1>4, <2>1, <2>3, <3>1 DEF DropSourceVector, Due, IInv, TypeOK
    <3> QED
      BY <1>4, <2>1, <3>1, <3>2 DEF DropSourceVector, IInv, TypeOK
  <2> QED
    BY <2>2, <2>3
<1>5. CASE DropSourceStatus(a)
  <2>1. /\ grp' = grp /\ pc[a] = "dropStatus" /\ link' = link /\ pc'[a] = "drop"
        /\ todo'[a] = todo[a] \ {cur[a]}
    BY <1>5 DEF DropSourceStatus, DropStatus, Throws, Goes, store, IInv, TypeOK
  <2>2. status'[s] \in {status[s], "absent"}
    BY <2>1, EntryStatus DEF RestoringVector
  <2>3. CASE Due(a, n, s)
    BY <1>1, <2>1, <2>2, <2>3 DEF Dropped
  <2>4. CASE ~Due(a, n, s)
    <3>1. n = grp[a] /\ ~vfail'[a] /\ s \notin todo'[a]
      BY <2>1, <2>4 DEF Due
    <3>2. vfail' = vfail /\ s = cur[a] /\ DropStatus(cur[a])
      BY <1>5, <2>1, <2>4, <3>1 DEF DropSourceStatus, Due, IInv, TypeOK
    <3> QED
      BY <3>2, SummaryFacts DEF DropStatus, IInv, TypeOK, StoreType
  <2> QED
    BY <2>3, <2>4
<1>6. CASE ~Mark(a) /\ ~DropSourceVector(a) /\ ~DropSourceStatus(a)
  <2>1. link[s] = Summary(a, n) /\ Due(a, n, s)
    BY <1>6, LinksShrink, DueBefore
  <2>2. status[s] = "absent"
    BY <1>1, <2>1 DEF Dropped
  <2>3. CASE RestoringVector(a) /\ s = cur[a]
    <3>1. pc[a] = "restoring" /\ grp' = grp /\ pc'[a] = "restoring"
      BY <2>3 DEF RestoringVector, control
    <3>2. s \in Source(a) /\ n < grp[a]
      BY <2>3, <3>1, CurrentSource DEF Due
    <3>3. s \in Groups[pv[a]][n] /\ n \in DOMAIN Groups[pv[a]] /\ grp[a] \in DOMAIN Groups[pv[a]]
      BY <1>2, <2>1, GroupFacts DEF IInv, Execution, Links, GroupCount
    <3> QED
      BY <1>2, <3>2, <3>3, ApplyAssumption DEF ApplyAssumption, Source
  <2> QED
    BY <1>6, <2>2, <2>3, EntryStatus
<1> QED
  BY <1>3, <1>4, <1>5, <1>6

LEMMA DroppedOthers ==
    ASSUME IInv, DisjointSources, NEW a \in Procs, Step(a), Frame(a), NEW b \in Procs \ {a}, Dropped(b)
    PROVE  Dropped(b)'
<1> SUFFICES ASSUME pc[b] /= "crashed", ~leak[b], NEW s \in Entries, NEW n \in 1..MaxGroups,
                    link'[s] = Summary(b, n), Due(b, n, s)
             PROVE  status'[s] = "absent"
  BY DEF Dropped, Due, Frame, Stays
<1>1. /\ Summary(b, n) /= Sum(a) /\ Summary(b, n) /= NoId /\ s \in Ids /\ pv[b] \in Previews
  BY OtherSummaries, SummaryFacts, CurrentGroup
<1>2. link[s] = Summary(b, n)
  BY <1>1 DEF Frame
<1>3. status[s] = "absent"
  BY <1>2 DEF Dropped
<1>4. s \in Sources(pv[b])
  <2>1. n <= GroupCount(b) /\ s \in Groups[pv[b]][n]
    BY <1>2 DEF IInv, Execution, Links
  <2> QED
    BY <1>1, <2>1, GroupFacts DEF Sources, GroupCount
<1>5. CASE RestoringVector(a) /\ s = cur[a]
  <2>1. s \in Sources(pv[a])
    BY <1>5, CurrentSource DEF RestoringVector
  <2> QED
    BY <1>4, <2>1 DEF DisjointSources
<1> QED
  BY <1>3, <1>5, EntryStatus

LEMMA DropStep ==
    ASSUME IInv, DropInv, [Next]_vars
    PROVE  DropInv'
<1>1. ASSUME NEW a \in Procs, Step(a) PROVE DropInv'
  <2>1. Safe(a) /\ Frame(a)
    BY <1>1, StepSafe DEF Safe
  <2>2. DisjointSources'
    BY <2>1 DEF Frame, DropInv, DisjointSources
  <2>3. ASSUME NEW b \in Procs PROVE Dropped(b)'
    BY <1>1, <2>1, DroppedOwn, DroppedOthers DEF DropInv
  <2> QED
    BY <2>2, <2>3 DEF DropInv
<1>2. ASSUME NEW h \in Hosts, Crash(h) PROVE DropInv'
  <2>1. /\ UNCHANGED <<link, status, leak, grp, pv, todo, vfail>>
        /\ \A a \in Procs : pc'[a] = pc[a] \/ pc'[a] = "crashed"
    BY <1>2 DEF Crash, writing, store, IInv, TypeOK
  <2> QED
    BY <2>1 DEF DropInv, DisjointSources, Dropped, Due
<1>3. CASE UNCHANGED vars
  BY <1>3 DEF vars, DropInv, DisjointSources, Dropped, Due
<1> QED
  BY <1>1, <1>2, <1>3 DEF Next

\* What is compacted is out of the vector index: once every execution ended,
\* whatever threw on the way, as long as no rollback failed and no host died,
\* the sources of what was applied have no vector. It takes that no source is in
\* the previews of two executions: the rollback of one may otherwise restore a
\* vector that the other has dropped.
THEOREM CompactedLeavesTheIndex ==
    Spec /\ DisjointSources => []CompactedUnindexed
<1>1. Init /\ DisjointSources => DropInv
  <2> SUFFICES ASSUME Init, DisjointSources PROVE DropInv
    OBVIOUS
  <2>1. \A s \in Entries : link[s] = NoId
    BY SummaryFacts DEF Init, StoreInit
  <2> QED
    BY <2>1, SummaryFacts DEF DropInv, Dropped
<1>2. IInv /\ DropInv /\ [Next]_vars => DropInv'
  BY DropStep
<1>3. IInv /\ DropInv => CompactedUnindexed
  <2> SUFFICES ASSUME IInv, DropInv, NEW i \in rows, link[i] /= NoId,
                      \A a \in Procs : pc[a] \in Ended \ {"crashed"} /\ ~leak[a]
               PROVE  status[i] = "absent"
    BY DEF CompactedUnindexed
  <2>1. PICK a \in Procs, n \in 1..MaxGroups : i \in Entries /\ link[i] = Summary(a, n)
    BY LinkOwned
  <2>2. n <= Reached(a) /\ n \in Nat
    BY <2>1, HeldReached
  <2>3. pc[a] \in {"success", "rejected", "thrown"} /\ grp[a] \in 1..MaxGroups /\ MaxGroups \in Nat
    BY CurrentGroup DEF Ended
  <2>4. Due(a, n, i)
    BY <2>2, <2>3 DEF Reached, Due
  <2> QED
    BY <2>1, <2>3, <2>4 DEF DropInv, Dropped
<1> QED
  BY <1>1, <1>2, <1>3, IInvAlways, PTL DEF Spec
-----------------------------------------------------------------------------
(* What an execution that does not succeed may leave compacted.            *)

\* The newest group of which a may hold a source linked.
Linkable(a) ==
    IF pc[a] \in {"idle", "read", "rejected"} THEN 0
    ELSE IF pc[a] = "crashed" THEN MaxGroups
    ELSE IF pc[a] \in {"drop", "dropStatus", "commit", "success", "clear"} THEN grp[a]
    ELSE grp[a] - 1

Within(a) == \A s \in Entries : \A n \in 1..MaxGroups :
    link[s] = Summary(a, n) /\ n > Linkable(a) => Excused(a)

\* A mark that throws leaves the groups before it applied as a whole.
Stopped(a) == pc[a] = "thrown" =>
    /\ "mark" \in FaultyCalls /\ ~leak[a] /\ Sum(a) \in rows
    /\ \A n \in 1..(grp[a] - 1) : \A s \in Groups[pv[a]][n] : link[s] = Summary(a, n)

HalfInv == \A a \in Procs : Within(a) /\ Stopped(a)

LEMMA HalfOthers ==
    ASSUME IInv, NEW a \in Procs, Frame(a), NEW b \in Procs \ {a}, Within(b), Stopped(b)
    PROVE  Within(b)' /\ Stopped(b)'
<1>1. \A n \in 1..MaxGroups :
         /\ Summary(b, n) \in rows' <=> Summary(b, n) \in rows
         /\ \A s \in Entries : link'[s] = Summary(b, n) <=> link[s] = Summary(b, n)
  <2> SUFFICES ASSUME NEW n \in 1..MaxGroups
               PROVE  /\ Summary(b, n) \in rows' <=> Summary(b, n) \in rows
                      /\ \A s \in Entries : link'[s] = Summary(b, n) <=> link[s] = Summary(b, n)
    OBVIOUS
  <2>1. /\ Summary(b, n) /= Sum(a) /\ Summary(b, n) \in Ids /\ Summary(b, n) /= NoId
        /\ Entries \subseteq Ids
    BY OtherSummaries, SummaryFacts
  <2> QED
    BY <2>1 DEF Frame
<1>2. pv'[b] = pv[b] /\ pc'[b] = pc[b] /\ grp'[b] = grp[b] /\ leak'[b] = leak[b]
  BY DEF Frame, Stays
<1>3. /\ grp[b] \in 1..MaxGroups /\ MaxGroups \in Nat /\ grp[b] <= GroupCount(b)
      /\ pv[b] \in Previews /\ GroupCount(b) \in Nat
  BY CurrentGroup
<1>4. \A n \in 1..(grp[b] - 1) : n \in 1..MaxGroups /\ Groups[pv[b]][n] \subseteq Entries
  BY <1>3, GroupFacts DEF GroupCount
<1>5. Within(b)'
  BY <1>1, <1>2 DEF Within, Linkable, Excused
<1>6. Stopped(b)'
  BY <1>1, <1>2, <1>3, <1>4 DEF Stopped, Sum
<1> QED
  BY <1>5, <1>6

\* But for a mark, and the clearing of links, no step lowers the bound.
LEMMA LinkableKept ==
    ASSUME IInv, NEW a \in Procs, Step(a), ~Mark(a), ~ClearLinks(a)
    PROVE  Linkable(a)' >= Linkable(a)
<1>1. /\ grp[a] \in 1..MaxGroups /\ MaxGroups \in Nat /\ grp[a] <= GroupCount(a)
      /\ GroupCount(a) \in 1..MaxGroups
  BY CurrentGroup
<1>2. Phases(a)
  BY DEF IInv, Execution
<1>3. ASSUME NEW m \in 0..GroupCount(a), Undo(a, m) PROVE Linkable(a)' = m
  <2>1. \/ m = 0 /\ pc'[a] = "rejected"
        \/ pc'[a] = "clear" /\ grp'[a] = m
    BY <1>3 DEF Undo, Goes, IInv, TypeOK
  <2> QED
    BY <2>1 DEF Linkable
<1>4. CASE ReadSources(a)
  <2>1. pc[a] = "read" /\ (pc'[a] = "rejected" \/ (grp'[a] = 1 /\ pc'[a] = "write"))
    BY <1>4 DEF ReadSources, BeginGroup, Goes, IInv, TypeOK
  <2> QED
    BY <2>1 DEF Linkable
<1>5. CASE GroupDone(a)
  <2>1. pc[a] = "drop" /\ \/ pc'[a] \in {"clear", "commit"} /\ grp' = grp
                          \/ pc'[a] = "write" /\ grp'[a] = grp[a] + 1
    BY <1>5 DEF GroupDone, BeginGroup, Goes, IInv, TypeOK
  <2> QED
    BY <1>1, <2>1 DEF Linkable
<1>6. CASE Commit(a)
  <2>1. grp[a] = GroupCount(a) /\ pc[a] = "commit"
    BY <1>2, <1>6 DEF Commit, Phases
  <2>2. CASE grp' = grp /\ Goes(a, "success")
    <3>1. pc'[a] = "success"
      BY <2>2 DEF Goes, IInv, TypeOK
    <3> QED
      BY <1>1, <2>1, <2>2, <3>1 DEF Linkable
  <2>3. CASE Undo(a, GroupCount(a))
    BY <1>1, <1>3, <2>1, <2>3 DEF Linkable
  <2> QED
    BY <1>6, <2>2, <2>3 DEF Commit
<1>7. CASE SummaryWritten(a) \/ GroupUndone(a) \/ DropSummaryVector(a) \/ DropSummaryStatus(a)
  <2>1. Linkable(a) = grp[a] - 1 /\ grp[a] - 1 \in 0..GroupCount(a)
    BY <1>1, <1>7 DEF Linkable, SummaryWritten, GroupUndone, DropSummaryVector, DropSummaryStatus
  <2>2. CASE Undo(a, grp[a] - 1)
    BY <1>1, <1>3, <2>1, <2>2
  <2>3. CASE grp' = grp /\ \E label \in {"mark", "summaryStatus", "restore"} : Goes(a, label)
    <3>1. pc'[a] \in {"mark", "summaryStatus", "restore"}
      BY <2>3 DEF Goes, IInv, TypeOK
    <3> QED
      BY <1>1, <2>1, <2>3, <3>1 DEF Linkable
  <2> QED
    BY <1>7, <2>2, <2>3 DEF SummaryWritten, GroupUndone, DropSummaryVector, DropSummaryStatus, CleanedUp
<1>8. CASE Begin(a)
  BY <1>8 DEF Begin, Goes, Linkable, IInv, TypeOK
<1>9. CASE DropSourceVector(a) \/ DropSourceStatus(a)
  <2>1. grp' = grp /\ pc[a] \in {"drop", "dropStatus"} /\ pc'[a] \in {"drop", "dropStatus"}
    BY <1>9 DEF DropSourceVector, DropSourceStatus, Goes, IInv, TypeOK
  <2> QED
    BY <1>1, <2>1 DEF Linkable
<1>10. CASE \/ WriteSummary(a) \/ DeleteSummary(a)
            \/ RestoreVector(a) \/ RestoringVector(a) \/ RestoredVector(a)
  <2>1. grp' = grp
    BY <1>10 DEF WriteSummary, DeleteSummary, RestoreVector, RestoringVector, RestoredVector, control
  <2>2. /\ pc[a] \in {"write", "deleteSummary", "restore", "restoring"}
        /\ pc'[a] \in {"write", "summaryVector", "restore", "restoring"}
    BY <1>10 DEF WriteSummary, DeleteSummary, RestoreVector, RestoringVector, RestoredVector, control,
       Goes, IInv, TypeOK
  <2> QED
    BY <1>1, <2>1, <2>2 DEF Linkable
<1> QED
  BY <1>4, <1>5, <1>6, <1>7, <1>8, <1>9, <1>10 DEF Step, GoForward, GoBack

\* Only a mark leaves the handler by an exception.
LEMMA OnlyMarkThrows ==
    ASSUME IInv, NEW a \in Procs, Step(a), ~Mark(a)
    PROVE  pc'[a] /= "thrown"
<1>1. \/ pc'[a] = pc[a] /\ pc[a] /= "thrown"
      \/ \E label \in {"read", "write", "mark", "drop", "dropStatus", "commit", "success", "rejected"}
                      \cup Backward : Goes(a, label)
  BY DEF Step, GoForward, GoBack, Begin, ReadSources, WriteSummary, SummaryWritten,
     DropSourceVector, DropSourceStatus, GroupDone, Commit, ClearLinks, DeleteSummary,
     DropSummaryVector, DropSummaryStatus, RestoreVector, RestoringVector, RestoredVector,
     GroupUndone, BeginGroup, Undo, CleanedUp, control, Backward
<1> QED
  BY <1>1 DEF Goes, IInv, TypeOK, Backward

LEMMA HalfOwn ==
    ASSUME IInv, NEW a \in Procs, Step(a), Within(a)
    PROVE  Within(a)' /\ Stopped(a)'
<1>1. /\ grp[a] \in 1..MaxGroups /\ MaxGroups \in Nat /\ Entries \subseteq Ids
      /\ \A n \in 1..MaxGroups : /\ Summary(a, n) = Sum(a) <=> n = grp[a]
                                 /\ Summary(a, n) /= NoId
  <2>1. grp[a] \in 1..MaxGroups /\ MaxGroups \in Nat
    BY CurrentGroup
  <2>2. \A n \in 1..MaxGroups : Summary(a, n) = Sum(a) <=> n = grp[a]
    BY <2>1, SummaryFacts DEF Sum
  <2> QED
    BY <2>1, <2>2, SummaryFacts
<1>2. Phases(a) /\ Links(a) /\ Progress(a) /\ Frame(a) /\ Progress(a)'
  BY StepSafe DEF IInv, Execution, Safe
<1>3. Excused(a) => Excused(a)'
  BY LeakStays DEF Excused
<1>4. CASE Mark(a)
  <2>1. /\ pc[a] = "mark" /\ grp' = grp /\ pv' = pv /\ leak' = leak /\ rows' = rows
        /\ pc'[a] \in {"drop", "clear", "thrown"}
        /\ pc'[a] = "thrown" => "mark" \in FaultyCalls /\ link' = link
    BY <1>4 DEF Mark, MarkCompacted, Throws, store, Goes, IInv, TypeOK
  <2>2. Linkable(a) = grp[a] - 1
    BY <2>1 DEF Linkable
  <2>3. CASE pc'[a] = "thrown"
    <3>1. Linkable(a)' = grp[a] - 1 /\ Behind(a) = grp[a] - 1 /\ Sum(a)' = Sum(a)
      BY <2>1, <2>3 DEF Linkable, Behind, Sum
    <3>2. Within(a)'
      BY <1>3, <2>1, <2>2, <2>3, <3>1 DEF Within
    <3>3. Stopped(a)'
      BY <1>2, <2>1, <2>3, <3>1 DEF Stopped, Phases, Progress
    <3> QED
      BY <3>2, <3>3
  <2>4. CASE pc'[a] \in {"drop", "clear"}
    <3>1. Linkable(a)' = grp[a]
      BY <2>1, <2>4 DEF Linkable
    <3>2. ASSUME NEW s \in Entries, NEW n \in 1..MaxGroups, link'[s] = Summary(a, n), n > grp[a]
          PROVE  link[s] = Summary(a, n)
      BY <1>1, <1>2, <3>2 DEF Frame
    <3> QED
      BY <1>1, <1>3, <2>2, <2>4, <3>1, <3>2 DEF Within, Stopped
  <2> QED
    BY <2>1, <2>3, <2>4
<1>5. CASE ClearLinks(a)
  <2>1. pc[a] = "clear" /\ pc'[a] = "deleteSummary" /\ grp' = grp
    BY <1>5 DEF ClearLinks, Goes, IInv, TypeOK
  <2>2. Linkable(a) = grp[a] /\ Linkable(a)' = grp[a] - 1 /\ Sum(a)' = Sum(a)
    BY <2>1 DEF Linkable, Sum
  <2>3. ~ Mark(a)
    BY <2>1 DEF Mark
  <2>4. \A s \in Entries : link'[s] = Sum(a) => Excused(a)'
    BY <1>2, <2>1, <2>2 DEF Progress
  <2>5. ASSUME NEW s \in Entries, NEW n \in 1..MaxGroups, link'[s] = Summary(a, n), n > grp[a] - 1
        PROVE  Excused(a)'
    <3>1. CASE n = grp[a]
      BY <1>1, <2>4, <2>5, <3>1
    <3>2. CASE n > grp[a]
      BY <1>3, <2>2, <2>3, <2>5, <3>2, LinksShrink DEF Within
    <3> QED
      BY <1>1, <2>5, <3>1, <3>2
  <2> QED
    BY <2>1, <2>2, <2>5 DEF Within, Stopped
<1>6. CASE ~ Mark(a) /\ ~ ClearLinks(a)
  <2>1. Linkable(a)' >= Linkable(a) /\ pc'[a] /= "thrown"
    BY <1>6, LinkableKept, OnlyMarkThrows
  <2>2. Linkable(a) \in Int /\ Linkable(a)' \in Int
    BY <1>1, StepSafe DEF Linkable, Safe, TypeOK
  <2>3. ASSUME NEW s \in Entries, NEW n \in 1..MaxGroups, link'[s] = Summary(a, n), n > Linkable(a)'
        PROVE  Excused(a)'
    <3>1. n > Linkable(a)
      BY <2>1, <2>2, <2>3
    <3> QED
      BY <1>3, <1>6, <2>3, <3>1, LinksShrink DEF Within
  <2> QED
    BY <2>1, <2>3 DEF Within, Stopped
<1> QED
  BY <1>4, <1>5, <1>6

LEMMA HalfInit ==
    Init => HalfInv
<1> SUFFICES ASSUME Init, NEW a \in Procs PROVE Within(a) /\ Stopped(a)
  BY DEF HalfInv
<1>1. \A s \in Entries : \A n \in 1..MaxGroups : link[s] = NoId /\ Summary(a, n) /= NoId
  BY SummaryFacts DEF Init, StoreInit
<1> QED
  BY <1>1 DEF Within, Stopped, Init

LEMMA HalfStep ==
    IInv /\ HalfInv /\ [Next]_vars => HalfInv'
<1> SUFFICES ASSUME IInv, HalfInv, [Next]_vars PROVE HalfInv'
  OBVIOUS
<1>1. ASSUME NEW a \in Procs, Step(a) PROVE HalfInv'
  <2>1. Frame(a)
    BY <1>1, StepSafe DEF Safe
  <2>2. Within(a)' /\ Stopped(a)'
    BY <1>1, HalfOwn DEF HalfInv
  <2>3. \A b \in Procs \ {a} : Within(b)' /\ Stopped(b)'
    BY <2>1, HalfOthers DEF HalfInv
  <2> QED
    BY <2>2, <2>3 DEF HalfInv
<1>2. ASSUME NEW h \in Hosts, Crash(h) PROVE HalfInv'
  <2>1. /\ UNCHANGED <<rows, link, leak, pv, grp>>
        /\ \A a \in Procs : pc'[a] = pc[a] \/ pc'[a] = "crashed"
    BY <1>2 DEF Crash, writing, store, IInv, TypeOK
  <2>2. ASSUME NEW a \in Procs PROVE Within(a)' /\ Stopped(a)'
    <3>1. CASE pc'[a] = pc[a]
      BY <2>1, <3>1 DEF HalfInv, Within, Stopped, Linkable, Excused, Sum
    <3>2. CASE pc'[a] = "crashed"
      BY <3>2, SummaryFacts DEF Within, Stopped, Linkable
    <3> QED
      BY <2>1, <3>1, <3>2
  <2> QED
    BY <2>2 DEF HalfInv
<1>3. CASE UNCHANGED vars
  BY <1>3 DEF vars, HalfInv, Within, Stopped, Linkable, Excused, Sum
<1> QED
  BY <1>1, <1>2, <1>3 DEF Next

LEMMA HalfAlways == Spec => [](IInv /\ HalfInv)
BY IInvInit, IInvStep, HalfInit, HalfStep, PTL DEF Spec

\* As long as neither the marking nor the clearing of links throws, an
\* execution that ended, host alive, without success holds no source compacted,
\* whatever else threw and whoever else ran ("rollback restores all affected
\* rows and vectors"): these two calls are the only ways to break the promise.
THEOREM NothingHalfApplied ==
    ASSUME "mark" \notin FaultyCalls, "clear" \notin FaultyCalls
    PROVE  Spec => []NoHalfApplied
<1>1. IInv /\ HalfInv => NoHalfApplied
  BY DEF HalfInv, Within, Stopped, Linkable, Excused, NoHalfApplied
<1> QED
  BY <1>1, HalfAlways, PTL

\* What a throwing mark leaves: the groups before the failing one applied as
\* a whole, the failing one not at all but with its summary active beside its
\* sources, and nothing of the groups after it.
ThrownBetweenGroups ==
    \A a \in Procs : pc[a] = "thrown" =>
        \A n \in 1..GroupCount(a) :
            /\ n < grp[a] => /\ Active(Summary(a, n))
                             /\ \A s \in Groups[pv[a]][n] : link[s] = Summary(a, n)
            /\ n = grp[a] => Active(Summary(a, n)) /\ NoLink(a, n)
            /\ n > grp[a] => Clean(a, n)

\* An apply whose mark throws leaves the preview applied up to the group that
\* failed, and no group applied in part; the failing group's content is in the
\* store twice (applyContinuityCompactionProposalGroups: nothing catches its mark).
THEOREM AThrowStopsBetweenGroups == Spec => []ThrownBetweenGroups
<1>1. IInv /\ HalfInv => ThrownBetweenGroups
  <2> SUFFICES ASSUME IInv, HalfInv, NEW a \in Procs, pc[a] = "thrown", NEW n \in 1..GroupCount(a)
               PROVE  /\ n < grp[a] => /\ Active(Summary(a, n))
                                       /\ \A s \in Groups[pv[a]][n] : link[s] = Summary(a, n)
                      /\ n = grp[a] => Active(Summary(a, n)) /\ NoLink(a, n)
                      /\ n > grp[a] => Clean(a, n)
    BY DEF ThrownBetweenGroups
  <2>1. /\ grp[a] \in 1..MaxGroups /\ MaxGroups \in Nat /\ GroupCount(a) \in 1..MaxGroups
        /\ n \in 1..MaxGroups /\ pv[a] \in Previews
    BY CurrentGroup
  <2>2. /\ Within(a) /\ ~leak[a] /\ Sum(a) \in rows /\ Linkable(a) = grp[a] - 1 /\ Reached(a) = grp[a]
        /\ \A m \in 1..(grp[a] - 1) : \A s \in Groups[pv[a]][m] : link[s] = Summary(a, m)
    BY DEF HalfInv, Stopped, Linkable, Reached
  <2>3. Links(a) /\ Progress(a)
    BY DEF IInv, Execution
  <2>4. link[Summary(a, n)] = NoId
    BY <2>1, SummaryFacts DEF IInv, Compacting
  <2>5. CASE n < grp[a]
    <3>1. Groups[pv[a]][n] /= {} /\ Groups[pv[a]][n] \subseteq Entries
      BY <2>1, GroupFacts DEF GroupCount
    <3>2. PICK s \in Groups[pv[a]][n] : link[s] = Summary(a, n)
      BY <2>1, <2>2, <2>5, <3>1
    <3>3. Summary(a, n) \in rows
      BY <2>1, <2>2, <2>3, <3>1, <3>2 DEF Links, Excused
    <3> QED
      BY <2>1, <2>2, <2>4, <2>5, <3>3 DEF Active
  <2>6. CASE n = grp[a]
    BY <2>1, <2>2, <2>4, <2>6 DEF Active, Sum, NoLink, Within, Excused
  <2>7. CASE n > grp[a]
    BY <2>1, <2>2, <2>3, <2>7 DEF Progress
  <2> QED
    BY <2>1, <2>5, <2>6, <2>7
<1> QED
  BY <1>1, HalfAlways, PTL
=============================================================================
