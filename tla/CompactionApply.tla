--------------------------- MODULE CompactionApply ---------------------------
(***************************************************************************)
(* Concurrent executions of continuity_compact_apply over the continuity   *)
(* store.  One execution applies one approved preview: group by group it   *)
(* writes a summary entry, marks the group's sources as compacted into it  *)
(* and deletes the sources' vectors; last of all it marks the preview      *)
(* applied.  There is no transaction around this.  What fails is rolled    *)
(* back by compensation: the failing group first, then the groups already  *)
(* applied, newest first.                                                  *)
(*                                                                         *)
(* The preview's own checks (scope, approval, expiry, budget) belong to    *)
(* CompactionPreviews; here a preview is its groups and whether its row is *)
(* already 'applied'.                                                      *)
(***************************************************************************)
EXTENDS EntryWriting, Sequences

CONSTANTS
    Entries,    \* the continuity entries in the store at the start
    Previews,   \* approved previews
    Groups,     \* [Previews -> Seq(SUBSET Entries)], source ids per group
    MaxGroups   \* bound on the groups of a preview

\* The summary id an execution draws (randomUUID) for its group n.
Summary(a, n) == <<a, n>>
Summaries == {Summary(a, n) : a \in Procs, n \in 1..MaxGroups}

\* Preview validation vetoes empty proposals, groups of fewer than two
\* sources and sources shared by two groups of one proposal.
ASSUME ApplyAssumption ==
    /\ MaxGroups \in Nat
    /\ Ids = Entries \cup Summaries
    /\ Entries \cap Summaries = {}
    /\ Groups \in [Previews -> Seq(SUBSET Entries)]
    /\ \A p \in Previews :
         /\ Len(Groups[p]) \in 1..MaxGroups
         /\ \A m \in DOMAIN Groups[p] :
              IsFiniteSet(Groups[p][m]) /\ Cardinality(Groups[p][m]) >= 2
         /\ \A m, n \in DOMAIN Groups[p] :
              m /= n => Groups[p][m] \cap Groups[p][n] = {}

VARIABLES
    applied,    \* previews whose row has status 'applied'
    pc,         \* control state of an execution
    pv,         \* the preview it applies
    grp,        \* the group it is working on, forward or backward
    todo,       \* sources of that group its current loop has left
    cur,        \* the source that loop is working on
    vfail,      \* a source vector of the current group could not be deleted
    restore     \* the rollback of the current group re-indexes its sources

control == <<pc, pv, grp, todo, cur, vfail, restore>>
vars == <<rows, link, status, vec, ix, faults, wr, leak, applied,
          pc, pv, grp, todo, cur, vfail, restore>>

Forward == {"read", "write", "mark", "drop", "dropStatus", "commit"}
Backward == {"clear", "deleteSummary", "summaryVector", "summaryStatus",
             "restore", "restoring"}
Ended == {"success", "rejected", "thrown", "crashed"}

TypeOK ==
    /\ StoreType
    /\ IndexingType
    /\ WritingType
    /\ applied \in SUBSET Previews
    /\ pc \in [Procs -> {"idle"} \cup Forward \cup Backward \cup Ended]
    /\ pv \in [Procs -> Previews]
    /\ grp \in [Procs -> 1..MaxGroups]
    /\ todo \in [Procs -> SUBSET Entries]
    /\ cur \in [Procs -> Entries \cup {NoId}]
    /\ vfail \in [Procs -> BOOLEAN]
    /\ restore \in [Procs -> BOOLEAN]

Init ==
    /\ StoreInit(Entries)
    /\ IndexingInit
    /\ WritingInit
    /\ applied = {}
    /\ pc = [a \in Procs |-> "idle"]
    /\ pv \in [Procs -> Previews]
    /\ grp = [a \in Procs |-> 1]
    /\ todo = [a \in Procs |-> {}]
    /\ cur = [a \in Procs |-> NoId]
    /\ vfail = [a \in Procs |-> FALSE]
    /\ restore = [a \in Procs |-> FALSE]

-----------------------------------------------------------------------------
GroupCount(a) == Len(Groups[pv[a]])
Sources(p) == UNION {Groups[p][n] : n \in DOMAIN Groups[p]}
Source(a) == Groups[pv[a]][grp[a]]
Sum(a) == Summary(a, grp[a])

Suspended(a) ==
    \/ pc[a] \in {"idle", "commit"} \cup Ended
    \/ ix[a] \in {"embed", "ok", "error"}
    \/ wr[a] \in {"stored", "rejected"}

\* a's event loop is free to run it.
Runs(a) == \A q \in Procs \ {a} : Host[q] = Host[a] => Suspended(q)

Goes(a, label) == pc' = [pc EXCEPT ![a] = label]

\* Mutant: the loop does not stop before group 0.
UndoPastFirst(a, n) ==
    /\ Goes(a, "clear")
    /\ grp' = [grp EXCEPT ![a] = n]
    /\ restore' = [restore EXCEPT ![a] = TRUE]
    /\ UNCHANGED <<pv, todo, cur, vfail>>

\* Mutant: the loop stops after group 2.
UndoButFirst(a, n) ==
    /\ IF n <= 1
       THEN Goes(a, "rejected") /\ UNCHANGED <<grp, restore>>
       ELSE /\ Goes(a, "clear")
            /\ grp' = [grp EXCEPT ![a] = n]
            /\ restore' = [restore EXCEPT ![a] = TRUE]
    /\ UNCHANGED <<pv, todo, cur, vfail>>

\* Mutant: the links of an applied group are not cleared.
UndoKeepingLinks(a, n) ==
    /\ IF n = 0
       THEN Goes(a, "rejected") /\ UNCHANGED <<grp, restore>>
       ELSE /\ Goes(a, "deleteSummary")
            /\ grp' = [grp EXCEPT ![a] = n]
            /\ restore' = [restore EXCEPT ![a] = TRUE]
    /\ UNCHANGED <<pv, todo, cur, vfail>>

\* Roll back the applied groups n, n-1, ..., 1 (rollbackAppliedGroups).
Undo(a, n) ==
    /\ IF n = 0
       THEN Goes(a, "rejected") /\ UNCHANGED <<grp, restore>>
       ELSE /\ Goes(a, "clear")
            /\ grp' = [grp EXCEPT ![a] = n]
            /\ restore' = [restore EXCEPT ![a] = TRUE]
    /\ UNCHANGED <<pv, todo, cur, vfail>>

\* Start group n: its summary is written first.
BeginGroup(a, n) ==
    /\ grp' = [grp EXCEPT ![a] = n]
    /\ vfail' = [vfail EXCEPT ![a] = FALSE]
    /\ WriteCalls(a)
    /\ Goes(a, "write")
    /\ UNCHANGED <<pv, todo, cur, restore>>

-----------------------------------------------------------------------------
(* Forward.                                                                *)

Begin(a) ==
    /\ pc[a] = "idle"
    /\ \/ pv[a] \notin applied /\ Goes(a, "read")
       \/ pv[a] \in applied /\ Goes(a, "rejected")
    /\ UNCHANGED <<writing, applied, pv, grp, todo, cur, vfail, restore>>

\* readContinuityEntriesByIds answers with no rows when the read throws.
ReadSources(a) ==
    /\ pc[a] = "read"
    /\ \/ /\ \A s \in Sources(pv[a]) : Active(s)
          /\ BeginGroup(a, 1)
          /\ UNCHANGED faults
       \/ /\ \E s \in Sources(pv[a]) : ~Active(s)
          /\ Goes(a, "rejected")
          /\ UNCHANGED <<faults, wr, pv, grp, todo, cur, vfail, restore>>
       \/ /\ Throws("read")
          /\ Goes(a, "rejected")
          /\ UNCHANGED <<wr, pv, grp, todo, cur, vfail, restore>>
    /\ UNCHANGED <<store, ix, leak, applied>>

WriteSummary(a) ==
    /\ pc[a] = "write"
    /\ WriteStep(a, Sum(a))
    /\ UNCHANGED <<control, applied>>

SummaryWritten(a) ==
    /\ pc[a] = "write"
    /\ \/ wr[a] = "stored" /\ Goes(a, "mark")
          /\ UNCHANGED <<pv, grp, todo, cur, vfail, restore>>
       \/ wr[a] = "rejected" /\ Undo(a, grp[a] - 1)
    /\ WriteReturns(a)
    /\ UNCHANGED <<store, ix, faults, leak, applied>>

\* A mark that throws leaves the handler: nothing catches it.
Mark(a) ==
    /\ pc[a] = "mark"
    /\ \/ /\ MarkCount(Source(a)) = Cardinality(Source(a))
          /\ MarkCompacted(Source(a), Sum(a))
          /\ todo' = [todo EXCEPT ![a] = Source(a)]
          /\ Goes(a, "drop")
          /\ UNCHANGED <<faults, restore>>
       \/ /\ MarkCount(Source(a)) /= Cardinality(Source(a))
          /\ MarkCompacted(Source(a), Sum(a))
          /\ restore' = [restore EXCEPT ![a] = FALSE]
          /\ Goes(a, "clear")
          /\ UNCHANGED <<faults, todo>>
       \/ /\ Throws("mark")
          /\ Goes(a, "thrown")
          /\ UNCHANGED <<todo, restore>>
    /\ UNCHANGED <<ix, wr, leak, applied, pv, grp, cur, vfail>>

\* deleteContinuityVectorEntry for each source of the group.
DropSourceVector(a) ==
    /\ pc[a] = "drop"
    /\ \E s \in todo[a] :
         \/ /\ status[s] = "absent"
            /\ todo' = [todo EXCEPT ![a] = @ \ {s}]
            /\ UNCHANGED <<store, faults, pc, cur, vfail>>
         \/ /\ status[s] /= "absent"
            /\ DropVector(s)
            /\ cur' = [cur EXCEPT ![a] = s]
            /\ Goes(a, "dropStatus")
            /\ UNCHANGED <<faults, todo, vfail>>
         \/ /\ Throws("vector")
            /\ vfail' = [vfail EXCEPT ![a] = TRUE]
            /\ todo' = [todo EXCEPT ![a] = @ \ {s}]
            /\ UNCHANGED <<pc, cur>>
    /\ UNCHANGED <<ix, wr, leak, applied, pv, grp, restore>>

\* Mutant: only the vector row is deleted.
DropSourceStatusNever(a) ==
    /\ pc[a] = "dropStatus"
    /\ todo' = [todo EXCEPT ![a] = @ \ {cur[a]}]
    /\ cur' = [cur EXCEPT ![a] = NoId]
    /\ Goes(a, "drop")
    /\ UNCHANGED <<writing, applied, pv, grp, vfail, restore>>

DropSourceStatus(a) ==
    /\ pc[a] = "dropStatus"
    /\ \/ DropStatus(cur[a]) /\ UNCHANGED <<faults, vfail>>
       \/ Throws("vectorStatus") /\ vfail' = [vfail EXCEPT ![a] = TRUE]
    /\ todo' = [todo EXCEPT ![a] = @ \ {cur[a]}]
    /\ cur' = [cur EXCEPT ![a] = NoId]
    /\ Goes(a, "drop")
    /\ UNCHANGED <<ix, wr, leak, applied, pv, grp, restore>>

GroupDone(a) ==
    /\ pc[a] = "drop"
    /\ todo[a] = {}
    /\ \/ /\ vfail[a]
          /\ restore' = [restore EXCEPT ![a] = TRUE]
          /\ Goes(a, "clear")
          /\ UNCHANGED <<wr, pv, grp, todo, cur, vfail>>
       \/ /\ ~vfail[a]
          /\ grp[a] < GroupCount(a)
          /\ BeginGroup(a, grp[a] + 1)
       \/ /\ ~vfail[a]
          /\ grp[a] = GroupCount(a)
          /\ Goes(a, "commit")
          /\ UNCHANGED <<wr, pv, grp, todo, cur, vfail, restore>>
    /\ UNCHANGED <<store, ix, faults, leak, applied>>

\* The status update: it succeeds, finds no row of that id (the row was
\* purged, or the id was passed with surrounding blanks), or throws.
Commit(a) ==
    /\ pc[a] = "commit"
    /\ \/ /\ applied' = applied \cup {pv[a]}
          /\ Goes(a, "success")
          /\ UNCHANGED <<store, faults, pv, grp, todo, cur, vfail, restore>>
       \/ /\ Undo(a, GroupCount(a))
          /\ UNCHANGED <<store, faults, applied>>
       \/ /\ Throws("commit")
          /\ Undo(a, GroupCount(a))
          /\ UNCHANGED applied
    /\ UNCHANGED <<ix, wr, leak>>

-----------------------------------------------------------------------------
(* Backward: cleanupCompactionSummaryState for the current group, then     *)
(* restoreCompactionSourceVectors, then the group before it.               *)

ClearLinks(a) ==
    /\ pc[a] = "clear"
    /\ \/ ClearCompacted(Source(a), Sum(a)) /\ UNCHANGED <<faults, leak>>
       \/ Throws("clear") /\ Reports(a)
    /\ Goes(a, "deleteSummary")
    /\ UNCHANGED <<ix, wr, applied, pv, grp, todo, cur, vfail, restore>>

DeleteSummary(a) ==
    /\ pc[a] = "deleteSummary"
    /\ \/ DeleteRow(Sum(a)) /\ UNCHANGED <<faults, leak>>
       \/ Throws("delete") /\ Reports(a)
    /\ Goes(a, "summaryVector")
    /\ UNCHANGED <<ix, wr, applied, pv, grp, todo, cur, vfail, restore>>

\* Mutant: the source vectors are not restored.
CleanedUpOnly(a) == Undo(a, grp[a] - 1)

CleanedUp(a) ==
    IF restore[a]
    THEN /\ todo' = [todo EXCEPT ![a] = Source(a)]
         /\ Goes(a, "restore")
         /\ UNCHANGED <<pv, grp, cur, vfail, restore>>
    ELSE Undo(a, grp[a] - 1)

DropSummaryVector(a) ==
    /\ pc[a] = "summaryVector"
    /\ \/ /\ status[Sum(a)] = "absent"
          /\ CleanedUp(a)
          /\ UNCHANGED <<store, faults, leak>>
       \/ /\ status[Sum(a)] /= "absent"
          /\ DropVector(Sum(a))
          /\ Goes(a, "summaryStatus")
          /\ UNCHANGED <<faults, leak, pv, grp, todo, cur, vfail, restore>>
       \/ /\ Throws("vector")
          /\ Reports(a)
          /\ CleanedUp(a)
    /\ UNCHANGED <<ix, wr, applied>>

DropSummaryStatus(a) ==
    /\ pc[a] = "summaryStatus"
    /\ \/ DropStatus(Sum(a)) /\ UNCHANGED <<faults, leak>>
       \/ Throws("vectorStatus") /\ Reports(a)
    /\ CleanedUp(a)
    /\ UNCHANGED <<ix, wr, applied>>

RestoreVector(a) ==
    /\ pc[a] = "restore"
    /\ \E s \in todo[a] : cur' = [cur EXCEPT ![a] = s]
    /\ IndexCalls(a)
    /\ Goes(a, "restoring")
    /\ UNCHANGED <<store, faults, wr, leak, applied, pv, grp, todo, vfail, restore>>

RestoringVector(a) ==
    /\ pc[a] = "restoring"
    /\ IndexStep(a, cur[a])
    /\ UNCHANGED <<wr, leak, applied, control>>

\* Mutant: a vector that could not be restored is tried again.
RestoredVectorOrRetry(a) ==
    /\ pc[a] = "restoring"
    /\ ix[a] \in {"ok", "error"}
    /\ IndexReturns(a)
    /\ todo' = IF ix[a] = "ok" THEN [todo EXCEPT ![a] = @ \ {cur[a]}] ELSE todo
    /\ cur' = [cur EXCEPT ![a] = NoId]
    /\ Goes(a, "restore")
    /\ UNCHANGED <<store, faults, wr, leak, applied, pv, grp, vfail, restore>>

RestoredVector(a) ==
    /\ pc[a] = "restoring"
    /\ \/ ix[a] = "ok" /\ UNCHANGED leak
       \/ ix[a] = "error" /\ Reports(a)
    /\ IndexReturns(a)
    /\ todo' = [todo EXCEPT ![a] = @ \ {cur[a]}]
    /\ cur' = [cur EXCEPT ![a] = NoId]
    /\ Goes(a, "restore")
    /\ UNCHANGED <<store, faults, wr, applied, pv, grp, vfail, restore>>

GroupUndone(a) ==
    /\ pc[a] = "restore"
    /\ todo[a] = {}
    /\ Undo(a, grp[a] - 1)
    /\ UNCHANGED <<writing, applied>>

-----------------------------------------------------------------------------
GoForward(a) ==
    \/ Begin(a)
    \/ ReadSources(a)
    \/ WriteSummary(a)
    \/ SummaryWritten(a)
    \/ Mark(a)
    \/ DropSourceVector(a)
    \/ DropSourceStatus(a)
    \/ GroupDone(a)
    \/ Commit(a)

GoBack(a) ==
    \/ ClearLinks(a)
    \/ DeleteSummary(a)
    \/ DropSummaryVector(a)
    \/ DropSummaryStatus(a)
    \/ RestoreVector(a)
    \/ RestoringVector(a)
    \/ RestoredVector(a)
    \/ GroupUndone(a)

Step(a) == Runs(a) /\ (GoForward(a) \/ GoBack(a))

\* The host dies; what its executions committed so far stays in the file.
Crash(h) ==
    /\ \E a \in Procs : Host[a] = h /\ pc[a] \notin Ended
    /\ pc' = [a \in Procs |-> IF Host[a] = h /\ pc[a] \notin Ended
                              THEN "crashed" ELSE pc[a]]
    /\ UNCHANGED <<writing, applied, pv, grp, todo, cur, vfail, restore>>

Finished == \A a \in Procs : pc[a] \in Ended

Next ==
    \/ \E a \in Procs : Step(a)
    \/ \E h \in Hosts : Crash(h)
    \/ Finished /\ UNCHANGED vars

\* The event loop runs every execution whose turn it is; embedText settles.
Fairness == \A a \in Procs : WF_vars(Step(a))

Spec == Init /\ [][Next]_vars /\ Fairness

\* Without a crash of a host.
SteadyNext == (\E a \in Procs : Step(a)) \/ (Finished /\ UNCHANGED vars)
SteadySpec == Init /\ [][SteadyNext]_vars /\ Fairness

-----------------------------------------------------------------------------
(* Properties.                                                             *)

\* An apply that reported success stays whole, whatever other executions do,
\* roll back or lose: every source of every group is linked to the group's
\* summary, which is an active, searchable row.
CommittedIntact ==
    \A a \in Procs : pc[a] = "success" =>
        \A n \in 1..GroupCount(a) :
            /\ Active(Summary(a, n))
            /\ Searchable(Summary(a, n))
            /\ \A s \in Groups[pv[a]][n] : s \in rows /\ link[s] = Summary(a, n)

\* Nothing is hidden behind a summary that does not exist: reads leave out a
\* compacted row, so a dangling link would lose its content.
NoDanglingLink == \A i \in rows : link[i] /= NoId => link[i] \in rows

\* A rejected execution that reports no rollback failure left no trace: no
\* source linked to a summary of its own, no summary row, no status row.
RejectedLeavesNoTrace ==
    \A a \in Procs : pc[a] = "rejected" /\ ~leak[a] =>
        \A n \in 1..MaxGroups :
            /\ Summary(a, n) \notin rows
            /\ status[Summary(a, n)] = "absent"
            /\ \A s \in Entries : link[s] /= Summary(a, n)

\* Once all executions have ended, and none crashed, threw or reported a
\* rollback failure, every active entry can be found by semantic search.
ActiveSearchable ==
    (\A a \in Procs : pc[a] \in {"success", "rejected"} /\ ~leak[a]) =>
        \A i \in rows : Active(i) => Searchable(i)

\* Once all executions have ended (one at a time, or several that share no
\* source), whatever failed on the way and as long as no rollback did, a compacted
\* entry is out of the vector index.
CompactedUnindexed ==
    (\A a \in Procs : pc[a] \in Ended \ {"crashed"} /\ ~leak[a]) =>
        \A i \in rows : link[i] /= NoId => status[i] = "absent"

\* An execution that ended, host alive, without success holds no source
\* compacted ("rollback restores all affected rows and vectors").
NoHalfApplied ==
    \A a \in Procs : pc[a] \in {"rejected", "thrown"} =>
        \A s \in Entries, n \in 1..MaxGroups : link[s] /= Summary(a, n)

\* Every execution ends, also the ones that roll back.
EveryApplyEnds == <>Finished

(* Readers see the groups of a preview compacted all together, at the      *)
(* commit, and for good.                                                   *)
Absorbed == [s \in Entries |->
    IF \E a \in Procs, n \in 1..MaxGroups :
            pc[a] = "success" /\ link[s] = Summary(a, n)
    THEN link[s] ELSE NoId]

Ledger == INSTANCE CompactionLedger
            WITH Executions <- Procs, absorbed <- Absorbed, done <- applied

\* The saga implements atomic compaction.
AtomicCompaction == Ledger!Spec
=============================================================================
