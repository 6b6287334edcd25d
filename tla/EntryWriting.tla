---------------------------- MODULE EntryWriting -----------------------------
(***************************************************************************)
(* storeContinuityEntryWithVectorConsistency: store the row, index it, and *)
(* when indexing fails delete the row and then the vector state, reporting *)
(* a deletion that failed.  A subroutine with its own phase wr[p], used by *)
(* the write tool, the automatic dual write and compaction apply.          *)
(***************************************************************************)
EXTENDS VectorIndexing

VARIABLES
    wr,         \* phase of a process's store call
    leak        \* leak[p]: a rollback step of p failed and is reported

WritePhase == {"idle", "store", "index", "undoRow", "undoVector", "undoStatus",
               "stored", "rejected"}

WritingType ==
    /\ wr \in [Procs -> WritePhase]
    /\ leak \in [Procs -> BOOLEAN]

WritingInit ==
    /\ wr = [p \in Procs |-> "idle"]
    /\ leak = [p \in Procs |-> FALSE]

writing == <<store, ix, faults, wr, leak>>

WriteCalls(p) == wr' = [wr EXCEPT ![p] = "store"]
WriteReturns(p) == wr' = [wr EXCEPT ![p] = "idle"]

Reports(p) == leak' = [leak EXCEPT ![p] = TRUE]

-----------------------------------------------------------------------------
WriteStoreRow(p, id) ==
    /\ wr[p] = "store"
    /\ \/ /\ InsertRow(id)
          /\ wr' = [wr EXCEPT ![p] = "index"]
          /\ IndexCalls(p)
          /\ UNCHANGED faults
       \/ /\ Throws("store")
          /\ wr' = [wr EXCEPT ![p] = "rejected"]
          /\ UNCHANGED ix
    /\ UNCHANGED leak

WriteIndexing(p, id) ==
    /\ wr[p] = "index"
    /\ IndexStep(p, id)
    /\ UNCHANGED <<wr, leak>>

\* Mutant: the answer of the index call is handed on as it is.
WriteIndexedUnmapped(p) ==
    /\ wr[p] = "index"
    /\ ix[p] \in {"ok", "error"}
    /\ wr' = [wr EXCEPT ![p] = ix[p]]
    /\ IndexReturns(p)
    /\ UNCHANGED <<store, faults, leak>>

\* Mutant: an entry that could not be indexed is kept for lexical reads.
WriteIndexedOrLexical(p) ==
    /\ wr[p] = "index"
    /\ ix[p] \in {"ok", "error"}
    /\ wr' = [wr EXCEPT ![p] = "stored"]
    /\ IndexReturns(p)
    /\ UNCHANGED <<store, faults, leak>>

WriteIndexed(p) ==
    /\ wr[p] = "index"
    /\ \/ ix[p] = "ok" /\ wr' = [wr EXCEPT ![p] = "stored"]
       \/ ix[p] = "error" /\ wr' = [wr EXCEPT ![p] = "undoRow"]
    /\ IndexReturns(p)
    /\ UNCHANGED <<store, faults, leak>>

\* Mutant: a deletion that throws is swallowed.
WriteUndoRowSilently(p, id) ==
    /\ wr[p] = "undoRow"
    /\ \/ DeleteRow(id) /\ UNCHANGED faults
       \/ Throws("delete")
    /\ wr' = [wr EXCEPT ![p] = "undoVector"]
    /\ UNCHANGED <<ix, leak>>

WriteUndoRow(p, id) ==
    /\ wr[p] = "undoRow"
    /\ \/ DeleteRow(id) /\ UNCHANGED <<faults, leak>>
       \/ Throws("delete") /\ Reports(p)
    /\ wr' = [wr EXCEPT ![p] = "undoVector"]
    /\ UNCHANGED ix

\* deleteContinuityVectorEntry, first half: without a status row there is
\* nothing to delete; with one, the vector at its rowid goes first.
WriteUndoVector(p, id) ==
    /\ wr[p] = "undoVector"
    /\ \/ /\ status[id] = "absent"
          /\ wr' = [wr EXCEPT ![p] = "rejected"]
          /\ UNCHANGED <<store, faults, leak>>
       \/ /\ status[id] /= "absent"
          /\ DropVector(id)
          /\ wr' = [wr EXCEPT ![p] = "undoStatus"]
          /\ UNCHANGED <<faults, leak>>
       \/ /\ Throws("vector")
          /\ Reports(p)
          /\ wr' = [wr EXCEPT ![p] = "rejected"]
    /\ UNCHANGED ix

WriteUndoStatus(p, id) ==
    /\ wr[p] = "undoStatus"
    /\ \/ DropStatus(id) /\ UNCHANGED <<faults, leak>>
       \/ Throws("vectorStatus") /\ Reports(p)
    /\ wr' = [wr EXCEPT ![p] = "rejected"]
    /\ UNCHANGED ix

WriteStep(p, id) ==
    \/ WriteStoreRow(p, id)
    \/ WriteIndexing(p, id)
    \/ WriteIndexed(p)
    \/ WriteUndoRow(p, id)
    \/ WriteUndoVector(p, id)
    \/ WriteUndoStatus(p, id)
=============================================================================
