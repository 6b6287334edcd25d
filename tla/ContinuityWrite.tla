--------------------------- MODULE ContinuityWrite ---------------------------
(***************************************************************************)
(* Concurrent calls of persistAutomaticContinuityDualWrite, behind the     *)
(* continuity_write tool and the hooks that record work automatically:     *)
(* the quality gate decides whether to write, then the entry is stored     *)
(* with its vector or not at all.                                          *)
(*                                                                         *)
(* A call is named by the entry id it generates.  Text stands for the      *)
(* semantic identity key of an entry (section, provenance, certainty and   *)
(* normalised content, inside the duplicate window and among the newest    *)
(* 600 active entries the gate looks back at).                             *)
(***************************************************************************)
EXTENDS EntryWriting

CONSTANTS
    Texts,      \* semantic identity keys
    Text,       \* [Ids -> Texts]
    LowSignal   \* the keys the low-signal heuristic refuses

ASSUME WriteAssumption ==
    /\ Procs \subseteq Ids
    /\ Text \in [Ids -> Texts]
    /\ LowSignal \subseteq Texts

VARIABLE call   \* call[p]: where a persistAutomaticContinuityDualWrite stands

vars == <<rows, link, status, vec, ix, faults, wr, leak, call>>

CallState == {"idle", "gated", "writing", "stored", "skipped", "duplicate",
              "rejected", "crashed"}

Ended == {"stored", "skipped", "duplicate", "rejected", "crashed"}

TypeOK ==
    /\ StoreType
    /\ IndexingType
    /\ WritingType
    /\ call \in [Procs -> CallState]

Init ==
    /\ StoreInit(Ids \ Procs)
    /\ IndexingInit
    /\ WritingInit
    /\ call = [p \in Procs |-> "idle"]

-----------------------------------------------------------------------------
\* Mutant: an await between the gate and the insert.
SuspendedAfterGate(p) ==
    \/ call[p] \in {"idle", "gated"}
    \/ call[p] \in Ended
    \/ ix[p] \in {"embed", "ok", "error"}
    \/ wr[p] \in {"stored", "rejected"}

\* Not started, ended, or waiting on a promise.
Suspended(p) ==
    \/ call[p] = "idle"
    \/ call[p] \in Ended
    \/ ix[p] \in {"embed", "ok", "error"}
    \/ wr[p] \in {"stored", "rejected"}

\* p's event loop is free to run it.
Runs(p) == \A q \in Procs \ {p} : Host[q] = Host[p] => Suspended(q)

Becomes(p, state) == call' = [call EXCEPT ![p] = state]

\* readContinuityEntries returns the active rows, or none when its query
\* throws; opening the database is outside its try block.
Duplicate(p) == \E r \in rows \ {p} : Active(r) /\ Text[r] = Text[p]

Gate(p) ==
    /\ call[p] = "idle"
    /\ Runs(p)
    /\ \/ Text[p] \in LowSignal /\ Becomes(p, "skipped") /\ UNCHANGED faults
       \/ Text[p] \notin LowSignal /\ Duplicate(p) /\ Becomes(p, "duplicate")
          /\ UNCHANGED faults
       \/ Text[p] \notin LowSignal /\ ~Duplicate(p) /\ Becomes(p, "gated")
          /\ UNCHANGED faults
       \/ Text[p] \notin LowSignal /\ Throws("read") /\ Becomes(p, "gated")
       \/ Text[p] \notin LowSignal /\ Throws("open") /\ Becomes(p, "rejected")
    /\ UNCHANGED <<store, ix, wr, leak>>

BeginWrite(p) ==
    /\ call[p] = "gated"
    /\ Runs(p)
    /\ WriteCalls(p)
    /\ Becomes(p, "writing")
    /\ UNCHANGED <<store, ix, faults, leak>>

Write(p) ==
    /\ call[p] = "writing"
    /\ Runs(p)
    /\ WriteStep(p, p)
    /\ UNCHANGED call

EndWrite(p) ==
    /\ call[p] = "writing"
    /\ wr[p] \in {"stored", "rejected"}
    /\ Runs(p)
    /\ Becomes(p, wr[p])
    /\ WriteReturns(p)
    /\ UNCHANGED <<store, ix, faults, leak>>

\* The host dies; what its calls committed so far stays in the file.
Crash(h) ==
    /\ \E p \in Procs : Host[p] = h /\ call[p] \notin Ended
    /\ call' = [p \in Procs |-> IF Host[p] = h /\ call[p] \notin Ended
                                THEN "crashed" ELSE call[p]]
    /\ UNCHANGED <<store, ix, faults, wr, leak>>

Step(p) == Gate(p) \/ BeginWrite(p) \/ Write(p) \/ EndWrite(p)

Finished == \A p \in Procs : call[p] \in Ended

Next ==
    \/ \E p \in Procs : Step(p)
    \/ \E h \in Hosts : Crash(h)
    \/ Finished /\ UNCHANGED vars

\* The event loop runs every call whose turn it is; embedText settles.
Fairness == \A p \in Procs : WF_vars(Step(p))

Spec == Init /\ [][Next]_vars /\ Fairness

\* Without a crash of a host.
SteadyNext == (\E p \in Procs : Step(p)) \/ (Finished /\ UNCHANGED vars)
SteadySpec == Init /\ [][SteadyNext]_vars /\ Fairness

-----------------------------------------------------------------------------
(* Properties.                                                             *)

\* p's call has deleted whatever vector stood at its rowid.
Withdrew(p) == wr[p] \in {"undoStatus", "rejected"} \/ call[p] = "rejected"

\* p's vector stands where i's did: two calls that both passed the check for a
\* collision before either had a status row.  A call finds the rowid of an
\* entry that was there before it taken.
Overwrote(p, i) == vec[RowId[i]] = p /\ (p \in Procs <=> i \in Procs)

\* p found the rowid taken, or failed, and its rollback removed the vector.
Removed(p, i) == vec[RowId[i]] = NoId /\ p \in Procs /\ Withdrew(p)

\* A stored entry marked "indexed" is ranked by its own embedding, whatever is
\* written, rolled back or lost in a crash around it; only another entry with
\* the same rowid displaces its vector, by a rollback, or by a write whose
\* await overlapped the entry's own and never later
\* (indexContinuityVectorEntry, deleteContinuityVectorEntry).
SearchSound ==
    \A i \in rows : status[i] = "indexed" =>
        \/ vec[RowId[i]] = i
        \/ \E p \in Ids \ {i} :
              RowId[p] = RowId[i] /\ (Overwrote(p, i) \/ Removed(p, i))

\* A rejected call whose rollback reports no failure left neither a row a
\* lexical read could return nor a status row that blocks a later index call
\* (storeContinuityEntryWithVectorConsistency).
RejectedLeavesNothing ==
    \A p \in Procs : call[p] = "rejected" /\ ~leak[p] =>
        p \notin rows /\ status[p] = "absent"

\* On one event loop the gate and the insert are one turn, so two calls of one
\* host never both store the same text, although the gate only reads and both
\* calls await their embedding after it; a read that throws counts as finding
\* nothing, so this holds until a call throws (evaluateContinuityWriteQualityGate).
NoDuplicateRows ==
    faults = MaxFaults => \A p, q \in rows \cap Procs :
        p /= q /\ Host[p] = Host[q] => Text[p] /= Text[q]

\* A call that was skipped as a duplicate of an existing entry has that text
\* in the store once every call is answered ("skipped duplicate entry
\* (existing timestamp=...)").
DuplicateIsStored ==
    Finished => \A p \in Procs : call[p] = "duplicate" =>
        \E r \in rows : Text[r] = Text[p]

\* Every call is answered, whatever the embedder and the database do.
EveryCallEnds == <>Finished

(* What callers may rely on: an entry becomes searchable in one step, stays *)
(* so, and the answer agrees with it, for calls that share a rowid with no  *)
(* other call.                                                              *)
Lone == {p \in Procs : \A q \in Procs \ {p} : RowId[q] /= RowId[p]}

Published == {p \in Lone : p \in rows /\ Searchable(p)}

AnswerTo(state) ==
    CASE state = "stored" -> "stored"
      [] state \in {"skipped", "duplicate", "rejected"} -> "refused"
      [] state = "crashed" -> "lost"
      [] OTHER -> "pending"

Answer == [p \in Lone |-> AnswerTo(call[p])]

Publication == INSTANCE EntryPublication
                 WITH Writes <- Lone, published <- Published, answer <- Answer

\* The write saga implements atomic publication, whatever the other calls do.
AtomicPublication == Publication!Spec
=============================================================================
