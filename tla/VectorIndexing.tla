--------------------------- MODULE VectorIndexing ----------------------------
(***************************************************************************)
(* indexContinuityVectorEntry as a call a process makes: a subroutine with *)
(* its own phase ix[p], stepped by the specifications that use it.  The    *)
(* call reads the status row and checks the rowid for a collision, then    *)
(* AWAITS the embedding, and only then writes: everything it read may have *)
(* changed by the time it writes.                                          *)
(*                                                                         *)
(* Also the two statements of deleteContinuityVectorEntry.                 *)
(*                                                                         *)
(* A database call may throw (SQLITE_BUSY after the driver's timeout, disk *)
(* full): `faults` bounds how often that happens in a behaviour and        *)
(* FaultyCalls names the calls it may happen to.                           *)
(*                                                                         *)
(* Scheduling.  Callers on one host share a JavaScript event loop: a caller*)
(* runs from one await to the next without another caller of its host in   *)
(* between.  Callers on different hosts (two sessions on one database      *)
(* file) interleave statement by statement.                                *)
(***************************************************************************)
EXTENDS ContinuityStore

CONSTANTS
    Procs,          \* concurrent callers
    Hosts,          \* operating-system processes
    Host,           \* [Procs -> Hosts]
    MaxFaults,      \* bound on the calls that throw in one behaviour
    FaultyCalls     \* which of the calls may throw

ASSUME IndexingAssumption ==
    /\ Host \in [Procs -> Hosts]
    /\ MaxFaults \in Nat

VARIABLES
    ix,             \* phase of a process's index call
    faults          \* faults still available

IndexPhase == {"idle", "check", "embed", "vector", "status", "failed", "ok", "error"}

IndexingType ==
    /\ ix \in [Procs -> IndexPhase]
    /\ faults \in 0..MaxFaults

IndexingInit ==
    /\ ix = [p \in Procs |-> "idle"]
    /\ faults = MaxFaults

Throws(call) ==
    /\ call \in FaultyCalls
    /\ faults > 0
    /\ faults' = faults - 1
    /\ UNCHANGED store

IndexCalls(p) == ix' = [ix EXCEPT ![p] = "check"]
IndexReturns(p) == ix' = [ix EXCEPT ![p] = "idle"]

-----------------------------------------------------------------------------
\* From the entry of the call to `await embedText`.
IndexCheck(p, id) ==
    /\ ix[p] = "check"
    /\ \/ /\ status[id] = "indexed"
          /\ ix' = [ix EXCEPT ![p] = "ok"]
          /\ UNCHANGED <<store, faults>>
       \/ /\ status[id] /= "indexed"
          /\ Collides(id)
          /\ PutStatus(id, "failed")
          /\ ix' = [ix EXCEPT ![p] = "error"]
          /\ UNCHANGED faults
       \/ /\ status[id] /= "indexed"
          /\ ~Collides(id)
          /\ ix' = [ix EXCEPT ![p] = "embed"]
          /\ UNCHANGED <<store, faults>>
       \/ /\ Throws("index")
          /\ ix' = [ix EXCEPT ![p] = "error"]

\* The awaited embedding settles.
IndexEmbed(p) ==
    /\ ix[p] = "embed"
    /\ \E next \in {"vector", "failed"} : ix' = [ix EXCEPT ![p] = next]
    /\ UNCHANGED <<store, faults>>

IndexPutVector(p, id) ==
    /\ ix[p] = "vector"
    /\ \/ /\ PutVector(id)
          /\ ix' = [ix EXCEPT ![p] = "status"]
          /\ UNCHANGED faults
       \/ /\ Throws("index")
          /\ ix' = [ix EXCEPT ![p] = "failed"]

IndexPutStatus(p, id) ==
    /\ ix[p] = "status"
    /\ \/ /\ PutStatus(id, "indexed")
          /\ ix' = [ix EXCEPT ![p] = "ok"]
          /\ UNCHANGED faults
       \/ /\ Throws("index")
          /\ ix' = [ix EXCEPT ![p] = "failed"]

\* Mutant: after recording the failure the call tries again.
IndexRecordFailureAndRetry(p, id) ==
    /\ ix[p] = "failed"
    /\ PutStatus(id, "failed") /\ UNCHANGED faults
    /\ ix' = [ix EXCEPT ![p] = "check"]

\* The catch block records the failure; if that throws too the outer catch
\* still returns an error.
IndexRecordFailure(p, id) ==
    /\ ix[p] = "failed"
    /\ \/ PutStatus(id, "failed") /\ UNCHANGED faults
       \/ Throws("index")
    /\ ix' = [ix EXCEPT ![p] = "error"]

IndexStep(p, id) ==
    \/ IndexCheck(p, id)
    \/ IndexEmbed(p)
    \/ IndexPutVector(p, id)
    \/ IndexPutStatus(p, id)
    \/ IndexRecordFailure(p, id)
=============================================================================
