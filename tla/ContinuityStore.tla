--------------------------- MODULE ContinuityStore ---------------------------
(***************************************************************************)
(* The two tables every continuity operation works on, and the SQL         *)
(* statements the program runs against them.                               *)
(*                                                                         *)
(*   continuity_entries           rows, link   (continuity-store.ts)       *)
(*   continuity_vector_status     status       (continuity-vector-store.ts)*)
(*   the vector table             vec          (continuity-vector-store.ts)*)
(*                                                                         *)
(* Each operator below is ONE statement.  Every helper of the program      *)
(* opens a connection of its own and runs its statements in autocommit     *)
(* mode, so a statement is the unit of atomicity that other calls, other   *)
(* processes on the same database file and a crash can observe.            *)
(*                                                                         *)
(* Abstractions.  An entry is its id: ids are fresh UUIDs, so section,     *)
(* content and payload hash are functions of the id.  The vector rowid is  *)
(* a function of the id too (an int32 reduced from a hash), so two ids may *)
(* share one.  superseded_by_entry_id is NULL in every row the program     *)
(* writes, and is left out.                                                *)
(***************************************************************************)
EXTENDS Naturals, FiniteSets

CONSTANTS
    Ids,        \* every entry id the instance uses
    RowIds,     \* vector rowids
    RowId,      \* [Ids -> RowIds], buildDeterministicVectorRowId
    NoId        \* SQL NULL

ASSUME StoreAssumption ==
    /\ RowId \in [Ids -> RowIds]
    /\ NoId \notin Ids

VARIABLES
    rows,       \* ids present in continuity_entries
    link,       \* compacted_into_entry_id of a row
    status,     \* index_state of an entry's status row
    vec         \* vec[r]: whose embedding the vector table holds at rowid r

store == <<rows, link, status, vec>>

IndexState == {"absent", "indexed", "failed"}

StoreType ==
    /\ rows \in SUBSET Ids
    /\ link \in [Ids -> Ids \cup {NoId}]
    /\ status \in [Ids -> IndexState]
    /\ vec \in [RowIds -> Ids \cup {NoId}]

\* A database whose active entries are `present`, all of them indexed.
StoreInit(present) ==
    /\ rows = present
    /\ link = [i \in Ids |-> NoId]
    /\ status = [i \in Ids |-> IF i \in present THEN "indexed" ELSE "absent"]
    /\ vec = [r \in RowIds |->
                IF \E i \in present : RowId[i] = r
                THEN CHOOSE i \in present : RowId[i] = r
                ELSE NoId]

-----------------------------------------------------------------------------
(* What a reader sees.                                                     *)

Active(id) == id \in rows /\ link[id] = NoId

\* A semantic search returns id, and ranks it by its own embedding.
Searchable(id) == status[id] = "indexed" /\ vec[RowId[id]] = id

RowIdsInjective == \A i, j \in Ids : RowId[i] = RowId[j] => i = j

-----------------------------------------------------------------------------
(* continuity_entries.                                                     *)

\* INSERT OR REPLACE without the link columns: a replaced row loses its link.
InsertRow(id) ==
    /\ rows' = rows \cup {id}
    /\ link' = [link EXCEPT ![id] = NoId]
    /\ UNCHANGED <<status, vec>>

DeleteRow(id) ==
    /\ rows' = rows \ {id}
    /\ link' = [link EXCEPT ![id] = NoId]
    /\ UNCHANGED <<status, vec>>

\* UPDATE ... WHERE id IN sources AND superseded IS NULL AND compacted IS NULL
MarkCompacted(sources, summary) ==
    /\ link' = [i \in Ids |-> IF i \in sources /\ Active(i)
                              THEN summary ELSE link[i]]
    /\ UNCHANGED <<rows, status, vec>>

\* Mutant: the number of rows asked for, not the number changed.
MarkCountAssumed(sources) == Cardinality(sources)

\* What changes() returns for that UPDATE.
MarkCount(sources) == Cardinality({i \in sources : Active(i)})

\* Mutant: the UPDATE forgets whose links it may clear.
ClearAnyCompacted(sources, summary) ==
    /\ link' = [i \in Ids |-> IF i \in sources THEN NoId ELSE link[i]]
    /\ UNCHANGED <<rows, status, vec>>

\* UPDATE ... WHERE id IN sources AND compacted_into_entry_id = summary
ClearCompacted(sources, summary) ==
    /\ link' = [i \in Ids |-> IF i \in sources /\ link[i] = summary
                              THEN NoId ELSE link[i]]
    /\ UNCHANGED <<rows, status, vec>>

-----------------------------------------------------------------------------
(* The vector index.  A status row always carries RowId[id].               *)

PutStatus(id, state) ==
    /\ status' = [status EXCEPT ![id] = state]
    /\ UNCHANGED <<rows, link, vec>>

DropStatus(id) ==
    /\ status' = [status EXCEPT ![id] = "absent"]
    /\ UNCHANGED <<rows, link, vec>>

\* INSERT OR REPLACE at the entry's rowid, whoever owns the rowid.
PutVector(id) ==
    /\ vec' = [vec EXCEPT ![RowId[id]] = id]
    /\ UNCHANGED <<rows, link, status>>

\* DELETE by rowid, whoever owns the rowid.
DropVector(id) ==
    /\ vec' = [vec EXCEPT ![RowId[id]] = NoId]
    /\ UNCHANGED <<rows, link, status>>

\* Mutant: collisions of rowids are not looked for.
CollidesNever(id) == FALSE

\* Another entry's status row, in any state, holds this entry's rowid.
Collides(id) == \E o \in Ids \ {id} : status[o] /= "absent" /\ RowId[o] = RowId[id]
=============================================================================
