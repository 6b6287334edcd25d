---------------------------- MODULE ProjectIndex ----------------------------
(***************************************************************************)
(* The project index, cache.db: a copy of the rows of all member           *)
(* databases, kept per owner, with one metadata row that says for which    *)
(* contents of the sources it was made.  A search in index-first mode      *)
(* compares that fingerprint with the sources, rebuilds the index when     *)
(* they differ, and falls back to reading the sources (fan-out).           *)
(*                                                                         *)
(* Every call is a process of its own: statements on cache.db commit one   *)
(* by one, and calls of different sessions interleave between any two.     *)
(* The number of a row stands for its timestamp, which is taken before the *)
(* row is written, or given by the caller: a late row has one no larger    *)
(* than a row that was there before it.  A query matches every row, and    *)
(* limits are not reached.                                                 *)
(***************************************************************************)
EXTENDS Integers, Sequences, FiniteSets

CONSTANTS
    Calls,
    Operations,     \* [Calls -> what a call may be]
    Users,          \* members; also the owners of index rows
    Owner,          \* [Calls -> Users], the active user of a call
    Tables,         \* <<[user |-> u, kind |-> k, most |-> n], ...>>, as a rebuild reads
                    \* them; most bounds the timestamps of the table
    MaxRows,        \* the largest of those bounds
    MaxWrites,      \* bound on the rows written and deleted
    MaxFailures,    \* bound on failing reads and statements, and on crashes
    IndexedFor,     \* owners an index may have at first; Missing for a new project
    Missing         \* no metadata row

Kinds == {"memory", "continuity"}
Operation == {"search", "fanout", "rebuild", "promote", "dry-run"}

ASSUME IndexAssumption ==
    /\ Operations \in [Calls -> SUBSET Operation]
    /\ Owner \in [Calls -> Users]
    /\ Tables \in Seq([user : Users, kind : Kinds, most : 1..MaxRows])
    /\ MaxRows \in Nat /\ MaxWrites \in Nat /\ MaxFailures \in Nat
    /\ IndexedFor \subseteq Users \cup {Missing}

VARIABLES
    rows,       \* rows[t]: rows of the t-th table
    made,       \* made[t]: the latest timestamp a row of it ever had
    late,       \* history: late[t], its rows written with no later one than that
    writes,     \* rows written and deleted
    index,      \* index[o]: indexed_memories of owner o
    members,    \* owners with rows in l2_project_members
    meta,       \* index_meta, or Missing
    pc,         \* where a call stands
    my,         \* my[c]: the locals of a call, see Locals
    torn,       \* history: rebuilds that deleted o's rows and have not copied those of
                \* all sources since
    failures

sources == <<rows, made, late, writes>>
cache == <<index, members, meta, torn>>
Ended == {"done", "failed", "crashed"}

Row == [table : DOMAIN Tables, row : 1..MaxRows]
\* Two rebuilds may index a row twice: nothing makes the copies unique.
Copy == [row : Row, by : Calls \cup {"before"}]
Signature == [count : 0..MaxRows, latest : 0..MaxRows]
Digest == [owner : Users, from : SUBSET Users, errors : SUBSET Users,
           signatures : [DOMAIN Tables -> Signature]]
Statuses == {"ready", "partial", "no-sources"}
Meta == [status : Statuses, digest : Digest]

(* op: what the call is; seen: the metadata a search judged; digest: the    *)
(* fingerprint of its rebuild; at: the table it copies next; errors:        *)
(* sources it could not read; rebuilt: it has rebuilt once; wants: history, *)
(* the rows there were when the index was found usable; found: its answer.  *)
Locals == [op : Operation \cup {"none"}, seen : Meta \cup {Missing},
           digest : Digest \cup {Missing}, at : Nat, errors : SUBSET Users,
           rebuilt : BOOLEAN, wants : SUBSET Row, found : SUBSET Row]

Blank == [op |-> "none", seen |-> Missing, digest |-> Missing, at |-> 1, errors |-> {},
          rebuilt |-> FALSE, wants |-> {}, found |-> {}]

\* A new project, or one with a row in each table and an index of them for o.
IndexInit(o) ==
    LET first == IF o = Missing THEN {} ELSE {1}
        empty == [u \in Users |-> {}]
        copies == [row : [table : DOMAIN Tables, row : first], by : {"before"}]
        signature == [count |-> 1, latest |-> 1]
    IN  /\ rows = [t \in DOMAIN Tables |-> first]
        /\ made = [t \in DOMAIN Tables |-> Cardinality(first)]
        /\ late = [t \in DOMAIN Tables |-> {}]
        /\ writes = 0
        /\ index = IF o = Missing THEN empty ELSE [empty EXCEPT ![o] = copies]
        /\ members = IF o = Missing THEN {} ELSE {o}
        /\ meta = IF o = Missing THEN Missing
                  ELSE [status |-> "ready",
                        digest |-> [owner |-> o, errors |-> {},
                                    from |-> {Tables[t].user : t \in DOMAIN Tables},
                                    signatures |-> [t \in DOMAIN Tables |-> signature]]]
        /\ torn = empty
        /\ pc = [c \in Calls |-> "idle"]
        /\ my = [c \in Calls |-> Blank]
        /\ failures = 0

Goes(c, where) == pc' = [pc EXCEPT ![c] = where]
Ends(c, how) == Goes(c, how) /\ my' = [my EXCEPT ![c] = Blank]

Failure == failures < MaxFailures /\ failures' = failures + 1

-----------------------------------------------------------------------------
(* The sources, written by the sessions of all members.                    *)

\* A member's database is there once something was written to it.
Discovered == {Tables[t].user : t \in {s \in DOMAIN Tables : made[s] > 0}}

AllRows == {r \in Row : r.row \in rows[r.table]}

\* Those that were the latest when they were written.
TimelyRows == {r \in AllRows : r.row \notin late[r.table]}

\* A memory is stamped, embedded and then inserted, so that rows arrive in any
\* order of their timestamps, also after the deletion of a later one.
SourceInsert(t) ==
    \E n \in (1..Tables[t].most) \ rows[t] :
        /\ rows' = [rows EXCEPT ![t] = @ \cup {n}]
        /\ made' = [made EXCEPT ![t] = IF n > @ THEN n ELSE @]
        /\ late' = IF n > made[t] THEN late ELSE [late EXCEPT ![t] = @ \cup {n}]

\* A write that is rolled back, or a memory that is deleted.
SourceDelete(t) ==
    /\ \E n \in rows[t] : rows' = [rows EXCEPT ![t] = @ \ {n}]
    /\ UNCHANGED <<made, late>>

Write ==
    /\ writes < MaxWrites
    /\ writes' = writes + 1
    /\ \E t \in DOMAIN Tables : SourceInsert(t) \/ SourceDelete(t)
    /\ UNCHANGED <<cache, pc, my, failures>>

\* readFingerprintRow.
SignatureOf(t) ==
    [count |-> Cardinality(rows[t]),
     latest |-> IF rows[t] = {} THEN 0
                ELSE CHOOSE n \in rows[t] : \A m \in rows[t] : m <= n]

\* computeProjectIndexSourceFingerprint.
Fingerprint(o, unreadable) ==
    [owner |-> o,
     from |-> Discovered,
     errors |-> unreadable,
     signatures |-> [t \in DOMAIN Tables |->
                       IF Tables[t].user \in unreadable
                       THEN [count |-> 0, latest |-> 0] ELSE SignatureOf(t)]]

Usable(m) == m /= Missing /\ m.status \in {"ready", "partial"}

-----------------------------------------------------------------------------
(* rebuildProjectIndex.                                                    *)

Rebuilding(c) == pc[c] \in {"members", "copy"}

\* A search goes on with the index, or without it when the rebuild failed.
RebuildEnds(c, status) ==
    IF my[c].op = "rebuild" THEN Goes(c, "done") /\ my' = [my EXCEPT ![c] = Blank]
    ELSE /\ Goes(c, IF status \in {"ready", "partial"} THEN "lookup" ELSE "fanout")
         /\ my' = [my EXCEPT ![c].rebuilt = TRUE, ![c].digest = Missing,
                             ![c].at = 1, ![c].errors = {}]

TakeFingerprint(c) ==
    /\ pc[c] = "print"
    /\ \E unreadable \in SUBSET Discovered :
         /\ IF unreadable = {} THEN UNCHANGED failures ELSE Failure
         /\ my' = [my EXCEPT ![c].digest = Fingerprint(Owner[c], unreadable),
                             ![c].errors = unreadable]
    /\ Goes(c, "clear")
    /\ UNCHANGED <<sources, cache>>

Clear(c) ==
    LET o == Owner[c]
        alive == {d \in torn[o] : Rebuilding(d)}
    IN  /\ pc[c] = "clear"
        /\ index' = [index EXCEPT ![o] = {}]
        /\ members' = members \ {o}
        /\ torn' = [torn EXCEPT ![o] = alive \cup {c}]
        /\ Goes(c, "members")
        /\ UNCHANGED <<sources, meta, my, failures>>

\* One row per member; their key is the owner and the member.
InsertMembers(c) ==
    /\ pc[c] = "members"
    /\ \/ /\ Owner[c] \notin members
          /\ members' = IF my[c].digest.from \ my[c].errors = {} THEN members
                        ELSE members \cup {Owner[c]}
          /\ Goes(c, "copy")
          /\ UNCHANGED my
       \/ /\ Owner[c] \in members
          /\ RebuildEnds(c, "error")
          /\ UNCHANGED members
    /\ UNCHANGED <<sources, index, meta, torn, failures>>

\* A table is read whole; a source that cannot be read is left out from there.
CopyTable(c) ==
    LET t == my[c].at
        u == Tables[t].user
        listed == u \in my[c].digest.from \ my[c].errors
        copied == [row : {r \in AllRows : r.table = t}, by : {c}]
    IN  /\ pc[c] = "copy"
        /\ t \in DOMAIN Tables
        /\ \/ /\ index' = IF listed THEN [index EXCEPT ![Owner[c]] = @ \cup copied]
                         ELSE index
              /\ my' = [my EXCEPT ![c].at = t + 1]
              /\ UNCHANGED failures
           \/ /\ listed
              /\ Failure
              /\ my' = [my EXCEPT ![c].at = t + 1, ![c].errors = @ \cup {u}]
              /\ UNCHANGED index
        /\ UNCHANGED <<sources, members, meta, torn, pc>>

CopiedAll(c) == my[c].errors = {} /\ my[c].digest.from = Discovered

\* Mutant: the fingerprint is taken when the rows have been copied.
WriteMetaLate(c) ==
    LET o == Owner[c]
        d == Fingerprint(o, my[c].digest.errors)
        status == IF Discovered = {} THEN "no-sources"
                  ELSE IF my[c].errors = {} THEN "ready" ELSE "partial"
    IN  /\ pc[c] = "copy" /\ my[c].at = Len(Tables) + 1
        /\ meta' = [status |-> status, digest |-> d]
        /\ torn' = IF CopiedAll(c) THEN [torn EXCEPT ![o] = @ \ {c}] ELSE torn
        /\ RebuildEnds(c, status)
        /\ UNCHANGED <<sources, index, members, failures>>

WriteMeta(c) ==
    LET o == Owner[c]
        status == IF my[c].digest.from = {} THEN "no-sources"
                  ELSE IF my[c].errors = {} THEN "ready" ELSE "partial"
    IN  /\ pc[c] = "copy" /\ my[c].at = Len(Tables) + 1
        /\ meta' = [status |-> status, digest |-> my[c].digest]
        /\ torn' = IF CopiedAll(c) THEN [torn EXCEPT ![o] = @ \ {c}] ELSE torn
        /\ RebuildEnds(c, status)
        /\ UNCHANGED <<sources, index, members, failures>>

\* A locked database, a full disk: the metadata row stays as it was.
RebuildFails(c) ==
    /\ pc[c] \in {"clear", "members", "copy"}
    /\ Failure
    /\ RebuildEnds(c, "error")
    /\ UNCHANGED <<sources, cache>>

RebuildStep(c) ==
    \/ TakeFingerprint(c) \/ Clear(c) \/ InsertMembers(c) \/ CopyTable(c)
    \/ WriteMeta(c) \/ RebuildFails(c)

-----------------------------------------------------------------------------
(* searchProjectMemoryByMode.                                              *)

Begins(c, op, where) ==
    /\ pc[c] = "idle"
    /\ op \in Operations[c]
    /\ Goes(c, where)
    /\ my' = [my EXCEPT ![c].op = op]
    /\ UNCHANGED <<sources, cache, failures>>

StartRebuild(c) == Begins(c, "rebuild", "print")
StartSearch(c) == Begins(c, "search", "check")
StartFanout(c) == Begins(c, "fanout", "fanout")

\* evaluateIndexReadiness, up to its await.
Check(c) ==
    /\ pc[c] = "check"
    /\ IF Usable(meta) /\ meta.digest.owner = Owner[c]
       THEN Goes(c, "compare") /\ my' = [my EXCEPT ![c].seen = meta]
       ELSE Goes(c, "print") /\ UNCHANGED my
    /\ UNCHANGED <<sources, cache, failures>>

\* The rest of it; the index may also be older than the configured age.
Compare(c) ==
    /\ pc[c] = "compare"
    /\ \E unreadable \in SUBSET Discovered, aged \in BOOLEAN :
         /\ IF unreadable = {} THEN UNCHANGED failures ELSE Failure
         /\ IF /\ unreadable = {} /\ ~aged
               /\ my[c].seen.digest = Fingerprint(Owner[c], {})
            THEN /\ my' = [my EXCEPT ![c].seen = Missing, ![c].wants = AllRows]
                 /\ Goes(c, "lookup")
            ELSE /\ my' = [my EXCEPT ![c].seen = Missing]
                 /\ Goes(c, "print")
    /\ UNCHANGED <<sources, cache>>

\* Mutant: an index that is not usable after a rebuild is rebuilt again.
LookupAgain(c) ==
    LET o == Owner[c]
        hits == {h.row : h \in index[o]}
    IN  /\ pc[c] = "lookup"
        /\ IF Usable(meta) /\ meta.digest.owner = o /\ hits /= {}
           THEN Goes(c, "done") /\ my' = [my EXCEPT ![c].found = hits]
           ELSE Goes(c, "check") /\ UNCHANGED my
        /\ UNCHANGED <<sources, cache, failures>>

\* searchProjectIndex; an empty answer is checked against the sources.
Lookup(c) ==
    LET o == Owner[c]
        hits == {h.row : h \in index[o]}
    IN  /\ pc[c] = "lookup"
        /\ \/ /\ Usable(meta) /\ meta.digest.owner = o
              /\ IF hits /= {} THEN Goes(c, "done") ELSE Goes(c, "fanout")
              /\ my' = [my EXCEPT ![c].found = hits]
              /\ UNCHANGED failures
           \/ /\ ~(Usable(meta) /\ meta.digest.owner = o)
              /\ IF my[c].rebuilt THEN Goes(c, "fanout") ELSE Goes(c, "print")
              /\ UNCHANGED <<my, failures>>
           \* The query throws.
           \/ /\ Usable(meta) /\ meta.digest.owner = o
              /\ Failure
              /\ IF my[c].rebuilt THEN Goes(c, "fanout") ELSE Goes(c, "print")
              /\ UNCHANGED my
        /\ UNCHANGED <<sources, cache>>

\* fanoutProjectMemorySearch.
Fanout(c) ==
    /\ pc[c] = "fanout"
    /\ my' = [my EXCEPT ![c].found = AllRows, ![c].wants = {}]
    /\ Goes(c, "done")
    /\ UNCHANGED <<sources, cache, failures>>

SearchStep(c) == Check(c) \/ Compare(c) \/ Lookup(c) \/ Fanout(c)

-----------------------------------------------------------------------------
(* Properties.                                                             *)

IndexType ==
    /\ rows \in [DOMAIN Tables -> SUBSET (1..MaxRows)]
    /\ made \in [DOMAIN Tables -> 0..MaxRows]
    /\ late \in [DOMAIN Tables -> SUBSET (1..MaxRows)]
    /\ writes \in 0..MaxWrites
    /\ index \in [Users -> SUBSET Copy]
    /\ members \subseteq Users
    /\ meta \in Meta \cup {Missing}
    /\ torn \in [Users -> SUBSET Calls]
    /\ my \in [Calls -> Locals]
    /\ failures \in 0..MaxFailures

\* When the metadata are ready and their fingerprint is that of the sources,
\* the index has a copy of every row of the sources, whatever was written or
\* rolled back while it was built and whoever built it at the same time,
\* unless a rebuild has cleared it and not finished, or left a source out.  A
\* late row is excepted: COUNT and MAX(timestamp) do not tell it from a row that
\* was deleted.
IndexWhole ==
    \A o \in Users :
        /\ meta /= Missing /\ torn[o] = {}
        /\ meta.status = "ready" /\ meta.digest = Fingerprint(o, {})
        => TimelyRows \subseteq {h.row : h \in index[o]}

\* A search that found the index usable misses no row that was in the sources
\* by then, but for late ones ("degrades safely to fan-out when the derived
\* index is stale, missing, or incomplete").
NoSilentGap ==
    \A c \in Calls :
        pc[c] = "done" /\ ~my[c].rebuilt =>
            my[c].wants \cap TimelyRows \subseteq my[c].found
=============================================================================
