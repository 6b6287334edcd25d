----------------------------- MODULE MemorySave -----------------------------
(***************************************************************************)
(* The memory_save tool of one session.  A call carries a payload for the  *)
(* project's memory, for the user's general memory, or both.  With project *)
(* memory enabled the first goes to the database file of the configured    *)
(* user, through a store that is opened once per path and kept open, and   *)
(* the second to the upstream tool; otherwise both go upstream.  A store   *)
(* looks a content up, awaits its embedding, and inserts it; the user may  *)
(* change at every await.                                                  *)
(*                                                                         *)
(* A file is an inode that a path leads to: renaming it, or removing it,   *)
(* does not close the stores that hold it open.  Contents are short enough *)
(* to be one row.                                                          *)
(***************************************************************************)
EXTENDS Integers, FiniteSets

CONSTANTS
    Calls,
    Contents,
    Project,        \* [Calls -> Contents or None], the project payload of a call
    General,        \* [Calls -> Contents or None], its general payload
    Users,
    FirstUser,      \* the user configured at first
    FirstFiles,     \* sets of users whose databases may exist at first
    MaxFailures,    \* bound on failing statements, embeddings and bootstraps
    MaxChanges,     \* bound on changes of the configured user
    None,           \* no payload, no file, no runtime
    Global          \* the database of the upstream tool

ASSUME SaveAssumption ==
    /\ Project \in [Calls -> Contents \cup {None}]
    /\ General \in [Calls -> Contents \cup {None}]
    /\ FirstUser \in Users /\ FirstFiles \subseteq SUBSET Users
    /\ MaxFailures \in Nat /\ MaxChanges \in Nat
    /\ IsFiniteSet(Calls) /\ IsFiniteSet(Users)
    /\ None \notin Users \cup Contents \cup {Global} \cup Nat /\ Global \notin Users

VARIABLES
    configured,     \* config.myUserId
    enabled,        \* config.projectMemoryEnabled
    file,           \* file[d]: the inode the path of d leads to, or None
    rows,           \* rows[i]: the contents in an inode
    opened,         \* opened[d]: the inode the store kept for path d holds, or None
    pc,             \* where a tool call and its hook stand
    lane,           \* lane[c]: the payload a save is at, "project" or "general"
    routed,         \* routed[c]: the user whose path the project payload goes to
    said,           \* said[c]: what a save answers about each payload
    adrift,         \* history: saves answered by a store that did not hold the
                    \* configured user's file
    changes, failures

stores == <<file, rows, opened>>
saving == <<lane, routed, said, adrift>>
settings == <<configured, enabled, changes>>

Databases == Users \cup {Global}
Inodes == 0..(Cardinality(Users) + MaxChanges + 1)
\* An inode for a new file.
Free == CHOOSE i \in Inodes :
          rows[i] = {} /\ \A d \in Databases : file[d] /= i /\ opened[d] /= i

\* "silent": nothing asked, or not answered yet.
Statuses == {"silent", "stored", "duplicate", "error"}
Answer == [project : Statuses, general : Statuses]
Silent == [project |-> "silent", general |-> "silent"]

SaveType ==
    /\ configured \in Users
    /\ enabled \in BOOLEAN
    /\ file \in [Databases -> Inodes \cup {None}]
    /\ rows \in [Inodes -> SUBSET Contents]
    /\ opened \in [Databases -> Inodes \cup {None}]
    /\ lane \in [Calls -> {"project", "general"}]
    /\ routed \in [Calls -> Users]
    /\ said \in [Calls -> Answer]
    /\ adrift \subseteq Calls
    /\ changes \in 0..MaxChanges
    /\ failures \in 0..MaxFailures

Number ==
    CHOOSE n \in [Databases -> Inodes] :
        n[Global] = 0 /\ \A d, e \in Databases : n[d] = n[e] => d = e

\* One inode to each database that exists; the upstream store is open.
SaveInit ==
    /\ configured = FirstUser
    /\ enabled \in BOOLEAN
    /\ \E existing \in FirstFiles :
         file = [d \in Databases |->
                   IF d \in existing \cup {Global} THEN Number[d] ELSE None]
    /\ rows = [i \in Inodes |-> {}]
    /\ opened = [d \in Databases |-> IF d = Global THEN 0 ELSE None]
    /\ lane = [c \in Calls |-> "project"]
    /\ routed = [c \in Calls |-> FirstUser]
    /\ said = [c \in Calls |-> Silent]
    /\ adrift = {}
    /\ changes = 0
    /\ failures = 0

Goes(c, where) == pc' = [pc EXCEPT ![c] = where]
Failure == failures < MaxFailures /\ failures' = failures + 1

-----------------------------------------------------------------------------
(* Routing.                                                                *)

Payload(c) == IF lane[c] = "project" THEN Project[c] ELSE General[c]
Saves(c) == Project[c] /= None \/ General[c] /= None

\* The project payload first; with project memory disabled both go upstream.
ToProject(c) == enabled /\ lane[c] = "project"
Target(c) == IF ToProject(c) THEN routed[c] ELSE Global

\* The answer comes from another file than the configured user's.
Drifts(c, status) ==
    ToProject(c) /\ status /= "error" /\ opened'[routed[c]] /= file'[configured]
Drift(c, status) == adrift' = IF Drifts(c, status) THEN adrift \cup {c} ELSE adrift

\* readUnknownToolResultStatus: what is not "duplicate" counts as stored.
Heard(c, status) ==
    IF enabled /\ lane[c] = "general" /\ status = "error" THEN "stored" ELSE status

\* Mutant: the general target runs also for a call that has no general payload.
AnswersToBoth(c, status) ==
    /\ said' = [said EXCEPT ![c][lane[c]] = Heard(c, status)]
    /\ Drift(c, status)
    /\ UNCHANGED routed
    /\ IF lane[c] = "project"
       THEN lane' = [lane EXCEPT ![c] = "general"] /\ Goes(c, "open")
       ELSE UNCHANGED lane /\ Goes(c, "result")

\* The next payload, or the end of the tool call.
Answers(c, status) ==
    /\ said' = [said EXCEPT ![c][lane[c]] = Heard(c, status)]
    /\ Drift(c, status)
    /\ UNCHANGED routed
    /\ IF lane[c] = "project" /\ General[c] /= None
       THEN lane' = [lane EXCEPT ![c] = "general"] /\ Goes(c, "open")
       ELSE UNCHANGED lane /\ Goes(c, "result")

StartSave(c) ==
    /\ pc[c] = "idle" /\ Saves(c)
    /\ lane' = [lane EXCEPT ![c] = IF Project[c] = None THEN "general" ELSE "project"]
    /\ Goes(c, "open")
    /\ UNCHANGED <<stores, routed, said, adrift, settings, failures>>

\* The config has been read: the path is the one of the user it names.
Route(c) ==
    /\ pc[c] = "open"
    /\ routed' = IF ToProject(c) THEN [routed EXCEPT ![c] = configured] ELSE routed
    /\ Goes(c, "load")
    /\ UNCHANGED <<stores, lane, said, adrift, settings, failures>>

-----------------------------------------------------------------------------
(* A store.                                                                *)

\* The inode of the store for d: the one it holds, or the file's, or a new one.
Held(d) == IF opened[d] /= None THEN opened[d]
           ELSE IF file[d] /= None THEN file[d] ELSE Free

\* The store of the path is loaded, at the first use, and the content looked up.
Open(c) ==
    LET d == Target(c)
        i == Held(d)
    IN  /\ pc[c] = "load"
        /\ opened' = [opened EXCEPT ![d] = i]
        /\ file' = IF opened[d] = None THEN [file EXCEPT ![d] = i] ELSE file
        /\ \/ /\ Payload(c) \in rows[i]
              /\ Answers(c, "duplicate")
           \/ /\ Payload(c) \notin rows[i]
              /\ Goes(c, "embed")
              /\ UNCHANGED saving
        /\ UNCHANGED <<rows, settings, failures>>

OpenFails(c) ==
    /\ pc[c] \in {"open", "load"}
    /\ Failure
    /\ Answers(c, "error")
    /\ UNCHANGED <<stores, settings>>

\* Mutant: a content another call stored meanwhile is taken for this call's.
InsertOrIgnore(c) ==
    LET i == opened[Target(c)]
    IN  /\ pc[c] = "embed"
        /\ UNCHANGED <<file, opened, settings, failures>>
        /\ rows' = [rows EXCEPT ![i] = @ \cup {Payload(c)}]
        /\ Answers(c, "stored")

\* Mutant: the answer does not wait for the insert to succeed.
InsertUnawaited(c) ==
    LET i == opened[Target(c)]
    IN  /\ pc[c] = "embed"
        /\ UNCHANGED <<file, opened, settings>>
        /\ \/ rows' = [rows EXCEPT ![i] = @ \cup {Payload(c)}] /\ UNCHANGED failures
           \/ Failure /\ UNCHANGED rows
        /\ Answers(c, "stored")

\* The hash of a content is unique: a call that comes second throws.
Insert(c) ==
    LET i == opened[Target(c)]
    IN  /\ pc[c] = "embed"
        /\ UNCHANGED <<file, opened, settings, failures>>
        /\ \/ /\ Payload(c) \notin rows[i]
              /\ rows' = [rows EXCEPT ![i] = @ \cup {Payload(c)}]
              /\ Answers(c, "stored")
           \/ /\ Payload(c) \in rows[i]
              /\ Answers(c, "error")
              /\ UNCHANGED rows

\* The embedder fails, or the insert does.
InsertFails(c) ==
    /\ pc[c] = "embed"
    /\ Failure
    /\ Answers(c, "error")
    /\ UNCHANGED <<stores, settings>>

SaveStep(c) == Route(c) \/ Open(c) \/ OpenFails(c) \/ Insert(c) \/ InsertFails(c)

-----------------------------------------------------------------------------
(* A change of the configured user, as a whole: what ProjectIdentity does  *)
(* step by step.  Saves may be under way.                                  *)

Renamed(u, v) == file' = [file EXCEPT ![v] = file[u], ![u] = None] /\ UNCHANGED rows

Merged(u, v) ==
    /\ rows' = [rows EXCEPT ![file[v]] = @ \cup rows[file[u]]]
    /\ file' = [file EXCEPT ![u] = None]

\* The database of d, created unless it exists.
Created(d) == IF file[d] = None THEN [file EXCEPT ![d] = Free] ELSE file

\* With nothing to move, the bootstrap that follows creates the database, or fails.
Moved(u, v) ==
    \/ /\ file[u] = None
       /\ file' \in {file} \cup (IF enabled THEN {Created(v)} ELSE {})
       /\ UNCHANGED rows
    \/ file[u] /= None /\ file[v] = None /\ Renamed(u, v)
    \/ file[u] /= None /\ file[v] /= None /\ Merged(u, v)

Change(v) ==
    /\ changes < MaxChanges
    /\ v /= configured
    /\ changes' = changes + 1
    /\ configured' = v
    /\ Moved(configured, v)
    /\ UNCHANGED <<enabled, opened, saving>>

-----------------------------------------------------------------------------
(* Properties.                                                             *)

Told(c, l, status) == enabled /\ said[c][l] = status

ToldOf(c) == Told(c, "project", "stored") \/ Told(c, "project", "duplicate")

\* When a call is told that its project memory is stored or there already, the
\* configured user's database has it, then and after every later change of the
\* user; unless the store that answered held another file than that user's.  And
\* a general memory that is there already is in the general database.
AnsweredStays ==
    \A c \in Calls :
        /\ ToldOf(c) /\ c \notin adrift =>
             file[configured] /= None /\ Project[c] \in rows[file[configured]]
        /\ Told(c, "general", "duplicate") => General[c] \in rows[file[Global]]

\* A project memory a call is told about is in the database file of some user,
\* whichever store answered.
AnsweredIsThere ==
    \A c \in Calls : ToldOf(c) =>
        \E u \in Users : file[u] /= None /\ Project[c] \in rows[file[u]]

\* One call at most is told that it stored a project memory in the configured
\* user's database, however many save the same content at once and however often
\* that database is renamed or merged meanwhile.
StoredOnce ==
    \A x \in Contents :
        Cardinality({c \in Calls \ adrift :
                       Project[c] = x /\ Told(c, "project", "stored")}) <= 1
=============================================================================
