--------------------------- MODULE ProjectIdentity ---------------------------
(***************************************************************************)
(* Who owns a project's memory.  Every session resolves a user id from the *)
(* config and its environment, records it in the config, and writes to the *)
(* database file of that name.  When the id changes, the database is       *)
(* renamed, or merged into the one the new name already has.               *)
(*                                                                         *)
(* A call is a command (toggle, user set, user auto), the bootstrap of a   *)
(* session, or a write through the session's cached runtime.  An action is *)
(* what a call does from one await to the next; calls of one process and   *)
(* of several interleave at every action, and a process may die.           *)
(***************************************************************************)
EXTENDS ConfigStore

CONSTANTS
    Operations,     \* [Calls -> what a call may be]
    RandomUser,     \* [Calls -> Users], the id a call draws at random
    DerivedUser,    \* the id git or the environment yields, once configured
    OldRows,        \* writers of earlier sessions, naming rows that exist
    NoFile,         \* a database or write-ahead log that does not exist
    MaxCrashes      \* bound on crashes

LocalUsers == {RandomUser[c] : c \in Calls}

Operation == [kind : {"toggle"}, value : BOOLEAN] \cup [kind : {"set"}, user : Users]
               \cup [kind : {"auto", "bootstrap", "memory", "entry"}]

ASSUME IdentityAssumption ==
    /\ Operations \in [Calls -> SUBSET Operation]
    /\ RandomUser \in [Calls -> Users]
    /\ DerivedUser \in Users \ LocalUsers
    /\ \A c \in Calls : \A o \in Operations[c] :
         o.kind = "set" => o.user \notin LocalUsers
    /\ Fallback.user \notin LocalUsers
    /\ MaxCrashes \in Nat
    /\ IsFiniteSet(Calls \cup OldRows)

VARIABLES
    pc,         \* where a call stands
    my,         \* my[c]: the locals of a call, see Locals
    mem,        \* mem[u]: rows in u's database file
    wal,        \* wal[u]: rows in its write-ahead log only
    disturbed,  \* history: calls whose change of name relies on a database that
                \* another call has renamed, replaced or removed since
    runtime,    \* runtime[h]: user whose database the session of h writes
    derived,    \* whether git or the environment yields DerivedUser
    crashes

files == <<mem, wal, disturbed>>
world == <<runtime, derived, crashes>>
vars == <<config, pc, my, files, world>>

Ended == {"done", "failed", "crashed"}
Standing == {"idle", "update", "migrate", "rename", "moveWal", "remove", "purge",
             "protect", "boot", "create", "resolve", "persist", "share", "publish"} \cup Ended

\* memories are keyed by an integer the database assigns, the other tables by
\* the caller's id (rowid 0).
Row == [of : Calls \cup OldRows, rowid : 0..Cardinality(Calls \cup OldRows)]

(* stage: "boot" once the bootstrap of the call has begun; seen: the config  *)
(* it works with; id: its resolution; from, to: a change of name; known:     *)
(* history, the rows that change found in a file and is to keep.             *)
Locals == [stage : {"command", "boot"}, seen : Config \cup {None},
           id : [user : Users \cup {None}, source : Sources],
           from : Users \cup {None}, to : Users \cup {None}, known : SUBSET Row]

TypeOK ==
    /\ ConfigType
    /\ pc \in [Calls -> Standing]
    /\ my \in [Calls -> Locals]
    /\ mem \in [Users -> (SUBSET Row) \cup {NoFile}]
    /\ wal \in [Users -> (SUBSET Row) \cup {NoFile}]
    /\ disturbed \subseteq Calls
    /\ runtime \in [Hosts -> Users \cup {None}]
    /\ derived \in BOOLEAN
    /\ crashes \in 0..MaxCrashes

Unresolved == [user |-> None, source |-> "unresolved"]
Blank == [stage |-> "command", seen |-> None, id |-> Unresolved, from |-> None,
          to |-> None, known |-> {}]

\* A first use, or sessions at rest over databases of earlier ones.
InitWith(initial, stored) ==
    /\ ConfigInit(initial)
    /\ pc = [c \in Calls |-> "idle"]
    /\ my = [c \in Calls |-> Blank]
    /\ mem = stored
    /\ wal = [u \in Users |-> NoFile]
    /\ disturbed = {}
    /\ runtime = [h \in Hosts |-> IF initial = Absent \/ ~initial.enabled THEN None
                                   ELSE initial.user]
    /\ derived \in BOOLEAN
    /\ crashes = 0

Goes(c, where) == pc' = [pc EXCEPT ![c] = where]
Ends(c, how) == Goes(c, how) /\ my' = [my EXCEPT ![c] = Blank]
From(c) == my[c].from
To(c) == my[c].to

-----------------------------------------------------------------------------
(* Database files.                                                         *)

Exists(u) == mem[u] /= NoFile
InMain(u) == IF Exists(u) THEN mem[u] ELSE {}
\* A log beside no database, or beside an empty one, is discarded.
InLog(u) == IF Exists(u) /\ wal[u] /= NoFile THEN wal[u] ELSE {}
Visible(u) == InMain(u) \cup InLog(u)

RowidTaken(r, u) == \E s \in Visible(u) : s.rowid /= 0 /\ s.rowid = r.rowid

\* INSERT OR IGNORE of every column, the integer key included.
Fitting(copied, t) == {r \in copied : ~RowidTaken(r, t)}
Merged(f, t) == Visible(t) \cup Fitting(Visible(f), t)

\* Opening a database creates it.
Opened(u) ==
    /\ mem' = [mem EXCEPT ![u] = InMain(u)]
    /\ wal' = [wal EXCEPT ![u] = IF Exists(u) THEN @ ELSE NoFile]
    /\ UNCHANGED disturbed

\* The one key above all keys in use.
NextRowid(u) ==
    {n \in 1..Cardinality(Calls \cup OldRows) :
        /\ \A r \in Visible(u) : r.rowid < n
        /\ n = 1 \/ \E r \in Visible(u) : r.rowid = n - 1}

\* The rows end in the file if this was the last open connection, and in the
\* log if a store of this or another session has the database open.
Inserted(u, new) ==
    \/ /\ mem' = [mem EXCEPT ![u] = Visible(u) \cup new]
       /\ wal' = [wal EXCEPT ![u] = NoFile]
    \/ /\ mem' = [mem EXCEPT ![u] = InMain(u)]
       /\ wal' = [wal EXCEPT ![u] = InLog(u) \cup new]

Checkpoint(u) ==
    /\ Exists(u) /\ wal[u] /= NoFile
    /\ mem' = [mem EXCEPT ![u] = Visible(u)]
    /\ wal' = [wal EXCEPT ![u] = NoFile]
    /\ UNCHANGED <<config, pc, my, disturbed, world>>

-----------------------------------------------------------------------------
(* Commands.                                                               *)

Begins(c, o, where) ==
    /\ pc[c] = "idle"
    /\ o \in Operations[c]
    /\ Goes(c, where)

StartToggle(c, o) ==
    /\ o.kind = "toggle"
    /\ Begins(c, o, "update")
    /\ Update(c, [enabled |-> o.value, user |-> Keep, source |-> Keep])
    /\ UNCHANGED <<my, files, world>>

StartAuto(c, o) ==
    /\ o.kind = "auto"
    /\ Begins(c, o, "update")
    /\ Update(c, [enabled |-> Keep, user |-> None, source |-> "unresolved"])
    /\ UNCHANGED <<my, files, world>>

\* The previous id is read before the update waits for the queue.
StartSet(c, o) ==
    /\ o.kind = "set"
    /\ Readable
    /\ Begins(c, o, "update")
    /\ Update(c, [enabled |-> Keep, user |-> o.user, source |-> "explicit"])
    /\ my' = [my EXCEPT ![c].from = Loaded.user, ![c].to = o.user]
    /\ UNCHANGED <<files, world>>

StartSetFails(c, o) ==
    /\ o.kind = "set"
    /\ ~Readable
    /\ Begins(c, o, "failed")
    /\ UNCHANGED <<config, my, files, world>>

StartBootstrap(c, o) ==
    /\ o.kind = "bootstrap"
    /\ Begins(c, o, "boot")
    /\ UNCHANGED <<config, my, files, world>>

\* A write through the cached runtime, whatever the config says by now.
Save(c, o) ==
    LET u == runtime[Host[c]]
    IN  /\ o.kind \in {"memory", "entry"}
        /\ u /= None
        /\ Begins(c, o, "done")
        /\ \E rowid \in IF o.kind = "memory" THEN NextRowid(u) ELSE {0} :
             Inserted(u, {[of |-> c, rowid |-> rowid]})
        /\ UNCHANGED <<config, my, disturbed, world>>

Changes(c) == From(c) /= None /\ From(c) /= To(c)

\* Only `user set` has an id to protect.
Onward(c) == IF To(c) = None THEN "boot" ELSE "protect"

Updated(c) ==
    /\ pc[c] = "update"
    /\ \/ /\ cf[c] = "written"
          /\ Goes(c, IF Changes(c) THEN "migrate" ELSE Onward(c))
          /\ UNCHANGED my
       \/ /\ cf[c] = "failed"
          /\ Ends(c, "failed")
    /\ ConfigReturns(c)
    /\ UNCHANGED <<files, world>>

-----------------------------------------------------------------------------
(* migrateProjectUserDatabaseIdentity.                                     *)

\* Back to the command, or to the bootstrap; failures are swallowed by both.
Resumes(c) ==
    /\ Goes(c, IF my[c].stage = "command" THEN "protect" ELSE "share")
    /\ my' = [my EXCEPT ![c].from = None, ![c].known = {}]

\* The command names the database of the new id in the rules, as best it can.
Protect(c) ==
    /\ pc[c] = "protect"
    /\ ignored' \in {ignored, Rules(To(c), TRUE)}
    /\ my' = [my EXCEPT ![c].to = None]
    /\ Goes(c, "boot")
    /\ UNCHANGED <<file, tail, behind, cf, edit, draft, files, world>>

\* History: what a change that has looked at the files is to keep.
Answers(c, rows) ==
    /\ my' = [my EXCEPT ![c].known = rows]
    /\ disturbed' = disturbed \ {c}

\* The database those rows are in until the change is through.
Relies(c) == IF pc[c] = "rename" THEN From(c) ELSE To(c)

\* History: c renames, replaces or removes the databases of these users.
Disturbs(c, users) ==
    disturbed' = disturbed \cup
        {d \in Calls \ {c} : pc[d] \in {"rename", "remove"} /\ Relies(d) \in users}

MigrateNothing(c) ==
    /\ pc[c] = "migrate"
    /\ ~Exists(From(c))
    /\ Resumes(c)
    /\ UNCHANGED <<config, files, world>>

\* The target was seen not to exist; the rename follows an await.
MigrateRenames(c) ==
    /\ pc[c] = "migrate"
    /\ Exists(From(c)) /\ ~Exists(To(c))
    /\ Answers(c, InMain(From(c)))
    /\ Goes(c, "rename")
    /\ UNCHANGED <<config, mem, wal, world>>

\* rename replaces what is there, and throws when the source is gone.
Rename(c) ==
    /\ pc[c] = "rename"
    /\ \/ /\ Exists(From(c))
          /\ mem' = [mem EXCEPT ![To(c)] = mem[From(c)], ![From(c)] = NoFile]
          /\ Disturbs(c, {From(c), To(c)})
          /\ Goes(c, "moveWal")
          /\ UNCHANGED my
       \/ /\ ~Exists(From(c))
          /\ Resumes(c)
          /\ UNCHANGED <<mem, disturbed>>
    /\ UNCHANGED <<config, wal, world>>

\* History: the log that c takes away may be that of a database which somebody
\* created anew under the name c leaves, and which holds what another merged.
DisturbsLog(c) ==
    disturbed' = disturbed \cup
        {d \in Calls \ {c} : pc[d] = "remove" /\ To(d) = From(c)}

MoveWal(c) ==
    /\ pc[c] = "moveWal"
    /\ IF wal[From(c)] /= NoFile /\ wal[To(c)] = NoFile
       THEN /\ wal' = [wal EXCEPT ![To(c)] = wal[From(c)], ![From(c)] = NoFile]
            /\ DisturbsLog(c)
       ELSE UNCHANGED <<wal, disturbed>>
    /\ Resumes(c)
    /\ UNCHANGED <<config, mem, world>>

\* Copies table by table, without an await.
Merge(c) ==
    /\ pc[c] = "migrate"
    /\ Exists(From(c)) /\ Exists(To(c))
    /\ Answers(c, Merged(From(c), To(c)))
    /\ Inserted(To(c), Fitting(Visible(From(c)), To(c)))
    /\ Goes(c, "remove")
    /\ UNCHANGED <<config, world>>

\* Mutant: the source is removed although copying it failed.
MergeFailsOpen(c) ==
    /\ pc[c] = "migrate"
    /\ Exists(From(c)) /\ Exists(To(c))
    /\ Answers(c, Merged(From(c), To(c)))
    /\ Goes(c, "remove")
    /\ UNCHANGED <<config, mem, wal, world>>

\* A table that is locked or does not fit; those before it were copied.
MergeFails(c) ==
    /\ pc[c] = "migrate"
    /\ Exists(From(c)) /\ Exists(To(c))
    /\ \E copied \in {{}, {r \in Visible(From(c)) : r.rowid /= 0}} :
         Inserted(To(c), Fitting(copied, To(c)))
    /\ Resumes(c)
    /\ UNCHANGED <<config, disturbed, world>>

RemoveSource(c) ==
    /\ pc[c] = "remove"
    /\ mem' = [mem EXCEPT ![From(c)] = NoFile]
    /\ Disturbs(c, {From(c)})
    /\ Goes(c, "purge")
    /\ UNCHANGED <<config, my, wal, world>>

PurgeSidecars(c) ==
    /\ pc[c] = "purge"
    /\ wal' = [wal EXCEPT ![From(c)] = NoFile]
    /\ DisturbsLog(c)
    /\ Resumes(c)
    /\ UNCHANGED <<config, mem, world>>

MigrationStep(c) ==
    \/ MigrateNothing(c) \/ MigrateRenames(c) \/ Rename(c) \/ MoveWal(c)
    \/ Merge(c) \/ MergeFails(c) \/ RemoveSource(c) \/ PurgeSidecars(c) \/ Protect(c)

-----------------------------------------------------------------------------
(* resolveProjectRuntimeContext and bootstrap.                             *)

EnsureWorkspace(c) ==
    /\ pc[c] = "boot"
    /\ \/ /\ file \notin {Absent, Torn}
          /\ my' = [my EXCEPT ![c].stage = "boot", ![c].seen = file]
          /\ ignored' = RulesFor(file)
          /\ Goes(c, "resolve")
          /\ UNCHANGED <<file, tail, behind, cf, edit, draft>>
       \/ /\ file = Absent
          /\ my' = [my EXCEPT ![c].stage = "boot"]
          /\ FirstWrite(c, Fallback)
          /\ Goes(c, "create")
       \/ /\ file = Torn
          /\ Ends(c, "failed")
          /\ UNCHANGED config
    /\ UNCHANGED <<files, world>>

\* The bootstrap goes on with what it wrote.
Created(c) ==
    /\ pc[c] = "create"
    /\ cf[c] = "written"
    /\ my' = [my EXCEPT ![c].seen = draft[c]]
    /\ ConfigReturns(c)
    /\ Goes(c, "resolve")
    /\ UNCHANGED <<files, world>>

\* Mutant: a random id that is drawn again is not told apart from none.
ResolutionUnsourced(cfg, c) ==
    [user |-> IF ~cfg.enabled THEN None ELSE IF cfg.user /= None THEN cfg.user
              ELSE RandomUser[c],
     source |-> IF cfg.enabled THEN "random" ELSE "unresolved"]

\* resolveProjectUserId, and the exception for a random id: it gives way to
\* an id that git or the environment yields, and is kept otherwise.
Resolution(cfg, c) ==
    IF ~cfg.enabled THEN Unresolved
    ELSE IF cfg.user /= None /\ ~IsRandomLocal(cfg)
         THEN [user |-> cfg.user, source |-> "project-config"]
    ELSE IF derived THEN [user |-> DerivedUser, source |-> "derived"]
    ELSE [user |-> IF cfg.user /= None THEN cfg.user ELSE RandomUser[c],
          source |-> "random-local"]

Persists(cfg, r) ==
    r.user /= None /\ (cfg.user /= r.user \/ cfg.source /= r.source)

Resolve(c) ==
    LET cfg == my[c].seen
        r == Resolution(cfg, c)
    IN  /\ pc[c] = "resolve"
        /\ my' = [my EXCEPT ![c].id = r, ![c].from = cfg.user, ![c].to = r.user]
        /\ \/ /\ Persists(cfg, r)
              /\ Update(c, [enabled |-> Keep, user |-> r.user, source |-> r.source])
              /\ Goes(c, "persist")
           \/ /\ ~Persists(cfg, r)
              /\ Goes(c, "share")
              /\ UNCHANGED config
        /\ UNCHANGED <<files, world>>

Persisted(c) ==
    /\ pc[c] = "persist"
    /\ \/ /\ cf[c] = "written"
          /\ my' = [my EXCEPT ![c].seen = draft[c]]
          /\ Goes(c, IF Changes(c) THEN "migrate" ELSE "share")
       \/ /\ cf[c] = "failed"
          /\ Ends(c, "failed")
    /\ ConfigReturns(c)
    /\ UNCHANGED <<files, world>>

\* Mutant: only the resolution tells whether the id is local, not the config.
ShareUnlessDrawn(c) ==
    /\ pc[c] = "share"
    /\ Goes(c, "publish")
    /\ ignored' = IF my[c].seen.enabled THEN Rules(my[c].id.user, TRUE) ELSE ignored
    /\ UNCHANGED <<file, tail, behind, cf, edit, draft, my, files, world>>

Share(c) ==
    LET local == IsRandomLocal(my[c].seen) \/ my[c].id.source = "random-local"
    IN  /\ pc[c] = "share"
        /\ Goes(c, "publish")
        /\ ignored' = IF my[c].seen.enabled THEN Rules(my[c].id.user, ~local)
                                            ELSE ignored
        /\ UNCHANGED <<file, tail, behind, cf, edit, draft, my, files, world>>

\* The session's runtime, then its database.
Publish(c) ==
    LET u == IF my[c].seen.enabled THEN my[c].id.user ELSE None
    IN  /\ pc[c] = "publish"
        /\ runtime' = [runtime EXCEPT ![Host[c]] = u]
        /\ IF u = None THEN UNCHANGED files ELSE Opened(u)
        /\ Ends(c, "done")
        /\ UNCHANGED <<config, derived, crashes>>

BootStep(c) ==
    EnsureWorkspace(c) \/ Created(c) \/ Resolve(c) \/ Persisted(c) \/ Share(c) \/ Publish(c)

-----------------------------------------------------------------------------
Mutation(c) ==
    /\ ConfigStep(c)
    /\ UNCHANGED <<pc, my, files, world>>

Step(c) == Mutation(c) \/ Updated(c) \/ MigrationStep(c) \/ BootStep(c)

Start(c, o) ==
    \/ StartToggle(c, o) \/ StartAuto(c, o) \/ StartSet(c, o)
    \/ StartSetFails(c, o) \/ StartBootstrap(c, o) \/ Save(c, o)

\* git config user.email is set, or the environment variable appears.
Derive ==
    /\ ~derived
    /\ derived' = TRUE
    /\ UNCHANGED <<config, pc, my, files, runtime, crashes>>

Crash(h) ==
    LET dies(c) == Host[c] = h /\ pc[c] \notin Ended \cup {"idle"}
    IN  /\ crashes < MaxCrashes
        /\ crashes' = crashes + 1
        /\ pc' = [c \in Calls |-> IF dies(c) THEN "crashed" ELSE pc[c]]
        /\ my' = [c \in Calls |-> IF dies(c) THEN Blank ELSE my[c]]
        /\ runtime' = [runtime EXCEPT ![h] = None]
        /\ ConfigCrash(h)
        /\ UNCHANGED <<files, derived>>

\* It stops when every call has ended: EveryCallEnds tells that from waiting.
Next ==
    \/ \E c \in Calls : Step(c) \/ \E o \in Operations[c] : Start(c, o)
    \/ \E u \in Users : Checkpoint(u)
    \/ Derive
    \/ \E h \in Hosts : Crash(h)

\* The event loop runs what is ready; files settle.
Fairness == \A c \in Calls : WF_vars(Step(c))

-----------------------------------------------------------------------------
(* Properties.                                                             *)

\* No rule ever lets version control take the database of a random id, which
\* is local to the machine, although the id, the config it came from and the
\* rules are read and written at different times by several bootstraps.
LocalIdentityIgnored == ignored \notin LocalUsers

\* A row that no database shows any more, in its file or in its log.
Shown(r) == \E u \in Users : r \in Visible(u)
RowLost(r) == Shown(r) /\ ~Shown(r)'

\* Rows vanish only by a change of identity: when it renames or removes a
\* database, rows that it did not find there in the file (or, merging, in file
\* or log), had no key to copy, or that another change moved or removed under
\* it; and when it takes a log away, rows in the log of a database that was
\* created anew under the old name.  Crashes and writers, on the old and the new
\* name, lose nothing that was there before.
SettledRowsKept ==
    [][\A r \in Row : RowLost(r) =>
            \E c \in Calls :
              /\ pc'[c] /= pc[c]
              /\ \/ /\ pc[c] \in {"rename", "remove"}
                    /\ r \notin my[c].known \/ c \in disturbed
                 \/ /\ pc[c] \in {"moveWal", "purge"}
                    /\ r \in InLog(From(c))]_vars

\* Every command and bootstrap ends, also behind one that threw in the queue.
EveryCallEnds == \A c \in Calls : pc[c] /= "idle" ~> pc[c] \in Ended
=============================================================================
