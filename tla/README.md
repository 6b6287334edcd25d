# Verification of pi-muninn

TLA+ models of the protocols of pi-muninn, a memory extension for the pi coding
agent: several sessions (operating-system processes) read and write SQLite files
and one config file below `.agent/memory/`, with a vector index next to the
canonical rows and a derived index over all members' databases, and the handlers
of one session interleave at every `await`. The modules are translated from the
TypeScript sources; paths below are relative to `src/src/` unless they begin with
`packages/`. `PROJECT.json` maps every definition to the lines it stands for.

## 1. Inventory

| Part | State it keeps | Operations | Modules |
|---|---|---|---|
| Continuity store (`memory-data-adapters/sqlite/continuity/continuity-store.ts`) | tables `continuity_entries`, `continuity_compaction_previews`, telemetry | store, delete, read, mark/clear compacted; store/read/count/update/purge previews; record and count events, labels | `ContinuityStore`, `CompactionPreviews`, `ContinuityTelemetry` |
| Vector index (`continuity-vector-store.ts`, `continuity-vector-embedder.ts`) | vector table, `continuity_vector_status` | index (awaits the embedder), delete | `VectorIndexing` |
| Persistence services and quality gate (`extension/entrypoint/runtime-services/continuity-persistence-services.ts`, `packages/memory-core/src/continuity/*`) | none of their own | dual write with rollback; duplicate and low-signal gate | `EntryWriting`, `ContinuityWrite` |
| Compaction preview and apply (`extension/entrypoint/tools/continuity-compaction-tools/*`) | preview rows, entries, vectors | purge, budget, validate, store; apply groups, roll back by compensation, commit | `CompactionPreviews`, `CompactionApply` |
| Request scope and profile lock (`runtime-services/common-runtime-services.ts`) | a map in the memory of the session | first use locks a profile to a scope | `CompactionPreviews` |
| Telemetry, review and query (`extension/entrypoint/tools/*`, `continuity-store.ts`) | `continuity_telemetry_events`, review labels; a streak per session | record, label, summarise, trend report; count noisy answers | `ContinuityTelemetry` |
| Config store (`project-memory/config.ts`) | one JSON file, `.gitignore`, an in-process queue | read-modify-write | `ConfigStore` |
| Project identity (`runtime/project-runtime-context.ts`, `project-memory/user-id.ts`) | database files and their logs, cached runtime | bootstrap, `user set`, `user auto`, toggles, rename or merge | `ProjectIdentity` |
| Project index (`memory-data-adapters/sqlite/project-index/*`, `project-memory/mode-selection.ts`) | `cache.db`: rows, members, metadata | fingerprint, rebuild, readiness, search, fan-out | `ProjectIndex` |
| Promotion (`project-memory/promotion-pipeline.ts`, `local-model-curation-gate.ts`) | global `memories.db` | candidates, policy, gate, promote, record | `Promotion` |
| Memory saves (`compat/upstream-extension-runtime/*`, `memory-providers/*`) | a store per path, kept open | route a save to one or two databases | `MemorySave` |
| Session lifecycle and checkpoints (`extension/entrypoint/hooks/*`, `runtime-state.ts`, `sqlite/runtime/sqlite-checkpoint-policy.ts`) | maps per session | hooks of the host's events; periodic and shutdown checkpoint | `SessionHooks` |
| Rendering, briefings, argument parsing, native health | none | text | not modelled |

How they interact: every write path of continuity goes through the persistence
services to the store and the vector index, which share one connection per call
in autocommit. Bootstraps go through the config store's queue and then move the
databases that saves, indexing and continuity write to; the derived index reads
all of those and promotion reads the derived index; the session hooks wrap the
tools and read the runtime the last bootstrap cached.

What is hard here: no multi-statement operation is a transaction, and several
await in the middle; sessions share the files and not the queue, the maps or the
locks; a crash leaves whatever was committed; failures are repaired by
compensation, whose steps may fail too; a store stays open on a file that has
been renamed or removed. `PROJECT.json` lists the hazards line by line with the
properties that watch them.

What makes the parts correct: an entry is in the store with its vector or not at
all; a preview is applied completely and once, or without a trace, and only if it
was eligible; a budget is passed only where a count failed or calls overlapped;
config mutations of a process are serial; a local identity is never shared through
version control; a change of identity loses no settled row; an index that calls
itself fresh is whole; a run's record is what it promoted; a save that is answered
as stored is there; a shutdown checkpoints what was counted; a reminder is justified
by the request it ends; a report lies between the truth before and the truth after;
every call ends.

## 2. Modules

    ContinuityStore <- VectorIndexing <- EntryWriting <- ContinuityWrite
                                                      <- CompactionApply
    ContinuityWrite implements EntryPublication
    CompactionApply implements CompactionLedger
    CompactionPreviews      the preview table, its two tools, time, restarts
    ContinuityTelemetry     events, labels, reports, the streak of a session
    ConfigStore  <- ProjectIdentity
    ProjectIndex <- Promotion
    MemorySave   <- SessionHooks

`<-` is EXTENDS: the module on the left gives the state and the subroutines, the
one on the right the callers, their composition and the specification.

### Continuity

* **ContinuityStore.** `rows` and `link` are `continuity_entries`, `status` is the
  status table, `vec[r]` names the entry whose embedding the vector table holds at
  rowid `r`. One operator per SQL statement. An entry is its id: ids are UUIDs
  drawn by the writer, so content, section and payload hash are functions of the
  id, and so is the rowid, an int32 hashed from it: `RowId` is any function, and
  collisions are states of the model.
* **VectorIndexing.** `indexContinuityVectorEntry`: the check of status and
  collision up to the `await`, the settling of the embedding, the two writes, the
  catch block, with a phase `ix` per caller. A call that may throw does so at most
  `MaxFaults` times in a behaviour, and only if it is in `FaultyCalls`.
* **EntryWriting.** `storeContinuityEntryWithVectorConsistency` and its rollback,
  phase `wr`; `leak` says that a rollback step failed, which the code reports.
* **ContinuityWrite.** Calls of `persistAutomaticContinuityDualWrite`. A process
  is a call and is named by the entry id it draws. `Runs(p)` is the event loop:
  a call takes a step only while the other calls of its host are at an `await`;
  calls of different hosts interleave statement by statement. `Crash(h)` ends a
  host.
* **EntryPublication.** What callers may rely on: an entry becomes searchable in
  one step and stays so; the answer agrees.
* **CompactionApply.** `applyContinuityCompactionProposalGroups`, the rollback
  controller, and the commit of the apply tool, one action per database call.
  Labels of `pc` from `read` to `commit` are the way forward, `clear` to
  `restoring` the way back.
* **CompactionLedger.** What applying means: all sources of all groups of a
  preview at once, none of them absorbed before, at most once, for good.
* **CompactionPreviews.** Both tools as turns of the event loop: the preview tool
  never awaits, the apply tool awaits its groups between the checks and the
  commit. `held` is the interface to `CompactionApply`: a preview whose sources
  are compacted. Purges, reads and counts may fail, and are then ignored, taken for
  a missing row, and 0: `AfterPurge`, `seen` and `parent`, and the disjuncts of
  `StorePreview` and `Choose` for a budget that is spent. `verdict`, `unmetered` and
  `peak` are history variables: the status a row was stored with, what passed a spent
  budget because its count failed, and the most counted calls in flight at once.
* **ContinuityTelemetry.** The tools append an event after their work (`Record`);
  an event that cannot be stored is lost and the tool answers as usual. A
  reviewer labels an event (`FindEvent`, `StoreLabel`); the status summary
  (`Totals`, `AllLabels`) and the trend report (`Open` ... `CountLabels`) are
  several statements on one connection without a transaction. `streak` is
  `continuityQueryNoiseStreakBySession`: a query reads it before its first await
  (`StartQuery`) and writes it after its last (`AnswerQuery`). `earned`, `seen` and
  `marked` are history variables.

### Identity

* **ConfigStore.** `file` is the config file, `ignored` the generated
  `.gitignore`. `runProjectConfigWriteLocked` is `tail` (the map entry of a
  process) and `behind` (the promise a call waits for); a mutation is a subroutine
  with a phase `cf`: queued, rules, truncate, fill. Writing the file truncates it
  first (`Torn`). `ConfigCrash` loses the queue with its process.
* **ProjectIdentity.** Commands and bootstraps over it. `mem[u]` and `wal[u]` are
  the rows in a user's database file and only in its log; a log beside no database
  is discarded, as SQLite does. `migrateProjectUserDatabaseIdentity` is one action
  per file operation, the merge being one (it does not await). What a save or a merge
  inserts ends in the file or in the log (`Inserted`): the log keeps it while any
  store of any session has the database open. `Save` writes through the runtime the
  session cached, whatever the config says by now.
  Two history variables say what a change of name answers for: the rows it found
  (`my[c].known`) and whether another one has moved the database from under it
  (`disturbed`).

### Index, promotion, saves, hooks

* **ProjectIndex.** `index[o]`, `members` and `meta` are the tables of `cache.db`.
  A rebuild is `TakeFingerprint`, `Clear`, `InsertMembers`, one `CopyTable` per
  source, `WriteMeta`, each committed alone; a search is `Check`, `Compare` and
  `Lookup`, or a rebuild and `Lookup`, or `Fanout`; a query that fails leads on to
  a rebuild or to the fan-out. A row is its timestamp, and a write adds any that its
  table has not: a memory is stamped before its embedding is awaited and inserted
  after, so it may come `late`, with a timestamp that its table has passed.
* **Promotion.** A run is `Evaluate`, `Gate` (a model that may keep any subset),
  `Find` and `Insert` per candidate, `RecordRun`, `RecordItem`, over a global
  database without transactions.
* **MemorySave.** A save has two lanes, project and general. A file is an inode
  that a path leads to (`file`), and `opened` is the store kept per path
  (`vendor-project-store.ts`): renaming or removing a file does not close it.
  Reading the config (`Route`), looking a content up (`Open`) and inserting it are
  apart, and the user may change between any two of them (`Change`, the outcome of
  what `ProjectIdentity` does step by step). `adrift` marks an answer given by a
  store that did not hold the file of the user configured by then.
* **SessionHooks.** The hooks around the tool calls of one session: `SessionStart`,
  `BeforeAgentStart`, `AgentStart`, `Hook` (tool result), `AgentEnd`, `Shutdown`,
  `Clear`; `runtime`, `tracker` and `compliance` are the maps of
  `runtime-state.ts`. A tool-result hook holds the tracker it found (`mine`)
  across an await. `Noted` is what it records of an edit, a read, a note or a query,
  in the order in which hooks run; `Reminder` is the cascade of `agent_end` with its
  six warnings. A note is what the hook decodes of it (`Notices`): section, whether
  the user is its source, whether it has source refs or shows the user's intent, and
  the files it names. `Checkpointed` attempts each database and resets the counter
  whatever came of it; `unmade` remembers the attempts that failed or were skipped.
* **MC...** modules give the constants of the runs.

### Abstractions

* The vector feature is on. With it off, `storeContinuityEntryWithVectorConsistency`
  returns after the insert. `superseded_by_entry_id` is never set by the program.
* Payloads are keys: `Text` of an entry is its semantic identity for the gate,
  inside the duplicate window and the 600 entries it looks back at; a proposal is
  its groups (in apply) or its fingerprint (in previews); a memory is its normalised
  content.
* Opening a connection, creating the schema and loading the extension belong to
  the call they start: their failure is a throw of that call.
* Vetoes of a preview that depend on nothing but the proposal and the entries
  (schema, overlap, missing or ineligible sources) and the advisories are one
  chosen outcome, `gates`; `Approved` stands for `approved_with_advisories` too.
  `GroupsApplied` takes from `CompactionApply` that the sources of a preview are
  compacted by one call at a time, which `CommittedIntact` and `AtomicCompaction`
  show.
* A config is three fields: a toggle (mode and briefing mode are set in the same
  way), the user id, and where it came from. Environment and git are one boolean,
  `derived`. Nobody types by hand the random id that another call draws
  (`IdentityAssumption`).
* The counters of the compliance tracker are what they count (`counted`, the calls in
  order), and a path in a text is one of the files that the note names.
* In the index, a query matches every row and limits are not reached; ranking,
  scores and labels of an answer are left out. Each call is a process of its own.
* The score of a candidate keeps the two bonuses that depend on the index (two
  copies, two members) and takes the rest as `BaseScore`.
* A memory is one row: contents long enough to be chunked are left out.

## 3. Runs

| Run | Instance | Shows |
|---|---|---|
| `write` | 2 hosts with 3 and 2 calls, three with one text, one low-signal, one that repeats the entry present; two calls share a rowid across hosts and one has that of the old entry; 2 faults; crashes | the dual write implements `EntryPublication` for calls whose rowid no other has; a vector is displaced only as the collision check allows; no trace of a rejected call; no duplicates from one host; every call ends |
| `write_lost_duplicate` (violation) | 2 calls on one host, the embedder fails | a text is skipped as a duplicate of a row that is then rolled back |
| `apply` | 2 executions on 2 hosts, 4 entries, a preview of two groups and one that overlaps both; 1 fault; crashes | the saga implements `CompactionLedger`; success stays whole; no dangling link; no trace of a clean rejection; what is active can be found |
| `apply_one` | 1 execution, 2 faults anywhere, crash | compacted entries leave the index; every apply ends |
| `apply_mark_throws` (violation) | 1 execution, the marking call may throw | a half-applied preview |
| `previews` | 2 scopes, 2 previews, 2 apply calls, budgets of 1, clock to 2, restarts, any read, count or purge failing | only eligible previews applied; lineage with its foreign key; the preview budget passed only by a failed count, the apply budget only by calls that overlap |
| `identity` | 3 calls of 2 processes: commands and bootstraps of one, a toggle or bootstrap beside them, a write of the other; a first use, or a random id with or without a database of the next name; 1 crash | mutations serial; a random id never shared; rows stay in a database or its log, but for what a change of name is excused from; every call ends |
| `knowledge` | 2 sessions of Ann that rebuild, search, read, promote or promote dry, 2+1 rows of Ann and Bob, 3 of them written, also late, or deleted meanwhile; 1 failure or crash; 1 promotion a run | a fresh ready index is whole but for late rows; a run's record is what it promoted; every call ends |
| `index_torn` (violation) | 1 rebuild, 1 search, 3 tables of one row, no failure | a search answers from a partial index |
| `session` | 2 requests with the calls of one mix of six (two saves of one memory; a save, an edit outside the workspace and a query; four mixes of edits, reads and notes), 1 change of user at any time, 2 failures, checkpoints not made, shutdown at any time | an answer is true when given and after a change of user; one save stores; the shutdown checkpoints; each of the six reminders is justified |
| `save_lost` (violation) | 2 saves, 2 changes of user, no failure | a save is answered as stored and written to a removed file |
| `telemetry` | 3 calls of any tool, report or review, up to 2 events of the past, 3 days with a window of 2, a sample of 1, 1 failure | numbers of a report are between what was and what is; the streak is earned |

Why the bounds are enough. Interference in the write protocol is between two calls
on one text, on one host, or on one rowid; five calls give all of them at once, with
a third party. Two faults are one in the forward path and one in its repair. Two
executions over previews that overlap in either group, or on the same preview, give
every order of two marks on one source; two groups are the least for which the
rollback has groups to go back to. `apply` excludes faults of clearing links and of
the second half of a vector deletion (section 5). In `previews` the budgets 8/12 and
1/2, three revisions, 6 hours and 14 days are scaled down to 1/1, 1/1, 1, 1 and 2
time units, so that the second preview and the second apply of a scope are over
them; two previews are a parent that expires before or after its revision, and two
calls on them overlap or follow each other. The theorems have any budgets and chains
of any length. In `identity` three calls are a queue with one call in it, one
behind, and one of another process; two databases are what a merge needs, and one
crash hits each point between two file operations. In `knowledge` two sessions give
two rebuilds at once, a rebuild under a search, and a promotion beside a rebuild;
three writes over two rows of a table allow a deletion and a late insert that give
the old fingerprint again, and one accepted candidate of two makes the limit bite.
In `session` two saves of one memory race for it and a change of user finds them at
any two of their awaits; two failures hit a bootstrap and an embedding or a
statement; two requests let a reminder follow the tracker of the request before it,
and a hook comes late after the shutdown. The calls of a behaviour are those of one
mix (`Mixes`): each reminder needs two to four calls of its own, and all twelve at
once only multiply orders. With an `EvidenceLimit` of 2 a third edit drops the
oldest artifact. In `telemetry` three calls are a report and two writers, or three
overlapping queries; an event may fall out of the window, be beyond the sample, or
be recorded on the day after the report began.

Scheduling and fairness. `Fairness` is weak fairness of each call, in `write`,
`apply_one`, `identity` and `knowledge`: the event loop of JavaScript runs every
callback that is ready, and awaited work (the embedder, the file system, the
model of the gate) settles with a value or an error. Nothing is assumed of the
clock, of crashes, of callers, of checkpoints or of other sessions' writes.
`SteadySpec` is the specification without crashes, for a finding that does not
need them. Only safety is checked in `apply`, `previews`, `session` and `telemetry`.
`CHECK_DEADLOCK FALSE` stands where the system stops: every call has ended. In
these runs liveness, or the safety properties alone, tell that from waiting.

## 4. What is proved

The theorems of a module `M` are in `M_proofs`, which extends it (those of
`ProjectIndex` with `Promotion`'s, those of `MemorySave` with `SessionHooks`').
They hold for every value of the constants that the named assumptions admit: any
number of calls, hosts, entries, previews, users, files, tables, requests and
failures.

| Module | Theorem | Says of `Spec` |
|---|---|---|
| `ContinuityWrite_proofs` | `TypeCorrect` | `[]TypeOK` |
| | `RejectionLeavesNothing` | `[]RejectedLeavesNothing`, for any rowids |
| | `HostStoresOnce` | `[]NoDuplicateRows` |
| | `SearchIsSound` | `[]SearchSound`, for any rowids |
| | `PublicationIsAtomic` | `AtomicPublication`: a refinement of `EntryPublication` by the calls that share a rowid with no other call, whatever the others do |
| | `OnlyRollbackLosesDuplicates` | finding 1 delimited: once all calls have ended, a text refused as a duplicate is stored, or the call that wrote it was rejected or died |
| `CompactionApply_proofs` | `ApplyTypeOK` | `[]TypeOK` |
| | `RejectionLeavesNoTrace` | `[]RejectedLeavesNoTrace` |
| | `NothingDangles` | `[]NoDanglingLink`, if `"clear" \notin FaultyCalls` |
| | `LossIsReported` | `[]LossReported`: whatever throws, a dangling link is of an execution that reports it |
| | `CompactionIsAtomic` | `AtomicCompaction`: a refinement of `CompactionLedger` |
| | `CommittedStaysIntact` | `[]CommittedIntact`, if `RowIdsInjective` |
| | `NothingActiveIsLost` | `[]ActiveSearchable`, if `RowIdsInjective`, `"vectorStatus" \notin FaultyCalls` and `SourcesOnOneHost` |
| | `CompactedLeavesTheIndex` | `[]CompactedUnindexed`, under `DisjointSources` |
| | `NothingHalfApplied` | finding 2 delimited: `[]NoHalfApplied`, if `"mark"` and `"clear"` are not in `FaultyCalls` |
| | `AThrowStopsBetweenGroups` | what finding 2 leaves, whatever throws: groups before the throw applied whole, the failing group's summary beside its unlinked sources, later groups untouched |
| `CompactionPreviews_proofs` | `PreviewsTypeOK` | `[]TypeOK` |
| | `LineageKept` | `[]RevisionLineage` |
| | `AppliesTheEligible` | `[]AppliedWasEligible` |
| | `BudgetHonoured` | `[]PreviewBudgetHonoured` |
| | `ApplyOverrunIsBounded` | `[]ApplyOverrunBounded` |
| | `PreviewAppliedOnce` | `[]AppliedOnce`: of the calls that chose one preview one at most succeeds |
| `ProjectIdentity_proofs` (lemmas of `ConfigStore_proofs`) | `IdentityTypeOK` | `[]TypeOK` |
| | `MutationsSerial` | `[]OneMutationAtATime` |
| | `IdentityStaysLocal` | `[]LocalIdentityIgnored` |
| | `RowsStaySettled` | `SettledRowsKept`, if `NoFile` is no set of rows |
| `Promotion_proofs` | `PromotionTypeOK` | `[]TypeOK` |
| | `IndexStaysWhole` | `[]IndexWhole`, which excepts late rows |
| | `RunsRecorded` | `[]PromotionRecorded` |
| | `OnlyATornIndexHidesRows` | finding 3 delimited: `[]NoSilentGap`, if `[]LooksUpWhole` |
| `SessionHooks_proofs` | `SessionTypeOK` | `[]TypeOK` |
| | `ShutdownLeavesNone` | `[]ShutdownCheckpoints` |
| | `RemindersJustified` | `[]ReminderJustified` |
| | `AnswersAreThere`, `OneIsTold` | `[]AnsweredStays`, `[]StoredOnce`: finding 4 delimited |
| `ContinuityTelemetry_proofs` | `HintIsEarned` | `[]HintEarned` |
| | `TelemetryTypeOK` | `[]TypeOK` |
| | `ReportsBracketed` | `ReportBracketed`, an action property |

### What is assumed

* The `ASSUME` of each module, which TLC evaluates in the runs. They give the
  constants their types and say that what a payload, a call, a user or an inode is
  called is never the value that stands for "none", and that a preview is no call.
  Calls, users, contents and the sources of a group are finite sets: there are as many
  as the program was given.
* `RowIdsInjective` in `CommittedStaysIntact` and `NothingActiveIsLost`: no two ids
  share a 31-bit rowid. With a collision the rollback of one entry deletes the vector
  of the other, and these two fail. The theorems about writes do not assume it.
* `NoFileDistinct` in `RowsStaySettled`: the value that stands for a missing file
  is no set of rows (as a model value it is none, but TLC cannot compare it with
  them, so this is a hypothesis of the theorem).
* `SourcesOnOneHost` in `NothingActiveIsLost`: executions whose previews share a
  source run on one host. With three executions on different hosts the property is
  false: one that re-indexes a source while it rolls back may await its embedding
  while others compact that source and roll back.
* `"vectorStatus" \notin FaultyCalls`, there: a vector and its status are removed by
  two statements, and a throw between them is not undone (section 5).
* `DisjointSources` in `CompactedLeavesTheIndex`: no two executions share a source.
  Otherwise one of them may write the vector of a source back that another has
  compacted.
* `"clear" \notin FaultyCalls` in `NothingDangles`: the statement that clears the
  links of a group does not throw. If it does, `LossIsReported` says what is left.
* `"mark"` and `"clear"` not in `FaultyCalls` in `NothingHalfApplied`: the fault that
  `apply_mark_throws` injects, and the one that leaves a rollback its links. Every
  other call may throw.
* `LooksUpWhole` in `OnlyATornIndexHidesRows`, of behaviours and not of constants:
  whenever a search that found the index usable is about to read it, no rebuild has
  cleared its owner's rows without copying them all again. It is what the behaviour
  of `index_torn` breaks. Rebuilds, writes and crashes at any other moment, the
  steps of the search before included, are allowed.
* `TelemetryAssumption`: calls are finitely many, no label is the value for "none",
  and there is a day before the last one.
* Of the initial state what `Init` says: any sound config or none and any databases
  for the identity, any well-formed tables for the index.

No theorem uses fairness. Of the theorems about the apply saga only
`NothingActiveIsLost` uses that one event loop serialises what it runs, and only
between executions that share sources; the others use that each step is one turn.

### The invariants

None of the properties is inductive as it stands.

*Writes.* `SagaInv` relates the three program counters of a call (which phases of
the write and of the index call go together with which state of the call), says
that an entry reported `ok` by the index call is indexed, and what each stage of
the rollback has already removed; this is enough for `RejectedLeavesNothing`.
`VectorInv` adds whose vector stands at a rowid (`Explained`): behind an entry
marked indexed, or about to be marked, is a vector of an entry with its rowid, written
by a call if the entry is a call's; or a call with that rowid has removed it in its
rollback. An entry from before the calls is never overwritten (`OldEntry`): a call with
its rowid has found it taken and goes no further than the check.
For the refinement, a step of a call that shares its rowid with another is hidden
(`HiddenStep`), and no other call touches the vector of one that shares it with none.
`DistinctInv` adds what makes the gate and the insert exclusive: while nothing has
thrown, a call past its gate and not yet written (`Unwritten`) holds its event loop,
and no row of its host has its text. `DuplicateInv`, for the duplicates, says at every
moment that a text some call was refused is in the store or that the call that had
written it failed: a row leaves the store in a rollback only.

*Applies.* For each execution, `Phases` says which states of the write, of the
index call and of the work list go together; `Links` that a link to a summary of a
group is of a source of that group and that its summary exists or the rollback was
reported (`Excused`); `Progress` how far the execution has come: `Reached` is the
newest group it may have left anything of, all later ones are `Clean`, and `Behind`
is the newest group whose sources are all linked. What one execution does is framed
once (`OthersKept`): it touches only its own summaries and the links of sources that
are free or its own, which is why two executions over overlapping previews do not
undo each other. `Shows` adds, for `CommittedIntact`, that the summaries behind an
execution are active and have their own vectors. The refinement reads the entries
absorbed by the applied previews off the links: it changes at `Commit` alone, since
a successful execution is never rolled back.

`FindInv`, for `ActiveSearchable`, says of every entry, at every moment and not only
at the end, that it has its vector or that some execution owes it one (`Owes`): the
one that holds it compacted, or one that has set it free and has it on the list of
what its rollback re-indexes. A status row tells the truth about a vector
(`Truthful`) except between the two statements that remove one, and this is where
the event loop is needed: an execution between them is alone on its host. `DropInv`,
for `CompactedUnindexed`, says which of the sources it has linked an execution has
already taken out of the index (`Due`): those of the groups behind it, and of the
current group the ones no longer on the work list. `HalfInv` says that an execution
holds no source linked to a group later than it has marked (`Within`, up to
`Linkable`: none once it is rejected, unless its rollback reported a failure), and
where one that ended by a throw has stopped (`Stopped`).

*Previews.* `TableInv` is stated of any table and any history of verdicts, so that
the operators of the store (purge, expire, insert) are shown to preserve it once and
the actions that combine several of them follow: rows are of drawn ids, foreign keys
hold, a revision continues its parent, and no scope holds more than the larger
budget beside the previews whose count failed (`Metered`). For the apply budget,
`Overrun` says that the previews applied by metered calls and the metered calls in
flight exceed the budget, together, by less than the most that were ever in flight;
a call moves from the one to the other when it commits, and `Held` keeps two calls
from committing one preview. `StillEligible` carries what a call found over its
awaits: an id never comes back with another row, so what the commit reads is gone or
is what was found.

*Identity.* The code has no list of waiting calls: a map entry per process that
each call replaces and the last one deletes, and a promise per call. `QueueInv`
says that there are tickets, numbers the code does not have: the active calls of
a process hold distinct ones from `first[h]` up to `next[h]`, a call waits for the
one before its own, only the first waits for nobody, and the map entry is the
last. One lemma per operation on the queue hands out, advances or drops tickets.
`SoundConfig` says that a config that names a random id says so (`Sound`), in the
file, in every draft, and after every edit that waits in the queue, whatever sound
config it will find there; `SoundCall` says the same of what a call carries over its
awaits. The rules are always computed from one of these.
For the rows, `RowsInv` says (`Kept`) that what a change of name found when it
looked is still in the database it relies on: in the file of the old one until its
rename, in the file or the log of the new one while it is to remove the old. Every
action either adds rows to the databases (`Grows`) or takes the file or the log of one
of them away in one change (`Takes`); a change
whose database is thereby moved or removed under it is `disturbed` until it looks
again, and the property excuses no row of any other.

*Index.* `IndexInv` says that every fingerprint kept anywhere is of the past
(`Past`): no timestamp in it is later than the latest its table ever had. `Covered`
says of a fingerprint that the index has every row up to its timestamp but for late
ones; only these come to be among such rows later, so what was covered stays
covered. `Whole(o)` says that the index of `o` covers every fingerprint that counts,
`WholeSoFar(o, z)` that rebuild `z` has covered those of the sources it has passed;
the invariant is that the index is whole or that a torn rebuild is whole so far.
That a rebuild clears what another has copied is the case that needs it. A search
relies (`Relies`) on the fingerprint that it is to compare and, once it has found
the index usable, on any that counts up to the rows it wants; these count among
those that a whole index covers, so it has every wanted row. `SearchInv` says that
they are of the past too.

*Promotion.* `Candidacy`, `Itemizing` and `Accounted` relate a run's locals to its
rows by phase: until the record is written the contents that name the run are those
it has added, and no more are in hand than were accepted or than the limit; then
each content it added or refused gets one item. Other runs never take a content
that has a run.

*Sessions.* `SaveInv` bounds the inodes in use, so that a free one always exists;
`RuntimeInv` says that the cached runtime is the configured one unless it strayed;
`CourseInv` that a call under way while the session is open belongs to the request
that runs; `ComplianceInv` counts the trackers that requests and late hooks have
made. `ReminderInv` says of the running request's tracker (`Borne`) that it counted
calls of this request only, that its artifacts are distinct files which they edited,
and that it missed no note or query that succeeded and is through; and of each
reminder given that what it claims is so (`Said`), for good. `CheckpointInv` says
that a counted save that no checkpoint followed is in a database of the cached
runtime, with the counter above zero or the database's last checkpoint not made.
`AnswersInv`, for the saves, says that the store of the general database holds the
file its path leads to (`Coherent`), that what a call was told of its project
memory, unless adrift, is in the file of the user configured now (`Home`: a change
of user takes the contents along, by a rename or a merge), and that no two such
calls were told to have stored one content (`Alone`). Every step but a change of
user leaves the files and adds to their contents (`Grow`).

*The streak.* `Carries`: a query under way carries no more than has been earned
by now. A quiet answer resets what is earned only if no other query is under way,
so no carried count crosses it.

*Reports.* `ReportInv` says statement by statement what a trend report knows
(`Begun`, `Dated`, `Found`, `Sampled`): what it has read lies between what there was
when it began and what there is now. The database only grows (`Grown`: events are
appended, a label is replaced by a label), so one lemma (`ReportKept`) carries this
over the steps of all other calls. `Growth` bounds the events by the calls that have
recorded one, so that every event has an identity. The sums of a report are the
sizes of disjoint unions, and `ClassesAddUp` shows that the classes of a finite set
add up to what they cover; with it the days add up to the candidates of the window
and the labels to the labelled ones, without induction over data.

Each of the four findings has a theorem that says how far it reaches; of `save_lost`
it is `AnswersAreThere`: only an answer of a store that holds another file than the
configured user's (`adrift`) can speak of a memory that is not there. Without what such
a theorem excludes or names, the property of the finding holds.

The proofs have one lemma per action or subroutine. TLC checked the strengthened
invariants on the instances of the runs before they were proved.

### Only model-checked

* `EveryCallEnds`, `EveryApplyEnds`: liveness, which needs `ENABLED`.
* `ReminderInOrder`: it follows how files are remembered and dropped along the order of
  the hooks, which is induction over that sequence.
* `ActiveSearchable` for two executions on two hosts that share sources, as in
  `apply`: for more it is false, and the theorem is about executions of one host.

All other properties of the passing runs are theorems, some under the conditions
above.

## 5. Findings

1. A write is skipped as a duplicate of a row that is then rolled back
   (`write_lost_duplicate`).
2. A throw while marking leaves a half-applied preview (`apply_mark_throws`).
3. A search reads the index between the statements of a rebuild whose old
   metadata still call it ready (`index_torn`).
4. A cached store writes to a file that a change of identity removed
   (`save_lost`).

Behaviours of the code that a property leaves room for, each noted here so that
nobody takes the property for more than it says:

* A vector deletion that fails between its two statements is not undone by a
  rollback: the entry stays active without its vector. `ActiveSearchable` is
  checked without that fault, and links that cannot be cleared are reported as a
  rollback failure.
* An applied preview can be stored as expired by a second apply that began
  earlier, and so be purged with the expired ones; a revision that is still
  retained makes the purge of its expired parent fail on the foreign key.
* Both budgets fail open: a count that throws is 0
  (`countContinuityCompactionPreviewsInScope`), so a preview or an apply passes a
  spent budget. Applies that overlap are all counted before any has spent the budget:
  `ApplyOverrunBounded` allows as many over it as overlapped, less one.
* An index may lack rows and still be fresh by its fingerprint, COUNT and
  MAX(timestamp): a memory stamped before its embedding and inserted after it makes up
  for one that was deleted. `IndexWhole` excepts such late rows; they are found again
  after the next rebuild.
* A merge of databases drops rows whose integer key is taken in the target, and the
  merged rows stay in the target's log while any store has it open, when the source
  is already removed: `SettledRowsKept` counts file and log as the database. A
  rename may replace a database another session created meanwhile. Two changes of
  identity at once lose settled rows too: both see no database of the new name, the
  first renames, a session still on the old name recreates that database, and the
  second rename replaces the moved one; or, in opposite directions, both merge and
  both remove their source. `SettledRowsKept` excuses these as `disturbed`. The
  stores of other sessions keep writing to the old path until their next bootstrap.
* A save is routed by the user it read at its start. If the user changes during its
  awaits, or a store kept open holds a renamed or removed file, the answer is `adrift`:
  `AnsweredStays` and `StoredOnce` leave it out, and finding 4 is the case in which the
  memory is lost.
* A checkpoint that fails, or that readers keep from the end of the log, resets the
  write counter like one that was made (`sqlite-checkpoint-policy.ts:231`); if no
  save follows, the shutdown finds the counter at zero and leaves that log.
  `ShutdownCheckpoints` excepts databases whose last checkpoint was not made.
* A reminder depends on the order in which hooks return: a note that names a file is
  held against the edits and reads noted before it, and beyond the evidence limit the
  oldest file is forgotten. A note or query that answers an error in its text counts as
  an explicit update. `ReminderJustified` and `ReminderInOrder` say what is left.
* Config mutations are serial in a process only: two processes may each lose the
  other's change, and a reader may find the file truncated.
* Two rebuilds at once leave two copies of a row, and two copies raise the score
  of a promotion candidate.
* The review sample is the newest events, labelled or not: older unlabelled ones
  are never shown while newer ones exist. Overlapping queries lose counts of the
  streak.
* A hook that returns after the shutdown makes a new tracker in the session's
  maps, which nobody removes.

## 6. Not modelled and why

Parsing, rendering, ranking, briefings, argument handling and native-dependency
health carry no protocol state: they are functions of what the modelled parts
read. The vendored extension is third-party; of it `MemorySave` has what a save
does with a store. `runContinuityCompactionPolicy`,
`backfillContinuityVectorIndex`, `storeContinuityMilestone` and the migration of a
legacy promotion store have no callers. Member profiles and the copying of vector
tables in a merge are left out of `ProjectIdentity`; the readers of the global
database out of `Promotion`.

## 7. Plan

* *Models*: an abstract specification of the index (a set of rows read at one
  moment) and of the identity (one logical database that changes its name), with
  the conditions under which the detailed ones implement them.
