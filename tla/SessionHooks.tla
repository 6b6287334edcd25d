---------------------------- MODULE SessionHooks ----------------------------
(***************************************************************************)
(* The hooks of one session around its tool calls: the cached runtime, the *)
(* compliance tracker behind the reminders at the end of a request, and    *)
(* the write counter behind the checkpoints of the databases.              *)
(*                                                                         *)
(* The host runs the tool calls of a request in parallel, ends a request   *)
(* when the hooks of its calls have returned, and may shut the session     *)
(* down at any time; hooks of calls under way then come late.              *)
(***************************************************************************)
EXTENDS MemorySave, Sequences

CONSTANTS
    Kind,           \* what a call is: see Kinds
    Files,          \* the files edits, reads and notes are about
    Workspace,      \* of these, the ones inside the workspace
    Touches,        \* [Calls -> Files or None], what an edit or a read touches
    Note,           \* what a continuity_write holds: see Notices
    EvidenceLimit,  \* CONTINUITY_REQUEST_EVIDENCE_PATH_LIMIT
    Policy,         \* the checkpoint policy: "periodic" and "shutdown", or less
    MinimumWrites,  \* policy.minimumWrites
    Journals,       \* whether a hook journals edits by itself
    MaxRequests,    \* bound on the requests of the session
    Mixes           \* bound on the calls made: sets of calls made together

Kinds == {"save", "edit", "read", "note", "query"}

\* Sections; with None no signal can be decoded from the input.
SemanticSections == {"PLANS", "DECISIONS", "DISCOVERIES", "OUTCOMES"}
SourceRefRequired == {"DECISIONS", "DISCOVERIES", "OUTCOMES"}
Sections == SemanticSections \cup {"PROGRESS", None}

\* Whether the provenance is USER, whether there are source refs, whether the
\* content or a ref has a user-intent signal, and the files these name.
Notices == [section : Sections, user : BOOLEAN, refs : BOOLEAN, intent : BOOLEAN,
            names : SUBSET Files]

\* The compliance tracker: the calls it counted, in order; the edits journaled;
\* the files edited, and read, latest last; the edited files that semantic notes
\* named; the semantic notes that named a file edited or read.
Compliances == [counted : Seq(Calls), journaled : SUBSET Calls,
                artifacts : Seq(Files), sources : Seq(Files),
                covered : SUBSET Files, evident : SUBSET Calls]

ASSUME HookAssumption ==
    /\ Kind \in [Calls -> Kinds]
    /\ Workspace \subseteq Files /\ None \notin Files
    /\ Touches \in [Calls -> Files \cup {None}]
    /\ Note \in [Calls -> Notices]
    /\ EvidenceLimit \in Nat \ {0} /\ Mixes \subseteq SUBSET Calls
    /\ \A c \in Calls : Kind[c] = "save" <=> Saves(c)
    /\ Policy \subseteq {"periodic", "shutdown"}
    /\ MinimumWrites \in Nat \ {0} /\ Journals \in BOOLEAN /\ MaxRequests \in Nat
    /\ None \notin [writes : Nat, ever : BOOLEAN]
    /\ None \notin Compliances

VARIABLES
    phase,      \* the session: "new", "open", "closing", "closed"
    agent,      \* "idle", "prompted" or "running"
    request,    \* requests started so far
    runtime,    \* the user of the cached runtime, None, or Global if disabled
    tracker,    \* the checkpoint tracker, or None
    compliance, \* the compliance tracker, or None
    trackers,   \* compliance trackers made so far
    part,       \* part[c]: the request a call belongs to, 0 before it starts
    mine,       \* mine[c]: the compliance tracker its hook holds, 0 for none
    worked,     \* worked[c]: the tool succeeded
    reminded,   \* reminded[r]: what the end of request r warned about
    pending,    \* history: databases with counted saves no checkpoint followed
    unmade,     \* history: databases whose last checkpoint was not made
    left,       \* history: pending databases the shutdown left though the last
                \* checkpoint of them, if any, was made
    strayed     \* history: the cached runtime was not the configured one

maps == <<runtime, tracker, compliance, trackers>>
course == <<phase, agent, request, reminded>>
calls == <<pc, part, mine, worked>>
history == <<pending, unmade, left, strayed>>
vars == <<settings, failures, stores, saving, calls, course, maps, history>>

Ended == {"done"}
Reminders == {"none", "missing", "operational", "coarse", "intent", "sources", "paths"}
Standing == {"idle", "open", "load", "embed", "result", "journal"} \cup Ended

HookType ==
    /\ pc \in [Calls -> Standing]
    /\ phase \in {"new", "open", "closing", "closed"}
    /\ agent \in {"idle", "prompted", "running"}
    /\ request \in 0..MaxRequests
    /\ runtime \in Users \cup {None, Global}
    /\ tracker \in [writes : 0..Cardinality(Calls), ever : BOOLEAN] \cup {None}
    /\ compliance \in Compliances \cup {None}
    /\ trackers \in 0..(2*MaxRequests + 2)
    /\ part \in [Calls -> 0..MaxRequests]
    /\ mine \in [Calls -> 0..(2*MaxRequests + 2)]
    /\ worked \in [Calls -> BOOLEAN]
    /\ reminded \in [1..MaxRequests -> Reminders]
    /\ pending \subseteq Databases /\ unmade \subseteq Databases
    /\ left \subseteq Databases /\ strayed \in BOOLEAN

TypeOK == SaveType /\ HookType

NoWrites == [writes |-> 0, ever |-> FALSE]
Blank == [counted |-> <<>>, journaled |-> {}, artifacts |-> <<>>, sources |-> <<>>,
          covered |-> {}, evident |-> {}]

Init ==
    /\ SaveInit
    /\ pc = [c \in Calls |-> "idle"]
    /\ phase = "new" /\ agent = "idle" /\ request = 0
    /\ runtime = None /\ tracker = None /\ compliance = None /\ trackers = 0
    /\ part = [c \in Calls |-> 0]
    /\ mine = [c \in Calls |-> 0]
    /\ worked = [c \in Calls |-> FALSE]
    /\ reminded = [r \in 1..MaxRequests |-> "none"]
    /\ pending = {} /\ unmade = {} /\ left = {} /\ strayed = FALSE

-----------------------------------------------------------------------------
(* The cached runtime.                                                     *)

Current == IF enabled THEN configured ELSE Global

\* bootstrap caches the runtime, then creates its database; it may fail before
\* the one, and before or after the other.
Bootstraps(ok) ==
    /\ \/ /\ ok
          /\ runtime' = Current
          /\ file' = Created(Current)
          /\ UNCHANGED failures
       \/ /\ ~ok /\ Failure
          /\ UNCHANGED <<runtime, file>>
       \/ /\ ~ok /\ Failure
          /\ runtime' = Current
          /\ file' \in {file, Created(Current)}
    /\ UNCHANGED <<rows, opened>>

\* Mutant: the runtime is bootstrapped again for every hook.
ResolvesAnew(ok) == Bootstraps(ok)

\* resolveProjectRuntime.
Resolves(ok) ==
    IF runtime /= None THEN ok /\ UNCHANGED <<runtime, failures, stores>>
    ELSE Bootstraps(ok)

\* resolveActiveProjectRuntime: what a failing bootstrap has cached counts.
ResolvesActive(ok) ==
    IF runtime \in Users THEN ok /\ UNCHANGED <<runtime, failures, stores>>
    ELSE /\ \E b \in BOOLEAN : Bootstraps(b)
         /\ ok <=> runtime' \in Users

-----------------------------------------------------------------------------
(* Checkpoints.                                                            *)

\* Mutant: the project's database is left out.
PathsGlobal == {Global}

\* resolveCheckpointDatabasePaths of the cached runtime.
Paths == {Global} \cup ({runtime'} \cap Users)

\* Checkpoints of the databases that exist are attempted, and the writes count
\* from zero whatever came of it: one that fails is warned about, one that readers
\* or writers keep from the end of the log is not.
Checkpointed(saved) ==
    /\ tracker' = [writes |-> 0, ever |-> TRUE]
    /\ \E made \in SUBSET {d \in Paths : file'[d] /= None} :
         /\ pending' = saved \ made
         /\ unmade' = (unmade \cup Paths) \ made

\* The interval since the last checkpoint has elapsed, or has not.
Due(t, elapsed) ==
    /\ "periodic" \in Policy
    /\ t.writes >= MinimumWrites
    /\ ~t.ever \/ elapsed

-----------------------------------------------------------------------------
(* The session and its requests.                                           *)

SessionStart ==
    /\ phase = "new"
    /\ phase' = "open"
    /\ \E ok \in BOOLEAN : Bootstraps(ok)
    /\ UNCHANGED <<settings, saving, calls, agent, request, reminded,
                   tracker, compliance, trackers, history>>

\* before_agent_start.
BeforeAgentStart ==
    /\ phase = "open" /\ agent = "idle"
    /\ request < MaxRequests
    /\ agent' = "prompted"
    /\ \E ok \in BOOLEAN : Resolves(ok)
    /\ UNCHANGED <<settings, saving, calls, phase, request, reminded,
                   tracker, compliance, trackers, history>>

\* A fresh compliance tracker.
Resets == compliance' = Blank /\ trackers' = trackers + 1

AgentStart ==
    /\ phase = "open" /\ agent = "prompted"
    /\ agent' = "running"
    /\ request' = request + 1
    /\ Resets
    /\ UNCHANGED <<settings, failures, stores, saving, calls, phase, reminded, runtime,
                   tracker, history>>

Members(s) == {s[i] : i \in DOMAIN s}

EditsWorkspace(c) == Kind[c] = "edit" /\ worked[c] /\ Touches[c] \in Workspace
IsExplicit(c) == Kind[c] \in {"note", "query"}
IsSemantic(c) == Kind[c] = "note" /\ Note[c].section \in SemanticSections
LacksRefs(c) ==
    Kind[c] = "note" /\ Note[c].section \in SourceRefRequired /\ ~Note[c].refs
ShowsUser(c) ==
    \/ Kind[c] = "note" /\ Note[c].section /= None /\ Note[c].user
    \/ IsSemantic(c) /\ Note[c].intent

\* Fewer semantic notes than artifacts, and they name fewer than all of them.
IsCoarse(t) ==
    LET semantic == {c \in Members(t.counted) : IsSemantic(c)}
    IN  /\ Len(t.artifacts) > 1
        /\ Cardinality(semantic) < Len(t.artifacts)
        /\ Cardinality(t.covered) < Len(t.artifacts)

Reminder(t) ==
    LET counted == Members(t.counted)
    IN  IF ~\E c \in counted : Kind[c] = "edit" THEN "none"
        ELSE IF t.journaled = {} /\ ~\E c \in counted : IsExplicit(c) THEN "missing"
        ELSE IF ~\E c \in counted : IsSemantic(c) THEN "operational"
        ELSE IF IsCoarse(t) THEN "coarse"
        ELSE IF ~\E c \in counted : ShowsUser(c) THEN "intent"
        ELSE IF \E c \in counted : LacksRefs(c) THEN "sources"
        ELSE IF t.evident = {} THEN "paths" ELSE "none"

\* The hooks of the request's calls have returned.
AgentEnd ==
    /\ phase = "open" /\ agent = "running"
    /\ \A c \in Calls : part[c] = request => pc[c] \in Ended
    /\ agent' = "idle"
    /\ \E ok \in BOOLEAN :
         /\ Resolves(ok)
         /\ reminded' = [reminded EXCEPT ![request] =
                           IF ok /\ runtime' \in Users THEN Reminder(compliance) ELSE @]
    /\ Resets
    /\ UNCHANGED <<settings, saving, calls, phase, request, tracker, history>>

\* What is in the database of the configured user goes to that of the next.
Follows(set, v) == IF configured \in set THEN (set \ {configured}) \cup {v} ELSE set

\* The user changes the configured id, which bootstraps the session again.
UserSet ==
    /\ phase = "open"
    /\ \E v \in Users :
         /\ Change(v)
         /\ pending' = Follows(pending, v)
         /\ unmade' = Follows(unmade, v)
    /\ \/ runtime' = Current' /\ UNCHANGED failures
       \/ Failure /\ runtime' \in {runtime, Current'}
    /\ strayed' = (strayed \/ runtime' \notin {None, Current'})
    /\ UNCHANGED <<calls, course, tracker, compliance, trackers, left>>

-----------------------------------------------------------------------------
(* Tool calls.                                                             *)

Starts(c) ==
    /\ pc[c] = "idle"
    /\ phase = "open" /\ agent = "running"
    /\ \E mix \in Mixes : {c} \cup {d \in Calls : pc[d] /= "idle"} \subseteq mix
    /\ part' = [part EXCEPT ![c] = request]

StartsSave(c) ==
    /\ Kind[c] = "save"
    /\ Starts(c)
    /\ StartSave(c)
    /\ UNCHANGED <<mine, worked, course, maps, history>>

\* write, edit and read belong to the host.
Edits(c) ==
    /\ Kind[c] \in {"edit", "read"}
    /\ Starts(c)
    /\ Goes(c, "result")
    /\ \E ok \in BOOLEAN : worked' = [worked EXCEPT ![c] = ok]
    /\ UNCHANGED <<settings, failures, stores, saving, course, mine, maps, history>>

\* continuity_write and continuity_query, on the database of the session's runtime.
Notes(c) ==
    /\ Kind[c] \in {"note", "query"}
    /\ Starts(c)
    /\ Goes(c, "result")
    /\ \E ok \in BOOLEAN :
         /\ ResolvesActive(ok)
         /\ worked' = [worked EXCEPT ![c] = ok]
    /\ UNCHANGED <<settings, saving, course, mine, tracker, compliance, trackers, history>>

SavesOn(c) ==
    /\ SaveStep(c)
    /\ UNCHANGED <<course, part, mine, worked, maps, history>>

-----------------------------------------------------------------------------
(* tool_result.                                                            *)

\* The databases a save stored to, as far as it told; the configured user's only
\* if that is the file its store held.
StoredTo(c) ==
    (IF Told(c, "project", "stored") /\ c \notin adrift THEN {configured} ELSE {})
      \cup (IF \E l \in {"project", "general"} :
                 said[c][l] = "stored" /\ ~(l = "project" /\ enabled)
            THEN {Global} ELSE {})

\* A save is counted whatever it answered, and may be the one too many.
Counts(c) ==
    LET t == IF tracker = None THEN NoWrites ELSE tracker
        n == [t EXCEPT !.writes = @ + 1]
        saved == pending \cup StoredTo(c)
    IN  IF Kind[c] /= "save" THEN UNCHANGED <<tracker, pending, unmade>>
        ELSE \E elapsed \in BOOLEAN :
               IF Due(n, elapsed) THEN Checkpointed(saved)
               ELSE tracker' = n /\ pending' = saved /\ UNCHANGED unmade

\* recordContinuityEvidencePath: one more file, for the oldest at the limit.
Recorded(s, f) ==
    IF f = None \/ f \in Members(s) THEN s
    ELSE Append(IF Len(s) >= EvidenceLimit THEN Tail(s) ELSE s, f)

\* An edit or a read that failed is not counted, nor is an edit outside the
\* workspace; a note or a query is, also one that answered an error.
IsCounted(c) ==
    EditsWorkspace(c) \/ (Kind[c] = "read" /\ worked[c]) \/ IsExplicit(c)

\* What a note brings: only a semantic one names files.
Names(c) == IF IsSemantic(c) THEN Note[c].names ELSE {}

\* Mutant: a note is held against the files edited, not the files read.
NamesEdited(t, c) ==
    IF IsCounted(c) THEN
      [t EXCEPT
        !.counted = Append(@, c),
        !.artifacts = IF Kind[c] = "edit" THEN Recorded(@, Touches[c]) ELSE @,
        !.sources = IF Kind[c] = "read" THEN Recorded(@, Touches[c]) ELSE @,
        !.covered = @ \cup (Names(c) \cap Members(t.artifacts)),
        !.evident = IF Names(c) \cap Members(t.artifacts) /= {} THEN @ \cup {c} ELSE @]
    ELSE t

Noted(t, c) ==
    LET observed == Members(t.artifacts) \cup Members(t.sources)
    IN  IF IsCounted(c) THEN
          [t EXCEPT
            !.counted = Append(@, c),
            !.artifacts = IF Kind[c] = "edit" THEN Recorded(@, Touches[c]) ELSE @,
            !.sources = IF Kind[c] = "read" THEN Recorded(@, Touches[c]) ELSE @,
            !.covered = @ \cup (Names(c) \cap Members(t.artifacts)),
            !.evident = IF Names(c) \cap observed /= {} THEN @ \cup {c} ELSE @]
        ELSE t

Journaled(c) == Journals /\ runtime' \in Users /\ EditsWorkspace(c)

Hook(c) ==
    /\ pc[c] = "result"
    /\ \/ /\ Resolves(FALSE)
          /\ Goes(c, "done")
          /\ UNCHANGED <<tracker, pending, unmade, compliance, trackers, mine>>
       \/ /\ Resolves(TRUE)
          /\ Counts(c)
          /\ LET t == IF compliance = None THEN Blank ELSE compliance
             IN  compliance' = IF runtime' \in Users THEN Noted(t, c) ELSE t
          /\ trackers' = IF compliance = None THEN trackers + 1 ELSE trackers
          /\ mine' = [mine EXCEPT ![c] = trackers']
          /\ Goes(c, IF Journaled(c) THEN "journal" ELSE "done")
    /\ UNCHANGED <<settings, saving, course, part, worked, left, strayed>>

\* The awaited entry is stored, or is not; a tracker replaced meanwhile is lost.
Journal(c) ==
    /\ pc[c] = "journal"
    /\ Goes(c, "done")
    /\ \/ UNCHANGED compliance
       \/ /\ compliance' = IF compliance /= None /\ mine[c] = trackers
                           THEN [compliance EXCEPT !.journaled = @ \cup {c}] ELSE compliance
    /\ UNCHANGED <<settings, failures, stores, saving, course, part, mine, worked,
                   runtime, tracker, trackers, history>>

-----------------------------------------------------------------------------
(* session_shutdown.                                                       *)

\* The counter is checked, and the databases of the cached runtime checkpointed.
Shutdown ==
    /\ phase = "open"
    /\ phase' = "closing"
    /\ UNCHANGED <<stores, runtime>>
    /\ IF runtime /= None /\ "shutdown" \in Policy /\ tracker /= None /\ tracker.writes > 0
       THEN Checkpointed(pending)
       ELSE /\ tracker' = (IF tracker = None THEN NoWrites ELSE tracker)
            /\ UNCHANGED <<pending, unmade>>
    /\ left' = pending' \ unmade'
    /\ UNCHANGED <<settings, failures, saving, calls, agent, request, reminded,
                   compliance, trackers, strayed>>

\* After the awaited summary, every map of the session is cleared.
Clear ==
    /\ phase = "closing"
    /\ phase' = "closed"
    /\ runtime' = None /\ tracker' = None /\ compliance' = None
    /\ UNCHANGED <<settings, failures, stores, saving, calls, agent, request, reminded,
                   trackers, history>>

-----------------------------------------------------------------------------
Step(c) == SavesOn(c) \/ Hook(c) \/ Journal(c)

\* It stops once the session is closed and the calls have ended.
Next ==
    \/ SessionStart \/ BeforeAgentStart \/ AgentStart \/ AgentEnd
    \/ UserSet
    \/ \E c \in Calls : StartsSave(c) \/ Edits(c) \/ Notes(c) \/ Step(c)
    \/ Shutdown \/ Clear

Spec == Init /\ [][Next]_vars

-----------------------------------------------------------------------------
(* Properties.                                                             *)

\* Unless the cached runtime ever was another than the configured one, the
\* shutdown leaves no database behind that a counted save stored to and no
\* checkpoint followed, unless the last one attempted was not made, however hooks,
\* requests and failures were ordered.
ShutdownCheckpoints ==
    phase \in {"closing", "closed"} /\ "shutdown" \in Policy /\ ~strayed => left = {}

\* A reminder at the end of a request is borne out by the calls of that request:
\* a file of the workspace was edited, and no continuity_write or query succeeded,
\* or none of a semantic section, or fewer of them than files edited, or none of
\* the user's, or one without the refs it requires, or one at all that is semantic.
ReminderJustified ==
    \A r \in 1..MaxRequests :
      LET calls_of == {c \in Calls : part[c] = r}
          edits == {c \in calls_of : EditsWorkspace(c)}
          held == {c \in calls_of : IsExplicit(c) /\ worked[c]}
          semantic == {c \in held : IsSemantic(c)}
      IN  /\ reminded[r] = "missing" => edits /= {} /\ held = {}
          /\ reminded[r] = "operational" => edits /= {} /\ semantic = {}
          /\ reminded[r] = "coarse" =>
               Cardinality(semantic) < Cardinality({Touches[c] : c \in edits})
          /\ reminded[r] = "intent" => edits /= {} /\ ~\E c \in held : ShowsUser(c)
          /\ reminded[r] = "sources" => edits /= {} /\ \E c \in calls_of : LacksRefs(c)
          /\ reminded[r] = "paths" => edits /= {} /\ \E c \in calls_of : IsSemantic(c)

\* In the order in which the hooks of the request ran: a reminder that the notes
\* are too coarse means an edit no later note names the file of, and one that they
\* name no file means that none names a file edited or read before it, or that
\* more files were than the tracker remembers.
ReminderInOrder ==
    [][LET s == compliance.counted
           earlier(j) == {s[i] : i \in {k \in DOMAIN s : k < j}}
           touched == {Touches[c] : c \in {d \in Members(s) : Kind[d] \in {"edit", "read"}}}
       IN  reminded' /= reminded =>
             /\ reminded'[request] = "coarse" =>
                  \E i \in DOMAIN s :
                     /\ Kind[s[i]] = "edit"
                     /\ \A j \in DOMAIN s : j > i => Touches[s[i]] \notin Names(s[j])
             /\ reminded'[request] = "paths" /\ Cardinality(touched) <= EvidenceLimit =>
                  \A j \in DOMAIN s, c \in Calls :
                     c \in earlier(j) /\ Kind[c] \in {"edit", "read"} =>
                       Touches[c] \notin Names(s[j])
      ]_vars
=============================================================================
