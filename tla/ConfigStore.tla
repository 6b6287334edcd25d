----------------------------- MODULE ConfigStore -----------------------------
(***************************************************************************)
(* The project's config file, .agent/memory/pi-muninn.config.json, and its *)
(* generated .gitignore.  Mutations of one process are serialised by a     *)
(* queue of promises kept in its memory; sessions in other processes write *)
(* the same file.  Writing truncates the file before it fills it.          *)
(*                                                                         *)
(* A mutation is a subroutine of a command with its own phase cf[c]: an    *)
(* update reads the file, applies an edit and writes the result; a first   *)
(* write stores a config it is given.                                      *)
(*                                                                         *)
(* The config's fields stand for three kinds: a toggle any command sets    *)
(* (`enabled`; mode and briefing mode are set the same way), the user id,  *)
(* and where that id came from, of which isRandomLocal and isPortable are  *)
(* functions.                                                              *)
(***************************************************************************)
EXTENDS Naturals, FiniteSets

CONSTANTS
    Calls,      \* commands and hooks, each running once
    Hosts,      \* processes
    Host,       \* [Calls -> Hosts]
    Users,      \* user ids
    None,       \* no user id, no predecessor in a queue
    Keep,       \* a field an edit leaves as it is
    Absent,     \* a file that does not exist
    Torn,       \* a file truncated and not yet filled
    Legacy      \* parsed legacy config.json, or Absent

Sources == {"unresolved", "explicit", "project-config", "derived", "random-local"}

Config == [enabled : BOOLEAN, user : Users \cup {None}, source : Sources]
Edit == [enabled : BOOLEAN \cup {Keep}, user : Users \cup {None, Keep},
         source : Sources \cup {Keep}]

ASSUME ConfigAssumption ==
    /\ Host \in [Calls -> Hosts]
    /\ None \notin Users \cup Calls \cup Edit
    /\ Keep \notin Users \cup {None} /\ Keep \notin Sources /\ Keep \notin BOOLEAN
    /\ {Absent, "all"} \cap Users = {}

VARIABLES
    file,       \* the config file
    ignored,    \* .gitignore: Absent, "all", or the user whose db is shared
    tail,       \* tail[h]: last call in the queue of h
    behind,     \* behind[c]: the call c waits for
    cf,         \* phase of a call's mutation
    edit,       \* edit[c]: the fields an update sets
    draft       \* draft[c]: the config a mutation is about to write

config == <<file, ignored, tail, behind, cf, edit, draft>>

DefaultConfig == [enabled |-> FALSE, user |-> None, source |-> "unresolved"]

\* Whatever a hand-edited or old file holds becomes a config.
Normalized(raw) ==
    [enabled |-> IF raw.enabled \in BOOLEAN THEN raw.enabled ELSE FALSE,
     user |-> IF raw.user \in Users THEN raw.user ELSE None,
     source |-> IF raw.source \in Sources THEN raw.source ELSE "unresolved"]

IsRandomLocal(cfg) == cfg.source = "random-local"

\* What a reader gets when the active file is missing.
Fallback == IF Legacy = Absent THEN DefaultConfig ELSE Normalized(Legacy)

\* loadProjectMemoryConfig; a torn file does not parse.
Readable == file /= Torn
Loaded == IF file = Absent THEN Fallback ELSE file

Edited(cfg, e) == [f \in DOMAIN cfg |-> IF e[f] = Keep THEN cfg[f] ELSE e[f]]

\* The generated rules name at most the active member's database.
Rules(user, shared) == IF user /= None /\ shared THEN user ELSE "all"
RulesFor(cfg) == Rules(cfg.user, ~IsRandomLocal(cfg))

Phase == {"none", "queued", "rules", "truncate", "fill", "written", "failed"}

ConfigType ==
    /\ file \in Config \cup {Absent, Torn}
    /\ ignored \in Users \cup {Absent, "all"}
    /\ tail \in [Hosts -> Calls \cup {None}]
    /\ behind \in [Calls -> Calls \cup {None}]
    /\ cf \in [Calls -> Phase]
    /\ edit \in [Calls -> Edit \cup {None}]
    /\ draft \in [Calls -> Config \cup {None}]

ConfigInit(initial) ==
    /\ file = initial
    /\ ignored = IF initial = Absent THEN Absent ELSE RulesFor(initial)
    /\ tail = [h \in Hosts |-> None]
    /\ behind = [c \in Calls |-> None]
    /\ cf = [c \in Calls |-> "none"]
    /\ edit = [c \in Calls |-> None]
    /\ draft = [c \in Calls |-> None]

-----------------------------------------------------------------------------
(* runProjectConfigWriteLocked.                                            *)

Enqueue(c) ==
    /\ cf' = [cf EXCEPT ![c] = "queued"]
    /\ behind' = [behind EXCEPT ![c] = tail[Host[c]]]
    /\ tail' = [tail EXCEPT ![Host[c]] = c]

\* Mutant: the entry of the queue is deleted although others wait in it.
ReleaseForgetting(c) ==
    /\ behind' = [d \in Calls |-> IF behind[d] = c THEN None ELSE behind[d]]
    /\ tail' = [tail EXCEPT ![Host[c]] = None]

\* Mutant: the gate opens only together with the deletion of the entry.
ReleaseLast(c) ==
    /\ behind' = [d \in Calls |-> IF behind[d] = c /\ tail[Host[c]] = c THEN None
                                  ELSE behind[d]]
    /\ tail' = [tail EXCEPT ![Host[c]] = IF @ = c THEN None ELSE @]

Release(c) ==
    /\ behind' = [d \in Calls |-> IF behind[d] = c THEN None ELSE behind[d]]
    /\ tail' = [tail EXCEPT ![Host[c]] = IF @ = c THEN None ELSE @]

FailMutation(c) ==
    /\ cf' = [cf EXCEPT ![c] = "failed"]
    /\ edit' = [edit EXCEPT ![c] = None]
    /\ draft' = [draft EXCEPT ![c] = None]
    /\ Release(c)
    /\ UNCHANGED <<file, ignored>>

-----------------------------------------------------------------------------
(* updateProjectMemoryConfig and writeProjectMemoryConfig.                 *)

Update(c, e) ==
    /\ Enqueue(c)
    /\ edit' = [edit EXCEPT ![c] = e]
    /\ UNCHANGED <<file, ignored, draft>>

FirstWrite(c, cfg) ==
    /\ Enqueue(c)
    /\ draft' = [draft EXCEPT ![c] = cfg]
    /\ UNCHANGED <<file, ignored, edit>>

ConfigLocked(c) ==
    /\ cf[c] = "queued"
    /\ behind[c] = None
    /\ edit[c] = None \/ Readable
    /\ cf' = [cf EXCEPT ![c] = "rules"]
    /\ draft' = [draft EXCEPT ![c] =
                   IF edit[c] = None THEN @ ELSE Edited(Loaded, edit[c])]
    /\ UNCHANGED <<file, ignored, tail, behind, edit>>

ConfigUnreadable(c) ==
    /\ cf[c] = "queued"
    /\ behind[c] = None
    /\ edit[c] /= None /\ ~Readable
    /\ FailMutation(c)

\* Ignore rules first, so that the config is never unprotected.
ConfigRules(c) ==
    /\ cf[c] = "rules"
    /\ ignored' = RulesFor(draft[c])
    /\ cf' = [cf EXCEPT ![c] = "truncate"]
    /\ UNCHANGED <<file, tail, behind, edit, draft>>

ConfigTruncate(c) ==
    /\ cf[c] = "truncate"
    /\ file' = Torn
    /\ cf' = [cf EXCEPT ![c] = "fill"]
    /\ UNCHANGED <<ignored, tail, behind, edit, draft>>

ConfigFill(c) ==
    /\ cf[c] = "fill"
    /\ file' = draft[c]
    /\ cf' = [cf EXCEPT ![c] = "written"]
    /\ edit' = [edit EXCEPT ![c] = None]
    /\ Release(c)
    /\ UNCHANGED <<ignored, draft>>

ConfigStep(c) ==
    \/ ConfigLocked(c)
    \/ ConfigUnreadable(c)
    \/ ConfigRules(c)
    \/ ConfigTruncate(c)
    \/ ConfigFill(c)

\* The queue and the mutations in it die with their process.
ConfigCrash(h) ==
    LET Mine(c) == Host[c] = h
    IN  /\ tail' = [tail EXCEPT ![h] = None]
        /\ behind' = [c \in Calls |-> IF Mine(c) THEN None ELSE behind[c]]
        /\ cf' = [c \in Calls |-> IF Mine(c) THEN "none" ELSE cf[c]]
        /\ edit' = [c \in Calls |-> IF Mine(c) THEN None ELSE edit[c]]
        /\ draft' = [c \in Calls |-> IF Mine(c) THEN None ELSE draft[c]]
        /\ UNCHANGED <<file, ignored>>

\* The caller takes the result.
ConfigReturns(c) ==
    /\ cf' = [cf EXCEPT ![c] = "none"]
    /\ draft' = [draft EXCEPT ![c] = None]
    /\ UNCHANGED <<file, ignored, tail, behind, edit>>

-----------------------------------------------------------------------------
InMutation(c) == cf[c] \in {"rules", "truncate", "fill"}

\* Two mutations of one process are never between reading and writing the
\* config at once, although the queue is a map entry that each call replaces
\* and that the last one deletes ("serialize config mutations per workspace").
OneMutationAtATime ==
    \A c, d \in Calls :
        Host[c] = Host[d] /\ InMutation(c) /\ InMutation(d) => c = d
=============================================================================
