-------------------------- MODULE CompactionPreviews -------------------------
(***************************************************************************)
(* The continuity_compaction_previews table and the two tools that share   *)
(* it: continuity_compact_preview stores validated proposals, and          *)
(* continuity_compact_apply consumes one approved proposal.  Both first    *)
(* purge the table; both are limited by budgets per request scope; previews*)
(* expire after Ttl, applied ones are retained for Retention; a revision   *)
(* references its parent row with a foreign key.                           *)
(*                                                                         *)
(* A tool call is one turn of the event loop up to its await: the preview  *)
(* tool never awaits, the apply tool awaits the compaction of the groups,  *)
(* so an apply call is two turns with anything in between.  What the       *)
(* groups do to the entries is CompactionApply; here `held` is what it     *)
(* guarantees: the sources of a preview can be compacted by one call only. *)
(*                                                                         *)
(* Any of these reads and statements may fail.  A purge that fails is      *)
(* rolled back and ignored, a row that cannot be read counts as missing,   *)
(* and a count that fails is 0: budgets fail open.                         *)
(***************************************************************************)
EXTENDS Naturals, FiniteSets

CONSTANTS
    PreviewIds,     \* preview ids (randomUUID) the instance may draw
    Calls,          \* apply calls
    Scopes,         \* request scopes of one session
    Fingerprints,   \* proposal fingerprints
    MaxPreviews,    \* [profile -> previews per scope]
    MaxApplies,     \* [profile -> applies per scope]
    MaxRevisions,   \* revisions per chain
    Ttl,            \* lifetime of a preview that is not applied
    Retention,      \* retention of an applied preview
    MaxTime,        \* bound on the clock
    None            \* SQL NULL, or no lock

Profiles == {"strict", "long-request"}

ASSUME PreviewsAssumption ==
    /\ MaxPreviews \in [Profiles -> Nat \ {0}]
    /\ MaxApplies \in [Profiles -> Nat \ {0}]
    /\ MaxApplies["strict"] <= MaxApplies["long-request"]
    /\ MaxPreviews["strict"] <= MaxPreviews["long-request"]
    /\ {MaxRevisions, MaxTime} \subseteq Nat
    /\ {Ttl, Retention} \subseteq Nat \ {0}
    /\ None \notin PreviewIds \cup Profiles
    /\ IsFiniteSet(Calls)
    /\ Calls \cap PreviewIds = {}

VARIABLES
    now,        \* the clock
    table,      \* [live preview ids -> row]
    verdict,    \* history: [drawn preview ids -> status the row was stored with]
    locked,     \* profile a scope is locked to, in the memory of the session
    call,       \* [Calls -> where an apply call stands]
    held,       \* previews whose sources are compacted
    unmetered,  \* history: previews and calls let past a spent budget because
                \* the count failed
    peak        \* history: [Scopes -> most counted calls in flight at once]

vars == <<now, table, verdict, locked, call, held, unmetered, peak>>

\* Also stands for "approved_with_advisories", which no check tells apart.
Approved == {"approved"}
Statuses == Approved \cup {"rejected", "applied", "expired"}

Row == [scope : Scopes, profile : Profiles, basedOn : PreviewIds \cup {None},
        chain : PreviewIds, revision : Nat, fingerprint : Fingerprints,
        status : Statuses, expiresAt : Nat, appliedAt : Nat \cup {None},
        purgeAfterAt : Nat]

CallState == {"idle", "groups", "commit", "undo", "success", "rejected", "crashed"}

Standing(at, preview, scope, since) ==
    [at |-> at, preview |-> preview, scope |-> scope, since |-> since]

TypeOK ==
    /\ now \in 0..MaxTime
    /\ DOMAIN verdict \subseteq PreviewIds
    /\ \A p \in DOMAIN verdict : verdict[p] \in Approved \cup {"rejected"}
    /\ DOMAIN table \subseteq DOMAIN verdict
    /\ \A p \in DOMAIN table : table[p] \in Row
    /\ locked \in [Scopes -> Profiles \cup {None}]
    /\ call \in [Calls -> [at : CallState, preview : PreviewIds \cup {None},
                           scope : Scopes \cup {None}, since : Nat]]
    /\ held \in SUBSET PreviewIds
    /\ unmetered \in SUBSET (PreviewIds \cup Calls)
    /\ peak \in [Scopes -> Nat]

Init ==
    /\ now = 0
    /\ table = [p \in {} |-> None]
    /\ verdict = [p \in {} |-> None]
    /\ locked = [s \in Scopes |-> None]
    /\ call = [c \in Calls |-> Standing("idle", None, None, 0)]
    /\ held = {}
    /\ unmetered = {}
    /\ peak = [s \in Scopes |-> 0]

-----------------------------------------------------------------------------
(* The table.                                                              *)

Without(t, gone) == [p \in DOMAIN t \ gone |-> t[p]]
With(t, p, row) == [q \in DOMAIN t \cup {p} |-> IF q = p THEN row ELSE t[q]]

\* No remaining row references a deleted one.
ForeignKeysHold(t) ==
    \A p \in DOMAIN t : t[p].basedOn /= None => t[p].basedOn \in DOMAIN t

ExpiredRows(t) ==
    {p \in DOMAIN t : t[p].status /= "applied" /\ t[p].expiresAt <= now}
RetainedOutRows(t) ==
    {p \in DOMAIN t : t[p].status = "applied" /\ t[p].purgeAfterAt <= now}

\* Mutant: the purge on a connection that does not enforce foreign keys.
PurgedUnchecked(t) ==
    LET first == Without(t, ExpiredRows(t))
    IN  Without(first, RetainedOutRows(first))

\* Two DELETEs in one transaction, each checked against the foreign key; one
\* that fails rolls both back.
Purged(t) ==
    LET first == Without(t, ExpiredRows(t))
        second == Without(first, RetainedOutRows(first))
    IN  IF ForeignKeysHold(first) /\ ForeignKeysHold(second) THEN second ELSE t

\* What purgeContinuityCompactionPreviews may leave: any error is swallowed.
AfterPurge == {Purged(table), table}

\* Mutant: rejected previews do not count.
CountApprovedInScope(t, s) ==
    Cardinality({p \in DOMAIN t : t[p].scope = s /\ t[p].status /= "rejected"})

CountInScope(t, s) == Cardinality({p \in DOMAIN t : t[p].scope = s})

\* Mutant: an applied preview counts until it would have expired.
UnexpiredAppliedInScope(t, s) ==
    Cardinality({p \in DOMAIN t : /\ t[p].scope = s /\ t[p].status = "applied"
                                  /\ t[p].expiresAt > now})

AppliedInScope(t, s) ==
    Cardinality({p \in DOMAIN t : t[p].scope = s /\ t[p].status = "applied"})

\* resolveContinuityCompactionRequestProfile: first use locks the scope.
Profile(s, preferred) == IF locked[s] /= None THEN locked[s] ELSE preferred
\* What the override or the size of the proposal may select.
Detected(s) == IF locked[s] /= None THEN {locked[s]} ELSE Profiles
Lock(s, profile) == locked' = [locked EXCEPT ![s] = profile]

-----------------------------------------------------------------------------
(* continuity_compact_preview.                                             *)

\* Vetoes other than those on the lineage (schema, overlap, missing or
\* ineligible sources) and the advisories are the outcome `gates`; `parent` is
\* the row that was read for basedOn, or None.
PreviewStatus(t, s, basedOn, parent, fingerprint, gates) ==
    IF basedOn /= None /\ \/ parent = None
                          \/ t[parent].scope /= s
                          \/ t[parent].revision + 1 > MaxRevisions
                          \/ t[parent].fingerprint = fingerprint
    THEN "rejected" ELSE gates

\* Mutant: a first preview starts no chain of its own.
PreviewRowUnchained(t, p, s, profile, basedOn, parent, fingerprint, gates) ==
    [scope |-> s, profile |-> profile, basedOn |-> basedOn,
     chain |-> IF parent = None THEN None ELSE t[parent].chain,
     revision |-> IF parent = None THEN 0 ELSE t[parent].revision + 1,
     fingerprint |-> fingerprint,
     status |-> PreviewStatus(t, s, basedOn, parent, fingerprint, gates),
     expiresAt |-> now + Ttl, appliedAt |-> None, purgeAfterAt |-> now + Ttl]

PreviewRow(t, p, s, profile, basedOn, parent, fingerprint, gates) ==
    [scope |-> s, profile |-> profile, basedOn |-> basedOn,
     chain |-> IF parent = None THEN p ELSE t[parent].chain,
     revision |-> IF parent = None THEN 0 ELSE t[parent].revision + 1,
     fingerprint |-> fingerprint,
     status |-> PreviewStatus(t, s, basedOn, parent, fingerprint, gates),
     expiresAt |-> now + Ttl, appliedAt |-> None, purgeAfterAt |-> now + Ttl]

\* The row is stored: the count is below the budget, or it failed.
StorePreview(t, s, profile, basedOn, fingerprint, gates) ==
    \E p \in PreviewIds \ DOMAIN verdict, parent \in {basedOn, None} :
        LET row == PreviewRow(t, p, s, profile, basedOn, parent, fingerprint, gates)
        IN  /\ table' = With(t, p, row)
            /\ verdict' = With(verdict, p, row.status)
            /\ unmetered' = IF CountInScope(t, s) < MaxPreviews[profile]
                            THEN unmetered ELSE unmetered \cup {p}

Preview(s, detected) ==
    \E t \in AfterPurge :
        LET profile == Profile(s, detected)
        IN  /\ detected \in Detected(s)
            /\ Lock(s, profile)
            /\ \/ \E basedOn \in DOMAIN t \cup {None}, fingerprint \in Fingerprints,
                     gates \in Approved \cup {"rejected"} :
                    StorePreview(t, s, profile, basedOn, fingerprint, gates)
               \* The budget is spent; or the INSERT throws, its foreign key
               \* naming no row or the database failing.
               \/ table' = t /\ UNCHANGED <<verdict, unmetered>>
            /\ UNCHANGED <<now, call, held, peak>>

-----------------------------------------------------------------------------
(* continuity_compact_apply.                                               *)

\* Mutant: the status of the preview is not looked at.
EligibleInAnyStatus(t, p, s) ==
    /\ p \in DOMAIN t
    /\ t[p].scope = s
    /\ t[p].expiresAt > now
    /\ t[p].appliedAt = None

Eligible(t, p, s) ==
    /\ p \in DOMAIN t
    /\ t[p].scope = s
    /\ t[p].status \in Approved
    /\ t[p].expiresAt > now
    /\ t[p].appliedAt = None

\* An expired preview is marked so, whatever its status was.
Expire(t, p) ==
    IF p \in DOMAIN t /\ t[p].expiresAt <= now
    THEN With(t, p, [t[p] EXCEPT !.status = "expired"]) ELSE t

Reject(c) == call' = [call EXCEPT ![c] = Standing("rejected", None, None, 0)]

\* Calls that found the budget free and await their groups or their commit.
InFlight(s) == {c \in Calls \ unmetered : /\ call[c].scope = s
                                          /\ call[c].at \in {"groups", "commit"}}

\* The checks pass: the count is below the budget, or it failed.
Choose(c, t, s, profile, p) ==
    /\ Eligible(t, p, s)
    /\ table' = t
    /\ call' = [call EXCEPT ![c] = Standing("groups", p, s, now)]
    /\ \/ /\ AppliedInScope(t, s) < MaxApplies[profile]
          /\ \E n \in {peak[s], Cardinality(InFlight(s)) + 1} :
               /\ n >= peak[s] /\ n >= Cardinality(InFlight(s)) + 1
               /\ peak' = [peak EXCEPT ![s] = n]
          /\ UNCHANGED unmetered
       \/ /\ AppliedInScope(t, s) >= MaxApplies[profile]
          /\ unmetered' = unmetered \cup {c}
          /\ UNCHANGED peak

\* First turn: purge, read, check; then await the groups.  `seen` is the row
\* that was read for p, if any; the UPDATE to "expired" may throw.
BeginApply(c, s, detected, p) ==
    \E t \in AfterPurge, seen \in {p, None} :
        LET preferred == IF seen \in DOMAIN t THEN t[seen].profile ELSE detected
            profile == Profile(s, preferred)
        IN  /\ call[c].at = "idle"
            /\ detected \in Detected(s)
            /\ Lock(s, profile)
            /\ \/ Choose(c, t, s, profile, seen)
               \/ /\ AppliedInScope(t, s) < MaxApplies[profile] => ~Eligible(t, seen, s)
                  /\ table' \in {t, Expire(t, seen)}
                  /\ Reject(c)
                  /\ UNCHANGED <<unmetered, peak>>
            /\ UNCHANGED <<now, verdict, held>>

\* The groups were compacted; only one call can do that for one preview.
GroupsApplied(c) ==
    /\ call[c].at = "groups"
    /\ call[c].preview \notin held
    /\ held' = held \cup {call[c].preview}
    /\ call' = [call EXCEPT ![c].at = "commit"]
    /\ UNCHANGED <<now, table, verdict, locked, unmetered, peak>>

\* The groups were vetoed or rolled back.
GroupsFailed(c) ==
    /\ call[c].at = "groups"
    /\ Reject(c)
    /\ UNCHANGED <<now, table, verdict, locked, held, unmetered, peak>>

\* Second turn: the row becomes 'applied' whatever its status is by now.
Commit(c) ==
    LET p == call[c].preview
    IN  /\ call[c].at = "commit"
        /\ p \in DOMAIN table
        /\ table' = [table EXCEPT ![p].status = "applied",
                                  ![p].appliedAt = call[c].since,
                                  ![p].purgeAfterAt = call[c].since + Retention]
        /\ call' = [call EXCEPT ![c].at = "success"]
        /\ UNCHANGED <<now, verdict, locked, held, unmetered, peak>>

\* The update threw, or matched no row: the row is gone, or params.preview_id
\* carried blanks that only the read trimmed.  Await the rollback.
CommitFailed(c) ==
    /\ call[c].at = "commit"
    /\ call' = [call EXCEPT ![c].at = "undo"]
    /\ UNCHANGED <<now, table, verdict, locked, held, unmetered, peak>>

\* The rollback restored the sources, or reported that it could not.
RolledBack(c) ==
    /\ call[c].at = "undo"
    /\ held' \in {held, held \ {call[c].preview}}
    /\ Reject(c)
    /\ UNCHANGED <<now, table, verdict, locked, unmetered, peak>>

-----------------------------------------------------------------------------
Tick ==
    /\ now < MaxTime
    /\ now' = now + 1
    /\ UNCHANGED <<table, verdict, locked, call, held, unmetered, peak>>

\* The session's process restarts: calls die, the profile locks are lost.
Restart ==
    /\ locked' = [s \in Scopes |-> None]
    /\ call' = [c \in Calls |-> IF call[c].at \in {"groups", "commit", "undo"}
                                THEN [call[c] EXCEPT !.at = "crashed"]
                                ELSE call[c]]
    /\ UNCHANGED <<now, table, verdict, held, unmetered, peak>>

Next ==
    \/ \E s \in Scopes, detected \in Profiles : Preview(s, detected)
    \/ \E c \in Calls, s \in Scopes, detected \in Profiles, p \in PreviewIds :
            BeginApply(c, s, detected, p)
    \/ \E c \in Calls : \/ GroupsApplied(c) \/ GroupsFailed(c)
                        \/ Commit(c) \/ CommitFailed(c) \/ RolledBack(c)
    \/ Tick
    \/ Restart

Spec == Init /\ [][Next]_vars

-----------------------------------------------------------------------------
(* Properties.                                                             *)

\* A retained revision never loses its parent row, through any sequence of
\* purges (the order of the two DELETEs and the rollback between them), and an
\* approved one continues a chain of its own scope within the revision limit,
\* whatever was purged, restarted or relocked since.
RevisionLineage ==
    /\ ForeignKeysHold(table)
    /\ \A p \in DOMAIN table :
         LET parent == table[p].basedOn
         IN  parent /= None /\ verdict[p] \in Approved =>
                 /\ table[p].scope = table[parent].scope
                 /\ table[p].chain = table[parent].chain
                 /\ table[p].revision = table[parent].revision + 1
                 /\ table[p].revision <= MaxRevisions

\* A preview that was stored rejected, was expired when the call began, or
\* belongs to another scope is never applied, although the status a commit
\* overwrites may have changed while the call awaited its groups.
AppliedWasEligible ==
    \A c \in Calls : call[c].at = "success" =>
        /\ verdict[call[c].preview] \in Approved
        /\ call[c].preview \in DOMAIN table =>
             /\ table[call[c].preview].scope = call[c].scope
             /\ table[call[c].preview].expiresAt > call[c].since

\* The rows of a scope stay within the larger preview budget, through purges,
\* restarts and changes of profile, but for those stored over it because
\* countContinuityCompactionPreviewsInScope failed and returned 0.
PreviewBudgetHonoured ==
    \A s \in Scopes :
        Cardinality({p \in DOMAIN table \ unmetered : table[p].scope = s})
            <= MaxPreviews["long-request"]

\* The applied previews of a scope that calls applied which had found the budget free.
MeteredApplied(s) ==
    {p \in DOMAIN table :
        /\ table[p].scope = s /\ table[p].status = "applied"
        /\ \E c \in Calls \ unmetered : call[c].at = "success" /\ call[c].preview = p}

\* The budget of applies is read before the groups are awaited and spent after:
\* calls that overlap may exceed it by the number of those in flight at once,
\* less one, and calls one after another never do, whatever was purged, marked
\* expired, relocked or restarted between.
ApplyOverrunBounded ==
    \A s \in Scopes :
        Cardinality(MeteredApplied(s)) < MaxApplies["long-request"] + peak[s]
=============================================================================
