---------------------- MODULE CompactionPreviews_proofs ----------------------
(***************************************************************************)
(* What the preview table keeps for any number of previews, apply calls,   *)
(* scopes, budgets and lifetimes: its types, the lineage of revisions, the *)
(* budgets of a scope, and that a call applies only what was approved.     *)
(***************************************************************************)
EXTENDS CompactionPreviews, FiniteSetTheorems, TLAPS

InScope(t, s) == {p \in DOMAIN t : t[p].scope = s}

\* An approved revision continues its parent.
Continues(t, v, p) ==
    LET parent == t[p].basedOn
    IN  parent /= None /\ v[p] \in Approved =>
            /\ t[p].scope = t[parent].scope
            /\ t[p].chain = t[parent].chain
            /\ t[p].revision = t[parent].revision + 1
            /\ t[p].revision <= MaxRevisions

\* The rows of a scope that were stored within its budget; m is `unmetered`.
Metered(t, m, s) == InScope(t, s) \ m

\* The invariant of a table t whose rows were stored with the statuses v.
TableInv(t, v, m) ==
    /\ DOMAIN v \subseteq PreviewIds
    /\ \A p \in DOMAIN v : v[p] \in Approved \cup {"rejected"}
    /\ DOMAIN t \subseteq DOMAIN v
    /\ \A p \in DOMAIN t : t[p] \in Row
    /\ \A p \in DOMAIN t : t[p].status \in Approved => v[p] \in Approved
    /\ ForeignKeysHold(t)
    /\ \A p \in DOMAIN t : Continues(t, v, p)
    /\ IsFiniteSet(DOMAIN t)
    /\ \A s \in Scopes : Cardinality(Metered(t, m, s)) <= MaxPreviews["long-request"]

\* Stages at which a call has found its preview eligible.
Chosen == {"groups", "commit", "undo", "success", "crashed"}

\* What a call found holds on: no row of a drawn id ever comes back changed.
StillEligible(c, t, v) ==
    call[c].at \in Chosen =>
        LET p == call[c].preview
        IN  /\ p \in DOMAIN v /\ v[p] \in Approved
            /\ p \in DOMAIN t => /\ t[p].scope = call[c].scope
                                 /\ t[p].expiresAt > call[c].since

CallType ==
    /\ now \in 0..MaxTime
    /\ locked \in [Scopes -> Profiles \cup {None}]
    /\ call \in [Calls -> [at : CallState, preview : PreviewIds \cup {None},
                           scope : Scopes \cup {None}, since : Nat]]
    /\ held \in SUBSET PreviewIds
    /\ unmetered \in SUBSET (PreviewIds \cup Calls)
    /\ peak \in [Scopes -> Nat]

\* The calls that compacted the sources of a preview and did not roll back.
Holds(c, p) == call[c].preview = p /\ call[c].at \in {"commit", "undo", "success"}

Held ==
    /\ \A c \in Calls : \A p \in PreviewIds : Holds(c, p) => p \in held
    /\ \A c, d \in Calls : \A p \in PreviewIds : Holds(c, p) /\ Holds(d, p) => c = d

\* A metered call that is in flight was counted when it began; it spends the
\* budget when it commits, and no call beside it can commit the same preview.
Overrun(s) ==
    /\ Cardinality(InFlight(s)) <= peak[s]
    /\ Cardinality(MeteredApplied(s)) + Cardinality(InFlight(s))
          < MaxApplies["long-request"] + peak[s]

IInv ==
    /\ CallType
    /\ TableInv(table, verdict, unmetered)
    /\ \A c \in Calls : StillEligible(c, table, verdict)
    /\ Held
    /\ \A s \in Scopes : Overrun(s)

-----------------------------------------------------------------------------
(* What the operators on the table preserve.                               *)

\* A purge only removes rows.
LEMMA PurgedKeeps ==
    ASSUME NEW t
    PROVE  /\ DOMAIN Purged(t) \subseteq DOMAIN t
           /\ \A p \in DOMAIN Purged(t) : Purged(t)[p] = t[p]
           /\ ForeignKeysHold(t) => ForeignKeysHold(Purged(t))
<1> DEFINE first == Without(t, ExpiredRows(t))
           second == Without(first, RetainedOutRows(first))
<1>1. DOMAIN first \subseteq DOMAIN t /\ \A p \in DOMAIN first : first[p] = t[p]
  BY DEF Without
<1>2. DOMAIN second \subseteq DOMAIN first /\ \A p \in DOMAIN second : second[p] = first[p]
  BY DEF Without
<1>3. Purged(t) = IF ForeignKeysHold(first) /\ ForeignKeysHold(second) THEN second ELSE t
  BY DEF Purged
<1> HIDE DEF first, second
<1> QED
  BY <1>1, <1>2, <1>3

\* Fewer rows of a scope in a table with fewer rows.
LEMMA FewerInScope ==
    ASSUME NEW t, NEW u, IsFiniteSet(DOMAIN t), DOMAIN u \subseteq DOMAIN t,
           \A p \in DOMAIN u : u[p].scope = t[p].scope, NEW m, NEW s
    PROVE  /\ Cardinality(Metered(u, m, s)) <= Cardinality(Metered(t, m, s))
           /\ Cardinality(Metered(t, m, s)) \in Nat
           /\ Cardinality(Metered(u, m, s)) \in Nat
<1>1. Metered(u, m, s) \subseteq Metered(t, m, s) /\ Metered(t, m, s) \subseteq DOMAIN t
  BY DEF Metered, InScope
<1>2. IsFiniteSet(Metered(t, m, s))
  BY <1>1, FS_Subset
<1> QED
  BY <1>1, <1>2, FS_Subset, FS_CardinalityType

LEMMA Budgets == /\ MaxPreviews["long-request"] \in Nat
                 /\ \A profile \in Profiles :
                      /\ MaxPreviews[profile] \in Nat
                      /\ MaxPreviews[profile] <= MaxPreviews["long-request"]
                 /\ MaxApplies["long-request"] \in Nat \ {0}
                 /\ \A profile \in Profiles :
                      /\ MaxApplies[profile] \in Nat
                      /\ MaxApplies[profile] <= MaxApplies["long-request"]
                 /\ None \notin PreviewIds /\ None \notin Profiles
BY PreviewsAssumption DEF PreviewsAssumption, Profiles

\* A purge leaves a table that is as good.
LEMMA PurgedSafe ==
    ASSUME NEW t, NEW v, NEW m, TableInv(t, v, m)
    PROVE  TableInv(Purged(t), v, m)
<1> DEFINE u == Purged(t)
<1>1. DOMAIN u \subseteq DOMAIN t /\ (\A p \in DOMAIN u : u[p] = t[p]) /\ ForeignKeysHold(u)
  BY PurgedKeeps DEF TableInv
<1> HIDE DEF u
<1>2. IsFiniteSet(DOMAIN u)
  BY <1>1, FS_Subset DEF TableInv
<1>3. \A s \in Scopes : Cardinality(Metered(u, m, s)) <= MaxPreviews["long-request"]
  BY <1>1, FewerInScope, Budgets DEF TableInv
<1>4. \A p \in DOMAIN u : Continues(u, v, p)
  BY <1>1 DEF TableInv, Continues, ForeignKeysHold
<1>5. TableInv(u, v, m)
  BY <1>1, <1>2, <1>3, <1>4 DEF TableInv
<1> QED
  BY <1>5 DEF u

\* An update of status and times of a row, to anything but an approval.
LEMMA MarkedSafe ==
    ASSUME NEW t, NEW v, NEW m, TableInv(t, v, m), NEW p \in DOMAIN t, NEW row \in Row,
           row.scope = t[p].scope, row.basedOn = t[p].basedOn, row.chain = t[p].chain,
           row.revision = t[p].revision, row.status \notin Approved
    PROVE  TableInv(With(t, p, row), v, m)
<1> DEFINE u == With(t, p, row)
<1>1. /\ DOMAIN u = DOMAIN t
      /\ \A q \in DOMAIN t : u[q] = IF q = p THEN row ELSE t[q]
  BY DEF With
<1> HIDE DEF u
<1>2. \A q \in DOMAIN t : /\ u[q].scope = t[q].scope /\ u[q].basedOn = t[q].basedOn
                          /\ u[q].chain = t[q].chain /\ u[q].revision = t[q].revision
  BY <1>1
<1>3. \A s \in Scopes : Cardinality(Metered(u, m, s)) <= MaxPreviews["long-request"]
  BY <1>1, <1>2, FewerInScope, Budgets DEF TableInv
<1>4. ForeignKeysHold(u) /\ \A q \in DOMAIN u : Continues(u, v, q)
  BY <1>1, <1>2 DEF TableInv, Continues, ForeignKeysHold
<1>5. \A q \in DOMAIN u : u[q] \in Row /\ (u[q].status \in Approved => v[q] \in Approved)
  BY <1>1 DEF TableInv
<1>6. TableInv(u, v, m)
  BY <1>1, <1>3, <1>4, <1>5 DEF TableInv
<1> QED
  BY <1>6 DEF u

\* Marking a row expired keeps what calls and revisions rely on.
LEMMA ExpireSafe ==
    ASSUME NEW t, NEW v, NEW m, TableInv(t, v, m), NEW p
    PROVE  /\ TableInv(Expire(t, p), v, m)
           /\ DOMAIN Expire(t, p) = DOMAIN t
           /\ \A q \in DOMAIN t : /\ Expire(t, p)[q].scope = t[q].scope
                                  /\ Expire(t, p)[q].expiresAt = t[q].expiresAt
<1>1. CASE p \in DOMAIN t /\ t[p].expiresAt <= now
  <2> DEFINE row == [t[p] EXCEPT !.status = "expired"]
  <2>1. t[p] \in Row
    BY <1>1 DEF TableInv
  <2>2. /\ row \in Row /\ row.scope = t[p].scope /\ row.basedOn = t[p].basedOn
        /\ row.chain = t[p].chain /\ row.revision = t[p].revision
        /\ row.expiresAt = t[p].expiresAt /\ row.status \notin Approved
    BY <2>1 DEF Row, Statuses, Approved
  <2>3. Expire(t, p) = With(t, p, row)
    BY <1>1 DEF Expire
  <2> HIDE DEF row
  <2>4. TableInv(With(t, p, row), v, m)
    BY <1>1, <2>2, MarkedSafe
  <2> QED
    BY <1>1, <2>2, <2>3, <2>4 DEF With
<1>2. CASE ~(p \in DOMAIN t /\ t[p].expiresAt <= now)
  BY <1>2 DEF Expire
<1> QED
  BY <1>1, <1>2

\* A new row under a fresh id, within the budget or recorded as over it, with
\* its parent there, whether or not the parent could be read.
LEMMA InsertSafe ==
    ASSUME NEW t, NEW v, NEW m, TableInv(t, v, m), NEW s \in Scopes, NEW profile \in Profiles,
           NEW basedOn \in PreviewIds \cup {None}, NEW parent \in {basedOn, None},
           NEW fingerprint \in Fingerprints,
           NEW gates \in Approved \cup {"rejected"}, NEW p \in PreviewIds \ DOMAIN v,
           basedOn = None \/ basedOn \in DOMAIN t, now \in Nat
    PROVE  LET row == PreviewRow(t, p, s, profile, basedOn, parent, fingerprint, gates)
           IN  TableInv(With(t, p, row), With(v, p, row.status),
                        IF CountInScope(t, s) < MaxPreviews[profile] THEN m ELSE m \cup {p})
<1> DEFINE row == PreviewRow(t, p, s, profile, basedOn, parent, fingerprint, gates)
           u == With(t, p, row)
           w == With(v, p, row.status)
           n == IF CountInScope(t, s) < MaxPreviews[profile] THEN m ELSE m \cup {p}
<1>1. row.status \in Approved \cup {"rejected"} /\ row.scope = s /\ row.basedOn = basedOn
  BY DEF PreviewRow, PreviewStatus
<1>2. row \in Row
  <2>1. now + Ttl \in Nat
    BY PreviewsAssumption DEF PreviewsAssumption
  <2>2. (parent # None) => t[parent].chain \in PreviewIds /\ t[parent].revision \in Nat
    BY DEF TableInv, Row
  <2> QED
    BY <1>1, <2>1, <2>2 DEF PreviewRow, Row, Statuses
<1>3. basedOn /= None /\ row.status \in Approved =>
         /\ row.scope = t[basedOn].scope /\ row.chain = t[basedOn].chain
         /\ row.revision = t[basedOn].revision + 1 /\ row.revision <= MaxRevisions
  <2>1. (basedOn # None) => t[basedOn].revision \in Nat
    BY DEF TableInv, Row
  <2>2. basedOn # None /\ row.status \in Approved => parent = basedOn
    BY DEF PreviewRow, PreviewStatus, Approved
  <2> QED
    BY <2>1, <2>2, PreviewsAssumption DEF PreviewRow, PreviewStatus, Approved, PreviewsAssumption
<1>4. /\ DOMAIN u = DOMAIN t \cup {p} /\ DOMAIN w = DOMAIN v \cup {p}
      /\ u[p] = row /\ w[p] = row.status
      /\ \A q \in DOMAIN t : q # p /\ u[q] = t[q]
      /\ \A q \in DOMAIN v : w[q] = v[q]
  BY DEF With, TableInv
<1>5. \/ CountInScope(t, s) < MaxPreviews[profile] /\ n = m
      \/ n = m \cup {p}
  OBVIOUS
<1> HIDE DEF row, u, w, n
<1>6. ForeignKeysHold(u)
  BY <1>1, <1>4, Budgets DEF ForeignKeysHold, TableInv
<1>7. \A q \in DOMAIN u : Continues(u, w, q)
  <2>1. Continues(u, w, p)
    BY <1>1, <1>3, <1>4, Budgets DEF Continues, TableInv
  <2>2. ASSUME NEW q \in DOMAIN t PROVE Continues(u, w, q)
    BY <2>2, <1>4 DEF Continues, TableInv, ForeignKeysHold
  <2> QED
    BY <2>1, <2>2, <1>4
<1>8. IsFiniteSet(DOMAIN u)
  BY <1>4, FS_AddElement DEF TableInv
<1>9. ASSUME NEW r \in Scopes
      PROVE  Cardinality(Metered(u, n, r)) <= MaxPreviews["long-request"]
  <2>1. Metered(t, m, r) \subseteq InScope(t, r) /\ InScope(t, r) \subseteq DOMAIN t
        /\ p \notin InScope(t, r)
    BY <1>4 DEF InScope, Metered
  <2>2. IsFiniteSet(InScope(t, r)) /\ Cardinality(InScope(t, r)) \in Nat
    BY <2>1, FS_Subset, FS_CardinalityType DEF TableInv
  <2>3. /\ IsFiniteSet(Metered(t, m, r)) /\ Cardinality(Metered(t, m, r)) \in Nat
        /\ Cardinality(Metered(t, m, r)) <= Cardinality(InScope(t, r))
    BY <2>1, <2>2, FS_Subset, FS_CardinalityType
  <2>4. CASE r = s /\ n = m /\ CountInScope(t, s) < MaxPreviews[profile]
    <3>1. Metered(u, n, r) \subseteq Metered(t, m, r) \cup {p}
      BY <1>1, <1>4, <2>4 DEF InScope, Metered
    <3>2. /\ IsFiniteSet(Metered(t, m, r) \cup {p})
          /\ Cardinality(Metered(t, m, r) \cup {p}) = Cardinality(Metered(t, m, r)) + 1
      BY <2>1, <2>3, FS_AddElement
    <3>3. /\ Cardinality(Metered(u, n, r)) <= Cardinality(Metered(t, m, r)) + 1
          /\ Cardinality(Metered(u, n, r)) \in Nat
      BY <3>1, <3>2, FS_Subset, FS_CardinalityType
    <3>4. Cardinality(InScope(t, r)) < MaxPreviews[profile]
      BY <2>4 DEF CountInScope, InScope
    <3> QED
      BY <3>3, <3>4, <2>2, <2>3, Budgets
  <2>5. CASE r # s \/ n = m \cup {p}
    <3>1. Metered(u, n, r) = Metered(t, m, r)
      BY <1>1, <1>4, <1>5, <2>5 DEF InScope, Metered
    <3> QED
      BY <3>1 DEF TableInv
  <2> QED
    BY <1>5, <2>4, <2>5
<1>10. /\ DOMAIN w \subseteq PreviewIds /\ DOMAIN u \subseteq DOMAIN w
       /\ \A q \in DOMAIN w : w[q] \in Approved \cup {"rejected"}
  BY <1>1, <1>4 DEF TableInv
<1>11. \A q \in DOMAIN u : u[q] \in Row /\ (u[q].status \in Approved => w[q] \in Approved)
  BY <1>1, <1>2, <1>4 DEF TableInv
<1>12. TableInv(u, w, n)
  BY <1>6, <1>7, <1>8, <1>9, <1>10, <1>11 DEF TableInv
<1> QED
  BY <1>12 DEF row, u, w, n

\* What a call found eligible stays so in a table that keeps the rows it has.
LEMMA StillEligibleKept ==
    ASSUME NEW t, NEW v, NEW u, NEW w, NEW c \in Calls, StillEligible(c, t, v),
           DOMAIN v \subseteq DOMAIN w, \A p \in DOMAIN v : w[p] = v[p],
           \A p \in DOMAIN u \cap DOMAIN v :
               p \in DOMAIN t /\ u[p].scope = t[p].scope /\ u[p].expiresAt = t[p].expiresAt
    PROVE  StillEligible(c, u, w)
BY DEF StillEligible

LEMMA ProfileType ==
    ASSUME CallType, NEW s \in Scopes, NEW preferred \in Profiles
    PROVE  /\ Profile(s, preferred) \in Profiles
           /\ [locked EXCEPT ![s] = Profile(s, preferred)]
                 \in [Scopes -> Profiles \cup {None}]
BY DEF CallType, Profile

-----------------------------------------------------------------------------
(* The budget of applies.                                                  *)

\* Fewer applied previews and fewer calls in flight keep within the bound.
LEMMA Fewer ==
    ASSUME NEW A, NEW B, NEW F, NEW G, IsFiniteSet(A), IsFiniteSet(F),
           B \subseteq A, G \subseteq F, NEW k \in Nat, Cardinality(F) <= k,
           Cardinality(A) + Cardinality(F) < MaxApplies["long-request"] + k
    PROVE  /\ Cardinality(G) <= k
           /\ Cardinality(B) + Cardinality(G) < MaxApplies["long-request"] + k
<1>1. /\ Cardinality(B) <= Cardinality(A) /\ Cardinality(A) \in Nat
      /\ IsFiniteSet(B) /\ Cardinality(B) \in Nat
  BY FS_Subset, FS_CardinalityType
<1>2. /\ Cardinality(G) <= Cardinality(F) /\ Cardinality(F) \in Nat
      /\ IsFiniteSet(G) /\ Cardinality(G) \in Nat
  BY FS_Subset, FS_CardinalityType
<1> QED
  BY <1>1, <1>2, Budgets

LEMMA AddOne ==
    ASSUME NEW F, IsFiniteSet(F), NEW x
    PROVE  /\ IsFiniteSet(F \cup {x}) /\ Cardinality(F) \in Nat
           /\ Cardinality(F \cup {x}) <= Cardinality(F) + 1
           /\ Cardinality(F \cup {x}) \in Nat
<1>1. Cardinality(F) \in Nat /\ IsFiniteSet(F \cup {x})
  BY FS_CardinalityType, FS_AddElement
<1>2. Cardinality(F \cup {x}) \in {Cardinality(F), Cardinality(F) + 1}
  BY FS_AddElement
<1> QED
  BY <1>1, <1>2

LEMMA Finite ==
    ASSUME IInv, NEW s
    PROVE  IsFiniteSet(MeteredApplied(s)) /\ IsFiniteSet(InFlight(s))
<1>1. MeteredApplied(s) \subseteq DOMAIN table /\ InFlight(s) \subseteq Calls
  BY DEF MeteredApplied, InFlight
<1> QED
  BY <1>1, FS_Subset, PreviewsAssumption DEF IInv, TableInv, PreviewsAssumption

\* A step that starts and commits no metered call of a scope keeps its bound.
LEMMA OverrunKept ==
    ASSUME IInv, NEW s \in Scopes, MeteredApplied(s)' \subseteq MeteredApplied(s),
           InFlight(s)' \subseteq InFlight(s), peak'[s] = peak[s]
    PROVE  Overrun(s)'
<1>1. peak[s] \in Nat /\ Overrun(s)
  BY DEF IInv, CallType
<1>2. /\ Cardinality(InFlight(s)') <= peak[s]
      /\ Cardinality(MeteredApplied(s)') + Cardinality(InFlight(s)')
            < MaxApplies["long-request"] + peak[s]
  BY <1>1, Finite, Fewer DEF Overrun
<1> QED
  BY <1>2 DEF Overrun

-----------------------------------------------------------------------------
(* The steps.                                                              *)

\* Either outcome of a purge only removes rows.
LEMMA AfterPurgeSafe ==
    ASSUME IInv, NEW t \in AfterPurge
    PROVE  /\ TableInv(t, verdict, unmetered)
           /\ DOMAIN t \subseteq DOMAIN table
           /\ \A p \in DOMAIN t : t[p] = table[p]
BY PurgedSafe, PurgedKeeps DEF IInv, AfterPurge

LEMMA PreviewSafe ==
    ASSUME IInv, NEW s \in Scopes, NEW detected \in Profiles, Preview(s, detected)
    PROVE  IInv'
<1>1. PICK t \in AfterPurge :
         \/ \E basedOn \in DOMAIN t \cup {None}, fingerprint \in Fingerprints,
               gates \in Approved \cup {"rejected"} :
                 StorePreview(t, s, Profile(s, detected), basedOn, fingerprint, gates)
         \/ table' = t /\ UNCHANGED <<verdict, unmetered>>
  BY DEF Preview
<1>2. UNCHANGED <<now, call, held, peak>> /\ Lock(s, Profile(s, detected))
  BY DEF Preview
<1>3. TableInv(t, verdict, unmetered) /\ DOMAIN t \subseteq DOMAIN table
      /\ (\A p \in DOMAIN t : t[p] = table[p])
  BY AfterPurgeSafe
<1>4. Held'
  BY <1>2 DEF IInv, Held, Holds
<1> DEFINE Kept == /\ TableInv(table', verdict', unmetered')
                   /\ unmetered \subseteq unmetered'
                   /\ unmetered' \subseteq unmetered \cup PreviewIds
                   /\ DOMAIN verdict \subseteq DOMAIN verdict'
                   /\ \A p \in DOMAIN verdict : verdict'[p] = verdict[p]
                   /\ \A p \in DOMAIN table' \cap DOMAIN verdict :
                        p \in DOMAIN t /\ table'[p] = t[p]
                   /\ \A p \in DOMAIN table' \ DOMAIN verdict : table'[p].status # "applied"
<1>5. Kept
  <2>1. CASE table' = t /\ UNCHANGED <<verdict, unmetered>>
    BY <1>3, <2>1 DEF TableInv
  <2>2. ASSUME NEW basedOn \in DOMAIN t \cup {None}, NEW fingerprint \in Fingerprints,
               NEW gates \in Approved \cup {"rejected"},
               StorePreview(t, s, Profile(s, detected), basedOn, fingerprint, gates)
        PROVE  Kept
    <3>1. Profile(s, detected) \in Profiles /\ now \in Nat /\ basedOn \in PreviewIds \cup {None}
      BY <1>3, ProfileType DEF IInv, CallType, TableInv
    <3>2. PICK p \in PreviewIds \ DOMAIN verdict, parent \in {basedOn, None} :
            LET row == PreviewRow(t, p, s, Profile(s, detected), basedOn, parent, fingerprint, gates)
            IN  /\ table' = With(t, p, row)
                /\ verdict' = With(verdict, p, row.status)
                /\ unmetered' = IF CountInScope(t, s) < MaxPreviews[Profile(s, detected)]
                                THEN unmetered ELSE unmetered \cup {p}
      BY <2>2 DEF StorePreview
    <3> DEFINE row == PreviewRow(t, p, s, Profile(s, detected), basedOn, parent, fingerprint, gates)
    <3>3. TableInv(table', verdict', unmetered')
      BY <1>3, <3>1, <3>2, InsertSafe
    <3>4. row.status # "applied"
      BY DEF PreviewRow, PreviewStatus, Approved
    <3> HIDE DEF row
    <3>5. table' = With(t, p, row) /\ verdict' = With(verdict, p, row.status)
      BY <3>2 DEF row
    <3>6. unmetered \subseteq unmetered' /\ unmetered' \subseteq unmetered \cup PreviewIds
      BY <3>2
    <3>7. DOMAIN t \subseteq DOMAIN verdict
      BY <1>3 DEF TableInv
    <3> QED
      BY <3>3, <3>4, <3>5, <3>6, <3>7 DEF With
  <2> QED
    BY <1>1, <2>1, <2>2
<1>6. CallType'
  BY <1>2, <1>5, ProfileType DEF IInv, CallType, Lock
<1>7. ASSUME NEW c \in Calls PROVE StillEligible(c, table, verdict)'
  <2>1. StillEligible(c, table', verdict')
    BY <1>3, <1>5, StillEligibleKept DEF IInv
  <2> QED
    BY <1>2, <2>1 DEF StillEligible
<1>8. ASSUME NEW r \in Scopes PROVE Overrun(r)'
  <2>1. MeteredApplied(r)' \subseteq MeteredApplied(r)
    BY <1>2, <1>3, <1>5 DEF MeteredApplied
  <2>2. InFlight(r)' \subseteq InFlight(r)
    BY <1>2, <1>5 DEF InFlight
  <2> QED
    BY <1>2, <2>1, <2>2, OverrunKept
<1> QED
  BY <1>4, <1>5, <1>6, <1>7, <1>8 DEF IInv

\* A call that is let past its budget check, or rejected.
LEMMA BeginApplySafe ==
    ASSUME IInv, NEW c \in Calls, NEW s \in Scopes, NEW detected \in Profiles,
           NEW p \in PreviewIds, BeginApply(c, s, detected, p)
    PROVE  IInv'
<1>1. PICK t \in AfterPurge, seen \in {p, None} :
        LET preferred == IF seen \in DOMAIN t THEN t[seen].profile ELSE detected
            profile == Profile(s, preferred)
        IN  /\ Lock(s, profile)
            /\ \/ Choose(c, t, s, profile, seen)
               \/ /\ table' \in {t, Expire(t, seen)}
                  /\ Reject(c)
                  /\ UNCHANGED <<unmetered, peak>>
  BY DEF BeginApply
<1> DEFINE preferred == IF seen \in DOMAIN t THEN t[seen].profile ELSE detected
           profile == Profile(s, preferred)
<1>2. UNCHANGED <<now, verdict, held>> /\ call[c].at = "idle"
  BY DEF BeginApply
<1>3. TableInv(t, verdict, unmetered) /\ DOMAIN t \subseteq DOMAIN table
      /\ (\A q \in DOMAIN t : t[q] = table[q])
  BY AfterPurgeSafe
<1>4. preferred \in Profiles
  BY <1>3 DEF TableInv, Row
<1> HIDE DEF preferred
<1>5. locked' \in [Scopes -> Profiles \cup {None}] /\ profile \in Profiles
  BY <1>1, <1>4, ProfileType DEF Lock, IInv, preferred
<1> HIDE DEF profile
<1>6. \/ Choose(c, t, s, profile, seen)
      \/ table' \in {t, Expire(t, seen)} /\ Reject(c) /\ UNCHANGED <<unmetered, peak>>
  BY <1>1 DEF preferred, profile
<1>7. /\ TableInv(table', verdict, unmetered)
      /\ DOMAIN table' = DOMAIN t
      /\ \A q \in DOMAIN t : table'[q].scope = t[q].scope /\ table'[q].expiresAt = t[q].expiresAt
      /\ \A q \in DOMAIN t : table'[q].status = "applied" => t[q].status = "applied"
  <2>1. CASE table' = t
    BY <1>3, <2>1
  <2>2. CASE table' = Expire(t, seen)
    <3>1. \A q \in DOMAIN t : Expire(t, seen)[q].status = "applied" => t[q].status = "applied"
      BY <1>3 DEF Expire, With, TableInv, Row
    <3> QED
      BY <1>3, <2>2, <3>1, ExpireSafe
  <2> QED
    BY <1>6, <2>1, <2>2 DEF Choose
<1>8. \/ /\ Choose(c, t, s, profile, seen)
         /\ AppliedInScope(t, s) < MaxApplies[profile] /\ UNCHANGED unmetered
      \/ /\ Choose(c, t, s, profile, seen)
         /\ unmetered' = unmetered \cup {c} /\ UNCHANGED peak
      \/ Reject(c) /\ UNCHANGED <<unmetered, peak>>
  BY <1>6 DEF Choose
<1>9. \/ /\ Eligible(t, seen, s) /\ table' = t
         /\ call' = [call EXCEPT ![c] = Standing("groups", seen, s, now)]
      \/ Reject(c)
  BY <1>6 DEF Choose
<1>10. /\ Standing("rejected", None, None, 0) \in
            [at : CallState, preview : PreviewIds \cup {None}, scope : Scopes \cup {None}, since : Nat]
       /\ Standing("groups", seen, s, now) \in
            [at : CallState, preview : PreviewIds \cup {None}, scope : Scopes \cup {None}, since : Nat]
  BY DEF Standing, CallState, IInv, CallType
<1>11. /\ call' \in [Calls -> [at : CallState, preview : PreviewIds \cup {None},
                              scope : Scopes \cup {None}, since : Nat]]
       /\ \A d \in Calls \ {c} : call'[d] = call[d]
       /\ call'[c].at \in {"groups", "rejected"}
  BY <1>9, <1>10 DEF IInv, CallType, Reject, Standing
<1>12. CallType' /\ unmetered \subseteq unmetered'
       /\ \A q \in PreviewIds : q \in unmetered' => q \in unmetered
  <2>1. peak' \in [Scopes -> Nat]
    <3>1. CASE UNCHANGED peak
      BY <3>1 DEF IInv, CallType
    <3>2. CASE \E n \in {peak[s], Cardinality(InFlight(s)) + 1} : peak' = [peak EXCEPT ![s] = n]
      BY <3>2, Finite, FS_CardinalityType DEF IInv, CallType
    <3> QED
      BY <1>6, <3>1, <3>2 DEF Choose
  <2>2. /\ unmetered \subseteq unmetered' /\ unmetered' \subseteq unmetered \cup Calls
        /\ \A q \in PreviewIds : q \in unmetered' => q \in unmetered
    BY <1>8, PreviewsAssumption DEF PreviewsAssumption
  <2> QED
    BY <1>2, <1>5, <1>11, <2>1, <2>2 DEF IInv, CallType
<1>13. TableInv(table', verdict, unmetered')
  <2>1. \A r \in Scopes : Metered(table', unmetered', r) \subseteq Metered(table', unmetered, r)
    BY <1>12 DEF Metered
  <2>2. \A r \in Scopes : IsFiniteSet(Metered(table', unmetered, r))
    <3>1. \A r \in Scopes : Metered(table', unmetered, r) \subseteq DOMAIN table'
      BY DEF Metered, InScope
    <3> QED
      BY <1>7, <3>1, FS_Subset DEF TableInv
  <2>3. \A r \in Scopes : Cardinality(Metered(table', unmetered', r)) <= MaxPreviews["long-request"]
    <3>1. ASSUME NEW r \in Scopes
          PROVE  Cardinality(Metered(table', unmetered', r)) <= MaxPreviews["long-request"]
      <4>1. /\ Cardinality(Metered(table', unmetered', r)) <= Cardinality(Metered(table', unmetered, r))
            /\ Cardinality(Metered(table', unmetered', r)) \in Nat
            /\ Cardinality(Metered(table', unmetered, r)) \in Nat
        BY <2>1, <2>2, FS_Subset, FS_CardinalityType
      <4>2. Cardinality(Metered(table', unmetered, r)) <= MaxPreviews["long-request"]
        BY <1>7 DEF TableInv
      <4> QED
        BY <4>1, <4>2, Budgets
    <3> QED
      BY <3>1
  <2> QED
    BY <1>7, <2>3 DEF TableInv
<1>14. Held'
  BY <1>2, <1>11 DEF IInv, Held, Holds
<1>15. ASSUME NEW d \in Calls PROVE StillEligible(d, table, verdict)'
  <2>1. StillEligible(d, table', verdict)
    BY <1>3, <1>7, StillEligibleKept DEF IInv, TableInv
  <2>2. CASE d = c
    BY <1>2, <1>3, <1>9, <2>2 DEF Eligible, Reject, Standing, StillEligible,
       Chosen, IInv, CallType, TableInv
  <2>3. CASE d # c
    BY <1>2, <1>11, <2>1, <2>3 DEF StillEligible
  <2> QED
    BY <2>2, <2>3
<1>16. ASSUME NEW r \in Scopes PROVE Overrun(r)'
  <2>1. MeteredApplied(r)' \subseteq MeteredApplied(r)
    BY <1>3, <1>7, <1>11, <1>12 DEF MeteredApplied
  <2>2. CASE \/ Reject(c) /\ UNCHANGED peak
             \/ c \in unmetered' /\ UNCHANGED peak
    <3>1. InFlight(r)' \subseteq InFlight(r)
      BY <1>11, <1>12, <2>2 DEF InFlight, Reject, Standing, IInv, CallType
    <3> QED
      BY <2>1, <2>2, <3>1, OverrunKept
  <2>3. CASE /\ Choose(c, t, s, profile, seen)
             /\ AppliedInScope(t, s) < MaxApplies[profile] /\ UNCHANGED unmetered
    <3>1. PICK n \in {peak[s], Cardinality(InFlight(s)) + 1} :
             \/ n >= Cardinality(InFlight(s)) + 1 /\ peak' = [peak EXCEPT ![s] = n]
             \/ UNCHANGED peak /\ c \in unmetered'
      BY <2>3 DEF Choose
    <3>2. CASE UNCHANGED peak /\ c \in unmetered'
      BY <2>2, <3>2
    <3>3. CASE r # s /\ peak' = [peak EXCEPT ![s] = n]
      <4>1. InFlight(r)' \subseteq InFlight(r)
        BY <1>11, <2>3, <3>3 DEF InFlight, Choose, Standing, IInv, CallType
      <4> QED
        BY <2>1, <3>3, <4>1, OverrunKept DEF IInv, CallType
    <3>4. CASE /\ r = s
               /\ n >= Cardinality(InFlight(s)) + 1 /\ peak' = [peak EXCEPT ![s] = n]
      <4>1. InFlight(s)' \subseteq InFlight(s) \cup {c}
        BY <1>11, <1>12 DEF InFlight
      <4>2. /\ IsFiniteSet(InFlight(s) \cup {c}) /\ Cardinality(InFlight(s)) \in Nat
            /\ Cardinality(InFlight(s) \cup {c}) <= Cardinality(InFlight(s)) + 1
            /\ Cardinality(InFlight(s) \cup {c}) \in Nat
        BY Finite, AddOne
      <4>3. /\ Cardinality(InFlight(s)') <= Cardinality(InFlight(s)) + 1
            /\ Cardinality(InFlight(s)') \in Nat
        BY <4>1, <4>2, FS_Subset, FS_CardinalityType
      <4> DEFINE A == {q \in DOMAIN t : t[q].scope = s /\ t[q].status = "applied"}
      <4>4. MeteredApplied(s)' \subseteq A
        BY <1>3, <1>7 DEF MeteredApplied
      <4>5. IsFiniteSet(A) /\ Cardinality(A) \in Nat
        <5>1. A \subseteq DOMAIN t
          OBVIOUS
        <5> QED
          BY <1>3, <5>1, FS_Subset, FS_CardinalityType DEF TableInv
      <4>6. Cardinality(A) < MaxApplies[profile]
        BY <2>3 DEF AppliedInScope
      <4> HIDE DEF A
      <4>7. /\ Cardinality(MeteredApplied(s)') <= Cardinality(A)
            /\ Cardinality(MeteredApplied(s)') \in Nat
        BY <4>4, <4>5, FS_Subset, FS_CardinalityType
      <4>8. peak'[s] = n /\ n \in Nat
        BY <3>4, <4>2 DEF IInv, CallType
      <4>9. /\ Cardinality(InFlight(s)') <= peak'[s]
            /\ Cardinality(MeteredApplied(s)') + Cardinality(InFlight(s)')
                  < MaxApplies["long-request"] + peak'[s]
        BY <3>4, <4>2, <4>3, <4>5, <4>6, <4>7, <4>8, <1>5, Budgets
      <4> QED
        BY <3>4, <4>9 DEF Overrun
    <3> QED
      BY <3>1, <3>2, <3>3, <3>4
  <2> QED
    BY <1>8, <2>2, <2>3
<1> QED
  BY <1>2, <1>12, <1>13, <1>14, <1>15, <1>16 DEF IInv

LEMMA GroupsSafe ==
    ASSUME IInv, NEW c \in Calls, GroupsApplied(c) \/ GroupsFailed(c)
    PROVE  IInv'
<1>1. TableInv(table, verdict, unmetered)'
  BY DEF IInv, GroupsApplied, GroupsFailed
<1>2. CallType'
  <2>1. CASE GroupsApplied(c)
    <3>1. [call[c] EXCEPT !.at = "commit"] \in
           [at : CallState, preview : PreviewIds \cup {None}, scope : Scopes \cup {None}, since : Nat]
      BY DEF CallState, IInv, CallType
    <3>2. call[c].preview \in PreviewIds
      BY <2>1 DEF GroupsApplied, IInv, StillEligible, Chosen, TableInv
    <3> QED
      BY <2>1, <3>1, <3>2 DEF IInv, CallType, GroupsApplied
  <2>2. CASE GroupsFailed(c)
    BY <2>2 DEF IInv, CallType, GroupsFailed, Reject, Standing, CallState
  <2> QED
    BY <2>1, <2>2
<1>3. \A d \in Calls : StillEligible(d, table, verdict)'
  BY DEF IInv, CallType, GroupsApplied, GroupsFailed, Reject, Standing, StillEligible, Chosen
<1>4. Held'
  <2>1. CASE GroupsApplied(c)
    BY <2>1 DEF IInv, CallType, GroupsApplied, Held, Holds
  <2>2. CASE GroupsFailed(c)
    BY <2>2 DEF IInv, CallType, GroupsFailed, Reject, Standing, Held, Holds
  <2> QED
    BY <2>1, <2>2
<1>5. ASSUME NEW s \in Scopes PROVE Overrun(s)'
  <2>1. MeteredApplied(s)' \subseteq MeteredApplied(s)
    BY DEF IInv, CallType, GroupsApplied, GroupsFailed, Reject, Standing, MeteredApplied
  <2>2. InFlight(s)' \subseteq InFlight(s)
    BY DEF IInv, CallType, GroupsApplied, GroupsFailed, Reject, Standing, InFlight
  <2> QED
    BY <2>1, <2>2, OverrunKept DEF GroupsApplied, GroupsFailed
<1> QED
  BY <1>1, <1>2, <1>3, <1>4, <1>5 DEF IInv

LEMMA CommitSafe ==
    ASSUME IInv, NEW c \in Calls, Commit(c)
    PROVE  IInv'
<1> DEFINE p == call[c].preview
           row == [table[p] EXCEPT !.status = "applied", !.appliedAt = call[c].since,
                                   !.purgeAfterAt = call[c].since + Retention]
<1>1. p \in DOMAIN table /\ table[p] \in Row /\ call[c].since \in Nat /\ call[c].at = "commit"
  BY DEF Commit, IInv, TableInv, CallType
<1>2. /\ row \in Row /\ row.scope = table[p].scope /\ row.basedOn = table[p].basedOn
      /\ row.chain = table[p].chain /\ row.revision = table[p].revision
      /\ row.expiresAt = table[p].expiresAt /\ row.status \notin Approved
  <2>1. call[c].since + Retention \in Nat
    BY <1>1, PreviewsAssumption DEF PreviewsAssumption
  <2> QED
    BY <1>1, <2>1 DEF Row, Statuses, Approved
<1>3. table' = With(table, p, row)
  BY <1>1 DEF Commit, With
<1> HIDE DEF row
<1>4. TableInv(table, verdict, unmetered)'
  <2>1. TableInv(With(table, p, row), verdict, unmetered)
    BY <1>1, <1>2, MarkedSafe DEF IInv
  <2> QED
    BY <1>3, <2>1 DEF Commit
<1>5. [call[c] EXCEPT !.at = "success"] \in
           [at : CallState, preview : PreviewIds \cup {None}, scope : Scopes \cup {None}, since : Nat]
  BY DEF CallState, IInv, CallType
<1>6. CallType'
  BY <1>5 DEF Commit, IInv, CallType
<1>7. \A d \in Calls : StillEligible(d, table, verdict)'
  <2>1. \A d \in Calls : StillEligible(d, table', verdict)
    BY <1>1, <1>2, <1>3, StillEligibleKept DEF With, IInv
  <2> QED
    BY <1>1, <2>1 DEF Commit, StillEligible, Chosen, IInv, CallType
<1>8. Held'
  BY DEF Commit, IInv, CallType, Held, Holds
<1>9. /\ call'[c] = [call[c] EXCEPT !.at = "success"]
      /\ \A d \in Calls \ {c} : call'[d] = call[d]
      /\ UNCHANGED <<unmetered, peak>>
      /\ DOMAIN table' = DOMAIN table
      /\ \A q \in DOMAIN table \ {p} : table'[q] = table[q]
      /\ table'[p] = row
  BY <1>1, <1>3 DEF Commit, IInv, CallType, With
<1>10. call[c] \in [at : CallState, preview : PreviewIds \cup {None}, scope : Scopes \cup {None}, since : Nat]
  BY DEF IInv, CallType
<1>11. /\ call'[c].at = "success" /\ call'[c].preview = p /\ call'[c].scope = call[c].scope
  BY <1>9, <1>10
<1>12. \A d \in Calls \ {c} : ~(call[d].at = "success" /\ call[d].preview = p)
  BY <1>1 DEF IInv, Held, Holds, TableInv
<1>13. ASSUME NEW s \in Scopes PROVE Overrun(s)'
  <2>1. InFlight(s)' \subseteq InFlight(s) \ {c}
    BY <1>9, <1>11 DEF InFlight
  <2>2. CASE c \in unmetered \/ call[c].scope # s
    <3>1. MeteredApplied(s)' \subseteq MeteredApplied(s)
      <4>1. table[p].scope = call[c].scope
        BY <1>1 DEF IInv, StillEligible, Chosen
      <4>2. ASSUME NEW q \in MeteredApplied(s)' PROVE q \in MeteredApplied(s) /\ q # p
        <5>1. PICK d \in Calls \ unmetered : call'[d].at = "success" /\ call'[d].preview = q
          BY <1>9 DEF MeteredApplied
        <5>2. q \in DOMAIN table /\ table'[q].scope = s /\ table'[q].status = "applied"
          BY <1>9 DEF MeteredApplied
        <5>3. d # c
          <6>1. ASSUME d = c PROVE FALSE
            <7>1. q = p /\ call[c].scope # s
              BY <1>11, <2>2, <5>1, <6>1
            <7> QED
              BY <1>2, <1>9, <4>1, <5>2, <7>1
          <6> QED
            BY <6>1
        <5>4. call[d].at = "success" /\ call[d].preview = q
          BY <1>9, <5>1, <5>3
        <5>5. q # p
          BY <1>12, <5>3, <5>4
        <5> QED
          BY <1>9, <5>1, <5>2, <5>4, <5>5 DEF MeteredApplied
      <4> QED
        BY <4>2
    <3> QED
      BY <1>9, <2>1, <3>1, OverrunKept
  <2>3. CASE c \notin unmetered /\ call[c].scope = s
    <3>1. MeteredApplied(s)' \subseteq MeteredApplied(s) \cup {p}
      <4>1. ASSUME NEW q \in MeteredApplied(s)', q # p PROVE q \in MeteredApplied(s)
        <5>1. PICK d \in Calls \ unmetered : call'[d].at = "success" /\ call'[d].preview = q
          BY <1>9 DEF MeteredApplied
        <5>2. q \in DOMAIN table /\ table[q].scope = s /\ table[q].status = "applied"
          BY <1>9, <4>1 DEF MeteredApplied
        <5>3. call[d].at = "success" /\ call[d].preview = q
          BY <1>9, <1>11, <4>1, <5>1
        <5> QED
          BY <5>1, <5>2, <5>3 DEF MeteredApplied
      <4> QED
        BY <4>1
    <3>2. c \in InFlight(s)
      BY <1>1, <2>3 DEF InFlight
    <3>3. /\ IsFiniteSet(MeteredApplied(s) \cup {p})
          /\ Cardinality(MeteredApplied(s) \cup {p}) <= Cardinality(MeteredApplied(s)) + 1
          /\ Cardinality(MeteredApplied(s) \cup {p}) \in Nat
          /\ Cardinality(MeteredApplied(s)) \in Nat
      BY Finite, AddOne
    <3>4. /\ IsFiniteSet(InFlight(s) \ {c})
          /\ Cardinality(InFlight(s) \ {c}) = Cardinality(InFlight(s)) - 1
          /\ Cardinality(InFlight(s)) \in Nat
          /\ Cardinality(InFlight(s) \ {c}) \in Nat
      BY <3>2, Finite, FS_RemoveElement, FS_CardinalityType
    <3>5. peak[s] \in Nat /\ peak'[s] = peak[s] /\ Overrun(s)
      BY <1>9 DEF IInv, CallType
    <3>6. /\ Cardinality(InFlight(s) \ {c}) <= peak[s]
          /\ Cardinality(MeteredApplied(s) \cup {p}) + Cardinality(InFlight(s) \ {c})
                < MaxApplies["long-request"] + peak[s]
      BY <3>3, <3>4, <3>5, Budgets DEF Overrun
    <3>7. /\ Cardinality(InFlight(s)') <= peak[s]
          /\ Cardinality(MeteredApplied(s)') + Cardinality(InFlight(s)')
                < MaxApplies["long-request"] + peak[s]
      BY <2>1, <3>1, <3>3, <3>4, <3>5, <3>6, Fewer
    <3> QED
      BY <3>5, <3>7 DEF Overrun
  <2> QED
    BY <2>2, <2>3
<1> QED
  BY <1>4, <1>6, <1>7, <1>8, <1>13 DEF IInv

\* A call that fails to commit, and one whose rollback ended.
LEMMA RollbackSafe ==
    ASSUME IInv, NEW c \in Calls, CommitFailed(c) \/ RolledBack(c)
    PROVE  IInv'
<1>1. TableInv(table, verdict, unmetered)'
  BY DEF IInv, CommitFailed, RolledBack
<1>2. [call[c] EXCEPT !.at = "undo"] \in
           [at : CallState, preview : PreviewIds \cup {None}, scope : Scopes \cup {None}, since : Nat]
  BY DEF CallState, IInv, CallType
<1>3. CallType'
  BY <1>2 DEF IInv, CallType, CommitFailed, RolledBack, Reject, Standing, CallState
<1>4. \A d \in Calls : StillEligible(d, table, verdict)'
  BY DEF IInv, CallType, CommitFailed, RolledBack, Reject, Standing, StillEligible, Chosen
<1>5. Held'
  <2>1. CASE CommitFailed(c)
    BY <2>1 DEF IInv, CallType, CommitFailed, Held, Holds
  <2>2. CASE RolledBack(c)
    BY <2>2 DEF IInv, CallType, RolledBack, Reject, Standing, Held, Holds
  <2> QED
    BY <2>1, <2>2
<1>6. ASSUME NEW s \in Scopes PROVE Overrun(s)'
  <2>1. MeteredApplied(s)' \subseteq MeteredApplied(s)
    BY DEF IInv, CallType, CommitFailed, RolledBack, Reject, Standing, MeteredApplied
  <2>2. InFlight(s)' \subseteq InFlight(s)
    BY DEF IInv, CallType, CommitFailed, RolledBack, Reject, Standing, InFlight
  <2> QED
    BY <2>1, <2>2, OverrunKept DEF CommitFailed, RolledBack
<1> QED
  BY <1>1, <1>3, <1>4, <1>5, <1>6 DEF IInv

LEMMA RestartSafe ==
    ASSUME IInv, Restart
    PROVE  IInv'
<1>1. TableInv(table, verdict, unmetered)'
  BY DEF IInv, Restart
<1>2. CallType'
  <2>1. \A c \in Calls : [call[c] EXCEPT !.at = "crashed"] \in
           [at : CallState, preview : PreviewIds \cup {None}, scope : Scopes \cup {None}, since : Nat]
    BY DEF CallState, IInv, CallType
  <2> QED
    BY <2>1 DEF IInv, CallType, Restart
<1>3. \A d \in Calls : StillEligible(d, table, verdict)'
  BY DEF IInv, CallType, Restart, StillEligible, Chosen
<1>4. Held'
  BY DEF IInv, CallType, Restart, Held, Holds
<1>5. ASSUME NEW s \in Scopes PROVE Overrun(s)'
  <2>1. MeteredApplied(s)' \subseteq MeteredApplied(s)
    BY DEF IInv, CallType, Restart, MeteredApplied
  <2>2. InFlight(s)' \subseteq InFlight(s)
    BY DEF IInv, CallType, Restart, InFlight
  <2> QED
    BY <2>1, <2>2, OverrunKept DEF Restart
<1> QED
  BY <1>1, <1>2, <1>3, <1>4, <1>5 DEF IInv

LEMMA TickSafe ==
    ASSUME IInv, Tick
    PROVE  IInv'
<1>1. TableInv(table, verdict, unmetered)' /\ Held' /\ \A d \in Calls : StillEligible(d, table, verdict)'
  BY DEF IInv, Tick, Held, Holds, StillEligible
<1>2. CallType'
  BY PreviewsAssumption DEF IInv, CallType, Tick, PreviewsAssumption
<1>3. \A s \in Scopes : Overrun(s)'
  BY OverrunKept DEF Tick, MeteredApplied, InFlight
<1> QED
  BY <1>1, <1>2, <1>3 DEF IInv

-----------------------------------------------------------------------------
(* The theorems.                                                           *)

LEMMA IInvInit ==
    Init => IInv
<1> SUFFICES ASSUME Init PROVE IInv
  OBVIOUS
<1>1. CallType
  BY PreviewsAssumption DEF Init, CallType, Standing, CallState, PreviewsAssumption
<1>2. TableInv(table, verdict, unmetered)
  <2>1. DOMAIN table = {} /\ DOMAIN verdict = {}
    BY DEF Init
  <2>2. \A s \in Scopes : Metered(table, unmetered, s) = {}
    BY <2>1 DEF InScope, Metered
  <2>3. \A s \in Scopes : Cardinality(Metered(table, unmetered, s)) <= MaxPreviews["long-request"]
    BY <2>2, FS_EmptySet, Budgets
  <2> QED
    BY <2>1, <2>3, FS_EmptySet DEF TableInv, ForeignKeysHold
<1>3. Held /\ \A c \in Calls : StillEligible(c, table, verdict)
  BY DEF Init, Held, Holds, StillEligible, Chosen, Standing
<1>4. ASSUME NEW s \in Scopes PROVE Overrun(s)
  <2>1. MeteredApplied(s) = {} /\ InFlight(s) = {} /\ peak[s] = 0
    BY DEF Init, MeteredApplied, InFlight, Standing
  <2> QED
    BY <2>1, FS_EmptySet, Budgets DEF Overrun
<1> QED
  BY <1>1, <1>2, <1>3, <1>4 DEF IInv

LEMMA IInvStep ==
    IInv /\ [Next]_vars => IInv'
<1> SUFFICES ASSUME IInv, [Next]_vars PROVE IInv'
  OBVIOUS
<1>1. CASE UNCHANGED vars
  BY <1>1 DEF vars, IInv, CallType, Held, Holds, StillEligible, Overrun, MeteredApplied, InFlight
<1>2. CASE Next
  BY <1>2, PreviewSafe, BeginApplySafe, GroupsSafe, CommitSafe, RollbackSafe, TickSafe,
     RestartSafe DEF Next
<1> QED
  BY <1>1, <1>2

LEMMA IInvAlways == Spec => []IInv
BY IInvInit, IInvStep, PTL DEF Spec

\* Rows, calls, locks and the clock keep their types.
THEOREM PreviewsTypeOK == Spec => []TypeOK
<1>1. IInv => TypeOK
  BY DEF IInv, CallType, TableInv, TypeOK
<1> QED
  BY <1>1, IInvAlways, PTL

\* No purge ever separates a retained revision from its parent, and an
\* approved revision continues a chain of its own scope within the limit, for
\* chains of any length, any lifetimes and any number of scopes.
THEOREM LineageKept == Spec => []RevisionLineage
<1>1. IInv => RevisionLineage
  BY DEF IInv, TableInv, RevisionLineage, Continues
<1> QED
  BY <1>1, IInvAlways, PTL

\* What a commit applies was stored as approved, in the scope of the call, and
\* unexpired when the call began, whatever happened while it awaited its groups.
THEOREM AppliesTheEligible == Spec => []AppliedWasEligible
<1>1. IInv => AppliedWasEligible
  BY DEF IInv, StillEligible, Chosen, AppliedWasEligible
<1> QED
  BY <1>1, IInvAlways, PTL

\* The rows of a scope never exceed the larger preview budget, except for those
\* that were stored over it because the count failed, for any budgets.
THEOREM BudgetHonoured == Spec => []PreviewBudgetHonoured
<1>1. IInv => PreviewBudgetHonoured
  <2> SUFFICES ASSUME IInv, NEW s \in Scopes
               PROVE  Cardinality({p \in DOMAIN table \ unmetered : table[p].scope = s})
                         <= MaxPreviews["long-request"]
    BY DEF PreviewBudgetHonoured
  <2>1. {p \in DOMAIN table \ unmetered : table[p].scope = s} = Metered(table, unmetered, s)
    BY DEF Metered, InScope
  <2> QED
    BY <2>1 DEF IInv, TableInv
<1> QED
  BY <1>1, IInvAlways, PTL

\* For any budgets and any number of overlapping calls, the applied previews of
\* a scope exceed the larger budget by no more than the calls that overlapped,
\* less one: the budget that is read before the await is spent once per call.
THEOREM ApplyOverrunIsBounded == Spec => []ApplyOverrunBounded
<1>1. IInv => ApplyOverrunBounded
  <2> SUFFICES ASSUME IInv, NEW s \in Scopes
               PROVE  Cardinality(MeteredApplied(s)) < MaxApplies["long-request"] + peak[s]
    BY DEF ApplyOverrunBounded
  <2>1. /\ Cardinality(MeteredApplied(s)) \in Nat /\ Cardinality(InFlight(s)) \in Nat
        /\ peak[s] \in Nat
    BY Finite, FS_CardinalityType DEF IInv, CallType
  <2> QED
    BY <2>1, Budgets DEF IInv, Overrun
<1> QED
  BY <1>1, IInvAlways, PTL

\* One preview is applied by one call at most, and its sources stay compacted.
AppliedOnce ==
    \A c, d \in Calls :
        call[c].at = "success" =>
            /\ call[c].preview \in held
            /\ call[d].at = "success" /\ call[d].preview = call[c].preview => c = d

\* Of the calls that chose one preview, one at most applies it: the others
\* find its sources compacted, and what they undo is not what it applied.
THEOREM PreviewAppliedOnce == Spec => []AppliedOnce
<1>1. IInv => AppliedOnce
  BY DEF IInv, Held, Holds, StillEligible, Chosen, TableInv, AppliedOnce
<1> QED
  BY <1>1, IInvAlways, PTL
=============================================================================
