--------------------------- MODULE Promotion_proofs ---------------------------
(***************************************************************************)
(* The project index and the promotions that read it, for any calls,       *)
(* members, tables and contents: the types, what a fingerprint that still  *)
(* matches says of the index, and what the record of a run says of the     *)
(* global database.                                                        *)
(***************************************************************************)
EXTENDS Promotion, FiniteSetTheorems, SequenceTheorems, WellFoundedInduction, TLAPS

-----------------------------------------------------------------------------
(* Tables and signatures.                                                  *)

LEMMA TableFields ==
    ASSUME NEW t \in DOMAIN Tables
    PROVE  Tables[t].user \in Users /\ Tables[t].most \in 1..MaxRows
<1> DEFINE S == [user : Users, kind : Kinds, most : 1..MaxRows]
<1>1. Tables \in Seq(S)
  BY IndexAssumption
<1>2. Tables \in [1..Len(Tables) -> S]
  BY <1>1, LenProperties
<1> QED
  BY <1>2

LEMMA TablesNumbered == DOMAIN Tables = 1..Len(Tables) /\ Len(Tables) \in Nat
BY IndexAssumption, LenProperties

\* A set of numbers up to a bound has a largest one.
LEMMA LargestExists ==
    ASSUME NEW n \in Nat, NEW R \in SUBSET (1..n), R # {}
    PROVE  \E m \in R : \A k \in R : k <= m
<1> DEFINE B == {m \in Nat : \A k \in R : k <= m}
<1>1. n \in B
  OBVIOUS
<1>2. PICK m \in B : \A k \in B : ~ (<<k, m>> \in OpToRel(<, Nat))
  BY <1>1, WFMin, NatLessThanWellFounded
<1>3. \A k \in B : ~ (k < m)
  BY <1>2 DEF OpToRel
<1>4. m \in R
  <2>1. SUFFICES ASSUME m \notin R
                 PROVE  FALSE
    OBVIOUS
  <2>2. m > 0
    <3>1. PICK r \in R : r <= m
      OBVIOUS
    <3> QED
      BY <3>1
  <2>3. m - 1 \in B
    BY <2>1, <2>2
  <2> QED
    BY <1>3, <2>2, <2>3
<1> QED
  BY <1>4

LEMMA IntervalSize ==
    ASSUME NEW n \in Nat
    PROVE  IsFiniteSet(1..n) /\ Cardinality(1..n) = n
BY FS_Interval

LEMMA SignatureType ==
    ASSUME NEW t \in DOMAIN Tables, rows[t] \subseteq 1..made[t], made[t] \in 0..MaxRows
    PROVE  /\ SignatureOf(t) \in Signature
           /\ SignatureOf(t).latest <= made[t]
           /\ \A n \in rows[t] : n <= SignatureOf(t).latest
<1>0. MaxRows \in Nat /\ made[t] \in Nat
  BY IndexAssumption
<1>1. rows[t] \in SUBSET (1..made[t])
  OBVIOUS
<1>2. Cardinality(rows[t]) \in 0..MaxRows
  <2>1. IsFiniteSet(1..made[t]) /\ Cardinality(1..made[t]) = made[t]
    BY <1>0, IntervalSize
  <2>2. Cardinality(rows[t]) <= made[t] /\ Cardinality(rows[t]) \in Nat
    BY <1>1, <2>1, FS_Subset, FS_CardinalityType
  <2> QED
    BY <1>0, <2>2
<1>3. CASE rows[t] = {}
  BY <1>0, <1>2, <1>3 DEF SignatureOf, Signature
<1>4. CASE rows[t] # {}
  <2> DEFINE top == CHOOSE n \in rows[t] : \A m \in rows[t] : m <= n
  <2>1. \E n \in rows[t] : \A m \in rows[t] : m <= n
    BY <1>0, <1>1, <1>4, LargestExists
  <2>2. top \in rows[t] /\ \A m \in rows[t] : m <= top
    BY <2>1, Zenon
  <2>3. SignatureOf(t).latest = top /\ SignatureOf(t).count = Cardinality(rows[t])
        /\ SignatureOf(t) = [count |-> Cardinality(rows[t]), latest |-> top]
    BY <1>4 DEF SignatureOf
  <2> HIDE DEF top
  <2> QED
    BY <1>0, <1>1, <1>2, <2>2, <2>3 DEF Signature
<1> QED
  BY <1>3, <1>4

-----------------------------------------------------------------------------
(* Types.  A fingerprint never counts a row that was not yet written, and  *)
(* a rebuild has one from its first statement on.                          *)

Past(D) == \A t \in DOMAIN Tables : D.signatures[t].latest <= made[t]

HasPrint(c) ==
    /\ pc[c] \in {"clear", "members", "copy"} =>
         my[c].digest \in Digest /\ Past(my[c].digest) /\ my[c].digest.owner = Owner[c]
    /\ pc[c] # "copy" => my[c].at = 1

IndexInv ==
    /\ IndexType
    /\ pc \in [Calls -> Standing]
    /\ \A t \in DOMAIN Tables : rows[t] \subseteq 1..made[t]
    /\ meta # Missing => Past(meta.digest)
    /\ \A c \in Calls : HasPrint(c)

LEMMA FingerprintType ==
    ASSUME IndexInv, NEW c \in Calls, NEW unreadable \in SUBSET Discovered
    PROVE  /\ Fingerprint(Owner[c], unreadable) \in Digest
           /\ Past(Fingerprint(Owner[c], unreadable))
           /\ Fingerprint(Owner[c], unreadable).owner = Owner[c]
           /\ unreadable \subseteq Users
<1> DEFINE F == Fingerprint(Owner[c], unreadable)
<1>1. Discovered \subseteq Users
  BY TableFields DEF Discovered
<1>2. \A t \in DOMAIN Tables :
        /\ F.signatures[t] \in Signature /\ F.signatures[t].latest <= made[t]
  <2> TAKE t \in DOMAIN Tables
  <2>1. made[t] \in 0..MaxRows /\ rows[t] \subseteq 1..made[t] /\ MaxRows \in Nat
    BY IndexAssumption DEF IndexInv, IndexType
  <2>2. SignatureOf(t) \in Signature /\ SignatureOf(t).latest <= made[t]
    BY <2>1, SignatureType
  <2>3. [count |-> 0, latest |-> 0] \in Signature
    BY <2>1 DEF Signature
  <2> QED
    BY <2>1, <2>2, <2>3 DEF Fingerprint
<1>3. F.signatures \in [DOMAIN Tables -> Signature]
  BY <1>2 DEF Fingerprint
<1>4. F = [owner |-> Owner[c], from |-> Discovered, errors |-> unreadable,
           signatures |-> F.signatures]
  BY DEF Fingerprint
<1>5. F \in Digest
  <2> HIDE DEF F
  <2> QED
    BY <1>1, <1>3, <1>4, IndexAssumption DEF Digest
<1> QED
  BY <1>1, <1>2, <1>4, <1>5 DEF Past

LEMMA FailureCounted ==
    ASSUME failures \in 0..MaxFailures, Failure \/ UNCHANGED failures
    PROVE  failures' \in 0..MaxFailures
BY IndexAssumption DEF Failure

\* A step of one call, which leaves the sources alone.
LEMMA CallTyped ==
    ASSUME IndexInv, NEW c \in Calls, UNCHANGED sources,
           \/ \E to \in Standing : Goes(c, to)
           \/ UNCHANGED pc,
           my' \in [Calls -> Locals], \A d \in Calls \ {c} : my'[d] = my[d],
           HasPrint(c)',
           index' \in [Users -> SUBSET Copy], members' \subseteq Users,
           meta' \in Meta \cup {Missing}, torn' \in [Users -> SUBSET Calls],
           meta' # Missing => Past(meta'.digest),
           Failure \/ UNCHANGED failures
    PROVE  IndexInv'
<1>1. pc' \in [Calls -> Standing] /\ \A d \in Calls \ {c} : pc'[d] = pc[d]
  BY DEF IndexInv, Goes
<1>2. \A D : Past(D)' <=> Past(D)
  BY DEF Past, sources
<1>3. \A d \in Calls \ {c} : HasPrint(d)'
  BY <1>1, <1>2 DEF IndexInv, HasPrint
<1>4. IndexType'
  BY FailureCounted DEF IndexInv, IndexType, sources
<1> QED
  BY <1>1, <1>2, <1>3, <1>4 DEF IndexInv, sources

LEMMA BlankType == Blank \in Locals /\ Blank.at = 1
BY DEF Blank, Locals

LEMMA RebuildEndsTyped ==
    ASSUME IndexInv, NEW c \in Calls, NEW status, RebuildEnds(c, status)
    PROVE  /\ \E to \in {"done", "lookup", "fanout"} : Goes(c, to)
           /\ my' \in [Calls -> Locals] /\ \A d \in Calls \ {c} : my'[d] = my[d]
           /\ my'[c].at = 1
<1>0. my \in [Calls -> Locals]
  BY DEF IndexInv, IndexType
<1>1. CASE my' = [my EXCEPT ![c] = Blank]
  BY <1>0, <1>1, BlankType DEF RebuildEnds
<1>2. CASE my' = [my EXCEPT ![c].rebuilt = TRUE, ![c].digest = Missing,
                            ![c].at = 1, ![c].errors = {}]
  <2> DEFINE l == [[my[c] EXCEPT !.rebuilt = TRUE] EXCEPT !.digest = Missing]
             m == [[l EXCEPT !.at = 1] EXCEPT !.errors = {}]
  <2>1. my' \in [Calls -> Locals]
    <3>1. l \in Locals
      BY <1>0 DEF Locals
    <3>2. m \in Locals
      <4> HIDE DEF l
      <4> QED
        BY <3>1 DEF Locals
    <3>3. my' = [my EXCEPT ![c] = m]
      BY <1>2
    <3> HIDE DEF m
    <3> QED
      BY <1>0, <3>2, <3>3
  <2>2. my'[c].at = 1 /\ \A d \in Calls \ {c} : my'[d] = my[d]
    BY <1>0, <1>2 DEF Locals
  <2> QED
    BY <2>1, <2>2 DEF RebuildEnds
<1> QED
  BY <1>1, <1>2 DEF RebuildEnds

LEMMA RowsTyped ==
    ASSUME IndexInv
    PROVE  AllRows \subseteq Row
BY DEF IndexInv, IndexType, AllRows

\* A row that a table gets is its latest by then, or late; a late one stays late.
Grows(t) ==
    /\ late[t] \subseteq late'[t]
    /\ \A n \in rows'[t] : n \in rows[t] \/ (n \in Nat /\ n > made[t]) \/ n \in late'[t]

LEMMA QuietGrows == UNCHANGED <<rows, late>> => \A t \in DOMAIN Tables : Grows(t)
BY DEF Grows

LEMMA WriteTyped ==
    ASSUME IndexInv, Write
    PROVE  /\ IndexInv'
           /\ UNCHANGED <<cache, pc, my>>
           /\ \A t \in DOMAIN Tables : Grows(t)
<1>0. /\ rows \in [DOMAIN Tables -> SUBSET (1..MaxRows)]
      /\ made \in [DOMAIN Tables -> 0..MaxRows] /\ MaxRows \in Nat
      /\ late \in [DOMAIN Tables -> SUBSET (1..MaxRows)]
      /\ \A t \in DOMAIN Tables : rows[t] \subseteq 1..made[t]
      /\ UNCHANGED <<index, members, meta, torn, pc, my, failures>>
      /\ writes' \in 0..MaxWrites
  BY IndexAssumption DEF IndexInv, IndexType, Write, cache
<1>1. PICK t \in DOMAIN Tables : SourceInsert(t) \/ SourceDelete(t)
  BY DEF Write
<1>2. /\ rows' \in [DOMAIN Tables -> SUBSET (1..MaxRows)]
      /\ made' \in [DOMAIN Tables -> 0..MaxRows]
      /\ late' \in [DOMAIN Tables -> SUBSET (1..MaxRows)]
      /\ \A s \in DOMAIN Tables : rows'[s] \subseteq 1..made'[s] /\ made[s] <= made'[s] /\ Grows(s)
  <2>1. CASE SourceInsert(t)
    <3>1. PICK n \in 1..Tables[t].most :
            /\ rows' = [rows EXCEPT ![t] = rows[t] \cup {n}]
            /\ made' = [made EXCEPT ![t] = IF n > made[t] THEN n ELSE made[t]]
            /\ late' = IF n > made[t] THEN late ELSE [late EXCEPT ![t] = late[t] \cup {n}]
      BY <2>1 DEF SourceInsert
    <3>2. n \in 1..MaxRows /\ made[t] \in 0..MaxRows
      BY <1>0, TableFields
    <3>3. CASE n > made[t]
      BY <1>0, <3>1, <3>2, <3>3 DEF Grows
    <3>4. CASE ~ (n > made[t])
      BY <1>0, <3>1, <3>2, <3>4 DEF Grows
    <3> QED
      BY <3>3, <3>4
  <2>2. CASE SourceDelete(t)
    BY <1>0, <2>2 DEF SourceDelete, Grows
  <2> QED
    BY <1>1, <2>1, <2>2
<1>3. \A D \in Digest : Past(D) => Past(D)'
  BY <1>0, <1>2 DEF Past, Digest, Signature
<1>4. (meta # Missing => Past(meta.digest))'
  BY <1>0, <1>3 DEF IndexInv, IndexType, Meta
<1>5. \A c \in Calls : HasPrint(c)'
  BY <1>0, <1>3 DEF IndexInv, HasPrint
<1>6. IndexType'
  BY <1>0, <1>2 DEF IndexInv, IndexType
<1> QED
  BY <1>0, <1>2, <1>4, <1>5, <1>6 DEF IndexInv, cache

LEMMA PrintTaken ==
    ASSUME my \in [Calls -> Locals], NEW c \in Calls,
           NEW D \in Digest, NEW errors \in SUBSET Users
    PROVE  [my EXCEPT ![c].digest = D, ![c].errors = errors] \in [Calls -> Locals]
<1> DEFINE l == [my[c] EXCEPT !.digest = D]
           m == [l EXCEPT !.errors = errors]
<1>1. l \in Locals
  BY DEF Locals
<1>2. m \in Locals
  <2> HIDE DEF l
  <2> QED
    BY <1>1 DEF Locals
<1>3. [my EXCEPT ![c].digest = D, ![c].errors = errors] = [my EXCEPT ![c] = m]
  OBVIOUS
<1> HIDE DEF m
<1> QED
  BY <1>2, <1>3

LEMMA RebuildTyped ==
    ASSUME IndexInv, NEW c \in Calls, RebuildStep(c)
    PROVE  IndexInv'
<1>0. /\ index \in [Users -> SUBSET Copy] /\ members \subseteq Users
      /\ meta \in Meta \cup {Missing} /\ torn \in [Users -> SUBSET Calls]
      /\ my \in [Calls -> Locals] /\ (meta # Missing => Past(meta.digest))
      /\ Owner[c] \in Users /\ pc \in [Calls -> Standing]
  BY IndexAssumption DEF IndexInv, IndexType
<1>1. CASE TakeFingerprint(c)
  <2>1. PICK unreadable \in SUBSET Discovered :
          /\ Failure \/ UNCHANGED failures
          /\ my' = [my EXCEPT ![c].digest = Fingerprint(Owner[c], unreadable),
                              ![c].errors = unreadable]
    BY <1>1 DEF TakeFingerprint
  <2>2. /\ Fingerprint(Owner[c], unreadable) \in Digest
        /\ Past(Fingerprint(Owner[c], unreadable))
        /\ Fingerprint(Owner[c], unreadable).owner = Owner[c]
        /\ unreadable \subseteq Users
    BY FingerprintType
  <2> DEFINE F == Fingerprint(Owner[c], unreadable)
  <2> HIDE DEF F
  <2>3. my' = [my EXCEPT ![c].digest = F, ![c].errors = unreadable]
    BY <2>1 DEF F
  <2>4. F \in Digest /\ Past(F) /\ F.owner = Owner[c]
    BY <2>2 DEF F
  <2>5. my' \in [Calls -> Locals] /\ \A d \in Calls \ {c} : my'[d] = my[d]
    <3>1. unreadable \in SUBSET Users /\ F \in Digest
      BY <2>2, <2>4
    <3>2. my' \in [Calls -> Locals]
      BY <1>0, <2>3, <3>1, PrintTaken
    <3> QED
      BY <1>0, <2>3, <3>2
  <2>6. my'[c].digest = F /\ my'[c].at = my[c].at
    BY <1>0, <2>3 DEF Locals
  <2>7. pc[c] = "print" /\ Goes(c, "clear") /\ UNCHANGED <<sources, cache>>
    BY <1>1 DEF TakeFingerprint
  <2>8. HasPrint(c)'
    BY <1>0, <2>4, <2>6, <2>7 DEF IndexInv, HasPrint, Goes, sources, Past
  <2> QED
    BY <1>0, <2>1, <2>5, <2>7, <2>8, CallTyped DEF cache, Standing
<1>2. CASE Clear(c)
  <2>1. /\ UNCHANGED <<sources, meta, my, failures>> /\ pc[c] = "clear" /\ Goes(c, "members")
        /\ index' = [index EXCEPT ![Owner[c]] = {}]
        /\ members' \subseteq Users
        /\ torn' = [torn EXCEPT ![Owner[c]] = {d \in torn[Owner[c]] : Rebuilding(d)} \cup {c}]
    BY <1>0, <1>2 DEF Clear
  <2>2. index' \in [Users -> SUBSET Copy] /\ torn' \in [Users -> SUBSET Calls]
    BY <1>0, <2>1
  <2>3. HasPrint(c)'
    BY <1>0, <2>1 DEF IndexInv, HasPrint, Goes, sources, Past
  <2> QED
    BY <1>0, <2>1, <2>2, <2>3, CallTyped DEF Standing
<1>3. CASE InsertMembers(c)
  <2>1. /\ UNCHANGED <<sources, index, meta, torn, failures>> /\ pc[c] = "members"
        /\ members' \subseteq Users
    BY <1>0, <1>3 DEF InsertMembers
  <2>2. CASE Goes(c, "copy") /\ UNCHANGED my
    <3>1. HasPrint(c)'
      BY <1>0, <2>1, <2>2 DEF IndexInv, HasPrint, Goes, sources, Past
    <3> QED
      BY <1>0, <2>1, <2>2, <3>1, CallTyped DEF Standing
  <2>3. CASE RebuildEnds(c, "error")
    <3>1. /\ \E to \in {"done", "lookup", "fanout"} : Goes(c, to)
          /\ my' \in [Calls -> Locals] /\ \A d \in Calls \ {c} : my'[d] = my[d]
          /\ my'[c].at = 1
      BY <2>3, RebuildEndsTyped
    <3>2. HasPrint(c)'
      BY <1>0, <3>1 DEF HasPrint, Goes
    <3> QED
      BY <1>0, <2>1, <3>1, <3>2, CallTyped DEF Standing, Ended
  <2> QED
    BY <1>3, <2>2, <2>3 DEF InsertMembers
<1>4. CASE CopyTable(c)
  <2> DEFINE t == my[c].at
             copied == [row : {r \in AllRows : r.table = t}, by : {c}]
  <2>1. /\ UNCHANGED <<sources, members, meta, torn, pc>> /\ pc[c] = "copy"
        /\ (Failure \/ UNCHANGED failures) /\ t \in DOMAIN Tables
    BY <1>4 DEF CopyTable
  <2>2. copied \subseteq Copy
    BY RowsTyped DEF Copy
  <2>3. index' \in [Users -> SUBSET Copy]
    <3>1. index' \in {index, [index EXCEPT ![Owner[c]] = @ \cup copied]}
      BY <1>4 DEF CopyTable
    <3> HIDE DEF copied
    <3> QED
      BY <1>0, <2>2, <3>1
  <2>4. t + 1 \in Nat /\ Tables[t].user \in Users
    BY <1>0, <2>1, TablesNumbered, TableFields
  <2>5. \/ my' = [my EXCEPT ![c].at = t + 1]
        \/ my' = [my EXCEPT ![c].at = t + 1, ![c].errors = @ \cup {Tables[t].user}]
    BY <1>4 DEF CopyTable
  <2>6. /\ my' \in [Calls -> Locals] /\ my'[c].digest = my[c].digest
        /\ \A d \in Calls \ {c} : my'[d] = my[d]
    <3> HIDE DEF t
    <3>1. CASE my' = [my EXCEPT ![c].at = t + 1]
      BY <1>0, <2>4, <3>1 DEF Locals
    <3>2. CASE my' = [my EXCEPT ![c].at = t + 1, ![c].errors = @ \cup {Tables[t].user}]
      <4> DEFINE l == [my[c] EXCEPT !.at = t + 1]
                 m == [l EXCEPT !.errors = @ \cup {Tables[t].user}]
      <4>1. l \in Locals
        BY <1>0, <2>4 DEF Locals
      <4>2. m \in Locals
        <5> HIDE DEF l
        <5> QED
          BY <2>4, <4>1 DEF Locals
      <4>3. my' = [my EXCEPT ![c] = m] /\ m.digest = my[c].digest
        BY <1>0, <3>2 DEF Locals
      <4> HIDE DEF m
      <4> QED
        BY <1>0, <4>2, <4>3
    <3> QED
      BY <2>5, <3>1, <3>2
  <2>7. HasPrint(c)'
    BY <2>1, <2>6 DEF IndexInv, HasPrint, sources, Past
  <2> QED
    BY <1>0, <2>1, <2>3, <2>6, <2>7, CallTyped
<1>5. CASE WriteMeta(c) \/ RebuildFails(c)
  <2>1. /\ UNCHANGED <<sources, index, members>> /\ pc[c] \in {"clear", "members", "copy"}
        /\ Failure \/ UNCHANGED failures
    BY <1>5 DEF WriteMeta, RebuildFails, cache
  <2>2. \E status \in Statuses \cup {"error"} : RebuildEnds(c, status)
    BY <1>5 DEF WriteMeta, RebuildFails, Statuses
  <2>3. /\ \E to \in {"done", "lookup", "fanout"} : Goes(c, to)
        /\ my' \in [Calls -> Locals] /\ \A d \in Calls \ {c} : my'[d] = my[d]
        /\ my'[c].at = 1
    BY <2>2, RebuildEndsTyped
  <2>4. HasPrint(c)'
    BY <1>0, <2>3 DEF HasPrint, Goes
  <2>5. my[c].digest \in Digest /\ Past(my[c].digest)
    BY <2>1 DEF IndexInv, HasPrint
  <2>6. \/ UNCHANGED meta
        \/ \E s \in Statuses : meta' = [status |-> s, digest |-> my[c].digest]
    BY <1>5 DEF WriteMeta, RebuildFails, cache, Statuses
  <2>7. meta' \in Meta \cup {Missing} /\ (meta' # Missing => Past(meta'.digest))
    BY <1>0, <2>5, <2>6 DEF Meta
  <2>8. torn' \in [Users -> SUBSET Calls]
    BY <1>0, <1>5 DEF WriteMeta, RebuildFails, cache
  <2> QED
    BY <1>0, <2>1, <2>3, <2>4, <2>7, <2>8, CallTyped DEF Standing, Ended
<1> QED
  BY <1>1, <1>2, <1>3, <1>4, <1>5 DEF RebuildStep

LEMMA BeginsTyped ==
    ASSUME IndexInv, NEW c \in Calls, NEW op \in Operation,
           NEW to \in {"print", "check", "fanout", "evaluate"}, Begins(c, op, to)
    PROVE  IndexInv'
<1>1. /\ pc[c] = "idle" /\ Goes(c, to) /\ UNCHANGED <<sources, cache, failures>>
      /\ my' = [my EXCEPT ![c].op = op]
  BY DEF Begins
<1>2. /\ my' \in [Calls -> Locals] /\ my'[c].at = my[c].at
      /\ \A d \in Calls \ {c} : my'[d] = my[d]
  BY <1>1 DEF IndexInv, IndexType, Locals
<1>3. HasPrint(c)'
  BY <1>1, <1>2 DEF IndexInv, HasPrint, Goes
<1> QED
  BY <1>1, <1>2, <1>3, CallTyped DEF IndexInv, IndexType, Standing, cache

LEMMA SearchTyped ==
    ASSUME IndexInv, NEW c \in Calls, SearchStep(c)
    PROVE  IndexInv'
<1>0. /\ index \in [Users -> SUBSET Copy] /\ members \subseteq Users
      /\ meta \in Meta \cup {Missing} /\ torn \in [Users -> SUBSET Calls]
      /\ my \in [Calls -> Locals] /\ (meta # Missing => Past(meta.digest))
      /\ pc \in [Calls -> Standing] /\ AllRows \in SUBSET Row
  BY RowsTyped DEF IndexInv, IndexType
<1>1. /\ UNCHANGED <<sources, cache>> /\ (Failure \/ UNCHANGED failures)
      /\ pc[c] \in {"check", "compare", "lookup", "fanout"}
      /\ \E to \in {"compare", "print", "lookup", "done", "fanout"} : Goes(c, to)
  BY DEF SearchStep, Check, Compare, Lookup, Fanout
<1>2. /\ my' \in [Calls -> Locals] /\ my'[c].at = my[c].at
      /\ \A d \in Calls \ {c} : my'[d] = my[d]
  <2>1. CASE UNCHANGED my
    BY <1>0, <2>1
  <2>2. CASE my' = [my EXCEPT ![c].seen = meta] \/ my' = [my EXCEPT ![c].seen = Missing]
    <3>1. PICK x \in Meta \cup {Missing} : my' = [my EXCEPT ![c] = [my[c] EXCEPT !.seen = x]]
      BY <1>0, <2>2
    <3> DEFINE l == [my[c] EXCEPT !.seen = x]
    <3>2. l \in Locals /\ l.at = my[c].at
      BY <1>0 DEF Locals
    <3>3. my' = [my EXCEPT ![c] = l] /\ my \in [Calls -> Locals]
      BY <1>0, <3>1
    <3> HIDE DEF l
    <3> QED
      BY <3>2, <3>3
  <2>3. CASE \/ my' = [my EXCEPT ![c].seen = Missing, ![c].wants = AllRows]
             \/ my' = [my EXCEPT ![c].found = AllRows, ![c].wants = {}]
    <3>1. PICK x \in {"seen", "found"}, y \in SUBSET Row :
            \/ my' = [my EXCEPT ![c].seen = Missing, ![c].wants = y] /\ x = "seen"
            \/ my' = [my EXCEPT ![c].found = AllRows, ![c].wants = y] /\ x = "found"
      BY <1>0, <2>3
    <3> DEFINE l == IF x = "seen" THEN [my[c] EXCEPT !.seen = Missing]
                    ELSE [my[c] EXCEPT !.found = AllRows]
               m == [l EXCEPT !.wants = y]
    <3>2. l \in Locals /\ l.at = my[c].at
      BY <1>0 DEF Locals
    <3>3. m \in Locals /\ m.at = l.at
      <4> HIDE DEF l
      <4> QED
        BY <3>2 DEF Locals
    <3>4. my' = [my EXCEPT ![c] = m]
      BY <3>1
    <3> HIDE DEF l, m
    <3> QED
      BY <1>0, <3>2, <3>3, <3>4
  <2>4. CASE \E hits \in SUBSET Row : my' = [my EXCEPT ![c].found = hits]
    BY <1>0, <2>4 DEF Locals
  <2>5. {h.row : h \in index[Owner[c]]} \in SUBSET Row
    BY <1>0, IndexAssumption DEF Copy
  <2>6. \/ UNCHANGED my
        \/ my' = [my EXCEPT ![c].seen = meta]
        \/ my' = [my EXCEPT ![c].seen = Missing]
        \/ my' = [my EXCEPT ![c].seen = Missing, ![c].wants = AllRows]
        \/ my' = [my EXCEPT ![c].found = AllRows, ![c].wants = {}]
        \/ my' = [my EXCEPT ![c].found = {h.row : h \in index[Owner[c]]}]
    <3>1. CASE Check(c)
      BY <3>1 DEF Check
    <3>2. CASE Compare(c)
      BY <3>2 DEF Compare
    <3>3. CASE Lookup(c)
      BY <3>3 DEF Lookup
    <3>4. CASE Fanout(c)
      BY <3>4 DEF Fanout
    <3> QED
      BY <3>1, <3>2, <3>3, <3>4 DEF SearchStep
  <2> QED
    BY <2>1, <2>2, <2>3, <2>4, <2>5, <2>6
<1>3. HasPrint(c)'
  BY <1>0, <1>1, <1>2 DEF IndexInv, HasPrint, Goes
<1> QED
  BY <1>0, <1>1, <1>2, <1>3, CallTyped DEF Standing, Ended, cache

LEMMA CrashTyped ==
    ASSUME IndexInv, NEW c \in Calls, Crash(c)
    PROVE  IndexInv'
<1>1. /\ UNCHANGED <<sources, cache>> /\ Failure /\ Goes(c, "crashed")
      /\ my' = [my EXCEPT ![c] = Blank]
  BY DEF Crash
<1>2. /\ my' \in [Calls -> Locals] /\ my'[c].at = 1
      /\ \A d \in Calls \ {c} : my'[d] = my[d]
  BY <1>1, BlankType DEF IndexInv, IndexType
<1>3. HasPrint(c)'
  BY <1>1, <1>2 DEF IndexInv, HasPrint, Goes
<1> QED
  BY <1>1, <1>2, <1>3, CallTyped DEF IndexInv, IndexType, Standing, Ended, cache

\* Promotions read the index and write none of it.
LEMMA PromotionMoves ==
    ASSUME NEW c \in Calls, PromotionStep(c)
    PROVE  /\ UNCHANGED Others /\ (Failure \/ UNCHANGED failures)
           /\ pc[c] \in {"evaluate", "gate", "find", "insert", "items"}
           /\ \/ \E to \in {"gate", "find", "insert", "items"} \cup Ended : Goes(c, to)
              \/ UNCHANGED pc
<1>1. CASE Evaluate(c) \/ Gate(c) \/ Find(c)
  BY <1>1 DEF Evaluate, Gate, Find, PromotionEnds, Ended, Others
<1>2. CASE Insert(c) \/ RecordRun(c) \/ RecordItem(c)
  BY <1>2 DEF Insert, RecordRun, RecordItem, PromotionEnds, Ended, Others
<1>3. CASE RunRecorded(c) \/ PromotionFails(c)
  BY <1>3 DEF RunRecorded, PromotionFails, PromotionEnds, Ended, Others
<1> QED
  BY <1>1, <1>2, <1>3 DEF PromotionStep

LEMMA PromotionTyped ==
    ASSUME IndexInv, NEW c \in Calls, PromotionStep(c)
    PROVE  IndexInv'
<1>1. /\ UNCHANGED Others /\ (Failure \/ UNCHANGED failures)
      /\ pc[c] \in {"evaluate", "gate", "find", "insert", "items"}
      /\ \/ \E to \in {"gate", "find", "insert", "items"} \cup Ended : Goes(c, to)
         \/ UNCHANGED pc
  BY PromotionMoves
<1>2. HasPrint(c)'
  BY <1>1 DEF IndexInv, HasPrint, Goes, Others, Ended
<1>3. \A d \in Calls \ {c} : my'[d] = my[d]
  BY <1>1 DEF Others
<1>4. \/ \E to \in Standing : Goes(c, to)
      \/ UNCHANGED pc
  BY <1>1 DEF Standing
<1> QED
  BY <1>1, <1>2, <1>3, <1>4, CallTyped DEF IndexInv, IndexType, Others, cache

LEMMA StartTyped ==
    ASSUME IndexInv, NEW c \in Calls,
           StartRebuild(c) \/ StartSearch(c) \/ StartFanout(c) \/ StartPromotion(c)
    PROVE  IndexInv'
BY BeginsTyped DEF StartRebuild, StartSearch, StartFanout, StartPromotion, Operation

LEMMA IndexTyped ==
    ASSUME IndexInv, [Next]_vars
    PROVE  IndexInv'
<1>1. CASE UNCHANGED vars
  BY <1>1 DEF vars, sources, cache, IndexInv, IndexType, HasPrint, Past
<1>2. CASE IndexAction
  BY <1>2, WriteTyped, StartTyped, RebuildTyped, SearchTyped DEF IndexAction
<1>3. ASSUME NEW c \in Calls, StartPromotion(c) \/ PromotionStep(c) \/ Crash(c)
      PROVE  IndexInv'
  BY <1>3, StartTyped, PromotionTyped, CrashTyped
<1> QED
  BY <1>1, <1>2, <1>3 DEF Next

LEMMA InitTyped == Init => IndexInv
<1> SUFFICES ASSUME NEW o \in IndexedFor, IndexInit(o)
             PROVE  IndexInv
  BY DEF Init
<1> DEFINE first == IF o = Missing THEN {} ELSE {1}
           copies == [row : [table : DOMAIN Tables, row : first], by : {"before"}]
           empty == [u \in Users |-> {}]
           signature == [count |-> 1, latest |-> 1]
<1>0. MaxRows \in Nat /\ MaxFailures \in Nat /\ o \in Users \cup {Missing}
      /\ \A t \in DOMAIN Tables : MaxRows >= 1
  BY TableFields, IndexAssumption
<1>1. Cardinality(first) = IF o = Missing THEN 0 ELSE 1
  BY FS_EmptySet, FS_Singleton
<1>2. /\ rows \in [DOMAIN Tables -> SUBSET (1..MaxRows)]
      /\ made \in [DOMAIN Tables -> 0..MaxRows]
      /\ \A t \in DOMAIN Tables : rows[t] \subseteq 1..made[t]
      /\ \A t \in DOMAIN Tables : o # Missing => made[t] = 1
  BY <1>0, <1>1 DEF IndexInit
<1>3. index \in [Users -> SUBSET Copy] /\ torn \in [Users -> SUBSET Calls]
  <2>1. copies \subseteq Copy
    BY <1>0 DEF Copy, Row
  <2>2. index = empty \/ index = [empty EXCEPT ![o] = copies]
    BY DEF IndexInit
  <2> HIDE DEF copies
  <2> QED
    BY <2>1, <2>2 DEF IndexInit
<1>4. meta \in Meta \cup {Missing} /\ (meta # Missing => Past(meta.digest))
  <2>1. CASE o = Missing
    BY <2>1 DEF IndexInit
  <2>2. CASE o # Missing
    <3> DEFINE from == {Tables[t].user : t \in DOMAIN Tables}
               F == [owner |-> o, errors |-> {}, from |-> from,
                     signatures |-> [t \in DOMAIN Tables |-> signature]]
    <3>1. from \subseteq Users
      BY TableFields
    <3>2. [t \in DOMAIN Tables |-> signature] \in [DOMAIN Tables -> Signature]
      BY <1>0 DEF Signature
    <3>3. F \in Digest
      <4> HIDE DEF from
      <4> QED
        BY <1>0, <2>2, <3>1, <3>2 DEF Digest
    <3>4. Past(F)
      BY <1>2, <2>2 DEF Past
    <3>5. meta = [status |-> "ready", digest |-> F]
      BY <2>2 DEF IndexInit
    <3> HIDE DEF F
    <3> QED
      BY <3>3, <3>4, <3>5 DEF Meta, Statuses
  <2> QED
    BY <2>1, <2>2
<1>5. my \in [Calls -> Locals] /\ \A c \in Calls : my[c].at = 1
  BY BlankType DEF IndexInit
<1>6. pc \in [Calls -> Standing] /\ \A c \in Calls : pc[c] = "idle"
  BY DEF IndexInit, Standing
<1>7. /\ members \subseteq Users /\ failures \in 0..MaxFailures /\ writes \in 0..MaxWrites
      /\ late \in [DOMAIN Tables -> SUBSET (1..MaxRows)]
  BY <1>0, IndexAssumption DEF IndexInit
<1> QED
  BY <1>2, <1>3, <1>4, <1>5, <1>6, <1>7 DEF IndexInv, IndexType, HasPrint

-----------------------------------------------------------------------------
(* What a fingerprint says of the index.  A row that is not late was       *)
(* written above the numbers there were, so of a source whose latest row   *)
(* is again the one that a fingerprint counted every such row was there    *)
(* when the rebuild with that fingerprint, or one that cleared the index   *)
(* after it, copied the source.  A later rebuild may have cleared what an earlier one       *)
(* copied; then it is torn until it has copied everything itself.          *)

Held(o, t, n) == \E h \in index[o] : h.row = [table |-> t, row |-> n]

\* What is left of the rows that the fingerprint D counted is in o's index, and
\* only late ones came to be among them since.
Covered(o, t, D) ==
    \A n \in rows[t] \ late[t] : n <= D.signatures[t].latest => Held(o, t, n)

\* A search relies on D: it compares D, or has found usable an index that has
\* the rows it wants, and D counts up to some of these.
Relies(c, D) ==
    \/ pc[c] = "compare" /\ D = my[c].seen.digest
    \/ /\ pc[c] = "lookup" /\ ~ my[c].rebuilt
       /\ \A t \in DOMAIN Tables :
            \/ D.signatures[t].latest = 0
            \/ [table |-> t, row |-> D.signatures[t].latest] \in my[c].wants

\* The fingerprints that count for o: of its rebuilds under way, of its metadata,
\* and those that its searches rely on.
IsPrint(o, D) ==
    \/ \E c \in Calls : Owner[c] = o /\ Rebuilding(c) /\ D = my[c].digest
    \/ meta # Missing /\ meta.digest.owner = o /\ D = meta.digest
    \/ \E c \in Calls : Owner[c] = o /\ Relies(c, D)

Whole(o) ==
    \A D \in Digest : IsPrint(o, D) => \A t \in DOMAIN Tables : Covered(o, t, D)

\* The sources that z has read so far are in it.
Listed(z, t) == Tables[t].user \in my[z].digest.from \ my[z].errors
WholeSoFar(o, z) ==
    \A D \in Digest : IsPrint(o, D) =>
        \A t \in DOMAIN Tables : t < my[z].at /\ Listed(z, t) => Covered(o, t, D)

WholeOrTorn(o) == Whole(o) \/ \E z \in torn[o] : Rebuilding(z) => WholeSoFar(o, z)

WholeInv ==
    \A o \in Users : /\ \A z \in torn[o] : Owner[z] = o
                     /\ WholeOrTorn(o)

\* A call that is no search wants nothing, and none wants rows not yet written.
Promoting == {"idle", "evaluate", "gate", "find", "insert", "items"}
SearchInv == \A c \in Calls :
    /\ pc[c] = "compare" => my[c].seen # Missing /\ Past(my[c].seen.digest)
    /\ pc[c] \in Promoting => my[c].wants = {}
    /\ \A r \in my[c].wants : r.row <= made[r.table]

LEMMA PrintsPast ==
    ASSUME IndexInv, SearchInv, NEW o \in Users, NEW D \in Digest, IsPrint(o, D)
    PROVE  Past(D)
<1>0. made \in [DOMAIN Tables -> 0..MaxRows] /\ MaxRows \in Nat
  BY IndexAssumption DEF IndexInv, IndexType
<1>1. CASE \E c \in Calls : Owner[c] = o /\ Relies(c, D)
  <2>1. PICK c \in Calls : Relies(c, D)
    BY <1>1
  <2>2. CASE pc[c] = "lookup"
    <3>1. ASSUME NEW t \in DOMAIN Tables
          PROVE  D.signatures[t].latest <= made[t]
      <4> DEFINE n == D.signatures[t].latest
                 r == [table |-> t, row |-> n]
      <4>1. n = 0 \/ r \in my[c].wants
        BY <2>1, <2>2 DEF Relies
      <4>2. made[t] \in Nat /\ r.row = n /\ r.table = t
        BY <1>0
      <4> QED
        BY <4>1, <4>2 DEF SearchInv
    <3> QED
      BY <3>1 DEF Past
  <2> QED
    BY <2>1, <2>2 DEF Relies, SearchInv
<1> QED
  BY <1>1 DEF IndexInv, IndexType, HasPrint, IsPrint, Rebuilding, Meta

\* What was covered stays covered while nothing is cleared.
LEMMA CoveredKept ==
    ASSUME IndexInv, SearchInv, NEW o \in Users, NEW t \in DOMAIN Tables,
           NEW D \in Digest, IsPrint(o, D), Covered(o, t, D), index[o] \subseteq index'[o],
           Grows(t)
    PROVE  Covered(o, t, D)'
<1>1. D.signatures[t].latest <= made[t] /\ D.signatures[t].latest \in Nat
      /\ made[t] \in Nat /\ MaxRows \in Nat
  <2>1. Past(D)
    BY PrintsPast
  <2> QED
    BY <2>1, IndexAssumption DEF Past, Digest, Signature, IndexInv, IndexType
<1>2. SUFFICES ASSUME NEW n \in rows'[t] \ late'[t], n <= D.signatures[t].latest
               PROVE  Held(o, t, n)'
  BY DEF Covered
<1>3. n \in rows[t] \ late[t]
  <2>0. n \notin late[t]
    BY <1>2 DEF Grows
  <2>1. n \in rows[t] \/ (n \in Nat /\ n > made[t])
    BY <1>2 DEF Grows
  <2>2. n \in rows[t] => n \in Nat
    BY DEF IndexInv, IndexType
  <2>3. n \in Nat
    BY <2>1, <2>2
  <2>4. ~ (n > made[t])
    BY <1>1, <1>2, <2>3
  <2> QED
    BY <2>0, <2>1, <2>4
<1>4. Held(o, t, n)
  BY <1>2, <1>3 DEF Covered
<1> QED
  BY <1>4 DEF Held

\* A step that clears nothing of o, brings no fingerprint to it, and leaves what
\* its torn rebuilds know.
LEMMA WholeFrame ==
    ASSUME IndexInv, SearchInv, NEW o \in Users, WholeOrTorn(o), index[o] \subseteq index'[o],
           \A t \in DOMAIN Tables : Grows(t),
           \A D \in Digest : IsPrint(o, D)' => IsPrint(o, D),
           \A z \in torn[o] : /\ z \in torn'[o]
                              /\ Rebuilding(z)' => Rebuilding(z) /\ my'[z] = my[z]
    PROVE  WholeOrTorn(o)'
<1>1. CASE Whole(o)
  <2>1. Whole(o)'
    BY <1>1, CoveredKept, QuietGrows DEF Whole
  <2> QED
    BY <2>1 DEF WholeOrTorn
<1>2. CASE \E z \in torn[o] : Rebuilding(z) => WholeSoFar(o, z)
  <2>1. PICK z \in torn[o] : Rebuilding(z) => WholeSoFar(o, z)
    BY <1>2
  <2>2. ASSUME Rebuilding(z)'
        PROVE  WholeSoFar(o, z)'
    <3>1. WholeSoFar(o, z) /\ my'[z] = my[z]
      BY <2>1, <2>2
    <3> QED
      BY <3>1, CoveredKept, QuietGrows DEF WholeSoFar, Listed
  <2> QED
    BY <2>2 DEF WholeOrTorn
<1> QED
  BY <1>1, <1>2 DEF WholeOrTorn

\* Most steps: the cache stays, and no call becomes a rebuild or changes as one.
LEMMA WholeQuiet ==
    ASSUME IndexInv, SearchInv, WholeInv, UNCHANGED <<index, meta, torn>>,
           \A t \in DOMAIN Tables : Grows(t),
           \A z \in Calls : Rebuilding(z)' => Rebuilding(z) /\ my'[z] = my[z],
           \A z \in Calls : \A D \in Digest : Relies(z, D)' => Relies(z, D)
    PROVE  WholeInv'
<1> SUFFICES ASSUME NEW o \in Users
             PROVE  WholeOrTorn(o)'
  BY DEF WholeInv
<1>1. \A D \in Digest : IsPrint(o, D)' => IsPrint(o, D)
  BY DEF IsPrint
<1>2. torn[o] \subseteq Calls
  BY DEF IndexInv, IndexType
<1> QED
  BY <1>1, <1>2, WholeFrame, QuietGrows DEF WholeInv

\* D counts no rows beyond those that E counts.
Below(D, E) == \A t \in DOMAIN Tables : D.signatures[t].latest <= E.signatures[t].latest

LEMMA CoveredBelow ==
    ASSUME IndexInv, NEW o \in Users, NEW t \in DOMAIN Tables, NEW D \in Digest, NEW E \in Digest,
           Below(D, E), Covered(o, t, E)
    PROVE  Covered(o, t, D)
<1>1. D.signatures[t].latest \in Nat /\ E.signatures[t].latest \in Nat
      /\ D.signatures[t].latest <= E.signatures[t].latest
  BY IndexAssumption DEF Digest, Signature, Below
<1>2. \A n \in rows[t] : n \in Nat
  BY DEF IndexInv, IndexType
<1> QED
  BY <1>1, <1>2 DEF Covered

\* A search comes to rely on no more than what the index is known to hold.
LEMMA WholeBelow ==
    ASSUME IndexInv, SearchInv, WholeInv, UNCHANGED <<index, meta, torn, rows, late>>,
           \A z \in Calls : Rebuilding(z)' => Rebuilding(z) /\ my'[z] = my[z],
           \A o \in Users : \A D \in Digest : IsPrint(o, D)' =>
               \E E \in Digest : IsPrint(o, E) /\ Below(D, E)
    PROVE  WholeInv'
<1> SUFFICES ASSUME NEW o \in Users
             PROVE  WholeOrTorn(o)'
  BY DEF WholeInv
<1>1. \A t \in DOMAIN Tables, D \in Digest : Covered(o, t, D)' <=> Covered(o, t, D)
  BY DEF Covered, Held
<1>2. CASE Whole(o)
  <2>1. ASSUME NEW D \in Digest, IsPrint(o, D)', NEW t \in DOMAIN Tables
        PROVE  Covered(o, t, D)'
    <3>1. PICK E \in Digest : IsPrint(o, E) /\ Below(D, E)
      BY <2>1
    <3>2. Covered(o, t, E)
      BY <1>2, <3>1 DEF Whole
    <3> QED
      BY <1>1, <3>1, <3>2, CoveredBelow
  <2> QED
    BY <2>1 DEF Whole, WholeOrTorn
<1>3. CASE \E z \in torn[o] : Rebuilding(z) => WholeSoFar(o, z)
  <2>1. PICK z \in torn[o] : Rebuilding(z) => WholeSoFar(o, z)
    BY <1>3
  <2>2. z \in Calls
    BY DEF IndexInv, IndexType
  <2>3. ASSUME Rebuilding(z)', NEW D \in Digest, IsPrint(o, D)', NEW t \in DOMAIN Tables,
               t < my'[z].at, Listed(z, t)'
        PROVE  Covered(o, t, D)'
    <3>1. PICK E \in Digest : IsPrint(o, E) /\ Below(D, E)
      BY <2>3
    <3>2. WholeSoFar(o, z) /\ my'[z] = my[z]
      BY <2>1, <2>2, <2>3
    <3>3. Covered(o, t, E)
      BY <2>3, <3>1, <3>2 DEF WholeSoFar, Listed
    <3> QED
      BY <1>1, <3>1, <3>3, CoveredBelow
  <2> QED
    BY <2>1, <2>3 DEF WholeSoFar, WholeOrTorn
<1> QED
  BY <1>2, <1>3 DEF WholeInv, WholeOrTorn

LEMMA WholeClear ==
    ASSUME IndexInv, SearchInv, WholeInv, NEW c \in Calls, Clear(c)
    PROVE  WholeInv'
<1>0. /\ pc[c] = "clear" /\ pc' = [pc EXCEPT ![c] = "members"] /\ pc \in [Calls -> Standing]
      /\ UNCHANGED <<rows, made, late, meta, my>> /\ Owner[c] \in Users
      /\ index' = [index EXCEPT ![Owner[c]] = {}]
      /\ torn' = [torn EXCEPT ![Owner[c]] = {d \in torn[Owner[c]] : Rebuilding(d)} \cup {c}]
      /\ index \in [Users -> SUBSET Copy] /\ torn \in [Users -> SUBSET Calls]
      /\ my[c].at = 1
  BY IndexAssumption DEF Clear, Goes, sources, IndexInv, IndexType, HasPrint
<1> SUFFICES ASSUME NEW o \in Users
             PROVE  (\A z \in torn'[o] : Owner[z] = o) /\ WholeOrTorn(o)'
  BY DEF WholeInv
<1>1. \A z \in torn'[o] : Owner[z] = o
  BY <1>0 DEF WholeInv
<1>2. CASE o = Owner[c]
  <2>1. c \in torn'[o]
    BY <1>0, <1>2
  <2>2. WholeSoFar(o, c)'
    BY <1>0, TablesNumbered DEF WholeSoFar
  <2> QED
    BY <1>1, <2>1, <2>2 DEF WholeOrTorn
<1>3. CASE o # Owner[c]
  <2>1. index'[o] = index[o] /\ torn'[o] = torn[o] /\ torn[o] \subseteq Calls
    BY <1>0, <1>3
  <2>2. \A D \in Digest : IsPrint(o, D)' => IsPrint(o, D)
    <3>1. \A z \in Calls, D \in Digest : Relies(z, D)' => Relies(z, D)
      BY <1>0 DEF Relies
    <3> QED
      BY <1>0, <1>3, <3>1 DEF IsPrint, Rebuilding
  <2>3. \A z \in torn[o] : Rebuilding(z)' => Rebuilding(z) /\ my'[z] = my[z]
    BY <1>0, <1>3, <2>1 DEF WholeInv, Rebuilding
  <2> QED
    BY <1>0, <1>1, <2>1, <2>2, <2>3, WholeFrame, QuietGrows DEF WholeInv
<1> QED
  BY <1>2, <1>3

LEMMA WholeCopy ==
    ASSUME IndexInv, SearchInv, WholeInv, NEW c \in Calls, CopyTable(c)
    PROVE  WholeInv'
<1> DEFINE t == my[c].at
           q == Owner[c]
           copied == [row : {r \in AllRows : r.table = t}, by : {c}]
<1>0. /\ pc[c] = "copy" /\ t \in DOMAIN Tables /\ q \in Users /\ t \in Nat
      /\ UNCHANGED <<rows, made, late, meta, torn, pc>>
      /\ index \in [Users -> SUBSET Copy] /\ torn \in [Users -> SUBSET Calls]
      /\ my \in [Calls -> Locals]
  BY IndexAssumption, TablesNumbered DEF CopyTable, sources, IndexInv, IndexType
<1>1. /\ \A d \in Calls \ {c} : my'[d] = my[d]
      /\ my'[c].digest = my[c].digest /\ my'[c].at = t + 1
      /\ my[c].errors \subseteq my'[c].errors
  BY <1>0 DEF CopyTable, Locals
<1>2. index' = index \/ index' = [index EXCEPT ![q] = @ \cup copied]
  BY DEF CopyTable
<1>3. \A o \in Users : index[o] \subseteq index'[o]
  BY <1>0, <1>2
<1>4. \A o \in Users, D \in Digest : IsPrint(o, D)' => IsPrint(o, D)
  <2>1. \A z \in Calls, D \in Digest : Relies(z, D)' => Relies(z, D)
    BY <1>0, <1>1 DEF Relies
  <2> QED
    BY <1>0, <1>1, <2>1 DEF IsPrint, Rebuilding
<1> SUFFICES ASSUME NEW o \in Users
             PROVE  WholeOrTorn(o)'
  BY <1>0 DEF WholeInv
<1>5. CASE Whole(o)
  <2>1. Whole(o)'
    BY <1>0, <1>3, <1>4, <1>5, CoveredKept, QuietGrows DEF Whole
  <2> QED
    BY <2>1 DEF WholeOrTorn
<1>6. CASE \E z \in torn[o] : Rebuilding(z) => WholeSoFar(o, z)
  <2>1. PICK z \in torn[o] : Rebuilding(z) => WholeSoFar(o, z)
    BY <1>6
  <2>2. z \in Calls /\ Owner[z] = o /\ z \in torn'[o]
    BY <1>0 DEF WholeInv
  <2>3. SUFFICES ASSUME Rebuilding(z)'
                 PROVE  WholeSoFar(o, z)'
    BY <2>2 DEF WholeOrTorn
  <2>4. WholeSoFar(o, z)
    BY <1>0, <2>1, <2>3 DEF Rebuilding
  <2>5. CASE z # c
    <3>1. my'[z] = my[z]
      BY <1>1, <2>2, <2>5
    <3> QED
      BY <1>0, <1>3, <1>4, <2>4, <3>1, CoveredKept, QuietGrows DEF WholeSoFar, Listed
  <2>6. CASE z = c
    <3> SUFFICES ASSUME NEW D \in Digest, IsPrint(o, D)', NEW s \in DOMAIN Tables,
                        s < my'[z].at, Listed(z, s)'
                 PROVE  Covered(o, s, D)'
      BY DEF WholeSoFar
    <3>1. Listed(z, s) /\ IsPrint(o, D)
      BY <1>1, <1>4, <2>6 DEF Listed
    <3>2. CASE s < t
      BY <1>0, <1>3, <2>4, <2>6, <3>1, <3>2, CoveredKept, QuietGrows DEF WholeSoFar
    <3>3. CASE s = t
      <4>1. index' = [index EXCEPT ![q] = @ \cup copied]
        <5>1. CASE my' = [my EXCEPT ![c].at = t + 1, ![c].errors = @ \cup {Tables[t].user}]
          BY <1>0, <2>6, <3>3, <5>1 DEF Listed, Locals
        <5>2. CASE index' = IF Tables[t].user \in my[c].digest.from \ my[c].errors
                            THEN [index EXCEPT ![q] = @ \cup copied] ELSE index
          BY <2>6, <3>1, <3>3, <5>2 DEF Listed
        <5> QED
          BY <5>1, <5>2 DEF CopyTable
      <4>2. ASSUME NEW n \in rows[s]
            PROVE  Held(o, s, n)'
        <5> DEFINE r == [table |-> s, row |-> n]
                   h == [row |-> r, by |-> c]
        <5>1. r \in AllRows /\ r.table = t
          BY <1>0, <3>3, IndexAssumption DEF AllRows, Row, IndexInv, IndexType
        <5>2. h \in copied
          BY <5>1
        <5>3. h \in index'[o]
          <6>1. o = q
            BY <2>2, <2>6
          <6>2. index'[q] = index[q] \cup copied
            BY <1>0, <4>1
          <6> HIDE DEF copied
          <6> QED
            BY <5>2, <6>1, <6>2
        <5>4. h.row = r
          OBVIOUS
        <5> QED
          BY <5>3, <5>4 DEF Held
      <4> QED
        BY <1>0, <4>2 DEF Covered
    <3>4. s \in Nat
      BY TablesNumbered
    <3> QED
      BY <1>0, <1>1, <2>6, <3>2, <3>3, <3>4
  <2> QED
    BY <2>5, <2>6
<1> QED
  BY <1>5, <1>6 DEF WholeInv, WholeOrTorn

\* A rebuild ends as no search that relies on what was there before it.
LEMMA RebuildRelies ==
    ASSUME IndexInv, NEW c \in Calls, NEW status, RebuildEnds(c, status), NEW D
    PROVE  ~ Relies(c, D)'
<1>0. my \in [Calls -> Locals] /\ pc \in [Calls -> Standing]
  BY DEF IndexInv, IndexType
<1>1. pc'[c] \in {"done", "fanout"} \/ (pc'[c] = "lookup" /\ my'[c].rebuilt)
  BY <1>0 DEF RebuildEnds, Goes, Locals
<1> QED
  BY <1>1 DEF Relies

LEMMA WholeMeta ==
    ASSUME IndexInv, SearchInv, WholeInv, NEW c \in Calls, WriteMeta(c)
    PROVE  WholeInv'
<1> DEFINE q == Owner[c]
<1>0. /\ pc[c] = "copy" /\ my[c].at = Len(Tables) + 1 /\ q \in Users
      /\ UNCHANGED <<rows, made, late, index>>
      /\ torn' = IF CopiedAll(c) THEN [torn EXCEPT ![q] = @ \ {c}] ELSE torn
      /\ torn \in [Users -> SUBSET Calls]
      /\ my[c].digest \in Digest /\ my[c].digest.owner = q
      /\ \E status \in Statuses :
            /\ meta' = [status |-> status, digest |-> my[c].digest]
            /\ RebuildEnds(c, status)
  BY IndexAssumption DEF WriteMeta, sources, IndexInv, IndexType, HasPrint, Statuses
<1>1. /\ \A d \in Calls \ {c} : my'[d] = my[d] /\ pc'[d] = pc[d]
      /\ ~ Rebuilding(c)' /\ meta'.digest = my[c].digest
  BY <1>0, RebuildEndsTyped DEF IndexInv, Goes, Rebuilding
<1>2. \A z \in Calls : Rebuilding(z)' => Rebuilding(z) /\ my'[z] = my[z] /\ z # c
  BY <1>1 DEF Rebuilding
<1>3. \A o \in Users, D \in Digest : IsPrint(o, D)' => IsPrint(o, D)
  <2> SUFFICES ASSUME NEW o \in Users, NEW D \in Digest, IsPrint(o, D)'
               PROVE  IsPrint(o, D)
    OBVIOUS
  <2>1. CASE \E d \in Calls : Owner[d] = o /\ Rebuilding(d)' /\ D = my'[d].digest
    BY <1>2, <2>1 DEF IsPrint
  <2>2. CASE meta'.digest.owner = o /\ D = meta'.digest
    BY <1>0, <1>1, <2>2 DEF IsPrint, Rebuilding
  <2>3. CASE \E d \in Calls : Owner[d] = o /\ Relies(d, D)'
    BY <1>0, <1>1, <2>3, RebuildRelies DEF IsPrint, Relies
  <2> QED
    BY <2>1, <2>2, <2>3 DEF IsPrint
<1> SUFFICES ASSUME NEW o \in Users
             PROVE  WholeOrTorn(o)' /\ (\A z \in torn'[o] : Owner[z] = o)
  BY DEF WholeInv
<1>4. \A z \in torn'[o] : Owner[z] = o
  BY <1>0 DEF WholeInv
<1>5. CASE \A z \in torn[o] : z \in torn'[o]
  BY <1>0, <1>2, <1>3, <1>4, <1>5, WholeFrame, QuietGrows DEF WholeInv
<1>6. CASE o = q /\ CopiedAll(c)
  <2>1. CASE Whole(o)
    <3>1. Whole(o)'
      BY <1>0, <1>3, <2>1, CoveredKept, QuietGrows DEF Whole
    <3> QED
      BY <1>4, <3>1 DEF WholeOrTorn
  <2>2. CASE \E z \in torn[o] : Rebuilding(z) => WholeSoFar(o, z)
    <3>1. PICK z \in torn[o] : Rebuilding(z) => WholeSoFar(o, z)
      BY <2>2
    <3>2. CASE z # c
      <4>1. z \in torn'[o] /\ z \in Calls
        BY <1>0, <1>6, <3>2
      <4>2. Rebuilding(z)' => WholeSoFar(o, z)'
        <5> SUFFICES ASSUME Rebuilding(z)'
                     PROVE  WholeSoFar(o, z)'
          OBVIOUS
        <5>1. WholeSoFar(o, z) /\ my'[z] = my[z]
          BY <1>2, <3>1, <4>1
        <5> QED
          BY <1>0, <1>3, <5>1, CoveredKept, QuietGrows DEF WholeSoFar, Listed
      <4> QED
        BY <1>4, <4>1, <4>2 DEF WholeOrTorn
    <3>3. CASE z = c
      <4>1. WholeSoFar(o, c)
        BY <1>0, <3>1, <3>3 DEF Rebuilding
      <4>2. \A t \in DOMAIN Tables : t < my[c].at
        BY <1>0, TablesNumbered
      <4>3. ASSUME NEW D \in Digest, IsPrint(o, D), NEW t \in DOMAIN Tables
            PROVE  Covered(o, t, D)
        <5>1. CASE Listed(c, t)
          BY <4>1, <4>2, <4>3, <5>1 DEF WholeSoFar
        <5>2. CASE ~ Listed(c, t)
          <6>1. Tables[t].user \notin Discovered
            BY <1>6, <5>2 DEF Listed, CopiedAll
          <6>2. made[t] \in Nat /\ ~ (made[t] > 0) /\ rows[t] \subseteq 1..made[t]
            BY <6>1, IndexAssumption DEF Discovered, IndexInv, IndexType
          <6>3. rows[t] = {}
            BY <6>2
          <6> QED
            BY <6>3 DEF Covered
        <5> QED
          BY <5>1, <5>2
      <4>4. Whole(o)'
        BY <1>0, <1>3, <4>3, CoveredKept, QuietGrows DEF Whole
      <4> QED
        BY <1>4, <4>4 DEF WholeOrTorn
    <3> QED
      BY <3>2, <3>3
  <2> QED
    BY <1>6, <2>1, <2>2 DEF WholeInv, WholeOrTorn
<1> QED
  BY <1>0, <1>5, <1>6

\* Every other step leaves the cache as it is.
LEMMA RebuildWhole ==
    ASSUME IndexInv, SearchInv, WholeInv, NEW c \in Calls, RebuildStep(c)
    PROVE  WholeInv'
<1>0. my \in [Calls -> Locals] /\ pc \in [Calls -> Standing]
  BY DEF IndexInv, IndexType
<1>1. CASE TakeFingerprint(c)
  <2>1. /\ UNCHANGED <<index, meta, torn, rows, late>> /\ ~ Rebuilding(c)'
        /\ \A z \in Calls \ {c} : pc'[z] = pc[z] /\ my'[z] = my[z]
    BY <1>0, <1>1 DEF TakeFingerprint, Goes, sources, cache, Rebuilding
  <2>2. \A D : ~ Relies(c, D)'
    BY <1>0, <1>1 DEF TakeFingerprint, Goes, Relies
  <2> QED
    BY <2>1, <2>2, WholeQuiet, QuietGrows DEF Rebuilding, Relies
<1>2. CASE InsertMembers(c)
  <2>1. UNCHANGED <<index, meta, torn, rows, late>> /\ pc[c] = "members"
    BY <1>2 DEF InsertMembers, sources
  <2>2. CASE Goes(c, "copy") /\ UNCHANGED my
    <3>1. \A z \in Calls : Rebuilding(z)' => Rebuilding(z) /\ my'[z] = my[z]
      BY <1>0, <2>1, <2>2 DEF Goes, Rebuilding
    <3>2. \A z \in Calls : \A D \in Digest : Relies(z, D)' => Relies(z, D)
      BY <1>0, <2>2 DEF Goes, Relies
    <3> QED
      BY <2>1, <3>1, <3>2, WholeQuiet, QuietGrows
  <2>3. CASE RebuildEnds(c, "error")
    <3>1. \A z \in Calls : Rebuilding(z)' => Rebuilding(z) /\ my'[z] = my[z]
      BY <1>0, <2>3, RebuildEndsTyped DEF Goes, Rebuilding
    <3>2. \A z \in Calls : \A D \in Digest : Relies(z, D)' => Relies(z, D)
      BY <1>0, <2>3, RebuildEndsTyped, RebuildRelies DEF Goes, Relies
    <3> QED
      BY <2>1, <3>1, <3>2, WholeQuiet, QuietGrows
  <2> QED
    BY <1>2, <2>2, <2>3 DEF InsertMembers
<1>3. CASE RebuildFails(c)
  <2>1. UNCHANGED <<index, meta, torn, rows, late>> /\ RebuildEnds(c, "error")
    BY <1>3 DEF RebuildFails, sources, cache
  <2>2. \A z \in Calls : Rebuilding(z)' => Rebuilding(z) /\ my'[z] = my[z]
    BY <1>0, <2>1, RebuildEndsTyped DEF Goes, Rebuilding
  <2>3. \A z \in Calls : \A D \in Digest : Relies(z, D)' => Relies(z, D)
    BY <1>0, <2>1, RebuildEndsTyped, RebuildRelies DEF Goes, Relies
  <2> QED
    BY <2>1, <2>2, <2>3, WholeQuiet, QuietGrows
<1> QED
  BY <1>1, <1>2, <1>3, WholeClear, WholeCopy, WholeMeta DEF RebuildStep

\* A step of a call that is not a rebuild, and does not become one.
LEMMA BystanderWhole ==
    ASSUME IndexInv, SearchInv, WholeInv, NEW c \in Calls, UNCHANGED <<sources, cache>>,
           \A z \in Calls \ {c} : my'[z] = my[z] /\ pc'[z] = pc[z],
           ~ Rebuilding(c)', pc'[c] \notin {"compare", "lookup"}
    PROVE  WholeInv'
<1>1. \A z \in Calls : \A D \in Digest : Relies(z, D)' => Relies(z, D)
  BY DEF Relies
<1> QED
  BY <1>1, WholeQuiet, QuietGrows DEF sources, cache, Rebuilding

\* What a search reads of the metadata, and finds them to be good for, is what
\* the index has.
LEMMA CheckWhole ==
    ASSUME IndexInv, SearchInv, WholeInv, NEW c \in Calls, Check(c)
    PROVE  WholeInv'
<1>0. /\ my \in [Calls -> Locals] /\ pc \in [Calls -> Standing]
      /\ UNCHANGED <<index, meta, torn, rows, made, late>> /\ pc[c] = "check"
      /\ meta \in Meta \cup {Missing}
  BY DEF Check, sources, cache, IndexInv, IndexType
<1>1. /\ ~ Rebuilding(c)' /\ \A z \in Calls \ {c} : my'[z] = my[z] /\ pc'[z] = pc[z]
  BY <1>0 DEF Check, Goes, Rebuilding
<1>2. CASE Usable(meta) /\ meta.digest.owner = Owner[c] /\ my' = [my EXCEPT ![c].seen = meta]
           /\ Goes(c, "compare")
  <2>1. my'[c].seen = meta /\ meta # Missing /\ pc'[c] = "compare"
    BY <1>0, <1>2 DEF Usable, Locals, Goes
  <2>2. \A o \in Users : \A D \in Digest : IsPrint(o, D)' => IsPrint(o, D)
    <3> SUFFICES ASSUME NEW o \in Users, NEW D \in Digest, IsPrint(o, D)'
                 PROVE  IsPrint(o, D)
      OBVIOUS
    <3>1. CASE \E z \in Calls : Owner[z] = o /\ Rebuilding(z)' /\ D = my'[z].digest
      BY <1>1, <3>1 DEF IsPrint, Rebuilding
    <3>2. CASE meta # Missing /\ meta.digest.owner = o /\ D = meta.digest
      BY <3>2 DEF IsPrint
    <3>3. CASE \E z \in Calls \ {c} : Owner[z] = o /\ Relies(z, D)'
      BY <1>1, <3>3 DEF IsPrint, Relies
    <3>4. CASE Owner[c] = o /\ Relies(c, D)'
      BY <1>2, <2>1, <3>4 DEF IsPrint, Relies
    <3> QED
      BY <1>0, <3>1, <3>2, <3>3, <3>4 DEF IsPrint
  <2>3. \A D \in Digest : Below(D, D)
    BY IndexAssumption DEF Below, Digest, Signature
  <2> QED
    BY <1>0, <1>1, <2>2, <2>3, WholeBelow DEF Rebuilding
<1>3. CASE Goes(c, "print")
  <2>1. pc'[c] = "print"
    BY <1>0, <1>3 DEF Goes
  <2> QED
    BY <1>0, <1>1, <2>1, BystanderWhole DEF Check
<1> QED
  BY <1>2, <1>3 DEF Check

LEMMA CompareWhole ==
    ASSUME IndexInv, SearchInv, WholeInv, NEW c \in Calls, Compare(c)
    PROVE  WholeInv'
<1>0. /\ my \in [Calls -> Locals] /\ pc \in [Calls -> Standing]
      /\ UNCHANGED <<index, meta, torn, rows, made, late>> /\ pc[c] = "compare"
      /\ Owner[c] \in Users
  BY IndexAssumption DEF Compare, sources, cache, IndexInv, IndexType
<1>1. /\ ~ Rebuilding(c)' /\ \A z \in Calls \ {c} : my'[z] = my[z] /\ pc'[z] = pc[z]
  BY <1>0 DEF Compare, Goes, Rebuilding
<1>2. CASE /\ my[c].seen.digest = Fingerprint(Owner[c], {})
           /\ my' = [my EXCEPT ![c].seen = Missing, ![c].wants = AllRows]
           /\ Goes(c, "lookup")
  <2> DEFINE F == my[c].seen.digest
  <2>1. pc'[c] = "lookup" /\ my'[c].wants = AllRows
    BY <1>0, <1>2 DEF Goes, Locals
  <2>2. F \in Digest /\ F.signatures = [t \in DOMAIN Tables |-> SignatureOf(t)]
    <3>1. my[c].seen \in Meta
      BY <1>0 DEF SearchInv, Locals
    <3> QED
      BY <1>2, <3>1 DEF Fingerprint, Meta
  <2>3. IsPrint(Owner[c], F)
    BY <1>0 DEF IsPrint, Relies
  <2> HIDE DEF F
  <2>4. ASSUME NEW D \in Digest, Relies(c, D)'
        PROVE  Below(D, F)
    <3> SUFFICES ASSUME NEW t \in DOMAIN Tables
                 PROVE  D.signatures[t].latest <= F.signatures[t].latest
      BY DEF Below
    <3> DEFINE n == D.signatures[t].latest
               r == [table |-> t, row |-> n]
    <3>1. F.signatures[t] = SignatureOf(t) /\ F.signatures[t].latest \in Nat
      BY <2>2, IndexAssumption DEF Digest, Signature
    <3>2. n = 0 \/ r \in AllRows
      BY <2>1, <2>4 DEF Relies
    <3>3. r.row = n /\ r.table = t
      OBVIOUS
    <3>4. n = 0 \/ n \in rows[t]
      BY <3>2, <3>3 DEF AllRows
    <3>5. \A m \in rows[t] : m <= SignatureOf(t).latest
      BY SignatureType DEF IndexInv, IndexType
    <3> QED
      BY <3>1, <3>4, <3>5
  <2>5. \A D \in Digest : Below(D, D)
    BY IndexAssumption DEF Below, Digest, Signature
  <2>6. ASSUME NEW o \in Users, NEW D \in Digest, IsPrint(o, D)'
        PROVE  \E E \in Digest : IsPrint(o, E) /\ Below(D, E)
    <3>1. CASE \E z \in Calls : Owner[z] = o /\ Rebuilding(z)' /\ D = my'[z].digest
      BY <1>1, <2>5, <3>1 DEF IsPrint, Rebuilding
    <3>2. CASE meta # Missing /\ meta.digest.owner = o /\ D = meta.digest
      BY <2>5, <3>2 DEF IsPrint
    <3>3. CASE \E z \in Calls \ {c} : Owner[z] = o /\ Relies(z, D)'
      BY <1>1, <2>5, <3>3 DEF IsPrint, Relies
    <3>4. CASE Owner[c] = o /\ Relies(c, D)'
      BY <2>2, <2>3, <2>4, <3>4
    <3> QED
      BY <1>0, <2>6, <3>1, <3>2, <3>3, <3>4 DEF IsPrint
  <2> QED
    BY <1>0, <1>1, <2>6, WholeBelow DEF Rebuilding
<1>3. CASE Goes(c, "print")
  <2>1. pc'[c] = "print"
    BY <1>0, <1>3 DEF Goes
  <2> QED
    BY <1>0, <1>1, <2>1, BystanderWhole DEF Compare
<1> QED
  BY <1>2, <1>3 DEF Compare

LEMMA OthersWhole ==
    ASSUME IndexInv, SearchInv, WholeInv, NEW c \in Calls,
           \/ StartRebuild(c) \/ StartSearch(c) \/ StartFanout(c) \/ StartPromotion(c)
           \/ SearchStep(c) \/ PromotionStep(c) \/ Crash(c)
    PROVE  WholeInv'
<1>0. my \in [Calls -> Locals] /\ pc \in [Calls -> Standing]
  BY DEF IndexInv, IndexType
<1>1. ASSUME NEW op, NEW to \in {"print", "check", "fanout", "evaluate"}, Begins(c, op, to)
      PROVE  WholeInv'
  <2>1. /\ UNCHANGED <<sources, cache>> /\ ~ Rebuilding(c)' /\ pc'[c] = to
        /\ \A z \in Calls \ {c} : my'[z] = my[z] /\ pc'[z] = pc[z]
    BY <1>0, <1>1 DEF Begins, Goes, Rebuilding
  <2> QED
    BY <2>1, BystanderWhole
<1>2. CASE Lookup(c) \/ Fanout(c)
  <2>1. /\ UNCHANGED <<sources, cache>>
        /\ \E to \in {"print", "done", "fanout"} : Goes(c, to)
    BY <1>2 DEF Lookup, Fanout
  <2>2. \A z \in Calls \ {c} : my'[z] = my[z]
    BY <1>0, <1>2 DEF Lookup, Fanout
  <2>3. ~ Rebuilding(c)' /\ pc'[c] \notin {"compare", "lookup"} /\ \A z \in Calls \ {c} : pc'[z] = pc[z]
    BY <1>0, <2>1 DEF Goes, Rebuilding
  <2> QED
    BY <2>1, <2>2, <2>3, BystanderWhole
<1>3. CASE PromotionStep(c)
  <2>1. /\ UNCHANGED Others
        /\ pc[c] \in {"evaluate", "gate", "find", "insert", "items"}
        /\ \/ \E to \in {"gate", "find", "insert", "items"} \cup Ended : Goes(c, to)
           \/ UNCHANGED pc
    BY <1>3, PromotionMoves
  <2>2. /\ ~ Rebuilding(c)' /\ pc'[c] \notin {"compare", "lookup"}
        /\ \A z \in Calls \ {c} : pc'[z] = pc[z]
    BY <1>0, <2>1 DEF Goes, Rebuilding, Ended
  <2> QED
    BY <2>1, <2>2, BystanderWhole DEF Others
<1>4. CASE Crash(c)
  <2>1. /\ UNCHANGED <<sources, cache>> /\ ~ Rebuilding(c)' /\ pc'[c] = "crashed"
        /\ \A z \in Calls \ {c} : my'[z] = my[z] /\ pc'[z] = pc[z]
    BY <1>0, <1>4 DEF Crash, Goes, Rebuilding
  <2> QED
    BY <2>1, BystanderWhole
<1> QED
  BY <1>1, <1>2, <1>3, <1>4, CheckWhole, CompareWhole
     DEF StartRebuild, StartSearch, StartFanout, StartPromotion, SearchStep

LEMMA WholeKept ==
    ASSUME IndexInv, SearchInv, WholeInv, [Next]_vars
    PROVE  WholeInv'
<1>1. CASE UNCHANGED vars
  <2>1. UNCHANGED <<index, meta, torn, rows, late, pc, my>>
    BY <1>1 DEF vars, sources, cache
  <2> QED
    BY <2>1, WholeQuiet, QuietGrows DEF Rebuilding, Relies
<1>2. CASE Write
  <2>1. /\ UNCHANGED <<cache, pc, my>>
        /\ \A t \in DOMAIN Tables : Grows(t)
    BY <1>2, WriteTyped
  <2>2. UNCHANGED <<index, meta, torn>>
    BY <2>1 DEF cache
  <2>3. \A z \in Calls : Rebuilding(z)' => Rebuilding(z) /\ my'[z] = my[z]
    BY <2>1 DEF Rebuilding
  <2>4. \A z \in Calls : \A D \in Digest : Relies(z, D)' => Relies(z, D)
    BY <2>1 DEF Relies
  <2> QED
    BY <2>1, <2>2, <2>3, <2>4, WholeQuiet, QuietGrows
<1> QED
  BY <1>1, <1>2, RebuildWhole, OthersWhole DEF Next, IndexAction

LEMMA InitWhole == Init => WholeInv
<1> SUFFICES ASSUME NEW i \in IndexedFor, IndexInit(i), IndexInv
             PROVE  WholeInv
  BY InitTyped DEF Init
<1> SUFFICES ASSUME NEW o \in Users
             PROVE  (\A z \in torn[o] : Owner[z] = o) /\ Whole(o)
  BY DEF WholeInv, WholeOrTorn
<1>1. torn[o] = {} /\ \A c \in Calls : ~ Rebuilding(c) /\ \A D : ~ Relies(c, D)
  BY DEF IndexInit, Rebuilding, Relies
<1>2. ASSUME NEW D, IsPrint(o, D), NEW t \in DOMAIN Tables, NEW n \in rows[t]
      PROVE  Held(o, t, n)
  <2> DEFINE first == IF i = Missing THEN {} ELSE {1}
             copies == [row : [table : DOMAIN Tables, row : first], by : {"before"}]
             h == [row |-> [table |-> t, row |-> n], by |-> "before"]
  <2>1. i # Missing /\ n \in first
    BY <1>1, <1>2 DEF IndexInit, IsPrint
  <2>2. meta.digest.owner = i
    BY <2>1 DEF IndexInit
  <2>3. i = o
    BY <1>1, <1>2, <2>2 DEF IsPrint
  <2>4. h \in copies
    BY <2>1
  <2>5. index = [[u \in Users |-> {}] EXCEPT ![i] = copies]
    BY <2>1 DEF IndexInit
  <2>6. h \in index[o]
    <3> HIDE DEF copies
    <3> QED
      BY <2>3, <2>4, <2>5
  <2> QED
    BY <2>6 DEF Held
<1> QED
  BY <1>1, <1>2 DEF Whole, Covered

\* What a step of a call that is no search does to the call.
LEMMA NoSearchMoves ==
    ASSUME IndexInv, NEW c \in Calls,
           \/ StartRebuild(c) \/ StartSearch(c) \/ StartFanout(c) \/ StartPromotion(c)
           \/ RebuildStep(c) \/ PromotionStep(c) \/ Crash(c)
    PROVE  /\ UNCHANGED sources
           /\ \A d \in Calls \ {c} : pc'[d] = pc[d] /\ my'[d] = my[d]
           /\ pc'[c] \notin {"idle", "compare"} /\ (pc'[c] = "lookup" => my'[c].rebuilt)
           /\ my'[c].wants \in {my[c].wants, {}}
           /\ pc'[c] \in Promoting \cup {"done"} => my'[c].wants = {} \/ pc[c] \in Promoting
<1>0. my \in [Calls -> Locals] /\ pc \in [Calls -> Standing]
  BY DEF IndexInv, IndexType
<1>1. ASSUME NEW op, NEW to \in {"print", "check", "fanout", "evaluate"}, Begins(c, op, to)
      PROVE  /\ UNCHANGED sources
             /\ \A d \in Calls \ {c} : pc'[d] = pc[d] /\ my'[d] = my[d]
             /\ pc'[c] = to /\ my'[c].wants = my[c].wants /\ pc[c] = "idle"
  BY <1>0, <1>1 DEF Begins, Goes, Locals
<1>2. CASE StartRebuild(c) \/ StartSearch(c) \/ StartFanout(c) \/ StartPromotion(c)
  BY <1>1, <1>2 DEF StartRebuild, StartSearch, StartFanout, StartPromotion, Promoting
<1>3. ASSUME NEW status, RebuildEnds(c, status)
      PROVE  /\ \A d \in Calls \ {c} : pc'[d] = pc[d] /\ my'[d] = my[d]
             /\ pc'[c] \in {"done", "fanout", "lookup"}
             /\ pc'[c] = "lookup" => my'[c].rebuilt
             /\ pc'[c] = "done" => my'[c].wants = {}
             /\ my'[c].wants \in {my[c].wants, {}}
  <2>1. CASE my[c].op = "rebuild"
    <3>1. pc'[c] = "done" /\ my'[c] = Blank
      BY <1>0, <1>3, <2>1 DEF RebuildEnds, Goes
    <3> QED
      BY <1>0, <1>3, <3>1, RebuildEndsTyped DEF Goes, Blank
  <2>2. CASE my[c].op # "rebuild"
    <3>1. pc'[c] \in {"lookup", "fanout"}
      BY <1>0, <1>3, <2>2 DEF RebuildEnds, Goes
    <3>2. my'[c].rebuilt /\ my'[c].wants = my[c].wants
      BY <1>0, <1>3, <2>2 DEF RebuildEnds, Locals
    <3> QED
      BY <1>0, <1>3, <3>1, <3>2, RebuildEndsTyped DEF Goes
  <2> QED
    BY <2>1, <2>2
<1>4. CASE RebuildStep(c)
  <2>1. CASE \E status : RebuildEnds(c, status)
    <3>1. UNCHANGED sources
      BY <1>4 DEF RebuildStep, TakeFingerprint, Clear, InsertMembers, CopyTable, WriteMeta, RebuildFails
    <3> QED
      BY <1>3, <2>1, <3>1 DEF Promoting
  <2>2. CASE TakeFingerprint(c)
    BY <1>0, <2>2 DEF TakeFingerprint, Goes, Locals, Promoting
  <2>3. CASE Clear(c)
    BY <1>0, <2>3 DEF Clear, Goes, Promoting
  <2>4. CASE InsertMembers(c) /\ Goes(c, "copy") /\ UNCHANGED my
    BY <1>0, <2>4 DEF InsertMembers, Goes, Promoting
  <2>5. CASE CopyTable(c)
    BY <1>0, <2>5 DEF CopyTable, Locals, Promoting
  <2> QED
    BY <1>4, <2>1, <2>2, <2>3, <2>4, <2>5
       DEF RebuildStep, InsertMembers, WriteMeta, RebuildFails
<1>5. CASE PromotionStep(c)
  <2>1. /\ UNCHANGED Others
        /\ pc[c] \in {"evaluate", "gate", "find", "insert", "items"}
        /\ \/ \E to \in {"gate", "find", "insert", "items"} \cup Ended : Goes(c, to)
           \/ UNCHANGED pc
    BY <1>5, PromotionMoves
  <2> QED
    BY <1>0, <2>1 DEF Others, Goes, Ended, Promoting
<1>6. CASE Crash(c)
  BY <1>0, <1>6 DEF Crash, Goes, Blank, Promoting
<1> QED
  BY <1>2, <1>4, <1>5, <1>6

LEMMA SearchKept ==
    ASSUME IndexInv, SearchInv, [Next]_vars
    PROVE  SearchInv'
<1>0. /\ my \in [Calls -> Locals] /\ pc \in [Calls -> Standing]
      /\ \A t \in DOMAIN Tables : rows[t] \subseteq 1..made[t]
      /\ made \in [DOMAIN Tables -> 0..MaxRows] /\ MaxRows \in Nat
      /\ meta # Missing => Past(meta.digest)
  BY IndexAssumption DEF IndexInv, IndexType
<1>1. CASE UNCHANGED <<made, pc, my>>
  BY <1>1 DEF SearchInv, Past
<1>2. CASE Write
  <2>1. /\ UNCHANGED <<pc, my>> /\ made' \in [DOMAIN Tables -> 0..MaxRows]
        /\ \A t \in DOMAIN Tables : made[t] <= made'[t]
    <3>1. PICK t \in DOMAIN Tables : SourceInsert(t) \/ SourceDelete(t)
      BY <1>2 DEF Write
    <3>2. made' = made \/ \E n \in Nat : n > made[t] /\ made' = [made EXCEPT ![t] = n]
      BY <1>0, <3>1, TableFields DEF SourceInsert, SourceDelete
    <3>3. IndexType' /\ UNCHANGED <<pc, my>>
      BY <1>2, WriteTyped DEF IndexInv
    <3> QED
      BY <1>0, <3>2, <3>3 DEF IndexType
  <2>2. \A D \in Digest : Past(D) => Past(D)'
    BY <1>0, <2>1 DEF Past, Digest, Signature
  <2>3. ASSUME NEW z \in Calls, NEW r \in my[z].wants
        PROVE  r.row <= made'[r.table]
    <3>1. r \in Row
      BY <1>0 DEF Locals
    <3>2. r.table \in DOMAIN Tables /\ r.row \in Nat /\ r.row <= made[r.table]
      BY <1>0, <3>1 DEF Row, SearchInv
    <3> QED
      BY <1>0, <2>1, <3>2
  <2>4. ASSUME NEW z \in Calls, pc[z] = "compare"
        PROVE  my[z].seen # Missing /\ Past(my[z].seen.digest)'
    <3>1. my[z].seen \in Meta /\ Past(my[z].seen.digest)
      BY <1>0, <2>4 DEF SearchInv, Locals
    <3>2. my[z].seen.digest \in Digest
      BY <3>1 DEF Meta
    <3>3. PICK D \in Digest : D = my[z].seen.digest
      BY <3>2
    <3> QED
      BY <2>1, <2>2, <2>4, <3>1, <3>3 DEF SearchInv, Past
  <2> QED
    BY <2>1, <2>3, <2>4 DEF SearchInv
<1>3. ASSUME NEW c \in Calls, UNCHANGED sources,
             \A d \in Calls \ {c} : pc'[d] = pc[d] /\ my'[d] = my[d],
             pc'[c] = "compare" => my'[c].seen # Missing /\ Past(my'[c].seen.digest),
             pc'[c] \in Promoting => my'[c].wants = {},
             \A r \in my'[c].wants : r.row <= made[r.table]
      PROVE  SearchInv'
  BY <1>3 DEF SearchInv, Past, sources
<1>4. ASSUME NEW c \in Calls,
             \/ StartRebuild(c) \/ StartSearch(c) \/ StartFanout(c) \/ StartPromotion(c)
             \/ RebuildStep(c) \/ PromotionStep(c) \/ Crash(c)
      PROVE  SearchInv'
  <2>1. /\ UNCHANGED sources
        /\ \A d \in Calls \ {c} : pc'[d] = pc[d] /\ my'[d] = my[d]
        /\ pc'[c] # "compare" /\ my'[c].wants \in {my[c].wants, {}}
        /\ pc'[c] \in Promoting => my'[c].wants = {} \/ pc[c] \in Promoting
    BY <1>4, NoSearchMoves
  <2> QED
    BY <1>3, <2>1 DEF SearchInv
<1>5. ASSUME NEW c \in Calls, SearchStep(c) PROVE SearchInv'
  <2>1. /\ UNCHANGED sources
        /\ \A d \in Calls \ {c} : pc'[d] = pc[d] /\ my'[d] = my[d]
    BY <1>0, <1>5 DEF SearchStep, Check, Compare, Lookup, Fanout, Goes
  <2>2. pc'[c] \notin Promoting
    BY <1>0, <1>5 DEF SearchStep, Check, Compare, Lookup, Fanout, Goes, Promoting
  <2>3. pc'[c] = "compare" => my'[c].seen # Missing /\ Past(my'[c].seen.digest)
    <3>1. CASE Check(c)
      BY <1>0, <3>1 DEF Check, Usable, Goes, Locals
    <3>2. CASE Compare(c) \/ Lookup(c) \/ Fanout(c)
      BY <1>0, <3>2 DEF Compare, Lookup, Fanout, Goes
    <3> QED
      BY <1>5, <3>1, <3>2 DEF SearchStep
  <2>4. my'[c].wants \in {my[c].wants, {}, AllRows}
    BY <1>0, <1>5 DEF SearchStep, Check, Compare, Lookup, Fanout, Locals
  <2>5. \A r \in AllRows : r.row <= made[r.table]
    BY <1>0 DEF AllRows, Row
  <2>6. \A r \in my'[c].wants : r.row <= made[r.table]
    BY <2>4, <2>5 DEF SearchInv
  <2> QED
    BY <1>3, <2>1, <2>2, <2>3, <2>6
<1> QED
  BY <1>1, <1>2, <1>4, <1>5 DEF Next, IndexAction, vars, sources

LEMMA InitSearch == Init => SearchInv
BY DEF Init, IndexInit, SearchInv, Blank

LEMMA WholeAlways == Spec => [](IndexInv /\ SearchInv /\ WholeInv)
<1>1. Init => IndexInv /\ SearchInv /\ WholeInv
  BY InitTyped, InitSearch, InitWhole
<1>2. IndexInv /\ SearchInv /\ WholeInv /\ [Next]_vars => IndexInv' /\ SearchInv' /\ WholeInv'
  BY IndexTyped, SearchKept, WholeKept
<1> QED
  BY <1>1, <1>2, PTL DEF Spec

\* When metadata ready for the present sources are there and no rebuild is torn,
\* every row of the sources is in the index that was not written late, with a
\* timestamp its table had or had passed (computeProjectIndexSourceFingerprint
\* counts the rows and takes the largest timestamp).
THEOREM IndexStaysWhole == Spec => []IndexWhole
<1>1. ASSUME IndexInv, WholeInv
      PROVE  IndexWhole
  <2> SUFFICES ASSUME NEW o \in Users, meta # Missing, torn[o] = {},
                      meta.digest = Fingerprint(o, {}),
                      NEW r \in TimelyRows
               PROVE  \E h \in index[o] : h.row = r
    BY DEF IndexWhole
  <2> DEFINE D == meta.digest
             t == r.table
             n == r.row
  <2>1. Whole(o)
    BY <1>1 DEF WholeInv, WholeOrTorn
  <2>2. D.owner = o /\ D.signatures = [s \in DOMAIN Tables |-> SignatureOf(s)]
    BY DEF Fingerprint
  <2>3. t \in DOMAIN Tables /\ n \in rows[t] \ late[t] /\ r = [table |-> t, row |-> n]
    BY DEF TimelyRows, AllRows, Row
  <2>4. D \in Digest /\ IsPrint(o, D)
    BY <1>1, <2>2 DEF IsPrint, IndexInv, IndexType, Meta
  <2>5. n <= SignatureOf(t).latest
    BY <1>1, <2>3, SignatureType DEF IndexInv, IndexType
  <2>6. n <= D.signatures[t].latest
    BY <2>2, <2>3, <2>5
  <2> HIDE DEF D
  <2>7. Held(o, t, n)
    BY <2>1, <2>3, <2>4, <2>6 DEF Whole, Covered
  <2> QED
    BY <2>3, <2>7 DEF Held
<1>2. Spec => [](IndexInv /\ SearchInv /\ WholeInv)
  BY WholeAlways
<1> QED
  BY <1>1, <1>2, PTL

-----------------------------------------------------------------------------
(* What a search that relies on the index finds.                           *)

\* Whenever a search that found the index usable is about to read it, no
\* rebuild has cleared its owner's rows without copying them all again.
LooksUpWhole ==
    \A c \in Calls : pc[c] = "lookup" /\ ~ my[c].rebuilt => torn[Owner[c]] = {}

\* An index that is not torn has all that a search wants and is still there.
LEMMA LookupFinds ==
    ASSUME IndexInv, WholeInv, NEW c \in Calls, pc[c] = "lookup", ~ my[c].rebuilt,
           torn[Owner[c]] = {}
    PROVE  my[c].wants \cap TimelyRows \subseteq {h.row : h \in index[Owner[c]]}
<1> DEFINE o == Owner[c]
<1>1. o \in Users /\ Whole(o)
  BY IndexAssumption DEF WholeInv, WholeOrTorn
<1>2. SUFFICES ASSUME NEW r \in my[c].wants, r \in TimelyRows
               PROVE  \E h \in index[o] : h.row = r
  OBVIOUS
<1> DEFINE S == [t \in DOMAIN Tables |->
                    IF t = r.table THEN [count |-> 0, latest |-> r.row]
                    ELSE [count |-> 0, latest |-> 0]]
           D == [owner |-> o, from |-> {}, errors |-> {}, signatures |-> S]
<1>3. /\ r.table \in DOMAIN Tables /\ r.row \in rows[r.table] \ late[r.table] /\ r.row \in 1..MaxRows
      /\ r = [table |-> r.table, row |-> r.row] /\ MaxRows \in Nat
  BY <1>2, IndexAssumption DEF TimelyRows, AllRows, Row
<1>4. S \in [DOMAIN Tables -> Signature]
  BY <1>3 DEF Signature
<1>5. D \in Digest /\ D.signatures = S
  <2> HIDE DEF S
  <2> QED
    BY <1>1, <1>4 DEF Digest
<1>6. S[r.table].latest = r.row
  BY <1>3
<1>7. \A t \in DOMAIN Tables : S[t].latest = 0 \/ [table |-> t, row |-> S[t].latest] \in my[c].wants
  <2> SUFFICES ASSUME NEW t \in DOMAIN Tables, S[t].latest # 0
               PROVE  [table |-> t, row |-> S[t].latest] \in my[c].wants
    OBVIOUS
  <2>1. t = r.table
    OBVIOUS
  <2> QED
    BY <1>2, <1>3, <1>6, <2>1
<1> HIDE DEF S, D
<1>8. IsPrint(o, D)
  BY <1>5, <1>7 DEF IsPrint, Relies
<1>9. Covered(o, r.table, D)
  BY <1>1, <1>3, <1>5, <1>8 DEF Whole
<1>10. r.row <= D.signatures[r.table].latest
  BY <1>3, <1>5, <1>6
<1>11. Held(o, r.table, r.row)
  BY <1>3, <1>9, <1>10 DEF Covered
<1> QED
  BY <1>3, <1>11 DEF Held

LEMMA GapStep ==
    ASSUME IndexInv, SearchInv, WholeInv, LooksUpWhole, NoSilentGap, [Next]_vars
    PROVE  NoSilentGap'
<1>0. my \in [Calls -> Locals] /\ pc \in [Calls -> Standing]
  BY DEF IndexInv, IndexType
<1>1. SUFFICES ASSUME NEW z \in Calls, pc'[z] = "done", ~ my'[z].rebuilt
               PROVE  my'[z].wants \cap TimelyRows' \subseteq my'[z].found
  BY DEF NoSilentGap
<1>2. CASE pc'[z] = pc[z] /\ my'[z] = my[z] /\ TimelyRows' = TimelyRows
  BY <1>1, <1>2 DEF NoSilentGap
<1>3. CASE Write
  <2>1. /\ UNCHANGED <<pc, my>>
        /\ \A t \in DOMAIN Tables : Grows(t)
    BY <1>3, WriteTyped
  <2>2. ASSUME NEW r \in my[z].wants, r \in TimelyRows'
        PROVE  r \in TimelyRows
    <3>1. /\ r \in Row /\ r.table \in DOMAIN Tables /\ r.row \in Nat
          /\ r.row \in rows'[r.table] \ late'[r.table]
      BY <2>2 DEF TimelyRows, AllRows, Row
    <3>2. r.row <= made[r.table] /\ made[r.table] \in Nat
      BY <2>2, <3>1, IndexAssumption DEF SearchInv, IndexInv, IndexType
    <3> QED
      BY <2>1, <3>1, <3>2 DEF TimelyRows, AllRows, Grows
  <2> QED
    BY <1>1, <2>1, <2>2 DEF NoSilentGap
<1>4. ASSUME NEW c \in Calls,
             \/ StartRebuild(c) \/ StartSearch(c) \/ StartFanout(c) \/ StartPromotion(c)
             \/ RebuildStep(c) \/ PromotionStep(c) \/ Crash(c)
      PROVE  my'[z].wants \cap TimelyRows' \subseteq my'[z].found
  <2>1. /\ UNCHANGED sources
        /\ \A d \in Calls \ {c} : pc'[d] = pc[d] /\ my'[d] = my[d]
        /\ my'[c].wants \in {my[c].wants, {}}
        /\ pc'[c] \in Promoting \cup {"done"} => my'[c].wants = {} \/ pc[c] \in Promoting
    BY <1>4, NoSearchMoves
  <2>2. CASE z = c
    BY <1>1, <2>1, <2>2 DEF SearchInv
  <2>3. CASE z # c
    BY <1>2, <2>1, <2>3 DEF sources, TimelyRows, AllRows
  <2> QED
    BY <2>2, <2>3
<1>5. ASSUME NEW c \in Calls, SearchStep(c)
      PROVE  my'[z].wants \cap TimelyRows' \subseteq my'[z].found
  <2>1. /\ UNCHANGED sources
        /\ \A d \in Calls \ {c} : pc'[d] = pc[d] /\ my'[d] = my[d]
    BY <1>0, <1>5 DEF SearchStep, Check, Compare, Lookup, Fanout, Goes
  <2>2. CASE z # c
    BY <1>2, <2>1, <2>2 DEF sources, TimelyRows, AllRows
  <2>3. CASE z = c /\ Fanout(c)
    BY <1>0, <2>3 DEF Fanout, Locals
  <2>4. CASE z = c /\ (Check(c) \/ Compare(c))
    BY <1>0, <1>1, <2>4 DEF Check, Compare, Goes
  <2>5. CASE z = c /\ Lookup(c)
    <3> DEFINE hits == {h.row : h \in index[Owner[c]]}
    <3>1. pc[c] = "lookup" /\ my' = [my EXCEPT ![c].found = hits]
      BY <1>0, <1>1, <2>5 DEF Lookup, Goes
    <3> HIDE DEF hits
    <3>2. my'[c].found = hits /\ my'[c].wants = my[c].wants /\ my'[c].rebuilt = my[c].rebuilt
      BY <1>0, <3>1 DEF Locals
    <3>3. torn[Owner[c]] = {}
      BY <1>1, <2>5, <3>1, <3>2 DEF LooksUpWhole
    <3>4. my[c].wants \cap TimelyRows \subseteq hits
      BY <1>1, <2>5, <3>1, <3>2, <3>3, LookupFinds DEF hits
    <3>5. TimelyRows' = TimelyRows
      BY <2>1 DEF sources, TimelyRows, AllRows
    <3> QED
      BY <2>5, <3>2, <3>4, <3>5
  <2> QED
    BY <1>5, <2>2, <2>3, <2>4, <2>5 DEF SearchStep
<1>6. CASE UNCHANGED vars
  BY <1>2, <1>6 DEF vars, sources, TimelyRows, AllRows
<1> QED
  BY <1>3, <1>4, <1>5, <1>6 DEF Next, IndexAction

\* A search that found the index usable misses no row but late ones, whatever is written or
\* promoted and whoever rebuilds meanwhile, as long as no rebuild is torn when
\* it reads the index: a rebuild between the await of the readiness check and
\* the query is the only way to a silent gap (evaluateIndexReadiness,
\* searchProjectIndex).
THEOREM OnlyATornIndexHidesRows == Spec /\ []LooksUpWhole => []NoSilentGap
<1>1. Init => NoSilentGap
  BY DEF Init, IndexInit, NoSilentGap
<1>2. IndexInv /\ SearchInv /\ WholeInv /\ LooksUpWhole /\ NoSilentGap /\ [Next]_vars => NoSilentGap'
  BY GapStep
<1>3. Spec => [](IndexInv /\ SearchInv /\ WholeInv)
  BY WholeAlways
<1> QED
  BY <1>1, <1>2, <1>3, PTL DEF Spec

-----------------------------------------------------------------------------
(* What a run knows of itself.  Until it is recorded its rows are those it *)
(* has added, among the candidates the model kept, and no more of them     *)
(* were tried than the policy admits; then there is an item for each       *)
(* content it added or refused, and for no other.                          *)

Own(c) == {x \in Contents : promoted[x] = c}
ItemsOf(c) == {i \in items : i.run = c}
Refused(c) == job[c].drafts \ job[c].accepted
Tried(c) == IF Cardinality(job[c].accepted) < MaxAccepted
            THEN Cardinality(job[c].accepted) ELSE MaxAccepted
InHand(c) == job[c].added \cup job[c].queue \cup job[c].next

Candidacy(c) ==
    /\ job[c].accepted \subseteq job[c].drafts
    /\ pc[c] \notin {"items"} \cup Ended => runs[c] = Missing /\ ItemsOf(c) = {}
    /\ pc[c] \notin {"find", "insert", "items"} \cup Ended =>
         Own(c) = {} /\ InHand(c) = {}
    /\ pc[c] \in {"find", "insert"} =>
         /\ job[c].added = Own(c)
         /\ InHand(c) \subseteq job[c].accepted
         /\ Cardinality(InHand(c)) <= Tried(c)

Itemizing(c) ==
    pc[c] = "items" =>
         /\ job[c].added = Own(c) /\ job[c].added \subseteq job[c].accepted
         /\ runs[c].rejected = Cardinality(Refused(c))
         /\ \A i \in ItemsOf(c) : /\ i.content \in job[c].added \cup Refused(c)
                                  /\ i.accepted = (i.content \in job[c].added)

Accounted(c) ==
    /\ pc[c] \in {"items"} \cup Ended /\ runs[c] # Missing =>
         /\ runs[c].accepted = Cardinality(Own(c))
         /\ \A i \in ItemsOf(c) : i.accepted => i.content \in Own(c)
    /\ pc[c] = "done" /\ runs[c] # Missing =>
         Cardinality(ItemsOf(c)) = runs[c].accepted + runs[c].rejected

Recording(c) == Candidacy(c) /\ Itemizing(c) /\ Accounted(c)

RunInv == PromotionType /\ \A c \in Calls : Recording(c)

LEMMA ContentsFinite ==
    ASSUME NEW S \in SUBSET Contents
    PROVE  IsFiniteSet(S) /\ Cardinality(S) \in Nat
BY PromotionAssumption, FS_Subset, FS_CardinalityType

\* A run reads and writes nothing of another one.
LEMMA RecordingFrame ==
    ASSUME RunInv, NEW d \in Calls,
           job'[d] = job[d], pc'[d] = pc[d], runs'[d] = runs[d],
           Own(d)' = Own(d), ItemsOf(d)' = ItemsOf(d)
    PROVE  Recording(d)'
<1>1. Candidacy(d) /\ Itemizing(d) /\ Accounted(d)
  BY DEF RunInv, Recording
<1>2. Refused(d)' = Refused(d) /\ Tried(d)' = Tried(d) /\ InHand(d)' = InHand(d)
  BY DEF Refused, Tried, InHand
<1>3. Candidacy(d)'
  BY <1>1, <1>2 DEF Candidacy
<1>4. Itemizing(d)'
  BY <1>1, <1>2 DEF Itemizing
<1>5. Accounted(d)'
  BY <1>1 DEF Accounted
<1> QED
  BY <1>3, <1>4, <1>5 DEF Recording

\* The steps of a call while it has no candidates, and the end of one.
LEMMA RecordingEarly ==
    ASSUME RunInv, NEW c \in Calls, UNCHANGED <<global, job>>,
           pc[c] \notin {"evaluate", "gate", "find", "insert", "items"} \cup Ended,
           pc'[c] \notin {"gate", "find", "insert", "items"}
    PROVE  Recording(c)'
BY DEF RunInv, Recording, Candidacy, Itemizing, Accounted, Refused, InHand, Own, ItemsOf,
       global

\* A call that ends leaves the record as it is; it drops its candidates.
LEMMA RecordingEnds ==
    ASSUME RunInv, NEW c \in Calls, UNCHANGED global,
           pc[c] \notin Ended, pc'[c] \in {"failed", "crashed"} \/ (pc'[c] = "done" /\ runs[c] = Missing),
           job'[c] = NoJob
    PROVE  Recording(c)'
<1>1. Candidacy(c) /\ Itemizing(c) /\ Accounted(c)
  BY DEF RunInv, Recording
<1>2. Own(c)' = Own(c) /\ ItemsOf(c)' = ItemsOf(c) /\ runs' = runs
  BY DEF Own, ItemsOf, global
<1>3. Candidacy(c)'
  BY DEF Candidacy, Ended, NoJob
<1>4. Itemizing(c)'
  BY DEF Itemizing, Ended
<1>5. Accounted(c)'
  BY <1>1, <1>2 DEF Accounted, Candidacy, Ended
<1> QED
  BY <1>3, <1>4, <1>5 DEF Recording

LEMMA NoJobType == NoJob \in Job
BY DEF NoJob, Job, Scores

LEMMA JobFields ==
    ASSUME RunInv, NEW c \in Calls
    PROVE  /\ job[c] = [drafts |-> job[c].drafts, score |-> job[c].score,
                        accepted |-> job[c].accepted, queue |-> job[c].queue, next |-> job[c].next,
                        added |-> job[c].added]
           /\ job[c].score \in Scores
           /\ job[c].drafts \in SUBSET Contents /\ job[c].accepted \in SUBSET Contents
           /\ job[c].queue \in SUBSET Contents /\ job[c].next \in SUBSET Contents
           /\ job[c].added \in SUBSET Contents
           /\ job \in [Calls -> Job]
BY DEF RunInv, PromotionType, Job

\* One call's step: the others stay, and it does what it must.
LEMMA RunStep ==
    ASSUME RunInv, IndexInv, NEW c \in Calls,
           NEW j \in Job, job' = [job EXCEPT ![c] = j],
           (\E to \in Standing : Goes(c, to)) \/ UNCHANGED pc,
           promoted' \in [Contents -> Calls \cup {"before", None}],
           runs' \in [Calls -> Report \cup {Missing}],
           items' \subseteq [run : Calls, content : Contents, accepted : BOOLEAN],
           \A d \in Calls \ {c} : /\ runs'[d] = runs[d]
                                  /\ Own(d)' = Own(d) /\ ItemsOf(d)' = ItemsOf(d),
           Recording(c)'
    PROVE  RunInv'
<1>1. job' \in [Calls -> Job] /\ \A d \in Calls \ {c} : job'[d] = job[d]
  BY JobFields
<1>2. \A d \in Calls \ {c} : pc'[d] = pc[d]
  BY DEF IndexInv, Goes
<1>3. \A d \in Calls \ {c} : Recording(d)'
  BY <1>1, <1>2, RecordingFrame
<1> QED
  BY <1>1, <1>3 DEF RunInv, PromotionType

\* The same for a step that leaves the global database alone.
LEMMA RunStepLocal ==
    ASSUME RunInv, IndexInv, NEW c \in Calls, UNCHANGED global,
           NEW j \in Job, job' = [job EXCEPT ![c] = j],
           (\E to \in Standing : Goes(c, to)) \/ UNCHANGED pc,
           Recording(c)'
    PROVE  RunInv'
<1>1. \A d \in Calls : Own(d)' = Own(d) /\ ItemsOf(d)' = ItemsOf(d)
  BY DEF global, Own, ItemsOf
<1> QED
  BY <1>1, RunStep DEF RunInv, PromotionType, global

LEMMA EvaluateRecords ==
    ASSUME RunInv, IndexInv, NEW c \in Calls, Evaluate(c)
    PROVE  RunInv'
<1>0. pc[c] = "evaluate" /\ UNCHANGED global /\ pc \in [Calls -> Standing]
      /\ runs[c] = Missing /\ ItemsOf(c) = {} /\ Own(c) = {} /\ InHand(c) = {}
  BY DEF Evaluate, RunInv, Recording, Candidacy, IndexInv, Ended
<1>1. CASE PromotionEnds(c, "done")
  <2>1. job' = [job EXCEPT ![c] = NoJob] /\ Goes(c, "done")
    BY <1>1 DEF PromotionEnds
  <2>2. job'[c] = NoJob /\ pc'[c] = "done"
    BY <1>0, <2>1, JobFields DEF Goes
  <2>3. Recording(c)'
    BY <1>0, <2>2, RecordingEnds DEF Ended
  <2> QED
    BY <1>0, <2>1, <2>3, NoJobType, RunStepLocal DEF Standing, Ended
<1>2. CASE ~ PromotionEnds(c, "done")
  <2> DEFINE o == meta.digest.owner
             scores == [x \in Contents |-> Score(x, o)]
             kept == {x \in Drafts(o) : Eligible(x, o)}
  <2>1. /\ job' = [job EXCEPT ![c].drafts = Drafts(o), ![c].score = scores, ![c].accepted = kept]
        /\ Goes(c, "gate")
    BY <1>2 DEF Evaluate
  <2>2. Drafts(o) \subseteq Contents /\ kept \subseteq Drafts(o) /\ scores \in Scores
    BY PromotionAssumption DEF Drafts, Score, Scores
  <2> HIDE DEF o, kept, scores
  <2>4. PICK j \in Job :
          /\ j = [[[job[c] EXCEPT !.drafts = Drafts(o)] EXCEPT !.score = scores]
                     EXCEPT !.accepted = kept]
          /\ j.drafts = Drafts(o) /\ j.accepted = kept
          /\ j.queue = job[c].queue /\ j.next = job[c].next /\ j.added = job[c].added
    <3> DEFINE l == [job[c] EXCEPT !.drafts = Drafts(o)]
               k == [l EXCEPT !.score = scores]
               j == [k EXCEPT !.accepted = kept]
    <3>1. /\ l \in Job /\ l.drafts = Drafts(o) /\ l.queue = job[c].queue
          /\ l.next = job[c].next /\ l.added = job[c].added
      BY <2>2, JobFields DEF Job
    <3>2. /\ k \in Job /\ k.drafts = l.drafts /\ k.queue = l.queue
          /\ k.next = l.next /\ k.added = l.added
      <4> HIDE DEF l
      <4> QED
        BY <2>2, <3>1 DEF Job
    <3>3. /\ j \in Job /\ j.drafts = k.drafts /\ j.accepted = kept /\ j.queue = k.queue
          /\ j.next = k.next /\ j.added = k.added
      <4> HIDE DEF k
      <4> QED
        BY <2>2, <3>2 DEF Job
    <3>4. j = [[[job[c] EXCEPT !.drafts = Drafts(o)] EXCEPT !.score = scores]
                  EXCEPT !.accepted = kept]
      OBVIOUS
    <3> HIDE DEF l, k, j
    <3> QED
      BY <3>1, <3>2, <3>3, <3>4
  <2>3. job' = [job EXCEPT ![c] = j]
    BY <2>1, <2>4
  <2>5. job'[c] = j /\ pc'[c] = "gate"
    BY <1>0, <2>1, <2>3, JobFields DEF Goes
  <2>6. Recording(c)'
    BY <1>0, <2>2, <2>4, <2>5 DEF Recording, Candidacy, Itemizing, Accounted, InHand, Own,
                            ItemsOf, Ended, global
  <2> QED
    BY <1>0, <2>1, <2>3, <2>4, <2>6, RunStepLocal DEF Standing
<1> QED
  BY <1>1, <1>2

LEMMA GateRecords ==
    ASSUME RunInv, IndexInv, NEW c \in Calls, Gate(c)
    PROVE  RunInv'
<1>0. pc[c] = "gate" /\ UNCHANGED global /\ pc \in [Calls -> Standing]
      /\ runs[c] = Missing /\ ItemsOf(c) = {} /\ Own(c) = {} /\ InHand(c) = {}
      /\ job[c].accepted \subseteq job[c].drafts
  BY DEF Gate, RunInv, Recording, Candidacy, IndexInv, Ended
<1>1. PICK passed \in SUBSET job[c].accepted :
        \E best \in SUBSET passed :
          /\ Cardinality(best) = IF Cardinality(passed) < MaxAccepted
                                 THEN Cardinality(passed) ELSE MaxAccepted
          /\ IF my[c].op = "dry-run" THEN PromotionEnds(c, "done")
             ELSE /\ job' = [job EXCEPT ![c].accepted = passed, ![c].queue = best]
                  /\ Goes(c, "find")
  BY DEF Gate, ModelKeeps
<1>2. CASE PromotionEnds(c, "done")
  <2>1. job' = [job EXCEPT ![c] = NoJob] /\ Goes(c, "done")
    BY <1>2 DEF PromotionEnds
  <2>2. job'[c] = NoJob /\ pc'[c] = "done"
    BY <1>0, <2>1, JobFields DEF Goes
  <2>3. Recording(c)'
    BY <1>0, <2>2, RecordingEnds DEF Ended
  <2> QED
    BY <1>0, <2>1, <2>3, NoJobType, RunStepLocal DEF Standing, Ended
<1>3. CASE ~ PromotionEnds(c, "done")
  <2>1. PICK best \in SUBSET passed :
          /\ Cardinality(best) = IF Cardinality(passed) < MaxAccepted
                                 THEN Cardinality(passed) ELSE MaxAccepted
          /\ job' = [job EXCEPT ![c].accepted = passed, ![c].queue = best]
          /\ Goes(c, "find")
    BY <1>1, <1>3
  <2>3. PICK j \in Job :
          /\ j = [[job[c] EXCEPT !.accepted = passed] EXCEPT !.queue = best]
          /\ j.accepted = passed /\ j.queue = best
          /\ j.drafts = job[c].drafts /\ j.next = job[c].next /\ j.added = job[c].added
    <3> DEFINE l == [job[c] EXCEPT !.accepted = passed]
               j == [l EXCEPT !.queue = best]
    <3>1. /\ l \in Job /\ l.accepted = passed /\ l.drafts = job[c].drafts
          /\ l.next = job[c].next /\ l.added = job[c].added
      <4>1. passed \in SUBSET Contents /\ job[c] \in Job
        BY JobFields
      <4> QED
        BY <4>1 DEF Job
    <3>2. /\ j \in Job /\ j.accepted = l.accepted /\ j.drafts = l.drafts /\ j.queue = best
          /\ j.next = l.next /\ j.added = l.added
      <4>1. best \in SUBSET Contents
        BY JobFields
      <4> HIDE DEF l
      <4> QED
        BY <3>1, <4>1 DEF Job
    <3>3. j = [[job[c] EXCEPT !.accepted = passed] EXCEPT !.queue = best]
      OBVIOUS
    <3> HIDE DEF j
    <3> QED
      BY <3>1, <3>2, <3>3
  <2>2. job' = [job EXCEPT ![c] = j]
    BY <2>1, <2>3
  <2>4. job'[c] = j /\ pc'[c] = "find"
    BY <1>0, <2>1, <2>2, JobFields DEF Goes
  <2>5. job[c].added = {} /\ job[c].next = {} /\ MaxAccepted \in Nat
    BY <1>0, PromotionAssumption DEF InHand
  <2>6. InHand(c)' = best
    BY <2>3, <2>4, <2>5 DEF InHand
  <2>7. Cardinality(best) = Tried(c)'
    BY <2>1, <2>3, <2>4 DEF Tried
  <2>8. Cardinality(best) \in Nat
    BY JobFields, ContentsFinite
  <2>9. Recording(c)'
    BY <1>0, <2>3, <2>4, <2>5, <2>6, <2>7, <2>8
       DEF Recording, Candidacy, Itemizing, Accounted, Own, ItemsOf, Ended, global
  <2> QED
    BY <1>0, <2>1, <2>2, <2>3, <2>9, RunStepLocal DEF Standing
<1> QED
  BY <1>2, <1>3

\* A content moves through the hand of its run; it never grows.
LEMMA HandShrinks ==
    ASSUME RunInv, NEW c \in Calls, InHand(c)' \subseteq InHand(c),
           Tried(c)' = Tried(c), Cardinality(InHand(c)) <= Tried(c)
    PROVE  Cardinality(InHand(c)') <= Tried(c)'
<1>1. InHand(c) \in SUBSET Contents
  BY JobFields DEF InHand
<1>2. IsFiniteSet(InHand(c)) /\ Cardinality(InHand(c)) \in Nat
  BY <1>1, ContentsFinite
<1>3. Cardinality(InHand(c)') <= Cardinality(InHand(c)) /\ Cardinality(InHand(c)') \in Nat
  BY <1>2, FS_Subset, FS_CardinalityType
<1>4. Tried(c) \in Nat
  BY PromotionAssumption, JobFields, ContentsFinite DEF Tried
<1> QED
  BY <1>2, <1>3, <1>4

LEMMA FindRecords ==
    ASSUME RunInv, IndexInv, NEW c \in Calls, Find(c)
    PROVE  RunInv'
<1>0. pc[c] = "find" /\ UNCHANGED global /\ pc \in [Calls -> Standing]
      /\ runs[c] = Missing /\ ItemsOf(c) = {} /\ job[c].added = Own(c)
      /\ InHand(c) \subseteq job[c].accepted /\ Cardinality(InHand(c)) <= Tried(c)
      /\ job[c].accepted \subseteq job[c].drafts
  BY DEF Find, RunInv, Recording, Candidacy, IndexInv, Ended
<1>1. PICK x \in job[c].queue, j \in Job :
        /\ job' = [job EXCEPT ![c] = j]
        /\ j.drafts = job[c].drafts /\ j.accepted = job[c].accepted /\ j.added = job[c].added
        /\ j.queue \subseteq job[c].queue /\ j.next \subseteq job[c].next \cup {x}
        /\ Goes(c, "insert") \/ UNCHANGED pc
  <2>1. PICK x \in job[c].queue :
          \/ /\ job' = [job EXCEPT ![c].queue = @ \ {x}, ![c].next = {x}]
             /\ Goes(c, "insert")
          \/ job' = [job EXCEPT ![c].queue = @ \ {x}] /\ UNCHANGED pc
    BY DEF Find
  <2>2. CASE job' = [job EXCEPT ![c].queue = @ \ {x}, ![c].next = {x}] /\ Goes(c, "insert")
    <3>1. PICK j \in Job :
            /\ j = [[job[c] EXCEPT !.queue = job[c].queue \ {x}] EXCEPT !.next = {x}]
            /\ j.queue = job[c].queue \ {x} /\ j.next = {x}
            /\ j.drafts = job[c].drafts /\ j.accepted = job[c].accepted
            /\ j.added = job[c].added
      <4> DEFINE l == [job[c] EXCEPT !.queue = job[c].queue \ {x}]
                 j == [l EXCEPT !.next = {x}]
      <4>1. /\ l \in Job /\ l.queue = job[c].queue \ {x} /\ l.drafts = job[c].drafts
            /\ l.accepted = job[c].accepted /\ l.added = job[c].added
        <5>1. job[c] \in Job /\ job[c].queue \ {x} \in SUBSET Contents
          BY JobFields
        <5> QED
          BY <5>1 DEF Job
      <4>2. /\ j \in Job /\ j.queue = l.queue /\ j.drafts = l.drafts /\ j.next = {x}
            /\ j.accepted = l.accepted /\ j.added = l.added
        <5>1. {x} \in SUBSET Contents
          BY JobFields
        <5> HIDE DEF l
        <5> QED
          BY <4>1, <5>1 DEF Job
      <4>3. j = [[job[c] EXCEPT !.queue = job[c].queue \ {x}] EXCEPT !.next = {x}]
        OBVIOUS
      <4> HIDE DEF j
      <4> QED
        BY <4>1, <4>2, <4>3
    <3>2. job' = [job EXCEPT ![c] = j]
      BY <2>2, <3>1
    <3> QED
      BY <2>2, <3>1, <3>2
  <2>3. CASE job' = [job EXCEPT ![c].queue = @ \ {x}] /\ UNCHANGED pc
    <3> DEFINE j == [job[c] EXCEPT !.queue = job[c].queue \ {x}]
    <3>1. /\ j \in Job /\ j.queue = job[c].queue \ {x} /\ j.next = job[c].next
          /\ j.drafts = job[c].drafts /\ j.accepted = job[c].accepted
          /\ j.added = job[c].added
      BY JobFields DEF Job
    <3>2. job' = [job EXCEPT ![c] = j]
      BY <2>3
    <3> HIDE DEF j
    <3> QED
      BY <2>3, <3>1, <3>2
  <2> QED
    BY <2>1, <2>2, <2>3
<1>2. job'[c] = j /\ pc'[c] \in {"find", "insert"}
  BY <1>0, <1>1, JobFields DEF Goes
<1>3. InHand(c)' \subseteq InHand(c)
  BY <1>1, <1>2 DEF InHand
<1>5. Tried(c)' = Tried(c)
  BY <1>1, <1>2 DEF Tried
<1>4. Cardinality(InHand(c)') <= Tried(c)'
  BY <1>0, <1>3, <1>5, HandShrinks
<1>6. Recording(c)'
  BY <1>0, <1>1, <1>2, <1>3, <1>4, <1>5
     DEF Recording, Candidacy, Itemizing, Accounted, Own, ItemsOf, Ended, global
<1> QED
  BY <1>0, <1>1, <1>6, RunStepLocal DEF Standing

LEMMA InsertRecords ==
    ASSUME RunInv, IndexInv, NEW c \in Calls, Insert(c)
    PROVE  RunInv'
<1>0. pc[c] = "insert" /\ UNCHANGED <<runs, items>> /\ pc \in [Calls -> Standing]
      /\ runs[c] = Missing /\ ItemsOf(c) = {} /\ job[c].added = Own(c)
      /\ InHand(c) \subseteq job[c].accepted /\ Cardinality(InHand(c)) <= Tried(c)
      /\ job[c].accepted \subseteq job[c].drafts
  BY DEF Insert, RunInv, Recording, Candidacy, IndexInv, Ended
<1>1. PICK x \in job[c].next :
        \/ /\ promoted[x] = None
           /\ promoted' = [promoted EXCEPT ![x] = c]
           /\ job' = [job EXCEPT ![c].next = {}, ![c].added = @ \cup {x}]
           /\ Goes(c, "find")
        \/ PromotionEnds(c, "failed") /\ UNCHANGED promoted
  BY DEF Insert
<1>2. CASE PromotionEnds(c, "failed") /\ UNCHANGED promoted
  <2>1. job' = [job EXCEPT ![c] = NoJob] /\ Goes(c, "failed") /\ UNCHANGED global
    BY <1>0, <1>2 DEF PromotionEnds, global
  <2>2. job'[c] = NoJob /\ pc'[c] = "failed"
    BY <1>0, <2>1, JobFields DEF Goes
  <2>3. Recording(c)'
    BY <1>0, <2>1, <2>2, RecordingEnds DEF Ended
  <2> QED
    BY <1>0, <2>1, <2>3, NoJobType, RunStepLocal DEF Standing, Ended
<1>3. CASE /\ promoted[x] = None
           /\ promoted' = [promoted EXCEPT ![x] = c]
           /\ job' = [job EXCEPT ![c].next = {}, ![c].added = @ \cup {x}]
           /\ Goes(c, "find")
  <2> DEFINE l == [job[c] EXCEPT !.next = {}]
             j == [l EXCEPT !.added = job[c].added \cup {x}]
  <2>0. x \in Contents
    BY JobFields
  <2>1. /\ l \in Job /\ l.next = {} /\ l.drafts = job[c].drafts /\ l.queue = job[c].queue
        /\ l.accepted = job[c].accepted
    BY JobFields DEF Job
  <2>2. /\ j \in Job /\ j.next = {} /\ j.drafts = job[c].drafts /\ j.queue = job[c].queue
        /\ j.accepted = job[c].accepted /\ j.added = job[c].added \cup {x}
    <3>1. job[c].added \cup {x} \in SUBSET Contents
      BY JobFields
    <3> HIDE DEF l
    <3> QED
      BY <2>1, <3>1 DEF Job
  <2>3. job' = [job EXCEPT ![c] = j]
    BY <1>3
  <2> HIDE DEF j, l
  <2>4. job'[c] = j /\ pc'[c] = "find"
    BY <1>0, <1>3, <2>3, JobFields DEF Goes
  <2>5. promoted \in [Contents -> Calls \cup {"before", None}] /\ None \notin Calls
    BY PromotionAssumption DEF RunInv, PromotionType
  <2>6. Own(c)' = Own(c) \cup {x} /\ \A d \in Calls \ {c} : Own(d)' = Own(d)
    BY <1>3, <2>0, <2>5 DEF Own
  <2>7. InHand(c)' \subseteq InHand(c) /\ Tried(c)' = Tried(c)
    BY <2>2, <2>4 DEF InHand, Tried
  <2>11. Cardinality(InHand(c)') <= Tried(c)'
    BY <1>0, <2>7, HandShrinks
  <2>8. Recording(c)'
    BY <1>0, <2>2, <2>4, <2>6, <2>7, <2>11
       DEF Recording, Candidacy, Itemizing, Accounted, ItemsOf, Ended
  <2>9. promoted' \in [Contents -> Calls \cup {"before", None}]
    BY <1>3, <2>0, <2>5
  <2>10. \A d \in Calls \ {c} : ItemsOf(d)' = ItemsOf(d)
    BY <1>0 DEF ItemsOf
  <2> QED
    BY <1>0, <1>3, <2>2, <2>3, <2>6, <2>8, <2>9, <2>10, RunStep
       DEF RunInv, PromotionType, Standing
<1> QED
  BY <1>1, <1>2, <1>3

LEMMA RunRecords ==
    ASSUME RunInv, IndexInv, NEW c \in Calls, RecordRun(c)
    PROVE  RunInv'
<1> DEFINE refused == Refused(c)
           report == [candidates |-> Cardinality(job[c].drafts),
                      accepted |-> Cardinality(job[c].added),
                      rejected |-> Cardinality(refused),
                      duplicates |-> Tried(c) - Cardinality(job[c].added)]
<1>0. pc[c] = "find" /\ UNCHANGED <<promoted, items, job>> /\ pc \in [Calls -> Standing]
      /\ Goes(c, "items") /\ runs' = [runs EXCEPT ![c] = report]
      /\ ItemsOf(c) = {} /\ job[c].added = Own(c)
      /\ InHand(c) \subseteq job[c].accepted /\ Cardinality(InHand(c)) <= Tried(c)
      /\ job[c].accepted \subseteq job[c].drafts
  BY DEF RecordRun, RunInv, Recording, Candidacy, IndexInv, Ended, Refused, Tried
<1>1. Tried(c) \in Nat
  BY PromotionAssumption, JobFields, ContentsFinite DEF Tried
<1>2. Cardinality(job[c].added) <= Cardinality(InHand(c)) /\ Cardinality(InHand(c)) \in Nat
  <2>1. InHand(c) \in SUBSET Contents /\ job[c].added \in SUBSET InHand(c)
    BY JobFields DEF InHand
  <2> QED
    BY <2>1, ContentsFinite, FS_Subset
<1>3. /\ Cardinality(job[c].drafts) \in Nat /\ Cardinality(job[c].added) \in Nat
      /\ Cardinality(refused) \in Nat
  <2>1. refused \in SUBSET Contents
    BY JobFields DEF Refused
  <2> QED
    BY <2>1, JobFields, ContentsFinite
<1>4. Tried(c) - Cardinality(job[c].added) \in Nat
  BY <1>0, <1>1, <1>2, <1>3
<1>5. report \in Report
  BY <1>3, <1>4 DEF Report
<1>6. report.accepted = Cardinality(Own(c)) /\ report.rejected = Cardinality(Refused(c))
  BY <1>0
<1> HIDE DEF report, refused
<1>7. /\ runs' \in [Calls -> Report \cup {Missing}] /\ runs'[c] = report
      /\ \A d \in Calls \ {c} : runs'[d] = runs[d]
  BY <1>0, <1>5 DEF RunInv, PromotionType
<1>8. \A d \in Calls : Own(d)' = Own(d) /\ ItemsOf(d)' = ItemsOf(d)
  BY <1>0 DEF Own, ItemsOf
<1>9. Refused(c)' = Refused(c) /\ pc'[c] = "items"
  BY <1>0 DEF Refused, Goes
<1>11. Recording(c)'
  <2>1. Candidacy(c)'
    BY <1>0, <1>9 DEF Candidacy, Ended
  <2>2. Itemizing(c)'
    BY <1>0, <1>6, <1>7, <1>8, <1>9 DEF Itemizing, InHand
  <2>3. Accounted(c)'
    BY <1>0, <1>6, <1>7, <1>8, <1>9 DEF Accounted
  <2> QED
    BY <2>1, <2>2, <2>3 DEF Recording
<1>12. job' = [job EXCEPT ![c] = job[c]] /\ job[c] \in Job
  BY <1>0, JobFields
<1> QED
  BY <1>0, <1>7, <1>8, <1>11, <1>12, RunStep DEF RunInv, PromotionType, Standing

LEMMA ItemRecords ==
    ASSUME RunInv, IndexInv, NEW c \in Calls, RecordItem(c)
    PROVE  RunInv'
<1>1. PICK x \in ToRecord(c) :
        items' = items \cup {[run |-> c, content |-> x, accepted |-> x \in job[c].added]}
  BY DEF RecordItem
<1> DEFINE i == [run |-> c, content |-> x, accepted |-> x \in job[c].added]
<1>0. pc[c] = "items" /\ UNCHANGED <<promoted, runs, job, pc>>
      /\ job[c].added = Own(c) /\ Candidacy(c) /\ Itemizing(c) /\ Accounted(c)
  BY DEF RecordItem, RunInv, Recording, Itemizing
<1>2. x \in job[c].added \cup Refused(c) /\ x \in Contents
  BY JobFields DEF ToRecord, Refused
<1>3. i \in [run : Calls, content : Contents, accepted : BOOLEAN]
      /\ i.run = c /\ i.content = x /\ i.accepted = (x \in job[c].added)
  BY <1>2
<1>4. items' = items \cup {i}
  BY <1>1
<1> HIDE DEF i
<1>5. ItemsOf(c)' = ItemsOf(c) \cup {i} /\ \A d \in Calls \ {c} : ItemsOf(d)' = ItemsOf(d)
  BY <1>3, <1>4 DEF ItemsOf
<1>6. \A d \in Calls : Own(d)' = Own(d)
  BY <1>0 DEF Own
<1>7. Refused(c)' = Refused(c)
  BY <1>0 DEF Refused
<1>8. Recording(c)'
  <2>1. Candidacy(c)'
    BY <1>0 DEF Candidacy, Ended
  <2>2. Itemizing(c)'
    BY <1>0, <1>2, <1>3, <1>5, <1>6, <1>7 DEF Itemizing
  <2>3. Accounted(c)'
    BY <1>0, <1>2, <1>3, <1>5, <1>6 DEF Accounted
  <2> QED
    BY <2>1, <2>2, <2>3 DEF Recording
<1>9. job' = [job EXCEPT ![c] = job[c]] /\ job[c] \in Job
  BY <1>0, JobFields
<1>10. /\ promoted' \in [Contents -> Calls \cup {"before", None}]
       /\ runs' \in [Calls -> Report \cup {Missing}]
       /\ items' \subseteq [run : Calls, content : Contents, accepted : BOOLEAN]
  BY <1>0, <1>3, <1>4 DEF RunInv, PromotionType
<1>11. \A d \in Calls \ {c} : runs'[d] = runs[d]
  BY <1>0
<1> QED
  BY <1>0, <1>5, <1>6, <1>8, <1>9, <1>10, <1>11, RunStep

\* When nothing is left to record there is one item for each content that the
\* run added or refused.
LEMMA ItemsCounted ==
    ASSUME RunInv, NEW c \in Calls, pc[c] = "items", ToRecord(c) = {}
    PROVE  Cardinality(ItemsOf(c)) = Cardinality(Own(c)) + Cardinality(Refused(c))
<1> DEFINE T == job[c].added \cup Refused(c)
<1>0. /\ job[c].added = Own(c) /\ job[c].added \subseteq job[c].accepted
      /\ \A i \in ItemsOf(c) : i.content \in T /\ i.accepted = (i.content \in job[c].added)
      /\ \A i \in ItemsOf(c) :
            i = [run |-> c, content |-> i.content, accepted |-> i.accepted]
  BY DEF RunInv, PromotionType, Recording, Itemizing, ItemsOf
<1>1. \A x \in T : \E i \in ItemsOf(c) : i.content = x
  BY DEF ToRecord, Recorded, ItemsOf, Refused
<1>2. job[c].added \in SUBSET Contents /\ Refused(c) \in SUBSET Contents /\ T \in SUBSET Contents
  BY JobFields DEF Refused
<1>3. IsFiniteSet(T) /\ Cardinality(T) = Cardinality(job[c].added) + Cardinality(Refused(c))
  <2>1. job[c].added \cap Refused(c) = {}
    BY <1>0 DEF Refused
  <2>2. Cardinality(job[c].added \cap Refused(c)) = 0
    BY <2>1, FS_EmptySet
  <2>3. /\ IsFiniteSet(job[c].added) /\ Cardinality(job[c].added) \in Nat
        /\ IsFiniteSet(Refused(c)) /\ Cardinality(Refused(c)) \in Nat
    BY <1>2, ContentsFinite
  <2>4. /\ IsFiniteSet(T)
        /\ Cardinality(T) = Cardinality(job[c].added) + Cardinality(Refused(c))
                              - Cardinality(job[c].added \cap Refused(c))
    BY <2>3, FS_Union, Zenon
  <2> HIDE DEF T
  <2> QED
    BY <2>2, <2>3, <2>4
<1>4. Cardinality(ItemsOf(c)) = Cardinality(T)
  <2> DEFINE f == [x \in T |-> [run |-> c, content |-> x, accepted |-> x \in job[c].added]]
  <2>1. \A x \in T : f[x] \in ItemsOf(c)
    BY <1>0, <1>1
  <2>2. \A x, y \in T : f[x] = f[y] => x = y
    OBVIOUS
  <2>3. \A i \in ItemsOf(c) : i.content \in T /\ f[i.content] = i
    BY <1>0
  <2>4. f \in Bijection(T, ItemsOf(c))
    <3> HIDE DEF T
    <3>1. f \in [T -> ItemsOf(c)]
      BY <2>1
    <3> QED
      BY <2>2, <2>3, <3>1 DEF Bijection, Injection, Surjection, IsInjective
  <2> QED
    BY <1>3, <2>4, FS_Bijection DEF ExistsBijection
<1> QED
  BY <1>0, <1>3, <1>4

LEMMA RecordEnds ==
    ASSUME RunInv, IndexInv, NEW c \in Calls, RunRecorded(c)
    PROVE  RunInv'
<1>0. pc[c] = "items" /\ ToRecord(c) = {} /\ UNCHANGED global
      /\ pc \in [Calls -> Standing] /\ job' = [job EXCEPT ![c] = NoJob] /\ Goes(c, "done")
      /\ Itemizing(c) /\ Accounted(c)
  BY DEF RunRecorded, PromotionEnds, RunInv, Recording, IndexInv
<1>1. job'[c] = NoJob /\ pc'[c] = "done"
  BY <1>0, JobFields DEF Goes
<1>2. Own(c)' = Own(c) /\ ItemsOf(c)' = ItemsOf(c) /\ runs' = runs
  BY <1>0 DEF Own, ItemsOf, global
<1>3. Cardinality(ItemsOf(c)) = Cardinality(Own(c)) + Cardinality(Refused(c))
  BY <1>0, ItemsCounted
<1>4. Recording(c)'
  <2>1. Candidacy(c)' /\ Itemizing(c)'
    BY <1>1 DEF Candidacy, Itemizing, Ended, NoJob
  <2>2. Accounted(c)'
    BY <1>0, <1>1, <1>2, <1>3 DEF Accounted, Itemizing
  <2> QED
    BY <2>1, <2>2 DEF Recording
<1> QED
  BY <1>0, <1>4, NoJobType, RunStepLocal DEF Standing, Ended

LEMMA StopRecords ==
    ASSUME RunInv, IndexInv, NEW c \in Calls, PromotionFails(c) \/ Crash(c)
    PROVE  RunInv'
<1>0. pc[c] \notin Ended /\ UNCHANGED global /\ job' = [job EXCEPT ![c] = NoJob]
      /\ pc \in [Calls -> Standing] /\ \E to \in {"failed", "crashed"} : Goes(c, to)
  BY DEF PromotionFails, Crash, PromotionEnds, IndexInv, Ended
<1>1. job'[c] = NoJob /\ pc'[c] \in {"failed", "crashed"}
  BY <1>0, JobFields DEF Goes
<1>2. Recording(c)'
  BY <1>0, <1>1, RecordingEnds
<1> QED
  BY <1>0, <1>2, NoJobType, RunStepLocal DEF Standing, Ended

LEMMA EarlyRecords ==
    ASSUME RunInv, IndexInv, NEW c \in Calls, UNCHANGED <<global, job>>,
           pc[c] \notin {"evaluate", "gate", "find", "insert", "items"} \cup Ended,
           \E to \in Standing \ {"gate", "find", "insert", "items"} : Goes(c, to)
    PROVE  RunInv'
<1>1. pc'[c] \notin {"gate", "find", "insert", "items"}
  BY DEF Goes, IndexInv
<1>2. Recording(c)'
  BY <1>1, RecordingEarly
<1>3. job' = [job EXCEPT ![c] = job[c]] /\ job[c] \in Job
  BY JobFields
<1> QED
  BY <1>2, <1>3, RunStepLocal

LEMMA IndexRecords ==
    ASSUME RunInv, IndexInv, NEW c \in Calls, UNCHANGED <<global, job>>,
           \/ StartRebuild(c) \/ StartSearch(c) \/ StartFanout(c) \/ StartPromotion(c)
           \/ RebuildStep(c) \/ SearchStep(c)
    PROVE  RunInv'
<1>1. CASE StartRebuild(c) \/ StartSearch(c) \/ StartFanout(c) \/ StartPromotion(c)
  <2>1. pc[c] = "idle" /\ \E to \in {"print", "check", "fanout", "evaluate"} : Goes(c, to)
    BY <1>1 DEF StartRebuild, StartSearch, StartFanout, StartPromotion, Begins
  <2> QED
    BY <2>1, EarlyRecords DEF Standing, Ended
<1>2. CASE SearchStep(c)
  <2>1. /\ pc[c] \in {"check", "compare", "lookup", "fanout"}
        /\ \E to \in {"compare", "print", "lookup", "done", "fanout"} : Goes(c, to)
    BY <1>2 DEF SearchStep, Check, Compare, Lookup, Fanout
  <2> QED
    BY <2>1, EarlyRecords DEF Standing, Ended
<1>3. CASE CopyTable(c)
  <2>2. UNCHANGED pc /\ job' = [job EXCEPT ![c] = job[c]] /\ job[c] \in Job
    BY <1>3, JobFields DEF CopyTable
  <2>3. Recording(c)'
    BY <1>3, RecordingEarly DEF CopyTable, Ended
  <2> QED
    BY <2>2, <2>3, RunStepLocal
<1>4. CASE RebuildStep(c) /\ ~ CopyTable(c)
  <2>1. /\ pc[c] \in {"print", "clear", "members", "copy"}
        /\ \E to \in {"clear", "members", "copy", "done", "lookup", "fanout"} : Goes(c, to)
    BY <1>4, RebuildEndsTyped DEF RebuildStep, TakeFingerprint, Clear, InsertMembers,
                                  WriteMeta, RebuildFails
  <2> QED
    BY <2>1, EarlyRecords DEF Standing, Ended
<1> QED
  BY <1>1, <1>2, <1>3, <1>4

LEMMA QuietRecords ==
    ASSUME RunInv, UNCHANGED <<global, job, pc>>
    PROVE  RunInv'
<1>1. \A d \in Calls : Own(d)' = Own(d) /\ ItemsOf(d)' = ItemsOf(d) /\ runs'[d] = runs[d]
  BY DEF global, Own, ItemsOf
<1>2. \A d \in Calls : Recording(d)'
  BY <1>1, RecordingFrame
<1> QED
  BY <1>2 DEF RunInv, PromotionType, global

LEMMA RunKept ==
    ASSUME RunInv, IndexInv, [Next]_vars
    PROVE  RunInv'
<1>1. CASE UNCHANGED vars
  BY <1>1, QuietRecords DEF vars
<1>2. CASE IndexAction
  BY <1>2, QuietRecords, IndexRecords DEF IndexAction, Write
<1>3. ASSUME NEW c \in Calls, StartPromotion(c)
      PROVE  RunInv'
  BY <1>3, IndexRecords DEF StartPromotion
<1>4. ASSUME NEW c \in Calls, PromotionStep(c) \/ Crash(c)
      PROVE  RunInv'
  BY <1>4, EvaluateRecords, GateRecords, FindRecords, InsertRecords, RunRecords, ItemRecords,
     RecordEnds, StopRecords DEF PromotionStep
<1> QED
  BY <1>1, <1>2, <1>3, <1>4 DEF Next

LEMMA InitRuns == Init => RunInv
<1> SUFFICES ASSUME Init
             PROVE  RunInv
  OBVIOUS
<1>1. \A c \in Calls : pc[c] = "idle"
  BY DEF Init, IndexInit
<1>2. PromotionType
  BY NoJobType DEF Init, PromotionInit, PromotionType
<1>3. \A c \in Calls : Own(c) = {} /\ ItemsOf(c) = {} /\ job[c] = NoJob /\ runs[c] = Missing
  BY PromotionAssumption DEF Init, PromotionInit, Own, ItemsOf
<1> QED
  BY <1>1, <1>2, <1>3 DEF RunInv, Recording, Candidacy, Itemizing, Accounted, InHand, NoJob,
                          Ended

-----------------------------------------------------------------------------

LEMMA AllInvariant == Spec => [](IndexInv /\ RunInv)
<1>1. Init => IndexInv /\ RunInv
  BY InitTyped, InitRuns
<1>2. IndexInv /\ RunInv /\ [Next]_vars => IndexInv' /\ RunInv'
  BY IndexTyped, RunKept
<1> QED
  BY <1>1, <1>2, PTL DEF Spec

\* Types of the index, the calls and the global database.  That the duplicates
\* of a run are a natural number says that it adds no more than it tries.
THEOREM PromotionTypeOK == Spec => []TypeOK
<1>1. IndexInv /\ RunInv => TypeOK
  BY DEF IndexInv, RunInv, TypeOK
<1> QED
  BY <1>1, AllInvariant, PTL

\* The record of a run says what it promoted, whatever other runs promoted
\* between its look-ups and its inserts.
THEOREM RunsRecorded == Spec => []PromotionRecorded
<1>1. ASSUME RunInv
      PROVE  PromotionRecorded
  <2> SUFFICES ASSUME NEW c \in Calls, runs[c] # Missing
               PROVE  LET own == {x \in Contents : promoted[x] = c}
                      IN  /\ runs[c].accepted = Cardinality(own)
                          /\ {i.content : i \in {j \in items : j.run = c /\ j.accepted}}
                               \subseteq own
                          /\ pc[c] = "done" =>
                               Cardinality({i \in items : i.run = c}) =
                                  runs[c].accepted + runs[c].rejected
    BY Zenon DEF PromotionRecorded
  <2>1. pc[c] \in {"items"} \cup Ended
    BY <1>1 DEF RunInv, Recording, Candidacy
  <2>2. Own(c) = {x \in Contents : promoted[x] = c}
        /\ ItemsOf(c) = {i \in items : i.run = c}
    BY DEF Own, ItemsOf
  <2>3. /\ runs[c].accepted = Cardinality(Own(c))
        /\ \A i \in ItemsOf(c) : i.accepted => i.content \in Own(c)
        /\ pc[c] = "done" =>
             Cardinality(ItemsOf(c)) = runs[c].accepted + runs[c].rejected
    BY <1>1, <2>1 DEF RunInv, Recording, Accounted
  <2>4. {i.content : i \in {j \in items : j.run = c /\ j.accepted}} \subseteq Own(c)
    BY <2>3 DEF ItemsOf
  <2> QED
    BY <2>2, <2>3, <2>4, Zenon
<1> QED
  BY <1>1, AllInvariant, PTL
===============================================================================
