------------------------- MODULE SessionHooks_proofs -------------------------
(***************************************************************************)
(* The session of SessionHooks for any calls, users, policy and requests:  *)
(* its types, what the shutdown checkpoints, that a reminder at the end of *)
(* a request is justified, and what a save that was answered can count on. *)
(***************************************************************************)
EXTENDS SessionHooks, FiniteSetTheorems, FunctionTheorems, TLAPS

-----------------------------------------------------------------------------
(* Files.  There is an inode for every file a step creates: an inode is in *)
(* use beyond the files there are only since a change of the user merged   *)
(* its file into another.                                                  *)

Used == {i \in Inodes :
           rows[i] # {} \/ \E d \in Databases : file[d] = i \/ opened[d] = i}
Existing == {d \in Databases : file[d] # None}

Budget == Cardinality(Used) <= Cardinality(Existing) + changes

LEMMA DatabasesFinite ==
    /\ IsFiniteSet(Databases) /\ Cardinality(Databases) = Cardinality(Users) + 1
    /\ Cardinality(Users) \in Nat
BY SaveAssumption, FS_AddElement, FS_CardinalityType DEF Databases

LEMMA InodesFinite ==
    /\ IsFiniteSet(Inodes) /\ Cardinality(Inodes) = Cardinality(Users) + MaxChanges + 2
    /\ Inodes \subseteq Nat /\ None \notin Inodes
<1>1. Cardinality(Users) + MaxChanges + 1 \in Nat
  BY SaveAssumption, DatabasesFinite
<1>2. /\ IsFiniteSet(Inodes)
      /\ Cardinality(Inodes) = Cardinality(Users) + MaxChanges + 2
  BY <1>1, FS_Interval, SaveAssumption, DatabasesFinite DEF Inodes
<1> QED
  BY <1>1, <1>2, SaveAssumption DEF Inodes

LEMMA UsedFinite ==
    /\ IsFiniteSet(Used) /\ Cardinality(Used) \in Nat
    /\ IsFiniteSet(Existing) /\ Cardinality(Existing) \in Nat
<1>1. Used \in SUBSET Inodes /\ Existing \in SUBSET Databases
  BY DEF Used, Existing
<1> QED
  BY <1>1, InodesFinite, DatabasesFinite, FS_Subset, FS_CardinalityType

\* A file that does not exist can be created.
LEMMA FreeExists ==
    ASSUME SaveType, Budget, NEW d \in Databases, file[d] = None
    PROVE  Free \in Inodes \ Used
<1>1. Existing \in SUBSET Databases /\ Existing # Databases
  BY DEF Existing
<1>2. Cardinality(Existing) <= Cardinality(Users)
  BY <1>1, DatabasesFinite, FS_Subset, UsedFinite
<1>3. Used \in SUBSET Inodes
  BY DEF Used
<1>4. changes \in 0..MaxChanges /\ MaxChanges \in Nat
  BY SaveAssumption DEF SaveType
<1>5. Cardinality(Used) < Cardinality(Inodes)
  BY <1>2, <1>4, UsedFinite, DatabasesFinite, InodesFinite DEF Budget
<1>6. PICK i \in Inodes : i \notin Used
  <2>1. Used # Inodes
    BY <1>5, UsedFinite
  <2> QED
    BY <1>3, <2>1
<1>7. rows[i] = {} /\ \A e \in Databases : file[e] /= i /\ opened[e] /= i
  BY <1>6 DEF Used
<1>8. /\ Free \in Inodes
      /\ rows[Free] = {} /\ \A e \in Databases : file[e] /= Free /\ opened[e] /= Free
  <2>1. \E j \in Inodes : rows[j] = {} /\ \A e \in Databases : file[e] /= j /\ opened[e] /= j
    BY <1>6, <1>7
  <2> QED
    BY <2>1, Zenon DEF Free
<1> QED
  BY <1>8 DEF Used

\* No inode is put to use and no file removed.
LEMMA BudgetKept ==
    ASSUME Budget, Used' \subseteq Used, Existing \subseteq Existing',
           changes \in Nat, changes' \in Nat, changes <= changes'
    PROVE  Budget'
<1>1. Used' \in SUBSET Used /\ Existing \in SUBSET Existing'
  OBVIOUS
<1>2. /\ IsFiniteSet(Used') /\ Cardinality(Used') \in Nat
      /\ IsFiniteSet(Existing') /\ Cardinality(Existing') \in Nat
  <2>1. Used' \in SUBSET Inodes /\ Existing' \in SUBSET Databases
    BY DEF Used, Existing
  <2> QED
    BY <2>1, InodesFinite, DatabasesFinite, FS_Subset, FS_CardinalityType
<1>3. Cardinality(Used') <= Cardinality(Used)
  BY <1>1, UsedFinite, FS_Subset
<1>4. Cardinality(Existing) <= Cardinality(Existing')
  BY <1>1, <1>2, FS_Subset
<1> QED
  BY <1>2, <1>3, <1>4, UsedFinite DEF Budget

\* A file is created, and perhaps opened.
LEMMA FileCreated ==
    ASSUME SaveType, Budget, NEW d \in Databases, file[d] = None,
           file' = [file EXCEPT ![d] = Free], UNCHANGED rows,
           opened' \in {opened, [opened EXCEPT ![d] = Free]},
           changes' \in Nat, changes <= changes'
    PROVE  Budget' /\ file' \in [Databases -> Inodes \cup {None}]
           /\ opened' \in [Databases -> Inodes \cup {None}]
<1>1. Free \in Inodes \ Used
  BY FreeExists
<1>2. /\ file' \in [Databases -> Inodes \cup {None}]
      /\ opened' \in [Databases -> Inodes \cup {None}]
  BY <1>1 DEF SaveType
<1>3. Used' \in SUBSET (Used \cup {Free})
  BY <1>1 DEF SaveType, Used
<1>4. Existing' = Existing \cup {d} /\ d \notin Existing
  BY <1>1, InodesFinite DEF SaveType, Existing
<1>5. Cardinality(Existing') = Cardinality(Existing) + 1
  BY <1>4, UsedFinite, FS_AddElement
<1>6. /\ IsFiniteSet(Used \cup {Free})
      /\ Cardinality(Used \cup {Free}) = Cardinality(Used) + 1
  BY <1>1, UsedFinite, FS_AddElement
<1>7. Cardinality(Used') <= Cardinality(Used) + 1 /\ Cardinality(Used') \in Nat
  BY <1>3, <1>6, FS_Subset, FS_CardinalityType
<1>8. changes \in Nat
  BY SaveAssumption DEF SaveType
<1> QED
  BY <1>2, <1>5, <1>7, <1>8, UsedFinite DEF Budget

LEMMA FileMade ==
    ASSUME SaveType, Budget, NEW d \in Databases,
           file' \in {file, Created(d)}, UNCHANGED <<rows, opened>>,
           changes' \in Nat, changes <= changes'
    PROVE  Budget' /\ file' \in [Databases -> Inodes \cup {None}]
<1>0. changes \in Nat
  BY SaveAssumption DEF SaveType
<1>1. CASE file' = file
  <2>1. Used' \subseteq Used /\ Existing \subseteq Existing'
    BY <1>1 DEF Used, Existing
  <2> QED
    BY <1>0, <1>1, <2>1, BudgetKept DEF SaveType
<1>2. CASE file' # file
  <2>1. file[d] = None /\ file' = [file EXCEPT ![d] = Free]
    BY <1>2 DEF Created
  <2> QED
    BY <2>1, FileCreated
<1> QED
  BY <1>1, <1>2

\* The change of the user moves a file, merges it, or leaves it.
LEMMA FilesMoved ==
    ASSUME SaveType, Budget, NEW v \in Users, Change(v), failures' \in 0..MaxFailures
    PROVE  SaveType' /\ Budget'
<1> DEFINE u == configured
<1>0. /\ u \in Users /\ v # u /\ changes \in Nat /\ changes' = changes + 1
      /\ changes' \in 0..MaxChanges /\ {u, v} \subseteq Databases
  BY SaveAssumption DEF SaveType, Change, Databases
<1>1. CASE file[u] = None
  <2>1. file' \in {file, Created(v)} /\ UNCHANGED <<rows, opened>>
    BY <1>1 DEF Change, Moved
  <2>2. Budget' /\ file' \in [Databases -> Inodes \cup {None}]
    BY <1>0, <2>1, FileMade
  <2> QED
    BY <1>0, <2>1, <2>2 DEF SaveType, Change, saving
<1>2. CASE file[u] # None /\ file[v] = None
  <2>1. /\ file' = [file EXCEPT ![v] = file[u], ![u] = None]
        /\ UNCHANGED <<rows, opened>>
    BY <1>2, <1>0, SaveAssumption DEF Change, Moved, Renamed, Merged
  <2>2. file' \in [Databases -> Inodes \cup {None}]
    BY <1>0, <2>1 DEF SaveType
  <2>3. Used' \in SUBSET Used
    BY <1>0, <2>1, InodesFinite DEF SaveType, Used
  <2>4. v \notin Existing /\ u \in Existing /\ u \in Databases /\ v \in Databases
    BY <1>0, <1>2 DEF Existing
  <2>5. Existing' = (Existing \cup {v}) \ {u}
    BY <1>0, <1>2, <2>1 DEF SaveType, Existing
  <2>6. Cardinality(Existing') = Cardinality(Existing)
    <3>1. /\ IsFiniteSet(Existing \cup {v})
          /\ Cardinality(Existing \cup {v}) = Cardinality(Existing) + 1
      BY <2>4, UsedFinite, FS_AddElement
    <3>2. Cardinality((Existing \cup {v}) \ {u}) = Cardinality(Existing \cup {v}) - 1
      BY <2>4, <3>1, FS_RemoveElement
    <3> QED
      BY <2>5, <3>1, <3>2, UsedFinite
  <2>7. Cardinality(Used') <= Cardinality(Used) /\ Cardinality(Used') \in Nat
    BY <2>3, UsedFinite, FS_Subset, FS_CardinalityType
  <2> QED
    BY <1>0, <2>1, <2>2, <2>6, <2>7, UsedFinite DEF SaveType, Budget, Change, saving
<1>3. CASE file[u] # None /\ file[v] # None
  <2>1. /\ rows' = [rows EXCEPT ![file[v]] = @ \cup rows[file[u]]]
        /\ file' = [file EXCEPT ![u] = None]
        /\ opened' = opened
    BY <1>3, <1>0 DEF Change, Moved, Renamed, Merged
  <2>2. file[u] \in Inodes /\ file[v] \in Inodes
    BY <1>0, <1>3 DEF SaveType
  <2>3. /\ file' \in [Databases -> Inodes \cup {None}]
        /\ rows' \in [Inodes -> SUBSET Contents]
    BY <1>0, <2>1, <2>2 DEF SaveType
  <2>4. Used' \in SUBSET Used
    BY <1>0, <2>1, <2>2, InodesFinite DEF SaveType, Used
  <2>5. Existing' = Existing \ {u} /\ u \in Existing
    BY <1>0, <1>3, <2>1 DEF SaveType, Existing
  <2>6. Cardinality(Existing') = Cardinality(Existing) - 1
    BY <2>5, UsedFinite, FS_RemoveElement
  <2>7. Cardinality(Used') <= Cardinality(Used) /\ Cardinality(Used') \in Nat
    BY <2>4, UsedFinite, FS_Subset, FS_CardinalityType
  <2> QED
    BY <1>0, <2>1, <2>3, <2>6, <2>7, UsedFinite DEF SaveType, Budget, Change, saving
<1> QED
  BY <1>1, <1>2, <1>3

-----------------------------------------------------------------------------
(* Saves.  A save that opens or embeds has a payload for its lane, and one *)
(* that embeds has opened the store of its target.                         *)

Underway(c) ==
    /\ pc[c] \in {"open", "load", "embed"} => Payload(c) \in Contents
    /\ pc[c] = "embed" => opened[Target(c)] \in Inodes

SaveInv ==
    /\ pc \in [Calls -> Standing]
    /\ SaveType
    /\ Budget
    /\ \A c \in Calls : Underway(c)

LEMMA TargetExists ==
    ASSUME SaveType, NEW c \in Calls
    PROVE  Target(c) \in Databases /\ Payload(c) \in Contents \cup {None}
BY SaveAssumption DEF SaveType, Target, ToProject, Payload, Databases

\* What a call answers leaves its next payload, if there is one, to be saved.
LEMMA AnswerType ==
    ASSUME SaveInv, NEW c \in Calls, NEW status \in Statuses \ {"silent"},
           Answers(c, status), UNCHANGED settings
    PROVE  /\ pc' \in [Calls -> Standing]
           /\ lane' \in [Calls -> {"project", "general"}] /\ said' \in [Calls -> Answer]
           /\ routed' = routed /\ adrift' \subseteq Calls
           /\ \A d \in Calls \ {c} : pc'[d] = pc[d] /\ Payload(d)' = Payload(d)
                                     /\ Target(d)' = Target(d)
           /\ pc'[c] \in {"open", "result"}
           /\ pc'[c] = "open" => Payload(c)' \in Contents
<1>1. Heard(c, status) \in Statuses
  BY DEF Heard, Statuses
<1>2. said' \in [Calls -> Answer]
  <2>1. \A l \in {"project", "general"} :
          [said[c] EXCEPT ![l] = Heard(c, status)] \in Answer
    BY <1>1 DEF SaveInv, SaveType, Answer
  <2>2. said' = [said EXCEPT ![c] = [said[c] EXCEPT ![lane[c]] = Heard(c, status)]]
    BY DEF Answers
  <2> QED
    BY <2>1, <2>2 DEF SaveInv, SaveType
<1>3. lane[c] \in {"project", "general"}
  BY DEF SaveInv, SaveType
<1>6. routed' = routed /\ adrift' \subseteq Calls
  BY DEF Answers, Drift, SaveInv, SaveType
<1>4. CASE lane[c] = "project" /\ General[c] /= None
  BY <1>2, <1>4, <1>6, SaveAssumption
  DEF SaveInv, SaveType, Answers, Goes, Standing, Payload, Target, ToProject, settings
<1>5. CASE ~(lane[c] = "project" /\ General[c] /= None)
  BY <1>2, <1>5, <1>6
  DEF SaveInv, SaveType, Answers, Goes, Standing, Payload, Target, ToProject, settings
<1> QED
  BY <1>4, <1>5

LEMMA FailureCounted ==
    ASSUME failures \in 0..MaxFailures, Failure \/ UNCHANGED failures
    PROVE  failures' \in 0..MaxFailures
BY SaveAssumption DEF Failure

LEMMA OpenSafe ==
    ASSUME SaveInv, NEW c \in Calls, Open(c)
    PROVE  SaveInv'
<1> DEFINE d == Target(c)
           i == Held(d)
<1>0. /\ d \in Databases /\ pc[c] = "load" /\ Payload(c) \in Contents
      /\ changes \in Nat /\ UNCHANGED <<rows, settings, failures>>
  BY TargetExists, SaveAssumption DEF SaveInv, SaveType, Underway, Open
<1>1. /\ opened' = [opened EXCEPT ![d] = i]
      /\ file' = IF opened[d] = None THEN [file EXCEPT ![d] = i] ELSE file
  BY DEF Open
<1>2. /\ Budget' /\ i \in Inodes
      /\ file' \in [Databases -> Inodes \cup {None}]
      /\ opened' \in [Databases -> Inodes \cup {None}]
  <2>1. CASE opened[d] /= None \/ file[d] /= None
    <3>1. i \in Inodes /\ (opened[d] = i \/ file[d] = i)
      BY <1>0, <2>1 DEF SaveInv, SaveType, Held
    <3>2. /\ file' \in [Databases -> Inodes \cup {None}]
          /\ opened' \in [Databases -> Inodes \cup {None}]
      BY <1>0, <1>1, <3>1 DEF SaveInv, SaveType
    <3>3. Used' \subseteq Used
      BY <1>0, <1>1, <2>1, <3>1 DEF SaveInv, SaveType, Used
    <3>4. Existing \subseteq Existing'
      BY <1>0, <1>1, <3>1, InodesFinite DEF SaveInv, SaveType, Existing
    <3> QED
      BY <1>0, <3>1, <3>2, <3>3, <3>4, BudgetKept DEF SaveInv, settings
  <2>2. CASE opened[d] = None /\ file[d] = None
    <3>1. i = Free
      BY <2>2 DEF Held
    <3>2. /\ file' = [file EXCEPT ![d] = Free] /\ opened' = [opened EXCEPT ![d] = Free]
      BY <1>1, <2>2, <3>1
    <3>3. Free \in Inodes
      BY <1>0, <2>2, FreeExists DEF SaveInv
    <3>4. PICK e \in Databases : e = d
      BY <1>0
    <3>5. /\ file[e] = None /\ changes' \in Nat /\ changes <= changes' /\ UNCHANGED rows
          /\ file' = [file EXCEPT ![e] = Free] /\ opened' = [opened EXCEPT ![e] = Free]
      BY <1>0, <2>2, <3>2, <3>4 DEF settings
    <3>6. /\ Budget' /\ file' \in [Databases -> Inodes \cup {None}]
          /\ opened' \in [Databases -> Inodes \cup {None}]
      BY <3>5, FileCreated DEF SaveInv
    <3> QED
      BY <3>1, <3>3, <3>6
  <2> QED
    BY <2>1, <2>2
<1>3. \A e \in Databases : opened[e] \in Inodes => opened'[e] \in Inodes
  BY <1>0, <1>1, <1>2 DEF SaveInv, SaveType
<1>4. CASE Payload(c) \in rows[i] /\ Answers(c, "duplicate")
  <2>1. /\ pc' \in [Calls -> Standing]
        /\ lane' \in [Calls -> {"project", "general"}] /\ said' \in [Calls -> Answer]
        /\ routed' = routed /\ adrift' \subseteq Calls
        /\ \A e \in Calls \ {c} : pc'[e] = pc[e] /\ Payload(e)' = Payload(e)
                                  /\ Target(e)' = Target(e)
        /\ pc'[c] \in {"open", "result"}
        /\ pc'[c] = "open" => Payload(c)' \in Contents
    BY <1>0, <1>4, AnswerType DEF Statuses
  <2>2. SaveType'
    BY <1>0, <1>2, <2>1 DEF SaveInv, SaveType, settings
  <2>3. \A e \in Calls : Underway(e)'
    BY <1>3, <2>1, TargetExists DEF SaveInv, Underway
  <2> QED
    BY <1>2, <2>1, <2>2, <2>3 DEF SaveInv
<1>5. CASE Goes(c, "embed") /\ UNCHANGED saving
  <2>1. pc' \in [Calls -> Standing] /\ SaveType'
    BY <1>0, <1>2, <1>5 DEF SaveInv, SaveType, settings, saving, Goes, Standing
  <2>2. \A e \in Calls : Target(e)' = Target(e) /\ Payload(e)' = Payload(e)
    BY <1>0, <1>5 DEF Target, ToProject, Payload, saving, settings
  <2>3. opened'[d] \in Inodes
    BY <1>0, <1>1, <1>2 DEF SaveInv, SaveType
  <2>4. \A e \in Calls : Underway(e)'
    BY <1>0, <1>3, <1>5, <2>2, <2>3, TargetExists DEF SaveInv, Underway, Goes
  <2> QED
    BY <1>2, <2>1, <2>4 DEF SaveInv
<1> QED
  BY <1>4, <1>5 DEF Open

\* Insert, and the two failures: the call answers, and no file is made.
LEMMA AnswerSafe ==
    ASSUME SaveInv, NEW c \in Calls, NEW status \in Statuses \ {"silent"},
           Answers(c, status), UNCHANGED <<file, opened, settings>>,
           rows' \in [Inodes -> SUBSET Contents],
           \A i \in Inodes : rows'[i] # {} => i \in Used,
           failures' \in 0..MaxFailures
    PROVE  SaveInv'
<1>1. /\ pc' \in [Calls -> Standing]
      /\ lane' \in [Calls -> {"project", "general"}] /\ said' \in [Calls -> Answer]
      /\ routed' = routed /\ adrift' \subseteq Calls
      /\ \A e \in Calls \ {c} : pc'[e] = pc[e] /\ Payload(e)' = Payload(e)
                                /\ Target(e)' = Target(e)
      /\ pc'[c] \in {"open", "result"}
      /\ pc'[c] = "open" => Payload(c)' \in Contents
  BY AnswerType
<1>2. SaveType'
  BY <1>1 DEF SaveInv, SaveType, settings
<1>3. \A e \in Calls : Underway(e)'
  BY <1>1, TargetExists DEF SaveInv, Underway
<1>4. Budget'
  <2>1. Used' \subseteq Used /\ Existing \subseteq Existing'
    BY DEF Used, Existing
  <2> QED
    BY <2>1, BudgetKept, SaveAssumption DEF SaveInv, SaveType, settings
<1> QED
  BY <1>1, <1>2, <1>3, <1>4 DEF SaveInv

\* Reading the config moves no file.
LEMMA RouteSafe ==
    ASSUME SaveInv, NEW c \in Calls, Route(c)
    PROVE  SaveInv'
<1>1. /\ pc' = [pc EXCEPT ![c] = "load"] /\ pc[c] = "open"
      /\ routed' = IF ToProject(c) THEN [routed EXCEPT ![c] = configured] ELSE routed
      /\ UNCHANGED <<file, rows, opened, lane, said, adrift, settings, failures>>
  BY DEF Route, Goes, stores
<1>2. SaveType' /\ pc' \in [Calls -> Standing]
  BY <1>1 DEF SaveInv, SaveType, settings, Standing
<1>3. \A d \in Calls : Underway(d)'
  <2>1. ASSUME NEW d \in Calls \ {c} PROVE Underway(d)'
    <3>1. pc'[d] = pc[d] /\ routed'[d] = routed[d]
      BY <1>1 DEF SaveInv, SaveType
    <3> QED
      BY <1>1, <3>1 DEF SaveInv, Underway, Payload, Target, ToProject, settings
  <2>2. Underway(c)'
    BY <1>1 DEF SaveInv, Underway, Payload
  <2> QED
    BY <2>1, <2>2
<1>4. Budget'
  BY <1>1, BudgetKept, SaveAssumption DEF SaveInv, SaveType, Used, Existing, settings
<1> QED
  BY <1>2, <1>3, <1>4 DEF SaveInv

LEMMA SaveStepSafe ==
    ASSUME SaveInv, NEW c \in Calls, SaveStep(c)
    PROVE  SaveInv'
<1>1. failures \in 0..MaxFailures /\ {"stored", "duplicate", "error"} \subseteq Statuses
  BY DEF SaveInv, SaveType, Statuses
<1>2. \A i \in Inodes : rows[i] # {} => i \in Used
  BY DEF Used
<1>3. CASE Open(c)
  BY <1>3, OpenSafe
<1>4. CASE OpenFails(c) \/ InsertFails(c)
  BY <1>1, <1>2, <1>4, AnswerSafe, FailureCounted
  DEF OpenFails, InsertFails, stores, SaveInv, SaveType
<1>5. CASE Insert(c)
  <2> DEFINE i == opened[Target(c)]
  <2>1. /\ i \in Inodes /\ Payload(c) \in Contents /\ Target(c) \in Databases
        /\ UNCHANGED <<file, opened, settings, failures>>
    BY <1>5, TargetExists DEF SaveInv, Underway, Insert
  <2>2. i \in Used
    BY <2>1 DEF Used
  <2>3. CASE rows' = [rows EXCEPT ![i] = @ \cup {Payload(c)}] /\ Answers(c, "stored")
    <3>1. rows' \in [Inodes -> SUBSET Contents]
      BY <2>1, <2>3 DEF SaveInv, SaveType
    <3>2. \A j \in Inodes : rows'[j] # {} => j \in Used
      BY <1>2, <2>1, <2>2, <2>3 DEF SaveInv, SaveType
    <3> QED
      BY <1>1, <2>1, <2>3, <3>1, <3>2, AnswerSafe
  <2>4. CASE UNCHANGED rows /\ Answers(c, "error")
    BY <1>1, <1>2, <2>1, <2>4, AnswerSafe DEF SaveInv, SaveType
  <2> QED
    BY <1>5, <2>3, <2>4 DEF Insert
<1>6. CASE Route(c)
  BY <1>6, RouteSafe
<1> QED
  BY <1>3, <1>4, <1>5, <1>6 DEF SaveStep

LEMMA StartSaveSafe ==
    ASSUME SaveInv, NEW c \in Calls, StartSave(c)
    PROVE  SaveInv'
<1>1. /\ lane' = [lane EXCEPT ![c] = IF Project[c] = None THEN "general" ELSE "project"]
      /\ pc' = [pc EXCEPT ![c] = "open"] /\ Saves(c)
      /\ UNCHANGED <<file, rows, opened, routed, said, adrift, settings, failures>>
  BY DEF StartSave, Goes, stores
<1>2. SaveType' /\ pc' \in [Calls -> Standing]
  BY <1>1 DEF SaveInv, SaveType, settings, Standing
<1>3. \A d \in Calls : Underway(d)'
  <2>1. ASSUME NEW d \in Calls \ {c} PROVE Underway(d)'
    BY <1>1, <2>1 DEF SaveInv, SaveType, Underway, Payload, Target, ToProject, settings
  <2>2. lane'[c] = (IF Project[c] = None THEN "general" ELSE "project") /\ pc'[c] = "open"
    BY <1>1 DEF SaveInv, SaveType
  <2>3. Underway(c)'
    BY <1>1, <2>2, SaveAssumption DEF Underway, Payload, Saves
  <2> QED
    BY <2>1, <2>3
<1>4. Budget'
  BY <1>1, BudgetKept, SaveAssumption DEF SaveInv, SaveType, Used, Existing, settings
<1> QED
  BY <1>2, <1>3, <1>4 DEF SaveInv

\* The hooks, and the tools that save nothing, create a file at most.
LEMMA HookStoresSafe ==
    ASSUME SaveInv, UNCHANGED <<settings, saving>>,
           pc' \in [Calls -> Standing],
           \A c \in Calls : pc'[c] \in {"open", "load", "embed"} => pc'[c] = pc[c],
           failures' \in 0..MaxFailures, UNCHANGED <<rows, opened>>,
           \E d \in Databases : file' \in {file, Created(d)}
    PROVE  SaveInv'
<1>1. Budget' /\ file' \in [Databases -> Inodes \cup {None}]
  BY FileMade, SaveAssumption DEF SaveInv, SaveType, settings
<1>2. SaveType'
  BY <1>1 DEF SaveInv, SaveType, settings, saving
<1>3. \A c \in Calls : Underway(c)'
  BY DEF SaveInv, Underway, Payload, Target, ToProject, settings, saving
<1> QED
  BY <1>1, <1>2, <1>3 DEF SaveInv

-----------------------------------------------------------------------------
(* The runtime.  It is the configured user's, or the disabled one, unless  *)
(* it strayed.                                                             *)

Cached == IF enabled THEN Users ELSE {Global}
RuntimeInv ==
    /\ runtime \in Cached \cup {None}
    /\ strayed \in BOOLEAN
    /\ ~strayed => runtime \in {None, Current}

LEMMA CurrentCached ==
    ASSUME SaveType
    PROVE  Current \in Cached /\ Current \in Databases /\ Current # None
           /\ Global # None /\ None \notin Users
BY SaveAssumption DEF SaveType, Current, Cached, Databases

\* However a runtime is resolved, it is the cached one or the current one.
LEMMA ResolvingDoes ==
    ASSUME SaveType, NEW ok \in BOOLEAN,
           Bootstraps(ok) \/ Resolves(ok) \/ ResolvesActive(ok)
    PROVE  /\ runtime' \in {runtime, Current}
           /\ failures' \in 0..MaxFailures /\ UNCHANGED <<rows, opened>>
           /\ \E d \in Databases : file' \in {file, Created(d)}
<1>1. Current \in Databases /\ failures \in 0..MaxFailures
  BY CurrentCached DEF SaveType
<1>2. ASSUME NEW b \in BOOLEAN, Bootstraps(b)
      PROVE  /\ runtime' \in {runtime, Current}
             /\ failures' \in 0..MaxFailures /\ UNCHANGED <<rows, opened>>
             /\ \E d \in Databases : file' \in {file, Created(d)}
  BY <1>1, <1>2, FailureCounted DEF Bootstraps
<1>3. ASSUME UNCHANGED <<runtime, failures, stores>>
      PROVE  /\ runtime' \in {runtime, Current}
             /\ failures' \in 0..MaxFailures /\ UNCHANGED <<rows, opened>>
             /\ \E d \in Databases : file' \in {file, Created(d)}
  BY <1>1, <1>3 DEF stores
<1> QED
  BY <1>2, <1>3 DEF Resolves, ResolvesActive

LEMMA ResolvedSet ==
    ASSUME SaveType, runtime \in Cached \cup {None}, Resolves(TRUE)
    PROVE  runtime' \in Cached /\ (runtime # None => runtime' = runtime)
BY CurrentCached DEF Resolves, Bootstraps

\* A step that resolves, or leaves the runtime, and not the settings.
LEMMA RuntimeKept ==
    ASSUME SaveType, RuntimeInv, runtime' \in {runtime, Current, None},
           UNCHANGED <<settings, strayed>>
    PROVE  RuntimeInv'
BY CurrentCached DEF RuntimeInv, Cached, Current, settings

LEMMA UserSetDoes ==
    ASSUME SaveInv, RuntimeInv, UserSet
    PROVE  /\ SaveInv' /\ RuntimeInv'
           /\ runtime' \in {runtime, Current'} /\ enabled' = enabled
<1>1. PICK v \in Users : Change(v)
  BY DEF UserSet
<1>2. failures' \in 0..MaxFailures
  BY FailureCounted DEF UserSet, SaveInv, SaveType
<1>3. SaveType' /\ Budget'
  BY <1>1, <1>2, FilesMoved DEF SaveInv
<1>4. UNCHANGED <<enabled, opened, saving, pc>>
  BY <1>1 DEF Change, UserSet, calls
<1>5. SaveInv'
  BY <1>3, <1>4 DEF SaveInv, Underway, Payload, Target, ToProject, saving
<1>6. runtime' \in {runtime, Current'}
  BY DEF UserSet
<1>7. RuntimeInv'
  <2>1. Current' \in Cached' /\ Cached' = Cached
    BY <1>3, <1>4, SaveAssumption DEF SaveType, Current, Cached
  <2>2. strayed' = (strayed \/ runtime' \notin {None, Current'})
    BY DEF UserSet
  <2> QED
    BY <1>6, <2>1, <2>2 DEF RuntimeInv
<1> QED
  BY <1>4, <1>5, <1>6, <1>7

\* Every step keeps the files, the saves and the runtime.
LEMMA SavingSafe ==
    ASSUME SaveInv, RuntimeInv, Next
    PROVE  SaveInv' /\ RuntimeInv'
<1>0. pc \in [Calls -> Standing] /\ SaveType /\ failures \in 0..MaxFailures
  BY DEF SaveInv, SaveType
<1>1. CASE SessionStart \/ BeforeAgentStart \/ AgentEnd
  <2>1. PICK ok \in BOOLEAN : Bootstraps(ok) \/ Resolves(ok)
    BY <1>1 DEF SessionStart, BeforeAgentStart, AgentEnd
  <2>2. UNCHANGED <<settings, saving, pc, strayed>>
    BY <1>1 DEF SessionStart, BeforeAgentStart, AgentEnd, calls, history
  <2>3. /\ runtime' \in {runtime, Current}
        /\ failures' \in 0..MaxFailures /\ UNCHANGED <<rows, opened>>
        /\ \E d \in Databases : file' \in {file, Created(d)}
    BY <1>0, <2>1, ResolvingDoes
  <2> QED
    BY <1>0, <2>2, <2>3, HookStoresSafe, RuntimeKept
<1>2. CASE AgentStart \/ Shutdown \/ Clear
  <2>1. UNCHANGED <<settings, failures, stores, saving, pc, strayed>>
        /\ runtime' \in {runtime, None}
    BY <1>2 DEF AgentStart, Shutdown, Clear, calls, history
  <2>2. \E d \in Databases : file' \in {file, Created(d)}
    BY <1>0, <2>1, CurrentCached DEF stores
  <2> QED
    BY <1>0, <2>1, <2>2, HookStoresSafe, RuntimeKept DEF stores
<1>3. CASE UserSet
  BY <1>3, UserSetDoes
<1>4. ASSUME NEW c \in Calls, StartsSave(c) \/ SavesOn(c)
      PROVE  SaveInv' /\ RuntimeInv'
  <2>1. UNCHANGED <<runtime, strayed>> /\ (StartSave(c) \/ SaveStep(c))
    BY <1>4 DEF StartsSave, SavesOn, maps, history
  <2>2. UNCHANGED settings
    BY <1>4 DEF StartsSave, SavesOn, StartSave, SaveStep, Route, Open, OpenFails,
                Insert, InsertFails
  <2> QED
    BY <1>0, <2>1, <2>2, StartSaveSafe, SaveStepSafe, RuntimeKept
<1>5. ASSUME NEW c \in Calls, Edits(c) \/ Journal(c)
      PROVE  SaveInv' /\ RuntimeInv'
  <2>1. UNCHANGED <<settings, failures, stores, saving, runtime, strayed>>
        /\ (Goes(c, "result") \/ Goes(c, "done"))
    BY <1>5 DEF Edits, Journal, maps, history
  <2>2. \E d \in Databases : file' \in {file, Created(d)}
    BY <1>0, <2>1, CurrentCached DEF stores
  <2>3. /\ pc' \in [Calls -> Standing]
        /\ \A d \in Calls : pc'[d] \in {"open", "load", "embed"} => pc'[d] = pc[d]
    BY <1>0, <2>1 DEF Goes, Standing, Ended
  <2> QED
    BY <1>0, <2>1, <2>2, <2>3, HookStoresSafe, RuntimeKept DEF stores
<1>6. ASSUME NEW c \in Calls, Notes(c) \/ Hook(c)
      PROVE  SaveInv' /\ RuntimeInv'
  <2>1. PICK ok \in BOOLEAN : Resolves(ok) \/ ResolvesActive(ok)
    BY <1>6 DEF Notes, Hook
  <2>2. /\ UNCHANGED <<settings, saving, strayed>>
        /\ \E to \in {"result", "journal", "done"} : Goes(c, to)
    BY <1>6 DEF Notes, Hook, history
  <2>3. /\ runtime' \in {runtime, Current}
        /\ failures' \in 0..MaxFailures /\ UNCHANGED <<rows, opened>>
        /\ \E d \in Databases : file' \in {file, Created(d)}
    BY <1>0, <2>1, ResolvingDoes
  <2>4. /\ pc' \in [Calls -> Standing]
        /\ \A d \in Calls : pc'[d] \in {"open", "load", "embed"} => pc'[d] = pc[d]
    BY <1>0, <2>2 DEF Goes, Standing, Ended
  <2> QED
    BY <1>0, <2>2, <2>3, <2>4, HookStoresSafe, RuntimeKept
<1> QED
  BY <1>1, <1>2, <1>3, <1>4, <1>5, <1>6 DEF Next, Step

-----------------------------------------------------------------------------
(* Requests.  While the session is open a call under way belongs to the    *)
(* request that runs.                                                      *)

CourseInv ==
    /\ phase \in {"new", "open", "closing", "closed"}
    /\ agent \in {"idle", "prompted", "running"}
    /\ request \in 0..MaxRequests
    /\ agent = "running" => request > 0
    /\ agent = "prompted" => request < MaxRequests
    /\ part \in [Calls -> 0..MaxRequests]
    /\ \A c \in Calls :
         /\ pc[c] = "idle" => part[c] = 0
         /\ pc[c] /= "idle" => part[c] \in 1..request
         /\ phase \in {"new", "open"} /\ pc[c] \notin {"idle", "done"} =>
              agent = "running" /\ part[c] = request

(* The compliance tracker is made at the bounds of a request, or by a hook *)
(* after the session was cleared.                                          *)
Hooked == {c \in Calls : pc[c] \in {"journal", "done"}}

TrackerRecord == [writes : Nat, ever : BOOLEAN]

ComplianceInv ==
    /\ compliance \in Compliances \cup {None}
    /\ trackers \in Nat
    /\ phase # "closed" =>
         /\ trackers = IF agent = "running" THEN 2 * request - 1 ELSE 2 * request
         /\ request > 0 => compliance # None
    /\ phase = "closed" =>
         trackers <= 2 * request + (IF compliance = None THEN 0 ELSE 1)
    /\ mine \in [Calls -> 0..(2 * MaxRequests + 2)]

(* What the tracker of the running request says is so: it counted calls of *)
(* the request, every one that is through and that a reminder could miss,  *)
(* and its artifacts are files that they edited.  What a reminder said at  *)
(* the end of a request stays so.                                          *)
EditsOf(r) == {c \in Calls : part[c] = r /\ EditsWorkspace(c)}
HeldOf(r) == {c \in Calls : part[c] = r /\ IsExplicit(c) /\ worked[c]}
SemanticOf(r) == {c \in HeldOf(r) : IsSemantic(c)}

Said(r, m) ==
    /\ m = "missing" => EditsOf(r) # {} /\ HeldOf(r) = {}
    /\ m = "operational" => EditsOf(r) # {} /\ SemanticOf(r) = {}
    /\ m = "coarse" =>
         Cardinality(SemanticOf(r)) < Cardinality({Touches[c] : c \in EditsOf(r)})
    /\ m = "intent" => EditsOf(r) # {} /\ ~\E c \in HeldOf(r) : ShowsUser(c)
    /\ m = "sources" =>
         EditsOf(r) # {} /\ \E c \in Calls : part[c] = r /\ LacksRefs(c)
    /\ m = "paths" =>
         EditsOf(r) # {} /\ \E c \in Calls : part[c] = r /\ IsSemantic(c)

Distinct(s) == \A i, j \in DOMAIN s : s[i] = s[j] => i = j

Counted == \A c \in Members(compliance.counted) : part[c] = request /\ IsCounted(c)
Listed ==
    /\ Distinct(compliance.artifacts)
    /\ \A f \in Members(compliance.artifacts) :
         \E c \in Members(compliance.counted) : Kind[c] = "edit" /\ f = Touches[c]
NoneMissed ==
    \A c \in HeldOf(request) : pc[c] = "done" => c \in Members(compliance.counted)
Borne == Counted /\ Listed /\ NoneMissed

ReminderInv ==
    /\ reminded \in [1..MaxRequests -> Reminders]
    /\ worked \in [Calls -> BOOLEAN]
    /\ \A c \in Calls :
         /\ pc[c] = "journal" => Kind[c] = "edit"
         /\ phase \in {"new", "open"} /\ IsExplicit(c) /\ worked[c] => runtime \in Users
    /\ phase \in {"new", "open"} /\ agent = "running" => Borne
    /\ \A r \in 1..MaxRequests : reminded[r] /= "none" =>
         r <= request /\ (r = request => agent /= "running") /\ Said(r, reminded[r])

(* A database that a counted save stored to and no checkpoint followed is  *)
(* one of the cached runtime, and the counter is above zero then, unless   *)
(* the last checkpoint was not made.                                       *)
CheckpointInv ==
    /\ tracker \in TrackerRecord \cup {None}
    /\ tracker # None => tracker.writes <= Cardinality(Hooked)
    /\ pending \subseteq Databases /\ unmade \subseteq Databases /\ left \subseteq Databases
    /\ ~strayed /\ phase \in {"new", "open"} =>
         /\ pending \subseteq {Global} \cup ({runtime} \cap Users)
         /\ pending # {} => runtime # None
         /\ pending \ unmade # {} => tracker # None /\ tracker.writes > 0
    /\ ~strayed /\ phase \in {"closing", "closed"} /\ "shutdown" \in Policy => left = {}

-----------------------------------------------------------------------------
(* How calls move.                                                         *)

LEMMA SaveMoves ==
    ASSUME NEW c \in Calls, SaveStep(c)
    PROVE  /\ pc[c] \in {"open", "load", "embed"}
           /\ \E to \in {"open", "load", "embed", "result"} : Goes(c, to)
BY DEF SaveStep, Route, Open, OpenFails, Insert, InsertFails, Answers

LEMMA StepMoves ==
    ASSUME NEW c \in Calls, Step(c)
    PROVE  /\ pc[c] \in {"open", "load", "embed", "result", "journal"}
           /\ \E to \in {"open", "load", "embed", "result", "journal", "done"} :
                /\ Goes(c, to)
                /\ pc[c] = "journal" => to = "done"
           /\ UNCHANGED <<course, part, worked>>
BY SaveMoves DEF Step, SavesOn, Hook, Journal, calls

LEMMA StartMoves ==
    ASSUME NEW c \in Calls, StartsSave(c) \/ Edits(c) \/ Notes(c)
    PROVE  /\ Starts(c) /\ UNCHANGED <<course, mine>>
           /\ \E to \in {"open", "result"} : Goes(c, to)
BY DEF StartsSave, StartSave, Edits, Notes

\* A hook that ran has run: their number grows.
LEMMA TalliesFinite ==
    /\ IsFiniteSet(Hooked) /\ Cardinality(Hooked) \in Nat
    /\ Cardinality(Calls) \in Nat /\ Cardinality(Hooked) <= Cardinality(Calls)
<1>1. Hooked \in SUBSET Calls
  BY DEF Hooked
<1> QED
  BY <1>1, SaveAssumption, FS_Subset, FS_CardinalityType

LEMMA TalliesKept ==
    ASSUME pc \in [Calls -> Standing],
           UNCHANGED pc \/ \E c \in Calls, to \in Standing :
                              Goes(c, to) /\ pc[c] \notin {"journal", "done"}
    PROVE  /\ Cardinality(Hooked') \in Nat
           /\ Cardinality(Hooked) <= Cardinality(Hooked')
<1>1. Hooked \in SUBSET Hooked'
  BY DEF Hooked, Goes
<1>2. Hooked' \in SUBSET Calls
  BY DEF Hooked
<1> QED
  BY <1>1, <1>2, SaveAssumption, FS_Subset, FS_CardinalityType

LEMMA HookTallied ==
    ASSUME pc \in [Calls -> Standing], NEW c \in Calls, pc[c] = "result",
           NEW to \in {"journal", "done"}, Goes(c, to)
    PROVE  Cardinality(Hooked') = Cardinality(Hooked) + 1
<1>1. Hooked' = Hooked \cup {c} /\ c \notin Hooked
  BY DEF Hooked, Goes
<1> QED
  BY <1>1, TalliesFinite, FS_AddElement

LEMMA JournalTallied ==
    ASSUME pc \in [Calls -> Standing], NEW c \in Calls, pc[c] = "journal", Goes(c, "done")
    PROVE  Hooked' = Hooked
BY DEF Hooked, Goes

-----------------------------------------------------------------------------
LEMMA CourseSafe ==
    ASSUME pc \in [Calls -> Standing], CourseInv, Next
    PROVE  CourseInv'
<1>0. MaxRequests \in Nat
  BY HookAssumption
<1>1. CASE SessionStart \/ UserSet \/ Shutdown \/ Clear
  BY <1>1 DEF CourseInv, SessionStart, UserSet, Shutdown, Clear, Change, calls, course
<1>2. CASE BeforeAgentStart
  BY <1>2 DEF CourseInv, BeforeAgentStart, calls
<1>3. CASE AgentStart
  <2>1. /\ request' = request + 1 /\ request' \in 0..MaxRequests
        /\ UNCHANGED <<phase, pc, part>> /\ agent = "prompted" /\ agent' = "running"
    BY <1>0, <1>3 DEF AgentStart, CourseInv, calls
  <2>2. \A c \in Calls : part[c] \in 1..request => part[c] \in 1..request'
    BY <1>0, <2>1 DEF CourseInv
  <2>3. request' > 0
    BY <2>1 DEF CourseInv
  <2> QED
    BY <2>1, <2>2, <2>3 DEF CourseInv
<1>4. CASE AgentEnd
  BY <1>4 DEF CourseInv, AgentEnd, calls, Ended
<1>5. ASSUME NEW c \in Calls, StartsSave(c) \/ Edits(c) \/ Notes(c)
      PROVE  CourseInv'
  BY <1>0, <1>5, StartMoves DEF CourseInv, Starts, Goes, course
<1>6. ASSUME NEW c \in Calls, Step(c)
      PROVE  CourseInv'
  BY <1>0, <1>6, StepMoves DEF CourseInv, Goes, course
<1> QED
  BY <1>1, <1>2, <1>3, <1>4, <1>5, <1>6 DEF Next

-----------------------------------------------------------------------------
(* Lists of calls and of files.                                            *)

LEMMA Appended ==
    ASSUME NEW S, NEW s \in Seq(S), NEW e \in S
    PROVE  /\ Append(s, e) \in Seq(S)
           /\ Members(Append(s, e)) = Members(s) \cup {e}
           /\ Distinct(s) /\ e \notin Members(s) => Distinct(Append(s, e))
BY DEF Members, Distinct

LEMMA TailOf ==
    ASSUME NEW S, NEW s \in Seq(S), Len(s) > 0
    PROVE  /\ Tail(s) \in Seq(S) /\ Members(Tail(s)) \subseteq Members(s)
           /\ Distinct(s) => Distinct(Tail(s))
BY DEF Members, Distinct

\* One more file is among the last ones, and no file is among them twice.
LEMMA RecordedLists ==
    ASSUME NEW s \in Seq(Files), NEW f \in Files \cup {None}
    PROVE  /\ Recorded(s, f) \in Seq(Files)
           /\ Members(Recorded(s, f)) \subseteq Members(s) \cup ({f} \ {None})
           /\ Distinct(s) => Distinct(Recorded(s, f))
<1>1. CASE f = None \/ f \in Members(s)
  BY <1>1 DEF Recorded
<1>2. CASE f \in Files /\ f # None /\ f \notin Members(s)
  <2> DEFINE k == IF Len(s) >= EvidenceLimit THEN Tail(s) ELSE s
  <2>1. /\ k \in Seq(Files) /\ Members(k) \subseteq Members(s)
        /\ Distinct(s) => Distinct(k)
    BY TailOf, HookAssumption
  <2>2. Recorded(s, f) = Append(k, f)
    BY <1>2 DEF Recorded
  <2> HIDE DEF k
  <2> QED
    BY <1>2, <2>1, <2>2, Appended
<1> QED
  BY <1>1, <1>2

\* As many files as their list is long.
LEMMA DistinctCounted ==
    ASSUME NEW s \in Seq(Files), Distinct(s)
    PROVE  IsFiniteSet(Members(s)) /\ Cardinality(Members(s)) = Len(s)
<1>1. s \in Bijection(1..Len(s), Members(s))
  BY DEF Members, Distinct, Bijection, Injection, Surjection, IsInjective
<1>2. Len(s) \in Nat /\ ExistsBijection(1..Len(s), Members(s))
  BY <1>1 DEF ExistsBijection
<1> QED
  BY <1>2, FS_NatBijection, FS_CountingElements

-----------------------------------------------------------------------------
(* The compliance tracker.                                                 *)

LEMMA BlankKnown ==
    /\ Blank \in Compliances /\ None \notin Compliances
    /\ Members(Blank.counted) = {} /\ Members(Blank.artifacts) = {}
    /\ Distinct(Blank.artifacts)
BY HookAssumption DEF Blank, Compliances, Members, Distinct

LEMMA ComplianceFields ==
    ASSUME NEW t \in Compliances
    PROVE  /\ t.counted \in Seq(Calls) /\ t.journaled \in SUBSET Calls
           /\ t.artifacts \in Seq(Files) /\ t.sources \in Seq(Files)
           /\ t.covered \in SUBSET Files /\ t.evident \in SUBSET Calls
BY DEF Compliances

\* What a hook makes of the tracker.
LEMMA NotedFields ==
    ASSUME NEW t \in Compliances, NEW c \in Calls, IsCounted(c)
    PROVE  /\ Noted(t, c) \in Compliances
           /\ Noted(t, c).counted = Append(t.counted, c)
           /\ Noted(t, c).artifacts =
                IF Kind[c] = "edit" THEN Recorded(t.artifacts, Touches[c]) ELSE t.artifacts
<1> DEFINE counted == Append(t.counted, c)
           artifacts ==
             IF Kind[c] = "edit" THEN Recorded(t.artifacts, Touches[c]) ELSE t.artifacts
           sources ==
             IF Kind[c] = "read" THEN Recorded(t.sources, Touches[c]) ELSE t.sources
           covered == t.covered \cup (Names(c) \cap Members(t.artifacts))
           evident ==
             IF Names(c) \cap (Members(t.artifacts) \cup Members(t.sources)) /= {}
             THEN t.evident \cup {c} ELSE t.evident
<1>1. /\ counted \in Seq(Calls) /\ artifacts \in Seq(Files) /\ sources \in Seq(Files)
      /\ covered \in SUBSET Files /\ evident \in SUBSET Calls
      /\ t.journaled \in SUBSET Calls
  <2>1. Touches[c] \in Files \cup {None}
    BY HookAssumption
  <2>2. artifacts \in Seq(Files) /\ sources \in Seq(Files)
    BY <2>1, RecordedLists, ComplianceFields
  <2>3. covered \in SUBSET Files
    BY ComplianceFields DEF Members
  <2> QED
    BY <2>2, <2>3, ComplianceFields, Appended
<1>2. Noted(t, c) = [counted |-> counted, journaled |-> t.journaled,
                     artifacts |-> artifacts, sources |-> sources,
                     covered |-> covered, evident |-> evident]
  BY DEF Noted, Compliances
<1> HIDE DEF counted, artifacts, sources, covered, evident
<1>3. Noted(t, c) \in Compliances
  BY <1>1, <1>2 DEF Compliances
<1>4. Noted(t, c).counted = counted /\ Noted(t, c).artifacts = artifacts
  BY <1>2
<1> QED
  BY <1>3, <1>4 DEF counted, artifacts

LEMMA NotedType ==
    ASSUME NEW t \in Compliances, NEW c \in Calls
    PROVE  Noted(t, c) \in Compliances
BY NotedFields DEF Noted

LEMMA JournaledFields ==
    ASSUME NEW t \in Compliances, NEW c \in Calls
    PROVE  LET n == [t EXCEPT !.journaled = @ \cup {c}]
           IN  /\ n \in Compliances
               /\ n.counted = t.counted /\ n.artifacts = t.artifacts
<1> DEFINE j == t.journaled \cup {c}
           n == [t EXCEPT !.journaled = j]
<1>1. j \in SUBSET Calls
  BY ComplianceFields
<1> HIDE DEF j
<1>2. n = [counted |-> t.counted, journaled |-> j,
           artifacts |-> t.artifacts, sources |-> t.sources,
           covered |-> t.covered, evident |-> t.evident]
  BY DEF Compliances
<1>3. n.counted = t.counted /\ n.artifacts = t.artifacts
  BY <1>2
<1>4. n \in Compliances
  <2> HIDE DEF n
  <2> QED
    BY <1>1, <1>2, ComplianceFields DEF Compliances
<1> QED
  BY <1>3, <1>4 DEF j

LEMMA ComplianceSafe ==
    ASSUME pc \in [Calls -> Standing], CourseInv, ComplianceInv, Next
    PROVE  ComplianceInv'
<1>0. /\ MaxRequests \in Nat /\ request \in 0..MaxRequests
      /\ Blank \in Compliances /\ None \notin Compliances
  BY HookAssumption, BlankKnown DEF CourseInv
<1>1. CASE SessionStart \/ BeforeAgentStart \/ UserSet \/ Shutdown
  BY <1>1 DEF ComplianceInv, SessionStart, BeforeAgentStart, UserSet, Shutdown, Change,
              calls, course
<1>2. CASE AgentStart \/ AgentEnd
  <2>1. UNCHANGED <<pc, mine>> /\ phase = "open" /\ phase' = "open"
        /\ compliance' = Blank /\ trackers' = trackers + 1
    BY <1>2 DEF AgentStart, AgentEnd, Resets, calls
  <2>2. trackers' = IF agent' = "running" THEN 2 * request' - 1 ELSE 2 * request'
    BY <1>0, <1>2, <2>1 DEF ComplianceInv, AgentStart, AgentEnd
  <2> QED
    BY <1>0, <2>1, <2>2 DEF ComplianceInv
<1>3. CASE Clear
  <2>1. UNCHANGED <<pc, mine, request, trackers>> /\ phase = "closing" /\ phase' = "closed"
        /\ compliance' = None
    BY <1>3 DEF Clear, calls
  <2>2. trackers <= 2 * request
    BY <1>0, <2>1 DEF ComplianceInv
  <2> QED
    BY <1>0, <2>1, <2>2 DEF ComplianceInv
<1>4. ASSUME NEW c \in Calls, StartsSave(c) \/ Edits(c) \/ Notes(c) \/ SavesOn(c)
      PROVE  ComplianceInv'
  <2>1. UNCHANGED <<phase, agent, request, mine, compliance, trackers>>
    BY <1>4, StartMoves DEF StartsSave, Edits, Notes, SavesOn, maps, course
  <2> QED
    BY <2>1 DEF ComplianceInv
<1>5. ASSUME NEW c \in Calls, Hook(c)
      PROVE  ComplianceInv'
  <2>1. pc[c] = "result" /\ UNCHANGED <<phase, agent, request>>
    BY <1>5 DEF Hook, course
  <2>2. part[c] \in 1..request
    BY <2>1 DEF CourseInv
  <2>3. phase # "closed" => compliance # None
    BY <1>0, <2>2 DEF ComplianceInv
  <2>4. CASE UNCHANGED <<compliance, trackers, mine>>
    BY <2>1, <2>4 DEF ComplianceInv
  <2>5. CASE /\ LET t == IF compliance = None THEN Blank ELSE compliance
                IN  compliance' = IF runtime' \in Users THEN Noted(t, c) ELSE t
             /\ trackers' = IF compliance = None THEN trackers + 1 ELSE trackers
             /\ mine' = [mine EXCEPT ![c] = trackers']
    <3>1. compliance' \in Compliances /\ compliance' # None
      BY <1>0, <2>5, NotedType DEF ComplianceInv
    <3>2. /\ trackers' \in Nat
          /\ phase # "closed" => trackers' = trackers
          /\ phase = "closed" => trackers' <= 2 * request + 1
      BY <1>0, <2>3, <2>5 DEF ComplianceInv
    <3>3. trackers' \in 0..(2 * MaxRequests + 2)
      BY <1>0, <3>2 DEF ComplianceInv
    <3>4. mine' \in [Calls -> 0..(2 * MaxRequests + 2)]
      BY <2>5, <3>3 DEF ComplianceInv
    <3> QED
      BY <2>1, <2>3, <3>1, <3>2, <3>4 DEF ComplianceInv
  <2> QED
    BY <1>5, <2>4, <2>5 DEF Hook
<1>6. ASSUME NEW c \in Calls, Journal(c)
      PROVE  ComplianceInv'
  <2>1. UNCHANGED <<phase, agent, request, mine, trackers>>
    BY <1>6 DEF Journal, course
  <2>2. compliance' = compliance
        \/ (compliance # None
            /\ compliance' = [compliance EXCEPT !.journaled = @ \cup {c}])
    BY <1>6 DEF Journal
  <2>3. compliance # None => compliance' \in Compliances
    BY <2>2, JournaledFields DEF ComplianceInv
  <2> QED
    BY <1>0, <2>1, <2>2, <2>3 DEF ComplianceInv
<1> QED
  BY <1>1, <1>2, <1>3, <1>4, <1>5, <1>6 DEF Next, Step

-----------------------------------------------------------------------------
(* Reminders.                                                              *)

\* A runtime of a user stays one of a user while the session is open.
LEMMA UsersStay ==
    ASSUME SaveType, SaveType', RuntimeInv, runtime \in Users,
           runtime' \in {runtime, Current, Current'}, enabled' = enabled
    PROVE  runtime' \in Users
BY SaveAssumption DEF SaveType, RuntimeInv, Cached, Current

\* What was said of a request does not change with the calls of others.
LEMMA SaidKept ==
    ASSUME NEW r, NEW m, Said(r, m),
           \A c \in Calls : part'[c] = r <=> part[c] = r,
           \A c \in Calls : part[c] = r => worked'[c] = worked[c]
    PROVE  Said(r, m)'
<1>1. EditsOf(r)' = EditsOf(r)
  BY DEF EditsOf, EditsWorkspace
<1>2. HeldOf(r)' = HeldOf(r)
  BY DEF HeldOf, IsExplicit
<1>3. SemanticOf(r)' = SemanticOf(r)
  BY <1>2 DEF SemanticOf, IsSemantic
<1>4. {Touches[c] : c \in EditsOf(r)}' = {Touches[c] : c \in EditsOf(r)}
  BY <1>1
<1>5. \A c \in Calls : /\ ShowsUser(c)' <=> ShowsUser(c)
                       /\ LacksRefs(c)' <=> LacksRefs(c)
                       /\ IsSemantic(c)' <=> IsSemantic(c)
  BY DEF ShowsUser, LacksRefs, IsSemantic
<1> QED
  BY <1>1, <1>2, <1>3, <1>4, <1>5 DEF Said

\* The tracker is as it was, and no further call is through that it would miss.
LEMMA BorneKept ==
    ASSUME Borne, request' = request, compliance'.counted = compliance.counted,
           compliance'.artifacts = compliance.artifacts,
           \A c \in Calls :
             /\ part[c] = request => part'[c] = request /\ worked'[c] = worked[c]
             /\ part'[c] = request /\ pc'[c] = "done" /\ IsExplicit(c) /\ worked'[c] =>
                  part[c] = request /\ pc[c] = "done",
           compliance.counted \in Seq(Calls)
    PROVE  Borne'
<1>1. Members(compliance.counted) \subseteq Calls
  BY DEF Members
<1>2. Counted'
  BY <1>1 DEF Borne, Counted, IsCounted, EditsWorkspace, IsExplicit, Members
<1>3. Listed'
  BY DEF Borne, Listed, Members, Distinct
<1>4. NoneMissed'
  BY DEF Borne, NoneMissed, HeldOf, IsExplicit, Members
<1> QED
  BY <1>2, <1>3, <1>4 DEF Borne

\* A hook that counts its call lists at most the file the call edits.
LEMMA BorneGrows ==
    ASSUME Borne, compliance \in Compliances, NEW c \in Calls, IsCounted(c),
           part[c] = request, UNCHANGED <<part, worked, request>>,
           compliance' = Noted(compliance, c),
           \A d \in Calls \ {c} : pc'[d] = pc[d]
    PROVE  Borne'
<1> DEFINE s == compliance.counted
           l == compliance.artifacts
<1>1. /\ compliance'.counted = Append(s, c)
      /\ compliance'.artifacts = IF Kind[c] = "edit" THEN Recorded(l, Touches[c]) ELSE l
  BY NotedFields
<1>2. s \in Seq(Calls) /\ l \in Seq(Files) /\ Touches[c] \in Files \cup {None}
  BY ComplianceFields, HookAssumption
<1>3. Members(compliance'.counted) = Members(s) \cup {c}
  BY <1>1, <1>2, Appended
<1>4. /\ Members(compliance'.artifacts)
           \subseteq Members(l) \cup (IF Kind[c] = "edit" THEN {Touches[c]} ELSE {})
      /\ Distinct(compliance'.artifacts)
  BY <1>1, <1>2, RecordedLists DEF Borne, Listed
<1>6. Counted'
  BY <1>3 DEF Borne, Counted, IsCounted, EditsWorkspace, IsExplicit, Members
<1>7. Listed'
  <2>1. \A f \in Members(l) : \E d \in Members(s) : Kind[d] = "edit" /\ f = Touches[d]
    BY DEF Borne, Listed
  <2>2. \A f \in Members(compliance'.artifacts) :
          \E d \in Members(compliance'.counted) : Kind[d] = "edit" /\ f = Touches[d]
    <3> HIDE DEF s, l
    <3> QED
      BY <1>3, <1>4, <2>1
  <2> QED
    BY <1>4, <2>2 DEF Listed, Members, Distinct
<1>8. NoneMissed'
  BY <1>3 DEF Borne, NoneMissed, HeldOf, IsExplicit, Members
<1> QED
  BY <1>6, <1>7, <1>8 DEF Borne

\* Steps at whose end nothing new is said.
LEMMA ReminderKept ==
    ASSUME ReminderInv, CourseInv, CourseInv', UNCHANGED reminded,
           worked' \in [Calls -> BOOLEAN], request <= request',
           agent' = "running" => agent = "running" \/ request' = request + 1,
           \A c \in Calls :
             /\ part[c] # 0 => part'[c] = part[c] /\ worked'[c] = worked[c]
             /\ part[c] = 0 /\ part'[c] # 0 => part'[c] = request' /\ agent' = "running"
             /\ pc'[c] = "journal" => Kind[c] = "edit"
             /\ phase' \in {"new", "open"} /\ IsExplicit(c) /\ worked'[c] =>
                  runtime' \in Users,
           phase' \in {"new", "open"} /\ agent' = "running" => Borne'
    PROVE  ReminderInv'
<1>0. request \in Nat /\ request' \in Nat /\ MaxRequests \in Nat
  BY HookAssumption DEF CourseInv
<1>1. ASSUME NEW r \in 1..MaxRequests, reminded'[r] # "none"
      PROVE  /\ r <= request' /\ (r = request' => agent' /= "running")
             /\ \E m : m = reminded'[r] /\ Said(r, m)'
  <2>1. /\ reminded'[r] = reminded[r]
        /\ r <= request /\ (r = request => agent /= "running") /\ Said(r, reminded[r])
    BY <1>1 DEF ReminderInv
  <2>2. r <= request' /\ (r = request' => agent' /= "running")
    BY <1>0, <2>1
  <2>3. \A c \in Calls : part'[c] = r <=> part[c] = r
    BY <1>0, <2>2
  <2>4. \A c \in Calls : part[c] = r => worked'[c] = worked[c]
    BY <1>0
  <2>5. PICK m : m = reminded[r]
    OBVIOUS
  <2>6. Said(r, m)'
    BY <2>1, <2>3, <2>4, <2>5, SaidKept
  <2> QED
    BY <2>1, <2>2, <2>5, <2>6
<1>2. /\ reminded' \in [1..MaxRequests -> Reminders]
      /\ \A c \in Calls : IsExplicit(c)' <=> IsExplicit(c)
  BY DEF ReminderInv, IsExplicit
<1>3. \A r \in 1..MaxRequests : reminded'[r] # "none" => Said(r, reminded[r])'
  <2> TAKE r \in 1..MaxRequests
  <2> HAVE reminded'[r] # "none"
  <2> QED
    BY <1>1 DEF Said
<1> QED
  BY <1>1, <1>2, <1>3 DEF ReminderInv

LEMMA ReminderStarts ==
    ASSUME SaveInv, RuntimeInv, CourseInv, ComplianceInv, ReminderInv, SaveInv', CourseInv',
           NEW c \in Calls, StartsSave(c) \/ Edits(c) \/ Notes(c)
    PROVE  ReminderInv'
<1>0. /\ pc[c] = "idle" /\ phase = "open" /\ agent = "running"
      /\ part' = [part EXCEPT ![c] = request] /\ part[c] = 0
      /\ UNCHANGED <<phase, agent, request, reminded>>
      /\ \E to \in {"open", "result"} : Goes(c, to)
      /\ request > 0 /\ request \in Nat
  BY StartMoves DEF Starts, course, CourseInv
<1>1. /\ worked' \in [Calls -> BOOLEAN] /\ UNCHANGED compliance
      /\ \A d \in Calls \ {c} : worked'[d] = worked[d]
  BY <1>0 DEF ReminderInv, StartsSave, Edits, Notes, maps
<1>2. /\ enabled' = enabled /\ runtime' \in {runtime, Current}
      /\ IsExplicit(c) /\ worked'[c] => runtime' \in Users
  <2>1. CASE StartsSave(c)
    BY <2>1 DEF StartsSave, StartSave, maps, settings, IsExplicit
  <2>2. CASE Edits(c)
    BY <2>2 DEF Edits, maps, settings, IsExplicit
  <2>3. CASE Notes(c)
    <3>1. PICK ok \in BOOLEAN :
            ResolvesActive(ok) /\ worked' = [worked EXCEPT ![c] = ok]
      BY <2>3 DEF Notes
    <3>2. ok => runtime' \in Users
      BY <3>1 DEF ResolvesActive
    <3>3. runtime' \in {runtime, Current}
      BY <3>1, ResolvingDoes DEF SaveInv
    <3> QED
      BY <2>3, <3>1, <3>2, <3>3 DEF Notes, ReminderInv, settings
  <2> QED
    BY <2>1, <2>2, <2>3
<1>3. runtime \in Users => runtime' \in Users
  BY <1>2, UsersStay DEF SaveInv
<1>4. \A d \in Calls :
        /\ part[d] # 0 => part'[d] = part[d] /\ worked'[d] = worked[d]
        /\ part[d] = 0 /\ part'[d] # 0 => part'[d] = request'
        /\ pc'[d] = "journal" => Kind[d] = "edit"
        /\ IsExplicit(d) /\ worked'[d] => runtime' \in Users
  BY <1>0, <1>1, <1>2, <1>3 DEF ReminderInv, Goes, SaveInv, CourseInv
<1>5. Borne'
  <2>1. compliance \in Compliances /\ compliance.counted \in Seq(Calls)
    BY <1>0, ComplianceFields DEF ComplianceInv
  <2>2. \A d \in Calls :
          /\ part[d] = request => part'[d] = request /\ worked'[d] = worked[d]
          /\ pc'[d] = "done" => d # c /\ part'[d] = part[d] /\ pc'[d] = pc[d]
    BY <1>0, <1>1 DEF Goes, SaveInv, CourseInv
  <2>3. Borne
    BY <1>0 DEF ReminderInv
  <2> QED
    BY <1>0, <1>1, <2>1, <2>2, <2>3, BorneKept
<1> QED
  BY <1>0, <1>1, <1>4, <1>5, ReminderKept

LEMMA ReminderHook ==
    ASSUME SaveInv, RuntimeInv, CourseInv, ComplianceInv, ReminderInv, SaveInv', CourseInv',
           NEW c \in Calls, Hook(c)
    PROVE  ReminderInv'
<1>0. /\ pc[c] = "result" /\ UNCHANGED <<phase, agent, request, reminded, part, worked>>
      /\ part[c] \in 1..request /\ enabled' = enabled
      /\ \A d \in Calls \ {c} : pc'[d] = pc[d]
      /\ request \in Nat
  <2>1. request \in Nat /\ part[c] \in 1..request
    BY HookAssumption DEF Hook, CourseInv
  <2> QED
    BY <2>1 DEF Hook, course, settings, Goes, SaveInv
<1>1. runtime' \in {runtime, Current}
  BY ResolvingDoes DEF Hook, SaveInv
<1>2. runtime \in Users => runtime' \in Users
  BY <1>0, <1>1, UsersStay DEF SaveInv
<1>3. ASSUME phase \in {"new", "open"}, agent = "running"
      PROVE  Borne'
  <2>1. compliance # None /\ compliance \in Compliances /\ part[c] = request /\ Borne
        /\ compliance.counted \in Seq(Calls)
    BY <1>0, <1>3, ComplianceFields DEF ComplianceInv, CourseInv, ReminderInv
  <2>2. IsExplicit(c) /\ worked[c] => runtime \in Users
    BY <1>3 DEF ReminderInv
  <2>3. CASE compliance' = compliance /\ ~(IsExplicit(c) /\ worked[c])
    BY <1>0, <2>1, <2>3, BorneKept
  <2>4. CASE compliance' = Noted(compliance, c)
    <3>1. CASE IsCounted(c)
      BY <1>0, <2>1, <2>4, <3>1, BorneGrows
    <3>2. CASE ~IsCounted(c)
      BY <2>3, <2>4, <3>2 DEF Noted, IsCounted
    <3> QED
      BY <3>1, <3>2
  <2>5. CASE Resolves(FALSE) /\ UNCHANGED compliance
    <3>1. runtime = None
      BY <2>5 DEF Resolves
    <3> QED
      BY <2>2, <2>3, <2>5, <3>1, SaveAssumption
  <2>6. CASE compliance' = IF runtime' \in Users THEN Noted(compliance, c) ELSE compliance
    BY <1>2, <2>2, <2>3, <2>4, <2>6
  <2> QED
    BY <2>1, <2>5, <2>6 DEF Hook
<1>4. pc'[c] = "journal" => Kind[c] = "edit"
  BY <1>0 DEF Hook, Goes, Journaled, EditsWorkspace, SaveInv
<1>5. \A d \in Calls :
        /\ pc'[d] = "journal" => Kind[d] = "edit"
        /\ phase' \in {"new", "open"} /\ IsExplicit(d) /\ worked'[d] => runtime' \in Users
  BY <1>0, <1>2, <1>4 DEF ReminderInv
<1>6. worked' \in [Calls -> BOOLEAN]
  BY <1>0 DEF ReminderInv
<1> QED
  BY <1>0, <1>3, <1>5, <1>6, ReminderKept

\* What the end of a request says.
LEMMA ReminderSaid ==
    ASSUME Borne, compliance \in Compliances,
           \A c \in Calls : part[c] = request => pc[c] = "done"
    PROVE  Said(request, Reminder(compliance)) /\ Reminder(compliance) \in Reminders
<1> DEFINE t == compliance
           counted == Members(t.counted)
           held == HeldOf(request)
           edits == EditsOf(request)
<1>1. counted \subseteq Calls /\ t.counted \in Seq(Calls) /\ t.artifacts \in Seq(Files)
  BY ComplianceFields DEF Members
<1>2. held \subseteq counted
  BY DEF Borne, NoneMissed, HeldOf
<1>3. \A c \in counted : /\ part[c] = request
                         /\ Kind[c] = "edit" => c \in edits
  BY <1>1 DEF Borne, Counted, EditsOf, IsCounted, IsExplicit
<1>4. \A c \in Calls : (IsSemantic(c) => IsExplicit(c)) /\ (LacksRefs(c) => IsExplicit(c))
  BY DEF IsSemantic, LacksRefs, IsExplicit
<1>5. Reminder(t) \in Reminders
  BY DEF Reminder, Reminders
<1>6. Reminder(t) # "none" => edits # {}
  BY <1>3 DEF Reminder
<1>7. Reminder(t) = "missing" => held = {}
  BY <1>2 DEF Reminder, HeldOf
<1>8. Reminder(t) = "operational" => SemanticOf(request) = {}
  BY <1>2 DEF Reminder, SemanticOf
<1>9. ASSUME Reminder(t) = "coarse"
      PROVE  Cardinality(SemanticOf(request)) < Cardinality({Touches[c] : c \in edits})
  <2> DEFINE semantic == {c \in counted : IsSemantic(c)}
             touched == {Touches[c] : c \in edits}
  <2>1. Cardinality(semantic) < Len(t.artifacts)
    BY <1>9 DEF Reminder, IsCoarse
  <2>2. Len(t.artifacts) = Cardinality(Members(t.artifacts))
        /\ IsFiniteSet(Members(t.artifacts))
    BY <1>1, DistinctCounted DEF Borne, Listed
  <2>3. Members(t.artifacts) \in SUBSET touched
    BY <1>3 DEF Borne, Listed
  <2>4. IsFiniteSet(edits) /\ IsFiniteSet(touched)
    <3>1. edits \in SUBSET Calls
      BY DEF EditsOf
    <3>2. IsFiniteSet(edits)
      BY <3>1, SaveAssumption, FS_Subset
    <3>3. [c \in edits |-> Touches[c]] \in Surjection(edits, touched)
      BY DEF Surjection
    <3> QED
      BY <3>2, <3>3, FS_Surjection
  <2>5. semantic \in SUBSET Calls /\ SemanticOf(request) \in SUBSET semantic
    BY <1>1, <1>2 DEF SemanticOf
  <2>6. IsFiniteSet(semantic) /\ Cardinality(semantic) \in Nat
        /\ Cardinality(SemanticOf(request)) \in Nat
        /\ Cardinality(SemanticOf(request)) <= Cardinality(semantic)
    <3>1. IsFiniteSet(semantic)
      BY <2>5, SaveAssumption, FS_Subset
    <3> QED
      BY <2>5, <3>1, FS_Subset, FS_CardinalityType
  <2>7. Cardinality(Members(t.artifacts)) <= Cardinality(touched)
        /\ Cardinality(touched) \in Nat
    BY <2>3, <2>4, FS_Subset, FS_CardinalityType
  <2>8. Len(t.artifacts) \in Nat
    BY <1>1
  <2> HIDE DEF semantic, touched
  <2>9. Cardinality(SemanticOf(request)) < Cardinality(touched)
    BY <2>1, <2>2, <2>6, <2>7, <2>8
  <2> QED
    BY <2>9 DEF touched
<1>10. Reminder(t) = "intent" => ~\E c \in held : ShowsUser(c)
  BY <1>2 DEF Reminder
<1>11. Reminder(t) = "sources" => \E c \in Calls : part[c] = request /\ LacksRefs(c)
  BY <1>1, <1>3 DEF Reminder
<1>12. Reminder(t) = "paths" => \E c \in Calls : part[c] = request /\ IsSemantic(c)
  BY <1>1, <1>3 DEF Reminder
<1> QED
  BY <1>5, <1>6, <1>7, <1>8, <1>9, <1>10, <1>11, <1>12 DEF Said

LEMMA ReminderAgentEnd ==
    ASSUME SaveInv, RuntimeInv, CourseInv, ComplianceInv, ReminderInv, SaveInv', AgentEnd
    PROVE  ReminderInv'
<1>0. /\ UNCHANGED <<pc, part, worked, phase, request>> /\ enabled' = enabled
      /\ phase = "open" /\ agent = "running" /\ agent' = "idle"
      /\ \A c \in Calls : part[c] = request => pc[c] = "done"
      /\ request \in 1..MaxRequests
  BY HookAssumption DEF AgentEnd, calls, settings, Ended, CourseInv
<1>1. PICK ok \in BOOLEAN :
        /\ Resolves(ok)
        /\ reminded' = [reminded EXCEPT ![request] =
                          IF ok /\ runtime' \in Users THEN Reminder(compliance) ELSE @]
  BY DEF AgentEnd
<1>2. runtime \in Users => runtime' \in Users
  BY <1>0, <1>1, ResolvingDoes, UsersStay DEF SaveInv
<1>3. Said(request, Reminder(compliance)) /\ Reminder(compliance) \in Reminders
  BY <1>0, ReminderSaid DEF ReminderInv, ComplianceInv, CourseInv
<1>4. PICK q, m : q = request /\ m = Reminder(compliance)
  OBVIOUS
<1>5. q \in 1..MaxRequests /\ reminded[q] = "none" /\ Said(q, m) /\ m \in Reminders
      /\ reminded' \in {reminded, [reminded EXCEPT ![q] = m]}
  BY <1>0, <1>1, <1>3, <1>4 DEF ReminderInv
<1>6. reminded' \in [1..MaxRequests -> Reminders]
  BY <1>5 DEF ReminderInv
<1>7. ASSUME NEW r \in 1..MaxRequests, reminded'[r] # "none"
      PROVE  r <= request /\ \E w : w = reminded'[r] /\ Said(r, w)'
  <2>1. PICK w : w = reminded'[r]
    OBVIOUS
  <2>2. r <= request /\ Said(r, w)
    <3>1. CASE reminded'[r] = reminded[r]
      BY <1>7, <2>1, <3>1 DEF ReminderInv
    <3>2. CASE reminded'[r] # reminded[r]
      <4>1. r = q /\ w = m
        BY <1>5, <2>1, <3>2 DEF ReminderInv
      <4> QED
        BY <1>0, <1>4, <1>5, <4>1
    <3> QED
      BY <3>1, <3>2
  <2>3. Said(r, w)'
    BY <1>0, <2>2, SaidKept
  <2> QED
    BY <2>1, <2>2, <2>3
<1>8. worked' \in [Calls -> BOOLEAN]
      /\ \A c \in Calls :
           /\ pc'[c] = "journal" => Kind[c] = "edit"
           /\ phase' \in {"new", "open"} /\ IsExplicit(c) /\ worked'[c] => runtime' \in Users
  BY <1>0, <1>2 DEF ReminderInv
<1>9. \A c \in Calls : IsExplicit(c)' <=> IsExplicit(c)
  BY DEF IsExplicit
<1>10. \A r \in 1..MaxRequests : reminded'[r] # "none" => Said(r, reminded[r])'
  <2> TAKE r \in 1..MaxRequests
  <2> HAVE reminded'[r] # "none"
  <2> QED
    BY <1>7 DEF Said
<1> QED
  BY <1>0, <1>6, <1>7, <1>8, <1>9, <1>10 DEF ReminderInv

LEMMA ReminderSafe ==
    ASSUME SaveInv, RuntimeInv, CourseInv, ComplianceInv, ReminderInv, SaveInv', CourseInv',
           Next
    PROVE  ReminderInv'
<1>0. MaxRequests \in Nat /\ request \in 0..MaxRequests /\ request' \in Nat
      /\ worked \in [Calls -> BOOLEAN]
  BY HookAssumption DEF CourseInv, ReminderInv
<1>1. ASSUME UNCHANGED <<pc, part, worked, reminded, request>>,
             agent' = "running" => agent = "running",
             phase' \in {"new", "open"} => phase \in {"new", "open"},
             phase' \in {"new", "open"} => UNCHANGED compliance,
             phase' \in {"new", "open"} /\ runtime \in Users => runtime' \in Users
      PROVE  ReminderInv'
  <2>1. ASSUME phase' \in {"new", "open"}, agent' = "running"
        PROVE  Borne'
    <3>1. compliance' = compliance /\ Borne
      BY <1>1, <2>1 DEF ReminderInv
    <3> QED
      BY <1>1, <3>1 DEF Borne, Counted, Listed, NoneMissed, HeldOf, IsCounted, EditsWorkspace,
                        IsExplicit, Members, Distinct
  <2>2. \A c \in Calls :
          /\ part[c] # 0 => part'[c] = part[c] /\ worked'[c] = worked[c]
          /\ part[c] = 0 /\ part'[c] # 0 => part'[c] = request' /\ agent' = "running"
          /\ pc'[c] = "journal" => Kind[c] = "edit"
          /\ phase' \in {"new", "open"} /\ IsExplicit(c) /\ worked'[c] => runtime' \in Users
    BY <1>1 DEF ReminderInv
  <2> QED
    BY <1>0, <1>1, <2>1, <2>2, ReminderKept
<1>2. CASE SessionStart \/ BeforeAgentStart
  <2>1. runtime' \in {runtime, Current} /\ enabled' = enabled
    BY <1>2, ResolvingDoes DEF SessionStart, BeforeAgentStart, SaveInv, settings
  <2>2. runtime \in Users => runtime' \in Users
    BY <2>1, UsersStay DEF SaveInv
  <2>3. UNCHANGED <<pc, part, worked, reminded, request, compliance>>
        /\ (agent' = "running" => agent = "running")
        /\ phase \in {"new", "open"}
    BY <1>2 DEF SessionStart, BeforeAgentStart, calls
  <2> QED
    BY <1>1, <2>2, <2>3
<1>3. CASE UserSet
  <2>1. runtime \in Users => runtime' \in Users
    BY <1>3, UserSetDoes, UsersStay DEF SaveInv
  <2> QED
    BY <1>1, <1>3, <2>1 DEF UserSet, Change, calls, course
<1>4. CASE Shutdown \/ Clear
  <2>1. phase' \notin {"new", "open"}
    BY <1>4 DEF Shutdown, Clear
  <2> QED
    BY <1>1, <1>4, <2>1 DEF Shutdown, Clear, calls
<1>5. CASE AgentStart
  <2>1. /\ UNCHANGED <<pc, part, worked, reminded, runtime, phase>>
        /\ request' = request + 1 /\ compliance' = Blank /\ phase = "open"
    BY <1>5 DEF AgentStart, Resets, calls
  <2>2. \A c \in Calls : part[c] # request + 1
    BY <1>0 DEF CourseInv
  <2>3. Borne'
    <3>1. Members(compliance'.counted) = {} /\ Members(compliance'.artifacts) = {}
          /\ Distinct(compliance'.artifacts)
      BY <2>1, BlankKnown
    <3>2. Counted' /\ Listed'
      BY <3>1 DEF Counted, Listed, Members, Distinct
    <3>3. NoneMissed'
      BY <2>1, <2>2 DEF NoneMissed, HeldOf
    <3> QED
      BY <3>2, <3>3 DEF Borne
  <2>4. \A c \in Calls :
          /\ pc'[c] = "journal" => Kind[c] = "edit"
          /\ phase' \in {"new", "open"} /\ IsExplicit(c) /\ worked'[c] => runtime' \in Users
    BY <2>1 DEF ReminderInv
  <2> QED
    BY <1>0, <2>1, <2>3, <2>4, ReminderKept
<1>6. CASE AgentEnd
  BY <1>6, ReminderAgentEnd
<1>7. ASSUME NEW c \in Calls, StartsSave(c) \/ Edits(c) \/ Notes(c)
      PROVE  ReminderInv'
  BY <1>7, ReminderStarts
<1>8. ASSUME NEW c \in Calls, SavesOn(c) \/ Journal(c)
      PROVE  ReminderInv'
  <2>1. UNCHANGED <<phase, agent, request, reminded, part, worked, runtime>>
    BY <1>8 DEF SavesOn, Journal, course, maps
  <2>2. \E to \in {"open", "load", "embed", "result", "done"} :
          Goes(c, to) /\ (to = "done" => pc[c] = "journal")
    BY <1>8, SaveMoves DEF SavesOn, Journal
  <2>3. compliance' = compliance
        \/ (compliance # None
            /\ compliance' = [compliance EXCEPT !.journaled = @ \cup {c}])
    BY <1>8 DEF SavesOn, Journal, maps
  <2>4. \A d \in Calls :
          /\ pc'[d] = "journal" => Kind[d] = "edit"
          /\ IsExplicit(d) /\ pc'[d] = "done" => pc[d] = "done"
    BY <2>2 DEF Goes, SaveInv, ReminderInv, IsExplicit
  <2>5. ASSUME phase' \in {"new", "open"}, agent' = "running"
        PROVE  Borne'
    <3>1. compliance \in Compliances /\ Borne
      BY <2>1, <2>5 DEF ReminderInv, ComplianceInv, CourseInv
    <3>2. compliance'.counted = compliance.counted
          /\ compliance'.artifacts = compliance.artifacts
          /\ compliance.counted \in Seq(Calls)
      BY <2>3, <3>1, JournaledFields, ComplianceFields
    <3> QED
      BY <2>1, <2>4, <3>1, <3>2, BorneKept
  <2>6. \A d \in Calls :
          phase' \in {"new", "open"} /\ IsExplicit(d) /\ worked'[d] => runtime' \in Users
    BY <2>1 DEF ReminderInv
  <2> QED
    BY <1>0, <2>1, <2>4, <2>5, <2>6, ReminderKept
<1>9. ASSUME NEW c \in Calls, Hook(c)
      PROVE  ReminderInv'
  BY <1>9, ReminderHook
<1> QED
  BY <1>2, <1>3, <1>4, <1>5, <1>6, <1>7, <1>8, <1>9 DEF Next, Step

-----------------------------------------------------------------------------
(* Checkpoints.                                                            *)

LEMMA TrackerRecords ==
    /\ NoWrites \in TrackerRecord /\ NoWrites.writes = 0
    /\ None \notin TrackerRecord
    /\ [writes |-> 0, ever |-> TRUE] \in TrackerRecord
BY HookAssumption DEF NoWrites, TrackerRecord

\* Steps that count no save: they resolve the runtime at most.
LEMMA CheckpointFrame ==
    ASSUME SaveInv, RuntimeInv, CheckpointInv,
           UNCHANGED <<tracker, pending, unmade, left, strayed>>,
           runtime' \in {runtime, Current},
           Cardinality(Hooked) <= Cardinality(Hooked'), Cardinality(Hooked') \in Nat,
           phase \in {"new", "open"} => phase' \in {"new", "open"},
           phase \notin {"new", "open"} => phase' = phase,
           phase' \in {"new", "open", "closing", "closed"}
    PROVE  CheckpointInv'
<1>1. ~strayed /\ phase' \in {"new", "open"} =>
        /\ pending \subseteq {Global} \cup ({runtime'} \cap Users)
        /\ pending # {} => runtime' # None
        /\ pending \ unmade # {} => tracker # None /\ tracker.writes > 0
  BY CurrentCached DEF SaveInv, RuntimeInv, CheckpointInv
<1>2. tracker # None => tracker.writes <= Cardinality(Hooked')
  BY TalliesFinite DEF CheckpointInv, TrackerRecord
<1> QED
  BY <1>1, <1>2 DEF CheckpointInv

LEMMA StoredToPaths ==
    ASSUME SaveType, NEW c \in Calls
    PROVE  /\ StoredTo(c) \subseteq {Global, configured}
           /\ configured \in StoredTo(c) => enabled
BY SaveAssumption DEF SaveType, StoredTo, Told

\* Attempted checkpoints of all paths leave no database pending whose checkpoint
\* was made.
LEMMA CheckpointedDoes ==
    ASSUME NEW saved, saved \subseteq Databases, Paths \subseteq Databases,
           unmade \subseteq Databases, Checkpointed(saved)
    PROVE  /\ tracker' = [writes |-> 0, ever |-> TRUE]
           /\ pending' \subseteq saved /\ unmade' \subseteq Databases
           /\ saved \subseteq Paths => pending' \ unmade' = {}
BY DEF Checkpointed

LEMMA CheckpointHook ==
    ASSUME SaveInv, RuntimeInv, CourseInv, CheckpointInv, SaveInv', RuntimeInv',
           NEW c \in Calls, Hook(c)
    PROVE  CheckpointInv'
<1>0. /\ pc[c] = "result" /\ UNCHANGED <<phase, left, strayed, configured, enabled>>
      /\ \E to \in {"journal", "done"} : Goes(c, to)
      /\ pc \in [Calls -> Standing] /\ phase \in {"new", "open", "closing", "closed"}
  BY DEF Hook, course, settings, CourseInv, SaveInv
<1>1. /\ Cardinality(Hooked') = Cardinality(Hooked) + 1
      /\ Cardinality(Hooked) \in Nat
  BY <1>0, HookTallied, TalliesFinite
<1>2. runtime' \in {runtime, Current}
  BY ResolvingDoes DEF Hook, SaveInv
<1>3. CASE UNCHANGED <<tracker, pending, unmade>>
  BY <1>0, <1>1, <1>2, <1>3, CheckpointFrame
<1>4. CASE Resolves(TRUE) /\ Counts(c) /\ Kind[c] = "save"
  <2> DEFINE t == IF tracker = None THEN NoWrites ELSE tracker
             n == [t EXCEPT !.writes = @ + 1]
  <2>1. runtime' \in Cached /\ (runtime # None => runtime' = runtime)
    BY <1>4, ResolvedSet DEF SaveInv, RuntimeInv
  <2>2. t \in TrackerRecord /\ t.writes <= Cardinality(Hooked)
    BY TrackerRecords, TalliesFinite DEF CheckpointInv
  <2>3. /\ n \in TrackerRecord /\ n # None
        /\ n.writes > 0 /\ n.writes <= Cardinality(Hooked')
    <3> HIDE DEF t
    <3>1. n \in TrackerRecord /\ n.writes = t.writes + 1 /\ t.writes \in Nat
      BY <2>2 DEF TrackerRecord
    <3> QED
      BY <1>1, <2>2, <3>1, TrackerRecords
  <2>4. StoredTo(c) \subseteq Databases
    BY StoredToPaths DEF SaveInv, SaveType, Databases
  <2>5. ~strayed => StoredTo(c) \subseteq {Global} \cup ({runtime'} \cap Users)
    <3>1. ASSUME ~strayed, enabled
          PROVE  runtime' = configured /\ configured \in Users
      BY <1>0, <2>1, <3>1, CurrentCached
      DEF RuntimeInv, SaveInv, SaveType, Current, Cached
    <3> QED
      BY <3>1, StoredToPaths DEF SaveInv
  <2>6. ~strayed /\ phase \in {"new", "open"} =>
          pending \subseteq {Global} \cup ({runtime'} \cap Users)
    BY <2>1 DEF CheckpointInv
  <2>7. CASE Checkpointed(pending \cup StoredTo(c))
    <3>1. Paths \subseteq Databases /\ runtime' # None
      BY <2>1, SaveAssumption DEF Paths, Databases, Cached
    <3>2. pending \cup StoredTo(c) \subseteq Databases /\ unmade \subseteq Databases
      BY <2>4 DEF CheckpointInv
    <3>3. /\ tracker' = [writes |-> 0, ever |-> TRUE]
          /\ pending' \subseteq pending \cup StoredTo(c) /\ unmade' \subseteq Databases
          /\ pending \cup StoredTo(c) \subseteq Paths => pending' \ unmade' = {}
      BY <2>7, <3>1, <3>2, CheckpointedDoes
    <3>4. tracker' \in TrackerRecord /\ tracker'.writes <= Cardinality(Hooked')
      BY <1>1, <3>3, TrackerRecords
    <3>5. ~strayed /\ phase \in {"new", "open"} => pending \cup StoredTo(c) \subseteq Paths
      BY <2>5, <2>6 DEF Paths
    <3>6. ~strayed /\ phase \in {"new", "open"} =>
            pending' \subseteq {Global} \cup ({runtime'} \cap Users)
      BY <2>5, <2>6, <3>3
    <3> QED
      BY <1>0, <3>1, <3>2, <3>3, <3>4, <3>5, <3>6 DEF CheckpointInv
  <2>8. CASE tracker' = n /\ pending' = pending \cup StoredTo(c) /\ UNCHANGED unmade
    <3>1. pending' \subseteq Databases
      BY <2>4, <2>8 DEF CheckpointInv
    <3>2. runtime' # None
      BY <2>1, SaveAssumption DEF Cached
    <3>3. ~strayed /\ phase \in {"new", "open"} =>
            pending' \subseteq {Global} \cup ({runtime'} \cap Users)
      BY <2>5, <2>6, <2>8
    <3>4. tracker' \in TrackerRecord /\ tracker' # None
          /\ tracker'.writes > 0 /\ tracker'.writes <= Cardinality(Hooked')
      BY <2>3, <2>8
    <3> QED
      BY <1>0, <2>8, <3>1, <3>2, <3>3, <3>4 DEF CheckpointInv
  <2> QED
    BY <1>4, <2>7, <2>8 DEF Counts
<1> QED
  BY <1>3, <1>4 DEF Hook, Counts

LEMMA CheckpointUserSet ==
    ASSUME SaveInv, RuntimeInv, CheckpointInv, SaveInv', RuntimeInv', UserSet
    PROVE  CheckpointInv'
<1>1. PICK v \in Users :
        /\ Change(v)
        /\ pending' = IF configured \in pending
                      THEN (pending \ {configured}) \cup {v} ELSE pending
        /\ unmade' = IF configured \in unmade
                     THEN (unmade \ {configured}) \cup {v} ELSE unmade
  BY DEF UserSet, Follows
<1>2. /\ UNCHANGED <<pc, phase, tracker, left, enabled>> /\ configured' = v
      /\ phase = "open" /\ v \in Databases /\ configured \in Users
      /\ runtime' \in {runtime, Current'}
      /\ strayed' = (strayed \/ runtime' \notin {None, Current'})
  BY <1>1 DEF UserSet, Change, calls, course, Databases, SaveInv, SaveType
<1>3. pending' \subseteq Databases /\ unmade' \subseteq Databases
  BY <1>1, <1>2 DEF CheckpointInv
<1>4. ASSUME ~strayed'
      PROVE  /\ pending' \subseteq {Global} \cup ({runtime'} \cap Users)
             /\ pending' # {} => runtime' # None
             /\ pending' \ unmade' # {} => tracker # None /\ tracker.writes > 0
  <2>1. /\ ~strayed /\ runtime' \in {None, Current'} /\ strayed \in BOOLEAN
        /\ runtime \in {None, Current}
        /\ pending \subseteq {Global} \cup ({runtime} \cap Users)
        /\ pending # {} => runtime # None
        /\ pending \ unmade # {} => tracker # None /\ tracker.writes > 0
    BY <1>2, <1>4 DEF CheckpointInv, RuntimeInv
  <2>2. /\ pending' # {} => pending # {}
        /\ pending' \ unmade' # {} => pending \ unmade # {}
    <3>1. pending \subseteq {Global, configured} /\ Global # configured
      BY <1>2, <2>1, SaveAssumption DEF Current
    <3> QED
      BY <1>1, <3>1
  <2>3. runtime # None => runtime' # None
    BY <1>2, CurrentCached, SaveAssumption DEF SaveInv, SaveType, Current
  <2>4. CASE configured \in pending
    <3>1. enabled /\ runtime # None
      BY <2>1, <2>4, <1>2, SaveAssumption DEF Current
    <3>2. runtime' = v
      BY <1>2, <2>1, <2>3, <3>1 DEF Current
    <3>3. pending' = (pending \ {configured}) \cup {v}
      BY <1>1, <2>4
    <3>4. pending \subseteq {Global, configured}
      BY <2>1, <3>1 DEF Current
    <3> QED
      BY <2>1, <2>2, <2>3, <3>2, <3>3, <3>4
  <2>5. CASE configured \notin pending
    <3>1. pending \subseteq {Global}
      BY <1>2, <2>1, <2>5, SaveAssumption DEF Current
    <3> QED
      BY <1>1, <2>1, <2>2, <2>3, <2>5, <3>1
  <2> QED
    BY <2>4, <2>5
<1>5. Hooked' = Hooked
  BY <1>2 DEF Hooked
<1> QED
  BY <1>2, <1>3, <1>4, <1>5 DEF CheckpointInv

LEMMA CheckpointShutdown ==
    ASSUME SaveInv, RuntimeInv, CheckpointInv, Shutdown
    PROVE  CheckpointInv'
<1>1. /\ phase = "open" /\ phase' = "closing" /\ left' = pending' \ unmade'
      /\ UNCHANGED <<runtime, strayed, pc>>
  BY DEF Shutdown, calls
<1>2. Paths = {Global} \cup ({runtime} \cap Users) /\ Paths \subseteq Databases
  BY <1>1 DEF Paths, Databases
<1>3. Hooked' = Hooked
  BY <1>1 DEF Hooked
<1>4. CASE runtime /= None /\ "shutdown" \in Policy /\ tracker /= None /\ tracker.writes > 0
  <2>1. Checkpointed(pending)
    BY <1>4 DEF Shutdown
  <2>2. pending \subseteq Databases /\ unmade \subseteq Databases
    BY DEF CheckpointInv
  <2>3. /\ tracker' = [writes |-> 0, ever |-> TRUE]
        /\ pending' \subseteq pending /\ unmade' \subseteq Databases
        /\ pending \subseteq Paths => pending' \ unmade' = {}
    BY <1>2, <2>1, <2>2, CheckpointedDoes
  <2>4. ~strayed => left' = {}
    BY <1>1, <1>2, <2>3 DEF CheckpointInv
  <2> QED
    BY <1>1, <1>3, <2>2, <2>3, <2>4, TrackerRecords, TalliesFinite DEF CheckpointInv
<1>5. CASE ~(runtime /= None /\ "shutdown" \in Policy /\ tracker /= None /\ tracker.writes > 0)
  <2>1. tracker' = (IF tracker = None THEN NoWrites ELSE tracker)
        /\ UNCHANGED <<pending, unmade>>
    BY <1>5 DEF Shutdown
  <2>2. ~strayed /\ "shutdown" \in Policy => pending \ unmade = {}
    BY <1>1, <1>5 DEF CheckpointInv
  <2> QED
    BY <1>1, <1>3, <2>1, <2>2, TrackerRecords, TalliesFinite DEF CheckpointInv
<1> QED
  BY <1>4, <1>5

LEMMA CheckpointSafe ==
    ASSUME SaveInv, RuntimeInv, CourseInv, CheckpointInv, SaveInv', RuntimeInv', CourseInv',
           Next
    PROVE  CheckpointInv'
<1>0. /\ pc \in [Calls -> Standing] /\ SaveType
      /\ phase' \in {"new", "open", "closing", "closed"}
      /\ Cardinality(Hooked) \in Nat
  BY TalliesFinite DEF SaveInv, CourseInv
<1>1. CASE SessionStart \/ BeforeAgentStart \/ AgentEnd \/ AgentStart
  <2>1. UNCHANGED <<tracker, pending, unmade, left, strayed, pc>>
        /\ phase \in {"new", "open"} /\ phase' \in {"new", "open"}
    BY <1>1 DEF SessionStart, BeforeAgentStart, AgentEnd, AgentStart, history, calls
  <2>2. runtime' \in {runtime, Current}
    BY <1>0, <1>1, ResolvingDoes DEF SessionStart, BeforeAgentStart, AgentEnd, AgentStart
  <2> QED
    BY <1>0, <2>1, <2>2, CheckpointFrame, TalliesKept
<1>2. CASE UserSet
  BY <1>2, CheckpointUserSet
<1>3. CASE Shutdown
  BY <1>3, CheckpointShutdown
<1>4. CASE Clear
  BY <1>4 DEF Clear, CheckpointInv, history
<1>5. ASSUME NEW c \in Calls, StartsSave(c) \/ Edits(c) \/ Notes(c) \/ SavesOn(c)
      PROVE  CheckpointInv'
  <2>1. UNCHANGED <<tracker, pending, unmade, left, strayed, phase>>
    BY <1>5, StartMoves DEF StartsSave, Edits, Notes, SavesOn, maps, history, course
  <2>2. runtime' \in {runtime, Current}
    BY <1>0, <1>5, ResolvingDoes DEF StartsSave, Edits, Notes, SavesOn, maps
  <2>3. \E d \in Calls, to \in Standing : Goes(d, to) /\ pc[d] \notin {"journal", "done"}
    BY <1>5, StartMoves, SaveMoves DEF SavesOn, Starts, Standing
  <2> QED
    BY <1>0, <2>1, <2>2, <2>3, CheckpointFrame, TalliesKept
<1>6. ASSUME NEW c \in Calls, Hook(c)
      PROVE  CheckpointInv'
  BY <1>6, CheckpointHook
<1>7. ASSUME NEW c \in Calls, Journal(c)
      PROVE  CheckpointInv'
  <2>1. UNCHANGED <<tracker, pending, unmade, left, strayed, phase, runtime>>
        /\ pc[c] = "journal" /\ Goes(c, "done")
    BY <1>7 DEF Journal, history, course
  <2>2. Cardinality(Hooked') = Cardinality(Hooked)
    BY <1>0, <2>1, JournalTallied
  <2> QED
    BY <1>0, <2>1, <2>2, CheckpointFrame
<1> QED
  BY <1>1, <1>2, <1>3, <1>4, <1>5, <1>6, <1>7 DEF Next, Step

-----------------------------------------------------------------------------
(* The initial state.                                                      *)

LEMMA NumberType ==
    /\ Number \in [Databases -> Inodes] /\ Number[Global] = 0
<1> DEFINE N == Cardinality(Users)
<1>1. N \in Nat /\ ExistsBijection(1..N, Users)
  BY SaveAssumption, FS_CardinalityType
<1>2. PICK h : h \in Bijection(Users, 1..N)
  BY <1>1, Fun_ExistsBijSymmetric DEF ExistsBijection
<1>3. h \in [Users -> 1..N] /\ \A u, v \in Users : h[u] = h[v] => u = v
  BY <1>2 DEF Bijection, Injection, IsInjective
<1> DEFINE n == [d \in Databases |-> IF d = Global THEN 0 ELSE h[d]]
<1>4. /\ n \in [Databases -> Inodes] /\ n[Global] = 0
      /\ \A d, e \in Databases : n[d] = n[e] => d = e
  <2>1. 1..N \subseteq Inodes /\ 0 \in Inodes /\ 0 \notin 1..N
    BY <1>1, SaveAssumption DEF Inodes
  <2>2. Databases = Users \cup {Global} /\ Global \notin Users
    BY SaveAssumption DEF Databases
  <2> QED
    BY <1>3, <2>1, <2>2
<1>5. \E m \in [Databases -> Inodes] :
        m[Global] = 0 /\ \A d, e \in Databases : m[d] = m[e] => d = e
  BY <1>4
<1> QED
  BY <1>5, Zenon DEF Number

LEMMA SaveInitSafe ==
    ASSUME SaveInit, pc = [c \in Calls |-> "idle"]
    PROVE  SaveInv
<1>1. PICK existing \in FirstFiles :
        file = [d \in Databases |->
                  IF d \in existing \cup {Global} THEN Number[d] ELSE None]
  BY DEF SaveInit
<1>2. Global \in Databases /\ 0 \in Inodes /\ None \notin Inodes
  BY NumberType, InodesFinite DEF Databases
<1>3. SaveType
  <2>1. Silent \in Answer
    BY DEF Silent, Answer, Statuses
  <2> QED
    BY <1>1, <1>2, <2>1, NumberType, SaveAssumption DEF SaveInit, SaveType
<1>4. Budget
  <2> DEFINE f == [d \in Existing |-> file[d]]
  <2>1. file[Global] = 0 /\ Global \in Existing
    BY <1>1, <1>2, NumberType DEF Existing
  <2>2. \A i \in Used : \E d \in Existing : file[d] = i
    BY <1>2, <2>1 DEF SaveInit, Used, Existing
  <2>3. \A d \in Existing : file[d] \in Used
    BY <1>3 DEF SaveType, Used, Existing
  <2>4. f \in Surjection(Existing, Used)
    BY <2>2, <2>3 DEF Surjection
  <2>5. Cardinality(Used) <= Cardinality(Existing)
    BY <2>4, UsedFinite, FS_Surjection
  <2> QED
    BY <2>5, UsedFinite DEF Budget, SaveInit
<1> QED
  BY <1>3, <1>4 DEF SaveInv, Underway, Standing

IInv ==
    /\ SaveInv /\ RuntimeInv /\ CourseInv /\ ComplianceInv
    /\ ReminderInv /\ CheckpointInv

LEMMA InitSafe == Init => IInv
<1> SUFFICES ASSUME Init
             PROVE  IInv
  OBVIOUS
<1>1. SaveInv
  BY SaveInitSafe DEF Init
<1>2. RuntimeInv
  BY DEF Init, RuntimeInv
<1>3. CourseInv /\ ComplianceInv
  BY HookAssumption DEF Init, CourseInv, ComplianceInv
<1>4. ReminderInv
  BY HookAssumption DEF Init, ReminderInv, Reminders
<1>5. CheckpointInv
  BY DEF Init, CheckpointInv
<1> QED
  BY <1>1, <1>2, <1>3, <1>4, <1>5 DEF IInv

LEMMA Inductive == IInv /\ [Next]_vars => IInv'
<1> SUFFICES ASSUME IInv, [Next]_vars
             PROVE  IInv'
  OBVIOUS
<1> USE DEF IInv
<1>1. CASE Next
  <2>1. SaveInv' /\ RuntimeInv'
    BY <1>1, SavingSafe
  <2>2. pc \in [Calls -> Standing]
    BY DEF SaveInv
  <2>3. CourseInv' /\ ComplianceInv'
    BY <1>1, <2>2, CourseSafe, ComplianceSafe
  <2>4. ReminderInv'
    BY <1>1, <2>1, <2>3, ReminderSafe
  <2>5. CheckpointInv'
    BY <1>1, <2>1, <2>3, CheckpointSafe
  <2> QED
    BY <2>1, <2>3, <2>4, <2>5
<1>2. CASE UNCHANGED vars
  <2>1. SaveInv' /\ RuntimeInv'
    BY <1>2 DEF vars, settings, stores, saving, calls, maps, history, SaveInv, RuntimeInv,
                SaveType, Budget, Used, Existing, Underway, Payload, Target, ToProject, Cached,
                Current
  <2>2. CourseInv' /\ ComplianceInv'
    BY <1>2 DEF vars, calls, course, maps, CourseInv, ComplianceInv
  <2>3. UNCHANGED <<phase, agent, request, reminded, runtime, compliance, pc, part, worked>>
    BY <1>2 DEF vars, calls, course, maps
  <2>4. Borne => Borne'
    BY <2>3 DEF Borne, Counted, Listed, NoneMissed, HeldOf, IsCounted, EditsWorkspace,
                IsExplicit, Members, Distinct
  <2>5. ReminderInv'
    <3>1. ASSUME NEW r \in 1..MaxRequests, NEW m
          PROVE  Said(r, m) => Said(r, m)'
      BY <2>3, SaidKept
    <3>2. \A r \in 1..MaxRequests : reminded[r] # "none" => Said(r, reminded[r])'
      BY <2>3, <3>1 DEF ReminderInv, Said
    <3> QED
      BY <2>3, <2>4, <3>2 DEF ReminderInv, IsExplicit
  <2>6. CheckpointInv'
    BY <1>2 DEF vars, calls, course, maps, history, CheckpointInv, Hooked
  <2> QED
    BY <2>1, <2>2, <2>5, <2>6
<1> QED
  BY <1>1, <1>2

LEMMA Types == IInv => TypeOK
<1> SUFFICES ASSUME IInv
             PROVE  HookType
  BY DEF IInv, SaveInv, TypeOK
<1> USE DEF IInv
<1>0. MaxRequests \in Nat
  BY HookAssumption
<1>1. pc \in [Calls -> Standing] /\ runtime \in Users \cup {None, Global} /\ strayed \in BOOLEAN
  BY DEF SaveInv, RuntimeInv, Cached
<1>2. tracker \in [writes : 0..Cardinality(Calls), ever : BOOLEAN] \cup {None}
  BY TalliesFinite DEF CheckpointInv, TrackerRecord
<1>3. compliance \in Compliances \cup {None}
  BY DEF ComplianceInv
<1>4. trackers \in 0..(2*MaxRequests + 2)
  BY <1>0 DEF ComplianceInv, CourseInv
<1> QED
  BY <1>1, <1>2, <1>3, <1>4
  DEF HookType, CourseInv, ComplianceInv, ReminderInv, CheckpointInv

-----------------------------------------------------------------------------
(* What a save is told.  A store keeps the file it opened, which may not   *)
(* be the configured user's when it answers: then the answer is adrift.    *)
(* What the other answers speak of is in the file of the configured user,  *)
(* and goes where that file goes.                                          *)

Coherent ==
    file[Global] \in Inodes /\ (opened[Global] # None => opened[Global] = file[Global])

Home(c) ==
    /\ ToldOf(c) /\ c \notin adrift => /\ file[configured] \in Inodes
                                       /\ Project[c] \in rows[file[configured]]
    /\ Told(c, "general", "duplicate") => General[c] \in rows[file[Global]]

Alone(c) ==
    \A d \in Calls \ {c} :
        {c, d} \cap adrift = {} /\ Project[d] = Project[c] /\ Told(d, "project", "stored") =>
          ~Told(c, "project", "stored")

AnswersInv == Coherent /\ \A c \in Calls : Home(c) /\ Alone(c)

\* No file is removed and no content lost.
Grow ==
    /\ UNCHANGED settings
    /\ \A i \in Inodes : rows[i] \subseteq rows'[i]
    /\ \A d \in Databases : file[d] \in Inodes => file'[d] = file[d]

LEMMA InUse ==
    ASSUME SaveType
    PROVE  {configured, Global} \subseteq Databases /\ configured # Global
           /\ \A c \in Calls : Target(c) \in Databases
           /\ None \notin Inodes
BY SaveAssumption, InodesFinite DEF SaveType, Databases, Target

LEMMA HomeKept ==
    ASSUME SaveType, Grow, Coherent, NEW c \in Calls, said'[c] = said[c], Home(c),
           adrift \subseteq adrift'
    PROVE  Home(c)'
BY InUse DEF Grow, Coherent, Home, ToldOf, Told, settings

LEMMA AnswersKept ==
    ASSUME SaveType, AnswersInv, Grow, Coherent', UNCHANGED <<said, adrift>>
    PROVE  AnswersInv'
<1>1. \A c \in Calls : Home(c)'
  BY HomeKept DEF AnswersInv
<1>2. \A c \in Calls : Alone(c)'
  BY DEF AnswersInv, Alone, Told, Grow, settings
<1> QED
  BY <1>1, <1>2 DEF AnswersInv

\* A call is told of a content that is there, and stores one that nobody was
\* told to have stored.
LEMMA AnswersGiven ==
    ASSUME SaveType, AnswersInv, Grow, Coherent',
           NEW c \in Calls, NEW status \in Statuses, Answers(c, status),
           ToProject(c) /\ status \in {"stored", "duplicate"} /\ ~Drifts(c, status) =>
             file'[configured] \in Inodes /\ Project[c] \in rows'[file'[configured]],
           lane[c] = "general" /\ enabled /\ status = "duplicate" =>
             General[c] \in rows'[file'[Global]],
           ToProject(c) /\ status = "stored" /\ ~Drifts(c, status) =>
             \A d \in Calls \ ({c} \cup adrift) :
               Project[d] = Project[c] => ~Told(d, "project", "stored")
    PROVE  AnswersInv'
<1>1. /\ lane[c] \in {"project", "general"} /\ said \in [Calls -> Answer]
      /\ said' = [said EXCEPT ![c] = [said[c] EXCEPT ![lane[c]] = Heard(c, status)]]
  BY DEF SaveType, Answers
<1>2. /\ \A d \in Calls \ {c} : said'[d] = said[d]
      /\ said'[c] = [said[c] EXCEPT ![lane[c]] = Heard(c, status)]
  BY <1>1
<1>3. enabled' = enabled /\ configured' = configured
  BY DEF Grow, settings
<1>4. adrift \subseteq adrift' /\ adrift' \subseteq adrift \cup {c}
      /\ (Drifts(c, status) => c \in adrift')
  BY DEF Answers, Drift
<1>5. \A d \in Calls \ {c} : Home(d)'
  BY <1>2, <1>4, HomeKept DEF AnswersInv
<1>6. CASE lane[c] = "project"
  <2>1. said'[c]["project"] = status /\ said'[c]["general"] = said[c]["general"]
    BY <1>1, <1>2, <1>6 DEF Heard, Answer
  <2>2. Home(c)'
    <3>1. General[c] \in rows[file[Global]] => General[c] \in rows'[file'[Global]]
      BY InUse DEF Grow, AnswersInv, Coherent
    <3>2. Told(c, "general", "duplicate")' => General[c] \in rows'[file'[Global]]
      BY <1>3, <2>1, <3>1 DEF AnswersInv, Home, Told
    <3>3. ToldOf(c)' /\ c \notin adrift' => /\ file'[configured] \in Inodes
                                             /\ Project[c] \in rows'[file'[configured]]
      BY <1>3, <1>4, <1>6, <2>1 DEF ToldOf, Told, ToProject
    <3> QED
      BY <1>3, <3>2, <3>3 DEF Home, ToldOf, Told
  <2>3. ASSUME status = "stored", enabled, c \notin adrift'
        PROVE  \A d \in Calls \ ({c} \cup adrift) :
                 Project[d] = Project[c] => ~Told(d, "project", "stored")
    BY <1>4, <1>6, <2>3 DEF ToProject
  <2>4. \A d \in Calls : Alone(d)'
    BY <1>2, <1>3, <1>4, <2>1, <2>3 DEF AnswersInv, Alone, Told
  <2> QED
    BY <1>5, <2>2, <2>4 DEF AnswersInv
<1>7. CASE lane[c] = "general"
  <2>1. said'[c]["project"] = said[c]["project"]
        /\ said'[c]["general"] = Heard(c, status)
    BY <1>1, <1>2, <1>7 DEF Answer
  <2>2. said'[c]["general"] = "duplicate" => status = "duplicate"
    BY <2>1 DEF Heard
  <2>3. Home(c)'
    <3>1. ToldOf(c) /\ c \notin adrift =>
            /\ file'[configured] \in Inodes
            /\ Project[c] \in rows'[file'[configured]]
      BY InUse DEF Grow, AnswersInv, Home
    <3> QED
      BY <1>3, <1>4, <1>7, <2>1, <2>2, <3>1 DEF Home, ToldOf, Told
  <2>4. \A d \in Calls : Alone(d)'
    BY <1>2, <1>3, <1>4, <2>1 DEF AnswersInv, Alone, Told
  <2> QED
    BY <1>5, <2>3, <2>4 DEF AnswersInv
<1> QED
  BY <1>1, <1>6, <1>7

\* A store opens the file its path leads to, unless it holds one already.
LEMMA OpenAnswers ==
    ASSUME SaveInv, AnswersInv, NEW c \in Calls, Open(c)
    PROVE  AnswersInv'
<1> DEFINE d == Target(c)
           i == Held(d)
<1>0. /\ SaveType /\ d \in Databases /\ Global \in Databases
      /\ file \in [Databases -> Inodes \cup {None}] /\ None \notin Inodes
      /\ opened \in [Databases -> Inodes \cup {None}]
  BY InUse DEF SaveInv, SaveType
<1>1. /\ opened' = [opened EXCEPT ![d] = i]
      /\ file' = IF opened[d] = None THEN [file EXCEPT ![d] = i] ELSE file
      /\ UNCHANGED <<rows, settings, failures>>
  BY DEF Open
<1>2. /\ i \in Inodes
      /\ opened[d] # None => i = opened[d]
      /\ opened[d] = None /\ file[d] \in Inodes => i = file[d]
  <2>1. CASE opened[d] /= None
    BY <1>0, <2>1 DEF Held
  <2>2. CASE opened[d] = None /\ file[d] /= None
    BY <1>0, <2>2 DEF Held
  <2>3. CASE opened[d] = None /\ file[d] = None
    BY <1>0, <2>3, FreeExists DEF SaveInv, Held
  <2> QED
    BY <2>1, <2>2, <2>3
<1>3. /\ opened'[d] = i
      /\ \A e \in Databases \ {d} : file'[e] = file[e] /\ opened'[e] = opened[e]
      /\ file'[d] = IF opened[d] = None THEN i ELSE file[d]
  BY <1>0, <1>1, <1>2
<1> HIDE DEF i
<1>4. Grow
  BY <1>0, <1>1, <1>2, <1>3 DEF Grow
<1>5. Coherent'
  BY <1>0, <1>2, <1>3 DEF AnswersInv, Coherent
<1>6. CASE Payload(c) \in rows[i] /\ Answers(c, "duplicate")
  <2>1. ToProject(c) /\ ~Drifts(c, "duplicate") =>
          file'[configured] \in Inodes /\ Project[c] \in rows'[file'[configured]]
    BY <1>1, <1>2, <1>3, <1>6 DEF Target, Payload, ToProject, Drifts
  <2>2. lane[c] = "general" => General[c] \in rows'[file'[Global]]
    <3>1. ASSUME lane[c] = "general" PROVE d = Global /\ Payload(c) = General[c]
      BY <3>1 DEF Target, ToProject, Payload
    <3> QED
      BY <1>1, <1>2, <1>3, <1>5, <1>6, <3>1, <1>0 DEF Coherent
  <2> QED
    BY <1>0, <1>4, <1>5, <1>6, <2>1, <2>2, AnswersGiven DEF Statuses
<1>7. CASE UNCHANGED saving
  BY <1>0, <1>4, <1>5, <1>7, AnswersKept DEF saving
<1> QED
  BY <1>6, <1>7 DEF Open, i

\* The unique hash decides who has stored a content.
LEMMA InsertAnswers ==
    ASSUME SaveInv, AnswersInv, NEW c \in Calls, Insert(c)
    PROVE  AnswersInv'
<1> DEFINE d == Target(c)
           i == opened[d]
<1>0. /\ SaveType /\ i \in Inodes /\ i # None
      /\ rows \in [Inodes -> SUBSET Contents]
      /\ UNCHANGED <<file, opened, settings, failures>>
  BY InUse DEF SaveInv, SaveType, Underway, Insert
<1>1. Coherent'
  BY <1>0 DEF AnswersInv, Coherent, settings
<1>2. CASE /\ Payload(c) \notin rows[i]
           /\ rows' = [rows EXCEPT ![i] = @ \cup {Payload(c)}]
           /\ Answers(c, "stored")
  <2>1. Grow /\ Payload(c) \in rows'[i]
    BY <1>0, <1>2 DEF Grow
  <2>2. ASSUME ToProject(c), ~Drifts(c, "stored")
        PROVE  /\ file'[configured] \in Inodes /\ Project[c] \in rows'[file'[configured]]
               /\ \A e \in Calls \ ({c} \cup adrift) :
                    Project[e] = Project[c] => ~Told(e, "project", "stored")
    <3>1. d = routed[c] /\ Payload(c) = Project[c]
      BY <2>2 DEF Target, Payload, ToProject
    <3>2. file[configured] = i
      BY <1>0, <2>2, <3>1 DEF Drifts
    <3>3. \A e \in Calls \ ({c} \cup adrift) :
            Project[e] = Project[c] => ~Told(e, "project", "stored")
      BY <1>2, <3>1, <3>2 DEF AnswersInv, Home, ToldOf
    <3> QED
      BY <1>0, <2>1, <3>1, <3>2, <3>3
  <2> QED
    BY <1>0, <1>1, <1>2, <2>1, <2>2, AnswersGiven DEF Statuses
<1>3. CASE Answers(c, "error") /\ UNCHANGED rows
  <2>1. Grow
    BY <1>0, <1>3 DEF Grow
  <2> QED
    BY <1>0, <1>1, <1>3, <2>1, AnswersGiven DEF Statuses
<1> QED
  BY <1>2, <1>3 DEF Insert

LEMMA SaveAnswers ==
    ASSUME SaveInv, AnswersInv, NEW c \in Calls, SaveStep(c)
    PROVE  AnswersInv'
<1>0. CASE Route(c)
  BY <1>0 DEF Route, settings, stores, AnswersInv, Coherent, Home, Alone, ToldOf, Told
<1>1. CASE OpenFails(c) \/ InsertFails(c)
  <2>1. Answers(c, "error") /\ UNCHANGED <<stores, settings>>
    BY <1>1 DEF OpenFails, InsertFails
  <2>2. Grow /\ Coherent'
    BY <2>1 DEF Grow, AnswersInv, Coherent, stores, settings
  <2> QED
    BY <2>1, <2>2, AnswersGiven DEF SaveInv, Statuses
<1> QED
  BY <1>0, <1>1, OpenAnswers, InsertAnswers DEF SaveStep

\* A bootstrap creates a file at most.
LEMMA FilesMadeKeep ==
    ASSUME SaveInv, AnswersInv, UNCHANGED <<settings, said, adrift, rows, opened>>,
           NEW d \in Databases, file' \in {file, Created(d)}
    PROVE  AnswersInv'
<1>1. /\ file \in [Databases -> Inodes \cup {None}] /\ None \notin Inodes
      /\ SaveType /\ Global \in Databases /\ configured \in Databases
  <2>1. SaveType
    BY DEF SaveInv
  <2>2. {configured, Global} \subseteq Databases /\ None \notin Inodes
    BY <2>1, SaveAssumption, InodesFinite DEF SaveType, Databases
  <2> QED
    BY <2>1, <2>2 DEF SaveType
<1>2. \A e \in Databases : file[e] \in Inodes => file'[e] = file[e]
  BY <1>1 DEF Created
<1>3. Grow
  BY <1>2 DEF Grow
<1>4. Coherent'
  BY <1>1, <1>2 DEF AnswersInv, Coherent
<1> QED
  BY <1>1, <1>3, <1>4, AnswersKept

\* A change of the user takes the contents along.
LEMMA ChangeAnswers ==
    ASSUME SaveInv, AnswersInv, NEW v \in Users, Change(v)
    PROVE  AnswersInv'
<1> DEFINE u == configured
<1>0. /\ u \in Users /\ v # u /\ configured' = v /\ UNCHANGED <<enabled, opened, saving>>
      /\ {u, v, Global} \subseteq Databases /\ Global \notin Users /\ None \notin Inodes
      /\ file \in [Databases -> Inodes \cup {None}]
      /\ rows \in [Inodes -> SUBSET Contents] /\ Moved(u, v)
  BY SaveAssumption, InodesFinite DEF SaveInv, SaveType, Change, Databases
<1>1. /\ file'[Global] = file[Global]
      /\ \A i \in Inodes : rows[i] \subseteq rows'[i]
      /\ file[u] \in Inodes => /\ file'[v] \in Inodes
                               /\ rows[file[u]] \subseteq rows'[file'[v]]
  <2>1. CASE file[u] = None
    <3>1. UNCHANGED rows /\ file' \in {file, Created(v)}
      BY <2>1, <1>0 DEF Moved
    <3> QED
      BY <1>0, <2>1, <3>1 DEF Created
  <2>2. CASE file[u] # None /\ file[v] = None
    <3>1. /\ file' = [file EXCEPT ![v] = file[u], ![u] = None]
          /\ UNCHANGED rows
      BY <1>0, <2>2 DEF Moved, Renamed
    <3>2. file'[v] = file[u] /\ file'[Global] = file[Global]
      BY <1>0, <3>1
    <3> QED
      BY <1>0, <3>1, <3>2
  <2>3. CASE file[u] # None /\ file[v] # None
    <3>1. /\ rows' = [rows EXCEPT ![file[v]] = @ \cup rows[file[u]]]
          /\ file' = [file EXCEPT ![u] = None]
      BY <1>0, <2>3 DEF Moved, Merged
    <3>2. file'[v] = file[v] /\ file'[Global] = file[Global] /\ file[v] \in Inodes
      BY <1>0, <2>3, <3>1
    <3> QED
      BY <1>0, <3>1, <3>2
  <2> QED
    BY <2>1, <2>2, <2>3
<1>2. Coherent'
  BY <1>0, <1>1 DEF AnswersInv, Coherent
<1>3. \A c \in Calls : Home(c)'
  BY <1>0, <1>1 DEF AnswersInv, Coherent, Home, ToldOf, Told, saving
<1>4. \A c \in Calls : Alone(c)'
  BY <1>0 DEF AnswersInv, Alone, Told, saving
<1> QED
  BY <1>2, <1>3, <1>4 DEF AnswersInv

LEMMA SessionAnswers ==
    ASSUME SaveInv, AnswersInv, Next
    PROVE  AnswersInv'
<1>1. CASE SessionStart \/ BeforeAgentStart \/ AgentEnd
  <2>1. PICK ok \in BOOLEAN : Bootstraps(ok) \/ Resolves(ok)
    BY <1>1 DEF SessionStart, BeforeAgentStart, AgentEnd
  <2>2. UNCHANGED <<settings, said, adrift>>
    BY <1>1 DEF SessionStart, BeforeAgentStart, AgentEnd, saving
  <2> QED
    BY <2>1, <2>2, ResolvingDoes, FilesMadeKeep DEF SaveInv
<1>2. CASE UserSet
  <2>1. PICK v \in Users : Change(v)
    BY <1>2 DEF UserSet
  <2> QED
    BY <2>1, ChangeAnswers
<1>3. ASSUME NEW c \in Calls, SavesOn(c)
      PROVE  AnswersInv'
  BY <1>3, SaveAnswers DEF SavesOn
<1>4. ASSUME NEW c \in Calls, Notes(c) \/ Hook(c)
      PROVE  AnswersInv'
  <2>1. PICK ok \in BOOLEAN : Resolves(ok) \/ ResolvesActive(ok)
    BY <1>4 DEF Notes, Hook
  <2>2. UNCHANGED <<settings, said, adrift>>
    BY <1>4 DEF Notes, Hook, saving
  <2> QED
    BY <2>1, <2>2, ResolvingDoes, FilesMadeKeep DEF SaveInv
<1>5. ASSUME UNCHANGED <<settings, stores, said, adrift>>
      PROVE  AnswersInv'
  BY <1>5 DEF settings, stores, AnswersInv, Coherent, Home, Alone, ToldOf, Told
<1>6. CASE AgentStart \/ Shutdown \/ Clear
  BY <1>5, <1>6 DEF AgentStart, Shutdown, Clear, saving
<1>7. ASSUME NEW c \in Calls, StartsSave(c) \/ Edits(c) \/ Journal(c)
      PROVE  AnswersInv'
  BY <1>5, <1>7 DEF StartsSave, StartSave, Edits, Journal, saving
<1> QED
  BY <1>1, <1>2, <1>3, <1>4, <1>6, <1>7 DEF Next, Step

LEMMA AnswersInvariant == Spec => [](IInv /\ AnswersInv)
<1>1. Init => IInv /\ AnswersInv
  <2> SUFFICES ASSUME Init PROVE AnswersInv
    BY InitSafe
  <2>1. Global \in Databases /\ 0 \in Inodes
    BY NumberType DEF Databases
  <2>2. file[Global] = 0 /\ opened[Global] = 0
    <3>1. PICK existing \in FirstFiles :
            file = [d \in Databases |->
                      IF d \in existing \cup {Global} THEN Number[d] ELSE None]
      BY DEF Init, SaveInit
    <3> QED
      BY <2>1, <3>1, NumberType DEF Init, SaveInit
  <2>3. Coherent
    <3>1. configured # Global /\ configured \in Databases
      BY SaveAssumption DEF Init, SaveInit, Databases
    <3> QED
      BY <2>1, <2>2, <3>1 DEF Coherent, Init, SaveInit
  <2>4. \A c \in Calls : ~\E l \in {"project", "general"}, s \in {"stored", "duplicate"} :
                             Told(c, l, s)
    BY DEF Init, SaveInit, Silent, Told
  <2> QED
    BY <2>3, <2>4 DEF AnswersInv, Home, Alone, ToldOf
<1>2. IInv /\ AnswersInv /\ [Next]_vars => IInv' /\ AnswersInv'
  <2>1. UNCHANGED vars /\ AnswersInv => AnswersInv'
    BY DEF vars, settings, stores, saving, AnswersInv, Coherent, Home, Alone, ToldOf, Told
  <2> QED
    BY <2>1, Inductive, SessionAnswers DEF IInv
<1> QED
  BY <1>1, <1>2, PTL DEF Spec

-----------------------------------------------------------------------------
\* Every reachable state of a session is well typed: in particular there is an
\* inode for every file, and no counter exceeds the calls and requests.
THEOREM SessionTypeOK == Spec => []TypeOK
<1> QED
  BY InitSafe, Inductive, Types, PTL DEF Spec

\* For any calls, requests, users and policy that asks for it, and however hooks
\* come late, bootstraps fail or checkpoints are not made: a shutdown leaves no
\* database with counted saves behind that no checkpoint was attempted of since,
\* unless the cached runtime strayed from the configured one.
THEOREM ShutdownLeavesNone == Spec => []ShutdownCheckpoints
<1>1. IInv => ShutdownCheckpoints
  BY DEF IInv, RuntimeInv, CheckpointInv, ShutdownCheckpoints
<1> QED
  BY <1>1, InitSafe, Inductive, PTL DEF Spec

\* Whatever the hooks of a request overlapped with, and however many files and
\* notes it has, each of the six reminders at its end is borne out by its calls.
THEOREM RemindersJustified == Spec => []ReminderJustified
<1>1. IInv => ReminderJustified
  <2> SUFFICES ASSUME IInv PROVE ReminderJustified
    OBVIOUS
  <2>1. ASSUME NEW r
        PROVE  /\ EditsOf(r) = {c \in {d \in Calls : part[d] = r} : EditsWorkspace(c)}
               /\ HeldOf(r) =
                    {c \in {d \in Calls : part[d] = r} : IsExplicit(c) /\ worked[c]}
    BY DEF EditsOf, HeldOf
  <2>2. \A r \in 1..MaxRequests : reminded[r] = "none" \/ Said(r, reminded[r])
    BY DEF IInv, ReminderInv
  <2> QED
    BY <2>1, <2>2 DEF ReminderJustified, Said, SemanticOf
<1> QED
  BY <1>1, InitSafe, Inductive, PTL DEF Spec

\* For any users, changes of the user and failures, also while saves wait for
\* their embeddings: what a call was told about its project memory is so in the
\* configured user's database, and stays so, unless a store answered that did not
\* hold that user's file.
THEOREM AnswersAreThere == Spec => []AnsweredStays
<1>1. IInv /\ AnswersInv => AnsweredStays
  BY InodesFinite DEF AnswersInv, Home, AnsweredStays
<1> QED
  BY <1>1, AnswersInvariant, PTL

\* Then, also, one call at most is told that it stored a content, however many
\* save it at once.
THEOREM OneIsTold == Spec => []StoredOnce
<1>1. AnswersInv => StoredOnce
  <2> SUFFICES ASSUME AnswersInv, NEW x \in Contents
               PROVE  Cardinality({c \in Calls \ adrift : /\ Project[c] = x
                                                 /\ Told(c, "project", "stored")}) <= 1
    BY DEF StoredOnce
  <2> DEFINE S == {c \in Calls \ adrift : Project[c] = x /\ Told(c, "project", "stored")}
  <2>1. CASE S = {}
    BY <2>1, FS_EmptySet
  <2>2. ASSUME NEW c \in S PROVE Cardinality(S) <= 1
    <3>1. S = {c}
      BY <2>2 DEF AnswersInv, Alone
    <3>2. Cardinality({c}) = 1
      BY FS_Singleton
    <3> HIDE DEF S
    <3> QED
      BY <3>1, <3>2
  <2> QED
    BY <2>1, <2>2
<1> QED
  BY <1>1, AnswersInvariant, PTL
=============================================================================
