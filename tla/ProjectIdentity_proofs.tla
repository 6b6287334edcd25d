----------------------- MODULE ProjectIdentity_proofs -----------------------
(***************************************************************************)
(* Type correctness of ProjectIdentity, the serial mutations of a process, *)
(* and the privacy of random ids, for any calls, processes and users.      *)
(***************************************************************************)
EXTENDS ProjectIdentity, ConfigStore_proofs, FiniteSetTheorems

\* A config that names a random id says so, which is what keeps the rules safe.
Sound == {cfg \in Config : cfg.user \in LocalUsers => IsRandomLocal(cfg)}

SoundMutation(c) ==
    /\ cf[c] \notin Underway => edit[c] = None
    /\ cf[c] \in {"rules", "truncate", "fill", "written"} => draft[c] \in Sound
    /\ cf[c] = "queued" =>
         IF edit[c] = None THEN draft[c] \in Sound
         ELSE \A cfg \in Sound : Edited(cfg, edit[c]) \in Sound

SoundConfig ==
    /\ file \in Sound \cup {Absent, Torn}
    /\ LocalIdentityIgnored
    /\ \A c \in Calls : SoundMutation(c)

ConfigInv == ConfigType /\ QueueInv /\ SoundConfig

\* A mutation runs only for a call that awaits it.
Awaiting == {"update", "create", "persist"}
Awaited == \A c \in Calls : pc[c] \notin Awaiting => cf[c] = "none"

Moving == {"migrate", "rename", "moveWal", "remove", "purge"}

SoundCall(c) ==
    /\ my[c].stage = "command" => my[c].to \notin LocalUsers
    /\ pc[c] \in {"idle", "update", "protect", "boot"} => my[c].stage = "command"
    /\ pc[c] \in {"create", "resolve", "persist"} => my[c].stage = "boot"
    /\ pc[c] = "resolve" => my[c].seen \in Sound
    /\ my[c].id.user \in LocalUsers => my[c].id.source = "random-local"
    /\ pc[c] \in {"idle", "update"} /\ From(c) /= None => To(c) /= None
    /\ pc[c] \in Moving => From(c) \in Users /\ To(c) \in Users /\ From(c) /= To(c)
    /\ pc[c] = "persist" => To(c) /= None

CallType ==
    /\ pc \in [Calls -> Standing]
    /\ my \in [Calls -> Locals]
    /\ mem \in [Users -> (SUBSET Row) \cup {NoFile}]
    /\ wal \in [Users -> (SUBSET Row) \cup {NoFile}]
    /\ disturbed \subseteq Calls
    /\ runtime \in [Hosts -> Users \cup {None}]
    /\ derived \in BOOLEAN
    /\ crashes \in 0..MaxCrashes

CallInv == CallType /\ Awaited /\ \A c \in Calls : SoundCall(c)

IInv == ConfigInv /\ CallInv

-----------------------------------------------------------------------------
\* What holds of the constants.
LEMMA Constants ==
    /\ LocalUsers \subseteq Users /\ None \notin LocalUsers
    /\ "all" \notin LocalUsers /\ Absent \notin LocalUsers
    /\ DerivedUser \in Users /\ DerivedUser \notin LocalUsers
    /\ \A c \in Calls : RandomUser[c] \in LocalUsers /\ Host[c] \in Hosts
    /\ None \notin Edit
BY ConfigAssumption, IdentityAssumption DEF ConfigAssumption, IdentityAssumption, LocalUsers

\* What a missing file is read as.
LEMMA FallbackSound == Fallback \in Config /\ Fallback \in Sound
<1>1. DefaultConfig \in Config
  BY DEF DefaultConfig, Config, Sources
<1>2. Normalized(Legacy) \in Config
  BY DEF Normalized, Config, Sources
<1>3. Fallback \in Config
  BY <1>1, <1>2 DEF Fallback
<1> QED
  BY <1>3, IdentityAssumption DEF Sound, IdentityAssumption

\* An edit sets fields of a config to values of their types.
LEMMA EditedType ==
    ASSUME NEW cfg \in Config, NEW e \in Edit
    PROVE  Edited(cfg, e) \in Config
<1>1. DOMAIN cfg = {"enabled", "user", "source"}
  BY DEF Config
<1>2. Edited(cfg, e) = [enabled |-> IF e.enabled = Keep THEN cfg.enabled ELSE e.enabled,
                        user |-> IF e.user = Keep THEN cfg.user ELSE e.user,
                        source |-> IF e.source = Keep THEN cfg.source ELSE e.source]
  BY <1>1 DEF Edited
<1> QED
  BY <1>2 DEF Config, Edit

-----------------------------------------------------------------------------
(* What the operations of the config store preserve.                       *)

LEMMA ConfigRests ==
    ASSUME ConfigInv, UNCHANGED config
    PROVE  ConfigInv'
<1>1. QueueInv'
  BY QueueRests DEF ConfigInv, config
<1>2. ConfigType'
  BY DEF ConfigInv, ConfigType, config
<1>3. SoundConfig'
  BY DEF ConfigInv, SoundConfig, SoundMutation, LocalIdentityIgnored, config
<1> QED
  BY <1>1, <1>2, <1>3 DEF ConfigInv

LEMMA UpdateSafe ==
    ASSUME ConfigInv, NEW c \in Calls, NEW e \in Edit, cf[c] = "none", Update(c, e),
           \A cfg \in Sound : Edited(cfg, e) \in Sound
    PROVE  ConfigInv'
<1>1. QueueInv'
  BY QueueGrows DEF ConfigInv, Update, Active, Underway
<1>2. ConfigType'
  BY Constants DEF ConfigInv, ConfigType, Update, Enqueue, Phase
<1>3. SoundConfig'
  <2>1. \A d \in Calls : SoundMutation(d)'
    BY Constants DEF ConfigInv, ConfigType, SoundConfig, SoundMutation, Update, Enqueue,
       Underway
  <2> QED
    BY <2>1 DEF ConfigInv, SoundConfig, LocalIdentityIgnored, Update
<1> QED
  BY <1>1, <1>2, <1>3 DEF ConfigInv

LEMMA FirstWriteSafe ==
    ASSUME ConfigInv, NEW c \in Calls, NEW cfg \in Sound, cf[c] = "none", FirstWrite(c, cfg)
    PROVE  ConfigInv'
<1>1. QueueInv'
  BY QueueGrows DEF ConfigInv, FirstWrite, Active, Underway
<1>2. ConfigType'
  BY Constants DEF ConfigInv, ConfigType, FirstWrite, Enqueue, Phase, Sound
<1>3. SoundConfig'
  <2>1. \A d \in Calls : SoundMutation(d)'
    BY DEF ConfigInv, ConfigType, SoundConfig, SoundMutation, FirstWrite, Enqueue,
       Underway
  <2> QED
    BY <2>1 DEF ConfigInv, SoundConfig, LocalIdentityIgnored, FirstWrite
<1> QED
  BY <1>1, <1>2, <1>3 DEF ConfigInv

LEMMA ReturnsSafe ==
    ASSUME ConfigInv, NEW c \in Calls, cf[c] \in {"written", "failed"}, ConfigReturns(c)
    PROVE  ConfigInv'
<1>1. QueueInv'
  BY QueueForgets DEF ConfigInv, ConfigReturns, Active, Underway
<1>2. ConfigType'
  BY DEF ConfigInv, ConfigType, ConfigReturns, Phase
<1>3. SoundConfig'
  <2>1. \A d \in Calls : SoundMutation(d)'
    BY DEF ConfigInv, ConfigType, SoundConfig, SoundMutation, ConfigReturns, Underway
  <2> QED
    BY <2>1 DEF ConfigInv, SoundConfig, LocalIdentityIgnored, ConfigReturns
<1> QED
  BY <1>1, <1>2, <1>3 DEF ConfigInv

\* The rules written for a sound config never name a random id.
LEMMA RulesSafe ==
    ASSUME NEW cfg \in Sound
    PROVE  RulesFor(cfg) \in (Users \cup {"all"}) \ LocalUsers
BY Constants DEF RulesFor, Rules, Sound, Config

\* A mutation that runs to its end, or fails, in all its steps.
LEMMA MutationSafe ==
    ASSUME ConfigInv, NEW c \in Calls, ConfigStep(c)
    PROVE  ConfigInv'
<1>1. QueueInv'
  BY QueueSteps DEF ConfigInv
<1>2. ConfigType /\ SoundConfig /\ SoundMutation(c) /\ Host[c] \in Hosts
  BY Constants DEF ConfigInv, SoundConfig
<1>3. CASE ConfigLocked(c)
  <2>1. edit[c] /= None => Loaded \in Sound
    BY <1>2, <1>3, FallbackSound DEF ConfigLocked, SoundConfig, Loaded, Readable
  <2>2. draft'[c] \in Sound
    BY <1>2, <1>3, <2>1 DEF ConfigLocked, ConfigType, SoundMutation
  <2>3. ConfigType'
    BY <1>2, <1>3, <2>2 DEF ConfigLocked, ConfigType, Phase, Sound
  <2>4. \A d \in Calls : SoundMutation(d)'
    BY <1>2, <1>3, <2>2 DEF ConfigLocked, ConfigType, SoundConfig, SoundMutation, Underway
  <2> QED
    BY <1>1, <1>2, <1>3, <2>3, <2>4 DEF ConfigLocked, ConfigInv, SoundConfig,
       LocalIdentityIgnored
<1>4. CASE ConfigUnreadable(c)
  <2>1. ConfigType'
    BY <1>2, <1>4, Constants
    DEF ConfigUnreadable, FailMutation, Release, ConfigType, Phase
  <2>2. \A d \in Calls : SoundMutation(d)'
    BY <1>2, <1>4
    DEF ConfigUnreadable, FailMutation, ConfigType, SoundConfig, SoundMutation, Underway
  <2> QED
    BY <1>1, <1>2, <1>4, <2>1, <2>2 DEF ConfigUnreadable, FailMutation, ConfigInv,
       SoundConfig, LocalIdentityIgnored
<1>5. CASE ConfigRules(c)
  <2>1. ignored' \in (Users \cup {"all"}) \ LocalUsers
    BY <1>2, <1>5, RulesSafe DEF ConfigRules, SoundMutation
  <2>2. ConfigType'
    BY <1>2, <1>5, <2>1 DEF ConfigRules, ConfigType, Phase
  <2>3. \A d \in Calls : SoundMutation(d)'
    BY <1>2, <1>5 DEF ConfigRules, ConfigType, SoundConfig, SoundMutation, Underway
  <2> QED
    BY <1>1, <1>2, <1>5, <2>1, <2>2, <2>3 DEF ConfigRules, ConfigInv, SoundConfig,
       LocalIdentityIgnored
<1>6. CASE ConfigTruncate(c)
  <2>1. ConfigType'
    BY <1>2, <1>6 DEF ConfigTruncate, ConfigType, Phase
  <2>2. \A d \in Calls : SoundMutation(d)'
    BY <1>2, <1>6 DEF ConfigTruncate, ConfigType, SoundConfig, SoundMutation, Underway
  <2> QED
    BY <1>1, <1>2, <1>6, <2>1, <2>2 DEF ConfigTruncate, ConfigInv, SoundConfig,
       LocalIdentityIgnored
<1>7. CASE ConfigFill(c)
  <2>1. draft[c] \in Sound
    BY <1>2, <1>7 DEF ConfigFill, SoundMutation
  <2>2. ConfigType'
    BY <1>2, <1>7, <2>1, Constants DEF ConfigFill, Release, ConfigType, Phase, Sound
  <2>3. \A d \in Calls : SoundMutation(d)'
    BY <1>2, <1>7, <2>1 DEF ConfigFill, ConfigType, SoundConfig, SoundMutation, Underway
  <2> QED
    BY <1>1, <1>2, <1>7, <2>1, <2>2, <2>3 DEF ConfigFill, ConfigInv, SoundConfig,
       LocalIdentityIgnored
<1> QED
  BY <1>3, <1>4, <1>5, <1>6, <1>7 DEF ConfigStep

LEMMA ConfigCrashSafe ==
    ASSUME ConfigInv, NEW h \in Hosts, ConfigCrash(h)
    PROVE  ConfigInv'
<1>1. QueueInv'
  BY QueueCrashes DEF ConfigInv
<1>2. ConfigType'
  BY DEF ConfigInv, ConfigType, ConfigCrash, Phase
<1>3. \A d \in Calls : SoundMutation(d)'
  BY DEF ConfigInv, ConfigType, ConfigCrash, SoundConfig, SoundMutation, Underway
<1> QED
  BY <1>1, <1>2, <1>3 DEF ConfigInv, ConfigCrash, SoundConfig, LocalIdentityIgnored

\* A write of the rules alone that keeps random ids out of them.
LEMMA RulesWritten ==
    ASSUME ConfigInv, ignored' \in (Users \cup {Absent, "all"}) \ LocalUsers,
           UNCHANGED <<file, tail, behind, cf, edit, draft>>
    PROVE  ConfigInv'
<1>1. QueueInv'
  BY QueueRests DEF ConfigInv
<1>2. ConfigType'
  BY DEF ConfigInv, ConfigType
<1>3. SoundConfig'
  BY DEF ConfigInv, SoundConfig, SoundMutation, LocalIdentityIgnored
<1> QED
  BY <1>1, <1>2, <1>3 DEF ConfigInv

-----------------------------------------------------------------------------
(* What the actions of a call preserve.                                    *)

\* The rows a database shows, and the ones a merge leaves in it, are rows.
LEMMA RowsType ==
    ASSUME CallType, NEW u \in Users
    PROVE  InMain(u) \in SUBSET Row /\ InLog(u) \in SUBSET Row /\ Visible(u) \in SUBSET Row
BY DEF CallType, InMain, InLog, Visible, Exists

LEMMA InsertedType ==
    ASSUME CallType, NEW u \in Users, NEW new \in SUBSET Row, Inserted(u, new)
    PROVE  /\ mem' \in [Users -> (SUBSET Row) \cup {NoFile}]
           /\ wal' \in [Users -> (SUBSET Row) \cup {NoFile}]
<1>1. /\ mem \in [Users -> (SUBSET Row) \cup {NoFile}]
      /\ wal \in [Users -> (SUBSET Row) \cup {NoFile}]
      /\ InMain(u) \in SUBSET Row /\ InLog(u) \in SUBSET Row /\ Visible(u) \in SUBSET Row
  BY RowsType DEF CallType
<1>2. PICK S \in SUBSET Row, L \in (SUBSET Row) \cup {NoFile} :
        mem' = [mem EXCEPT ![u] = S] /\ wal' = [wal EXCEPT ![u] = L]
  <2>1. CASE mem' = [mem EXCEPT ![u] = Visible(u) \cup new] /\ wal' = [wal EXCEPT ![u] = NoFile]
    BY <1>1, <2>1
  <2>2. CASE mem' = [mem EXCEPT ![u] = InMain(u)] /\ wal' = [wal EXCEPT ![u] = InLog(u) \cup new]
    BY <1>1, <2>2
  <2> QED
    BY <2>1, <2>2 DEF Inserted
<1> QED
  BY <1>1, <1>2

LEMMA StartsSafe ==
    ASSUME IInv, NEW c \in Calls, NEW o \in Operations[c], Start(c, o)
    PROVE  IInv'
<1>0. /\ ConfigInv /\ CallInv /\ CallType /\ SoundCall(c) /\ SoundConfig
      /\ o \in Operation /\ (o.kind = "set" => o.user \notin LocalUsers)
      /\ pc \in [Calls -> Standing] /\ my \in [Calls -> Locals]
  BY IdentityAssumption DEF IInv, CallInv, CallType, ConfigInv, IdentityAssumption
<1>1. CASE StartToggle(c, o)
  <2> DEFINE e == [enabled |-> o.value, user |-> Keep, source |-> Keep]
  <2>1. e \in Edit
    BY <1>0, <1>1 DEF StartToggle, Edit, Operation
  <2>2. \A cfg \in Sound : Edited(cfg, e) \in Sound
    BY <2>1, EditedType DEF Sound, Edited, Config, IsRandomLocal
  <2>3. ConfigInv'
    BY <1>0, <1>1, <2>1, <2>2, UpdateSafe DEF StartToggle, Begins, CallInv, Awaited, Awaiting
  <2>4. CallInv'
    BY <1>0, <1>1 DEF StartToggle, Begins, Goes, CallInv, CallType, Standing, Ended,
       files, world, Update, Enqueue, Awaited, Awaiting, SoundCall, From, To, Moving
  <2> QED
    BY <2>3, <2>4 DEF IInv
<1>2. CASE StartAuto(c, o)
  <2> DEFINE e == [enabled |-> Keep, user |-> None, source |-> "unresolved"]
  <2>1. e \in Edit
    BY DEF Edit, Sources
  <2>2. \A cfg \in Sound : Edited(cfg, e) \in Sound
    BY <2>1, EditedType, Constants, ConfigAssumption
    DEF Sound, Edited, Config, Sources, ConfigAssumption
  <2>3. ConfigInv'
    BY <1>0, <1>2, <2>1, <2>2, UpdateSafe DEF StartAuto, Begins, CallInv, Awaited, Awaiting
  <2>4. CallInv'
    BY <1>0, <1>2 DEF StartAuto, Begins, Goes, CallInv, CallType, Standing, Ended,
       files, world, Update, Enqueue, Awaited, Awaiting, SoundCall, From, To, Moving
  <2> QED
    BY <2>3, <2>4 DEF IInv
<1>3. CASE StartSet(c, o)
  <2> DEFINE e == [enabled |-> Keep, user |-> o.user, source |-> "explicit"]
  <2>1. o.user \in Users /\ o.user \notin LocalUsers /\ o.user /= None
    BY <1>0, <1>3, ConfigAssumption DEF StartSet, Operation, ConfigAssumption
  <2>2. e \in Edit
    BY <2>1 DEF Edit, Sources
  <2>3. \A cfg \in Sound : Edited(cfg, e) \in Sound
    BY <2>1, <2>2, EditedType, ConfigAssumption
    DEF Sound, Edited, Config, Sources, ConfigAssumption
  <2>4. ConfigInv'
    BY <1>0, <1>3, <2>2, <2>3, UpdateSafe DEF StartSet, Begins, CallInv, Awaited, Awaiting
  <2>5. Loaded.user \in Users \cup {None}
    BY <1>0, <1>3, FallbackSound DEF StartSet, Readable, Loaded, ConfigInv, ConfigType, Config
  <2>6. CallInv'
    <3>1. [my[c] EXCEPT !.from = Loaded.user, !.to = o.user] \in Locals
      BY <1>0, <2>1, <2>5 DEF Locals
    <3>2. my' \in [Calls -> Locals]
      BY <1>0, <1>3, <3>1 DEF StartSet
    <3>3. CallType'
      BY <1>0, <1>3, <3>2 DEF StartSet, Begins, Goes, CallType, Standing, files, world
    <3> QED
      BY <1>0, <1>3, <2>1, <3>3 DEF StartSet, Begins, Goes, CallInv, CallType, Standing,
         Ended, Locals, Update, Enqueue, Awaited, Awaiting, SoundCall, From, To, Moving
  <2> QED
    BY <2>4, <2>6 DEF IInv
<1>4. CASE StartSetFails(c, o)
  <2>1. ConfigInv'
    BY <1>0, <1>4, ConfigRests DEF StartSetFails
  <2>2. CallInv'
    BY <1>0, <1>4 DEF StartSetFails, Begins, Goes, CallInv, CallType, Standing, Ended,
       files, world, config, Awaited, Awaiting, SoundCall, From, To, Moving
  <2> QED
    BY <2>1, <2>2 DEF IInv
<1>5. CASE StartBootstrap(c, o)
  <2>1. ConfigInv'
    BY <1>0, <1>5, ConfigRests DEF StartBootstrap
  <2>2. CallInv'
    BY <1>0, <1>5 DEF StartBootstrap, Begins, Goes, CallInv, CallType, Standing, Ended,
       files, world, config, Awaited, Awaiting, SoundCall, From, To, Moving
  <2> QED
    BY <2>1, <2>2 DEF IInv
<1>6. CASE Save(c, o)
  <2> DEFINE u == runtime[Host[c]]
  <2>1. ConfigInv'
    BY <1>0, <1>6, ConfigRests DEF Save
  <2>2. u \in Users
    BY <1>0, <1>6, Constants DEF Save, CallType
  <2>3. PICK rowid \in IF o.kind = "memory" THEN NextRowid(u) ELSE {0} :
          Inserted(u, {[of |-> c, rowid |-> rowid]})
    BY <1>6 DEF Save
  <2>4. [of |-> c, rowid |-> rowid] \in Row
    <3>1. Cardinality(Calls \cup OldRows) \in Nat
      BY FS_CardinalityType, IdentityAssumption DEF IdentityAssumption
    <3>2. rowid \in 0..Cardinality(Calls \cup OldRows)
      BY <2>3, <3>1 DEF NextRowid
    <3> QED
      BY <3>2 DEF Row
  <2>5. /\ mem' \in [Users -> (SUBSET Row) \cup {NoFile}]
        /\ wal' \in [Users -> (SUBSET Row) \cup {NoFile}]
    BY <1>0, <2>2, <2>3, <2>4, InsertedType
  <2>6. CallInv'
    BY <1>0, <1>6, <2>5 DEF Save, Begins, Goes, CallInv, CallType, Standing, Ended,
       world, config, Awaited, Awaiting, SoundCall, From, To, Moving
  <2> QED
    BY <2>1, <2>6 DEF IInv
<1> QED
  BY <1>1, <1>2, <1>3, <1>4, <1>5, <1>6 DEF Start

LEMMA MovesSafe ==
    ASSUME IInv, NEW c \in Calls, MigrationStep(c)
    PROVE  IInv'
<1>0. /\ ConfigInv /\ CallInv /\ CallType /\ SoundCall(c) /\ cf \in [Calls -> Phase]
      /\ pc \in [Calls -> Standing] /\ my \in [Calls -> Locals]
      /\ pc[c] \in Moving => From(c) \in Users /\ To(c) \in Users
  BY DEF IInv, CallInv, CallType, ConfigInv, ConfigType, SoundCall
<1>1. Resumes(c) /\ pc[c] \in Moving /\ UNCHANGED config =>
        /\ pc' \in [Calls -> Standing] /\ my' \in [Calls -> Locals]
        /\ Awaited' /\ \A d \in Calls : SoundCall(d)'
  <2> SUFFICES ASSUME Resumes(c), pc[c] \in Moving, UNCHANGED config
               PROVE  /\ pc' \in [Calls -> Standing] /\ my' \in [Calls -> Locals]
                      /\ Awaited' /\ \A d \in Calls : SoundCall(d)'
    OBVIOUS
  <2>1. pc' \in [Calls -> Standing]
    BY <1>0 DEF Resumes, Goes, Standing
  <2>2. [my[c] EXCEPT !.from = None, !.known = {}] \in Locals
    BY <1>0 DEF Locals
  <2>3. my' \in [Calls -> Locals]
    BY <1>0, <2>2 DEF Resumes
  <2>4. Awaited'
    BY <1>0, <2>1 DEF Resumes, Goes, CallInv, config, Awaited, Awaiting, Moving
  <2>5. \A d \in Calls : SoundCall(d)'
    <3> TAKE d \in Calls
    <3>1. CASE d = c
      BY <1>0, <2>1, <3>1 DEF Resumes, Goes, Locals, SoundCall, From, To, Moving
    <3>2. CASE d /= c
      BY <1>0, <3>2 DEF Resumes, Goes, CallInv, SoundCall, From, To
    <3> QED
      BY <3>1, <3>2
  <2> QED
    BY <2>1, <2>3, <2>4, <2>5
<1>2. CASE MigrateNothing(c)
  <2>1. ConfigInv'
    BY <1>0, <1>2, ConfigRests DEF MigrateNothing
  <2>2. CallInv'
    BY <1>0, <1>1, <1>2 DEF MigrateNothing, CallInv, CallType, Moving, files, world
  <2> QED
    BY <2>1, <2>2 DEF IInv
<1>3. CASE MigrateRenames(c)
  <2>1. ConfigInv'
    BY <1>0, <1>3, ConfigRests DEF MigrateRenames
  <2>2. CallInv'
    <3>1. InMain(From(c)) \cup InMain(To(c)) \in SUBSET Row
      BY <1>0, <1>3, RowsType DEF MigrateRenames, Moving
    <3>0. /\ pc' = [pc EXCEPT ![c] = "rename"] /\ UNCHANGED <<config, mem, wal, world>>
          /\ disturbed' \subseteq Calls
      BY <1>0, <1>3 DEF MigrateRenames, Answers, Goes, CallType
    <3>2. CallType'
      <4>1. [my[c] EXCEPT !.known = InMain(From(c))] \in Locals
        BY <1>0, <3>1 DEF Locals
      <4>2. my' \in [Calls -> Locals]
        BY <1>0, <1>3, <4>1 DEF MigrateRenames, Answers
      <4> QED
        BY <1>0, <3>0, <4>2 DEF CallType, Standing, world
    <3>3. Awaited'
      <4>1. cf' = cf /\ Awaited /\ pc \in [Calls -> Standing] /\ pc[c] = "migrate"
        BY <1>0, <1>3, <3>0 DEF MigrateRenames, CallInv, config
      <4> QED
        BY <3>0, <4>1 DEF Awaited, Awaiting
    <3>4. /\ my'[c].from = my[c].from /\ my'[c].to = my[c].to /\ my'[c].id = my[c].id
          /\ my'[c].stage = my[c].stage /\ pc[c] \in Moving /\ pc'[c] = "rename"
          /\ \A d \in Calls \ {c} : my'[d] = my[d] /\ pc'[d] = pc[d]
      BY <1>0, <1>3 DEF MigrateRenames, Answers, Goes, CallType, Locals, Moving
    <3> QED
      BY <1>0, <3>2, <3>3, <3>4 DEF CallInv, SoundCall, From, To, Moving
  <2> QED
    BY <2>1, <2>2 DEF IInv
<1>4. CASE Rename(c)
  <2>1. ConfigInv'
    BY <1>0, <1>4, ConfigRests DEF Rename
  <2>2. From(c) \in Users /\ To(c) \in Users /\ pc[c] \in Moving
    BY <1>0, <1>4 DEF Rename, Moving
  <2>3. CASE Resumes(c) /\ UNCHANGED <<mem, disturbed>>
    BY <1>1, <1>4, <2>1, <2>2, <2>3, <1>0 DEF Rename, IInv, CallInv, CallType, world
  <2>4. CASE /\ mem' = [mem EXCEPT ![To(c)] = mem[From(c)], ![From(c)] = NoFile]
             /\ Disturbs(c, {From(c), To(c)}) /\ Goes(c, "moveWal") /\ UNCHANGED my
    <3>1. CallType'
      BY <1>0, <1>4, <2>2, <2>4 DEF Rename, Disturbs, Goes, CallType, Standing, world
    <3> QED
      BY <1>0, <1>4, <2>1, <2>2, <2>4, <3>1 DEF Rename, Goes, IInv, CallInv, config,
         Awaited, Awaiting, SoundCall, From, To, Moving
  <2> QED
    BY <1>4, <2>3, <2>4 DEF Rename
<1>5. CASE MoveWal(c)
  <2>1. ConfigInv'
    BY <1>0, <1>5, ConfigRests DEF MoveWal
  <2>2. wal' \in [Users -> (SUBSET Row) \cup {NoFile}]
    BY <1>0, <1>5 DEF MoveWal, Moving, CallType
  <2>0. disturbed' \subseteq Calls
    BY <1>0, <1>5 DEF MoveWal, DisturbsLog, CallType
  <2>3. CallInv'
    BY <1>0, <1>1, <1>5, <2>0, <2>2 DEF MoveWal, CallInv, CallType, Moving, world
  <2> QED
    BY <2>1, <2>3 DEF IInv
<1>6. CASE Merge(c)
  <2>1. ConfigInv'
    BY <1>0, <1>6, ConfigRests DEF Merge
  <2>2. From(c) \in Users /\ To(c) \in Users
    BY <1>0, <1>6 DEF Merge, Moving
  <2>3. /\ Fitting(Visible(From(c)), To(c)) \in SUBSET Row
        /\ Merged(From(c), To(c)) \in SUBSET Row
    BY <1>0, <2>2, RowsType DEF Merged, Fitting
  <2>0. /\ pc' = [pc EXCEPT ![c] = "remove"] /\ UNCHANGED <<config, world>>
        /\ mem' \in [Users -> (SUBSET Row) \cup {NoFile}]
        /\ wal' \in [Users -> (SUBSET Row) \cup {NoFile}]
        /\ disturbed' \subseteq Calls
    <3>1. Inserted(To(c), Fitting(Visible(From(c)), To(c)))
      BY <1>6 DEF Merge
    <3>2. /\ mem' \in [Users -> (SUBSET Row) \cup {NoFile}]
          /\ wal' \in [Users -> (SUBSET Row) \cup {NoFile}]
      BY <1>0, <2>2, <2>3, <3>1, InsertedType
    <3> QED
      BY <1>0, <1>6, <3>2 DEF Merge, Answers, Goes, CallType
  <2>4. CallType'
    <3>1. [my[c] EXCEPT !.known = Merged(From(c), To(c))] \in Locals
      BY <1>0, <2>3 DEF Locals
    <3>2. my' \in [Calls -> Locals]
      BY <1>0, <1>6, <3>1 DEF Merge, Answers
    <3> QED
      BY <1>0, <2>0, <2>2, <2>3, <3>2 DEF CallType, Standing, world
  <2>5. Awaited'
    <3>1. cf' = cf /\ Awaited /\ pc \in [Calls -> Standing] /\ pc[c] = "migrate"
      BY <1>0, <1>6, <2>0 DEF Merge, CallInv, config
    <3> QED
      BY <2>0, <3>1 DEF Awaited, Awaiting
  <2>6. /\ my'[c].from = my[c].from /\ my'[c].to = my[c].to /\ my'[c].id = my[c].id
        /\ my'[c].stage = my[c].stage /\ pc[c] \in Moving /\ pc'[c] = "remove"
        /\ \A d \in Calls \ {c} : my'[d] = my[d] /\ pc'[d] = pc[d]
    BY <1>0, <1>6 DEF Merge, Answers, Goes, CallType, Locals, Moving
  <2> QED
    BY <1>0, <2>1, <2>4, <2>5, <2>6 DEF IInv, CallInv, SoundCall, From, To, Moving
<1>7. CASE MergeFails(c)
  <2>1. ConfigInv'
    BY <1>0, <1>7, ConfigRests DEF MergeFails
  <2>2. From(c) \in Users /\ To(c) \in Users
    BY <1>0, <1>7 DEF MergeFails, Moving
  <2>3. /\ mem' \in [Users -> (SUBSET Row) \cup {NoFile}]
        /\ wal' \in [Users -> (SUBSET Row) \cup {NoFile}]
    <3>1. PICK copied \in {{}, {r \in Visible(From(c)) : r.rowid /= 0}} :
            Inserted(To(c), Fitting(copied, To(c)))
      BY <1>7 DEF MergeFails
    <3>2. Fitting(copied, To(c)) \in SUBSET Row
      BY <1>0, <2>2, RowsType DEF Fitting
    <3> QED
      BY <1>0, <2>2, <3>1, <3>2, InsertedType
  <2>4. CallInv'
    BY <1>0, <1>1, <1>7, <2>3 DEF MergeFails, CallInv, CallType, Moving, world
  <2> QED
    BY <2>1, <2>4 DEF IInv
<1>8. CASE RemoveSource(c)
  <2>1. ConfigInv'
    BY <1>0, <1>8, ConfigRests DEF RemoveSource
  <2>2. CallType'
    BY <1>0, <1>8 DEF RemoveSource, Disturbs, Goes, CallType, Standing, world
  <2> QED
    BY <1>0, <1>8, <2>1, <2>2 DEF RemoveSource, Goes, IInv, CallInv, config,
       Awaited, Awaiting, SoundCall, From, To, Moving
<1>9. CASE PurgeSidecars(c)
  <2>1. ConfigInv'
    BY <1>0, <1>9, ConfigRests DEF PurgeSidecars
  <2>2. wal' \in [Users -> (SUBSET Row) \cup {NoFile}]
    BY <1>0, <1>9 DEF PurgeSidecars, CallType
  <2>0. disturbed' \subseteq Calls
    BY <1>0, <1>9 DEF PurgeSidecars, DisturbsLog, CallType
  <2>3. CallInv'
    BY <1>0, <1>1, <1>9, <2>0, <2>2 DEF PurgeSidecars, CallInv, CallType, Moving, world
  <2> QED
    BY <2>1, <2>3 DEF IInv
<1>10. CASE Protect(c)
  <2>1. To(c) \in Users \cup {None} /\ To(c) \notin LocalUsers
    BY <1>0, <1>10 DEF Protect, SoundCall, To, Locals
  <2>2. ignored' \in (Users \cup {Absent, "all"}) \ LocalUsers
    BY <1>0, <1>10, <2>1, Constants DEF Protect, Rules, ConfigInv, ConfigType, SoundConfig,
       LocalIdentityIgnored
  <2>3. ConfigInv'
    BY <1>0, <1>10, <2>2, RulesWritten DEF Protect
  <2>0. pc' = [pc EXCEPT ![c] = "boot"] /\ UNCHANGED <<cf, files, world>>
    BY <1>10 DEF Protect, Goes
  <2>4. CallType'
    <3>1. [my[c] EXCEPT !.to = None] \in Locals
      BY <1>0 DEF Locals
    <3>2. my' \in [Calls -> Locals]
      BY <1>0, <1>10, <3>1 DEF Protect
    <3> QED
      BY <1>0, <2>0, <3>2 DEF CallType, Standing, files, world
  <2>5. Awaited'
    <3>1. cf' = cf /\ Awaited /\ pc \in [Calls -> Standing] /\ pc[c] = "protect"
      BY <1>0, <1>10, <2>0 DEF Protect, CallInv
    <3> QED
      BY <2>0, <3>1 DEF Awaited, Awaiting
  <2>6. /\ my'[c].from = my[c].from /\ my'[c].to = None /\ my'[c].id = my[c].id
        /\ my[c].stage = "command" /\ my'[c].stage = "command" /\ pc'[c] = "boot"
        /\ \A d \in Calls \ {c} : my'[d] = my[d] /\ pc'[d] = pc[d]
    BY <1>0, <1>10 DEF Protect, Goes, CallType, Locals, SoundCall
  <2> QED
    BY <1>0, <2>3, <2>4, <2>5, <2>6, Constants DEF IInv, CallInv, SoundCall, From, To, Moving
<1> QED
  BY <1>2, <1>3, <1>4, <1>5, <1>6, <1>7, <1>8, <1>9, <1>10 DEF MigrationStep

\* A resolution names a user, and says so when the user is a random id.
LEMMA ResolutionSafe ==
    ASSUME CallType, NEW c \in Calls, NEW cfg \in Sound
    PROVE  /\ Resolution(cfg, c) \in [user : Users \cup {None}, source : Sources]
           /\ Resolution(cfg, c).user \in LocalUsers =>
                Resolution(cfg, c).source = "random-local"
BY Constants, ConfigAssumption
DEF Resolution, Unresolved, IsRandomLocal, Sound, Config, Sources, ConfigAssumption, CallType

LEMMA BootsSafe ==
    ASSUME IInv, NEW c \in Calls, BootStep(c)
    PROVE  IInv'
<1>0. /\ ConfigInv /\ CallInv /\ CallType /\ SoundCall(c) /\ SoundConfig /\ SoundMutation(c)
      /\ cf \in [Calls -> Phase] /\ draft \in [Calls -> Config \cup {None}]
      /\ pc \in [Calls -> Standing] /\ my \in [Calls -> Locals]
  BY DEF IInv, CallInv, CallType, ConfigInv, ConfigType, SoundConfig
<1>1. CASE EnsureWorkspace(c)
  <2>1. CASE /\ file \notin {Absent, Torn}
             /\ my' = [my EXCEPT ![c].stage = "boot", ![c].seen = file]
             /\ ignored' = RulesFor(file)
             /\ Goes(c, "resolve")
             /\ UNCHANGED <<file, tail, behind, cf, edit, draft>>
    <3>1. file \in Sound /\ file \in Config
      BY <1>0, <2>1 DEF SoundConfig, Sound
    <3>2. ConfigInv'
      BY <1>0, <2>1, <3>1, RulesSafe, RulesWritten
    <3>3. [my[c] EXCEPT !.stage = "boot", !.seen = file] \in Locals
      BY <1>0, <3>1 DEF Locals
    <3>4. CallType'
      BY <1>0, <1>1, <2>1, <3>3
      DEF EnsureWorkspace, Goes, CallType, Standing, files, world
    <3>5. \A d \in Calls : SoundCall(d)'
      BY <1>0, <1>1, <2>1, <3>1
      DEF EnsureWorkspace, Goes, CallInv, Locals, SoundCall, From, To, Moving
    <3> QED
      BY <1>0, <1>1, <2>1, <3>2, <3>4, <3>5
      DEF EnsureWorkspace, Goes, IInv, CallInv, Awaited, Awaiting
  <2>2. CASE /\ my' = [my EXCEPT ![c].stage = "boot"]
             /\ FirstWrite(c, Fallback)
             /\ Goes(c, "create")
    <3>1. ConfigInv'
      BY <1>0, <1>1, <2>2, FallbackSound, FirstWriteSafe
      DEF EnsureWorkspace, CallInv, Awaited, Awaiting
    <3>2. [my[c] EXCEPT !.stage = "boot"] \in Locals
      BY <1>0 DEF Locals
    <3>3. CallType'
      BY <1>0, <1>1, <2>2, <3>2
      DEF EnsureWorkspace, Goes, CallType, Standing, files, world
    <3>4. \A d \in Calls : SoundCall(d)'
      BY <1>0, <1>1, <2>2
      DEF EnsureWorkspace, Goes, CallInv, Locals, SoundCall, From, To, Moving
    <3> QED
      BY <1>0, <1>1, <2>2, <3>1, <3>3, <3>4
      DEF EnsureWorkspace, FirstWrite, Enqueue, Goes, IInv, CallInv, Awaited, Awaiting
  <2>3. CASE Ends(c, "failed") /\ UNCHANGED config
    <3>1. ConfigInv'
      BY <1>0, <2>3, ConfigRests
    <3>2. Blank \in Locals
      BY DEF Blank, Locals, Unresolved, Sources
    <3>3. CallType'
      BY <1>0, <1>1, <2>3, <3>2
      DEF EnsureWorkspace, Ends, Goes, CallType, Standing, Ended, files, world
    <3>4. \A d \in Calls : SoundCall(d)'
      BY <1>0, <2>3, Constants
      DEF Ends, Goes, Blank, Unresolved, CallInv, SoundCall, From, To, Moving
    <3> QED
      BY <1>0, <1>1, <2>3, <3>1, <3>3, <3>4
      DEF EnsureWorkspace, Ends, Goes, config, IInv, CallInv, Awaited, Awaiting
  <2> QED
    BY <1>1, <2>1, <2>2, <2>3 DEF EnsureWorkspace
<1>2. CASE Created(c)
  <2>1. ConfigInv'
    BY <1>0, <1>2, ReturnsSafe DEF Created
  <2>2. draft[c] \in Sound /\ draft[c] \in Config
    BY <1>0, <1>2 DEF Created, SoundMutation, Sound
  <2>3. [my[c] EXCEPT !.seen = draft[c]] \in Locals
    BY <1>0, <2>2 DEF Locals
  <2>4. CallType'
    BY <1>0, <1>2, <2>3 DEF Created, Goes, CallType, Standing, files, world
  <2>5. \A d \in Calls : SoundCall(d)'
    BY <1>0, <1>2, <2>2 DEF Created, Goes, CallInv, Locals, SoundCall, From, To, Moving
  <2> QED
    BY <1>0, <1>2, <2>1, <2>4, <2>5
    DEF Created, ConfigReturns, Goes, IInv, CallInv, Awaited, Awaiting
<1>3. CASE Resolve(c)
  <2> DEFINE cfg == my[c].seen
             r == Resolution(cfg, c)
             e == [enabled |-> Keep, user |-> r.user, source |-> r.source]
  <2>1. cfg \in Sound /\ cfg \in Config
    BY <1>0, <1>3 DEF Resolve, SoundCall, Sound
  <2>2. /\ r \in [user : Users \cup {None}, source : Sources]
        /\ r.user \in LocalUsers => r.source = "random-local"
    BY <1>0, <2>1, ResolutionSafe
  <2> HIDE DEF r
  <2>3. e \in Edit
    BY <2>2 DEF Edit
  <2>4. \A other \in Sound : Edited(other, e) \in Sound
    <3> TAKE other \in Sound
    <3>1. Edited(other, e) \in Config
      BY <2>3, EditedType DEF Sound
    <3>2. Edited(other, e).user = r.user /\ Edited(other, e).source = r.source
      BY <2>2, ConfigAssumption DEF Edited, Sound, Config, ConfigAssumption
    <3> QED
      BY <2>2, <3>1, <3>2 DEF Sound, IsRandomLocal
  <2>5. /\ my' = [my EXCEPT ![c].id = r, ![c].from = cfg.user, ![c].to = r.user]
        /\ \/ /\ Persists(cfg, r) /\ Update(c, e) /\ Goes(c, "persist")
           \/ /\ ~Persists(cfg, r) /\ Goes(c, "share") /\ UNCHANGED config
        /\ pc[c] = "resolve"
        /\ UNCHANGED <<files, world>>
    BY <1>3 DEF Resolve, r
  <2>6. ConfigInv'
    BY <1>0, <2>3, <2>4, <2>5, UpdateSafe, ConfigRests DEF CallInv, Awaited, Awaiting
  <2>7. [my[c] EXCEPT !.id = r, !.from = cfg.user, !.to = r.user] \in Locals
    <3>1. cfg.user \in Users \cup {None} /\ r.user \in Users \cup {None}
      BY <2>1, <2>2 DEF Config
    <3> DEFINE l == [my[c] EXCEPT !.id = r]
               m == [l EXCEPT !.from = cfg.user]
    <3>2. l \in Locals
      BY <1>0, <2>2 DEF Locals
    <3>3. m \in Locals
      <4> HIDE DEF l
      <4> QED
        BY <3>1, <3>2 DEF Locals
    <3>4. [m EXCEPT !.to = r.user] \in Locals
      <4> HIDE DEF m
      <4> QED
        BY <3>1, <3>3 DEF Locals
    <3> QED
      BY <3>4
  <2>8. my' = [my EXCEPT ![c] = [my[c] EXCEPT !.id = r, !.from = cfg.user, !.to = r.user]]
    BY <1>0, <2>5
  <2>9. CallType'
    BY <1>0, <2>5, <2>7, <2>8 DEF Goes, CallType, Standing, files, world
  <2>10. \A d \in Calls : SoundCall(d)'
    <3> TAKE d \in Calls
    <3>1. CASE d = c
      BY <1>0, <2>2, <2>5, <2>8, <3>1 DEF Goes, Locals, SoundCall, From, To, Moving, Persists
    <3>2. CASE d /= c
      BY <1>0, <2>5, <3>2 DEF Goes, CallInv, SoundCall, From, To
    <3> QED
      BY <3>1, <3>2
  <2> QED
    BY <1>0, <2>5, <2>6, <2>9, <2>10
    DEF Update, Enqueue, Goes, config, IInv, CallInv, Awaited, Awaiting
<1>4. CASE Persisted(c)
  <2>1. ConfigInv'
    BY <1>0, <1>4, ReturnsSafe DEF Persisted
  <2>2. CASE /\ cf[c] = "written"
             /\ my' = [my EXCEPT ![c].seen = draft[c]]
             /\ Goes(c, IF Changes(c) THEN "migrate" ELSE "share")
    <3>1. draft[c] \in Sound /\ draft[c] \in Config
      BY <1>0, <2>2 DEF SoundMutation, Sound
    <3>2. [my[c] EXCEPT !.seen = draft[c]] \in Locals
      BY <1>0, <3>1 DEF Locals
    <3>3. CallType'
      BY <1>0, <1>4, <2>2, <3>2 DEF Persisted, Goes, CallType, Standing, files, world
    <3>4. From(c) \in Users \cup {None} /\ To(c) \in Users \cup {None}
      BY <1>0 DEF Locals, From, To
    <3>5. \A d \in Calls : SoundCall(d)'
      BY <1>0, <1>4, <2>2, <3>1, <3>4
      DEF Persisted, Changes, Goes, CallInv, Locals, SoundCall, From, To, Moving
    <3> QED
      BY <1>0, <1>4, <2>1, <2>2, <3>3, <3>5
      DEF Persisted, ConfigReturns, Goes, IInv, CallInv, Awaited, Awaiting
  <2>3. CASE cf[c] = "failed" /\ Ends(c, "failed")
    <3>1. Blank \in Locals
      BY DEF Blank, Locals, Unresolved, Sources
    <3>2. CallType'
      BY <1>0, <1>4, <2>3, <3>1
      DEF Persisted, Ends, Goes, CallType, Standing, Ended, files, world
    <3>3. \A d \in Calls : SoundCall(d)'
      BY <1>0, <2>3, Constants
      DEF Ends, Goes, Blank, Unresolved, CallInv, SoundCall, From, To, Moving
    <3> QED
      BY <1>0, <1>4, <2>1, <2>3, <3>2, <3>3
      DEF Persisted, ConfigReturns, Ends, Goes, IInv, CallInv, Awaited, Awaiting
  <2> QED
    BY <1>4, <2>2, <2>3 DEF Persisted
<1>5. CASE Share(c)
  <2>1. my[c].id.user \in Users \cup {None}
    BY <1>0 DEF Locals
  <2>2. ignored' \in (Users \cup {Absent, "all"}) \ LocalUsers
    BY <1>0, <1>5, <2>1, Constants DEF Share, Rules, SoundCall, ConfigInv, ConfigType,
       SoundConfig, LocalIdentityIgnored
  <2>3. ConfigInv'
    BY <1>0, <1>5, <2>2, RulesWritten DEF Share
  <2>4. CallType'
    BY <1>0, <1>5 DEF Share, Goes, CallType, Standing, files, world
  <2> QED
    BY <1>0, <1>5, <2>3, <2>4 DEF Share, Goes, IInv, CallInv, Awaited, Awaiting, SoundCall,
       From, To, Moving
<1>6. CASE Publish(c)
  <2> DEFINE u == IF my[c].seen.enabled THEN my[c].id.user ELSE None
  <2>1. ConfigInv'
    BY <1>0, <1>6, ConfigRests DEF Publish
  <2>2. u \in Users \cup {None}
    BY <1>0 DEF Locals
  <2>3. /\ mem' \in [Users -> (SUBSET Row) \cup {NoFile}]
        /\ wal' \in [Users -> (SUBSET Row) \cup {NoFile}]
        /\ disturbed' = disturbed
    BY <1>0, <1>6, <2>2, RowsType DEF Publish, Opened, CallType, files
  <2>4. Blank \in Locals
    BY DEF Blank, Locals, Unresolved, Sources
  <2>5. CallType'
    BY <1>0, <1>6, <2>2, <2>3, <2>4
    DEF Publish, Ends, Goes, CallType, Standing, Ended
  <2>6. \A d \in Calls : SoundCall(d)'
    BY <1>0, <1>6, Constants
    DEF Publish, Ends, Goes, Blank, Unresolved, CallInv, SoundCall, From, To, Moving
  <2> QED
    BY <1>0, <1>6, <2>1, <2>5, <2>6
    DEF Publish, Ends, Goes, config, IInv, CallInv, Awaited, Awaiting
<1> QED
  BY <1>1, <1>2, <1>3, <1>4, <1>5, <1>6 DEF BootStep

LEMMA CommandsSafe ==
    ASSUME IInv, NEW c \in Calls, Mutation(c) \/ Updated(c)
    PROVE  IInv'
<1>0. /\ ConfigInv /\ CallInv /\ CallType /\ SoundCall(c) /\ cf \in [Calls -> Phase]
      /\ pc \in [Calls -> Standing] /\ my \in [Calls -> Locals]
  BY DEF IInv, CallInv, CallType, ConfigInv, ConfigType
<1>1. CASE Mutation(c)
  <2>1. ConfigInv'
    BY <1>0, <1>1, MutationSafe DEF Mutation
  <2>2. \A d \in Calls : cf[d] = "none" => cf'[d] = "none"
    BY <1>0, <1>1 DEF Mutation, ConfigStep, ConfigLocked, ConfigUnreadable, ConfigRules,
       ConfigTruncate, ConfigFill, FailMutation
  <2> QED
    BY <1>0, <1>1, <2>1, <2>2
    DEF Mutation, IInv, CallInv, CallType, Awaited, SoundCall, From, To, files, world
<1>2. CASE Updated(c)
  <2>1. ConfigInv'
    BY <1>0, <1>2, ReturnsSafe DEF Updated
  <2>2. CASE /\ Goes(c, IF Changes(c) THEN "migrate" ELSE Onward(c))
             /\ UNCHANGED my
    <3>1. From(c) \in Users \cup {None} /\ To(c) \in Users \cup {None}
      BY <1>0 DEF Locals, From, To
    <3>2. CallType'
      BY <1>0, <1>2, <2>2 DEF Updated, Goes, Onward, CallType, Standing, files, world
    <3>3. \A d \in Calls : SoundCall(d)'
      BY <1>0, <1>2, <2>2, <3>1
      DEF Updated, Changes, Onward, Goes, CallInv, SoundCall, From, To, Moving
    <3> QED
      BY <1>0, <1>2, <2>1, <2>2, <3>2, <3>3
      DEF Updated, ConfigReturns, Goes, IInv, CallInv, Awaited, Awaiting
  <2>3. CASE Ends(c, "failed")
    <3>1. Blank \in Locals
      BY DEF Blank, Locals, Unresolved, Sources
    <3>2. CallType'
      BY <1>0, <1>2, <2>3, <3>1
      DEF Updated, Ends, Goes, CallType, Standing, Ended, files, world
    <3>3. \A d \in Calls : SoundCall(d)'
      BY <1>0, <2>3, Constants
      DEF Ends, Goes, Blank, Unresolved, CallInv, SoundCall, From, To, Moving
    <3> QED
      BY <1>0, <1>2, <2>1, <2>3, <3>2, <3>3
      DEF Updated, ConfigReturns, Ends, Goes, IInv, CallInv, Awaited, Awaiting
  <2> QED
    BY <1>2, <2>2, <2>3 DEF Updated
<1> QED
  BY <1>1, <1>2

LEMMA WorldSafe ==
    ASSUME IInv,
           \/ \E u \in Users : Checkpoint(u)
           \/ Derive
           \/ \E h \in Hosts : Crash(h)
    PROVE  IInv'
<1>0. ConfigInv /\ CallInv /\ CallType
  BY DEF IInv, CallInv
<1>1. ASSUME NEW u \in Users, Checkpoint(u) PROVE IInv'
  <2>1. ConfigInv'
    BY <1>0, <1>1, ConfigRests DEF Checkpoint
  <2>2. CallType'
    BY <1>0, <1>1, RowsType DEF Checkpoint, CallType, world
  <2> QED
    BY <1>0, <1>1, <2>1, <2>2
    DEF Checkpoint, IInv, CallInv, Awaited, SoundCall, From, To, config
<1>2. CASE Derive
  <2>1. ConfigInv'
    BY <1>0, <1>2, ConfigRests DEF Derive
  <2> QED
    BY <1>0, <1>2, <2>1
    DEF Derive, IInv, CallInv, CallType, Awaited, SoundCall, From, To, config, files
<1>3. ASSUME NEW h \in Hosts, Crash(h) PROVE IInv'
  <2>1. ConfigInv'
    BY <1>0, <1>3, ConfigCrashSafe DEF Crash
  <2>2. Blank \in Locals
    BY DEF Blank, Locals, Unresolved, Sources
  <2>3. CallType'
    BY <1>0, <1>3, <2>2, IdentityAssumption
    DEF Crash, CallType, Standing, Ended, files, IdentityAssumption
  <2>4. Awaited'
    BY <1>0, <1>3 DEF Crash, ConfigCrash, CallInv, Awaited, Awaiting, Ended
  <2>5. \A d \in Calls : SoundCall(d)'
    BY <1>0, <1>3, Constants
    DEF Crash, Blank, Unresolved, CallInv, SoundCall, From, To, Moving, Ended
  <2> QED
    BY <2>1, <2>3, <2>4, <2>5 DEF IInv, CallInv
<1> QED
  BY <1>1, <1>2, <1>3

\* Every step preserves the invariant.
LEMMA StepSafe == IInv /\ [Next]_vars => IInv'
<1> SUFFICES ASSUME IInv, [Next]_vars PROVE IInv'
  OBVIOUS
<1>1. ASSUME NEW c \in Calls, Step(c) PROVE IInv'
  BY <1>1, CommandsSafe, MovesSafe, BootsSafe DEF Step
<1>2. ASSUME NEW c \in Calls, NEW o \in Operations[c], Start(c, o) PROVE IInv'
  BY <1>2, StartsSafe
<1>3. CASE UNCHANGED vars
  <2>1. ConfigInv'
    BY <1>3, ConfigRests DEF vars, IInv
  <2> QED
    BY <1>3, <2>1
    DEF vars, IInv, CallInv, CallType, Awaited, SoundCall, From, To, config, files, world
<1> QED
  BY <1>1, <1>2, <1>3, WorldSafe DEF Next

\* It holds at first: over a config that is sound, or none, and any databases.
LEMMA InitSafe ==
    ASSUME NEW initial \in Sound \cup {Absent},
           NEW stored \in [Users -> (SUBSET Row) \cup {NoFile}],
           InitWith(initial, stored)
    PROVE  IInv
<1>1. QueueInv
  BY QueueInit DEF InitWith, ConfigInit
<1>2. ignored \in (Users \cup {Absent, "all"}) \ LocalUsers
  BY RulesSafe, Constants DEF InitWith, ConfigInit
<1>3. ConfigType
  BY <1>2, Constants DEF InitWith, ConfigInit, ConfigType, Phase, Sound
<1>4. SoundConfig
  BY <1>2 DEF InitWith, ConfigInit, SoundConfig, SoundMutation, LocalIdentityIgnored, Underway
<1>5. Blank \in Locals
  BY DEF Blank, Locals, Unresolved, Sources
<1>6. CallType
  <2>1. runtime \in [Hosts -> Users \cup {None}]
    BY DEF InitWith, Sound, Config
  <2>2. crashes \in 0..MaxCrashes
    BY IdentityAssumption DEF InitWith, IdentityAssumption
  <2> QED
    BY <1>5, <2>1, <2>2 DEF InitWith, CallType, Standing
<1>7. Awaited
  BY DEF InitWith, ConfigInit, Awaited
<1>8. \A c \in Calls : SoundCall(c)
  BY Constants DEF InitWith, Blank, Unresolved, SoundCall, From, To, Moving
<1> QED
  BY <1>1, <1>3, <1>4, <1>6, <1>7, <1>8 DEF IInv, ConfigInv, CallInv

-----------------------------------------------------------------------------
\* Every variable keeps its type whatever interleaves: calls of one process and
\* of several, files renamed or merged, processes that die.
THEOREM IdentityTypeOK ==
    ASSUME NEW initial \in Sound \cup {Absent},
           NEW stored \in [Users -> (SUBSET Row) \cup {NoFile}]
    PROVE  InitWith(initial, stored) /\ [][Next]_vars => []TypeOK
<1>1. InitWith(initial, stored) => IInv
  BY InitSafe
<1>2. IInv => TypeOK
  BY DEF IInv, ConfigInv, CallInv, CallType, TypeOK
<1> QED
  BY <1>1, <1>2, StepSafe, PTL

\* The mutations of the config in one process are serial, for any number of
\* calls and processes, over failures and crashes.
THEOREM MutationsSerial ==
    ASSUME NEW initial \in Sound \cup {Absent},
           NEW stored \in [Users -> (SUBSET Row) \cup {NoFile}]
    PROVE  InitWith(initial, stored) /\ [][Next]_vars => []OneMutationAtATime
<1>1. InitWith(initial, stored) => IInv
  BY InitSafe
<1>2. IInv => OneMutationAtATime
  BY QueueSerial DEF IInv, ConfigInv
<1> QED
  BY <1>1, <1>2, StepSafe, PTL

\* No rule ever shares the database of a random id: the config a bootstrap has
\* read may be old, but what it writes is sound all the same.
THEOREM IdentityStaysLocal ==
    ASSUME NEW initial \in Sound \cup {Absent},
           NEW stored \in [Users -> (SUBSET Row) \cup {NoFile}]
    PROVE  InitWith(initial, stored) /\ [][Next]_vars => []LocalIdentityIgnored
<1>1. InitWith(initial, stored) => IInv
  BY InitSafe
<1>2. IInv => LocalIdentityIgnored
  BY DEF IInv, ConfigInv, SoundConfig
<1> QED
  BY <1>1, <1>2, StepSafe, PTL

-----------------------------------------------------------------------------
(* Rows.  A change of name that has looked at the files answers for the    *)
(* rows that the database it relies on holds, in its file for a rename and *)
(* in its file or log for a merge.  Only a rename, a removal and the steps *)
(* that take a log away take rows from a database, and they disturb every  *)
(* other change that relies on what they take.                             *)

Changing == {"rename", "remove"}
Kept(c) ==
    /\ pc[c] = "rename" /\ c \notin disturbed => my[c].known \subseteq InMain(From(c))
    /\ pc[c] = "remove" /\ c \notin disturbed => my[c].known \subseteq Visible(To(c))
RowsInv == \A c \in Calls : Kept(c)

\* A database that does not exist is none of those that do.
NoFileDistinct == NoFile \notin SUBSET Row

\* No database loses a row, of its file or of file and log.
Grows == \A u \in Users : InMain(u) \subseteq InMain(u)' /\ Visible(u) \subseteq Visible(u)'

\* Call d stands where it stood.
Stays(d) == pc'[d] = pc[d] /\ my'[d] = my[d] /\ (d \in disturbed => d \in disturbed')

\* The steps that take rows away.
Takes(c) == Rename(c) \/ RemoveSource(c) \/ MoveWal(c) \/ PurgeSidecars(c)

LEMMA UserTypes ==
    ASSUME IInv, NEW c \in Calls, pc[c] \in Moving
    PROVE  From(c) \in Users /\ To(c) \in Users /\ From(c) /= To(c)
BY DEF IInv, CallInv, SoundCall

\* What a call that stays must find of the database it relies on.
LEMMA RelianceKept ==
    ASSUME IInv, NEW d \in Calls, Kept(d), Stays(d),
           \A u \in Users : pc[d] = "rename" /\ d \notin disturbed' /\ u = From(d) =>
                              InMain(u) \subseteq InMain(u)',
           \A u \in Users : pc[d] = "remove" /\ d \notin disturbed' /\ u = To(d) =>
                              Visible(u) \subseteq Visible(u)'
    PROVE  Kept(d)'
<1>0. pc[d] \in Changing => From(d) \in Users /\ To(d) \in Users
  BY UserTypes DEF Changing, Moving
<1>1. From(d)' = From(d) /\ To(d)' = To(d)
  BY DEF Stays, From, To
<1>2. ASSUME pc'[d] = "rename", d \notin disturbed'
      PROVE  (my[d].known \subseteq InMain(From(d)))'
  <2>1. PICK u \in Users : u = From(d)
    BY <1>0, <1>2 DEF Stays, Changing
  <2>2. my[d].known \subseteq InMain(u)
    BY <1>2, <2>1 DEF Kept, Stays
  <2>3. InMain(u) \subseteq InMain(u)'
    BY <1>2, <2>1 DEF Stays
  <2> QED
    BY <1>1, <2>1, <2>2, <2>3 DEF Stays, InMain, Exists
<1>3. ASSUME pc'[d] = "remove", d \notin disturbed'
      PROVE  (my[d].known \subseteq Visible(To(d)))'
  <2>1. PICK u \in Users : u = To(d)
    BY <1>0, <1>3 DEF Stays, Changing
  <2>2. my[d].known \subseteq Visible(u)
    BY <1>3, <2>1 DEF Kept, Stays
  <2>3. Visible(u) \subseteq Visible(u)'
    BY <1>3, <2>1 DEF Stays
  <2> QED
    BY <1>1, <2>1, <2>2, <2>3 DEF Stays, Visible, InMain, InLog, Exists
<1> QED
  BY <1>2, <1>3 DEF Kept

LEMMA StaysKept ==
    ASSUME IInv, Grows, NEW d \in Calls, Kept(d), Stays(d)
    PROVE  Kept(d)'
BY RelianceKept DEF Grows

\* What writes a database only adds to it.
LEMMA InsertedGrows ==
    ASSUME NoFileDistinct, IInv, NEW u \in Users, NEW new \in SUBSET Row, Inserted(u, new)
    PROVE  /\ Grows
           /\ \A v : v = u => Visible(v)' = Visible(u) \cup new
<1>0. /\ mem \in [Users -> (SUBSET Row) \cup {NoFile}]
      /\ wal \in [Users -> (SUBSET Row) \cup {NoFile}]
      /\ InMain(u) \in SUBSET Row /\ InLog(u) \in SUBSET Row /\ Visible(u) \in SUBSET Row
  BY RowsType DEF IInv, CallInv, CallType
<1>1. \A v \in Users \ {u} : mem'[v] = mem[v] /\ wal'[v] = wal[v]
  BY <1>0 DEF Inserted
<1>2. \A v \in Users \ {u} : InMain(v)' = InMain(v) /\ Visible(v)' = Visible(v)
  BY <1>1 DEF InMain, InLog, Visible, Exists
<1>3. \A v : v = u => InMain(u) \subseteq InMain(v)' /\ Visible(v)' = Visible(u) \cup new
  <2>1. CASE /\ mem' = [mem EXCEPT ![u] = Visible(u) \cup new]
             /\ wal' = [wal EXCEPT ![u] = NoFile]
    <3>1. mem'[u] = Visible(u) \cup new /\ mem'[u] /= NoFile /\ wal'[u] = NoFile
      BY <1>0, <2>1 DEF NoFileDistinct
    <3>2. \A v : v = u => InMain(v)' = Visible(u) \cup new /\ InLog(v)' = {}
      BY <3>1 DEF InMain, InLog, Exists
    <3> QED
      BY <3>2 DEF Visible
  <2>2. CASE /\ mem' = [mem EXCEPT ![u] = InMain(u)]
             /\ wal' = [wal EXCEPT ![u] = InLog(u) \cup new]
    <3>1. /\ mem'[u] = InMain(u) /\ mem'[u] /= NoFile
          /\ wal'[u] = InLog(u) \cup new /\ wal'[u] /= NoFile
      BY <1>0, <2>2 DEF NoFileDistinct
    <3>2. \A v : v = u => InMain(v)' = InMain(u) /\ InLog(v)' = InLog(u) \cup new
      BY <3>1 DEF InMain, InLog, Exists
    <3> QED
      BY <3>2 DEF Visible
  <2> QED
    BY <2>1, <2>2 DEF Inserted
<1>4. \A v : v = u => InMain(v) = InMain(u) /\ Visible(v) = Visible(u)
  OBVIOUS
<1>5. ASSUME NEW v \in Users
      PROVE  InMain(v) \subseteq InMain(v)' /\ Visible(v) \subseteq Visible(v)'
  <2>1. CASE v = u
    BY <1>3, <1>4, <2>1
  <2>2. CASE v /= u
    BY <1>2, <2>2
  <2> QED
    BY <2>1, <2>2
<1> QED
  BY <1>3, <1>5 DEF Grows

LEMMA OpenedGrows ==
    ASSUME NoFileDistinct, IInv, NEW u \in Users, Opened(u) \/ Checkpoint(u)
    PROVE  Grows
<1>0. /\ mem \in [Users -> (SUBSET Row) \cup {NoFile}]
      /\ wal \in [Users -> (SUBSET Row) \cup {NoFile}]
      /\ InMain(u) \in SUBSET Row /\ Visible(u) \in SUBSET Row
  BY RowsType DEF IInv, CallInv, CallType
<1>1. ASSUME NEW v \in Users
      PROVE  InMain(v) \subseteq InMain(v)' /\ Visible(v) \subseteq Visible(v)'
  <2>1. CASE v /= u
    <3>1. mem'[v] = mem[v] /\ wal'[v] = wal[v]
      BY <1>0, <2>1 DEF Opened, Checkpoint
    <3> QED
      BY <3>1 DEF InMain, InLog, Visible, Exists
  <2>2. CASE v = u /\ Opened(u)
    <3>1. mem'[u] = InMain(u) /\ mem'[u] /= NoFile /\ (Exists(u) => wal'[u] = wal[u])
      BY <1>0, <2>2 DEF Opened, NoFileDistinct
    <3> QED
      BY <2>2, <3>1 DEF InMain, InLog, Visible, Exists
  <2>3. CASE v = u /\ Checkpoint(u)
    <3>1. mem'[u] = Visible(u) /\ mem'[u] /= NoFile
      BY <1>0, <2>3 DEF Checkpoint, NoFileDistinct
    <3> QED
      BY <2>3, <3>1 DEF InMain, Visible, Exists
  <2> QED
    BY <2>1, <2>2, <2>3
<1> QED
  BY <1>1 DEF Grows

LEMMA RestGrows ==
    ASSUME UNCHANGED <<mem, wal>>
    PROVE  Grows
BY DEF Grows, InMain, InLog, Visible, Exists

LEMMA FittingType ==
    ASSUME IInv, NEW c \in Calls, pc[c] = "migrate", NEW copied \in SUBSET Visible(From(c))
    PROVE  From(c) \in Users /\ To(c) \in Users /\ Fitting(copied, To(c)) \in SUBSET Row
<1>1. From(c) \in Users /\ To(c) \in Users
  BY UserTypes DEF Moving
<1>2. Visible(From(c)) \in SUBSET Row
  BY <1>1, RowsType DEF IInv, CallInv
<1> QED
  BY <1>1, <1>2 DEF Fitting

\* Every step adds to databases only, but for those that take rows away.
LEMMA StepsGrow ==
    ASSUME NoFileDistinct, IInv, NEW c \in Calls,
           Step(c) \/ \E o \in Operations[c] : Start(c, o), ~Takes(c)
    PROVE  Grows
<1>1. CASE Mutation(c) \/ Updated(c)
  BY <1>1, RestGrows DEF Mutation, Updated, files
<1>2. CASE MigrationStep(c)
  <2>1. CASE Merge(c)
    BY <2>1, FittingType, InsertedGrows DEF Merge
  <2>2. CASE MergeFails(c)
    <3>1. PICK copied \in {{}, {r \in Visible(From(c)) : r.rowid /= 0}} :
            Inserted(To(c), Fitting(copied, To(c)))
      BY <2>2 DEF MergeFails
    <3>2. copied \in SUBSET Visible(From(c)) /\ pc[c] = "migrate"
      BY <2>2 DEF MergeFails
    <3> QED
      BY <3>1, <3>2, FittingType, InsertedGrows
  <2> QED
    BY <1>2, <2>1, <2>2, RestGrows
    DEF Takes, MigrationStep, MigrateNothing, MigrateRenames, Protect, files
<1>3. CASE BootStep(c)
  <2>1. CASE Publish(c)
    <3> DEFINE u == IF my[c].seen.enabled THEN my[c].id.user ELSE None
    <3>1. u \in Users \cup {None}
      BY DEF IInv, CallInv, CallType, Locals
    <3> QED
      BY <2>1, <3>1, OpenedGrows, RestGrows DEF Publish, files
  <2> QED
    BY <1>3, <2>1, RestGrows
    DEF BootStep, EnsureWorkspace, Created, Resolve, Persisted, Share, files
<1>4. ASSUME NEW o \in Operations[c], Start(c, o) PROVE Grows
  <2>1. CASE Save(c, o)
    <3> DEFINE u == runtime[Host[c]]
    <3>1. u \in Users
      BY <2>1, Constants DEF Save, IInv, CallInv, CallType
    <3>2. PICK rowid \in IF o.kind = "memory" THEN NextRowid(u) ELSE {0} :
            Inserted(u, {[of |-> c, rowid |-> rowid]})
      BY <2>1 DEF Save
    <3>3. Cardinality(Calls \cup OldRows) \in Nat
      BY FS_CardinalityType, IdentityAssumption DEF IdentityAssumption
    <3>4. [of |-> c, rowid |-> rowid] \in Row
      BY <3>2, <3>3 DEF NextRowid, Row
    <3> QED
      BY <3>1, <3>2, <3>4, InsertedGrows
  <2> QED
    BY <1>4, <2>1, RestGrows
    DEF Start, StartToggle, StartAuto, StartSet, StartSetFails, StartBootstrap, files
<1> QED
  BY <1>1, <1>2, <1>3, <1>4 DEF Step

LEMMA OthersStay ==
    ASSUME IInv, NEW c \in Calls, NEW d \in Calls \ {c},
           Step(c) \/ \E o \in Operations[c] : Start(c, o)
    PROVE  Stays(d)
<1>0. pc \in [Calls -> Standing] /\ my \in [Calls -> Locals]
  BY DEF IInv, CallInv, CallType
<1>1. CASE Mutation(c) \/ Updated(c)
  BY <1>0, <1>1 DEF Mutation, Updated, Goes, Ends, Stays, files
<1>2. CASE MigrationStep(c)
  BY <1>0, <1>2
  DEF MigrationStep, MigrateNothing, MigrateRenames, Rename, MoveWal, Merge, MergeFails,
      RemoveSource, PurgeSidecars, Protect, Resumes, Answers, Disturbs, DisturbsLog, Goes,
      Stays, files
<1>3. CASE BootStep(c)
  BY <1>0, <1>3
  DEF BootStep, EnsureWorkspace, Created, Resolve, Persisted, Share, Publish, Opened,
      Goes, Ends, Stays, files
<1>4. CASE \E o \in Operations[c] : Start(c, o)
  BY <1>0, <1>4
  DEF Start, StartToggle, StartAuto, StartSet, StartSetFails, StartBootstrap, Save, Begins,
      Goes, Stays, files
<1> QED
  BY <1>1, <1>2, <1>3, <1>4 DEF Step

\* The step of a call itself: it answers for rows once it has looked.
LEMMA OwnKept ==
    ASSUME NoFileDistinct, IInv, NEW c \in Calls, Kept(c),
           Step(c) \/ \E o \in Operations[c] : Start(c, o)
    PROVE  Kept(c)'
<1>0. pc \in [Calls -> Standing] /\ my \in [Calls -> Locals]
  BY DEF IInv, CallInv, CallType
<1>1. CASE Mutation(c)
  BY <1>1, RestGrows, StaysKept DEF Mutation, Stays, files
<1>2. CASE MigrateRenames(c)
  <2>1. From(c)' = From(c) /\ pc'[c] = "rename"
    BY <1>0, <1>2 DEF MigrateRenames, Answers, Goes, From, Locals
  <2>2. my'[c].known = InMain(From(c))
    BY <1>0, <1>2 DEF MigrateRenames, Answers, Locals
  <2>3. \A u : InMain(u)' = InMain(u)
    BY <1>2 DEF MigrateRenames, InMain, Exists
  <2> QED
    BY <2>1, <2>2, <2>3 DEF Kept
<1>3. CASE Merge(c)
  <2>1. To(c)' = To(c) /\ pc'[c] = "remove"
    BY <1>0, <1>3 DEF Merge, Answers, Goes, To, Locals
  <2>2. my'[c].known = Merged(From(c), To(c))
    BY <1>0, <1>3 DEF Merge, Answers, Locals
  <2>3. \A v : v = To(c) => Visible(v)' = Visible(To(c)) \cup Fitting(Visible(From(c)), To(c))
    BY <1>3, FittingType, InsertedGrows DEF Merge
  <2>4. \A v : v = To(c) => Visible(v)' = Merged(From(c), To(c))
    BY <2>3 DEF Merged
  <2> QED
    BY <2>1, <2>2, <2>4 DEF Kept
<1>4. ASSUME ~Mutation(c), ~MigrateRenames(c), ~Merge(c) PROVE pc'[c] \notin Changing
  <2>1. CASE Updated(c)
    BY <1>0, <2>1 DEF Updated, Goes, Ends, Onward, Changing
  <2>2. CASE MigrationStep(c)
    BY <1>0, <1>4, <2>2
    DEF MigrationStep, MigrateNothing, Rename, MoveWal, MergeFails, RemoveSource,
        PurgeSidecars, Protect, Resumes, Goes, Changing
  <2>3. CASE BootStep(c)
    BY <1>0, <2>3
    DEF BootStep, EnsureWorkspace, Created, Resolve, Persisted, Share, Publish, Goes, Ends,
        Changing
  <2>4. CASE \E o \in Operations[c] : Start(c, o)
    BY <1>0, <2>4
    DEF Start, StartToggle, StartAuto, StartSet, StartSetFails, StartBootstrap, Save, Begins,
        Goes, Changing
  <2> QED
    BY <1>4, <2>1, <2>2, <2>3, <2>4 DEF Step
<1> QED
  BY <1>1, <1>2, <1>3, <1>4 DEF Kept, Changing

\* What a rename and a removal leave of the databases.
LEMMA RenameMoves ==
    ASSUME IInv, NEW c \in Calls, Rename(c), ~Grows
    PROVE  /\ \A u \in Users \ {From(c), To(c)} :
                InMain(u)' = InMain(u) /\ Visible(u)' = Visible(u)
           /\ \A u : u = To(c) => InMain(u)' = InMain(From(c))
           /\ pc'[c] = "moveWal" /\ Disturbs(c, {From(c), To(c)})
<1>1. From(c) \in Users /\ To(c) \in Users /\ From(c) /= To(c)
  BY UserTypes DEF Rename, Moving
<1>2. pc \in [Calls -> Standing] /\ mem \in [Users -> (SUBSET Row) \cup {NoFile}]
  BY DEF IInv, CallInv, CallType
<1>3. /\ Exists(From(c)) /\ UNCHANGED wal
      /\ mem' = [mem EXCEPT ![To(c)] = mem[From(c)], ![From(c)] = NoFile]
      /\ Disturbs(c, {From(c), To(c)}) /\ Goes(c, "moveWal")
  BY RestGrows DEF Rename
<1>4. \A u \in Users : mem'[u] = IF u = From(c) THEN NoFile
                                 ELSE IF u = To(c) THEN mem[From(c)] ELSE mem[u]
  BY <1>1, <1>2, <1>3
<1>5. pc'[c] = "moveWal"
  BY <1>2, <1>3 DEF Goes
<1> QED
  BY <1>1, <1>3, <1>4, <1>5 DEF InMain, InLog, Visible, Exists

LEMMA RemovalMoves ==
    ASSUME IInv, NEW c \in Calls, RemoveSource(c)
    PROVE  /\ \A u \in Users \ {From(c)} :
                InMain(u)' = InMain(u) /\ Visible(u)' = Visible(u)
           /\ pc'[c] = "purge" /\ Disturbs(c, {From(c)})
<1>1. pc \in [Calls -> Standing] /\ mem \in [Users -> (SUBSET Row) \cup {NoFile}]
  BY DEF IInv, CallInv, CallType
<1>2. \A u \in Users \ {From(c)} : mem'[u] = mem[u] /\ wal'[u] = wal[u]
  BY <1>1 DEF RemoveSource
<1> QED
  BY <1>1, <1>2 DEF RemoveSource, Goes, InMain, InLog, Visible, Exists

\* A change that a rename or a removal does not disturb keeps its rows.
LEMMA OthersKept ==
    ASSUME IInv, NEW c \in Calls, NEW d \in Calls \ {c}, Kept(d), Stays(d),
           NEW moved \in SUBSET Users, Disturbs(c, moved),
           \A u \in Users \ moved : InMain(u)' = InMain(u) /\ Visible(u)' = Visible(u)
    PROVE  Kept(d)'
<1>1. pc[d] \in Changing /\ d \notin disturbed' => Relies(d) \notin moved
  BY DEF Disturbs, Changing
<1>2. \A u \in Users : pc[d] = "rename" /\ d \notin disturbed' /\ u = From(d) =>
                         InMain(u) \subseteq InMain(u)'
  BY <1>1 DEF Relies, Changing
<1>3. \A u \in Users : pc[d] = "remove" /\ d \notin disturbed' /\ u = To(d) =>
                         Visible(u) \subseteq Visible(u)'
  BY <1>1 DEF Relies, Changing
<1> QED
  BY <1>2, <1>3, RelianceKept

\* A log that is taken away leaves all but what was in it.
LEMMA LogMoves ==
    ASSUME IInv, NEW c \in Calls, MoveWal(c) \/ PurgeSidecars(c), ~Grows
    PROVE  /\ \A u \in Users : InMain(u)' = InMain(u)
           /\ \A u \in Users \ {From(c)} : Visible(u) \subseteq Visible(u)'
           /\ DisturbsLog(c) /\ pc'[c] /= pc[c]
<1>0. /\ pc \in [Calls -> Standing] /\ UNCHANGED mem
      /\ mem \in [Users -> (SUBSET Row) \cup {NoFile}]
      /\ wal \in [Users -> (SUBSET Row) \cup {NoFile}]
  BY DEF IInv, CallInv, CallType, MoveWal, PurgeSidecars
<1>1. DisturbsLog(c) /\ \A u \in Users \ {From(c)} : wal[u] = NoFile \/ wal'[u] = wal[u]
  <2>1. CASE MoveWal(c)
    <3>1. /\ wal[To(c)] = NoFile /\ DisturbsLog(c)
          /\ wal' = [wal EXCEPT ![To(c)] = wal[From(c)], ![From(c)] = NoFile]
      BY <2>1, RestGrows DEF MoveWal
    <3>2. \A u \in Users \ {From(c), To(c)} : wal'[u] = wal[u]
      BY <1>0, <3>1
    <3> QED
      BY <3>1, <3>2
  <2>2. CASE PurgeSidecars(c)
    BY <1>0, <2>2 DEF PurgeSidecars
  <2> QED
    BY <2>1, <2>2
<1>2. \A u \in Users : InMain(u)' = InMain(u)
  BY <1>0 DEF InMain, Exists
<1>3. \A u \in Users \ {From(c)} : Visible(u) \subseteq Visible(u)'
  BY <1>0, <1>1 DEF InMain, InLog, Visible, Exists
<1>4. pc'[c] /= pc[c]
  BY <1>0 DEF MoveWal, PurgeSidecars, Resumes, Goes
<1> QED
  BY <1>1, <1>2, <1>3, <1>4

LEMMA RowsStep ==
    ASSUME NoFileDistinct
    PROVE  IInv /\ RowsInv /\ [Next]_vars => RowsInv'
<1> SUFFICES ASSUME IInv, RowsInv, [Next]_vars PROVE RowsInv'
  OBVIOUS
<1>1. ASSUME NEW c \in Calls, Step(c) \/ \E o \in Operations[c] : Start(c, o)
      PROVE  RowsInv'
  <2> SUFFICES ASSUME NEW d \in Calls PROVE Kept(d)'
    BY DEF RowsInv
  <2>1. Kept(c) /\ Kept(d)
    BY DEF RowsInv
  <2>2. CASE d = c
    BY <1>1, <2>1, <2>2, OwnKept
  <2>3. CASE d /= c
    <3>1. d \in Calls \ {c} /\ Stays(d)
      BY <1>1, <2>3, OthersStay
    <3>2. CASE Grows
      BY <2>1, <3>1, <3>2, StaysKept
    <3>3. CASE Rename(c) /\ ~Grows
      <4>1. {From(c), To(c)} \in SUBSET Users
        BY <3>3, UserTypes DEF Rename, Moving
      <4> QED
        BY <2>1, <3>1, <3>3, <4>1, RenameMoves, OthersKept
    <3>4. CASE RemoveSource(c)
      <4>1. {From(c)} \in SUBSET Users
        BY <3>4, UserTypes DEF RemoveSource, Moving
      <4> QED
        BY <2>1, <3>1, <3>4, <4>1, RemovalMoves, OthersKept
    <3>5. CASE (MoveWal(c) \/ PurgeSidecars(c)) /\ ~Grows
      <4>1. /\ \A u \in Users : InMain(u)' = InMain(u)
            /\ \A u \in Users \ {From(c)} : Visible(u) \subseteq Visible(u)'
            /\ DisturbsLog(c)
        BY <3>5, LogMoves
      <4>2. pc[d] = "remove" /\ d \notin disturbed' => To(d) /= From(c)
        BY <3>1, <4>1 DEF DisturbsLog
      <4> QED
        BY <2>1, <3>1, <4>1, <4>2, RelianceKept
    <3> QED
      BY <1>1, <3>2, <3>3, <3>4, <3>5, StepsGrow DEF Takes
  <2> QED
    BY <2>2, <2>3
<1>2. ASSUME Grows, \A d \in Calls : Stays(d) \/ pc'[d] \notin Changing
      PROVE  RowsInv'
  BY <1>2, StaysKept DEF RowsInv, Kept, Changing
<1>3. ASSUME NEW u \in Users, Checkpoint(u) PROVE RowsInv'
  BY <1>2, <1>3, OpenedGrows DEF Checkpoint, Stays
<1>4. CASE Derive
  BY <1>2, <1>4, RestGrows DEF Derive, Stays, files
<1>5. ASSUME NEW h \in Hosts, Crash(h) PROVE RowsInv'
  BY <1>2, <1>5, RestGrows DEF Crash, Stays, Changing, files
<1>6. CASE UNCHANGED vars
  BY <1>2, <1>6, RestGrows DEF vars, Stays, files
<1> QED
  BY <1>1, <1>3, <1>4, <1>5, <1>6 DEF Next

\* Where a row that vanishes was.
LEMMA LostFrom ==
    ASSUME IInv, NEW c \in Calls, NEW r \in Row, RowLost(r), Takes(c)
    PROVE  /\ pc'[c] /= pc[c]
           /\ \/ pc[c] = "rename" /\ r \notin InMain(From(c))
              \/ pc[c] = "remove" /\ r \notin Visible(To(c))
              \/ pc[c] \in {"moveWal", "purge"} /\ r \in InLog(From(c))
<1>0. From(c) \in Users /\ To(c) \in Users /\ From(c) /= To(c)
  BY UserTypes DEF Takes, Rename, RemoveSource, MoveWal, PurgeSidecars, Moving
<1>1. PICK u \in Users : r \in Visible(u)
  BY DEF RowLost, Shown
<1>2. \A v \in Users : r \notin Visible(v)' /\ r \notin InMain(v)'
  BY DEF RowLost, Shown, Visible
<1>3. ~Grows
  BY <1>1, <1>2 DEF Grows
<1>4. CASE Rename(c)
  BY <1>0, <1>2, <1>3, <1>4, RenameMoves DEF Rename
<1>5. CASE RemoveSource(c)
  BY <1>0, <1>2, <1>5, RemovalMoves DEF RemoveSource
<1>6. CASE MoveWal(c) \/ PurgeSidecars(c)
  <2>1. u = From(c) /\ r \notin InMain(u)
    BY <1>1, <1>2, <1>3, <1>6, LogMoves
  <2>2. r \in InLog(From(c))
    BY <1>1, <2>1 DEF Visible
  <2> QED
    BY <1>3, <1>6, <2>2, LogMoves DEF MoveWal, PurgeSidecars
<1> QED
  BY <1>4, <1>5, <1>6 DEF Takes

\* Whatever calls change the identity at once, from whatever processes, and
\* wherever these die: a row that was in a database file when a rename found it,
\* or in a database when a merge did and that had its key there, is shown by one
\* from then on, unless another change of identity moves the database that this
\* one relies on, or takes the log away that the row is in
\* (migrateProjectUserDatabaseIdentity, mergeProjectUserDatabases).
THEOREM RowsStaySettled ==
    ASSUME NEW initial \in Sound \cup {Absent},
           NEW stored \in [Users -> (SUBSET Row) \cup {NoFile}],
           NoFileDistinct
    PROVE  InitWith(initial, stored) /\ [][Next]_vars => SettledRowsKept
<1> DEFINE Excused(r) == \E c \in Calls :
                           /\ pc'[c] /= pc[c]
                           /\ \/ /\ pc[c] \in {"rename", "remove"}
                                 /\ r \notin my[c].known \/ c \in disturbed
                              \/ /\ pc[c] \in {"moveWal", "purge"}
                                 /\ r \in InLog(From(c))
           Settled == \A r \in Row : RowLost(r) => Excused(r)
<1>1. InitWith(initial, stored) => IInv /\ RowsInv
  <2>1. InitWith(initial, stored) => RowsInv
    BY DEF InitWith, RowsInv, Kept
  <2> QED
    BY <2>1, InitSafe
<1>2. IInv /\ RowsInv /\ [Next]_vars => IInv' /\ RowsInv'
  BY StepSafe, RowsStep
<1>3. IInv /\ RowsInv /\ [Next]_vars => [Settled]_vars
  <2> SUFFICES ASSUME IInv, RowsInv, Next, NEW r \in Row, RowLost(r)
               PROVE  Excused(r)
    OBVIOUS
  <2>1. ~Grows
    BY DEF RowLost, Shown, Grows
  <2>2. PICK c \in Calls : Takes(c)
    <3>1. ~\E u \in Users : Checkpoint(u)
      BY <2>1, OpenedGrows
    <3>2. ~Derive /\ ~\E h \in Hosts : Crash(h)
      BY <2>1, RestGrows DEF Derive, Crash, files
    <3> QED
      BY <2>1, <3>1, <3>2, StepsGrow DEF Next
  <2>3. /\ pc'[c] /= pc[c]
        /\ \/ pc[c] = "rename" /\ r \notin InMain(From(c))
           \/ pc[c] = "remove" /\ r \notin Visible(To(c))
           \/ pc[c] \in {"moveWal", "purge"} /\ r \in InLog(From(c))
    BY <2>2, LostFrom
  <2>4. Kept(c)
    BY DEF RowsInv
  <2> QED
    BY <2>3, <2>4 DEF Kept
<1> QED
  BY <1>1, <1>2, <1>3, PTL DEF SettledRowsKept

=============================================================================
