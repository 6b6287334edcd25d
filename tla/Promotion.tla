----------------------------- MODULE Promotion -----------------------------
(***************************************************************************)
(* Promotion of project memories to the global database: candidates are    *)
(* the contents of the index's memory rows, judged by a deterministic      *)
(* policy and then by a local model; at most MaxAccepted of them are       *)
(* promoted, and a record of the run is written.  Runs of several projects *)
(* and processes share the global database, which has no transactions.     *)
(***************************************************************************)
EXTENDS ProjectIndex

CONSTANTS
    Contents,
    ContentOf,      \* [Row -> Contents], the normalised content of a row
    BaseScore,      \* [Contents -> score for topic, keywords and source; 0 if vetoed]
    MinimumScore,
    MaxAccepted,    \* policy.maxAcceptedPerRun
    PromotedBefore  \* contents earlier runs of this or other projects promoted

None == "none"

ASSUME PromotionAssumption ==
    /\ Calls \cap {"before", None} = {}
    /\ IsFiniteSet(Contents) /\ ContentOf \in [Row -> Contents]
    /\ BaseScore \in [Contents -> Nat]
    /\ MinimumScore \in Nat \ {0} /\ MaxAccepted \in Nat \ {0}
    /\ PromotedBefore \subseteq Contents

VARIABLES
    promoted,   \* promoted_memories: the run that inserted a content, or None
    runs,       \* promotion_runs: counts by run, or Missing
    items,      \* promotion_run_items: [run, content, accepted]
    job         \* job[c]: the locals of a promotion

global == <<promoted, runs, items>>

(* drafts: the candidates; score: what they were evaluated to; accepted: not *)
(* yet refused; queue: to be looked up; next: looked up and not found;       *)
(* added: inserted by this run.                                              *)
Scores == [Contents -> Nat]
Job == [drafts : SUBSET Contents, score : Scores, accepted : SUBSET Contents,
        queue : SUBSET Contents, next : SUBSET Contents, added : SUBSET Contents]
NoJob == [drafts |-> {}, score |-> [x \in Contents |-> 0], accepted |-> {},
          queue |-> {}, next |-> {}, added |-> {}]
Report == [candidates : Nat, accepted : Nat, rejected : Nat, duplicates : Nat]

PromotionType ==
    /\ promoted \in [Contents -> Calls \cup {"before", None}]
    /\ runs \in [Calls -> Report \cup {Missing}]
    /\ items \subseteq [run : Calls, content : Contents, accepted : BOOLEAN]
    /\ job \in [Calls -> Job]

PromotionInit ==
    /\ promoted = [x \in Contents |-> IF x \in PromotedBefore THEN "before" ELSE None]
    /\ runs = [c \in Calls |-> Missing]
    /\ items = {}
    /\ job = [c \in Calls |-> NoJob]

PromotionEnds(c, how) == Goes(c, how) /\ job' = [job EXCEPT ![c] = NoJob]
Others == <<sources, cache, my>>

-----------------------------------------------------------------------------
(* Candidates.                                                             *)

\* buildCandidateDrafts: copies in the index count, also when one row has two.
CopiesOf(x, o) ==
    {h \in index[o] : Tables[h.row.table].kind = "memory" /\ ContentOf[h.row] = x}
MembersOf(x, o) == {Tables[h.row.table].user : h \in CopiesOf(x, o)}
Drafts(o) == {x \in Contents : CopiesOf(x, o) /= {}}

\* evaluateGlobalPromotionCandidate.
Score(x, o) ==
    BaseScore[x] + (IF Cardinality(CopiesOf(x, o)) >= 2 THEN 15 ELSE 0)
                 + (IF Cardinality(MembersOf(x, o)) >= 2 THEN 15 ELSE 0)
Eligible(x, o) == BaseScore[x] > 0 /\ Score(x, o) >= MinimumScore

StartPromotion(c) ==
    /\ \/ Begins(c, "promote", "evaluate")
       \/ Begins(c, "dry-run", "evaluate")
    /\ UNCHANGED <<global, job>>

\* The status and the rows; without an index there is nothing to do.
Evaluate(c) ==
    /\ pc[c] = "evaluate"
    /\ IF ~Usable(meta) THEN PromotionEnds(c, "done")
       ELSE LET o == meta.digest.owner
            IN  /\ job' = [job EXCEPT ![c].drafts = Drafts(o),
                                      ![c].score = [x \in Contents |-> Score(x, o)],
                                      ![c].accepted = {x \in Drafts(o) : Eligible(x, o)}]
                /\ Goes(c, "gate")
    /\ UNCHANGED <<Others, failures, global>>

\* The model may refuse any candidate, or fail, which counts as refusing.
ModelKeeps(c) == SUBSET job[c].accepted

\* The best of the rest go on: the candidates were sorted when they were
\* evaluated; among equals the newest comes first.
Gate(c) ==
    /\ pc[c] = "gate"
    /\ \E passed \in ModelKeeps(c) :
       \E best \in SUBSET passed :
         /\ Cardinality(best) = IF Cardinality(passed) < MaxAccepted
                                THEN Cardinality(passed) ELSE MaxAccepted
         /\ \A x \in best, y \in passed \ best : job[c].score[x] >= job[c].score[y]
         /\ IF my[c].op = "dry-run" THEN PromotionEnds(c, "done")
            ELSE /\ job' = [job EXCEPT ![c].accepted = passed, ![c].queue = best]
                 /\ Goes(c, "find")
    /\ UNCHANGED <<Others, failures, global>>

-----------------------------------------------------------------------------
(* Writing.                                                                *)

Find(c) ==
    /\ pc[c] = "find"
    /\ \E x \in job[c].queue :
         /\ IF promoted[x] = None
            THEN job' = [job EXCEPT ![c].queue = @ \ {x}, ![c].next = {x}]
                 /\ Goes(c, "insert")
            ELSE job' = [job EXCEPT ![c].queue = @ \ {x}] /\ UNCHANGED pc
    /\ UNCHANGED <<Others, failures, global>>

\* Mutant: a content that was promoted meanwhile is ignored by the insert.
InsertIgnoring(c) ==
    /\ pc[c] = "insert"
    /\ \E x \in job[c].next :
         /\ promoted' = IF promoted[x] = None THEN [promoted EXCEPT ![x] = c] ELSE promoted
         /\ job' = [job EXCEPT ![c].next = {}, ![c].added = @ \cup {x}]
         /\ Goes(c, "find")
    /\ UNCHANGED <<Others, failures, runs, items>>

\* content_hash is unique: a run that comes second throws.
Insert(c) ==
    /\ pc[c] = "insert"
    /\ \E x \in job[c].next :
         \/ /\ promoted[x] = None
            /\ promoted' = [promoted EXCEPT ![x] = c]
            /\ job' = [job EXCEPT ![c].next = {}, ![c].added = @ \cup {x}]
            /\ Goes(c, "find")
         \/ /\ promoted[x] /= None
            /\ PromotionEnds(c, "failed")
            /\ UNCHANGED promoted
    /\ UNCHANGED <<Others, failures, runs, items>>

\* Mutant: all but the admitted number are counted as refused.
RecordRunByLimit(c) ==
    LET kept == Cardinality(job[c].added)
    IN  /\ pc[c] = "find" /\ job[c].queue = {}
        /\ runs' = [runs EXCEPT ![c] =
                      [candidates |-> Cardinality(job[c].drafts), accepted |-> kept,
                       rejected |-> Cardinality(job[c].drafts) - MaxAccepted,
                       duplicates |-> 0]]
        /\ Goes(c, "items")
        /\ UNCHANGED <<Others, failures, promoted, items, job>>

\* persistPromotionRun; the best that were not added are its duplicates.
RecordRun(c) ==
    LET refused == job[c].drafts \ job[c].accepted
        tried == IF Cardinality(job[c].accepted) < MaxAccepted
                 THEN Cardinality(job[c].accepted) ELSE MaxAccepted
    IN  /\ pc[c] = "find" /\ job[c].queue = {}
        /\ runs' = [runs EXCEPT ![c] =
                      [candidates |-> Cardinality(job[c].drafts),
                       accepted |-> Cardinality(job[c].added),
                       rejected |-> Cardinality(refused),
                       duplicates |-> tried - Cardinality(job[c].added)]]
        /\ Goes(c, "items")
        /\ UNCHANGED <<Others, failures, promoted, items, job>>

\* One statement per candidate.
Recorded(c) == {i.content : i \in {j \in items : j.run = c}}
ToRecord(c) == (job[c].added \cup (job[c].drafts \ job[c].accepted)) \ Recorded(c)

RecordItem(c) ==
    /\ pc[c] = "items"
    /\ \E x \in ToRecord(c) :
         items' = items \cup {[run |-> c, content |-> x, accepted |-> x \in job[c].added]}
    /\ UNCHANGED <<Others, failures, pc, promoted, runs, job>>

RunRecorded(c) ==
    /\ pc[c] = "items" /\ ToRecord(c) = {}
    /\ PromotionEnds(c, "done")
    /\ UNCHANGED <<Others, failures, global>>

PromotionFails(c) ==
    /\ pc[c] \in {"find", "insert", "items"}
    /\ Failure
    /\ PromotionEnds(c, "failed")
    /\ UNCHANGED <<Others, global>>

PromotionStep(c) ==
    \/ Evaluate(c) \/ Gate(c) \/ Find(c) \/ Insert(c)
    \/ RecordRun(c) \/ RecordItem(c) \/ RunRecorded(c) \/ PromotionFails(c)

-----------------------------------------------------------------------------
(* The index and the promotions that read it.                              *)

vars == <<sources, cache, pc, my, failures, global, job>>

IndexAction ==
    /\ \/ Write
       \/ \E c \in Calls : \/ StartRebuild(c) \/ StartSearch(c) \/ StartFanout(c)
                           \/ RebuildStep(c) \/ SearchStep(c)
    /\ UNCHANGED <<global, job>>

Crash(c) ==
    /\ pc[c] \notin Ended \cup {"idle"}
    /\ Failure
    /\ Goes(c, "crashed")
    /\ my' = [my EXCEPT ![c] = Blank]
    /\ job' = [job EXCEPT ![c] = NoJob]
    /\ UNCHANGED <<sources, cache, global>>

Init == (\E o \in IndexedFor : IndexInit(o)) /\ PromotionInit
Step(c) == ((RebuildStep(c) \/ SearchStep(c)) /\ UNCHANGED <<global, job>>) \/ PromotionStep(c)

\* It stops when every call has ended and nothing more is written.
Next ==
    \/ IndexAction
    \/ \E c \in Calls : StartPromotion(c) \/ PromotionStep(c) \/ Crash(c)

Fairness == \A c \in Calls : WF_vars(Step(c))
Spec == Init /\ [][Next]_vars /\ Fairness

Standing == {"idle", "print", "clear", "members", "copy", "check", "compare", "lookup",
             "fanout", "evaluate", "gate", "find", "insert", "items"} \cup Ended
TypeOK == IndexType /\ PromotionType /\ pc \in [Calls -> Standing]

\* The record of a run says what it promoted: the count and the items agree
\* with the rows it inserted, also when runs of other processes promote the
\* same content between its look-up and its insert.
PromotionRecorded ==
    \A c \in Calls :
        LET own == {x \in Contents : promoted[x] = c}
        IN  runs[c] /= Missing =>
              /\ runs[c].accepted = Cardinality(own)
              /\ {i.content : i \in {j \in items : j.run = c /\ j.accepted}} \subseteq own
              /\ pc[c] = "done" =>
                   Cardinality({i \in items : i.run = c}) =
                      runs[c].accepted + runs[c].rejected

\* Every search, rebuild and promotion ends, however often the sources change.
EveryCallEnds == \A c \in Calls : pc[c] /= "idle" ~> pc[c] \in Ended
=============================================================================
