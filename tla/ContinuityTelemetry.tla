------------------------ MODULE ContinuityTelemetry ------------------------
(***************************************************************************)
(* The telemetry of a continuity database: the tools of any session append *)
(* an event after they did their work, a reviewer labels the events that   *)
(* may be false rejects, and two reports count both.  A report is several  *)
(* statements on one connection without a transaction, so that other       *)
(* calls write between them.                                               *)
(***************************************************************************)
EXTENDS Integers, Sequences, FiniteSets

CONSTANTS
    Calls,
    Operations,     \* [Calls -> SUBSET operations]
    Labels,         \* valid_reject, false_reject, uncertain
    WindowDays,     \* windowDays of the trend report
    SampleLimit,    \* reviewSampleLimit
    MaxPast,        \* bound: events of earlier sessions
    PastTypes,      \* their types
    MaxDays,        \* bound: the last day
    MaxFailures,    \* bound: statements that fail
    None

\* "skipped" is a duplicate or low-signal write, "rejected" a preview or an
\* apply; "other" is a briefing or a preview or apply that was not rejected.
Types == {"stored", "skipped", "query", "rejected", "other"}

ASSUME TelemetryAssumption ==
    /\ IsFiniteSet(Calls)
    /\ WindowDays \in Nat \ {0} /\ SampleLimit \in Nat \ {0}
    /\ MaxPast \in Nat /\ MaxDays \in Nat \ {0, 1} /\ MaxFailures \in Nat
    /\ PastTypes \subseteq Types
    /\ None \notin Labels

VARIABLES
    schema,     \* of the database file: "absent", "old" (no label table) or "full"
    events,     \* continuity_telemetry_events in the order of their timestamps
    labels,     \* continuity_telemetry_review_labels: [event -> label or None]
    streak,     \* continuityQueryNoiseStreakBySession, of one session
    today,      \* the UTC day
    pc, my,     \* where each call is, and its locals
    failures,
    earned      \* history: noisy answers since the last quiet moment

database == <<schema, events, labels>>
session == <<streak, earned>>
vars == <<database, session, today, pc, my, failures>>

Rejects == {"skipped", "rejected"}
Event == [day : 1..MaxDays, type : Types]
EventIds == 1..(MaxPast + Cardinality(Calls))

Ended == {"reported", "ended"}

-----------------------------------------------------------------------------
(* What the statements return.                                             *)

\* The days of a trend report that was begun on day e.
Window(e) == {d \in 1..MaxDays : e - (WindowDays - 1) <= d /\ d <= e}

\* timestamp BETWEEN startTimestamp AND endTimestamp.
InWindow(i, e) == events[i].day >= e - (WindowDays - 1) /\ events[i].day <= e

\* CONTINUITY_TELEMETRY_FALSE_REJECT_SQL_FILTER.
Candidates == {i \in DOMAIN events : events[i].type \in Rejects}
CandidatesIn(e) == {i \in Candidates : InWindow(i, e)}

CountByType(ids) == [t \in Types |-> Cardinality({i \in ids : events[i].type = t})]
DaySeries(e) ==
    [d \in Window(e) |-> CountByType({i \in DOMAIN events : InWindow(i, e) /\ events[i].day = d})]

RejectsByDay(days) == [d \in DOMAIN days |-> days[d].skipped + days[d].rejected]

\* ORDER BY timestamp DESC LIMIT ?, labelled or not.
Newest(ids) == {i \in ids : Cardinality({j \in ids : j > i}) < SampleLimit}

CountByLabel(ids) == [l \in Labels |-> Cardinality({i \in ids : labels[i] = l})]

\* The sum of the counts: the size of the disjoint union of sets of these sizes.
Total(count) == Cardinality(UNION {{k} \X (1..count[k]) : k \in DOMAIN count})

\* Mutant: the difference is reported as it is.
PendingUnclamped(found, labelled) == found - Total(labelled)

Pending(found, labelled) == IF found > Total(labelled) THEN found - Total(labelled) ELSE 0

-----------------------------------------------------------------------------
(* Types and the initial states.                                           *)

NoLabels == [l \in Labels |-> 0]
Tally == [found : Nat, labelled : [Labels -> Nat], pending : Nat]
NoTally == [found |-> 0, labelled |-> NoLabels, pending |-> 0]
NoSample == [i \in {} |-> None]

(* type: of the event to record; prev: the streak a query read; noisy: its  *)
(* answer; event: to label; end, days, sample, trend: a trend report so     *)
(* far; summary: a summary so far; warned: labels could not be read; seen,  *)
(* marked: history, the events and labels there were when a report began.   *)
Blank == [op |-> "none", type |-> "other", prev |-> 0, noisy |-> FALSE, event |-> 0, end |-> 0,
          days |-> <<>>, sample |-> NoSample, trend |-> NoTally, summary |-> NoTally,
          warned |-> FALSE, seen |-> {}, marked |-> {}]

TelemetryType ==
    /\ schema \in {"absent", "old", "full"}
    /\ events \in Seq(Event)
    /\ labels \in [EventIds -> Labels \cup {None}]
    /\ streak \in Nat /\ earned \in Nat /\ today \in 1..MaxDays
    /\ failures \in 0..MaxFailures
    /\ schema /= "full" => \A i \in EventIds : labels[i] = None
    /\ schema = "absent" => events = <<>>
    /\ \A i \in EventIds : labels[i] /= None => i \in Candidates

ReportType(r) ==
    /\ r.trend \in Tally /\ r.summary \in Tally
    /\ DOMAIN r.days \subseteq Window(r.end)
    /\ \A d \in DOMAIN r.days : r.days[d] \in [Types -> Nat]
    /\ \A i \in DOMAIN r.sample : i \in Candidates /\ r.sample[i] \in Labels \cup {None}

Past == {<<>>} \cup UNION {[1..n -> [day : 1..MaxDays, type : PastTypes]] : n \in 1..MaxPast}

\* A database other sessions have used, or none yet.
Init ==
    /\ schema \in {"absent", "old", "full"}
    /\ today = MaxDays - 1
    /\ events \in {p \in Past : \A i \in DOMAIN p :
                      p[i].day <= today /\ (i > 1 => p[i - 1].day <= p[i].day)}
    /\ labels \in [EventIds -> Labels \cup {None}]
    /\ schema = "absent" => events = <<>>
    /\ \A i \in EventIds : labels[i] /= None => schema = "full" /\ i \in Candidates
    /\ streak = 0 /\ earned = 0 /\ failures = 0
    /\ pc = [c \in Calls |-> "idle"]
    /\ my = [c \in Calls |-> Blank]

-----------------------------------------------------------------------------
(* Steps of a call.                                                        *)

Goes(c, to) == pc' = [pc EXCEPT ![c] = to]
Notes(c, field, value) == my' = [my EXCEPT ![c][field] = value]
Failure == failures < MaxFailures /\ failures' = failures + 1

Starts(c, op, to) ==
    /\ pc[c] = "idle" /\ op \in Operations[c]
    /\ Goes(c, to)
    /\ my' = [my EXCEPT ![c].op = op, ![c].prev = IF op = "query" THEN streak ELSE 0]
    /\ UNCHANGED <<database, session, today, failures>>

\* With an answer, a refusal or an error.
Ends(c) == Goes(c, "ended") /\ my' = [my EXCEPT ![c] = Blank]

\* No project memory is active, or the input is not valid.
Refuses(c, op) ==
    /\ pc[c] = "idle" /\ op \in Operations[c]
    /\ Ends(c)
    /\ UNCHANGED <<database, session, today, failures>>

\* An event is recorded by what the tool's work came to.
Outcomes(op) ==
    CASE op = "write" -> {"stored", "skipped"}
      [] op = "compact" -> {"rejected", "other"}
      [] op = "briefing" -> {"other"}

\* continuity_write, the compaction tools and the briefing of a prompt.
\* Without an active database or with input that is not valid they answer.
StartTool(c) ==
    \/ \E op \in {"write", "compact", "briefing"} : Starts(c, op, "work")
    \/ \E op \in {"write", "compact"} : Refuses(c, op)

\* What persistence does is the matter of EntryWriting and of Compaction*.
Work(c) ==
    /\ pc[c] = "work" /\ my[c].op /= "query"
    /\ \/ \E t \in Outcomes(my[c].op) : Notes(c, "type", t) /\ Goes(c, "record")
       \/ my[c].op /= "briefing" /\ Ends(c)
    /\ UNCHANGED <<database, session, today, failures>>

\* The tables are created if need be; an event that cannot be stored is lost,
\* and the tool answers as if it were there.
Record(c) ==
    /\ pc[c] = "record"
    /\ \/ /\ events' = Append(events, [day |-> today, type |-> my[c].type])
          /\ schema' = "full"
          /\ UNCHANGED failures
       \/ Failure /\ UNCHANGED <<schema, events>>
    /\ IF my[c].op = "query" THEN Goes(c, "streak") /\ UNCHANGED my ELSE Ends(c)
    /\ UNCHANGED <<labels, session, today>>

-----------------------------------------------------------------------------
(* continuity_query and its count of noisy answers in a row.               *)

\* The streak is read before the runtime is awaited.
StartQuery(c) == Starts(c, "query", "work") \/ Refuses(c, "query")

\* Mutant: an answer that is not noisy leaves the streak as it was.
NextStreakUnreset(prev, noisy) == IF noisy THEN prev + 1 ELSE prev

NextStreak(prev, noisy) == IF noisy THEN prev + 1 ELSE 0

\* No other query is under way.
Alone(c) == \A d \in Calls \ {c} : my[d].op = "query" => pc[d] \in Ended

\* A query that fails, or has no words to match, is not noisy.
Search(c) ==
    /\ pc[c] = "work" /\ my[c].op = "query"
    /\ \E noisy \in BOOLEAN :
         my' = [my EXCEPT ![c].type = "query", ![c].noisy = noisy]
    /\ Goes(c, "record")
    /\ UNCHANGED <<database, session, today, failures>>

StoreStreak(c, noisy) ==
    /\ streak' = NextStreak(my[c].prev, noisy)
    /\ earned' = IF noisy THEN earned + 1 ELSE IF Alone(c) THEN 0 ELSE earned

NoRuntime(c) ==
    /\ pc[c] = "work" /\ my[c].op = "query"
    /\ StoreStreak(c, FALSE)
    /\ Ends(c)
    /\ UNCHANGED <<database, today, failures>>

AnswerQuery(c) ==
    /\ pc[c] = "streak"
    /\ StoreStreak(c, my[c].noisy)
    /\ Ends(c)
    /\ UNCHANGED <<database, today, failures>>

QueryStep(c) == Search(c) \/ NoRuntime(c) \/ AnswerQuery(c)

-----------------------------------------------------------------------------
(* continuity_telemetry_review_label.                                      *)

StartLabel(c) == Starts(c, "label", "find") \/ Refuses(c, "label")

\* event-not-found and event-not-review-eligible are refused.
FindEvent(c) ==
    /\ pc[c] = "find"
    /\ schema' = "full"
    /\ \E i \in EventIds :
         IF i \in Candidates
         THEN Notes(c, "event", i) /\ Goes(c, "upsert")
         ELSE Ends(c)
    /\ UNCHANGED <<events, labels, session, today, failures>>

\* One label for an event, the last one.
StoreLabel(c) ==
    /\ pc[c] = "upsert"
    /\ \E l \in Labels : labels' = [labels EXCEPT ![my[c].event] = l]
    /\ Ends(c)
    /\ UNCHANGED <<schema, events, session, today, failures>>

LabelFails(c) ==
    /\ pc[c] \in {"find", "upsert"} /\ Failure
    /\ Ends(c)
    /\ UNCHANGED <<database, session, today>>

LabelStep(c) == FindEvent(c) \/ StoreLabel(c) \/ LabelFails(c)

-----------------------------------------------------------------------------
(* The status of continuity: readContinuityTelemetrySummary, then a trend. *)

\* A table that is not there, or a statement that fails.
NoEvents == (schema = "absent" /\ UNCHANGED failures) \/ Failure
NoLabelRows == (schema /= "full" /\ UNCHANGED failures) \/ Failure

StartStatus(c) == Starts(c, "status", "totals") \/ Refuses(c, "status")

\* A summary that fails or finds no table is zeros, and the trend follows.
Totals(c) ==
    /\ pc[c] = "totals"
    /\ \/ /\ schema /= "absent"
          /\ my' = [my EXCEPT ![c].summary.found = Cardinality(Candidates)]
          /\ Goes(c, "all-labels")
          /\ UNCHANGED failures
       \/ /\ NoEvents
          /\ Goes(c, "open") /\ UNCHANGED my
    /\ UNCHANGED <<database, session, today>>

AllLabels(c) ==
    /\ pc[c] = "all-labels"
    /\ LET found == my[c].summary.found
           count == CountByLabel(Candidates)
       IN  \/ /\ schema = "full"
              /\ Notes(c, "summary", [found |-> found, labelled |-> count,
                                      pending |-> Pending(found, count)])
              /\ UNCHANGED failures
           \/ /\ NoLabelRows
              /\ Notes(c, "summary", [found |-> found, labelled |-> NoLabels,
                                      pending |-> Pending(found, NoLabels)])
    /\ Goes(c, "open")
    /\ UNCHANGED <<database, session, today>>

-----------------------------------------------------------------------------
(* continuity_telemetry_review_queue: readContinuityTelemetryTrendReport.  *)

StartQueue(c) == Starts(c, "queue", "open") \/ Refuses(c, "queue")

\* generatedAt fixes the window before the first statement.
Open(c) ==
    /\ pc[c] = "open"
    /\ my' = [my EXCEPT ![c].end = today, ![c].seen = DOMAIN events,
                        ![c].marked = {i \in EventIds : labels[i] /= None}]
    /\ Goes(c, "days")
    /\ UNCHANGED <<database, session, today, failures>>

ReadDays(c) ==
    /\ pc[c] = "days"
    /\ IF schema = "absent" THEN Ends(c)
       ELSE Goes(c, "candidates") /\ Notes(c, "days", DaySeries(my[c].end))
    /\ UNCHANGED <<database, session, today, failures>>

CountCandidates(c) ==
    /\ pc[c] = "candidates"
    /\ my' = [my EXCEPT ![c].trend.found = Cardinality(CandidatesIn(my[c].end))]
    /\ Goes(c, "sample")
    /\ UNCHANGED <<database, session, today, failures>>

ReadSample(c) ==
    /\ pc[c] = "sample"
    /\ LET newest == Newest(CandidatesIn(my[c].end))
       IN  /\ Notes(c, "sample", [i \in newest |-> None])
           /\ Goes(c, IF newest = {} THEN "counts" ELSE "sample-labels")
    /\ UNCHANGED <<database, session, today, failures>>

ReportFails(c) ==
    /\ pc[c] \in {"days", "candidates", "sample"} /\ Failure
    /\ Ends(c)
    /\ UNCHANGED <<database, session, today>>

\* Without labels the sample and the counts are given with a warning.
ReadSampleLabels(c) ==
    /\ pc[c] = "sample-labels"
    /\ \/ /\ schema = "full"
          /\ Notes(c, "sample", [i \in DOMAIN my[c].sample |-> labels[i]])
          /\ UNCHANGED failures
       \/ /\ NoLabelRows
          /\ Notes(c, "warned", TRUE)
    /\ Goes(c, "counts")
    /\ UNCHANGED <<database, session, today>>

Counted(c, ids) ==
    LET found == my[c].trend.found
        count == CountByLabel(ids)
    IN  /\ pc[c] = "counts"
        /\ \/ /\ schema = "full"
              /\ Notes(c, "trend", [found |-> found, labelled |-> count,
                                    pending |-> Pending(found, count)])
              /\ UNCHANGED failures
           \/ /\ NoLabelRows
              /\ my' = [my EXCEPT ![c].warned = TRUE,
                                  ![c].trend.pending = Pending(found, NoLabels)]
        /\ Goes(c, "reported")
        /\ UNCHANGED <<database, session, today>>

\* Mutant: only the labels of the sample are counted.
CountSampleLabels(c) == Counted(c, DOMAIN my[c].sample)

CountLabels(c) == Counted(c, CandidatesIn(my[c].end))

ReportStep(c) ==
    \/ Totals(c) \/ AllLabels(c)
    \/ Open(c) \/ ReadDays(c) \/ CountCandidates(c) \/ ReadSample(c)
    \/ ReadSampleLabels(c) \/ CountLabels(c) \/ ReportFails(c)

-----------------------------------------------------------------------------
(* All of it.                                                              *)

Midnight ==
    /\ today < MaxDays /\ today' = today + 1
    /\ UNCHANGED <<database, session, pc, my, failures>>

\* It stops when every call has ended.
Next ==
    \/ Midnight
    \/ \E c \in Calls :
         \/ StartTool(c) \/ StartQuery(c) \/ StartLabel(c) \/ StartStatus(c) \/ StartQueue(c)
         \/ Work(c) \/ Record(c) \/ QueryStep(c)
         \/ LabelStep(c) \/ ReportStep(c)

Spec == Init /\ [][Next]_vars

Standing == {"idle", "work", "record", "streak", "find", "upsert", "totals", "all-labels",
             "open", "days", "candidates", "sample", "sample-labels", "counts"} \cup Ended
TypeOK ==
    /\ TelemetryType
    /\ pc \in [Calls -> Standing]
    /\ \A c \in Calls : ReportType(my[c])

\* What a trend report says when it is answered lies between what was true when
\* it began and what is true by then.
Answered(c) ==
    LET r == my'[c]
        now == {i \in DOMAIN events' : /\ events'[i].type \in Rejects
                                       /\ events'[i].day \in DOMAIN r.days}
        was == now \cap r.seen
        unlabelled == {i \in now : labels'[i] = None}
    IN  /\ Cardinality(was) <= Total(RejectsByDay(r.days))
        /\ Total(RejectsByDay(r.days)) <= r.trend.found
        /\ r.trend.found <= Cardinality(now)
        /\ DOMAIN r.sample \subseteq now
        /\ ~r.warned =>
             /\ Cardinality(was \cap r.marked) <= Total(r.trend.labelled)
             /\ Total(r.trend.labelled) <= Cardinality(now \ unlabelled)
             /\ r.trend.pending <= Cardinality(unlabelled)

\* Every number of a trend report lies between what was true when it began and
\* what is true when it is answered, although other calls write, and days end,
\* between its statements: its days and its candidates agree but for events
\* recorded meanwhile, its sample is of candidates of its window, and what it
\* calls pending is no more than what is.
ReportBracketed ==
    [][\A c \in Calls : pc[c] = "counts" /\ pc'[c] = "reported" => Answered(c)]_vars

\* A streak of noisy answers is earned: queries of a session that run side by
\* side may lose a count, or keep one that a quiet answer should have cleared,
\* but after a quiet answer that no other query overlapped the streak only
\* counts noisy answers given since, and only those recommend a compaction.
HintEarned == streak <= earned
=============================================================================
