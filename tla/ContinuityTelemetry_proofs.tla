--------------------- MODULE ContinuityTelemetry_proofs ---------------------
(***************************************************************************)
(* Two things are proved of the telemetry, for any calls side by side.     *)
(*                                                                         *)
(* A streak of noisy answers is earned.  A query reads the streak, awaits, *)
(* and writes what it read plus one: it must not carry a count over a      *)
(* quiet moment that it did not overlap (HintInv).                         *)
(*                                                                         *)
(* A report is several statements between which other calls write.  What   *)
(* it has read so far lies between what there was when it began and what   *)
(* there is (ReportInv): events are appended and labels replaced only, and *)
(* its sums are the sizes of sets of events, counted class by class.       *)
(***************************************************************************)
EXTENDS ContinuityTelemetry, FiniteSetTheorems, TLAPS

Fields == DOMAIN Blank
LocalsShape ==
    /\ my = [c \in Calls |-> my[c]]
    /\ \A c \in Calls : my[c] = [f \in Fields |-> my[c][f]]

\* A query under way carries no more than what has been earned by now.
Querying(c) == my[c].op = "query" /\ pc[c] \notin Ended
Carries(c) ==
    /\ Querying(c) => my[c].prev \in Nat /\ my[c].prev <= earned
    /\ pc[c] = "streak" => my[c].op = "query"

HintInv ==
    /\ streak \in Nat /\ earned \in Nat /\ streak <= earned
    /\ pc \in [Calls -> Standing]
    /\ LocalsShape
    /\ \A c \in Calls : Carries(c)

-----------------------------------------------------------------------------
LEMMA FieldsOf == /\ "op" \in Fields /\ "prev" \in Fields
                  /\ Blank = [f \in Fields |-> Blank[f]]
BY DEF Fields, Blank

\* A step of one call that writes neither the streak nor what it carries.
LEMMA Bystander ==
    ASSUME HintInv, NEW c \in Calls, NEW to \in Standing,
           Goes(c, to), UNCHANGED session,
           LocalsShape', \A d \in Calls \ {c} : my'[d] = my[d],
           my'[c].op = my[c].op, my'[c].prev = my[c].prev,
           to \in Ended \/ pc[c] \notin Ended,
           to = "streak" => my[c].op = "query"
    PROVE  HintInv'
BY DEF HintInv, Goes, session, Carries, Querying

LEMMA Ender ==
    ASSUME HintInv, NEW c \in Calls, Ends(c), UNCHANGED session
    PROVE  HintInv'
<1>1. LocalsShape'
  BY FieldsOf DEF HintInv, LocalsShape, Ends
<1> QED
  BY <1>1 DEF HintInv, Ends, Goes, session, Carries, Querying, Standing, Ended

LEMMA Noter ==
    ASSUME HintInv, NEW c \in Calls, NEW field \in Fields \ {"op", "prev"}, NEW value,
           Notes(c, field, value)
    PROVE  /\ LocalsShape' /\ \A d \in Calls \ {c} : my'[d] = my[d]
           /\ my'[c].op = my[c].op /\ my'[c].prev = my[c].prev
BY FieldsOf DEF HintInv, LocalsShape, Notes

LEMMA StarterSafe ==
    ASSUME HintInv, NEW c \in Calls, NEW op, NEW to \in Standing \ {"streak"}, Starts(c, op, to)
    PROVE  HintInv'
<1>1. LocalsShape'
  BY FieldsOf DEF HintInv, LocalsShape, Starts
<1>2. \A d \in Calls : Carries(d)'
  BY <1>1, FieldsOf
  DEF HintInv, LocalsShape, Starts, Goes, session, Carries, Querying, Ended
<1> QED
  BY <1>1, <1>2 DEF HintInv, Starts, Goes, session

\* Every call but a query's last step leaves the streak alone.
LEMMA ToolsSafe ==
    ASSUME HintInv, NEW c \in Calls,
           \/ StartTool(c) \/ StartQuery(c) \/ StartLabel(c) \/ StartStatus(c) \/ StartQueue(c)
           \/ Work(c) \/ Record(c) \/ LabelStep(c) \/ Search(c)
    PROVE  HintInv'
<1>1. \A op : Refuses(c, op) => HintInv'
  BY Ender DEF Refuses
<1>2. CASE StartTool(c)
  BY <1>1, <1>2, StarterSafe DEF StartTool, Standing
<1>3. CASE StartQuery(c) \/ StartLabel(c) \/ StartStatus(c) \/ StartQueue(c)
  BY <1>1, <1>3, StarterSafe DEF StartQuery, StartLabel, StartStatus, StartQueue, Standing
<1>4. CASE Work(c)
  <2>1. CASE Ends(c)
    BY <1>4, <2>1, Ender DEF Work
  <2>2. ASSUME NEW t, Notes(c, "type", t), Goes(c, "record") PROVE HintInv'
    <3>1. "type" \in Fields \ {"op", "prev"}
      BY DEF Fields, Blank
    <3>2. /\ LocalsShape' /\ \A d \in Calls \ {c} : my'[d] = my[d]
          /\ my'[c].op = my[c].op /\ my'[c].prev = my[c].prev
      BY <2>2, <3>1, Noter
    <3>3. "record" \in Standing /\ pc[c] \notin Ended
      BY <1>4 DEF Work, Standing, Ended
    <3> QED
      BY <1>4, <2>2, <3>2, <3>3, Bystander DEF Work
  <2> QED
    BY <1>4, <2>1, <2>2 DEF Work
<1>5. CASE Record(c)
  <2>1. CASE my[c].op = "query"
    <3>1. Goes(c, "streak") /\ UNCHANGED <<my, session>>
      BY <1>5, <2>1 DEF Record
    <3>2. "streak" \in Standing /\ pc[c] \notin Ended /\ LocalsShape'
      BY <1>5, <3>1 DEF Record, Standing, Ended, HintInv, LocalsShape
    <3> QED
      BY <2>1, <3>1, <3>2, Bystander
  <2> QED
    BY <1>5, <2>1, Ender DEF Record
<1>6. CASE LabelStep(c)
  <2>1. CASE FindEvent(c)
    <3>1. CASE Ends(c)
      BY <2>1, <3>1, Ender DEF FindEvent
    <3>2. ASSUME NEW i, Notes(c, "event", i), Goes(c, "upsert") PROVE HintInv'
      <4>1. "event" \in Fields \ {"op", "prev"}
        BY DEF Fields, Blank
      <4>2. /\ LocalsShape' /\ \A d \in Calls \ {c} : my'[d] = my[d]
            /\ my'[c].op = my[c].op /\ my'[c].prev = my[c].prev
        BY <3>2, <4>1, Noter
      <4>3. "upsert" \in Standing /\ pc[c] \notin Ended
        BY <2>1 DEF FindEvent, Standing, Ended
      <4> QED
        BY <2>1, <3>2, <4>2, <4>3, Bystander DEF FindEvent
    <3> QED
      BY <2>1, <3>1, <3>2 DEF FindEvent
  <2> QED
    BY <1>6, <2>1, Ender DEF LabelStep, StoreLabel, LabelFails
<1>7. CASE Search(c)
  <2>1. PICK noisy \in BOOLEAN :
          my' = [my EXCEPT ![c].type = "query", ![c].noisy = noisy]
    BY <1>7 DEF Search
  <2>2. /\ LocalsShape' /\ \A d \in Calls \ {c} : my'[d] = my[d]
        /\ my'[c].op = my[c].op /\ my'[c].prev = my[c].prev
    BY <2>1, FieldsOf DEF HintInv, LocalsShape
  <2>3. "record" \in Standing /\ pc[c] \notin Ended
    BY <1>7 DEF Search, Standing, Ended
  <2> QED
    BY <1>7, <2>2, <2>3, Bystander DEF Search
<1> QED
  BY <1>2, <1>3, <1>4, <1>5, <1>6, <1>7

\* Nor does a report, whose steps write locals of their own.
LEMMA ReportsSafe ==
    ASSUME HintInv, NEW c \in Calls, ReportStep(c)
    PROVE  HintInv'
<1> DEFINE OwnLocals == /\ LocalsShape' /\ \A d \in Calls \ {c} : my'[d] = my[d]
                        /\ my'[c].op = my[c].op /\ my'[c].prev = my[c].prev
           Places == {"all-labels", "open", "days", "candidates", "sample", "sample-labels",
                      "counts", "reported"}
<1>1. Places \subseteq Standing \ {"streak"}
  BY DEF Standing, Ended
<1>2. UNCHANGED my => OwnLocals
  BY DEF HintInv, LocalsShape
<1>3. UNCHANGED session /\ pc[c] \notin Ended
  BY DEF ReportStep, Totals, AllLabels, Open, ReadDays, CountCandidates, ReadSample,
     ReadSampleLabels, CountLabels, Counted, ReportFails, Ended
<1>4. ASSUME NEW to \in Places, Goes(c, to), OwnLocals PROVE HintInv'
  BY <1>1, <1>3, <1>4, Bystander
<1>5. ASSUME NEW field \in Fields \ {"op", "prev"}, NEW value, Notes(c, field, value)
      PROVE  OwnLocals
  BY <1>5, Noter
<1>6. {"days", "sample", "summary", "trend", "warned"} \subseteq Fields \ {"op", "prev"}
  BY DEF Fields, Blank
<1>7. Ends(c) => HintInv'
  BY <1>3, Ender
<1>8. CASE Totals(c)
  <2>1. OwnLocals
    BY <1>2, <1>8, FieldsOf DEF Totals, HintInv, LocalsShape
  <2> QED
    BY <1>4, <1>8, <2>1 DEF Totals
<1>9. CASE AllLabels(c)
  <2>1. OwnLocals
    BY <1>5, <1>6, <1>9 DEF AllLabels
  <2> QED
    BY <1>4, <1>9, <2>1 DEF AllLabels
<1>10. CASE Open(c)
  <2>1. OwnLocals
    BY <1>10, FieldsOf DEF Open, HintInv, LocalsShape
  <2> QED
    BY <1>4, <1>10, <2>1 DEF Open
<1>11. CASE ReadDays(c)
  BY <1>4, <1>5, <1>6, <1>7, <1>11 DEF ReadDays
<1>12. CASE CountCandidates(c)
  <2>1. OwnLocals
    BY <1>12, FieldsOf DEF CountCandidates, HintInv, LocalsShape
  <2> QED
    BY <1>4, <1>12, <2>1 DEF CountCandidates
<1>13. CASE ReadSample(c)
  <2>1. OwnLocals
    BY <1>5, <1>6, <1>13 DEF ReadSample
  <2> QED
    BY <1>4, <1>13, <2>1 DEF ReadSample
<1>14. CASE ReadSampleLabels(c)
  <2>1. OwnLocals
    BY <1>5, <1>6, <1>14 DEF ReadSampleLabels
  <2> QED
    BY <1>4, <1>14, <2>1 DEF ReadSampleLabels
<1>15. CASE CountLabels(c)
  <2>1. CASE my' = [my EXCEPT ![c].warned = TRUE,
                              ![c].trend.pending = Pending(my[c].trend.found, NoLabels)]
    <3>1. OwnLocals
      <4> DEFINE l == [my[c] EXCEPT !.warned = TRUE]
                 m == [l EXCEPT !.trend.pending = Pending(my[c].trend.found, NoLabels)]
      <4>1. l = [f \in Fields |-> l[f]] /\ l.op = my[c].op /\ l.prev = my[c].prev
        BY FieldsOf DEF HintInv, LocalsShape
      <4>2. m = [f \in Fields |-> m[f]] /\ m.op = l.op /\ m.prev = l.prev
        <5> HIDE DEF l
        <5> QED
          BY <4>1, FieldsOf
      <4>3. my' = [my EXCEPT ![c] = m]
        BY <2>1 DEF HintInv, LocalsShape
      <4> HIDE DEF l, m
      <4> QED
        BY <4>1, <4>2, <4>3 DEF HintInv, LocalsShape
    <3> QED
      BY <1>4, <1>15, <3>1 DEF CountLabels, Counted
  <2>2. ASSUME NEW value, Notes(c, "trend", value) PROVE OwnLocals
    BY <1>5, <1>6, <2>2
  <2> QED
    BY <1>4, <1>15, <2>1, <2>2 DEF CountLabels, Counted
<1> QED
  BY <1>7, <1>8, <1>9, <1>10, <1>11, <1>12, <1>13, <1>14, <1>15 DEF ReportStep, ReportFails

\* The last step of a query: what it carries, plus one, is earned by then.
LEMMA QueriesSafe ==
    ASSUME HintInv, NEW c \in Calls, NoRuntime(c) \/ AnswerQuery(c)
    PROVE  HintInv'
<1>1. /\ Querying(c) /\ Ends(c)
      /\ StoreStreak(c, TRUE) \/ StoreStreak(c, FALSE)
  BY DEF NoRuntime, AnswerQuery, HintInv, Carries, Querying, Ended, StoreStreak, NextStreak
<1>2. my[c].prev \in Nat /\ my[c].prev <= earned /\ earned \in Nat
  BY <1>1 DEF HintInv, Carries
<1>3. /\ LocalsShape' /\ pc' \in [Calls -> Standing]
      /\ pc' = [pc EXCEPT ![c] = "ended"] /\ my' = [my EXCEPT ![c] = Blank]
  BY <1>1, FieldsOf DEF HintInv, LocalsShape, Ends, Goes, Standing, Ended
<1>4. CASE StoreStreak(c, TRUE)
  <2>1. streak' = my[c].prev + 1 /\ earned' = earned + 1
    BY <1>4 DEF StoreStreak, NextStreak
  <2>2. \A d \in Calls : Carries(d)'
    BY <1>2, <1>3, <2>1 DEF HintInv, LocalsShape, Carries, Querying, Ended
  <2> QED
    BY <1>2, <1>3, <2>1, <2>2 DEF HintInv
<1>5. CASE StoreStreak(c, FALSE)
  <2>1. streak' = 0 /\ earned' \in {0, earned} /\ (earned' = earned \/ Alone(c))
    BY <1>5 DEF StoreStreak, NextStreak
  <2>2. \A d \in Calls : Carries(d)'
    BY <1>2, <1>3, <2>1 DEF HintInv, LocalsShape, Carries, Querying, Ended, Alone
  <2> QED
    BY <1>2, <1>3, <2>1, <2>2 DEF HintInv
<1> QED
  BY <1>1, <1>4, <1>5

LEMMA HintInit == Init => HintInv
<1> SUFFICES ASSUME Init PROVE HintInv
  OBVIOUS
<1>1. LocalsShape
  BY FieldsOf DEF Init, LocalsShape
<1>2. Blank.op = "none"
  BY DEF Blank
<1>3. \A c \in Calls : Carries(c)
  BY <1>2 DEF Init, Carries, Querying
<1>4. pc \in [Calls -> Standing] /\ streak = 0 /\ earned = 0
  BY DEF Init, Standing
<1> QED
  BY <1>1, <1>3, <1>4 DEF HintInv

LEMMA HintStep == HintInv /\ [Next]_vars => HintInv'
<1> SUFFICES ASSUME HintInv, [Next]_vars PROVE HintInv'
  OBVIOUS
<1>1. CASE Midnight \/ UNCHANGED vars
  BY <1>1 DEF Midnight, vars, session, HintInv, LocalsShape, Carries, Querying
<1>2. ASSUME NEW c \in Calls,
             \/ StartTool(c) \/ StartQuery(c) \/ StartLabel(c) \/ StartStatus(c)
             \/ StartQueue(c) \/ Work(c) \/ Record(c) \/ QueryStep(c)
             \/ LabelStep(c) \/ ReportStep(c)
      PROVE  HintInv'
  BY <1>2, ToolsSafe, ReportsSafe, QueriesSafe DEF QueryStep
<1> QED
  BY <1>1, <1>2 DEF Next

\* A recommended compaction is earned, however many queries overlap.
THEOREM HintIsEarned == Spec => []HintEarned
<1>1. HintInv => HintEarned
  BY DEF HintInv, HintEarned
<1> QED
  BY <1>1, HintInit, HintStep, PTL DEF Spec

-----------------------------------------------------------------------------
(* Counting.                                                               *)

\* The classes of a finite set count up to what they have of it.
LEMMA ClassesAddUp ==
    ASSUME NEW S, IsFiniteSet(S), NEW K, NEW f
    PROVE  /\ Total([k \in K |-> Cardinality({x \in S : f[x] = k})])
                = Cardinality({x \in S : f[x] \in K})
           /\ \A k \in K : Cardinality({x \in S : f[x] = k}) \in Nat
<1> DEFINE Class(k) == {x \in S : f[x] = k}
           count == [k \in K |-> Cardinality(Class(k))]
           slots == UNION {{k} \X (1..count[k]) : k \in DOMAIN count}
           T == {x \in S : f[x] \in K}
           number == [k \in K |-> CHOOSE b : b \in Bijection(1..count[k], Class(k))]
           at == [p \in slots |-> number[p[1]][p[2]]]
<1>1. \A k \in K : IsFiniteSet(Class(k)) /\ count[k] \in Nat
                   /\ ExistsBijection(1..count[k], Class(k))
  <2> TAKE k \in K
  <2>1. Class(k) \in SUBSET S
    OBVIOUS
  <2> QED
    BY <2>1, FS_Subset, FS_CardinalityType
<1>2. \A k \in K : number[k] \in Bijection(1..count[k], Class(k))
  BY <1>1 DEF ExistsBijection
<1>3. IsFiniteSet(T)
  BY FS_Subset
<1>4. slots = {p \in K \X Nat : p[2] \in 1..count[p[1]]}
  <2>1. DOMAIN count = K
    OBVIOUS
  <2> HIDE DEF count
  <2>2. \A p : p \in slots <=> \E k \in K : p \in {k} \X (1..count[k])
    BY <2>1
  <2>3. \A k \in K : 1..count[k] \subseteq Nat
    BY <1>1 DEF count
  <2> QED
    BY <2>2, <2>3
<1> HIDE DEF number, slots
<1>5. \A p \in slots : at[p] = number[p[1]][p[2]] /\ p[1] \in K /\ p[2] \in 1..count[p[1]] /\ p = <<p[1], p[2]>>
  BY <1>4
<1>6. \A p \in slots : at[p] \in Class(p[1])
  BY <1>2, <1>5 DEF Bijection, Injection
<1>7. at \in [slots -> T]
  BY <1>5, <1>6
<1>8. \A p, q \in slots : at[p] = at[q] => p = q
  <2> SUFFICES ASSUME NEW p \in slots, NEW q \in slots, at[p] = at[q] PROVE p = q
    OBVIOUS
  <2>1. p[1] = q[1]
    BY <1>6
  <2>2. PICK k \in K : k = p[1] /\ k = q[1]
    BY <1>5, <2>1
  <2>3. number[k][p[2]] = number[k][q[2]] /\ p[2] \in 1..count[k] /\ q[2] \in 1..count[k]
    BY <1>5, <2>2
  <2>4. p[2] = q[2]
    BY <1>2, <2>3 DEF Bijection, Injection, IsInjective
  <2> QED
    BY <1>5, <2>1, <2>4
<1>9. \A x \in T : \E p \in slots : at[p] = x
  <2> SUFFICES ASSUME NEW x \in T PROVE \E p \in slots : at[p] = x
    OBVIOUS
  <2> DEFINE k == f[x]
  <2>1. k \in K /\ x \in Class(k)
    OBVIOUS
  <2>2. PICK n \in 1..count[k] : number[k][n] = x
    BY <1>2, <2>1 DEF Bijection, Surjection
  <2>3. <<k, n>> \in slots
    BY <1>4, <2>1, <2>2
  <2> QED
    BY <1>5, <2>2, <2>3
<1>10. at \in Injection(slots, T) /\ at \in Surjection(slots, T)
  BY <1>7, <1>8, <1>9 DEF Injection, Surjection, IsInjective
<1>11. Cardinality(slots) = Cardinality(T)
  BY <1>3, <1>10, FS_Injection
<1> QED
  BY <1>1, <1>11 DEF Total, slots

\* Where nothing is counted the sum is nothing.
LEMMA NothingAddsUp == Total(NoLabels) = 0
<1>1. UNION {{k} \X (1..NoLabels[k]) : k \in DOMAIN NoLabels} = {}
  BY DEF NoLabels
<1> QED
  BY <1>1, FS_EmptySet DEF Total

-----------------------------------------------------------------------------
(* The invariant of a report.                                              *)

\* An event is recorded by a call that will record no other.
Growth ==
    Len(events) <= MaxPast + Cardinality({c \in Calls : pc[c] \in Ended \cup {"streak"}})

Reporting == {"days", "candidates", "sample", "sample-labels", "counts"}

CallType(c) ==
    /\ my[c].type \in Types
    /\ ReportType(my[c])
    /\ pc[c] = "work" => my[c].op \in {"query", "write", "compact", "briefing"}
    /\ pc[c] = "upsert" => schema = "full" /\ my[c].event \in EventIds \cap Candidates
    /\ pc[c] \in {"idle", "totals", "all-labels", "open"} => my[c].days = <<>>

\* A report knows a part of the events and the labels there are,
Begun(r) ==
    /\ r.end \in 1..MaxDays
    /\ r.seen \subseteq DOMAIN events
    /\ \A i \in r.marked : i \in EventIds /\ labels[i] /= None

\* its days count at least what it saw,
Dated(r) ==
    /\ DOMAIN r.days = Window(r.end)
    /\ Cardinality(CandidatesIn(r.end) \cap r.seen) <= Total(RejectsByDay(r.days))
    /\ Total(RejectsByDay(r.days)) <= Cardinality(CandidatesIn(r.end))
    /\ Total(RejectsByDay(r.days)) \in Nat

\* its candidates at least what its days count,
Found(r) ==
    /\ Total(RejectsByDay(r.days)) <= r.trend.found
    /\ r.trend.found <= Cardinality(CandidatesIn(r.end))

\* and its sample is of candidates.
Sampled(r) == DOMAIN r.sample \subseteq CandidatesIn(r.end)

Bracketed(c) ==
    /\ pc[c] \in Reporting => Begun(my[c])
    /\ pc[c] \in Reporting \ {"days"} => Dated(my[c])
    /\ pc[c] \in {"sample", "sample-labels", "counts"} => Found(my[c])
    /\ pc[c] \in {"sample-labels", "counts"} => Sampled(my[c])

ReportInv ==
    /\ TelemetryType
    /\ Growth
    /\ \A c \in Calls : CallType(c) /\ Bracketed(c)

-----------------------------------------------------------------------------
(* What statements return.                                                 *)

LEMMA EventFacts ==
    ASSUME TelemetryType
    PROVE  /\ DOMAIN events = 1..Len(events) /\ Len(events) \in Nat
           /\ IsFiniteSet(DOMAIN events)
           /\ \A i \in DOMAIN events :
                /\ events[i] \in Event
                /\ events[i].day \in 1..MaxDays /\ events[i].type \in Types
           /\ MaxDays \in Nat
<1>1. events \in Seq(Event)
  BY DEF TelemetryType
<1>2. DOMAIN events = 1..Len(events) /\ Len(events) \in Nat
  BY <1>1
<1>3. \A i \in DOMAIN events : events[i] \in Event
  BY <1>1, <1>2
<1>4. IsFiniteSet(1..Len(events))
  BY <1>2, FS_Interval
<1>5. MaxDays \in Nat
  BY TelemetryAssumption DEF TelemetryAssumption
<1> QED
  BY <1>2, <1>3, <1>4, <1>5 DEF Event

LEMMA CandidateFacts ==
    ASSUME TelemetryType, NEW e \in 1..MaxDays
    PROVE  /\ Candidates \subseteq DOMAIN events /\ CandidatesIn(e) \subseteq Candidates
           /\ IsFiniteSet(Candidates) /\ Cardinality(Candidates) \in Nat
           /\ IsFiniteSet(CandidatesIn(e)) /\ Cardinality(CandidatesIn(e)) \in Nat
           /\ \A S \in SUBSET CandidatesIn(e) :
                IsFiniteSet(S) /\ Cardinality(S) \in Nat /\ Cardinality(S) <= Cardinality(CandidatesIn(e))
           /\ CandidatesIn(e) = {i \in DOMAIN events : /\ events[i].type \in Rejects
                                                       /\ events[i].day \in Window(e)}
           /\ Window(e) \subseteq 1..MaxDays
<1>1. Candidates \in SUBSET DOMAIN events /\ CandidatesIn(e) \in SUBSET DOMAIN events
      /\ CandidatesIn(e) \subseteq Candidates
  BY DEF Candidates, CandidatesIn
<1>2. /\ IsFiniteSet(Candidates) /\ IsFiniteSet(CandidatesIn(e))
  BY <1>1, EventFacts, FS_Subset
<1>3. Cardinality(Candidates) \in Nat /\ Cardinality(CandidatesIn(e)) \in Nat
  BY <1>2, FS_CardinalityType
<1>4. \A S \in SUBSET CandidatesIn(e) :
        IsFiniteSet(S) /\ Cardinality(S) \in Nat /\ Cardinality(S) <= Cardinality(CandidatesIn(e))
  BY <1>2, FS_Subset, FS_CardinalityType
<1>5. \A i \in DOMAIN events : InWindow(i, e) <=> events[i].day \in Window(e)
  BY EventFacts DEF InWindow, Window
<1>6. CandidatesIn(e) = {i \in DOMAIN events : /\ events[i].type \in Rejects
                                              /\ events[i].day \in Window(e)}
  BY <1>5 DEF Candidates, CandidatesIn
<1> QED
  BY <1>1, <1>2, <1>3, <1>4, <1>6 DEF Window

\* The days of a report add up to its candidates, counted in one statement.
LEMMA DaysAddUp ==
    ASSUME TelemetryType, NEW e \in 1..MaxDays
    PROVE  /\ DOMAIN DaySeries(e) = Window(e)
           /\ \A d \in Window(e) : DaySeries(e)[d] \in [Types -> Nat]
           /\ Total(RejectsByDay(DaySeries(e))) = Cardinality(CandidatesIn(e))
<1> DEFINE f == [i \in DOMAIN events |-> events[i].day]
           On(d) == {i \in DOMAIN events : InWindow(i, e) /\ events[i].day = d}
           Of(d, t) == {i \in On(d) : events[i].type = t}
           Rejected(d) == {i \in Candidates : f[i] = d}
<1>1. DOMAIN DaySeries(e) = Window(e) /\ \A d \in Window(e) : DaySeries(e)[d] = CountByType(On(d))
  BY DEF DaySeries
<1>2. \A d \in Window(e) : \A t \in Types : IsFiniteSet(Of(d, t)) /\ Cardinality(Of(d, t)) \in Nat
  <2> TAKE d \in Window(e)
  <2> TAKE t \in Types
  <2>1. Of(d, t) \in SUBSET DOMAIN events
    OBVIOUS
  <2> QED
    BY <2>1, EventFacts, FS_Subset, FS_CardinalityType
<1>3. \A d \in Window(e) : \A t \in Types : DaySeries(e)[d][t] = Cardinality(Of(d, t))
  BY <1>1 DEF CountByType
<1>4. \A d \in Window(e) : DaySeries(e)[d] \in [Types -> Nat]
  BY <1>1, <1>2 DEF CountByType
<1>5. ASSUME NEW d \in Window(e)
      PROVE  DaySeries(e)[d].skipped + DaySeries(e)[d].rejected = Cardinality(Rejected(d))
  <2>1. Of(d, "skipped") \cup Of(d, "rejected") = Rejected(d)
    <3>1. \A i \in DOMAIN events : events[i].day = d => InWindow(i, e)
      BY <1>5, EventFacts DEF InWindow, Window
    <3> QED
      BY <3>1 DEF Candidates, Rejects
  <2>2. Of(d, "skipped") \cap Of(d, "rejected") = {}
    OBVIOUS
  <2>3. Cardinality(Rejected(d)) = Cardinality(Of(d, "skipped")) + Cardinality(Of(d, "rejected")) - 0
    <3>1. IsFiniteSet(Of(d, "skipped")) /\ IsFiniteSet(Of(d, "rejected"))
      BY <1>2 DEF Types
    <3> HIDE DEF Of, Rejected
    <3> QED
      BY <2>1, <2>2, <3>1, FS_Union, FS_EmptySet
  <2>4. /\ DaySeries(e)[d]["skipped"] = Cardinality(Of(d, "skipped"))
        /\ DaySeries(e)[d]["rejected"] = Cardinality(Of(d, "rejected"))
        /\ Cardinality(Of(d, "skipped")) \in Nat /\ Cardinality(Of(d, "rejected")) \in Nat
    BY <1>2, <1>3 DEF Types
  <2> QED
    BY <2>3, <2>4
<1>6. RejectsByDay(DaySeries(e)) = [d \in Window(e) |-> Cardinality({i \in Candidates : f[i] = d})]
  BY <1>1, <1>5 DEF RejectsByDay
<1>7. Total(RejectsByDay(DaySeries(e))) = Cardinality({i \in Candidates : f[i] \in Window(e)})
  <2>1. IsFiniteSet(Candidates)
    BY CandidateFacts
  <2> HIDE DEF f
  <2>2. Total([d \in Window(e) |-> Cardinality({i \in Candidates : f[i] = d})])
          = Cardinality({i \in Candidates : f[i] \in Window(e)})
    BY <2>1, ClassesAddUp
  <2> QED
    BY <1>6, <2>2
<1>8. {i \in Candidates : f[i] \in Window(e)} = CandidatesIn(e)
  BY CandidateFacts DEF Candidates
<1> QED
  BY <1>1, <1>4, <1>7, <1>8

\* Labels are counted one by one.
LEMMA LabelsAddUp ==
    ASSUME NEW S, IsFiniteSet(S)
    PROVE  /\ CountByLabel(S) \in [Labels -> Nat]
           /\ Total(CountByLabel(S)) = Cardinality({i \in S : labels[i] \in Labels})
           /\ Total(CountByLabel(S)) \in Nat
<1>1. {i \in S : labels[i] \in Labels} \in SUBSET S
  OBVIOUS
<1>2. Cardinality({i \in S : labels[i] \in Labels}) \in Nat
  BY <1>1, FS_Subset, FS_CardinalityType
<1> QED
  BY <1>2, ClassesAddUp DEF CountByLabel

LEMMA PendingFacts ==
    ASSUME NEW found \in Nat, NEW labelled, Total(labelled) \in Nat
    PROVE  Pending(found, labelled) \in Nat
BY DEF Pending
-----------------------------------------------------------------------------
(* What a step does to the database, and what that leaves of a report.     *)

\* Events are appended, and labels replaced, only.
Grown ==
    /\ schema = "full" => schema' = "full"
    /\ DOMAIN events \subseteq DOMAIN events'
    /\ \A i \in DOMAIN events : events'[i] = events[i]
    /\ \A i \in EventIds : labels[i] /= None => labels'[i] /= None

Appends(c) ==
    /\ pc[c] = "record" /\ pc'[c] \in Ended \cup {"streak"}
    /\ events' = Append(events, [day |-> today, type |-> my[c].type])
    /\ schema' = "full" /\ labels' = labels

Marks ==
    /\ schema = "full" /\ UNCHANGED <<schema, events>>
    /\ \E i \in EventIds \cap Candidates : \E l \in Labels : labels' = [labels EXCEPT ![i] = l]

Advances(c) ==
    /\ \/ UNCHANGED database
       \/ UNCHANGED <<events, labels>> /\ schema' = "full"
       \/ Appends(c)
       \/ Marks
    /\ today' = today /\ (UNCHANGED failures \/ Failure)
    /\ pc' = [pc EXCEPT ![c] = pc'[c]]
    /\ pc[c] \in Ended \cup {"streak"} => pc'[c] \in Ended
    /\ \A d \in Calls \ {c} : my'[d] = my[d]

LEMMA EventsKept ==
    ASSUME TelemetryType, NEW e, e \in Event, events' = Append(events, e)
    PROVE  /\ events' \in Seq(Event) /\ Len(events') = Len(events) + 1
           /\ DOMAIN events \subseteq DOMAIN events'
           /\ \A i \in DOMAIN events : events'[i] = events[i]
BY DEF TelemetryType

LEMMA DatabaseGrows ==
    ASSUME HintInv, HintInv', ReportInv, NEW c \in Calls, Advances(c)
    PROVE  TelemetryType' /\ Growth' /\ Grown
<1>1. TelemetryType /\ Growth /\ my[c].type \in Types /\ today \in 1..MaxDays
  BY DEF ReportInv, CallType, TelemetryType
<1>2. streak' \in Nat /\ earned' \in Nat
  BY DEF HintInv
<1>3. failures' \in 0..MaxFailures
  BY <1>1, TelemetryAssumption DEF TelemetryAssumption, Advances, Failure, TelemetryType
<1>4. Grown /\ events' \in Seq(Event) /\ Candidates \subseteq Candidates'
  <2>1. CASE events' = events
    <3>1. Grown
      BY <1>1, <2>1, TelemetryAssumption
      DEF TelemetryAssumption, Grown, Advances, Marks, Appends, database, TelemetryType
    <3> QED
      BY <1>1, <2>1, <3>1 DEF TelemetryType, Candidates
  <2>2. CASE Appends(c)
    <3>1. [day |-> today, type |-> my[c].type] \in Event
      BY <1>1 DEF Event
    <3>2. /\ events' \in Seq(Event)
          /\ DOMAIN events \subseteq DOMAIN events'
          /\ \A i \in DOMAIN events : events'[i] = events[i]
      BY <1>1, <2>2, <3>1, EventsKept DEF Appends
    <3> QED
      BY <2>2, <3>2 DEF Grown, Appends, Candidates
  <2> QED
    BY <2>1, <2>2 DEF Advances, Marks, database
<1>5. labels' \in [EventIds -> Labels \cup {None}]
  BY <1>1 DEF Advances, Marks, Appends, database, TelemetryType
<1>6. \A i \in EventIds : labels'[i] /= None => schema' = "full" /\ i \in Candidates'
  BY <1>1, <1>4 DEF Advances, Marks, Appends, database, TelemetryType
<1>7. schema' \in {"absent", "old", "full"} /\ (schema' = "absent" => events' = <<>>)
  BY <1>1 DEF Advances, Marks, Appends, database, TelemetryType
<1>8. TelemetryType'
  BY <1>1, <1>2, <1>3, <1>4, <1>5, <1>6, <1>7 DEF TelemetryType, Advances
<1>9. Growth'
  <2> DEFINE Past_ == {d \in Calls : pc[d] \in Ended \cup {"streak"}}
             Next_ == {d \in Calls : pc'[d] \in Ended \cup {"streak"}}
  <2>1. IsFiniteSet(Past_) /\ IsFiniteSet(Next_) /\ Cardinality(Past_) \in Nat /\ Cardinality(Next_) \in Nat
    <3>1. Past_ \in SUBSET Calls /\ Next_ \in SUBSET Calls
      OBVIOUS
    <3> QED
      BY <3>1, FS_Subset, FS_CardinalityType, TelemetryAssumption DEF TelemetryAssumption
  <2>2. \A d \in Calls : pc'[d] = pc[d] \/ d = c
    BY DEF Advances, HintInv
  <2>3. Past_ \subseteq Next_
    BY <2>2 DEF Advances
  <2>4. Len(events) \in Nat /\ MaxPast \in Nat
    BY <1>1, EventFacts, TelemetryAssumption DEF TelemetryAssumption
  <2>5. CASE Appends(c)
    <3>1. Next_ = Past_ \cup {c} /\ c \notin Past_
      BY <2>2, <2>3, <2>5 DEF Appends, Ended
    <3>2. Cardinality(Next_) = Cardinality(Past_) + 1
      <4> HIDE DEF Past_, Next_
      <4> QED
        BY <2>1, <3>1, FS_AddElement
    <3>3. Len(events') = Len(events) + 1
      BY <1>1, <2>5, EventsKept DEF Appends, Event
    <3> QED
      BY <1>1, <2>1, <2>4, <3>2, <3>3 DEF Growth
  <2>6. CASE events' = events
    <3>1. Cardinality(Past_) <= Cardinality(Next_)
      BY <2>1, <2>3, FS_Subset
    <3> QED
      BY <1>1, <2>1, <2>4, <2>6, <3>1 DEF Growth
  <2> QED
    BY <2>5, <2>6 DEF Advances, Marks, database
<1> QED
  BY <1>4, <1>8, <1>9

\* Events have an identity.
LEMMA EventsKnown ==
    ASSUME TelemetryType, Growth
    PROVE  DOMAIN events \subseteq EventIds
<1>1. {c \in Calls : pc[c] \in Ended \cup {"streak"}} \in SUBSET Calls
  OBVIOUS
<1>2. /\ IsFiniteSet(Calls) /\ MaxPast \in Nat /\ Len(events) \in Nat
      /\ DOMAIN events = 1..Len(events)
  BY EventFacts, TelemetryAssumption DEF TelemetryAssumption
<1>3. /\ Cardinality(Calls) \in Nat
      /\ Cardinality({c \in Calls : pc[c] \in Ended \cup {"streak"}}) \in Nat
      /\ Cardinality({c \in Calls : pc[c] \in Ended \cup {"streak"}}) <= Cardinality(Calls)
  BY <1>1, <1>2, FS_Subset, FS_CardinalityType
<1> QED
  BY <1>2, <1>3 DEF Growth, EventIds

\* A report stays one while the database grows.
LEMMA ReportKept ==
    ASSUME TelemetryType, TelemetryType', Grown, NEW r
    PROVE  /\ ReportType(r) => ReportType(r)'
           /\ Begun(r) => Begun(r)'
           /\ Begun(r) /\ Dated(r) => Dated(r)'
           /\ Begun(r) /\ ReportType(r) /\ Found(r) => Found(r)'
           /\ Begun(r) /\ Sampled(r) => Sampled(r)'
<1>1. Candidates \subseteq Candidates'
  BY DEF Candidates, Grown
<1>2. ReportType(r) => ReportType(r)'
  BY <1>1 DEF ReportType
<1>3. Begun(r) => Begun(r)'
  BY DEF Begun, Grown
<1>4. ASSUME Begun(r)
      PROVE  /\ CandidatesIn(r.end) \subseteq CandidatesIn(r.end)'
             /\ (CandidatesIn(r.end) \cap r.seen)' = CandidatesIn(r.end) \cap r.seen
             /\ Cardinality(CandidatesIn(r.end)) \in Nat /\ Cardinality(CandidatesIn(r.end))' \in Nat
             /\ Cardinality(CandidatesIn(r.end)) <= Cardinality(CandidatesIn(r.end))'
  <2>1. r.end \in 1..MaxDays /\ r.seen \subseteq DOMAIN events
    BY <1>4 DEF Begun
  <2>2. /\ CandidatesIn(r.end) \subseteq CandidatesIn(r.end)'
        /\ (CandidatesIn(r.end) \cap r.seen)' = CandidatesIn(r.end) \cap r.seen
    BY <2>1 DEF CandidatesIn, Candidates, InWindow, Grown
  <2>3. IsFiniteSet(CandidatesIn(r.end))'
    <3>1. CandidatesIn(r.end)' \in SUBSET DOMAIN events'
      BY DEF CandidatesIn, Candidates
    <3>2. IsFiniteSet(DOMAIN events')
      <4>1. events' \in Seq(Event)
        BY DEF TelemetryType
      <4>2. DOMAIN events' = 1..Len(events') /\ Len(events') \in Nat
        BY <4>1
      <4> QED
        BY <4>2, FS_Interval
    <3> QED
      BY <3>1, <3>2, FS_Subset
  <2> QED
    BY <2>1, <2>2, <2>3, CandidateFacts, FS_Subset, FS_CardinalityType
<1>5. Begun(r) /\ Dated(r) => Dated(r)'
  BY <1>4 DEF Dated
<1>6. Begun(r) /\ ReportType(r) /\ Found(r) => Found(r)'
  BY <1>4 DEF Found, ReportType, Tally
<1>7. Begun(r) /\ Sampled(r) => Sampled(r)'
  BY <1>4 DEF Sampled
<1> QED
  BY <1>2, <1>3, <1>5, <1>6, <1>7

\* Other calls only see the database grow.
LEMMA OthersKept ==
    ASSUME HintInv, ReportInv, TelemetryType', Grown, NEW d \in Calls, pc'[d] = pc[d], my'[d] = my[d]
    PROVE  CallType(d)' /\ Bracketed(d)'
<1>1. PICK r : r = my[d] /\ r = my'[d]
  OBVIOUS
<1>2. CallType(d) /\ Bracketed(d) /\ TelemetryType
  BY DEF ReportInv
<1>3. ReportType(r)'
  BY <1>1, <1>2, ReportKept DEF CallType
<1>4. Candidates \subseteq Candidates'
  BY DEF Candidates, Grown
<1>5. CallType(d)'
  BY <1>1, <1>2, <1>3, <1>4 DEF CallType, Grown
<1>6. Bracketed(d)'
  BY <1>1, <1>2, ReportKept DEF Bracketed, Reporting, CallType
<1> QED
  BY <1>5, <1>6
-----------------------------------------------------------------------------
(* The steps of a call.                                                    *)

LEMMA FieldNames ==
    Fields = {"op", "type", "prev", "noisy", "event", "end", "days", "sample", "trend", "summary",
              "warned", "seen", "marked"}
BY DEF Fields, Blank

LEMMA Moved ==
    ASSUME HintInv, NEW c \in Calls, NEW to, Goes(c, to)
    PROVE  pc'[c] = to /\ pc' = [pc EXCEPT ![c] = pc'[c]]
BY DEF HintInv, Goes

LEMMA Noted ==
    ASSUME HintInv, NEW c \in Calls, NEW field \in Fields, NEW value, Notes(c, field, value)
    PROVE  /\ my'[c][field] = value
           /\ \A g \in Fields \ {field} : my'[c][g] = my[c][g]
           /\ \A d \in Calls \ {c} : my'[d] = my[d]
BY DEF HintInv, LocalsShape, Notes

\* What a report is made of stays as it is.
KeepsReport(c) ==
    /\ my'[c].days = my[c].days /\ my'[c].end = my[c].end /\ my'[c].sample = my[c].sample
    /\ my'[c].trend = my[c].trend /\ my'[c].summary = my[c].summary

LEMMA StaysTyped ==
    ASSUME TelemetryType, TelemetryType', Grown, NEW c \in Calls, KeepsReport(c), ReportType(my[c])
    PROVE  ReportType(my[c])'
<1>1. PICK r : r = my'[c]
  OBVIOUS
<1>2. ReportType(r)
  BY <1>1 DEF KeepsReport, ReportType
<1>3. ReportType(r)'
  BY <1>2, ReportKept
<1> QED
  BY <1>1, <1>3

LEMMA BlankTyped ==
    /\ Blank.days = <<>> /\ Blank.type \in Types /\ ReportType(Blank)
<1>1. NoLabels \in [Labels -> Nat]
  BY DEF NoLabels
<1>2. NoTally \in Tally
  BY <1>1 DEF NoTally, Tally
<1>3. DOMAIN Blank.days = {} /\ DOMAIN Blank.sample = {}
  BY DEF Blank, NoSample
<1> QED
  BY <1>2, <1>3 DEF Blank, ReportType, Types

\* A call that ended is blank.
LEMMA EndsTyped ==
    ASSUME HintInv, TelemetryType, TelemetryType', Grown, NEW c \in Calls, Ends(c)
    PROVE  CallType(c)' /\ Bracketed(c)'
<1>1. pc'[c] = "ended" /\ my'[c] = Blank
  BY DEF Ends, Goes, HintInv, LocalsShape
<1>2. PICK r : r = Blank /\ r = my'[c]
  BY <1>1
<1>3. ReportType(r)'
  BY <1>2, BlankTyped, ReportKept
<1> QED
  BY <1>1, <1>2, <1>3, BlankTyped DEF CallType, Bracketed, Reporting

LEMMA EndsAdvance ==
    ASSUME HintInv, NEW c \in Calls, Ends(c)
    PROVE  /\ pc' = [pc EXCEPT ![c] = pc'[c]] /\ pc'[c] \in Ended
           /\ \A d \in Calls \ {c} : my'[d] = my[d]
BY DEF Ends, Goes, HintInv, LocalsShape, Ended

\* A call starts.
LEMMA Started ==
    ASSUME HintInv, NEW c \in Calls, NEW op, NEW to, Starts(c, op, to)
    PROVE  /\ pc' = [pc EXCEPT ![c] = pc'[c]] /\ pc'[c] = to /\ my'[c].op = op
           /\ my'[c].type = my[c].type /\ KeepsReport(c)
           /\ \A d \in Calls \ {c} : my'[d] = my[d]
           /\ pc[c] = "idle" /\ UNCHANGED <<database, today, failures>>
<1>1. pc' = [pc EXCEPT ![c] = pc'[c]] /\ pc'[c] = to /\ pc[c] = "idle"
      /\ UNCHANGED <<database, today, failures>>
  BY Moved DEF Starts
<1>2. \A d \in Calls \ {c} : my'[d] = my[d]
  BY DEF Starts, HintInv, LocalsShape
<1>3. my'[c].op = op /\ \A g \in Fields \ {"op", "prev"} : my'[c][g] = my[c][g]
  BY FieldNames DEF Starts, HintInv, LocalsShape
<1> QED
  BY <1>1, <1>2, <1>3, FieldNames DEF KeepsReport

LEMMA StartAdvances ==
    ASSUME HintInv, NEW c \in Calls,
           \/ StartTool(c) \/ StartQuery(c) \/ StartLabel(c) \/ StartStatus(c) \/ StartQueue(c)
    PROVE  Advances(c)
<1>1. \A op : Refuses(c, op) => Advances(c)
  BY EndsAdvance DEF Refuses, Advances, Ended
<1>2. \A op : \A to : Starts(c, op, to) => Advances(c)
  BY Started DEF Advances, Ended
<1> QED
  BY <1>1, <1>2 DEF StartTool, StartQuery, StartLabel, StartStatus, StartQueue

LEMMA StartTyped ==
    ASSUME HintInv, ReportInv, TelemetryType', Grown, NEW c \in Calls,
           \/ StartTool(c) \/ StartQuery(c) \/ StartLabel(c) \/ StartStatus(c) \/ StartQueue(c)
    PROVE  CallType(c)' /\ Bracketed(c)'
<1>1. TelemetryType /\ CallType(c)
  BY DEF ReportInv
<1>2. \A op : Refuses(c, op) => CallType(c)' /\ Bracketed(c)'
  BY <1>1, EndsTyped DEF Refuses
<1>3. ASSUME NEW op, NEW to \in {"work", "find", "totals", "open"}, Starts(c, op, to),
             to = "work" => op \in {"query", "write", "compact", "briefing"}
      PROVE  CallType(c)' /\ Bracketed(c)'
  <2>1. /\ pc'[c] = to /\ my'[c].op = op /\ my'[c].type = my[c].type /\ KeepsReport(c)
        /\ pc[c] = "idle"
    BY <1>3, Started
  <2>2. ReportType(my[c])'
    BY <1>1, <2>1, StaysTyped DEF CallType
  <2> QED
    BY <1>1, <1>3, <2>1, <2>2 DEF CallType, Bracketed, Reporting, KeepsReport
<1> QED
  BY <1>2, <1>3 DEF StartTool, StartQuery, StartLabel, StartStatus, StartQueue

\* The steps of a tool, a query and a label.
LEMMA ToolAdvances ==
    ASSUME HintInv, ReportInv, NEW c \in Calls, Work(c) \/ Record(c) \/ QueryStep(c) \/ LabelStep(c)
    PROVE  Advances(c)
<1>1. pc[c] \notin Ended
  BY DEF Work, Record, QueryStep, Search, NoRuntime, AnswerQuery, LabelStep, FindEvent, StoreLabel,
     LabelFails, Ended
<1>2. \A d \in Calls \ {c} : my'[d] = my[d]
  <2>1. CASE Work(c) \/ FindEvent(c)
    BY <2>1, EndsAdvance, Noted, FieldNames DEF Work, FindEvent
  <2>2. CASE Record(c) \/ NoRuntime(c) \/ AnswerQuery(c) \/ StoreLabel(c) \/ LabelFails(c)
    BY <2>2, EndsAdvance DEF Record, NoRuntime, AnswerQuery, StoreLabel, LabelFails
  <2>3. CASE Search(c)
    BY <2>3 DEF Search, HintInv, LocalsShape
  <2> QED
    BY <2>1, <2>2, <2>3 DEF QueryStep, LabelStep
<1>3. \E to : Goes(c, to)
  BY DEF Work, Record, QueryStep, Search, NoRuntime, AnswerQuery, LabelStep, FindEvent, StoreLabel,
     LabelFails, Ends
<1>4. pc' = [pc EXCEPT ![c] = pc'[c]]
  BY <1>3, Moved
<1>5. pc[c] = "streak" => pc'[c] \in Ended
  BY EndsAdvance DEF Work, Record, QueryStep, Search, NoRuntime, AnswerQuery, LabelStep, FindEvent,
     StoreLabel, LabelFails
<1>6. today' = today /\ (UNCHANGED failures \/ Failure)
  BY DEF Work, Record, QueryStep, Search, NoRuntime, AnswerQuery, LabelStep, FindEvent, StoreLabel,
     LabelFails
<1>7. CASE Record(c)
  <2>1. pc'[c] \in Ended \cup {"streak"}
    BY <1>7, EndsAdvance, Moved DEF Record
  <2> QED
    BY <1>1, <1>2, <1>4, <1>5, <1>6, <1>7, <2>1 DEF Record, Advances, Appends, database
<1>8. CASE StoreLabel(c)
  <2>1. schema = "full" /\ my[c].event \in EventIds \cap Candidates
    BY <1>8 DEF StoreLabel, ReportInv, CallType
  <2>2. PICK i \in EventIds \cap Candidates : i = my[c].event
    BY <2>1
  <2>3. Marks
    BY <1>8, <2>1, <2>2 DEF StoreLabel, Marks
  <2> QED
    BY <1>1, <1>2, <1>4, <1>5, <1>6, <2>3 DEF Advances
<1>9. CASE Work(c) \/ QueryStep(c) \/ FindEvent(c) \/ LabelFails(c)
  BY <1>1, <1>2, <1>4, <1>5, <1>6, <1>9 DEF Work, QueryStep, Search, NoRuntime, AnswerQuery, FindEvent,
     LabelFails, Advances, database
<1> QED
  BY <1>7, <1>8, <1>9 DEF LabelStep

LEMMA ToolTyped ==
    ASSUME HintInv, ReportInv, TelemetryType', Grown, NEW c \in Calls,
           Work(c) \/ Record(c) \/ QueryStep(c) \/ LabelStep(c)
    PROVE  CallType(c)' /\ Bracketed(c)'
<1>1. TelemetryType /\ CallType(c)
  BY DEF ReportInv
<1>2. Ends(c) => CallType(c)' /\ Bracketed(c)'
  BY <1>1, EndsTyped
<1>3. ASSUME KeepsReport(c), my'[c].type \in Types, pc'[c] \in {"record", "streak", "upsert"},
             pc'[c] = "upsert" => schema' = "full" /\ my'[c].event \in EventIds \cap Candidates'
      PROVE  CallType(c)' /\ Bracketed(c)'
  <2>1. ReportType(my[c])'
    BY <1>1, <1>3, StaysTyped DEF CallType
  <2> QED
    BY <1>3, <2>1 DEF CallType, Bracketed, Reporting
<1>4. CASE Work(c)
  <2>1. ASSUME NEW t \in Outcomes(my[c].op), Notes(c, "type", t), Goes(c, "record")
        PROVE  CallType(c)' /\ Bracketed(c)'
    <3>1. t \in Types
      BY <1>1, <1>4, <2>1 DEF Work, CallType, Outcomes, Types
    <3>2. my'[c]["type"] = t /\ KeepsReport(c)
      BY <2>1, Noted, FieldNames DEF KeepsReport
    <3> QED
      BY <1>3, <2>1, <3>1, <3>2, Moved
  <2> QED
    BY <1>2, <1>4, <2>1 DEF Work
<1>5. CASE Record(c)
  <2>1. CASE Goes(c, "streak") /\ UNCHANGED my
    BY <1>1, <1>3, <2>1, Moved DEF KeepsReport, CallType
  <2> QED
    BY <1>2, <1>5, <2>1 DEF Record
<1>6. CASE QueryStep(c)
  <2>1. CASE Search(c)
    <3>1. my'[c].type = "query" /\ KeepsReport(c)
      BY <2>1, FieldNames DEF Search, HintInv, LocalsShape, KeepsReport
    <3> QED
      BY <1>3, <2>1, <3>1, Moved DEF Search, Types
  <2> QED
    BY <1>2, <1>6, <2>1 DEF QueryStep, NoRuntime, AnswerQuery
<1>7. CASE LabelStep(c)
  <2>1. ASSUME FindEvent(c), NEW i \in EventIds, i \in Candidates, Notes(c, "event", i), Goes(c, "upsert")
        PROVE  CallType(c)' /\ Bracketed(c)'
    <3>1. my'[c]["event"] = i /\ KeepsReport(c) /\ my'[c].type = my[c].type
      BY <2>1, Noted, FieldNames DEF KeepsReport
    <3>2. schema' = "full" /\ Candidates' = Candidates
      BY <2>1 DEF FindEvent, Candidates
    <3> QED
      BY <1>1, <1>3, <2>1, <3>1, <3>2, Moved DEF CallType
  <2> QED
    BY <1>2, <1>7, <2>1 DEF LabelStep, FindEvent, StoreLabel, LabelFails
<1> QED
  BY <1>4, <1>5, <1>6, <1>7
-----------------------------------------------------------------------------
(* The steps of a report.                                                  *)

LEMMA ReportLeavesDatabase ==
    ASSUME NEW c \in Calls, ReportStep(c)
    PROVE  /\ UNCHANGED <<database, today>> /\ (UNCHANGED failures \/ Failure)
           /\ pc[c] \notin Ended \cup {"streak"}
BY DEF ReportStep, Totals, AllLabels, Open, ReadDays, CountCandidates, ReadSample,
   ReadSampleLabels, CountLabels, Counted, ReportFails, NoEvents, NoLabelRows, Ended

\* A report writes records of the same fields.
LEMMA SummaryWritten ==
    ASSUME HintInv, NEW c \in Calls, NEW v, my' = [my EXCEPT ![c].summary.found = v]
    PROVE  /\ my'[c].summary = [my[c].summary EXCEPT !.found = v]
           /\ \A g \in Fields \ {"summary"} : my'[c][g] = my[c][g]
           /\ \A d \in Calls \ {c} : my'[d] = my[d]
BY FieldNames DEF HintInv, LocalsShape

LEMMA FoundWritten ==
    ASSUME HintInv, NEW c \in Calls, NEW v, my' = [my EXCEPT ![c].trend.found = v]
    PROVE  /\ my'[c].trend = [my[c].trend EXCEPT !.found = v]
           /\ \A g \in Fields \ {"trend"} : my'[c][g] = my[c][g]
           /\ \A d \in Calls \ {c} : my'[d] = my[d]
BY FieldNames DEF HintInv, LocalsShape

LEMMA BeginningWritten ==
    ASSUME HintInv, NEW c \in Calls, Open(c)
    PROVE  /\ my'[c].end = today /\ my'[c].seen = DOMAIN events
           /\ my'[c].marked = {i \in EventIds : labels[i] /= None}
           /\ \A g \in Fields \ {"end", "seen", "marked"} : my'[c][g] = my[c][g]
           /\ \A d \in Calls \ {c} : my'[d] = my[d]
<1>1. PICK u, v, w :
           /\ u = today /\ v = DOMAIN events /\ w = {i \in EventIds : labels[i] /= None}
           /\ my' = [my EXCEPT ![c].end = u, ![c].seen = v, ![c].marked = w]
  BY DEF Open
<1>2. /\ my'[c].end = u /\ my'[c].seen = v /\ my'[c].marked = w
      /\ \A g \in Fields \ {"end", "seen", "marked"} : my'[c][g] = my[c][g]
      /\ \A d \in Calls \ {c} : my'[d] = my[d]
  <2>1. my' = [my EXCEPT ![c].end = u, ![c].seen = v, ![c].marked = w]
    BY <1>1
  <2> QED
    BY <2>1, FieldNames DEF HintInv, LocalsShape
<1> QED
  BY <1>1, <1>2

LEMMA WarningWritten ==
    ASSUME HintInv, NEW c \in Calls, NEW v,
           my' = [my EXCEPT ![c].warned = TRUE, ![c].trend.pending = v]
    PROVE  /\ my'[c].warned = TRUE
           /\ my'[c].trend = [my[c].trend EXCEPT !.pending = v]
           /\ \A g \in Fields \ {"trend", "warned"} : my'[c][g] = my[c][g]
           /\ \A d \in Calls \ {c} : my'[d] = my[d]
<1> DEFINE l == [my[c] EXCEPT !.warned = TRUE]
           m == [l EXCEPT !.trend.pending = v]
<1>1. l = [f \in Fields |-> l[f]] /\ l.warned = TRUE
      /\ \A g \in Fields \ {"warned"} : l[g] = my[c][g]
  BY FieldNames DEF HintInv, LocalsShape
<1>2. l.trend = my[c].trend
  BY <1>1, FieldNames
<1>3. m.warned = TRUE /\ m.trend = [my[c].trend EXCEPT !.pending = v]
      /\ \A g \in Fields \ {"trend", "warned"} : m[g] = my[c][g]
  <2> HIDE DEF l
  <2> QED
    BY <1>1, <1>2, FieldNames
<1>4. my' = [my EXCEPT ![c] = m]
  BY DEF HintInv, LocalsShape
<1> HIDE DEF l, m
<1> QED
  BY <1>3, <1>4 DEF HintInv, LocalsShape

LEMMA ReportAdvances ==
    ASSUME HintInv, NEW c \in Calls, ReportStep(c)
    PROVE  Advances(c)
<1>1. \A d \in Calls \ {c} : my'[d] = my[d]
  <2>1. CASE Totals(c)
    BY <2>1, SummaryWritten DEF Totals
  <2>2. CASE CountCandidates(c)
    BY <2>2, FoundWritten DEF CountCandidates
  <2>3. CASE Open(c)
    BY <2>3, BeginningWritten
  <2>4. ASSUME NEW field \in Fields, NEW value, Notes(c, field, value)
        PROVE  \A d \in Calls \ {c} : my'[d] = my[d]
    BY <2>4, Noted
  <2>5. {"days", "sample", "summary", "trend", "warned"} \subseteq Fields
    BY FieldNames
  <2>6. CASE CountLabels(c)
    <3>1. CASE \E v : my' = [my EXCEPT ![c].warned = TRUE, ![c].trend.pending = v]
      BY <3>1, WarningWritten
    <3>2. CASE \E v : Notes(c, "trend", v)
      BY <2>4, <2>5, <3>2
    <3> QED
      BY <2>6, <3>1, <3>2 DEF CountLabels, Counted
  <2>7. CASE AllLabels(c) \/ ReadSample(c) \/ ReadSampleLabels(c)
    <3>1. \E field \in {"summary", "sample", "warned"} : \E v : Notes(c, field, v)
      BY <2>7 DEF AllLabels, ReadSample, ReadSampleLabels
    <3> QED
      BY <2>4, <2>5, <3>1
  <2>8. CASE ReadDays(c) \/ ReportFails(c)
    BY <2>4, <2>5, <2>8, EndsAdvance DEF ReadDays, ReportFails
  <2> QED
    BY <2>1, <2>2, <2>3, <2>6, <2>7, <2>8 DEF ReportStep
<1>2. \E to : Goes(c, to)
  BY DEF ReportStep, Totals, AllLabels, Open, ReadDays, CountCandidates, ReadSample,
     ReadSampleLabels, CountLabels, Counted, ReportFails, Ends
<1> QED
  BY <1>1, <1>2, Moved, ReportLeavesDatabase DEF Advances

\* What holds of a report when it writes holds of it after the step.
LEMMA ReportGoesOn ==
    ASSUME TelemetryType, TelemetryType', Grown, NEW c \in Calls, NEW r, r = my'[c],
           pc'[c] \in {"all-labels", "open", "reported"} \cup Reporting,
           r.type \in Types, ReportType(r),
           pc'[c] \in {"all-labels", "open"} => r.days = <<>>,
           pc'[c] \in Reporting => Begun(r),
           pc'[c] \in Reporting \ {"days"} => Dated(r),
           pc'[c] \in {"sample", "sample-labels", "counts"} => Found(r),
           pc'[c] \in {"sample-labels", "counts"} => Sampled(r)
    PROVE  CallType(c)' /\ Bracketed(c)'
<1>1. ReportType(r)'
  BY ReportKept
<1>2. CallType(c)'
  BY <1>1 DEF CallType, Reporting
<1>3. pc'[c] \in Reporting => Begun(r)'
  BY ReportKept
<1>4. pc'[c] \in Reporting \ {"days"} => Dated(r)'
  BY ReportKept
<1>5. pc'[c] \in {"sample", "sample-labels", "counts"} => Found(r)'
  BY ReportKept DEF Reporting
<1>6. pc'[c] \in {"sample-labels", "counts"} => Sampled(r)'
  BY ReportKept DEF Reporting
<1> QED
  BY <1>2, <1>3, <1>4, <1>5, <1>6 DEF Bracketed

\* What is the same of a report that keeps the fields it is about.
LEMMA SameFields ==
    ASSUME NEW q, NEW r
    PROVE  /\ /\ r.trend = q.trend /\ r.summary = q.summary /\ r.days = q.days
              /\ r.end = q.end /\ r.sample = q.sample /\ ReportType(q)
              => ReportType(r)
           /\ r.end = q.end /\ r.seen = q.seen /\ r.marked = q.marked /\ Begun(q) => Begun(r)
           /\ r.end = q.end /\ r.seen = q.seen /\ r.days = q.days /\ Dated(q) => Dated(r)
           /\ r.end = q.end /\ r.days = q.days /\ r.trend = q.trend /\ Found(q) => Found(r)
           /\ r.end = q.end /\ r.sample = q.sample /\ Sampled(q) => Sampled(r)
BY DEF ReportType, Begun, Dated, Found, Sampled
-----------------------------------------------------------------------------
(* What each statement adds to a report.                                   *)

\* The summary of a status: what it found and pending are numbers.
LEMMA SummaryTyped ==
    ASSUME HintInv, ReportInv, TelemetryType', Grown, NEW c \in Calls, Totals(c) \/ AllLabels(c)
    PROVE  CallType(c)' /\ Bracketed(c)'
<1>1. PICK q, r : q = my[c] /\ r = my'[c]
  OBVIOUS
<1>2. /\ TelemetryType /\ ReportType(q) /\ q.type \in Types /\ q.days = <<>>
      /\ q.summary \in Tally /\ q.trend \in Tally
  BY <1>1 DEF ReportInv, CallType, Totals, AllLabels, ReportType
<1>3. IsFiniteSet(Candidates) /\ Cardinality(Candidates) \in Nat
  <2>1. Candidates \in SUBSET DOMAIN events
    BY DEF Candidates
  <2> QED
    BY <1>2, <2>1, EventFacts, FS_Subset, FS_CardinalityType
<1>4. /\ \A g \in Fields \ {"summary"} : r[g] = q[g]
      /\ r.summary \in Tally
  <2>1. CASE UNCHANGED my
    BY <1>1, <1>2, <2>1
  <2>2. CASE my' = [my EXCEPT ![c].summary.found = Cardinality(Candidates)]
    <3>1. /\ my'[c].summary = [my[c].summary EXCEPT !.found = Cardinality(Candidates)]
          /\ \A g \in Fields \ {"summary"} : my'[c][g] = my[c][g]
      BY <2>2, SummaryWritten
    <3> QED
      BY <1>1, <1>2, <1>3, <3>1 DEF Tally
  <2>3. CASE AllLabels(c)
    <3>1. PICK count \in {CountByLabel(Candidates), NoLabels} :
            Notes(c, "summary", [found |-> q.summary.found, labelled |-> count,
                                 pending |-> Pending(q.summary.found, count)])
      BY <1>1, <2>3 DEF AllLabels
    <3>2. count \in [Labels -> Nat] /\ Total(count) \in Nat
      <4>1. /\ CountByLabel(Candidates) \in [Labels -> Nat]
            /\ Total(CountByLabel(Candidates)) \in Nat
        BY <1>3, LabelsAddUp
      <4>2. NoLabels \in [Labels -> Nat] /\ Total(NoLabels) \in Nat
        BY NothingAddsUp DEF NoLabels
      <4> QED
        BY <3>1, <4>1, <4>2
    <3>3. q.summary.found \in Nat
      BY <1>2 DEF Tally
    <3>4. Pending(q.summary.found, count) \in Nat
      BY <3>2, <3>3, PendingFacts
    <3>5. "summary" \in Fields
      BY FieldNames
    <3>6. r.summary = [found |-> q.summary.found, labelled |-> count,
                       pending |-> Pending(q.summary.found, count)]
          /\ \A g \in Fields \ {"summary"} : r[g] = q[g]
      BY <1>1, <3>1, <3>5, Noted
    <3> QED
      BY <3>2, <3>3, <3>4, <3>6 DEF Tally
  <2> QED
    BY <2>1, <2>2, <2>3 DEF Totals
<1>5. /\ r.days = q.days /\ r.end = q.end /\ r.sample = q.sample
      /\ r.trend = q.trend /\ r.type = q.type
  BY <1>4, FieldNames
<1>6. ReportType(r)
  BY <1>2, <1>4, <1>5 DEF ReportType
<1>7. pc'[c] \in {"all-labels", "open"}
  BY Moved DEF Totals, AllLabels
<1> QED
  BY <1>1, <1>2, <1>5, <1>6, <1>7, ReportGoesOn DEF Reporting

\* A trend report begins.
LEMMA OpenTyped ==
    ASSUME HintInv, ReportInv, TelemetryType', Grown, NEW c \in Calls, Open(c)
    PROVE  CallType(c)' /\ Bracketed(c)'
<1>1. PICK q, r : q = my[c] /\ r = my'[c]
  OBVIOUS
<1>2. /\ TelemetryType /\ ReportType(q) /\ q.type \in Types /\ q.days = <<>>
  BY <1>1 DEF ReportInv, CallType, Open
<1>3. /\ r.end = today /\ r.seen = DOMAIN events
      /\ r.marked = {i \in EventIds : labels[i] /= None}
      /\ \A g \in Fields \ {"end", "seen", "marked"} : r[g] = q[g]
  BY <1>1, BeginningWritten
<1>4. /\ r.days = q.days /\ r.sample = q.sample /\ r.trend = q.trend /\ r.summary = q.summary
      /\ r.type = q.type
  BY <1>3, FieldNames
<1>5. ReportType(r)
  BY <1>2, <1>4 DEF ReportType
<1>6. Begun(r)
  BY <1>2, <1>3 DEF Begun, TelemetryType
<1>7. pc'[c] = "days"
  BY Moved DEF Open
<1> QED
  BY <1>1, <1>2, <1>4, <1>5, <1>6, <1>7, ReportGoesOn DEF Reporting

\* Its days are those of the window, and count what was there.
LEMMA DaysTyped ==
    ASSUME HintInv, ReportInv, TelemetryType', Grown, NEW c \in Calls, ReadDays(c)
    PROVE  CallType(c)' /\ Bracketed(c)'
<1>1. PICK q, r : q = my[c] /\ r = my'[c]
  OBVIOUS
<1>2. /\ TelemetryType /\ ReportType(q) /\ q.type \in Types /\ Begun(q) /\ q.end \in 1..MaxDays
  BY <1>1 DEF ReportInv, CallType, Bracketed, Reporting, ReadDays, Begun
<1>3. CASE Ends(c)
  BY <1>2, <1>3, EndsTyped
<1>4. CASE Goes(c, "candidates") /\ Notes(c, "days", DaySeries(q.end))
  <2>1. r.days = DaySeries(q.end) /\ \A g \in Fields \ {"days"} : r[g] = q[g]
    BY <1>1, <1>4, Noted, FieldNames
  <2>2. /\ r.end = q.end /\ r.seen = q.seen /\ r.marked = q.marked /\ r.sample = q.sample
        /\ r.trend = q.trend /\ r.summary = q.summary /\ r.type = q.type
    BY <2>1, FieldNames
  <2>3. /\ DOMAIN r.days = Window(r.end)
        /\ \A d \in Window(r.end) : r.days[d] \in [Types -> Nat]
        /\ Total(RejectsByDay(r.days)) = Cardinality(CandidatesIn(r.end))
    BY <1>2, <2>1, <2>2, DaysAddUp
  <2>4. ReportType(r)
    BY <1>2, <2>2, <2>3 DEF ReportType
  <2>5. Begun(r)
    BY <1>2, <2>2, SameFields
  <2>6. Dated(r)
    <3>1. CandidatesIn(r.end) \cap r.seen \in SUBSET CandidatesIn(r.end)
      OBVIOUS
    <3>2. /\ Cardinality(CandidatesIn(r.end)) \in Nat
          /\ Cardinality(CandidatesIn(r.end) \cap r.seen) <= Cardinality(CandidatesIn(r.end))
      BY <1>2, <2>2, <3>1, CandidateFacts
    <3> QED
      BY <2>3, <3>2 DEF Dated
  <2>7. pc'[c] = "candidates"
    BY <1>4, Moved
  <2> QED
    BY <1>1, <1>2, <2>2, <2>4, <2>5, <2>6, <2>7, ReportGoesOn DEF Reporting
<1> QED
  BY <1>1, <1>3, <1>4 DEF ReadDays

\* Its candidates are counted once more.
LEMMA FoundTyped ==
    ASSUME HintInv, ReportInv, TelemetryType', Grown, NEW c \in Calls, CountCandidates(c)
    PROVE  CallType(c)' /\ Bracketed(c)'
<1>1. PICK q, r : q = my[c] /\ r = my'[c]
  OBVIOUS
<1>2. /\ TelemetryType /\ ReportType(q) /\ q.type \in Types /\ Begun(q) /\ q.end \in 1..MaxDays
      /\ Dated(q) /\ q.trend \in Tally
  BY <1>1 DEF ReportInv, CallType, Bracketed, Reporting, CountCandidates, Begun, ReportType
<1>3. /\ r.trend = [q.trend EXCEPT !.found = Cardinality(CandidatesIn(q.end))]
      /\ \A g \in Fields \ {"trend"} : r[g] = q[g]
  <2>1. /\ my'[c].trend = [my[c].trend EXCEPT !.found = Cardinality(CandidatesIn(my[c].end))]
        /\ \A g \in Fields \ {"trend"} : my'[c][g] = my[c][g]
    BY FoundWritten DEF CountCandidates
  <2> QED
    BY <1>1, <2>1
<1>4. /\ r.end = q.end /\ r.seen = q.seen /\ r.marked = q.marked /\ r.sample = q.sample
      /\ r.days = q.days /\ r.summary = q.summary /\ r.type = q.type
  BY <1>3, FieldNames
<1>5. Cardinality(CandidatesIn(q.end)) \in Nat
  BY <1>2, CandidateFacts
<1>6. r.trend \in Tally /\ r.trend.found = Cardinality(CandidatesIn(q.end))
  BY <1>2, <1>3, <1>5 DEF Tally
<1>7. ReportType(r)
  BY <1>2, <1>4, <1>6 DEF ReportType
<1>8. Begun(r) /\ Dated(r)
  BY <1>2, <1>4, SameFields
<1>9. Found(r)
  BY <1>4, <1>5, <1>6, <1>8 DEF Found, Dated
<1>10. pc'[c] = "sample"
  BY Moved DEF CountCandidates
<1> QED
  BY <1>1, <1>2, <1>4, <1>7, <1>8, <1>9, <1>10, ReportGoesOn DEF Reporting

\* Its sample is of candidates of the window, and so are the labels it gets.
LEMMA SampleTyped ==
    ASSUME HintInv, ReportInv, TelemetryType', Grown, NEW c \in Calls,
           ReadSample(c) \/ ReadSampleLabels(c)
    PROVE  CallType(c)' /\ Bracketed(c)'
<1>1. PICK q, r : q = my[c] /\ r = my'[c]
  OBVIOUS
<1>2. /\ TelemetryType /\ Growth /\ ReportType(q) /\ q.type \in Types
      /\ Begun(q) /\ q.end \in 1..MaxDays /\ Dated(q) /\ Found(q)
      /\ pc[c] = "sample-labels" => Sampled(q)
  BY <1>1 DEF ReportInv, CallType, Bracketed, Reporting, ReadSample, ReadSampleLabels, Begun
<1>3. CandidatesIn(q.end) \subseteq Candidates /\ Candidates \subseteq EventIds
  <2>1. Candidates \subseteq DOMAIN events
    BY DEF Candidates
  <2> QED
    BY <1>2, <2>1, EventsKnown, CandidateFacts
<1> DEFINE Samples == /\ DOMAIN r.sample \subseteq CandidatesIn(q.end)
                      /\ \A i \in DOMAIN r.sample : r.sample[i] \in Labels \cup {None}
           Keeps == /\ r.end = q.end /\ r.seen = q.seen /\ r.marked = q.marked
                    /\ r.days = q.days /\ r.trend = q.trend /\ r.summary = q.summary
                    /\ r.type = q.type
<1>4. ASSUME ReadSample(c) PROVE Samples /\ Keeps
  <2>1. PICK newest : /\ newest = Newest(CandidatesIn(q.end))
                      /\ Notes(c, "sample", [i \in newest |-> None])
    BY <1>1, <1>4 DEF ReadSample
  <2>2. newest \subseteq CandidatesIn(q.end)
    BY <2>1 DEF Newest
  <2>3. r.sample = [i \in newest |-> None] /\ \A g \in Fields \ {"sample"} : r[g] = q[g]
    BY <1>1, <2>1, Noted, FieldNames
  <2> QED
    <3>1. Samples
      BY <2>2, <2>3
    <3>2. Keeps
      BY <2>3, FieldNames
    <3> QED
      BY <3>1, <3>2
<1>5. ASSUME pc[c] = "sample-labels", Notes(c, "sample", [i \in DOMAIN q.sample |-> labels[i]])
      PROVE  Samples /\ Keeps
  <2>1. r.sample = [i \in DOMAIN q.sample |-> labels[i]] /\ \A g \in Fields \ {"sample"} : r[g] = q[g]
    BY <1>1, <1>5, Noted, FieldNames
  <2>2. DOMAIN q.sample \subseteq CandidatesIn(q.end)
    BY <1>2, <1>5 DEF Sampled
  <2>3. \A i \in EventIds : labels[i] \in Labels \cup {None}
    BY <1>2 DEF TelemetryType
  <2> QED
    BY <1>3, <2>1, <2>2, <2>3, FieldNames
<1>6. ASSUME pc[c] = "sample-labels", Notes(c, "warned", TRUE)
      PROVE  Samples /\ Keeps
  <2>1. \A g \in Fields \ {"warned"} : r[g] = q[g]
    <3>1. \A g \in Fields \ {"warned"} : my'[c][g] = my[c][g]
      BY <1>6, Noted, FieldNames
    <3> QED
      BY <1>1, <3>1
  <2>2. r.sample = q.sample /\ Keeps
    BY <2>1, FieldNames
  <2> QED
    BY <1>2, <1>6, <2>2 DEF Sampled, ReportType
<1>7. Samples /\ Keeps
  BY <1>1, <1>4, <1>5, <1>6 DEF ReadSampleLabels
<1>8. ReportType(r)
  BY <1>2, <1>3, <1>7 DEF ReportType
<1>9. Begun(r) /\ Dated(r) /\ Found(r)
  BY <1>2, <1>7, SameFields
<1>10. Sampled(r)
  BY <1>7 DEF Sampled
<1>11. pc'[c] \in {"sample-labels", "counts"}
  BY Moved DEF ReadSample, ReadSampleLabels
<1> QED
  BY <1>1, <1>2, <1>7, <1>8, <1>9, <1>10, <1>11, ReportGoesOn DEF Reporting

\* The counts of labels are the last thing it reads.
LEMMA CountsTyped ==
    ASSUME HintInv, ReportInv, TelemetryType', Grown, NEW c \in Calls, CountLabels(c)
    PROVE  CallType(c)' /\ Bracketed(c)'
<1>1. PICK q, r : q = my[c] /\ r = my'[c]
  OBVIOUS
<1>2. /\ TelemetryType /\ ReportType(q) /\ q.type \in Types /\ q.trend \in Tally
      /\ Begun(q) /\ q.end \in 1..MaxDays
  BY <1>1
  DEF ReportInv, CallType, Bracketed, Reporting, CountLabels, Counted, ReportType, Begun
<1>3. IsFiniteSet(CandidatesIn(q.end)) /\ q.trend.found \in Nat
  BY <1>2, CandidateFacts DEF Tally
<1>4. ASSUME NEW count, count \in [Labels -> Nat], Total(count) \in Nat,
             Notes(c, "trend", [found |-> q.trend.found, labelled |-> count,
                                pending |-> Pending(q.trend.found, count)])
      PROVE  r.trend \in Tally /\ \A g \in Fields \ {"trend", "warned"} : r[g] = q[g]
  <2>1. Pending(q.trend.found, count) \in Nat
    BY <1>3, <1>4, PendingFacts
  <2>2. r.trend = [found |-> q.trend.found, labelled |-> count,
                   pending |-> Pending(q.trend.found, count)]
        /\ \A g \in Fields \ {"trend"} : r[g] = q[g]
    BY <1>1, <1>4, Noted, FieldNames
  <2> QED
    BY <1>3, <1>4, <2>1, <2>2 DEF Tally
<1>5. ASSUME my' = [my EXCEPT ![c].warned = TRUE,
                              ![c].trend.pending = Pending(q.trend.found, NoLabels)]
      PROVE  r.trend \in Tally /\ \A g \in Fields \ {"trend", "warned"} : r[g] = q[g]
  <2>1. Pending(q.trend.found, NoLabels) \in Nat
    BY <1>3, NothingAddsUp, PendingFacts
  <2>2. r.trend = [q.trend EXCEPT !.pending = Pending(q.trend.found, NoLabels)]
        /\ \A g \in Fields \ {"trend", "warned"} : r[g] = q[g]
    <3>1. /\ my'[c].trend = [my[c].trend EXCEPT !.pending = Pending(q.trend.found, NoLabels)]
          /\ my'[c].warned = TRUE
          /\ \A g \in Fields \ {"trend", "warned"} : my'[c][g] = my[c][g]
      BY <1>5, WarningWritten
    <3> QED
      BY <1>1, <3>1
  <2> QED
    BY <1>2, <2>1, <2>2 DEF Tally
<1>6. /\ CountByLabel(CandidatesIn(q.end)) \in [Labels -> Nat]
      /\ Total(CountByLabel(CandidatesIn(q.end))) \in Nat
  BY <1>3, LabelsAddUp
<1>7. r.trend \in Tally /\ \A g \in Fields \ {"trend", "warned"} : r[g] = q[g]
  BY <1>1, <1>4, <1>5, <1>6 DEF CountLabels, Counted
<1>8. ReportType(r) /\ r.type = q.type
  BY <1>2, <1>7, FieldNames DEF ReportType
<1>9. pc'[c] = "reported"
  BY Moved DEF CountLabels, Counted
<1> QED
  BY <1>1, <1>2, <1>8, <1>9, ReportGoesOn DEF Reporting

LEMMA ReportTyped ==
    ASSUME HintInv, ReportInv, TelemetryType', Grown, NEW c \in Calls, ReportStep(c)
    PROVE  CallType(c)' /\ Bracketed(c)'
<1>1. ReportFails(c) => CallType(c)' /\ Bracketed(c)'
  BY EndsTyped DEF ReportFails, ReportInv
<1> QED
  BY <1>1, SummaryTyped, OpenTyped, DaysTyped, FoundTyped, SampleTyped, CountsTyped DEF ReportStep

-----------------------------------------------------------------------------
(* The theorems.                                                           *)

LEMMA ReportInvInit == Init => ReportInv
<1> SUFFICES ASSUME Init PROVE ReportInv
  OBVIOUS
<1>1. /\ IsFiniteSet(Calls) /\ MaxPast \in Nat /\ MaxDays \in Nat \ {0, 1} /\ MaxFailures \in Nat
      /\ PastTypes \subseteq Types
  BY TelemetryAssumption DEF TelemetryAssumption
<1>2. events \in Seq(Event) /\ Len(events) <= MaxPast
  <2>1. CASE events = <<>>
    BY <1>1, <2>1
  <2>2. ASSUME NEW n \in 1..MaxPast, events \in [1..n -> [day : 1..MaxDays, type : PastTypes]]
        PROVE  events \in Seq(Event) /\ Len(events) <= MaxPast
    <3>1. events \in [1..n -> Event] /\ n \in Nat
      BY <1>1, <2>2 DEF Event
    <3>2. events \in Seq(Event) /\ Len(events) = n
      BY <3>1
    <3> QED
      BY <2>2, <3>2, <1>1
  <2> QED
    BY <2>1, <2>2 DEF Init, Past
<1>3. TelemetryType
  <2>1. today \in 1..MaxDays /\ 0 \in Nat /\ 0 \in 0..MaxFailures
    BY <1>1 DEF Init
  <2> QED
    BY <1>2, <2>1 DEF Init, TelemetryType
<1>4. Growth
  <2>1. {c \in Calls : pc[c] \in Ended \cup {"streak"}} = {}
    BY DEF Init, Ended
  <2> QED
    <3>1. Cardinality({c \in Calls : pc[c] \in Ended \cup {"streak"}}) = 0
      BY <2>1, FS_EmptySet
    <3>2. Len(events) \in Nat
      BY <1>3, EventFacts
    <3> QED
      BY <1>1, <1>2, <3>1, <3>2 DEF Growth
<1>5. ASSUME NEW c \in Calls PROVE CallType(c) /\ Bracketed(c)
  <2>1. pc[c] = "idle" /\ my[c] = Blank
    BY DEF Init
  <2> QED
    BY <2>1, BlankTyped DEF CallType, Bracketed, Reporting
<1> QED
  BY <1>3, <1>4, <1>5 DEF ReportInv

LEMMA ReportInvStep == HintInv /\ HintInv' /\ ReportInv /\ [Next]_vars => ReportInv'
<1> SUFFICES ASSUME HintInv, HintInv', ReportInv, [Next]_vars PROVE ReportInv'
  OBVIOUS
<1>1. CASE Midnight \/ UNCHANGED vars
  <2>1. UNCHANGED <<database, session, pc, my, failures>> /\ today' \in 1..MaxDays
    BY <1>1, TelemetryAssumption
    DEF Midnight, vars, ReportInv, TelemetryType, TelemetryAssumption
  <2>2. TelemetryType' /\ Growth'
    BY <2>1 DEF database, session, ReportInv, TelemetryType, Growth, Candidates
  <2>3. Grown
    BY <2>1 DEF database, Grown
  <2>4. \A d \in Calls : CallType(d)' /\ Bracketed(d)'
    BY <2>1, <2>2, <2>3, OthersKept
  <2> QED
    BY <2>2, <2>4 DEF ReportInv
<1>2. ASSUME NEW c \in Calls,
             \/ StartTool(c) \/ StartQuery(c) \/ StartLabel(c) \/ StartStatus(c)
             \/ StartQueue(c) \/ Work(c) \/ Record(c) \/ QueryStep(c)
             \/ LabelStep(c) \/ ReportStep(c)
      PROVE  ReportInv'
  <2>1. Advances(c)
    BY <1>2, StartAdvances, ToolAdvances, ReportAdvances
  <2>2. TelemetryType' /\ Growth' /\ Grown
    BY <2>1, DatabaseGrows
  <2>3. CallType(c)' /\ Bracketed(c)'
    BY <1>2, <2>2, StartTyped, ToolTyped, ReportTyped
  <2>4. ASSUME NEW d \in Calls \ {c} PROVE CallType(d)' /\ Bracketed(d)'
    <3>1. pc'[d] = pc[d] /\ my'[d] = my[d]
      BY <2>1 DEF Advances, HintInv
    <3> QED
      BY <2>2, <3>1, OthersKept
  <2> QED
    BY <2>2, <2>3, <2>4 DEF ReportInv
<1> QED
  BY <1>1, <1>2 DEF Next

\* What is recorded, labelled and reported has its type: an event is recorded
\* once by a call, a label is of a candidate, and what a report calls pending is
\* a number even when labels were stored after it counted its candidates.
THEOREM TelemetryTypeOK == Spec => []TypeOK
<1>1. HintInv /\ ReportInv => TypeOK
  BY DEF HintInv, ReportInv, CallType, TypeOK
<1> QED
  BY <1>1, HintInit, HintStep, ReportInvInit, ReportInvStep, PTL DEF Spec

\* The last statement of a report, on what the others read.
LEMMA AnswersBracketed ==
    ASSUME HintInv, HintInv', ReportInv, ReportInv', NEW c \in Calls, CountLabels(c)
    PROVE  Answered(c)
<1>1. PICK q, r : q = my[c] /\ r = my'[c]
  OBVIOUS
<1> DEFINE now == CandidatesIn(q.end)
           was == now \cap q.seen
           unlabelled == {i \in now : labels[i] = None}
<1>2. /\ TelemetryType /\ Growth /\ q.trend \in Tally
      /\ Begun(q) /\ Dated(q) /\ Found(q) /\ Sampled(q) /\ q.end \in 1..MaxDays
  BY <1>1
  DEF ReportInv, CallType, Bracketed, Reporting, CountLabels, Counted, ReportType, Begun
<1>3. UNCHANGED <<events, labels>>
  BY DEF CountLabels, Counted, database
<1>4. /\ IsFiniteSet(now) /\ Cardinality(now) \in Nat /\ now \subseteq Candidates
      /\ now = {i \in DOMAIN events : events[i].type \in Rejects /\ events[i].day \in Window(q.end)}
      /\ \A S \in SUBSET now : IsFiniteSet(S) /\ Cardinality(S) \in Nat
      /\ q.trend.found \in Nat
  BY <1>2, CandidateFacts DEF Tally
<1>5. now \subseteq EventIds
  BY <1>2, <1>4, EventsKnown, CandidateFacts
<1>6. ASSUME NEW count, Total(count) \in Nat,
             Notes(c, "trend", [found |-> q.trend.found, labelled |-> count,
                                pending |-> Pending(q.trend.found, count)])
      PROVE  /\ r.trend.found = q.trend.found /\ r.trend.labelled = count
             /\ r.trend.pending = Pending(q.trend.found, count)
             /\ \A g \in Fields \ {"trend", "warned"} : r[g] = q[g]
  BY <1>1, <1>6, Noted, FieldNames
<1>7. ASSUME my' = [my EXCEPT ![c].warned = TRUE,
                              ![c].trend.pending = Pending(q.trend.found, NoLabels)]
      PROVE  /\ r.trend.found = q.trend.found /\ r.warned = TRUE
             /\ \A g \in Fields \ {"trend", "warned"} : r[g] = q[g]
  <2>1. r.trend = [q.trend EXCEPT !.pending = Pending(q.trend.found, NoLabels)]
        /\ r.warned = TRUE
        /\ \A g \in Fields \ {"trend", "warned"} : r[g] = q[g]
    <3>1. /\ my'[c].trend = [my[c].trend EXCEPT !.pending = Pending(q.trend.found, NoLabels)]
          /\ my'[c].warned = TRUE
          /\ \A g \in Fields \ {"trend", "warned"} : my'[c][g] = my[c][g]
      BY <1>7, WarningWritten
    <3> QED
      BY <1>1, <3>1
  <2> QED
    BY <1>2, <2>1 DEF Tally
<1>8. Total(CountByLabel(now)) = Cardinality({i \in now : labels[i] \in Labels})
      /\ Total(CountByLabel(now)) \in Nat
  BY <1>4, LabelsAddUp
<1>9. /\ r.trend.found = q.trend.found
      /\ \A g \in Fields \ {"trend", "warned"} : r[g] = q[g]
      /\ \/ r.warned = TRUE
         \/ /\ r.trend.labelled = CountByLabel(now)
            /\ r.trend.pending = Pending(q.trend.found, CountByLabel(now))
  BY <1>1, <1>6, <1>7, <1>8 DEF CountLabels, Counted
<1>10. /\ r.end = q.end /\ r.days = q.days /\ r.sample = q.sample
       /\ r.seen = q.seen /\ r.marked = q.marked
  BY <1>9, FieldNames
<1>11. {i \in now : labels[i] \in Labels} = now \ unlabelled
  BY <1>2, <1>5, TelemetryAssumption DEF TelemetryType, TelemetryAssumption
<1>12. Cardinality(was \cap q.marked) <= Cardinality(now \ unlabelled)
  <2>1. was \cap q.marked \in SUBSET (now \ unlabelled)
    BY <1>2 DEF Begun
  <2>2. IsFiniteSet(now \ unlabelled)
    BY <1>4
  <2> QED
    BY <2>1, <2>2, FS_Subset
<1>13. Pending(q.trend.found, CountByLabel(now)) <= Cardinality(unlabelled)
  <2>1. Cardinality(now \ unlabelled) = Cardinality(now) - Cardinality(now \cap unlabelled)
    BY <1>4, FS_Difference
  <2>2. now \cap unlabelled = unlabelled /\ unlabelled \in SUBSET now
    OBVIOUS
  <2>3. Cardinality(unlabelled) \in Nat /\ Cardinality(now \ unlabelled) \in Nat
    BY <1>4, <2>2
  <2>4. q.trend.found <= Cardinality(now)
    BY <1>2 DEF Found
  <2>5. Total(CountByLabel(now)) = Cardinality(now \ unlabelled)
    BY <1>8, <1>11
  <2>6. q.trend.found \in Nat /\ Cardinality(now) \in Nat
    BY <1>4
  <2> HIDE DEF now, unlabelled
  <2> QED
    BY <2>1, <2>2, <2>3, <2>4, <2>5, <2>6 DEF Pending
<1>14. {i \in DOMAIN events' : events'[i].type \in Rejects /\ events'[i].day \in DOMAIN r.days} = now
  BY <1>2, <1>3, <1>4, <1>10 DEF Dated
<1>15. {i \in now : labels'[i] = None} = unlabelled
  BY <1>3
<1>16. /\ Cardinality(was) <= Total(RejectsByDay(r.days))
       /\ Total(RejectsByDay(r.days)) <= r.trend.found
       /\ r.trend.found <= Cardinality(now)
       /\ DOMAIN r.sample \subseteq now
  BY <1>2, <1>9, <1>10 DEF Dated, Found, Sampled
<1>17. r.warned = TRUE \/
         /\ Cardinality(was \cap r.marked) <= Total(r.trend.labelled)
         /\ Total(r.trend.labelled) <= Cardinality(now \ unlabelled)
         /\ r.trend.pending <= Cardinality(unlabelled)
  <2>1. Cardinality(now \ unlabelled) \in Nat
    BY <1>4
  <2> HIDE DEF now, unlabelled, was
  <2> QED
    BY <1>8, <1>9, <1>10, <1>11, <1>12, <1>13, <2>1
<1> QED
  BY <1>1, <1>10, <1>14, <1>15, <1>16, <1>17 DEF Answered

\* A trend report that is answered lies between what there was and what there
\* is, whatever other calls wrote between its statements.
THEOREM ReportsBracketed == Spec => ReportBracketed
<1> DEFINE Says == \A c \in Calls : pc[c] = "counts" /\ pc'[c] = "reported" => Answered(c)
<1>1. HintInv /\ HintInv' /\ ReportInv /\ ReportInv' /\ [Next]_vars => [Says]_vars
  <2> SUFFICES ASSUME HintInv, HintInv', ReportInv, ReportInv', Next,
                      NEW c \in Calls, pc[c] = "counts", pc'[c] = "reported"
               PROVE  Answered(c)
    OBVIOUS
  <2>1. ASSUME NEW d \in Calls, Advances(d) PROVE d = c
    BY <2>1 DEF Advances, HintInv
  <2>2. ~Midnight
    BY DEF Midnight
  <2>3. PICK d \in Calls :
               \/ StartTool(d) \/ StartQuery(d) \/ StartLabel(d) \/ StartStatus(d)
               \/ StartQueue(d) \/ Work(d) \/ Record(d) \/ QueryStep(d)
               \/ LabelStep(d) \/ ReportStep(d)
    BY <2>2 DEF Next
  <2>4. Advances(d)
    BY <2>3, StartAdvances, ToolAdvances, ReportAdvances
  <2>5. d = c
    BY <2>1, <2>4
  <2>6. CountLabels(c)
    BY <2>3, <2>5
    DEF StartTool, StartQuery, StartLabel, StartStatus, StartQueue, Starts, Refuses, Work, Record,
        QueryStep, Search, NoRuntime, AnswerQuery, LabelStep, FindEvent, StoreLabel, LabelFails,
        ReportStep, Totals, AllLabels, Open, ReadDays, CountCandidates, ReadSample,
        ReadSampleLabels, ReportFails
  <2> QED
    BY <2>6, AnswersBracketed
<1>2. Spec => []HintInv /\ []ReportInv
  BY HintInit, HintStep, ReportInvInit, ReportInvStep, PTL DEF Spec
<1>3. Spec => [][Says]_vars
  BY <1>1, <1>2, PTL DEF Spec
<1> QED
  BY <1>3 DEF ReportBracketed
=============================================================================
