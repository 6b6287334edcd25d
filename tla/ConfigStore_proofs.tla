------------------------- MODULE ConfigStore_proofs -------------------------
(***************************************************************************)
(* The queue of config mutations, for any calls and processes.  The code's *)
(* queue is one map entry per process and a promise per call; the proof    *)
(* gives every call a ticket, which is not in the model: the calls of a    *)
(* process that wait or mutate hold tickets from first[h] up to, and not   *)
(* including, next[h].                                                     *)
(***************************************************************************)
EXTENDS ConfigStore, Integers, TLAPS

Underway == {"queued", "rules", "truncate", "fill"}
Active(c) == cf[c] \in Underway

QueueType ==
    /\ cf \in [Calls -> Phase]
    /\ behind \in [Calls -> Calls \cup {None}]
    /\ tail \in [Hosts -> Calls \cup {None}]

\* Tickets are distinct and in range; a call waits for the one before its own,
\* and only the first does not wait; the map's entry is the last of them.
Ticketed(ticket, first, next) ==
    /\ \A h \in Hosts : first[h] <= next[h]
    /\ \A c \in Calls : Active(c) =>
         /\ first[Host[c]] <= ticket[c] /\ ticket[c] < next[Host[c]]
         /\ behind[c] = None => ticket[c] = first[Host[c]]
         /\ behind[c] /= None =>
              /\ cf[c] = "queued"
              /\ Active(behind[c]) /\ Host[behind[c]] = Host[c]
              /\ ticket[behind[c]] = ticket[c] - 1
    /\ \A c \in Calls : ~Active(c) => behind[c] = None
    /\ \A c, d \in Calls :
         Active(c) /\ Active(d) /\ Host[c] = Host[d] /\ ticket[c] = ticket[d] => c = d
    /\ \A h \in Hosts :
         /\ tail[h] = None => first[h] = next[h]
         /\ tail[h] /= None =>
              /\ Active(tail[h]) /\ Host[tail[h]] = h
              /\ ticket[tail[h]] = next[h] - 1

QueueInv ==
    /\ QueueType
    /\ \E ticket \in [Calls -> Int], first, next \in [Hosts -> Int] :
         Ticketed(ticket, first, next)

-----------------------------------------------------------------------------
\* The queue is empty at first.
LEMMA QueueInit ==
    ASSUME cf = [c \in Calls |-> "none"],
           behind = [c \in Calls |-> None],
           tail = [h \in Hosts |-> None]
    PROVE  QueueInv
<1> DEFINE zeroC == [c \in Calls |-> 0]
           zeroH == [h \in Hosts |-> 0]
<1>1. QueueType
  BY DEF QueueType, Phase
<1>2. /\ zeroC \in [Calls -> Int] /\ zeroH \in [Hosts -> Int]
  OBVIOUS
<1>3. Ticketed(zeroC, zeroH, zeroH)
  BY ConfigAssumption DEF Ticketed, Active, Underway, ConfigAssumption
<1> QED
  BY <1>1, <1>2, <1>3 DEF QueueInv

\* The invariant is what the property needs: only the first does not wait.
LEMMA QueueSerial == QueueInv => OneMutationAtATime
<1> SUFFICES ASSUME QueueInv,
                    NEW c \in Calls, NEW d \in Calls, Host[c] = Host[d],
                    InMutation(c), InMutation(d)
             PROVE  c = d
  BY DEF OneMutationAtATime
<1>1. PICK ticket \in [Calls -> Int], first \in [Hosts -> Int], next \in [Hosts -> Int] :
        Ticketed(ticket, first, next)
  BY DEF QueueInv
<1>2. Active(c) /\ Active(d) /\ cf[c] /= "queued" /\ cf[d] /= "queued"
  BY DEF Active, Underway, InMutation
<1>3. ticket[c] = first[Host[c]] /\ ticket[d] = first[Host[d]]
  BY <1>1, <1>2 DEF Ticketed
<1> QED
  BY <1>1, <1>2, <1>3 DEF Ticketed

-----------------------------------------------------------------------------
(* What the operations of the store do to the queue.                       *)

\* A call that begins a mutation takes the next ticket.
LEMMA QueueGrows ==
    ASSUME QueueInv, NEW c \in Calls, ~Active(c), Enqueue(c)
    PROVE  QueueInv'
<1> DEFINE h == Host[c]
<1>0. /\ cf \in [Calls -> Phase] /\ behind \in [Calls -> Calls \cup {None}]
      /\ tail \in [Hosts -> Calls \cup {None}]
      /\ Host \in [Calls -> Hosts] /\ h \in Hosts /\ None \notin Calls
  BY ConfigAssumption DEF QueueInv, QueueType, ConfigAssumption
<1>1. PICK ticket \in [Calls -> Int], first \in [Hosts -> Int], next \in [Hosts -> Int] :
        Ticketed(ticket, first, next)
  BY DEF QueueInv
<1> DEFINE t == [ticket EXCEPT ![c] = next[h]]
           n == [next EXCEPT ![h] = next[h] + 1]
<1>2. t \in [Calls -> Int] /\ n \in [Hosts -> Int]
  BY <1>0
<1>3. QueueType'
  BY <1>0 DEF QueueType, Enqueue, Phase
<1>4. /\ cf' = [cf EXCEPT ![c] = "queued"]
      /\ behind' = [behind EXCEPT ![c] = tail[h]]
      /\ tail' = [tail EXCEPT ![h] = c]
  BY DEF Enqueue
<1>5. \A d \in Calls : /\ Active(d)' <=> d = c \/ Active(d)
                       /\ Active(d)' <=> cf'[d] \in Underway
  BY <1>0, <1>4 DEF Active, Underway
<1>6. \A k \in Hosts : first[k] <= n[k]
  BY <1>0, <1>1 DEF Ticketed
<1>7. \A d \in Calls : Active(d)' =>
         /\ first[Host[d]] <= t[d] /\ t[d] < n[Host[d]]
         /\ behind'[d] = None => t[d] = first[Host[d]]
         /\ behind'[d] /= None =>
              /\ cf'[d] = "queued"
              /\ cf'[behind'[d]] \in Underway /\ Host[behind'[d]] = Host[d]
              /\ t[behind'[d]] = t[d] - 1
  <2> SUFFICES ASSUME NEW d \in Calls, Active(d)'
               PROVE  /\ first[Host[d]] <= t[d] /\ t[d] < n[Host[d]]
                      /\ behind'[d] = None => t[d] = first[Host[d]]
                      /\ behind'[d] /= None =>
                           /\ cf'[d] = "queued"
                           /\ cf'[behind'[d]] \in Underway /\ Host[behind'[d]] = Host[d]
                           /\ t[behind'[d]] = t[d] - 1
    OBVIOUS
  <2>1. CASE d = c
    <3>1. behind'[d] = tail[h] /\ cf'[d] = "queued" /\ t[d] = next[h] /\ n[h] = next[h] + 1
      BY <1>0, <1>1, <1>4, <2>1
    <3>2. first[h] <= next[h] /\ next[h] \in Int /\ first[h] \in Int
      BY <1>0, <1>1 DEF Ticketed
    <3>3. tail[h] = None => next[h] = first[h]
      BY <1>0, <1>1 DEF Ticketed
    <3>4. tail[h] /= None => /\ tail[h] \in Calls /\ tail[h] /= c
                             /\ Active(tail[h]) /\ Host[tail[h]] = h
                             /\ ticket[tail[h]] = next[h] - 1
      BY <1>0, <1>1 DEF Ticketed
    <3> QED BY <1>0, <1>1, <1>5, <2>1, <3>1, <3>2, <3>3, <3>4
  <2>2. CASE d /= c
    <3>1. Active(d) /\ behind'[d] = behind[d] /\ cf'[d] = cf[d] /\ t[d] = ticket[d]
      BY <1>0, <1>4, <1>5, <2>2
    <3>2. n[Host[d]] >= next[Host[d]] /\ n[Host[d]] \in Int /\ Host[d] \in Hosts
      BY <1>0, <1>1
    <3>3. behind[d] /= None => behind[d] \in Calls /\ behind[d] /= c /\ Active(behind[d])
      BY <1>0, <1>1, <3>1 DEF Ticketed
    <3> QED BY <1>0, <1>1, <1>5, <3>1, <3>2, <3>3 DEF Ticketed
  <2> QED BY <2>1, <2>2
<1>8. \A d \in Calls : ~Active(d)' => behind'[d] = None
  BY <1>0, <1>1, <1>4, <1>5 DEF Ticketed
<1>9. \A d, e \in Calls :
         Active(d)' /\ Active(e)' /\ Host[d] = Host[e] /\ t[d] = t[e] => d = e
  <2>1. \A d \in Calls : Active(d) /\ Host[d] = h => ticket[d] < next[h]
    BY <1>1 DEF Ticketed
  <2> QED BY <1>0, <1>1, <1>5, <2>1 DEF Ticketed
<1>10. \A k \in Hosts :
         /\ tail'[k] = None => first[k] = n[k]
         /\ tail'[k] /= None =>
              /\ cf'[tail'[k]] \in Underway /\ Host[tail'[k]] = k
              /\ t[tail'[k]] = n[k] - 1
  <2> SUFFICES ASSUME NEW k \in Hosts
               PROVE  /\ tail'[k] = None => first[k] = n[k]
                      /\ tail'[k] /= None =>
                           /\ cf'[tail'[k]] \in Underway /\ Host[tail'[k]] = k
                           /\ t[tail'[k]] = n[k] - 1
    OBVIOUS
  <2>1. CASE k = h
    BY <1>0, <1>1, <1>4, <1>5, <2>1
  <2>2. CASE k /= h
    <3>1. tail'[k] = tail[k] /\ n[k] = next[k]
      BY <1>0, <1>1, <1>4, <2>2
    <3>2. tail[k] /= None => /\ tail[k] \in Calls /\ Active(tail[k]) /\ tail[k] /= c
                             /\ Host[tail[k]] = k /\ ticket[tail[k]] = next[k] - 1
      BY <1>0, <1>1, <2>2 DEF Ticketed
    <3> QED BY <1>0, <1>1, <1>5, <3>1, <3>2 DEF Ticketed
  <2> QED BY <2>1, <2>2
<1> HIDE DEF t, n, h
<1>11. Ticketed(t, first, n)'
  BY <1>6, <1>7, <1>8, <1>9, <1>10 DEF Ticketed, Active
<1> QED
  BY <1>2, <1>3, <1>11 DEF QueueInv

\* The first call of the queue goes on.
LEMMA QueueProceeds ==
    ASSUME QueueInv, NEW c \in Calls, Active(c), behind[c] = None,
           NEW phase \in Underway,
           cf' = [cf EXCEPT ![c] = phase],
           UNCHANGED <<behind, tail>>
    PROVE  QueueInv'
<1>0. /\ cf \in [Calls -> Phase] /\ behind \in [Calls -> Calls \cup {None}]
      /\ tail \in [Hosts -> Calls \cup {None}]
      /\ Host \in [Calls -> Hosts] /\ None \notin Calls
  BY ConfigAssumption DEF QueueInv, QueueType, ConfigAssumption
<1>1. PICK ticket \in [Calls -> Int], first \in [Hosts -> Int], next \in [Hosts -> Int] :
        Ticketed(ticket, first, next)
  BY DEF QueueInv
<1>2. QueueType'
  BY <1>0 DEF QueueType, Phase, Underway
<1>3. \A d \in Calls : /\ cf'[d] \in Underway <=> cf[d] \in Underway
                       /\ behind[d] /= None => cf'[d] = cf[d]
  BY <1>0 DEF Active
<1>4. Ticketed(ticket, first, next)'
  BY <1>0, <1>1, <1>3 DEF Ticketed, Active
<1> QED
  BY <1>1, <1>2, <1>4 DEF QueueInv

\* The first call of the queue leaves it and the next one becomes the first.
LEMMA QueueShrinks ==
    ASSUME QueueInv, NEW c \in Calls, Active(c), behind[c] = None,
           NEW phase \in Phase \ Underway,
           cf' = [cf EXCEPT ![c] = phase],
           Release(c)
    PROVE  QueueInv'
<1> DEFINE h == Host[c]
<1>0. /\ cf \in [Calls -> Phase] /\ behind \in [Calls -> Calls \cup {None}]
      /\ tail \in [Hosts -> Calls \cup {None}]
      /\ Host \in [Calls -> Hosts] /\ h \in Hosts /\ None \notin Calls
  BY ConfigAssumption DEF QueueInv, QueueType, ConfigAssumption
<1>1. PICK ticket \in [Calls -> Int], first \in [Hosts -> Int], next \in [Hosts -> Int] :
        Ticketed(ticket, first, next)
  BY DEF QueueInv
<1> DEFINE f == [first EXCEPT ![h] = first[h] + 1]
<1>2. f \in [Hosts -> Int] /\ f[h] = first[h] + 1 /\ \A k \in Hosts : k /= h => f[k] = first[k]
  BY <1>0
<1>3. /\ behind' = [d \in Calls |-> IF behind[d] = c THEN None ELSE behind[d]]
      /\ tail' = [tail EXCEPT ![h] = IF @ = c THEN None ELSE @]
  BY DEF Release
<1>4. QueueType'
  BY <1>0, <1>3 DEF QueueType
<1>5. \A d \in Calls : /\ cf'[d] \in Underway <=> d /= c /\ Active(d)
                       /\ d /= c => cf'[d] = cf[d]
  BY <1>0 DEF Active
<1>6. ticket[c] = first[h] /\ first[h] < next[h]
  BY <1>0, <1>1 DEF Ticketed
<1>7. \A k \in Hosts : f[k] <= next[k]
  BY <1>0, <1>1, <1>2, <1>6 DEF Ticketed
<1>8. \A d \in Calls : cf'[d] \in Underway =>
         /\ f[Host[d]] <= ticket[d] /\ ticket[d] < next[Host[d]]
         /\ behind'[d] = None => ticket[d] = f[Host[d]]
         /\ behind'[d] /= None =>
              /\ cf'[d] = "queued"
              /\ cf'[behind'[d]] \in Underway /\ Host[behind'[d]] = Host[d]
              /\ ticket[behind'[d]] = ticket[d] - 1
  <2> SUFFICES ASSUME NEW d \in Calls, d /= c, Active(d)
               PROVE  /\ f[Host[d]] <= ticket[d] /\ ticket[d] < next[Host[d]]
                      /\ behind'[d] = None => ticket[d] = f[Host[d]]
                      /\ behind'[d] /= None =>
                           /\ cf'[d] = "queued"
                           /\ cf'[behind'[d]] \in Underway /\ Host[behind'[d]] = Host[d]
                           /\ ticket[behind'[d]] = ticket[d] - 1
    BY <1>5
  <2>1. Host[d] = h => ticket[d] /= first[h]
    BY <1>1, <1>6 DEF Ticketed
  <2>2. CASE behind[d] = c
    BY <1>0, <1>1, <1>2, <1>3, <1>6, <2>2 DEF Ticketed
  <2>3. CASE behind[d] = None
    BY <1>0, <1>1, <1>2, <1>3, <2>1, <2>3 DEF Ticketed
  <2>4. CASE behind[d] /= c /\ behind[d] /= None
    <3>1. behind'[d] = behind[d] /\ cf'[d] = cf[d]
      BY <1>3, <1>5, <2>4
    <3>2. behind[d] \in Calls /\ Active(behind[d])
      BY <1>0, <1>1, <2>4 DEF Ticketed
    <3>3. first[Host[d]] <= ticket[d] /\ ticket[d] \in Int /\ first[Host[d]] \in Int
      BY <1>0, <1>1 DEF Ticketed
    <3>4. f[Host[d]] <= ticket[d]
      BY <1>0, <1>2, <2>1, <3>3
    <3> QED BY <1>0, <1>1, <1>5, <2>4, <3>1, <3>2, <3>4 DEF Ticketed
  <2> QED BY <2>2, <2>3, <2>4
<1>9. \A d \in Calls : cf'[d] \notin Underway => behind'[d] = None
  BY <1>0, <1>1, <1>3, <1>5 DEF Ticketed
<1>10. \A d, e \in Calls : cf'[d] \in Underway /\ cf'[e] \in Underway
                              /\ Host[d] = Host[e] /\ ticket[d] = ticket[e] => d = e
  BY <1>1, <1>5 DEF Ticketed
<1>11. \A k \in Hosts :
         /\ tail'[k] = None => f[k] = next[k]
         /\ tail'[k] /= None =>
              /\ cf'[tail'[k]] \in Underway /\ Host[tail'[k]] = k
              /\ ticket[tail'[k]] = next[k] - 1
  <2> SUFFICES ASSUME NEW k \in Hosts
               PROVE  /\ tail'[k] = None => f[k] = next[k]
                      /\ tail'[k] /= None =>
                           /\ cf'[tail'[k]] \in Underway /\ Host[tail'[k]] = k
                           /\ ticket[tail'[k]] = next[k] - 1
    OBVIOUS
  <2>1. tail[k] /= None => /\ tail[k] \in Calls /\ Active(tail[k])
                           /\ Host[tail[k]] = k /\ ticket[tail[k]] = next[k] - 1
    BY <1>0, <1>1 DEF Ticketed
  <2>2. CASE k = h /\ tail[k] = c
    BY <1>0, <1>1, <1>2, <1>3, <1>6, <2>1, <2>2
  <2>3. CASE k /= h \/ tail[k] /= c
    <3>1. tail'[k] = tail[k]
      BY <1>0, <1>3, <2>3
    <3>2. tail[k] = None => k /= h /\ f[k] = next[k]
      BY <1>0, <1>1, <1>2, <1>6 DEF Ticketed
    <3>3. tail[k] /= None => tail[k] /= c
      BY <1>0, <2>1, <2>3
    <3> QED BY <1>5, <2>1, <3>1, <3>2, <3>3
  <2> QED BY <2>2, <2>3
<1> HIDE DEF f, h
<1>12. Ticketed(ticket, f, next)'
  BY <1>7, <1>8, <1>9, <1>10, <1>11 DEF Ticketed, Active
<1> QED
  BY <1>1, <1>2, <1>4, <1>12 DEF QueueInv

\* A call that is out of the queue forgets its mutation.
LEMMA QueueForgets ==
    ASSUME QueueInv, NEW c \in Calls, ~Active(c),
           cf' = [cf EXCEPT ![c] = "none"],
           UNCHANGED <<behind, tail>>
    PROVE  QueueInv'
<1>0. /\ cf \in [Calls -> Phase] /\ behind \in [Calls -> Calls \cup {None}]
      /\ tail \in [Hosts -> Calls \cup {None}]
      /\ Host \in [Calls -> Hosts] /\ None \notin Calls
  BY ConfigAssumption DEF QueueInv, QueueType, ConfigAssumption
<1>1. PICK ticket \in [Calls -> Int], first \in [Hosts -> Int], next \in [Hosts -> Int] :
        Ticketed(ticket, first, next)
  BY DEF QueueInv
<1>2. QueueType'
  BY <1>0 DEF QueueType, Phase
<1>3. \A d \in Calls : /\ cf'[d] \in Underway <=> cf[d] \in Underway
                       /\ cf[d] \in Underway => cf'[d] = cf[d]
  BY <1>0 DEF Active, Underway
<1>4. Ticketed(ticket, first, next)'
  BY <1>0, <1>1, <1>3 DEF Ticketed, Active
<1> QED
  BY <1>1, <1>2, <1>4 DEF QueueInv

\* Nothing of the queue changes.
LEMMA QueueRests ==
    ASSUME QueueInv, UNCHANGED <<cf, behind, tail>>
    PROVE  QueueInv'
BY DEF QueueInv, QueueType, Ticketed, Active

\* The queue of a process that dies is gone; the others are untouched.
LEMMA QueueCrashes ==
    ASSUME QueueInv, NEW h \in Hosts, ConfigCrash(h)
    PROVE  QueueInv'
<1>0. /\ cf \in [Calls -> Phase] /\ behind \in [Calls -> Calls \cup {None}]
      /\ tail \in [Hosts -> Calls \cup {None}]
      /\ Host \in [Calls -> Hosts] /\ None \notin Calls
  BY ConfigAssumption DEF QueueInv, QueueType, ConfigAssumption
<1>1. PICK ticket \in [Calls -> Int], first \in [Hosts -> Int], next \in [Hosts -> Int] :
        Ticketed(ticket, first, next)
  BY DEF QueueInv
<1> DEFINE n == [next EXCEPT ![h] = first[h]]
<1>2. n \in [Hosts -> Int] /\ n[h] = first[h] /\ \A k \in Hosts : k /= h => n[k] = next[k]
  BY <1>0
<1>3. /\ tail' = [tail EXCEPT ![h] = None]
      /\ behind' = [c \in Calls |-> IF Host[c] = h THEN None ELSE behind[c]]
      /\ cf' = [c \in Calls |-> IF Host[c] = h THEN "none" ELSE cf[c]]
  BY DEF ConfigCrash
<1>4. QueueType'
  BY <1>0, <1>3 DEF QueueType, Phase
<1>5. \A d \in Calls : /\ cf'[d] \in Underway <=> Host[d] /= h /\ Active(d)
                       /\ Host[d] /= h => cf'[d] = cf[d] /\ behind'[d] = behind[d]
                       /\ Host[d] = h => behind'[d] = None
  BY <1>0, <1>3 DEF Active, Underway
<1>6. \A k \in Hosts : /\ k = h => tail'[k] = None
                       /\ k /= h => tail'[k] = tail[k]
  BY <1>0, <1>3
<1>7. \A d \in Calls : Active(d) /\ behind[d] /= None => behind[d] \in Calls
  BY <1>0
<1>8. \A k \in Hosts : tail[k] /= None => tail[k] \in Calls
  BY <1>0
<1> HIDE DEF n
<1>9. Ticketed(ticket, first, n)'
  BY <1>0, <1>1, <1>2, <1>5, <1>6, <1>7, <1>8 DEF Ticketed, Active
<1> QED
  BY <1>1, <1>2, <1>4, <1>9 DEF QueueInv

\* One step of a mutation.
LEMMA QueueSteps ==
    ASSUME QueueInv, NEW c \in Calls, ConfigStep(c)
    PROVE  QueueInv'
<1>0. \A d \in Calls : /\ Active(d) /\ cf[d] /= "queued" => behind[d] = None
  BY DEF QueueInv, Ticketed
<1>1. CASE ConfigLocked(c)
  BY <1>1, QueueProceeds DEF ConfigLocked, Active, Underway
<1>2. CASE ConfigUnreadable(c)
  BY <1>2, QueueShrinks DEF ConfigUnreadable, FailMutation, Active, Underway, Phase
<1>3. CASE ConfigRules(c)
  BY <1>0, <1>3, QueueProceeds DEF ConfigRules, Active, Underway
<1>4. CASE ConfigTruncate(c)
  BY <1>0, <1>4, QueueProceeds DEF ConfigTruncate, Active, Underway
<1>5. CASE ConfigFill(c)
  BY <1>0, <1>5, QueueShrinks DEF ConfigFill, Active, Underway, Phase
<1> QED
  BY <1>1, <1>2, <1>3, <1>4, <1>5 DEF ConfigStep
=============================================================================
