------------------------- MODULE TaskSchedulerProofs -------------------------
(***************************************************************************)
(* Safety of TaskScheduler for every finite set of tasks and every number  *)
(* of slots.  All methods but submit end in _promote_next_locked, so the   *)
(* argument rests on two lemmas: what promotion requires of a table and a  *)
(* queue (Queueable), and what it re-establishes (Settled).                *)
(***************************************************************************)
EXTENDS TaskScheduler, FiniteSetTheorems, SequenceTheorems, TLAPS

\* What every intermediate table and queue inside a method satisfies.
Queueable(table, q) ==
    /\ table \in [TaskIds -> Status]
    /\ q \in Seq(TaskIds)
    /\ \A i, j \in 1..Len(q) : q[i] = q[j] => i = j
    /\ \A i \in 1..Len(q) : table[q[i]] # "absent"
    /\ \A t \in QueuedIn(table) : \E i \in 1..Len(q) : q[i] = t
    /\ Cardinality(RunningIn(table)) <= MaxConcurrent

\* What holds when the lock is released.
Settled(table, q) ==
    /\ Queueable(table, q)
    /\ QueuedIn(table) # {} => ~HasSlot(table)

IInv == Settled(tasks, queue)

-----------------------------------------------------------------------------
LEMMA RunningFinite ==
    ASSUME NEW table
    PROVE  /\ IsFiniteSet(RunningIn(table))
           /\ Cardinality(RunningIn(table)) \in Nat
<1>1. RunningIn(table) \in SUBSET TaskIds
  BY DEF RunningIn
<1>2. IsFiniteSet(RunningIn(table))
  BY <1>1, FS_Subset, SchedulerAssumption
<1> QED
  BY <1>2, FS_CardinalityType

\* A table whose running tasks are among those of another is no fuller.
LEMMA FewerRunning ==
    ASSUME NEW table, NEW table2, RunningIn(table2) \subseteq RunningIn(table)
    PROVE  Cardinality(RunningIn(table2)) <= Cardinality(RunningIn(table))
BY RunningFinite, FS_Subset

\* Starting one more task takes at most one slot more.
LEMMA OneMoreRunning ==
    ASSUME NEW table, NEW table2, NEW t,
           RunningIn(table2) \subseteq RunningIn(table) \cup {t},
           HasSlot(table)
    PROVE  Cardinality(RunningIn(table2)) <= MaxConcurrent
<1> DEFINE R == RunningIn(table) \cup {t}
<1>1. IsFiniteSet(R) /\ Cardinality(R) <= Cardinality(RunningIn(table)) + 1
  <2>1. IsFiniteSet(RunningIn(table)) /\ Cardinality(RunningIn(table)) \in Nat
    BY RunningFinite
  <2>2. /\ IsFiniteSet(R)
        /\ Cardinality(R) = IF t \in RunningIn(table)
                            THEN Cardinality(RunningIn(table))
                            ELSE Cardinality(RunningIn(table)) + 1
    BY <2>1, FS_AddElement
  <2> QED
    BY <2>1, <2>2
<1>2. Cardinality(RunningIn(table2)) <= Cardinality(R)
  BY <1>1, FS_Subset
<1>3. Cardinality(R) \in Nat
  BY <1>1, FS_CardinalityType
<1> QED
  BY <1>1, <1>2, <1>3, RunningFinite, SchedulerAssumption DEF HasSlot

LEMMA PromoteType ==
    ASSUME NEW table \in [TaskIds -> Status], NEW picked
    PROVE  Promote(table, picked) \in [TaskIds -> Status]
BY DEF Promote, Status

\* Promotion never takes more than the slots there are.
LEMMA PromoteBound ==
    ASSUME NEW table \in [TaskIds -> Status], NEW q \in Seq(TaskIds),
           NEW n \in 0..Len(q), PopsExactly(table, q, n),
           Cardinality(RunningIn(table)) <= MaxConcurrent
    PROVE  Cardinality(RunningIn(Promote(table, Promotable(table, q, n)))) <= MaxConcurrent
<1>0. Len(q) \in Nat /\ n \in Nat
  BY LenProperties
<1>1. CASE n = 0
  <2>1. Promotable(table, q, n) = {}
    BY <1>1 DEF Promotable
  <2>2. RunningIn(Promote(table, Promotable(table, q, n))) = RunningIn(table)
    BY <2>1 DEF RunningIn, Promote
  <2> QED
    BY <2>2
<1>2. CASE n # 0
  <2> DEFINE earlier == Promote(table, Promotable(table, q, n - 1))
             later   == Promote(table, Promotable(table, q, n))
  <2>1. n - 1 \in 0..(n - 1)
    BY <1>0, <1>2
  <2>2. HasSlot(earlier)
    BY <2>1 DEF PopsExactly
  <2>3. Promotable(table, q, n) \subseteq Promotable(table, q, n - 1) \cup {q[n]}
    BY <1>0, <1>2 DEF Promotable
  <2>4. RunningIn(later) \subseteq RunningIn(earlier) \cup {q[n]}
    BY <2>3 DEF RunningIn, Promote
  <2> HIDE DEF earlier, later
  <2>5. Cardinality(RunningIn(later)) <= MaxConcurrent
    BY <2>2, <2>4, OneMoreRunning
  <2> QED
    BY <2>5 DEF later
<1> QED
  BY <1>1, <1>2

\* Promotion keeps what it finds, and stops only when the queue is empty or
\* no slot is free.
LEMMA PromoteSettles ==
    ASSUME NEW table, NEW q, NEW table2, NEW q2,
           Queueable(table, q), PromoteStep(table, q, table2, q2)
    PROVE  Settled(table2, q2)
<1>1. PICK n \in 0..Len(q) :
          /\ PopsExactly(table, q, n)
          /\ table2 = Promote(table, Promotable(table, q, n))
          /\ q2 = SubSeq(q, n + 1, Len(q))
  BY DEF PromoteStep
<1>2. /\ table \in [TaskIds -> Status] /\ q \in Seq(TaskIds)
      /\ Len(q) \in Nat /\ n \in Nat /\ n <= Len(q)
  BY <1>1, LenProperties DEF Queueable
<1>3. \A i \in (n + 1)..Len(q) : q[i] \in TaskIds
  BY <1>2, ElementOfSeq
<1>4. /\ q2 \in Seq(TaskIds)
      /\ Len(q2) = Len(q) - n
      /\ \A i \in 1..Len(q2) : q2[i] = q[n + i]
  <2>1. /\ q2 \in Seq(TaskIds)
        /\ Len(q2) = IF n + 1 <= Len(q) THEN Len(q) - (n + 1) + 1 ELSE 0
        /\ \A i \in 1..(Len(q) - (n + 1) + 1) : q2[i] = q[(n + 1) + i - 1]
    BY <1>1, <1>2, <1>3, SubSeqProperties, n + 1 \in Int, Len(q) \in Int
  <2> QED
    BY <2>1, <1>2
<1>5. table2 \in [TaskIds -> Status]
  BY <1>1, <1>2, PromoteType
<1>6. Cardinality(RunningIn(table2)) <= MaxConcurrent
  BY <1>1, <1>2, PromoteBound DEF Queueable
<1>7. QueuedIn(table2) = QueuedIn(table) \ Promotable(table, q, n)
  BY <1>1, <1>2 DEF QueuedIn, Promote
<1>8. \A i, j \in 1..Len(q2) : q2[i] = q2[j] => i = j
  <2> SUFFICES ASSUME NEW i \in 1..Len(q2), NEW j \in 1..Len(q2), q2[i] = q2[j]
               PROVE  i = j
    OBVIOUS
  <2>1. n + i \in 1..Len(q) /\ n + j \in 1..Len(q)
    BY <1>2, <1>4
  <2>2. n + i = n + j
    BY <2>1, <1>4 DEF Queueable
  <2> QED
    BY <2>2, <1>2, <1>4
<1>9. \A i \in 1..Len(q2) : table2[q2[i]] # "absent"
  <2> SUFFICES ASSUME NEW i \in 1..Len(q2) PROVE table2[q2[i]] # "absent"
    OBVIOUS
  <2>1. n + i \in 1..Len(q)
    BY <1>2, <1>4
  <2>2. table[q[n + i]] # "absent" /\ q[n + i] \in TaskIds
    BY <2>1, <1>2, ElementOfSeq DEF Queueable
  <2> QED
    BY <2>2, <1>1, <1>4 DEF Promote
<1>10. \A t \in QueuedIn(table2) : \E i \in 1..Len(q2) : q2[i] = t
  <2> SUFFICES ASSUME NEW t \in QueuedIn(table2)
               PROVE  \E i \in 1..Len(q2) : q2[i] = t
    OBVIOUS
  <2>1. t \in QueuedIn(table) /\ t \notin Promotable(table, q, n)
    BY <1>7
  <2>2. PICK i \in 1..Len(q) : q[i] = t
    BY <2>1 DEF Queueable
  <2>3. ~(i <= n)
    BY <2>1, <2>2, <1>2 DEF Promotable
  <2>4. i - n \in 1..Len(q2) /\ n + (i - n) = i
    BY <2>3, <2>2, <1>2, <1>4
  <2> QED
    BY <2>2, <2>4, <1>4
<1>11. QueuedIn(table2) # {} => ~HasSlot(table2)
  <2>1. CASE n = Len(q)
    <3>1. QueuedIn(table2) = {}
      BY <2>1, <1>10, <1>4, <1>2
    <3> QED
      BY <3>1
  <2>2. CASE ~HasSlot(Promote(table, Promotable(table, q, n)))
    BY <2>2, <1>1
  <2> QED
    BY <2>1, <2>2, <1>1 DEF PopsExactly
<1> QED
  BY <1>4, <1>5, <1>6, <1>8, <1>9, <1>10, <1>11 DEF Settled, Queueable

\* A task that stops, whatever it was doing, leaves something to promote from.
LEMMA StopIsQueueable ==
    ASSUME NEW table, NEW q, Queueable(table, q), NEW t \in TaskIds,
           table[t] # "absent", NEW s \in TerminalStatus
    PROVE  Queueable([table EXCEPT ![t] = s], q)
<1> DEFINE stopped == [table EXCEPT ![t] = s]
<1>1. stopped \in [TaskIds -> Status]
  BY DEF Queueable, Status
<1>2. RunningIn(stopped) \subseteq RunningIn(table) /\ QueuedIn(stopped) \subseteq QueuedIn(table)
  BY DEF RunningIn, QueuedIn, Queueable, TerminalStatus
<1>3. Cardinality(RunningIn(stopped)) <= MaxConcurrent
  <2>1. Cardinality(RunningIn(stopped)) <= Cardinality(RunningIn(table))
    BY <1>2, FewerRunning
  <2> QED
    BY <2>1, RunningFinite, SchedulerAssumption DEF Queueable
<1>4. \A i \in 1..Len(q) : stopped[q[i]] # "absent"
  BY DEF Queueable, TerminalStatus
<1> QED
  BY <1>1, <1>2, <1>3, <1>4 DEF Queueable

\* Removing the entry of a task that is no longer queued loses nothing.
LEMMA DropIsQueueable ==
    ASSUME NEW table, NEW q, Queueable(table, q),
           NEW i \in 1..Len(q), q[i] \notin QueuedIn(table)
    PROVE  Queueable(table, DropAt(q, i))
<1> DEFINE rest == DropAt(q, i)
<1>1. q \in Seq(TaskIds) /\ Len(q) \in Nat /\ i \in Nat /\ 1 <= i /\ i <= Len(q)
  BY LenProperties DEF Queueable
<1>2. rest \in Seq(TaskIds) /\ Len(rest) = Len(q) - 1
  <2>1. \A j \in 1..(Len(q) - 1) : (IF j < i THEN q[j] ELSE q[j + 1]) \in TaskIds
    BY <1>1, ElementOfSeq
  <2>2. Len(q) - 1 \in Nat
    BY <1>1
  <2>3. rest \in [1..(Len(q) - 1) -> TaskIds]
    BY <2>1 DEF DropAt
  <2> HIDE DEF rest
  <2> QED
    BY <2>2, <2>3, SeqDef
<1>3. \A j \in 1..Len(rest) : rest[j] = IF j < i THEN q[j] ELSE q[j + 1]
  BY <1>2 DEF DropAt
<1> HIDE DEF rest
<1>4. \A j, k \in 1..Len(rest) : rest[j] = rest[k] => j = k
  <2> SUFFICES ASSUME NEW j \in 1..Len(rest), NEW k \in 1..Len(rest), rest[j] = rest[k]
               PROVE  j = k
    OBVIOUS
  <2> DEFINE At(m) == IF m < i THEN m ELSE m + 1
  <2>1. At(j) \in 1..Len(q) /\ At(k) \in 1..Len(q) /\ q[At(j)] = q[At(k)]
    BY <1>1, <1>2, <1>3
  <2>2. At(j) = At(k)
    <3> HIDE DEF At
    <3> QED BY <2>1 DEF Queueable
  <2> QED
    BY <2>2, <1>1, <1>2
<1>5. \A j \in 1..Len(rest) : table[rest[j]] # "absent"
  BY <1>1, <1>2, <1>3 DEF Queueable
<1>6. \A t \in QueuedIn(table) : \E j \in 1..Len(rest) : rest[j] = t
  <2> SUFFICES ASSUME NEW t \in QueuedIn(table)
               PROVE  \E j \in 1..Len(rest) : rest[j] = t
    OBVIOUS
  <2>1. PICK k \in 1..Len(q) : q[k] = t
    BY DEF Queueable
  <2>2. k # i
    BY <2>1
  <2>3. CASE k < i
    BY <2>1, <2>3, <1>1, <1>2, <1>3
  <2>4. CASE i < k
    <3>1. k - 1 \in 1..Len(rest) /\ ~(k - 1 < i) /\ (k - 1) + 1 = k
      BY <2>4, <1>1, <1>2
    <3> QED
      BY <3>1, <2>1, <1>3
  <2> QED
    BY <2>2, <2>3, <2>4, <1>1
<1> QED
  BY <1>2, <1>4, <1>5, <1>6 DEF Queueable, rest

-----------------------------------------------------------------------------
LEMMA SubmitSettles ==
    ASSUME NEW table, NEW q, NEW table2, NEW q2, NEW t \in TaskIds,
           Settled(table, q), SubmitStep(table, q, t, table2, q2)
    PROVE  Settled(table2, q2)
<1>0. table \in [TaskIds -> Status] /\ q \in Seq(TaskIds) /\ Len(q) \in Nat
  BY LenProperties DEF Settled, Queueable
<1>1. CASE table2 = table /\ q2 = q
  BY <1>1
<1>2. CASE /\ table[t] = "absent" /\ HasSlot(table)
           /\ table2 = [table EXCEPT ![t] = "running"] /\ q2 = q
  <2>1. RunningIn(table2) \subseteq RunningIn(table) \cup {t}
    BY <1>2, <1>0 DEF RunningIn
  <2>2. Cardinality(RunningIn(table2)) <= MaxConcurrent
    BY <2>1, <1>2, OneMoreRunning
  <2>3. QueuedIn(table2) = QueuedIn(table) /\ QueuedIn(table) = {}
    BY <1>2, <1>0 DEF QueuedIn, Settled
  <2>4. table2 \in [TaskIds -> Status] /\ \A i \in 1..Len(q) : table2[q[i]] # "absent"
    BY <1>2, <1>0 DEF Status, Settled, Queueable
  <2> QED
    BY <2>2, <2>3, <2>4, <1>2 DEF Settled, Queueable
<1>3. CASE /\ table[t] = "absent" /\ ~HasSlot(table)
           /\ table2 = [table EXCEPT ![t] = "queued"] /\ q2 = Append(q, t)
  <2>1. /\ q2 \in Seq(TaskIds) /\ Len(q2) = Len(q) + 1
        /\ \A i \in 1..Len(q) : q2[i] = q[i]
        /\ q2[Len(q) + 1] = t
    BY <1>3, <1>0, AppendProperties
  <2>2. RunningIn(table2) = RunningIn(table) /\ QueuedIn(table2) = QueuedIn(table) \cup {t}
    BY <1>3, <1>0 DEF RunningIn, QueuedIn
  <2>3. \A i \in 1..Len(q) : q[i] # t
    BY <1>3 DEF Settled, Queueable
  <2>4. \A i, j \in 1..Len(q2) : q2[i] = q2[j] => i = j
    <3> SUFFICES ASSUME NEW i \in 1..Len(q2), NEW j \in 1..Len(q2), q2[i] = q2[j]
                 PROVE  i = j
      OBVIOUS
    <3>1. CASE i \in 1..Len(q) /\ j \in 1..Len(q)
      BY <3>1, <2>1 DEF Settled, Queueable
    <3>2. CASE i = Len(q) + 1 \/ j = Len(q) + 1
      BY <3>2, <2>1, <2>3, <1>0
    <3> QED
      BY <3>1, <3>2, <2>1, <1>0
  <2>5. table2 \in [TaskIds -> Status] /\ \A i \in 1..Len(q2) : table2[q2[i]] # "absent"
    BY <1>3, <1>0, <2>1 DEF Status, Settled, Queueable
  <2>6. \A u \in QueuedIn(table2) : \E i \in 1..Len(q2) : q2[i] = u
    <3> SUFFICES ASSUME NEW u \in QueuedIn(table2) PROVE \E i \in 1..Len(q2) : q2[i] = u
      OBVIOUS
    <3>1. CASE u = t
      BY <3>1, <2>1, <1>0
    <3>2. CASE u \in QueuedIn(table)
      <4>1. PICK i \in 1..Len(q) : q[i] = u
        BY <3>2 DEF Settled, Queueable
      <4> QED
        BY <4>1, <2>1, <1>0
    <3> QED
      BY <3>1, <3>2, <2>2
  <2>7. ~HasSlot(table2) /\ Cardinality(RunningIn(table2)) <= MaxConcurrent
    BY <2>2, <1>3 DEF HasSlot, Settled, Queueable
  <2> QED
    BY <2>1, <2>4, <2>5, <2>6, <2>7 DEF Settled, Queueable
<1> QED
  BY <1>1, <1>2, <1>3 DEF SubmitStep

LEMMA FinishSettles ==
    ASSUME NEW table, NEW q, NEW table2, NEW q2, NEW t \in TaskIds, NEW success \in BOOLEAN,
           Settled(table, q), FinishStep(table, q, t, success, table2, q2)
    PROVE  Settled(table2, q2)
<1> DEFINE s == IF success THEN "completed" ELSE "failed"
<1>1. s \in TerminalStatus
  BY DEF TerminalStatus
<1>2. PromoteStep([table EXCEPT ![t] = s], q, table2, q2) /\ table[t] # "absent"
  BY DEF FinishStep
<1> HIDE DEF s
<1> QED
  BY <1>1, <1>2, StopIsQueueable, PromoteSettles DEF Settled

LEMMA CancelSettles ==
    ASSUME NEW table, NEW q, NEW table2, NEW q2, NEW t \in TaskIds,
           Settled(table, q), CancelStep(table, q, t, table2, q2)
    PROVE  Settled(table2, q2)
<1> DEFINE cancelled == [table EXCEPT ![t] = "cancelled"]
<1>1. table[t] # "absent" /\ "cancelled" \in TerminalStatus
  BY DEF CancelStep, TerminalStatus
<1>2. Queueable(cancelled, q)
  BY <1>1, StopIsQueueable DEF Settled
<1>3. t \notin QueuedIn(cancelled)
  BY DEF QueuedIn, Settled, Queueable
<1>4. CASE PromoteStep(cancelled, q, table2, q2)
  BY <1>2, <1>4, PromoteSettles
<1>5. CASE \E i \in 1..Len(q) : q[i] = t /\ PromoteStep(cancelled, DropAt(q, i), table2, q2)
  <2>1. PICK i \in 1..Len(q) : q[i] = t /\ PromoteStep(cancelled, DropAt(q, i), table2, q2)
    BY <1>5
  <2> HIDE DEF cancelled
  <2>2. Queueable(cancelled, DropAt(q, i))
    BY <2>1, <1>2, <1>3, DropIsQueueable
  <2> QED
    BY <2>1, <2>2, PromoteSettles
<1> QED
  BY <1>4, <1>5 DEF CancelStep

LEMMA FreshIsSettled ==
    ASSUME NEW table, table = [t \in TaskIds |-> "absent"]
    PROVE  Settled(table, <<>>)
<1>1. RunningIn(table) = {} /\ QueuedIn(table) = {}
  BY DEF RunningIn, QueuedIn
<1>2. Cardinality(RunningIn(table)) = 0
  BY <1>1, FS_EmptySet
<1>3. table \in [TaskIds -> Status]
  BY DEF Status
<1>4. <<>> \in Seq(TaskIds) /\ Len(<<>>) = 0
  BY EmptySeq
<1>5. Cardinality(RunningIn(table)) <= MaxConcurrent
  BY <1>2, SchedulerAssumption
<1> QED
  BY <1>1, <1>3, <1>4, <1>5 DEF Settled, Queueable

-----------------------------------------------------------------------------
LEMMA IInvInit == Init => IInv
BY FreshIsSettled DEF Init, IInv

LEMMA IInvStep == IInv /\ [Next]_vars => IInv'
<1> SUFFICES ASSUME IInv, [Next]_vars PROVE IInv'
  OBVIOUS
<1>1. CASE \E t \in TaskIds : Submit(t)
  BY <1>1, SubmitSettles DEF IInv, Submit
<1>2. CASE \E t \in TaskIds : Finish(t)
  BY <1>2, FinishSettles DEF IInv, Finish
<1>3. CASE \E t \in TaskIds : Cancel(t)
  BY <1>3, CancelSettles DEF IInv, Cancel
<1>4. CASE Restart
  BY <1>4, FreshIsSettled DEF IInv, Restart
<1>5. CASE UNCHANGED vars
  BY <1>5 DEF IInv, vars
<1> QED
  BY <1>1, <1>2, <1>3, <1>4, <1>5 DEF Next

LEMMA IInvAlways == Spec => []IInv
BY IInvInit, IInvStep, PTL DEF Spec

\* The table and the queue keep their types.
THEOREM TypeCorrect == Spec => []TypeOK
<1>1. IInv => TypeOK
  BY DEF IInv, Settled, Queueable, TypeOK
<1> QED
  BY <1>1, IInvAlways, PTL

\* scheduler.py never counts more running tasks than max_concurrent_tasks,
\* for any number of tasks and of slots.
THEOREM SlotsAlwaysRespected == Spec => []SlotsRespected
<1>1. IInv => SlotsRespected
  BY DEF IInv, Settled, Queueable, SlotsRespected
<1> QED
  BY <1>1, IInvAlways, PTL

\* No method returns while a task waits and a slot is free.
THEOREM NoSlotLeftIdle == Spec => []NoIdleSlotWhileQueued
<1>1. IInv => NoIdleSlotWhileQueued
  BY DEF IInv, Settled, NoIdleSlotWhileQueued
<1> QED
  BY <1>1, IInvAlways, PTL

\* A waiting task keeps exactly one entry in the queue, although finish
\* leaves stale entries behind.
THEOREM NoWaitingTaskLost == Spec => []QueuedHasOneEntry
<1>1. IInv => QueuedHasOneEntry
  BY DEF IInv, Settled, Queueable, QueuedHasOneEntry
<1> QED
  BY <1>1, IInvAlways, PTL

-----------------------------------------------------------------------------
(* First come, first served.                                               *)

BeforeIn(q, t, u) == \E i, j \in 1..Len(q) : i < j /\ q[i] = t /\ q[j] = u

LEMMA PromoteInOrder ==
    ASSUME NEW table, NEW q, NEW table2, NEW q2, NEW t \in TaskIds, NEW u \in TaskIds,
           Queueable(table, q), PromoteStep(table, q, table2, q2),
           BeforeIn(q, t, u), table2[u] = "running", table[u] # "running"
    PROVE  table2[t] # "queued"
<1>1. PICK n \in 0..Len(q) : table2 = Promote(table, Promotable(table, q, n))
  BY DEF PromoteStep
<1>2. PICK i \in 1..Len(q), j \in 1..Len(q) : i < j /\ q[i] = t /\ q[j] = u
  BY DEF BeforeIn
<1>3. Len(q) \in Nat
  BY LenProperties DEF Queueable
<1>4. PICK k \in 1..n : q[k] = u
  BY <1>1 DEF Promote, Promotable
<1>5. k = j
  BY <1>2, <1>3, <1>4 DEF Queueable
<1>6. i \in 1..n
  BY <1>2, <1>3, <1>4, <1>5
<1>7. t \in QueuedIn(table) => t \in Promotable(table, q, n)
  BY <1>2, <1>6 DEF Promotable
<1> QED
  BY <1>1, <1>7 DEF Promote, QueuedIn

LEMMA StopInOrder ==
    ASSUME NEW table, NEW q, NEW table2, NEW q2, NEW t \in TaskIds, NEW u \in TaskIds,
           NEW v \in TaskIds, NEW s \in TerminalStatus,
           Queueable([table EXCEPT ![v] = s], q), table \in [TaskIds -> Status],
           PromoteStep([table EXCEPT ![v] = s], q, table2, q2),
           BeforeIn(q, t, u) \/ v \in {t, u}, table2[u] = "running", table[u] = "queued"
    PROVE  table2[t] # "queued"
<1> DEFINE stopped == [table EXCEPT ![v] = s]
<1>1. stopped[u] # "running"
  BY DEF TerminalStatus
<1>2. PICK n \in 0..Len(q) : table2 = Promote(stopped, Promotable(stopped, q, n))
  BY DEF PromoteStep
<1>3. CASE v \in {t, u}
  <2>1. stopped[v] = s
    OBVIOUS
  <2>2. table2[v] = s
    <3> HIDE DEF stopped
    <3> QED
      BY <1>2, <2>1 DEF Promote, Promotable, QueuedIn, TerminalStatus
  <2> QED
    BY <1>3, <2>2 DEF TerminalStatus
<1>4. CASE BeforeIn(q, t, u)
  <2> HIDE DEF stopped
  <2>1. Queueable(stopped, q) /\ PromoteStep(stopped, q, table2, q2)
    BY DEF stopped
  <2> QED
    BY <1>1, <1>4, <2>1, PromoteInOrder
<1> QED
  BY <1>3, <1>4

LEMMA DropKeepsOrder ==
    ASSUME NEW q \in Seq(TaskIds), NEW t, NEW u, NEW k \in 1..Len(q),
           q[k] # t, q[k] # u, BeforeIn(q, t, u)
    PROVE  BeforeIn(DropAt(q, k), t, u)
<1> DEFINE rest == DropAt(q, k)
           At(m) == IF m < k THEN m ELSE m - 1
<1>1. Len(q) \in Nat
  BY LenProperties
<1>2. PICK i \in 1..Len(q), j \in 1..Len(q) : i < j /\ q[i] = t /\ q[j] = u
  BY DEF BeforeIn
<1>3. i # k /\ j # k
  BY <1>2
<1>4. Len(rest) = Len(q) - 1
  BY <1>1 DEF DropAt
<1>5. /\ At(i) \in 1..(Len(q) - 1) /\ At(j) \in 1..(Len(q) - 1) /\ At(i) < At(j)
  BY <1>1, <1>2, <1>3
<1>6. rest[At(i)] = q[i] /\ rest[At(j)] = q[j]
  BY <1>1, <1>3, <1>5 DEF DropAt
<1> HIDE DEF rest, At
<1>7. BeforeIn(rest, t, u)
  BY <1>2, <1>4, <1>5, <1>6 DEF BeforeIn
<1> QED
  BY <1>7 DEF rest

\* A started task leaves no task behind that entered the queue before it.
LEMMA StartedInOrder ==
    ASSUME IInv, Next, NEW t \in QueuedIn(tasks), NEW u \in QueuedIn(tasks),
           BeforeIn(queue, t, u), tasks'[u] = "running"
    PROVE  tasks'[t] # "queued"
<1>1. /\ t \in TaskIds /\ u \in TaskIds /\ tasks[t] = "queued" /\ tasks[u] = "queued"
      /\ tasks \in [TaskIds -> Status] /\ queue \in Seq(TaskIds) /\ Queueable(tasks, queue)
  BY DEF IInv, Settled, Queueable, QueuedIn
<1>2. CASE \E v \in TaskIds : Submit(v)
  BY <1>1, <1>2 DEF Submit, SubmitStep
<1>3. CASE \E v \in TaskIds : Finish(v)
  <2>1. PICK v \in TaskIds, success \in BOOLEAN :
            FinishStep(tasks, queue, v, success, tasks', queue')
    BY <1>3 DEF Finish
  <2>2. PICK s \in TerminalStatus :
            /\ tasks[v] # "absent"
            /\ PromoteStep([tasks EXCEPT ![v] = s], queue, tasks', queue')
    BY <2>1 DEF FinishStep, TerminalStatus
  <2>3. Queueable([tasks EXCEPT ![v] = s], queue)
    BY <2>2, <1>1, StopIsQueueable
  <2> QED
    BY <1>1, <2>2, <2>3, StopInOrder
<1>4. CASE \E v \in TaskIds : Cancel(v)
  <2>1. PICK v \in TaskIds : CancelStep(tasks, queue, v, tasks', queue')
    BY <1>4 DEF Cancel
  <2> DEFINE cancelled == [tasks EXCEPT ![v] = "cancelled"]
  <2>2. tasks[v] # "absent" /\ "cancelled" \in TerminalStatus
    BY <2>1 DEF CancelStep, TerminalStatus
  <2>3. Queueable(cancelled, queue)
    BY <2>2, <1>1, StopIsQueueable
  <2>4. CASE PromoteStep(cancelled, queue, tasks', queue')
    BY <1>1, <2>2, <2>3, <2>4, StopInOrder
  <2>5. CASE \E k \in 1..Len(queue) :
                queue[k] = v /\ PromoteStep(cancelled, DropAt(queue, k), tasks', queue')
    <3>1. PICK k \in 1..Len(queue) :
                queue[k] = v /\ PromoteStep(cancelled, DropAt(queue, k), tasks', queue')
      BY <2>5
    <3>2. v \notin QueuedIn(cancelled)
      BY <1>1 DEF QueuedIn
    <3>3. Queueable(cancelled, DropAt(queue, k))
      <4> HIDE DEF cancelled
      <4> QED BY <2>3, <3>1, <3>2, DropIsQueueable
    <3>4. BeforeIn(DropAt(queue, k), t, u) \/ v \in {t, u}
      BY <1>1, <3>1, DropKeepsOrder
    <3> QED
      BY <1>1, <2>2, <3>1, <3>3, <3>4, StopInOrder
  <2> QED
    BY <2>1, <2>4, <2>5 DEF CancelStep
<1>5. CASE Restart
  BY <1>1, <1>5 DEF Restart
<1> QED
  BY <1>2, <1>3, <1>4, <1>5 DEF Next

\* Only submit lets a task wait, at the end of the queue.
LEMMA JoinedAtTheEnd ==
    ASSUME IInv, Next, NEW t \in QueuedIn(tasks), NEW u \in TaskIds,
           tasks[u] # "queued", tasks'[u] = "queued"
    PROVE  Before(t, u)'
<1>1. /\ tasks[t] = "queued" /\ t \in TaskIds
      /\ tasks \in [TaskIds -> Status] /\ queue \in Seq(TaskIds)
      /\ \E i \in 1..Len(queue) : queue[i] = t
  BY DEF IInv, Settled, Queueable, QueuedIn
<1>2. CASE \E v \in TaskIds : Submit(v)
  <2>1. tasks[u] = "absent" /\ queue' = Append(queue, u)
    BY <1>1, <1>2 DEF Submit, SubmitStep
  <2>2. PICK i \in 1..Len(queue) : queue[i] = t
    BY <1>1
  <2>3. /\ i < Len(queue) + 1 /\ i \in 1..Len(queue') /\ Len(queue) + 1 \in 1..Len(queue')
        /\ queue'[i] = t /\ queue'[Len(queue) + 1] = u
    BY <1>1, <2>1, <2>2
  <2> QED
    BY <2>3 DEF Before
<1>3. CASE \E v \in TaskIds : Finish(v)
  BY <1>1, <1>3 DEF Finish, FinishStep, PromoteStep, Promote
<1>4. CASE \E v \in TaskIds : Cancel(v)
  BY <1>1, <1>4 DEF Cancel, CancelStep, PromoteStep, Promote
<1>5. CASE Restart
  BY <1>1, <1>5 DEF Restart
<1> QED
  BY <1>2, <1>3, <1>4, <1>5 DEF Next

\* A task that has to wait comes after all that wait already, and is not
\* started while one that entered the queue before it still waits.
THEOREM FirstComeFirstServed == Spec => NoOvertaking
<1> DEFINE InOrder == \A t \in QueuedIn(tasks), u \in TaskIds :
                /\ tasks[u] # "queued" /\ tasks'[u] = "queued" => Before(t, u)'
                /\ tasks[u] = "queued" /\ Before(t, u) /\ tasks'[u] = "running"
                      => tasks'[t] # "queued"
<1>1. IInv /\ [Next]_vars => [InOrder]_vars
  <2> SUFFICES ASSUME IInv, Next, NEW t \in QueuedIn(tasks), NEW u \in TaskIds
               PROVE  /\ tasks[u] # "queued" /\ tasks'[u] = "queued" => Before(t, u)'
                      /\ tasks[u] = "queued" /\ Before(t, u) /\ tasks'[u] = "running"
                            => tasks'[t] # "queued"
    OBVIOUS
  <2>1. tasks[u] # "queued" /\ tasks'[u] = "queued" => Before(t, u)'
    BY JoinedAtTheEnd
  <2>2. tasks[u] = "queued" => u \in QueuedIn(tasks)
    BY DEF QueuedIn
  <2>3. Before(t, u) => BeforeIn(queue, t, u)
    BY DEF Before, BeforeIn
  <2> QED
    BY <2>1, <2>2, <2>3, StartedInOrder
<1> QED
  BY <1>1, IInvAlways, PTL DEF Spec, NoOvertaking
=============================================================================
