------------------------ MODULE AgentTaskServiceProofs ------------------------
(***************************************************************************)
(* Safety of AgentTaskService for every finite set of tasks and threads    *)
(* and every number of slots, requests and faults.  The argument: the lock *)
(* of a task lets one thread at a time handle it, so that what a thread    *)
(* may save is always one step of the loop from the checkpoint that is on  *)
(* disk, and a settled task keeps its slot only while the thread that      *)
(* settled it has not yet told the scheduler.                              *)
(***************************************************************************)
EXTENDS AgentTaskService, TLAPS

Checkpoints ==
    [phase    : Phase!Final \cup {"created", "waiting_runtime", "waiting_approval"},
     issued   : Nat,
     answered : Nat]

Busy == [step : {"turn", "saved"}, task : TaskIds, outcomes : SUBSET Checkpoints, lease : BOOLEAN]

\* The type of the variables.
TypeOK ==
    /\ created \subseteq TaskIds
    /\ disk \in [TaskIds -> Checkpoints]
    /\ table \in [TaskIds -> Sched!Status]
    /\ thread \in [Threads -> {Idle} \cup Busy]

\* The lock: no two threads handle requests on one task.
OneHolder ==
    \A t \in TaskIds, h, k \in Threads : HoldsLock(h, t) /\ HoldsLock(k, t) => h = k

\* What may follow a checkpoint: itself, or a step of the loop.
Follows(c, d) ==
    \/ d = c
    \/ c.phase = "created" /\ d \in Phase!Decided(c)
    \/ c.phase = "waiting_runtime" /\ d \in Phase!Answered(c)

\* A thread that is to save saves a successor of what is on disk.
TurnsAreCurrent ==
    \A h \in Threads :
        thread[h].step = "turn" =>
            thread[h].lease /\ \A d \in thread[h].outcomes : Follows(disk[thread[h].task], d)

Saved(t) == \E h \in Threads : thread[h].step = "saved" /\ thread[h].task = t

\* Only between the save and the call of the scheduler does a settled task
\* have a place there.
SettledIsReleased ==
    \A t \in TaskIds :
        disk[t].phase \in Phase!Final /\ ~Saved(t) => table[t] \notin {"running", "queued"}

IInv == TypeOK /\ OneHolder /\ TurnsAreCurrent /\ SettledIsReleased

-----------------------------------------------------------------------------
(* What the loop and the scheduler do to one task.                         *)

LEMMA DecidedType ==
    ASSUME NEW c \in Checkpoints PROVE Phase!Decided(c) \subseteq Checkpoints
<1>1. [c EXCEPT !.phase = "needs_intervention"] \in Checkpoints
  BY DEF Checkpoints, Phase!Final
<1>2. c.issued + 1 \in Nat
  BY DEF Checkpoints
<1>3. \A n \in Nat : [c EXCEPT !.phase = "waiting_runtime", !.issued = n] \in Checkpoints
  BY DEF Checkpoints
<1>4. [c EXCEPT !.phase = "waiting_runtime", !.issued = c.issued + 1] \in Checkpoints
  BY <1>2, <1>3, Zenon
<1> QED  BY <1>1, <1>4 DEF Phase!Decided

LEMMA AnsweredType ==
    ASSUME NEW c \in Checkpoints PROVE Phase!Answered(c) \subseteq Checkpoints
<1> DEFINE a == [c EXCEPT !.answered = c.answered + 1]
<1>1. c.answered + 1 \in Nat
  BY DEF Checkpoints
<1>2. \A n \in Nat : [c EXCEPT !.answered = n] \in Checkpoints
  BY DEF Checkpoints
<1>3. a \in Checkpoints
  BY <1>1, <1>2, Zenon
<1>4. Phase!Answered(c) = Phase!Decided(a)
         \cup {[a EXCEPT !.phase = p] : p \in {"waiting_approval", "completed", "cancelled"}}
  BY Zenon DEF Phase!Answered
<1> HIDE DEF a
<1>5. ASSUME NEW p \in {"waiting_approval", "completed", "cancelled"}
      PROVE  [a EXCEPT !.phase = p] \in Checkpoints
  BY <1>3 DEF Checkpoints, Phase!Final
<1> QED  BY <1>3, <1>4, <1>5, DecidedType

LEMMA FollowsType ==
    ASSUME NEW c \in Checkpoints, NEW d, Follows(c, d) PROVE d \in Checkpoints
BY DecidedType, AnsweredType DEF Follows

\* Promotion starts tasks that wait, and does nothing else to the table.
LEMMA PromoteOnlyStarts ==
    ASSUME NEW tb \in [TaskIds -> Sched!Status], NEW q, NEW tb2, NEW q2,
           Sched!PromoteStep(tb, q, tb2, q2)
    PROVE  /\ tb2 \in [TaskIds -> Sched!Status]
           /\ \A t \in TaskIds : \/ tb2[t] = tb[t]
                                 \/ tb[t] = "queued" /\ tb2[t] = "running"
<1>1. PICK picked : /\ tb2 = Sched!Promote(tb, picked)
                    /\ picked \subseteq Sched!QueuedIn(tb)
  <2>1. PICK n \in 0..Len(q) : tb2 = Sched!Promote(tb, Sched!Promotable(tb, q, n))
    BY DEF Sched!PromoteStep
  <2>2. Sched!Promotable(tb, q, n) \subseteq Sched!QueuedIn(tb)
    BY DEF Sched!Promotable
  <2> QED  BY <2>1, <2>2
<1>2. tb2 = [t \in TaskIds |-> IF t \in picked THEN "running" ELSE tb[t]]
  BY <1>1 DEF Sched!Promote
<1>3. \A t \in TaskIds : t \in picked => tb[t] = "queued"
  BY <1>1 DEF Sched!QueuedIn
<1> QED  BY <1>2, <1>3 DEF Sched!Status

\* The task is out of the scheduler, and the other tasks are at most started.
Released(tb, t, tb2) ==
    /\ tb2 \in [TaskIds -> Sched!Status]
    /\ tb2[t] \notin {"running", "queued"}
    /\ \A u \in TaskIds \ {t} : \/ tb2[u] = tb[u]
                                \/ tb[u] = "queued" /\ tb2[u] = "running"

LEMMA StopReleases ==
    ASSUME NEW tb \in [TaskIds -> Sched!Status], NEW q, NEW tb2, NEW q2, NEW t \in TaskIds,
           NEW st \in Sched!TerminalStatus,
           Sched!PromoteStep([tb EXCEPT ![t] = st], q, tb2, q2)
    PROVE  Released(tb, t, tb2)
<1> DEFINE stopped == [tb EXCEPT ![t] = st]
<1>1. /\ stopped \in [TaskIds -> Sched!Status] /\ stopped[t] = st
      /\ \A u \in TaskIds \ {t} : stopped[u] = tb[u]
  BY DEF Sched!Status
<1> HIDE DEF stopped
<1>2. /\ tb2 \in [TaskIds -> Sched!Status]
      /\ \A u \in TaskIds : \/ tb2[u] = stopped[u]
                            \/ stopped[u] = "queued" /\ tb2[u] = "running"
  BY <1>1, PromoteOnlyStarts DEF stopped
<1> QED  BY <1>1, <1>2 DEF Sched!TerminalStatus, Released

LEMMA SyncEffect ==
    ASSUME table \in [TaskIds -> Sched!Status], NEW t \in TaskIds, NEW phase, SyncStep(t, phase)
    PROVE  /\ table' \in [TaskIds -> Sched!Status]
           /\ phase \in Phase!Final => table'[t] \notin {"running", "queued"}
           /\ phase \notin Phase!Final => table'[t] = table[t] \/ table[t] = "absent"
           /\ \A u \in TaskIds \ {t} : \/ table'[u] = table[u]
                                       \/ table[u] = "queued" /\ table'[u] = "running"
<1>1. CASE phase \in Phase!Final /\ table[t] = "absent" /\ UNCHANGED <<table, queue>>
  BY <1>1
<1>2. CASE phase \notin Phase!Final /\ Sched!SubmitStep(table, queue, t, table', queue')
  BY <1>2 DEF Sched!SubmitStep, Sched!Status
<1>3. ASSUME NEW q, NEW st \in Sched!TerminalStatus,
             Sched!PromoteStep([table EXCEPT ![t] = st], q, table', queue')
      PROVE  \A tb2 : tb2 = table' => Released(table, t, tb2)
  BY <1>3, StopReleases
<1>4. ASSUME NEW success \in BOOLEAN, Sched!FinishStep(table, queue, t, success, table', queue')
      PROVE  \A tb2 : tb2 = table' => Released(table, t, tb2)
  <2> DEFINE st == IF success THEN "completed" ELSE "failed"
  <2>1. Sched!PromoteStep([table EXCEPT ![t] = st], queue, table', queue')
    BY <1>4 DEF Sched!FinishStep
  <2>2. st \in Sched!TerminalStatus
    BY DEF Sched!TerminalStatus
  <2> HIDE DEF st
  <2> QED  BY <1>3, <2>1, <2>2, Zenon
<1>5. ASSUME Sched!CancelStep(table, queue, t, table', queue')
      PROVE  \A tb2 : tb2 = table' => Released(table, t, tb2)
  <2>1. PICK q : Sched!PromoteStep([table EXCEPT ![t] = "cancelled"], q, table', queue')
    BY <1>5, Zenon DEF Sched!CancelStep
  <2>2. "cancelled" \in Sched!TerminalStatus
    BY DEF Sched!TerminalStatus
  <2> QED  BY <1>3, <2>1, <2>2, Zenon
<1>6. phase = "completed" \/ phase = "needs_intervention" \/ phase = "cancelled"
         => phase \in Phase!Final
  BY DEF Phase!Final
<1>7. TRUE \in BOOLEAN /\ FALSE \in BOOLEAN
  OBVIOUS
<1>8. \A tb2 : tb2 = table' /\ Released(table, t, tb2) =>
          /\ table' \in [TaskIds -> Sched!Status]
          /\ table'[t] \notin {"running", "queued"}
          /\ \A u \in TaskIds \ {t} : \/ table'[u] = table[u]
                                      \/ table[u] = "queued" /\ table'[u] = "running"
  BY DEF Released
<1> QED  BY <1>1, <1>2, <1>4, <1>5, <1>6, <1>7, <1>8, Zenon DEF SyncStep

-----------------------------------------------------------------------------
(* The steps that only one thread takes.                                   *)

\* A request that starts takes the lock, and what it may save follows the
\* checkpoint it loads.
LEMMA StartEffect ==
    ASSUME TypeOK, NEW h \in Threads, NEW t \in TaskIds, Start(h, t)
    PROVE  /\ Free(h, t) /\ UNCHANGED <<created, disk, table, queue, faults>>
           /\ \E outcomes \in SUBSET Checkpoints :
                 /\ \A d \in outcomes : Follows(disk[t], d)
                 /\ thread' = [thread EXCEPT ![h] = Turn(t, outcomes)]
<1>1. disk[t] \in Checkpoints
  BY DEF TypeOK
<1>2. Phase!Decided(disk[t]) \subseteq Checkpoints /\ Phase!Answered(disk[t]) \subseteq Checkpoints
  BY <1>1, DecidedType, AnsweredType
<1>3. CASE StartAdvance(h, t)
  <2>1. CASE table[t] # "queued" /\ disk[t].phase = "created"
    <3>1. thread' = [thread EXCEPT ![h] = Turn(t, Phase!Decided(disk[t]))]
      BY <1>3, <2>1 DEF StartAdvance
    <3>2. \A d \in Phase!Decided(disk[t]) : Follows(disk[t], d)
      BY <2>1 DEF Follows
    <3> QED  BY <1>2, <1>3, <3>1, <3>2 DEF StartAdvance
  <2>2. CASE ~(table[t] # "queued" /\ disk[t].phase = "created")
    <3>1. thread' = [thread EXCEPT ![h] = Turn(t, {disk[t]})]
      BY <1>3, <2>2 DEF StartAdvance
    <3>2. \A d \in {disk[t]} : Follows(disk[t], d)
      BY DEF Follows
    <3>3. {disk[t]} \in SUBSET Checkpoints
      BY <1>1
    <3> QED  BY <1>3, <3>1, <3>2, <3>3 DEF StartAdvance
  <2> QED  BY <2>1, <2>2
<1>4. ASSUME NEW n \in 1..MaxRequests, StartToolResult(h, t, n)
      PROVE  /\ Free(h, t) /\ UNCHANGED <<created, disk, table, queue, faults>>
             /\ \E outcomes \in SUBSET Checkpoints :
                   /\ \A d \in outcomes : Follows(disk[t], d)
                   /\ thread' = [thread EXCEPT ![h] = Turn(t, outcomes)]
  <2> DEFINE decided == Phase!Decided([disk[t] EXCEPT !.answered = @ + 1])
  <2>1. disk[t].phase = "waiting_runtime"
    BY <1>4 DEF StartToolResult
  <2>2. \A d \in Phase!Answered(disk[t]) : Follows(disk[t], d)
    BY <2>1 DEF Follows
  <2>3. decided \subseteq Phase!Answered(disk[t])
    BY Zenon DEF Phase!Answered
  <2>4. \/ thread' = [thread EXCEPT ![h] = Turn(t, decided)]
        \/ \E settled \in Phase!Answered(disk[t]) :
              thread' = [thread EXCEPT ![h] = Turn(t, {settled})]
    BY <1>4, Zenon DEF StartToolResult
  <2>5. Free(h, t) /\ UNCHANGED <<created, disk, table, queue, faults>>
    BY <1>4 DEF StartToolResult
  <2> HIDE DEF decided
  <2>6. \E outcomes : /\ outcomes \subseteq Phase!Answered(disk[t])
                      /\ thread' = [thread EXCEPT ![h] = Turn(t, outcomes)]
    <3>1. CASE thread' = [thread EXCEPT ![h] = Turn(t, decided)]
      BY <2>3, <3>1
    <3>2. ASSUME NEW settled \in Phase!Answered(disk[t]),
                 thread' = [thread EXCEPT ![h] = Turn(t, {settled})]
          PROVE  {settled} \subseteq Phase!Answered(disk[t])
      OBVIOUS
    <3> QED  BY <2>4, <3>1, <3>2
  <2> QED  BY <1>2, <2>2, <2>5, <2>6
<1> QED  BY <1>3, <1>4 DEF Start

\* Nobody but the thread that saves holds the lock, so no lease breaks.
LEMMA SaveEffect ==
    ASSUME IInv, NEW h \in Threads, Save(h)
    PROVE  LET t == thread[h].task IN
           /\ t \in TaskIds /\ UNCHANGED <<created, table, queue>>
           /\ \E d \in Checkpoints : Follows(disk[t], d) /\ disk' = [disk EXCEPT ![t] = d]
           /\ thread' = [thread EXCEPT ![h] = [thread[h] EXCEPT !.step = "saved"]]
<1> DEFINE t == thread[h].task
           saved == [thread[h] EXCEPT !.step = "saved"]
<1>1. thread[h] \in Busy /\ thread[h].step = "turn"
  BY DEF IInv, TypeOK, Save, Idle
<1>2. t \in TaskIds /\ disk[t] \in Checkpoints
  BY <1>1 DEF IInv, TypeOK, Busy
<1>3. PICK d \in thread[h].outcomes : disk' = [disk EXCEPT ![t] = d]
  BY DEF Save
<1>4. Follows(disk[t], d) /\ d \in Checkpoints
  BY <1>1, <1>2, <1>3, FollowsType DEF IInv, TurnsAreCurrent
<1>5. \A k \in Threads : HoldsLock(k, t) => k = h
  BY <1>1, <1>2 DEF IInv, OneHolder, HoldsLock
<1>6. thread' = [thread EXCEPT ![h] = saved]
  <2>1. thread' = [k \in Threads |->
                      IF k = h THEN saved
                      ELSE IF HoldsLock(k, t) THEN [thread[k] EXCEPT !.lease = FALSE]
                      ELSE thread[k]]
    BY DEF Save, AfterSave
  <2> HIDE DEF saved, t
  <2>2. thread' = [k \in Threads |-> IF k = h THEN saved ELSE thread[k]]
    BY <1>5, <2>1
  <2>3. thread \in [Threads -> {Idle} \cup Busy]
    BY DEF IInv, TypeOK
  <2> QED  BY <2>2, <2>3
<1> QED  BY <1>2, <1>3, <1>4, <1>6 DEF Save

-----------------------------------------------------------------------------
(* The invariant.                                                          *)

LEMMA InvInit == Init => IInv
<1> SUFFICES ASSUME Init PROVE IInv
  OBVIOUS
<1>1. Phase!NewTask \in Checkpoints /\ Phase!NewTask.phase = "created"
  BY DEF Phase!NewTask, Checkpoints
<1>2. TypeOK
  BY <1>1 DEF Init, TypeOK, Sched!Init, Sched!Status
<1>3. \A h \in Threads : thread[h].step = "idle"
  BY DEF Init, Idle
<1>4. OneHolder /\ TurnsAreCurrent
  BY <1>3 DEF OneHolder, TurnsAreCurrent, HoldsLock
<1>5. SettledIsReleased
  BY DEF Init, Sched!Init, SettledIsReleased
<1> QED  BY <1>2, <1>4, <1>5 DEF IInv

\* A step that touches only the thread h, which then works on t alone.
LEMMA LockKept ==
    ASSUME OneHolder, NEW h \in Threads, NEW w,
           thread \in [Threads -> {Idle} \cup Busy], w \in {Idle} \cup Busy,
           thread' = [thread EXCEPT ![h] = w],
           w.step # "idle" => Free(h, w.task) \/ HoldsLock(h, w.task)
    PROVE  OneHolder' /\ thread' \in [Threads -> {Idle} \cup Busy]
<1>1. thread'[h] = w /\ \A k \in Threads \ {h} : thread'[k] = thread[k]
  OBVIOUS
<1>2. \A t \in TaskIds, k \in Threads :
          HoldsLock(k, t)' => HoldsLock(k, t) \/ (k = h /\ w.step # "idle" /\ t = w.task)
  BY <1>1 DEF HoldsLock
<1>3. \A k \in Threads \ {h} : w.step # "idle" => ~HoldsLock(k, w.task) \/ HoldsLock(h, w.task)
  BY DEF Free
<1>4. OneHolder'
  BY <1>1, <1>2, <1>3 DEF OneHolder
<1> QED  BY <1>4

LEMMA StartKeeps ==
    ASSUME IInv, NEW h \in Threads, NEW t \in TaskIds, Start(h, t) PROVE IInv'
<1>1. PICK outcomes \in SUBSET Checkpoints :
          /\ \A d \in outcomes : Follows(disk[t], d)
          /\ thread' = [thread EXCEPT ![h] = Turn(t, outcomes)]
  BY StartEffect DEF IInv
<1>2. /\ Free(h, t) /\ created' = created /\ disk' = disk /\ table' = table
  BY StartEffect DEF IInv
<1> DEFINE w == Turn(t, outcomes)
<1>3. w \in Busy /\ w.task = t /\ w.step = "turn" /\ w.lease /\ w.outcomes = outcomes
  BY DEF Turn, Busy
<1> HIDE DEF w
<1>4. OneHolder' /\ thread' \in [Threads -> {Idle} \cup Busy]
  BY <1>1, <1>2, <1>3, LockKept DEF IInv, TypeOK, w
<1>5. TypeOK'
  BY <1>2, <1>4 DEF IInv, TypeOK
<1>6. thread'[h] = w /\ \A k \in Threads \ {h} : thread'[k] = thread[k]
  BY <1>1 DEF IInv, TypeOK, w
<1>7. TurnsAreCurrent'
  BY <1>1, <1>2, <1>3, <1>6 DEF IInv, TurnsAreCurrent
<1>8. \A u \in TaskIds : Saved(u) => Saved(u)'
  <2>1. thread[h].step = "idle"
    BY <1>2 DEF Free
  <2> QED  BY <1>6, <2>1 DEF Saved
<1>9. SettledIsReleased'
  BY <1>2, <1>8 DEF IInv, SettledIsReleased
<1> QED  BY <1>4, <1>5, <1>7, <1>9 DEF IInv

LEMMA SaveKeeps == ASSUME IInv, NEW h \in Threads, Save(h) PROVE IInv'
<1> DEFINE t == thread[h].task
           w == [thread[h] EXCEPT !.step = "saved"]
<1>1. PICK d \in Checkpoints : disk' = [disk EXCEPT ![t] = d]
  BY SaveEffect
<1>2. /\ t \in TaskIds /\ created' = created /\ table' = table
      /\ thread' = [thread EXCEPT ![h] = w]
  BY SaveEffect
<1>3. thread[h] \in Busy /\ thread[h].step = "turn"
  BY DEF IInv, TypeOK, Save, Idle
<1>4. w \in Busy /\ w.task = t /\ w.step = "saved"
  BY <1>3 DEF Busy
<1>5. HoldsLock(h, t)
  BY <1>3 DEF HoldsLock
<1> HIDE DEF w, t
<1>6. OneHolder' /\ thread' \in [Threads -> {Idle} \cup Busy]
  BY <1>2, <1>4, <1>5, LockKept DEF IInv, TypeOK
<1>7. TypeOK'
  BY <1>1, <1>2, <1>6 DEF IInv, TypeOK
<1>8. thread'[h] = w /\ \A k \in Threads \ {h} : thread'[k] = thread[k]
  BY <1>2 DEF IInv, TypeOK
<1>9. \A u \in TaskIds \ {t} : disk'[u] = disk[u]
  BY <1>1, <1>2 DEF IInv, TypeOK
<1>10. TurnsAreCurrent'
  <2> SUFFICES ASSUME NEW k \in Threads, thread'[k].step = "turn"
               PROVE  thread'[k].lease
                      /\ \A c \in thread'[k].outcomes : Follows(disk'[thread'[k].task], c)
    BY DEF TurnsAreCurrent, Follows
  <2>1. k # h /\ thread'[k] = thread[k]
    BY <1>4, <1>8
  <2>2. thread[k] \in Busy
    BY <2>1 DEF IInv, TypeOK, Idle
  <2>3. thread[k].task \in TaskIds /\ thread[k].task # t
    BY <1>2, <1>5, <2>1, <2>2 DEF IInv, OneHolder, HoldsLock, Busy
  <2> QED  BY <1>9, <2>1, <2>3 DEF IInv, TurnsAreCurrent
<1>11. \A u \in TaskIds : u = t \/ Saved(u) => Saved(u)'
  BY <1>2, <1>3, <1>4, <1>8 DEF Saved
<1>12. SettledIsReleased'
  BY <1>2, <1>9, <1>11 DEF IInv, SettledIsReleased
<1> QED  BY <1>6, <1>7, <1>10, <1>12 DEF IInv

LEMMA SyncKeeps == ASSUME IInv, NEW h \in Threads, SyncScheduler(h) PROVE IInv'
<1> DEFINE t == thread[h].task
<1>1. thread[h] \in Busy /\ thread[h].step = "saved"
  BY DEF IInv, TypeOK, SyncScheduler, Idle
<1>2. t \in TaskIds
  BY <1>1 DEF Busy
<1>3. /\ thread' = [thread EXCEPT ![h] = Idle] /\ disk' = disk /\ created' = created
      /\ SyncStep(t, disk[t].phase)
  BY DEF SyncScheduler
<1> HIDE DEF t
<1>4. /\ table' \in [TaskIds -> Sched!Status]
      /\ disk[t].phase \in Phase!Final => table'[t] \notin {"running", "queued"}
      /\ \A u \in TaskIds \ {t} : \/ table'[u] = table[u]
                                  \/ table[u] = "queued" /\ table'[u] = "running"
  BY <1>2, <1>3, SyncEffect DEF IInv, TypeOK
<1>5. OneHolder' /\ thread' \in [Threads -> {Idle} \cup Busy]
  BY <1>3, LockKept DEF IInv, TypeOK, Idle
<1>6. TypeOK'
  BY <1>3, <1>4, <1>5 DEF IInv, TypeOK
<1>7. thread'[h] = Idle /\ \A k \in Threads \ {h} : thread'[k] = thread[k]
  BY <1>3 DEF IInv, TypeOK
<1>8. TurnsAreCurrent'
  BY <1>3, <1>7 DEF IInv, TurnsAreCurrent, Idle
<1>9. \A u \in TaskIds \ {t} : Saved(u) => Saved(u)'
  BY <1>7 DEF Saved, t
<1>10. SettledIsReleased'
  BY <1>3, <1>4, <1>9 DEF IInv, SettledIsReleased
<1> QED  BY <1>5, <1>6, <1>8, <1>10 DEF IInv

LEMMA FailKeeps == ASSUME IInv, NEW h \in Threads, Fail(h) PROVE IInv'
<1>1. /\ thread' = [thread EXCEPT ![h] = Idle] /\ disk' = disk /\ created' = created
      /\ table' = table /\ thread[h].step = "turn"
  BY DEF Fail
<1>2. OneHolder' /\ thread' \in [Threads -> {Idle} \cup Busy]
  BY <1>1, LockKept DEF IInv, TypeOK, Idle
<1>3. TypeOK'
  BY <1>1, <1>2 DEF IInv, TypeOK
<1>4. thread'[h] = Idle /\ \A k \in Threads \ {h} : thread'[k] = thread[k]
  BY <1>1 DEF IInv, TypeOK
<1>5. TurnsAreCurrent'
  BY <1>1, <1>4 DEF IInv, TurnsAreCurrent, Idle
<1>6. \A u \in TaskIds : Saved(u) => Saved(u)'
  BY <1>1, <1>4 DEF Saved
<1>7. SettledIsReleased'
  BY <1>1, <1>6 DEF IInv, SettledIsReleased
<1> QED  BY <1>2, <1>3, <1>5, <1>7 DEF IInv

LEMMA RestartKeeps == ASSUME IInv, Restart PROVE IInv'
<1>1. /\ disk' = disk /\ created' = created /\ table' = [t \in TaskIds |-> "absent"]
      /\ thread' = [h \in Threads |-> Idle]
  BY DEF Restart, Sched!Restart
<1>2. TypeOK'
  BY <1>1 DEF IInv, TypeOK, Sched!Status
<1>3. \A h \in Threads : thread'[h].step = "idle"
  BY <1>1 DEF Idle
<1>4. OneHolder' /\ TurnsAreCurrent'
  BY <1>3 DEF OneHolder, TurnsAreCurrent, HoldsLock
<1>5. SettledIsReleased'
  BY <1>1 DEF SettledIsReleased
<1> QED  BY <1>2, <1>4, <1>5 DEF IInv

LEMMA InvNext == IInv /\ [Next]_vars => IInv'
<1> SUFFICES ASSUME IInv, [Next]_vars PROVE IInv'
  OBVIOUS
<1>1. ASSUME NEW t \in TaskIds, CreateTask(t) PROVE IInv'
  BY <1>1 DEF CreateTask, IInv, TypeOK, OneHolder, TurnsAreCurrent, SettledIsReleased,
              HoldsLock, Saved
<1>2. CASE Restart
  BY <1>2, RestartKeeps
<1>3. CASE UNCHANGED vars
  BY <1>3 DEF vars, IInv, TypeOK, OneHolder, TurnsAreCurrent, SettledIsReleased,
              HoldsLock, Saved
<1> QED  BY <1>1, <1>2, <1>3, StartKeeps, SaveKeeps, SyncKeeps, FailKeeps DEF Next

LEMMA InvAlways == Spec => []IInv
BY InvInit, InvNext, PTL DEF Spec

\* The variables keep their types.
THEOREM TypeCorrect == Spec => []TypeOK
<1>1. IInv => TypeOK
  BY DEF IInv
<1> QED  BY <1>1, InvAlways, PTL

\* A settled task that no thread is at work on holds no slot and waits for
\* none (update_scheduler_from_state after every save).
THEOREM NoSlotLost == Spec => []SettledHoldsNoSlot
<1>1. IInv => SettledHoldsNoSlot
  <2> SUFFICES ASSUME IInv, NEW t \in created, disk[t].phase \in Phase!Final,
                      \A h \in Threads : ~HoldsLock(h, t)
               PROVE  table[t] \notin {"running", "queued"}
    BY DEF SettledHoldsNoSlot
  <2>1. t \in TaskIds /\ ~Saved(t)
    BY DEF IInv, TypeOK, Saved, HoldsLock
  <2> QED  BY <2>1 DEF IInv, SettledIsReleased
<1> QED  BY <1>1, InvAlways, PTL

\* The lock of a task keeps every lease: revalidate_v3_lease never finds
\* another checkpoint than the one its request loaded.
THEOREM LeasesHold == Spec => []LeaseNeverBroken
<1>1. IInv => LeaseNeverBroken
  BY DEF IInv, TurnsAreCurrent, LeaseNeverBroken
<1> QED  BY <1>1, InvAlways, PTL

\* A task leaves the scheduler only when its checkpoint says that it is
\* settled (persist_state_and_sync_scheduler saves first).
THEOREM CheckpointBeforeRelease == Spec => ReleasedAfterCheckpoint
<1> DEFINE Order == \A t \in TaskIds :
                table[t] \in {"running", "queued"} /\ table'[t] \in {"completed", "failed", "cancelled"}
                    => disk[t].phase \in Phase!Final
<1>1. IInv /\ [Next]_vars => [Order]_vars
  <2> SUFFICES ASSUME IInv, Next, NEW t \in TaskIds, table[t] \in {"running", "queued"},
                      table'[t] \in {"completed", "failed", "cancelled"}
               PROVE  disk[t].phase \in Phase!Final
    OBVIOUS
  <2>1. table' # table
    OBVIOUS
  <2>2. CASE Restart
    BY <2>2 DEF Restart, Sched!Restart
  <2>3. CASE \E h \in Threads : SyncScheduler(h)
    <3>1. PICK h \in Threads : SyncScheduler(h)
      BY <2>3
    <3>2. thread[h].task \in TaskIds
      BY <3>1 DEF SyncScheduler, IInv, TypeOK, Idle, Busy
    <3>3. SyncStep(thread[h].task, disk[thread[h].task].phase)
      BY <3>1 DEF SyncScheduler
    <3>4. thread[h].task = t
      BY <3>2, <3>3, SyncEffect DEF IInv, TypeOK
    <3> QED  BY <3>2, <3>3, <3>4, SyncEffect DEF IInv, TypeOK
  <2> QED  BY <2>1, <2>2, <2>3
           DEF Next, CreateTask, Start, StartAdvance, StartToolResult, Save, Fail
<1> QED  BY <1>1, InvAlways, PTL DEF Spec, ReleasedAfterCheckpoint

\* No result is lost, applied twice or applied to an older checkpoint: every
\* save of every thread is a step of the loop from what was saved last.
THEOREM CheckpointsFollow == Spec => CheckpointsFollowTheLoop
<1> DEFINE Steps == \A t \in TaskIds : disk'[t] = disk[t] \/ Task(t)!Next
<1>1. Init => \A t \in TaskIds : Task(t)!Init
  BY DEF Init, Task!Init, Phase!NewTask, Task!NewTask
<1>2. IInv /\ [Next]_vars => [Steps]_disk
  <2> SUFFICES ASSUME IInv, Next, disk' # disk, NEW t \in TaskIds
               PROVE  disk'[t] = disk[t] \/ Task(t)!Next
    BY DEF vars
  <2>1. PICK h \in Threads : Save(h)
    BY DEF Next, CreateTask, Start, StartAdvance, StartToolResult, SyncScheduler, Fail, Restart
  <2>2. PICK d \in Checkpoints : /\ Follows(disk[thread[h].task], d)
                                 /\ disk' = [disk EXCEPT ![thread[h].task] = d]
    BY <2>1, SaveEffect
  <2>3. CASE thread[h].task # t
    BY <2>2, <2>3 DEF IInv, TypeOK
  <2>4. CASE thread[h].task = t
    <3>1. disk'[t] = d /\ Follows(disk[t], d)
      BY <2>2, <2>4 DEF IInv, TypeOK
    <3> QED  BY <3>1 DEF Follows, Task!Next, Task!Decide, Task!Answer, Task!Decided,
                         Task!Answered, Phase!Decided, Phase!Answered
  <2> QED  BY <2>3, <2>4
<1> QED  BY <1>1, <1>2, InvAlways, PTL DEF Spec, CheckpointsFollowTheLoop

-----------------------------------------------------------------------------
(* The scheduler inside the service.                                       *)

\* The service uses its scheduler as TaskScheduler says: no thread touches
\* the table and the queue but by submit, finish, cancel and a restart.
THEOREM SchedulerImplemented == Spec => Sched!Spec
<1>1. Init => Sched!Init
  BY DEF Init
<1>2. IInv /\ [Next]_vars => [Sched!Next]_(Sched!vars)
  <2> SUFFICES ASSUME IInv, Next, UNCHANGED <<table, queue>> => FALSE PROVE Sched!Next
    BY DEF vars, Sched!vars
  <2>1. CASE Restart
    BY <2>1 DEF Restart, Sched!Next
  <2>2. CASE \E h \in Threads : SyncScheduler(h)
    <3>1. PICK h \in Threads : SyncScheduler(h)
      BY <2>2
    <3>2. PICK t \in TaskIds : t = thread[h].task
      BY <3>1 DEF SyncScheduler, IInv, TypeOK, Idle, Busy
    <3>3. SyncStep(t, disk[t].phase)
      BY <3>1, <3>2 DEF SyncScheduler
    <3> QED  BY <3>3 DEF SyncStep, Sched!Next, Sched!Submit, Sched!Finish, Sched!Cancel
  <2> QED  BY <2>1, <2>2
           DEF Next, CreateTask, Start, StartAdvance, StartToolResult, Save, Fail
<1> QED  BY <1>1, <1>2, InvAlways, PTL DEF Spec, Sched!Spec

\* What is proved of the scheduler, about the table and the queue of the
\* service.
SP == INSTANCE TaskSchedulerProofs WITH tasks <- table

LEMMA SameSlots == \A tb : SP!HasSlot(tb) <=> Sched!HasSlot(tb)
<1>1. \A S : SP!Cardinality(S) = Sched!Cardinality(S)
  BY DEF SP!Cardinality, Sched!Cardinality
<1> QED  BY <1>1 DEF SP!HasSlot, Sched!HasSlot, SP!RunningIn, Sched!RunningIn

LEMMA SamePromotion ==
    ASSUME NEW tb, NEW q, NEW tb2, NEW q2
    PROVE  SP!PromoteStep(tb, q, tb2, q2) <=> Sched!PromoteStep(tb, q, tb2, q2)
<1>1. \A t, n : SP!Promotable(t, q, n) = Sched!Promotable(t, q, n)
  BY DEF SP!Promotable, Sched!Promotable, SP!QueuedIn, Sched!QueuedIn
<1>2. \A t, s : SP!Promote(t, s) = Sched!Promote(t, s)
  BY DEF SP!Promote, Sched!Promote
<1>3. \A t, n : SP!PopsExactly(t, q, n) <=> Sched!PopsExactly(t, q, n)
  BY <1>1, <1>2, SameSlots DEF SP!PopsExactly, Sched!PopsExactly
<1> QED  BY <1>1, <1>2, <1>3, Zenon DEF SP!PromoteStep, Sched!PromoteStep

LEMMA SameScheduler == Sched!Spec => SP!Spec
<1>1. Sched!Init => SP!Init
  BY DEF Sched!Init, SP!Init
<1>2. ASSUME NEW t \in TaskIds PROVE Sched!Submit(t) => SP!Submit(t)
  BY SameSlots DEF Sched!Submit, SP!Submit, Sched!SubmitStep, SP!SubmitStep
<1>3. ASSUME NEW t \in TaskIds PROVE Sched!Finish(t) => SP!Finish(t)
  BY SamePromotion, Zenon DEF Sched!Finish, SP!Finish, Sched!FinishStep, SP!FinishStep
<1>4. ASSUME NEW t \in TaskIds PROVE Sched!Cancel(t) => SP!Cancel(t)
  <2>1. \A q, i : SP!DropAt(q, i) = Sched!DropAt(q, i)
    BY DEF SP!DropAt, Sched!DropAt
  <2> QED  BY <2>1, SamePromotion, Zenon
           DEF Sched!Cancel, SP!Cancel, Sched!CancelStep, SP!CancelStep
<1>5. [Sched!Next]_(Sched!vars) => [SP!Next]_(SP!vars)
  BY <1>2, <1>3, <1>4
  DEF Sched!Next, SP!Next, Sched!vars, SP!vars, Sched!Restart, SP!Restart
<1> QED  BY <1>1, <1>5, PTL DEF Sched!Spec, SP!Spec

\* So what is proved of the scheduler holds of the service: it never works on
\* more tasks at a time than max_concurrent_tasks, and lets none wait while a
\* slot is free.
THEOREM SlotsRespectedByService ==
    Spec => [](Sched!SlotsRespected /\ Sched!NoIdleSlotWhileQueued)
<1>1. SP!SchedulerAssumption
  <2>1. SP!IsFiniteSet(TaskIds) <=> IsFiniteSet(TaskIds)
    BY DEF SP!IsFiniteSet, IsFiniteSet
  <2> QED  BY <2>1, ServiceAssumption DEF SP!SchedulerAssumption
<1>2. SP!Spec => []SP!SlotsRespected
  BY <1>1, SP!SlotsAlwaysRespected
<1>3. SP!Spec => []SP!NoIdleSlotWhileQueued
  BY <1>1, SP!NoSlotLeftIdle
<1>4. SP!SlotsRespected => Sched!SlotsRespected
  <2>1. \A S : SP!Cardinality(S) = Sched!Cardinality(S)
    BY DEF SP!Cardinality, Sched!Cardinality
  <2> QED  BY <2>1 DEF SP!SlotsRespected, Sched!SlotsRespected, SP!RunningIn, Sched!RunningIn
<1>5. SP!NoIdleSlotWhileQueued => Sched!NoIdleSlotWhileQueued
  BY SameSlots DEF SP!NoIdleSlotWhileQueued, Sched!NoIdleSlotWhileQueued,
                   SP!QueuedIn, Sched!QueuedIn
<1> QED  BY <1>2, <1>3, <1>4, <1>5, SameScheduler, SchedulerImplemented, PTL

=============================================================================
