--------------------------- MODULE AgentTaskService ---------------------------
(***************************************************************************)
(* The endpoints of the Python Agent service for V3 tasks                  *)
(* (src/agent/app/api/tasks.py) over the admission scheduler, the tool     *)
(* loop (by its steps in TaskPhases) and the checkpoints on disk.          *)
(*                                                                         *)
(* A request to the service is handled by a thread.  It takes the lock of  *)
(* its task, loads the checkpoint, lets the loop decide - which may call   *)
(* the model and take long -, saves, and brings the scheduler up to date.  *)
(* Other threads run between these steps, and the process may stop.        *)
(***************************************************************************)
EXTENDS Naturals, Sequences, FiniteSets

CONSTANTS TaskIds, MaxConcurrent, MaxRequests,
          Threads,     \* the threads that handle requests
          MaxFaults    \* bound: restarts and failed requests

ASSUME ServiceAssumption ==
    /\ IsFiniteSet(TaskIds) /\ IsFiniteSet(Threads)
    /\ MaxConcurrent \in Nat \ {0} /\ MaxRequests \in Nat \ {0}
    /\ MaxFaults \in Nat

VARIABLES created,   \* the tasks that have a checkpoint
          disk,      \* the checkpoint of each task
          table, queue,  \* the scheduler's _tasks and _queue
          thread,    \* what each thread is doing
          faults

vars == <<created, disk, table, queue, thread, faults>>

Task(t) == INSTANCE TaskPhases WITH task <- disk[t]
Phase   == INSTANCE TaskPhases WITH task <- disk
Sched   == INSTANCE TaskScheduler WITH tasks <- table

-----------------------------------------------------------------------------
(* A busy thread holds the lock of its task.  "outcomes" is what it may    *)
(* save, "lease" whether the checkpoint index is still the one it loaded.  *)

Idle == [step |-> "idle"]

Turn(t, outcomes) ==
    [step |-> "turn", task |-> t, outcomes |-> outcomes, lease |-> TRUE]

HoldsLock(h, t) == thread[h].step # "idle" /\ thread[h].task = t

\* Mutant: no lock per task.
FreeThread(h, t) == thread[h].step = "idle"

Free(h, t) == thread[h].step = "idle" /\ \A k \in Threads : ~HoldsLock(k, t)

\* Every save of a task ends the leases that other threads hold on it.
AfterSave(h, t) ==
    [k \in Threads |->
        IF k = h THEN [thread[h] EXCEPT !.step = "saved"]
        ELSE IF HoldsLock(k, t) THEN [thread[k] EXCEPT !.lease = FALSE]
        ELSE thread[k]]

-----------------------------------------------------------------------------
Init ==
    /\ created = {}
    /\ disk = [t \in TaskIds |-> Phase!NewTask]
    /\ Sched!Init
    /\ thread = [h \in Threads |-> Idle]
    /\ faults = 0

\* create_task: a checkpoint, and no place in the scheduler.
CreateTask(t) ==
    /\ t \notin created
    /\ created' = created \cup {t}
    /\ UNCHANGED <<disk, table, queue, thread, faults>>

\* Mutant: the model is asked although a request is open.
AdvancePaused(h, t) ==
    /\ t \in created /\ Free(h, t)
    /\ thread' = [thread EXCEPT ![h] = Turn(t, Phase!Decided(disk[t]))]
    /\ UNCHANGED <<created, disk, table, queue, faults>>

\* advance_task, up to the model call.  A task the scheduler has queued is
\* saved as it is; one it does not know yet goes on.
StartAdvance(h, t) ==
    /\ t \in created /\ Free(h, t)
    /\ LET asks == table[t] # "queued" /\ disk[t].phase = "created"
       IN  thread' = [thread EXCEPT ![h] =
                        Turn(t, IF asks THEN Phase!Decided(disk[t]) ELSE {disk[t]})]
    /\ UNCHANGED <<created, disk, table, queue, faults>>

\* submit_tool_result with the answer to the n-th request.  Any other than
\* the open one is a replay or a conflict, and is refused without effect.
StartToolResult(h, t, n) ==
    /\ t \in created /\ Free(h, t)
    /\ disk[t].phase = "waiting_runtime" /\ n = disk[t].issued
    /\ LET answered == [disk[t] EXCEPT !.answered = @ + 1]
       IN  \/ thread' = [thread EXCEPT ![h] = Turn(t, Phase!Decided(answered))]
           \/ \E settled \in Phase!Answered(disk[t]) :
                 /\ settled.phase # "needs_intervention"
                 /\ thread' = [thread EXCEPT ![h] = Turn(t, {settled})]
    /\ UNCHANGED <<created, disk, table, queue, faults>>

\* revalidate_v3_lease and the save of persist_state_and_sync_scheduler.
Save(h) ==
    /\ thread[h].step = "turn" /\ thread[h].lease
    /\ \E outcome \in thread[h].outcomes : disk' = [disk EXCEPT ![thread[h].task] = outcome]
    /\ thread' = AfterSave(h, thread[h].task)
    /\ UNCHANGED <<created, table, queue, faults>>

\* Mutant: a task that needs a human is not counted as settled.
SyncKeepsSlot(t, phase) ==
    \/ /\ phase \in {"completed", "cancelled"} /\ table[t] = "absent"
       /\ UNCHANGED <<table, queue>>
    \/ phase = "completed" /\ Sched!FinishStep(table, queue, t, TRUE, table', queue')
    \/ phase = "cancelled" /\ Sched!CancelStep(table, queue, t, table', queue')
    \/ /\ phase \notin {"completed", "cancelled"}
       /\ Sched!SubmitStep(table, queue, t, table', queue')

\* update_scheduler_from_state: a settled task leaves the scheduler if it is
\* known there; any other is admitted if it is not.
SyncStep(t, phase) ==
    \/ /\ phase \in Phase!Final /\ table[t] = "absent"
       /\ UNCHANGED <<table, queue>>
    \/ /\ phase = "completed"
       /\ Sched!FinishStep(table, queue, t, TRUE, table', queue')
    \/ /\ phase = "needs_intervention"
       /\ Sched!FinishStep(table, queue, t, FALSE, table', queue')
    \/ /\ phase = "cancelled"
       /\ Sched!CancelStep(table, queue, t, table', queue')
    \/ /\ phase \notin Phase!Final
       /\ Sched!SubmitStep(table, queue, t, table', queue')

SyncScheduler(h) ==
    /\ thread[h].step = "saved"
    /\ SyncStep(thread[h].task, disk[thread[h].task].phase)
    /\ thread' = [thread EXCEPT ![h] = Idle]
    /\ UNCHANGED <<created, disk, faults>>

\* Mutant: a request that fails gives up the slot of its task.
FailReleases(h) ==
    /\ thread[h].step = "turn"
    /\ faults < MaxFaults /\ faults' = faults + 1
    /\ Sched!FinishStep(table, queue, thread[h].task, FALSE, table', queue')
    /\ thread' = [thread EXCEPT ![h] = Idle]
    /\ UNCHANGED <<created, disk>>

\* A broken lease is answered 409; a save or a gateway may also raise.
Fail(h) ==
    /\ thread[h].step = "turn"
    /\ faults < MaxFaults /\ faults' = faults + 1
    /\ thread' = [thread EXCEPT ![h] = Idle]
    /\ UNCHANGED <<created, disk, table, queue>>

\* The process stops and starts again; only the checkpoints are left.
Restart ==
    /\ faults < MaxFaults /\ faults' = faults + 1
    /\ Sched!Restart
    /\ thread' = [h \in Threads |-> Idle]
    /\ UNCHANGED <<created, disk>>

Start(h, t) ==
    \/ StartAdvance(h, t)
    \/ \E n \in 1..MaxRequests : StartToolResult(h, t, n)

Next ==
    \/ \E t \in TaskIds : CreateTask(t) \/ \E h \in Threads : Start(h, t)
    \/ \E h \in Threads : Save(h) \/ SyncScheduler(h) \/ Fail(h)
    \/ Restart

Spec == Init /\ [][Next]_vars

\* A thread that runs goes on, and the Runtime keeps reporting the result of
\* the open request until the task's lock is free for it.
ToolResult(t) == \E h \in Threads, n \in 1..MaxRequests : StartToolResult(h, t, n)

FairSpec ==
    /\ Spec
    /\ \A h \in Threads : WF_vars(Save(h)) /\ WF_vars(SyncScheduler(h))
    /\ \A t \in TaskIds : SF_vars(ToolResult(t))

-----------------------------------------------------------------------------
\* No slot is lost: when no thread is at work on a settled task, the task
\* holds no slot and waits for none, however the threads were interleaved.
SettledHoldsNoSlot ==
    \A t \in created :
        /\ disk[t].phase \in Phase!Final
        /\ \A h \in Threads : ~HoldsLock(h, t)
        => table[t] \notin {"running", "queued"}

\* The checkpoint is saved before the scheduler is told: a slot is given up
\* only for a task that a restart would find settled.
ReleasedAfterCheckpoint ==
    [][\A t \in TaskIds :
          table[t] \in {"running", "queued"} /\ table'[t] \in {"completed", "failed", "cancelled"}
              => disk[t].phase \in Phase!Final]_vars

\* No result is lost, applied twice or applied to an older checkpoint: the
\* checkpoints of a task follow the loop's steps one by one, through
\* concurrent requests, failed ones and restarts.
CheckpointsFollowTheLoop ==
    /\ \A t \in TaskIds : Task(t)!Init
    /\ [][\A t \in TaskIds : disk'[t] = disk[t] \/ Task(t)!Next]_disk

\* A request is never handled with a checkpoint another one has replaced.
LeaseNeverBroken == \A h \in Threads : thread[h].step = "turn" => thread[h].lease

\* A queued task is admitted in the end, unless the slots are kept by tasks
\* that wait for an approval.
QueuedEventuallyAdmitted ==
    \A t \in TaskIds :
        table[t] = "queued" ~> \/ table[t] # "queued"
                               \/ \E u \in TaskIds : disk[u].phase = "waiting_approval"
=============================================================================
