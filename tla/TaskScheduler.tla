---------------------------- MODULE TaskScheduler ----------------------------
(***************************************************************************)
(* The in-memory admission scheduler of the Python Agent service           *)
(* (src/agent/app/scheduler.py).  Every public method runs under one lock, *)
(* so each of them is one atomic action.  The scheduler keeps nothing on   *)
(* disk: a restart of the Agent process empties it.                        *)
(*                                                                         *)
(* The operators take the table and the queue as arguments, so that        *)
(* AgentTaskService can use them on its own copy.                          *)
(***************************************************************************)
EXTENDS Naturals, Sequences, FiniteSets

CONSTANTS TaskIds,        \* the identifiers the API passes to the scheduler
          MaxConcurrent   \* max_concurrent_tasks

ASSUME SchedulerAssumption ==
    /\ IsFiniteSet(TaskIds)
    /\ MaxConcurrent \in Nat \ {0}

VARIABLES tasks,   \* _tasks: the status of every known task, "absent" when unknown
          queue    \* _queue: a deque of task ids, oldest first

vars == <<tasks, queue>>

TerminalStatus == {"completed", "failed", "cancelled"}
Status == {"absent", "running", "queued"} \cup TerminalStatus

-----------------------------------------------------------------------------
(* Helpers on a table of statuses.                                         *)

RunningIn(table) == {t \in TaskIds : table[t] = "running"}
QueuedIn(table)  == {t \in TaskIds : table[t] = "queued"}

\* Mutant: one task too many.
HasSlotOffByOne(table) == Cardinality(RunningIn(table)) <= MaxConcurrent

HasSlot(table) == Cardinality(RunningIn(table)) < MaxConcurrent

\* The tasks among the first n entries of q that still wait for a slot; an
\* entry whose task has left "queued" is dropped without being started.
Promotable(table, q, n) == {q[i] : i \in 1..n} \cap QueuedIn(table)

Promote(table, picked) ==
    [t \in TaskIds |-> IF t \in picked THEN "running" ELSE table[t]]

\* _promote_next_locked pops the queue while a slot is free: it pops n
\* entries when the loop condition held before each of the n pops and fails
\* after the last.
PopsExactly(table, q, n) ==
    /\ \A m \in 0..(n - 1) : HasSlot(Promote(table, Promotable(table, q, m)))
    /\ \/ n = Len(q)
       \/ ~HasSlot(Promote(table, Promotable(table, q, n)))

-----------------------------------------------------------------------------
(* The methods, as relations between a table and queue and the next ones.  *)

\* Mutant: a task that waits is queued again when it is submitted again.
SubmitQueuesAgain(table, q, t, table2, q2) ==
    \/ /\ table[t] \notin {"absent", "queued"}
       /\ table2 = table /\ q2 = q
    \/ /\ table[t] = "absent" /\ HasSlot(table)
       /\ table2 = [table EXCEPT ![t] = "running"] /\ q2 = q
    \/ /\ table[t] \in {"absent", "queued"} /\ ~HasSlot(table)
       /\ table2 = [table EXCEPT ![t] = "queued"] /\ q2 = Append(q, t)

\* Mutant: appendleft for append.
SubmitAtTheFront(table, q, t, table2, q2) ==
    \/ /\ table[t] # "absent"
       /\ table2 = table /\ q2 = q
    \/ /\ table[t] = "absent" /\ HasSlot(table)
       /\ table2 = [table EXCEPT ![t] = "running"] /\ q2 = q
    \/ /\ table[t] = "absent" /\ ~HasSlot(table)
       /\ table2 = [table EXCEPT ![t] = "queued"] /\ q2 = <<t>> \o q

\* submit: a known id is answered with its present status, whatever it is.
SubmitStep(table, q, t, table2, q2) ==
    \/ /\ table[t] # "absent"
       /\ table2 = table /\ q2 = q
    \/ /\ table[t] = "absent" /\ HasSlot(table)
       /\ table2 = [table EXCEPT ![t] = "running"] /\ q2 = q
    \/ /\ table[t] = "absent" /\ ~HasSlot(table)
       /\ table2 = [table EXCEPT ![t] = "queued"] /\ q2 = Append(q, t)

PromoteStep(table, q, table2, q2) ==
    \E n \in 0..Len(q) :
        /\ PopsExactly(table, q, n)
        /\ table2 = Promote(table, Promotable(table, q, n))
        /\ q2 = SubSeq(q, n + 1, Len(q))

\* Mutant: finish without _promote_next_locked.
FinishOnly(table, q, t, success, table2, q2) ==
    /\ table[t] # "absent" /\ q2 = q
    /\ table2 = [table EXCEPT ![t] = IF success THEN "completed" ELSE "failed"]

\* finish: allowed from every status, and a queued task that finishes leaves
\* its entry behind in the queue.
FinishStep(table, q, t, success, table2, q2) ==
    /\ table[t] # "absent"
    /\ PromoteStep([table EXCEPT ![t] = IF success THEN "completed" ELSE "failed"],
                   q, table2, q2)

\* The queue without its i-th entry.
DropAt(q, i) == [j \in 1..(Len(q) - 1) |-> IF j < i THEN q[j] ELSE q[j + 1]]

\* Mutant: cancel without _promote_next_locked.
CancelOnly(table, q, t, table2, q2) ==
    /\ table2 = [table EXCEPT ![t] = "cancelled"]
    /\ \/ table[t] \notin {"absent", "queued"} /\ q2 = q
       \/ table[t] = "queued" /\ \E i \in 1..Len(q) : q[i] = t /\ q2 = DropAt(q, i)

\* cancel: the entry of a queued task is removed; it has only one, as submit
\* queues an id once and no method but a restart forgets it.
CancelStep(table, q, t, table2, q2) ==
    LET cancelled == [table EXCEPT ![t] = "cancelled"]
    IN  \/ /\ table[t] \notin {"absent", "queued"}
           /\ PromoteStep(cancelled, q, table2, q2)
        \/ /\ table[t] = "queued"
           /\ \E i \in 1..Len(q) : /\ q[i] = t
                                   /\ PromoteStep(cancelled, DropAt(q, i), table2, q2)

-----------------------------------------------------------------------------
Init ==
    /\ tasks = [t \in TaskIds |-> "absent"]
    /\ queue = <<>>

Submit(t) == SubmitStep(tasks, queue, t, tasks', queue')

Finish(t) == \E success \in BOOLEAN : FinishStep(tasks, queue, t, success, tasks', queue')

Cancel(t) == CancelStep(tasks, queue, t, tasks', queue')

\* A new process builds a new TaskScheduler.
Restart ==
    /\ tasks' = [t \in TaskIds |-> "absent"]
    /\ queue' = <<>>

Next ==
    \/ \E t \in TaskIds : Submit(t) \/ Finish(t) \/ Cancel(t)
    \/ Restart

Spec == Init /\ [][Next]_vars

\* The task that holds a slot is eventually reported finished; nothing else
\* is assumed of the callers.
FinishRunning(t) == tasks[t] = "running" /\ Finish(t)

FairSpec == Spec /\ \A t \in TaskIds : WF_vars(FinishRunning(t))

-----------------------------------------------------------------------------
TypeOK ==
    /\ tasks \in [TaskIds -> Status]
    /\ queue \in Seq(TaskIds)

\* The configured number of slots is never exceeded, whatever is finished,
\* cancelled or resubmitted in whatever order.
SlotsRespected == Cardinality(RunningIn(tasks)) <= MaxConcurrent

\* No task is lost by the scheduler: one that waits for a slot has exactly
\* one entry in the queue, although finish leaves stale entries there.
QueuedHasOneEntry ==
    \A t \in QueuedIn(tasks) :
        \E i \in 1..Len(queue) : queue[i] = t /\ \A j \in 1..Len(queue) : queue[j] = t => j = i

\* No slot is wasted: while a task waits, every slot is taken.
NoIdleSlotWhileQueued == QueuedIn(tasks) # {} => ~HasSlot(tasks)

\* First come, first served: a task that has to wait comes after all that
\* wait already, and when it is started, every task that entered the queue
\* before it has been started or has left.
Before(t, u) == \E i, j \in 1..Len(queue) : i < j /\ queue[i] = t /\ queue[j] = u

NoOvertaking ==
    [][\A t \in QueuedIn(tasks), u \in TaskIds :
          /\ tasks[u] # "queued" /\ tasks'[u] = "queued" => Before(t, u)'
          /\ tasks[u] = "queued" /\ Before(t, u) /\ tasks'[u] = "running"
                => tasks'[t] # "queued"]_vars

\* A waiting task is eventually started, or leaves, if every task that holds
\* a slot is eventually reported finished.
EventuallyAdmitted == \A t \in TaskIds : tasks[t] = "queued" ~> tasks[t] # "queued"
=============================================================================
