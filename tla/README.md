# Verification of CodeMax

TLA+ models of the parts of CodeMax whose correctness depends on the order of
events: what a language model may make the desktop application do, in which
order, how often, with whose permission, and what is left on disk when
something stops half way. Each model is translated from the source; the lines
each definition stands for are in `PROJECT.json` under `map`.

    tlc -workers 2 -config MCTaskScheduler.cfg MCTaskScheduler.tla   # one run
    tlapm TaskSchedulerProofs.tla                                    # one set of proofs

Paths below are relative to the repository; `RS/` is
`apps/desktop/src-tauri/src/`.

## 1. The system

CodeMax is a desktop application: a React interface, a Rust core (Tauri) that
owns the database, the worktrees and every side effect, and a Python Agent
service on localhost that talks to the model. The Agent decides, the Rust core
acts and reports back.

    React pages --commands--> Rust core --HTTP--> Python Agent --HTTP--> model
                                 |                     |
                        SQLite, worktrees, git   checkpoints (JSON files)

| Component | State | Operations | Interacts with |
|---|---|---|---|
| Task scheduler (`agent/app/scheduler.py`) | table of tasks, FIFO queue, slots | submit, finish, cancel | task API, under one lock |
| Autonomous loop, V3 (`agent/app/autonomous/loop.py`) | phase, messages, requests and results, counters | advance one turn, apply a tool result | model gateway (call of up to a minute), task API |
| Agent task API (`agent/app/api/tasks.py`, `graph/checkpoint.py`, `graph/state.py`) | task locks, checkpoints on disk | create, advance, tool-result, approval, file-commit, validation-result | loop, scheduler, disk; threads of a pool |
| Legacy graph, V1/V2 (`agent/app/graph/nodes.py`) | phase, plan, file operations, retries | plan, approval, edit, validate, analyse, complete | task API |
| Agent commands (`RS/commands/agent.rs`) | task rows, validation rounds | drive the Agent until it pauses, validate, commit files | HTTP to the Agent, file edits, command runs |
| Agent tool calls (`RS/commands/agent_tools.rs`) | rows of tool calls, event log | begin, dispatch, complete, recover | file edits, command runs |
| File edit transactions (`RS/commands/files.rs`, `RS/safe_fs.rs`) | `file_edit_transactions` rows, files of a worktree | execute, roll back, recover at startup | approvals, files |
| Approvals (`RS/commands/approvals.rs`, `RS/storage/mod.rs`) | `approvals` rows | ask, decide, expire, consume | file edits, command runs, the user |
| Command runs (`RS/commands/exec.rs`, `RS/exec/mod.rs`) | registry of processes, `command_runs`, `validation_rounds` | run, cancel, time out, record | approvals, operating system |
| Recovery (`RS/recovery.rs`, `RS/lib.rs`) | task status, recovery entries | at startup, before the interface | all rows |
| Merge (`RS/commands/merge.rs`, `RS/git/mod.rs`) | merge results, task status, git branches | preview, merge, undo | git, evidence gates |
| Worktrees (`RS/commands/tasks.rs`, `RS/commands/worktree.rs`, `RS/git/mod.rs`, `RS/workspace/mod.rs`) | task rows, directories, branches, artifacts | create, initialize, remove, clean up, delete | git |
| Agent service (`RS/agent/mod.rs`, `RS/commands/models.rs`) | child process, port, configuration | configure, start, wait for health, stop | operating system, key store |
| Delivery gates (`RS/commands/delivery.rs`, `diff.rs`, `s12_evidence.rs`) | evidence rows, diffs, reports, proof packs | record, compute blockers, refresh the status | merge |
| Privacy budget (`RS/privacy/mod.rs`) | outbound budget, ledger | observe, approve, block | model calls, delivery gates |
| Profiles and memory (`RS/commands/privacy.rs`) | profiles, preference candidates, memories | save, activate, decide | creation of tasks |
| Logs (`RS/exec/mod.rs`, `RS/commands/app.rs`) | log files and their compressed copies | write, compress, find, clean up | command runs |

Left aside: the React pages, the model providers, the tool table, memory and
context selection, the command classifier (`RS/safety/mod.rs`, a pure function
on strings), key store access, reports. They hold no state the others depend on, or
are pure input and output.

### What is hard

* **Threads of the Agent.** FastAPI runs the endpoints in a pool. They share the
  scheduler (one lock), the locks per task, and the checkpoints on disk. A model call
  of up to a minute lies between a load and a save.
* **Two processes, two memories.** The scheduler is in memory, the checkpoints are on
  disk: after a restart of the Agent the first is empty and the second is not.
* **Repeated and late results.** The Runtime may repeat a tool result, report it
  late, or report another for the same call.
* **Files are not a database.** A file edit alternates between database records and
  file operations; the application can stop between any two, again during
  the recovery.
* **Approvals outlive what they were asked for.** An approval is asked for, decided,
  found and consumed at four different times, by different actors, while the files,
  the contract and the task change.
* **Two writers of everything.** The window's commands run on one thread, the Agent's requests on others; both
  write the status of a task without looking at it.
* **git is not a database either.** A merge, a worktree or a branch is made first and recorded after.
* **Errors that leave things as they are.** Many paths return early with `?` after
  the first of several updates.

`PROJECT.json` lists the hazards one by one (`hazards`), each at its line with the
properties that would catch it.

## 2. The modules

| Module | Models | Extended by |
|---|---|---|
| `TaskScheduler` | the scheduler | `TaskSchedulerProofs`, `MCTaskScheduler`; instanced by `AgentTaskService` |
| `AutonomousLoop` | the loop of one V3 task, driven by its endpoints | `AgentServiceProofs`, `MCAutonomousLoop` |
| `TaskPhases` | what the loop promises: decide, answer, settle | instanced by `AutonomousLoop` and `AgentTaskService` |
| `AgentTaskService` | threads, locks, leases, checkpoints and scheduler | `AgentTaskServiceProofs`, `MCAgentTaskService` |
| `FileEditTransaction` | file edits, rollback and startup recovery | `StartupRecoveryProofs`, `MCFileEdit` |
| `AtomicEdits` | what a file edit promises: all or nothing | instanced by `FileEditTransaction` |
| `BoundApprovals` | approvals of commands and file edits | `BoundApprovalsProofs`, `MCRuntime` |
| `CommandRuns` | registry, processes, run records and validation rounds | `TaskRecovery` |
| `TaskRecovery` | a task moved by commands and by the Agent, and the startup recovery | `StartupRecoveryProofs`, `MCTaskRecovery` |
| `CommandLogs` | the log files of commands, their compression and cleanup | `RuntimeProofs`, `MCAgentToolCalls` |
| `AgentToolCalls` | the Runtime's side of the tool loop | `RuntimeProofs`, `MCAgentToolCalls` |
| `AgentRepair` | a task of the older workflows: Agent graph and the commands that drive it | `AgentRepairProofs`, `MCAgentRepair` |
| `AgentProcess` | the Python process and its configuration | `AgentServiceProofs`, `MCRuntime` |
| `DeliveryReview` | evidence, what of it blocks a merge, and the refresh of the status | `TaskDelivery` |
| `TaskDelivery` | diff, report, proof pack and merge, with the Agent at work | `TaskDeliveryProofs`, `MCTaskDelivery` |
| `PersonalProfiles` | profiles, preference candidates and memories | `TaskWorkspaces` |
| `TaskWorkspaces` | row, directory, branch and artifacts of the tasks of a project | `RuntimeProofs`, `MCRuntime` |

A type invariant is stated where it is proved (section 4), and not checked by a run of its own.
`MC...` modules only give the constants their values; `MCAgentToolCalls` and `MCRuntime` also put modules side by side that share
no state: `part`, chosen at the start, says which of them takes the steps. `MCRuntime` runs profiles and the tasks of `TaskWorkspaces`
apart as well: all that a task asks of the profiles is that one is active, as the default is at the start. In each module the
operators that a run is also made to fail with - a plausible mistake in the code
each - stand before the definition they replace and are marked `Mutant`.

### TaskScheduler

`tasks` is `_tasks` (the status per task, "absent" when there is none), `queue` is
`_queue`. One action per method; each method holds the lock for its whole body, so
each is one step. `PromoteStep` is `_promote_next_locked`: it pops until it finds
a task that still is queued, so the entries `finish` leaves behind are skipped. The
steps are stated over before- and after-values (`SubmitStep(tb, q, t, tb2, q2)`)
so that `AgentTaskService` can take them as parts of its own steps. `Restart` is
a new process: both are empty. `Init` is `__init__`.

### AutonomousLoop

One task. The state is the part of the checkpoint the loop reads: `phase`, the calls
of the model replies (`replies`), requests and results, the counters of rounds, tokens
and repeats. `Turn` is `advance_autonomous_turn` as a whole: the limits first, then
the model, whose reply is *any* batch of at most `MaxBatch` calls with any ids, tools
and arguments, text without calls, or an error of the provider;
`RecordDecision` validates the batch, issues the first call or settles.
`SubmitToolResult` is the endpoint with `apply_runtime_tool_result`: replay of a consumed
result, match with the open request, recording, then either the next call of the same
reply, the completion, or another turn. Contents of messages are left out; of a
call its id, tool and arguments are kept because identity and repetition depend on them.

### AgentTaskService

Composes `TaskPhases` (one per task, as the value of `disk[t]`), `TaskScheduler` (over
`table` and `queue`) and the threads. A request is three steps - start (lock and
load), save, bring the scheduler up to date - with other threads, a failure or a restart in
between. The loop is taken by what it promises; that `AutonomousLoop`
implements `TaskPhases` is a property of the run `loop`.

### FileEditTransaction

`row` has the rows of `file_edit_transactions` (status, operations, `applied_count`,
inverse operations with the saved contents), `files` the worktree. A transaction
alternates `Announce` (the progress record) and the operation: `Execute`, `OperationFails` (before its effect:
because of the files, or of any call of the file system), or `FailsLate` (the file is renamed into place, and opening or verifying it again
fails). `Commit` ends it, or `RollBack`, `Compensate` for each operation before the one that failed, and `FinishRollback`. A write of the row or an
undoing may fail too (`GiveUp`): the request is answered with an error and its row stays open until the next startup, and a startup that fails so stops the
application. `Crash` stops it anywhere, `StartAgain`
starts it; `RecoverRow` is one step of the startup recovery, and no request is taken before `Ready`. `late` is the history of what failed after its effect.
`Compensated` models the three cases of `compensate_operation` for each kind of
operation: already undone, undone now, or a conflict.

### BoundApprovals

`approvals` are the rows that are bound to an action and a content. Two or more calls (one
per user of an action: command or file edit) ask for, find and consume approvals;
in between the user decides, approvals expire, the contract is replaced, the files change
and other commands move the task. A command reads the worktree before
the store is locked (`ReadWorktree`) and authorizes after (`AuthorizeCommand`); a file
edit does both under one lock (`AuthorizeEdit`). The lookup, the checks of `enforce_*`
and the update of `consume_authorization` are one step because they share the
store's lock.

### CommandRuns and TaskRecovery

`CommandRuns` follows `run_task_command` call by call: `Begin` (the status is announced), `Register`,
`Spawn` or `SpawnFails`, the three arms of the `select!` (`Exit`, `Cancelled`, `TimeOut`), `Drain` with the guard of
the registry (`DropGuard`), `RecordRun`, and for a validation `RecordRound` and `SetStatus`. The last two
are separate writes under one lock of the store; other calls do not come in between, a stop of the application does.
The caller chooses the run id and may choose one again, as the command's interface allows.
`TaskRecovery` extends it with `sync_agent_state` (also two writes) and with the recovery at
startup, which is one database transaction and therefore one step (`Recover`, in `Restart`). A command that is
refused for want of an approval never begins here; what becomes of a process that outlives the application
is left out.

### CommandLogs

`logs` says whose output each file has, by name (`Stem` of the run id: two ids may have one name, as `safe_file_stem`
makes of them) and kind (log, copy in the making, compressed copy). A command opens its log before it is recorded,
compresses it in four calls of the file system, each of which may fail (`KeepsTheLog`), and records the file that it has then. The two
cleanups first list files and then remove one after another (`RemoveFile`). `touched` is a history variable: the runs
whose output was removed or shared, of which nothing is promised.

### AgentToolCalls

One row per call id (`audit`). A dispatch audits the call as requested or finds its row (`begin`), replays what is
settled, executes (asks the user, edits files under the id of the call, runs a command under it, or reads), and settles the
row: three locks of the store with other dispatches and a stop of the application in between. What edits and commands do
with an id that they have seen is taken from `FileEditTransaction` and `CommandRuns`.

### AgentRepair

`agent` is the checkpoint of one task (phase, open commit, results, rounds, approval), `rows` the file transactions of its
commit ids. Each command holds what it has read of the Agent, as the loops of `run_agent_validation_cycle` and of the file
commits do; each request is two steps, and the request or its response may be lost. The graph's nodes between two pauses are one
step, as they are one request. A stop of the application ends the commands and settles open transactions.

### AgentProcess

`process` are the Python processes ever started, whether the service's slot still has them or not; `Bind` and `Exit` are theirs. A start asks for health
first, then takes the slot, spawns, and waits for health; a stop kills and empties the slot; the configuration is
read from the rows and the key store in two steps and set in a third.

### DeliveryReview and TaskDelivery

`DeliveryReview` has the rows that the review reads and `CanMerge` over them, one operator per blocker
(`GateBlocks`, `HookBlocks`, ...), and the commands that record them. Commands of the window run one after another on its thread: `ui` is the
step in which the one under way is, with what it has read. A command that records evidence is followed by `Refresh` and
`WriteStatus`, which are locks of their own. `Decide` takes an approval, its breach and the status one statement after the other, each of which may
be the last. `TaskDelivery` adds the diff (git, file, row), the report and the proof pack (inputs under
one lock, validation under the next, grade), and the merge: compare, review, status, git, record, status, each a step, with edits,
validations and the Agent's status on other threads and `Restart` at any point. `target` is the history of the target branch.

### PersonalProfiles and TaskWorkspaces

Statements of the window's thread, each under a lock of its own. `TaskWorkspaces` has for each task its row and the workspace it
names, its directory (`dirs`, with the branch it has checked out and whether there is unsaved work), branches and artifacts, and whether the project has a
repository. Creation takes back what it has done when a step fails, and the taking back may fail as well; deletion
removes the row first, then the worktree or copy, the branch, the repository if it was initialized for the task and the user asks for that, and the artifacts, and goes on past
what fails. git looks for changes (`Removable`) in one step and removes the directory (`RemoveWorktree`) in another, and the Agent or a command may write between them. `incomplete` is
a history variable: the tasks of which a step that removes, takes back or settles has failed, or an operation was cut off by a stop. A new task needs an active profile, which is where the two modules meet.

## 3. The runs

| Run | What it shows | Bounds |
|---|---|---|
| `scheduler` | slots full but not overfull, first come first served, no task lost, each admitted in the end | 4 tasks, 2 slots, queue entries bounded by the stale ones `finish` can leave |
| `loop` | calls are carried out in order, one at a time, once; the limits settle every task; the loop implements `TaskPhases` with its fairness | 3 call ids, batches of 2, 2 rounds, 2 repeats, token budget 2 |
| `service` | checkpoints and slots stay in step; a queued task is admitted in the end | 2 tasks, 2 threads, 1 slot, 3 requests, 2 faults |
| `file_edit_crashes` | edits of which any operation or write may fail, concurrent with another, are all or nothing through two crashes at any point, but for one operation that failed after its effect; they settle, or are answered with an error and left to the next startup | 3 files, 2 requests (one of 2 operations of any kind), 2 crashes |
| `recovery` | validation rounds stay evidence; ready to merge is earned; a command that is cancelled or out of time waits for nothing but its outputs; what a startup stops it explains | 2 calls (one with a time limit), 2 run ids, 2 restarts |
| `repair` | the Agent only takes edits as applied that were committed; deletions are approved ones; repairs are bounded, whatever is lost or repeated | 2 commands, 1 repair, 1 validation each, 2 commit ids, 1 stop |
| `delivery` | nothing is merged that the user's evidence stands against; a task that says merged has its record, and what is on record is in the target; breaches are settled as they were decided | 2 contents, 2 validations of which one is a risk, 1 row of evidence of any kind, 1 artifact of a kind |
| `tool_calls` | an edit is applied once per call, a success is on record, a settled call stays; the log of a run is found | 3 dispatches, 2 call ids, 2 sets of parameters, 1 stop; 3 commands, 2 ids with one file name |
| `runtime` | approvals: one call per approval, one question at a time, no dead approval comes back; the Agent's process: a request is answered by a process with the configuration loaded for it, and there is one process, whatever exits, binds late or fails to start; workspaces: a listed task has its files, a failed creation or a deletion leaves no directory and no artifacts unless the removing itself fails, git begins no removal over changes; profiles: one is active, what is accepted is remembered | 2 calls, 2 approvals, changes of files, contract and task; 2 threads, 2 processes, 2 configurations, 1 restart; 2 tasks; 2 profiles, 1 candidate, 1 memory |

Three more runs end in a violation each and are the findings of section 5: `late_failure`, `merge_record` and `final_diff`.

The bounds are the smallest at which the interesting cases meet: two slots and four
tasks give a queue of two with one stale entry before it; a batch of two is the
smallest in which order and the tail of a reply matter, two rounds let a call id come
back in a later round; one slot and two tasks make one wait for the other;
two operations are the smallest undo with an order, two crashes reach a crash during
a recovery, two restarts an interruption while the first is still open; two calls are a race, for an approval as for a run id and for the status of a task;
two commands and one lost answer make the Agent see a commit twice; one row of evidence of each kind in turn is enough because
each blocker is a quantifier over the rows of one kind, and the proof of section 4 has any number; three
dispatches are a race and a replay after it; three commands are an old log, the one that replaces it and one beside them. Counters are capped by constants named in the modules
(`MaxRequests`, `MaxFaults`, `MaxCrashes`, `MaxEvidence`, ...). `MCFileEdit` takes requests
that keep out of each other's way (`SeparateEdits`, which TLC evaluates for all of them): no two name the same file, none names a file twice, and none is
a create that finds its own content or a rename of a file that is not there, whose rollback is in section 5. All its operations write one content, and the files hold that, another or
none at first: a third would tell apart nothing that two do not. `NoSilentOrphans` leaves out what section 5 says of
tasks of the original directory, and `OneInstance` and
`ServedAsConfigured` what follows once two threads have used the service at once or a process has survived a kill or the application (`disturbed`).

### Fairness

* `TaskScheduler`: weak fairness on `Finish` of a task that runs: every running task ends.
  The scheduler itself has no thread; it promises that *if* tasks end, waiting ones start.
* `AutonomousLoop`: weak fairness on `Turn` and on the Runtime's answer to the open request.
  The desktop application calls advance until the task pauses and answers each request; nothing
  else is assumed, in particular nothing about what the model says.
* `AgentTaskService`: weak fairness on the steps of a thread that has begun, strong fairness on
  the tool result of a task: it needs the task's lock, which other requests take and give back.
* `FileEditTransaction`: weak fairness on the steps of a transaction under way and on recovery, as a thread goes on to its next call.
  Whether a call succeeds, and requests and crashes, are never forced.
* `TaskRecovery`: strong fairness, for each call apart, on what the Runtime does with it once it has begun: it includes taking the
  store's lock, which others take and give back. `Exit` and `Drain` are not among these steps: a command may run for ever, and so may what it has started, which keeps its outputs open after the shell is killed.
  `OnlyOutputsAreAwaited` therefore ends where the call waits for the outputs.

The other modules state no fairness: what they promise holds at each step. No fairness is assumed of users, the model,
failures or restarts.

### Refinement

* `AutonomousLoop` implements `TaskPhases` (`ImplementsTaskPhases`), liveness included.
* The checkpoints of `AgentTaskService` follow `TaskPhases` one step at a time, per task
  (`CheckpointsFollowTheLoop`): no lost update, no result applied twice.
* The table and queue of `AgentTaskService` are those of a `TaskScheduler` (`Sched!Spec`), which is proved and
  not run: what is proved of the scheduler holds of the service.
* `FileEditTransaction` implements `AtomicEdits` (`ImplementsAtomicEdits`): the abstract worktree
  is the one with every open transaction undone, and each request changes it in one step: all of its files when it is committed, none
  when it is rolled back or those of one operation that slipped (failed after its effect).

## 4. The proofs

Proved for every value of the constants that meets the named assumptions.

**`TaskSchedulerProofs`**, from `SchedulerAssumption` (a positive number of slots; tasks that are
not the value "absent"): `TypeCorrect`, `SlotsAlwaysRespected`, `NoWaitingTaskLost`,
`NoSlotLeftIdle`, `FirstComeFirstServed`.
`QueuedHasOneEntry` and `NoIdleSlotWhileQueued` are not inductive alone: a pop starts the first
entry *that is still queued*, so the induction has to know that every queued task
has an entry, that it has only one, and that the table is settled (no free slot with a
queued task) before each method. The lemmas describe what `PromoteStep` does from a
table that is settled except for one slot; each action is then one case.

**`BoundApprovalsProofs`**, from `ApprovalsAssumption`: `TypeCorrect`, `ApprovalsAuthorizeOneCall`,
`UserAskedOnce`, `DeadApprovalsStayDead`. The invariant says which call holds which approval
(`Holds`): a call that was authorized has an approval that is consumed, was given for it, and
is no other call's. The lemma `Outcomes` lists what an authorization can do to the approvals,
`ApprovalSteps` what any step can, and the theorems follow from these.

**`TaskDeliveryProofs`**, from `ReviewAssumption` and `DeliveryAssumption`, for any contents, approvals, rows of evidence and numbers
of merges: `TypeCorrect`, `MergesOnRecord`, `BreachesFollow`, `MergesPassedReview`. `MergeInv` adds to `MergedIsOnRecord` what a merge under way has of it:
a step `merged` carries a content that the target has, a step `settle` to `merged` has its record, and no refresh writes `merged`
(this is where the assumption on the Agent's statuses enters). `BreachInv` adds which approval a decision under way has decided, and how. `ReviewInv`
says that between the review and git nothing stands against the work: the lemma `ReviewClears` for the review itself, `Uninvolved` for the
steps that leave the evidence alone, and for the others that they are commands of the window's thread, or only ask. `TypeInv` adds what each step
of the thread carries into the rows it will write. The rows of the budget are left out of `TypeOK`: what remains is
computed by a fold over the earlier rows, and no property rests on its type.

**`AgentServiceProofs`**, the Agent's loop and the process that it runs in.

The loop, from `LoopAssumption` (positive limits; identifiers that are not those for an empty or an unknown one): `TypeCorrect`,
`RequestsSerialInOrder`, `CallsAnsweredOnce`, for batches, rounds and limits of any size. `SerialInOrder` says nothing of what
the *next* turn will ask for: the invariant adds that every call the record holds was checked and has an id of its own (`Checked`), except in a task that is paused
for good, that a task about to ask the model has answered all its calls, and that the open request lies in the last
batch (`NextCall`). That the next call is found again from the messages (`Unanswered`) then follows: it is the one after
the last result. `Bounded` ties the number of calls to the rounds. `LoopImplementsPhases` is the step simulation of
`ImplementsTaskPhases`: a turn that asks the model, with the limit it meets or the batch it records, is `Decide`; an accepted result is
`Answer`; everything else leaves phase and counters alone.

The process, from `ProcessAssumption` (bounds are numbers): `ProcessTyped`, `OneProcess`, `RequestsServedAsConfigured`. A
start looks at a process, lets go of the lock, and acts on what it has seen. The invariant says, as long as nothing has disturbed it, that one thread
uses the service at a time and what this thread knows (`Knows`): all live processes are the child or the one it has in hand; there are none when it spawns; and they
have the service's configuration, unless the thread is about to stop them for the sake of a new one.

**`AgentTaskServiceProofs`**, from `ServiceAssumption` (finite sets of tasks and threads, a positive number of slots): `TypeCorrect`,
`NoSlotLost`, `LeasesHold`, `CheckpointBeforeRelease`, `CheckpointsFollow`. One thread holds the lock of a task (`OneHolder`); what it may
save is a successor of what is on disk *now* (`TurnsAreCurrent`); and a settled task has a slot only between the save and the call of the
scheduler (`SettledIsReleased`), which a restart ends by emptying the scheduler. `SchedulerImplemented` shows the service to be a refinement of `TaskScheduler`, and
`SlotsRespectedByService` takes `SlotsAlwaysRespected` over from there: the theorems compose as the modules do.

**`StartupRecoveryProofs`**, what a startup finds, in two parts.

Runs and tasks (`CommandRuns`, `TaskRecovery`), from `RunsAssumption` and `RecoveryAssumption` (no phase is the value for "no phase"):
`TypeCorrect`, `RoundsStandForRuns`, `ReadyByAPass`, `StartupExplains`. The row of a run is written once; a call that is about to write its round has written the row,
no round stands for it yet, and no other call is at that point with the same run (`RowBeforeRound`: this is where a run id used again is refused); the round of
the call that sets the status is the last one, because the store stays locked (`LastRound`). `InterruptedIsExplained` names the phases a session may be left in as those of
the model that stop by themselves, so that it is true of any set of phases.

File edits (`FileEditTransaction`), from `EditAssumption` and the hypothesis `SeparateEdits`, for any files, any number of requests of any length and any number of
stops: `EditsTyped`, `EditsAreAtomic`. The code asks for none of what `SeparateEdits` says, and section 5 tells what can happen without it; `EditsAreAtomic` is what it
promises to requests that do keep apart. `EditsInv` says that the first n operations of an open request are made and no other (`Made`): n is what the row records
when the next is about to begin, one less while it is executed, and anything up to the record when the application was stopped or the request is being undone
(`ThreadInv`, `AsRecorded`). `MadeNext` and `MadeBack` carry this over an operation and its undoing, `OneRequest` over the steps of other requests. What
a whole request does is a recursive function of the number of operations (`After`): `AfterEach` shows by taking the least operation where it fails
(`LeastNumber`, from the library's facts on well-founded relations) that every operation does to its own files what it would do alone. `Settling` then shows a
settled request's files to appear at once (`CommitSeen`), or as they were but for the operation in `late` (`RollbackSeen`), and `Unseen` that no other step is visible.

**`AgentRepairProofs`**, from `RepairAssumption` (bounds are numbers), for any commands and any loss of requests and answers: `TypeCorrect`, `AppliedIsCommitted`,
`OnlyApprovedDeletes`, `RepairsEnd`. The invariant follows a fact through the three places it is held: the checkpoint (`InStep`: rounds and
edits; `Permitted`: what it takes for approved was, in its own round), what a command was last told of it (`ToldInv`, which may be long outdated but stays true), and
the row (`CommitInv`: who edits has the only open transaction of its id; who reports, reports a committed one).

**`RuntimeProofs`**, three parts that share nothing but the module.

* Tool calls, from `ToolsAssumption`: `ToolCallsTyped`, `NoEditTwice`, `SuccessesOnRecord`, `SettledRowsFinal`, for any dispatches of any calls. An open
  transaction is one dispatch's (`EditsInv`); a dispatch that is about to write a success has what the row will name (`RecordInv`), and edits and runs that are
  on record stay there, through the stop as well.
* Logs, from `LogsAssumption`: `LogsAreFound`. As long as its output was neither removed nor shared, no other command of its file name
  runs (`Alone`), and its output is in the file of the kind that it would record now, whatever step of the compression fails next (`HasOutput`).
* Workspaces and profiles, from `ProfileAssumption` (there is the default profile): `WorkspacesTyped`, `OneProfileActive`, `AcceptedHasValue`, `ListedTasksHaveFiles`, `NoOrphans`,
  `ChangesAreKept`, for any number of tasks. The invariant says of the operation under way what it has done so far (`FilesUnderWay`,
  `TreeUnderWay`), of every other task what its row and its files have in common (`ListedAgrees`, `GoneAgrees`), unless it is `incomplete`, and of all, whatever failed, that
  git and directories agree (`TreeAgrees`: a listed task has its artifacts, a copy is no worktree, a worktree has its branch). The lemma `OneTask` carries the last two over a
  step on another task. `ChangesAreKept` needs besides that there are no worktrees without a repository nor before the first one of a repository initialized here (`NoRepository`): a creation
  that fails there removes the repository, and no branch with it that has changes on top.

Each invariant was checked by TLC as an invariant of the run of its module before it was proved.

Only model-checked:

* All liveness: `EventuallyAdmitted`, `QueuedEventuallyAdmitted`, `EventuallySettled`, `EverySettles`, `OnlyOutputsAreAwaited`, and the fairness that is part of
  `ImplementsTaskPhases`. The prover has no rules for fairness.
* `AllRolledBack`, `EveryMergeIsRecorded` and `FinalDiffNotEmpty`, which do not hold.

## 5. Where code and documents disagree

Shown by a run (`findings` in `PROJECT.json`):

* `late_failure`: an operation that fails after its rename (`RS/safe_fs.rs:197`, `:267`) is not undone, because the rollback is for the operations before it
  (`RS/commands/files.rs:161`). The row says `rolled_back`, the answer that all applied operations were (`:167`), and the file is changed.
* `merge_record`: a stop after git has merged, or a failure of `record_merge_result` (`RS/commands/merge.rs:202`), leaves the merge without a record, with the
  status `readyToMerge` or `needsIntervention`; `docs/s12/final-launch-prd.md:313` says that a record must be made after a successful merge. No startup looks for it; only a further
  merge of the same task makes it up, if the review still passes. `MergedIsOnRecord` is what does hold: no status `merged` without a record, no record of what is not in the target.
* `final_diff`: `artifacts_for_task` orders rows by id (`RS/storage/mod.rs:1598`), and the id of a diff is its kind and a random uuid; the
  review takes the last row for the latest diff, so that an earlier one can stand for the final one. A task whose final diff is empty
  is merged with the review of an earlier.

Found with the models and described here; the properties that the runs check are stated so that they hold beside them.

Tasks and startup:

* A V3 task that waits for an approval waits for ever. The resume endpoint answers 503 for version 3
  (`agent/app/api/tasks.py:483`); the design says it can be resumed.
* A create that finds its file already there with the same content does nothing (`RS/commands/files.rs:167`), and the rollback of the request deletes
  the file (`:327`). In the same way the startup undoes a rename it has announced but never executed: when the source was missing and the target taken,
  the file at the target is moved away.
* A write of the row that fails (`RS/commands/files.rs:147`, `:153`, `:298`, `:301`), or an undoing that meets a conflict, ends the request with an error and its row open while the
  application goes on. The same request id is refused until the next startup settles the row.
* The progress record counts an operation before it is executed. After a crash
  between the two, the recovery of a create whose path was taken by another file stops in
  a conflict, and the application does not start. So does the recovery of a request that updates a file twice, when the application stops before the second
  update: what is there is neither the saved content nor that of the second (`RS/commands/files.rs:336`).
* Rows of `command_runs` are only written when a run is over. The recovery looks for rows
  that are `running` and finds none, so a task whose command was cut off is offered to resume, without the
  confirmation that `RS/recovery.rs:49` and its test ask for.
* Nothing sets `resolved_at` of a recovery action, and the recovery skips a task that has an unresolved
  one of a command or session (`RS/recovery.rs:125`). A task interrupted a second time stays in `validating`; `InterruptedIsExplained`
  is about a startup that finds no such entry.

Older workflows (`AgentRepair`):

* Two commands on one task: one finds the other's open transaction, reports a failure, and the task fails although its edits are committed.
* After a repeated approval the same plan is committed under a second id.
* A validation result that is submitted while a file commit is pending is kept (`agent/app/graph/nodes.py:421`) and completes the task
  as soon as the commit is reported, without the edits having been validated; `plans/2026-07-10-codemax-abcd-completion.md:306` asks for
  a validation after the repair.
* The approval endpoint looks neither at the phase nor at whether the approval was decided: it can fail a completed task and revive a failed one. Nothing in the
  application calls resume, so that a V2 task put in `waiting_approval` stays there.
* A commit id that was interrupted can never be tried again; a V1 or V2 task in `needs_intervention` keeps its scheduler slot.

Delivery:

* The evidence is read before git, and edits of the worktree after the review are merged with it (`RS/commands/merge.rs`; the plan
  of 2026-07-10 asks for evidence of what is merged). `MergePassedReview` is about what users record and refuse, which does hold.
* A diff sets a merged task back to `awaitingReview` (`RS/commands/diff.rs:113`). Agent and validation rounds set `readyToMerge` without a review.
* The review takes the last run of each command wherever it ran; the proof pack takes the very last run of any.
* A rejected approval or hook, or a blocked rule, can never be taken back and blocks the merge for ever.
* What remains of a token budget is cut off at zero, so that an overflow by many small calls never blocks.

Commands, tools and processes:

* A call's digest covers the tool and the names of its parameters, not their values: a call repeated with other values is answered with the first result. A
  repeated dispatch of a call that is not settled asks the user again or runs the command again. `dispatch_agent_tool_call` has no caller in the application yet.
* An edit that was committed can be audited as failed, when the application stops or the store fails in between; never the reverse (`SuccessIsOnRecord`).
* A run id used again, or another id with the same file name, writes over the log of a recorded run before its own row is refused. `cleanup_storage` removes logs
  of commands that run, and stops at a file that has vanished.
* Two starts that overlap, or a start next to a process that an earlier application left, give two Agent processes, one of which finds the port taken. Endpoint and key of
  two saves can be mixed.
* A command that starts while its task is deleted creates the task's directory again (`RS/commands/exec.rs:720`).

Workspaces, profiles:

* A deletion of a task whose worktree is dirty leaves worktree and branch (and says so). What was changed between git's look at the worktree and its removal is lost; both
  are git's own, and a running command of the task is not stopped before (`RS/git/mod.rs:497`).
* Branches are left silently: by a deletion after a cleanup of the worktree, which clears the branch in the row; by a deletion of a task whose worktree could not be recorded; of a task
  to which `create_task_branch` gave one; and by a creation whose `git worktree add` failed after it had made the branch. A repository that was initialized for a creation that then fails
  stays when its removal fails, and a task of the original directory that was given a worktree later leaves both.
* A deletion that takes back the initialization removes the repository with the branches of all tasks, under worktrees with changes as well (`RS/commands/tasks.rs:1449`). It goes on to that when
  git has just refused to remove the worktree. The directories stay. `WorkKept` names this step as the one exception.
* `profile_create` with the id of the active profile deactivates it: no task can be created until a profile is activated or the application restarts.
* A candidate that is accepted twice, or accepted and rejected, leaves memories that no candidate names.

Tool loop, service and approvals:

* A task the scheduler does not know takes its first model turn before it has a slot
  (`agent/app/api/tasks.py:278`), so there can be more model turns at a time than slots; the V3 design (10.5)
  asks for the slot first.
* A run id that is cancelled and used again before the first run has ended: the guard of the first takes out the
  sender of the second, which stops as cancelled (`RS/exec/mod.rs:154`). Until then two processes share the id.
* Only the shell of a command is killed, when it is cancelled or out of time (`RS/exec/mod.rs:254`, `:260`); the call then waits for the end of both outputs (`:266`), which a
  child of the shell keeps open. Such a call never returns: its run and its validation are never recorded, and the task stays in `validating`.
* A validation that cannot be registered, started or recorded leaves the task in `validating` until the next startup
  (`RS/commands/exec.rs:149`).
* An application that stops between the two writes of a validation round can leave a task ready to merge whose last
  round has failed, when two validations ran at once.
* The first malformed call of a model settles the task in `needs_intervention`
  (`loop.py:321`); the V3 design says the error is fed back to the model until a threshold.
* Of a reply with several calls only the first is counted as a repeat (`loop.py:225`), so
  `max_duplicate_calls` bounds less than the design says.
* A request id that was rolled back is refused for ever; the message (`RS/commands/files.rs:123`)
  says it can be retried after recovery.
* A command reads the worktree before the store is locked and does not read it again when it
  consumes the approval (`RS/commands/exec.rs:426`).
* `decide_approval` sets the status of the task whatever it was (`RS/commands/approvals.rs:117`): a task
  that ended while it waited is reopened.

## 6. What is not modelled, and the plan

Not modelled: the React pages, the model providers and their HTTP calls (their outcome is an input of `AutonomousLoop`), the tool table, context and memory
selection, the command classifier (a pure function on strings), redaction, reports and exports, the release acceptance
(`s11_acceptance.rs`, the only user of the cleanup guard), rows and views without control. Of modelled parts: the trimming of results,
path checks and directory handles of `safe_fs.rs`, the contents of events and logs, unbound approvals of older
rows, V1 of the older workflows (which always ends with the user), import and inspection of repositories, grouping and lines of diffs, and what happens when two
file edits touch the same files at once (the store's lock is not held over the file operations; the code states no guarantee).
Where a model is coarser than the code, and no property depends on it: `TaskRecovery` takes the Agent's answer and its sync as one, so that no sync is late;
in `AgentToolCalls` the run of a cancelled command still has its id, an undo of edits never leaves its row open, and a run on record never belongs to a failed call
(`RS/commands/exec.rs:169`); `DeliveryReview` looks for risks among validations, the code among all commands (`s12_evidence.rs:1460`), and leaves out the
blocker for a contract that was never made (`:1967`); a removal of a worktree that fails removes nothing in `TaskWorkspaces`, and no command
makes the artifacts of a deleted task again (`RS/commands/exec.rs:720`).

The hazards without a property in `PROJECT.json` are of three kinds: the code does not prevent them (section 5), it states nothing to check, or no
harm follows.

Left of the plan: every invariant and every action property that a run checks is proved (section 4), the refinements in their safety part, and liveness stays
with TLC. What can still be proved are facts that no run states: of `FileEditTransaction`, that only one request at a time is rolled back
and that no request is taken before the recovery is over; of `AgentTaskService`, the other safety theorems of the scheduler, by the same composition.
