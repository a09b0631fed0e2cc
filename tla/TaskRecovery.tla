----------------------------- MODULE TaskRecovery -----------------------------
(***************************************************************************)
(* A task that commands and the Agent move at the same time, and what the  *)
(* startup makes of it after the application has stopped (RS/recovery.rs). *)
(* sync_agent_state (RS/commands/agent.rs) copies the phase that the Agent *)
(* reports to the task and to its session, with events and todos that are  *)
(* left out here; run_task_command is CommandRuns.                         *)
(* The user decides when to run or cancel a command, or to go on.          *)
(***************************************************************************)
EXTENDS CommandRuns, FiniteSets

CONSTANTS Phases,       \* the Agent's phases that it may report
          MaxRestarts   \* bound

ASSUME RecoveryAssumption == MaxRestarts \in Nat /\ "none" \notin Phases

VARIABLES agent,      \* the phase the Agent has reached
          session,    \* agent_sessions: the status of the task's session
          syncing,    \* the phase whose sync is half done, or "none"
          recoveries, \* recovery_actions: nothing ever resolves one
          restarts

vars == <<runVars, agent, session, syncing, recoveries, restarts>>

recoveryVars == <<agent, session, syncing, recoveries, restarts>>

\* task_status_from_agent_phase
TaskStatus(phase) ==
    CASE phase \in {"created", "planned"}                     -> "planning"
      [] phase \in {"editing", "validating", "failed"}        -> phase
      [] phase \in {"analyzing_error", "repairing"}           -> "repairing"
      [] phase \in {"waiting_approval", "awaiting_file_commit"} -> "awaitingApproval"
      [] phase = "needs_intervention"                         -> "needsIntervention"
      [] phase = "completed"                                  -> "readyToMerge"
      [] OTHER                                                -> "planning"

Terminal  == {"completed", "failed", "cancelled", "merged"}
Dangerous == {"merging", "delivering"}
\* Mutant: one of the stages is not known to the recovery.
ResumableOnceEdited ==
    {"planned", "editing", "validating", "analyzingError", "repairing", "running"}

Resumable == {"planning", "planned", "editing", "validating", "analyzingError",
              "repairing", "running"}

\* Mutant: the store is not locked over both writes of a round or a sync.
NeverLocked == TRUE

StoreFree == ~RoundUnderway /\ syncing = "none"

-----------------------------------------------------------------------------
Init ==
    /\ RunsInit /\ status = "planning"
    /\ agent = "created" /\ session = "none" /\ syncing = "none"
    /\ recoveries = {} /\ restarts = 0

\* The Agent answers a request with the phase it has reached; when it is
\* over, it stays there.  The answer and its sync are one step here: no
\* answer is late.  The task is updated first, then the session.
SyncTask(phase) ==
    /\ StoreFree
    /\ agent \in {"completed", "failed"} => phase = agent
    /\ agent' = phase /\ syncing' = phase
    /\ status' = TaskStatus(phase)
    /\ UNCHANGED <<call, registry, signal, runs, rounds, session, recoveries, restarts>>

SyncSession ==
    /\ syncing # "none"
    /\ session' = syncing /\ syncing' = "none"
    /\ UNCHANGED <<runVars, agent, recoveries, restarts>>

-----------------------------------------------------------------------------
(* recover_interrupted_runtime, in one transaction before any command.     *)

Entry(resource, confirm) == [resource |-> resource, confirm |-> confirm]

\* Rows are only inserted with the outcome of a run that is over.
Interrupted == {r \in RunIds : runs[r].outcome \in {"running", "cancelling"}}

SessionInterrupted ==
    session \notin {"none", "completed", "failed", "cancelled",
                    "needs_intervention", "waiting_approval"}

Marked(s) == IF s \in Terminal \cup {"awaitingApproval"} THEN s ELSE "needsIntervention"

ResourceEntries ==
    {Entry(r, TRUE) : r \in Interrupted}
        \cup (IF SessionInterrupted THEN {Entry("session", FALSE)} ELSE {})

\* The third pass leaves a task alone that an entry of a command or of the
\* session speaks for, be it of an earlier startup.
Recover ==
    LET entries == recoveries \cup ResourceEntries
        marked  == IF ResourceEntries # {} THEN Marked(status) ELSE status
        looked  == /\ marked \in Dangerous \cup Resumable
                   /\ \A e \in entries : e.resource = "task"
    IN  /\ recoveries' = IF looked THEN entries \cup {Entry("task", marked \in Dangerous)}
                                   ELSE entries
        /\ status' = IF looked THEN Marked(marked) ELSE marked
        /\ session' = IF SessionInterrupted THEN "needs_intervention" ELSE session

Restart ==
    /\ restarts < MaxRestarts /\ restarts' = restarts + 1
    /\ CommandsLost
    /\ syncing' = "none"
    /\ Recover
    /\ UNCHANGED agent

-----------------------------------------------------------------------------
Started(c) == \E r \in RunIds, validation \in BOOLEAN : Begin(c, r, validation)

\* What the Runtime does with a call once it has begun.
Proceed(c) ==
    \/ Register(c) \/ Spawn(c) \/ SpawnFails(c)
    \/ Cancelled(c) \/ TimeOut(c)
    \/ StoreFree /\ (RecordRun(c) \/ RecordRound(c))
    \/ SetStatus(c)

Command ==
    \/ \E c \in Calls : (StoreFree /\ Started(c)) \/ Exit(c) \/ Drain(c) \/ Proceed(c)
    \/ \E r \in RunIds : Cancel(r)

Next ==
    \/ Command /\ UNCHANGED recoveryVars
    \/ \E phase \in Phases : SyncTask(phase)
    \/ SyncSession
    \/ Restart

Spec == Init /\ [][Next]_vars

\* The Runtime goes on with what it has begun, and everyone who waits for
\* the store gets it in the end.  Nothing makes a command exit, nor its
\* outputs end: what the shell has started may hold them open.
FairSpec ==
    /\ Spec /\ WF_vars(SyncSession)
    /\ \A c \in Calls : SF_vars(Proceed(c) /\ UNCHANGED recoveryVars)

-----------------------------------------------------------------------------
\* A task becomes ready to merge when the Agent says so or when the round
\* just recorded has passed: no other command's round comes in between.
MadeReadyByAPass ==
    [][status' = "readyToMerge" /\ status # "readyToMerge" =>
          \/ syncing' = "completed"
          \/ rounds # <<>> /\ rounds[Len(rounds)].outcome = "passed"]_vars

\* A command whose time is over or whose cancellation was asked for waits
\* for nothing but the end of its outputs, and a command whose outputs have
\* ended for nothing at all, though its process would run for ever, another
\* call has its id and others take the store (run of RS/exec/mod.rs).  That
\* the outputs end is not said: what a killed shell has started keeps them.
OnlyOutputsAreAwaited ==
    \A c \in Calls :
        \/ At(c, "running") /\ (c \in Timed \/ signal[c] # "open")
        \/ At(c, "finished")
        ~> At(c, "stopped") \/ ~Live(c)

\* A startup leaves no task, nor its session, at work with nobody working on
\* it, and what it stops it explains; a task that has an entry of an earlier
\* startup is not looked at again (recover_interrupted_runtime).
InterruptedIsExplained ==
    [][restarts' # restarts /\ recoveries = {} =>
          /\ status' \in Terminal \cup {"awaitingApproval", "needsIntervention", "readyToMerge"}
          /\ session' \notin Phases \ {"completed", "failed", "cancelled",
                                      "needs_intervention", "waiting_approval"}
          /\ status' # status => recoveries' # {}]_vars
=============================================================================
