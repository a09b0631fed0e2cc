----------------------------- MODULE CommandRuns -----------------------------
(***************************************************************************)
(* The commands of one task that the Runtime executes (RS/exec/mod.rs and  *)
(* RS/commands/exec.rs): the registry through which a run is cancelled,    *)
(* the process with its exit, cancellation and timeout, and the records    *)
(* that are left: a row per run, and for a validation a round and the      *)
(* status of the task.                                                     *)
(*                                                                         *)
(* The caller chooses the run id, and may choose one again.                *)
(***************************************************************************)
EXTENDS Naturals, Sequences

CONSTANTS Calls,    \* invocations of run_task_command
          Timed,    \* those with a time limit
          RunIds, NoCall

ASSUME RunsAssumption == NoCall \notin Calls /\ Timed \subseteq Calls

VARIABLES call,      \* what each invocation is doing
          registry,  \* CommandRunRegistry: whose cancel sender is kept for an id
          signal,    \* what the receiver of a call sees of its sender
          runs,      \* command_runs, by id
          rounds,    \* validation_rounds, by round_index
          status     \* tasks.status

runVars == <<call, registry, signal, runs, rounds, status>>

Idle  == [step |-> "idle"]
Over  == [step |-> "over"]
NoRun == [outcome |-> "none"]

Outcomes == {"passed", "failed", "cancelled", "timedOut"}

At(c, step) == call[c].step = step

\* The store is locked over both writes of a validation round.
RoundUnderway == \E c \in Calls : At(c, "rounded")

Go(c, step) == call' = [call EXCEPT ![c].step = step]
End(c)      == call' = [call EXCEPT ![c] = Over]

-----------------------------------------------------------------------------
\* The guard of a run takes out whatever its id has at that time.  The
\* receiver of a sender that is dropped is told as if the sender were used.
DropGuard(c) ==
    /\ registry' = [registry EXCEPT ![call[c].run] = NoCall]
    /\ signal' = [k \in Calls |-> CASE k = c                       -> "open"
                                    [] k = registry[call[c].run] -> "dropped"
                                    [] OTHER                     -> signal[k]]

RunsInit ==
    /\ call = [c \in Calls |-> Idle]
    /\ registry = [r \in RunIds |-> NoCall]
    /\ signal = [c \in Calls |-> "open"]
    /\ runs = [r \in RunIds |-> NoRun]
    /\ rounds = <<>>

\* run_task_command up to the executor.  A validation is announced in the
\* status of the task whatever the status was.
Begin(c, r, validation) ==
    /\ At(c, "idle")
    /\ call' = [call EXCEPT ![c] = [step |-> "begun", run |-> r, outcome |-> "none",
                                    validation |-> validation]]
    /\ status' = IF validation THEN "validating" ELSE status
    /\ UNCHANGED <<registry, signal, runs, rounds>>

\* An id in use is refused; the status stays as it was announced.
Register(c) ==
    /\ At(c, "begun")
    /\ \/ /\ registry[call[c].run] = NoCall
          /\ registry' = [registry EXCEPT ![call[c].run] = c]
          /\ Go(c, "registered")
       \/ /\ registry[call[c].run] # NoCall
          /\ End(c)
          /\ UNCHANGED registry
    /\ UNCHANGED <<signal, runs, rounds, status>>

Spawn(c) ==
    /\ At(c, "registered")
    /\ Go(c, "running")
    /\ UNCHANGED <<registry, signal, runs, rounds, status>>

\* The log files cannot be made, or the shell cannot be started.
SpawnFails(c) ==
    /\ At(c, "registered")
    /\ End(c) /\ DropGuard(c)
    /\ UNCHANGED <<runs, rounds, status>>

Stop(c, outcome) ==
    /\ At(c, "running")
    /\ call' = [call EXCEPT ![c].step = "stopped", ![c].outcome = outcome]
    /\ UNCHANGED <<registry, signal, runs, rounds, status>>

Exit(c) == \E outcome \in {"passed", "failed"} : Stop(c, outcome)

\* Mutant: only a run that is still registered is stopped.
CancelledIfRegistered(c) ==
    signal[c] # "open" /\ registry[call[c].run] = c /\ Stop(c, "cancelled")

\* The select arm of the receiver: a used sender, or one that is gone.
Cancelled(c) == signal[c] # "open" /\ Stop(c, "cancelled")

TimeOut(c) == c \in Timed /\ Stop(c, "timedOut")

\* Both outputs have been read to their end, and run returns.  Only the
\* shell is killed: its children may hold the outputs open, even for ever.
Drain(c) ==
    /\ At(c, "stopped")
    /\ Go(c, "finished") /\ DropGuard(c)
    /\ UNCHANGED <<runs, rounds, status>>

\* Mutant: the row of a run is replaced.
RecordReplaces(c) ==
    /\ At(c, "finished")
    /\ runs' = [runs EXCEPT ![call[c].run] = [outcome |-> call[c].outcome,
                                              validation |-> call[c].validation]]
    /\ IF call[c].validation THEN Go(c, "recorded") ELSE End(c)
    /\ UNCHANGED <<registry, signal, rounds, status>>

\* record_command_result inserts: an id that has a row is an error, and the
\* run leaves neither a row nor a round.
RecordRun(c) ==
    /\ At(c, "finished")
    /\ \/ /\ runs[call[c].run] = NoRun
          /\ runs' = [runs EXCEPT ![call[c].run] = [outcome |-> call[c].outcome,
                                                    validation |-> call[c].validation]]
          /\ IF call[c].validation THEN Go(c, "recorded") ELSE End(c)
       \/ /\ runs[call[c].run] # NoRun
          /\ End(c)
          /\ UNCHANGED runs
    /\ UNCHANGED <<registry, signal, rounds, status>>

\* record_validation_round: the round, and then the status it asks for.
RecordRound(c) ==
    /\ At(c, "recorded")
    /\ rounds' = Append(rounds, [run |-> call[c].run, outcome |-> call[c].outcome])
    /\ Go(c, "rounded")
    /\ UNCHANGED <<registry, signal, runs, status>>

StatusAfter(outcome) ==
    CASE outcome = "passed" -> "readyToMerge"
      [] outcome = "failed" -> "repairing"
      [] OTHER              -> "needsIntervention"

SetStatus(c) ==
    /\ At(c, "rounded")
    /\ status' = StatusAfter(call[c].outcome)
    /\ End(c)
    /\ UNCHANGED <<registry, signal, runs, rounds>>

\* cancel_task_command: true when there is a sender.
Cancel(r) ==
    /\ registry[r] # NoCall
    /\ registry' = [registry EXCEPT ![r] = NoCall]
    /\ signal' = [signal EXCEPT ![registry[r]] = "cancelled"]
    /\ UNCHANGED <<call, runs, rounds, status>>

Live(c) == call[c] \notin {Idle, Over}

\* The application stops: only the tables are left.
CommandsLost ==
    /\ call' = [c \in Calls |-> IF Live(c) THEN Over ELSE call[c]]
    /\ registry' = [r \in RunIds |-> NoCall]
    /\ signal' = [c \in Calls |-> "open"]
    /\ UNCHANGED <<runs, rounds>>

-----------------------------------------------------------------------------
\* Evidence: every validation round stands for a recorded validation run and
\* says of it what its row says, and no run stands for two rounds, whatever
\* ids the callers choose and whatever fails.
RoundsAreEvidence ==
    /\ \A i \in DOMAIN rounds :
          /\ runs[rounds[i].run].outcome = rounds[i].outcome
          /\ runs[rounds[i].run].validation
    /\ \A i, j \in DOMAIN rounds : rounds[i].run = rounds[j].run => i = j
=============================================================================
