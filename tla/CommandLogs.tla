----------------------------- MODULE CommandLogs -----------------------------
(***************************************************************************)
(* The logs of commands (RS/exec/mod.rs, RS/commands/exec.rs): a command   *)
(* writes to a file that is named for its run and compressed when it ends; *)
(* then its row names the file.  The two cleanups of the window's thread   *)
(* (RS/commands/app.rs, RS/commands/exec.rs) remove files meanwhile, one   *)
(* by one, and any call of the file system may fail.  Both streams are     *)
(* treated alike; this is one of them.                                     *)
(***************************************************************************)
EXTENDS Naturals

CONSTANTS Commands,  \* invocations of run_task_command
          RunIds,    \* ids that callers choose for runs
          Stem       \* the name of the file for each id: several may share one

VARIABLES command,   \* what each invocation is doing, for which run
          logs,      \* the files: whose output is in them
          logRows,   \* command_runs: whose run it is, and the file that it names
          cleaning,  \* the files that a cleanup has still to remove
          touched    \* history: commands whose output a cleanup has removed, or
                     \* that shared a file with a later command

logVars == <<command, logs, logRows, cleaning, touched>>

Files == {Stem[r] : r \in RunIds} \X {"log", "tmp", "gz"}

Nobody == "nobody"

ASSUME LogsAssumption == Nobody \notin Commands

Fresh  == [step |-> "fresh"]
NoLog  == [command |-> Nobody]

LogsInit ==
    /\ command = [c \in Commands |-> Fresh]
    /\ logs = [f \in Files |-> Nobody]
    /\ logRows = [r \in RunIds |-> NoLog]
    /\ cleaning = {} /\ touched = {}

Step(c)    == command[c].step
File(c, k) == <<Stem[command[c].run], k>>
Goes(c, s) == command' = [command EXCEPT ![c].step = s]

Running(c) == Step(c) \in {"running", "ended", "copied", "replacing", "dropping"}
Begun      == {c \in Commands : command[c] # Fresh}

\* The registry refuses an id that a run has; a run that was cancelled no
\* longer has its id although it still ends, and another id may stand for the
\* same file.  So the file of an earlier run is written over, be it over or not.
OpenLog(c, r) ==
    /\ command[c] = Fresh
    /\ command' = [command EXCEPT ![c] = [step |-> "running", run |-> r, kind |-> "log"]]
    /\ logs' = [logs EXCEPT ![<<Stem[r], "log">>] = c]
    /\ LET others == {d \in Begun : Stem[command[d].run] = Stem[r]}
       IN  touched' = touched \cup others
                          \cup (IF \E d \in others : Running(d) THEN {c} ELSE {})
    /\ UNCHANGED <<logRows, cleaning>>

EndLog(c) ==
    /\ Step(c) = "running"
    /\ Goes(c, "ended") /\ UNCHANGED <<logs, logRows, cleaning, touched>>

-----------------------------------------------------------------------------
(* compress_log_file_if_large: a copy, the old file, the new one, the log. *)

CopyLog(c) ==
    /\ Step(c) = "ended" /\ logs[File(c, "log")] # Nobody
    /\ logs' = [logs EXCEPT ![File(c, "tmp")] = logs[File(c, "log")]]
    /\ Goes(c, "copied") /\ UNCHANGED <<logRows, cleaning, touched>>

RemoveOldCopy(c) ==
    /\ Step(c) = "copied"
    /\ logs' = [logs EXCEPT ![File(c, "gz")] = Nobody]
    /\ Goes(c, "replacing") /\ UNCHANGED <<logRows, cleaning, touched>>

RenameCopy(c) ==
    /\ Step(c) = "replacing" /\ logs[File(c, "tmp")] # Nobody
    /\ logs' = [logs EXCEPT ![File(c, "gz")] = logs[File(c, "tmp")], ![File(c, "tmp")] = Nobody]
    /\ Goes(c, "dropping") /\ UNCHANGED <<logRows, cleaning, touched>>

DropLog(c) ==
    /\ Step(c) = "dropping" /\ logs[File(c, "log")] # Nobody
    /\ logs' = [logs EXCEPT ![File(c, "log")] = Nobody]
    /\ command' = [command EXCEPT ![c].step = "recording", ![c].kind = "gz"]
    /\ UNCHANGED <<logRows, cleaning, touched>>

\* Mutant: the name of the copy is given although there may be none.
NamesTheCopy(c) ==
    /\ Step(c) \in {"ended", "copied", "replacing", "dropping"}
    /\ command' = [command EXCEPT ![c].step = "recording", ![c].kind = "gz"]
    /\ UNCHANGED <<logs, logRows, cleaning, touched>>

\* maybe_compress_log_file: the log is small, or something failed on the way;
\* what was done on the way stays.
KeepsTheLog(c) ==
    /\ Step(c) \in {"ended", "copied", "replacing", "dropping"}
    /\ Goes(c, "recording") /\ UNCHANGED <<logs, logRows, cleaning, touched>>

\* A run that has a row already is refused; any may fail.
RecordLog(c) ==
    /\ Step(c) = "recording"
    /\ LET r   == command[c].run
           row == [command |-> c, kind |-> command[c].kind]
       IN  logRows' \in {logRows} \cup (IF logRows[r] = NoLog THEN {[logRows EXCEPT ![r] = row]} ELSE {})
    /\ Goes(c, "over") /\ UNCHANGED <<logs, cleaning, touched>>

-----------------------------------------------------------------------------
Present == {f \in Files : logs[f] # Nobody}

\* cleanup_storage removes what it finds in the directories of logs, of
\* commands that run as well.
CleanupStorage ==
    /\ cleaning = {} /\ cleaning' = Present
    /\ UNCHANGED <<command, logs, logRows, touched>>

\* cleanup_expired_task_logs leaves copies in the making and what is new.
CleanupExpiredTaskLogs ==
    /\ cleaning = {} /\ cleaning' \in SUBSET {f \in Present : f[2] # "tmp"}
    /\ UNCHANGED <<command, logs, logRows, touched>>

\* A file that is no longer there, or cannot be removed, ends the cleanup.
RemoveFile(f) ==
    /\ f \in cleaning
    /\ \/ /\ f \in Present
          /\ logs' = [logs EXCEPT ![f] = Nobody]
          /\ cleaning' = cleaning \ {f}
          /\ touched' = IF f[2] = "tmp" THEN touched ELSE touched \cup {logs[f]}
       \/ cleaning' = {} /\ UNCHANGED <<logs, touched>>
    /\ UNCHANGED <<command, logRows>>

\* The application stops; files and rows are left.
LogsStop ==
    /\ command' = [c \in Commands |-> IF command[c] = Fresh THEN Fresh
                                                            ELSE [command[c] EXCEPT !.step = "over"]]
    /\ cleaning' = {}
    /\ UNCHANGED <<logs, logRows, touched>>

LogsNext ==
    \/ \E c \in Commands :
          \/ \E r \in RunIds : OpenLog(c, r)
          \/ EndLog(c) \/ CopyLog(c) \/ RemoveOldCopy(c) \/ RenameCopy(c) \/ DropLog(c)
          \/ KeepsTheLog(c) \/ RecordLog(c)
    \/ CleanupStorage \/ CleanupExpiredTaskLogs
    \/ \E f \in Files : RemoveFile(f)
    \/ LogsStop

LogsSpec == LogsInit /\ [][LogsNext]_logVars

-----------------------------------------------------------------------------
\* existing_log_path: the file that the row names, or else its copy.
Resolved(r) ==
    LET Named(k) == logs[<<Stem[r], k>>]
    IN  IF logRows[r].kind = "gz" \/ Named("log") # Nobody THEN Named(logRows[r].kind)
                                                          ELSE Named("gz")

\* The log of a recorded run is found, and is the run's own, whatever an
\* earlier command of that name has left, whatever failed while the log was
\* compressed, and whatever else was cleaned up meanwhile.
LogIsFound ==
    \A r \in RunIds :
        logRows[r] # NoLog /\ logRows[r].command \notin touched
            => Resolved(r) = logRows[r].command
=============================================================================
