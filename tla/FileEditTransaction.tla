-------------------------- MODULE FileEditTransaction --------------------------
(***************************************************************************)
(* Recoverable file edits (src/apps/desktop/src-tauri/src/commands/        *)
(* files.rs, on top of safe_fs.rs): a request is recorded with the inverse *)
(* of each operation, its operations are executed one by one, and a        *)
(* failure or the next start of the application undoes what was applied.   *)
(* The file system and the store may fail at every call: an operation      *)
(* before it has an effect or after it.                                    *)
(*                                                                         *)
(* The store lock is held only while a row is written, so other requests   *)
(* run between any two steps, and the application may stop between them.   *)
(* Authorization is in BoundApprovals.                                     *)
(***************************************************************************)
EXTENDS Naturals, Sequences

CONSTANTS Requests,      \* request ids
          Paths, Contents,
          Missing,       \* what is read at a path without a file
          Proposed(_, _),  \* the operations a request may ask for, given the files
          MaxCrashes     \* bound

ASSUME EditAssumption ==
    /\ Missing \notin Contents
    /\ MaxCrashes \in Nat

VARIABLES files,    \* the worktree
          row,      \* file_edit_transactions, by request id
          work,     \* the thread that handles the request, and where it is
          process,  \* "up", "down", or "recovering" at startup
          crashes,
          before,   \* history: the files when the open request was recorded
          late      \* history: the operations that failed after their effect

editVars == <<files, row, work, process, crashes, before, late>>

Operation ==
    [kind : {"create", "update"}, path : Paths, content : Contents]
        \cup [kind : {"delete"}, path : Paths]
        \cup [kind : {"rename"}, path : Paths, destination : Paths]

Worktrees == [Paths -> Contents \cup {Missing}]

PathsOf(op)  == IF op.kind = "rename" THEN {op.path, op.destination} ELSE {op.path}
Touched(ops) == UNION {PathsOf(ops[i]) : i \in DOMAIN ops}

NoRow == [status |-> "none"]
NoWork == [mode |-> "idle"]
Abandoned == [mode |-> "abandoned"]  \* answered with an error, and the row left open

Open == {"prepared", "applying", "rolling_back"}
Settled == {"committed", "rolled_back"}

-----------------------------------------------------------------------------
(* safe_fs: one operation on the worktree.                                 *)

\* What the files themselves rule out.  A create of what is already there is a
\* success, as is a delete of nothing.
Fails(fs, op) ==
    CASE op.kind = "create" -> fs[op.path] \notin {Missing, op.content}
      [] op.kind = "update" -> fs[op.path] = Missing
      [] op.kind = "delete" -> FALSE
      [] op.kind = "rename" -> fs[op.path] = Missing \/ fs[op.destination] # Missing

Executed(fs, op) ==
    CASE op.kind \in {"create", "update"} -> [fs EXCEPT ![op.path] = op.content]
      [] op.kind = "delete" -> [fs EXCEPT ![op.path] = Missing]
      [] op.kind = "rename" -> [fs EXCEPT ![op.path] = Missing, ![op.destination] = fs[op.path]]

\* The file is opened and verified once more after the rename that creates,
\* replaces or moves it; a delete ends with its effect.
VerifiedAfter(fs, op) == op.kind # "delete" /\ Executed(fs, op) # fs

-----------------------------------------------------------------------------
(* build_inverse_operations and compensate_operation.                      *)

\* Updates and deletes need the present content, read before any operation
\* has run.
Snapshots(fs, ops) ==
    \A i \in DOMAIN ops : ops[i].kind \in {"update", "delete"} => fs[ops[i].path] # Missing

Saved(fs, ops) == [i \in DOMAIN ops |-> fs[ops[i].path]]

\* What undoing op may find: its own effect, or no effect yet.  Anything else
\* is a conflict, and the rollback stops there.
Undone(fs, op, old) ==
    IF op.kind = "rename" THEN fs[op.path] # Missing /\ fs[op.destination] = Missing
    ELSE IF op.kind = "create" THEN fs[op.path] = Missing
    ELSE fs[op.path] = old

Undoable(fs, op) ==
    CASE op.kind = "create" -> fs[op.path] = op.content
      [] op.kind = "update" -> fs[op.path] \in {op.content, Missing}
      [] op.kind = "delete" -> fs[op.path] = Missing
      [] op.kind = "rename" -> fs[op.path] = Missing /\ fs[op.destination] # Missing

Compensated(fs, op, old) ==
    IF Undone(fs, op, old) THEN fs
    ELSE CASE op.kind = "create" -> [fs EXCEPT ![op.path] = Missing]
           [] op.kind = "rename" -> [fs EXCEPT ![op.destination] = Missing,
                                               ![op.path] = fs[op.destination]]
           [] OTHER              -> [fs EXCEPT ![op.path] = old]

Conflict(fs, op, old) == ~Undone(fs, op, old) /\ ~Undoable(fs, op)

-----------------------------------------------------------------------------
NoFiles == <<>>

EditsInit ==
    /\ files \in Worktrees
    /\ row = [r \in Requests |-> NoRow]
    /\ work = [r \in Requests |-> NoWork]
    /\ process = "up"
    /\ crashes = 0
    /\ before = [r \in Requests |-> NoFiles]
    /\ late = [r \in Requests |-> {}]

\* execute_transaction up to the INSERT.  A request id that has a row is
\* answered from it, or refused, and nothing changes.
Prepare(r, ops) ==
    /\ process = "up"
    /\ Snapshots(files, ops)
    /\ row' = [row EXCEPT ![r] = [status |-> "prepared", ops |-> ops,
                                  saved |-> Saved(files, ops), applied |-> 0]]
    /\ work' = [work EXCEPT ![r] = [mode |-> "forward", at |-> 1]]
    /\ before' = [before EXCEPT ![r] = files]
    /\ UNCHANGED <<files, process, crashes, late>>

Request(r) == row[r] = NoRow /\ \E ops \in Proposed(r, files) : Prepare(r, ops)

Is(r, mode) == work[r] # NoWork /\ work[r].mode = mode

Current(r) == row[r].ops[work[r].at]

\* Mutant: the progress is one operation behind.
AnnounceTooLittle(r) ==
    /\ Is(r, "forward") /\ work[r].at <= Len(row[r].ops)
    /\ row' = [row EXCEPT ![r].status = "applying", ![r].applied = work[r].at - 1]
    /\ work' = [work EXCEPT ![r].mode = "execute"]
    /\ UNCHANGED <<files, process, crashes, before, late>>

\* persist_progress, before the operation is executed.
Announce(r) ==
    /\ Is(r, "forward") /\ work[r].at <= Len(row[r].ops)
    /\ row' = [row EXCEPT ![r].status = "applying", ![r].applied = work[r].at]
    /\ work' = [work EXCEPT ![r].mode = "execute"]
    /\ UNCHANGED <<files, process, crashes, before, late>>

\* persist_progress after the operation only adds to results_json.
Execute(r) ==
    /\ Is(r, "execute") /\ ~Fails(files, Current(r))
    /\ files' = Executed(files, Current(r))
    /\ work' = [work EXCEPT ![r] = [mode |-> "forward", at |-> @.at + 1]]
    /\ UNCHANGED <<row, process, crashes, before, late>>

\* An error before the effect: of the files as they are, or of any call.
OperationFails(r) ==
    /\ Is(r, "execute")
    /\ work' = [work EXCEPT ![r].mode = "failed"]
    /\ UNCHANGED <<files, row, process, crashes, before, late>>

\* An error of what comes after the effect.
FailsLate(r) ==
    /\ Is(r, "execute") /\ ~Fails(files, Current(r)) /\ VerifiedAfter(files, Current(r))
    /\ files' = Executed(files, Current(r))
    /\ late' = [late EXCEPT ![r] = @ \cup {work[r].at}]
    /\ work' = [work EXCEPT ![r].mode = "failed"]
    /\ UNCHANGED <<row, process, crashes, before>>

\* rollback is called for the operations before the one that failed.
RollBack(r) ==
    /\ Is(r, "failed")
    /\ row' = [row EXCEPT ![r].status = "rolling_back"]
    /\ work' = [work EXCEPT ![r] = [mode |-> "back", at |-> @.at - 1]]
    /\ UNCHANGED <<files, process, crashes, before, late>>

Commit(r) ==
    /\ Is(r, "forward") /\ work[r].at > Len(row[r].ops)
    /\ row' = [row EXCEPT ![r].status = "committed"]
    /\ work' = [work EXCEPT ![r] = NoWork]
    /\ before' = [before EXCEPT ![r] = NoFiles]
    /\ UNCHANGED <<files, process, crashes, late>>

Compensate(r) ==
    /\ Is(r, "back") /\ work[r].at > 0
    /\ ~Conflict(files, Current(r), row[r].saved[work[r].at])
    /\ files' = Compensated(files, Current(r), row[r].saved[work[r].at])
    /\ work' = [work EXCEPT ![r].at = @ - 1]
    /\ UNCHANGED <<row, process, crashes, before, late>>

\* A write of the row or a compensating operation fails, or the rollback finds
\* a conflict: the row stays open, and at startup the application gives up.
\* (A compensating operation that fails after its effect is Compensate first.)
GiveUp(r) ==
    /\ Is(r, "forward") \/ Is(r, "failed") \/ Is(r, "back")
    /\ IF process = "recovering"
       THEN process' = "down" /\ work' = [work EXCEPT ![r] = NoWork]
       ELSE work' = [work EXCEPT ![r] = Abandoned] /\ process' = process
    /\ UNCHANGED <<files, row, crashes, before, late>>

FinishRollback(r) ==
    /\ Is(r, "back") /\ work[r].at = 0
    /\ row' = [row EXCEPT ![r].status = "rolled_back"]
    /\ work' = [work EXCEPT ![r] = NoWork]
    /\ before' = [before EXCEPT ![r] = NoFiles]
    /\ UNCHANGED <<files, process, crashes, late>>

-----------------------------------------------------------------------------
Crash ==
    /\ process # "down" /\ crashes < MaxCrashes
    /\ process' = "down" /\ crashes' = crashes + 1
    /\ work' = [r \in Requests |-> NoWork]
    /\ UNCHANGED <<files, row, before, late>>

StartAgain ==
    /\ process = "down" /\ process' = "recovering"
    /\ UNCHANGED <<files, row, work, crashes, before, late>>

AllIdle == \A r \in Requests : work[r] = NoWork

\* Mutant: rows that were only prepared are left out.
RecoverApplied(r) ==
    /\ process = "recovering" /\ AllIdle /\ row[r].status \in Open \ {"prepared"}
    /\ row' = [row EXCEPT ![r].status = "rolling_back"]
    /\ work' = [work EXCEPT ![r] = [mode |-> "back", at |-> row[r].applied]]
    /\ UNCHANGED <<files, process, crashes, before, late>>

\* recover_incomplete_file_transactions takes the open rows one after the
\* other, by a time of creation that may be the same for several.
RecoverRow(r) ==
    /\ process = "recovering" /\ AllIdle /\ row[r].status \in Open
    /\ row' = [row EXCEPT ![r].status = "rolling_back"]
    /\ work' = [work EXCEPT ![r] = [mode |-> "back", at |-> row[r].applied]]
    /\ UNCHANGED <<files, process, crashes, before, late>>

Ready ==
    /\ process = "recovering" /\ AllIdle /\ \A r \in Requests : row[r].status \notin Open
    /\ process' = "up"
    /\ UNCHANGED <<files, row, work, crashes, before, late>>

Step(r) ==
    \/ Announce(r) \/ Execute(r) \/ OperationFails(r) \/ FailsLate(r) \/ Commit(r)
    \/ RollBack(r) \/ Compensate(r) \/ GiveUp(r) \/ FinishRollback(r) \/ RecoverRow(r)

EditsNext ==
    \/ \E r \in Requests : Request(r) \/ Step(r)
    \/ Crash \/ StartAgain \/ Ready

EditsSpec == EditsInit /\ [][EditsNext]_editVars

\* A thread that runs goes on, and the user starts the application again.
FairEditsSpec ==
    /\ EditsSpec /\ WF_editVars(StartAgain) /\ WF_editVars(Ready)
    /\ \A r \in Requests : WF_editVars(Step(r))

-----------------------------------------------------------------------------

After(fs, ops) ==
    LET done[i \in 0..Len(ops)] == IF i = 0 THEN fs ELSE Executed(done[i - 1], ops[i])
    IN  done[Len(ops)]

\* The worktree without the work of the requests that are not settled.
OpenOn(p) == {r \in Requests : row[r].status \in Open /\ p \in Touched(row[r].ops)}

Atomic == INSTANCE AtomicEdits WITH
    Effect <- After,
    asked    <- [r \in Requests |-> IF row[r] = NoRow THEN <<>> ELSE row[r].ops],
    contents <- [p \in Paths |-> IF OpenOn(p) = {} THEN files[p]
                                 ELSE before[CHOOSE r \in OpenOn(p) : TRUE][p]],
    decided  <- [r \in Requests |-> IF row[r].status \in Settled THEN row[r].status ELSE "open"],
    slipped  <- late

\* A create that finds its own content already there, and a rename of a file
\* that is not there: undoing them undoes what others did.
OwnWork(fs, op) ==
    CASE op.kind = "create" -> fs[op.path] # op.content
      [] op.kind = "rename" -> fs[op.path] # Missing /\ op.path # op.destination
      [] OTHER              -> TRUE

PathsUsedOnce(ops) ==
    \A i, j \in DOMAIN ops : i # j => PathsOf(ops[i]) \cap PathsOf(ops[j]) = {}

\* Requests that keep out of each other's way, as ImplementsAtomicEdits needs:
\* the code does not ask for it.
SeparateEdits ==
    /\ \A r \in Requests, fs \in Worktrees : \A ops \in Proposed(r, fs) :
          /\ ops \in Seq(Operation) /\ ops # <<>>
          /\ PathsUsedOnce(ops) /\ \A i \in DOMAIN ops : OwnWork(fs, ops[i])
    /\ \A r, q \in Requests, fs, gs \in Worktrees :
          r # q => \A ops \in Proposed(r, fs), others \in Proposed(q, gs) :
                       Touched(ops) \cap Touched(others) = {}

\* A request has changed all of its files when it is committed.  When it is
\* rolled back it has changed none, or those of one operation that failed after
\* its effect (late) and that the rollback leaves alone.  So through failing
\* calls, other requests, and crashes at any point of the work or the recovery.
ImplementsAtomicEdits == Atomic!Spec

\* "The edit failed and all applied operations were rolled back" (files.rs:166):
\* a request that is rolled back leaves its files as it found them.
AllRolledBack ==
    [][\A r \in Requests :
          row[r].status \in Open /\ row'[r].status = "rolled_back" =>
              \A p \in Touched(row[r].ops) : files'[p] = before[r][p]]_editVars

\* What was recorded is settled in the end, or its request was answered with an
\* error that leaves it to the next startup, or every startup stops at it.
EverySettles ==
    \/ \A r \in Requests :
          row[r].status \in Open ~> row[r].status \in Settled \/ work[r] = Abandoned
    \/ []<>(process = "down")
=============================================================================
