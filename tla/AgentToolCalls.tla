---------------------------- MODULE AgentToolCalls ----------------------------
(***************************************************************************)
(* The Runtime's tools (RS/commands/agent_tools.rs) and the audit rows     *)
(* that make them idempotent (agent_tool_calls, RS/storage/mod.rs).  A     *)
(* call is audited as requested, then executed, then its row is settled:   *)
(* three locks of the store, between which other dispatches of the same    *)
(* call run, or the application stops.                                     *)
(*                                                                         *)
(* Edits and commands take the id of the call for their own: a transaction *)
(* has one row per id (files.rs), and so has a run (exec.rs).              *)
(***************************************************************************)
EXTENDS Naturals

CONSTANTS Dispatches,  \* invocations of dispatch_agent_tool_call
          CallIds,     \* ids that the Agent gives its calls
          Values,      \* parameters of a call, its names of parameters aside
          MaxCrashes   \* bound: stops of the application

ASSUME ToolsAssumption == MaxCrashes \in Nat

Tools == {"read", "apply_file_edits", "run_command", "update_todos",
          "request_approval", "complete_task", "unknown"}

Requests == [tool : Tools, values : Values]

VARIABLES audit,      \* agent_tool_calls, by call id
          dispatch,   \* what each invocation is doing
          edits,      \* file_edit_transactions, by request id
          applied,    \* how often the edits of an id were applied for good
          commands,   \* the ids with a row in command_runs
          asked,      \* the approvals that were asked for, by call
          todos,      \* the todos that were written last
          task,       \* tasks.status, as far as tools set it
          crashes

vars == <<audit, dispatch, edits, applied, commands, asked, todos, task, crashes>>

NoRow   == [status |-> "none"]
NoEdits == [status |-> "none"]
New     == [step |-> "new"]
Over    == [step |-> "over"]

Init ==
    /\ audit = [c \in CallIds |-> NoRow]
    /\ dispatch = [d \in Dispatches |-> New]
    /\ edits = [c \in CallIds |-> NoEdits]
    /\ applied = [c \in CallIds |-> 0]
    /\ commands = {} /\ asked = [c \in CallIds |-> 0]
    /\ todos = "none" /\ task = "working" /\ crashes = 0

-----------------------------------------------------------------------------
(* The audit.                                                              *)

\* The digest is of the tool and the names of the parameters.
Digest(q) == q.tool

Settled(c) == audit[c].status \in {"succeeded", "failed"}

At(d, step) == dispatch[d].step = step
Call(d)     == dispatch[d].call
Is(d, tool) == At(d, "audited") /\ dispatch[d].request.tool = tool

\* begin inserts a row unless the call has one.  A call with another digest is
\* refused, a settled one is answered from its row; both change nothing.
Begin(d, c, q) ==
    /\ dispatch[d] = New
    /\ \/ /\ audit[c] = NoRow
          /\ audit' = [audit EXCEPT ![c] = [status |-> "requested", digest |-> Digest(q)]]
       \/ /\ audit[c].status = "requested" /\ audit[c].digest = Digest(q)
          /\ UNCHANGED audit
    /\ dispatch' = [dispatch EXCEPT ![d] = [step |-> "audited", call |-> c, request |-> q]]
    /\ UNCHANGED <<edits, applied, commands, asked, todos, task, crashes>>

Answered(d, c, q) ==
    /\ dispatch[d] = New
    /\ audit[c] # NoRow
    /\ Settled(c) \/ audit[c].digest # Digest(q)
    /\ dispatch' = [dispatch EXCEPT ![d] = Over]
    /\ UNCHANGED <<audit, edits, applied, commands, asked, todos, task, crashes>>

Done(d, outcome) ==
    dispatch' = [dispatch EXCEPT ![d] = [step |-> "done", call |-> Call(d),
                                         tool |-> @.request.tool, outcome |-> outcome]]

\* Mutant: whoever completes a call writes its row.
CompleteAgain(d) ==
    /\ At(d, "done")
    /\ audit' = [audit EXCEPT ![Call(d)] = [status |-> dispatch[d].outcome, digest |-> @.digest,
                                            tool |-> dispatch[d].tool]]
    /\ dispatch' = [dispatch EXCEPT ![d] = Over]
    /\ UNCHANGED <<edits, applied, commands, asked, todos, task, crashes>>

\* complete settles a row that is still requested.  Another outcome is a
\* conflict, which the caller is told as a failure of the audit.
Complete(d) ==
    /\ At(d, "done")
    /\ audit' = IF Settled(Call(d)) THEN audit
                ELSE [audit EXCEPT ![Call(d)] =
                         [status |-> dispatch[d].outcome, digest |-> @.digest,
                          tool |-> dispatch[d].tool]]
    /\ dispatch' = [dispatch EXCEPT ![d] = Over]
    /\ UNCHANGED <<edits, applied, commands, asked, todos, task, crashes>>

AuditUnavailable(d) ==
    /\ At(d, "done")
    /\ dispatch' = [dispatch EXCEPT ![d] = Over]
    /\ UNCHANGED <<audit, edits, applied, commands, asked, todos, task, crashes>>

-----------------------------------------------------------------------------
(* The tools.                                                              *)

\* The task or its worktree is gone, the parameters are not those of the
\* tool, a path leads outside, a policy or a missing approval forbids it.
Refuse(d) ==
    /\ At(d, "audited") /\ Done(d, "failed")
    /\ UNCHANGED <<audit, edits, applied, commands, asked, todos, task, crashes>>

\* list_files, search_text, read_file, git_status, git_diff
ReadOnly(d) ==
    /\ Is(d, "read") /\ Done(d, "succeeded")
    /\ UNCHANGED <<audit, edits, applied, commands, asked, todos, task, crashes>>

\* Mutant: a request that is not committed is executed again.
RetryEdits(d) ==
    LET row == edits[Call(d)] IN
    /\ Is(d, "apply_file_edits")
    /\ edits' = [edits EXCEPT ![Call(d)] = [status |-> "open",
                                            values |-> dispatch[d].request.values]]
    /\ row.status # "committed"
    /\ dispatch' = [dispatch EXCEPT ![d].step = "editing"]
    /\ UNCHANGED <<audit, applied, commands, asked, todos, task, crashes>>

\* execute_transaction inserts the row of a request that has none.
OpenEdits(d) ==
    /\ Is(d, "apply_file_edits")
    /\ edits[Call(d)] = NoEdits
    /\ edits' = [edits EXCEPT ![Call(d)] = [status |-> "open",
                                            values |-> dispatch[d].request.values]]
    /\ dispatch' = [dispatch EXCEPT ![d].step = "editing"]
    /\ UNCHANGED <<audit, applied, commands, asked, todos, task, crashes>>

\* Otherwise the row is the answer: a commit of the same operations.
EditsKnown(d) ==
    LET row == edits[Call(d)] IN
    /\ Is(d, "apply_file_edits")
    /\ row # NoEdits
    /\ Done(d, IF row.status = "committed" /\ row.values = dispatch[d].request.values
                 THEN "succeeded" ELSE "failed")
    /\ UNCHANGED <<audit, edits, applied, commands, asked, todos, task, crashes>>

CommitEdits(d) ==
    /\ At(d, "editing")
    /\ edits' = [edits EXCEPT ![Call(d)].status = "committed"]
    /\ applied' = [applied EXCEPT ![Call(d)] = @ + 1]
    /\ Done(d, "succeeded")
    /\ UNCHANGED <<audit, commands, asked, todos, task, crashes>>

\* Mutant: edits that were undone are reported with their results.
UndoEditsQuietly(d) ==
    /\ At(d, "editing")
    /\ edits' = [edits EXCEPT ![Call(d)].status = "rolledBack"]
    /\ Done(d, "succeeded")
    /\ UNCHANGED <<audit, applied, commands, asked, todos, task, crashes>>

UndoEdits(d) ==
    /\ At(d, "editing")
    /\ edits' = [edits EXCEPT ![Call(d)].status = "rolledBack"]
    /\ Done(d, "failed")
    /\ UNCHANGED <<audit, applied, commands, asked, todos, task, crashes>>

\* run_task_command refuses an id that runs, and cannot record a second run
\* of one that has run, after it has run.
StartCommand(d) ==
    /\ Is(d, "run_command")
    /\ \A e \in Dispatches : At(e, "running") => Call(e) # Call(d)
    /\ dispatch' = [dispatch EXCEPT ![d].step = "running"]
    /\ UNCHANGED <<audit, edits, applied, commands, asked, todos, task, crashes>>

EndCommand(d) ==
    /\ At(d, "running")
    /\ commands' = commands \cup {Call(d)}
    /\ Done(d, IF Call(d) \in commands THEN "failed" ELSE "succeeded")
    /\ UNCHANGED <<audit, edits, applied, asked, todos, task, crashes>>

CommandFails(d) ==
    /\ At(d, "running")
    /\ Done(d, "failed")
    /\ UNCHANGED <<audit, edits, applied, commands, asked, todos, task, crashes>>

\* One after another, so that a bad one leaves those before it.
UpdateTodos(d) ==
    /\ Is(d, "update_todos")
    /\ \/ todos' = dispatch[d].request.values /\ Done(d, "succeeded")
       \/ todos' = "mixed" /\ Done(d, "failed")
    /\ UNCHANGED <<audit, edits, applied, commands, asked, task, crashes>>

\* The approval has an id of its own: each dispatch asks for another one.
RequestApproval(d) ==
    /\ Is(d, "request_approval")
    /\ asked' = [asked EXCEPT ![Call(d)] = @ + 1]
    /\ Done(d, "succeeded")
    /\ UNCHANGED <<audit, edits, applied, commands, todos, task, crashes>>

CompleteTask(d) ==
    /\ Is(d, "complete_task")
    /\ task' = "completed"
    /\ Done(d, "succeeded")
    /\ UNCHANGED <<audit, edits, applied, commands, asked, todos, crashes>>

\* At the next start the open edits are undone (recover_incomplete_file_
\* transactions); nobody settles the rows that are still requested.
Crash ==
    /\ crashes < MaxCrashes /\ crashes' = crashes + 1
    /\ dispatch' = [d \in Dispatches |-> IF dispatch[d] = New THEN New ELSE Over]
    /\ edits' = [c \in CallIds |-> IF edits[c].status = "open"
                                     THEN [edits[c] EXCEPT !.status = "rolledBack"]
                                     ELSE edits[c]]
    /\ UNCHANGED <<audit, applied, commands, asked, todos, task>>

-----------------------------------------------------------------------------
Next ==
    \/ \E d \in Dispatches :
          \/ \E c \in CallIds, q \in Requests : Begin(d, c, q) \/ Answered(d, c, q)
          \/ Refuse(d) \/ ReadOnly(d) \/ OpenEdits(d) \/ EditsKnown(d) \/ CommitEdits(d)
          \/ UndoEdits(d) \/ StartCommand(d) \/ EndCommand(d) \/ CommandFails(d)
          \/ UpdateTodos(d) \/ RequestApproval(d) \/ CompleteTask(d)
          \/ Complete(d) \/ AuditUnavailable(d)
    \/ Crash

Spec == Init /\ [][Next]_vars

-----------------------------------------------------------------------------
\* However often a call is dispatched, at once, after a stop or with other
\* parameters, its edits are applied for good at most once, and only as they
\* were when its transaction was opened.
EditsAppliedOnce ==
    \A c \in CallIds : applied[c] = IF edits[c].status = "committed" THEN 1 ELSE 0

\* A row that says succeeded has what it names: committed edits or a run on
\* record, whichever of several dispatches settled it.
SuccessIsOnRecord ==
    \A c \in CallIds : audit[c].status = "succeeded" =>
        /\ audit[c].tool = "apply_file_edits" => edits[c].status = "committed"
        /\ audit[c].tool = "run_command" => c \in commands
        /\ audit[c].tool = "request_approval" => asked[c] > 0

\* A settled row is final: what one dispatch reported is not rewritten by
\* another one that was under way, or that repeats the call after a stop.
SettledIsFinal == [][\A c \in CallIds : Settled(c) => audit'[c] = audit[c]]_vars
=============================================================================
