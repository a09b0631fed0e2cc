----------------------------- MODULE AgentRepair -----------------------------
(***************************************************************************)
(* A task of the older workflows (V1, V2), which checkpoints of an earlier *)
(* release still hold: the graph of src/agent/app/graph plans, edits,      *)
(* validates and repairs, and the commands of RS/commands/agent.rs commit  *)
(* its edits (FileEditTransaction) and run its validations (CommandRuns).  *)
(* Several commands may work on the task at once; any request or response  *)
(* between the Runtime and the Agent may be lost, and the Runtime may stop.*)
(* What a command writes to the task's row is TaskRecovery's SyncTask.     *)
(***************************************************************************)
EXTENDS Naturals, FiniteSets

CONSTANTS Clients,      \* commands of the Runtime that run at the same time
          MaxRepairs,   \* max_repair_rounds
          MaxRuns,      \* max_iterations of one run_agent_validation_cycle
          MaxCommits,   \* bound on the commit ids given out
          MaxCrashes    \* bound

ASSUME RepairAssumption == {MaxRepairs, MaxRuns, MaxCommits, MaxCrashes} \subseteq Nat

VARIABLES agent,    \* the checkpoint of the task
          rows,     \* file_edit_transactions by request id, with the plan's kind and round
          client,   \* what each command is at, and the state it was last told
          granted,  \* the rounds whose deletions the user has ever approved
          crashes

vars == <<agent, rows, client, granted, crashes>>

Commits == 1..MaxCommits
Settled == {"completed", "failed", "needs_intervention", "waiting_approval"}

NoApproval == [kind |-> "none", status |-> "none", round |-> 0, stale |-> FALSE]
NoRow      == [status |-> "none", delete |-> FALSE, round |-> 0]
Idle       == [step |-> "idle"]

\* What a command uses of the state in a response: the commit that waits for
\* it, if there is one, and whether there is a validation to run.
Unseen == [commit |-> 0, delete |-> FALSE, round |-> 0, request |-> FALSE]

View(s) ==
    IF s.phase = "awaiting_file_commit"
    THEN [commit |-> s.pending, delete |-> s.plan = "delete", round |-> s.round,
          request |-> s.request]
    ELSE [Unseen EXCEPT !.request = s.request /\ s.phase \notin Settled]

Init ==
    /\ agent \in [version : {1, 2}, phase : {"created"}, planned : {FALSE},
                  plan : {"none"}, applied : {FALSE}, pending : {0}, ids : {0},
                  asks : {FALSE}, approval : {NoApproval}, request : {FALSE},
                  result : {"none"}, round : {0}, edits : {{}}]
    /\ rows = [c \in Commits |-> NoRow]
    /\ client = [k \in Clients |-> Idle]
    /\ granted = {} /\ crashes = 0

-----------------------------------------------------------------------------
(* The nodes of the graph: the states one may leave the task in.           *)

PlanNode(s) ==
    IF s.phase \in {"waiting_approval", "completed", "failed"} THEN {s}
    ELSE {[s EXCEPT !.phase = "planned", !.planned = TRUE]}
         \cup (IF s.version = 2 /\ ~s.planned THEN {[s EXCEPT !.phase = "failed"]} ELSE {})

Ask(s, kind) == [kind |-> kind, status |-> "pending", round |-> s.round, stale |-> FALSE]

ApprovalNode(s) ==
    CASE ~s.asks                           -> s
      [] s.approval.status = "approved"    -> [s EXCEPT !.phase = "planned"]
      [] s.approval.status = "rejected"    -> [s EXCEPT !.phase = "failed"]
      [] s.approval.status = "pending"     -> [s EXCEPT !.phase = "waiting_approval"]
      [] OTHER -> [s EXCEPT !.phase = "waiting_approval", !.approval = Ask(s, "general")]

\* Mutant: any approval of deletions is taken, whatever it was asked for.
MatchesKind(s) == s.approval.kind = "delete"

\* The content of a delete approval holds a fingerprint of the plan, its
\* round and the worktree; "stale" says that the worktree has changed since.
Matches(s) == s.approval.kind = "delete" /\ s.approval.round = s.round /\ ~s.approval.stale

DeleteApproved(s) == Matches(s) /\ s.approval.status = "approved"

AskDelete(s) ==
    [s EXCEPT !.phase = "waiting_approval", !.asks = TRUE,
              !.approval = IF Matches(s) THEN @ ELSE Ask(s, "delete")]

AwaitCommit(s) ==
    [s EXCEPT !.phase = "awaiting_file_commit", !.applied = FALSE, !.asks = FALSE,
              !.pending = IF @ = 0 THEN s.ids + 1 ELSE @,
              !.ids = IF s.pending = 0 THEN @ + 1 ELSE @]

\* The model is asked for a plan when there is none; its reply may be no plan.
EditNode(s) ==
    CASE s.version = 1 -> {[s EXCEPT !.phase = "needs_intervention"]}
      [] s.version = 2 /\ s.applied -> {[s EXCEPT !.phase = "editing"]}
      [] OTHER ->
           LET plans == IF s.plan = "none" THEN {"plain", "delete"} ELSE {s.plan}
               With(p) == [s EXCEPT !.plan = p]
           IN  {IF p = "delete" /\ ~DeleteApproved(s) THEN AskDelete(With(p))
                                                      ELSE AwaitCommit(With(p)) : p \in plans}
               \cup (IF s.plan = "none" THEN {[s EXCEPT !.phase = "failed"]} ELSE {})

ValidateNode(s) ==
    IF s.result # "none" THEN s ELSE [s EXCEPT !.phase = "validating", !.request = TRUE]

\* Mutant: one round too many.
LimitPassed(s) == s.round > MaxRepairs

LimitReached(s) == s.round >= MaxRepairs

\* A repair takes the place of the plan, and goes straight to the edit node.
ErrorAnalysisNode(s) ==
    IF s.result = "stopped" \/ LimitReached(s)
    THEN {[s EXCEPT !.phase = "needs_intervention"]}
    ELSE LET attempt == [s EXCEPT !.phase = "repairing", !.round = @ + 1,
                                  !.request = FALSE, !.result = "none"]
         IN  {[attempt EXCEPT !.phase = "failed"]}
             \cup UNION {EditNode([attempt EXCEPT !.plan = p, !.applied = FALSE]) :
                            p \in {"plain", "delete"}}

\* The edges of the graph.
AfterEdit(s) ==
    LET v == ValidateNode(s) IN
    CASE s.phase # "editing"   -> {s}
      [] v.result = "none"     -> {v}
      [] v.result = "passed"   -> {[v EXCEPT !.phase = "completed"]}
      [] OTHER                 -> ErrorAnalysisNode(v)

RunGraph(s) ==
    LET Approved == {ApprovalNode(p) : p \in PlanNode(s)}
        Ended    == {a \in Approved : a.phase \in {"waiting_approval", "completed", "failed"}}
    IN  Ended \cup UNION {UNION {AfterEdit(e) : e \in EditNode(a)} : a \in Approved \ Ended}
-----------------------------------------------------------------------------
(* The Agent's endpoints, each under the lock of the task and saved at its *)
(* end: the states a request may leave, or none when it is refused.        *)

\* A task that still waits for a slot of the scheduler stays as it is.
AdvanceTask(ask) == {agent} \cup RunGraph([agent EXCEPT !.asks = @ \/ ask])

\* Mutant: the id of the commit is not compared.
ExpectsAny(c) == agent.phase = "awaiting_file_commit"

Expects(c) == agent.phase = "awaiting_file_commit" /\ agent.pending = c

\* The Agent's record of the edits is that of its own plan.
SubmitFileCommitResult(c, success) ==
    CASE ~Expects(c) -> {}
      [] Expects(c) /\ success ->
           RunGraph([agent EXCEPT !.phase = "editing", !.applied = TRUE, !.pending = 0,
                                  !.edits = @ \cup {agent.pending}])
      [] OTHER -> {[agent EXCEPT !.phase = "failed", !.pending = 0]}

SubmitValidationResult(result) == RunGraph([agent EXCEPT !.result = result])

At(k, step) == client[k].step = step
Go(k, step) == client' = [client EXCEPT ![k].step = step]
Stop(k)     == client' = [client EXCEPT ![k] = Idle]

Command(step, runs, ask, result) ==
    [step |-> step, runs |-> runs, ask |-> ask, result |-> result]

\* A request of the Runtime: its response, or only the request, or neither
\* arrives.  The ids that are given out are bounded.
Requested(k, states, next) ==
    /\ \/ \E s \in {t \in states : t.ids <= MaxCommits} :
             /\ agent' = s
             /\ Stop(k) \/ client' = [client EXCEPT ![k] = [step |-> next, runs |-> @.runs, seen |-> View(s)]]
       \/ Stop(k) /\ UNCHANGED agent
    /\ UNCHANGED <<rows, granted, crashes>>

ResumeApproval(decision) ==
    /\ agent.approval.kind # "none"
    /\ LET decided == [agent EXCEPT !.approval.status = decision, !.asks = FALSE,
                          !.phase = IF decision = "approved" THEN "planned" ELSE "failed"]
       IN  \E s \in IF decision = "approved" THEN RunGraph(decided) ELSE {decided} :
             s.ids <= MaxCommits /\ agent' = s
    /\ granted' = IF decision = "approved" /\ agent.approval.kind = "delete"
                  THEN granted \cup {agent.approval.round} ELSE granted
    /\ UNCHANGED <<rows, client, crashes>>

-----------------------------------------------------------------------------
(* The commands of the Runtime.                                            *)

Begin(k, first, runs, ask, result) ==
    /\ At(k, "idle")
    /\ client' = [client EXCEPT ![k] = Command(first, runs, ask, result)]
    /\ UNCHANGED <<agent, rows, granted, crashes>>

RunAgentValidationCycle(k)       == Begin(k, "advance", MaxRuns, FALSE, "none")
AdvanceAgentTask(k, ask)         == Begin(k, "advance", 0, ask, "none")
SubmitAgentValidation(k, result) == Begin(k, "post", 0, FALSE, result)

Advance(k) == At(k, "advance") /\ Requested(k, AdvanceTask(client[k].ask), "settle")

\* The worktree changes: a fingerprint taken before no longer matches.
WorktreeChanges == agent' = [agent EXCEPT !.approval.stale = agent.approval.kind = "delete"]

NothingToCommit(k) ==
    /\ At(k, "settle") /\ client[k].seen.commit = 0
    /\ Go(k, "sync") /\ UNCHANGED <<agent, rows, granted, crashes>>

\* What the command was told may be long past.  A commit that has a row is
\* not executed again: it succeeds when it was committed, and else it fails.
ExecuteFileCommit(k) ==
    LET commit == client[k].seen.commit
        row    == [status |-> "open", delete |-> client[k].seen.delete,
                   round |-> client[k].seen.round]
    IN  /\ At(k, "settle") /\ commit # 0
        /\ \/ /\ rows[commit].status = "none" /\ rows' = [rows EXCEPT ![commit] = row]
              /\ WorktreeChanges /\ Go(k, "edit")
           \/ /\ rows[commit].status = "committed"
              /\ Go(k, "report") /\ UNCHANGED <<agent, rows>>
           \/ /\ rows[commit].status # "committed"
              /\ Go(k, "report_failed") /\ UNCHANGED <<agent, rows>>
        /\ UNCHANGED <<granted, crashes>>

\* The transaction waits for the user: the state goes back as it came.
CommitAwaitsApproval(k) ==
    /\ At(k, "settle") /\ client[k].seen.commit # 0
    /\ rows[client[k].seen.commit].status = "none"
    /\ Go(k, "sync") /\ UNCHANGED <<agent, rows, granted, crashes>>

EndEdits(k) ==
    /\ At(k, "edit")
    /\ \E end \in {"committed", "rolled_back"} :
         /\ rows' = [rows EXCEPT ![client[k].seen.commit].status = end]
         /\ Go(k, IF end = "committed" THEN "report" ELSE "report_failed")
    /\ WorktreeChanges
    /\ UNCHANGED <<granted, crashes>>

ReportFileCommit(k) ==
    \E success \in BOOLEAN :
        /\ At(k, IF success THEN "report" ELSE "report_failed")
        /\ Requested(k, SubmitFileCommitResult(client[k].seen.commit, success), "sync")

\* After the task's row is brought up to date, the cycle goes on while it
\* was told of a validation to run.
SyncAgentState(k) ==
    /\ At(k, "sync")
    /\ IF client[k].runs > 0 /\ client[k].seen.request
       THEN client' = [client EXCEPT ![k] = Command("run", @.runs - 1, FALSE, "none")]
       ELSE Stop(k)
    /\ UNCHANGED <<agent, rows, granted, crashes>>

\* The command may be refused, and it may change the worktree.
RunValidation(k) ==
    /\ At(k, "run")
    /\ Stop(k) \/ \E result \in {"passed", "failed", "stopped"} :
                     client' = [client EXCEPT ![k].step = "post", ![k].result = result]
    /\ WorktreeChanges \/ UNCHANGED agent
    /\ UNCHANGED <<rows, granted, crashes>>

PostValidationResult(k) ==
    At(k, "post") /\ Requested(k, SubmitValidationResult(client[k].result), "settle")

\* The application stops; its next start undoes what was open.
Crash ==
    /\ crashes < MaxCrashes /\ crashes' = crashes + 1
    /\ client' = [k \in Clients |-> Idle]
    /\ rows' = [c \in Commits |-> IF rows[c].status = "open"
                                  THEN [rows[c] EXCEPT !.status = "rolled_back"] ELSE rows[c]]
    /\ WorktreeChanges \/ UNCHANGED agent
    /\ UNCHANGED granted

-----------------------------------------------------------------------------
Start(k) ==
    \/ RunAgentValidationCycle(k)
    \/ \E ask \in BOOLEAN : AdvanceAgentTask(k, ask)
    \/ \E result \in {"passed", "failed", "stopped"} : SubmitAgentValidation(k, result)

Proceed(k) ==
    \/ Advance(k) \/ NothingToCommit(k) \/ ExecuteFileCommit(k) \/ CommitAwaitsApproval(k)
    \/ EndEdits(k) \/ ReportFileCommit(k) \/ SyncAgentState(k)
    \/ RunValidation(k) \/ PostValidationResult(k)

Next ==
    \/ \E k \in Clients : Start(k) \/ Proceed(k)
    \/ \E decision \in {"approved", "rejected"} : ResumeApproval(decision)
    \/ Crash

Spec == Init /\ [][Next]_vars

-----------------------------------------------------------------------------
\* What the Agent believes to be edited is committed, whichever commands met
\* and whatever was lost or interrupted (complete_pending_file_commit,
\* submit_file_commit_result).
AppliedWereCommitted == \A c \in agent.edits : rows[c].status = "committed"

\* Files are deleted only by a plan whose deletions the user has approved:
\* not by an approval of something else, nor by that of an earlier round.
DeletesWereApproved ==
    \A c \in Commits : rows[c].delete => rows[c].round \in granted

\* The Agent takes at most one set of edits for each round, and no more
\* rounds than are allowed, however often results and commands are repeated.
RepairsBounded ==
    /\ agent.round <= MaxRepairs
    /\ Cardinality(agent.edits) <= agent.round + 1
=============================================================================
