------------------------------ MODULE MCRuntime ------------------------------
(***************************************************************************)
(* Parts of the Runtime that share no state, each run by itself:           *)
(*   approvals  two calls, a command and a file edit, two approvals;       *)
(*   process    two threads that use the Agent, two processes, two         *)
(*              configurations, a restart;                                 *)
(*   tasks      two tasks of one project;                                  *)
(*   profiles   a profile beside the default, a candidate and a memory.    *)
(* The window's thread, which the last two have in common, works on one of *)
(* them at a time; a new task asks of the profiles only that one is active.*)
(***************************************************************************)
EXTENDS BoundApprovals, AgentProcess, TaskWorkspaces, TLC

CONSTANTS c1, c2, run, edit, x, y, k1, k2, u1, u2, t1, t2, default, other, p1

VARIABLE part

MCCalls      == {c1, c2}
MCCommands   == {run}
MCEdits      == {edit}
MCContents   == {x, y}
MCContracts  == {k1, k2}
MCStatuses   == {"editing", "awaitingApproval", "needsIntervention", "failed"}
MCTerminal   == {"failed"}
MCCallers    == {u1, u2}
MCTasks      == {t1, t2}
MCProfiles   == {default, other}
MCCandidates == {p1}

MCSymmetry == Permutations(MCCalls) \cup Permutations(MCCallers)

MCInit ==
    /\ Init /\ ProcessInit /\ WorkspacesInit
    /\ part \in {"approvals", "process", "tasks", "profiles"}
    /\ part # "approvals" => content = x /\ contract = k1
    /\ part # "tasks" => git = "none"

MCNext ==
    \/ part = "approvals" /\ Next /\ UNCHANGED <<processVars, workspaceVars, part>>
    \/ part = "process" /\ ProcessNext /\ UNCHANGED <<vars, workspaceVars, part>>
    \/ /\ part \in {"tasks", "profiles"}
       /\ WorkspacesNext /\ UNCHANGED <<vars, processVars, part>>
       /\ part = "tasks" => profileVars' = profileVars
       /\ part = "profiles" => workVars' = workVars

MCSpec == MCInit /\ [][MCNext]_<<vars, processVars, workspaceVars, part>>
=============================================================================
