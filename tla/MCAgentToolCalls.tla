--------------------------- MODULE MCAgentToolCalls ---------------------------
(***************************************************************************)
(* Three dispatches of two calls, and a stop; or three commands whose two  *)
(* ids share the name of a file.  A dispatch sees of a command whether it  *)
(* has a row, and nothing of its logs, so that each part is run by itself. *)
(***************************************************************************)
EXTENDS AgentToolCalls, CommandLogs, TLC

CONSTANTS d1, d2, d3, c1, c2, v1, v2, k1, k2, k3

VARIABLE part

MCDispatches == {d1, d2, d3}
MCCallIds    == {c1, c2}
MCValues     == {v1, v2}
MCCommands   == {k1, k2, k3}
MCRunIds     == {1, 2}
MCStem       == [r \in MCRunIds |-> 0]
MCSymmetry   == Permutations(MCDispatches) \cup Permutations(MCCallIds)
                    \cup Permutations(MCValues) \cup Permutations(MCCommands)

MCInit == Init /\ LogsInit /\ part \in {"calls", "logs"}

MCNext ==
    \/ part = "calls" /\ Next /\ UNCHANGED <<logVars, part>>
    \/ part = "logs" /\ LogsNext /\ UNCHANGED <<vars, part>>

MCSpec == MCInit /\ [][MCNext]_<<vars, logVars, part>>
=============================================================================
