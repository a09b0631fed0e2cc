---------------------------- MODULE MCTaskRecovery ----------------------------
(* Two commands that may share an id, and an Agent that works and ends.    *)
EXTENDS TaskRecovery

CONSTANTS k1, k2, r1, r2

MCCalls  == {k1, k2}
MCTimed  == {k1}
MCRunIds == {r1, r2}
MCPhases == {"editing", "completed"}
=============================================================================
