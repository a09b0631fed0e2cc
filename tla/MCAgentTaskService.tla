-------------------------- MODULE MCAgentTaskService --------------------------
(* Two tasks and two threads compete for one slot.                         *)
EXTENDS AgentTaskService

CONSTANTS t1, t2, h1, h2

MCTaskIds == {t1, t2}
MCThreads == {h1, h2}
=============================================================================
