---------------------------- MODULE MCAgentRepair ----------------------------
(***************************************************************************)
(* Two commands on one task of an older workflow; the commands are alike.  *)
(***************************************************************************)
EXTENDS AgentRepair, TLC

Symmetry == Permutations(Clients)
=============================================================================
