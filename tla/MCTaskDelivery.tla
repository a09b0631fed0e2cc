---------------------------- MODULE MCTaskDelivery ----------------------------
(* A fix that may be taken back, two validations, one approval of a kind.  *)
EXTENDS TaskDelivery

CONSTANTS base, fix, source, test, wipe, root, crate, a1, h1

MCContents == {base, fix}
MCChangedFiles == [c \in MCContents |-> IF c = base THEN {} ELSE {source}]
MCCommands    == {test, wipe}
MCDangerous   == {wipe}
MCDirectories == {root}
MCAsked       == {a1}
MCHookAsked   == {h1}
MCAgentStatuses == {"editing"}
MCTest        == {test}
=============================================================================
