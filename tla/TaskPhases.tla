------------------------------ MODULE TaskPhases ------------------------------
(***************************************************************************)
(* What the rest of the system may rely on about one V3 task, whatever the *)
(* model says and whatever the Runtime answers: the phases it goes through *)
(* and how many tool requests it has issued and seen answered.  The tool   *)
(* loop (AutonomousLoop) implements it; the Agent service                  *)
(* (AgentTaskService) is built on its steps.                               *)
(***************************************************************************)
EXTENDS Naturals

CONSTANT MaxRequests  \* the requests the round limit lets one task issue

VARIABLE task

\* "failed" and the phases of the legacy graph are never entered by a V3 task.
Final == {"needs_intervention", "completed", "cancelled"}

NewTask == [phase |-> "created", issued |-> 0, answered |-> 0]

\* One model decision: a further request for the Runtime, or a human.
Decided(s) ==
    {[s EXCEPT !.phase = "needs_intervention"]}
        \cup {r \in {[s EXCEPT !.phase = "waiting_runtime", !.issued = @ + 1]} :
                r.issued <= MaxRequests}

\* The result of the open request settles the task or asks for the next one.
Answered(s) ==
    LET a == [s EXCEPT !.answered = @ + 1]
    IN  Decided(a) \cup {[a EXCEPT !.phase = p] : p \in {"waiting_approval", "completed", "cancelled"}}

-----------------------------------------------------------------------------
Init == task = NewTask

Decide == task.phase = "created" /\ task' \in Decided(task)

Answer == task.phase = "waiting_runtime" /\ task' \in Answered(task)

Next == Decide \/ Answer

Spec == Init /\ [][Next]_task

FairSpec == Spec /\ WF_task(Next)
=============================================================================
