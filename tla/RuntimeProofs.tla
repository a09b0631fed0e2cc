----------------------------- MODULE RuntimeProofs -----------------------------
(***************************************************************************)
(* Proofs about what the Runtime keeps of the Agent's work: the rows of    *)
(* tool calls and edits (AgentToolCalls), the logs of commands             *)
(* (CommandLogs), and where tasks work, with the profiles that fill their  *)
(* contracts (TaskWorkspaces, PersonalProfiles).  The three parts share    *)
(* nothing; each has an inductive invariant of its own and its theorems at *)
(* its end.                                                                *)
(***************************************************************************)
EXTENDS AgentToolCalls, CommandLogs, TaskWorkspaces, TLAPS

-----------------------------------------------------------------------------
(* Tool calls, for any dispatches, ids, parameters and number of stops:    *)
(* Init, Next and Spec are those of AgentToolCalls.  A settled row speaks  *)
(* of another table, and the two are written by steps of their own; so the *)
(* invariants follow what a dispatch carries from the one to the other.    *)

Outcomes == {"succeeded", "failed"}

AuditRows ==
    {NoRow} \cup [status : {"requested"}, digest : Tools]
            \cup [status : Outcomes, digest : Tools, tool : Tools]

EditRows == {NoEdits} \cup [status : {"open", "committed", "rolledBack"}, values : Values]

DispatchRows ==
    {New, Over}
        \cup [step : {"audited", "editing", "running"}, call : CallIds, request : Requests]
        \cup [step : {"done"}, call : CallIds, tool : Tools, outcome : Outcomes]

\* The types of the rows, and which of their fields the step of a dispatch
\* leaves it.
ToolCallsTypeOK ==
    /\ audit \in [CallIds -> AuditRows]
    /\ dispatch \in [Dispatches -> DispatchRows]
    /\ edits \in [CallIds -> EditRows]
    /\ applied \in [CallIds -> Nat] /\ asked \in [CallIds -> Nat]
    /\ commands \subseteq CallIds
    /\ todos \in Values \cup {"none", "mixed"} /\ task \in {"working", "completed"}
    /\ crashes \in Nat

\* EditsAppliedOnce, with why: an open transaction is at most one dispatch's.
EditsInv ==
    /\ EditsAppliedOnce
    /\ \A d \in Dispatches : At(d, "editing") =>
          /\ dispatch[d].request.tool = "apply_file_edits"
          /\ edits[Call(d)].status = "open"
    /\ \A d, e \in Dispatches :
          At(d, "editing") /\ At(e, "editing") /\ Call(d) = Call(e) => d = e

OnRecord(tool, c) ==
    /\ tool = "apply_file_edits" => edits[c].status = "committed"
    /\ tool = "run_command" => c \in commands
    /\ tool = "request_approval" => asked[c] > 0

\* SuccessIsOnRecord, of rows and of the outcomes that are still to be
\* written to one; what a dispatch has begun has a row.
RecordInv ==
    /\ \A c \in CallIds : audit[c].status = "succeeded" => OnRecord(audit[c].tool, c)
    /\ \A d \in Dispatches :
          /\ dispatch[d] \notin {New, Over} => audit[Call(d)] # NoRow
          /\ At(d, "done") /\ dispatch[d].outcome = "succeeded"
                => OnRecord(dispatch[d].tool, Call(d))
          /\ At(d, "running") => dispatch[d].request.tool = "run_command"
          /\ At(d, "editing") => dispatch[d].request.tool = "apply_file_edits"

-----------------------------------------------------------------------------
(* Steps of a dispatch.                                                    *)

AtWork(d) == At(d, "audited") \/ At(d, "editing") \/ At(d, "running")

\* A dispatch at work has a call and a request, and one that is done what it
\* writes to the row of the call.
LEMMA Carried ==
    ASSUME ToolCallsTypeOK, NEW d \in Dispatches
    PROVE  /\ AtWork(d) => /\ dispatch[d].call \in CallIds /\ dispatch[d].request \in Requests
                           /\ dispatch[d].request.tool \in Tools
                           /\ dispatch[d].request.values \in Values
           /\ At(d, "done") => /\ dispatch[d].call \in CallIds /\ dispatch[d].tool \in Tools
                               /\ dispatch[d].outcome \in Outcomes
BY DEF ToolCallsTypeOK, DispatchRows, AtWork, At, New, Over, Requests

\* What Done leaves of the other dispatches, and in this one.
LEMMA DoneCarries ==
    ASSUME ToolCallsTypeOK, NEW d \in Dispatches, NEW outcome \in Outcomes, AtWork(d), Done(d, outcome)
    PROVE  /\ dispatch' \in [Dispatches -> DispatchRows]
           /\ dispatch'[d].step = "done" /\ dispatch'[d].call = dispatch[d].call
           /\ dispatch'[d].tool = dispatch[d].request.tool /\ dispatch'[d].outcome = outcome
           /\ \A e \in Dispatches : e # d => dispatch'[e] = dispatch[e]
<1>1. dispatch \in [Dispatches -> DispatchRows]
  BY DEF ToolCallsTypeOK
<1>2. Call(d) \in CallIds /\ dispatch[d].request.tool \in Tools
  BY Carried DEF Call
<1>3. [step |-> "done", call |-> Call(d), tool |-> dispatch[d].request.tool,
       outcome |-> outcome] \in DispatchRows
  BY <1>2 DEF DispatchRows
<1> QED  BY <1>1, <1>3 DEF Done, Call

\* Going on to the step in which a transaction or a command is open.
LEMMA GoesOn ==
    ASSUME ToolCallsTypeOK, NEW d \in Dispatches, NEW step \in {"editing", "running"}, At(d, "audited"),
           dispatch' = [dispatch EXCEPT ![d].step = step]
    PROVE  /\ dispatch' \in [Dispatches -> DispatchRows]
           /\ dispatch'[d].step = step /\ dispatch'[d].call = dispatch[d].call
           /\ dispatch'[d].request = dispatch[d].request
           /\ \A e \in Dispatches : e # d => dispatch'[e] = dispatch[e]
<1>1. dispatch \in [Dispatches -> DispatchRows]
  BY DEF ToolCallsTypeOK
<1>2. dispatch[d] \in [step : {"audited"}, call : CallIds, request : Requests]
  BY <1>1 DEF DispatchRows, At, New, Over
<1>3. dispatch'[d] = [step |-> step, call |-> dispatch[d].call, request |-> dispatch[d].request]
  BY <1>1, <1>2
<1> QED  BY <1>1, <1>2, <1>3 DEF DispatchRows

\* A transaction that ends keeps the operations it was opened with.
LEMMA EndsEdits ==
    ASSUME ToolCallsTypeOK, NEW c \in CallIds, edits[c].status = "open",
           NEW end \in {"committed", "rolledBack"},
           edits' = [edits EXCEPT ![c].status = end]
    PROVE  /\ edits' \in [CallIds -> EditRows]
           /\ edits'[c].status = end
           /\ \A e \in CallIds : e # c => edits'[e] = edits[e]
<1>1. edits \in [CallIds -> EditRows]
  BY DEF ToolCallsTypeOK
<1>2. edits[c] \in [status : {"open"}, values : Values]
  BY <1>1 DEF EditRows, NoEdits
<1>3. edits'[c] = [status |-> end, values |-> edits[c].values]
  BY <1>1, <1>2
<1> QED  BY <1>1, <1>2, <1>3 DEF EditRows

\* The actions of one dispatch that end its work with a Done, and may leave
\* something on record.
Ends(d) ==
    \/ Refuse(d) \/ ReadOnly(d) \/ EditsKnown(d) \/ EndCommand(d) \/ CommandFails(d)
    \/ UpdateTodos(d) \/ RequestApproval(d) \/ CompleteTask(d)

\* They leave the audit and the transactions alone, and a success is on record.
LEMMA EndsOnRecord ==
    ASSUME ToolCallsTypeOK, RecordInv, NEW d \in Dispatches, Ends(d)
    PROVE  /\ AtWork(d) /\ ~At(d, "editing")
           /\ UNCHANGED <<audit, edits, applied, crashes>>
           /\ commands \subseteq commands' /\ commands' \subseteq CallIds
           /\ asked' \in [CallIds -> Nat] /\ \A c \in CallIds : asked'[c] >= asked[c]
           /\ todos' \in Values \cup {"none", "mixed"} /\ task' \in {"working", "completed"}
           /\ \/ Done(d, "failed")
              \/ /\ Done(d, "succeeded")
                 /\ \A t \in Tools, c \in CallIds :
                       t = dispatch[d].request.tool /\ c = Call(d) => OnRecord(t, c)'
<1> USE DEF AtWork, At, Is, Outcomes
<1>0. /\ asked \in [CallIds -> Nat] /\ commands \subseteq CallIds
      /\ todos \in Values \cup {"none", "mixed"} /\ task \in {"working", "completed"}
      /\ AtWork(d) => Call(d) \in CallIds /\ dispatch[d].request.values \in Values
  BY Carried DEF ToolCallsTypeOK, Call
<1>1. CASE Refuse(d)
  BY <1>0, <1>1 DEF Refuse
<1>2. CASE ReadOnly(d)
  BY <1>0, <1>2 DEF ReadOnly, OnRecord
<1>3. CASE EditsKnown(d)
  BY <1>0, <1>3 DEF EditsKnown, OnRecord
<1>4. CASE EndCommand(d)
  BY <1>0, <1>4 DEF EndCommand, OnRecord, RecordInv
<1>5. CASE CommandFails(d)
  BY <1>0, <1>5 DEF CommandFails
<1>6. CASE UpdateTodos(d)
  BY <1>0, <1>6 DEF UpdateTodos, OnRecord
<1>7. CASE RequestApproval(d)
  BY <1>0, <1>7 DEF RequestApproval, OnRecord
<1>8. CASE CompleteTask(d)
  BY <1>0, <1>8 DEF CompleteTask, OnRecord
<1> QED  BY <1>1, <1>2, <1>3, <1>4, <1>5, <1>6, <1>7, <1>8 DEF Ends

\* The steps of Next, those that end alike together.
LEMMA Steps ==
    ASSUME [Next]_vars
    PROVE  \/ \E d \in Dispatches, c \in CallIds, q \in Requests : Begin(d, c, q)
           \/ \E d \in Dispatches, c \in CallIds, q \in Requests : Answered(d, c, q)
           \/ \E d \in Dispatches : Ends(d) \/ OpenEdits(d) \/ CommitEdits(d) \/ UndoEdits(d)
           \/ \E d \in Dispatches : StartCommand(d) \/ Complete(d) \/ AuditUnavailable(d)
           \/ Crash \/ UNCHANGED vars
BY DEF Next, Ends

-----------------------------------------------------------------------------
(* The invariants.                                                         *)

ToolCallsInv == ToolCallsTypeOK /\ EditsInv /\ RecordInv

LEMMA ToolCallsInit_Inv == Init => ToolCallsInv
BY ToolsAssumption
   DEF Init, ToolCallsInv, ToolCallsTypeOK, EditsInv, RecordInv, EditsAppliedOnce, AuditRows, EditRows,
       DispatchRows, NoRow, NoEdits, New, At

LEMMA ToolCallsTypeNext == ToolCallsInv /\ [Next]_vars => ToolCallsTypeOK'
<1> SUFFICES ASSUME ToolCallsInv, [Next]_vars PROVE ToolCallsTypeOK'
  OBVIOUS
<1>0. ToolCallsTypeOK /\ EditsInv /\ RecordInv
  BY DEF ToolCallsInv
<1>1. ASSUME NEW d \in Dispatches, NEW c \in CallIds, NEW q \in Requests, Begin(d, c, q)
      PROVE  ToolCallsTypeOK'
  <2>1. q.tool \in Tools
    BY DEF Requests
  <2>2. [step |-> "audited", call |-> c, request |-> q] \in DispatchRows
    BY DEF DispatchRows
  <2>3. [status |-> "requested", digest |-> q.tool] \in AuditRows
    BY <2>1 DEF AuditRows
  <2> QED  BY <1>0, <1>1, <2>2, <2>3 DEF Begin, Digest, ToolCallsTypeOK
<1>2. ASSUME NEW d \in Dispatches, NEW c \in CallIds, NEW q \in Requests, Answered(d, c, q)
      PROVE  ToolCallsTypeOK'
  BY <1>0, <1>2 DEF Answered, ToolCallsTypeOK, DispatchRows
<1>3. ASSUME NEW d \in Dispatches, Ends(d) PROVE ToolCallsTypeOK'
  BY <1>0, <1>3, EndsOnRecord, DoneCarries DEF ToolCallsTypeOK, Outcomes
<1>4. ASSUME NEW d \in Dispatches, OpenEdits(d) PROVE ToolCallsTypeOK'
  <2>1. AtWork(d) /\ At(d, "audited") /\ dispatch' \in [Dispatches -> DispatchRows]
    BY <1>0, <1>4, GoesOn DEF OpenEdits, Is, AtWork
  <2>2. [status |-> "open", values |-> dispatch[d].request.values] \in EditRows
    BY <1>0, <2>1, Carried DEF EditRows
  <2> QED  BY <1>0, <1>4, <2>1, <2>2 DEF OpenEdits, ToolCallsTypeOK
<1>5. ASSUME NEW d \in Dispatches, CommitEdits(d) PROVE ToolCallsTypeOK'
  <2>1. /\ AtWork(d) /\ Call(d) \in CallIds /\ edits[Call(d)].status = "open"
        /\ edits' = [edits EXCEPT ![Call(d)].status = "committed"] /\ Done(d, "succeeded")
    BY <1>0, <1>5, Carried DEF CommitEdits, AtWork, EditsInv, Call
  <2>2. edits' \in [CallIds -> EditRows] /\ dispatch' \in [Dispatches -> DispatchRows]
    BY <1>0, <2>1, EndsEdits, DoneCarries DEF Outcomes
  <2> QED  BY <1>0, <1>5, <2>1, <2>2 DEF CommitEdits, ToolCallsTypeOK
<1>6. ASSUME NEW d \in Dispatches, UndoEdits(d) PROVE ToolCallsTypeOK'
  <2>1. /\ AtWork(d) /\ Call(d) \in CallIds /\ edits[Call(d)].status = "open"
        /\ edits' = [edits EXCEPT ![Call(d)].status = "rolledBack"] /\ Done(d, "failed")
    BY <1>0, <1>6, Carried DEF UndoEdits, AtWork, EditsInv, Call
  <2>2. edits' \in [CallIds -> EditRows] /\ dispatch' \in [Dispatches -> DispatchRows]
    BY <1>0, <2>1, EndsEdits, DoneCarries DEF Outcomes
  <2> QED  BY <1>0, <1>6, <2>1, <2>2 DEF UndoEdits, ToolCallsTypeOK
<1>7. ASSUME NEW d \in Dispatches, StartCommand(d) PROVE ToolCallsTypeOK'
  BY <1>0, <1>7, GoesOn DEF StartCommand, Is, ToolCallsTypeOK
<1>8. ASSUME NEW d \in Dispatches, Complete(d) PROVE ToolCallsTypeOK'
  <2>1. /\ Call(d) \in CallIds /\ dispatch[d].tool \in Tools /\ dispatch[d].outcome \in Outcomes
    BY <1>0, <1>8, Carried DEF Complete, Call
  <2>2. audit[Call(d)] # NoRow
    BY <1>0, <1>8 DEF Complete, RecordInv, At, New, Over
  <2>3. audit[Call(d)].digest \in Tools
    BY <1>0, <2>1, <2>2 DEF ToolCallsTypeOK, AuditRows
  <2>4. [status |-> dispatch[d].outcome, digest |-> audit[Call(d)].digest,
         tool |-> dispatch[d].tool] \in AuditRows
    BY <2>1, <2>3 DEF AuditRows
  <2>5. audit' \in [CallIds -> AuditRows]
    BY <1>0, <1>8, <2>1, <2>4 DEF Complete, ToolCallsTypeOK
  <2> QED  BY <1>0, <1>8, <2>5 DEF Complete, ToolCallsTypeOK, DispatchRows
<1>9. ASSUME NEW d \in Dispatches, AuditUnavailable(d) PROVE ToolCallsTypeOK'
  BY <1>0, <1>9 DEF AuditUnavailable, ToolCallsTypeOK, DispatchRows
<1>10. CASE Crash
  BY <1>0, <1>10 DEF Crash, ToolCallsTypeOK, DispatchRows, EditRows, NoEdits
<1>11. CASE UNCHANGED vars
  BY <1>0, <1>11 DEF vars, ToolCallsTypeOK
<1> QED  BY Steps, <1>1, <1>2, <1>3, <1>4, <1>5, <1>6, <1>7, <1>8, <1>9, <1>10, <1>11

\* A dispatch that leaves the transactions alone and is not at one then.
LEMMA EditsKept ==
    ASSUME EditsInv, UNCHANGED <<edits, applied>>, NEW d \in Dispatches,
           dispatch'[d].step # "editing",
           \A e \in Dispatches : e # d => dispatch'[e] = dispatch[e]
    PROVE  EditsInv'
BY DEF EditsInv, EditsAppliedOnce, At, Call

LEMMA EditsNext == ToolCallsInv /\ [Next]_vars => EditsInv'
<1> SUFFICES ASSUME ToolCallsInv, [Next]_vars PROVE EditsInv'
  OBVIOUS
<1>0. ToolCallsTypeOK /\ EditsInv /\ RecordInv
  BY DEF ToolCallsInv
<1>1. ASSUME NEW d \in Dispatches, NEW c \in CallIds, NEW q \in Requests, Begin(d, c, q)
      PROVE  EditsInv'
  BY <1>0, <1>1, EditsKept DEF Begin, ToolCallsTypeOK
<1>2. ASSUME NEW d \in Dispatches, NEW c \in CallIds, NEW q \in Requests, Answered(d, c, q)
      PROVE  EditsInv'
  BY <1>0, <1>2, EditsKept DEF Answered, ToolCallsTypeOK, Over
<1>3. ASSUME NEW d \in Dispatches, Ends(d) PROVE EditsInv'
  BY <1>0, <1>3, EditsKept, EndsOnRecord, DoneCarries DEF Outcomes
<1>4. ASSUME NEW d \in Dispatches, OpenEdits(d) PROVE EditsInv'
  BY <1>0, <1>4, GoesOn, Carried
     DEF OpenEdits, Is, AtWork, At, Call, ToolCallsTypeOK, NoEdits, EditsInv, EditsAppliedOnce
<1>5. ASSUME NEW d \in Dispatches, CommitEdits(d) \/ UndoEdits(d) PROVE EditsInv'
  <2> DEFINE c == Call(d)
  <2>1. AtWork(d) /\ c \in CallIds /\ edits[c].status = "open" /\ dispatch[d].step = "editing"
    BY <1>0, <1>5, Carried DEF CommitEdits, UndoEdits, AtWork, At, Call, EditsInv
  <2>2. /\ edits'[c].status = IF CommitEdits(d) THEN "committed" ELSE "rolledBack"
        /\ \A e \in CallIds : e # c => edits'[e] = edits[e]
    BY <1>0, <1>5, <2>1, EndsEdits DEF CommitEdits, UndoEdits
  <2>3. /\ dispatch'[d].step = "done" /\ dispatch'[d].call = dispatch[d].call
        /\ \A e \in Dispatches : e # d => dispatch'[e] = dispatch[e]
    BY <1>0, <1>5, <2>1, DoneCarries DEF CommitEdits, UndoEdits, Outcomes
  <2>4. EditsAppliedOnce'
    <3>1. applied[c] = 0
      BY <1>0, <2>1 DEF EditsInv, EditsAppliedOnce
    <3>2. CASE CommitEdits(d)
      BY <1>0, <2>1, <2>2, <3>1, <3>2 DEF CommitEdits, EditsInv, EditsAppliedOnce, ToolCallsTypeOK
    <3>3. CASE ~CommitEdits(d)
      BY <1>0, <1>5, <2>1, <2>2, <3>1, <3>3 DEF UndoEdits, EditsInv, EditsAppliedOnce, ToolCallsTypeOK
    <3> QED  BY <3>2, <3>3
  <2>5. \A e \in Dispatches : dispatch[e].step = "editing" /\ e # d =>
            dispatch[e].call # c /\ dispatch[e].call \in CallIds
    BY <1>0, <2>1, Carried DEF EditsInv, At, Call, AtWork
  <2> QED
    BY <1>0, <2>1, <2>2, <2>3, <2>4, <2>5 DEF EditsInv, At, Call
<1>6. ASSUME NEW d \in Dispatches, StartCommand(d) PROVE EditsInv'
  BY <1>0, <1>6, EditsKept, GoesOn DEF StartCommand, Is
<1>7. ASSUME NEW d \in Dispatches, Complete(d) \/ AuditUnavailable(d) PROVE EditsInv'
  BY <1>0, <1>7, EditsKept DEF Complete, AuditUnavailable, ToolCallsTypeOK, Over
<1>8. CASE Crash
  BY <1>0, <1>8
     DEF Crash, ToolCallsTypeOK, EditRows, NoEdits, New, Over, EditsInv, EditsAppliedOnce, At
<1>9. CASE UNCHANGED vars
  BY <1>0, <1>9 DEF vars, EditsInv, EditsAppliedOnce, At, Call
<1> QED  BY Steps, <1>1, <1>2, <1>3, <1>4, <1>5, <1>6, <1>7, <1>8, <1>9

\* Nothing that is on record is taken back.
OnlyAdded ==
    /\ \A c \in CallIds : edits[c].status = "committed" => edits'[c].status = "committed"
    /\ \A c \in CallIds : asked[c] > 0 => asked'[c] > 0
    /\ commands \subseteq commands'

LEMMA StaysOnRecord ==
    ASSUME OnlyAdded, NEW t, NEW c \in CallIds, OnRecord(t, c)
    PROVE  OnRecord(t, c)'
BY DEF OnlyAdded, OnRecord

\* What the next state of one dispatch must be like when rows of the audit
\* are left alone.
LEMMA RecordKept ==
    ASSUME ToolCallsTypeOK, RecordInv, OnlyAdded, UNCHANGED audit, NEW d \in Dispatches,
           \A e \in Dispatches : e # d => dispatch'[e] = dispatch[e],
           \/ dispatch'[d] = Over
           \/ /\ AtWork(d) /\ dispatch'[d].call = dispatch[d].call
              /\ dispatch'[d].step = "done" /\ dispatch'[d].outcome = "succeeded" =>
                    \A t \in Tools, c \in CallIds :
                        t = dispatch'[d].tool /\ c = dispatch'[d].call => OnRecord(t, c)'
              /\ dispatch'[d].step = "done" => dispatch'[d].tool \in Tools
              /\ dispatch'[d].step = "running" => dispatch'[d].request.tool = "run_command"
              /\ dispatch'[d].step = "editing" => dispatch'[d].request.tool = "apply_file_edits"
    PROVE  RecordInv'
<1>1. \A c \in CallIds : audit'[c].status = "succeeded" => OnRecord(audit[c].tool, c)'
  BY StaysOnRecord DEF RecordInv
<1>2. ASSUME NEW e \in Dispatches, e # d
      PROVE  /\ dispatch'[e] \notin {New, Over} => audit'[dispatch'[e].call] # NoRow
             /\ dispatch'[e].step = "done" /\ dispatch'[e].outcome = "succeeded"
                   => OnRecord(dispatch[e].tool, dispatch[e].call)'
             /\ dispatch'[e].step = "running" => dispatch'[e].request.tool = "run_command"
             /\ dispatch'[e].step = "editing" => dispatch'[e].request.tool = "apply_file_edits"
  BY <1>2, StaysOnRecord, Carried DEF RecordInv, At, Call
<1>3. /\ dispatch'[d] \notin {New, Over} => audit'[dispatch'[d].call] # NoRow
      /\ dispatch'[d].step = "done" /\ dispatch'[d].outcome = "succeeded"
            => OnRecord(dispatch[d].tool, dispatch[d].call)'
      /\ dispatch'[d].step = "running" => dispatch'[d].request.tool = "run_command"
      /\ dispatch'[d].step = "editing" => dispatch'[d].request.tool = "apply_file_edits"
  BY Carried DEF RecordInv, AtWork, At, Call, Over, New
<1> QED  BY <1>1, <1>2, <1>3 DEF RecordInv, At, Call

LEMMA RecordNext == ToolCallsInv /\ [Next]_vars => RecordInv'
<1> SUFFICES ASSUME ToolCallsInv, [Next]_vars PROVE RecordInv'
  OBVIOUS
<1>0. ToolCallsTypeOK /\ EditsInv /\ RecordInv
  BY DEF ToolCallsInv
<1>1. ASSUME NEW d \in Dispatches, NEW c \in CallIds, NEW q \in Requests, Begin(d, c, q)
      PROVE  RecordInv'
  <2>1. OnlyAdded
    BY <1>1 DEF Begin, OnlyAdded
  <2>2. /\ dispatch'[d].step = "audited" /\ dispatch'[d].call = c
        /\ \A e \in Dispatches : e # d => dispatch'[e] = dispatch[e]
    BY <1>0, <1>1 DEF Begin, ToolCallsTypeOK
  <2>3. /\ audit'[c].status = "requested" /\ audit'[c] # NoRow
        /\ \A b \in CallIds : b # c => audit'[b] = audit[b]
    BY <1>0, <1>1 DEF Begin, ToolCallsTypeOK, NoRow
  <2>4. \A b \in CallIds : audit'[b].status = "succeeded" => OnRecord(audit[b].tool, b)'
    BY <1>0, <2>1, <2>3, StaysOnRecord DEF RecordInv
  <2>5. ASSUME NEW e \in Dispatches, e # d
        PROVE  /\ dispatch'[e] \notin {New, Over} => audit'[dispatch'[e].call] # NoRow
               /\ dispatch'[e].step = "done" /\ dispatch'[e].outcome = "succeeded"
                     => OnRecord(dispatch[e].tool, dispatch[e].call)'
               /\ dispatch'[e].step = "running" => dispatch'[e].request.tool = "run_command"
               /\ dispatch'[e].step = "editing" => dispatch'[e].request.tool = "apply_file_edits"
    <3>1. dispatch[e] \notin {New, Over} => dispatch[e].call \in CallIds
      BY <1>0 DEF ToolCallsTypeOK, DispatchRows
    <3> QED
      BY <1>0, <2>1, <2>2, <2>3, <2>5, <3>1, StaysOnRecord, Carried DEF RecordInv, At, Call
  <2> QED  BY <2>2, <2>3, <2>4, <2>5 DEF RecordInv, At, Call
<1>2. ASSUME NEW d \in Dispatches, NEW c \in CallIds, NEW q \in Requests, Answered(d, c, q)
      PROVE  RecordInv'
  BY <1>0, <1>2, RecordKept DEF Answered, ToolCallsTypeOK, OnlyAdded
<1>3. ASSUME NEW d \in Dispatches, Ends(d) PROVE RecordInv'
  <2>1. OnlyAdded /\ AtWork(d) /\ UNCHANGED audit
    BY <1>0, <1>3, EndsOnRecord DEF OnlyAdded, ToolCallsTypeOK
  <2>2. CASE Done(d, "failed")
    BY <1>0, <2>1, <2>2, DoneCarries, Carried, RecordKept DEF Outcomes
  <2>3. CASE /\ Done(d, "succeeded")
             /\ \A t \in Tools, c \in CallIds :
                   t = dispatch[d].request.tool /\ c = Call(d) => OnRecord(t, c)'
    BY <1>0, <2>1, <2>3, DoneCarries, Carried, RecordKept DEF Outcomes, Call
  <2> QED  BY <1>0, <1>3, <2>2, <2>3, EndsOnRecord
<1>4. ASSUME NEW d \in Dispatches, OpenEdits(d) PROVE RecordInv'
  <2>1. OnlyAdded /\ At(d, "audited") /\ AtWork(d)
    BY <1>0, <1>4 DEF OpenEdits, Is, AtWork, OnlyAdded, ToolCallsTypeOK, NoEdits
  <2> QED  BY <1>0, <1>4, <2>1, GoesOn, RecordKept DEF OpenEdits, Is
<1>5. ASSUME NEW d \in Dispatches, CommitEdits(d) PROVE RecordInv'
  <2> DEFINE c == Call(d)
  <2>1. /\ AtWork(d) /\ c \in CallIds /\ edits[c].status = "open"
        /\ dispatch[d].request.tool = "apply_file_edits" /\ "apply_file_edits" \in Tools
    BY <1>0, <1>5, Carried DEF CommitEdits, AtWork, Call, EditsInv
  <2>2. OnlyAdded /\ edits'[c].status = "committed"
    BY <1>0, <1>5, <2>1, EndsEdits DEF CommitEdits, OnlyAdded
  <2>3. \A b \in CallIds : b = c => OnRecord("apply_file_edits", b)'
    BY <1>5, <2>1, <2>2 DEF CommitEdits, OnRecord
  <2> QED
    BY <1>0, <1>5, <2>1, <2>2, <2>3, DoneCarries, RecordKept DEF CommitEdits, Outcomes, Call
<1>6. ASSUME NEW d \in Dispatches, UndoEdits(d) PROVE RecordInv'
  <2> DEFINE c == Call(d)
  <2>1. AtWork(d) /\ c \in CallIds /\ edits[c].status = "open" /\ dispatch[d].request.tool \in Tools
    BY <1>0, <1>6, Carried DEF UndoEdits, AtWork, Call, EditsInv
  <2>2. OnlyAdded
    BY <1>0, <1>6, <2>1, EndsEdits DEF UndoEdits, OnlyAdded
  <2> QED
    BY <1>0, <1>6, <2>1, <2>2, DoneCarries, RecordKept DEF UndoEdits, Outcomes, Call
<1>7. ASSUME NEW d \in Dispatches, StartCommand(d) PROVE RecordInv'
  <2>1. OnlyAdded /\ At(d, "audited") /\ AtWork(d)
    BY <1>0, <1>7 DEF StartCommand, Is, AtWork, OnlyAdded
  <2> QED  BY <1>0, <1>7, <2>1, GoesOn, RecordKept DEF StartCommand, Is
<1>8. ASSUME NEW d \in Dispatches, Complete(d) PROVE RecordInv'
  <2> DEFINE c == Call(d)
  <2>1. c \in CallIds /\ dispatch[d].tool \in Tools /\ dispatch[d].outcome \in Outcomes
    BY <1>0, <1>8, Carried DEF Complete, Call
  <2>2. OnlyAdded /\ dispatch[d].step = "done"
    BY <1>8 DEF Complete, OnlyAdded, At
  <2>3. /\ dispatch'[d] = Over
        /\ \A e \in Dispatches : e # d => dispatch'[e] = dispatch[e]
    BY <1>0, <1>8 DEF Complete, ToolCallsTypeOK
  <2>4. CASE Settled(c)
    BY <1>0, <1>8, <2>2, <2>3, <2>4, RecordKept DEF Complete
  <2>5. CASE ~Settled(c)
    <3>1. /\ audit'[c].status = dispatch[d].outcome /\ audit'[c].tool = dispatch[d].tool
          /\ audit'[c] # NoRow
          /\ \A b \in CallIds : b # c => audit'[b] = audit[b]
      BY <1>0, <1>8, <2>1, <2>5 DEF Complete, ToolCallsTypeOK, NoRow, Outcomes
    <3>2. \A b \in CallIds : audit'[b].status = "succeeded" => OnRecord(audit[b].tool, b)'
      BY <1>0, <2>1, <2>2, <3>1, StaysOnRecord DEF RecordInv, At
    <3>3. ASSUME NEW e \in Dispatches, e # d
          PROVE  /\ dispatch'[e] \notin {New, Over} => audit'[dispatch'[e].call] # NoRow
                 /\ dispatch'[e].step = "done" /\ dispatch'[e].outcome = "succeeded"
                       => OnRecord(dispatch[e].tool, dispatch[e].call)'
                 /\ dispatch'[e].step = "running" => dispatch'[e].request.tool = "run_command"
                 /\ dispatch'[e].step = "editing"
                       => dispatch'[e].request.tool = "apply_file_edits"
      <4>1. dispatch[e] \notin {New, Over} => dispatch[e].call \in CallIds
        BY <1>0 DEF ToolCallsTypeOK, DispatchRows
      <4> QED
        BY <1>0, <2>2, <2>3, <3>1, <3>3, <4>1, StaysOnRecord, Carried DEF RecordInv, At, Call
    <3> QED  BY <2>3, <3>1, <3>2, <3>3 DEF RecordInv, At, Call, Over
  <2> QED  BY <2>4, <2>5
<1>9. ASSUME NEW d \in Dispatches, AuditUnavailable(d) PROVE RecordInv'
  BY <1>0, <1>9, RecordKept DEF AuditUnavailable, ToolCallsTypeOK, OnlyAdded
<1>10. CASE Crash
  <2>1. OnlyAdded /\ UNCHANGED audit
    BY <1>0, <1>10 DEF Crash, OnlyAdded, ToolCallsTypeOK, EditRows, NoEdits
  <2>2. \A d \in Dispatches : dispatch'[d] \in {New, Over}
    BY <1>10 DEF Crash
  <2>3. \A c \in CallIds : audit'[c].status = "succeeded" => OnRecord(audit[c].tool, c)'
    BY <1>0, <2>1, StaysOnRecord DEF RecordInv
  <2> QED  BY <2>2, <2>3 DEF RecordInv, At, Call, New, Over
<1>11. CASE UNCHANGED vars
  BY <1>0, <1>11 DEF vars, RecordInv, OnRecord, At, Call
<1> QED  BY Steps, <1>1, <1>2, <1>3, <1>4, <1>5, <1>6, <1>7, <1>8, <1>9, <1>10, <1>11

LEMMA ToolCallsInductive == Spec => []ToolCallsInv
<1>1. ToolCallsInv /\ [Next]_vars => ToolCallsInv'
  BY ToolCallsTypeNext, EditsNext, RecordNext DEF ToolCallsInv
<1> QED  BY ToolCallsInit_Inv, <1>1, PTL DEF Spec

-----------------------------------------------------------------------------
\* The rows, the transactions and what dispatches carry keep their types.
THEOREM ToolCallsTyped == Spec => []ToolCallsTypeOK
BY ToolCallsInductive, PTL DEF ToolCallsInv

\* However many dispatches repeat a call, at once or after a stop, its edits
\* are applied at most once (execute_transaction's row per request id).
THEOREM NoEditTwice == Spec => []EditsAppliedOnce
BY ToolCallsInductive, PTL DEF ToolCallsInv, EditsInv

\* What a settled row reports as done is on record in the table of its tool.
THEOREM SuccessesOnRecord == Spec => []SuccessIsOnRecord
<1>1. ToolCallsInv => SuccessIsOnRecord
  BY DEF ToolCallsInv, RecordInv, OnRecord, SuccessIsOnRecord
<1> QED  BY <1>1, ToolCallsInductive, PTL

\* A settled row of the audit is never written again (complete_agent_tool_call
\* settles what is requested).
THEOREM SettledRowsFinal == Spec => SettledIsFinal
<1> DEFINE Final == \A c \in CallIds : Settled(c) => audit'[c] = audit[c]
<1>1. ToolCallsTypeOK /\ [Next]_vars => [Final]_vars
  <2> SUFFICES ASSUME ToolCallsTypeOK, [Next]_vars PROVE Final
    OBVIOUS
  <2>0. audit \in [CallIds -> AuditRows]
    BY DEF ToolCallsTypeOK
  <2>1. ASSUME NEW d \in Dispatches, NEW c \in CallIds, NEW q \in Requests, Begin(d, c, q)
        PROVE  Final
    BY <2>0, <2>1 DEF Begin, Settled, NoRow
  <2>2. ASSUME NEW d \in Dispatches, Complete(d) PROVE Final
    BY <2>0, <2>2 DEF Complete, Settled
  <2>3. CASE UNCHANGED audit
    BY <2>3
  <2>4. ASSUME NEW d \in Dispatches,
               \/ Ends(d) \/ OpenEdits(d) \/ CommitEdits(d) \/ UndoEdits(d) \/ StartCommand(d)
               \/ AuditUnavailable(d)
        PROVE  UNCHANGED audit
    BY <2>4 DEF Ends, Refuse, ReadOnly, EditsKnown, EndCommand, CommandFails, UpdateTodos,
       RequestApproval, CompleteTask, OpenEdits, CommitEdits, UndoEdits, StartCommand,
       AuditUnavailable
  <2>5. ASSUME NEW d \in Dispatches, NEW c \in CallIds, NEW q \in Requests, Answered(d, c, q)
        PROVE  UNCHANGED audit
    BY <2>5 DEF Answered
  <2>6. Crash \/ UNCHANGED vars => UNCHANGED audit
    BY DEF Crash, vars
  <2> HIDE DEF Final
  <2> QED  BY Steps, <2>1, <2>2, <2>3, <2>4, <2>5, <2>6
<1>2. Spec => []ToolCallsTypeOK
  BY ToolCallsTyped
<1> QED  BY <1>1, <1>2, PTL DEF Spec, SettledIsFinal

-----------------------------------------------------------------------------
(* The logs of commands.  A command whose output was neither removed nor   *)
(* shared is the only one to write to its files, and its output is in the  *)
(* file that its row names, or will name.                                  *)

RunSteps == {"running", "ended", "copied", "replacing", "dropping", "recording", "over"}
Kinds    == {"log", "gz"}
RunStates == [step : RunSteps, run : RunIds, kind : Kinds]

LogsTypeOK ==
    /\ command \in [Commands -> {Fresh} \cup RunStates]
    /\ logs \in [Files -> Commands \cup {Nobody}]
    /\ logRows \in [RunIds -> {NoLog} \cup [command : Commands, kind : Kinds]]
    /\ cleaning \subseteq Files
    /\ touched \subseteq Commands

SameFile(c, d) == Stem[command[c].run] = Stem[command[d].run]

Alone(c) == \A d \in Begun \ {c} : SameFile(c, d) => ~Running(d)

HasOutput(c) ==
    /\ logs[File(c, command[c].kind)] = c
    /\ Running(c) => command[c].kind = "log"
    /\ Step(c) \in {"copied", "replacing"} => logs[File(c, "tmp")] \in {c, Nobody}
    /\ Step(c) = "dropping" => logs[File(c, "gz")] = c

OutputInv == \A c \in Begun \ touched : Alone(c) /\ HasOutput(c)

RowsInv ==
    \A r \in RunIds : logRows[r] # NoLog =>
        LET c == logRows[r].command
        IN  /\ c \in Begun /\ Step(c) = "over"
            /\ command[c].run = r /\ command[c].kind = logRows[r].kind

LogsInv == LogsTypeOK /\ OutputInv /\ RowsInv

LEMMA LogsInit_Inv == LogsInit => LogsInv
<1> SUFFICES ASSUME LogsInit PROVE LogsInv
  OBVIOUS
<1>1. LogsTypeOK
  BY DEF LogsInit, LogsTypeOK
<1>2. Begun = {}
  BY DEF LogsInit, Begun
<1>3. RowsInv
  BY DEF LogsInit, RowsInv
<1> QED
  BY <1>1, <1>2, <1>3 DEF LogsInv, OutputInv

LEMMA BegunStates ==
    ASSUME LogsTypeOK
    PROVE  /\ \A c \in Begun : c \in Commands /\ command[c] \in RunStates
           /\ \A c \in Commands : command[c] \in RunStates => c \in Begun
           /\ Fresh \notin RunStates
<1>1. Fresh.step \notin RunSteps
  BY DEF Fresh, RunSteps
<1>2. Fresh \notin RunStates
  BY <1>1 DEF RunStates
<1> QED
  BY <1>2 DEF LogsTypeOK, Begun

LEMMA IsFile ==
    ASSUME NEW r \in RunIds, NEW k \in {"log", "tmp", "gz"}
    PROVE  <<Stem[r], k>> \in Files
BY DEF Files

\* One command goes on, which changes nothing but its own files.
LEMMA OthersKeep ==
    ASSUME LogsInv, NEW d \in Begun, NEW e \in RunStates, e.run = command[d].run,
           command' = [command EXCEPT ![d] = e],
           e.step \in {"running", "ended", "copied", "replacing", "dropping"} => Running(d),
           logs' = logs \/ Running(d),
           \A f \in Files : f[1] # Stem[command[d].run] => logs'[f] = logs[f],
           UNCHANGED touched
    PROVE  /\ Begun' = Begun
           /\ \A c \in Begun \ touched : Alone(c)'
           /\ \A c \in (Begun \ touched) \ {d} : HasOutput(c)'
<1>1. LogsTypeOK /\ OutputInv
  BY DEF LogsInv
<1>2. /\ d \in Commands
      /\ command'[d] = e /\ \A c \in Commands \ {d} : command'[c] = command[c]
  BY <1>1 DEF LogsTypeOK, Begun
<1>3. Begun' = Begun
  BY <1>1, <1>2, BegunStates DEF Begun
<1>4. \A c \in Begun : command'[c].run = command[c].run
  BY <1>2, BegunStates, <1>1
<1>5. \A c \in Begun : Running(c)' => Running(c)
  BY <1>1, <1>2, BegunStates DEF Running, Step
<1>6. ASSUME NEW c \in Begun \ touched PROVE Alone(c)'
  BY <1>1, <1>3, <1>4, <1>5, <1>6 DEF OutputInv, Alone, SameFile
<1>7. ASSUME NEW c \in (Begun \ touched) \ {d} PROVE HasOutput(c)'
  <2>1. command'[c] = command[c]
    BY <1>1, <1>2, BegunStates
  <2>2. \A k \in {"log", "tmp", "gz"} : logs'[File(c, k)] = logs[File(c, k)]
    <3>0. \A k \in {"log", "tmp", "gz"} :
            File(c, k) \in Files /\ File(c, k)[1] = Stem[command[c].run]
      BY <1>1, BegunStates, IsFile DEF RunStates, File
    <3>1. CASE logs' = logs
      BY <3>1
    <3>2. CASE Running(d)
      <4>1. ~SameFile(c, d)
        BY <1>1, <3>2 DEF OutputInv, Alone
      <4> QED
        BY <3>0, <4>1 DEF SameFile
    <3> QED
      BY <3>1, <3>2
  <2>3. HasOutput(c) /\ command[c].kind \in {"log", "gz"}
    BY <1>1, BegunStates DEF OutputInv, RunStates, Kinds
  <2> QED
    BY <2>1, <2>2, <2>3 DEF HasOutput, Running, Step, File
<1> QED
  BY <1>3, <1>6, <1>7

\* So it is enough that it keeps its own output; rows name what is over.
LEMMA OneGoesOn ==
    ASSUME LogsInv, NEW d \in Begun, NEW e \in RunStates, e.run = command[d].run,
           command' = [command EXCEPT ![d] = e], Step(d) # "over",
           e.step \in {"running", "ended", "copied", "replacing", "dropping"} => Running(d),
           logs' = logs \/ Running(d),
           \A f \in Files : f[1] # Stem[command[d].run] => logs'[f] = logs[f],
           logs' \in [Files -> Commands \cup {Nobody}],
           UNCHANGED <<logRows, cleaning, touched>>,
           d \notin touched => HasOutput(d)'
    PROVE  LogsInv'
<1>1. LogsTypeOK /\ OutputInv /\ RowsInv
  BY DEF LogsInv
<1>2. d \in Commands /\ \A c \in Commands \ {d} : command'[c] = command[c]
  BY <1>1 DEF LogsTypeOK, Begun
<1>3. LogsTypeOK'
  BY <1>1 DEF LogsTypeOK
<1>4. /\ Begun' = Begun
      /\ \A c \in Begun \ touched : Alone(c)'
      /\ \A c \in (Begun \ touched) \ {d} : HasOutput(c)'
  BY OthersKeep
<1>5. OutputInv'
  BY <1>4 DEF OutputInv
<1>6. RowsInv'
  <2>1. ASSUME NEW r \in RunIds, logRows[r] # NoLog
        PROVE  logRows[r].command \in Begun /\ command'[logRows[r].command] = command[logRows[r].command]
    BY <1>1, <1>2, <2>1, BegunStates DEF RowsInv
  <2> QED
    BY <1>1, <1>4, <2>1 DEF RowsInv, Step
<1> QED
  BY <1>3, <1>5, <1>6 DEF LogsInv

LEMMA NextState ==
    ASSUME LogsTypeOK, NEW d \in Commands, Step(d) # "fresh", NEW step \in RunSteps
    PROVE  LET e == [command[d] EXCEPT !.step = step]
           IN  /\ d \in Begun /\ command[d] \in RunStates
               /\ e \in RunStates /\ e.run = command[d].run /\ e.step = step
               /\ e.kind = command[d].kind
<1>1. command[d] # Fresh
  BY DEF Step, Fresh
<1>2. command[d] \in RunStates
  BY <1>1 DEF LogsTypeOK
<1> QED
  BY <1>1, <1>2 DEF Begun, RunStates

\* The output of the command that goes on, when its files stay as they are.
LEMMA OwnFilesStay ==
    ASSUME LogsInv, NEW d \in Commands, Step(d) # "over", NEW step \in {"ended", "recording", "over"},
           step = "ended" => Running(d), Step(d) # "fresh",
           Goes(d, step), UNCHANGED <<logs, logRows, cleaning, touched>>
    PROVE  LogsInv'
<1> DEFINE e == [command[d] EXCEPT !.step = step]
<1>1. LogsTypeOK /\ OutputInv
  BY DEF LogsInv
<1>2. /\ d \in Begun /\ command[d] \in RunStates /\ e \in RunStates
      /\ e.run = command[d].run /\ e.step = step /\ e.kind = command[d].kind
  <2>1. step \in RunSteps
    BY DEF RunSteps
  <2> QED
    BY <1>1, <2>1, NextState
<1>3. command' = [command EXCEPT ![d] = e]
  BY DEF Goes
<1> HIDE DEF e
<1>4. command'[d] = e
  BY <1>1, <1>3 DEF LogsTypeOK
<1>5. d \notin touched => HasOutput(d)'
  <2>1. d \notin touched => HasOutput(d)
    BY <1>1, <1>2 DEF OutputInv
  <2> QED
    BY <1>2, <1>4, <2>1 DEF HasOutput, File, Step, Running
<1>6. logs' \in [Files -> Commands \cup {Nobody}]
  BY <1>1 DEF LogsTypeOK
<1>7. e.step \in {"running", "ended", "copied", "replacing", "dropping"} => Running(d)
  BY <1>2
<1> QED
  BY <1>2, <1>3, <1>5, <1>6, <1>7, OneGoesOn

-----------------------------------------------------------------------------
(* Compression, call by call.                                              *)

\* One of the calls of compress_log_file_if_large, with one file changed.
LEMMA OneFileChanges ==
    ASSUME LogsInv, NEW d \in Commands, Running(d), NEW e \in RunStates,
           e.run = command[d].run, command' = [command EXCEPT ![d] = e],
           NEW k \in {"log", "tmp", "gz"}, NEW v \in Commands \cup {Nobody},
           logs' = [logs EXCEPT ![File(d, k)] = v],
           UNCHANGED <<logRows, cleaning, touched>>,
           d \notin touched => HasOutput(d)'
    PROVE  LogsInv'
<1>1. LogsTypeOK
  BY DEF LogsInv
<1>2. d \in Begun /\ Step(d) # "over"
  BY <1>1 DEF Running, Step, Begun, Fresh
<1>3. \A f \in Files : f[1] # Stem[command[d].run] => logs'[f] = logs[f]
  BY <1>1 DEF File, LogsTypeOK
<1>4. logs' \in [Files -> Commands \cup {Nobody}]
  BY <1>1 DEF LogsTypeOK
<1> QED
  BY <1>2, <1>3, <1>4, OneGoesOn

\* What the file system says of the files of a command that is running.
LEMMA OwnFiles ==
    ASSUME LogsInv, NEW d \in Commands, Running(d)
    PROVE  /\ d \in Begun /\ command[d] \in RunStates
           /\ \A k \in {"log", "tmp", "gz"} :
                 File(d, k) \in Files /\ logs[File(d, k)] \in Commands \cup {Nobody}
           /\ \A j, k \in {"log", "tmp", "gz"} : j # k => File(d, j) # File(d, k)
           /\ d \notin touched => HasOutput(d) /\ logs[File(d, "log")] = d
<1>1. LogsTypeOK /\ OutputInv
  BY DEF LogsInv
<1>2. d \in Begun /\ command[d] \in RunStates
  BY <1>1 DEF LogsTypeOK, Running, Step, Begun, Fresh
<1>3. \A k \in {"log", "tmp", "gz"} : File(d, k) \in Files
  BY <1>2, IsFile DEF RunStates, File
<1>4. \A k \in {"log", "tmp", "gz"} : logs[File(d, k)] \in Commands \cup {Nobody}
  BY <1>1, <1>3 DEF LogsTypeOK
<1>5. d \notin touched => HasOutput(d) /\ logs[File(d, "log")] = d
  BY <1>1, <1>2 DEF OutputInv, HasOutput
<1> QED
  BY <1>2, <1>3, <1>4, <1>5 DEF File

LEMMA CopyKeeps ==
    ASSUME LogsInv, NEW d \in Commands, CopyLog(d)
    PROVE  LogsInv'
<1> DEFINE e == [command[d] EXCEPT !.step = "copied"]
<1>1. Running(d) /\ Step(d) # "fresh" /\ LogsTypeOK
  BY DEF CopyLog, Running, LogsInv
<1>2. e \in RunStates /\ e.run = command[d].run /\ e.step = "copied" /\ e.kind = command[d].kind
  <2>1. "copied" \in RunSteps
    BY DEF RunSteps
  <2> QED
    BY <1>1, <2>1, NextState
<1>3. /\ command' = [command EXCEPT ![d] = e]
      /\ logs' = [logs EXCEPT ![File(d, "tmp")] = logs[File(d, "log")]]
      /\ UNCHANGED <<logRows, cleaning, touched>>
  BY DEF CopyLog, Goes
<1> HIDE DEF e
<1>4. command'[d] = e
  BY <1>1, <1>3 DEF LogsTypeOK
<1>5. d \notin touched => HasOutput(d)'
  BY <1>1, <1>2, <1>3, <1>4, OwnFiles DEF HasOutput, File, Step, Running, LogsTypeOK
<1> QED
  BY <1>1, <1>2, <1>3, <1>5, OwnFiles, OneFileChanges

LEMMA RemoveOldKeeps ==
    ASSUME LogsInv, NEW d \in Commands, RemoveOldCopy(d)
    PROVE  LogsInv'
<1> DEFINE e == [command[d] EXCEPT !.step = "replacing"]
<1>1. Running(d) /\ Step(d) = "copied" /\ LogsTypeOK
  BY DEF RemoveOldCopy, Running, LogsInv
<1>2. e \in RunStates /\ e.run = command[d].run /\ e.step = "replacing" /\ e.kind = command[d].kind
  <2>1. "replacing" \in RunSteps
    BY DEF RunSteps
  <2> QED
    BY <1>1, <2>1, NextState
<1>3. /\ command' = [command EXCEPT ![d] = e]
      /\ logs' = [logs EXCEPT ![File(d, "gz")] = Nobody]
      /\ UNCHANGED <<logRows, cleaning, touched>>
  BY DEF RemoveOldCopy, Goes
<1> HIDE DEF e
<1>4. command'[d] = e
  BY <1>1, <1>3 DEF LogsTypeOK
<1>5. d \notin touched => HasOutput(d)'
  BY <1>1, <1>2, <1>3, <1>4, OwnFiles DEF HasOutput, File, Step, Running, LogsTypeOK
<1> QED
  BY <1>1, <1>2, <1>3, <1>5, OneFileChanges

LEMMA RenameKeeps ==
    ASSUME LogsInv, NEW d \in Commands, RenameCopy(d)
    PROVE  LogsInv'
<1> DEFINE e == [command[d] EXCEPT !.step = "dropping"]
<1>1. Running(d) /\ Step(d) = "replacing" /\ LogsTypeOK
  BY DEF RenameCopy, Running, LogsInv
<1>2. e \in RunStates /\ e.run = command[d].run /\ e.step = "dropping" /\ e.kind = command[d].kind
  <2>1. "dropping" \in RunSteps
    BY DEF RunSteps
  <2> QED
    BY <1>1, <2>1, NextState
<1>3. /\ command' = [command EXCEPT ![d] = e]
      /\ logs' = [logs EXCEPT ![File(d, "gz")] = logs[File(d, "tmp")], ![File(d, "tmp")] = Nobody]
      /\ logs[File(d, "tmp")] # Nobody
      /\ UNCHANGED <<logRows, cleaning, touched>>
  BY DEF RenameCopy, Goes
<1> HIDE DEF e
<1>4. command'[d] = e
  BY <1>1, <1>3 DEF LogsTypeOK
<1>5. /\ logs' \in [Files -> Commands \cup {Nobody}]
      /\ logs'[File(d, "gz")] = logs[File(d, "tmp")] /\ logs'[File(d, "log")] = logs[File(d, "log")]
      /\ \A f \in Files : f[1] # Stem[command[d].run] => logs'[f] = logs[f]
  <2> DEFINE Own(k) == File(d, k)
  <2>1. /\ Own("gz") \in Files /\ Own("tmp") \in Files /\ Own("log") \in Files
        /\ Own("gz") # Own("tmp") /\ Own("gz") # Own("log") /\ Own("tmp") # Own("log")
        /\ logs[Own("tmp")] \in Commands \cup {Nobody}
    BY <1>1, OwnFiles
  <2>2. Own("gz")[1] = Stem[command[d].run] /\ Own("tmp")[1] = Stem[command[d].run]
    BY DEF File
  <2>3. logs' = [logs EXCEPT ![Own("gz")] = logs[Own("tmp")], ![Own("tmp")] = Nobody]
    BY <1>3
  <2> HIDE DEF Own
  <2>4. /\ logs' \in [Files -> Commands \cup {Nobody}]
        /\ logs'[Own("gz")] = logs[Own("tmp")] /\ logs'[Own("log")] = logs[Own("log")]
    BY <1>1, <2>1, <2>3 DEF LogsTypeOK
  <2>5. \A f \in Files : f[1] # Stem[command[d].run] => logs'[f] = logs[f]
    BY <1>1, <2>2, <2>3 DEF LogsTypeOK
  <2> QED
    BY <2>4, <2>5 DEF Own
<1>6. d \notin touched => HasOutput(d)'
  <2>1. ASSUME d \notin touched
        PROVE  /\ logs[File(d, "log")] = d /\ logs[File(d, "tmp")] = d /\ command[d].kind = "log"
    BY <1>1, <1>3, <2>1, OwnFiles DEF HasOutput
  <2>2. \A k : File(d, k)' = File(d, k)
    BY <1>2, <1>4 DEF File
  <2> QED
    BY <1>2, <1>4, <1>5, <2>1, <2>2 DEF HasOutput, Step, Running
<1>7. d \in Begun
  BY <1>1, OwnFiles
<1> QED
  BY <1>1, <1>2, <1>3, <1>5, <1>6, <1>7, OneGoesOn

LEMMA DropKeeps ==
    ASSUME LogsInv, NEW d \in Commands, DropLog(d)
    PROVE  LogsInv'
<1> DEFINE e == [command[d] EXCEPT !.step = "recording", !.kind = "gz"]
<1>1. Running(d) /\ Step(d) = "dropping" /\ LogsTypeOK
  BY DEF DropLog, Running, LogsInv
<1>2. e \in RunStates /\ e.run = command[d].run /\ e.step = "recording" /\ e.kind = "gz"
  BY <1>1, OwnFiles DEF RunStates, RunSteps, Kinds
<1>3. /\ command' = [command EXCEPT ![d] = e]
      /\ logs' = [logs EXCEPT ![File(d, "log")] = Nobody]
      /\ UNCHANGED <<logRows, cleaning, touched>>
  BY <1>1 DEF DropLog, LogsTypeOK
<1> HIDE DEF e
<1>4. command'[d] = e
  BY <1>1, <1>3 DEF LogsTypeOK
<1>5. d \notin touched => HasOutput(d)'
  <2>1. d \notin touched => logs[File(d, "gz")] = d
    BY <1>1, OwnFiles DEF HasOutput
  <2>2. logs'[File(d, "gz")] = logs[File(d, "gz")]
    BY <1>1, <1>3, OwnFiles DEF LogsTypeOK
  <2>3. \A k : File(d, k)' = File(d, k)
    BY <1>2, <1>4 DEF File
  <2> QED
    BY <1>2, <1>4, <2>1, <2>2, <2>3 DEF HasOutput, Step, Running
<1> QED
  BY <1>1, <1>2, <1>3, <1>5, OwnFiles, OneFileChanges

-----------------------------------------------------------------------------
(* The other steps.                                                        *)

\* A new command writes over what its file held, and shares it if it was not
\* left by all who had it.
LEMMA OpenKeeps ==
    ASSUME LogsInv, NEW d \in Commands, NEW r \in RunIds, OpenLog(d, r)
    PROVE  LogsInv'
<1> DEFINE e      == [step |-> "running", run |-> r, kind |-> "log"]
           others == {c \in Begun : Stem[command[c].run] = Stem[r]}
<1>1. LogsTypeOK /\ OutputInv /\ RowsInv
  BY DEF LogsInv
<1>2. e \in RunStates /\ e.run = r /\ e.step = "running" /\ e.kind = "log"
  BY DEF RunStates, RunSteps, Kinds
<1>3. /\ command[d] = Fresh /\ command' = [command EXCEPT ![d] = e]
      /\ logs' = [logs EXCEPT ![<<Stem[r], "log">>] = d]
      /\ touched' = touched \cup others \cup (IF \E c \in others : Running(c) THEN {d} ELSE {})
      /\ UNCHANGED <<logRows, cleaning>>
  BY DEF OpenLog
<1> HIDE DEF e
<1>4. d \notin Begun /\ command'[d] = e /\ \A c \in Commands \ {d} : command'[c] = command[c]
  BY <1>1, <1>3 DEF LogsTypeOK, Begun
<1>5. Begun' = Begun \cup {d} /\ Begun \subseteq Commands
  BY <1>1, <1>2, <1>4, BegunStates DEF Begun
<1>6. others \subseteq Begun
  OBVIOUS
<1>7. LogsTypeOK'
  <2>1. touched' \subseteq Commands
    BY <1>1, <1>3, <1>5, <1>6 DEF LogsTypeOK
  <2> HIDE DEF others
  <2> QED
    BY <1>1, <1>2, <1>3, <2>1 DEF LogsTypeOK
<1>8. ASSUME NEW c \in Begun \ touched, c \notin others
      PROVE  Alone(c)' /\ HasOutput(c)'
  <2>1. Stem[command[c].run] # Stem[r] /\ command'[c] = command[c] /\ Alone(c) /\ HasOutput(c)
    BY <1>1, <1>4, <1>5, <1>8 DEF OutputInv
  <2>2. \A k \in {"log", "tmp", "gz"} : logs'[File(c, k)] = logs[File(c, k)]
    <3>1. \A k \in {"log", "tmp", "gz"} :
            File(c, k) \in Files /\ File(c, k)[1] = Stem[command[c].run]
      BY <1>1, <1>8, BegunStates, IsFile DEF RunStates, File
    <3> QED
      BY <1>1, <1>3, <2>1, <3>1 DEF LogsTypeOK
  <2>3. HasOutput(c)'
    <3>1. command[c].kind \in {"log", "gz"}
      BY <1>1, <1>8, BegunStates DEF RunStates, Kinds
    <3> QED
      BY <2>1, <2>2, <3>1 DEF HasOutput, Running, Step, File
  <2>4. Alone(c)'
    BY <1>2, <1>4, <1>5, <2>1 DEF Alone, SameFile, Running, Step
  <2> QED
    BY <2>3, <2>4
<1>9. ASSUME d \notin touched' PROVE Alone(d)' /\ HasOutput(d)'
  <2>1. \A c \in others : ~Running(c)
    BY <1>3, <1>9
  <2>2. \A c \in Begun : command'[c] = command[c]
    BY <1>4, <1>5
  <2>3. Alone(d)'
    BY <1>2, <1>4, <1>5, <2>1, <2>2 DEF Alone, SameFile, Running, Step
  <2>4. logs'[<<Stem[r], "log">>] = d
    BY <1>1, <1>3, IsFile DEF LogsTypeOK
  <2>5. HasOutput(d)'
    BY <1>2, <1>4, <2>4 DEF HasOutput, File, Step, Running
  <2> QED
    BY <2>3, <2>5
<1>10. OutputInv'
  BY <1>3, <1>5, <1>8, <1>9 DEF OutputInv
<1>11. RowsInv'
  BY <1>1, <1>3, <1>4, <1>5 DEF RowsInv, Step
<1> QED
  BY <1>7, <1>10, <1>11 DEF LogsInv

\* A row names the file in which the output is at that time.
LEMMA RecordKeeps ==
    ASSUME LogsInv, NEW d \in Commands, RecordLog(d)
    PROVE  LogsInv'
<1> DEFINE e   == [command[d] EXCEPT !.step = "over"]
           r   == command[d].run
           row == [command |-> d, kind |-> command[d].kind]
<1>1. LogsTypeOK /\ OutputInv /\ RowsInv /\ Step(d) = "recording"
  BY DEF LogsInv, RecordLog
<1>2. /\ d \in Begun /\ command[d] \in RunStates /\ e \in RunStates
      /\ e.run = r /\ e.step = "over" /\ e.kind = command[d].kind
  <2>1. "over" \in RunSteps
    BY DEF RunSteps
  <2> QED
    BY <1>1, <2>1, NextState
<1>3. r \in RunIds /\ row \in [command : Commands, kind : Kinds]
  BY <1>2 DEF RunStates
<1>4. /\ command' = [command EXCEPT ![d] = e]
      /\ logRows' = logRows \/ logRows' = [logRows EXCEPT ![r] = row]
      /\ UNCHANGED <<logs, cleaning, touched>>
  BY DEF RecordLog, Goes
<1>5. row.command = d /\ row.kind = command[d].kind
  OBVIOUS
<1> HIDE DEF e, row, r
<1>6. command'[d] = e /\ \A c \in Commands \ {d} : command'[c] = command[c]
  BY <1>1, <1>4 DEF LogsTypeOK
<1>7. LogsTypeOK'
  BY <1>1, <1>2, <1>3, <1>4 DEF LogsTypeOK
<1>8. /\ Begun' = Begun
      /\ \A c \in Begun \ touched : Alone(c)'
      /\ \A c \in (Begun \ touched) \ {d} : HasOutput(c)'
  BY <1>2, <1>4, OthersKeep DEF r
<1>9. d \notin touched => HasOutput(d)'
  <2>1. d \notin touched => HasOutput(d)
    BY <1>1, <1>2 DEF OutputInv
  <2> QED
    BY <1>2, <1>4, <1>6, <2>1 DEF HasOutput, File, Step, Running, r
<1>10. OutputInv'
  BY <1>4, <1>8, <1>9 DEF OutputInv
<1>11. RowsInv'
  <2> SUFFICES ASSUME NEW q \in RunIds, logRows'[q] # NoLog
               PROVE  LET c == logRows'[q].command
                      IN  /\ c \in Begun /\ command'[c].step = "over"
                          /\ command'[c].run = q /\ command'[c].kind = logRows'[q].kind
    BY <1>8 DEF RowsInv, Step
  <2>1. CASE logRows'[q] = logRows[q]
    <3>1. LET c == logRows[q].command
          IN  /\ c \in Begun /\ command[c].step = "over"
              /\ command[c].run = q /\ command[c].kind = logRows[q].kind
      BY <1>1, <2>1 DEF RowsInv, Step
    <3>2. logRows[q].command # d /\ logRows[q].command \in Commands
      BY <1>1, <3>1, BegunStates DEF Step
    <3> QED
      BY <1>6, <2>1, <3>1, <3>2
  <2>2. CASE logRows'[q] # logRows[q]
    <3>1. q = r /\ logRows'[q] = row
      BY <1>1, <1>3, <1>4, <2>2 DEF LogsTypeOK
    <3> QED
      BY <1>2, <1>5, <1>6, <3>1 DEF r
  <2> QED
    BY <2>1, <2>2
<1> QED
  BY <1>7, <1>10, <1>11 DEF LogsInv

LEMMA CleanupKeeps ==
    ASSUME LogsInv, CleanupStorage \/ CleanupExpiredTaskLogs
    PROVE  LogsInv'
<1>1. /\ UNCHANGED <<command, logs, logRows, touched>>
      /\ cleaning' \subseteq Files
  BY DEF CleanupStorage, CleanupExpiredTaskLogs, Present
<1>2. LogsTypeOK'
  BY <1>1 DEF LogsInv, LogsTypeOK
<1>3. OutputInv' /\ RowsInv'
  BY <1>1 DEF LogsInv, OutputInv, RowsInv, Alone, HasOutput, SameFile, Running, Step, File, Begun
<1> QED
  BY <1>2, <1>3 DEF LogsInv

\* Who loses output is one whose output it was; a copy in the making is no loss.
LEMMA RemoveKeeps ==
    ASSUME LogsInv, NEW f \in Files, RemoveFile(f)
    PROVE  LogsInv'
<1>1. LogsTypeOK /\ OutputInv /\ RowsInv /\ UNCHANGED <<command, logRows>> /\ Begun' = Begun
  BY DEF LogsInv, RemoveFile, Begun
<1>2. RowsInv'
  BY <1>1 DEF RowsInv, Step
<1>3. CASE UNCHANGED <<logs, touched>> /\ cleaning' = {}
  BY <1>1, <1>2, <1>3 DEF LogsInv, LogsTypeOK, OutputInv, Alone, HasOutput, SameFile, Running, Step, File
<1>4. CASE /\ f \in Present /\ logs' = [logs EXCEPT ![f] = Nobody] /\ cleaning' = cleaning \ {f}
           /\ touched' = IF f[2] = "tmp" THEN touched ELSE touched \cup {logs[f]}
  <2>1. LogsTypeOK'
    <3>1. logs[f] \in Commands
      BY <1>1, <1>4 DEF Present, LogsTypeOK
    <3> QED
      BY <1>1, <1>4, <3>1 DEF LogsTypeOK
  <2>2. ASSUME NEW c \in Begun \ touched'
        PROVE  Alone(c)' /\ HasOutput(c)'
    <3>1. Alone(c) /\ HasOutput(c) /\ c \in Begun \ touched /\ command[c].kind \in Kinds
      BY <1>1, <1>4, <2>2, BegunStates DEF OutputInv, RunStates
    <3>2. /\ \A k \in {"log", "tmp", "gz"} : File(c, k) \in Files /\ File(c, k)[2] = k
      BY <1>1, <3>1, BegunStates, IsFile DEF RunStates, File
    <3>3. logs'[File(c, "tmp")] \in {logs[File(c, "tmp")], Nobody}
      BY <1>1, <1>4, <3>2 DEF LogsTypeOK
    <3>4. \A k \in {"log", "gz"} : logs[File(c, k)] = c => logs'[File(c, k)] = c
      BY <1>1, <1>4, <2>2, <3>2 DEF LogsTypeOK
    <3>5. HasOutput(c)'
      <4>1. logs'[File(c, command[c].kind)] = c
        BY <3>1, <3>4 DEF HasOutput, Kinds
      <4> QED
        BY <1>1, <3>1, <3>3, <3>4, <4>1 DEF HasOutput, File, Step, Running
    <3>6. Alone(c)'
      BY <1>1, <3>1 DEF Alone, SameFile, Running, Step
    <3> QED
      BY <3>5, <3>6
  <2>3. OutputInv'
    BY <1>1, <2>2 DEF OutputInv
  <2> QED
    BY <1>2, <2>1, <2>3 DEF LogsInv
<1> QED
  BY <1>3, <1>4 DEF RemoveFile

LEMMA StopKeeps ==
    ASSUME LogsInv, LogsStop
    PROVE  LogsInv'
<1>1. /\ LogsTypeOK /\ OutputInv /\ RowsInv
      /\ UNCHANGED <<logs, logRows, touched>> /\ cleaning' = {}
  BY DEF LogsInv, LogsStop
<1>2. ASSUME NEW c \in Begun
      PROVE  /\ command'[c] \in RunStates /\ command'[c].step = "over"
             /\ command'[c].run = command[c].run /\ command'[c].kind = command[c].kind
  <2>1. c \in Commands /\ command[c] # Fresh /\ command[c] \in RunStates
    BY <1>1, BegunStates DEF Begun
  <2>2. command'[c] = [command[c] EXCEPT !.step = "over"]
    BY <2>1 DEF LogsStop
  <2> QED
    BY <2>1, <2>2 DEF RunStates, RunSteps
<1>3. \A c \in Commands \ Begun : command'[c] = Fresh
  BY DEF LogsStop, Begun
<1>4. LogsTypeOK'
  <2>1. command' = [c \in Commands |-> command'[c]]
    BY DEF LogsStop
  <2>2. \A c \in Commands : command'[c] \in {Fresh} \cup RunStates
    BY <1>2, <1>3
  <2>3. command' \in [Commands -> {Fresh} \cup RunStates]
    BY <2>1, <2>2
  <2> QED
    BY <1>1, <2>3 DEF LogsTypeOK
<1>5. Begun' = Begun
  BY <1>1, <1>2, <1>3, BegunStates DEF Begun
<1>6. ASSUME NEW c \in Begun \ touched
      PROVE  Alone(c)' /\ HasOutput(c)'
  <2>1. HasOutput(c)
    BY <1>1 DEF OutputInv
  <2>2. \A k : File(c, k)' = File(c, k)
    BY <1>2 DEF File
  <2>3. HasOutput(c)'
    BY <1>1, <1>2, <2>1, <2>2 DEF HasOutput, Step, Running
  <2>4. Alone(c)'
    BY <1>2, <1>5 DEF Alone, Running, Step
  <2> QED
    BY <2>3, <2>4
<1>7. OutputInv'
  BY <1>1, <1>5, <1>6 DEF OutputInv
<1>8. RowsInv'
  BY <1>1, <1>2, <1>5 DEF RowsInv, Step
<1> QED
  BY <1>4, <1>7, <1>8 DEF LogsInv

LEMMA LogsNext_Inv == LogsInv /\ [LogsNext]_logVars => LogsInv'
<1> SUFFICES ASSUME LogsInv, [LogsNext]_logVars PROVE LogsInv'
  OBVIOUS
<1>1. ASSUME NEW c \in Commands, NEW r \in RunIds, OpenLog(c, r) PROVE LogsInv'
  BY <1>1, OpenKeeps
<1>2. ASSUME NEW c \in Commands, EndLog(c) PROVE LogsInv'
  BY <1>2, OwnFilesStay DEF EndLog, Running
<1>3. ASSUME NEW c \in Commands, CopyLog(c) PROVE LogsInv'
  BY <1>3, CopyKeeps
<1>4. ASSUME NEW c \in Commands, RemoveOldCopy(c) PROVE LogsInv'
  BY <1>4, RemoveOldKeeps
<1>5. ASSUME NEW c \in Commands, RenameCopy(c) PROVE LogsInv'
  BY <1>5, RenameKeeps
<1>6. ASSUME NEW c \in Commands, DropLog(c) PROVE LogsInv'
  BY <1>6, DropKeeps
<1>7. ASSUME NEW c \in Commands, KeepsTheLog(c) PROVE LogsInv'
  <2>1. Step(c) # "over" /\ Step(c) # "fresh" /\ Goes(c, "recording")
    BY <1>7 DEF KeepsTheLog
  <2> QED
    BY <1>7, <2>1, OwnFilesStay DEF KeepsTheLog
<1>8. ASSUME NEW c \in Commands, RecordLog(c) PROVE LogsInv'
  BY <1>8, RecordKeeps
<1>9. ASSUME NEW f \in Files, RemoveFile(f) PROVE LogsInv'
  BY <1>9, RemoveKeeps
<1>10. CASE CleanupStorage \/ CleanupExpiredTaskLogs
  BY <1>10, CleanupKeeps
<1>11. CASE LogsStop
  BY <1>11, StopKeeps
<1>12. CASE UNCHANGED logVars
  BY <1>12 DEF logVars, LogsInv, LogsTypeOK, OutputInv, RowsInv, Alone, HasOutput, SameFile,
     Running, Step, File, Begun
<1> QED
  BY <1>1, <1>2, <1>3, <1>4, <1>5, <1>6, <1>7, <1>8, <1>9, <1>10, <1>11, <1>12 DEF LogsNext

\* The log of a recorded run is found and is its own, for any commands, ids
\* and names of files, whichever call of the file system fails (existing_log_path).
THEOREM LogsAreFound == LogsSpec => []LogIsFound
<1>1. LogsInv => LogIsFound
  <2> SUFFICES ASSUME LogsInv, NEW r \in RunIds, logRows[r] # NoLog,
                      logRows[r].command \notin touched
               PROVE  Resolved(r) = logRows[r].command
    BY DEF LogIsFound
  <2> DEFINE c == logRows[r].command
             k == logRows[r].kind
  <2>1. LogsTypeOK /\ OutputInv /\ RowsInv
    BY DEF LogsInv
  <2>2. c \in Begun /\ command[c].run = r /\ command[c].kind = k
    BY <2>1 DEF RowsInv
  <2>3. c \in Commands /\ k \in {"log", "gz"}
    BY <2>1, <2>2, BegunStates DEF RunStates, Kinds
  <2>4. logs[<<Stem[r], k>>] = c
    BY <2>1, <2>2 DEF OutputInv, HasOutput, File
  <2>5. c # Nobody
    BY <2>3, LogsAssumption
  <2> HIDE DEF c
  <2> QED
    BY <2>3, <2>4, <2>5 DEF Resolved, c
<1>2. LogsSpec => []LogsInv
  BY LogsInit_Inv, LogsNext_Inv, PTL DEF LogsSpec
<1> QED
  BY <1>1, <1>2, PTL

-----------------------------------------------------------------------------
(* The workspaces of tasks, and the user's profiles and memory.            *)

WorkspaceKinds == {"direct_original", "isolated_copy"} \cup GitKinds
TaskRows == [state : {"fresh", "gone", "listed"}, kind : WorkspaceKinds \cup {"none"},
             path : BOOLEAN, branch : BOOLEAN]

FileSteps == {"init", "tree", "persist", "abandon",
              "undoTree", "dropTree", "undoBranch", "undoGit", "undoFiles"}
TreeSteps == {"meta", "undoMeta", "dropMeta", "dropCleanup", "clear"}

FileOps == [step : FileSteps, task : Tasks, kind : WorkspaceKinds,
            path : BOOLEAN, branch : BOOLEAN, init : BOOLEAN]
TreeOps == [step : TreeSteps, task : Tasks]
SaveOps == [step : {"activate"}, profile : Profiles]
             \cup [step : {"decide"}, candidate : Candidates, memory : MemoryIds]

ProfilesTypeOK ==
    /\ profiles \in [Profiles -> {"none", "active", "inactive"}]
    /\ candidates \in [Candidates ->
          [status : {"none", "pending", "accepted", "rejected", "blocked"},
           memory : MemoryIds \cup {NoMemory}]]
    /\ memories \in [MemoryIds -> {"new", "kept", "deleted"}]

WorkTypeOK ==
    /\ git \in {"none", "own", "ours"}
    /\ rows \in [Tasks -> TaskRows]
    /\ dirs \in [Tasks -> {"none", "clean", "dirty"}]
    /\ branches \in [Tasks -> {"none", "base", "commits"}]
    /\ worktrees \subseteq Tasks /\ artifacts \subseteq Tasks /\ incomplete \subseteq Tasks

WorkspacesTypeOK ==
    /\ op \in {Free} \cup SaveOps \cup FileOps \cup TreeOps
    /\ ProfilesTypeOK /\ WorkTypeOK

\* A candidate that is about to be accepted has its value written already.
Written(m) == memories[m] \in {"kept", "deleted"}

MemoryInv ==
    /\ AcceptedIsRemembered
    /\ \A c \in Candidates : candidates[c].status = "none" => candidates[c].memory = NoMemory
    /\ op.step = "decide" => Written(op.memory)

ProfilesInv == AtMostOneActive /\ MemoryInv

\* The steps before the directory is there and after it is gone.
EmptySteps == {"init", "tree", "abandon", "undoBranch", "undoGit", "undoFiles"}

\* What the operation under way has done so far.
FilesUnderWay ==
    op \in FileOps =>
        /\ rows[op.task].state = "gone" /\ rows[op.task].kind = op.kind
        /\ op.step \in {"init", "tree", "persist"} => op.task \in artifacts
        /\ op.step \in EmptySteps /\ op.kind # "direct_original"
             => dirs[op.task] = "none" \/ op.task \in incomplete
        /\ op.step = "undoTree" /\ op.kind # "direct_original" /\ ~op.path
             => dirs[op.task] = "none" \/ op.task \in incomplete
        /\ op.step = "persist" => op.path
        /\ op.step = "persist" /\ op.kind # "direct_original" => dirs[op.task] # "none"
        /\ op.step = "dropTree" => op.kind \in GitKinds

TreeUnderWay ==
    op \in TreeOps =>
        /\ Listed(op.task)
        /\ op.step \in {"meta", "dropCleanup"} => dirs[op.task] # "none"
        /\ op.step \in {"meta", "undoMeta", "dropMeta"}
             => \/ ~rows[op.task].path \/ op.task \in incomplete
                \/ rows[op.task].kind = "direct_original"
        /\ op.step = "dropCleanup" => rows[op.task].path
        /\ op.step \in {"dropMeta", "dropCleanup"} => op.task \in worktrees
        /\ op.step = "clear" => dirs[op.task] = "none"

\* A listed task has a directory exactly when its row names one, except while
\* the one of the two is being brought in line with the other.
ListedAgrees(t) ==
    Listed(t) =>
        (rows[t].kind # "direct_original" /\ ~(op \in TreeOps /\ op.task = t)
             => (rows[t].path <=> dirs[t] # "none"))

\* A task without a row has nothing, except while an operation on it goes on.
GoneAgrees(t) ==
    ~Listed(t) /\ ~(op \in FileOps /\ op.task = t) =>
        /\ t \notin artifacts
        /\ rows[t].kind # "direct_original" => dirs[t] = "none"

\* Whatever has failed: a listed task has its artifacts, a copy is no worktree,
\* and a worktree has its branch.
TreeAgrees(t) ==
    /\ Listed(t) => t \in artifacts
    /\ rows[t].kind = "isolated_copy" =>
          t \notin worktrees /\ (Listed(t) => dirs[t] # "none")
    /\ t \in worktrees => branches[t] # "none" /\ rows[t].state # "fresh"
    /\ rows[t].kind = "none" <=> rows[t].state = "fresh"

WorkInv ==
    /\ FilesUnderWay /\ TreeUnderWay
    /\ \A t \in Tasks \ incomplete : ListedAgrees(t) /\ GoneAgrees(t)
    /\ \A t \in Tasks : TreeAgrees(t)

WorkspacesInv == WorkspacesTypeOK /\ ProfilesInv /\ WorkInv

\* The shapes of what is under way: its step tells which fields it has.
LEMMA OpShapes ==
    /\ Free \notin FileOps \cup TreeOps
    /\ SaveOps \cap (FileOps \cup TreeOps) = {}
    /\ FileOps \cap TreeOps = {}
    /\ \A o \in FileOps \cup TreeOps : "task" \in DOMAIN o /\ o.task \in Tasks
    /\ \A o \in {Free} \cup SaveOps : "task" \notin DOMAIN o
<1>1. \A o \in FileOps : DOMAIN o = {"step", "task", "kind", "path", "branch", "init"}
                           /\ o.task \in Tasks
  BY DEF FileOps
<1>2. \A o \in TreeOps : DOMAIN o = {"step", "task"} /\ o.task \in Tasks
  BY DEF TreeOps
<1>3. \A o \in SaveOps : DOMAIN o = {"step", "profile"}
                           \/ DOMAIN o = {"step", "candidate", "memory"}
  BY DEF SaveOps
<1>4. DOMAIN Free = {"step"}
  BY DEF Free
<1> QED
  BY <1>1, <1>2, <1>3, <1>4

LEMMA OpSteps ==
    ASSUME WorkspacesTypeOK
    PROVE  /\ UiFree => op = Free /\ op.step = "idle"
           /\ op.step \in FileSteps => op \in FileOps
           /\ op.step \in TreeSteps => op \in TreeOps
           /\ op.step = "activate" => op \in SaveOps /\ op.profile \in Profiles
           /\ op.step = "decide" => /\ op \in SaveOps
                                    /\ op.candidate \in Candidates /\ op.memory \in MemoryIds
           /\ op \in {Free} \cup SaveOps => op \notin FileOps \cup TreeOps
<1>1. \A o \in FileOps : o.step \in FileSteps
  BY DEF FileOps
<1>2. \A o \in TreeOps : o.step \in TreeSteps
  BY DEF TreeOps
<1>3. \A o \in SaveOps : \/ o.step = "activate" /\ o.profile \in Profiles
                         \/ /\ o.step = "decide"
                            /\ o.candidate \in Candidates /\ o.memory \in MemoryIds
  BY DEF SaveOps
<1>4. Free.step = "idle"
  BY DEF Free
<1> HIDE DEF FileOps, TreeOps, SaveOps
<1> QED
  BY <1>1, <1>2, <1>3, <1>4, OpShapes DEF WorkspacesTypeOK, UiFree, FileSteps, TreeSteps

-----------------------------------------------------------------------------
(* Profiles and memory.                                                    *)

LEMMA OnlyOneActive ==
    ASSUME ProfilesTypeOK, NEW p \in Profiles, profiles' = ActivateOnly(p)
    PROVE  /\ profiles' \in [Profiles -> {"none", "active", "inactive"}]
           /\ AtMostOneActive'
<1>1. \A q \in Profiles : profiles'[q] = "active" => q = p
  BY DEF ActivateOnly
<1>2. profiles' \in [Profiles -> {"none", "active", "inactive"}]
  BY DEF ActivateOnly
<1> QED
  BY <1>1, <1>2 DEF AtMostOneActive, Active

\* What is written stays written, so a decision that named it stays true.
LEMMA MemoryKept ==
    ASSUME MemoryInv, ProfilesTypeOK,
           \A m \in MemoryIds : Written(m) => Written(m)',
           UNCHANGED candidates,
           (op.step = "decide" => Written(op.memory))'
    PROVE  MemoryInv'
<1>1. \A c \in Candidates : candidates[c].status = "accepted" =>
          candidates[c].memory \in MemoryIds /\ Written(candidates[c].memory)
  BY DEF MemoryInv, AcceptedIsRemembered, Written
<1>2. \A c \in Candidates : candidates[c].status = "accepted" =>
          candidates[c].memory \in MemoryIds /\ Written(candidates[c].memory)'
  BY <1>1
<1>3. \A c \in Candidates : candidates[c].status = "blocked" => candidates[c].memory = NoMemory
  BY DEF MemoryInv, AcceptedIsRemembered
<1>4. MemoryIds' = MemoryIds
  BY DEF MemoryIds
<1>5. AcceptedIsRemembered'
  BY <1>2, <1>3, <1>4 DEF AcceptedIsRemembered, Written
<1> QED
  BY <1>5 DEF MemoryInv

\* A candidate gets a state that says the truth of its value.
LEMMA CandidateSet ==
    ASSUME WorkspacesTypeOK, MemoryInv, NEW c \in Candidates,
           NEW status \in {"pending", "accepted", "rejected", "blocked"},
           NEW memory \in MemoryIds \cup {NoMemory},
           candidates' = [candidates EXCEPT ![c] = [status |-> status, memory |-> memory]],
           status = "accepted" => memory \in MemoryIds /\ Written(memory),
           status = "blocked" => memory = NoMemory,
           UNCHANGED memories,
           op'.step # "decide"
    PROVE  /\ MemoryInv'
           /\ candidates' \in [Candidates ->
                 [status : {"none", "pending", "accepted", "rejected", "blocked"},
                  memory : MemoryIds \cup {NoMemory}]]
<1>1. /\ candidates'[c].status = status /\ candidates'[c].memory = memory
      /\ \A d \in Candidates \ {c} : candidates'[d] = candidates[d]
  BY DEF WorkspacesTypeOK, ProfilesTypeOK
<1>2. candidates' \in [Candidates ->
                 [status : {"none", "pending", "accepted", "rejected", "blocked"},
                  memory : MemoryIds \cup {NoMemory}]]
  BY DEF WorkspacesTypeOK, ProfilesTypeOK
<1>3. AcceptedIsRemembered'
  BY <1>1 DEF MemoryInv, AcceptedIsRemembered, Written
<1> QED
  BY <1>1, <1>2, <1>3 DEF MemoryInv

\* Every step of a command on profiles, candidates and memory keeps them right.
LEMMA ProfilesKept ==
    ASSUME WorkspacesTypeOK, ProfilesInv, ProfileAssumption, ProfilesNext
    PROVE  /\ op' \in {Free} \cup SaveOps
           /\ ProfilesTypeOK' /\ ProfilesInv'
<1>0. /\ ProfilesTypeOK /\ AtMostOneActive /\ MemoryInv
      /\ op.step = "decide" => Written(op.memory)
  BY DEF WorkspacesTypeOK, ProfilesInv, MemoryInv
<1>1. /\ Free.step # "decide"
      /\ \A p \in Profiles : [step |-> "activate", profile |-> p] \in SaveOps
      /\ \A c \in Candidates, m \in MemoryIds :
            [step |-> "decide", candidate |-> c, memory |-> m] \in SaveOps
  BY DEF Free, SaveOps
<1>2. ASSUME NEW p \in Profiles, NEW activate \in BOOLEAN,
             ProfileCreate(p, activate) \/ ProfileUpdate(p, activate)
      PROVE  /\ op' \in {Free} \cup SaveOps
             /\ ProfilesTypeOK' /\ ProfilesInv'
  <2>1. /\ op' \in {Free} \cup SaveOps /\ op'.step # "decide"
        /\ UNCHANGED <<candidates, memories>>
    BY <1>1, <1>2 DEF ProfileCreate, ProfileUpdate, profileVars
  <2>2. /\ profiles' \in [Profiles -> {"none", "active", "inactive"}]
        /\ \A q \in Profiles : profiles'[q] = "active" => profiles[q] = "active"
    BY <1>0, <1>2 DEF ProfileCreate, ProfileUpdate, profileVars, ProfilesTypeOK
  <2>3. AtMostOneActive'
    BY <1>0, <2>2 DEF AtMostOneActive, Active
  <2>4. MemoryInv'
    BY <1>0, <2>1, MemoryKept DEF Written
  <2> QED
    BY <1>0, <2>1, <2>2, <2>3, <2>4 DEF ProfilesTypeOK, ProfilesInv
<1>3. ASSUME NEW p \in Profiles, profiles' = ActivateOnly(p),
             UNCHANGED <<candidates, memories>>, op' \in {op, Free},
             op' = Free \/ UiFree
      PROVE  /\ op' \in {Free} \cup SaveOps
             /\ ProfilesTypeOK' /\ ProfilesInv'
  <2>1. op' = Free /\ op'.step # "decide"
    BY <1>1, <1>3 DEF UiFree
  <2>2. MemoryInv'
    BY <1>0, <1>3, <2>1, MemoryKept DEF Written
  <2> QED
    BY <1>0, <1>3, <2>1, <2>2, OnlyOneActive DEF ProfilesTypeOK, ProfilesInv
<1>4. ASSUME NEW c \in Candidates, NEW blocked \in BOOLEAN, CandidateCreate(c, blocked)
      PROVE  /\ op' \in {Free} \cup SaveOps
             /\ ProfilesTypeOK' /\ ProfilesInv'
  <2> DEFINE status == IF blocked THEN "blocked" ELSE "pending"
  <2>1. /\ op' = Free /\ op'.step # "decide" /\ UNCHANGED <<profiles, memories>>
        /\ candidates[c].status = "none" /\ candidates[c].memory = NoMemory
    BY <1>0, <1>1, <1>4 DEF CandidateCreate, UiFree, MemoryInv
  <2>2. status \in {"pending", "blocked"}
    OBVIOUS
  <2>3. candidates' = [candidates EXCEPT ![c] = [status |-> status, memory |-> NoMemory]]
    <3>1. candidates' = [candidates EXCEPT ![c] = [candidates[c] EXCEPT !.status = status]]
      BY <1>4 DEF CandidateCreate
    <3> HIDE DEF status
    <3>2. [candidates[c] EXCEPT !.status = status] = [status |-> status, memory |-> NoMemory]
      BY <1>0, <2>1 DEF ProfilesTypeOK
    <3> QED
      BY <3>1, <3>2
  <2> HIDE DEF status
  <2>4. /\ MemoryInv'
        /\ candidates' \in [Candidates ->
              [status : {"none", "pending", "accepted", "rejected", "blocked"},
               memory : MemoryIds \cup {NoMemory}]]
    <3>1. /\ status \in {"pending", "accepted", "rejected", "blocked"}
          /\ NoMemory \in MemoryIds \cup {NoMemory} /\ status # "accepted"
      BY <2>2
    <3> QED
      BY <1>0, <2>1, <2>3, <3>1, CandidateSet
  <2>5. AtMostOneActive' /\ ProfilesTypeOK'
    BY <1>0, <2>1, <2>4 DEF AtMostOneActive, Active, ProfilesTypeOK
  <2> QED
    BY <2>1, <2>4, <2>5 DEF ProfilesInv
<1>5. ASSUME NEW c \in Candidates, AcceptCandidate(c)
      PROVE  /\ op' \in {Free} \cup SaveOps
             /\ ProfilesTypeOK' /\ ProfilesInv'
  <2>1. PICK m \in MemoryIds :
           /\ memories[m] = "new" /\ memories' = [memories EXCEPT ![m] = "kept"]
           /\ op' = [step |-> "decide", candidate |-> c, memory |-> m]
    BY <1>5 DEF AcceptCandidate, Unused
  <2>2. UNCHANGED <<profiles, candidates>>
    BY <1>5 DEF AcceptCandidate
  <2>3. /\ ProfilesTypeOK' /\ AtMostOneActive' /\ op' \in SaveOps
        /\ \A n \in MemoryIds : Written(n) => Written(n)'
        /\ memories'[m] = "kept"
    BY <1>0, <1>1, <2>1, <2>2 DEF ProfilesTypeOK, AtMostOneActive, Active, Written
  <2>4. (op.step = "decide" => Written(op.memory))'
    BY <2>1, <2>3 DEF Written
  <2>5. MemoryInv'
    BY <1>0, <2>2, <2>3, <2>4, MemoryKept
  <2> QED
    BY <2>3, <2>5 DEF ProfilesInv
<1>6. ASSUME DecideAccepted
      PROVE  /\ op' \in {Free} \cup SaveOps
             /\ ProfilesTypeOK' /\ ProfilesInv'
  <2>1. /\ op' = Free /\ op'.step # "decide" /\ UNCHANGED <<profiles, memories>>
        /\ op.candidate \in Candidates /\ op.memory \in MemoryIds /\ Written(op.memory)
    BY <1>0, <1>1, <1>6, OpSteps DEF DecideAccepted, MemoryInv
  <2>2. candidates' = [candidates EXCEPT ![op.candidate] =
                          [status |-> "accepted", memory |-> op.memory]]
    BY <1>6 DEF DecideAccepted
  <2>3. op.memory \in MemoryIds \cup {NoMemory}
    BY <2>1
  <2>4. /\ MemoryInv'
        /\ candidates' \in [Candidates ->
              [status : {"none", "pending", "accepted", "rejected", "blocked"},
               memory : MemoryIds \cup {NoMemory}]]
    BY <1>0, <2>1, <2>2, <2>3, CandidateSet
  <2>5. AtMostOneActive' /\ ProfilesTypeOK'
    BY <1>0, <2>1, <2>4 DEF AtMostOneActive, Active, ProfilesTypeOK
  <2> QED
    BY <2>1, <2>4, <2>5 DEF ProfilesInv
<1>7. ASSUME NEW c \in Candidates, RejectCandidate(c)
      PROVE  /\ op' \in {Free} \cup SaveOps
             /\ ProfilesTypeOK' /\ ProfilesInv'
  <2> DEFINE status == IF candidates[c].status = "blocked" THEN "blocked" ELSE "rejected"
  <2>1. op' = Free /\ op'.step # "decide" /\ UNCHANGED <<profiles, memories>>
    BY <1>1, <1>7 DEF RejectCandidate, UiFree
  <2>2. status \in {"rejected", "blocked"}
    OBVIOUS
  <2>3. candidates' = [candidates EXCEPT ![c] = [status |-> status, memory |-> NoMemory]]
    BY <1>0, <1>7 DEF RejectCandidate, ProfilesTypeOK
  <2> HIDE DEF status
  <2>4. /\ MemoryInv'
        /\ candidates' \in [Candidates ->
              [status : {"none", "pending", "accepted", "rejected", "blocked"},
               memory : MemoryIds \cup {NoMemory}]]
    <3>1. /\ status \in {"pending", "accepted", "rejected", "blocked"}
          /\ NoMemory \in MemoryIds \cup {NoMemory} /\ status # "accepted"
      BY <2>2
    <3> QED
      BY <1>0, <2>1, <2>3, <3>1, CandidateSet
  <2>5. AtMostOneActive' /\ ProfilesTypeOK'
    BY <1>0, <2>1, <2>4 DEF AtMostOneActive, Active, ProfilesTypeOK
  <2> QED
    BY <2>1, <2>4, <2>5 DEF ProfilesInv
<1>8. ASSUME SaveMemoryItem \/ \E m \in MemoryIds : DeleteMemoryItem(m)
      PROVE  /\ op' \in {Free} \cup SaveOps
             /\ ProfilesTypeOK' /\ ProfilesInv'
  <2>1. op' = Free /\ op'.step # "decide" /\ UNCHANGED <<profiles, candidates>>
    BY <1>1, <1>8 DEF SaveMemoryItem, DeleteMemoryItem, UiFree
  <2>2. PICK m \in MemoryIds : \/ memories[m] = "new" /\ memories' = [memories EXCEPT ![m] = "kept"]
                               \/ memories' = [memories EXCEPT ![m] = "deleted"]
    BY <1>8 DEF SaveMemoryItem, DeleteMemoryItem, Unused
  <2>3. /\ ProfilesTypeOK' /\ AtMostOneActive'
        /\ \A n \in MemoryIds : Written(n) => Written(n)'
    BY <1>0, <2>1, <2>2 DEF ProfilesTypeOK, AtMostOneActive, Active, Written
  <2>4. MemoryInv'
    BY <1>0, <2>1, <2>3, MemoryKept
  <2> QED
    BY <2>1, <2>3, <2>4 DEF ProfilesInv
<1>9. ASSUME StatementFails
      PROVE  /\ op' \in {Free} \cup SaveOps
             /\ ProfilesTypeOK' /\ ProfilesInv'
  <2>1. op' = Free /\ op'.step # "decide" /\ UNCHANGED profileVars
    BY <1>1, <1>9 DEF StatementFails
  <2>2. MemoryInv'
    BY <1>0, <2>1, MemoryKept DEF Written, profileVars
  <2> QED
    BY <1>0, <2>1, <2>2 DEF ProfilesTypeOK, AtMostOneActive, Active, ProfilesInv, profileVars
<1>10. ASSUME NEW p \in Profiles, ProfileActivate(p)
       PROVE  profiles' = ActivateOnly(p) /\ UNCHANGED <<candidates, memories>> /\ op' = op /\ UiFree
  BY <1>10 DEF ProfileActivate
<1>11. ASSUME ActivateSaved
       PROVE  /\ profiles' = ActivateOnly(op.profile) /\ op.profile \in Profiles
              /\ UNCHANGED <<candidates, memories>> /\ op' = Free
  BY <1>11, OpSteps DEF ActivateSaved
<1> QED
  BY <1>2, <1>3, <1>4, <1>5, <1>6, <1>7, <1>8, <1>9, <1>10, <1>11 DEF ProfilesNext

-----------------------------------------------------------------------------
(* Workspaces.                                                             *)

\* The next step of an operation under way.
LEMMA NextFileStep ==
    ASSUME WorkspacesTypeOK, op \in FileOps, NEW step \in FileSteps, Then(step)
    PROVE  /\ op' \in FileOps
           /\ op'.step = step /\ op'.task = op.task /\ op'.kind = op.kind
           /\ op'.path = op.path /\ op'.branch = op.branch /\ op'.init = op.init
BY DEF FileOps, Then

\* What a step does to one task leaves the others as they were, whatever they
\* share: a repository that is removed takes their branches and worktrees along.
LEMMA OneTask ==
    ASSUME WorkspacesInv, NEW t \in Tasks,
           op \in FileOps \cup TreeOps => op.task = t,
           op' \in {Free} \cup FileOps \cup TreeOps,
           op' \in FileOps \cup TreeOps => op'.task = t,
           WorkTypeOK', UNCHANGED profileVars, incomplete \subseteq incomplete',
           \A u \in Tasks \ {t} :
               /\ rows'[u] = rows[u] /\ dirs'[u] = dirs[u]
               /\ u \in artifacts <=> u \in artifacts'
               /\ u \in worktrees' => u \in worktrees /\ branches'[u] = branches[u],
           FilesUnderWay', TreeUnderWay',
           t \notin incomplete' => ListedAgrees(t)' /\ GoneAgrees(t)',
           TreeAgrees(t)'
    PROVE  WorkspacesInv'
<1>0. /\ WorkspacesTypeOK /\ ProfilesTypeOK /\ AtMostOneActive /\ MemoryInv
      /\ \A u \in Tasks \ incomplete : ListedAgrees(u) /\ GoneAgrees(u)
      /\ \A u \in Tasks : TreeAgrees(u)
  BY DEF WorkspacesInv, WorkspacesTypeOK, WorkInv, ProfilesInv
<1>1. WorkspacesTypeOK'
  BY <1>0 DEF WorkspacesTypeOK, ProfilesTypeOK, profileVars
<1>2. op'.step # "decide"
  BY DEF FileOps, TreeOps, FileSteps, TreeSteps, Free
<1>3. MemoryInv'
  BY <1>0, <1>2, MemoryKept DEF Written, profileVars
<1>4. ProfilesInv'
  BY <1>0, <1>3 DEF ProfilesInv, AtMostOneActive, Active, profileVars
<1>5. ASSUME NEW u \in (Tasks \ incomplete') \ {t}
      PROVE  ListedAgrees(u)' /\ GoneAgrees(u)'
  <2>1. ListedAgrees(u) /\ GoneAgrees(u)
    BY <1>0, <1>5
  <2>2. /\ ~(op \in TreeOps /\ op.task = u) /\ ~(op' \in TreeOps /\ op'.task = u)
        /\ ~(op \in FileOps /\ op.task = u) /\ ~(op' \in FileOps /\ op'.task = u)
    BY <1>5
  <2> QED
    BY <1>5, <2>1, <2>2 DEF ListedAgrees, GoneAgrees, Listed
<1>6. ASSUME NEW u \in Tasks \ {t} PROVE TreeAgrees(u)'
  <2>1. TreeAgrees(u)
    BY <1>0, <1>6
  <2> QED
    BY <1>6, <2>1 DEF TreeAgrees, Listed
<1>7. WorkInv'
  BY <1>5, <1>6 DEF WorkInv
<1> QED
  BY <1>1, <1>4, <1>7 DEF WorkspacesInv

LEMMA WorkspacesInit_Inv ==
    ASSUME ProfileAssumption PROVE WorkspacesInit => WorkspacesInv
<1> SUFFICES ASSUME WorkspacesInit PROVE WorkspacesInv
  OBVIOUS
<1>1. op = Free /\ op \notin FileOps \cup TreeOps /\ op.step # "decide"
  BY OpShapes DEF WorkspacesInit, ProfilesInit, Free
<1>2. ProfilesTypeOK
  BY DEF WorkspacesInit, ProfilesInit, ProfilesTypeOK, NoCandidate
<1>3. WorkTypeOK
  BY DEF WorkspacesInit, WorkTypeOK, TaskRows, Row
<1>4. ProfilesInv
  BY <1>1 DEF WorkspacesInit, ProfilesInit, ProfilesInv, AtMostOneActive, Active, MemoryInv,
              AcceptedIsRemembered, NoCandidate
<1>5. \A t \in Tasks : rows[t].state = "fresh" /\ rows[t].kind = "none"
  BY DEF WorkspacesInit, Row
<1>6. WorkInv
  BY <1>1, <1>5 DEF WorkspacesInit, WorkInv, FilesUnderWay, TreeUnderWay, ListedAgrees, GoneAgrees,
                    TreeAgrees, Listed
<1> QED
  BY <1>1, <1>2, <1>3, <1>4, <1>6 DEF WorkspacesInv, WorkspacesTypeOK

\* Steps on profiles and memory run while no task is worked on.
LEMMA SavingKeepsWork ==
    ASSUME WorkspacesInv, ProfileAssumption, ProfilesNext, UNCHANGED <<workVars, incomplete>>
    PROVE  WorkspacesInv'
<1>1. WorkspacesTypeOK /\ ProfilesInv /\ WorkInv
  BY DEF WorkspacesInv
<1>2. op' \in {Free} \cup SaveOps /\ ProfilesTypeOK' /\ ProfilesInv'
  BY <1>1, ProfilesKept
<1>3. op' \notin FileOps \cup TreeOps
  BY <1>2, OpShapes
<1>4. op \notin FileOps \cup TreeOps
  <2>1. UiFree \/ op.step \in {"activate", "decide"}
    BY DEF ProfilesNext, ProfileCreate, ProfileUpdate, ProfileActivate, ActivateSaved,
           CandidateCreate, AcceptCandidate, RejectCandidate, DecideAccepted, SaveMemoryItem,
           StatementFails, DeleteMemoryItem
  <2> QED
    BY <1>1, <2>1, OpSteps
<1>5. WorkInv'
  BY <1>1, <1>3, <1>4 DEF WorkInv, FilesUnderWay, TreeUnderWay, ListedAgrees, GoneAgrees, TreeAgrees,
                          Listed, workVars
<1>6. WorkspacesTypeOK'
  BY <1>1, <1>2 DEF WorkspacesTypeOK, WorkTypeOK, workVars
<1> QED
  BY <1>2, <1>5, <1>6 DEF WorkspacesInv

\* What is known of the operation on the files of a task that has no row.
LEMMA FileFacts ==
    ASSUME WorkspacesInv, op \in FileOps
    PROVE  /\ op.task \in Tasks /\ op.kind \in WorkspaceKinds
           /\ op.path \in BOOLEAN /\ op.branch \in BOOLEAN /\ op.init \in BOOLEAN
           /\ op \notin TreeOps /\ op # Free
           /\ rows[op.task].state = "gone" /\ rows[op.task].kind = op.kind
           /\ ~Listed(op.task)
           /\ op.kind = "isolated_copy" => op.task \notin worktrees
           /\ op.task \in worktrees => branches[op.task] # "none"
<1>1. WorkspacesTypeOK /\ FilesUnderWay /\ \A t \in Tasks : TreeAgrees(t)
  BY DEF WorkspacesInv, WorkInv
<1>2. /\ op.task \in Tasks /\ op.kind \in WorkspaceKinds
      /\ op.path \in BOOLEAN /\ op.branch \in BOOLEAN /\ op.init \in BOOLEAN
  BY DEF FileOps
<1>3. op \notin TreeOps /\ op # Free
  BY OpShapes
<1>4. rows[op.task].state = "gone" /\ rows[op.task].kind = op.kind
  BY <1>1 DEF FilesUnderWay
<1> QED
  BY <1>1, <1>2, <1>3, <1>4 DEF TreeAgrees, Listed

\* One step of such an operation, or its end.
LEMMA FileStep ==
    ASSUME WorkspacesInv, op \in FileOps, WorkTypeOK', UNCHANGED <<profileVars, rows>>,
           incomplete \subseteq incomplete',
           op' = Free \/ (op' \in FileOps /\ op'.task = op.task /\ op'.kind = op.kind),
           \A u \in Tasks \ {op.task} :
               /\ dirs'[u] = dirs[u]
               /\ u \in artifacts <=> u \in artifacts'
               /\ u \in worktrees' => u \in worktrees /\ branches'[u] = branches[u],
           FilesUnderWay',
           op' = Free /\ op.task \notin incomplete' =>
               /\ op.task \notin artifacts'
               /\ op.kind # "direct_original" => dirs'[op.task] = "none",
           op.task \in worktrees' => op.kind # "isolated_copy" /\ branches'[op.task] # "none"
    PROVE  WorkspacesInv'
<1>0. PICK t \in Tasks : t = op.task
  BY FileFacts
<1>1. /\ t \in Tasks /\ op.kind \in WorkspaceKinds /\ rows[t].state = "gone" /\ rows[t].kind = op.kind
      /\ op \notin TreeOps
  BY <1>0, FileFacts
<1>2. op' \in {Free} \cup FileOps \cup TreeOps /\ op' \notin TreeOps
  BY OpShapes
<1>3. op' \in FileOps \cup TreeOps => op'.task = t
  BY <1>0, <1>2, OpShapes
<1>4. TreeUnderWay'
  BY <1>2 DEF TreeUnderWay
<1>5. rows'[t].state = "gone" /\ rows'[t].kind = op.kind /\ op.kind # "none"
  BY <1>1 DEF WorkspaceKinds, GitKinds
<1>6. TreeAgrees(t)'
  BY <1>0, <1>5 DEF TreeAgrees, Listed
<1>7. t \notin incomplete' => ListedAgrees(t)' /\ GoneAgrees(t)'
  BY <1>0, <1>5 DEF ListedAgrees, GoneAgrees, Listed
<1>8. \A u \in Tasks \ {t} : rows'[u] = rows[u]
  OBVIOUS
<1> QED
  BY <1>0, <1>1, <1>2, <1>3, <1>4, <1>6, <1>7, <1>8, OneTask

LEMMA CreateTaskKeeps ==
    ASSUME WorkspacesInv, NEW t \in Tasks, NEW kind \in Strategies, CreateTask(t, kind)
    PROVE  WorkspacesInv'
<1>0. WorkspacesTypeOK /\ WorkInv
  BY DEF WorkspacesInv
<1>1. op = Free /\ op \notin FileOps \cup TreeOps
  BY <1>0, OpSteps DEF CreateTask
<1>2. kind \in WorkspaceKinds
  BY DEF Strategies, WorkspaceKinds, GitKinds
<1>3. /\ op' \in FileOps /\ op'.task = t /\ op'.kind = kind /\ op'.step \in {"init", "tree"}
  BY <1>2 DEF CreateTask, FileOps, FileSteps
<1>4. op' \notin TreeOps
  BY <1>3, OpShapes
<1>5. /\ rows'[t].state = "gone" /\ rows'[t].kind = kind
      /\ \A u \in Tasks \ {t} : rows'[u] = rows[u]
      /\ rows' \in [Tasks -> TaskRows]
  BY <1>0, <1>2 DEF CreateTask, WorkspacesTypeOK, WorkTypeOK, Row, TaskRows
<1>6. /\ artifacts' = artifacts \cup {t}
      /\ UNCHANGED <<profileVars, git, dirs, branches, worktrees, incomplete>>
  BY DEF CreateTask
<1>7. WorkTypeOK'
  BY <1>0, <1>5, <1>6 DEF WorkspacesTypeOK, WorkTypeOK
<1>8. rows[t].state = "fresh" /\ t \notin worktrees
  BY <1>0 DEF CreateTask, WorkInv, TreeAgrees
<1>9. TreeAgrees(t)' /\ ListedAgrees(t)' /\ GoneAgrees(t)'
  BY <1>2, <1>3, <1>5, <1>6, <1>8 DEF TreeAgrees, ListedAgrees, GoneAgrees, Listed, WorkspaceKinds, GitKinds
<1>f. dirs[t] = "none" \/ t \in incomplete
  BY <1>0, <1>1, <1>8 DEF WorkInv, GoneAgrees, TreeAgrees, Listed
<1>10. FilesUnderWay' /\ TreeUnderWay'
  BY <1>3, <1>4, <1>5, <1>6, <1>f DEF FilesUnderWay, TreeUnderWay
<1>11. /\ op' \in {Free} \cup FileOps \cup TreeOps /\ incomplete \subseteq incomplete'
       /\ UNCHANGED profileVars
  BY <1>3, <1>6
<1>12. \A u \in Tasks \ {t} :
               /\ rows'[u] = rows[u] /\ dirs'[u] = dirs[u]
               /\ u \in artifacts <=> u \in artifacts'
               /\ u \in worktrees' => u \in worktrees /\ branches'[u] = branches[u]
  BY <1>5, <1>6
<1> QED
  BY <1>1, <1>3, <1>7, <1>9, <1>10, <1>11, <1>12, OneTask

\* What git does when it adds a worktree, or fails to.
LEMMA TreeAdded ==
    ASSUME WorkTypeOK, NEW t \in Tasks, AddTree(t) \/ AddTreeFails(t)
    PROVE  /\ dirs' \in [Tasks -> {"none", "clean", "dirty"}]
           /\ branches' \in [Tasks -> {"none", "base", "commits"}]
           /\ worktrees' \subseteq Tasks
           /\ \A u \in Tasks \ {t} : /\ dirs'[u] = dirs[u] /\ branches'[u] = branches[u]
                                     /\ u \in worktrees' <=> u \in worktrees
           /\ t \in worktrees' /\ (t \in worktrees => branches[t] # "none") => branches'[t] # "none"
           /\ AddTree(t) => dirs'[t] # "none" /\ dirs[t] = "none"
           /\ AddTreeFails(t) => UNCHANGED <<dirs, worktrees>>
<1>1. CASE AddTree(t)
  <2>1. AddTreeFails(t) => UNCHANGED <<dirs, worktrees>>
    BY DEF AddTreeFails
  <2>2. branches'[t] = IF branches[t] = "none" THEN "base" ELSE branches[t]
    BY <1>1 DEF AddTree, WorkTypeOK
  <2> QED
    BY <1>1, <2>1, <2>2 DEF AddTree, WorkTypeOK
<1>2. CASE AddTreeFails(t)
  <2>1. AddTree(t) => dirs'[t] # "none" /\ dirs[t] = "none"
    BY DEF AddTree, WorkTypeOK
  <2>2. branches' = branches \/ branches' = [branches EXCEPT ![t] =
           IF branches[t] = "none" /\ git # "none" THEN "base" ELSE branches[t]]
    BY <1>2 DEF AddTreeFails
  <2>3. UNCHANGED <<dirs, worktrees>>
    BY <1>2 DEF AddTreeFails
  <2> QED
    BY <2>1, <2>2, <2>3 DEF WorkTypeOK
<1> QED
  BY <1>1, <1>2

LEMMA TreeDropped ==
    ASSUME WorkTypeOK, NEW t \in Tasks, DropTree(t)
    PROVE  /\ dirs' \in [Tasks -> {"none", "clean", "dirty"}]
           /\ worktrees' \subseteq Tasks
           /\ \A u \in Tasks \ {t} : dirs'[u] = dirs[u] /\ (u \in worktrees' <=> u \in worktrees)
           /\ dirs'[t] = "none" /\ t \notin worktrees'
BY DEF WorkTypeOK, DropTree

LEMMA RepositoryDropped ==
    ASSUME DropRepository
    PROVE  /\ branches' \in [Tasks -> {"none", "base", "commits"}]
           /\ worktrees' = {} /\ git' = "none"
BY DEF DropRepository

-----------------------------------------------------------------------------
(* The steps of a creation.                                                *)

LEMMA InitializeKeeps ==
    ASSUME WorkspacesInv, InitializeGit \/ InitializeGitFails
    PROVE  WorkspacesInv'
<1>0. WorkspacesTypeOK /\ WorkTypeOK /\ FilesUnderWay
  BY DEF WorkspacesInv, WorkspacesTypeOK, WorkInv
<1>1. op \in FileOps /\ op.step = "init"
  BY <1>0, OpSteps DEF InitializeGit, InitializeGitFails, FileSteps
<1>2. /\ op.task \in Tasks /\ rows[op.task].state = "gone" /\ rows[op.task].kind = op.kind
      /\ op.kind = "isolated_copy" => op.task \notin worktrees
      /\ op.task \in worktrees => branches[op.task] # "none"
  BY <1>1, FileFacts
<1>3. UNCHANGED <<profileVars, rows, dirs, branches, worktrees, artifacts, incomplete>>
  BY DEF InitializeGit, InitializeGitFails
<1>4. Then("tree") \/ Then("abandon")
  BY DEF InitializeGit, InitializeGitFails
<1>5. /\ op' \in FileOps /\ op'.task = op.task /\ op'.kind = op.kind
      /\ op'.step \in {"tree", "abandon"}
  <2>1. "tree" \in FileSteps /\ "abandon" \in FileSteps
    BY DEF FileSteps
  <2> QED
    BY <1>0, <1>1, <1>4, <2>1, NextFileStep
<1>6. git' \in {"none", "own", "ours"}
  BY <1>0 DEF InitializeGit, InitializeGitFails, WorkTypeOK
<1>7. WorkTypeOK' /\ incomplete \subseteq incomplete'
  BY <1>0, <1>2, <1>3, <1>5, <1>6 DEF WorkTypeOK
<1>8. FilesUnderWay'
  <2>1. op.task \in artifacts
    BY <1>0, <1>1 DEF FilesUnderWay
  <2>2. op.kind # "direct_original" => dirs[op.task] = "none" \/ op.task \in incomplete
    BY <1>0, <1>1 DEF FilesUnderWay, EmptySteps
  <2> QED
    BY <1>2, <1>3, <1>5, <2>1, <2>2 DEF FilesUnderWay
<1>9. op' # Free
  BY <1>5, OpShapes
<1> QED
  BY <1>1, <1>2, <1>3, <1>5, <1>7, <1>8, <1>9, FileStep

LEMMA PrepareKeeps ==
    ASSUME WorkspacesInv, PrepareTree
    PROVE  WorkspacesInv'
<1>0. WorkspacesTypeOK /\ WorkTypeOK /\ FilesUnderWay
  BY DEF WorkspacesInv, WorkspacesTypeOK, WorkInv
<1>1. op \in FileOps /\ op.step = "tree"
  BY <1>0, OpSteps DEF PrepareTree, FileSteps
<1>2. /\ op.task \in Tasks /\ rows[op.task].state = "gone" /\ rows[op.task].kind = op.kind
      /\ op.kind \in WorkspaceKinds
      /\ op.kind = "isolated_copy" => op.task \notin worktrees
      /\ op.task \in worktrees => branches[op.task] # "none"
  BY <1>1, FileFacts
<1>3. UNCHANGED <<profileVars, git, rows, artifacts, incomplete>>
  BY DEF PrepareTree
<1>4. /\ op' \in FileOps /\ op'.task = op.task /\ op'.kind = op.kind
      /\ op'.step = "persist" /\ op'.path = TRUE
  <2> DEFINE branch == op.kind \in GitKinds
             init   == op.kind = "git_initialized_worktree"
  <2>1. branch \in BOOLEAN /\ init \in BOOLEAN
    OBVIOUS
  <2>2. op' = [op EXCEPT !.step = "persist", !.path = TRUE, !.branch = branch, !.init = init]
    BY DEF PrepareTree
  <2> HIDE DEF branch, init
  <2> QED
    BY <1>1, <2>1, <2>2 DEF FileOps, FileSteps
<1>5. /\ dirs' \in [Tasks -> {"none", "clean", "dirty"}]
      /\ branches' \in [Tasks -> {"none", "base", "commits"}]
      /\ worktrees' \subseteq Tasks
      /\ \A u \in Tasks \ {op.task} : /\ dirs'[u] = dirs[u] /\ branches'[u] = branches[u]
                                      /\ u \in worktrees' <=> u \in worktrees
      /\ op.kind # "direct_original" => dirs'[op.task] # "none"
      /\ op.task \in worktrees' => op.kind # "isolated_copy" /\ branches'[op.task] # "none"
  <2>1. CASE op.kind \in GitKinds
    <3>1. AddTree(op.task)
      BY <2>1 DEF PrepareTree, GitKinds
    <3> QED
      BY <1>0, <1>2, <2>1, <3>1, TreeAdded DEF GitKinds
  <2>2. CASE op.kind = "isolated_copy"
    <3>1. dirs' = [dirs EXCEPT ![op.task] = "clean"] /\ UNCHANGED <<branches, worktrees>>
      BY <2>2 DEF PrepareTree, GitKinds
    <3> QED
      BY <1>0, <1>2, <2>2, <3>1 DEF WorkTypeOK
  <2>3. CASE op.kind = "direct_original"
    <3>1. UNCHANGED <<dirs, branches, worktrees>>
      BY <2>3 DEF PrepareTree, GitKinds
    <3> QED
      BY <1>0, <1>2, <2>3, <3>1 DEF WorkTypeOK
  <2> QED
    BY <1>2, <2>1, <2>2, <2>3 DEF WorkspaceKinds
<1>6. WorkTypeOK'
  BY <1>0, <1>3, <1>5 DEF WorkTypeOK
<1>7. FilesUnderWay'
  <2>1. op.task \in artifacts
    BY <1>0, <1>1 DEF FilesUnderWay
  <2> QED
    BY <1>2, <1>3, <1>4, <1>5, <2>1 DEF FilesUnderWay, EmptySteps
<1>8. op' # Free
  BY <1>4, OpShapes
<1> QED
  BY <1>1, <1>3, <1>4, <1>5, <1>6, <1>7, <1>8, FileStep

LEMMA PrepareFailsKeeps ==
    ASSUME WorkspacesInv, PrepareTreeFails
    PROVE  WorkspacesInv'
<1>0. WorkspacesTypeOK /\ WorkTypeOK /\ FilesUnderWay
  BY DEF WorkspacesInv, WorkspacesTypeOK, WorkInv
<1>1. op \in FileOps /\ op.step = "tree"
  BY <1>0, OpSteps DEF PrepareTreeFails, FileSteps
<1>2. /\ op.task \in Tasks /\ rows[op.task].state = "gone" /\ rows[op.task].kind = op.kind
      /\ op.kind = "isolated_copy" => op.task \notin worktrees
      /\ op.task \in worktrees => branches[op.task] # "none"
  BY <1>1, FileFacts
<1>3. UNCHANGED <<profileVars, rows, artifacts>>
  BY DEF PrepareTreeFails
<1>e. op.kind # "direct_original" => dirs[op.task] = "none" \/ op.task \in incomplete
  BY <1>0, <1>1 DEF FilesUnderWay, EmptySteps
<1>4. op' \in FileOps /\ op'.task = op.task /\ op'.kind = op.kind /\ op'.step = "abandon"
  BY <1>0, <1>1, NextFileStep DEF PrepareTreeFails, FileSteps
<1>5. /\ dirs' \in [Tasks -> {"none", "clean", "dirty"}]
      /\ branches' \in [Tasks -> {"none", "base", "commits"}]
      /\ worktrees' \subseteq Tasks
      /\ \A u \in Tasks \ {op.task} :
            /\ dirs'[u] = dirs[u]
            /\ u \in worktrees' => u \in worktrees /\ branches'[u] = branches[u]
      /\ op.task \in worktrees' => op.kind # "isolated_copy" /\ branches'[op.task] # "none"
      /\ git' \in {"none", "own", "ours"}
      /\ incomplete \subseteq incomplete' /\ incomplete' \subseteq Tasks
      /\ dirs' = dirs \/ op.task \in incomplete'
  <2>1. CASE op.kind = "git_worktree" /\ AddTreeFails(op.task) /\ UNCHANGED <<git, incomplete>>
    BY <1>0, <1>2, <2>1, TreeAdded DEF WorkTypeOK
  <2>2. CASE op.kind = "git_initialized_worktree" /\ DropRepository /\ UNCHANGED <<dirs, incomplete>>
    BY <1>0, <1>2, <2>2, RepositoryDropped DEF WorkTypeOK
  <2>3. CASE /\ op.kind = "git_initialized_worktree" /\ AddTreeFails(op.task)
             /\ UNCHANGED <<git, worktrees, incomplete>>
    BY <1>0, <1>2, <2>3, TreeAdded DEF WorkTypeOK
  <2>4. CASE /\ op.kind = "isolated_copy" /\ UNCHANGED <<dirs, incomplete>>
             /\ UNCHANGED <<git, branches, worktrees>>
    BY <1>0, <1>2, <2>4 DEF WorkTypeOK
  <2>5. CASE /\ op.kind = "isolated_copy"
             /\ dirs' = [dirs EXCEPT ![op.task] = "clean"] /\ Mark(op.task)
             /\ UNCHANGED <<git, branches, worktrees>>
    BY <1>0, <1>2, <2>5 DEF WorkTypeOK, Mark
  <2> QED
    BY <2>1, <2>2, <2>3, <2>4, <2>5 DEF PrepareTreeFails
<1>6. WorkTypeOK'
  BY <1>0, <1>2, <1>3, <1>5 DEF WorkTypeOK
<1>7. FilesUnderWay'
  BY <1>2, <1>3, <1>4, <1>5, <1>e DEF FilesUnderWay
<1>8. op' # Free
  BY <1>4, OpShapes
<1> QED
  BY <1>1, <1>3, <1>4, <1>5, <1>6, <1>7, <1>8, FileStep

LEMMA AbandonKeeps ==
    ASSUME WorkspacesInv, Abandon
    PROVE  WorkspacesInv'
<1>0. WorkspacesTypeOK /\ WorkTypeOK /\ FilesUnderWay
  BY DEF WorkspacesInv, WorkspacesTypeOK, WorkInv
<1>1. op \in FileOps /\ op.step = "abandon"
  BY <1>0, OpSteps DEF Abandon, FileSteps
<1>2. /\ op.task \in Tasks
      /\ op.kind = "isolated_copy" => op.task \notin worktrees
      /\ op.task \in worktrees => branches[op.task] # "none"
  BY <1>1, FileFacts
<1>3. UNCHANGED <<profileVars, git, rows, dirs, branches, worktrees>> /\ op' = Free
  BY DEF Abandon
<1>4. \/ artifacts' = artifacts \ {op.task} /\ incomplete' = incomplete
      \/ incomplete' = incomplete \cup {op.task} /\ artifacts' = artifacts
  BY DEF Abandon, Mark
<1>5. op.kind # "direct_original" => dirs[op.task] = "none" \/ op.task \in incomplete
  BY <1>0, <1>1 DEF FilesUnderWay, EmptySteps
<1>6. WorkTypeOK' /\ incomplete \subseteq incomplete'
  BY <1>0, <1>2, <1>3, <1>4 DEF WorkTypeOK
<1>7. FilesUnderWay'
  BY <1>3, OpShapes DEF FilesUnderWay
<1>8. \A u \in Tasks \ {op.task} : u \in artifacts <=> u \in artifacts'
  BY <1>4
<1>9. op.task \notin incomplete' =>
               /\ op.task \notin artifacts'
               /\ op.kind # "direct_original" => dirs'[op.task] = "none"
  BY <1>3, <1>4, <1>5
<1> QED
  BY <1>1, <1>2, <1>3, <1>6, <1>7, <1>8, <1>9, FileStep

\* The row appears when everything it names is there.
LEMMA PersistKeeps ==
    ASSUME WorkspacesInv, PersistTask
    PROVE  WorkspacesInv'
<1>0. WorkspacesTypeOK /\ WorkTypeOK /\ FilesUnderWay
  BY DEF WorkspacesInv, WorkspacesTypeOK, WorkInv
<1>1. op \in FileOps /\ op.step = "persist"
  BY <1>0, OpSteps DEF PersistTask, FileSteps
<1>t. PICK t \in Tasks : t = op.task
  BY <1>1, FileFacts
<1>2. /\ t = op.task /\ op.kind \in WorkspaceKinds /\ op.branch \in BOOLEAN
      /\ op.kind = "isolated_copy" => t \notin worktrees
      /\ t \in worktrees => branches[t] # "none"
      /\ op \in FileOps \cup TreeOps
  BY <1>1, <1>t, FileFacts
<1>3. UNCHANGED <<profileVars, git, dirs, branches, worktrees, artifacts, incomplete>> /\ op' = Free
  BY DEF PersistTask
<1>4. /\ rows'[t].state = "listed" /\ rows'[t].kind = op.kind
      /\ rows'[t].path = TRUE
      /\ \A u \in Tasks \ {t} : rows'[u] = rows[u]
      /\ rows' \in [Tasks -> TaskRows]
  BY <1>0, <1>2 DEF PersistTask, WorkTypeOK, Row, TaskRows
<1>5. WorkTypeOK'
  BY <1>0, <1>3, <1>4 DEF WorkTypeOK
<1>6. FilesUnderWay' /\ TreeUnderWay' /\ op' \notin FileOps \cup TreeOps
  BY <1>3, OpShapes DEF FilesUnderWay, TreeUnderWay
<1>7. /\ t \in artifacts
      /\ op.kind # "direct_original" => dirs[t] # "none"
  BY <1>0, <1>1, <1>2 DEF FilesUnderWay
<1>8. t \notin incomplete' => ListedAgrees(t)' /\ GoneAgrees(t)'
  BY <1>3, <1>4, <1>7 DEF ListedAgrees, GoneAgrees, Listed
<1>9. TreeAgrees(t)'
  BY <1>2, <1>3, <1>4, <1>7 DEF TreeAgrees, Listed, WorkspaceKinds, GitKinds
<1>10. /\ op' \in {Free} \cup FileOps \cup TreeOps
       /\ \A u \in Tasks \ {t} :
               /\ rows'[u] = rows[u] /\ dirs'[u] = dirs[u]
               /\ u \in artifacts <=> u \in artifacts'
               /\ u \in worktrees' => u \in worktrees /\ branches'[u] = branches[u]
  BY <1>3, <1>4
<1> QED
  BY <1>2, <1>3, <1>5, <1>6, <1>8, <1>9, <1>10, OneTask

LEMMA PersistFailsKeeps ==
    ASSUME WorkspacesInv, PersistTaskFails
    PROVE  WorkspacesInv'
<1>0. WorkspacesTypeOK /\ WorkTypeOK /\ FilesUnderWay
  BY DEF WorkspacesInv, WorkspacesTypeOK, WorkInv
<1>1. op \in FileOps /\ op.step = "persist"
  BY <1>0, OpSteps DEF PersistTaskFails, FileSteps
<1>2. /\ op.task \in Tasks /\ rows[op.task].state = "gone" /\ rows[op.task].kind = op.kind
      /\ op.kind = "isolated_copy" => op.task \notin worktrees
      /\ op.task \in worktrees => branches[op.task] # "none"
  BY <1>1, FileFacts
<1>3. UNCHANGED <<profileVars, workVars, incomplete>>
  BY DEF PersistTaskFails
<1>4. op' \in FileOps /\ op'.task = op.task /\ op'.kind = op.kind /\ op'.step = "undoTree"
  BY <1>0, <1>1, NextFileStep DEF PersistTaskFails, FileSteps
<1>5. WorkTypeOK' /\ incomplete \subseteq incomplete'
  BY <1>0, <1>2, <1>3 DEF WorkTypeOK, workVars
<1>p. op.path /\ op'.path = op.path
  BY <1>0, <1>1 DEF FilesUnderWay, PersistTaskFails, Then, FileOps
<1>6. FilesUnderWay'
  BY <1>2, <1>3, <1>4, <1>p DEF FilesUnderWay, workVars, EmptySteps
<1>7. op' # Free
  BY <1>4, OpShapes
<1> QED
  BY <1>1, <1>2, <1>3, <1>4, <1>5, <1>6, <1>7, FileStep DEF workVars

-----------------------------------------------------------------------------
(* The steps of a deletion, which a creation that failed takes too.        *)

LEMMA DeleteTaskKeeps ==
    ASSUME WorkspacesInv, NEW t \in Tasks, NEW init \in BOOLEAN, DeleteTask(t, init)
    PROVE  WorkspacesInv'
<1>0. /\ WorkspacesTypeOK /\ WorkTypeOK /\ TreeAgrees(t)
      /\ t \notin incomplete => ListedAgrees(t)
  BY DEF WorkspacesInv, WorkspacesTypeOK, WorkInv
<1>1. op = Free /\ op \notin FileOps \cup TreeOps
  BY <1>0, OpSteps DEF DeleteTask
<1>2. /\ rows[t].state = "listed" /\ rows[t].kind \in WorkspaceKinds
      /\ rows[t].path \in BOOLEAN /\ rows[t].branch \in BOOLEAN
  BY <1>0 DEF DeleteTask, Listed, WorkTypeOK, TaskRows, TreeAgrees
<1>3. /\ op' \in FileOps /\ op'.task = t /\ op'.kind = rows[t].kind /\ op'.step = "undoTree"
      /\ op'.path = rows[t].path
  <2> DEFINE alsoGit == init /\ rows[t].kind = "git_initialized_worktree"
  <2>1. alsoGit \in BOOLEAN
    OBVIOUS
  <2>2. op' = [step |-> "undoTree", task |-> t, kind |-> rows[t].kind, path |-> rows[t].path,
               branch |-> rows[t].branch, init |-> alsoGit]
    BY DEF DeleteTask
  <2> HIDE DEF alsoGit
  <2> QED
    BY <1>2, <2>1, <2>2 DEF FileOps, FileSteps
<1>4. op' \notin TreeOps
  BY <1>3, OpShapes
<1>5. /\ rows'[t].state = "gone" /\ rows'[t].kind = rows[t].kind
      /\ \A u \in Tasks \ {t} : rows'[u] = rows[u]
      /\ rows' \in [Tasks -> TaskRows]
  BY <1>0, <1>2 DEF DeleteTask, WorkTypeOK, Row, TaskRows
<1>6. UNCHANGED <<profileVars, git, dirs, branches, worktrees, artifacts, incomplete>>
  BY DEF DeleteTask
<1>7. WorkTypeOK'
  BY <1>0, <1>5, <1>6 DEF WorkTypeOK
<1>8. TreeAgrees(t)' /\ ListedAgrees(t)' /\ GoneAgrees(t)'
  BY <1>0, <1>2, <1>3, <1>5, <1>6 DEF TreeAgrees, ListedAgrees, GoneAgrees, Listed, WorkspaceKinds,
                                      GitKinds
<1>9. rows[t].kind # "direct_original" /\ t \notin incomplete => (rows[t].path <=> dirs[t] # "none")
  BY <1>0, <1>1, <1>2 DEF ListedAgrees, Listed
<1>10. FilesUnderWay' /\ TreeUnderWay'
  BY <1>3, <1>4, <1>5, <1>6, <1>9 DEF FilesUnderWay, TreeUnderWay, EmptySteps
<1>11. /\ op' \in {Free} \cup FileOps \cup TreeOps /\ incomplete \subseteq incomplete'
       /\ UNCHANGED profileVars
  BY <1>3, <1>6
<1>12. \A u \in Tasks \ {t} :
               /\ rows'[u] = rows[u] /\ dirs'[u] = dirs[u]
               /\ u \in artifacts <=> u \in artifacts'
               /\ u \in worktrees' => u \in worktrees /\ branches'[u] = branches[u]
  BY <1>5, <1>6
<1> QED
  BY <1>1, <1>3, <1>7, <1>8, <1>10, <1>11, <1>12, OneTask

LEMMA UndoTreeKeeps ==
    ASSUME WorkspacesInv, UndoTree
    PROVE  WorkspacesInv'
<1>0. WorkspacesTypeOK /\ WorkTypeOK /\ FilesUnderWay
  BY DEF WorkspacesInv, WorkspacesTypeOK, WorkInv
<1>1. op \in FileOps /\ op.step = "undoTree"
  BY <1>0, OpSteps DEF UndoTree, FileSteps
<1>2. /\ op.task \in Tasks /\ rows[op.task].state = "gone" /\ rows[op.task].kind = op.kind
      /\ op.kind = "isolated_copy" => op.task \notin worktrees
      /\ op.task \in worktrees => branches[op.task] # "none"
  BY <1>1, FileFacts
<1>3. UNCHANGED <<profileVars, git, rows, branches, artifacts>>
  BY DEF UndoTree
<1>4. Then("undoBranch") \/ (Then("dropTree") /\ op.kind \in GitKinds)
  BY DEF UndoTree
<1>n. /\ op' \in FileOps /\ op'.task = op.task /\ op'.kind = op.kind
      /\ \/ op'.step = "undoBranch" /\ Then("undoBranch")
         \/ op'.step = "dropTree" /\ op.kind \in GitKinds
  <2>1. "undoBranch" \in FileSteps /\ "dropTree" \in FileSteps
    BY DEF FileSteps
  <2> QED
    BY <1>0, <1>1, <1>4, <2>1, NextFileStep
<1>5. /\ dirs' \in [Tasks -> {"none", "clean", "dirty"}]
      /\ worktrees' \subseteq worktrees
      /\ \A u \in Tasks \ {op.task} : dirs'[u] = dirs[u]
      /\ incomplete \subseteq incomplete' /\ incomplete' \subseteq Tasks
      /\ op'.step = "undoBranch" /\ op.kind # "direct_original"
           => dirs'[op.task] = "none" \/ op.task \in incomplete'
  <2>1. CASE DropTree(op.task) /\ UNCHANGED incomplete
    BY <1>0, <1>2, <2>1, TreeDropped DEF WorkTypeOK
  <2>2. CASE ~TreeToUndo /\ UNCHANGED <<dirs, worktrees, incomplete>>
    <3>1. op.kind # "direct_original" => ~op.path \/ dirs[op.task] = "none"
      BY <2>2 DEF TreeToUndo
    <3>2. op.kind # "direct_original" /\ ~op.path => dirs[op.task] = "none" \/ op.task \in incomplete
      BY <1>0, <1>1 DEF FilesUnderWay
    <3> QED
      BY <1>0, <2>2, <3>1, <3>2 DEF WorkTypeOK
  <2>3. CASE Mark(op.task) /\ UNCHANGED <<dirs, worktrees>>
    BY <1>0, <1>2, <2>3 DEF WorkTypeOK, Mark
  <2>4. CASE Then("dropTree") /\ UNCHANGED <<dirs, worktrees, incomplete>>
    <3>1. op'.step # "undoBranch"
      BY <1>0, <1>1, <2>4, NextFileStep DEF FileSteps
    <3> QED
      BY <1>0, <2>4, <3>1 DEF WorkTypeOK
  <2> QED
    BY <2>1, <2>2, <2>3, <2>4 DEF UndoTree
<1>6. WorkTypeOK'
  BY <1>0, <1>3, <1>5 DEF WorkTypeOK
<1>7. FilesUnderWay'
  BY <1>2, <1>3, <1>n, <1>5 DEF FilesUnderWay, EmptySteps
<1>8. op' # Free
  BY <1>n, OpShapes
<1> QED
  BY <1>1, <1>2, <1>3, <1>n, <1>5, <1>6, <1>7, <1>8, FileStep

LEMMA UndoBranchKeeps ==
    ASSUME WorkspacesInv, UndoBranch
    PROVE  WorkspacesInv'
<1>0. WorkspacesTypeOK /\ WorkTypeOK /\ FilesUnderWay
  BY DEF WorkspacesInv, WorkspacesTypeOK, WorkInv
<1>1. op \in FileOps /\ op.step = "undoBranch"
  BY <1>0, OpSteps DEF UndoBranch, FileSteps
<1>2. /\ op.task \in Tasks /\ rows[op.task].state = "gone" /\ rows[op.task].kind = op.kind
      /\ op.kind = "isolated_copy" => op.task \notin worktrees
      /\ op.task \in worktrees => branches[op.task] # "none"
  BY <1>1, FileFacts
<1>3. UNCHANGED <<profileVars, git, rows, dirs, worktrees, artifacts>>
  BY DEF UndoBranch
<1>4. /\ op' \in FileOps /\ op'.task = op.task /\ op'.kind = op.kind
      /\ op'.step \in {"undoGit", "undoFiles"}
  <2> DEFINE step == IF op.init THEN "undoGit" ELSE "undoFiles"
  <2>1. step \in FileSteps /\ step \in {"undoGit", "undoFiles"} /\ Then(step)
    BY DEF UndoBranch, FileSteps
  <2> HIDE DEF step
  <2> QED
    BY <1>0, <1>1, <2>1, NextFileStep
<1>5. /\ branches' \in [Tasks -> {"none", "base", "commits"}]
      /\ incomplete \subseteq incomplete' /\ incomplete' \subseteq Tasks
      /\ \A u \in Tasks : u \in worktrees => branches'[u] = branches[u]
  <2>1. CASE /\ op.task \notin worktrees /\ branches' = [branches EXCEPT ![op.task] = "none"]
             /\ UNCHANGED incomplete
    BY <1>0, <1>2, <2>1 DEF WorkTypeOK
  <2>2. CASE UNCHANGED <<branches, incomplete>>
    BY <1>0, <2>2 DEF WorkTypeOK
  <2>3. CASE Mark(op.task) /\ UNCHANGED branches
    BY <1>0, <1>2, <2>3 DEF WorkTypeOK, Mark
  <2> QED
    BY <2>1, <2>2, <2>3 DEF UndoBranch
<1>6. WorkTypeOK'
  BY <1>0, <1>3, <1>5 DEF WorkTypeOK
<1>7. op.kind # "direct_original" => dirs[op.task] = "none" \/ op.task \in incomplete
  BY <1>0, <1>1 DEF FilesUnderWay, EmptySteps
<1>8. FilesUnderWay'
  BY <1>2, <1>3, <1>4, <1>5, <1>7 DEF FilesUnderWay
<1>9. op' # Free
  BY <1>4, OpShapes
<1> QED
  BY <1>1, <1>2, <1>3, <1>4, <1>5, <1>6, <1>8, <1>9, FileStep

LEMMA UndoGitKeeps ==
    ASSUME WorkspacesInv, UndoGit
    PROVE  WorkspacesInv'
<1>0. WorkspacesTypeOK /\ WorkTypeOK /\ FilesUnderWay
  BY DEF WorkspacesInv, WorkspacesTypeOK, WorkInv
<1>1. op \in FileOps /\ op.step = "undoGit"
  BY <1>0, OpSteps DEF UndoGit, FileSteps
<1>2. /\ op.task \in Tasks /\ rows[op.task].state = "gone" /\ rows[op.task].kind = op.kind
      /\ op.kind = "isolated_copy" => op.task \notin worktrees
      /\ op.task \in worktrees => branches[op.task] # "none"
  BY <1>1, FileFacts
<1>3. UNCHANGED <<profileVars, rows, dirs, artifacts>>
  BY DEF UndoGit
<1>4. op' \in FileOps /\ op'.task = op.task /\ op'.kind = op.kind /\ op'.step = "undoFiles"
  BY <1>0, <1>1, NextFileStep DEF UndoGit, FileSteps
<1>5. /\ branches' \in [Tasks -> {"none", "base", "commits"}]
      /\ git' \in {"none", "own", "ours"}
      /\ incomplete \subseteq incomplete' /\ incomplete' \subseteq Tasks
      /\ worktrees' \subseteq worktrees
      /\ \A u \in worktrees' : branches'[u] = branches[u]
  <2>1. CASE DropRepository /\ UNCHANGED incomplete
    BY <1>0, <2>1, RepositoryDropped DEF WorkTypeOK
  <2>2. CASE Mark(op.task) /\ UNCHANGED <<git, branches, worktrees>>
    BY <1>0, <1>2, <2>2 DEF WorkTypeOK, Mark
  <2> QED
    BY <2>1, <2>2 DEF UndoGit
<1>6. WorkTypeOK'
  BY <1>0, <1>3, <1>5 DEF WorkTypeOK
<1>7. op.kind # "direct_original" => dirs[op.task] = "none" \/ op.task \in incomplete
  BY <1>0, <1>1 DEF FilesUnderWay, EmptySteps
<1>8. FilesUnderWay'
  BY <1>2, <1>3, <1>4, <1>5, <1>7 DEF FilesUnderWay
<1>9. op' # Free
  BY <1>4, OpShapes
<1> QED
  BY <1>1, <1>2, <1>3, <1>4, <1>5, <1>6, <1>8, <1>9, FileStep

LEMMA UndoFilesKeeps ==
    ASSUME WorkspacesInv, UndoFiles
    PROVE  WorkspacesInv'
<1>0. WorkspacesTypeOK /\ WorkTypeOK /\ FilesUnderWay
  BY DEF WorkspacesInv, WorkspacesTypeOK, WorkInv
<1>1. op \in FileOps /\ op.step = "undoFiles"
  BY <1>0, OpSteps DEF UndoFiles, FileSteps
<1>2. /\ op.task \in Tasks
      /\ op.kind = "isolated_copy" => op.task \notin worktrees
      /\ op.task \in worktrees => branches[op.task] # "none"
  BY <1>1, FileFacts
<1>3. UNCHANGED <<profileVars, git, rows, dirs, branches, worktrees>> /\ op' = Free
  BY DEF UndoFiles
<1>4. \/ artifacts' = artifacts \ {op.task} /\ incomplete' = incomplete
      \/ incomplete' = incomplete \cup {op.task} /\ artifacts' = artifacts
  BY DEF UndoFiles, Mark
<1>5. op.kind # "direct_original" => dirs[op.task] = "none" \/ op.task \in incomplete
  BY <1>0, <1>1 DEF FilesUnderWay, EmptySteps
<1>6. WorkTypeOK' /\ incomplete \subseteq incomplete'
  BY <1>0, <1>2, <1>3, <1>4 DEF WorkTypeOK
<1>7. FilesUnderWay'
  BY <1>3, OpShapes DEF FilesUnderWay
<1>8. \A u \in Tasks \ {op.task} : u \in artifacts <=> u \in artifacts'
  BY <1>4
<1>9. op.task \notin incomplete' =>
               /\ op.task \notin artifacts'
               /\ op.kind # "direct_original" => dirs'[op.task] = "none"
  BY <1>3, <1>4, <1>5
<1> QED
  BY <1>1, <1>2, <1>3, <1>6, <1>7, <1>8, <1>9, FileStep

-----------------------------------------------------------------------------
(* Worktrees of tasks that have a row.                                     *)

\* The beginning of a command on the worktree of a listed task.
LEMMA TreeBegins ==
    ASSUME WorkspacesInv, NEW t \in Tasks, UiFree, Listed(t),
           NEW step \in {"meta", "dropCleanup", "clear"},
           op' = [step |-> step, task |-> t],
           UNCHANGED <<profileVars, git, rows, artifacts, incomplete>>,
           dirs' \in [Tasks -> {"none", "clean", "dirty"}],
           branches' \in [Tasks -> {"none", "base", "commits"}],
           worktrees' \subseteq Tasks,
           \A u \in Tasks \ {t} : /\ dirs'[u] = dirs[u] /\ branches'[u] = branches[u]
                                  /\ u \in worktrees' <=> u \in worktrees,
           step = "meta" => dirs'[t] # "none" /\ dirs[t] = "none",
           step = "dropCleanup" => /\ dirs'[t] # "none" /\ dirs' = dirs
                                   /\ t \in worktrees' /\ t \in worktrees /\ rows[t].path,
           step = "clear" => /\ dirs'[t] = "none" /\ dirs[t] = "none"
                             /\ (t \in worktrees' => t \in worktrees),
           t \in worktrees' => branches'[t] # "none"
    PROVE  WorkspacesInv'
<1>0. /\ WorkspacesTypeOK /\ WorkTypeOK /\ TreeAgrees(t)
      /\ t \notin incomplete => ListedAgrees(t)
  BY DEF WorkspacesInv, WorkspacesTypeOK, WorkInv
<1>1. op = Free /\ op \notin FileOps \cup TreeOps
  BY <1>0, OpSteps
<1>2. op' \in TreeOps /\ op'.step = step /\ op'.task = t
  BY DEF TreeOps, TreeSteps
<1>3. op' \notin FileOps
  BY <1>2, OpShapes
<1>4. WorkTypeOK'
  BY <1>0 DEF WorkTypeOK
<1>5. Listed(t)'
  BY DEF Listed
<1>6. FilesUnderWay' /\ TreeUnderWay'
  <2>1. Listed(op.task)'
    BY <1>2 DEF Listed
  <2>2. step = "meta" => \/ ~rows[t].path \/ t \in incomplete
                         \/ rows[t].kind = "direct_original"
    BY <1>0, <1>1 DEF ListedAgrees
  <2> QED
    BY <1>2, <1>3, <2>1, <2>2 DEF FilesUnderWay, TreeUnderWay
<1>7. t \notin incomplete' => ListedAgrees(t)' /\ GoneAgrees(t)'
  BY <1>0, <1>2, <1>5 DEF ListedAgrees, GoneAgrees, Listed
<1>8. rows[t].kind # "isolated_copy"
  BY <1>0 DEF TreeAgrees
<1>9. TreeAgrees(t)'
  BY <1>0, <1>8 DEF TreeAgrees, Listed
<1>10. \A u \in Tasks \ {t} :
               /\ rows'[u] = rows[u] /\ dirs'[u] = dirs[u]
               /\ u \in artifacts <=> u \in artifacts'
               /\ u \in worktrees' => u \in worktrees /\ branches'[u] = branches[u]
  OBVIOUS
<1>11. incomplete \subseteq incomplete' /\ op' \in {Free} \cup FileOps \cup TreeOps
  BY <1>2
<1> QED
  BY <1>1, <1>2, <1>4, <1>6, <1>7, <1>9, <1>10, <1>11, OneTask

LEMMA CreateWorktreeKeeps ==
    ASSUME WorkspacesInv, NEW t \in Tasks, CreateTaskWorktree(t)
    PROVE  WorkspacesInv'
<1>1. WorkTypeOK /\ TreeAgrees(t) /\ UiFree /\ Listed(t) /\ AddTree(t)
  BY DEF WorkspacesInv, WorkspacesTypeOK, WorkInv, CreateTaskWorktree
<1>2. /\ op' = [step |-> "meta", task |-> t]
      /\ UNCHANGED <<profileVars, git, rows, artifacts, incomplete>>
  BY DEF CreateTaskWorktree
<1>3. t \in worktrees' => branches'[t] # "none"
  BY <1>1, TreeAdded DEF TreeAgrees
<1> QED
  BY <1>1, <1>2, <1>3, TreeAdded, TreeBegins

LEMMA WorktreeCleanupKeeps ==
    ASSUME WorkspacesInv, NEW t \in Tasks, CleanupWorktree(t)
    PROVE  WorkspacesInv'
<1>1. WorkTypeOK /\ TreeAgrees(t) /\ UiFree /\ Listed(t) /\ rows[t].path
  BY DEF WorkspacesInv, WorkspacesTypeOK, WorkInv, CleanupWorktree
<1>2. UNCHANGED <<profileVars, git, rows, dirs, branches, worktrees, artifacts, incomplete>>
  BY DEF CleanupWorktree, workVars
<1>3. t \in worktrees => branches[t] # "none"
  BY <1>1 DEF TreeAgrees
<1>4. /\ dirs' \in [Tasks -> {"none", "clean", "dirty"}]
      /\ branches' \in [Tasks -> {"none", "base", "commits"}] /\ worktrees' \subseteq Tasks
  BY <1>1, <1>2 DEF WorkTypeOK
<1>5. CASE dirs[t] = "none" /\ op' = [step |-> "clear", task |-> t]
  BY <1>1, <1>2, <1>3, <1>4, <1>5, TreeBegins
<1>6. CASE Removable(t) /\ op' = [step |-> "dropCleanup", task |-> t]
  <2>1. t \in worktrees /\ dirs[t] # "none"
    BY <1>6 DEF Removable
  <2> QED
    BY <1>1, <1>2, <1>3, <1>4, <1>6, <2>1, TreeBegins
<1> QED
  BY <1>5, <1>6 DEF CleanupWorktree

\* What is known of the worktree under way.
LEMMA TreeFacts ==
    ASSUME WorkspacesInv, op \in TreeOps
    PROVE  /\ op.task \in Tasks /\ op \notin FileOps
           /\ rows[op.task].state = "listed" /\ TreeAgrees(op.task)
           /\ op.step \in {"meta", "dropCleanup"} => dirs[op.task] # "none"
           /\ op.step \in {"meta", "undoMeta", "dropMeta"}
                => \/ ~rows[op.task].path \/ op.task \in incomplete
                   \/ rows[op.task].kind = "direct_original"
           /\ op.step = "dropCleanup" => rows[op.task].path
           /\ op.step \in {"dropMeta", "dropCleanup"} => op.task \in worktrees
           /\ op.step = "clear" => dirs[op.task] = "none"
<1>1. op.task \in Tasks /\ op \notin FileOps
  BY OpShapes
<1>2. PICK t \in Tasks : t = op.task
  BY <1>1
<1>3. TreeUnderWay /\ TreeAgrees(t)
  BY DEF WorkspacesInv, WorkInv
<1> QED
  BY <1>1, <1>2, <1>3 DEF TreeUnderWay, Listed

\* One step of such a command that leaves the row alone.
LEMMA TreeStep ==
    ASSUME WorkspacesInv, op \in TreeOps, op' \in TreeOps, op'.task = op.task,
           UNCHANGED <<profileVars, git, rows, branches, artifacts, incomplete>>,
           dirs' \in [Tasks -> {"none", "clean", "dirty"}], worktrees' \subseteq worktrees,
           \A u \in Tasks \ {op.task} : dirs'[u] = dirs[u],
           dirs'[op.task] = dirs[op.task] \/ op.task \in worktrees,
           TreeUnderWay'
    PROVE  WorkspacesInv'
<1>1. PICK t \in Tasks : t = op.task
  BY TreeFacts
<1>2. TreeAgrees(t) /\ rows[t].state = "listed"
  BY <1>1, TreeFacts
<1>3. WorkTypeOK'
  BY DEF WorkspacesInv, WorkspacesTypeOK, WorkTypeOK
<1>4. op' \notin FileOps /\ FilesUnderWay'
  BY OpShapes DEF FilesUnderWay
<1>5. t \notin incomplete' => ListedAgrees(t)' /\ GoneAgrees(t)'
  BY <1>1, <1>2 DEF ListedAgrees, GoneAgrees, Listed
<1>6. TreeAgrees(t)'
  BY <1>1, <1>2 DEF TreeAgrees, Listed
<1>7. \A u \in Tasks \ {t} :
               /\ rows'[u] = rows[u] /\ dirs'[u] = dirs[u]
               /\ u \in artifacts <=> u \in artifacts'
               /\ u \in worktrees' => u \in worktrees /\ branches'[u] = branches[u]
  BY <1>1
<1>8. op' \in {Free} \cup FileOps \cup TreeOps /\ op'.task = t
  BY <1>1
<1> QED
  BY <1>1, <1>3, <1>4, <1>5, <1>6, <1>7, <1>8, OneTask

\* The end of such a command: the row names a directory exactly when there is
\* one, or the operation is incomplete.
LEMMA TreeEnds ==
    ASSUME WorkspacesInv, op \in TreeOps, op' = Free,
           UNCHANGED <<profileVars, git, branches, artifacts>>,
           incomplete \subseteq incomplete', incomplete' \subseteq Tasks,
           rows' \in [Tasks -> TaskRows],
           rows'[op.task].state = "listed", rows'[op.task].kind = rows[op.task].kind,
           dirs' \in [Tasks -> {"none", "clean", "dirty"}], worktrees' \subseteq worktrees,
           \A u \in Tasks \ {op.task} : rows'[u] = rows[u] /\ dirs'[u] = dirs[u],
           dirs'[op.task] = dirs[op.task] \/ op.task \in worktrees,
           op.task \notin incomplete' /\ rows[op.task].kind # "direct_original"
             => (rows'[op.task].path <=> dirs'[op.task] # "none")
    PROVE  WorkspacesInv'
<1>1. PICK t \in Tasks : t = op.task
  BY TreeFacts
<1>2. TreeAgrees(t) /\ rows[t].state = "listed"
  BY <1>1, TreeFacts
<1>3. WorkTypeOK'
  BY DEF WorkspacesInv, WorkspacesTypeOK, WorkTypeOK
<1>4. FilesUnderWay' /\ TreeUnderWay' /\ op' \notin FileOps \cup TreeOps
  BY OpShapes DEF FilesUnderWay, TreeUnderWay
<1>5. t \notin incomplete' => ListedAgrees(t)' /\ GoneAgrees(t)'
  BY <1>1, <1>2 DEF ListedAgrees, GoneAgrees, Listed
<1>6. TreeAgrees(t)'
  BY <1>1, <1>2 DEF TreeAgrees, Listed
<1>7. \A u \in Tasks \ {t} :
               /\ rows'[u] = rows[u] /\ dirs'[u] = dirs[u]
               /\ u \in artifacts <=> u \in artifacts'
               /\ u \in worktrees' => u \in worktrees /\ branches'[u] = branches[u]
  BY <1>1
<1>8. op' \in {Free} \cup FileOps \cup TreeOps
  OBVIOUS
<1> QED
  BY <1>1, <1>3, <1>4, <1>5, <1>6, <1>7, <1>8, OneTask

LEMMA MetaKeeps ==
    ASSUME WorkspacesInv, PersistWorktree
    PROVE  WorkspacesInv'
<1>0. WorkspacesTypeOK /\ WorkTypeOK
  BY DEF WorkspacesInv, WorkspacesTypeOK
<1>1. op \in TreeOps /\ op.step = "meta"
  BY <1>0, OpSteps DEF PersistWorktree, TreeSteps
<1>2. op.task \in Tasks /\ rows[op.task].state = "listed" /\ dirs[op.task] # "none"
  BY <1>1, TreeFacts
<1>3. /\ UNCHANGED <<profileVars, git, dirs, branches, worktrees, artifacts, incomplete>> /\ op' = Free
      /\ rows' = [rows EXCEPT ![op.task] = [rows[op.task] EXCEPT !.path = TRUE, !.branch = TRUE]]
  BY DEF PersistWorktree
<1>4. rows[op.task] \in TaskRows
  BY <1>0, <1>2 DEF WorkTypeOK
<1>5. /\ rows'[op.task] = [rows[op.task] EXCEPT !.path = TRUE, !.branch = TRUE]
      /\ rows'[op.task] \in TaskRows
      /\ \A u \in Tasks \ {op.task} : rows'[u] = rows[u]
  BY <1>0, <1>2, <1>3, <1>4 DEF WorkTypeOK, TaskRows
<1>6. rows' \in [Tasks -> TaskRows]
  BY <1>0, <1>3, <1>5 DEF WorkTypeOK
<1>7. /\ rows'[op.task].state = "listed" /\ rows'[op.task].kind = rows[op.task].kind
      /\ rows'[op.task].path = TRUE
  BY <1>2, <1>4, <1>5 DEF TaskRows
<1>8. dirs' \in [Tasks -> {"none", "clean", "dirty"}] /\ incomplete' \subseteq Tasks
  BY <1>0, <1>3 DEF WorkTypeOK
<1> QED
  BY <1>1, <1>2, <1>3, <1>5, <1>6, <1>7, <1>8, TreeEnds

\* The next step of a command on a worktree.
LEMMA NextTreeStep ==
    ASSUME op \in TreeOps, NEW step \in TreeSteps, Then(step)
    PROVE  op' \in TreeOps /\ op'.task = op.task /\ op'.step = step
BY DEF Then, TreeOps

LEMMA MetaFailsKeeps ==
    ASSUME WorkspacesInv, PersistWorktreeFails
    PROVE  WorkspacesInv'
<1>0. WorkspacesTypeOK /\ WorkTypeOK
  BY DEF WorkspacesInv, WorkspacesTypeOK
<1>1. op \in TreeOps /\ op.step = "meta"
  BY <1>0, OpSteps DEF PersistWorktreeFails, TreeSteps
<1>2. UNCHANGED <<profileVars, git, rows, dirs, branches, worktrees, artifacts, incomplete>>
  BY DEF PersistWorktreeFails, workVars
<1>3. op' \in TreeOps /\ op'.task = op.task /\ op'.step = "undoMeta"
  BY <1>1, NextTreeStep DEF PersistWorktreeFails, TreeSteps
<1>4. TreeUnderWay'
  BY <1>1, <1>2, <1>3, TreeFacts DEF TreeUnderWay, Listed
<1> QED
  BY <1>0, <1>1, <1>2, <1>3, <1>4, TreeStep DEF WorkTypeOK

LEMMA UndoWorktreeKeeps ==
    ASSUME WorkspacesInv, UndoWorktree
    PROVE  WorkspacesInv'
<1>0. WorkspacesTypeOK /\ WorkTypeOK
  BY DEF WorkspacesInv, WorkspacesTypeOK
<1>1. op \in TreeOps /\ op.step = "undoMeta"
  BY <1>0, OpSteps DEF UndoWorktree, TreeSteps
<1>2. op.task \in Tasks /\ rows[op.task].state = "listed"
  BY <1>1, TreeFacts
<1>3. UNCHANGED <<profileVars, git, rows, dirs, branches, worktrees, artifacts>>
  BY DEF UndoWorktree, workVars
<1>4. CASE Removable(op.task) /\ Then("dropMeta") /\ UNCHANGED incomplete
  <2>1. op' \in TreeOps /\ op'.task = op.task /\ op'.step = "dropMeta"
    BY <1>1, <1>4, NextTreeStep DEF TreeSteps
  <2>2. TreeUnderWay'
    BY <1>1, <1>3, <1>4, <2>1, TreeFacts DEF TreeUnderWay, Listed, Removable
  <2> QED
    BY <1>0, <1>1, <1>3, <1>4, <2>1, <2>2, TreeStep DEF WorkTypeOK
<1>5. CASE op' = Free /\ Mark(op.task)
  <2>1. incomplete \subseteq incomplete' /\ incomplete' \subseteq Tasks /\ op.task \in incomplete'
    BY <1>0, <1>2, <1>5 DEF Mark, WorkTypeOK
  <2> QED
    BY <1>0, <1>1, <1>2, <1>3, <1>5, <2>1, TreeEnds DEF WorkTypeOK
<1> QED
  BY <1>4, <1>5 DEF UndoWorktree

\* git removes the worktree that it has looked at, for a deletion, for a
\* creation that is taken back, or for a cleanup.
LEMMA RemoveWorktreeKeeps ==
    ASSUME WorkspacesInv, RemoveWorktree
    PROVE  WorkspacesInv'
<1>0. WorkspacesTypeOK /\ WorkTypeOK /\ FilesUnderWay
  BY DEF WorkspacesInv, WorkspacesTypeOK, WorkInv
<1>1. UNCHANGED <<profileVars, git, rows, branches, artifacts>>
  BY DEF RemoveWorktree
<1>2. CASE op.step = "dropTree"
  <2>1. op \in FileOps
    BY <1>0, <1>2, OpSteps DEF FileSteps
  <2>2. /\ op.task \in Tasks /\ rows[op.task].state = "gone" /\ rows[op.task].kind = op.kind
        /\ op.kind = "isolated_copy" => op.task \notin worktrees
        /\ op.task \in worktrees => branches[op.task] # "none"
    BY <2>1, FileFacts
  <2>3. Then("undoBranch")
    BY <1>2 DEF RemoveWorktree, AfterRemoval
  <2>4. op' \in FileOps /\ op'.task = op.task /\ op'.kind = op.kind /\ op'.step = "undoBranch"
    BY <1>0, <2>1, <2>3, NextFileStep DEF FileSteps
  <2>5. /\ dirs' \in [Tasks -> {"none", "clean", "dirty"}]
        /\ worktrees' \subseteq worktrees
        /\ \A u \in Tasks \ {op.task} : dirs'[u] = dirs[u]
        /\ incomplete \subseteq incomplete' /\ incomplete' \subseteq Tasks
        /\ dirs'[op.task] = "none" \/ op.task \in incomplete'
    <3>1. CASE DropTree(op.task) /\ UNCHANGED incomplete
      BY <1>0, <2>2, <3>1, TreeDropped DEF WorkTypeOK
    <3>2. CASE UNCHANGED <<dirs, worktrees>> /\ Mark(op.task)
      BY <1>0, <2>2, <3>2 DEF WorkTypeOK, Mark
    <3> QED
      BY <1>2, <3>1, <3>2 DEF RemoveWorktree
  <2>6. WorkTypeOK'
    BY <1>0, <1>1, <2>5 DEF WorkTypeOK
  <2>7. FilesUnderWay'
    BY <1>1, <2>2, <2>4, <2>5 DEF FilesUnderWay
  <2>8. op' # Free
    BY <2>4, OpShapes
  <2> QED
    BY <1>1, <2>1, <2>2, <2>4, <2>5, <2>6, <2>7, <2>8, FileStep
<1>3. CASE op.step \in {"dropMeta", "dropCleanup"}
  <2>1. op \in TreeOps
    BY <1>0, <1>3, OpSteps DEF TreeSteps
  <2>2. op.task \in Tasks /\ rows[op.task].state = "listed" /\ op.task \in worktrees
    BY <1>3, <2>1, TreeFacts
  <2>3. rows' \in [Tasks -> TaskRows] /\ \A u \in Tasks : rows'[u] = rows[u]
    BY <1>0, <1>1 DEF WorkTypeOK
  <2>4. CASE DropTree(op.task) /\ AfterRemoval(TRUE) /\ UNCHANGED incomplete
    <3>1. /\ dirs' \in [Tasks -> {"none", "clean", "dirty"}] /\ worktrees' \subseteq worktrees
          /\ \A u \in Tasks \ {op.task} : dirs'[u] = dirs[u]
          /\ dirs'[op.task] = "none" /\ incomplete' \subseteq Tasks
      BY <1>0, <2>2, <2>4, TreeDropped DEF WorkTypeOK
    <3>2. CASE op.step = "dropMeta"
      <4>1. op' = Free
        BY <2>4, <3>2 DEF AfterRemoval
      <4>2. \/ ~rows[op.task].path \/ op.task \in incomplete
            \/ rows[op.task].kind = "direct_original"
        BY <2>1, <3>2, TreeFacts
      <4> QED
        BY <1>1, <2>1, <2>2, <2>3, <2>4, <3>1, <4>1, <4>2, TreeEnds
    <3>3. CASE op.step = "dropCleanup"
      <4>1. op' \in TreeOps /\ op'.task = op.task /\ op'.step = "clear"
        BY <2>1, <2>4, <3>3, NextTreeStep DEF AfterRemoval, TreeSteps
      <4>2. TreeUnderWay'
        BY <2>2, <2>3, <3>1, <4>1 DEF TreeUnderWay, Listed
      <4> QED
        BY <1>1, <2>1, <2>2, <2>4, <3>1, <4>1, <4>2, TreeStep
    <3> QED
      BY <1>3, <3>2, <3>3
  <2>5. CASE /\ AfterRemoval(FALSE) /\ UNCHANGED <<dirs, worktrees>>
             /\ IF op.step = "dropCleanup" THEN UNCHANGED incomplete ELSE Mark(op.task)
    <3>1. op' = Free
      BY <1>3, <2>5 DEF AfterRemoval
    <3>2. incomplete \subseteq incomplete' /\ incomplete' \subseteq Tasks
      BY <1>0, <2>2, <2>5 DEF Mark, WorkTypeOK
    <3>3. op.task \notin incomplete' => op.step = "dropCleanup"
      BY <2>5 DEF Mark
    <3>4. op.task \notin incomplete' => (rows'[op.task].path <=> dirs'[op.task] # "none")
      BY <2>1, <2>2, <2>3, <2>5, <3>3, TreeFacts
    <3> QED
      BY <1>0, <1>1, <2>1, <2>2, <2>3, <2>5, <3>1, <3>2, <3>4, TreeEnds DEF WorkTypeOK
  <2> QED
    BY <2>4, <2>5 DEF RemoveWorktree
<1> QED
  BY <1>2, <1>3 DEF RemoveWorktree, Removals

LEMMA ClearKeeps ==
    ASSUME WorkspacesInv, ClearWorktree
    PROVE  WorkspacesInv'
<1>0. WorkspacesTypeOK /\ WorkTypeOK
  BY DEF WorkspacesInv, WorkspacesTypeOK
<1>1. op \in TreeOps /\ op.step = "clear"
  BY <1>0, OpSteps DEF ClearWorktree, TreeSteps
<1>2. op.task \in Tasks /\ rows[op.task].state = "listed" /\ dirs[op.task] = "none"
  BY <1>1, TreeFacts
<1>3. UNCHANGED <<profileVars, git, dirs, branches, worktrees, artifacts>> /\ op' = Free
  BY DEF ClearWorktree
<1>4. rows[op.task] \in TaskRows /\ dirs' \in [Tasks -> {"none", "clean", "dirty"}]
  BY <1>0, <1>2, <1>3 DEF WorkTypeOK
<1>5. CASE /\ rows' = [rows EXCEPT ![op.task] = [rows[op.task] EXCEPT !.path = FALSE, !.branch = FALSE]]
           /\ UNCHANGED incomplete
  <2>1. /\ rows'[op.task] = [rows[op.task] EXCEPT !.path = FALSE, !.branch = FALSE]
        /\ rows'[op.task] \in TaskRows
        /\ \A u \in Tasks \ {op.task} : rows'[u] = rows[u]
    BY <1>0, <1>2, <1>4, <1>5 DEF WorkTypeOK, TaskRows
  <2>2. rows' \in [Tasks -> TaskRows]
    BY <1>0, <1>5, <2>1 DEF WorkTypeOK
  <2>3. /\ rows'[op.task].state = "listed" /\ rows'[op.task].kind = rows[op.task].kind
        /\ rows'[op.task].path = FALSE
    BY <1>2, <1>4, <2>1 DEF TaskRows
  <2>4. incomplete' \subseteq Tasks /\ incomplete \subseteq incomplete'
    BY <1>0, <1>5 DEF WorkTypeOK
  <2> QED
    BY <1>1, <1>2, <1>3, <1>4, <2>1, <2>2, <2>3, <2>4, TreeEnds
<1>6. CASE Mark(op.task) /\ UNCHANGED rows
  <2>1. incomplete \subseteq incomplete' /\ incomplete' \subseteq Tasks /\ op.task \in incomplete'
    BY <1>0, <1>2, <1>6 DEF Mark, WorkTypeOK
  <2>2. rows' \in [Tasks -> TaskRows]
    BY <1>0, <1>6 DEF WorkTypeOK
  <2> QED
    BY <1>1, <1>2, <1>3, <1>4, <1>6, <2>1, <2>2, TreeEnds
<1> QED
  BY <1>5, <1>6 DEF ClearWorktree

-----------------------------------------------------------------------------
(* The Agent, the user and the application.                                *)

\* What is done inside directories and on branches makes and removes none.
LEMMA SameDirectories ==
    ASSUME WorkspacesInv, UNCHANGED <<op, profileVars, rows, worktrees, artifacts, incomplete>>,
           git' \in {"none", "own", "ours"},
           dirs' \in [Tasks -> {"none", "clean", "dirty"}],
           branches' \in [Tasks -> {"none", "base", "commits"}],
           \A u \in Tasks : /\ dirs'[u] = "none" <=> dirs[u] = "none"
                            /\ branches[u] # "none" => branches'[u] # "none"
    PROVE  WorkspacesInv'
<1>1. WorkspacesTypeOK /\ ProfilesInv /\ WorkInv
  BY DEF WorkspacesInv
<1>2. WorkspacesTypeOK'
  BY <1>1 DEF WorkspacesTypeOK, ProfilesTypeOK, WorkTypeOK, profileVars
<1>3. ProfilesInv'
  BY <1>1 DEF ProfilesInv, AtMostOneActive, Active, MemoryInv, AcceptedIsRemembered, Written,
              profileVars
<1>4. \A o \in FileOps \cup TreeOps : o.task \in Tasks
  BY OpShapes
<1>5. FilesUnderWay' /\ TreeUnderWay'
  BY <1>1, <1>4 DEF WorkInv, FilesUnderWay, TreeUnderWay, Listed
<1>6. \A u \in Tasks \ incomplete : ListedAgrees(u)' /\ GoneAgrees(u)'
  BY <1>1 DEF WorkInv, ListedAgrees, GoneAgrees, Listed
<1>7. \A u \in Tasks : TreeAgrees(u)'
  BY <1>1 DEF WorkInv, TreeAgrees, Listed
<1>8. WorkInv'
  BY <1>5, <1>6, <1>7 DEF WorkInv
<1> QED
  BY <1>2, <1>3, <1>8 DEF WorkspacesInv

LEMMA WorkingKeeps ==
    ASSUME WorkspacesInv, NEW t \in Tasks,
           Edit(t) \/ CommitWorktree(t) \/ CreateTaskBranch(t) \/ UserInitializesGit
    PROVE  WorkspacesInv'
<1>0. WorkTypeOK
  BY DEF WorkspacesInv, WorkspacesTypeOK
<1>1. CASE Edit(t)
  BY <1>0, <1>1, SameDirectories DEF Edit, WorkTypeOK
<1>2. CASE CommitWorktree(t)
  BY <1>0, <1>2, SameDirectories DEF CommitWorktree, WorkTypeOK
<1>3. CASE CreateTaskBranch(t)
  BY <1>0, <1>3, SameDirectories DEF CreateTaskBranch, WorkTypeOK
<1>4. CASE UserInitializesGit
  BY <1>0, <1>4, SameDirectories DEF UserInitializesGit, WorkTypeOK
<1> QED
  BY <1>1, <1>2, <1>3, <1>4

\* A restart cuts off what was under way, which is incomplete then.
LEMMA RestartKeeps ==
    ASSUME WorkspacesInv, ProfileAssumption, Restart
    PROVE  WorkspacesInv'
<1>0. /\ WorkspacesTypeOK /\ ProfilesTypeOK /\ WorkTypeOK /\ AtMostOneActive /\ MemoryInv
      /\ WorkInv
  BY DEF WorkspacesInv, WorkspacesTypeOK, ProfilesInv
<1>1. op' = Free /\ op' \notin FileOps \cup TreeOps /\ op'.step # "decide"
  BY OpShapes DEF Restart, Free
<1>2. UNCHANGED <<candidates, memories, workVars>> /\ profiles' = WithDefault
  BY DEF Restart
<1>3. /\ incomplete \subseteq incomplete' /\ incomplete' \subseteq Tasks
      /\ op \in FileOps \cup TreeOps => op.task \in incomplete'
  <2>1. CASE op \in FileOps \cup TreeOps
    BY <1>0, <2>1, OpShapes DEF Restart, WorkTypeOK
  <2>2. CASE op \notin FileOps \cup TreeOps
    BY <1>0, <2>2, OpShapes DEF Restart, WorkTypeOK, WorkspacesTypeOK
  <2> QED
    BY <2>1, <2>2
<1>4. profiles' \in [Profiles -> {"none", "active", "inactive"}] /\ AtMostOneActive'
  <2>1. CASE Active = {}
    BY <1>0, <1>2, <2>1, OnlyOneActive DEF WithDefault, ProfileAssumption
  <2>2. CASE Active # {}
    BY <1>0, <1>2, <2>2 DEF WithDefault, ProfilesTypeOK, AtMostOneActive, Active
  <2> QED
    BY <2>1, <2>2
<1>5. MemoryInv'
  BY <1>0, <1>1, <1>2, MemoryKept DEF Written
<1>6. WorkspacesTypeOK'
  BY <1>0, <1>1, <1>2, <1>3, <1>4 DEF WorkspacesTypeOK, ProfilesTypeOK, WorkTypeOK, workVars
<1>7. ASSUME NEW u \in Tasks \ incomplete' PROVE ListedAgrees(u)' /\ GoneAgrees(u)'
  <2>1. ListedAgrees(u) /\ GoneAgrees(u)
    BY <1>0, <1>3, <1>7 DEF WorkInv
  <2>2. ~(op \in FileOps /\ op.task = u) /\ ~(op \in TreeOps /\ op.task = u)
    BY <1>3, <1>7
  <2> QED
    BY <1>1, <1>2, <2>1, <2>2 DEF ListedAgrees, GoneAgrees, Listed, workVars
<1>8. \A u \in Tasks : TreeAgrees(u)'
  BY <1>0, <1>2 DEF WorkInv, TreeAgrees, Listed, workVars
<1>9. FilesUnderWay' /\ TreeUnderWay'
  BY <1>1 DEF FilesUnderWay, TreeUnderWay
<1>10. WorkInv'
  BY <1>7, <1>8, <1>9 DEF WorkInv
<1> QED
  BY <1>4, <1>5, <1>6, <1>10 DEF WorkspacesInv, ProfilesInv

LEMMA WorkspacesStutter == WorkspacesInv /\ UNCHANGED workspaceVars => WorkspacesInv'
<1> SUFFICES ASSUME WorkspacesInv, UNCHANGED workspaceVars PROVE WorkspacesInv'
  OBVIOUS
<1>1. UNCHANGED <<op, profileVars, workVars, incomplete>>
  BY DEF workspaceVars
<1>2. WorkTypeOK
  BY DEF WorkspacesInv, WorkspacesTypeOK
<1> QED
  BY <1>1, <1>2, SameDirectories DEF workVars, WorkTypeOK

LEMMA WorkspacesInductive ==
    ASSUME ProfileAssumption PROVE WorkspacesInv /\ [WorkspacesNext]_workspaceVars => WorkspacesInv'
<1> SUFFICES ASSUME WorkspacesInv, [WorkspacesNext]_workspaceVars PROVE WorkspacesInv'
  OBVIOUS
<1>1. CASE ProfilesNext /\ UNCHANGED <<workVars, incomplete>>
  BY <1>1, SavingKeepsWork
<1>2. CASE Create
  BY <1>2, CreateTaskKeeps, InitializeKeeps, PrepareKeeps, PrepareFailsKeeps, AbandonKeeps,
     PersistKeeps, PersistFailsKeeps DEF Create
<1>3. CASE Delete
  BY <1>3, DeleteTaskKeeps, UndoTreeKeeps, UndoBranchKeeps, UndoGitKeeps, UndoFilesKeeps,
     RemoveWorktreeKeeps DEF Delete
<1>4. CASE Worktree
  BY <1>4, WorkingKeeps, CreateWorktreeKeeps, WorktreeCleanupKeeps, MetaKeeps, MetaFailsKeeps,
     UndoWorktreeKeeps, ClearKeeps DEF Worktree
<1>5. CASE \E t \in Tasks : Edit(t)
  BY <1>5, WorkingKeeps
<1>6. CASE UserInitializesGit
  <2>1. WorkTypeOK
    BY DEF WorkspacesInv, WorkspacesTypeOK
  <2> QED
    BY <1>6, <2>1, SameDirectories DEF UserInitializesGit, WorkTypeOK
<1>7. CASE Restart
  BY <1>7, RestartKeeps
<1>8. CASE UNCHANGED workspaceVars
  BY <1>8, WorkspacesStutter
<1> QED
  BY <1>1, <1>2, <1>3, <1>4, <1>5, <1>6, <1>7, <1>8 DEF WorkspacesNext

-----------------------------------------------------------------------------
(* Theorems.                                                               *)

LEMMA WorkspacesAlways == WorkspacesSpec => []WorkspacesInv
<1>1. WorkspacesInit => WorkspacesInv
  BY WorkspacesInit_Inv, ProfileAssumption
<1>2. WorkspacesInv /\ [WorkspacesNext]_workspaceVars => WorkspacesInv'
  BY WorkspacesInductive, ProfileAssumption
<1> QED
  BY <1>1, <1>2, PTL DEF WorkspacesSpec

\* Every variable keeps its type: what is under way has the fields of its step.
THEOREM WorkspacesTyped == WorkspacesSpec => []WorkspacesTypeOK
<1>1. WorkspacesInv => WorkspacesTypeOK
  BY DEF WorkspacesInv
<1> QED
  BY <1>1, WorkspacesAlways, PTL

\* Two profiles are never active at once, whichever of the statements that save
\* one and activate it is the last (personal_profile_create, _update, _activate).
THEOREM OneProfileActive == WorkspacesSpec => []AtMostOneActive
<1>1. WorkspacesInv => AtMostOneActive
  BY DEF WorkspacesInv, ProfilesInv
<1> QED
  BY <1>1, WorkspacesAlways, PTL

\* A candidate that was accepted names a value that was written for it: the
\* value goes first, so a decision that is cut off leaves a value, never a
\* candidate without one (preference_candidate_decide).
THEOREM AcceptedHasValue == WorkspacesSpec => []AcceptedIsRemembered
<1>1. WorkspacesInv => AcceptedIsRemembered
  BY DEF WorkspacesInv, ProfilesInv, MemoryInv
<1> QED
  BY <1>1, WorkspacesAlways, PTL

\* A listed task has its artifacts wherever an operation failed or stopped, for
\* its row goes before its files and comes after them; and it has the directory
\* that its row names unless a step that settles the two has failed, as when a
\* cleanup could not clear the row (create_task_record, delete_task_record and
\* the commands on worktrees).
THEOREM ListedTasksHaveFiles == WorkspacesSpec => []ListedHasFiles
<1>1. ASSUME WorkspacesInv PROVE ListedHasFiles
  <2>1. ASSUME NEW t \in Tasks, Listed(t) PROVE t \in artifacts
    BY <1>1, <2>1 DEF WorkspacesInv, WorkInv, TreeAgrees
  <2>2. ASSUME NEW t \in Tasks, Listed(t), rows[t].path, rows[t].kind # "direct_original",
               ~Busy(t), t \notin incomplete
        PROVE  dirs[t] # "none"
    <3>1. ~(op \in TreeOps /\ op.task = t)
      BY <2>2, OpShapes DEF Busy
    <3> QED
      BY <1>1, <2>2, <3>1 DEF WorkspacesInv, WorkInv, ListedAgrees
  <2> QED
    BY <2>1, <2>2 DEF ListedHasFiles
<1> QED
  BY <1>1, WorkspacesAlways, PTL

\* Of a task that is deleted or could not be created neither a directory nor
\* artifacts are left, unless a step that removes or takes them back failed or was
\* cut off: what fails in a creation is taken back (rollback_created_task_files).
THEOREM NoOrphans == WorkspacesSpec => []NoSilentOrphans
<1>1. ASSUME WorkspacesInv PROVE NoSilentOrphans
  <2>1. ASSUME NEW t \in Tasks \ incomplete, ~Listed(t), ~Busy(t)
        PROVE  /\ t \notin artifacts
               /\ rows[t].kind # "direct_original" => dirs[t] = "none"
    <3>1. ~(op \in FileOps /\ op.task = t)
      BY <2>1, OpShapes DEF Busy
    <3> QED
      BY <1>1, <2>1, <3>1 DEF WorkspacesInv, WorkInv, GoneAgrees
  <2> QED
    BY <2>1 DEF NoSilentOrphans
<1> QED
  BY <1>1, WorkspacesAlways, PTL

-----------------------------------------------------------------------------
(* Changes that are not committed.                                         *)

\* Without a repository there are no worktrees, and one that was initialized for
\* a task has none before the worktree of that task.
NoRepository ==
    /\ git = "none" => worktrees = {}
    /\ op.step = "tree" /\ op.kind = "git_initialized_worktree" => worktrees = {}

\* A step that neither adds a worktree nor takes the repository alone keeps it.
LEMMA RepositoryStays ==
    ASSUME NoRepository,
           worktrees' = {} \/ (worktrees' \subseteq worktrees /\ (git' = git \/ git' # "none")),
           op' = op \/ op'.step # "tree"
    PROVE  NoRepository'
<1>1. CASE worktrees' = {}
  BY <1>1 DEF NoRepository
<1>2. CASE worktrees' \subseteq worktrees /\ (git' = git \/ git' # "none")
  <2>1. git' = "none" => worktrees' = {}
    BY <1>2 DEF NoRepository
  <2>2. op'.step = "tree" /\ op'.kind = "git_initialized_worktree" => worktrees' = {}
    BY <1>2 DEF NoRepository
  <2> QED
    BY <2>1, <2>2 DEF NoRepository
<1> QED
  BY <1>1, <1>2

\* Which steps begin the removal of a worktree, and which begin to prepare one.
LEMMA StepsBegin ==
    ASSUME WorkspacesInv, ProfileAssumption, WorkspacesNext
    PROVE  /\ \/ op' = op \/ op'.step # "tree"
              \/ InitializeGit \/ \E t \in Tasks, kind \in Strategies : CreateTask(t, kind)
           /\ \/ op' = op \/ op'.step \notin Removals
              \/ UndoTree \/ UndoWorktree \/ \E t \in Tasks : CleanupWorktree(t)
<1>0. WorkspacesTypeOK /\ ProfilesInv
  BY DEF WorkspacesInv
<1>i. Free.step \notin Removals \cup {"tree"}
  BY DEF Free, Removals
<1>f. ASSUME op \in FileOps, NEW step \in FileSteps, Then(step) PROVE op'.step = step
  BY <1>0, <1>f, NextFileStep
<1>t. ASSUME op \in TreeOps, NEW step \in TreeSteps, Then(step) PROVE op'.step = step
  BY <1>t, NextTreeStep
<1>1. CASE ProfilesNext /\ UNCHANGED <<workVars, incomplete>>
  <2>1. op' \in {Free} \cup SaveOps
    BY <1>0, <1>1, ProfilesKept
  <2>2. op'.step \notin Removals \cup {"tree"}
    BY <1>i, <2>1 DEF SaveOps, Removals
  <2> QED
    BY <2>2
<1>2. CASE Create
  <2>1. CASE \E t \in Tasks, kind \in Strategies : CreateTask(t, kind)
    <3>1. op'.step \notin Removals
      BY <2>1 DEF CreateTask, Removals
    <3> QED
      BY <2>1, <3>1
  <2>2. CASE InitializeGit
    <3>1. op'.step = "tree"
      BY <1>0, <1>f, <2>2, OpSteps DEF InitializeGit, FileSteps
    <3> QED
      BY <2>2, <3>1 DEF Removals
  <2>3. CASE InitializeGitFails
    <3>1. op'.step = "abandon"
      BY <1>0, <1>f, <2>3, OpSteps DEF InitializeGitFails, FileSteps
    <3> QED
      BY <3>1 DEF Removals
  <2>4. CASE PrepareTree
    <3>1. op \in FileOps
      BY <1>0, <2>4, OpSteps DEF PrepareTree, FileSteps
    <3>2. op'.step = "persist"
      BY <2>4, <3>1 DEF PrepareTree, FileOps
    <3> QED
      BY <3>2 DEF Removals
  <2>5. CASE PrepareTreeFails
    <3>1. op'.step = "abandon"
      BY <1>0, <1>f, <2>5, OpSteps DEF PrepareTreeFails, FileSteps
    <3> QED
      BY <3>1 DEF Removals
  <2>6. CASE Abandon \/ PersistTask
    BY <1>i, <2>6 DEF Abandon, PersistTask
  <2>7. CASE PersistTaskFails
    <3>1. op'.step = "undoTree"
      BY <1>0, <1>f, <2>7, OpSteps DEF PersistTaskFails, FileSteps
    <3> QED
      BY <3>1 DEF Removals
  <2> QED
    BY <1>2, <2>1, <2>2, <2>3, <2>4, <2>5, <2>6, <2>7 DEF Create
<1>3. CASE Delete
  <2>1. ASSUME NEW t \in Tasks, NEW init \in BOOLEAN, DeleteTask(t, init)
        PROVE  op'.step = "undoTree"
    BY <2>1 DEF DeleteTask
  <2>2. CASE UndoTree
    <3>1. op'.step \in {"dropTree", "undoBranch"}
      BY <1>0, <1>f, <2>2, OpSteps DEF UndoTree, FileSteps
    <3> QED
      BY <2>2, <3>1
  <2>3. CASE UndoBranch \/ UndoGit
    <3>1. op \in FileOps
      BY <1>0, <2>3, OpSteps DEF UndoBranch, UndoGit, FileSteps
    <3>2. op'.step \in {"undoGit", "undoFiles"}
      BY <1>f, <2>3, <3>1 DEF UndoBranch, UndoGit, FileSteps
    <3> QED
      BY <3>2 DEF Removals
  <2>4. CASE UndoFiles
    BY <1>i, <2>4 DEF UndoFiles
  <2>5. CASE RemoveWorktree
    <3>1. CASE op.step = "dropTree"
      <4>1. op \in FileOps /\ Then("undoBranch")
        BY <1>0, <2>5, <3>1, OpSteps DEF RemoveWorktree, AfterRemoval, FileSteps
      <4>2. op'.step = "undoBranch"
        BY <1>f, <4>1 DEF FileSteps
      <4> QED
        BY <4>2 DEF Removals
    <3>2. CASE op.step \in {"dropMeta", "dropCleanup"}
      <4>1. op \in TreeOps /\ (Then("clear") \/ op' = Free)
        BY <1>0, <2>5, <3>2, OpSteps DEF RemoveWorktree, AfterRemoval, TreeSteps
      <4>2. op'.step = "clear" \/ op' = Free
        BY <1>t, <4>1 DEF TreeSteps
      <4> QED
        BY <1>i, <4>2 DEF Removals
    <3> QED
      BY <2>5, <3>1, <3>2 DEF RemoveWorktree, Removals
  <2> QED
    BY <1>3, <2>1, <2>2, <2>3, <2>4, <2>5 DEF Delete, Removals
<1>4. CASE Worktree
  <2>1. ASSUME NEW t \in Tasks, CreateTaskBranch(t) \/ CommitWorktree(t) PROVE op' = op
    BY <2>1 DEF CreateTaskBranch, CommitWorktree
  <2>2. ASSUME NEW t \in Tasks, CreateTaskWorktree(t) PROVE op'.step = "meta"
    BY <2>2 DEF CreateTaskWorktree
  <2>3. ASSUME NEW t \in Tasks, CleanupWorktree(t) PROVE op'.step # "tree"
    BY <2>3 DEF CleanupWorktree
  <2>4. CASE PersistWorktree \/ ClearWorktree
    BY <1>i, <2>4 DEF PersistWorktree, ClearWorktree
  <2>5. CASE PersistWorktreeFails
    <3>1. op'.step = "undoMeta"
      BY <1>0, <1>t, <2>5, OpSteps DEF PersistWorktreeFails, TreeSteps
    <3> QED
      BY <3>1 DEF Removals
  <2>6. CASE UndoWorktree
    <3>1. op'.step = "dropMeta" \/ op' = Free
      BY <1>0, <1>t, <2>6, OpSteps DEF UndoWorktree, TreeSteps
    <3> QED
      BY <1>i, <2>6, <3>1
  <2> QED
    BY <1>4, <2>1, <2>2, <2>3, <2>4, <2>5, <2>6 DEF Worktree, Removals
<1>5. CASE \/ \E t \in Tasks : Edit(t)
           \/ UserInitializesGit
  BY <1>5 DEF Edit, UserInitializesGit
<1>6. CASE Restart
  BY <1>i, <1>6 DEF Restart
<1> QED
  BY <1>1, <1>2, <1>3, <1>4, <1>5, <1>6 DEF WorkspacesNext

LEMMA RepositoryNext ==
    ASSUME WorkspacesInv, ProfileAssumption, NoRepository, WorkspacesNext
    PROVE  NoRepository'
<1>0. WorkspacesTypeOK /\ WorkTypeOK
  BY DEF WorkspacesInv, WorkspacesTypeOK
<1> DEFINE quiet == op' = op \/ op'.step # "tree"
           tame  == worktrees' = {} \/ (worktrees' \subseteq worktrees
                                           /\ (git' = git \/ git' # "none"))
<1>1. CASE quiet /\ tame
  BY <1>1, RepositoryStays
<1>2. CASE InitializeGit
  <2>1. worktrees' = {}
    BY <1>2 DEF InitializeGit, NoRepository
  <2> QED
    BY <2>1 DEF NoRepository
<1>3. ASSUME NEW t \in Tasks, NEW kind \in Strategies, CreateTask(t, kind) PROVE NoRepository'
  <2>1. UNCHANGED <<git, worktrees>>
    BY <1>3 DEF CreateTask
  <2>2. op'.step = "tree" => op'.kind # "git_initialized_worktree"
    BY <1>3 DEF CreateTask
  <2> QED
    BY <2>1, <2>2 DEF NoRepository
<1>4. ASSUME NEW t \in Tasks, AddTree(t), UNCHANGED git, op'.step # "tree"
      PROVE  NoRepository'
  BY <1>4 DEF AddTree, NoRepository
<1>5. quiet \/ InitializeGit \/ \E t \in Tasks, kind \in Strategies : CreateTask(t, kind)
  BY StepsBegin
<1>6. \/ tame \/ InitializeGit
      \/ \E t \in Tasks : AddTree(t) /\ UNCHANGED git /\ op'.step # "tree"
  <2>1. CASE ProfilesNext /\ UNCHANGED <<workVars, incomplete>>
    BY <2>1 DEF workVars
  <2>2. CASE Create
    <3>1. CASE PrepareTree
      <4>1. op \in FileOps
        BY <1>0, <3>1, OpSteps DEF PrepareTree, FileSteps
      <4>2. op.task \in Tasks /\ op.kind \in WorkspaceKinds
        BY <4>1, FileFacts
      <4>3. AddTree(op.task) \/ UNCHANGED worktrees
        BY <3>1, <4>2 DEF PrepareTree, WorkspaceKinds, GitKinds
      <4>4. op'.step = "persist"
        BY <3>1, <4>1 DEF PrepareTree, FileOps
      <4> QED
        BY <3>1, <4>2, <4>3, <4>4 DEF PrepareTree
    <3>2. CASE PrepareTreeFails
      BY <3>2 DEF PrepareTreeFails, AddTreeFails, DropRepository
    <3>3. CASE InitializeGit \/ InitializeGitFails
      BY <3>3 DEF InitializeGitFails
    <3>4. CASE \/ \E t \in Tasks, kind \in Strategies : CreateTask(t, kind)
               \/ Abandon \/ PersistTask \/ PersistTaskFails
      BY <3>4 DEF CreateTask, Abandon, PersistTask, PersistTaskFails, workVars
    <3> QED
      BY <2>2, <3>1, <3>2, <3>3, <3>4 DEF Create
  <2>3. CASE Delete
    <3>1. CASE UndoGit
      BY <3>1 DEF UndoGit, DropRepository
    <3>2. CASE UndoTree \/ RemoveWorktree
      BY <3>2 DEF UndoTree, RemoveWorktree, DropTree
    <3>3. CASE \/ \E t \in Tasks, init \in BOOLEAN : DeleteTask(t, init)
               \/ UndoBranch \/ UndoFiles
      BY <3>3 DEF DeleteTask, UndoBranch, UndoFiles
    <3> QED
      BY <2>3, <3>1, <3>2, <3>3 DEF Delete
  <2>4. CASE Worktree
    <3>1. ASSUME NEW t \in Tasks, CreateTaskWorktree(t)
          PROVE  AddTree(t) /\ UNCHANGED git /\ op'.step # "tree"
      BY <3>1 DEF CreateTaskWorktree
    <3>2. ASSUME NEW t \in Tasks, CreateTaskBranch(t) \/ CleanupWorktree(t) \/ CommitWorktree(t)
          PROVE  UNCHANGED <<git, worktrees>>
      BY <3>2 DEF CreateTaskBranch, CleanupWorktree, CommitWorktree, workVars
    <3>3. CASE PersistWorktree \/ PersistWorktreeFails \/ UndoWorktree \/ ClearWorktree
      BY <3>3 DEF PersistWorktree, PersistWorktreeFails, UndoWorktree, ClearWorktree, workVars
    <3> QED
      BY <2>4, <3>1, <3>2, <3>3 DEF Worktree
  <2>5. CASE \/ \E t \in Tasks : Edit(t)
             \/ UserInitializesGit \/ Restart
    BY <2>5 DEF Edit, UserInitializesGit, Restart, workVars
  <2> QED
    BY <2>1, <2>2, <2>3, <2>4, <2>5 DEF WorkspacesNext
<1> HIDE DEF quiet, tame
<1> QED
  BY <1>1, <1>2, <1>3, <1>4, <1>5, <1>6

LEMMA RepositoryAlways == WorkspacesSpec => []NoRepository
<1>1. WorkspacesInit => NoRepository
  BY DEF WorkspacesInit, ProfilesInit, NoRepository, Free
<1>2. WorkspacesInv /\ NoRepository /\ [WorkspacesNext]_workspaceVars => NoRepository'
  <2>1. ASSUME NoRepository, UNCHANGED workspaceVars PROVE NoRepository'
    BY <2>1 DEF NoRepository, workspaceVars, workVars
  <2> QED
    BY <2>1, RepositoryNext, ProfileAssumption
<1> QED
  BY <1>1, <1>2, WorkspacesAlways, PTL DEF WorkspacesSpec

\* What a step may do to a worktree of t, and to its changes.
LEMMA ChangesStay ==
    ASSUME WorkspacesInv, ProfileAssumption, NoRepository, WorkspacesNext, NEW t \in worktrees
    PROVE  /\ ~Removing(t) /\ Removing(t)' => dirs[t] = "clean"
           /\ dirs[t] = "dirty" /\ dirs'[t] = "none" => Removing(t)
           /\ dirs[t] = "dirty" /\ branches'[t] = "none" => op.step = "undoGit"
<1>0. WorkspacesTypeOK /\ WorkTypeOK /\ t \in Tasks /\ branches[t] # "none"
  BY DEF WorkspacesInv, WorkspacesTypeOK, WorkTypeOK, WorkInv, TreeAgrees
<1>1. ~Removing(t) /\ Removing(t)' => dirs[t] = "clean"
  <2> SUFFICES ASSUME ~Removing(t), Removing(t)' PROVE dirs[t] = "clean"
    OBVIOUS
  <2>1. UndoTree \/ UndoWorktree \/ \E u \in Tasks : CleanupWorktree(u)
    BY StepsBegin DEF Removing
  <2>2. CASE UndoTree
    <3>1. op \in FileOps
      BY <1>0, <2>2, OpSteps DEF UndoTree, FileSteps
    <3>2. CASE Removable(op.task) /\ Then("dropTree")
      <4>1. op'.task = op.task
        BY <1>0, <3>1, <3>2, NextFileStep DEF FileSteps
      <4> QED
        BY <3>2, <4>1 DEF Removing, Removable
    <3>3. CASE Then("undoBranch")
      BY <1>0, <3>1, <3>3, NextFileStep DEF FileSteps, Removing, Removals
    <3> QED
      BY <2>2, <3>2, <3>3 DEF UndoTree
  <2>3. CASE UndoWorktree
    <3>1. op \in TreeOps
      BY <1>0, <2>3, OpSteps DEF UndoWorktree, TreeSteps
    <3>2. CASE Removable(op.task) /\ Then("dropMeta")
      <4>1. op'.task = op.task
        BY <3>1, <3>2, NextTreeStep DEF TreeSteps
      <4> QED
        BY <3>2, <4>1 DEF Removing, Removable
    <3>3. CASE op' = Free
      BY <3>3 DEF Removing, Removals, Free
    <3> QED
      BY <2>3, <3>2, <3>3 DEF UndoWorktree
  <2>4. ASSUME NEW u \in Tasks, CleanupWorktree(u) PROVE dirs[t] = "clean"
    BY <2>4 DEF CleanupWorktree, Removing, Removals, Removable
  <2> QED
    BY <2>1, <2>2, <2>3, <2>4
<1> DEFINE dirStays    == dirs[t] = "dirty" /\ dirs'[t] = "none" => Removing(t)
           branchStays == dirs[t] = "dirty" /\ branches'[t] = "none" => op.step = "undoGit"
<1>k. ASSUME UNCHANGED <<dirs, branches>> PROVE dirStays /\ branchStays
  BY <1>0, <1>k
<1>d. ASSUME UNCHANGED branches,
             (DropTree(op.task) /\ (op.task = t => Removing(t))) \/ UNCHANGED dirs
      PROVE  dirStays /\ branchStays
  BY <1>0, <1>d DEF DropTree, WorkTypeOK
<1>a. ASSUME NEW u \in Tasks, AddTree(u) PROVE dirStays /\ branchStays
  <2>1. branches'[t] # "none" /\ (dirs[t] = "dirty" => dirs'[t] # "none")
    BY <1>0, <1>a DEF AddTree, WorkTypeOK
  <2> QED
    BY <2>1
<1>e. ASSUME branches'[t] # "none", dirs'[t] = "none" => dirs[t] # "dirty"
      PROVE  dirStays /\ branchStays
  BY <1>e
<1> SUFFICES dirStays /\ branchStays
  BY <1>1
<1> HIDE DEF dirStays, branchStays
<1>2. CASE ProfilesNext /\ UNCHANGED <<workVars, incomplete>>
  BY <1>k, <1>2 DEF workVars
<1>3. CASE Create
  <2>1. CASE \/ \E u \in Tasks, kind \in Strategies : CreateTask(u, kind)
             \/ InitializeGit \/ InitializeGitFails \/ Abandon \/ PersistTask \/ PersistTaskFails
    BY <1>k, <2>1 DEF CreateTask, InitializeGit, InitializeGitFails, Abandon, PersistTask,
                      PersistTaskFails, workVars
  <2>2. CASE PrepareTree
    <3>1. op \in FileOps
      BY <1>0, <2>2, OpSteps DEF PrepareTree, FileSteps
    <3>2. op.task \in Tasks /\ op.kind \in WorkspaceKinds
      BY <3>1, FileFacts
    <3>3. CASE op.kind \in GitKinds
      <4>1. AddTree(op.task)
        BY <2>2, <3>3 DEF PrepareTree, GitKinds
      <4> QED
        BY <1>a, <3>2, <4>1
    <3>4. CASE op.kind \notin GitKinds
      <4>1. UNCHANGED branches /\ dirs' \in {dirs, [dirs EXCEPT ![op.task] = "clean"]}
        BY <2>2, <3>2, <3>4 DEF PrepareTree, WorkspaceKinds, GitKinds
      <4>2. branches'[t] # "none" /\ (dirs'[t] = "none" => dirs[t] # "dirty")
        BY <1>0, <3>2, <4>1 DEF WorkTypeOK
      <4> QED
        BY <1>e, <4>2
    <3> QED
      BY <3>3, <3>4
  <2>3. CASE PrepareTreeFails
    <3>1. op \in FileOps
      BY <1>0, <2>3, OpSteps DEF PrepareTreeFails, FileSteps
    <3>2. op.task \in Tasks
      BY <3>1, FileFacts
    <3>3. op.kind # "git_initialized_worktree"
      BY <2>3 DEF PrepareTreeFails, NoRepository
    <3>4. ASSUME AddTreeFails(op.task) PROVE UNCHANGED dirs /\ branches'[t] # "none"
      BY <1>0, <3>2, <3>4 DEF AddTreeFails, WorkTypeOK
    <3>5. ASSUME UNCHANGED branches, dirs' \in {dirs, [dirs EXCEPT ![op.task] = "clean"]}
          PROVE  branches'[t] # "none" /\ (dirs'[t] = "none" => dirs[t] # "dirty")
      BY <1>0, <3>2, <3>5 DEF WorkTypeOK
    <3>6. branches'[t] # "none" /\ (dirs'[t] = "none" => dirs[t] # "dirty")
      BY <2>3, <3>3, <3>4, <3>5 DEF PrepareTreeFails
    <3> QED
      BY <1>e, <3>6
  <2> QED
    BY <1>3, <2>1, <2>2, <2>3 DEF Create
<1>4. CASE Delete
  <2>1. CASE \/ \E u \in Tasks, init \in BOOLEAN : DeleteTask(u, init)
             \/ UndoFiles
    BY <1>k, <2>1 DEF DeleteTask, UndoFiles
  <2>2. CASE UndoTree
    <3>1. op \in FileOps
      BY <1>0, <2>2, OpSteps DEF UndoTree, FileSteps
    <3>2. op.kind \in WorkspaceKinds /\ (op.kind = "isolated_copy" => op.task \notin worktrees)
      BY <3>1, FileFacts
    <3>3. ASSUME TreeToUndo, op.kind \notin GitKinds PROVE op.task # t
      BY <3>2, <3>3 DEF TreeToUndo, WorkspaceKinds
    <3>4. UNCHANGED branches /\ ((DropTree(op.task) /\ op.task # t) \/ UNCHANGED dirs)
      BY <2>2, <3>3 DEF UndoTree
    <3> QED
      BY <1>d, <3>4
  <2>3. CASE UndoBranch
    <3>1. UNCHANGED dirs
      BY <2>3 DEF UndoBranch
    <3>2. \/ op.task # t /\ branches' = [branches EXCEPT ![op.task] = "none"]
          \/ UNCHANGED branches
      BY <2>3 DEF UndoBranch
    <3>3. branches'[t] # "none" /\ (dirs'[t] = "none" => dirs[t] # "dirty")
      BY <1>0, <3>1, <3>2 DEF WorkTypeOK
    <3> QED
      BY <1>e, <3>3
  <2>4. CASE UndoGit
    <3>1. UNCHANGED dirs /\ op.step = "undoGit"
      BY <2>4 DEF UndoGit
    <3> QED
      BY <3>1 DEF dirStays, branchStays
  <2>5. CASE RemoveWorktree
    <3>1. UNCHANGED branches /\ (DropTree(op.task) \/ UNCHANGED dirs) /\ op.step \in Removals
      BY <2>5 DEF RemoveWorktree
    <3>2. op.task = t => Removing(t)
      BY <3>1 DEF Removing
    <3> QED
      BY <1>d, <3>1, <3>2
  <2> QED
    BY <1>4, <2>1, <2>2, <2>3, <2>4, <2>5 DEF Delete
<1>5. CASE Worktree
  <2>1. ASSUME NEW u \in Tasks, CreateTaskBranch(u) PROVE dirStays /\ branchStays
    <3>1. branches'[t] # "none" /\ (dirs'[t] = "none" => dirs[t] # "dirty")
      BY <1>0, <2>1 DEF CreateTaskBranch, WorkTypeOK
    <3> QED
      BY <1>e, <3>1
  <2>2. ASSUME NEW u \in Tasks, CreateTaskWorktree(u) PROVE dirStays /\ branchStays
    <3>1. AddTree(u)
      BY <2>2 DEF CreateTaskWorktree
    <3> QED
      BY <1>a, <3>1
  <2>3. ASSUME NEW u \in Tasks, CommitWorktree(u) PROVE dirStays /\ branchStays
    <3>1. branches'[t] # "none" /\ (dirs'[t] = "none" => dirs[t] # "dirty")
      BY <1>0, <2>3 DEF CommitWorktree, WorkTypeOK
    <3> QED
      BY <1>e, <3>1
  <2>4. ASSUME \/ \E u \in Tasks : CleanupWorktree(u)
               \/ PersistWorktree \/ PersistWorktreeFails \/ UndoWorktree \/ ClearWorktree
        PROVE  dirStays /\ branchStays
    <3>1. UNCHANGED <<dirs, branches>>
      BY <2>4 DEF CleanupWorktree, PersistWorktree, PersistWorktreeFails, UndoWorktree,
                  ClearWorktree, workVars
    <3> QED
      BY <1>k, <3>1
  <2> QED
    BY <1>5, <2>1, <2>2, <2>3, <2>4 DEF Worktree
<1>6. ASSUME NEW u \in Tasks, Edit(u) PROVE dirStays /\ branchStays
  <2>1. branches'[t] # "none" /\ (dirs'[t] = "none" => dirs[t] # "dirty")
    BY <1>0, <1>6 DEF Edit, WorkTypeOK
  <2> QED
    BY <1>e, <2>1
<1>7. CASE UserInitializesGit \/ Restart
  BY <1>k, <1>7 DEF UserInitializesGit, Restart, workVars
<1> QED
  BY <1>2, <1>3, <1>4, <1>5, <1>6, <1>7 DEF WorkspacesNext

KeepsWork ==
    \A t \in worktrees :
        /\ ~Removing(t) /\ Removing(t)' => dirs[t] = "clean"
        /\ dirs[t] = "dirty" /\ dirs'[t] = "none" => Removing(t)
        /\ dirs[t] = "dirty" /\ branches'[t] = "none" => op.step = "undoGit"

\* docs/s3/worktree-management.md:38: git begins to remove a worktree only when
\* it finds no changes that are not committed, a directory with changes goes only
\* by a removal that has begun so, and its branch only with the whole repository,
\* in the step of a deletion that removes what was initialized for the task.
THEOREM ChangesAreKept == WorkspacesSpec => WorkKept
<1>1. WorkspacesInv /\ NoRepository /\ [WorkspacesNext]_workspaceVars
        => [KeepsWork]_workspaceVars
  <2> SUFFICES ASSUME WorkspacesInv, NoRepository, WorkspacesNext PROVE KeepsWork
    OBVIOUS
  <2> QED
    BY ChangesStay, ProfileAssumption DEF KeepsWork
<1> QED
  BY <1>1, WorkspacesAlways, RepositoryAlways, PTL DEF WorkspacesSpec, WorkKept, KeepsWork
===============================================================================
