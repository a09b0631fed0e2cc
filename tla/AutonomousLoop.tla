---------------------------- MODULE AutonomousLoop ----------------------------
(***************************************************************************)
(* The V3 tool loop of one task (src/agent/app/autonomous/loop.py): model  *)
(* decisions become tool requests, one open request at a time; the Runtime *)
(* answers them, possibly twice, late or wrongly; limits end the loop.     *)
(*                                                                         *)
(* The task is one record, as in the checkpoint.  agent_messages is kept   *)
(* as the calls the model made and the number of protocol errors fed back. *)
(* executed_tool_call_ids and the tool messages are written together with  *)
(* consumed_tool_results and are represented by it ("results").  What a     *)
(* result holds beside its status is left out.                             *)
(***************************************************************************)
EXTENDS Naturals, Sequences

CONSTANTS CallIds,        \* identifiers the model gives its calls
          Tools,          \* registered tools; "complete_task" among them
          Arguments,
          NoId, UnknownTool,  \* an empty identifier; a name or arguments the registry refuses
          MaxBatch,       \* bound: calls in one model reply
          MaxUsage,       \* bound: tokens of one model reply
          MaxRounds,      \* max_agent_rounds
          MaxDuplicates,  \* max_duplicate_calls
          TokenBudget     \* token_budget; None is any value above MaxRounds * MaxUsage

ASSUME LoopAssumption ==
    /\ "complete_task" \in Tools
    /\ NoId \notin CallIds /\ UnknownTool \notin Tools
    /\ {MaxBatch, MaxRounds, MaxDuplicates, TokenBudget} \subseteq Nat \ {0}
    /\ MaxUsage \in Nat

VARIABLE s

Statuses == {"succeeded", "failed", "waiting_approval", "cancelled"}
Call     == [id : CallIds, tool : Tools, args : Arguments]
RawCall  == [id : CallIds \cup {NoId}, tool : Tools \cup {UnknownTool}, args : Arguments]
Result   == [id : CallIds, tool : Tools, status : Statuses]
Reply    == [calls : UNION {[1..n -> RawCall] : n \in 0..MaxBatch}, tokens : 0..MaxUsage]

NoCall == [id |-> NoId]
NoFingerprint == <<>>

Paused == {"waiting_runtime", "waiting_approval", "needs_intervention", "completed", "cancelled"}

-----------------------------------------------------------------------------
(* Reading the record.                                                     *)

NeedsIntervention(st) == [st EXCEPT !.phase = "needs_intervention"]

\* Mutant: a call that failed counts as unanswered and is made again.
SucceededIds(st) ==
    {st.results[i].id : i \in {j \in DOMAIN st.results : st.results[j].status = "succeeded"}}

AnsweredIds(st) == {st.results[i].id : i \in DOMAIN st.results}

CallIdsOf(st) == {st.calls[i].id : i \in DOMAIN st.calls} \ {NoId}

Exhausted(st) == st.round >= MaxRounds \/ st.tokens >= TokenBudget

Fingerprint(call, status) == <<call.tool, call.args, status>>

LastStatus(st) == IF st.results = <<>> THEN "none" ELSE st.results[Len(st.results)].status

\* Mutant: the calls of the last reply, answered or not.
AllOfTheBatch(st) == st.batch..Len(st.calls)

\* The calls of the last reply without an answer, by position.
Unanswered(st) == {i \in st.batch..Len(st.calls) : st.calls[i].id \notin AnsweredIds(st)}

-----------------------------------------------------------------------------
(* advance_autonomous_turn                                                 *)

\* Every call of a reply is checked before the first becomes a request.
Acceptable(st, calls) ==
    /\ calls # <<>>
    /\ \A i \in DOMAIN calls :
          /\ calls[i].id \notin {NoId} \cup CallIdsOf(st)
          /\ calls[i].tool # UnknownTool
          /\ \A j \in 1..(i - 1) : calls[j].id # calls[i].id

DuplicateCount(st, call) ==
    IF Fingerprint(call, LastStatus(st)) = st.fingerprint THEN st.duplicates + 1 ELSE 0

RecordDecision(st, reply, st2) ==
    LET asked == [st EXCEPT !.calls  = @ \o reply.calls,
                            !.batch  = Len(st.calls) + 1,
                            !.round  = @ + 1,
                            !.tokens = @ + reply.tokens]
        counted == [asked EXCEPT !.duplicates = DuplicateCount(st, reply.calls[1])]
    IN  \/ /\ asked.tokens > TokenBudget
           /\ st2 = NeedsIntervention(asked)
        \/ /\ asked.tokens <= TokenBudget /\ ~Acceptable(st, reply.calls)
           /\ st2 = NeedsIntervention([asked EXCEPT !.errors = @ + 1])
        \/ /\ asked.tokens <= TokenBudget /\ Acceptable(st, reply.calls)
           /\ counted.duplicates >= MaxDuplicates
           /\ st2 = NeedsIntervention(counted)
        \/ /\ asked.tokens <= TokenBudget /\ Acceptable(st, reply.calls)
           /\ counted.duplicates < MaxDuplicates
           /\ st2 = [counted EXCEPT !.phase = "waiting_runtime", !.pending = reply.calls[1]]

\* Mutant: the phase is not looked at.
CanAskInAnyPhase(st) == st.pending = NoCall /\ ~Exhausted(st)

CanAskModel(st) == st.phase \notin Paused /\ st.pending = NoCall /\ ~Exhausted(st)

\* A paused task is returned as it is.  No handler leaves a task unpaused
\* with a request still open, so that test of the code is not a case here.
Turn(st, st2) ==
    \/ st.phase \in Paused /\ st2 = st
    \/ st.phase \notin Paused /\ Exhausted(st) /\ st2 = NeedsIntervention(st)
    \/ CanAskModel(st) /\ st2 = NeedsIntervention(st)  \* the gateway failed
    \/ CanAskModel(st) /\ \E reply \in Reply : RecordDecision(st, reply, st2)

-----------------------------------------------------------------------------
(* apply_runtime_tool_result                                               *)

Consumed(st, id) == id \in AnsweredIds(st)

\* Mutant: the tool is compared, the call id is not.
MatchesTool(st, r) == st.phase = "waiting_runtime" /\ r.tool = st.pending.tool

Matches(st, r) ==
    /\ st.phase = "waiting_runtime"
    /\ r.id = st.pending.id /\ r.tool = st.pending.tool

Recorded(st, r) ==
    LET print == Fingerprint(st.pending, r.status)
    IN  [st EXCEPT !.results     = Append(@, r),
                   !.pending     = NoCall,
                   !.phase       = "created",
                   !.fingerprint = print,
                   !.duplicates  = IF st.fingerprint = print THEN @ ELSE 0]

Completes(st, r) == st.pending.tool = "complete_task" /\ r.status = "succeeded"

Accept(st, r, st2) ==
    LET now == Recorded(st, r)
    IN  \/ /\ r.status = "waiting_approval"
           /\ st2 = [now EXCEPT !.phase = "waiting_approval", !.pending = st.pending]
        \/ /\ r.status = "cancelled"
           /\ st2 = [now EXCEPT !.phase = "cancelled"]
        \/ /\ Completes(st, r)
           /\ st2 = [now EXCEPT !.phase = "completed"]
        \/ /\ r.status \in {"succeeded", "failed"} /\ ~Completes(st, r)
           /\ \E i \in Unanswered(now) :
                 /\ \A j \in Unanswered(now) : i <= j
                 /\ st2 = [now EXCEPT !.phase = "waiting_runtime", !.pending = st.calls[i]]
        \/ /\ r.status \in {"succeeded", "failed"} /\ ~Completes(st, r)
           /\ Unanswered(now) = {}
           /\ Turn(now, st2)

-----------------------------------------------------------------------------
Init == s = [phase |-> "created", pending |-> NoCall, calls |-> <<>>, batch |-> 1,
             results |-> <<>>, round |-> 0, tokens |-> 0, duplicates |-> 0,
             fingerprint |-> NoFingerprint, errors |-> 0]

Advance == Turn(s, s')

\* submit_tool_result: classify_tool_result_delivery answers a replay or a
\* conflict without touching the task.  Only the open request reaches
\* apply_runtime_tool_result, whose own tests it has then passed.
SubmitToolResult(r) == ~Consumed(s, r.id) /\ Matches(s, r) /\ Accept(s, r, s')

Next == Advance \/ \E r \in Result : SubmitToolResult(r)

Spec == Init /\ [][Next]_s

\* The caller keeps advancing the task, and the Runtime answers every request.
FairSpec == Spec /\ WF_s(Next)

-----------------------------------------------------------------------------
\* The Runtime is asked for the calls of the model one at a time and in the
\* order the model made them: the results are those of the first calls, and
\* the open request is the next call.
SerialInOrder ==
    /\ Len(s.results) <= Len(s.calls)
    /\ \A i \in DOMAIN s.results :
          s.results[i].id = s.calls[i].id /\ s.results[i].tool = s.calls[i].tool
    /\ s.phase = "waiting_runtime" => /\ Len(s.results) < Len(s.calls)
                                      /\ s.pending = s.calls[Len(s.results) + 1]

\* No call is answered twice, whatever the Runtime repeats and whatever
\* identifiers the model reuses.
AnsweredOnce ==
    \A i, j \in DOMAIN s.results : s.results[i].id = s.results[j].id => i = j

\* The limits end every loop: the task is settled in the end, whatever the
\* model asks for.
EventuallySettled == <>[](s.phase \in Paused \ {"waiting_runtime"})

\* The loop as its environment sees it.
Abstract == INSTANCE TaskPhases WITH
    MaxRequests <- MaxRounds * MaxBatch,
    task <- [phase    |-> s.phase,
             issued   |-> Len(s.results) + (IF s.phase = "waiting_runtime" THEN 1 ELSE 0),
             answered |-> Len(s.results)]

ImplementsTaskPhases == Abstract!FairSpec
=============================================================================
