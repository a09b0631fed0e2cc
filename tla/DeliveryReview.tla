---------------------------- MODULE DeliveryReview ----------------------------
(***************************************************************************)
(* The review that decides whether the work of one task may be merged      *)
(* (RS/commands/s12_evidence.rs): the evidence that commands record, what  *)
(* of it blocks a merge, and the refresh of the task's status that follows *)
(* each record.  A refresh reads everything under one lock and writes the  *)
(* status under another.                                                   *)
(***************************************************************************)
EXTENDS Naturals, Sequences, FiniteSetsExt

CONSTANTS Contents,      \* what the worktree may contain
          ChangedFiles,  \* the files that a content changes
          Sensitive,     \* files whose name is a high risk
          Commands,      \* validation commands
          Dangerous,     \* commands that are a high risk
          Directories,   \* where they may run
          Asked,         \* ids of approvals and their contract breaches
          HookAsked,     \* ids of hook approvals
          NoApproval,    \* a hook run without an approval
          Estimates,     \* tokens that one call of a model may use
          BudgetLimit,   \* tokens that the contract allows
          Uuids,         \* the random parts of ids, in their order
          MaxEvidence    \* bound: rows recorded as evidence

ASSUME ReviewAssumption ==
    /\ ChangedFiles \in [Contents -> SUBSET UNION {ChangedFiles[c] : c \in Contents}]
    /\ Dangerous \subseteq Commands /\ NoApproval \notin HookAsked
    /\ Estimates \subseteq Nat /\ Uuids \subseteq Nat
    /\ BudgetLimit \in Nat \ {0} /\ MaxEvidence \in Nat

VARIABLES status,        \* tasks.status
          ui,            \* what the thread of the window is doing
          runs,          \* command_runs of validations, oldest first
          artifacts,     \* artifacts: diffs, delivery reports, merges
          pack,          \* proof_packs: the grade of the latest one
          gates, rules,  \* quality_gate_results, rule_hits
          hookApprovals, hookRuns,
          approvals, breaches,
          budget,        \* token_budget_records, oldest first
          ledgerBlocked, \* privacy_ledger_entries: some entry is blocked
          recorded       \* rows of evidence so far

evidenceVars == <<gates, rules, hookApprovals, hookRuns, breaches>>
reviewVars   == <<status, ui, runs, artifacts, pack, approvals, budget,
                  ledgerBlocked, recorded, evidenceVars>>

Idle == [step |-> "idle"]
Files == UNION {ChangedFiles[c] : c \in Contents}

\* The rows as far as the review reads them.
Decisions   == {"none", "pending", "approved", "rejected"}
Artifacts   == [kind : {"delivery", "diff", "merge"}, uuid : Uuids,
                files : SUBSET Files, diff : BOOLEAN, report : BOOLEAN]
GateRows    == [status : {"passed", "failed"}, overridden : BOOLEAN]
RuleRows    == {"passed", "blocked"}
HookRunRows == [status : {"passed", "blocked"}, approval : HookAsked \cup {NoApproval}]
RunRows     == [command : Commands, cwd : Directories, passed : BOOLEAN]

-----------------------------------------------------------------------------
(* Reading the evidence.                                                   *)

\* artifacts_for_task orders by id, which is the kind and a random uuid.
Order(a) == (CASE a.kind = "delivery" -> 0 [] a.kind = "diff" -> 1 [] OTHER -> 2)
Before(a, b) == Order(a) < Order(b) \/ (Order(a) = Order(b) /\ a.uuid < b.uuid)

LastOf(rows)  == {a \in rows : \A b \in rows \ {a} : Before(b, a)}
FilesOf(rows) == UNION {a.files : a \in LastOf(rows)}

LatestDiffFiles == FilesOf({a \in artifacts : a.diff})
ReviewedFiles   == FilesOf({a \in artifacts : a.diff \/ a.report})
HasReport == \E a \in LastOf({b \in artifacts : b.diff \/ b.report}) : a.report

\* The last run of each command counts, wherever it ran.
ValidationStatus ==
    IF runs = <<>> THEN "notRun"
    ELSE IF \A i \in DOMAIN runs :
               \/ runs[i].passed
               \/ \E j \in i+1..Len(runs) : runs[j].command = runs[i].command
         THEN "passed" ELSE "failed"

\* What a proof pack says of the validation: only the very last run counts.
PackValidation ==
    IF runs = <<>> THEN "notRun"
    ELSE IF runs[Len(runs)].passed THEN "passed" ELSE "failed"

ApprovalsBlock == \E a \in Asked : approvals[a] \in {"pending", "rejected"}

HighRisk ==
    \/ ReviewedFiles \cap Sensitive # {}
    \/ \E i \in DOMAIN runs : runs[i].command \in Dangerous

\* Mutant: hook approvals are looked at, and runs of hooks are not.
PendingHooks == \E h \in HookAsked : hookApprovals[h] = "pending"

GateBlocks     == \E g \in gates : g.status # "passed" /\ ~g.overridden
ContractBlocks == \E a \in Asked : breaches[a] \in {"pending", "rejected"}
PrivacyBlocks  == ledgerBlocked
BudgetBlocks   ==
    \E i \in DOMAIN budget : budget[i].remaining < 0 \/ budget[i].estimate > BudgetLimit
RuleBlocks     == "blocked" \in rules
HookBlocks     ==
    \/ \E h \in HookAsked : hookApprovals[h] \in {"pending", "rejected"}
    \/ \E r \in hookRuns :
          /\ r.status = "blocked"
          /\ r.approval = NoApproval \/ hookApprovals[r.approval] # "approved"

CanMerge ==
    /\ ValidationStatus = "passed" /\ ReviewedFiles # {} /\ pack # "none"
    /\ ~ApprovalsBlock /\ ~HighRisk /\ ~GateBlocks /\ ~ContractBlocks
    /\ ~PrivacyBlocks /\ ~BudgetBlocks /\ ~RuleBlocks /\ ~HookBlocks

-----------------------------------------------------------------------------
(* The refresh of the status.                                              *)

Refreshable == {"completed", "awaitingReview", "readyToMerge", "validating", "repairing"}

Refresh ==
    LET next == IF CanMerge THEN "readyToMerge" ELSE "awaitingReview"
    IN  /\ ui.step = "refresh"
        /\ ui' = IF status \in Refreshable \ {next}
                   THEN [step |-> "status", next |-> next] ELSE Idle
        /\ UNCHANGED <<status, runs, artifacts, pack, approvals, budget,
                       ledgerBlocked, recorded, evidenceVars>>

WriteStatus ==
    /\ ui.step = "status"
    /\ status' = ui.next /\ ui' = Idle
    /\ UNCHANGED <<runs, artifacts, pack, approvals, budget, ledgerBlocked,
                   recorded, evidenceVars>>

-----------------------------------------------------------------------------
(* Commands of the window that record evidence.  They run one after        *)
(* another on its thread, each to its end.                                 *)

UiFree == ui = Idle

\* A row is written under the lock; the refresh is a step of its own.
Written ==
    /\ UiFree /\ ui' = [step |-> "refresh"]
    /\ UNCHANGED <<status, runs, artifacts, pack, approvals, budget, ledgerBlocked>>

OneMoreRow == recorded < MaxEvidence /\ recorded' = recorded + 1
Recorded   == Written /\ OneMoreRow
Updated    == Written /\ UNCHANGED recorded

RecordGate(outcome) ==
    /\ Recorded
    /\ gates' = gates \cup {[status |-> outcome, overridden |-> FALSE]}
    /\ UNCHANGED <<rules, hookApprovals, hookRuns, breaches>>

\* Every failed result of the gate that is not overridden yet.
OverrideGate ==
    /\ Updated
    /\ gates' = {[g EXCEPT !.overridden = @ \/ g.status # "passed"] : g \in gates}
    /\ UNCHANGED <<rules, hookApprovals, hookRuns, breaches>>

RecordRule(outcome) ==
    /\ Recorded
    /\ rules' = rules \cup {outcome}
    /\ UNCHANGED <<gates, hookApprovals, hookRuns, breaches>>

RecordHookRun(outcome, h) ==
    /\ Recorded
    /\ h # NoApproval => hookApprovals[h] # "none"
    /\ hookRuns' = hookRuns \cup {[status |-> outcome, approval |-> h]}
    /\ UNCHANGED <<gates, rules, hookApprovals, breaches>>

RequestHookApproval(h) ==
    /\ Recorded
    /\ hookApprovals[h] = "none"
    /\ hookApprovals' = [hookApprovals EXCEPT ![h] = "pending"]
    /\ UNCHANGED <<gates, rules, hookRuns, breaches>>

ResolveHookApproval(h, decision) ==
    /\ Updated
    /\ hookApprovals[h] = "pending"
    /\ hookApprovals' = [hookApprovals EXCEPT ![h] = decision]
    /\ UNCHANGED <<gates, rules, hookRuns, breaches>>

RecordModelArenaDecision == Updated /\ UNCHANGED evidenceVars

RecordEvidence ==
    \/ \E outcome \in {"passed", "failed"} : RecordGate(outcome)
    \/ OverrideGate
    \/ \E outcome \in RuleRows : RecordRule(outcome)
    \/ \E outcome \in {"passed", "blocked"}, h \in HookAsked \cup {NoApproval} :
          RecordHookRun(outcome, h)
    \/ \E h \in HookAsked : RequestHookApproval(h)
    \/ \E h \in HookAsked, decision \in {"approved", "rejected"} :
          ResolveHookApproval(h, decision)
    \/ RecordModelArenaDecision

-----------------------------------------------------------------------------
(* Contract breaches and the decision of approvals: statements of their    *)
(* own under one lock, with no refresh.  Each may be the last one.         *)

\* The store stays locked between the statements of a decision.
StoreFree == ui.step \notin {"decided", "breached"}

RecordBreach(a) ==
    /\ UiFree /\ OneMoreRow
    /\ approvals[a] = "none"
    /\ approvals' = [approvals EXCEPT ![a] = "pending"]
    /\ breaches' = [breaches EXCEPT ![a] = "pending"]
    /\ UNCHANGED <<status, ui, runs, artifacts, pack, budget, ledgerBlocked,
                   gates, rules, hookApprovals, hookRuns>>

DecideApproval(a, decision) ==
    /\ UiFree
    /\ approvals[a] = "pending"
    /\ approvals' = [approvals EXCEPT ![a] = decision]
    /\ ui' = [step |-> "decided", approval |-> a, decision |-> decision]
    /\ UNCHANGED <<status, runs, artifacts, pack, budget, ledgerBlocked, recorded,
                   evidenceVars>>

\* Mutant: whatever the decision, the breach is over.
ApproveBreach ==
    /\ ui.step = "decided"
    /\ breaches' = [breaches EXCEPT ![ui.approval] = IF @ = "none" THEN @ ELSE "approved"]
    /\ ui' = [step |-> "breached", decision |-> ui.decision]
    /\ UNCHANGED <<status, runs, artifacts, pack, approvals, budget, ledgerBlocked,
                   recorded, gates, rules, hookApprovals, hookRuns>>

DecideBreach ==
    /\ ui.step = "decided"
    /\ breaches' = [breaches EXCEPT ![ui.approval] =
                       IF @ = "none" THEN @ ELSE ui.decision]
    /\ ui' = [step |-> "breached", decision |-> ui.decision]
    /\ UNCHANGED <<status, runs, artifacts, pack, approvals, budget, ledgerBlocked,
                   recorded, gates, rules, hookApprovals, hookRuns>>

DecideStatus ==
    /\ ui.step = "breached"
    /\ status' = IF ui.decision = "approved" THEN "editing" ELSE "needsIntervention"
    /\ ui' = Idle
    /\ UNCHANGED <<runs, artifacts, pack, approvals, budget, ledgerBlocked,
                   recorded, evidenceVars>>

StatementFails ==
    /\ ui.step \in {"decided", "breached"}
    /\ ui' = Idle
    /\ UNCHANGED <<status, runs, artifacts, pack, approvals, budget, ledgerBlocked,
                   recorded, evidenceVars>>

Decide ==
    \/ \E a \in Asked : RecordBreach(a)
    \/ \E a \in Asked, decision \in {"approved", "rejected"} : DecideApproval(a, decision)
    \/ DecideBreach \/ DecideStatus \/ StatementFails

-----------------------------------------------------------------------------
(* What the Agent's requests record meanwhile, on other threads.           *)

Spent == FoldFunction(LAMBDA row, sum : row.estimate + sum, 0, budget)

\* What remains is never below zero.
ObserveTokens(estimate) ==
    LET left == BudgetLimit - (Spent + estimate)
    IN  /\ StoreFree /\ OneMoreRow
        /\ budget' = Append(budget, [estimate  |-> estimate,
                                     remaining |-> IF left < 0 THEN 0 ELSE left])
        /\ UNCHANGED <<status, ui, runs, artifacts, pack, approvals, ledgerBlocked,
                       evidenceVars>>

ObserveContext(blocked) ==
    /\ StoreFree /\ OneMoreRow
    /\ ledgerBlocked' = (ledgerBlocked \/ blocked)
    /\ UNCHANGED <<status, ui, runs, artifacts, pack, approvals, budget, evidenceVars>>

\* A command needs the user, and breaches the contract until then; or the
\* Agent asks by a tool of its own.
AskApproval(a, breach) ==
    /\ StoreFree /\ OneMoreRow
    /\ approvals[a] = "none"
    /\ approvals' = [approvals EXCEPT ![a] = "pending"]
    /\ breaches' = [breaches EXCEPT ![a] = IF breach THEN "pending" ELSE "none"]
    /\ status' = "awaitingApproval"
    /\ UNCHANGED <<ui, runs, artifacts, pack, budget, ledgerBlocked, gates, rules,
                   hookApprovals, hookRuns>>

Observe ==
    \/ \E estimate \in Estimates : ObserveTokens(estimate)
    \/ \E blocked \in BOOLEAN : ObserveContext(blocked)
    \/ \E a \in Asked, breach \in BOOLEAN : AskApproval(a, breach)
=============================================================================
