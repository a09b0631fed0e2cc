----------------------------- MODULE TaskDelivery -----------------------------
(***************************************************************************)
(* From finished work to the merge of one task: the diff (RS/commands/     *)
(* diff.rs), the delivery report (delivery.rs), the proof pack             *)
(* (s12_evidence.rs) and the merge (merge.rs, git/mod.rs), each a command  *)
(* of the window's thread, while the Agent edits the worktree, validations *)
(* run and rows are recorded on other threads, and the application may     *)
(* stop at any point.  The review that they ask is DeliveryReview.         *)
(***************************************************************************)
EXTENDS DeliveryReview

CONSTANTS Base,          \* the content that the task started from
          AgentStatuses, \* what the Agent's phase makes of the task's status
          MaxRuns,       \* bound: validations that run
          MaxArtifacts   \* bound: artifacts of one kind

ASSUME DeliveryAssumption ==
    /\ Base \in Contents /\ ChangedFiles[Base] = {}
    /\ AgentStatuses \subseteq {"planning", "editing", "validating", "repairing", "failed",
                               "awaitingApproval", "needsIntervention", "readyToMerge"}
    /\ {MaxRuns, MaxArtifacts} \subseteq Nat

VARIABLES work,         \* the content of the worktree
          patch,        \* the file diff.patch: the diff generated last, and if it has a row
          target,       \* the contents that the target branch has
          mergeRecords, \* merge_records
          check         \* the validation that runs, if any

deliveryVars == <<work, patch, target, mergeRecords, check>>
vars == <<reviewVars, deliveryVars>>

NoCheck == [stage |-> "none"]
NoPatch == [stage |-> "none", files |-> {}]
MergeRecords == [status : {"merged", "conflicted"}, content : Contents]

Init ==
    /\ status = "editing" /\ ui = Idle /\ runs = <<>> /\ artifacts = {} /\ pack = "none"
    /\ gates = {} /\ rules = {} /\ hookRuns = {}
    /\ hookApprovals = [h \in HookAsked |-> "none"]
    /\ approvals = [a \in Asked |-> "none"] /\ breaches = [a \in Asked |-> "none"]
    /\ budget = <<>> /\ ledgerBlocked = FALSE /\ recorded = 0
    /\ work = Base /\ patch = NoPatch /\ target = {Base} /\ mergeRecords = {}
    /\ check = NoCheck

\* What the commands below leave alone.
EvidenceKept == UNCHANGED <<runs, approvals, budget, ledgerBlocked, recorded, evidenceVars>>

-----------------------------------------------------------------------------
(* Diff, report and proof pack.                                            *)

\* The id of a new row is random: it may come before or after the others.
NewArtifact(row) ==
    /\ Cardinality({a \in artifacts : a.kind = row.kind}) < MaxArtifacts
    /\ \A a \in artifacts : a.kind = row.kind => a.uuid # row.uuid
    /\ artifacts' = artifacts \cup {row}

\* git reads the worktree and the file is written before any row.
GenerateDiff ==
    /\ UiFree
    /\ patch' = [stage |-> "written", files |-> ChangedFiles[work]]
    /\ ui' = [step |-> "diff", files |-> ChangedFiles[work]]
    /\ EvidenceKept
    /\ UNCHANGED <<status, artifacts, pack, work, target, mergeRecords, check>>

\* Whatever the status was.
RecordDiff ==
    /\ ui.step = "diff"
    /\ \E u \in Uuids : NewArtifact([kind |-> "diff", uuid |-> u, files |-> ui.files,
                                     diff |-> TRUE, report |-> FALSE])
    /\ patch' = [patch EXCEPT !.stage = "recorded"]
    /\ status' = "awaitingReview" /\ ui' = Idle
    /\ EvidenceKept /\ UNCHANGED <<pack, work, target, mergeRecords, check>>

GenerateDelivery ==
    /\ UiFree
    /\ ui' = [step |-> "report", files |-> LatestDiffFiles,
              diff |-> patch.stage # "none" \/ \E a \in artifacts : a.diff]
    /\ EvidenceKept /\ UNCHANGED <<status, artifacts, pack, deliveryVars>>

RecordDelivery ==
    /\ ui.step = "report"
    /\ \E u \in Uuids : NewArtifact([kind |-> "delivery", uuid |-> u, files |-> ui.files,
                                     diff |-> ui.diff, report |-> TRUE])
    /\ ui' = [step |-> "refresh"]
    /\ EvidenceKept /\ UNCHANGED <<status, pack, deliveryVars>>

\* calculate_delivery_score
Score(validation, risk, files, blocked, report) ==
    (CASE validation = "passed" -> 35 [] validation = "failed" -> 8 [] OTHER -> 14)
        + (IF risk THEN 5 ELSE 25)
        + (CASE files = {} -> 0 [] Cardinality(files) <= 8 -> 20 [] OTHER -> 12)
        + (IF blocked THEN 0 ELSE 10) + (IF report THEN 10 ELSE 0)

Grade(score) ==
    CASE score >= 90 -> "A" [] score >= 80 -> "B" [] score >= 70 -> "C"
      [] score >= 60 -> "D" [] OTHER -> "E"

\* The inputs are read under one lock, the validation under the next; then
\* the files are written, from the rows as they are by then.
GenerateProofPack ==
    /\ UiFree
    /\ ui' = [step |-> "proof", risk |-> HighRisk, files |-> ReviewedFiles,
              blocked |-> ApprovalsBlock, report |-> HasReport]
    /\ EvidenceKept /\ UNCHANGED <<status, artifacts, pack, deliveryVars>>

ScoreProofPack ==
    /\ ui.step = "proof"
    /\ ui' = [step  |-> "pack",
              grade |-> Grade(Score(PackValidation, ui.risk, ui.files, ui.blocked, ui.report))]
    /\ EvidenceKept /\ UNCHANGED <<status, artifacts, pack, deliveryVars>>

PersistProofPack ==
    /\ ui.step = "pack"
    /\ pack' = ui.grade /\ ui' = [step |-> "refresh"]
    /\ EvidenceKept /\ UNCHANGED <<status, artifacts, deliveryVars>>

-----------------------------------------------------------------------------
(* The merge.                                                              *)

\* The branches are compared and git is asked for the state of both
\* worktrees; what it says of the target's is used two locks later.
PrepareMerge ==
    /\ UiFree
    /\ \/ \E dirty \in BOOLEAN : ui' = [step |-> "review", dirty |-> dirty]
       \/ ui' = [step |-> "failed"]
    /\ EvidenceKept /\ UNCHANGED <<status, artifacts, pack, deliveryVars>>

MergePrecheck ==
    /\ ui.step = "review"
    /\ ui' = IF CanMerge /\ ~ui.dirty THEN [step |-> "ready"] ELSE Idle
    /\ EvidenceKept /\ UNCHANGED <<status, artifacts, pack, deliveryVars>>

StartMerge ==
    /\ ui.step = "ready"
    /\ status' = "readyToMerge" /\ ui' = [step |-> "git"]
    /\ EvidenceKept /\ UNCHANGED <<artifacts, pack, deliveryVars>>

\* merge_task_branch commits the worktree and merges the branch.  A conflict
\* is aborted; without conflict files the failure is an error.
GitMerge ==
    /\ ui.step = "git"
    /\ \/ /\ target' = target \cup {work}
          /\ ui' = [step |-> "merged", content |-> work, files |-> LatestDiffFiles]
       \/ /\ \E files \in SUBSET ChangedFiles[work] \ {{}} :
                ui' = [step |-> "conflicted", content |-> work, files |-> files]
          /\ UNCHANGED target
       \/ ui' = [step |-> "failed"] /\ UNCHANGED target
    /\ EvidenceKept
    /\ UNCHANGED <<status, artifacts, pack, work, patch, mergeRecords, check>>

MergeRow(u) == [kind |-> "merge", uuid |-> u, files |-> ui.files,
                diff |-> FALSE, report |-> TRUE]

\* Mutant: what cannot be recorded is settled all the same.
RecordMergeAnyhow ==
    /\ ui.step \in {"merged", "conflicted"}
    /\ UNCHANGED <<artifacts, mergeRecords>>
    /\ ui' = [step |-> "settle",
              next |-> IF ui.step = "merged" THEN "merged" ELSE "needsIntervention"]
    /\ EvidenceKept /\ UNCHANGED <<status, pack, work, patch, target, check>>

RecordMerge ==
    /\ ui.step \in {"merged", "conflicted"}
    /\ \E u \in Uuids : NewArtifact(MergeRow(u))
    /\ mergeRecords' = mergeRecords \cup {[status |-> ui.step, content |-> ui.content]}
    /\ ui' = [step |-> "settle",
              next |-> IF ui.step = "merged" THEN "merged" ELSE "needsIntervention"]
    /\ EvidenceKept /\ UNCHANGED <<status, pack, work, patch, target, check>>

\* The file, the artifact or the record cannot be written.
RecordMergeFails ==
    /\ ui.step \in {"merged", "conflicted"}
    /\ \/ UNCHANGED artifacts
       \/ \E u \in Uuids : NewArtifact(MergeRow(u))
    /\ ui' = [step |-> "failed"]
    /\ EvidenceKept /\ UNCHANGED <<status, pack, deliveryVars>>

MergeFailed ==
    /\ ui.step = "failed"
    /\ status' = "needsIntervention" /\ ui' = Idle
    /\ EvidenceKept /\ UNCHANGED <<artifacts, pack, deliveryVars>>

SettleMerge ==
    /\ ui.step = "settle"
    /\ status' = ui.next /\ ui' = Idle
    /\ EvidenceKept /\ UNCHANGED <<artifacts, pack, deliveryVars>>

-----------------------------------------------------------------------------
(* Other threads.                                                          *)

Edit(content) ==
    /\ work' = content
    /\ UNCHANGED <<reviewVars, patch, target, mergeRecords, check>>

StartValidation(command, cwd) ==
    /\ StoreFree /\ check = NoCheck /\ Len(runs) < MaxRuns
    /\ check' = [stage |-> "running", command |-> command, cwd |-> cwd]
    /\ status' = "validating"
    /\ UNCHANGED <<ui, runs, artifacts, pack, approvals, budget, ledgerBlocked, recorded,
                   evidenceVars, work, patch, target, mergeRecords>>

EndValidation(passed) ==
    /\ StoreFree /\ check.stage = "running"
    /\ runs' = Append(runs, [command |-> check.command, cwd |-> check.cwd, passed |-> passed])
    /\ check' = [stage |-> "ended", passed |-> passed]
    /\ UNCHANGED <<status, ui, artifacts, pack, approvals, budget, ledgerBlocked, recorded,
                   evidenceVars, work, patch, target, mergeRecords>>

RecordRound ==
    /\ StoreFree /\ check.stage = "ended"
    /\ status' \in IF check.passed THEN {"readyToMerge"} ELSE {"repairing", "needsIntervention"}
    /\ check' = NoCheck
    /\ UNCHANGED <<ui, runs, artifacts, pack, approvals, budget, ledgerBlocked, recorded,
                   evidenceVars, work, patch, target, mergeRecords>>

SyncAgent ==
    /\ StoreFree
    /\ status' \in AgentStatuses
    /\ UNCHANGED <<ui, runs, artifacts, pack, approvals, budget, ledgerBlocked, recorded,
                   evidenceVars, deliveryVars>>

\* The startup puts a task that was at work before the user.
Restart ==
    /\ status' = IF status \in {"editing", "validating", "repairing"}
                   THEN "needsIntervention" ELSE status
    /\ ui' = Idle /\ check' = NoCheck
    /\ EvidenceKept /\ UNCHANGED <<artifacts, pack, work, patch, target, mergeRecords>>

-----------------------------------------------------------------------------
Review == Refresh \/ WriteStatus \/ RecordEvidence \/ Decide \/ Observe

Deliver ==
    \/ GenerateDiff \/ RecordDiff \/ GenerateDelivery \/ RecordDelivery
    \/ GenerateProofPack \/ ScoreProofPack \/ PersistProofPack

Merge ==
    \/ PrepareMerge \/ MergePrecheck \/ StartMerge \/ GitMerge
    \/ RecordMerge \/ RecordMergeFails \/ MergeFailed \/ SettleMerge

Agent ==
    \/ \E content \in Contents : Edit(content)
    \/ \E command \in Commands, cwd \in Directories : StartValidation(command, cwd)
    \/ \E passed \in BOOLEAN : EndValidation(passed)
    \/ RecordRound \/ SyncAgent

Next ==
    \/ Review /\ UNCHANGED deliveryVars
    \/ Deliver \/ Merge \/ Agent \/ Restart

Spec == Init /\ [][Next]_vars

-----------------------------------------------------------------------------
Steps == {"idle", "refresh", "status", "decided", "breached", "diff", "report", "proof",
          "pack", "review", "ready", "git", "merged", "conflicted", "settle", "failed"}

\* What the rows and the step of the window's thread consist of.
TypeOK ==
    /\ ui.step \in Steps
    /\ runs \in Seq(RunRows) /\ artifacts \subseteq Artifacts
    /\ gates \subseteq GateRows /\ rules \subseteq RuleRows /\ hookRuns \subseteq HookRunRows
    /\ hookApprovals \in [HookAsked -> Decisions]
    /\ approvals \in [Asked -> Decisions] /\ breaches \in [Asked -> Decisions]
    /\ work \in Contents /\ target \subseteq Contents /\ mergeRecords \subseteq MergeRecords

Merges == ui.step = "git" /\ ui'.step = "merged"

\* Nothing that the user has recorded or refused stands against the work when
\* git merges it: between the review and git no gate, rule or hook is recorded
\* and no approval refused, although each is recorded by a command of its own.
MergePassedReview ==
    [][Merges =>
          /\ \A g \in gates : g.status = "passed" \/ g.overridden
          /\ "blocked" \notin rules
          /\ \A h \in HookAsked : hookApprovals[h] \in {"none", "approved"}
          /\ \A r \in hookRuns :
                r.status = "blocked" => \E h \in HookAsked : r.approval = h /\ hookApprovals[h] = "approved"
          /\ \A a \in Asked : "rejected" \notin {approvals[a], breaches[a]}]_vars

\* A task has the status of a merge only with a record of one, and each record
\* of a merge names what the target branch really has, wherever git, the
\* record or the status fails or the application stops between them
\* (merge_task_inner).  A merge without a record is EveryMergeIsRecorded.
MergedIsOnRecord ==
    /\ status = "merged" => \E r \in mergeRecords : r.status = "merged"
    /\ \A r \in mergeRecords : r.status = "merged" => r.content \in target

\* A contract breach is settled as its approval was decided, whichever of the
\* statements of a decision is the last one that succeeds.
BreachFollowsApproval ==
    \A a \in Asked : breaches[a] \in {"approved", "rejected"} => approvals[a] = breaches[a]

-----------------------------------------------------------------------------
(* What the documents say of a merge.                                      *)

\* docs/s12/final-launch-prd.md:299: nothing is merged whose final diff, the
\* one that was generated and recorded last, is empty.
FinalDiffNotEmpty == [][Merges /\ patch.stage = "recorded" => patch.files # {}]_vars

\* docs/s12/final-launch-prd.md:313: once a merge has succeeded a merge record
\* must be made.  What git has merged into the target is on record, unless
\* merge_task_inner is at it or has put the task before the user.
EveryMergeIsRecorded ==
    \A content \in target \ {Base} :
        \/ ui.step \in {"merged", "failed"} \/ status = "needsIntervention"
        \/ \E r \in mergeRecords : r.status = "merged" /\ r.content = content
=============================================================================
