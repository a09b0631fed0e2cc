-------------------------- MODULE TaskDeliveryProofs --------------------------
(***************************************************************************)
(* Proofs about TaskDelivery, for any contents, approvals, rows of         *)
(* evidence and numbers of merges.                                         *)
(***************************************************************************)
EXTENDS TaskDelivery, TLAPS

OnRecord == \E r \in mergeRecords : r.status = "merged"

\* MergedIsOnRecord and what a merge under way has of it: git's result names
\* what the target has, and only a record leads to the status.
MergeInv ==
    /\ status = "merged" => OnRecord
    /\ \A r \in mergeRecords : r.status = "merged" => r.content \in target
    /\ ui.step = "merged" => ui.content \in target
    /\ ui.step = "settle" /\ ui.next = "merged" => OnRecord
    /\ ui.step = "status" => ui.next # "merged"

\* BreachFollowsApproval and what a decision under way has of it.
BreachInv ==
    /\ approvals \in [Asked -> Decisions] /\ breaches \in [Asked -> Decisions]
    /\ BreachFollowsApproval
    /\ ui.step = "decided" => /\ ui.approval \in Asked
                              /\ ui.decision \in {"approved", "rejected"}
                              /\ approvals[ui.approval] = ui.decision

\* Nothing that commands of the window record stands against the work.
Clear ==
    /\ \A g \in gates : g.status = "passed" \/ g.overridden
    /\ "blocked" \notin rules
    /\ \A h \in HookAsked : hookApprovals[h] \in {"none", "approved"}
    /\ \A r \in hookRuns :
          r.status = "blocked" => \E h \in HookAsked : r.approval = h /\ hookApprovals[h] = "approved"
    /\ \A a \in Asked : "rejected" \notin {approvals[a], breaches[a]}

\* From the review until git has merged it stays so.
ReviewInv ==
    /\ approvals \in [Asked -> Decisions] /\ breaches \in [Asked -> Decisions]
    /\ hookApprovals \in [HookAsked -> Decisions]
    /\ hookRuns \subseteq HookRunRows
    /\ ui.step \in {"ready", "git"} => Clear

\* TypeOK and what the step of the window's thread and the validation that
\* runs carry into the rows.
TypeInv ==
    /\ TypeOK
    /\ ui.step \in {"diff", "report", "merged", "conflicted"} => ui.files \subseteq Files
    /\ ui.step = "report" => ui.diff \in BOOLEAN
    /\ ui.step \in {"merged", "conflicted"} => ui.content \in Contents
    /\ ui.step = "decided" => ui.approval \in Asked /\ ui.decision \in {"approved", "rejected"}
    /\ check.stage = "running" => check.command \in Commands /\ check.cwd \in Directories
    /\ check.stage = "running" \/ check.stage = "ended" \/ check = NoCheck

-----------------------------------------------------------------------------
(* Merged tasks are on record.                                             *)

LEMMA MergeInvInit == Init => MergeInv
BY DEF Init, MergeInv, Idle

LEMMA MergeInvNext == MergeInv /\ [Next]_vars => MergeInv'
<1> SUFFICES ASSUME MergeInv, [Next]_vars PROVE MergeInv'
  OBVIOUS
<1> USE DEF MergeInv, OnRecord
<1>1. CASE Refresh /\ UNCHANGED deliveryVars
  BY <1>1 DEF Refresh, deliveryVars, Idle
<1>2. CASE WriteStatus /\ UNCHANGED deliveryVars
  BY <1>2 DEF WriteStatus, deliveryVars, Idle
<1>3. CASE RecordEvidence /\ UNCHANGED deliveryVars
  BY <1>3 DEF RecordEvidence, RecordGate, OverrideGate, RecordRule, RecordHookRun,
     RequestHookApproval, ResolveHookApproval, RecordModelArenaDecision, Recorded,
     Updated, Written, deliveryVars
<1>4. CASE Decide /\ UNCHANGED deliveryVars
  <2>1. CASE \E a \in Asked : RecordBreach(a)
    BY <1>4, <2>1 DEF RecordBreach, deliveryVars
  <2>2. CASE \E a \in Asked, d \in {"approved", "rejected"} : DecideApproval(a, d)
    BY <1>4, <2>2 DEF DecideApproval, deliveryVars
  <2>3. CASE DecideBreach \/ DecideStatus \/ StatementFails
    BY <1>4, <2>3 DEF DecideBreach, DecideStatus, StatementFails, Idle, deliveryVars
  <2> QED  BY <1>4, <2>1, <2>2, <2>3 DEF Decide
<1>5. CASE Observe /\ UNCHANGED deliveryVars
  BY <1>5 DEF Observe, ObserveTokens, ObserveContext, AskApproval, deliveryVars
<1>6. CASE Deliver
  BY <1>6 DEF Deliver, GenerateDiff, RecordDiff, GenerateDelivery, RecordDelivery,
     GenerateProofPack, ScoreProofPack, PersistProofPack, deliveryVars, Idle
<1>7. CASE Merge
  <2>1. CASE PrepareMerge \/ MergePrecheck \/ StartMerge \/ MergeFailed \/ SettleMerge
    BY <1>7, <2>1 DEF PrepareMerge, MergePrecheck, StartMerge, MergeFailed, SettleMerge,
       deliveryVars, Idle
  <2>2. CASE GitMerge
    BY <2>2 DEF GitMerge
  <2>3. CASE RecordMerge
    <3> DEFINE row == [status |-> ui.step, content |-> ui.content]
    <3>1. /\ mergeRecords' = mergeRecords \cup {row}
          /\ row.status = ui.step /\ row.content = ui.content
          /\ UNCHANGED <<status, target>>
          /\ ui'.step = "settle"
          /\ ui'.next = IF ui.step = "merged" THEN "merged" ELSE "needsIntervention"
      BY <2>3 DEF RecordMerge
    <3>2. OnRecord \/ ui.step = "merged" => OnRecord'
      BY <3>1
    <3>3. \A r \in mergeRecords' : r.status = "merged" => r.content \in target'
      BY <3>1
    <3> QED  BY <3>1, <3>2, <3>3
  <2>4. CASE RecordMergeFails
    BY <2>4 DEF RecordMergeFails, deliveryVars
  <2> QED  BY <1>7, <2>1, <2>2, <2>3, <2>4 DEF Merge
<1>8. CASE Agent
  <2>1. CASE \E c \in Contents : Edit(c)
    BY <2>1 DEF Edit, reviewVars
  <2>2. CASE \E command \in Commands, cwd \in Directories : StartValidation(command, cwd)
    BY <2>2 DEF StartValidation
  <2>3. CASE \E passed \in BOOLEAN : EndValidation(passed)
    BY <2>3 DEF EndValidation
  <2>4. CASE RecordRound
    BY <2>4 DEF RecordRound
  <2>5. CASE SyncAgent
    BY <2>5, DeliveryAssumption DEF SyncAgent, deliveryVars
  <2> QED  BY <1>8, <2>1, <2>2, <2>3, <2>4, <2>5 DEF Agent
<1>9. CASE Restart
  BY <1>9 DEF Restart, Idle
<1>10. CASE UNCHANGED vars
  BY <1>10 DEF vars, reviewVars, deliveryVars
<1> QED
  BY <1>1, <1>2, <1>3, <1>4, <1>5, <1>6, <1>7, <1>8, <1>9, <1>10 DEF Next, Review

\* A task has the status of a merge only with a record of one, and each record
\* of a merge names what the target has (merge_task_inner, record_merge_result).
THEOREM MergesOnRecord == Spec => []MergedIsOnRecord
<1>1. MergeInv => MergedIsOnRecord
  BY DEF MergeInv, OnRecord, MergedIsOnRecord
<1> QED  BY <1>1, MergeInvInit, MergeInvNext, PTL DEF Spec

-----------------------------------------------------------------------------
(* Breaches follow their approvals.                                        *)

LEMMA BreachInvInit == Init => BreachInv
BY DEF Init, BreachInv, BreachFollowsApproval, Decisions, Idle

\* The commands that leave approvals and breaches alone, and do not begin to
\* decide one.
Undecided ==
    UNCHANGED <<approvals, breaches>> /\ (ui'.step = "decided" => ui' = ui)

LEMMA UndecidedKeeps == BreachInv /\ Undecided => BreachInv'
BY DEF BreachInv, BreachFollowsApproval, Undecided

LEMMA BreachInvNext == BreachInv /\ [Next]_vars => BreachInv'
<1> SUFFICES ASSUME BreachInv, [Next]_vars PROVE BreachInv'
  OBVIOUS
<1>1. CASE Refresh \/ WriteStatus
  BY <1>1, UndecidedKeeps DEF Undecided, Refresh, WriteStatus, evidenceVars, Idle
<1>2. CASE RecordEvidence
  BY <1>2, UndecidedKeeps DEF Undecided, RecordEvidence, RecordGate, OverrideGate, RecordRule,
     RecordHookRun, RequestHookApproval, ResolveHookApproval, RecordModelArenaDecision,
     Recorded, Updated, Written, evidenceVars
<1>3. CASE Decide
  <2>1. ASSUME NEW a \in Asked, RecordBreach(a) PROVE BreachInv'
    BY <2>1 DEF RecordBreach, BreachInv, BreachFollowsApproval, Decisions
  <2>2. ASSUME NEW a \in Asked, NEW d \in {"approved", "rejected"}, DecideApproval(a, d)
        PROVE  BreachInv'
    <3>1. /\ approvals[a] = "pending" /\ approvals' = [approvals EXCEPT ![a] = d]
          /\ UNCHANGED breaches
          /\ ui' = [step |-> "decided", approval |-> a, decision |-> d]
      BY <2>2 DEF DecideApproval, evidenceVars
    <3>2. breaches[a] \notin {"approved", "rejected"}
      BY <3>1 DEF BreachInv, BreachFollowsApproval
    <3> QED  BY <3>1, <3>2 DEF BreachInv, BreachFollowsApproval, Decisions
  <2>3. CASE DecideBreach
    BY <1>3, <2>3 DEF DecideBreach, BreachInv, BreachFollowsApproval, Decisions
  <2>4. CASE DecideStatus \/ StatementFails
    BY <2>4, UndecidedKeeps DEF Undecided, DecideStatus, StatementFails, evidenceVars, Idle
  <2> QED  BY <1>3, <2>1, <2>2, <2>3, <2>4 DEF Decide
<1>4. CASE Observe
  <2>1. ASSUME NEW a \in Asked, NEW breach \in BOOLEAN, AskApproval(a, breach)
        PROVE  BreachInv'
    BY <2>1 DEF AskApproval, StoreFree, BreachInv, BreachFollowsApproval, Decisions
  <2>2. CASE \E e \in Estimates : ObserveTokens(e)
    BY <2>2, UndecidedKeeps DEF Undecided, ObserveTokens, evidenceVars
  <2>3. CASE \E b \in BOOLEAN : ObserveContext(b)
    BY <2>3, UndecidedKeeps DEF Undecided, ObserveContext, evidenceVars
  <2> QED  BY <1>4, <2>1, <2>2, <2>3 DEF Observe
<1>5. CASE Deliver
  BY <1>5, UndecidedKeeps DEF Undecided, Deliver, GenerateDiff, RecordDiff, GenerateDelivery,
     RecordDelivery, GenerateProofPack, ScoreProofPack, PersistProofPack, EvidenceKept,
     evidenceVars, Idle
<1>6. CASE Merge
  BY <1>6, UndecidedKeeps DEF Undecided, Merge, PrepareMerge, MergePrecheck, StartMerge,
     GitMerge, RecordMerge, RecordMergeFails, MergeFailed, SettleMerge, EvidenceKept,
     evidenceVars, Idle
<1>7. CASE Agent
  BY <1>7, UndecidedKeeps DEF Undecided, Agent, Edit, StartValidation, EndValidation,
     RecordRound, SyncAgent, reviewVars, evidenceVars
<1>8. CASE Restart
  BY <1>8, UndecidedKeeps DEF Undecided, Restart, EvidenceKept, evidenceVars, Idle
<1>9. CASE UNCHANGED vars
  BY <1>9, UndecidedKeeps DEF Undecided, vars, reviewVars, evidenceVars
<1> QED
  BY <1>1, <1>2, <1>3, <1>4, <1>5, <1>6, <1>7, <1>8, <1>9 DEF Next, Review

\* Whichever statement of a decision is the last that succeeds, a breach is
\* only ever settled the way its approval was (decide_approval).
THEOREM BreachesFollow == Spec => []BreachFollowsApproval
<1>1. BreachInv => BreachFollowsApproval
  BY DEF BreachInv
<1> QED  BY <1>1, BreachInvInit, BreachInvNext, PTL DEF Spec
-----------------------------------------------------------------------------
(* What the user has recorded is heeded.                                   *)

LEMMA ReviewInvInit == Init => ReviewInv
BY DEF Init, ReviewInv, Decisions, HookRunRows, Idle

\* A review that passes finds nothing that stands against the work.
LEMMA ReviewClears == ReviewInv /\ CanMerge => Clear
<1> SUFFICES ASSUME ReviewInv, CanMerge PROVE Clear
  OBVIOUS
<1>1. \A g \in gates : g.status = "passed" \/ g.overridden
  BY DEF CanMerge, GateBlocks
<1>2. \A h \in HookAsked : hookApprovals[h] \in {"none", "approved"}
  BY DEF CanMerge, HookBlocks, ReviewInv, Decisions
<1>3. ASSUME NEW r \in hookRuns, r.status = "blocked"
      PROVE  \E h \in HookAsked : r.approval = h /\ hookApprovals[h] = "approved"
  <2>1. r.approval # NoApproval /\ hookApprovals[r.approval] = "approved"
    BY <1>3 DEF CanMerge, HookBlocks
  <2>2. r.approval \in HookAsked \cup {NoApproval}
    BY <1>3 DEF ReviewInv, HookRunRows
  <2> QED  BY <2>1, <2>2
<1>4. \A a \in Asked : "rejected" \notin {approvals[a], breaches[a]}
  BY DEF CanMerge, ApprovalsBlock, ContractBlocks
<1> QED  BY <1>1, <1>2, <1>3, <1>4 DEF Clear, CanMerge, RuleBlocks

\* The steps that leave what Clear reads alone and lead to no merge.
Uninvolved ==
    /\ UNCHANGED <<gates, rules, hookApprovals, hookRuns, approvals, breaches>>
    /\ ui'.step \in {"ready", "git"} => ui.step \in {"ready", "git"}

LEMMA UninvolvedKeeps == ReviewInv /\ Uninvolved => ReviewInv'
BY DEF ReviewInv, Uninvolved, Clear

\* The steps that write what Clear reads leave no merge under way.
LEMMA EvidenceKeeps ==
    ASSUME ReviewInv, RecordEvidence PROVE ReviewInv'
<1> USE DEF ReviewInv, Decisions, HookRunRows
<1>1. UNCHANGED <<approvals, breaches>> /\ ui'.step = "refresh"
  BY DEF RecordEvidence, RecordGate, OverrideGate, RecordRule, RecordHookRun,
     RequestHookApproval, ResolveHookApproval, RecordModelArenaDecision, Recorded,
     Updated, Written, evidenceVars
<1>2. hookApprovals' \in [HookAsked -> Decisions]
  BY DEF RecordEvidence, RecordGate, OverrideGate, RecordRule, RecordHookRun,
     RequestHookApproval, ResolveHookApproval, RecordModelArenaDecision, evidenceVars
<1>3. hookRuns' \subseteq HookRunRows
  <2>1. ASSUME NEW outcome \in {"passed", "blocked"},
               NEW h \in HookAsked \cup {NoApproval}, RecordHookRun(outcome, h)
        PROVE  hookRuns' \subseteq HookRunRows
    BY <2>1 DEF RecordHookRun
  <2>2. CASE ~ \E outcome \in {"passed", "blocked"}, h \in HookAsked \cup {NoApproval} :
                  RecordHookRun(outcome, h)
    BY <2>2 DEF RecordEvidence, RecordGate, OverrideGate, RecordRule,
       RequestHookApproval, ResolveHookApproval, RecordModelArenaDecision, evidenceVars
  <2> QED  BY <2>1, <2>2
<1> QED  BY <1>1, <1>2, <1>3

LEMMA DecideKeeps ==
    ASSUME ReviewInv, BreachInv, Decide PROVE ReviewInv'
<1>1. ASSUME NEW a \in Asked, RecordBreach(a) PROVE ReviewInv'
  BY <1>1 DEF RecordBreach, UiFree, Idle, ReviewInv, Decisions
<1>2. ASSUME NEW a \in Asked, NEW d \in {"approved", "rejected"}, DecideApproval(a, d)
      PROVE  ReviewInv'
  BY <1>2 DEF DecideApproval, evidenceVars, ReviewInv, Decisions
<1>3. CASE DecideBreach
  <2>1. ui.decision \in Decisions
    BY <1>3 DEF DecideBreach, BreachInv, Decisions
  <2> QED  BY <1>3, <2>1 DEF DecideBreach, ReviewInv
<1>4. CASE DecideStatus \/ StatementFails
  BY <1>4, UninvolvedKeeps DEF Uninvolved, DecideStatus, StatementFails, evidenceVars, Idle
<1> QED  BY <1>1, <1>2, <1>3, <1>4 DEF Decide

\* What is asked meanwhile is pending, and nothing that is asked is refused
\* already.
LEMMA AskKeeps ==
    ASSUME ReviewInv, NEW a \in Asked, NEW breach \in BOOLEAN, AskApproval(a, breach)
    PROVE  ReviewInv'
<1>1. /\ approvals' = [approvals EXCEPT ![a] = "pending"]
      /\ breaches' = [breaches EXCEPT ![a] = IF breach THEN "pending" ELSE "none"]
      /\ UNCHANGED <<ui, gates, rules, hookApprovals, hookRuns>>
  BY DEF AskApproval
<1>2. \A b \in Asked : "rejected" \notin {approvals[b], breaches[b]}
                         => "rejected" \notin {approvals'[b], breaches'[b]}
  BY <1>1 DEF ReviewInv
<1>3. approvals' \in [Asked -> Decisions] /\ breaches' \in [Asked -> Decisions]
  BY <1>1 DEF ReviewInv, Decisions
<1> QED  BY <1>1, <1>2, <1>3 DEF ReviewInv, Clear

LEMMA ReviewInvNext == ReviewInv /\ BreachInv /\ [Next]_vars => ReviewInv'
<1> SUFFICES ASSUME ReviewInv, BreachInv, [Next]_vars PROVE ReviewInv'
  OBVIOUS
<1>1. CASE Refresh \/ WriteStatus
  BY <1>1, UninvolvedKeeps DEF Uninvolved, Refresh, WriteStatus, evidenceVars, Idle
<1>2. CASE RecordEvidence
  BY <1>2, EvidenceKeeps
<1>3. CASE Decide
  BY <1>3, DecideKeeps
<1>4. CASE Observe
  <2>1. CASE \E a \in Asked, breach \in BOOLEAN : AskApproval(a, breach)
    BY <2>1, AskKeeps
  <2>2. CASE \E e \in Estimates : ObserveTokens(e)
    BY <2>2, UninvolvedKeeps DEF Uninvolved, ObserveTokens, evidenceVars
  <2>3. CASE \E b \in BOOLEAN : ObserveContext(b)
    BY <2>3, UninvolvedKeeps DEF Uninvolved, ObserveContext, evidenceVars
  <2> QED  BY <1>4, <2>1, <2>2, <2>3 DEF Observe
<1>5. CASE Deliver
  BY <1>5, UninvolvedKeeps DEF Uninvolved, Deliver, GenerateDiff, RecordDiff,
     GenerateDelivery, RecordDelivery, GenerateProofPack, ScoreProofPack,
     PersistProofPack, EvidenceKept, evidenceVars, Idle
<1>6. CASE Merge
  <2>1. CASE MergePrecheck
    <3>1. UNCHANGED <<gates, rules, hookApprovals, hookRuns, approvals, breaches>>
      BY <2>1 DEF MergePrecheck, EvidenceKept, evidenceVars
    <3>2. ui'.step = "ready" => Clear
      BY <2>1, ReviewClears DEF MergePrecheck, Idle
    <3>3. ui'.step \in {"ready", "idle"}
      BY <2>1 DEF MergePrecheck, Idle
    <3> QED  BY <3>1, <3>2, <3>3 DEF ReviewInv, Clear
  <2>2. CASE ~ MergePrecheck
    BY <1>6, <2>2, UninvolvedKeeps DEF Uninvolved, Merge, PrepareMerge, StartMerge,
       GitMerge, RecordMerge, RecordMergeFails, MergeFailed, SettleMerge, EvidenceKept,
       evidenceVars, Idle
  <2> QED  BY <2>1, <2>2
<1>7. CASE Agent
  BY <1>7, UninvolvedKeeps DEF Uninvolved, Agent, Edit, StartValidation, EndValidation,
     RecordRound, SyncAgent, reviewVars, evidenceVars
<1>8. CASE Restart
  BY <1>8, UninvolvedKeeps DEF Uninvolved, Restart, EvidenceKept, evidenceVars, Idle
<1>9. CASE UNCHANGED vars
  BY <1>9, UninvolvedKeeps DEF Uninvolved, vars, reviewVars, evidenceVars
<1> QED
  BY <1>1, <1>2, <1>3, <1>4, <1>5, <1>6, <1>7, <1>8, <1>9 DEF Next, Review

\* When git merges the work, nothing that the user recorded or refused
\* stands against it (merge_task_inner reviews first; the commands that
\* record evidence run on the same thread).
THEOREM MergesPassedReview == Spec => MergePassedReview
<1>1. ReviewInv => (Merges =>
          /\ \A g \in gates : g.status = "passed" \/ g.overridden
          /\ "blocked" \notin rules
          /\ \A h \in HookAsked : hookApprovals[h] \in {"none", "approved"}
          /\ \A r \in hookRuns :
                r.status = "blocked" => \E h \in HookAsked : r.approval = h /\ hookApprovals[h] = "approved"
          /\ \A a \in Asked : "rejected" \notin {approvals[a], breaches[a]})
  BY DEF ReviewInv, Merges, Clear
<1> QED
  BY <1>1, ReviewInvInit, ReviewInvNext, BreachInvInit, BreachInvNext, PTL
  DEF Spec, MergePassedReview
-----------------------------------------------------------------------------
(* Type correctness.                                                       *)

LEMMA TypeInvInit == Init => TypeInv
BY DeliveryAssumption DEF Init, TypeInv, TypeOK, Steps, Decisions, Idle, NoCheck

\* What is read of the artifacts is files of some content.
LEMMA FilesOfArtifacts ==
    ASSUME artifacts \subseteq Artifacts PROVE LatestDiffFiles \subseteq Files
BY DEF LatestDiffFiles, FilesOf, LastOf, Artifacts

LEMMA FilesOfContents == ASSUME NEW c \in Contents PROVE ChangedFiles[c] \subseteq Files
BY DEF Files

\* A new artifact is one more row of its kind.
LEMMA NewArtifactType ==
    ASSUME artifacts \subseteq Artifacts, NEW row \in Artifacts, NewArtifact(row)
    PROVE  artifacts' \subseteq Artifacts
BY DEF NewArtifact

\* The steps that write no row of these, and lead to no step that carries data.
Untyped ==
    /\ UNCHANGED <<runs, artifacts, evidenceVars, approvals, deliveryVars>>
    /\ \/ ui' = ui
       \/ ui'.step \in Steps \ {"diff", "report", "merged", "conflicted", "decided"}

LEMMA UntypedKeeps == TypeInv /\ Untyped => TypeInv'
<1> SUFFICES ASSUME TypeInv, Untyped PROVE TypeInv'
  OBVIOUS
<1>1. UNCHANGED <<runs, artifacts, gates, rules, hookApprovals, hookRuns, approvals, breaches,
                  work, target, mergeRecords, check>>
  BY DEF Untyped, evidenceVars, deliveryVars
<1>2. TypeOK'
  BY <1>1 DEF TypeInv, TypeOK, Untyped
<1> QED  BY <1>1, <1>2 DEF TypeInv, Untyped, Steps

\* The commands that record evidence write rows of their kind.
LEMMA EvidenceTyped ==
    ASSUME TypeInv, RecordEvidence, UNCHANGED deliveryVars PROVE TypeInv'
<1>1. /\ UNCHANGED <<runs, artifacts, approvals, work, target, mergeRecords, check>>
      /\ ui'.step = "refresh"
  BY DEF RecordEvidence, RecordGate, OverrideGate, RecordRule, RecordHookRun,
     RequestHookApproval, ResolveHookApproval, RecordModelArenaDecision, Recorded, Updated,
     Written, deliveryVars
<1>2. gates' \subseteq GateRows
  <2>1. ASSUME NEW o \in {"passed", "failed"}, RecordGate(o) PROVE gates' \subseteq GateRows
    <3>1. [status |-> o, overridden |-> FALSE] \in GateRows
      BY <2>1 DEF GateRows
    <3>2. gates' = gates \cup {[status |-> o, overridden |-> FALSE]}
      BY <2>1 DEF RecordGate
    <3> QED  BY <3>1, <3>2 DEF TypeInv, TypeOK
  <2>2. ASSUME OverrideGate PROVE gates' \subseteq GateRows
    BY <2>2 DEF OverrideGate, TypeInv, TypeOK, GateRows
  <2>3. CASE UNCHANGED gates
    BY <2>3 DEF TypeInv, TypeOK
  <2> QED  BY <2>1, <2>2, <2>3 DEF RecordEvidence, RecordRule, RecordHookRun,
       RequestHookApproval, ResolveHookApproval, RecordModelArenaDecision, evidenceVars
<1>3. rules' \subseteq RuleRows
  BY DEF RecordEvidence, RecordGate, OverrideGate, RecordRule, RecordHookRun,
     RequestHookApproval, ResolveHookApproval, RecordModelArenaDecision, evidenceVars,
     TypeInv, TypeOK
<1>4. hookRuns' \subseteq HookRunRows
  <2>1. ASSUME NEW o \in {"passed", "blocked"}, NEW h \in HookAsked \cup {NoApproval},
               RecordHookRun(o, h)
        PROVE  hookRuns' \subseteq HookRunRows
    BY <2>1 DEF RecordHookRun, TypeInv, TypeOK, HookRunRows
  <2>2. CASE UNCHANGED hookRuns
    BY <2>2 DEF TypeInv, TypeOK
  <2> QED  BY <2>1, <2>2 DEF RecordEvidence, RecordGate, OverrideGate, RecordRule,
       RequestHookApproval, ResolveHookApproval, RecordModelArenaDecision, evidenceVars
<1>5. hookApprovals' \in [HookAsked -> Decisions] /\ UNCHANGED breaches
  BY DEF RecordEvidence, RecordGate, OverrideGate, RecordRule, RecordHookRun,
     RequestHookApproval, ResolveHookApproval, RecordModelArenaDecision, evidenceVars,
     TypeInv, TypeOK, Decisions
<1> QED  BY <1>1, <1>2, <1>3, <1>4, <1>5 DEF TypeInv, TypeOK, Steps

LEMMA DecideTyped ==
    ASSUME TypeInv, Decide, UNCHANGED deliveryVars PROVE TypeInv'
<1> USE DEF TypeInv, TypeOK, Decisions, Steps
<1>1. ASSUME NEW a \in Asked, RecordBreach(a) PROVE TypeInv'
  BY <1>1 DEF RecordBreach, deliveryVars
<1>2. ASSUME NEW a \in Asked, NEW d \in {"approved", "rejected"}, DecideApproval(a, d)
      PROVE  TypeInv'
  BY <1>2 DEF DecideApproval, evidenceVars, deliveryVars
<1>3. CASE DecideBreach
  BY <1>3 DEF DecideBreach, deliveryVars
<1>4. CASE DecideStatus \/ StatementFails
  BY <1>4, UntypedKeeps DEF Untyped, DecideStatus, StatementFails, Idle
<1> QED  BY <1>1, <1>2, <1>3, <1>4 DEF Decide

LEMMA ObserveTyped ==
    ASSUME TypeInv, Observe, UNCHANGED deliveryVars PROVE TypeInv'
<1>1. ASSUME NEW a \in Asked, NEW breach \in BOOLEAN, AskApproval(a, breach)
      PROVE  TypeInv'
  BY <1>1 DEF AskApproval, TypeInv, TypeOK, Decisions, Steps, deliveryVars
<1>2. CASE \E e \in Estimates : ObserveTokens(e)
  BY <1>2, UntypedKeeps DEF Untyped, ObserveTokens
<1>3. CASE \E b \in BOOLEAN : ObserveContext(b)
  BY <1>3, UntypedKeeps DEF Untyped, ObserveContext
<1> QED  BY <1>1, <1>2, <1>3 DEF Observe

\* What a diff, a report or a merge writes is what its step carried.
LEMMA DeliverTyped == ASSUME TypeInv, Deliver PROVE TypeInv'
<1>1. CASE GenerateDiff
  <2>1. ChangedFiles[work] \subseteq Files
    BY FilesOfContents DEF TypeInv, TypeOK
  <2> QED  BY <1>1, <2>1 DEF GenerateDiff, EvidenceKept, evidenceVars, TypeInv, TypeOK, Steps
<1>2. CASE RecordDiff
  <2>1. PICK u \in Uuids : NewArtifact([kind |-> "diff", uuid |-> u, files |-> ui.files,
                                        diff |-> TRUE, report |-> FALSE])
    BY <1>2 DEF RecordDiff
  <2>2. [kind |-> "diff", uuid |-> u, files |-> ui.files, diff |-> TRUE, report |-> FALSE]
            \in Artifacts
    BY <1>2 DEF RecordDiff, TypeInv, Artifacts
  <2>3. artifacts' \subseteq Artifacts
    BY <2>1, <2>2, NewArtifactType DEF TypeInv, TypeOK
  <2> QED  BY <1>2, <2>3 DEF RecordDiff, EvidenceKept, evidenceVars, TypeInv, TypeOK, Steps, Idle
<1>3. CASE GenerateDelivery
  <2>1. LatestDiffFiles \subseteq Files
    BY FilesOfArtifacts DEF TypeInv, TypeOK
  <2>2. ui' = [step |-> "report", files |-> LatestDiffFiles,
               diff |-> patch.stage # "none" \/ \E a \in artifacts : a.diff]
    BY <1>3 DEF GenerateDelivery
  <2>3. ui'.step = "report" /\ ui'.files = LatestDiffFiles /\ ui'.diff \in BOOLEAN
    BY <2>2
  <2> QED  BY <1>3, <2>1, <2>3 DEF GenerateDelivery, EvidenceKept, evidenceVars, deliveryVars,
             TypeInv, TypeOK, Steps
<1>4. CASE RecordDelivery
  <2>1. PICK u \in Uuids : NewArtifact([kind |-> "delivery", uuid |-> u, files |-> ui.files,
                                        diff |-> ui.diff, report |-> TRUE])
    BY <1>4 DEF RecordDelivery
  <2>2. [kind |-> "delivery", uuid |-> u, files |-> ui.files, diff |-> ui.diff, report |-> TRUE]
            \in Artifacts
    BY <1>4 DEF RecordDelivery, TypeInv, Artifacts
  <2>3. artifacts' \subseteq Artifacts
    BY <2>1, <2>2, NewArtifactType DEF TypeInv, TypeOK
  <2> QED  BY <1>4, <2>3 DEF RecordDelivery, EvidenceKept, evidenceVars, deliveryVars, TypeInv,
             TypeOK, Steps
<1>5. CASE GenerateProofPack \/ ScoreProofPack \/ PersistProofPack
  BY <1>5, UntypedKeeps DEF Untyped, GenerateProofPack, ScoreProofPack, PersistProofPack,
     EvidenceKept, Steps
<1> QED  BY <1>1, <1>2, <1>3, <1>4, <1>5 DEF Deliver

LEMMA MergeTyped == ASSUME TypeInv, Merge PROVE TypeInv'
<1>1. CASE PrepareMerge \/ MergePrecheck \/ StartMerge \/ MergeFailed
  BY <1>1, UntypedKeeps DEF Untyped, PrepareMerge, MergePrecheck, StartMerge, MergeFailed,
     EvidenceKept, Steps, Idle
<1>2. CASE SettleMerge
  BY <1>2, UntypedKeeps DEF Untyped, SettleMerge, EvidenceKept, Steps, Idle
<1>3. CASE GitMerge
  <2>1. /\ UNCHANGED <<runs, artifacts, gates, rules, hookApprovals, hookRuns, approvals,
                       breaches, work, mergeRecords, check>>
        /\ target' \in {target, target \cup {work}}
    BY <1>3 DEF GitMerge, EvidenceKept, evidenceVars
  <2>2. ui'.step \in {"merged", "conflicted"}
            => ui'.content = work /\ ui'.files \in {LatestDiffFiles} \cup SUBSET ChangedFiles[work]
    BY <1>3 DEF GitMerge
  <2>3. ui'.step \in {"merged", "conflicted", "failed"}
    BY <1>3 DEF GitMerge
  <2>4. LatestDiffFiles \subseteq Files /\ ChangedFiles[work] \subseteq Files
    BY FilesOfArtifacts, FilesOfContents DEF TypeInv, TypeOK
  <2> QED  BY <2>1, <2>2, <2>3, <2>4 DEF TypeInv, TypeOK, Steps
<1>4. ASSUME ui.step \in {"merged", "conflicted"}, NEW u \in Uuids, NewArtifact(MergeRow(u))
      PROVE  artifacts' \subseteq Artifacts
  <2>1. MergeRow(u) \in Artifacts
    BY <1>4 DEF MergeRow, Artifacts, TypeInv
  <2> QED  BY <1>4, <2>1, NewArtifactType DEF TypeInv, TypeOK
<1>5. CASE RecordMerge
  <2>1. artifacts' \subseteq Artifacts
    BY <1>5, <1>4 DEF RecordMerge
  <2>2. [status |-> ui.step, content |-> ui.content] \in MergeRecords
    BY <1>5 DEF RecordMerge, MergeRecords, TypeInv
  <2>3. mergeRecords' \subseteq MergeRecords
    BY <1>5, <2>2 DEF RecordMerge, TypeInv, TypeOK
  <2> QED  BY <1>5, <2>1, <2>3 DEF RecordMerge, EvidenceKept, evidenceVars, TypeInv, TypeOK, Steps
<1>6. CASE RecordMergeFails
  <2>1. artifacts' \subseteq Artifacts
    BY <1>6, <1>4 DEF RecordMergeFails, TypeInv, TypeOK
  <2> QED  BY <1>6, <2>1 DEF RecordMergeFails, EvidenceKept, evidenceVars, deliveryVars, TypeInv,
             TypeOK, Steps
<1> QED  BY <1>1, <1>2, <1>3, <1>5, <1>6 DEF Merge

LEMMA AgentTyped == ASSUME TypeInv, Agent PROVE TypeInv'
<1> USE DEF TypeInv, TypeOK
<1>1. ASSUME NEW c \in Contents, Edit(c) PROVE TypeInv'
  BY <1>1 DEF Edit, reviewVars, evidenceVars
<1>2. ASSUME NEW command \in Commands, NEW cwd \in Directories, StartValidation(command, cwd)
      PROVE  TypeInv'
  BY <1>2 DEF StartValidation, evidenceVars
<1>3. ASSUME NEW passed \in BOOLEAN, EndValidation(passed) PROVE TypeInv'
  <2> DEFINE row == [command |-> check.command, cwd |-> check.cwd, passed |-> passed]
  <2>1. row \in RunRows
    BY <1>3 DEF EndValidation, RunRows
  <2>2. runs' = Append(runs, row)
    BY <1>3 DEF EndValidation
  <2>3. runs' \in Seq(RunRows)
    BY <2>1, <2>2
  <2> QED  BY <1>3, <2>3 DEF EndValidation, evidenceVars
<1>4. CASE RecordRound
  BY <1>4 DEF RecordRound, evidenceVars, NoCheck
<1>5. CASE SyncAgent
  BY <1>5, UntypedKeeps DEF Untyped, SyncAgent
<1> QED  BY <1>1, <1>2, <1>3, <1>4, <1>5 DEF Agent

LEMMA TypeInvNext == TypeInv /\ [Next]_vars => TypeInv'
<1> SUFFICES ASSUME TypeInv, [Next]_vars PROVE TypeInv'
  OBVIOUS
<1>1. CASE (Refresh \/ WriteStatus) /\ UNCHANGED deliveryVars
  BY <1>1, UntypedKeeps DEF Untyped, Refresh, WriteStatus, Idle, Steps
<1>2. CASE Restart
  BY <1>2 DEF Restart, EvidenceKept, evidenceVars, Idle, NoCheck, TypeInv, TypeOK, Steps
<1>3. CASE UNCHANGED vars
  BY <1>3, UntypedKeeps DEF Untyped, vars, reviewVars, evidenceVars, deliveryVars
<1> QED
  BY <1>1, <1>2, <1>3, EvidenceTyped, DecideTyped, ObserveTyped, DeliverTyped, MergeTyped,
     AgentTyped DEF Next, Review

\* Rows are rows of their kind, and each step of the window's thread has what
\* it writes into them: no row is recorded with a field of another step.
THEOREM TypeCorrect == Spec => []TypeOK
<1>1. TypeInv => TypeOK
  BY DEF TypeInv
<1> QED  BY <1>1, TypeInvInit, TypeInvNext, PTL DEF Spec
=============================================================================
