-------------------------- MODULE AgentRepairProofs --------------------------
(***************************************************************************)
(* Proofs about a task of the older workflows, for any commands at work on *)
(* it, any numbers of repairs and commits, and any loss of requests.       *)
(***************************************************************************)
EXTENDS AgentRepair, FiniteSetTheorems, TLAPS

Phases == {"created", "planned", "failed", "waiting_approval", "completed", "validating",
           "awaiting_file_commit", "needs_intervention", "editing", "repairing"}

Results == {"none", "passed", "failed", "stopped"}

AllApprovals == [kind : {"none", "general", "delete"},
                 status : {"none", "pending", "approved", "rejected"},
                 round : Nat, stale : BOOLEAN]

AgentStates ==
    [version : {1, 2}, phase : Phases, planned : BOOLEAN, plan : {"none", "plain", "delete"},
     applied : BOOLEAN, pending : Nat, ids : Nat, asks : BOOLEAN, approval : AllApprovals,
     request : BOOLEAN, result : Results, round : Nat, edits : SUBSET Nat]

Views == [commit : 0..MaxCommits, delete : BOOLEAN, round : Nat, request : BOOLEAN]

Heading == [step : {"advance", "run", "post"}, runs : 0..MaxRuns, ask : BOOLEAN, result : Results]
Told    == [step : {"settle", "edit", "report", "report_failed", "sync"}, runs : 0..MaxRuns,
            seen : Views]

TypeOK ==
    /\ agent \in AgentStates
    /\ rows \in [Commits -> [status : {"none", "open", "committed", "rolled_back"},
                             delete : BOOLEAN, round : Nat]]
    /\ client \in [Clients -> {Idle} \cup Heading \cup Told]
    /\ granted \subseteq Nat
    /\ crashes \in Nat

-----------------------------------------------------------------------------
(* The inductive invariant.                                                *)

\* Rounds and edits of a checkpoint are in step: as long as the edits of a
\* round are not applied, there are no more than one for each earlier round.
InStep(s) ==
    /\ s.pending <= s.ids
    /\ s.round <= MaxRepairs
    /\ IsFiniteSet(s.edits)
    /\ Cardinality(s.edits) <= s.round + 1
    /\ ~s.applied => Cardinality(s.edits) <= s.round

\* A checkpoint only says "approved" of deletions in the rounds G, and only
\* waits for the commit of a deletion that was approved in its own round.
Permitted(s, G) ==
    /\ s.approval.kind = "delete" /\ s.approval.status = "approved" => s.approval.round \in G
    /\ s.phase = "awaiting_file_commit" =>
          ~s.applied /\ (s.plan = "delete" => s.round \in G)

Sound(s, G) == s \in AgentStates /\ InStep(s) /\ Permitted(s, G)

\* What commands were told of deletions was true, and stays true.
ToldInv ==
    \A k \in Clients : client[k] \in Told /\ client[k].seen.delete
                         => client[k].seen.round \in granted

\* A transaction is carried out by one command, and reported as it ended.
Reported(k) == At(k, "report") =>
    client[k].seen.commit \in Commits /\ rows[client[k].seen.commit].status = "committed"

Edited(k) == At(k, "edit") =>
    client[k].seen.commit \in Commits /\ rows[client[k].seen.commit].status = "open"

CommitInv ==
    /\ \A k \in Clients : Reported(k) /\ Edited(k)
    /\ \A j, k \in Clients : At(j, "edit") /\ At(k, "edit") /\ j # k
                               => client[j].seen.commit # client[k].seen.commit

EditsInv == agent.edits \subseteq Commits

AgentInv == Sound(agent, granted)

IInv == /\ TypeOK
        /\ AgentInv
        /\ ToldInv
        /\ CommitInv
        /\ EditsInv
        /\ AppliedWereCommitted
        /\ DeletesWereApproved

-----------------------------------------------------------------------------
(* What the nodes of the graph leave of a sound state.                     *)

\* t follows s within one request: the edits are those of s.
Follows(s, t, G) == Sound(t, G) /\ t.edits = s.edits

\* A step that leaves the counters, the record of edits and the approval
\* alone, and does not begin to wait for a commit.
LEMMA Quiet ==
    ASSUME NEW G, NEW s, NEW t, Sound(s, G), t \in AgentStates,
           t.pending = s.pending, t.ids = s.ids, t.round = s.round, t.edits = s.edits,
           t.applied = s.applied, t.approval = s.approval,
           t.phase # "awaiting_file_commit" \/ (t.phase = s.phase /\ t.plan = s.plan)
    PROVE  Follows(s, t, G)
BY DEF Sound, InStep, Permitted, Follows

LEMMA PlanKeeps ==
    ASSUME NEW G, NEW s, Sound(s, G), NEW t \in PlanNode(s)
    PROVE  Follows(s, t, G) /\ t.phase # "awaiting_file_commit"
<1>1. s \in AgentStates
  BY DEF Sound
<1>2. \/ t = s /\ s.phase # "awaiting_file_commit"
      \/ t = [s EXCEPT !.phase = "planned", !.planned = TRUE]
      \/ t = [s EXCEPT !.phase = "failed"]
  BY DEF PlanNode
<1>3. CASE t = s /\ s.phase # "awaiting_file_commit"
  BY <1>3 DEF Follows
<1>4. CASE t = [s EXCEPT !.phase = "planned", !.planned = TRUE]
  BY <1>1, <1>4, Quiet DEF AgentStates, Phases
<1>5. CASE t = [s EXCEPT !.phase = "failed"]
  BY <1>1, <1>5, Quiet DEF AgentStates, Phases
<1> QED
  BY <1>2, <1>3, <1>4, <1>5

\* An approval that is asked for is not given yet.
LEMMA AskIsOpen ==
    ASSUME NEW s \in AgentStates, NEW kind \in {"general", "delete"}
    PROVE  Ask(s, kind) \in AllApprovals /\ Ask(s, kind).status = "pending"
BY DEF Ask, AllApprovals, AgentStates

LEMMA Asking ==
    ASSUME NEW G, NEW s, NEW t, Sound(s, G), t \in AgentStates,
           t.pending = s.pending, t.ids = s.ids, t.round = s.round, t.edits = s.edits,
           t.applied = s.applied, t.approval.status = "pending" \/ t.approval = s.approval,
           t.phase = "waiting_approval"
    PROVE  Follows(s, t, G)
BY DEF Sound, InStep, Permitted, Follows

LEMMA ApprovalKeeps ==
    ASSUME NEW G, NEW s, Sound(s, G), s.phase # "awaiting_file_commit"
    PROVE  Follows(s, ApprovalNode(s), G) /\ ApprovalNode(s).phase # "awaiting_file_commit"
<1> DEFINE t == ApprovalNode(s)
<1>1. s \in AgentStates
  BY DEF Sound
<1>2. \/ t = s
      \/ \E p \in {"planned", "failed", "waiting_approval"} : t = [s EXCEPT !.phase = p]
      \/ t = [s EXCEPT !.phase = "waiting_approval", !.approval = Ask(s, "general")]
  BY DEF ApprovalNode
<1> HIDE DEF t
<1>3. ASSUME t = s
      PROVE  Follows(s, t, G) /\ t.phase # "awaiting_file_commit"
  BY <1>3 DEF Follows
<1>4. ASSUME NEW p \in {"planned", "failed", "waiting_approval"}, t = [s EXCEPT !.phase = p]
      PROVE  Follows(s, t, G) /\ t.phase # "awaiting_file_commit"
  BY <1>1, <1>4, Quiet DEF AgentStates, Phases
<1>5. ASSUME t = [s EXCEPT !.phase = "waiting_approval", !.approval = Ask(s, "general")]
      PROVE  Follows(s, t, G) /\ t.phase # "awaiting_file_commit"
  <2>1. Ask(s, "general") \in AllApprovals /\ Ask(s, "general").status = "pending"
    BY <1>1, AskIsOpen
  <2>2. /\ t \in AgentStates /\ t.approval = Ask(s, "general") /\ t.phase = "waiting_approval"
        /\ t.pending = s.pending /\ t.ids = s.ids /\ t.round = s.round
        /\ t.edits = s.edits /\ t.applied = s.applied
    BY <1>1, <1>5, <2>1 DEF AgentStates, Phases
  <2> QED
    BY <2>1, <2>2, Asking
<1> QED
  BY <1>2, <1>3, <1>4, <1>5 DEF t

-----------------------------------------------------------------------------
(* The edit node.                                                          *)

LEMMA AskDeleteKeeps ==
    ASSUME NEW G, NEW s, Sound(s, G)
    PROVE  Follows(s, AskDelete(s), G)
<1> DEFINE t == AskDelete(s)
<1>1. s \in AgentStates
  BY DEF Sound
<1>2. PICK a : /\ a = s.approval \/ a = Ask(s, "delete")
              /\ t = [s EXCEPT !.phase = "waiting_approval", !.asks = TRUE, !.approval = a]
  BY DEF AskDelete
<1> HIDE DEF t
<1>3. a \in AllApprovals /\ (a.status = "pending" \/ a = s.approval)
  BY <1>1, <1>2, AskIsOpen DEF AgentStates
<1>4. /\ t \in AgentStates /\ t.approval = a /\ t.phase = "waiting_approval"
      /\ t.pending = s.pending /\ t.ids = s.ids /\ t.round = s.round
      /\ t.edits = s.edits /\ t.applied = s.applied
  BY <1>1, <1>2, <1>3 DEF AgentStates, Phases
<1>5. Follows(s, t, G)
  BY <1>3, <1>4, Asking
<1> QED
  BY <1>5 DEF t

\* It waits for the commit of edits that are not applied yet, and for a
\* deletion only with the approval of this round.
LEMMA AwaitKeeps ==
    ASSUME NEW G, NEW s, Sound(s, G), ~s.applied, s.plan = "delete" => s.round \in G
    PROVE  Follows(s, AwaitCommit(s), G)
<1> DEFINE t == AwaitCommit(s)
<1>1. s \in AgentStates
  BY DEF Sound
<1>2. PICK p, i : /\ p = IF s.pending = 0 THEN s.ids + 1 ELSE s.pending
                  /\ i = IF s.pending = 0 THEN s.ids + 1 ELSE s.ids
                  /\ t = [s EXCEPT !.phase = "awaiting_file_commit", !.applied = FALSE,
                                   !.asks = FALSE, !.pending = p, !.ids = i]
  BY DEF AwaitCommit
<1> HIDE DEF t
<1>3. p \in Nat /\ i \in Nat /\ p <= i
  BY <1>1, <1>2 DEF AgentStates, Sound, InStep
<1>4. /\ t \in AgentStates /\ t.phase = "awaiting_file_commit" /\ ~t.applied
      /\ t.pending = p /\ t.ids = i /\ t.round = s.round /\ t.plan = s.plan
      /\ t.edits = s.edits /\ t.approval = s.approval
  BY <1>1, <1>2, <1>3 DEF AgentStates, Phases
<1>5. InStep(t)
  BY <1>3, <1>4 DEF Sound, InStep
<1>6. Permitted(t, G)
  BY <1>4 DEF Sound, Permitted
<1> QED
  BY <1>4, <1>5, <1>6 DEF Sound, Follows, t

LEMMA ApprovedDeletion ==
    ASSUME NEW G, NEW s, Sound(s, G), DeleteApproved(s)
    PROVE  s.round \in G
BY DEF Sound, Permitted, DeleteApproved, Matches

LEMMA EditKeeps ==
    ASSUME NEW G, NEW s, Sound(s, G), s.phase # "awaiting_file_commit", NEW t \in EditNode(s)
    PROVE  Follows(s, t, G)
<1> DEFINE With(p) == [s EXCEPT !.plan = p]
<1>1. s \in AgentStates
  BY DEF Sound
<1>2. \/ t = [s EXCEPT !.phase = "needs_intervention"]
      \/ t = [s EXCEPT !.phase = "editing"]
      \/ t = [s EXCEPT !.phase = "failed"]
      \/ /\ ~s.applied
         /\ \E p \in IF s.plan = "none" THEN {"plain", "delete"} ELSE {s.plan} :
              t = IF p = "delete" /\ ~DeleteApproved(s) THEN AskDelete(With(p))
                                                        ELSE AwaitCommit(With(p))
  BY <1>1 DEF EditNode, AgentStates
<1>3. CASE t = [s EXCEPT !.phase = "needs_intervention"]
  BY <1>1, <1>3, Quiet DEF AgentStates, Phases
<1>4. CASE t = [s EXCEPT !.phase = "editing"]
  BY <1>1, <1>4, Quiet DEF AgentStates, Phases
<1>5. CASE t = [s EXCEPT !.phase = "failed"]
  BY <1>1, <1>5, Quiet DEF AgentStates, Phases
<1>6. ASSUME ~s.applied, NEW p \in IF s.plan = "none" THEN {"plain", "delete"} ELSE {s.plan},
             t = IF p = "delete" /\ ~DeleteApproved(s) THEN AskDelete(With(p))
                                                       ELSE AwaitCommit(With(p))
      PROVE  Follows(s, t, G)
  <2>1. p \in {"none", "plain", "delete"} /\ (p = s.plan \/ s.plan = "none")
    BY <1>1, <1>6 DEF AgentStates
  <2>2. /\ With(p) \in AgentStates /\ With(p).plan = p /\ With(p).phase = s.phase
        /\ With(p).pending = s.pending /\ With(p).ids = s.ids /\ With(p).round = s.round
        /\ With(p).edits = s.edits /\ With(p).applied = s.applied
        /\ With(p).approval = s.approval
    BY <1>1, <2>1 DEF AgentStates
  <2> HIDE DEF With
  <2>3. Sound(With(p), G)
    BY <2>2 DEF Sound, InStep, Permitted
  <2>4. CASE p = "delete" /\ ~DeleteApproved(s)
    BY <1>6, <2>2, <2>3, <2>4, AskDeleteKeeps DEF Follows
  <2>5. CASE ~(p = "delete" /\ ~DeleteApproved(s))
    <3>1. With(p).plan = "delete" => With(p).round \in G
      BY <2>2, <2>5, ApprovedDeletion
    <3> QED
      BY <1>6, <2>2, <2>3, <2>5, <3>1, AwaitKeeps DEF Follows
  <2> QED
    BY <2>4, <2>5
<1> QED
  BY <1>2, <1>3, <1>4, <1>5, <1>6

-----------------------------------------------------------------------------
(* The end of the graph: validation and repair.                            *)

LEMMA AnalysisKeeps ==
    ASSUME NEW G, NEW s, Sound(s, G), NEW t \in ErrorAnalysisNode(s)
    PROVE  Follows(s, t, G)
<1> DEFINE attempt == [s EXCEPT !.phase = "repairing", !.round = @ + 1,
                                !.request = FALSE, !.result = "none"]
           Again(p) == [attempt EXCEPT !.plan = p, !.applied = FALSE]
<1>1. s \in AgentStates /\ MaxRepairs \in Nat
  BY RepairAssumption DEF Sound
<1>2. \/ t = [s EXCEPT !.phase = "needs_intervention"]
      \/ /\ s.round < MaxRepairs
         /\ \/ t = [attempt EXCEPT !.phase = "failed"]
            \/ \E p \in {"plain", "delete"} : t \in EditNode(Again(p))
  BY <1>1 DEF ErrorAnalysisNode, LimitReached, AgentStates
<1>3. CASE t = [s EXCEPT !.phase = "needs_intervention"]
  BY <1>1, <1>3, Quiet DEF AgentStates, Phases
<1>4. ASSUME s.round < MaxRepairs
      PROVE  Follows(s, attempt, G) /\ attempt.phase # "awaiting_file_commit"
  <2>0. s.round + 1 \in Nat /\ "repairing" \in Phases /\ "none" \in Results
    BY <1>1 DEF AgentStates, Phases, Results
  <2>1. /\ attempt \in AgentStates /\ attempt.phase = "repairing"
        /\ attempt.pending = s.pending /\ attempt.ids = s.ids
        /\ attempt.round = s.round + 1 /\ attempt.edits = s.edits
        /\ attempt.applied = s.applied /\ attempt.approval = s.approval
    BY <1>1, <2>0 DEF AgentStates
  <2> HIDE DEF attempt
  <2>2. Cardinality(s.edits) \in Nat /\ s.round \in Nat
    BY <1>1, FS_CardinalityType DEF Sound, InStep, AgentStates
  <2>3. InStep(attempt)
    BY <1>1, <1>4, <2>1, <2>2 DEF Sound, InStep
  <2>4. Permitted(attempt, G)
    BY <2>1 DEF Sound, Permitted
  <2> QED
    BY <2>1, <2>3, <2>4 DEF Sound, Follows
<1>5. ASSUME s.round < MaxRepairs, t = [attempt EXCEPT !.phase = "failed"]
      PROVE  Follows(s, t, G)
  <2>1. Sound(attempt, G) /\ attempt.edits = s.edits
    BY <1>4, <1>5 DEF Follows
  <2> HIDE DEF attempt
  <2>2. attempt \in AgentStates
    BY <2>1 DEF Sound
  <2>3. Follows(attempt, t, G)
    BY <1>5, <2>1, <2>2, Quiet DEF AgentStates, Phases
  <2> QED
    BY <2>1, <2>3 DEF Follows
<1>6. ASSUME s.round < MaxRepairs, NEW p \in {"plain", "delete"}, t \in EditNode(Again(p))
      PROVE  Follows(s, t, G)
  <2>1. Sound(attempt, G) /\ attempt.edits = s.edits /\ attempt.phase # "awaiting_file_commit"
    BY <1>4, <1>6 DEF Follows
  <2>2. attempt.round = s.round + 1
    BY <1>1 DEF AgentStates
  <2> HIDE DEF attempt
  <2>3. attempt \in AgentStates
    BY <2>1 DEF Sound
  <2>4. /\ Again(p) \in AgentStates /\ Again(p).phase = attempt.phase /\ ~Again(p).applied
        /\ Again(p).pending = attempt.pending /\ Again(p).ids = attempt.ids
        /\ Again(p).round = attempt.round /\ Again(p).edits = attempt.edits
        /\ Again(p).approval = attempt.approval
    BY <2>3 DEF AgentStates
  <2> HIDE DEF Again
  <2>5. Cardinality(s.edits) <= s.round + 1
    BY DEF Sound, InStep
  <2>6. Sound(Again(p), G)
    BY <2>1, <2>2, <2>4, <2>5 DEF Sound, InStep, Permitted
  <2>7. Follows(Again(p), t, G)
    BY <1>6, <2>1, <2>4, <2>6, EditKeeps
  <2> QED
    BY <2>1, <2>4, <2>7 DEF Follows
<1> QED
  BY <1>2, <1>3, <1>5, <1>6

LEMMA AfterEditKeeps ==
    ASSUME NEW G, NEW s, Sound(s, G), NEW t \in AfterEdit(s)
    PROVE  Follows(s, t, G)
<1> DEFINE v == ValidateNode(s)
<1>1. s \in AgentStates
  BY DEF Sound
<1>2. v = s \/ v = [s EXCEPT !.phase = "validating", !.request = TRUE]
  BY DEF ValidateNode
<1>3. \/ t = s \/ t = v
      \/ t = [v EXCEPT !.phase = "completed"]
      \/ t \in ErrorAnalysisNode(v)
  BY DEF AfterEdit
<1> HIDE DEF v
<1>4. Follows(s, v, G)
  <2>1. CASE v = s
    BY <2>1 DEF Follows
  <2>2. CASE v = [s EXCEPT !.phase = "validating", !.request = TRUE]
    BY <1>1, <2>2, Quiet DEF AgentStates, Phases
  <2> QED
    BY <1>2, <2>1, <2>2
<1>5. Sound(v, G) /\ v \in AgentStates /\ v.edits = s.edits
  BY <1>4 DEF Follows, Sound
<1>6. CASE t = s
  BY <1>6 DEF Follows
<1>7. CASE t = [v EXCEPT !.phase = "completed"]
  <2>1. Follows(v, t, G)
    BY <1>5, <1>7, Quiet DEF AgentStates, Phases
  <2> QED
    BY <1>5, <2>1 DEF Follows
<1>8. CASE t \in ErrorAnalysisNode(v)
  BY <1>5, <1>8, AnalysisKeeps DEF Follows
<1> QED
  BY <1>3, <1>4, <1>6, <1>7, <1>8

\* Whatever the model answers, the graph leaves a sound state with the edits
\* it found.
LEMMA GraphKeeps ==
    ASSUME NEW G, NEW s, Sound(s, G), NEW t \in RunGraph(s)
    PROVE  Follows(s, t, G)
<1>1. PICK p \in PlanNode(s) :
        \/ t = ApprovalNode(p)
        \/ \E e \in EditNode(ApprovalNode(p)) : t \in AfterEdit(e)
  BY DEF RunGraph
<1> DEFINE a == ApprovalNode(p)
<1>2. Sound(p, G) /\ p.edits = s.edits /\ p.phase # "awaiting_file_commit"
  BY PlanKeeps DEF Follows
<1>3. Sound(a, G) /\ a.edits = s.edits /\ a.phase # "awaiting_file_commit"
  BY <1>2, ApprovalKeeps DEF Follows
<1> HIDE DEF a
<1>4. ASSUME NEW e \in EditNode(a), t \in AfterEdit(e)
      PROVE  Follows(s, t, G)
  <2>1. Sound(e, G) /\ e.edits = s.edits
    BY <1>3, EditKeeps DEF Follows
  <2> QED
    BY <1>4, <2>1, AfterEditKeeps DEF Follows
<1> QED
  BY <1>1, <1>3, <1>4 DEF Follows, a

-----------------------------------------------------------------------------
(* What a command is told, and what it is at.                              *)

LEMMA ViewIsTrue ==
    ASSUME NEW G, NEW s, Sound(s, G), s.ids <= MaxCommits
    PROVE  View(s) \in Views /\ (View(s).delete => View(s).round \in G)
<1>1. s \in AgentStates /\ MaxCommits \in Nat
  BY RepairAssumption DEF Sound
<1> DEFINE deletion == s.plan = "delete"
           wanted   == s.request /\ s.phase \notin Settled
<1>0. deletion \in BOOLEAN /\ wanted \in BOOLEAN
  BY DEF deletion, wanted
<1>2. s.pending \in 0..MaxCommits /\ s.round \in Nat /\ s.request \in BOOLEAN
  BY <1>1 DEF AgentStates, Sound, InStep
<1>3. CASE s.phase = "awaiting_file_commit"
  <2>1. View(s) = [commit |-> s.pending, delete |-> deletion, round |-> s.round,
                   request |-> s.request]
    BY <1>3 DEF View
  <2>2. s.plan = "delete" => s.round \in G
    BY <1>3 DEF Sound, Permitted
  <2> HIDE DEF deletion
  <2>3. View(s) \in Views
    BY <1>0, <1>2, <2>1 DEF Views
  <2>4. View(s).delete = deletion /\ View(s).round = s.round
    BY <2>1
  <2> QED
    BY <2>2, <2>3, <2>4 DEF deletion
<1>4. CASE s.phase # "awaiting_file_commit"
  <2>1. View(s) = [Unseen EXCEPT !.request = wanted]
    BY <1>4 DEF View
  <2> HIDE DEF wanted
  <2>2. View(s) = [commit |-> 0, delete |-> FALSE, round |-> 0, request |-> wanted]
    BY <2>1 DEF Unseen
  <2>3. View(s) \in Views
    BY <1>0, <1>1, <2>2 DEF Views
  <2> QED
    BY <2>2, <2>3
<1> QED
  BY <1>3, <1>4

LEMMA Stages ==
    ASSUME TypeOK, NEW k \in Clients
    PROVE  /\ client[k].step \in {"advance", "run", "post"} => client[k] \in Heading
           /\ client[k].step \in {"settle", "edit", "report", "report_failed", "sync"}
                => client[k] \in Told
           /\ Idle.step = "idle"
           /\ \A h \in Heading : h.step \in {"advance", "run", "post"}
           /\ \A h \in Told : h.step \in {"settle", "edit", "report", "report_failed", "sync"}
           /\ \A h \in Heading \cup {Idle} : h \notin Told
<1>1. client[k] \in {Idle} \cup Heading \cup Told
  BY DEF TypeOK
<1>2. Idle.step = "idle"
  BY DEF Idle
<1>3. \A h \in Heading : h.step \in {"advance", "run", "post"}
  BY DEF Heading
<1>4. \A h \in Told : h.step \in {"settle", "edit", "report", "report_failed", "sync"}
  BY DEF Told
<1> QED
  BY <1>1, <1>2, <1>3, <1>4

\* The steps of one command: what it is at afterwards is c.
ClientInv == client \in [Clients -> {Idle} \cup Heading \cup Told] /\ ToldInv /\ CommitInv

LEMMA OneMoves ==
    ASSUME TypeOK, ToldInv, CommitInv, NEW k \in Clients, NEW c \in {Idle} \cup Heading \cup Told,
           client' = [client EXCEPT ![k] = c],
           granted \subseteq granted',
           c \in Told => (c.seen.delete => c.seen.round \in granted'),
           c.step = "report" =>
               c.seen.commit \in Commits /\ rows'[c.seen.commit].status = "committed",
           c.step = "edit" =>
               /\ c.seen.commit \in Commits /\ rows'[c.seen.commit].status = "open"
               /\ \A j \in Clients \ {k} : At(j, "edit") => client[j].seen.commit # c.seen.commit,
           \A d \in Commits : rows[d].status = "committed" => rows'[d].status = "committed",
           \A j \in Clients \ {k} :
               At(j, "edit") => rows'[client[j].seen.commit].status = "open"
    PROVE  ClientInv'
<1>1. client' \in [Clients -> {Idle} \cup Heading \cup Told]
  BY DEF TypeOK
<1>2. client'[k] = c /\ \A j \in Clients \ {k} : client'[j] = client[j]
  BY DEF TypeOK
<1>3. ToldInv'
  BY <1>2 DEF ToldInv
<1>4. ASSUME NEW j \in Clients PROVE Reported(j)'
  <2>1. CASE j = k
    BY <1>2, <2>1 DEF Reported, At
  <2>2. CASE j # k
    BY <1>2, <2>2 DEF CommitInv, Reported, At
  <2> QED
    BY <2>1, <2>2
<1>5. ASSUME NEW j \in Clients PROVE Edited(j)'
  <2>1. CASE j = k
    BY <1>2, <2>1 DEF Edited, At
  <2>2. CASE j # k
    BY <1>2, <2>2 DEF CommitInv, Edited, At
  <2> QED
    BY <2>1, <2>2
<1>6. ASSUME NEW i \in Clients, NEW j \in Clients, At(i, "edit")', At(j, "edit")', i # j
      PROVE  client'[i].seen.commit # client'[j].seen.commit
  <2>1. CASE i = k
    BY <1>2, <1>6, <2>1 DEF At
  <2>2. CASE j = k
    BY <1>2, <1>6, <2>2 DEF At
  <2>3. CASE i # k /\ j # k
    BY <1>2, <1>6, <2>3 DEF CommitInv, At
  <2> QED
    BY <2>1, <2>2, <2>3
<1>7. CommitInv'
  BY <1>4, <1>5, <1>6 DEF CommitInv
<1> QED
  BY <1>1, <1>3, <1>7 DEF ClientInv

\* The same when the rows stay as they are.
LEMMA OneMovesQuietly ==
    ASSUME TypeOK, ToldInv, CommitInv, NEW k \in Clients, NEW c \in {Idle} \cup Heading \cup Told,
           client' = [client EXCEPT ![k] = c], UNCHANGED <<rows, granted>>,
           c \in Told => (c.seen.delete => c.seen.round \in granted),
           c.step = "report" =>
               c.seen.commit \in Commits /\ rows[c.seen.commit].status = "committed",
           c.step # "edit"
    PROVE  ClientInv'
<1>1. \A j \in Clients \ {k} : At(j, "edit") => rows'[client[j].seen.commit].status = "open"
  BY DEF CommitInv, Edited
<1>2. \A d \in Commits : rows[d].status = "committed" => rows'[d].status = "committed"
  OBVIOUS
<1> QED
  BY <1>1, <1>2, OneMoves

\* What the checkpoint and the rows have to do with each other, from one step
\* to the next.
RecordInv == EditsInv /\ AppliedWereCommitted /\ DeletesWereApproved

LEMMA RecordKept ==
    ASSUME RecordInv, UNCHANGED rows, granted \subseteq granted',
           \/ agent'.edits = agent.edits
           \/ /\ agent'.edits \subseteq Commits
              /\ \A c \in agent'.edits : rows[c].status = "committed"
    PROVE  RecordInv'
BY DEF RecordInv, EditsInv, AppliedWereCommitted, DeletesWereApproved

LEMMA WorktreeKeeps ==
    ASSUME NEW G, Sound(agent, G), WorktreeChanges \/ UNCHANGED agent
    PROVE  Sound(agent', G) /\ agent'.edits = agent.edits
<1> DEFINE same == agent.approval.kind = "delete"
           a    == [agent.approval EXCEPT !.stale = same]
<1>1. CASE UNCHANGED agent
  BY <1>1
<1>2. CASE WorktreeChanges
  <2>1. agent' = [agent EXCEPT !.approval = a]
    BY <1>2 DEF WorktreeChanges
  <2>2. agent \in AgentStates
    BY DEF Sound
  <2>3. agent.approval \in AllApprovals /\ same \in BOOLEAN
    BY <2>2 DEF AgentStates
  <2> HIDE DEF same
  <2>4. /\ a \in AllApprovals /\ a.kind = agent.approval.kind
        /\ a.status = agent.approval.status /\ a.round = agent.approval.round
    BY <2>3 DEF AllApprovals
  <2> HIDE DEF a
  <2>5. /\ agent' \in AgentStates /\ agent'.approval = a /\ agent'.phase = agent.phase
        /\ agent'.plan = agent.plan /\ agent'.applied = agent.applied
        /\ agent'.pending = agent.pending /\ agent'.ids = agent.ids
        /\ agent'.round = agent.round /\ agent'.edits = agent.edits
    BY <2>1, <2>2, <2>4 DEF AgentStates
  <2> QED
    BY <2>4, <2>5 DEF Sound, InStep, Permitted
<1> QED
  BY <1>1, <1>2

\* IInv in the parts that the steps disturb.
Rest == /\ rows \in [Commits -> [status : {"none", "open", "committed", "rolled_back"},
                                  delete : BOOLEAN, round : Nat]]
        /\ granted \subseteq Nat
        /\ crashes \in Nat

LEMMA Parts ==
    ASSUME AgentInv', ClientInv', RecordInv', Rest'
    PROVE  IInv'
BY DEF IInv, TypeOK, AgentInv, Sound, ClientInv, RecordInv, Rest

-----------------------------------------------------------------------------
(* The requests.                                                           *)

\* The states an endpoint may leave: sound, and with committed edits only.
AllSound(states) ==
    \A s \in states : /\ Sound(s, granted) /\ s.edits \subseteq Commits
                      /\ \A c \in s.edits : rows[c].status = "committed"

LEMMA RequestKeeps ==
    ASSUME IInv, NEW k \in Clients, client[k] \in Heading \cup Told,
           NEW states, NEW next \in {"settle", "sync"}, Requested(k, states, next),
           AllSound(states)
    PROVE  IInv'
<1>1. UNCHANGED <<rows, granted, crashes>>
  BY DEF Requested
<1>2. CASE Stop(k) /\ UNCHANGED agent
  <2>1. ClientInv'
    <3>1. Idle \notin Told /\ Idle.step = "idle"
      BY Stages DEF IInv
    <3> QED
      BY <1>1, <1>2, <3>1, OneMovesQuietly DEF IInv, Stop
  <2>2. RecordInv'
    BY <1>1, <1>2, RecordKept DEF IInv, RecordInv
  <2> QED
    BY <1>1, <1>2, <2>1, <2>2, Parts DEF IInv, TypeOK, AgentInv, Rest
<1>3. ASSUME NEW s \in states, s.ids <= MaxCommits, agent' = s,
             \/ Stop(k)
             \/ client' = [client EXCEPT ![k] = [step |-> next, runs |-> @.runs, seen |-> View(s)]]
      PROVE  IInv'
  <2>1. ClientInv'
    <3>1. CASE Stop(k)
      <4>1. Idle \notin Told /\ Idle.step = "idle"
        BY Stages DEF IInv
      <4> QED
        BY <1>1, <3>1, <4>1, OneMovesQuietly DEF IInv, Stop
    <3>2. CASE client' = [client EXCEPT ![k] = [step |-> next, runs |-> @.runs, seen |-> View(s)]]
      <4> DEFINE c == [step |-> next, runs |-> client[k].runs, seen |-> View(s)]
      <4>1. View(s) \in Views /\ (View(s).delete => View(s).round \in granted)
        BY <1>3, ViewIsTrue DEF AllSound
      <4>2. client[k].runs \in 0..MaxRuns
        BY DEF Heading, Told
      <4>3. c \in Told /\ c.seen = View(s) /\ c.step \notin {"report", "edit"}
        BY <4>1, <4>2 DEF Told
      <4>4. client' = [client EXCEPT ![k] = c]
        BY <3>2
      <4> HIDE DEF c
      <4> QED
        BY <1>1, <4>1, <4>3, <4>4, OneMovesQuietly DEF IInv
    <3> QED
      BY <1>3, <3>1, <3>2
  <2>2. RecordInv'
    BY <1>1, <1>3, RecordKept DEF IInv, RecordInv, AllSound
  <2>3. AgentInv'
    BY <1>1, <1>3 DEF AgentInv, AllSound
  <2> QED
    BY <1>1, <2>1, <2>2, <2>3, Parts DEF IInv, TypeOK, Rest
<1> QED
  BY <1>2, <1>3 DEF Requested

\* A run of the graph from a state with the edits of the checkpoint.
LEMMA GraphIsSound ==
    ASSUME IInv, NEW s, Sound(s, granted), s.edits \subseteq Commits,
           \A c \in s.edits : rows[c].status = "committed"
    PROVE  AllSound(RunGraph(s))
BY GraphKeeps DEF Follows, AllSound

LEMMA AgentIsSound ==
    ASSUME IInv
    PROVE  /\ Sound(agent, granted) /\ agent.edits \subseteq Commits
           /\ \A c \in agent.edits : rows[c].status = "committed"
BY DEF IInv, AgentInv, EditsInv, AppliedWereCommitted

LEMMA AdvanceIsSound ==
    ASSUME IInv, NEW ask \in BOOLEAN
    PROVE  AllSound(AdvanceTask(ask))
<1> DEFINE asked == agent.asks \/ ask
           s     == [agent EXCEPT !.asks = asked]
<1>1. agent \in AgentStates
  BY AgentIsSound DEF Sound
<1>2. asked \in BOOLEAN
  OBVIOUS
<1> HIDE DEF asked
<1>3. Follows(agent, s, granted)
  BY <1>1, <1>2, AgentIsSound, Quiet DEF AgentStates
<1>4. AllSound(RunGraph(s))
  BY <1>3, AgentIsSound, GraphIsSound DEF Follows
<1>5. AdvanceTask(ask) = {agent} \cup RunGraph(s)
  BY DEF AdvanceTask, asked
<1> HIDE DEF s
<1> QED
  BY <1>4, <1>5, AgentIsSound DEF AllSound

LEMMA ValidationIsSound ==
    ASSUME IInv, NEW result \in Results
    PROVE  AllSound(SubmitValidationResult(result))
<1>1. agent \in AgentStates
  BY AgentIsSound DEF Sound
<1>2. Follows(agent, [agent EXCEPT !.result = result], granted)
  BY <1>1, AgentIsSound, Quiet DEF AgentStates
<1> QED
  BY <1>2, AgentIsSound, GraphIsSound DEF Follows, SubmitValidationResult

\* The Agent takes up the edits of a commit that was reported: one more than
\* before, which makes at most one for each round so far.
LEMMA CommitIsSound ==
    ASSUME IInv, NEW c \in Commits, rows[c].status = "committed"
    PROVE  AllSound(SubmitFileCommitResult(c, TRUE))
<1> DEFINE more == agent.edits \cup {agent.pending}
           s    == [agent EXCEPT !.phase = "editing", !.applied = TRUE, !.pending = 0,
                                 !.edits = more]
<1>1. CASE ~Expects(c)
  BY <1>1 DEF SubmitFileCommitResult, AllSound
<1>2. CASE Expects(c)
  <2>1. agent \in AgentStates /\ agent.pending = c /\ ~agent.applied
    BY <1>2, AgentIsSound DEF Expects, Sound, Permitted
  <2>2. /\ more \subseteq Commits /\ \A d \in more : rows[d].status = "committed"
    BY <2>1, AgentIsSound
  <2>3. /\ IsFiniteSet(more) /\ Cardinality(more) <= agent.round + 1
    <3>1. IsFiniteSet(agent.edits) /\ Cardinality(agent.edits) <= agent.round
      BY <2>1, AgentIsSound DEF Sound, InStep
    <3>2. IsFiniteSet(more) /\ \/ Cardinality(more) = Cardinality(agent.edits)
                               \/ Cardinality(more) = Cardinality(agent.edits) + 1
      BY <3>1, FS_AddElement
    <3>3. agent.round \in Nat /\ Cardinality(agent.edits) \in Nat
      BY <2>1, <3>1, FS_CardinalityType DEF AgentStates
    <3> HIDE DEF more
    <3> QED
      BY <3>1, <3>2, <3>3
  <2>4. more \subseteq Nat
    BY <2>2 DEF Commits
  <2> HIDE DEF more
  <2>5. /\ s \in AgentStates /\ s.phase = "editing" /\ s.applied /\ s.pending = 0
        /\ s.ids = agent.ids /\ s.edits = more /\ s.round = agent.round
        /\ s.approval = agent.approval
    BY <2>1, <2>4 DEF AgentStates, Phases
  <2>6. SubmitFileCommitResult(c, TRUE) = RunGraph(s)
    BY <1>2 DEF SubmitFileCommitResult, more
  <2> HIDE DEF s
  <2>7. Sound(s, granted)
    <3>1. InStep(s)
      BY <2>1, <2>3, <2>5, AgentIsSound DEF Sound, InStep, AgentStates
    <3>2. Permitted(s, granted)
      BY <2>5, AgentIsSound DEF Sound, Permitted
    <3> QED
      BY <2>5, <3>1, <3>2 DEF Sound
  <2> QED
    BY <2>2, <2>5, <2>6, <2>7, GraphIsSound
<1> QED
  BY <1>1, <1>2

LEMMA FailureIsSound ==
    ASSUME IInv, NEW c
    PROVE  AllSound(SubmitFileCommitResult(c, FALSE))
<1> DEFINE s == [agent EXCEPT !.phase = "failed", !.pending = 0]
<1>1. /\ s \in AgentStates /\ s.phase = "failed" /\ s.pending = 0 /\ s.ids = agent.ids
      /\ s.edits = agent.edits /\ s.round = agent.round /\ s.applied = agent.applied
      /\ s.approval = agent.approval
  BY AgentIsSound DEF Sound, AgentStates, Phases
<1>2. SubmitFileCommitResult(c, FALSE) \subseteq {s}
  BY DEF SubmitFileCommitResult
<1> HIDE DEF s
<1>3. Sound(s, granted)
  BY <1>1, AgentIsSound DEF Sound, InStep, Permitted, AgentStates
<1> QED
  BY <1>1, <1>2, <1>3, AgentIsSound DEF AllSound

-----------------------------------------------------------------------------
(* The steps.                                                              *)

\* A command goes on to another step with what it was told, and only the
\* worktree changes.
LEMMA GoesOn ==
    ASSUME IInv, NEW k \in Clients, NEW c \in {Idle} \cup Heading \cup Told,
           client' = [client EXCEPT ![k] = c], UNCHANGED <<rows, granted, crashes>>,
           WorktreeChanges \/ UNCHANGED agent,
           c \in Told => client[k] \in Told /\ c.seen = client[k].seen,
           c.step = "report" =>
               c.seen.commit \in Commits /\ rows[c.seen.commit].status = "committed",
           c.step # "edit"
    PROVE  IInv'
<1>1. Sound(agent', granted) /\ agent'.edits = agent.edits
  BY AgentIsSound, WorktreeKeeps
<1>2. ClientInv'
  <2>1. c \in Told => (c.seen.delete => c.seen.round \in granted)
    BY DEF IInv, ToldInv
  <2> QED
    BY <2>1, OneMovesQuietly DEF IInv
<1>3. RecordInv'
  BY <1>1, RecordKept DEF IInv, RecordInv
<1> QED
  BY <1>1, <1>2, <1>3, Parts DEF IInv, TypeOK, AgentInv, Rest

LEMMA NextStep ==
    ASSUME TypeOK, NEW k \in Clients, client[k] \in Told,
           NEW step \in {"settle", "edit", "report", "report_failed", "sync"}
    PROVE  LET c == [client[k] EXCEPT !.step = step]
           IN  c \in Told /\ c.step = step /\ c.seen = client[k].seen
BY DEF Told

LEMMA BeginKeeps ==
    ASSUME IInv, NEW k \in Clients, NEW first \in {"advance", "post"}, NEW runs \in 0..MaxRuns,
           NEW ask \in BOOLEAN, NEW result \in Results, Begin(k, first, runs, ask, result)
    PROVE  IInv'
<1> DEFINE c == Command(first, runs, ask, result)
<1>1. c \in Heading /\ c.step = first
  BY DEF Command, Heading
<1>2. client' = [client EXCEPT ![k] = c] /\ UNCHANGED <<agent, rows, granted, crashes>>
  BY DEF Begin
<1> HIDE DEF c
<1>3. c \notin Told
  BY <1>1, Stages DEF IInv
<1> QED
  BY <1>1, <1>2, <1>3, GoesOn

LEMMA StartKeeps ==
    ASSUME IInv, NEW k \in Clients, Start(k)
    PROVE  IInv'
<1>1. 0 \in 0..MaxRuns /\ MaxRuns \in 0..MaxRuns /\ "none" \in Results
  BY RepairAssumption DEF Results
<1>2. CASE RunAgentValidationCycle(k)
  BY <1>1, <1>2, BeginKeeps DEF RunAgentValidationCycle
<1>3. ASSUME NEW ask \in BOOLEAN, AdvanceAgentTask(k, ask) PROVE IInv'
  BY <1>1, <1>3, BeginKeeps DEF AdvanceAgentTask
<1>4. ASSUME NEW result \in {"passed", "failed", "stopped"}, SubmitAgentValidation(k, result)
      PROVE  IInv'
  <2>1. result \in Results
    BY DEF Results
  <2> QED
    BY <1>1, <1>4, <2>1, BeginKeeps DEF SubmitAgentValidation
<1> QED
  BY <1>2, <1>3, <1>4 DEF Start

LEMMA AdvanceKeeps ==
    ASSUME IInv, NEW k \in Clients, Advance(k)
    PROVE  IInv'
<1>1. client[k] \in Heading
  BY Stages DEF IInv, Advance, At
<1>2. AllSound(AdvanceTask(client[k].ask))
  BY <1>1, AdvanceIsSound DEF Heading
<1> QED
  BY <1>1, <1>2, RequestKeeps DEF Advance

LEMMA PostKeeps ==
    ASSUME IInv, NEW k \in Clients, PostValidationResult(k)
    PROVE  IInv'
<1>1. client[k] \in Heading
  BY Stages DEF IInv, PostValidationResult, At
<1>2. AllSound(SubmitValidationResult(client[k].result))
  BY <1>1, ValidationIsSound DEF Heading
<1> QED
  BY <1>1, <1>2, RequestKeeps DEF PostValidationResult

LEMMA ReportKeeps ==
    ASSUME IInv, NEW k \in Clients, ReportFileCommit(k)
    PROVE  IInv'
<1> DEFINE states(success) == SubmitFileCommitResult(client[k].seen.commit, success)
<1>1. PICK success \in BOOLEAN : /\ At(k, IF success THEN "report" ELSE "report_failed")
                                 /\ Requested(k, states(success), "sync")
  BY DEF ReportFileCommit
<1>2. client[k] \in Told
  BY <1>1, Stages DEF IInv, At
<1>3. AllSound(states(success))
  <2>1. CASE success
    <3>1. client[k].seen.commit \in Commits /\ rows[client[k].seen.commit].status = "committed"
      BY <1>1, <2>1 DEF IInv, CommitInv, Reported
    <3>2. AllSound(SubmitFileCommitResult(client[k].seen.commit, TRUE))
      BY <3>1, CommitIsSound
    <3> QED
      BY <2>1, <3>2
  <2>2. CASE ~success
    <3>1. AllSound(SubmitFileCommitResult(client[k].seen.commit, FALSE))
      BY FailureIsSound
    <3> QED
      BY <2>2, <3>1
  <2> QED
    BY <2>1, <2>2
<1> HIDE DEF states
<1> QED
  BY <1>1, <1>2, <1>3, RequestKeeps

\* A command that only goes on, with nothing but its own step changed.
LEMMA PassesOn ==
    ASSUME IInv, NEW k \in Clients, client[k] \in Told, NEW step \in {"report_failed", "sync"},
           Go(k, step), UNCHANGED <<agent, rows, granted, crashes>>
    PROVE  IInv'
<1> DEFINE c == [client[k] EXCEPT !.step = step]
<1>1. c \in Told /\ c.step = step /\ c.seen = client[k].seen
  BY NextStep DEF IInv
<1>2. client' = [client EXCEPT ![k] = c]
  BY DEF Go
<1> HIDE DEF c
<1> QED
  BY <1>1, <1>2, GoesOn

LEMMA SyncKeeps ==
    ASSUME IInv, NEW k \in Clients, SyncAgentState(k)
    PROVE  IInv'
<1>1. client[k] \in Told
  BY Stages DEF IInv, SyncAgentState, At
<1>2. UNCHANGED <<agent, rows, granted, crashes>>
  BY DEF SyncAgentState
<1>3. CASE Stop(k)
  <2>1. Idle \notin Told /\ Idle.step = "idle"
    BY Stages DEF IInv
  <2> QED
    BY <1>2, <1>3, <2>1, GoesOn DEF Stop
<1>4. CASE /\ client[k].runs > 0
           /\ client' = [client EXCEPT ![k] = Command("run", client[k].runs - 1, FALSE, "none")]
  <2> DEFINE c == Command("run", client[k].runs - 1, FALSE, "none")
  <2>1. client[k].runs - 1 \in 0..MaxRuns
    BY <1>1, <1>4, RepairAssumption DEF Told
  <2>2. c \in Heading /\ c.step = "run"
    BY <2>1 DEF Command, Heading, Results
  <2>3. client' = [client EXCEPT ![k] = c]
    BY <1>4
  <2> HIDE DEF c
  <2>4. c \notin Told
    BY <2>2, Stages DEF IInv
  <2> QED
    BY <1>2, <2>2, <2>3, <2>4, GoesOn
<1> QED
  BY <1>3, <1>4 DEF SyncAgentState

LEMMA RunKeeps ==
    ASSUME IInv, NEW k \in Clients, RunValidation(k)
    PROVE  IInv'
<1>1. client[k] \in Heading
  BY Stages DEF IInv, RunValidation, At
<1>2. UNCHANGED <<rows, granted, crashes>> /\ (WorktreeChanges \/ UNCHANGED agent)
  BY DEF RunValidation
<1>3. CASE Stop(k)
  <2>1. Idle \notin Told /\ Idle.step = "idle"
    BY Stages DEF IInv
  <2> QED
    BY <1>2, <1>3, <2>1, GoesOn DEF Stop
<1>4. ASSUME NEW result \in {"passed", "failed", "stopped"},
             client' = [client EXCEPT ![k].step = "post", ![k].result = result]
      PROVE  IInv'
  <2> DEFINE c == [client[k] EXCEPT !.step = "post", !.result = result]
  <2>1. c \in Heading /\ c.step = "post"
    BY <1>1 DEF Heading, Results
  <2>2. client' = [client EXCEPT ![k] = c]
    BY <1>4 DEF IInv, TypeOK
  <2> HIDE DEF c
  <2>3. c \notin Told
    BY <2>1, Stages DEF IInv
  <2> QED
    BY <1>2, <2>1, <2>2, <2>3, GoesOn
<1> QED
  BY <1>3, <1>4 DEF RunValidation

\* A transaction begins for a commit that had none, with what was told of it.
LEMMA OpenKeeps ==
    ASSUME IInv, NEW k \in Clients, client[k] \in Told, NEW commit \in Commits,
           commit = client[k].seen.commit, rows[commit].status = "none",
           rows' = [rows EXCEPT ![commit] = [status |-> "open", delete |-> client[k].seen.delete,
                                             round |-> client[k].seen.round]],
           WorktreeChanges, Go(k, "edit"), UNCHANGED <<granted, crashes>>
    PROVE  IInv'
<1> DEFINE row == [status |-> "open", delete |-> client[k].seen.delete,
                   round |-> client[k].seen.round]
           c   == [client[k] EXCEPT !.step = "edit"]
<1>1. /\ row \in [status : {"none", "open", "committed", "rolled_back"},
                  delete : BOOLEAN, round : Nat]
      /\ row.status = "open" /\ (row.delete => row.round \in granted)
  <2>1. client[k].seen.delete => client[k].seen.round \in granted
    BY DEF IInv, ToldInv
  <2> QED
    BY <2>1 DEF Told, Views
<1>2. rows' = [rows EXCEPT ![commit] = row]
  OBVIOUS
<1>3. c \in Told /\ c.step = "edit" /\ c.seen = client[k].seen
  BY NextStep DEF IInv
<1>4. client' = [client EXCEPT ![k] = c]
  BY DEF Go
<1> HIDE DEF row, c
<1>5. rows'[commit] = row /\ \A d \in Commits \ {commit} : rows'[d] = rows[d]
  BY <1>2 DEF IInv, TypeOK
<1>6. ASSUME NEW j \in Clients \ {k}, At(j, "edit")
      PROVE  client[j].seen.commit # commit /\ rows'[client[j].seen.commit].status = "open"
  <2>1. client[j].seen.commit \in Commits /\ rows[client[j].seen.commit].status = "open"
    BY <1>6 DEF IInv, CommitInv, Edited
  <2> QED
    BY <1>5, <2>1
<1>7. ClientInv'
  <2>1. \A d \in Commits : rows[d].status = "committed" => rows'[d].status = "committed"
    BY <1>5
  <2>2. c.seen.delete => c.seen.round \in granted
    BY <1>3 DEF IInv, ToldInv
  <2>3. c.seen.commit \in Commits /\ rows'[c.seen.commit].status = "open"
    BY <1>1, <1>3, <1>5
  <2> QED
    BY <1>3, <1>4, <1>6, <2>1, <2>2, <2>3, OneMoves DEF IInv
<1>8. Sound(agent', granted) /\ agent'.edits = agent.edits
  BY AgentIsSound, WorktreeKeeps
<1>9. RecordInv'
  <2>1. EditsInv' /\ AppliedWereCommitted'
    BY <1>5, <1>8, AgentIsSound DEF EditsInv, AppliedWereCommitted
  <2>2. DeletesWereApproved'
    BY <1>1, <1>5 DEF IInv, DeletesWereApproved
  <2> QED
    BY <2>1, <2>2 DEF RecordInv
<1>10. Rest'
  BY <1>1, <1>2 DEF IInv, TypeOK, Rest
<1> QED
  BY <1>7, <1>8, <1>9, <1>10, Parts DEF AgentInv

LEMMA ExecuteKeeps ==
    ASSUME IInv, NEW k \in Clients, ExecuteFileCommit(k)
    PROVE  IInv'
<1> DEFINE commit == client[k].seen.commit
<1>1. client[k] \in Told
  BY Stages DEF IInv, ExecuteFileCommit, At
<1>2. commit \in Commits
  BY <1>1, RepairAssumption DEF ExecuteFileCommit, Told, Views, Commits
<1>3. CASE /\ rows[commit].status = "none" /\ WorktreeChanges /\ Go(k, "edit")
           /\ rows' = [rows EXCEPT ![commit] = [status |-> "open",
                          delete |-> client[k].seen.delete, round |-> client[k].seen.round]]
  BY <1>1, <1>2, <1>3, OpenKeeps DEF ExecuteFileCommit
<1>4. CASE rows[commit].status = "committed" /\ Go(k, "report") /\ UNCHANGED <<agent, rows>>
  <2> DEFINE c == [client[k] EXCEPT !.step = "report"]
  <2>1. c \in Told /\ c.step = "report" /\ c.seen = client[k].seen
    BY <1>1, NextStep DEF IInv
  <2>2. client' = [client EXCEPT ![k] = c] /\ UNCHANGED <<granted, crashes>>
    BY <1>4 DEF Go, ExecuteFileCommit
  <2> HIDE DEF c
  <2> QED
    BY <1>1, <1>2, <1>4, <2>1, <2>2, GoesOn
<1>5. CASE Go(k, "report_failed") /\ UNCHANGED <<agent, rows>>
  BY <1>1, <1>5, PassesOn DEF ExecuteFileCommit
<1> QED
  BY <1>3, <1>4, <1>5 DEF ExecuteFileCommit

\* The transaction of this command, and of no other, ends.
LEMMA EndKeeps ==
    ASSUME IInv, NEW k \in Clients, EndEdits(k)
    PROVE  IInv'
<1> DEFINE commit == client[k].seen.commit
<1>1. PICK end \in {"committed", "rolled_back"} :
        /\ rows' = [rows EXCEPT ![commit].status = end]
        /\ Go(k, IF end = "committed" THEN "report" ELSE "report_failed")
  BY DEF EndEdits
<1> DEFINE step == IF end = "committed" THEN "report" ELSE "report_failed"
           c    == [client[k] EXCEPT !.step = step]
<1>2. /\ At(k, "edit") /\ WorktreeChanges /\ UNCHANGED <<granted, crashes>>
  BY DEF EndEdits
<1>3. client[k] \in Told
  BY <1>2, Stages DEF IInv, At
<1>4. commit \in Commits /\ rows[commit].status = "open"
  BY <1>2 DEF IInv, CommitInv, Edited
<1>5. /\ step \in {"report", "report_failed"} /\ (step = "report" => end = "committed")
      /\ c \in Told /\ c.step = step /\ c.seen = client[k].seen
  BY <1>3, NextStep DEF IInv
<1>6. client' = [client EXCEPT ![k] = c]
  BY <1>1 DEF Go
<1> HIDE DEF c, step, commit
<1>7. /\ rows' \in [Commits -> [status : {"none", "open", "committed", "rolled_back"},
                               delete : BOOLEAN, round : Nat]]
      /\ rows'[commit].status = end
      /\ \A d \in Commits \ {commit} : rows'[d] = rows[d]
      /\ \A d \in Commits : rows'[d].delete = rows[d].delete /\ rows'[d].round = rows[d].round
  BY <1>1, <1>4 DEF IInv, TypeOK
<1>8. ASSUME NEW j \in Clients \ {k}, At(j, "edit")
      PROVE  rows'[client[j].seen.commit].status = "open"
  <2>1. client[j].seen.commit \in Commits /\ rows[client[j].seen.commit].status = "open"
    BY <1>8 DEF IInv, CommitInv, Edited
  <2>2. client[j].seen.commit # commit
    BY <1>2, <1>8 DEF IInv, CommitInv, commit
  <2> QED
    BY <1>7, <2>1, <2>2
<1>9. ClientInv'
  <2>1. \A d \in Commits : rows[d].status = "committed" => rows'[d].status = "committed"
    BY <1>4, <1>7
  <2>2. c.seen.delete => c.seen.round \in granted
    BY <1>3, <1>5 DEF IInv, ToldInv
  <2>3. c.step = "report" => c.seen.commit \in Commits /\ rows'[c.seen.commit].status = "committed"
    BY <1>4, <1>5, <1>7 DEF commit
  <2> QED
    BY <1>2, <1>5, <1>6, <1>8, <2>1, <2>2, <2>3, OneMoves DEF IInv
<1>10. Sound(agent', granted) /\ agent'.edits = agent.edits
  BY <1>2, AgentIsSound, WorktreeKeeps
<1>11. RecordInv'
  <2>1. EditsInv' /\ AppliedWereCommitted'
    BY <1>4, <1>7, <1>10, AgentIsSound DEF EditsInv, AppliedWereCommitted
  <2>2. DeletesWereApproved'
    BY <1>2, <1>7 DEF IInv, DeletesWereApproved
  <2> QED
    BY <2>1, <2>2 DEF RecordInv
<1>12. Rest'
  BY <1>2, <1>7 DEF IInv, TypeOK, Rest
<1> QED
  BY <1>2, <1>9, <1>10, <1>11, <1>12, Parts DEF AgentInv

\* The user's decision: an approved deletion is granted before the graph runs.
LEMMA ResumeKeeps ==
    ASSUME IInv, NEW decision \in {"approved", "rejected"}, ResumeApproval(decision)
    PROVE  IInv'
<1> DEFINE phase   == IF decision = "approved" THEN "planned" ELSE "failed"
           a       == [agent.approval EXCEPT !.status = decision]
           decided == [agent EXCEPT !.approval = a, !.asks = FALSE, !.phase = phase]
<1>1. /\ agent' = decided \/ agent' \in RunGraph(decided)
      /\ granted' = IF decision = "approved" /\ agent.approval.kind = "delete"
                    THEN granted \cup {agent.approval.round} ELSE granted
      /\ UNCHANGED <<rows, client, crashes>>
  BY DEF ResumeApproval
<1>2. Sound(agent, granted) /\ agent \in AgentStates
  BY AgentIsSound DEF Sound
<1>3. agent.approval.round \in Nat /\ agent.approval \in AllApprovals
  BY <1>2 DEF AgentStates, AllApprovals
<1>4. granted \subseteq granted' /\ granted' \subseteq Nat
  BY <1>1, <1>3 DEF IInv, TypeOK
<1>5. /\ a \in AllApprovals /\ a.status = decision /\ a.kind = agent.approval.kind
      /\ a.round = agent.approval.round
  BY <1>3 DEF AllApprovals
<1>6. phase \in {"planned", "failed"}
  OBVIOUS
<1> HIDE DEF a, phase
<1>7. /\ decided \in AgentStates /\ decided.approval = a /\ decided.phase = phase
      /\ decided.pending = agent.pending /\ decided.ids = agent.ids
      /\ decided.round = agent.round /\ decided.edits = agent.edits
      /\ decided.applied = agent.applied
  BY <1>2, <1>5, <1>6 DEF AgentStates, Phases
<1> HIDE DEF decided
<1>8. Sound(decided, granted')
  <2>1. InStep(decided)
    BY <1>2, <1>7 DEF Sound, InStep
  <2>2. Permitted(decided, granted')
    BY <1>1, <1>5, <1>6, <1>7 DEF Permitted
  <2> QED
    BY <1>7, <2>1, <2>2 DEF Sound
<1>9. Sound(agent', granted') /\ agent'.edits = agent.edits
  BY <1>1, <1>7, <1>8, GraphKeeps DEF Follows
<1>10. ClientInv'
  BY <1>1, <1>4 DEF IInv, TypeOK, ToldInv, CommitInv, Reported, Edited, At, ClientInv
<1>11. RecordInv'
  BY <1>1, <1>4, <1>9, RecordKept DEF IInv, RecordInv
<1>12. Rest'
  BY <1>1, <1>4 DEF IInv, TypeOK, Rest
<1> QED
  BY <1>9, <1>10, <1>11, <1>12, Parts DEF AgentInv

LEMMA CrashKeeps ==
    ASSUME IInv, Crash
    PROVE  IInv'
<1>1. /\ client' = [k \in Clients |-> Idle] /\ UNCHANGED granted /\ crashes' = crashes + 1
      /\ WorktreeChanges \/ UNCHANGED agent
      /\ rows' = [c \in Commits |-> IF rows[c].status = "open"
                                    THEN [rows[c] EXCEPT !.status = "rolled_back"] ELSE rows[c]]
  BY DEF Crash
<1>2. ASSUME NEW c \in Commits
      PROVE  /\ rows'[c] \in [status : {"none", "open", "committed", "rolled_back"},
                               delete : BOOLEAN, round : Nat]
             /\ rows'[c].delete = rows[c].delete /\ rows'[c].round = rows[c].round
             /\ rows[c].status = "committed" => rows'[c].status = "committed"
  <2>1. rows[c] \in [status : {"none", "open", "committed", "rolled_back"},
                     delete : BOOLEAN, round : Nat]
    BY DEF IInv, TypeOK
  <2>2. CASE rows[c].status = "open"
    <3>1. rows'[c] = [rows[c] EXCEPT !.status = "rolled_back"]
      BY <1>1, <2>2
    <3> QED
      BY <2>1, <2>2, <3>1
  <2>3. CASE rows[c].status # "open"
    BY <1>1, <2>1, <2>3
  <2> QED
    BY <2>2, <2>3
<1>3. rows' \in [Commits -> [status : {"none", "open", "committed", "rolled_back"},
                            delete : BOOLEAN, round : Nat]]
  <2>1. rows' = [c \in Commits |-> rows'[c]]
    BY <1>1
  <2> QED
    BY <1>2, <2>1
<1>4. Sound(agent', granted) /\ agent'.edits = agent.edits
  BY <1>1, AgentIsSound, WorktreeKeeps
<1>5. ClientInv'
  <2>1. \A k \in Clients : client'[k] = Idle /\ client'[k] \notin Told /\ client'[k].step = "idle"
    BY <1>1, Stages DEF IInv
  <2>2. client' \in [Clients -> {Idle} \cup Heading \cup Told]
    BY <1>1
  <2>3. ToldInv'
    BY <2>1 DEF ToldInv
  <2>4. CommitInv'
    BY <2>1 DEF CommitInv, Reported, Edited, At
  <2> QED
    BY <2>2, <2>3, <2>4 DEF ClientInv
<1>6. RecordInv'
  <2>1. EditsInv' /\ AppliedWereCommitted'
    BY <1>2, <1>4, AgentIsSound DEF EditsInv, AppliedWereCommitted
  <2>2. DeletesWereApproved'
    BY <1>1, <1>2 DEF IInv, DeletesWereApproved
  <2> QED
    BY <2>1, <2>2 DEF RecordInv
<1>7. Rest'
  BY <1>1, <1>3 DEF IInv, TypeOK, Rest
<1> QED
  BY <1>1, <1>4, <1>5, <1>6, <1>7, Parts DEF AgentInv

-----------------------------------------------------------------------------

LEMMA InitHolds == Init => IInv
<1> SUFFICES ASSUME Init PROVE IInv
  OBVIOUS
<1>1. /\ agent \in AgentStates /\ agent.phase = "created" /\ agent.approval = NoApproval
      /\ agent.pending = 0 /\ agent.ids = 0 /\ agent.round = 0 /\ agent.edits = {}
  <2>1. /\ NoApproval \in AllApprovals /\ "created" \in Phases /\ "none" \in Results
        /\ {FALSE} \subseteq BOOLEAN /\ {0} \subseteq Nat /\ {{}} \subseteq SUBSET Nat
    BY DEF NoApproval, AllApprovals, Phases, Results
  <2>2. agent \in [version : {1, 2}, phase : {"created"}, planned : {FALSE}, plan : {"none"},
                   applied : {FALSE}, pending : {0}, ids : {0}, asks : {FALSE},
                   approval : {NoApproval}, request : {FALSE}, result : {"none"},
                   round : {0}, edits : {{}}]
    BY DEF Init
  <2>3. /\ agent.phase = "created" /\ agent.approval = NoApproval /\ agent.pending = 0
        /\ agent.ids = 0 /\ agent.round = 0 /\ agent.edits = {}
    BY <2>2
  <2>4. agent \in AgentStates
    BY <2>1, <2>2 DEF AgentStates
  <2> QED
    BY <2>3, <2>4
<1>2. MaxRepairs \in Nat
  BY RepairAssumption
<1>3. IsFiniteSet({}) /\ Cardinality({}) = 0
  BY FS_EmptySet
<1>4. InStep(agent)
  BY <1>1, <1>2, <1>3 DEF InStep
<1>5. AgentInv
  BY <1>1, <1>4 DEF AgentInv, Sound, Permitted, NoApproval
<1>6. rows = [c \in Commits |-> NoRow] /\ client = [k \in Clients |-> Idle]
      /\ granted = {} /\ crashes = 0
  BY DEF Init
<1>7. TypeOK
  BY <1>1, <1>6 DEF TypeOK, NoRow
<1>8. \A k \in Clients : client[k] = Idle /\ client[k] \notin Told /\ client[k].step = "idle"
  BY <1>6, <1>7, Stages
<1>9. ToldInv /\ CommitInv
  BY <1>8 DEF ToldInv, CommitInv, Reported, Edited, At
<1>10. EditsInv /\ AppliedWereCommitted /\ DeletesWereApproved
  BY <1>1, <1>6 DEF EditsInv, AppliedWereCommitted, DeletesWereApproved, NoRow
<1> QED
  BY <1>5, <1>7, <1>9, <1>10 DEF IInv

LEMMA StepHolds == IInv /\ [Next]_vars => IInv'
<1> SUFFICES ASSUME IInv, [Next]_vars PROVE IInv'
  OBVIOUS
<1>1. ASSUME NEW k \in Clients, Start(k) PROVE IInv'
  BY <1>1, StartKeeps
<1>2. ASSUME NEW k \in Clients, Proceed(k) PROVE IInv'
  <2>1. CASE Advance(k)
    BY <2>1, AdvanceKeeps
  <2>2. CASE NothingToCommit(k)
    BY <2>2, PassesOn, Stages DEF NothingToCommit, IInv, At
  <2>3. CASE ExecuteFileCommit(k)
    BY <2>3, ExecuteKeeps
  <2>4. CASE CommitAwaitsApproval(k)
    BY <2>4, PassesOn, Stages DEF CommitAwaitsApproval, IInv, At
  <2>5. CASE EndEdits(k)
    BY <2>5, EndKeeps
  <2>6. CASE ReportFileCommit(k)
    BY <2>6, ReportKeeps
  <2>7. CASE SyncAgentState(k)
    BY <2>7, SyncKeeps
  <2>8. CASE RunValidation(k)
    BY <2>8, RunKeeps
  <2>9. CASE PostValidationResult(k)
    BY <2>9, PostKeeps
  <2> QED
    BY <1>2, <2>1, <2>2, <2>3, <2>4, <2>5, <2>6, <2>7, <2>8, <2>9 DEF Proceed
<1>3. ASSUME NEW decision \in {"approved", "rejected"}, ResumeApproval(decision) PROVE IInv'
  BY <1>3, ResumeKeeps
<1>4. CASE Crash
  BY <1>4, CrashKeeps
<1>5. CASE UNCHANGED vars
  <2>1. UNCHANGED <<agent, rows, client, granted, crashes>>
    BY <1>5 DEF vars
  <2>2. ClientInv'
    BY <2>1 DEF IInv, TypeOK, ToldInv, CommitInv, Reported, Edited, At, ClientInv
  <2>3. RecordInv'
    BY <2>1, RecordKept DEF IInv, RecordInv
  <2> QED
    BY <2>1, <2>2, <2>3, AgentIsSound, Parts DEF IInv, TypeOK, AgentInv, Rest
<1> QED
  BY <1>1, <1>2, <1>3, <1>4, <1>5 DEF Next

LEMMA Invariant == Spec => []IInv
BY InitHolds, StepHolds, PTL DEF Spec

\* The checkpoint, the transactions and what commands hold keep their types.
THEOREM TypeCorrect == Spec => []TypeOK
<1>1. IInv => TypeOK
  BY DEF IInv
<1> QED
  BY <1>1, Invariant, PTL

\* What the Agent believes to be edited is committed, for any number of
\* commands that meet, and any loss or stop (submit_file_commit_result).
THEOREM AppliedIsCommitted == Spec => []AppliedWereCommitted
<1>1. IInv => AppliedWereCommitted
  BY DEF IInv
<1> QED
  BY <1>1, Invariant, PTL

\* No file is deleted but by a plan of a round whose deletions the user has
\* approved (_delete_approval_matches).
THEOREM OnlyApprovedDeletes == Spec => []DeletesWereApproved
<1>1. IInv => DeletesWereApproved
  BY DEF IInv
<1> QED
  BY <1>1, Invariant, PTL

\* Repairs stay within max_repair_rounds, with one set of edits for each, for
\* any limit and however often results are repeated (error_analysis_node).
THEOREM RepairsEnd == Spec => []RepairsBounded
<1>1. IInv => RepairsBounded
  BY DEF IInv, AgentInv, Sound, InStep, RepairsBounded
<1> QED
  BY <1>1, Invariant, PTL
=============================================================================
