------------------------- MODULE BoundApprovalsProofs -------------------------
(***************************************************************************)
(* For every number of calls, approvals, contents and contracts: an        *)
(* approval authorizes one call, it is asked for once at a time, and it is *)
(* never usable again once it was refused, consumed or has expired.        *)
(***************************************************************************)
EXTENDS BoundApprovals, TLAPS

USE DEF Idle

\* The three things that may come of presenting a call: an approval is
\* consumed, one is asked for where there was none, or nothing changes.
LEMMA Outcomes ==
    ASSUME TypeOK, NEW c \in Calls, NEW args \in Arguments, NEW seen \in Contents,
           Authorize(c, args, seen)
    PROVE  /\ \/ \E i \in DOMAIN approvals : Consumable(i, args, seen) /\ Consume(c, i, args)
              \/ Bound(args, seen) = {} /\ Ask(c, args, seen)
              \/ Refuse(c)
           /\ UNCHANGED <<content, contract>>
  BY DEF Authorize, Present, Bound

-----------------------------------------------------------------------------
LEMMA ContractType ==
    ASSUME TypeOK, NEW args \in Arguments
    PROVE  ContractOf(args) \in Contracts
  BY DEF TypeOK, ContractOf

LEMMA TypeAuthorize ==
    ASSUME TypeOK, NEW c \in Calls, NEW args \in Arguments, NEW seen \in Contents,
           Authorize(c, args, seen)
    PROVE  TypeOK'
  <1>0. /\ Len(approvals) \in Nat /\ DOMAIN approvals = 1..Len(approvals)
        /\ \A i \in DOMAIN approvals : approvals[i] \in Approval
    BY DEF TypeOK
  <1>1. CASE \E i \in DOMAIN approvals : Consumable(i, args, seen) /\ Consume(c, i, args)
    <2>1. PICK i \in DOMAIN approvals : Consume(c, i, args)
      BY <1>1
    <2>2. approvals' \in Seq(Approval) /\ Len(approvals') = Len(approvals)
      <3>1. [approvals[i] EXCEPT !.consumed = c] \in Approval
        BY <1>0 DEF Approval
      <3>2. approvals' = [approvals EXCEPT ![i] = [approvals[i] EXCEPT !.consumed = c]]
        BY <2>1 DEF Consume
      <3> QED BY <1>0, <3>1, <3>2 DEF TypeOK
    <2>3. call' \in [Calls -> Call']
      <3>1. [stage |-> "granted", args |-> args, id |-> i] \in Call
        BY <1>0 DEF Call
      <3>2. Call' = Call
        BY <2>2 DEF Call
      <3> QED BY <2>1, <3>1, <3>2 DEF TypeOK, Consume
    <2> QED BY <2>1, <2>2, <2>3, Outcomes DEF TypeOK, Consume
  <1>2. CASE Ask(c, args, seen)
    <2>1. [args |-> args, content |-> seen, contract |-> ContractOf(args),
           decision |-> "none", expired |-> FALSE, consumed |-> NoCall] \in Approval
      BY ContractType DEF Approval
    <2>2. approvals' \in Seq(Approval) /\ Len(approvals') = Len(approvals) + 1
      BY <1>0, <1>2, <2>1 DEF Ask, TypeOK
    <2>3. call' \in [Calls -> Call']
      <3>1. Call \subseteq Call'
        BY <1>0, <2>2 DEF Call
      <3>2. Idle \in Call'
        BY DEF Call
      <3> QED BY <1>2, <3>1, <3>2 DEF Ask, TypeOK
    <2>4. status' \in Statuses
      BY <1>2, ApprovalAssumption DEF Ask, TypeOK
    <2> QED BY <2>2, <2>3, <2>4, Outcomes DEF TypeOK
  <1>3. CASE Refuse(c)
    <2>1. Idle \in Call /\ Call' = Call
      BY <1>3 DEF Call, Refuse
    <2> QED BY <1>3, <2>1, Outcomes DEF Refuse, TypeOK
  <1> QED BY <1>1, <1>2, <1>3, Outcomes

LEMMA TypeStep == ASSUME TypeOK, [Next]_vars PROVE TypeOK'
  <1>0. /\ Len(approvals) \in Nat /\ DOMAIN approvals = 1..Len(approvals)
        /\ \A i \in DOMAIN approvals : approvals[i] \in Approval
    BY DEF TypeOK
  <1>a. ASSUME UNCHANGED approvals PROVE Call' = Call
    BY <1>a DEF Call
  <1>b. ASSUME NEW i \in DOMAIN approvals, NEW a \in Approval,
               approvals' = [approvals EXCEPT ![i] = a]
        PROVE  approvals' \in Seq(Approval) /\ Call' = Call
    <2>1. approvals' \in Seq(Approval) /\ Len(approvals') = Len(approvals)
      BY <1>0, <1>b DEF TypeOK
    <2> QED BY <2>1 DEF Call
  <1>1. ASSUME NEW c \in Calls, ReadWorktree(c) PROVE TypeOK'
    <2>1. PICK args \in Commands :
             call' = [call EXCEPT ![c] = [stage |-> "read", args |-> args, seen |-> content]]
      BY <1>1 DEF ReadWorktree
    <2>2. [stage |-> "read", args |-> args, seen |-> content] \in Call
      BY DEF Call, TypeOK
    <2> QED BY <1>1, <1>a, <2>1, <2>2 DEF ReadWorktree, TypeOK
  <1>2. ASSUME NEW c \in Calls, AuthorizeCommand(c) PROVE TypeOK'
    <2>1. call[c] \in Call /\ call[c].stage = "read"
      BY <1>2 DEF AuthorizeCommand, TypeOK
    <2>2. call[c].args \in Arguments /\ call[c].seen \in Contents
      BY <2>1 DEF Call, Arguments
    <2> QED BY <1>2, <2>2, TypeAuthorize DEF AuthorizeCommand
  <1>3. ASSUME NEW c \in Calls, AuthorizeEdit(c) PROVE TypeOK'
    BY <1>3, TypeAuthorize DEF AuthorizeEdit, Arguments, TypeOK
  <1>4. ASSUME NEW c \in Calls, SnapshotFails(c) PROVE TypeOK'
    <2>1. Idle \in Call
      BY DEF Call
    <2> QED BY <1>4, <1>a, <2>1 DEF SnapshotFails, TypeOK
  <1>5. ASSUME NEW c \in Calls, Act(c) PROVE TypeOK'
    <2>1. call[c] \in [stage : {"granted", "done"}, args : Arguments, id : 1..Len(approvals)]
      BY <1>5 DEF Act, Call, TypeOK
    <2>2. [call[c] EXCEPT !.stage = "done"] \in Call
      BY <2>1 DEF Call
    <2> QED BY <1>5, <1>a, <2>2 DEF Act, TypeOK
  <1>6. ASSUME NEW i \in DOMAIN approvals, Decide(i) PROVE TypeOK'
    <2>1. PICK d \in {"approved", "refused"} :
             /\ approvals' = [approvals EXCEPT ![i] = [approvals[i] EXCEPT !.decision = d]]
             /\ status' = IF d = "approved" THEN "editing" ELSE "needsIntervention"
      BY <1>6 DEF Decide
    <2>2. [approvals[i] EXCEPT !.decision = d] \in Approval
      BY <1>0 DEF Approval
    <2> QED BY <1>6, <1>b, <2>1, <2>2, ApprovalAssumption DEF Decide, TypeOK
  <1>7. ASSUME NEW i \in DOMAIN approvals, Expire(i) PROVE TypeOK'
    <2>1. approvals' = [approvals EXCEPT ![i] = [approvals[i] EXCEPT !.expired = TRUE]]
      BY <1>7 DEF Expire
    <2>2. [approvals[i] EXCEPT !.expired = TRUE] \in Approval
      BY <1>0 DEF Approval
    <2> QED BY <1>7, <1>b, <2>1, <2>2 DEF Expire, TypeOK
  <1>8. CASE WorktreeChanges
    BY <1>8, <1>a DEF WorktreeChanges, TypeOK
  <1>9. CASE ContractChanges
    BY <1>9, <1>a DEF ContractChanges, TypeOK
  <1>10. CASE TaskEnds
    BY <1>10, <1>a, ApprovalAssumption DEF TaskEnds, TypeOK
  <1>11. CASE UNCHANGED vars
    BY <1>11, <1>a DEF vars, TypeOK
  <1> QED BY <1>1, <1>2, <1>3, <1>4, <1>5, <1>6, <1>7, <1>8, <1>9, <1>10, <1>11
          DEF Next, CallStep

\* The variables keep their types.
THEOREM TypeCorrect == Spec => []TypeOK
  <1>1. Init => TypeOK
    <2>1. Idle \in [stage : {"idle"}]
      OBVIOUS
    <2> QED BY <2>1, ApprovalAssumption DEF Init, TypeOK, Call
  <1>2. TypeOK /\ [Next]_vars => TypeOK'
    BY TypeStep
  <1> QED BY <1>1, <1>2, PTL DEF Spec

-----------------------------------------------------------------------------
\* What a step does to the approvals: at most one is consumed, decided or
\* expires, or one is appended that no live one is bound to.
Changed(i) ==
    \/ /\ Live(i) /\ approvals[i].decision = "approved"
       /\ \E c \in Calls : approvals' = [approvals EXCEPT ![i].consumed = c]
    \/ /\ approvals[i].decision = "none" /\ approvals[i].consumed = NoCall
       /\ \E d \in {"approved", "refused"} :
             approvals' = [approvals EXCEPT ![i].decision = d]
    \/ approvals' = [approvals EXCEPT ![i].expired = TRUE]

Appended ==
    \E args \in Arguments, seen \in Contents :
        /\ Bound(args, seen) = {}
        /\ approvals' = Append(approvals,
              [args |-> args, content |-> seen, contract |-> ContractOf(args),
               decision |-> "none", expired |-> FALSE, consumed |-> NoCall])

LEMMA ApprovalSteps ==
    ASSUME TypeOK, [Next]_vars
    PROVE  \/ UNCHANGED approvals
           \/ \E i \in DOMAIN approvals : Changed(i)
           \/ Appended
  <1>1. ASSUME NEW c \in Calls, NEW args \in Arguments, NEW seen \in Contents,
               Authorize(c, args, seen)
        PROVE  UNCHANGED approvals \/ (\E i \in DOMAIN approvals : Changed(i)) \/ Appended
    <2>1. CASE \E i \in DOMAIN approvals : Consumable(i, args, seen) /\ Consume(c, i, args)
      BY <2>1 DEF Consumable, Consume, Changed
    <2>2. CASE Bound(args, seen) = {} /\ Ask(c, args, seen)
      BY <2>2 DEF Ask, Appended
    <2>3. CASE Refuse(c)
      BY <2>3 DEF Refuse
    <2> QED BY <1>1, <2>1, <2>2, <2>3, Outcomes
  <1>2. ASSUME NEW c \in Calls, AuthorizeCommand(c)
        PROVE  UNCHANGED approvals \/ (\E i \in DOMAIN approvals : Changed(i)) \/ Appended
    <2>1. call[c] \in Call /\ call[c].stage = "read"
      BY <1>2 DEF AuthorizeCommand, TypeOK
    <2>2. call[c].args \in Arguments /\ call[c].seen \in Contents
      BY <2>1 DEF Call, Arguments
    <2> QED BY <1>1, <1>2, <2>2 DEF AuthorizeCommand
  <1>3. ASSUME NEW c \in Calls, AuthorizeEdit(c)
        PROVE  UNCHANGED approvals \/ (\E i \in DOMAIN approvals : Changed(i)) \/ Appended
    BY <1>1, <1>3 DEF AuthorizeEdit, Arguments, TypeOK
  <1>4. ASSUME NEW i \in DOMAIN approvals, Decide(i) \/ Expire(i) PROVE Changed(i)
    BY <1>4 DEF Decide, Expire, Changed
  <1> QED BY <1>2, <1>3, <1>4
          DEF Next, CallStep, ReadWorktree, SnapshotFails, Act, WorktreeChanges,
              ContractChanges, TaskEnds, vars

-----------------------------------------------------------------------------
(* One call per approval.                                                  *)

Holds(c) ==
    /\ approvals[call[c].id].decision = "approved"
    /\ approvals[call[c].id].args = call[c].args
    /\ approvals[call[c].id].consumed = c

IInv == \A c \in Calls : Authorized(c) => Holds(c)

\* What is held is not changed by any step: it has been consumed and decided.
LEMMA HeldStays ==
    ASSUME TypeOK, [Next]_vars, NEW c \in Calls, NEW i \in DOMAIN approvals,
           approvals[i].decision = "approved", approvals[i].consumed = c
    PROVE  /\ i \in DOMAIN approvals'
           /\ approvals'[i].decision = "approved"
           /\ approvals'[i].args = approvals[i].args
           /\ approvals'[i].consumed = c
  <1>0. /\ Len(approvals) \in Nat /\ DOMAIN approvals = 1..Len(approvals)
        /\ \A j \in DOMAIN approvals : approvals[j] \in Approval
        /\ c # NoCall
    BY ApprovalAssumption DEF TypeOK
  <1>1. CASE UNCHANGED approvals
    BY <1>1
  <1>2. ASSUME NEW j \in DOMAIN approvals, Changed(j)
        PROVE  /\ i \in DOMAIN approvals'
               /\ approvals'[i].decision = "approved"
               /\ approvals'[i].args = approvals[i].args
               /\ approvals'[i].consumed = c
    BY <1>0, <1>2 DEF Changed, Live, Approval
  <1>3. CASE Appended
    BY <1>0, <1>3 DEF Appended, TypeOK
  <1> QED BY <1>1, <1>2, <1>3, ApprovalSteps

LEMMA HoldsStep == ASSUME TypeOK, IInv, [Next]_vars PROVE IInv'
  <1> SUFFICES ASSUME NEW c \in Calls, Authorized(c)' PROVE Holds(c)'
    BY DEF IInv
  <1>0. call \in [Calls -> Call]
    BY DEF TypeOK
  <1>1. CASE Authorized(c) /\ call'[c].id = call[c].id /\ call'[c].args = call[c].args
    <2>1. call[c].id \in DOMAIN approvals
      BY <1>0, <1>1 DEF Authorized, Call, TypeOK
    <2> QED BY <1>1, <2>1, HeldStays DEF IInv, Holds
  <1>2. ASSUME NEW d \in Calls, NEW args \in Arguments, NEW seen \in Contents,
               Authorize(d, args, seen), ~Authorized(d)
        PROVE  Holds(c)'
    <2>1. CASE c # d
      <3>1. call'[c] = call[c]
        BY <1>0, <1>2, <2>1, Outcomes DEF Consume, Ask, Refuse
      <3> QED BY <1>1, <3>1 DEF Authorized
    <2>2. CASE c = d
      <3>1. PICK i \in DOMAIN approvals : Consumable(i, args, seen) /\ Consume(c, i, args)
        <4>1. CASE Ask(c, args, seen) \/ Refuse(c)
          <5>1. call'[c] = Idle
            BY <1>0, <4>1 DEF Ask, Refuse
          <5> QED BY <5>1 DEF Authorized
        <4> QED BY <1>2, <2>2, <4>1, Outcomes
      <3>2. call'[c] = [stage |-> "granted", args |-> args, id |-> i]
        BY <1>0, <3>1 DEF Consume
      <3>3. approvals[i] \in Approval
        BY DEF TypeOK
      <3>4. approvals'[i] = [approvals[i] EXCEPT !.consumed = c]
        BY <3>1 DEF Consume
      <3> QED BY <3>1, <3>2, <3>3, <3>4 DEF Consumable, Holds, Approval
    <2> QED BY <2>1, <2>2
  <1>3. ASSUME NEW d \in Calls, AuthorizeCommand(d) PROVE Holds(c)'
    <2>1. call[d] \in Call /\ call[d].stage = "read"
      BY <1>3 DEF AuthorizeCommand, TypeOK
    <2>2. call[d].args \in Arguments /\ call[d].seen \in Contents /\ ~Authorized(d)
      BY <2>1 DEF Call, Arguments, Authorized
    <2> QED BY <1>2, <1>3, <2>2 DEF AuthorizeCommand
  <1>4. ASSUME NEW d \in Calls, AuthorizeEdit(d) PROVE Holds(c)'
    <2>1. ~Authorized(d) /\ \E args \in Edits : Authorize(d, args, content)
      BY <1>4 DEF AuthorizeEdit, Authorized
    <2> QED BY <1>2, <2>1 DEF Arguments, TypeOK
  <1>5. ASSUME NEW d \in Calls, ReadWorktree(d) \/ SnapshotFails(d) PROVE Holds(c)'
    <2>1. c # d
      BY <1>0, <1>5 DEF ReadWorktree, SnapshotFails, Authorized
    <2>2. call'[c] = call[c]
      BY <1>0, <1>5, <2>1 DEF ReadWorktree, SnapshotFails
    <2> QED BY <1>1, <2>2 DEF Authorized
  <1>6. ASSUME NEW d \in Calls, Act(d) PROVE Holds(c)'
    <2>1. CASE c # d
      <3>1. call'[c] = call[c]
        BY <1>0, <1>6, <2>1 DEF Act
      <3> QED BY <1>1, <3>1 DEF Authorized
    <2>2. CASE c = d
      <3>1. call[c] \in [stage : {"granted", "done"}, args : Arguments,
                         id : 1..Len(approvals)]
        BY <1>0, <1>6, <2>2 DEF Act, Call
      <3>2. call'[c] = [call[c] EXCEPT !.stage = "done"]
        BY <1>0, <1>6, <2>2 DEF Act
      <3> QED BY <1>1, <1>6, <2>2, <3>1, <3>2 DEF Act, Authorized
    <2> QED BY <2>1, <2>2
  <1>7. CASE UNCHANGED call
    BY <1>1, <1>7 DEF Authorized
  <1> QED BY <1>3, <1>4, <1>5, <1>6, <1>7
          DEF Next, CallStep, Decide, Expire, WorktreeChanges, ContractChanges,
              TaskEnds, vars

\* However many calls race, repeat themselves or name the same approval, each
\* authorized call has an approval of its own that was given for it.
THEOREM ApprovalsAuthorizeOneCall == Spec => []OneCallPerApproval
  <1>1. Init => IInv
    BY DEF Init, IInv, Authorized
  <1>2. TypeOK /\ IInv /\ [Next]_vars => IInv'
    BY HoldsStep
  <1>3. IInv => OneCallPerApproval
    BY DEF IInv, Holds, OneCallPerApproval
  <1> QED BY <1>1, <1>2, <1>3, TypeCorrect, PTL DEF Spec

-----------------------------------------------------------------------------
\* Two live approvals are never for the same thing.
LEMMA AskedOnceStep == ASSUME TypeOK, AskedOnce, [Next]_vars PROVE AskedOnce'
  <1> DEFINE Same(i, j) == /\ approvals[i].args = approvals[j].args
                           /\ approvals[i].content = approvals[j].content
  <1>0. /\ Len(approvals) \in Nat /\ DOMAIN approvals = 1..Len(approvals)
        /\ \A j \in DOMAIN approvals : approvals[j] \in Approval
    BY DEF TypeOK
  <1>1. AskedOnce <=> \A i, j \in DOMAIN approvals : Live(i) /\ Live(j) /\ Same(i, j) => i = j
    BY DEF AskedOnce
  <1>2. AskedOnce' <=> (\A i, j \in DOMAIN approvals : Live(i) /\ Live(j) /\ Same(i, j) => i = j)'
    BY DEF AskedOnce
  <1>3. ASSUME DOMAIN approvals' = DOMAIN approvals,
               \A i \in DOMAIN approvals :
                  /\ Live(i)' => Live(i)
                  /\ approvals'[i].args = approvals[i].args
                  /\ approvals'[i].content = approvals[i].content
        PROVE  AskedOnce'
    BY <1>1, <1>2, <1>3
  <1>4. ASSUME NEW i \in DOMAIN approvals, Changed(i) PROVE AskedOnce'
    <2>1. \A j \in DOMAIN approvals :
             /\ Live(j)' => Live(j)
             /\ approvals'[j].args = approvals[j].args
             /\ approvals'[j].content = approvals[j].content
      BY <1>0, <1>4, ApprovalAssumption DEF Changed, Live, Approval
    <2> QED BY <1>3, <1>4, <2>1 DEF Changed
  <1>5. CASE Appended
    <2>1. PICK args \in Arguments, seen \in Contents :
             /\ Bound(args, seen) = {}
             /\ approvals' = Append(approvals,
                   [args |-> args, content |-> seen, contract |-> ContractOf(args),
                    decision |-> "none", expired |-> FALSE, consumed |-> NoCall])
      BY <1>5 DEF Appended
    <2> DEFINE n == Len(approvals) + 1
    <2>2. /\ DOMAIN approvals' = DOMAIN approvals \cup {n}
          /\ \A i \in DOMAIN approvals : approvals'[i] = approvals[i]
          /\ approvals'[n].args = args /\ approvals'[n].content = seen
      BY <1>0, <2>1 DEF TypeOK
    <2>3. \A i \in DOMAIN approvals : Live(i)' = Live(i)
      BY <2>2 DEF Live
    <2>4. \A i \in DOMAIN approvals :
             ~(Live(i) /\ approvals[i].args = args /\ approvals[i].content = seen)
      BY <2>1 DEF Bound
    <2> HIDE DEF n
    <2> QED BY <1>1, <1>2, <2>2, <2>3, <2>4
  <1>6. CASE UNCHANGED approvals
    BY <1>3, <1>6 DEF Live
  <1> QED BY <1>4, <1>5, <1>6, ApprovalSteps

\* At any time at most one approval waits for, or holds, the user's answer to
\* the same question.
THEOREM UserAskedOnce == Spec => []AskedOnce
  <1>1. Init => AskedOnce
    BY DEF Init, AskedOnce
  <1>2. TypeOK /\ AskedOnce /\ [Next]_vars => AskedOnce'
    BY AskedOnceStep
  <1> QED BY <1>1, <1>2, TypeCorrect, PTL DEF Spec

-----------------------------------------------------------------------------
\* A refused, consumed or expired approval stays so.
THEOREM DeadApprovalsStayDead == Spec => NeverRevived
  <1> DEFINE Dead(i) == approvals[i].decision = "refused" \/ ~Live(i)
  <1>1. ASSUME TypeOK, [Next]_vars, NEW i \in DOMAIN approvals, Dead(i) PROVE Dead(i)'
    <2>0. /\ Len(approvals) \in Nat /\ DOMAIN approvals = 1..Len(approvals)
          /\ \A j \in DOMAIN approvals : approvals[j] \in Approval
      BY <1>1 DEF TypeOK
    <2>1. CASE UNCHANGED approvals
      BY <1>1, <2>1 DEF Live
    <2>2. ASSUME NEW j \in DOMAIN approvals, Changed(j) PROVE Dead(i)'
      BY <1>1, <2>0, <2>2, ApprovalAssumption DEF Changed, Live, Approval
    <2>3. CASE Appended
      BY <1>1, <2>0, <2>3 DEF Appended, Live, TypeOK
    <2> QED BY <1>1, <2>1, <2>2, <2>3, ApprovalSteps
  <1>2. TypeOK /\ [Next]_vars => [\A i \in DOMAIN approvals : Dead(i) => Dead(i)']_vars
    BY <1>1
  <1> QED BY <1>2, TypeCorrect, PTL DEF Spec, NeverRevived
=============================================================================
