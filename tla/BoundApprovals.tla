---------------------------- MODULE BoundApprovals ----------------------------
(***************************************************************************)
(* Approvals that are bound to one action of one task                      *)
(* (src/apps/desktop/src-tauri/src/storage/mod.rs, ApprovalRepository).  A *)
(* call that needs one presents what it is going to do and what the        *)
(* worktree holds; it consumes an approval given for exactly that, or it   *)
(* asks for one and is refused.  The callers are enforce_command_safety    *)
(* (commands/exec.rs) and enforce_file_authorization (commands/files.rs).  *)
(*                                                                         *)
(* A digest stands for what it is taken of.  A command's worktree is read  *)
(* before the store is locked, and every call acts after it is unlocked.   *)
(***************************************************************************)
EXTENDS Naturals, Sequences, FiniteSets

CONSTANTS Calls,              \* run ids and request ids
          NoCall,
          Commands, Edits,    \* the arguments of a call: a command, or file operations
          Contents,           \* of the worktree
          Contracts,          \* run contracts of the task
          Statuses, Terminal, \* task statuses, and those no call is authorized in
          MaxApprovals        \* bound

ASSUME ApprovalAssumption ==
    /\ NoCall \notin Calls
    /\ Commands \cap Edits = {}
    /\ Terminal \subseteq Statuses
    /\ {"editing", "awaitingApproval", "needsIntervention"} \subseteq Statuses \ Terminal
    /\ MaxApprovals \in Nat

VARIABLES approvals,  \* in the order of their creation
          call,       \* what each call is doing
          content, contract,
          status      \* tasks.status

vars == <<approvals, call, content, contract, status>>

Arguments == Commands \cup Edits

Approval ==
    [args : Arguments, content : Contents, contract : Contracts,
     decision : {"none", "approved", "refused"},  \* "refused": rejected or revise
     expired : BOOLEAN, consumed : Calls \cup {NoCall}]

Idle == [stage |-> "idle"]

\* A call that holds an authorization, or has acted on one.
Authorized(c) == call[c].stage \in {"granted", "done"}

Init ==
    /\ approvals = <<>>
    /\ call = [c \in Calls |-> Idle]
    /\ content \in Contents
    /\ contract \in Contracts
    /\ status = "editing"

\* The contract of a file edit is the task and its worktree, which stay.
ContractOf(args) == IF args \in Edits THEN CHOOSE k \in Contracts : TRUE ELSE contract

\* Mutant: consumed_at is not looked at.
NotExpired(i) == ~approvals[i].expired

Live(i) == ~approvals[i].expired /\ approvals[i].consumed = NoCall

\* Mutant: approvals the user has not answered yet are not found.
BoundAndDecided(args, seen) ==
    {i \in DOMAIN approvals :
        /\ Live(i) /\ approvals[i].decision # "none"
        /\ approvals[i].args = args /\ approvals[i].content = seen}

\* find_bound
Bound(args, seen) ==
    {i \in DOMAIN approvals :
        Live(i) /\ approvals[i].args = args /\ approvals[i].content = seen}

\* consume_authorization
Consumable(i, args, seen) ==
    /\ Live(i) /\ approvals[i].decision = "approved"
    /\ approvals[i].args = args /\ approvals[i].content = seen
    /\ approvals[i].contract = ContractOf(args)
    /\ status \notin Terminal

Consume(c, i, args) ==
    /\ approvals' = [approvals EXCEPT ![i].consumed = c]
    /\ call' = [call EXCEPT ![c] = [stage |-> "granted", args |-> args, id |-> i]]
    /\ status' = status

\* Only a command makes the task wait.
Ask(c, args, seen) ==
    /\ Len(approvals) < MaxApprovals
    /\ approvals' = Append(approvals,
          [args |-> args, content |-> seen, contract |-> ContractOf(args),
           decision |-> "none", expired |-> FALSE, consumed |-> NoCall])
    /\ call' = [call EXCEPT ![c] = Idle]
    /\ status' = IF args \in Commands THEN "awaitingApproval" ELSE status

Refuse(c) == call' = [call EXCEPT ![c] = Idle] /\ UNCHANGED <<approvals, status>>

Present(c, i, args, seen) ==
    IF Consumable(i, args, seen) THEN Consume(c, i, args) ELSE Refuse(c)

\* A call may name the approval it was told of.  Without a name the latest one
\* that is bound to it is taken, and asked for when there is none.
Authorize(c, args, seen) ==
    /\ \/ \E i \in DOMAIN approvals : Present(c, i, args, seen)
       \/ Bound(args, seen) = {} /\ Ask(c, args, seen)
       \/ \E i \in Bound(args, seen) :
             /\ \A j \in Bound(args, seen) : j <= i
             /\ Present(c, i, args, seen)
    /\ UNCHANGED <<content, contract>>

-----------------------------------------------------------------------------
ReadWorktree(c) ==
    /\ call[c] = Idle
    /\ \E args \in Commands :
          call' = [call EXCEPT ![c] = [stage |-> "read", args |-> args, seen |-> content]]
    /\ UNCHANGED <<approvals, content, contract, status>>

AuthorizeCommand(c) ==
    call[c].stage = "read" /\ Authorize(c, call[c].args, call[c].seen)

AuthorizeEdit(c) == call[c] = Idle /\ \E args \in Edits : Authorize(c, args, content)

\* The inverse of the edit cannot be built.  The approval stays consumed, and
\* the request may be made again.
SnapshotFails(c) ==
    /\ call[c].stage = "granted" /\ call[c].args \in Edits
    /\ call' = [call EXCEPT ![c] = Idle]
    /\ UNCHANGED <<approvals, content, contract, status>>

\* The command is started, or the operations are executed; either may change
\* the worktree.
Act(c) ==
    /\ call[c].stage = "granted"
    /\ call' = [call EXCEPT ![c].stage = "done"]
    /\ content' \in Contents
    /\ UNCHANGED <<approvals, contract, status>>

DecideAgain(i) ==
    /\ approvals[i].consumed = NoCall
    /\ \E d \in {"approved", "refused"} :
          /\ approvals' = [approvals EXCEPT ![i].decision = d]
          /\ status' = IF d = "approved" THEN "editing" ELSE "needsIntervention"
    /\ UNCHANGED <<call, content, contract>>

\* decide_approval.
Decide(i) ==
    /\ approvals[i].decision = "none" /\ approvals[i].consumed = NoCall
    /\ \E d \in {"approved", "refused"} :
          /\ approvals' = [approvals EXCEPT ![i].decision = d]
          /\ status' = IF d = "approved" THEN "editing" ELSE "needsIntervention"
    /\ UNCHANGED <<call, content, contract>>

\* 900 seconds after its creation.
Expire(i) ==
    /\ ~approvals[i].expired /\ \A j \in 1..(i - 1) : approvals[j].expired
    /\ approvals' = [approvals EXCEPT ![i].expired = TRUE]
    /\ UNCHANGED <<call, content, contract, status>>

\* Calls that need no approval, and the user, change the worktree.
WorktreeChanges ==
    content' \in Contents \ {content} /\ UNCHANGED <<approvals, call, contract, status>>

ContractChanges ==
    contract' \in Contracts \ {contract} /\ UNCHANGED <<approvals, call, content, status>>

\* sync_agent_state and merge_task.
TaskEnds ==
    /\ status' \in Terminal
    /\ UNCHANGED <<approvals, call, content, contract>>

CallStep(c) ==
    \/ ReadWorktree(c) \/ AuthorizeCommand(c) \/ AuthorizeEdit(c)
    \/ SnapshotFails(c) \/ Act(c)

Next ==
    \/ \E c \in Calls : CallStep(c)
    \/ \E i \in DOMAIN approvals : Decide(i) \/ Expire(i)
    \/ WorktreeChanges \/ ContractChanges \/ TaskEnds

Spec == Init /\ [][Next]_vars

-----------------------------------------------------------------------------
Call ==
    [stage : {"idle"}]
        \cup [stage : {"read"}, args : Commands, seen : Contents]
        \cup [stage : {"granted", "done"}, args : Arguments, id : 1..Len(approvals)]

\* The values the variables take.
TypeOK ==
    /\ approvals \in Seq(Approval)
    /\ call \in [Calls -> Call]
    /\ content \in Contents /\ contract \in Contracts
    /\ status \in Statuses

\* No call is authorized twice over: each holds, or has used up, an approval
\* that the user gave for its arguments, and no two calls share one, however
\* many of them race, repeat themselves or name the same approval.
OneCallPerApproval ==
    /\ \A c \in Calls : Authorized(c) =>
          /\ approvals[call[c].id].decision = "approved"
          /\ approvals[call[c].id].args = call[c].args
          /\ approvals[call[c].id].consumed = c
    /\ \A c, d \in Calls :
          Authorized(c) /\ Authorized(d) /\ call[c].id = call[d].id => c = d

\* The user is never asked twice at the same time for the same thing, so what
\* find_bound takes as the latest is the only one.
AskedOnce ==
    \A i, j \in DOMAIN approvals :
        /\ Live(i) /\ Live(j)
        /\ approvals[i].args = approvals[j].args
        /\ approvals[i].content = approvals[j].content
        => i = j

\* An approval that was refused, has been used or has expired is never used
\* (again): one that is ready to be used was given just now, or was ready.
NeverRevived ==
    [][\A i \in DOMAIN approvals :
          (approvals[i].decision = "refused" \/ ~Live(i))
              => (approvals[i].decision = "refused" \/ ~Live(i))']_vars
=============================================================================
