----------------------------- MODULE AtomicEdits -----------------------------
(***************************************************************************)
(* What a file-edit transaction keeps to: a request is recorded once, and  *)
(* then changes all of its files at once or none.  A crash is not visible. *)
(* An operation may slip: it reports an error after it took effect.  What  *)
(* is rolled back then may leave the effect of one such operation.         *)
(***************************************************************************)
EXTENDS Naturals, Sequences

CONSTANTS Requests,
          Effect(_, _)   \* what given contents become when a sequence of operations is made

VARIABLES contents,  \* the files, as far as settled requests have changed them
          asked,     \* the operations each request asks for, none before it is recorded
          decided,   \* "open", "committed" or "rolled_back"
          slipped    \* the operations of each request that slipped

vars == <<contents, asked, decided, slipped>>

Init ==
    /\ asked = [r \in Requests |-> <<>>]
    /\ decided = [r \in Requests |-> "open"]
    /\ slipped = [r \in Requests |-> {}]

Record(r) ==
    /\ asked[r] = <<>>
    /\ asked' = [asked EXCEPT ![r] = asked'[r]] /\ asked'[r] # <<>>
    /\ UNCHANGED <<contents, decided, slipped>>

Slip(r) ==
    /\ decided[r] = "open"
    /\ \E i \in DOMAIN asked[r] : slipped' = [slipped EXCEPT ![r] = @ \cup {i}]
    /\ UNCHANGED <<contents, asked, decided>>

Decide(r, decision) ==
    /\ asked[r] # <<>> /\ decided[r] = "open"
    /\ decided' = [decided EXCEPT ![r] = decision]
    /\ UNCHANGED <<asked, slipped>>

CommitAll(r) ==
    /\ Decide(r, "committed") /\ slipped[r] = {}
    /\ contents' = Effect(contents, asked[r])

RollBack(r) ==
    /\ Decide(r, "rolled_back")
    /\ \/ contents' = contents
       \/ \E i \in slipped[r] : contents' = Effect(contents, <<asked[r][i]>>)

Next == \E r \in Requests : Record(r) \/ Slip(r) \/ CommitAll(r) \/ RollBack(r)

Spec == Init /\ [][Next]_vars
=============================================================================
