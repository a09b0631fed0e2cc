------------------------------ MODULE MCFileEdit ------------------------------
(* Two requests: up to two operations of any kind, and a create.           *)
EXTENDS FileEditTransaction

CONSTANTS r1, r2, a, b, c, x, y

TwoRequests == {r1, r2}
ThreePaths  == {a, b, c}
MCContents  == {x, y}

\* Operations that write y: the files hold x, y or nothing at first.
OperationsOn(S) ==
    {op \in Operation :
        /\ op.path \in S /\ (op.kind = "rename" => op.destination \in S)
        /\ op.kind \in {"create", "update"} => op.content = y}

EditsOn(S, n) == UNION {[1..k -> OperationsOn(S)] : k \in 1..n}

\* Two requests never touch the same file; the second is there for the
\* interleaving, and only creates its file.
Edits(r) ==
    IF r = r1 THEN EditsOn({a, b}, 2)
    ELSE {<<op>> : op \in {o \in OperationsOn({c}) : o.kind = "create"}}

\* A rename onto a file fails; of the others the calls may fail, before or after
\* the effect.
MCProposed(r, fs) ==
    {ops \in Edits(r) : PathsUsedOnce(ops) /\ \A i \in DOMAIN ops : OwnWork(fs, ops[i])}

ASSUME SeparateEdits
=============================================================================
