-------------------------- MODULE AgentServiceProofs --------------------------
(***************************************************************************)
(* Proofs about the Python Agent: the loop of one task (AutonomousLoop)    *)
(* and the process that it runs in (AgentProcess).  The two share no state *)
(* and are proved one after the other.                                     *)
(*                                                                         *)
(* The loop, for any calls, tools, arguments and limits: the order of the  *)
(* requests, and that each step of the loop is a step of TaskPhases.  Both *)
(* rest on one invariant: while a task is not paused for good, all calls   *)
(* of the model are distinct, and exactly those before the open request    *)
(* are answered.                                                           *)
(*                                                                         *)
(* The process, for any threads and any number of processes, saves and     *)
(* restarts: while one thread at a time uses the service, there is one     *)
(* process, and it has the configuration of the service.                   *)
(***************************************************************************)
EXTENDS AutonomousLoop, AgentProcess, FiniteSetTheorems, SequenceTheorems, TLAPS

-----------------------------------------------------------------------------
(* The loop of one task.                                                   *)

Fingerprints == {NoFingerprint} \cup (Tools \X Arguments \X Statuses)

Loops ==
    [phase : Paused \cup {"created"}, pending : Call \cup {NoCall}, calls : Seq(RawCall),
     batch : Nat \ {0}, results : Seq(Result), round : Nat, tokens : Nat,
     duplicates : Nat, fingerprint : Fingerprints, errors : Nat]

TypeOK == s \in Loops

\* The results are those of the first calls, one for each.
Serial(st) ==
    /\ Len(st.results) <= Len(st.calls)
    /\ \A i \in 1..Len(st.results) :
          st.results[i].id = st.calls[i].id /\ st.results[i].tool = st.calls[i].tool
    /\ \A i, j \in 1..Len(st.results) : st.results[i].id = st.results[j].id => i = j

\* Only calls that were checked are ever asked for.
Checked(st) ==
    /\ \A i \in 1..Len(st.calls) : st.calls[i] \in Call
    /\ \A i, j \in 1..Len(st.calls) : st.calls[i].id = st.calls[j].id => i = j

\* What the phase says of the next call.
NextCall(st) ==
    /\ st.phase = "created" => Len(st.results) = Len(st.calls) /\ st.pending = NoCall
    /\ st.phase = "waiting_runtime" =>
          /\ Len(st.results) < Len(st.calls)
          /\ st.pending = st.calls[Len(st.results) + 1]
          /\ st.batch <= Len(st.results) + 1
    /\ st.phase \in {"created", "waiting_runtime"} => Checked(st)

\* The limit on rounds limits the calls.
Bounded(st) == st.round <= MaxRounds /\ Len(st.calls) <= st.round * MaxBatch

LoopInv(st) == Serial(st) /\ NextCall(st) /\ Bounded(st)

IInv == TypeOK /\ LoopInv(s)

-----------------------------------------------------------------------------
(* A model decision.                                                       *)

LEMMA Limits ==
    /\ MaxBatch \in Nat \ {0} /\ MaxRounds \in Nat \ {0} /\ MaxDuplicates \in Nat \ {0}
    /\ TokenBudget \in Nat \ {0} /\ MaxUsage \in Nat
BY LoopAssumption

LEMMA ReplyCalls ==
    ASSUME NEW reply \in Reply
    PROVE  /\ reply.calls \in Seq(RawCall) /\ Len(reply.calls) \in Nat
           /\ Len(reply.calls) <= MaxBatch /\ DOMAIN reply.calls = 1..Len(reply.calls)
           /\ reply.tokens \in Nat
<1>1. PICK n \in 0..MaxBatch : reply.calls \in [1..n -> RawCall]
  BY DEF Reply
<1>2. n \in Nat /\ reply.tokens \in 0..MaxUsage
  BY Limits DEF Reply
<1>3. reply.calls \in Seq(RawCall)
  BY <1>1, <1>2, SeqDef
<1>4. /\ Len(reply.calls) \in Nat
      /\ DOMAIN reply.calls = 1..Len(reply.calls) /\ DOMAIN reply.calls = 1..n
  BY <1>1, <1>3, LenProperties
<1>5. Len(reply.calls) = n
  BY <1>2, <1>4
<1> QED  BY <1>1, <1>2, <1>3, <1>4, <1>5, Limits

\* One round more has room for the calls of one more reply.
LEMMA OneMoreRound ==
    ASSUME NEW r \in Nat, NEW n \in Nat, NEW m \in Nat, r < MaxRounds,
           n <= r * MaxBatch, m <= MaxBatch
    PROVE  /\ n + m <= (r + 1) * MaxBatch
           /\ (r + 1) * MaxBatch <= MaxRounds * MaxBatch
<1>1. (r + 1) * MaxBatch = r * MaxBatch + MaxBatch
  BY Limits
<1>2. PICK k \in Nat : MaxRounds = (r + 1) + k
  <2>1. MaxRounds - (r + 1) \in Nat
    BY Limits
  <2> QED  BY <2>1, Limits
<1>3. MaxRounds * MaxBatch = (r + 1) * MaxBatch + k * MaxBatch
  BY <1>2, Limits
<1>4. k * MaxBatch >= 0 /\ r * MaxBatch \in Int
  BY Limits
<1> QED  BY <1>1, <1>3, <1>4, Limits

LEMMA Rounds ==
    ASSUME NEW r \in Nat, r <= MaxRounds
    PROVE  r * MaxBatch <= MaxRounds * MaxBatch
<1>1. PICK k \in Nat : MaxRounds = r + k
  <2>1. MaxRounds - r \in Nat
    BY Limits
  <2> QED  BY <2>1, Limits
<1>2. MaxRounds * MaxBatch = r * MaxBatch + k * MaxBatch
  BY <1>1, Limits
<1> QED  BY <1>2, Limits

\* What a reply adds to the record, and the two ways it goes on.
LEMMA DecisionFields ==
    ASSUME NEW st \in Loops, NEW reply \in Reply, NEW st2, RecordDecision(st, reply, st2),
           st.pending = NoCall
    PROVE  /\ st2 \in Loops
           /\ st2.calls = st.calls \o reply.calls /\ st2.results = st.results
           /\ st2.batch = Len(st.calls) + 1 /\ st2.round = st.round + 1
           /\ \/ st2.phase = "needs_intervention"
              \/ /\ st2.phase = "waiting_runtime" /\ Acceptable(st, reply.calls)
                 /\ st2.pending = reply.calls[1]
<1> DEFINE calls == st.calls \o reply.calls
           asked == [st EXCEPT !.calls = calls, !.batch = Len(st.calls) + 1,
                               !.round = @ + 1, !.tokens = @ + reply.tokens]
           counted == [asked EXCEPT !.duplicates = DuplicateCount(st, reply.calls[1])]
<1>1. /\ calls \in Seq(RawCall) /\ Len(st.calls) + 1 \in Nat \ {0}
      /\ reply.tokens \in Nat
  BY ReplyCalls, ConcatProperties, LenProperties DEF Loops
<1>2. /\ asked \in Loops /\ asked.calls = calls /\ asked.results = st.results
      /\ asked.batch = Len(st.calls) + 1 /\ asked.round = st.round + 1
      /\ asked.phase = st.phase /\ asked.pending = st.pending /\ asked.tokens \in Nat
  <2>1. st.round + 1 \in Nat /\ st.tokens + reply.tokens \in Nat
    BY <1>1 DEF Loops
  <2> HIDE DEF calls
  <2>2. asked.tokens = st.tokens + reply.tokens /\ asked.calls = calls
        /\ asked.batch = Len(st.calls) + 1 /\ asked.round = st.round + 1
        /\ asked.results = st.results /\ asked.phase = st.phase /\ asked.pending = st.pending
    BY DEF Loops
  <2> HIDE DEF asked
  <2>3. asked \in Loops
    BY <1>1, <2>1 DEF Loops, asked
  <2> QED  BY <2>1, <2>2, <2>3
<1>3. DuplicateCount(st, reply.calls[1]) \in Nat
  BY DEF DuplicateCount, Loops
<1>4. /\ counted \in Loops /\ counted.calls = calls /\ counted.results = st.results
      /\ counted.batch = Len(st.calls) + 1 /\ counted.round = st.round + 1
  <2> HIDE DEF asked
  <2> QED  BY <1>2, <1>3 DEF Loops
<1>5. \/ st2 = NeedsIntervention(asked)
      \/ st2 = NeedsIntervention([asked EXCEPT !.errors = @ + 1])
      \/ st2 = NeedsIntervention(counted)
      \/ /\ Acceptable(st, reply.calls)
         /\ st2 = [counted EXCEPT !.phase = "waiting_runtime", !.pending = reply.calls[1]]
  BY DEF RecordDecision
<1>6. Acceptable(st, reply.calls) => reply.calls[1] \in Call
  <2> SUFFICES ASSUME Acceptable(st, reply.calls) PROVE reply.calls[1] \in Call
    OBVIOUS
  <2>1. 1 \in 1..Len(reply.calls)
    BY ReplyCalls, EmptySeq DEF Acceptable
  <2>2. reply.calls[1] \in RawCall
    BY <2>1, ReplyCalls, ElementOfSeq
  <2> QED  BY <2>1, <2>2, ReplyCalls DEF Acceptable, RawCall, Call
<1> HIDE DEF calls, asked, counted
<1>7. CASE st2 = NeedsIntervention(asked)
  BY <1>2, <1>7 DEF NeedsIntervention, Loops, calls, Paused
<1>8. CASE st2 = NeedsIntervention([asked EXCEPT !.errors = @ + 1])
  <2> DEFINE erred == [asked EXCEPT !.errors = @ + 1]
  <2>1. asked.errors + 1 \in Nat
    BY <1>2 DEF Loops
  <2>2. /\ erred \in Loops /\ erred.calls = calls /\ erred.results = st.results
        /\ erred.batch = Len(st.calls) + 1 /\ erred.round = st.round + 1
    BY <1>2, <2>1 DEF Loops
  <2>3. st2 = NeedsIntervention(erred)
    BY <1>8
  <2> HIDE DEF erred
  <2> QED  BY <2>2, <2>3 DEF NeedsIntervention, Loops, calls, Paused
<1>9. CASE st2 = NeedsIntervention(counted)
  BY <1>4, <1>9 DEF NeedsIntervention, Loops, calls, Paused
<1>10. CASE /\ Acceptable(st, reply.calls)
            /\ st2 = [counted EXCEPT !.phase = "waiting_runtime", !.pending = reply.calls[1]]
  BY <1>4, <1>6, <1>10 DEF Loops, calls, Paused
<1> QED  BY <1>5, <1>7, <1>8, <1>9, <1>10

\* A decision keeps the calls in order: the next one to ask for is the first
\* of the reply.
LEMMA DecisionKeeps ==
    ASSUME NEW st \in Loops, NEW reply \in Reply, NEW st2, RecordDecision(st, reply, st2),
           LoopInv(st), st.phase = "created", ~Exhausted(st)
    PROVE  st2 \in Loops /\ LoopInv(st2)
<1>1. st.pending = NoCall /\ Len(st.results) = Len(st.calls) /\ Checked(st)
  BY DEF LoopInv, NextCall
<1>2. /\ st2 \in Loops /\ st2.calls = st.calls \o reply.calls /\ st2.results = st.results
      /\ st2.batch = Len(st.calls) + 1 /\ st2.round = st.round + 1
      /\ \/ st2.phase = "needs_intervention"
         \/ /\ st2.phase = "waiting_runtime" /\ Acceptable(st, reply.calls)
            /\ st2.pending = reply.calls[1]
  BY <1>1, DecisionFields
<1> DEFINE n == Len(st.calls)
           m == Len(reply.calls)
<1>3. /\ st.calls \in Seq(RawCall) /\ n \in Nat
      /\ reply.calls \in Seq(RawCall) /\ m \in Nat /\ m <= MaxBatch
      /\ DOMAIN reply.calls = 1..m
      /\ st.results \in Seq(Result) /\ DOMAIN st.calls = 1..n
      /\ st.round \in Nat
  BY ReplyCalls, LenProperties DEF Loops
<1>4. /\ Len(st2.calls) = n + m
      /\ \A i \in 1..n : st2.calls[i] = st.calls[i]
      /\ \A j \in 1..m : st2.calls[n + j] = reply.calls[j]
  <2>0. n \in Nat /\ m \in Nat /\ st.calls \in Seq(RawCall) /\ reply.calls \in Seq(RawCall)
    BY <1>3
  <2>1. /\ Len(st.calls \o reply.calls) = n + m
        /\ \A i \in 1..(n + m) :
              (st.calls \o reply.calls)[i] = IF i <= n THEN st.calls[i] ELSE reply.calls[i - n]
    BY <2>0, ConcatProperties
  <2> HIDE DEF n, m
  <2>2. \A i \in 1..n : i \in 1..(n + m) /\ i <= n
    BY <2>0
  <2>3. \A j \in 1..m : n + j \in 1..(n + m) /\ ~(n + j <= n) /\ (n + j) - n = j
    BY <2>0
  <2>4. \A i \in 1..n : (st.calls \o reply.calls)[i] = st.calls[i]
    BY <2>1, <2>2
  <2>5. ASSUME NEW j \in 1..m PROVE (st.calls \o reply.calls)[n + j] = reply.calls[j]
    <3>1. n + j \in 1..(n + m) /\ ~(n + j <= n) /\ (n + j) - n = j
      BY <2>3
    <3> QED  BY <2>1, <3>1
  <2> QED  BY <1>2, <2>1, <2>4, <2>5
<1> HIDE DEF n, m
<1>5. Serial(st2)
  <2>1. Len(st2.results) = n /\ n <= n + m
    BY <1>1, <1>2, <1>3 DEF n
  <2>2. Serial(st)
    BY DEF LoopInv
  <2> QED  BY <1>1, <1>2, <1>4, <2>1, <2>2 DEF Serial, n
<1>6. Bounded(st2)
  <2>1. st.round < MaxRounds /\ n <= st.round * MaxBatch
    BY <1>3, Limits DEF Exhausted, LoopInv, Bounded, n
  <2>2. n + m <= (st.round + 1) * MaxBatch
    BY <1>3, <2>1, OneMoreRound
  <2> QED  BY <1>2, <1>3, <1>4, <2>1, <2>2, Limits DEF Bounded
<1>7. Acceptable(st, reply.calls) => Checked(st2) /\ m > 0
  <2> SUFFICES ASSUME Acceptable(st, reply.calls) PROVE Checked(st2) /\ m > 0
    OBVIOUS
  <2>1. \A i \in 1..m :
          /\ reply.calls[i].id # NoId /\ reply.calls[i].tool # UnknownTool
          /\ reply.calls[i].id \notin CallIdsOf(st)
          /\ \A j \in 1..(i - 1) : reply.calls[j].id # reply.calls[i].id
    BY <1>3 DEF Acceptable
  <2>2. \A i \in 1..n : st.calls[i] \in Call
    BY <1>1 DEF Checked, n
  <2>3. \A i \in 1..n, j \in 1..m : st.calls[i].id # reply.calls[j].id
    <3> SUFFICES ASSUME NEW i \in 1..n, NEW j \in 1..m, st.calls[i].id = reply.calls[j].id
                 PROVE  FALSE
      OBVIOUS
    <3>1. st.calls[i].id \in CallIdsOf(st)
      BY <2>2, <1>3, LoopAssumption DEF CallIdsOf, Call
    <3> QED  BY <2>1, <3>1
  <2>4. \A i \in 1..m : reply.calls[i] \in Call
    <3> SUFFICES ASSUME NEW i \in 1..m PROVE reply.calls[i] \in Call
      OBVIOUS
    <3>1. reply.calls[i] \in RawCall
      BY <1>3, ElementOfSeq DEF m
    <3> QED  BY <3>1, <2>1 DEF RawCall, Call
  <2>5. \A i, j \in 1..m : reply.calls[i].id = reply.calls[j].id => i = j
    <3> SUFFICES ASSUME NEW i \in 1..m, NEW j \in 1..m,
                        reply.calls[i].id = reply.calls[j].id, i # j
                 PROVE  FALSE
      OBVIOUS
    <3>1. i \in 1..(j - 1) \/ j \in 1..(i - 1)
      BY <1>3
    <3> QED  BY <2>1, <3>1
  <2>6. \A i \in 1..(n + m) : i \in 1..n \/ \E j \in 1..m : i = n + j
    <3> SUFFICES ASSUME NEW i \in 1..(n + m), i \notin 1..n PROVE \E j \in 1..m : i = n + j
      OBVIOUS
    <3>1. i - n \in 1..m /\ i = n + (i - n)
      BY <1>3
    <3> QED  BY <3>1
  <2>7. \A i, j \in 1..(n + m) : st2.calls[i].id = st2.calls[j].id => i = j
    <3> SUFFICES ASSUME NEW i \in 1..(n + m), NEW j \in 1..(n + m),
                        st2.calls[i].id = st2.calls[j].id
                 PROVE  i = j
      OBVIOUS
    <3>0. \A k, l \in 1..n : st.calls[k].id = st.calls[l].id => k = l
      BY <1>1 DEF Checked, n
    <3>1. CASE i \in 1..n /\ j \in 1..n
      BY <1>4, <3>0, <3>1
    <3>2. CASE i \in 1..n /\ \E k \in 1..m : j = n + k
      BY <1>4, <2>3, <3>2
    <3>3. CASE (\E k \in 1..m : i = n + k) /\ j \in 1..n
      BY <1>4, <2>3, <3>3
    <3>4. CASE (\E k \in 1..m : i = n + k) /\ (\E k \in 1..m : j = n + k)
      BY <1>4, <2>5, <3>4
    <3> QED  BY <2>6, <3>1, <3>2, <3>3, <3>4
  <2>8. m > 0
    BY <1>3, EmptySeq DEF Acceptable, m
  <2>9. \A i \in 1..(n + m) : st2.calls[i] \in Call
    BY <1>4, <2>2, <2>4, <2>6
  <2> QED  BY <1>4, <2>7, <2>8, <2>9 DEF Checked
<1>8. NextCall(st2)
  <2>1. CASE st2.phase = "needs_intervention"
    BY <2>1 DEF NextCall
  <2>2. CASE /\ st2.phase = "waiting_runtime" /\ Acceptable(st, reply.calls)
             /\ st2.pending = reply.calls[1]
    <3>1. Len(st2.results) = n /\ m > 0 /\ Checked(st2)
      BY <1>1, <1>2, <1>7, <2>2 DEF n
    <3>2. st2.calls[n + 1] = reply.calls[1]
      BY <1>3, <1>4, <3>1
    <3> QED  BY <1>2, <1>3, <1>4, <2>2, <3>1, <3>2 DEF NextCall, n
  <2> QED  BY <1>2, <2>1, <2>2
<1> QED  BY <1>2, <1>5, <1>6, <1>8 DEF LoopInv

\* A task that stops keeps what it had.
LEMMA StopKeeps ==
    ASSUME NEW st \in Loops, Serial(st), Bounded(st)
    PROVE  /\ NeedsIntervention(st) \in Loops /\ LoopInv(NeedsIntervention(st))
           /\ NeedsIntervention(st).phase = "needs_intervention"
           /\ NeedsIntervention(st).results = st.results
<1> DEFINE stopped == NeedsIntervention(st)
<1>1. /\ stopped \in Loops /\ stopped.phase = "needs_intervention"
      /\ stopped.results = st.results /\ stopped.calls = st.calls /\ stopped.round = st.round
  BY DEF NeedsIntervention, Loops, Paused
<1> HIDE DEF stopped
<1>2. LoopInv(stopped)
  BY <1>1 DEF LoopInv, Serial, NextCall, Bounded
<1> QED  BY <1>1, <1>2 DEF stopped

LEMMA TurnKeeps ==
    ASSUME NEW st \in Loops, LoopInv(st), NEW st2, Turn(st, st2)
    PROVE  st2 \in Loops /\ LoopInv(st2)
<1>1. CASE st2 = st
  BY <1>1
<1>2. CASE st2 = NeedsIntervention(st)
  BY <1>2, StopKeeps DEF LoopInv
<1>3. CASE CanAskModel(st) /\ \E reply \in Reply : RecordDecision(st, reply, st2)
  <2>1. st.phase = "created" /\ ~Exhausted(st)
    BY <1>3 DEF CanAskModel, Loops
  <2> QED  BY <1>3, <2>1, DecisionKeeps
<1> QED  BY <1>1, <1>2, <1>3 DEF Turn

-----------------------------------------------------------------------------
(* A result.                                                               *)

LEMMA RecordedFields ==
    ASSUME NEW st \in Loops, NEW r \in Result, st.pending \in Call
    PROVE  LET now == Recorded(st, r) IN
           /\ now \in Loops
           /\ now.results = Append(st.results, r) /\ now.pending = NoCall
           /\ now.phase = "created" /\ now.calls = st.calls /\ now.batch = st.batch
           /\ now.round = st.round
<1> DEFINE print == Fingerprint(st.pending, r.status)
           now   == Recorded(st, r)
<1>1. print \in Fingerprints
  BY DEF Fingerprint, Fingerprints, Call, Result
<1>2. Append(st.results, r) \in Seq(Result)
  BY AppendProperties DEF Loops
<1>3. (IF st.fingerprint = print THEN st.duplicates ELSE 0) \in Nat
  BY DEF Loops
<1> HIDE DEF print
<1>4. now = [st EXCEPT !.results = Append(st.results, r), !.pending = NoCall,
                       !.phase = "created", !.fingerprint = print,
                       !.duplicates = IF st.fingerprint = print THEN st.duplicates ELSE 0]
  BY DEF Recorded, print
<1> HIDE DEF now
<1>5. now \in Loops
  BY <1>1, <1>2, <1>3, <1>4 DEF Loops
<1>6. /\ now.results = Append(st.results, r) /\ now.pending = NoCall
      /\ now.phase = "created" /\ now.calls = st.calls /\ now.batch = st.batch
      /\ now.round = st.round
  BY <1>4 DEF Loops
<1> QED  BY <1>5, <1>6 DEF now

\* The answer to the open request is the answer to the next call, and what
\* is unanswered then is what comes after it.
LEMMA RecordedKeeps ==
    ASSUME NEW st \in Loops, LoopInv(st), NEW r \in Result, Matches(st, r)
    PROVE  LET now == Recorded(st, r) IN
           /\ now \in Loops /\ Serial(now) /\ Bounded(now) /\ Checked(now)
           /\ now.phase = "created" /\ now.pending = NoCall
           /\ Len(now.results) = Len(st.results) + 1
           /\ now.calls = st.calls /\ now.batch = st.batch
           /\ Unanswered(now) = {i \in 1..Len(st.calls) : i > Len(st.results) + 1}
<1> DEFINE now == Recorded(st, r)
           n   == Len(st.results)
           m   == Len(st.calls)
<1>1. /\ st.results \in Seq(Result) /\ st.calls \in Seq(RawCall)
      /\ n \in Nat /\ m \in Nat /\ DOMAIN st.results = 1..n /\ st.batch \in Nat \ {0}
  BY LenProperties DEF Loops
<1>2. /\ st.phase = "waiting_runtime" /\ r.id = st.pending.id /\ r.tool = st.pending.tool
      /\ n < m /\ st.pending = st.calls[n + 1] /\ st.batch <= n + 1
      /\ Checked(st) /\ Serial(st) /\ Bounded(st)
  BY DEF Matches, LoopInv, NextCall
<1>3. n + 1 \in 1..m /\ st.pending \in Call
  <2>1. n + 1 \in 1..m
    <3> HIDE DEF n, m
    <3> QED  BY <1>1, <1>2
  <2> QED  BY <1>2, <2>1 DEF Checked
<1>4. /\ now \in Loops /\ now.results = Append(st.results, r) /\ now.pending = NoCall
      /\ now.phase = "created" /\ now.calls = st.calls /\ now.batch = st.batch
      /\ now.round = st.round
  BY <1>3, RecordedFields
<1> HIDE DEF now
<1>5. /\ Len(now.results) = n + 1 /\ \A i \in 1..n : now.results[i] = st.results[i]
      /\ now.results[n + 1] = r /\ DOMAIN now.results = 1..(n + 1)
  <2>1. Append(st.results, r) \in Seq(Result)
    BY <1>1, AppendProperties
  <2> QED  BY <1>1, <1>4, <2>1, AppendProperties, LenProperties
<1>6. /\ \A i \in 1..n : st.results[i].id = st.calls[i].id /\ st.results[i].tool = st.calls[i].tool
      /\ \A i, j \in 1..m : st.calls[i].id = st.calls[j].id => i = j
      /\ \A i \in 1..m : st.calls[i] \in Call
  BY <1>2 DEF Serial, Checked
<1> HIDE DEF n, m
<1>7. \A i \in 1..(n + 1) : i \in 1..n \/ i = n + 1
  BY <1>1
<1>8. 1..(n + 1) \subseteq 1..m
  BY <1>1, <1>2
<1>9. \A i \in 1..(n + 1) :
          now.results[i].id = st.calls[i].id /\ now.results[i].tool = st.calls[i].tool
  BY <1>2, <1>5, <1>6, <1>7
<1>10. Serial(now)
  <2>1. \A i, j \in 1..(n + 1) : now.results[i].id = now.results[j].id => i = j
    BY <1>6, <1>8, <1>9
  <2>2. n + 1 <= m
    BY <1>1, <1>2
  <2> QED  BY <1>4, <1>5, <1>9, <2>1, <2>2 DEF Serial, m
<1>11. Bounded(now) /\ Checked(now)
  BY <1>2, <1>4 DEF Bounded, Checked
<1>12. AnsweredIds(now) = {st.calls[i].id : i \in 1..(n + 1)}
  BY <1>5, <1>9 DEF AnsweredIds
<1>13. Unanswered(now) = {i \in 1..m : i > n + 1}
  <2>1. Unanswered(now) = {i \in st.batch..m : st.calls[i].id \notin AnsweredIds(now)}
    BY <1>4 DEF Unanswered, m
  <2>2. ASSUME NEW i \in 1..m
        PROVE  st.calls[i].id \in AnsweredIds(now) <=> i <= n + 1
    <3>1. CASE i <= n + 1
      <4>1. i \in 1..(n + 1)
        BY <1>1, <3>1
      <4> QED  BY <1>12, <3>1, <4>1
    <3>2. CASE ~(i <= n + 1)
      <4>1. ASSUME NEW j \in 1..(n + 1), st.calls[i].id = st.calls[j].id PROVE FALSE
        <5>1. i = j
          BY <1>6, <1>8, <4>1
        <5> QED  BY <1>1, <3>2, <5>1
      <4> QED  BY <1>12, <3>2, <4>1
    <3> QED  BY <3>1, <3>2
  <2>3. \A i \in st.batch..m : i \in 1..m
    BY <1>1
  <2>4. \A i \in 1..m : i > n + 1 => i \in st.batch..m
    BY <1>1, <1>2
  <2>5. \A i \in 1..m : i > n + 1 <=> ~(i <= n + 1)
    BY <1>1
  <2> QED  BY <2>1, <2>2, <2>3, <2>4, <2>5
<1> QED  BY <1>4, <1>5, <1>10, <1>11, <1>13 DEF now, n, m

\* The states that a result may leave, told apart by what they are to TaskPhases.
LEMMA AcceptFields ==
    ASSUME NEW st \in Loops, LoopInv(st), NEW r \in Result, Matches(st, r),
           NEW st2, Accept(st, r, st2)
    PROVE  LET now == Recorded(st, r) IN
           /\ st2 \in Loops /\ LoopInv(st2) /\ st2.results = now.results
           /\ st2.phase \in Paused
<1> DEFINE now == Recorded(st, r)
           n   == Len(st.results)
           m   == Len(st.calls)
<1>1. /\ now \in Loops /\ Serial(now) /\ Bounded(now) /\ Checked(now)
      /\ now.phase = "created" /\ now.pending = NoCall /\ Len(now.results) = n + 1
      /\ now.calls = st.calls /\ now.batch = st.batch
      /\ Unanswered(now) = {i \in 1..m : i > n + 1}
  BY RecordedKeeps
<1>2. n \in Nat /\ m \in Nat /\ n < m /\ st.batch <= n + 1 /\ st.batch \in Nat
  BY LenProperties DEF LoopInv, NextCall, Matches, Loops
<1>3. st.pending \in Call \cup {NoCall}
  BY DEF Loops
<1>4. \/ /\ st2 = [now EXCEPT !.phase = "waiting_approval", !.pending = st.pending]
      \/ \E p \in {"cancelled", "completed"} : st2 = [now EXCEPT !.phase = p]
      \/ \E i \in Unanswered(now) :
            /\ \A j \in Unanswered(now) : i <= j
            /\ st2 = [now EXCEPT !.phase = "waiting_runtime", !.pending = st.calls[i]]
      \/ Unanswered(now) = {} /\ Turn(now, st2)
  BY DEF Accept
<1> HIDE DEF now
<1>5. CASE st2 = [now EXCEPT !.phase = "waiting_approval", !.pending = st.pending]
  <2>1. /\ st2 \in Loops /\ st2.phase = "waiting_approval" /\ st2.results = now.results
        /\ st2.calls = now.calls /\ st2.round = now.round
    BY <1>1, <1>3, <1>5 DEF Loops, Paused
  <2> QED  BY <1>1, <2>1 DEF LoopInv, Serial, NextCall, Bounded, now, Paused
<1>6. CASE \E p \in {"cancelled", "completed"} : st2 = [now EXCEPT !.phase = p]
  <2>1. /\ st2 \in Loops /\ st2.phase \in {"cancelled", "completed"}
        /\ st2.results = now.results /\ st2.calls = now.calls /\ st2.round = now.round
    BY <1>1, <1>6 DEF Loops, Paused
  <2> QED  BY <1>1, <2>1 DEF LoopInv, Serial, NextCall, Bounded, now, Paused
<1>7. CASE \E i \in Unanswered(now) :
              /\ \A j \in Unanswered(now) : i <= j
              /\ st2 = [now EXCEPT !.phase = "waiting_runtime", !.pending = st.calls[i]]
  <2> HIDE DEF n, m
  <2>1. PICK i \in 1..m : /\ i > n + 1 /\ \A j \in 1..m : j > n + 1 => i <= j
                          /\ st2 = [now EXCEPT !.phase = "waiting_runtime", !.pending = st.calls[i]]
    BY <1>1, <1>7
  <2>2. i = n + 2 /\ n + 2 <= m
    <3>1. n + 2 \in 1..m /\ n + 2 > n + 1
      BY <1>2, <2>1
    <3> QED  BY <1>2, <2>1, <3>1
  <2>3. st.calls[i] \in Call
    BY <1>1, <2>1 DEF Checked, m
  <2>4. /\ st2 \in Loops /\ st2.phase = "waiting_runtime" /\ st2.pending = st.calls[n + 2]
        /\ st2.results = now.results /\ st2.calls = now.calls /\ st2.round = now.round
        /\ st2.batch = now.batch
    BY <1>1, <2>1, <2>2, <2>3 DEF Loops, Paused
  <2>5. n + 1 < m /\ (n + 1) + 1 = n + 2 /\ st.batch <= (n + 1) + 1
    BY <1>2, <2>2
  <2>6. NextCall(st2)
    BY <1>1, <2>4, <2>5 DEF NextCall, Checked, m
  <2> QED  BY <1>1, <2>4, <2>6 DEF LoopInv, Serial, Bounded, now, Paused
<1>8. CASE Unanswered(now) = {} /\ Turn(now, st2)
  <2> HIDE DEF n, m
  <2>1. m = n + 1
    <3>1. ~(m > n + 1)
      <4>1. m > n + 1 => m \in 1..m
        BY <1>2
      <4> QED  BY <1>1, <1>8, <4>1
    <3> QED  BY <1>2, <3>1
  <2>2. LoopInv(now)
    BY <1>1, <2>1 DEF LoopInv, NextCall, m
  <2>3. st2 \in Loops /\ LoopInv(st2)
    BY <1>1, <1>8, <2>2, TurnKeeps
  <2>4. st2.results = now.results /\ st2.phase \in Paused
    <3>1. now.phase \notin Paused
      BY <1>1 DEF Paused
    <3>2. CASE st2 = NeedsIntervention(now)
      BY <1>1, <3>2, StopKeeps DEF Paused
    <3>3. CASE \E reply \in Reply : RecordDecision(now, reply, st2)
      BY <1>1, <3>3, DecisionFields DEF Paused
    <3> QED  BY <1>8, <3>1, <3>2, <3>3 DEF Turn
  <2> QED  BY <2>3, <2>4 DEF now
<1> QED  BY <1>4, <1>5, <1>6, <1>7, <1>8

-----------------------------------------------------------------------------
(* The invariant.                                                          *)

LEMMA InvInit == Init => IInv
<1> SUFFICES ASSUME Init PROVE IInv
  OBVIOUS
<1>1. \A S : << >> \in Seq(S) /\ Len(<< >>) = 0
  BY EmptySeq
<1>2. /\ s.phase = "created" /\ s.pending = NoCall /\ s.calls = << >> /\ s.results = << >>
      /\ s.round = 0
  BY DEF Init
<1>3. s \in Loops
  BY <1>1 DEF Init, Loops, Fingerprints
<1>4. Bounded(s)
  BY <1>1, <1>2, Limits DEF Bounded
<1> QED  BY <1>1, <1>2, <1>3, <1>4 DEF IInv, TypeOK, LoopInv, Serial, NextCall, Checked

LEMMA InvNext == IInv /\ [Next]_s => IInv'
<1> SUFFICES ASSUME IInv, [Next]_s PROVE IInv'
  OBVIOUS
<1>1. s \in Loops /\ LoopInv(s)
  BY DEF IInv, TypeOK
<1>2. CASE Advance
  <2>1. s' \in Loops /\ LoopInv(s')
    BY <1>1, <1>2, TurnKeeps DEF Advance
  <2> QED  BY <2>1 DEF IInv, TypeOK, LoopInv, Serial, NextCall, Checked, Bounded
<1>3. ASSUME NEW r \in Result, SubmitToolResult(r) PROVE IInv'
  <2>1. s' \in Loops /\ LoopInv(s')
    BY <1>1, <1>3, AcceptFields DEF SubmitToolResult
  <2> QED  BY <2>1 DEF IInv, TypeOK, LoopInv, Serial, NextCall, Checked, Bounded
<1>4. CASE UNCHANGED s
  <2>1. s' = s
    BY <1>4
  <2> QED  BY <1>1, <2>1 DEF IInv, TypeOK, LoopInv, Serial, NextCall, Checked, Bounded
<1> QED  BY <1>2, <1>3, <1>4 DEF Next

LEMMA InvInductive == Spec => []IInv
BY InvInit, InvNext, PTL DEF Spec

\* The record of the task keeps its type.
THEOREM TypeCorrect == Spec => []TypeOK
BY InvInductive, PTL DEF IInv

\* The Runtime is asked for the calls of the model one at a time and in the
\* order in which the model made them (advance_autonomous_turn and
\* apply_runtime_tool_result).
THEOREM RequestsSerialInOrder == Spec => []SerialInOrder
<1>1. IInv => SerialInOrder
  <2> SUFFICES ASSUME IInv PROVE SerialInOrder
    OBVIOUS
  <2>1. DOMAIN s.results = 1..Len(s.results)
    BY LenProperties DEF IInv, TypeOK, Loops
  <2> QED  BY <2>1 DEF IInv, LoopInv, Serial, NextCall, SerialInOrder
<1> QED  BY <1>1, InvInductive, PTL

\* No call is answered twice, whatever is delivered again and whatever
\* identifiers the model gives its calls.
THEOREM CallsAnsweredOnce == Spec => []AnsweredOnce
<1>1. IInv => AnsweredOnce
  <2> SUFFICES ASSUME IInv PROVE AnsweredOnce
    OBVIOUS
  <2>1. DOMAIN s.results = 1..Len(s.results)
    BY LenProperties DEF IInv, TypeOK, Loops
  <2> QED  BY <2>1 DEF IInv, LoopInv, Serial, AnsweredOnce
<1> QED  BY <1>1, InvInductive, PTL

-----------------------------------------------------------------------------
(* The refinement.                                                         *)

\* A task as TaskPhases sees it.
View(st) ==
    [phase    |-> st.phase,
     issued   |-> Len(st.results) + (IF st.phase = "waiting_runtime" THEN 1 ELSE 0),
     answered |-> Len(st.results)]

LEMMA ViewFields ==
    ASSUME NEW st, NEW n \in Nat, Len(st.results) = n
    PROVE  /\ st.phase # "waiting_runtime" =>
                 View(st) = [phase |-> st.phase, issued |-> n, answered |-> n]
           /\ st.phase = "waiting_runtime" =>
                 View(st) = [phase |-> st.phase, issued |-> n + 1, answered |-> n]
BY DEF View

\* The steps of TaskPhases, from a task whose requests are all answered and from one that
\* waits for the answer to its last request.
LEMMA DecidedRecords ==
    ASSUME NEW v, NEW n \in Nat, NEW p, v = [phase |-> p, issued |-> n, answered |-> n]
    PROVE  /\ [phase |-> "needs_intervention", issued |-> n, answered |-> n]
                  \in Abstract!Decided(v)
           /\ n + 1 <= MaxRounds * MaxBatch =>
                  [phase |-> "waiting_runtime", issued |-> n + 1, answered |-> n]
                      \in Abstract!Decided(v)
<1> DEFINE asked == [phase |-> "waiting_runtime", issued |-> n + 1, answered |-> n]
<1>1. [v EXCEPT !.phase = "needs_intervention"]
          = [phase |-> "needs_intervention", issued |-> n, answered |-> n]
  OBVIOUS
<1>2. [v EXCEPT !.phase = "waiting_runtime", !.issued = v.issued + 1] = asked
  <2>1. [v EXCEPT !.phase = "waiting_runtime"]
            = [phase |-> "waiting_runtime", issued |-> n, answered |-> n]
    OBVIOUS
  <2>2. \A w, j : w = [phase |-> "waiting_runtime", issued |-> n, answered |-> n]
                     => [w EXCEPT !.issued = j]
                            = [phase |-> "waiting_runtime", issued |-> j, answered |-> n]
    OBVIOUS
  <2>3. v.issued = n
    OBVIOUS
  <2> QED  BY <2>1, <2>2, <2>3, Zenon
<1>3. asked.issued = n + 1
  OBVIOUS
<1> HIDE DEF asked
<1>4. n + 1 <= MaxRounds * MaxBatch => asked \in Abstract!Decided(v)
  BY <1>2, <1>3, Zenon DEF Abstract!Decided
<1>5. [phase |-> "needs_intervention", issued |-> n, answered |-> n] \in Abstract!Decided(v)
  BY <1>1, Zenon DEF Abstract!Decided
<1> QED  BY <1>4, <1>5 DEF asked

LEMMA AnsweredRecords ==
    ASSUME NEW v, NEW k \in Nat, NEW n \in Nat, n = k + 1,
           v = [phase |-> "waiting_runtime", issued |-> n, answered |-> k]
    PROVE  /\ \A p \in {"waiting_approval", "completed", "cancelled"} :
                  [phase |-> p, issued |-> n, answered |-> n] \in Abstract!Answered(v)
           /\ [phase |-> "needs_intervention", issued |-> n, answered |-> n]
                  \in Abstract!Answered(v)
           /\ n + 1 <= MaxRounds * MaxBatch =>
                  [phase |-> "waiting_runtime", issued |-> n + 1, answered |-> n]
                      \in Abstract!Answered(v)
<1> DEFINE a == [v EXCEPT !.answered = v.answered + 1]
<1>1. a = [phase |-> "waiting_runtime", issued |-> n, answered |-> n]
  <2>1. v.answered = k
    OBVIOUS
  <2>2. \A j : [v EXCEPT !.answered = j]
                   = [phase |-> "waiting_runtime", issued |-> n, answered |-> j]
    OBVIOUS
  <2> QED  BY <2>1, <2>2, Zenon
<1>2. Abstract!Answered(v) = Abstract!Decided(a)
          \cup {[a EXCEPT !.phase = p] : p \in {"waiting_approval", "completed", "cancelled"}}
  BY Zenon DEF Abstract!Answered
<1> HIDE DEF a
<1>3. ASSUME NEW p \in {"waiting_approval", "completed", "cancelled"}
      PROVE  [phase |-> p, issued |-> n, answered |-> n] \in Abstract!Answered(v)
  <2>1. [a EXCEPT !.phase = p] = [phase |-> p, issued |-> n, answered |-> n]
    BY <1>1
  <2> QED  BY <1>2, <2>1, Zenon
<1>4. /\ [phase |-> "needs_intervention", issued |-> n, answered |-> n] \in Abstract!Decided(a)
      /\ n + 1 <= MaxRounds * MaxBatch =>
             [phase |-> "waiting_runtime", issued |-> n + 1, answered |-> n]
                 \in Abstract!Decided(a)
  BY <1>1, DecidedRecords
<1> QED  BY <1>2, <1>3, <1>4, Zenon

\* Whoever asks for a further call has a round left for it.
LEMMA RoundLeft ==
    ASSUME NEW st \in Loops, LoopInv(st), st.phase = "waiting_runtime"
    PROVE  Len(st.results) + 1 <= MaxRounds * MaxBatch
<1>1. Len(st.results) \in Nat /\ Len(st.calls) \in Nat /\ st.round \in Nat
  BY LenProperties DEF Loops
<1>2. Len(st.results) < Len(st.calls) /\ Len(st.calls) <= st.round * MaxBatch
  BY DEF LoopInv, NextCall, Bounded
<1>3. st.round * MaxBatch <= MaxRounds * MaxBatch
  BY <1>1, Rounds DEF LoopInv, Bounded
<1>4. st.round * MaxBatch \in Nat /\ MaxRounds * MaxBatch \in Nat
  BY <1>1, Limits
<1> QED  BY <1>1, <1>2, <1>3, <1>4

LEMMA ViewDecided ==
    ASSUME NEW st, NEW st2 \in Loops, LoopInv(st2), st2.results = st.results,
           st.phase = "created", st2.phase \in {"needs_intervention", "waiting_runtime"}
    PROVE  View(st2) \in Abstract!Decided(View(st))
<1>1. PICK n \in Nat : n = Len(st2.results) /\ n = Len(st.results)
  BY LenProperties DEF Loops
<1>2. View(st) = [phase |-> "created", issued |-> n, answered |-> n]
  BY <1>1, ViewFields
<1>3. CASE st2.phase = "needs_intervention"
  <2>1. View(st2) = [phase |-> "needs_intervention", issued |-> n, answered |-> n]
    BY <1>1, <1>3, ViewFields
  <2> QED  BY <1>2, <2>1, DecidedRecords
<1>4. CASE st2.phase = "waiting_runtime"
  <2>1. View(st2) = [phase |-> "waiting_runtime", issued |-> n + 1, answered |-> n]
    BY <1>1, <1>4, ViewFields
  <2>2. n + 1 <= MaxRounds * MaxBatch
    BY <1>1, <1>4, RoundLeft
  <2> QED  BY <1>2, <2>1, <2>2, DecidedRecords
<1> QED  BY <1>3, <1>4

\* A decision of the loop is one of TaskPhases.
LEMMA TurnDecides ==
    ASSUME NEW st \in Loops, LoopInv(st), NEW st2, Turn(st, st2)
    PROVE  st2 = st \/ (st.phase = "created" /\ View(st2) \in Abstract!Decided(View(st)))
<1> SUFFICES ASSUME st2 # st
             PROVE  st.phase = "created" /\ View(st2) \in Abstract!Decided(View(st))
  OBVIOUS
<1>1. st.phase = "created" /\ st.pending = NoCall
  BY DEF Turn, CanAskModel, Loops, LoopInv, NextCall
<1>2. st2 \in Loops /\ LoopInv(st2)
  BY TurnKeeps
<1>3. st2.results = st.results /\ st2.phase \in {"needs_intervention", "waiting_runtime"}
  <2>1. CASE st2 = NeedsIntervention(st)
    BY <2>1, StopKeeps DEF LoopInv
  <2>2. CASE \E reply \in Reply : RecordDecision(st, reply, st2)
    BY <1>1, <2>2, DecisionFields
  <2> QED  BY <2>1, <2>2 DEF Turn
<1> QED  BY <1>1, <1>2, <1>3, ViewDecided

\* And a result is an answer of TaskPhases, with the decision that follows.
LEMMA AcceptAnswers ==
    ASSUME NEW st \in Loops, LoopInv(st), NEW r \in Result, Matches(st, r),
           NEW st2, Accept(st, r, st2)
    PROVE  st.phase = "waiting_runtime" /\ View(st2) \in Abstract!Answered(View(st))
<1>1. /\ st2 \in Loops /\ LoopInv(st2) /\ st2.results = Recorded(st, r).results
      /\ st2.phase \in Paused
  BY AcceptFields
<1>2. st.phase = "waiting_runtime" /\ Len(Recorded(st, r).results) = Len(st.results) + 1
  BY RecordedKeeps DEF Matches
<1>3. PICK k \in Nat : k = Len(st.results)
  BY LenProperties DEF Loops
<1>4. PICK n \in Nat : n = k + 1
  OBVIOUS
<1>5. Len(st2.results) = n
  BY <1>1, <1>2, <1>3, <1>4
<1>6. View(st) = [phase |-> "waiting_runtime", issued |-> n, answered |-> k]
  BY <1>2, <1>3, <1>4, ViewFields
<1>7. CASE st2.phase = "waiting_runtime"
  <2>1. View(st2) = [phase |-> "waiting_runtime", issued |-> n + 1, answered |-> n]
    BY <1>5, <1>7, ViewFields
  <2>2. n + 1 <= MaxRounds * MaxBatch
    BY <1>1, <1>5, <1>7, RoundLeft
  <2> QED  BY <1>2, <1>4, <1>6, <2>1, <2>2, AnsweredRecords
<1>8. CASE st2.phase # "waiting_runtime"
  <2>1. View(st2) = [phase |-> st2.phase, issued |-> n, answered |-> n]
    BY <1>5, <1>8, ViewFields
  <2> QED  BY <1>1, <1>2, <1>4, <1>6, <1>8, <2>1, AnsweredRecords DEF Paused
<1> QED  BY <1>7, <1>8

\* The loop implements TaskPhases, but for its liveness, which TLC checks
\* with ImplementsTaskPhases: no task ever issues more requests than its
\* rounds allow, answers what it did not ask, or leaves a final phase.
THEOREM LoopImplementsPhases == Spec => Abstract!Spec
<1>1. Init => Abstract!Init
  <2> SUFFICES ASSUME Init PROVE Abstract!Init
    OBVIOUS
  <2>1. s.phase = "created" /\ s.results = << >> /\ Len(<< >>) = 0
    BY EmptySeq DEF Init
  <2> QED  BY <2>1 DEF Abstract!Init, Abstract!NewTask
<1>2. IInv /\ [Next]_s =>
          [Abstract!Next]_([phase    |-> s.phase,
                            issued   |-> Len(s.results)
                                            + (IF s.phase = "waiting_runtime" THEN 1 ELSE 0),
                            answered |-> Len(s.results)])
  <2> SUFFICES ASSUME IInv, [Next]_s
               PROVE  \/ Abstract!Next
                      \/ s' = s
    BY DEF View
  <2>1. s \in Loops /\ LoopInv(s)
    BY DEF IInv, TypeOK
  <2>2. CASE Advance
    <3>1. s' = s \/ (s.phase = "created" /\ View(s') \in Abstract!Decided(View(s)))
      BY <2>1, <2>2, TurnDecides DEF Advance
    <3> QED  BY <3>1 DEF Abstract!Next, Abstract!Decide, View
  <2>3. ASSUME NEW r \in Result, SubmitToolResult(r)
        PROVE  Abstract!Next
    <3>1. s.phase = "waiting_runtime" /\ View(s') \in Abstract!Answered(View(s))
      BY <2>1, <2>3, AcceptAnswers DEF SubmitToolResult
    <3> QED  BY <3>1 DEF Abstract!Next, Abstract!Answer, View
  <2> QED  BY <2>2, <2>3 DEF Next
<1> QED  BY <1>1, <1>2, InvInductive, PTL DEF Spec, Abstract!Spec

-----------------------------------------------------------------------------
(* The Python process.                                                     *)

Envs == [endpoint : Versions, key : Versions]

CallerSteps == {"load", "key", "set", "probe", "up", "stop", "take", "failed",
                "stopping", "replacing", "failing", "spawn", "replace", "wait"}

CallerRows == [step : CallerSteps, op : {"use", "stop"}, env : Envs,
               pid : Pids \cup {NoPid}]

ProcessTypeOK ==
    /\ row \in [endpoint : Versions, ref : BOOLEAN]
    /\ secret \in Versions /\ saves \in Versions
    /\ saving \in {NoSave} \cup [step : {"row"}, ref : BOOLEAN]
    /\ env \in Envs
    /\ child \in Pids \cup {NoPid}
    /\ process \in [Pids -> [state : {"none", "starting", "serving", "dead"}, env : Envs]]
    /\ caller \in [Callers -> {Away} \cup CallerRows]
    /\ restarts \in Nat /\ disturbed \in BOOLEAN

\* The steps at which a thread has the process in hand that was the child.
Holding == {"stopping", "replacing", "failing", "replace"}

Loading  == {"load", "key", "set"}
StopsOld(e) == e.step \in {"stop", "stopping"} /\ e.op # "stop"

\* What the one thread that uses the service knows of the process: whose it is,
\* that there is none before it spawns one, and that it has the configuration
\* of the service, which the thread has set, unless it is about to be stopped
\* for the sake of a new one.
Knows(e) ==
    /\ Alive \subseteq {IF e.step \in Holding THEN e.pid ELSE child}
    /\ e.step = "spawn" => Alive = {}
    /\ e.step \in Loading => e.op # "stop"
    /\ e.step \in CallerSteps \ Loading =>
          IF e.op = "stop" THEN e.step \in {"stop", "stopping"} ELSE e.env = env
    /\ \A p \in Alive : process[p].env = env \/ StopsOld(e)

OneAtATime == \A c, d \in Callers : caller[c] # Away /\ caller[d] # Away => c = d

ProcessInv ==
    ~disturbed =>
        /\ OneAtATime
        /\ \A c \in Callers : caller[c] # Away => Knows(caller[c])
        /\ (\A c \in Callers : caller[c] = Away) => Knows(Away)

ServiceInv == ProcessTypeOK /\ ProcessInv

LEMMA ProcessInit_Inv == ASSUME ProcessAssumption PROVE ProcessInit => ServiceInv
<1> SUFFICES ASSUME ProcessInit PROVE ServiceInv
  OBVIOUS
<1>1. 0 \in Versions
  BY DEF Versions, ProcessAssumption
<1>2. NoEnv \in Envs
  BY <1>1 DEF NoEnv, Envs
<1>3. ProcessTypeOK
  BY <1>1, <1>2 DEF ProcessInit, ProcessTypeOK
<1>4. Alive = {}
  BY DEF ProcessInit, Alive
<1>5. Knows(Away)
  BY <1>4 DEF Knows, Away, CallerSteps, Loading
<1> QED
  BY <1>3, <1>5 DEF ServiceInv, ProcessInv, OneAtATime, ProcessInit

\* A thread that is not idle, with its fields.
LEMMA CallerAt ==
    ASSUME ProcessTypeOK, NEW c \in Callers, NEW step \in CallerSteps, In(c, step)
    PROVE  caller[c] \in CallerRows /\ caller[c] # Away
<1>1. caller[c].step # "idle"
  BY DEF In, CallerSteps
<1> QED
  BY <1>1 DEF ProcessTypeOK, Away

LEMMA AwayRow == Away.step = "idle" /\ Away \notin CallerRows
<1>1. \A e \in CallerRows : e.step # "idle"
  BY DEF CallerRows, CallerSteps
<1> QED
  BY <1>1 DEF Away

\* What a thread does moves no other; while no two use the service at once,
\* the others are idle.
LEMMA OneMoves ==
    ASSUME ServiceInv, NEW c \in Callers, caller[c] # Away,
           NEW e \in {Away} \cup CallerRows, caller' = [caller EXCEPT ![c] = e],
           UNCHANGED <<configVars, restarts>>, disturbed' \in BOOLEAN,
           disturbed => disturbed',
           env' \in Envs, child' \in Pids \cup {NoPid},
           process' \in [Pids -> [state : {"none", "starting", "serving", "dead"}, env : Envs]],
           ~disturbed' /\ Knows(caller[c]) => Knows(e)'
    PROVE  ServiceInv'
<1>1. ProcessTypeOK'
  BY DEF ServiceInv, ProcessTypeOK, configVars
<1>2. ASSUME ~disturbed' PROVE ProcessInv'
  <2>1. ~disturbed /\ OneAtATime /\ Knows(caller[c])
    BY <1>2 DEF ServiceInv, ProcessInv
  <2>2. \A d \in Callers \ {c} : caller[d] = Away
    BY <2>1 DEF OneAtATime
  <2>3. caller'[c] = e /\ \A d \in Callers \ {c} : caller'[d] = Away
    BY <2>2 DEF ServiceInv, ProcessTypeOK
  <2>4. Knows(e)'
    BY <1>2, <2>1
  <2>5. OneAtATime'
    BY <2>3 DEF OneAtATime
  <2>6. \A d \in Callers : caller'[d] # Away => caller'[d] = e
    BY <2>3
  <2>7. (\A d \in Callers : caller'[d] = Away) => e = Away
    BY <2>3
  <2>8. ASSUME NEW d \in Callers, caller'[d] # Away PROVE Knows(caller[d])'
    <3>1. caller'[d] = e
      BY <2>6, <2>8
    <3> QED
      BY <2>4, <3>1 DEF Knows, StopsOld
  <2> QED
    BY <2>4, <2>5, <2>7, <2>8 DEF ProcessInv
<1> QED
  BY <1>1, <1>2 DEF ServiceInv, ProcessInv

\* A thread goes on with the fields that it has.
LEMMA Goes ==
    ASSUME ProcessTypeOK, NEW c \in Callers, caller[c] \in CallerRows,
           NEW step \in CallerSteps, To(c, step)
    PROVE  \E e \in CallerRows :
              /\ e.step = step /\ e.op = caller[c].op /\ e.env = caller[c].env
              /\ e.pid = caller[c].pid
              /\ caller' = [caller EXCEPT ![c] = e]
<1> DEFINE e == [caller[c] EXCEPT !.step = step]
<1>1. e \in CallerRows /\ e.step = step /\ e.op = caller[c].op /\ e.env = caller[c].env
        /\ e.pid = caller[c].pid
  BY DEF CallerRows
<1>2. caller' = [caller EXCEPT ![c] = e]
  BY DEF To
<1> HIDE DEF e
<1> QED
  BY <1>1, <1>2

\* A step that leaves service and processes alone, and what the thread knows.
LEMMA OnlyGoes ==
    ASSUME ServiceInv, NEW c \in Callers, caller[c] \in CallerRows,
           NEW step \in CallerSteps, To(c, step),
           UNCHANGED <<configVars, env, child, process, restarts, disturbed>>,
           \A e \in CallerRows :
              e.step = step /\ e.op = caller[c].op /\ e.env = caller[c].env
                  /\ e.pid = caller[c].pid /\ Knows(caller[c])
                => Knows(e)
    PROVE  ServiceInv'
<1>1. PICK e \in CallerRows :
              /\ e.step = step /\ e.op = caller[c].op /\ e.env = caller[c].env
              /\ e.pid = caller[c].pid
              /\ caller' = [caller EXCEPT ![c] = e]
  BY Goes DEF ServiceInv
<1>2. Knows(caller[c]) => Knows(e)
  BY <1>1
<1>3. Knows(e) => Knows(e)'
  BY DEF Knows, Alive
<1>4. caller[c] # Away /\ e \in {Away} \cup CallerRows
  BY AwayRow
<1>5. /\ env' \in Envs /\ child' \in Pids \cup {NoPid} /\ disturbed' \in BOOLEAN
      /\ process' \in [Pids -> [state : {"none", "starting", "serving", "dead"}, env : Envs]]
      /\ UNCHANGED <<configVars, restarts>> /\ (disturbed => disturbed')
  BY DEF ServiceInv, ProcessTypeOK
<1> QED
  BY <1>1, <1>2, <1>3, <1>4, <1>5, OneMoves

LEMMA Ends ==
    ASSUME ServiceInv, NEW c \in Callers, caller[c] \in CallerRows, End(c),
           UNCHANGED <<configVars, env, child, process, restarts, disturbed>>,
           caller[c].step \notin Holding, ~StopsOld(caller[c])
    PROVE  ServiceInv'
<1>1. caller[c] # Away /\ Away.step = "idle"
  BY AwayRow
<1>2. Knows(caller[c]) => Knows(Away)
  BY <1>1 DEF Knows, Holding, CallerSteps, Loading
<1>3. Knows(Away) => Knows(Away)'
  BY DEF Knows, Alive
<1>4. caller' = [caller EXCEPT ![c] = Away] /\ Away \in {Away} \cup CallerRows
  BY DEF End
<1>5. /\ env' \in Envs /\ child' \in Pids \cup {NoPid} /\ disturbed' \in BOOLEAN
      /\ process' \in [Pids -> [state : {"none", "starting", "serving", "dead"}, env : Envs]]
      /\ UNCHANGED <<configVars, restarts>> /\ (disturbed => disturbed')
  BY DEF ServiceInv, ProcessTypeOK
<1> QED
  BY <1>1, <1>2, <1>3, <1>4, <1>5, OneMoves

\* Loading and setting the configuration.
LEMMA BeginKeeps ==
    ASSUME ServiceInv, ProcessAssumption, NEW c \in Callers, NEW o \in {"use", "stop"},
           Enter(c, o)
    PROVE  ServiceInv'
<1> DEFINE e == [step |-> IF o = "stop" THEN "stop" ELSE "load", op |-> o,
                 env |-> NoEnv, pid |-> NoPid]
<1>1. NoEnv \in Envs
  BY DEF NoEnv, Envs, Versions, ProcessAssumption
<1>2. /\ e \in CallerRows /\ e.op = o
      /\ e.step = IF o = "stop" THEN "stop" ELSE "load"
  BY <1>1 DEF CallerRows, CallerSteps
<1>3. /\ caller' = [caller EXCEPT ![c] = e]
      /\ UNCHANGED <<configVars, env, child, process, restarts>>
      /\ disturbed' = (disturbed \/ \E d \in Callers \ {c} : ~In(d, "idle"))
  BY DEF Enter
<1> HIDE DEF e
<1>4. caller[c] = Away
  BY DEF Enter, In, ServiceInv, ProcessTypeOK, CallerRows, CallerSteps
<1>5. ProcessTypeOK'
  BY <1>2, <1>3 DEF ServiceInv, ProcessTypeOK, configVars
<1>6. ASSUME ~disturbed' PROVE ProcessInv'
  <2>1. ~disturbed /\ \A d \in Callers : caller[d] = Away
    <3>1. ~disturbed /\ \A d \in Callers \ {c} : In(d, "idle")
      BY <1>3, <1>6
    <3>2. \A d \in Callers : In(d, "idle") => caller[d] = Away
      BY DEF In, ServiceInv, ProcessTypeOK, CallerRows, CallerSteps
    <3> QED
      BY <1>4, <3>1, <3>2
  <2>2. Knows(Away)
    BY <2>1 DEF ServiceInv, ProcessInv
  <2>3. e.step \notin Holding /\ e.step # "spawn" /\ Away.step \notin Holding /\ ~StopsOld(Away)
    BY <1>2 DEF Holding, Away, StopsOld
  <2>4. Knows(e)
    BY <1>2, <2>2, <2>3 DEF Knows, Loading, CallerSteps
  <2>5. Knows(e)'
    BY <1>3, <2>4 DEF Knows, Alive, StopsOld
  <2>6. caller'[c] = e /\ \A d \in Callers \ {c} : caller'[d] = Away
    BY <1>3, <2>1 DEF ServiceInv, ProcessTypeOK
  <2>7. e # Away
    BY <1>2, AwayRow
  <2>8. OneAtATime'
    BY <2>6 DEF OneAtATime
  <2>9. ASSUME NEW d \in Callers, caller'[d] # Away PROVE Knows(caller[d])'
    <3>1. caller'[d] = e
      BY <2>6, <2>9
    <3> QED
      BY <2>5, <3>1 DEF Knows, StopsOld
  <2> QED
    BY <2>6, <2>7, <2>8, <2>9 DEF ProcessInv
<1> QED
  BY <1>5, <1>6 DEF ServiceInv, ProcessInv

LEMMA LoadKeeps ==
    ASSUME ServiceInv, NEW c \in Callers, LoadRow(c) \/ LoadKey(c)
    PROVE  ServiceInv'
<1>1. /\ caller[c] \in CallerRows /\ caller[c].step \in {"load", "key"}
      /\ UNCHANGED <<configVars, env, child, process, restarts, disturbed>>
  BY CallerAt DEF LoadRow, LoadKey, In, CallerSteps, ServiceInv
<1>2. CASE End(c)
  BY <1>1, <1>2, Ends DEF Holding, StopsOld
<1>3. ASSUME NEW step \in {"key", "set"}, NEW f \in Envs,
             caller' = [caller EXCEPT ![c] = [caller[c] EXCEPT !.step = step, !.env = f]]
      PROVE  ServiceInv'
  <2> DEFINE e == [caller[c] EXCEPT !.step = step, !.env = f]
  <2>1. e \in CallerRows /\ e.step = step /\ e.op = caller[c].op
    BY <1>1 DEF CallerRows, CallerSteps
  <2>2. caller' = [caller EXCEPT ![c] = e]
    BY <1>3
  <2> HIDE DEF e
  <2>3. PICK g \in CallerRows : g = e
    BY <2>1
  <2>4. Knows(caller[c]) => Knows(g)
    BY <1>1, <2>1, <2>3 DEF Knows, Holding, Loading, CallerSteps, StopsOld
  <2>5. Knows(g) => Knows(g)'
    BY <1>1 DEF Knows, Alive
  <2>6. caller[c] # Away /\ g \in {Away} \cup CallerRows /\ caller' = [caller EXCEPT ![c] = g]
    BY <1>1, <2>2, <2>3, AwayRow
  <2>7. /\ env' \in Envs /\ child' \in Pids \cup {NoPid} /\ disturbed' \in BOOLEAN
        /\ process' \in [Pids -> [state : {"none", "starting", "serving", "dead"}, env : Envs]]
        /\ UNCHANGED <<configVars, restarts>> /\ (disturbed => disturbed')
    BY <1>1 DEF ServiceInv, ProcessTypeOK
  <2> QED
    BY <2>4, <2>5, <2>6, <2>7, OneMoves
<1>4. CASE caller' = [caller EXCEPT ![c].step = "key", ![c].env.endpoint = row.endpoint]
  <2> DEFINE f == [caller[c].env EXCEPT !.endpoint = row.endpoint]
  <2>1. row.endpoint \in Versions /\ caller[c].env \in Envs
    BY <1>1 DEF ServiceInv, ProcessTypeOK, CallerRows
  <2>2. f \in Envs
    BY <2>1 DEF Envs
  <2>3. caller' = [caller EXCEPT ![c] = [caller[c] EXCEPT !.step = "key", !.env = f]]
    BY <1>1, <1>4 DEF ServiceInv, ProcessTypeOK, CallerRows
  <2> HIDE DEF f
  <2> QED
    BY <1>3, <2>2, <2>3
<1>5. CASE caller' = [caller EXCEPT ![c].step = "set", ![c].env.key = secret]
  <2> DEFINE f == [caller[c].env EXCEPT !.key = secret]
  <2>1. secret \in Versions /\ caller[c].env \in Envs
    BY <1>1 DEF ServiceInv, ProcessTypeOK, CallerRows
  <2>2. f \in Envs
    BY <2>1 DEF Envs
  <2>3. caller' = [caller EXCEPT ![c] = [caller[c] EXCEPT !.step = "set", !.env = f]]
    BY <1>1, <1>5 DEF ServiceInv, ProcessTypeOK, CallerRows
  <2> HIDE DEF f
  <2> QED
    BY <1>3, <2>2, <2>3
<1> QED
  BY <1>2, <1>4, <1>5 DEF LoadRow, LoadKey

\* What changed is not known to the process, which is stopped then.
LEMMA SetKeeps ==
    ASSUME ServiceInv, NEW c \in Callers, SetEnv(c)
    PROVE  ServiceInv'
<1>1. caller[c] \in CallerRows /\ caller[c].step = "set" /\ caller[c] # Away
  BY CallerAt, AwayRow DEF SetEnv, In, CallerSteps, ServiceInv
<1>2. /\ env' = caller[c].env
      /\ UNCHANGED <<configVars, child, process, restarts, disturbed>>
  BY DEF SetEnv
<1> DEFINE step == IF env # caller[c].env THEN "stop" ELSE "probe"
<1>3. step \in CallerSteps /\ To(c, step)
  BY DEF SetEnv, CallerSteps
<1>4. step = "stop" \/ (step = "probe" /\ env' = env)
  BY <1>2
<1> HIDE DEF step
<1>5. PICK e \in CallerRows :
              /\ e.step = step /\ e.op = caller[c].op /\ e.env = caller[c].env
              /\ e.pid = caller[c].pid
              /\ caller' = [caller EXCEPT ![c] = e]
  BY <1>1, <1>3, Goes DEF ServiceInv
<1>6. ASSUME Knows(caller[c]) PROVE Knows(e)'
  <2>1. e.op # "stop" /\ e.step \notin Holding \cup {"spawn"} \cup Loading
    BY <1>1, <1>4, <1>5, <1>6 DEF Knows, Loading, Holding
  <2>2. Alive' = Alive /\ Alive \subseteq {child} /\ ~StopsOld(caller[c])
    BY <1>1, <1>2, <1>6 DEF Alive, Knows, Holding, StopsOld
  <2>3. \A p \in Alive : process[p].env = env \/ StopsOld(caller[c])
    BY <1>6 DEF Knows
  <2>4. \A p \in Alive : process[p].env = env' \/ StopsOld(e)
    BY <1>4, <1>5, <2>1, <2>2, <2>3 DEF StopsOld
  <2>5. e.env = env'
    BY <1>2, <1>5
  <2> QED
    BY <1>2, <2>1, <2>2, <2>4, <2>5 DEF Knows, StopsOld
<1>7. /\ env' \in Envs /\ child' \in Pids \cup {NoPid} /\ disturbed' \in BOOLEAN
      /\ process' \in [Pids -> [state : {"none", "starting", "serving", "dead"}, env : Envs]]
      /\ UNCHANGED <<configVars, restarts>> /\ (disturbed => disturbed')
  BY <1>1, <1>2 DEF ServiceInv, ProcessTypeOK, CallerRows
<1> QED
  BY <1>1, <1>5, <1>6, <1>7, OneMoves

LEMMA ProbeKeeps ==
    ASSUME ServiceInv, NEW c \in Callers, Probe(c)
    PROVE  ServiceInv'
<1>1. caller[c] \in CallerRows /\ caller[c].step = "probe" /\ caller[c] # Away
  BY CallerAt, AwayRow DEF Probe, In, CallerSteps, ServiceInv
<1>2. UNCHANGED <<configVars, env, child, process, restarts, disturbed>>
  BY DEF Probe
<1>3. CASE To(c, "up")
  <2>1. \A e \in CallerRows :
           e.step = "up" /\ e.op = caller[c].op /\ e.env = caller[c].env
               /\ e.pid = caller[c].pid /\ Knows(caller[c])
             => Knows(e)
    <3> SUFFICES ASSUME NEW e \in CallerRows, e.step = "up", e.op = caller[c].op,
                        e.env = caller[c].env, Knows(caller[c])
                 PROVE  Knows(e)
      OBVIOUS
    <3>1. caller[c].op # "stop" /\ caller[c].env = env /\ Alive \subseteq {child}
      BY <1>1 DEF Knows, Holding, Loading, CallerSteps
    <3>2. \A q \in Alive : process[q].env = env
      BY <1>1 DEF Knows, StopsOld
    <3> QED
      BY <3>1, <3>2 DEF Knows, Holding, Loading
  <2>2. "up" \in CallerSteps
    BY DEF CallerSteps
  <2> QED
    BY <1>1, <1>2, <1>3, <2>1, <2>2, OnlyGoes
<1>4. CASE caller' = [caller EXCEPT ![c].step = "take", ![c].env = env]
  <2> DEFINE e == [caller[c] EXCEPT !.step = "take", !.env = env]
  <2>1. e \in CallerRows /\ e.step = "take" /\ e.op = caller[c].op /\ e.env = env
    BY <1>1 DEF CallerRows, CallerSteps, ServiceInv, ProcessTypeOK
  <2>2. caller' = [caller EXCEPT ![c] = e]
    BY <1>4
  <2> HIDE DEF e
  <2>3. PICK g \in CallerRows : g = e
    BY <2>1
  <2>4. Knows(caller[c]) => Knows(g)
    BY <1>1, <2>1, <2>3 DEF Knows, Holding, Loading, CallerSteps, StopsOld
  <2>5. Knows(g) => Knows(g)'
    BY <1>2 DEF Knows, Alive
  <2>6. caller' = [caller EXCEPT ![c] = g] /\ g \in {Away} \cup CallerRows
    BY <2>2, <2>3
  <2>7. /\ env' \in Envs /\ child' \in Pids \cup {NoPid} /\ disturbed' \in BOOLEAN
        /\ process' \in [Pids -> [state : {"none", "starting", "serving", "dead"}, env : Envs]]
        /\ UNCHANGED <<configVars, restarts>> /\ (disturbed => disturbed')
    BY <1>2 DEF ServiceInv, ProcessTypeOK
  <2> QED
    BY <1>1, <2>4, <2>5, <2>6, <2>7, OneMoves
<1> QED
  BY <1>3, <1>4 DEF Probe

\* Taking the child, and what becomes of it.
LEMMA TakeKeeps ==
    ASSUME ServiceInv, NEW c \in Callers, TakeChild(c)
    PROVE  ServiceInv'
<1>1. /\ caller[c] \in CallerRows /\ caller[c].step \in {"stop", "take", "failed"}
      /\ caller[c] # Away
  BY CallerAt, AwayRow DEF TakeChild, In, CallerSteps, ServiceInv
<1>2. UNCHANGED <<configVars, env, process, restarts, disturbed>> /\ child' = NoPid
  BY DEF TakeChild
<1> DEFINE step == After(caller[c].step)
           e == [caller[c] EXCEPT !.step = step, !.pid = child]
<1>3. /\ step \in {"stopping", "replacing", "failing"}
      /\ step = "stopping" <=> caller[c].step = "stop"
  BY <1>1 DEF After
<1>4. caller' = [caller EXCEPT ![c] = e]
  BY DEF TakeChild
<1> HIDE DEF step
<1>5. child \in Pids \cup {NoPid}
  BY DEF ServiceInv, ProcessTypeOK
<1>6. /\ e \in CallerRows /\ e.step = step /\ e.op = caller[c].op /\ e.env = caller[c].env
      /\ e.pid = child
  BY <1>1, <1>3, <1>5 DEF CallerRows, CallerSteps
<1> HIDE DEF e
<1>7. PICK g \in CallerRows : g = e
  BY <1>6
<1>8. ASSUME Knows(caller[c]) PROVE Knows(g)'
  <2>1. g.step \in Holding /\ g.step # "spawn" /\ g.step \notin Loading
    BY <1>3, <1>6, <1>7 DEF Holding, Loading
  <2>2. Alive' = Alive /\ Alive \subseteq {g.pid}
    BY <1>1, <1>2, <1>6, <1>7, <1>8 DEF Alive, Knows, Holding
  <2>3. IF g.op = "stop" THEN g.step = "stopping" ELSE g.env = env
    BY <1>1, <1>3, <1>6, <1>7, <1>8 DEF Knows, Loading, CallerSteps
  <2>4. \A p \in Alive : process[p].env = env \/ StopsOld(g)
    BY <1>1, <1>3, <1>6, <1>7, <1>8 DEF Knows, StopsOld
  <2> QED
    BY <1>2, <2>1, <2>2, <2>3, <2>4 DEF Knows, StopsOld
<1>9. /\ env' \in Envs /\ child' \in Pids \cup {NoPid} /\ disturbed' \in BOOLEAN
      /\ process' \in [Pids -> [state : {"none", "starting", "serving", "dead"}, env : Envs]]
      /\ UNCHANGED <<configVars, restarts>> /\ (disturbed => disturbed')
  BY <1>2 DEF ServiceInv, ProcessTypeOK
<1>10. caller' = [caller EXCEPT ![c] = g] /\ g \in {Away} \cup CallerRows
  BY <1>4, <1>7
<1> QED
  BY <1>1, <1>8, <1>9, <1>10, OneMoves

\* What was the child is dead, so nothing lives.
LEMMA TerminateKeeps ==
    ASSUME ServiceInv, ProcessAssumption, NEW c \in Callers, Terminate(c)
    PROVE  ServiceInv'
<1>1. /\ caller[c] \in CallerRows /\ caller[c].step \in {"stopping", "replacing", "failing"}
      /\ caller[c] # Away
  BY CallerAt, AwayRow DEF Terminate, In, CallerSteps, ServiceInv
<1>2. UNCHANGED <<configVars, env, child, restarts, disturbed>> /\ process' = Terminated(c)
  BY DEF Terminate
<1>3. Dead \in [state : {"none", "starting", "serving", "dead"}, env : Envs] /\ Dead.state = "dead"
  BY DEF Dead, NoEnv, Envs, Versions, ProcessAssumption
<1>4. /\ process' \in [Pids -> [state : {"none", "starting", "serving", "dead"}, env : Envs]]
      /\ Alive' = Alive \ {caller[c].pid}
  <2>1. CASE caller[c].pid \in Alive
    <3>1. process' = [process EXCEPT ![caller[c].pid] = Dead] /\ caller[c].pid \in Pids
      BY <1>2, <2>1 DEF Terminated, Alive
    <3> QED
      BY <1>3, <3>1 DEF Alive, ServiceInv, ProcessTypeOK
  <2>2. CASE caller[c].pid \notin Alive
    BY <1>2, <2>2 DEF Terminated, Alive, ServiceInv, ProcessTypeOK
  <2> QED
    BY <2>1, <2>2
<1>5. ASSUME Knows(caller[c]) PROVE Alive' = {}
  BY <1>1, <1>4, <1>5 DEF Knows, Holding
<1>6. /\ env' \in Envs /\ child' \in Pids \cup {NoPid} /\ disturbed' \in BOOLEAN
      /\ UNCHANGED <<configVars, restarts>> /\ (disturbed => disturbed')
  BY <1>2 DEF ServiceInv, ProcessTypeOK
<1>7. CASE End(c)
  <2>1. caller' = [caller EXCEPT ![c] = Away] /\ Away \in {Away} \cup CallerRows
    BY <1>7 DEF End
  <2>2. Alive' = {} => Knows(Away)'
    BY AwayRow DEF Knows, CallerSteps, Loading
  <2> QED
    BY <1>1, <1>4, <1>5, <1>6, <2>1, <2>2, OneMoves
<1>8. ASSUME NEW step \in {"probe", "spawn"}, To(c, step),
             caller[c].op # "stop" \/ caller[c].step # "stopping"
      PROVE  ServiceInv'
  <2>0. step \in CallerSteps
    BY DEF CallerSteps
  <2>1. PICK e \in CallerRows :
              /\ e.step = step /\ e.op = caller[c].op /\ e.env = caller[c].env
              /\ e.pid = caller[c].pid
              /\ caller' = [caller EXCEPT ![c] = e]
    BY <1>1, <1>8, <2>0, Goes DEF ServiceInv
  <2>2. ASSUME Knows(caller[c]) PROVE Knows(e)'
    <3>1. e.op # "stop" /\ e.env = env
      BY <1>1, <1>8, <2>1, <2>2 DEF Knows, Loading, CallerSteps
    <3> QED
      BY <1>2, <1>5, <2>1, <2>2, <3>1 DEF Knows, Loading
  <2>3. e \in {Away} \cup CallerRows
    OBVIOUS
  <2> QED
    BY <1>1, <1>4, <1>6, <2>1, <2>2, <2>3, OneMoves
<1>9. \/ End(c)
      \/ To(c, "probe") /\ caller[c].op # "stop"
      \/ To(c, "spawn") /\ caller[c].step = "replacing"
  BY <1>1 DEF Terminate, In
<1> QED
  BY <1>7, <1>8, <1>9

LEMMA TerminateFailsKeeps ==
    ASSUME ServiceInv, NEW c \in Callers, TerminateFails(c)
    PROVE  ServiceInv'
<1>1. caller' = [caller EXCEPT ![c] = Away]
      /\ UNCHANGED <<configVars, env, child, process, restarts>> /\ disturbed' = TRUE
  BY DEF TerminateFails, End
<1>2. ProcessTypeOK'
  BY <1>1 DEF ServiceInv, ProcessTypeOK, configVars
<1> QED
  BY <1>1, <1>2 DEF ServiceInv, ProcessInv

\* A process is spawned when none is left, with the configuration that was set.
LEMMA SpawnKeeps ==
    ASSUME ServiceInv, NEW c \in Callers, Spawn(c)
    PROVE  ServiceInv'
<1>1. caller[c] \in CallerRows /\ caller[c].step = "spawn" /\ caller[c] # Away
  BY CallerAt, AwayRow DEF Spawn, In, CallerSteps, ServiceInv
<1>2. UNCHANGED <<configVars, env, child, restarts, disturbed>>
  BY DEF Spawn
<1>3. CASE End(c) /\ UNCHANGED process
  BY <1>1, <1>2, <1>3, Ends DEF Holding, StopsOld
<1>4. ASSUME NEW p \in Pids, 
             process' = [process EXCEPT ![p] = [state |-> "starting", env |-> caller[c].env]],
             caller' = [caller EXCEPT ![c].step = "replace", ![c].pid = p]
      PROVE  ServiceInv'
  <2> DEFINE e == [caller[c] EXCEPT !.step = "replace", !.pid = p]
  <2>1. /\ e \in CallerRows /\ e.step = "replace" /\ e.op = caller[c].op /\ e.env = caller[c].env
        /\ e.pid = p
    BY <1>1 DEF CallerRows, CallerSteps
  <2>2. caller' = [caller EXCEPT ![c] = e]
    BY <1>4
  <2> HIDE DEF e
  <2>3. PICK g \in CallerRows : g = e
    BY <2>1
  <2>4. caller[c].env \in Envs
    BY <1>1 DEF CallerRows
  <2>5. /\ process' \in [Pids -> [state : {"none", "starting", "serving", "dead"}, env : Envs]]
        /\ process'[p].env = caller[c].env
        /\ Alive' \subseteq Alive \cup {p}
    BY <1>4, <2>4 DEF ServiceInv, ProcessTypeOK, Alive
  <2>6. ASSUME Knows(caller[c]) PROVE Knows(g)'
    <3>1. g.op # "stop" /\ g.env = env /\ caller[c].env = env /\ Alive = {}
      BY <1>1, <2>1, <2>3, <2>6 DEF Knows, Loading, CallerSteps
    <3> QED
      BY <1>2, <2>1, <2>3, <2>5, <3>1 DEF Knows, Loading, Holding
  <2>7. /\ env' \in Envs /\ child' \in Pids \cup {NoPid} /\ disturbed' \in BOOLEAN
        /\ UNCHANGED <<configVars, restarts>> /\ (disturbed => disturbed')
    BY <1>2 DEF ServiceInv, ProcessTypeOK
  <2>8. caller' = [caller EXCEPT ![c] = g] /\ g \in {Away} \cup CallerRows
    BY <2>2, <2>3
  <2> QED
    BY <1>1, <2>5, <2>6, <2>7, <2>8, OneMoves
<1> QED
  BY <1>3, <1>4 DEF Spawn

LEMMA ReplaceKeeps ==
    ASSUME ServiceInv, NEW c \in Callers, ReplaceChild(c)
    PROVE  ServiceInv'
<1>1. caller[c] \in CallerRows /\ caller[c].step = "replace" /\ caller[c] # Away
  BY CallerAt, AwayRow DEF ReplaceChild, In, CallerSteps, ServiceInv
<1>2. /\ UNCHANGED <<configVars, env, process, restarts, disturbed>>
      /\ child' = caller[c].pid /\ To(c, "wait") /\ "wait" \in CallerSteps
  BY DEF ReplaceChild, CallerSteps
<1>3. PICK e \in CallerRows :
              /\ e.step = "wait" /\ e.op = caller[c].op /\ e.env = caller[c].env
              /\ e.pid = caller[c].pid
              /\ caller' = [caller EXCEPT ![c] = e]
  BY <1>1, <1>2, Goes DEF ServiceInv
<1>4. ASSUME Knows(caller[c]) PROVE Knows(e)'
  <2>1. e.op # "stop" /\ e.env = env /\ Alive \subseteq {caller[c].pid}
    BY <1>1, <1>3, <1>4 DEF Knows, Loading, CallerSteps, Holding
  <2>2. \A p \in Alive : process[p].env = env
    BY <1>1, <1>4 DEF Knows, StopsOld
  <2> QED
    BY <1>2, <1>3, <2>1, <2>2 DEF Knows, Loading, Holding, Alive
<1>5. /\ env' \in Envs /\ child' \in Pids \cup {NoPid} /\ disturbed' \in BOOLEAN
      /\ process' \in [Pids -> [state : {"none", "starting", "serving", "dead"}, env : Envs]]
      /\ UNCHANGED <<configVars, restarts>> /\ (disturbed => disturbed')
  BY <1>1, <1>2 DEF ServiceInv, ProcessTypeOK, CallerRows
<1>6. e \in {Away} \cup CallerRows
  OBVIOUS
<1> QED
  BY <1>1, <1>3, <1>4, <1>5, <1>6, OneMoves

\* Waiting, and using what answers; a child that has exited is forgotten.
LEMMA WaitKeeps ==
    ASSUME ServiceInv, NEW c \in Callers,
           Healthy(c) \/ ChildExited(c) \/ DeadlinePassed(c)
    PROVE  ServiceInv'
<1>1. caller[c] \in CallerRows /\ caller[c].step = "wait" /\ caller[c] # Away
  BY CallerAt, AwayRow DEF Healthy, ChildExited, DeadlinePassed, In, CallerSteps, ServiceInv
<1>2. UNCHANGED <<configVars, env, process, restarts, disturbed>>
  BY DEF Healthy, ChildExited, DeadlinePassed
<1>3. child' = child \/ (child \notin Alive /\ child' = NoPid)
  BY DEF Healthy, ChildExited, DeadlinePassed
<1>4. PICK step \in {"up", "failed"} : To(c, step)
  BY DEF Healthy, ChildExited, DeadlinePassed
<1>5. step \in CallerSteps
  BY DEF CallerSteps
<1>6. PICK e \in CallerRows :
              /\ e.step = step /\ e.op = caller[c].op /\ e.env = caller[c].env
              /\ e.pid = caller[c].pid
              /\ caller' = [caller EXCEPT ![c] = e]
  BY <1>1, <1>4, <1>5, Goes DEF ServiceInv
<1>7. ASSUME Knows(caller[c]) PROVE Knows(e)'
  <2>1. e.op # "stop" /\ e.env = env /\ Alive \subseteq {child}
    BY <1>1, <1>6, <1>7 DEF Knows, Loading, CallerSteps, Holding
  <2>2. \A p \in Alive : process[p].env = env
    BY <1>1, <1>7 DEF Knows, StopsOld
  <2>3. Alive \subseteq {child'}
    BY <1>3, <2>1
  <2> QED
    BY <1>2, <1>6, <2>1, <2>2, <2>3 DEF Knows, Loading, Holding, Alive
<1>8. /\ env' \in Envs /\ child' \in Pids \cup {NoPid} /\ disturbed' \in BOOLEAN
      /\ process' \in [Pids -> [state : {"none", "starting", "serving", "dead"}, env : Envs]]
      /\ UNCHANGED <<configVars, restarts>> /\ (disturbed => disturbed')
  BY <1>2, <1>3 DEF ServiceInv, ProcessTypeOK
<1>9. e \in {Away} \cup CallerRows
  OBVIOUS
<1> QED
  BY <1>1, <1>6, <1>7, <1>8, <1>9, OneMoves

LEMMA UseKeeps ==
    ASSUME ServiceInv, NEW c \in Callers, Use(c)
    PROVE  ServiceInv'
<1>1. caller[c] \in CallerRows /\ caller[c].step = "up" /\ caller[c] # Away
  BY CallerAt, AwayRow DEF Use, In, CallerSteps, ServiceInv
<1>2. /\ UNCHANGED <<configVars, env, process, restarts, disturbed>>
      /\ caller' = [caller EXCEPT ![c] = Away]
  BY DEF Use, End
<1>3. child' = child \/ (child \notin Alive /\ child' = NoPid)
  BY DEF Use
<1>4. ASSUME Knows(caller[c]) PROVE Knows(Away)'
  <2>1. Alive \subseteq {child}
    BY <1>1, <1>4 DEF Knows, Holding
  <2>2. \A p \in Alive : process[p].env = env
    BY <1>1, <1>4 DEF Knows, StopsOld
  <2>3. Alive \subseteq {child'}
    BY <1>3, <2>1
  <2> QED
    BY <1>2, <2>2, <2>3, AwayRow DEF Knows, Loading, Holding, Alive, CallerSteps
<1>5. /\ env' \in Envs /\ child' \in Pids \cup {NoPid} /\ disturbed' \in BOOLEAN
      /\ process' \in [Pids -> [state : {"none", "starting", "serving", "dead"}, env : Envs]]
      /\ UNCHANGED <<configVars, restarts>> /\ (disturbed => disturbed')
  BY <1>2, <1>3 DEF ServiceInv, ProcessTypeOK
<1>6. Away \in {Away} \cup CallerRows
  OBVIOUS
<1> QED
  BY <1>1, <1>2, <1>4, <1>5, <1>6, OneMoves

-----------------------------------------------------------------------------
(* Processes, configurations and the application.                          *)

\* The processes that live become fewer, and keep their configuration.
LEMMA FewerLive ==
    ASSUME ServiceInv, UNCHANGED <<env, child, caller, restarts, disturbed>>,
           row' \in [endpoint : Versions, ref : BOOLEAN],
           secret' \in Versions, saves' \in Versions,
           saving' \in {NoSave} \cup [step : {"row"}, ref : BOOLEAN],
           process' \in [Pids -> [state : {"none", "starting", "serving", "dead"}, env : Envs]],
           Alive' \subseteq Alive, \A p \in Alive' : process'[p].env = process[p].env
    PROVE  ServiceInv'
<1>1. ProcessTypeOK'
  BY DEF ServiceInv, ProcessTypeOK
<1>2. \A e : Knows(e) => Knows(e)'
  <2> SUFFICES ASSUME NEW e, Knows(e) PROVE Knows(e)'
    OBVIOUS
  <2>1. \A p \in Alive' : process'[p].env = env \/ StopsOld(e)
    BY DEF Knows
  <2> QED
    BY <2>1 DEF Knows, StopsOld
<1>3. \A c \in Callers : Knows(caller[c]) => Knows(caller[c])'
  <2> SUFFICES ASSUME NEW c \in Callers, Knows(caller[c]) PROVE Knows(caller[c])'
    OBVIOUS
  <2>1. PICK e : e = caller[c]
    OBVIOUS
  <2>2. Knows(e)' /\ caller'[c] = e
    BY <1>2, <2>1
  <2> QED
    BY <2>2 DEF Knows, StopsOld
<1> QED
  BY <1>1, <1>2, <1>3 DEF ServiceInv, ProcessInv, OneAtATime

LEMMA ProcessKeeps ==
    ASSUME ServiceInv, ProcessAssumption, NEW p \in Pids, Bind(p) \/ Exit(p)
    PROVE  ServiceInv'
<1>1. UNCHANGED <<configVars, env, child, caller, restarts, disturbed>>
  BY DEF Bind, Exit
<1>2. PICK q \in [state : {"none", "starting", "serving", "dead"}, env : Envs] :
         /\ process' = [process EXCEPT ![p] = q]
         /\ q.state = "dead" \/ (q.env = process[p].env /\ p \in Alive)
  <2>1. Dead \in [state : {"none", "starting", "serving", "dead"}, env : Envs] /\ Dead.state = "dead"
    BY DEF Dead, NoEnv, Envs, Versions, ProcessAssumption
  <2>2. process[p] \in [state : {"none", "starting", "serving", "dead"}, env : Envs]
    BY DEF ServiceInv, ProcessTypeOK
  <2>3. CASE process' = [process EXCEPT ![p] = Dead]
    BY <2>1, <2>3
  <2>4. CASE process[p].state = "starting" /\
             process' = [process EXCEPT ![p] = [process[p] EXCEPT !.state = "serving"]]
    <3> DEFINE q == [process[p] EXCEPT !.state = "serving"]
    <3>1. /\ q \in [state : {"none", "starting", "serving", "dead"}, env : Envs]
          /\ q.env = process[p].env /\ p \in Alive
      BY <2>2, <2>4 DEF Alive
    <3>2. process' = [process EXCEPT ![p] = q]
      BY <2>4
    <3> HIDE DEF q
    <3> QED
      BY <3>1, <3>2
  <2> QED
    BY <2>3, <2>4 DEF Bind, Exit
<1>3. /\ process' \in [Pids -> [state : {"none", "starting", "serving", "dead"}, env : Envs]]
      /\ Alive' \subseteq Alive /\ \A r \in Alive' : process'[r].env = process[r].env
  BY <1>2 DEF ServiceInv, ProcessTypeOK, Alive
<1>4. /\ row' \in [endpoint : Versions, ref : BOOLEAN]
      /\ secret' \in Versions /\ saves' \in Versions
      /\ saving' \in {NoSave} \cup [step : {"row"}, ref : BOOLEAN]
  BY <1>1 DEF ServiceInv, ProcessTypeOK, configVars
<1> QED
  BY <1>1, <1>3, <1>4, FewerLive

LEMMA SaveKeeps ==
    ASSUME ServiceInv, ProcessAssumption,
           EndSave \/ \E key \in {"keep", "put", "clear"} : BeginSave(key)
    PROVE  ServiceInv'
<1>1. UNCHANGED <<env, child, process, caller, restarts, disturbed>>
  BY DEF BeginSave, EndSave
<1>2. /\ row \in [endpoint : Versions, ref : BOOLEAN] /\ secret \in Versions /\ saves \in Versions
      /\ saving \in {NoSave} \cup [step : {"row"}, ref : BOOLEAN]
      /\ process \in [Pids -> [state : {"none", "starting", "serving", "dead"}, env : Envs]]
  BY DEF ServiceInv, ProcessTypeOK
<1>3. /\ row' \in [endpoint : Versions, ref : BOOLEAN]
      /\ secret' \in Versions /\ saves' \in Versions
      /\ saving' \in {NoSave} \cup [step : {"row"}, ref : BOOLEAN]
  <2>1. CASE EndSave
    <3>1. saving.ref \in BOOLEAN
      BY <1>2, <2>1 DEF EndSave, NoSave
    <3> DEFINE ref == saving.ref
    <3>2. row' \in {row, [endpoint |-> saves, ref |-> ref]} /\ saving' = NoSave
          /\ UNCHANGED <<secret, saves>> /\ ref \in BOOLEAN
      BY <2>1, <3>1 DEF EndSave
    <3> HIDE DEF ref
    <3> QED
      BY <1>2, <3>2
  <2>2. CASE \E key \in {"keep", "put", "clear"} : BeginSave(key)
    <3>1. saves' \in Versions /\ 0 \in Versions /\ UNCHANGED row
      BY <1>2, <2>2 DEF BeginSave, Versions, ProcessAssumption
    <3> DEFINE ref == row.ref
    <3>2. ref \in BOOLEAN
      BY <1>2
    <3>3. secret' \in {secret, saves', 0} /\
          \E b \in BOOLEAN : saving' = [step |-> "row", ref |-> b]
      BY <2>2, <3>2 DEF BeginSave
    <3> QED
      BY <1>2, <3>1, <3>3
  <2> QED
    BY <2>1, <2>2
<1>4. Alive' = Alive
  BY <1>1 DEF Alive
<1> QED
  BY <1>1, <1>2, <1>3, <1>4, FewerLive

\* A process that outlives the application disturbs; else none is left.
LEMMA ProcessRestartKeeps ==
    ASSUME ServiceInv, ProcessAssumption, Relaunch
    PROVE  ServiceInv'
<1>1. /\ restarts' = restarts + 1 /\ caller' = [c \in Callers |-> Away]
      /\ saving' = NoSave /\ env' = NoEnv /\ child' = NoPid
      /\ disturbed' = (disturbed \/ Alive # {})
      /\ UNCHANGED <<row, secret, saves, process>>
  BY DEF Relaunch
<1>2. NoEnv \in Envs
  BY DEF NoEnv, Envs, Versions, ProcessAssumption
<1>3. ProcessTypeOK'
  BY <1>1, <1>2 DEF ServiceInv, ProcessTypeOK
<1>4. ASSUME ~disturbed' PROVE Alive' = {}
  BY <1>1, <1>4 DEF Alive
<1>5. Alive' = {} => Knows(Away)'
  BY AwayRow DEF Knows, CallerSteps, Loading
<1> QED
  BY <1>1, <1>3, <1>4, <1>5 DEF ServiceInv, ProcessInv, OneAtATime

LEMMA ServiceInductive ==
    ASSUME ProcessAssumption PROVE ServiceInv /\ [ProcessNext]_processVars => ServiceInv'
<1> SUFFICES ASSUME ServiceInv, [ProcessNext]_processVars PROVE ServiceInv'
  OBVIOUS
<1>1. CASE EndSave \/ \E key \in {"keep", "put", "clear"} : BeginSave(key)
  BY <1>1, SaveKeeps
<1>2. ASSUME NEW c \in Callers, NEW o \in {"use", "stop"}, Enter(c, o)
      PROVE  ServiceInv'
  BY <1>2, BeginKeeps
<1>3. ASSUME NEW c \in Callers, CallerStep(c) PROVE ServiceInv'
  BY <1>3, LoadKeeps, SetKeeps, ProbeKeeps, TakeKeeps, TerminateKeeps, TerminateFailsKeeps,
     SpawnKeeps, ReplaceKeeps, WaitKeeps, UseKeeps DEF CallerStep
<1>4. ASSUME NEW p \in Pids, Bind(p) \/ Exit(p) PROVE ServiceInv'
  BY <1>4, ProcessKeeps
<1>5. CASE Relaunch
  BY <1>5, ProcessRestartKeeps
<1>6. CASE UNCHANGED processVars
  <2>1. UNCHANGED <<row, secret, saves, saving, env, child, process, caller, restarts, disturbed>>
    BY <1>6 DEF processVars, configVars
  <2>2. Alive' = Alive
    BY <2>1 DEF Alive
  <2> QED
    BY <2>1, <2>2, FewerLive DEF ServiceInv, ProcessTypeOK
<1> QED
  BY <1>1, <1>2, <1>3, <1>4, <1>5, <1>6 DEF ProcessNext

LEMMA ServiceAlways == ProcessSpec => []ServiceInv
<1>1. ProcessInit => ServiceInv
  BY ProcessInit_Inv, ProcessAssumption
<1>2. ServiceInv /\ [ProcessNext]_processVars => ServiceInv'
  BY ServiceInductive, ProcessAssumption
<1> QED
  BY <1>1, <1>2, PTL DEF ProcessSpec

\* The service, its threads and its processes keep their types.
THEOREM ProcessTyped == ProcessSpec => []ProcessTypeOK
<1>1. ServiceInv => ProcessTypeOK
  BY DEF ServiceInv
<1> QED
  BY <1>1, ServiceAlways, PTL

\* While one thread at a time uses the service, and what it kills is dead, there
\* is at most one Python process, whatever exits, binds late or fails to start.
THEOREM OneProcess == ProcessSpec => []OneInstance
<1>1. ASSUME ServiceInv PROVE OneInstance
  <2>1. ASSUME ~disturbed PROVE Cardinality(Alive) <= 1
    <3>1. \E e \in {Away} \cup CallerRows : Knows(e)
      BY <1>1, <2>1 DEF ServiceInv, ProcessInv, ProcessTypeOK
    <3>2. PICK x : Alive \subseteq {x}
      BY <3>1 DEF Knows
    <3>3. Alive = {} \/ Alive = {x}
      BY <3>2
    <3>4. CASE Alive = {}
      <4>1. Cardinality(Alive) = 0
        BY <3>4, FS_EmptySet, Zenon
      <4> QED
        BY <4>1
    <3>5. CASE Alive = {x}
      <4>1. Cardinality(Alive) = 1
        BY <3>5, FS_Singleton, Zenon
      <4> QED
        BY <4>1
    <3> QED
      BY <3>3, <3>4, <3>5
  <2> QED
    BY <2>1 DEF OneInstance
<1> QED
  BY <1>1, ServiceAlways, PTL

\* Until then a request is answered by a process that was started with the
\* configuration loaded for it.
THEOREM RequestsServedAsConfigured == ProcessSpec => ServedAsConfigured
<1> DEFINE Served == \A c \in Callers : Use(c) /\ ~disturbed =>
                        \A p \in Serving : process[p].env = caller[c].env
<1>1. ASSUME ServiceInv PROVE Served
  <2> SUFFICES ASSUME NEW c \in Callers, Use(c), ~disturbed, NEW p \in Serving
               PROVE  process[p].env = caller[c].env
    OBVIOUS
  <2>1. caller[c] \in CallerRows /\ caller[c].step = "up" /\ caller[c] # Away
    BY <1>1, CallerAt, AwayRow DEF Use, In, CallerSteps, ServiceInv
  <2>2. Knows(caller[c])
    BY <1>1, <2>1 DEF ServiceInv, ProcessInv
  <2>3. caller[c].env = env /\ ~StopsOld(caller[c])
    BY <2>1, <2>2 DEF Knows, CallerSteps, Loading, StopsOld
  <2>4. p \in Alive
    BY DEF Serving, Alive
  <2> QED
    BY <2>2, <2>3, <2>4 DEF Knows
<1>2. ServiceInv /\ [ProcessNext]_processVars => [Served]_processVars
  BY <1>1
<1> QED
  BY <1>2, ServiceAlways, PTL DEF ProcessSpec, ServedAsConfigured
===============================================================================
