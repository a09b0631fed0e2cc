------------------------- MODULE StartupRecoveryProofs -------------------------
(***************************************************************************)
(* Safety of what a startup finds: CommandRuns and TaskRecovery for any    *)
(* number of commands, run ids, phases and restarts, FileEditTransaction   *)
(* for any requests that keep out of each other's way.                     *)
(*                                                                         *)
(* Runs and tasks: the row of a run is written once and never changed, a   *)
(* call writes its round only after its row, and the store is locked       *)
(* between a round and the status that it asks for, so that the round of   *)
(* the call that sets the status is still the last one.                    *)
(*                                                                         *)
(* File edits: of the operations of an open request some are made and no   *)
(* other, and these are among those its row bounds, or of a rollback those *)
(* still to be undone and the one that failed after its effect.  Nobody    *)
(* else changes its files, so that it is the only one that is seen when it *)
(* is settled.                                                             *)
(***************************************************************************)
EXTENDS TaskRecovery, FileEditTransaction, SequenceTheorems, WellFoundedInduction, TLAPS

-----------------------------------------------------------------------------
(* Runs of commands and tasks.                                             *)

Steps == {"begun", "registered", "running", "stopped", "finished", "recorded", "rounded"}

Working == [step : Steps, run : RunIds, outcome : Outcomes \cup {"none"}, validation : BOOLEAN]

Row == [outcome : Outcomes, validation : BOOLEAN]

Statuses == {"planning", "editing", "validating", "failed", "repairing",
             "awaitingApproval", "needsIntervention", "readyToMerge"}

\* The type of the variables.
RunsTypeOK ==
    /\ call \in [Calls -> {Idle, Over} \cup Working]
    /\ registry \in [RunIds -> Calls \cup {NoCall}]
    /\ signal \in [Calls -> {"open", "dropped", "cancelled"}]
    /\ runs \in [RunIds -> {NoRun} \cup Row]
    /\ rounds \in Seq([run : RunIds, outcome : Outcomes])
    /\ status \in Statuses

TypeOK ==
    /\ RunsTypeOK
    /\ agent \in Phases \cup {"created"} /\ syncing \in Phases \cup {"none"}
    /\ session \in Phases \cup {"none", "needs_intervention"}
    /\ recoveries \subseteq [resource : RunIds \cup {"session", "task"}, confirm : BOOLEAN]
    /\ restarts \in Nat

\* A process that has stopped has an outcome.
HasOutcome ==
    \A c \in Calls : call[c].step \in {"stopped", "finished", "recorded", "rounded"}
                        => call[c].outcome \in Outcomes

\* The row of a validation run with this outcome.
Attests(entry, outcome) == entry # NoRun /\ entry.outcome = outcome /\ entry.validation

\* Every round says what the row of its run says.
RoundsMatchRows ==
    \A i \in 1..Len(rounds) : Attests(runs[rounds[i].run], rounds[i].outcome)

OneRoundPerRun ==
    \A i, j \in 1..Len(rounds) : rounds[i].run = rounds[j].run => i = j

\* A call that is about to write its round has written the row of its run,
\* and no round stands for that run yet.
RowBeforeRound ==
    \A c \in Calls : At(c, "recorded") =>
        /\ Attests(runs[call[c].run], call[c].outcome)
        /\ \A i \in 1..Len(rounds) : rounds[i].run # call[c].run
        /\ \A k \in Calls : At(k, "recorded") /\ call[k].run = call[c].run => k = c

\* The round of the call that is about to set the status is the last one.
LastRound ==
    \A c \in Calls : At(c, "rounded") =>
        /\ Len(rounds) > 0
        /\ rounds[Len(rounds)].outcome = call[c].outcome

Evidence == RoundsMatchRows /\ OneRoundPerRun /\ RowBeforeRound /\ LastRound

\* The part about the commands, and the invariant.
RunsInv == RunsTypeOK /\ HasOutcome /\ Evidence

IInv == TypeOK /\ HasOutcome /\ Evidence

-----------------------------------------------------------------------------
(* What the steps do to one call.                                          *)

LEMMA GoEffect ==
    ASSUME RunsTypeOK, NEW c \in Calls, call[c] \in Working, NEW step \in Steps, Go(c, step)
    PROVE  /\ call' \in [Calls -> {Idle, Over} \cup Working]
           /\ call'[c] \in Working /\ call'[c].step = step
           /\ call'[c].run = call[c].run /\ call'[c].outcome = call[c].outcome
           /\ call'[c].validation = call[c].validation
           /\ \A k \in Calls \ {c} : call'[k] = call[k]
<1> DEFINE w == [call[c] EXCEPT !.step = step]
<1>1. /\ w \in Working /\ w.step = step /\ w.run = call[c].run
      /\ w.outcome = call[c].outcome /\ w.validation = call[c].validation
  BY DEF Working
<1>2. call' = [call EXCEPT ![c] = w]
  BY DEF Go
<1> HIDE DEF w
<1> QED  BY <1>1, <1>2 DEF RunsTypeOK

LEMMA EndEffect ==
    ASSUME RunsTypeOK, NEW c \in Calls, End(c)
    PROVE  /\ call' \in [Calls -> {Idle, Over} \cup Working]
           /\ call'[c] = Over /\ call'[c].step = "over"
           /\ \A k \in Calls \ {c} : call'[k] = call[k]
BY DEF RunsTypeOK, End, Over

\* A call with a step of its own has a run.
LEMMA AtWork ==
    ASSUME RunsTypeOK, NEW c \in Calls, NEW step \in Steps, At(c, step)
    PROVE  call[c] \in Working
BY DEF RunsTypeOK, At, Steps, Idle, Over

LEMMA DropType ==
    ASSUME RunsTypeOK, NEW c \in Calls, call[c] \in Working, DropGuard(c)
    PROVE  /\ registry' \in [RunIds -> Calls \cup {NoCall}]
           /\ signal' \in [Calls -> {"open", "dropped", "cancelled"}]
BY DEF RunsTypeOK, Working, DropGuard

\* The steps that write neither a row nor a round.
LEMMA QuietKeeps ==
    ASSUME Evidence, UNCHANGED <<runs, rounds>>,
           \A k \in Calls : call'[k].step \in {"recorded", "rounded"} => call'[k] = call[k]
    PROVE  Evidence'
<1>1. \A k \in Calls : At(k, "recorded")' => At(k, "recorded") /\ call'[k] = call[k]
  BY DEF At
<1>2. \A k \in Calls : At(k, "rounded")' => At(k, "rounded") /\ call'[k] = call[k]
  BY DEF At
<1>3. RoundsMatchRows' /\ OneRoundPerRun'
  BY DEF Evidence, RoundsMatchRows, OneRoundPerRun
<1>4. RowBeforeRound'
  BY <1>1 DEF Evidence, RowBeforeRound
<1>5. LastRound'
  BY <1>2 DEF Evidence, LastRound
<1> QED  BY <1>3, <1>4, <1>5 DEF Evidence

LEMMA StatusType ==
    /\ \A outcome : StatusAfter(outcome) \in Statuses
    /\ \A phase : TaskStatus(phase) \in Statuses
BY DEF StatusAfter, TaskStatus, Statuses

\* An action of one call that writes neither a row nor a round.
Quiet(c) ==
    \/ \E r \in RunIds, validation \in BOOLEAN : Begin(c, r, validation)
    \/ Register(c) \/ Spawn(c) \/ SpawnFails(c) \/ Exit(c) \/ Cancelled(c) \/ TimeOut(c)
    \/ Drain(c) \/ SetStatus(c)

\* It is enough to look at the call that moves.
LEMMA OneCallKeeps ==
    ASSUME RunsInv, NEW c \in Calls, UNCHANGED <<runs, rounds>>,
           call' \in [Calls -> {Idle, Over} \cup Working],
           \A k \in Calls \ {c} : call'[k] = call[k],
           call'[c].step \notin {"recorded", "rounded"},
           call'[c].step \in {"stopped", "finished"} => call'[c].outcome \in Outcomes
    PROVE  HasOutcome' /\ Evidence'
<1>1. HasOutcome'
  BY DEF RunsInv, HasOutcome
<1>2. Evidence'
  BY QuietKeeps DEF RunsInv
<1> QED  BY <1>1, <1>2

LEMMA StopKeeps ==
    ASSUME RunsInv, NEW c \in Calls, NEW outcome \in Outcomes, Stop(c, outcome)
    PROVE  RunsInv'
<1> DEFINE w == [call[c] EXCEPT !.step = "stopped", !.outcome = outcome]
<1>1. call[c] \in Working
  BY AtWork DEF Stop, RunsInv, Steps
<1>2. w \in Working /\ w.step = "stopped" /\ w.outcome = outcome
  BY <1>1 DEF Working, Steps
<1>3. call' = [call EXCEPT ![c] = w]
  BY DEF Stop
<1> HIDE DEF w
<1>4. /\ call' \in [Calls -> {Idle, Over} \cup Working] /\ call'[c] = w
      /\ \A k \in Calls \ {c} : call'[k] = call[k]
  BY <1>2, <1>3 DEF RunsInv, RunsTypeOK
<1>5. UNCHANGED <<registry, signal, runs, rounds, status>>
  BY DEF Stop
<1>6. HasOutcome' /\ Evidence'
  BY <1>2, <1>4, <1>5, OneCallKeeps
<1> QED  BY <1>4, <1>5, <1>6 DEF RunsInv, RunsTypeOK

LEMMA QuietStep ==
    ASSUME RunsInv, NEW c \in Calls, Quiet(c) PROVE RunsInv'
<1>0. RunsTypeOK
  BY DEF RunsInv
<1>1. ASSUME NEW r \in RunIds, NEW validation \in BOOLEAN, Begin(c, r, validation)
      PROVE  RunsInv'
  <2> DEFINE w == [step |-> "begun", run |-> r, outcome |-> "none", validation |-> validation]
  <2>1. w \in Working /\ w.step = "begun"
    BY DEF Working, Steps
  <2>2. call' = [call EXCEPT ![c] = w]
    BY <1>1 DEF Begin
  <2> HIDE DEF w
  <2>3. /\ call' \in [Calls -> {Idle, Over} \cup Working] /\ call'[c] = w
        /\ \A k \in Calls \ {c} : call'[k] = call[k]
    BY <1>0, <2>1, <2>2 DEF RunsTypeOK
  <2>4. UNCHANGED <<registry, signal, runs, rounds>> /\ status' \in Statuses
    BY <1>0, <1>1 DEF Begin, RunsTypeOK, Statuses
  <2>5. HasOutcome' /\ Evidence'
    BY <2>1, <2>3, <2>4, OneCallKeeps
  <2> QED  BY <1>0, <2>3, <2>4, <2>5 DEF RunsInv, RunsTypeOK
<1>2. CASE Register(c)
  <2>1. call[c] \in Working /\ call[c].run \in RunIds
    BY <1>0, <1>2, AtWork DEF Register, Steps, Working
  <2>2. UNCHANGED <<signal, runs, rounds, status>>
        /\ registry' \in [RunIds -> Calls \cup {NoCall}]
    BY <1>0, <1>2, <2>1 DEF Register, RunsTypeOK
  <2>3. Go(c, "registered") \/ End(c)
    BY <1>2 DEF Register
  <2>4. /\ call' \in [Calls -> {Idle, Over} \cup Working]
        /\ call'[c].step \in {"registered", "over"}
        /\ \A k \in Calls \ {c} : call'[k] = call[k]
    BY <1>0, <2>1, <2>3, GoEffect, EndEffect DEF Steps
  <2>5. HasOutcome' /\ Evidence'
    BY <2>2, <2>4, OneCallKeeps
  <2> QED  BY <1>0, <2>2, <2>4, <2>5 DEF RunsInv, RunsTypeOK
<1>3. CASE Spawn(c)
  <2>1. call[c] \in Working
    BY <1>0, <1>3, AtWork DEF Spawn, Steps
  <2>2. UNCHANGED <<registry, signal, runs, rounds, status>> /\ Go(c, "running")
    BY <1>3 DEF Spawn
  <2>3. /\ call' \in [Calls -> {Idle, Over} \cup Working] /\ call'[c].step = "running"
        /\ \A k \in Calls \ {c} : call'[k] = call[k]
    BY <1>0, <2>1, <2>2, GoEffect DEF Steps
  <2>4. HasOutcome' /\ Evidence'
    BY <2>2, <2>3, OneCallKeeps
  <2> QED  BY <1>0, <2>2, <2>3, <2>4 DEF RunsInv, RunsTypeOK
<1>4. CASE SpawnFails(c)
  <2>1. call[c] \in Working
    BY <1>0, <1>4, AtWork DEF SpawnFails, Steps
  <2>2. UNCHANGED <<runs, rounds, status>> /\ End(c) /\ DropGuard(c)
    BY <1>4 DEF SpawnFails
  <2>3. /\ call' \in [Calls -> {Idle, Over} \cup Working] /\ call'[c].step = "over"
        /\ \A k \in Calls \ {c} : call'[k] = call[k]
    BY <1>0, <2>2, EndEffect
  <2>4. HasOutcome' /\ Evidence'
    BY <2>2, <2>3, OneCallKeeps
  <2> QED  BY <1>0, <2>1, <2>2, <2>3, <2>4, DropType DEF RunsInv, RunsTypeOK
<1>5. CASE Exit(c) \/ Cancelled(c) \/ TimeOut(c)
  BY <1>5, StopKeeps DEF Exit, Cancelled, TimeOut, Outcomes
<1>6. CASE Drain(c)
  <2>1. call[c] \in Working /\ call[c].step = "stopped"
    BY <1>0, <1>6, AtWork DEF Drain, Steps, At
  <2>2. UNCHANGED <<runs, rounds, status>> /\ Go(c, "finished") /\ DropGuard(c)
    BY <1>6 DEF Drain
  <2>3. /\ call' \in [Calls -> {Idle, Over} \cup Working] /\ call'[c].step = "finished"
        /\ call'[c].outcome = call[c].outcome
        /\ \A k \in Calls \ {c} : call'[k] = call[k]
    BY <1>0, <2>1, <2>2, GoEffect DEF Steps
  <2>4. call[c].outcome \in Outcomes
    BY <2>1 DEF RunsInv, HasOutcome
  <2>5. HasOutcome' /\ Evidence'
    BY <2>2, <2>3, <2>4, OneCallKeeps
  <2> QED  BY <1>0, <2>1, <2>2, <2>3, <2>5, DropType DEF RunsInv, RunsTypeOK
<1>7. CASE SetStatus(c)
  <2>1. UNCHANGED <<registry, signal, runs, rounds>> /\ End(c)
        /\ status' = StatusAfter(call[c].outcome)
    BY <1>7 DEF SetStatus
  <2>2. /\ call' \in [Calls -> {Idle, Over} \cup Working] /\ call'[c].step = "over"
        /\ \A k \in Calls \ {c} : call'[k] = call[k]
    BY <1>0, <2>1, EndEffect
  <2>3. HasOutcome' /\ Evidence'
    BY <2>1, <2>2, OneCallKeeps
  <2> QED  BY <1>0, <2>1, <2>2, <2>3, StatusType DEF RunsInv, RunsTypeOK
<1> QED  BY <1>1, <1>2, <1>3, <1>4, <1>5, <1>6, <1>7 DEF Quiet

\* The row of a run: written once, by one of the calls that were given the id.
LEMMA RecordRunKeeps ==
    ASSUME RunsInv, NEW c \in Calls, RecordRun(c) PROVE RunsInv'
<1>0. RunsTypeOK
  BY DEF RunsInv
<1>1. /\ call[c] \in Working /\ call[c].step = "finished"
      /\ call[c].run \in RunIds /\ call[c].validation \in BOOLEAN
      /\ call[c].outcome \in Outcomes
  <2>1. call[c] \in Working /\ call[c].step = "finished"
    BY <1>0, AtWork DEF RecordRun, Steps, At
  <2> QED  BY <2>1 DEF Working, RunsInv, HasOutcome
<1>2. UNCHANGED <<registry, signal, rounds, status>>
  BY DEF RecordRun
<1>3. CASE runs' = runs /\ End(c)
  <2>1. /\ call' \in [Calls -> {Idle, Over} \cup Working] /\ call'[c].step = "over"
        /\ \A k \in Calls \ {c} : call'[k] = call[k]
    BY <1>0, <1>3, EndEffect
  <2>2. HasOutcome' /\ Evidence'
    BY <1>2, <1>3, <2>1, OneCallKeeps
  <2> QED  BY <1>0, <1>2, <1>3, <2>1, <2>2 DEF RunsInv, RunsTypeOK
<1>4. ASSUME runs[call[c].run] = NoRun,
             runs' = [runs EXCEPT ![call[c].run] = [outcome    |-> call[c].outcome,
                                                    validation |-> call[c].validation]],
             IF call[c].validation THEN Go(c, "recorded") ELSE End(c)
      PROVE  RunsInv'
  <2> DEFINE r   == call[c].run
             entry == [outcome |-> call[c].outcome, validation |-> call[c].validation]
  <2>1. /\ entry \in Row /\ entry.outcome = call[c].outcome /\ entry.validation = call[c].validation
        /\ entry # NoRun
    <3>1. entry.outcome # NoRun.outcome
      BY <1>1 DEF NoRun, Outcomes
    <3> QED  BY <1>1, <3>1 DEF Row
  <2>2. runs' = [runs EXCEPT ![r] = entry]
    BY <1>4
  <2> HIDE DEF entry
  <2>3. /\ runs' \in [RunIds -> {NoRun} \cup Row] /\ runs'[r] = entry
        /\ \A q \in RunIds : runs[q] # NoRun => q # r /\ runs'[q] = runs[q]
    BY <1>0, <1>1, <1>4, <2>1, <2>2 DEF RunsTypeOK
  <2>0. call[c].validation => Attests(entry, call[c].outcome)
    BY <2>1, Zenon DEF Attests
  <2>4. /\ call' \in [Calls -> {Idle, Over} \cup Working]
        /\ call'[c].step = "recorded" =>
              /\ call[c].validation /\ call'[c].run = r /\ call'[c].outcome = call[c].outcome
        /\ call'[c].step \in {"recorded", "over"}
        /\ \A k \in Calls \ {c} : call'[k] = call[k]
    <3>1. CASE call[c].validation
      BY <1>0, <1>1, <1>4, <3>1, GoEffect DEF Steps
    <3>2. CASE ~call[c].validation
      BY <1>0, <1>4, <3>2, EndEffect
    <3> QED  BY <3>1, <3>2
  <2>5. \A i \in 1..Len(rounds) : rounds[i].run \in RunIds
    <3>1. \A i \in 1..Len(rounds) : rounds[i] \in [run : RunIds, outcome : Outcomes]
      BY <1>0, ElementOfSeq DEF RunsTypeOK
    <3> QED  BY <3>1
  <2>7. \A i \in 1..Len(rounds) :
            runs[rounds[i].run] # NoRun /\ Attests(runs[rounds[i].run], rounds[i].outcome)
    BY DEF RunsInv, Evidence, RoundsMatchRows, Attests
  <2>6. RoundsMatchRows' /\ OneRoundPerRun'
    BY <1>2, <2>3, <2>5, <2>7 DEF RunsInv, Evidence, RoundsMatchRows, OneRoundPerRun
  <2>8. \A k \in Calls : At(k, "recorded") => call[k].run \in RunIds /\ call[k].run # r
    <3> SUFFICES ASSUME NEW k \in Calls, At(k, "recorded")
                 PROVE  call[k].run \in RunIds /\ call[k].run # r
      OBVIOUS
    <3>1. call[k] \in Working
      BY <1>0, AtWork DEF Steps
    <3>2. runs[call[k].run] # NoRun
      BY DEF RunsInv, Evidence, RowBeforeRound, Attests
    <3> QED  BY <1>4, <3>1, <3>2 DEF Working
  <2>9. RowBeforeRound'
    <3> SUFFICES ASSUME NEW k \in Calls, call'[k].step = "recorded"
                 PROVE  /\ Attests(runs'[call'[k].run], call'[k].outcome)
                        /\ \A i \in 1..Len(rounds) : rounds[i].run # call'[k].run
                        /\ \A j \in Calls :
                              call'[j].step = "recorded" /\ call'[j].run = call'[k].run => j = k
      BY <1>2 DEF RowBeforeRound, At, NoRun
    <3>1. CASE k = c
      <4>1. call'[k].run = r /\ call'[k].outcome = call[c].outcome /\ call[c].validation
        BY <2>4, <3>1
      <4>2. \A j \in Calls : call'[j].step = "recorded" /\ call'[j].run = r => j = c
        BY <2>4, <2>8 DEF At
      <4>3. Attests(runs'[call'[k].run], call'[k].outcome)
        <5>1. Attests(entry, call[c].outcome)
          BY <2>0, <4>1, Zenon
        <5> QED  BY <2>3, <4>1, <5>1
      <4>4. call'[k].run = r
        BY <4>1
      <4>5. \A i \in 1..Len(rounds) : rounds[i].run # call'[k].run
        BY <1>4, <2>7, <4>4
      <4>6. \A j \in Calls :
                call'[j].step = "recorded" /\ call'[j].run = call'[k].run => j = k
        BY <3>1, <4>2, <4>4
      <4> QED  BY <4>3, <4>5, <4>6, Zenon
    <3>2. CASE k # c
      <4>1. call'[k] = call[k] /\ At(k, "recorded")
        BY <2>4, <3>2 DEF At
      <4>2. call[k].run \in RunIds /\ call[k].run # r
        BY <2>8, <4>1
      <4>3. /\ Attests(runs[call[k].run], call[k].outcome) /\ runs[call[k].run] # NoRun
            /\ \A i \in 1..Len(rounds) : rounds[i].run # call[k].run
            /\ \A j \in Calls : At(j, "recorded") /\ call[j].run = call[k].run => j = k
        BY <4>1 DEF RunsInv, Evidence, RowBeforeRound, Attests
      <4>4. \A j \in Calls : call'[j].step = "recorded" /\ call'[j].run = call[k].run => j = k
        BY <2>4, <4>2, <4>3 DEF At
      <4> QED  BY <2>3, <4>1, <4>2, <4>3, <4>4
    <3> QED  BY <3>1, <3>2
  <2>10. LastRound'
    BY <1>2, <2>4 DEF RunsInv, Evidence, LastRound, At
  <2>11. HasOutcome'
    BY <1>1, <2>4 DEF RunsInv, HasOutcome
  <2> QED  BY <1>0, <1>2, <2>3, <2>4, <2>6, <2>9, <2>10, <2>11 DEF RunsInv, RunsTypeOK, Evidence
<1> QED  BY <1>3, <1>4 DEF RecordRun

\* The round of a run: written while nobody else sets a status.
LEMMA RecordRoundKeeps ==
    ASSUME RunsInv, NEW c \in Calls, RecordRound(c), ~RoundUnderway
    PROVE  RunsInv'
<1>0. RunsTypeOK
  BY DEF RunsInv
<1>1. /\ call[c] \in Working /\ call[c].step = "recorded"
      /\ call[c].run \in RunIds /\ call[c].outcome \in Outcomes
  <2>1. call[c] \in Working /\ call[c].step = "recorded"
    BY <1>0, AtWork DEF RecordRound, Steps, At
  <2> QED  BY <2>1 DEF Working, RunsInv, HasOutcome
<1> DEFINE entry == [run |-> call[c].run, outcome |-> call[c].outcome]
<1>2. UNCHANGED <<registry, signal, runs, status>> /\ rounds' = Append(rounds, entry)
      /\ Go(c, "rounded")
  BY DEF RecordRound
<1>3. entry \in [run : RunIds, outcome : Outcomes] /\ entry.run = call[c].run
      /\ entry.outcome = call[c].outcome
  BY <1>1
<1> HIDE DEF entry
<1>4. PICK n \in Nat : n = Len(rounds)
  BY <1>0, LenProperties DEF RunsTypeOK
<1>5. /\ rounds' \in Seq([run : RunIds, outcome : Outcomes]) /\ Len(rounds') = n + 1
      /\ \A i \in 1..n : rounds'[i] = rounds[i]
      /\ rounds'[n + 1] = entry
  BY <1>0, <1>2, <1>3, <1>4, AppendProperties DEF RunsTypeOK
<1>6. /\ call' \in [Calls -> {Idle, Over} \cup Working]
      /\ call'[c].step = "rounded" /\ call'[c].outcome = call[c].outcome
      /\ \A k \in Calls \ {c} : call'[k] = call[k]
  BY <1>0, <1>1, <1>2, GoEffect DEF Steps
<1>7. \A i \in 1..(n + 1) : i \in 1..n \/ i = n + 1
  BY <1>4
<1>8. /\ Attests(runs[call[c].run], call[c].outcome)
      /\ \A i \in 1..n : rounds[i].run # call[c].run
      /\ \A k \in Calls : At(k, "recorded") /\ call[k].run = call[c].run => k = c
  BY <1>1, <1>4 DEF RunsInv, Evidence, RowBeforeRound, At
<1>9. RoundsMatchRows'
  <2> SUFFICES ASSUME NEW i \in 1..(n + 1)
               PROVE  Attests(runs'[rounds'[i].run], rounds'[i].outcome)
    BY <1>5 DEF RoundsMatchRows
  <2>1. CASE i \in 1..n
    BY <1>2, <1>4, <1>5, <2>1 DEF RunsInv, Evidence, RoundsMatchRows
  <2>2. CASE i = n + 1
    BY <1>2, <1>3, <1>5, <1>8, <2>2
  <2> QED  BY <1>7, <2>1, <2>2
<1>10. OneRoundPerRun'
  <2> SUFFICES ASSUME NEW i \in 1..(n + 1), NEW j \in 1..(n + 1), rounds'[i].run = rounds'[j].run
               PROVE  i = j
    BY <1>5 DEF OneRoundPerRun
  <2>1. CASE i \in 1..n /\ j \in 1..n
    BY <1>4, <1>5, <2>1 DEF RunsInv, Evidence, OneRoundPerRun
  <2>2. CASE i \in 1..n /\ j = n + 1
    BY <1>3, <1>5, <1>8, <2>2
  <2>3. CASE i = n + 1 /\ j \in 1..n
    BY <1>3, <1>5, <1>8, <2>3
  <2> QED  BY <1>7, <2>1, <2>2, <2>3
<1>11. RowBeforeRound'
  <2> SUFFICES ASSUME NEW k \in Calls, call'[k].step = "recorded"
               PROVE  /\ Attests(runs'[call'[k].run], call'[k].outcome)
                      /\ \A i \in 1..(n + 1) : rounds'[i].run # call'[k].run
                      /\ \A j \in Calls :
                              call'[j].step = "recorded" /\ call'[j].run = call'[k].run => j = k
    BY <1>5 DEF RowBeforeRound, At, NoRun
  <2>1. k # c /\ call'[k] = call[k] /\ At(k, "recorded")
    BY <1>6 DEF At
  <2>2. /\ Attests(runs[call[k].run], call[k].outcome)
        /\ \A i \in 1..n : rounds[i].run # call[k].run
        /\ \A j \in Calls : At(j, "recorded") /\ call[j].run = call[k].run => j = k
    BY <1>4, <2>1 DEF RunsInv, Evidence, RowBeforeRound
  <2>3. call[k].run # call[c].run
    BY <1>8, <2>1
  <2>4. \A i \in 1..(n + 1) : rounds'[i].run # call[k].run
    BY <1>3, <1>5, <1>7, <2>2, <2>3
  <2>5. \A j \in Calls : call'[j].step = "recorded" /\ call'[j].run = call[k].run => j = k
    BY <1>6, <2>2 DEF At
  <2> QED  BY <1>2, <2>1, <2>2, <2>4, <2>5
<1>12. LastRound'
  <2> SUFFICES ASSUME NEW k \in Calls, call'[k].step = "rounded"
               PROVE  n + 1 > 0 /\ rounds'[n + 1].outcome = call'[k].outcome
    BY <1>5 DEF LastRound, At
  <2>1. k = c
    BY <1>6 DEF RoundUnderway, At
  <2> QED  BY <1>3, <1>4, <1>5, <1>6, <2>1
<1>13. HasOutcome'
  BY <1>1, <1>6 DEF RunsInv, HasOutcome
<1> QED  BY <1>0, <1>2, <1>5, <1>6, <1>9, <1>10, <1>11, <1>12, <1>13
         DEF RunsInv, RunsTypeOK, Evidence

\* The application stops: no call is left that would write a round.
LEMMA LostKeeps ==
    ASSUME RunsInv, CommandsLost, status' \in Statuses PROVE RunsInv'
<1>1. /\ UNCHANGED <<runs, rounds>>
      /\ registry' \in [RunIds -> Calls \cup {NoCall}]
      /\ signal' \in [Calls -> {"open", "dropped", "cancelled"}]
  BY DEF CommandsLost
<1>2. /\ call' \in [Calls -> {Idle, Over} \cup Working]
      /\ \A c \in Calls : call'[c] \in {Idle, Over}
  BY DEF CommandsLost, RunsInv, RunsTypeOK, Live
<1>3. \A c \in Calls : call'[c].step \in {"idle", "over"}
  BY <1>2 DEF Idle, Over
<1>4. HasOutcome'
  BY <1>3 DEF HasOutcome
<1>5. Evidence'
  BY <1>1, <1>3, QuietKeeps DEF RunsInv
<1> QED  BY <1>1, <1>2, <1>4, <1>5 DEF RunsInv, RunsTypeOK

LEMMA CancelKeeps ==
    ASSUME RunsInv, NEW r \in RunIds, Cancel(r) PROVE RunsInv'
<1>1. UNCHANGED <<call, runs, rounds, status>>
  BY DEF Cancel
<1>2. /\ registry' \in [RunIds -> Calls \cup {NoCall}]
      /\ signal' \in [Calls -> {"open", "dropped", "cancelled"}]
  BY DEF Cancel, RunsInv, RunsTypeOK
<1>3. HasOutcome' /\ Evidence'
  BY <1>1, QuietKeeps DEF RunsInv, HasOutcome
<1> QED  BY <1>1, <1>2, <1>3 DEF RunsInv, RunsTypeOK

-----------------------------------------------------------------------------
(* The invariant.                                                          *)

LEMMA CommandKeeps ==
    ASSUME RunsInv, Command PROVE RunsInv'
<1>1. ASSUME NEW c \in Calls, (StoreFree /\ Started(c)) \/ Exit(c) \/ Drain(c) \/ Proceed(c)
      PROVE  RunsInv'
  <2>1. \/ Quiet(c)
        \/ RecordRun(c)
        \/ ~RoundUnderway /\ RecordRound(c)
    BY <1>1 DEF Quiet, Started, Proceed, StoreFree
  <2> QED  BY <2>1, QuietStep, RecordRunKeeps, RecordRoundKeeps
<1> QED  BY <1>1, CancelKeeps DEF Command

LEMMA InvInit == Init => IInv
<1> SUFFICES ASSUME Init PROVE IInv
  OBVIOUS
<1>1. << >> \in Seq([run : RunIds, outcome : Outcomes]) /\ Len(<< >>) = 0
  BY EmptySeq
<1>2. TypeOK
  BY <1>1 DEF Init, RunsInit, TypeOK, RunsTypeOK, Statuses
<1>3. \A c \in Calls : call[c].step = "idle"
  BY DEF Init, RunsInit, Idle
<1>4. RoundsMatchRows /\ OneRoundPerRun
  BY <1>1 DEF Init, RunsInit, RoundsMatchRows, OneRoundPerRun
<1>5. HasOutcome /\ RowBeforeRound /\ LastRound
  BY <1>3 DEF HasOutcome, RowBeforeRound, LastRound, At
<1> QED  BY <1>2, <1>4, <1>5 DEF IInv, Evidence

\* What a startup may leave of a task.
LEMMA RecoverType ==
    ASSUME TypeOK, Recover
    PROVE  /\ status' \in Statuses
           /\ session' \in Phases \cup {"none", "needs_intervention"}
           /\ recoveries' \subseteq [resource : RunIds \cup {"session", "task"}, confirm : BOOLEAN]
<1>1. \A u \in Statuses : Marked(u) \in Statuses
  BY DEF Marked, Statuses
<1>2. status \in Statuses
  BY DEF TypeOK, RunsTypeOK
<1>3. status' \in Statuses
  BY <1>1, <1>2 DEF Recover
<1>4. session' \in Phases \cup {"none", "needs_intervention"}
  BY DEF Recover, TypeOK
<1> DEFINE Entries == [resource : RunIds \cup {"session", "task"}, confirm : BOOLEAN]
<1>5. \A r \in RunIds \cup {"session", "task"}, b \in BOOLEAN : Entry(r, b) \in Entries
  BY DEF Entry
<1>6. Interrupted \subseteq RunIds
  BY DEF Interrupted
<1>7. recoveries \cup ResourceEntries \subseteq Entries
  BY <1>5, <1>6 DEF ResourceEntries, TypeOK
<1>8. \A b \in BOOLEAN : {Entry("task", b)} \subseteq Entries
  BY <1>5
<1> DEFINE marked == IF ResourceEntries # {} THEN Marked(status) ELSE status
<1>9. \/ recoveries' = recoveries \cup ResourceEntries
      \/ recoveries' = (recoveries \cup ResourceEntries) \cup {Entry("task", marked \in Dangerous)}
  BY DEF Recover
<1>10. (marked \in Dangerous) \in BOOLEAN
  OBVIOUS
<1> HIDE DEF Entries, marked
<1>11. recoveries' \subseteq Entries
  BY <1>7, <1>8, <1>9, <1>10
<1> QED  BY <1>3, <1>4, <1>11 DEF Entries

LEMMA InvNext == IInv /\ [Next]_vars => IInv'
<1> SUFFICES ASSUME IInv, [Next]_vars PROVE IInv'
  OBVIOUS
<1>0. RunsInv /\ TypeOK
  BY DEF IInv, RunsInv, TypeOK
<1>1. CASE Command /\ UNCHANGED recoveryVars
  BY <1>0, <1>1, CommandKeeps DEF IInv, RunsInv, TypeOK, recoveryVars
<1>2. ASSUME NEW phase \in Phases, SyncTask(phase) PROVE IInv'
  <2>1. UNCHANGED <<call, registry, signal, runs, rounds, session, recoveries, restarts>>
        /\ agent' = phase /\ syncing' = phase /\ status' = TaskStatus(phase)
    BY <1>2 DEF SyncTask
  <2>2. TypeOK'
    BY <1>0, <1>2, <2>1, StatusType DEF TypeOK, RunsTypeOK
  <2>3. HasOutcome' /\ Evidence'
    BY <1>0, <2>1, QuietKeeps DEF RunsInv, HasOutcome
  <2> QED  BY <2>2, <2>3 DEF IInv
<1>3. CASE SyncSession
  <2>1. UNCHANGED <<call, registry, signal, runs, rounds, status, agent, recoveries, restarts>>
        /\ session' = syncing /\ syncing' = "none" /\ syncing # "none"
    BY <1>3 DEF SyncSession, runVars
  <2>2. TypeOK'
    BY <1>0, <2>1 DEF TypeOK, RunsTypeOK
  <2>3. HasOutcome' /\ Evidence'
    BY <1>0, <2>1, QuietKeeps DEF RunsInv, HasOutcome
  <2> QED  BY <2>2, <2>3 DEF IInv
<1>4. CASE Restart
  <2>1. /\ status' \in Statuses /\ session' \in Phases \cup {"none", "needs_intervention"}
        /\ recoveries' \subseteq [resource : RunIds \cup {"session", "task"}, confirm : BOOLEAN]
    BY <1>0, <1>4, RecoverType DEF Restart
  <2>2. RunsInv'
    BY <1>0, <1>4, <2>1, LostKeeps DEF Restart
  <2>3. TypeOK'
    BY <1>0, <1>4, <2>1, <2>2 DEF Restart, TypeOK, RunsInv
  <2> QED  BY <2>2, <2>3 DEF IInv, RunsInv
<1>5. CASE UNCHANGED vars
  BY <1>5 DEF vars, runVars, IInv, TypeOK, RunsTypeOK, HasOutcome, Evidence, RoundsMatchRows,
              OneRoundPerRun, RowBeforeRound, LastRound, At
<1> QED  BY <1>1, <1>2, <1>3, <1>4, <1>5 DEF Next

LEMMA InvAlways == Spec => []IInv
BY InvInit, InvNext, PTL DEF Spec

\* The tables and the calls keep their types.
THEOREM TypeCorrect == Spec => []TypeOK
<1>1. IInv => TypeOK
  BY DEF IInv
<1> QED  BY <1>1, InvAlways, PTL

\* Every validation round stands for the recorded run of a validation, says
\* what its row says, and is the only one for that run, whatever ids the
\* callers choose and wherever the application stops.
THEOREM RoundsStandForRuns == Spec => []RoundsAreEvidence
<1>1. IInv => RoundsAreEvidence
  <2> SUFFICES ASSUME IInv PROVE RoundsAreEvidence
    OBVIOUS
  <2>1. DOMAIN rounds = 1..Len(rounds)
    BY LenProperties DEF IInv, TypeOK, RunsTypeOK
  <2> QED  BY <2>1, Zenon DEF IInv, Evidence, RoundsMatchRows, OneRoundPerRun, Attests,
                              RoundsAreEvidence
<1> QED  BY <1>1, InvAlways, PTL

\* A task becomes ready to merge by the Agent's word or by the round that was
\* written just before, and by no startup.
THEOREM ReadyByAPass == Spec => MadeReadyByAPass
<1> DEFINE Earned == status' = "readyToMerge" /\ status # "readyToMerge" =>
                        \/ syncing' = "completed"
                        \/ rounds # <<>> /\ rounds[Len(rounds)].outcome = "passed"
<1>1. IInv /\ [Next]_vars => [Earned]_vars
  <2> SUFFICES ASSUME IInv, Next, status' = "readyToMerge", status # "readyToMerge"
               PROVE  \/ syncing' = "completed"
                      \/ rounds # <<>> /\ rounds[Len(rounds)].outcome = "passed"
    OBVIOUS
  <2>1. ASSUME NEW c \in Calls, SetStatus(c)
        PROVE  rounds # <<>> /\ rounds[Len(rounds)].outcome = "passed"
    <3>1. call[c].outcome = "passed"
      BY <2>1 DEF SetStatus, StatusAfter
    <3>2. Len(rounds) > 0 /\ rounds[Len(rounds)].outcome = call[c].outcome
      BY <2>1 DEF SetStatus, IInv, Evidence, LastRound
    <3> QED  BY <3>1, <3>2, EmptySeq
  <2>2. ASSUME NEW phase \in Phases, SyncTask(phase) PROVE syncing' = "completed"
    BY <2>2 DEF SyncTask, TaskStatus
  <2>3. ~Restart
    BY DEF Restart, Recover, Marked, Terminal
  <2>4. ASSUME NEW c \in Calls, (StoreFree /\ Started(c)) \/ Exit(c) \/ Drain(c) \/ Proceed(c)
        PROVE  SetStatus(c)
    BY <2>4 DEF Started, Begin, Exit, Stop, Proceed, Register, Spawn, SpawnFails, Cancelled,
                TimeOut, Drain, RecordRun, RecordRound
  <2> QED  BY <2>1, <2>2, <2>3, <2>4 DEF Next, Command, Cancel, SyncSession, runVars
<1> QED  BY <1>1, InvAlways, PTL DEF Spec, MadeReadyByAPass

\* A startup leaves no task at work with nobody working on it, and explains
\* what it stops (recover_interrupted_runtime).
THEOREM StartupExplains == Spec => InterruptedIsExplained
<1> DEFINE Explained == restarts' # restarts /\ recoveries = {} =>
          /\ status' \in Terminal \cup {"awaitingApproval", "needsIntervention", "readyToMerge"}
          /\ session' \notin Phases \ {"completed", "failed", "cancelled",
                                      "needs_intervention", "waiting_approval"}
          /\ status' # status => recoveries' # {}
<1>1. IInv /\ [Next]_vars => [Explained]_vars
  <2> SUFFICES ASSUME IInv, Next, restarts' # restarts, recoveries = {}
               PROVE  /\ status' \in Terminal \cup {"awaitingApproval", "needsIntervention",
                                                    "readyToMerge"}
                      /\ session' \notin Phases \ {"completed", "failed", "cancelled",
                                                  "needs_intervention", "waiting_approval"}
                      /\ status' # status => recoveries' # {}
    OBVIOUS
  <2>1. Restart
    BY DEF Next, recoveryVars, SyncTask, SyncSession
  <2>2. Recover /\ status \in Statuses
    BY <2>1 DEF Restart, IInv, TypeOK, RunsTypeOK
  <2>3. session' \notin Phases \ {"completed", "failed", "cancelled",
                                 "needs_intervention", "waiting_approval"}
    BY <2>2, RecoveryAssumption DEF Recover, SessionInterrupted
  <2>4. CASE ResourceEntries # {}
    <3>1. Marked(status) \in Terminal \cup {"awaitingApproval", "needsIntervention"}
      BY DEF Marked
    <3>2. Marked(status) \notin Dangerous \cup Resumable
      BY <3>1 DEF Terminal, Dangerous, Resumable
    <3>3. status' = Marked(status) /\ recoveries' # {}
      BY <2>2, <2>4, <3>2 DEF Recover
    <3> QED  BY <2>3, <3>1, <3>3
  <2>5. CASE ResourceEntries = {}
    <3>1. CASE status \in Dangerous \cup Resumable
      <4>1. status' = Marked(status) /\ recoveries' # {}
        BY <2>2, <2>5, <3>1 DEF Recover
      <4> QED  BY <2>3, <4>1 DEF Marked
    <3>2. CASE status \notin Dangerous \cup Resumable
      <4>1. status' = status
        BY <2>2, <2>5, <3>2 DEF Recover
      <4>2. status \in Terminal \cup {"awaitingApproval", "needsIntervention", "readyToMerge"}
        BY <2>2, <3>2 DEF Statuses, Dangerous, Resumable, Terminal
      <4> QED  BY <2>3, <4>1, <4>2
    <3> QED  BY <3>1, <3>2
  <2> QED  BY <2>4, <2>5
<1> QED  BY <1>1, InvAlways, PTL DEF Spec, InterruptedIsExplained

-----------------------------------------------------------------------------
(* File edits.                                                             *)

Rows ==
    [status : Open \cup Settled, ops : Seq(Operation), saved : Seq(Contents \cup {Missing}),
     applied : Nat]

Works == [mode : {"forward", "execute", "failed", "back"}, at : Nat]

EditsTypeOK ==
    /\ files \in Worktrees
    /\ row \in [Requests -> {NoRow} \cup Rows]
    /\ work \in [Requests -> {NoWork, Abandoned} \cup Works]
    /\ process \in {"up", "down", "recovering"}
    /\ crashes \in Nat
    /\ before \in [Requests -> {NoFiles} \cup Worktrees]
    /\ late \in [Requests -> SUBSET Nat]

IsOpen(r) == row[r].status \in Open

\* Of the operations of a request those in D are made, and no other: fs are
\* the files, as far as they are the request's, and was what they were.
MadeIn(fs, was, ops, D) ==
    /\ \A i \in 1..Len(ops) : i \in D => ~Fails(was, ops[i])
    /\ \A i \in 1..Len(ops) : \A p \in PathsOf(ops[i]) :
          fs[p] = IF i \in D THEN Executed(was, ops[i])[p] ELSE was[p]

Made(r, D) == MadeIn(files, before[r], row[r].ops, D)

MadeWithin(r, S) == \E D \in SUBSET S : Made(r, D)

\* What a row says of its request: how far it may have got.  At most one
\* operation has failed after its effect.
AsRecorded(r) ==
    /\ before[r] \in Worktrees
    /\ row[r].ops \in Proposed(r, before[r])
    /\ Snapshots(before[r], row[r].ops) /\ row[r].saved = Saved(before[r], row[r].ops)
    /\ row[r].applied <= Len(row[r].ops)
    /\ late[r] = {} \/ \E i \in 1..row[r].applied : late[r] = {i}
    /\ MadeWithin(r, 1..row[r].applied)

\* Where the thread is that handles it.
ThreadInv(r) ==
    /\ Is(r, "forward") => /\ work[r].at = row[r].applied + 1
                           /\ late[r] = {} /\ Made(r, 1..row[r].applied)
    /\ Is(r, "execute") => /\ work[r].at = row[r].applied /\ work[r].at > 0
                           /\ late[r] = {} /\ Made(r, 1..(work[r].at - 1))
    /\ Is(r, "failed") => /\ work[r].at = row[r].applied /\ work[r].at > 0
                          /\ MadeWithin(r, (1..(work[r].at - 1)) \cup late[r])
    /\ Is(r, "back") => /\ work[r].at <= row[r].applied
                        /\ MadeWithin(r, (1..work[r].at) \cup late[r])

RequestInv(r) ==
    /\ row[r] # NoRow => \E fs \in Worktrees : row[r].ops \in Proposed(r, fs)
    /\ row[r] = NoRow => late[r] = {}
    /\ IsOpen(r) => AsRecorded(r) /\ ThreadInv(r)
    /\ ~IsOpen(r) => work[r] = NoWork

EditsInv == EditsTypeOK /\ \A r \in Requests : RequestInv(r)

-----------------------------------------------------------------------------
(* What operations do to a worktree.                                       *)

LEMMA OperationFields ==
    ASSUME NEW op \in Operation
    PROVE  /\ op.kind \in {"create", "update", "delete", "rename"}
           /\ op.path \in Paths
           /\ op.kind \in {"create", "update"} => op.content \in Contents
           /\ op.kind = "rename" => op.destination \in Paths
           /\ PathsOf(op) \subseteq Paths
<1>1. CASE op \in [kind : {"create", "update"}, path : Paths, content : Contents]
  BY <1>1 DEF PathsOf
<1>2. CASE op \in [kind : {"delete"}, path : Paths]
  BY <1>2 DEF PathsOf
<1>3. CASE op \in [kind : {"rename"}, path : Paths, destination : Paths]
  BY <1>3 DEF PathsOf
<1> QED  BY <1>1, <1>2, <1>3 DEF Operation

\* An operation depends on its own paths, and changes no other.
LEMMA ExecutedLocal ==
    ASSUME NEW op \in Operation, NEW fs \in Worktrees
    PROVE  /\ Executed(fs, op) \in Worktrees
           /\ \A p \in Paths \ PathsOf(op) : Executed(fs, op)[p] = fs[p]
           /\ \A gs \in Worktrees : (\A p \in PathsOf(op) : fs[p] = gs[p]) =>
                 /\ Fails(fs, op) = Fails(gs, op)
                 /\ \A p \in PathsOf(op) : Executed(fs, op)[p] = Executed(gs, op)[p]
<1>0. USE OperationFields
<1>1. CASE op.kind \in {"create", "update"}
  <2>1. Executed(fs, op) = [fs EXCEPT ![op.path] = op.content]
    BY <1>1 DEF Executed
  <2>2. \A gs \in Worktrees : Executed(gs, op) = [gs EXCEPT ![op.path] = op.content]
    BY <1>1 DEF Executed
  <2>3. PathsOf(op) = {op.path}
    BY <1>1 DEF PathsOf
  <2> QED  BY <1>1, <2>1, <2>2, <2>3 DEF Worktrees, Fails
<1>2. CASE op.kind = "delete"
  <2>1. Executed(fs, op) = [fs EXCEPT ![op.path] = Missing]
    BY <1>2 DEF Executed
  <2>2. \A gs \in Worktrees : Executed(gs, op) = [gs EXCEPT ![op.path] = Missing]
    BY <1>2 DEF Executed
  <2>3. PathsOf(op) = {op.path}
    BY <1>2 DEF PathsOf
  <2> QED  BY <1>2, <2>1, <2>2, <2>3 DEF Worktrees, Fails
<1>3. CASE op.kind = "rename"
  <2>1. \A gs \in Worktrees :
           Executed(gs, op) = [gs EXCEPT ![op.path] = Missing, ![op.destination] = gs[op.path]]
    BY <1>3 DEF Executed
  <2>2. PathsOf(op) = {op.path, op.destination}
    BY <1>3 DEF PathsOf
  <2>3. Executed(fs, op) = [fs EXCEPT ![op.path] = Missing, ![op.destination] = fs[op.path]]
    BY <2>1
  <2>4. /\ Executed(fs, op) \in Worktrees
        /\ \A p \in Paths \ PathsOf(op) : Executed(fs, op)[p] = fs[p]
    BY <1>3, <2>2, <2>3 DEF Worktrees
  <2>5. ASSUME NEW gs \in Worktrees, \A p \in PathsOf(op) : fs[p] = gs[p]
        PROVE  /\ Fails(fs, op) = Fails(gs, op)
               /\ \A p \in PathsOf(op) : Executed(fs, op)[p] = Executed(gs, op)[p]
    <3>1. fs[op.path] = gs[op.path] /\ fs[op.destination] = gs[op.destination]
      BY <2>2, <2>5
    <3>2. Executed(gs, op) = [gs EXCEPT ![op.path] = Missing, ![op.destination] = gs[op.path]]
      BY <2>1
    <3>3. Fails(fs, op) = Fails(gs, op)
      BY <1>3, <3>1 DEF Fails
    <3>4. \A p \in PathsOf(op) : Executed(fs, op)[p] = Executed(gs, op)[p]
      BY <1>3, <2>2, <2>3, <3>1, <3>2 DEF Worktrees
    <3> QED  BY <3>3, <3>4
  <2> QED  BY <2>4, <2>5
<1> QED  BY <1>1, <1>2, <1>3

LEMMA CompensatedLocal ==
    ASSUME NEW op \in Operation, NEW fs \in Worktrees, NEW old \in Contents \cup {Missing}
    PROVE  /\ Compensated(fs, op, old) \in Worktrees
           /\ \A p \in Paths \ PathsOf(op) : Compensated(fs, op, old)[p] = fs[p]
<1>0. USE OperationFields
<1>1. CASE Undone(fs, op, old)
  BY <1>1 DEF Compensated
<1>2. CASE ~Undone(fs, op, old) /\ op.kind = "create"
  <2>1. Compensated(fs, op, old) = [fs EXCEPT ![op.path] = Missing]
    BY <1>2 DEF Compensated
  <2> QED  BY <1>2, <2>1 DEF Worktrees, PathsOf
<1>3. CASE ~Undone(fs, op, old) /\ op.kind = "rename"
  <2>1. Compensated(fs, op, old) =
           [fs EXCEPT ![op.destination] = Missing, ![op.path] = fs[op.destination]]
    BY <1>3 DEF Compensated
  <2> QED  BY <1>3, <2>1 DEF Worktrees, PathsOf
<1>4. CASE ~Undone(fs, op, old) /\ op.kind \in {"update", "delete"}
  <2>1. Compensated(fs, op, old) = [fs EXCEPT ![op.path] = old]
    BY <1>4 DEF Compensated
  <2> QED  BY <1>4, <2>1 DEF Worktrees, PathsOf
<1> QED  BY <1>1, <1>2, <1>3, <1>4

\* Undoing an operation that was made gives the files as they were before it;
\* undoing one that was not is a conflict, or changes nothing.
LEMMA Undoing ==
    ASSUME NEW op \in Operation, NEW fs \in Worktrees, NEW was \in Worktrees,
           OwnWork(was, op), op.kind \in {"update", "delete"} => was[op.path] # Missing
    PROVE  /\ ~Fails(was, op) /\ (\A p \in PathsOf(op) : fs[p] = Executed(was, op)[p])
                => \A p \in PathsOf(op) : Compensated(fs, op, was[op.path])[p] = was[p]
           /\ (\A p \in PathsOf(op) : fs[p] = was[p]) /\ ~Conflict(fs, op, was[op.path])
                => Compensated(fs, op, was[op.path]) = fs
<1>0. USE OperationFields, EditAssumption
<1>1. CASE op.kind = "create"
  <2>1. Executed(was, op) = [was EXCEPT ![op.path] = op.content] /\ PathsOf(op) = {op.path}
    BY <1>1 DEF Executed, PathsOf
  <2> QED  BY <1>1, <2>1 DEF Worktrees, Fails, Compensated, Undone, Undoable, Conflict, OwnWork
<1>2. CASE op.kind = "update"
  <2>1. Executed(was, op) = [was EXCEPT ![op.path] = op.content] /\ PathsOf(op) = {op.path}
    BY <1>2 DEF Executed, PathsOf
  <2> QED  BY <1>2, <2>1 DEF Worktrees, Fails, Compensated, Undone, Undoable, Conflict, OwnWork
<1>3. CASE op.kind = "delete"
  <2>1. Executed(was, op) = [was EXCEPT ![op.path] = Missing] /\ PathsOf(op) = {op.path}
    BY <1>3 DEF Executed, PathsOf
  <2> QED  BY <1>3, <2>1 DEF Worktrees, Fails, Compensated, Undone, Undoable, Conflict, OwnWork
<1>4. CASE op.kind = "rename"
  <2>1. /\ Executed(was, op) = [was EXCEPT ![op.path] = Missing, ![op.destination] = was[op.path]]
        /\ PathsOf(op) = {op.path, op.destination}
        /\ op.path # op.destination /\ was[op.path] # Missing
    BY <1>4 DEF Executed, PathsOf, OwnWork
  <2>2. ASSUME ~Fails(was, op), \A p \in PathsOf(op) : fs[p] = Executed(was, op)[p]
        PROVE  \A p \in PathsOf(op) : Compensated(fs, op, was[op.path])[p] = was[p]
    <3>1. was[op.destination] = Missing
      BY <1>4, <2>2 DEF Fails
    <3>2. fs[op.path] = Missing /\ fs[op.destination] = was[op.path]
      BY <1>4, <2>1, <2>2 DEF Worktrees
    <3>3. Compensated(fs, op, was[op.path]) =
             [fs EXCEPT ![op.destination] = Missing, ![op.path] = fs[op.destination]]
      BY <1>4, <3>2 DEF Compensated, Undone
    <3> QED  BY <1>4, <2>1, <3>1, <3>2, <3>3 DEF Worktrees
  <2>3. (\A p \in PathsOf(op) : fs[p] = was[p]) /\ ~Conflict(fs, op, was[op.path])
            => Compensated(fs, op, was[op.path]) = fs
    BY <1>4, <2>1 DEF Compensated, Undone, Undoable, Conflict
  <2> QED  BY <2>2, <2>3
<1> QED  BY <1>1, <1>2, <1>3, <1>4

-----------------------------------------------------------------------------
(* What a whole request does (After): the least operation where the claim  *)
(* failed would follow one where it holds.                                 *)

LEMMA LeastNumber ==
    ASSUME NEW S \in SUBSET Nat, S # {}
    PROVE  \E n \in S : \A m \in S : n <= m
<1> DEFINE R == OpToRel(<, Nat)
<1>1. IsWellFoundedOn(R, Nat)
  BY NatLessThanWellFounded
<1> HIDE DEF R
<1>2. PICK n \in S : \A m \in S : <<m, n>> \notin R
  BY <1>1, WFMin
<1>3. \A m \in S : ~(m < n)
  BY <1>2 DEF R, OpToRel
<1> QED  BY <1>3

\* The worktrees that the first n operations pass through.
Passes(g, fs, ops, n) ==
    g = [i \in 0..n |-> IF i = 0 THEN fs ELSE Executed(g[i - 1], ops[i])]

LEMMA PassesThrough ==
    ASSUME NEW fs, NEW ops, NEW n \in Nat
    PROVE  \E g : Passes(g, fs, ops, n)
<1> DEFINE S == {k \in Nat : ~\E g : Passes(g, fs, ops, k)}
<1>1. ASSUME S # {} PROVE FALSE
  <2>1. PICK k \in S : \A m \in S : k <= m
    BY <1>1, LeastNumber
  <2>2. k # 0
    <3>1. Passes([i \in 0..0 |-> fs], fs, ops, 0)
      BY DEF Passes
    <3> QED  BY <2>1, <3>1
  <2>3. k - 1 \in Nat /\ k - 1 \notin S
    BY <2>1, <2>2
  <2>4. PICK g : Passes(g, fs, ops, k - 1)
    BY <2>3
  <2> DEFINE h == [i \in 0..k |-> IF i = k THEN Executed(g[k - 1], ops[k]) ELSE g[i]]
  <2>5. \A i \in 0..k : h[i] = IF i = 0 THEN fs ELSE Executed(h[i - 1], ops[i])
    <3> TAKE i \in 0..k
    <3>1. CASE i = k
      BY <2>2, <2>3, <3>1
    <3>2. CASE i # k
      <4>1. g[i] = IF i = 0 THEN fs ELSE Executed(g[i - 1], ops[i])
        BY <2>3, <2>4, <3>2 DEF Passes
      <4>2. h[i] = g[i] /\ (i # 0 => h[i - 1] = g[i - 1])
        BY <2>3, <3>2
      <4> QED  BY <4>1, <4>2
    <3> QED  BY <3>1, <3>2
  <2>6. h = [i \in 0..k |-> h[i]]
    OBVIOUS
  <2> HIDE DEF h
  <2>7. Passes(h, fs, ops, k)
    BY <2>5, <2>6 DEF Passes
  <2> QED  BY <2>1, <2>7
<1> QED  BY <1>1

\* Of operations that use each path once, every one does to its own paths what
\* it would do alone.
LEMMA AfterEach ==
    ASSUME NEW fs \in Worktrees, NEW ops \in Seq(Operation), PathsUsedOnce(ops)
    PROVE  /\ After(fs, ops) \in Worktrees
           /\ \A p \in Paths \ Touched(ops) : After(fs, ops)[p] = fs[p]
           /\ \A i \in 1..Len(ops) : \A p \in PathsOf(ops[i]) :
                 After(fs, ops)[p] = Executed(fs, ops[i])[p]
<1>0. Len(ops) \in Nat /\ \A i \in 1..Len(ops) : ops[i] \in Operation /\ DOMAIN ops = 1..Len(ops)
  OBVIOUS
<1>1. PICK g : Passes(g, fs, ops, Len(ops)) /\ After(fs, ops) = g[Len(ops)]
  <2>1. \E g : Passes(g, fs, ops, Len(ops))
    BY <1>0, PassesThrough
  <2> QED  BY <2>1 DEF Passes, After
<1> DEFINE Done(n) ==
      /\ g[n] \in Worktrees
      /\ \A p \in Paths : (\A i \in 1..n : p \notin PathsOf(ops[i])) => g[n][p] = fs[p]
      /\ \A i \in 1..n : \A p \in PathsOf(ops[i]) : g[n][p] = Executed(fs, ops[i])[p]
<1> DEFINE S == {n \in 0..Len(ops) : ~Done(n)}
<1>2. Done(0)
  <2>1. g[0] = fs
    BY <1>0, <1>1 DEF Passes
  <2> QED  BY <2>1
<1>3. ASSUME NEW n \in 1..Len(ops), Done(n - 1) PROVE Done(n)
  <2>1. g[n] = Executed(g[n - 1], ops[n])
    BY <1>0, <1>1 DEF Passes
  <2>2. g[n - 1] \in Worktrees /\ ops[n] \in Operation /\ PathsOf(ops[n]) \subseteq Paths
    BY <1>0, <1>3, OperationFields
  <2>3. \A i \in 1..(n - 1) : PathsOf(ops[i]) \cap PathsOf(ops[n]) = {}
    BY <1>0 DEF PathsUsedOnce
  <2>4. \A p \in PathsOf(ops[n]) : g[n - 1][p] = fs[p]
    BY <1>3, <2>2, <2>3
  <2>5. \A p \in PathsOf(ops[n]) : g[n][p] = Executed(fs, ops[n])[p]
    BY <2>1, <2>2, <2>4, ExecutedLocal
  <2>6. g[n] \in Worktrees /\ \A p \in Paths \ PathsOf(ops[n]) : g[n][p] = g[n - 1][p]
    BY <2>1, <2>2, ExecutedLocal
  <2>7. \A p \in Paths : (\A i \in 1..n : p \notin PathsOf(ops[i])) => g[n][p] = fs[p]
    <3> SUFFICES ASSUME NEW p \in Paths, \A i \in 1..n : p \notin PathsOf(ops[i])
                 PROVE  g[n][p] = fs[p]
      OBVIOUS
    <3>1. \A i \in 1..(n - 1) : p \notin PathsOf(ops[i])
      BY <1>0
    <3> QED  BY <1>3, <2>6, <3>1
  <2>8. \A i \in 1..n : \A p \in PathsOf(ops[i]) : g[n][p] = Executed(fs, ops[i])[p]
    <3> SUFFICES ASSUME NEW i \in 1..n, NEW p \in PathsOf(ops[i])
                 PROVE  g[n][p] = Executed(fs, ops[i])[p]
      OBVIOUS
    <3>1. CASE i = n
      BY <2>5, <3>1
    <3>2. CASE i # n
      <4>1. i \in 1..(n - 1) /\ i \in 1..Len(ops)
        BY <1>0, <3>2
      <4>2. p \in Paths \ PathsOf(ops[n])
        BY <1>0, <2>3, <4>1, OperationFields
      <4> QED  BY <1>3, <2>6, <4>1, <4>2
    <3> QED  BY <3>1, <3>2
  <2> QED  BY <2>6, <2>7, <2>8
<1> HIDE DEF Done
<1>4. S = {}
  <2> SUFFICES ASSUME S # {} PROVE FALSE
    OBVIOUS
  <2>1. PICK n \in S : \A m \in S : n <= m
    <3>1. S \in SUBSET Nat
      OBVIOUS
    <3> QED  BY <3>1, LeastNumber
  <2>2. n \in 1..Len(ops) /\ n - 1 \in 0..Len(ops) /\ n - 1 \notin S
    BY <1>0, <1>2, <2>1
  <2> QED  BY <1>3, <2>2
<1>5. Done(Len(ops))
  BY <1>0, <1>4
<1> QED  BY <1>0, <1>1, <1>5 DEF Done, Touched

-----------------------------------------------------------------------------
(* The steps of one request.                                               *)

\* What SeparateEdits says of the operations of one request.
Separate(ops) == ops \in Seq(Operation) /\ ops # <<>> /\ PathsUsedOnce(ops)

LEMMA SeparateFacts ==
    ASSUME NEW ops, Separate(ops)
    PROVE  /\ Len(ops) \in Nat /\ DOMAIN ops = 1..Len(ops) /\ Len(ops) > 0
           /\ \A i \in 1..Len(ops) : /\ ops[i] \in Operation
                                     /\ PathsOf(ops[i]) \subseteq Touched(ops)
           /\ \A i, j \in 1..Len(ops) : i # j => PathsOf(ops[i]) \cap PathsOf(ops[j]) = {}
           /\ Touched(ops) \subseteq Paths
<1>1. /\ Len(ops) \in Nat /\ DOMAIN ops = 1..Len(ops) /\ Len(ops) > 0
      /\ \A i \in 1..Len(ops) : ops[i] \in Operation
  BY DEF Separate
<1> QED  BY <1>1, OperationFields DEF Separate, PathsUsedOnce, Touched

LEMMA MadeElsewhere ==
    ASSUME NEW ops, NEW fs, NEW gs, NEW was, NEW D,
           Separate(ops), \A p \in Touched(ops) : gs[p] = fs[p], MadeIn(fs, was, ops, D)
    PROVE  MadeIn(gs, was, ops, D)
BY SeparateFacts DEF MadeIn

LEMMA MadeNext ==
    ASSUME NEW ops, Separate(ops), NEW fs \in Worktrees, NEW was \in Worktrees,
           NEW k \in 1..Len(ops), NEW D, k \notin D, MadeIn(fs, was, ops, D)
    PROVE  /\ Fails(fs, ops[k]) = Fails(was, ops[k])
           /\ ~Fails(fs, ops[k]) => MadeIn(Executed(fs, ops[k]), was, ops, D \cup {k})
<1>1. /\ Len(ops) \in Nat /\ k \in Nat /\ ops[k] \in Operation
      /\ \A i \in 1..Len(ops) : PathsOf(ops[i]) \subseteq Paths
  BY SeparateFacts
<1>2. \A p \in PathsOf(ops[k]) : fs[p] = was[p]
  BY <1>1 DEF MadeIn
<1>3. /\ Fails(fs, ops[k]) = Fails(was, ops[k])
      /\ \A p \in PathsOf(ops[k]) : Executed(fs, ops[k])[p] = Executed(was, ops[k])[p]
      /\ \A p \in Paths \ PathsOf(ops[k]) : Executed(fs, ops[k])[p] = fs[p]
  BY <1>1, <1>2, ExecutedLocal
<1>4. ASSUME ~Fails(fs, ops[k]) PROVE MadeIn(Executed(fs, ops[k]), was, ops, D \cup {k})
  <2>1. \A i \in 1..Len(ops) : i \in D \cup {k} => ~Fails(was, ops[i])
    BY <1>1, <1>3, <1>4 DEF MadeIn
  <2>2. ASSUME NEW i \in 1..Len(ops), NEW p \in PathsOf(ops[i])
        PROVE  Executed(fs, ops[k])[p]
                  = IF i \in D \cup {k} THEN Executed(was, ops[i])[p] ELSE was[p]
    <3>1. CASE i = k
      BY <1>3, <2>2, <3>1
    <3>2. CASE i # k
      <4>1. p \in Paths \ PathsOf(ops[k])
        BY <1>1, <2>2, <3>2, SeparateFacts
      <4>2. fs[p] = IF i \in D THEN Executed(was, ops[i])[p] ELSE was[p]
        BY <2>2 DEF MadeIn
      <4> QED  BY <1>1, <1>3, <3>2, <4>1, <4>2
    <3> QED  BY <3>1, <3>2
  <2> QED  BY <2>1, <2>2 DEF MadeIn
<1> QED  BY <1>3, <1>4

\* Undoing the k-th of the operations leaves the others as they are.
LEMMA MadeBack ==
    ASSUME NEW ops, Separate(ops), NEW fs \in Worktrees, NEW was \in Worktrees,
           NEW k \in 1..Len(ops), NEW D, MadeIn(fs, was, ops, D),
           Snapshots(was, ops), OwnWork(was, ops[k]),
           ~Conflict(fs, ops[k], was[ops[k].path])
    PROVE  MadeIn(Compensated(fs, ops[k], was[ops[k].path]), was, ops, D \ {k})
<1> DEFINE gs == Compensated(fs, ops[k], was[ops[k].path])
<1>1. /\ Len(ops) \in Nat /\ k \in Nat /\ ops[k] \in Operation
      /\ DOMAIN ops = 1..Len(ops)
      /\ \A i \in 1..Len(ops) : PathsOf(ops[i]) \subseteq Paths
  BY SeparateFacts
<1>2. ops[k].kind \in {"update", "delete"} => was[ops[k].path] # Missing
  BY <1>1 DEF Snapshots
<1>3. was[ops[k].path] \in Contents \cup {Missing}
  BY <1>1, OperationFields DEF Worktrees
<1>4. CASE k \in D
  <2>1. \A p \in PathsOf(ops[k]) : gs[p] = was[p]
    <3>1. ~Fails(was, ops[k]) /\ \A p \in PathsOf(ops[k]) : fs[p] = Executed(was, ops[k])[p]
      BY <1>1, <1>4 DEF MadeIn
    <3> QED  BY <1>1, <1>2, <3>1, Undoing
  <2>2. \A p \in Paths \ PathsOf(ops[k]) : gs[p] = fs[p]
    BY <1>1, <1>3, CompensatedLocal
  <2> HIDE DEF gs
  <2>3. ASSUME NEW i \in 1..Len(ops), NEW p \in PathsOf(ops[i])
        PROVE  gs[p] = IF i \in D \ {k} THEN Executed(was, ops[i])[p] ELSE was[p]
    <3>1. CASE i = k
      BY <1>1, <2>1, <2>3, <3>1
    <3>2. CASE i # k
      <4>1. p \in Paths \ PathsOf(ops[k])
        BY <1>1, <2>3, <3>2, SeparateFacts
      <4>2. fs[p] = IF i \in D THEN Executed(was, ops[i])[p] ELSE was[p]
        BY <2>3 DEF MadeIn
      <4> QED  BY <2>2, <3>2, <4>1, <4>2
    <3> QED  BY <3>1, <3>2
  <2>4. \A i \in 1..Len(ops) : i \in D \ {k} => ~Fails(was, ops[i])
    BY DEF MadeIn
  <2>5. MadeIn(gs, was, ops, D \ {k})
    BY <2>3, <2>4 DEF MadeIn
  <2> QED  BY <2>5 DEF gs
<1>5. CASE k \notin D
  <2>1. \A p \in PathsOf(ops[k]) : fs[p] = was[p]
    BY <1>1, <1>5 DEF MadeIn
  <2>2. gs = fs
    BY <1>1, <1>2, <2>1, Undoing
  <2>3. \A i \in 1..Len(ops) : i \in D \ {k} <=> i \in D
    BY <1>5
  <2>4. MadeIn(fs, was, ops, D \ {k})
    BY <2>3 DEF MadeIn
  <2> QED  BY <2>2, <2>4
<1> QED  BY <1>4, <1>5

LEMMA RowFacts ==
    ASSUME SeparateEdits, EditsInv, NEW r \in Requests
    PROVE  /\ IsOpen(r) => row[r] # NoRow
           /\ row[r] # NoRow =>
                 /\ row[r] \in Rows /\ Separate(row[r].ops)
                 /\ \A q \in Requests \ {r} :
                       row[q] # NoRow => Touched(row[q].ops) \cap Touched(row[r].ops) = {}
           /\ IsOpen(r) =>
                 /\ before[r] \in Worktrees
                 /\ \A i \in 1..Len(row[r].ops) : OwnWork(before[r], row[r].ops[i])
<1>1. IsOpen(r) => row[r] # NoRow
  BY DEF IsOpen, Open, NoRow
<1>2. row[r] # NoRow => row[r] \in Rows
  BY DEF EditsInv, EditsTypeOK
<1>3. ASSUME row[r] # NoRow PROVE Separate(row[r].ops)
  <2>1. PICK fs \in Worktrees : row[r].ops \in Proposed(r, fs)
    BY <1>3 DEF EditsInv, RequestInv
  <2> QED  BY <2>1 DEF SeparateEdits, Separate
<1>4. ASSUME row[r] # NoRow, NEW q \in Requests \ {r}, row[q] # NoRow
      PROVE  Touched(row[q].ops) \cap Touched(row[r].ops) = {}
  <2>1. PICK fs \in Worktrees : row[r].ops \in Proposed(r, fs)
    BY <1>4 DEF EditsInv, RequestInv
  <2>2. PICK gs \in Worktrees : row[q].ops \in Proposed(q, gs)
    BY <1>4 DEF EditsInv, RequestInv
  <2> QED  BY <2>1, <2>2 DEF SeparateEdits
<1>5. ASSUME IsOpen(r)
      PROVE  /\ before[r] \in Worktrees
             /\ \A i \in 1..Len(row[r].ops) : OwnWork(before[r], row[r].ops[i])
  <2>1. before[r] \in Worktrees /\ row[r].ops \in Proposed(r, before[r])
    BY <1>5 DEF EditsInv, RequestInv, AsRecorded
  <2>2. DOMAIN row[r].ops = 1..Len(row[r].ops)
    BY <1>1, <1>3, <1>5, SeparateFacts
  <2> QED  BY <2>1, <2>2 DEF SeparateEdits
<1> QED  BY <1>1, <1>2, <1>3, <1>4, <1>5

\* A step on one request leaves the others as they are.
LEMMA OneRequest ==
    ASSUME SeparateEdits, EditsInv, NEW r \in Requests, EditsTypeOK', RequestInv(r)',
           \A q \in Requests \ {r} : /\ row'[q] = row[q] /\ work'[q] = work[q]
                                     /\ before'[q] = before[q] /\ late'[q] = late[q],
           \A p \in Paths :
              files'[p] # files[p] => row[r] # NoRow /\ p \in Touched(row[r].ops)
    PROVE  EditsInv'
<1> SUFFICES ASSUME NEW q \in Requests, q # r PROVE RequestInv(q)'
  BY DEF EditsInv
<1>0. RequestInv(q)
  BY DEF EditsInv
<1>1. row'[q] = row[q] /\ work'[q] = work[q] /\ before'[q] = before[q] /\ late'[q] = late[q]
  OBVIOUS
<1>2. ASSUME IsOpen(q), NEW D, Made(q, D) PROVE Made(q, D)'
  <2>1. Separate(row[q].ops) /\ Touched(row[q].ops) \subseteq Paths
    BY <1>2, RowFacts, SeparateFacts
  <2>2. \A p \in Touched(row[q].ops) : files'[p] = files[p]
    BY <1>2, <2>1, RowFacts
  <2>3. MadeIn(files', before[q], row[q].ops, D)
    BY <1>2, <2>1, <2>2, MadeElsewhere DEF Made
  <2> QED  BY <1>1, <2>3 DEF Made
<1>3. IsOpen(q)' = IsOpen(q)
  BY <1>1 DEF IsOpen
<1>4. ASSUME IsOpen(q) PROVE AsRecorded(q)' /\ ThreadInv(q)'
  <2>1. AsRecorded(q) /\ ThreadInv(q)
    BY <1>0, <1>4 DEF RequestInv
  <2>2. ASSUME NEW S, MadeWithin(q, S) PROVE MadeWithin(q, S)'
    BY <1>2, <1>4, <2>2 DEF MadeWithin
  <2>3. AsRecorded(q)'
    BY <1>1, <2>1, <2>2 DEF AsRecorded
  <2>4. ThreadInv(q)'
    BY <1>1, <1>2, <1>4, <2>1, <2>2 DEF ThreadInv, Is
  <2> QED  BY <2>3, <2>4
<1> QED  BY <1>0, <1>1, <1>3, <1>4 DEF RequestInv

LEMMA Recording ==
    ASSUME SeparateEdits, EditsInv, NEW r \in Requests, Request(r)
    PROVE  EditsInv'
<1>1. PICK ops \in Proposed(r, files) : Prepare(r, ops)
  BY DEF Request
<1>2. row[r] = NoRow /\ EditsTypeOK /\ files \in Worktrees /\ late[r] = {}
  BY DEF Request, EditsInv, EditsTypeOK, RequestInv
<1>3. Separate(ops)
  BY <1>1, <1>2 DEF SeparateEdits, Separate
<1>4. Saved(files, ops) \in Seq(Contents \cup {Missing})
  <2>1. /\ DOMAIN ops = 1..Len(ops) /\ Len(ops) \in Nat
        /\ \A i \in 1..Len(ops) : files[ops[i].path] \in Contents \cup {Missing}
    BY <1>2, <1>3, SeparateFacts, OperationFields DEF Worktrees
  <2> QED  BY <2>1 DEF Saved
<1> DEFINE new == [status |-> "prepared", ops |-> ops, saved |-> Saved(files, ops), applied |-> 0]
           go  == [mode |-> "forward", at |-> 1]
<1>5. new \in Rows /\ go \in Works
  BY <1>3, <1>4 DEF Rows, Works, Open, Separate
<1>6. /\ row' = [row EXCEPT ![r] = new] /\ work' = [work EXCEPT ![r] = go]
      /\ before' = [before EXCEPT ![r] = files]
      /\ UNCHANGED <<files, process, crashes, late>> /\ Snapshots(files, ops)
  BY <1>1 DEF Prepare
<1> HIDE DEF go
<1>7. EditsTypeOK'
  BY <1>2, <1>5, <1>6 DEF EditsTypeOK
<1>8. /\ row'[r] = new /\ work'[r] = go /\ before'[r] = files
      /\ \A q \in Requests \ {r} :
            row'[q] = row[q] /\ work'[q] = work[q] /\ before'[q] = before[q]
  BY <1>2, <1>6 DEF EditsTypeOK
<1>9. RequestInv(r)'
  <2>1. Made(r, 1..0)'
    <3>1. MadeIn(files, files, ops, 1..0)
      BY <1>3, SeparateFacts DEF MadeIn
    <3> QED  BY <1>6, <1>8, <3>1 DEF Made
  <2>2. AsRecorded(r)'
    <3>1. MadeWithin(r, 1..0)'
      BY <2>1 DEF MadeWithin
    <3> QED  BY <1>1, <1>2, <1>3, <1>6, <1>8, <3>1, SeparateFacts DEF AsRecorded
  <2>3. ThreadInv(r)'
    BY <1>2, <1>6, <1>8, <2>1 DEF ThreadInv, Is, go
  <2>4. IsOpen(r)' /\ row'[r] # NoRow
    BY <1>8 DEF IsOpen, Open, NoRow
  <2> QED  BY <1>1, <1>2, <1>8, <2>2, <2>3, <2>4 DEF RequestInv
<1> QED  BY <1>6, <1>7, <1>8, <1>9, OneRequest

\* What holds of a request on which a thread is at work.
LEMMA ThreadFacts ==
    ASSUME SeparateEdits, EditsInv, NEW r \in Requests, work[r] \notin {NoWork, Abandoned}
    PROVE  /\ IsOpen(r) /\ AsRecorded(r) /\ ThreadInv(r) /\ EditsTypeOK
           /\ row[r] # NoRow /\ row[r] \in Rows /\ work[r] \in Works
           /\ Separate(row[r].ops) /\ row[r].applied <= Len(row[r].ops)
           /\ before[r] \in Worktrees /\ files \in Worktrees
<1>1. EditsTypeOK /\ RequestInv(r)
  BY DEF EditsInv
<1>2. IsOpen(r) /\ AsRecorded(r) /\ ThreadInv(r)
  BY <1>1 DEF RequestInv
<1>3. work[r] \in Works
  BY <1>1 DEF EditsTypeOK
<1> QED  BY <1>1, <1>2, <1>3, RowFacts DEF AsRecorded, EditsTypeOK

LEMMA Announcing ==
    ASSUME SeparateEdits, EditsInv, NEW r \in Requests, Announce(r)
    PROVE  EditsInv'
<1> DEFINE k == work[r].at
           new == [row[r] EXCEPT !.status = "applying", !.applied = k]
           go == [work[r] EXCEPT !.mode = "execute"]
<1>1. work[r] \notin {NoWork, Abandoned} /\ Is(r, "forward") /\ k <= Len(row[r].ops)
  BY DEF Announce, Is, Abandoned
<1>2. /\ AsRecorded(r) /\ EditsTypeOK /\ row[r] \in Rows /\ work[r] \in Works
      /\ k = row[r].applied + 1 /\ Made(r, 1..row[r].applied) /\ late[r] = {} /\ row[r] # NoRow
  BY <1>1, ThreadFacts DEF ThreadInv
<1>3. k \in Nat /\ row[r].applied \in Nat /\ k - 1 = row[r].applied /\ k > 0
  BY <1>2 DEF Works, Rows
<1>4. new \in Rows /\ go \in Works
  BY <1>2, <1>3 DEF Rows, Works, Open
<1>5. /\ row' = [row EXCEPT ![r] = new] /\ work' = [work EXCEPT ![r] = go]
      /\ UNCHANGED <<files, process, crashes, before, late>>
  BY <1>2 DEF Announce, EditsTypeOK
<1>6. /\ new.status = "applying" /\ new.applied = k /\ new.ops = row[r].ops
      /\ new.saved = row[r].saved /\ go.mode = "execute" /\ go.at = k
  BY <1>2 DEF Rows, Works
<1> HIDE DEF new, go
<1>7. EditsTypeOK'
  BY <1>2, <1>4, <1>5 DEF EditsTypeOK
<1>8. /\ row'[r] = new /\ work'[r] = go
      /\ \A q \in Requests \ {r} : row'[q] = row[q] /\ work'[q] = work[q]
  BY <1>2, <1>5 DEF EditsTypeOK
<1>9. RequestInv(r)'
  <2>1. MadeIn(files', before'[r], row'[r].ops, 1..(k - 1))
    BY <1>2, <1>3, <1>5, <1>6, <1>8 DEF Made
  <2>2. AsRecorded(r)'
    <3>1. MadeWithin(r, 1..row[r].applied)'
      <4>1. 1..(k - 1) \in SUBSET (1..row'[r].applied)
        BY <1>3, <1>6, <1>8
      <4> QED  BY <2>1, <4>1 DEF MadeWithin, Made
    <3> QED  BY <1>1, <1>2, <1>5, <1>6, <1>8, <3>1 DEF AsRecorded
  <2>3. ThreadInv(r)'
    BY <1>2, <1>3, <1>5, <1>6, <1>8, <2>1 DEF ThreadInv, Is, Made
  <2>4. IsOpen(r)' /\ row'[r] # NoRow
    BY <1>6, <1>8 DEF IsOpen, Open, NoRow
  <2>5. \E fs \in Worktrees : row[r].ops \in Proposed(r, fs)
    BY <1>2 DEF EditsInv, RequestInv
  <2> QED  BY <1>6, <1>8, <2>2, <2>3, <2>4, <2>5 DEF RequestInv
<1> QED  BY <1>5, <1>7, <1>8, <1>9, OneRequest

\* In the middle of an operation: what its effect is, should it have one.
LEMMA MidwayFacts ==
    ASSUME SeparateEdits, EditsInv, NEW r \in Requests, Is(r, "execute")
    PROVE  /\ work[r].at \in 1..Len(row[r].ops)
           /\ Executed(files, Current(r)) \in Worktrees
           /\ \A p \in Paths : Executed(files, Current(r))[p] # files[p] =>
                                   p \in Touched(row[r].ops)
           /\ ~Fails(files, Current(r)) =>
                 MadeIn(Executed(files, Current(r)), before[r], row[r].ops, 1..work[r].at)
<1> DEFINE k == work[r].at
           op == row[r].ops[k]
<1>1. work[r] \notin {NoWork, Abandoned}
  BY DEF Is, Abandoned
<1>2. /\ k \in Nat /\ k = row[r].applied /\ k > 0 /\ Made(r, 1..(k - 1))
      /\ Separate(row[r].ops) /\ k <= Len(row[r].ops)
      /\ before[r] \in Worktrees /\ files \in Worktrees
  BY <1>1, ThreadFacts DEF ThreadInv, Works
<1>3. k \in 1..Len(row[r].ops) /\ op \in Operation /\ PathsOf(op) \subseteq Touched(row[r].ops)
  BY <1>2, SeparateFacts
<1>4. Current(r) = op
  BY DEF Current
<1>5. /\ Executed(files, op) \in Worktrees
      /\ \A p \in Paths : Executed(files, op)[p] # files[p] => p \in Touched(row[r].ops)
  BY <1>2, <1>3, ExecutedLocal
<1>6. ASSUME ~Fails(files, op)
      PROVE  MadeIn(Executed(files, op), before[r], row[r].ops, 1..k)
  <2>1. k \notin 1..(k - 1) /\ (1..(k - 1)) \cup {k} = 1..k
    BY <1>2
  <2>2. MadeIn(files, before[r], row[r].ops, 1..(k - 1))
    BY <1>2 DEF Made
  <2>3. MadeIn(Executed(files, op), before[r], row[r].ops, (1..(k - 1)) \cup {k})
    BY <1>2, <1>3, <1>6, <2>1, <2>2, MadeNext
  <2> QED  BY <2>1, <2>3
<1> QED  BY <1>3, <1>4, <1>5, <1>6

LEMMA Executing ==
    ASSUME SeparateEdits, EditsInv, NEW r \in Requests, Execute(r)
    PROVE  EditsInv'
<1> DEFINE k == work[r].at
           go == [mode |-> "forward", at |-> k + 1]
<1>1. work[r] \notin {NoWork, Abandoned} /\ Is(r, "execute")
  BY DEF Execute, Is, Abandoned
<1>2. /\ AsRecorded(r) /\ EditsTypeOK /\ row[r] # NoRow /\ IsOpen(r) /\ row[r] \in Rows
      /\ k = row[r].applied /\ late[r] = {} /\ k \in 1..Len(row[r].ops) /\ k \in Nat
      /\ files' = Executed(files, Current(r)) /\ ~Fails(files, Current(r))
  BY <1>1, ThreadFacts, MidwayFacts DEF ThreadInv, Works, Execute
<1>3. /\ MadeIn(files', before[r], row[r].ops, 1..k)
      /\ files' \in Worktrees
      /\ \A p \in Paths : files'[p] # files[p] => p \in Touched(row[r].ops)
  BY <1>1, <1>2, MidwayFacts
<1>4. work' = [work EXCEPT ![r] = go] /\ UNCHANGED <<row, process, crashes, before, late>>
  BY <1>2 DEF Execute, EditsTypeOK
<1>5. go \in Works /\ go.mode = "forward" /\ go.at = k + 1
  BY <1>2 DEF Works
<1> HIDE DEF go
<1>6. EditsTypeOK'
  BY <1>2, <1>3, <1>4, <1>5 DEF EditsTypeOK
<1>7. work'[r] = go /\ \A q \in Requests \ {r} : work'[q] = work[q]
  BY <1>2, <1>4 DEF EditsTypeOK
<1>8. RequestInv(r)'
  <2>1. Made(r, 1..row[r].applied)'
    BY <1>2, <1>3, <1>4 DEF Made
  <2>2. AsRecorded(r)'
    <3>1. MadeWithin(r, 1..row[r].applied)'
      BY <2>1 DEF MadeWithin
    <3> QED  BY <1>2, <1>4, <3>1 DEF AsRecorded
  <2>3. ThreadInv(r)'
    BY <1>2, <1>4, <1>5, <1>7, <2>1 DEF ThreadInv, Is
  <2>4. \E fs \in Worktrees : row[r].ops \in Proposed(r, fs)
    BY <1>2 DEF EditsInv, RequestInv
  <2> QED  BY <1>2, <1>4, <2>2, <2>3, <2>4 DEF RequestInv, IsOpen
<1> QED  BY <1>2, <1>3, <1>4, <1>6, <1>7, <1>8, OneRequest

\* An error before the effect.
LEMMA FailingEarly ==
    ASSUME SeparateEdits, EditsInv, NEW r \in Requests, OperationFails(r)
    PROVE  EditsInv'
<1> DEFINE k == work[r].at
           go == [work[r] EXCEPT !.mode = "failed"]
<1>1. work[r] \notin {NoWork, Abandoned} /\ Is(r, "execute")
  BY DEF OperationFails, Is, Abandoned
<1>2. /\ AsRecorded(r) /\ EditsTypeOK /\ row[r] # NoRow /\ IsOpen(r) /\ work[r] \in Works
      /\ k = row[r].applied /\ k > 0 /\ late[r] = {} /\ Made(r, 1..(k - 1))
  BY <1>1, ThreadFacts DEF ThreadInv
<1>3. work' = [work EXCEPT ![r] = go] /\ UNCHANGED <<files, row, process, crashes, before, late>>
  BY <1>2 DEF OperationFails, EditsTypeOK
<1>4. go \in Works /\ go.mode = "failed" /\ go.at = k
  BY <1>2 DEF Works
<1> HIDE DEF go
<1>5. EditsTypeOK'
  BY <1>2, <1>3, <1>4 DEF EditsTypeOK
<1>6. work'[r] = go /\ \A q \in Requests \ {r} : work'[q] = work[q]
  BY <1>2, <1>3 DEF EditsTypeOK
<1>7. RequestInv(r)'
  <2>1. AsRecorded(r)'
    BY <1>2, <1>3 DEF AsRecorded, MadeWithin, Made
  <2>2. MadeWithin(r, (1..(work[r].at - 1)) \cup late[r])'
    BY <1>2, <1>3, <1>4, <1>6 DEF MadeWithin, Made
  <2>3. ThreadInv(r)'
    BY <1>2, <1>3, <1>4, <1>6, <2>2 DEF ThreadInv, Is
  <2>4. \E fs \in Worktrees : row[r].ops \in Proposed(r, fs)
    BY <1>2 DEF EditsInv, RequestInv
  <2> QED  BY <1>2, <1>3, <2>1, <2>3, <2>4 DEF RequestInv, IsOpen
<1> QED  BY <1>2, <1>3, <1>5, <1>6, <1>7, OneRequest

\* An error after it.
LEMMA FailingLate ==
    ASSUME SeparateEdits, EditsInv, NEW r \in Requests, FailsLate(r)
    PROVE  EditsInv'
<1> DEFINE k == work[r].at
           go == [work[r] EXCEPT !.mode = "failed"]
<1>1. work[r] \notin {NoWork, Abandoned} /\ Is(r, "execute")
  BY DEF FailsLate, Is, Abandoned
<1>2. /\ AsRecorded(r) /\ EditsTypeOK /\ row[r] # NoRow /\ IsOpen(r) /\ row[r] \in Rows
      /\ k = row[r].applied /\ late[r] = {} /\ k \in 1..Len(row[r].ops) /\ work[r] \in Works
      /\ k \in Nat /\ k > 0
      /\ files' = Executed(files, Current(r)) /\ ~Fails(files, Current(r))
  BY <1>1, ThreadFacts, MidwayFacts DEF ThreadInv, Works, FailsLate
<1>3. /\ MadeIn(files', before[r], row[r].ops, 1..k)
      /\ files' \in Worktrees
      /\ \A p \in Paths : files'[p] # files[p] => p \in Touched(row[r].ops)
  BY <1>1, <1>2, MidwayFacts
<1>4. /\ work' = [work EXCEPT ![r] = go] /\ late' = [late EXCEPT ![r] = {k}]
      /\ UNCHANGED <<row, process, crashes, before>>
  BY <1>2 DEF FailsLate, EditsTypeOK
<1>5. go \in Works /\ go.mode = "failed" /\ go.at = k /\ {k} \in SUBSET Nat
  BY <1>2 DEF Works
<1> HIDE DEF go
<1>6. EditsTypeOK'
  BY <1>2, <1>3, <1>4, <1>5 DEF EditsTypeOK
<1>7. /\ work'[r] = go /\ late'[r] = {k}
      /\ \A q \in Requests \ {r} : work'[q] = work[q] /\ late'[q] = late[q]
  BY <1>2, <1>4 DEF EditsTypeOK
<1>8. RequestInv(r)'
  <2>1. Made(r, 1..row[r].applied)'
    BY <1>2, <1>3, <1>4 DEF Made
  <2>2. AsRecorded(r)'
    <3>1. MadeWithin(r, 1..row[r].applied)'
      BY <2>1 DEF MadeWithin
    <3>2. k \in 1..row[r].applied
      BY <1>2
    <3> QED  BY <1>2, <1>4, <1>7, <3>1, <3>2 DEF AsRecorded
  <2>3. MadeWithin(r, (1..(work[r].at - 1)) \cup late[r])'
    <3>1. 1..row'[r].applied \subseteq (1..(work'[r].at - 1)) \cup late'[r]
      BY <1>2, <1>4, <1>5, <1>7
    <3> QED  BY <2>1, <3>1 DEF MadeWithin
  <2>4. ThreadInv(r)'
    BY <1>2, <1>4, <1>5, <1>7, <2>3 DEF ThreadInv, Is
  <2>5. \E fs \in Worktrees : row[r].ops \in Proposed(r, fs)
    BY <1>2 DEF EditsInv, RequestInv
  <2> QED  BY <1>2, <1>4, <2>2, <2>4, <2>5 DEF RequestInv, IsOpen
<1> QED  BY <1>2, <1>3, <1>4, <1>6, <1>7, <1>8, OneRequest

\* A row gets another status, and nothing else changes but what its thread
\* does next.
LEMMA RowMarked ==
    ASSUME SeparateEdits, EditsInv, NEW r \in Requests, row[r] # NoRow,
           NEW mark \in Open \cup Settled, NEW go \in {NoWork, Abandoned} \cup Works,
           row' = [row EXCEPT ![r].status = mark], work' = [work EXCEPT ![r] = go],
           UNCHANGED <<files, crashes, late>>, process' \in {"up", "down", "recovering"},
           before' = before \/ (mark \in Settled /\ before' = [before EXCEPT ![r] = NoFiles]),
           mark \in Open => /\ IsOpen(r)
                            /\ go \notin {NoWork, Abandoned} =>
                                  /\ go.mode = "back" /\ go.at <= row[r].applied
                                  /\ MadeWithin(r, (1..go.at) \cup late[r]),
           mark \in Settled => go = NoWork
    PROVE  EditsInv'
<1> DEFINE new == [row[r] EXCEPT !.status = mark]
<1>1. EditsTypeOK /\ row[r] \in Rows /\ RequestInv(r)
  BY RowFacts DEF EditsInv
<1>2. /\ new \in Rows /\ new.status = mark /\ new.ops = row[r].ops
      /\ new.saved = row[r].saved /\ new.applied = row[r].applied
  BY <1>1 DEF Rows
<1>3. row' = [row EXCEPT ![r] = new]
  BY <1>1 DEF EditsTypeOK
<1> HIDE DEF new
<1>4. EditsTypeOK'
  BY <1>1, <1>2, <1>3 DEF EditsTypeOK
<1>5. /\ row'[r] = new /\ work'[r] = go
      /\ \A q \in Requests \ {r} :
            row'[q] = row[q] /\ work'[q] = work[q] /\ before'[q] = before[q]
  BY <1>1, <1>3 DEF EditsTypeOK
<1>6. new # NoRow /\ \E fs \in Worktrees : row[r].ops \in Proposed(r, fs)
  <2>1. mark # "none"
    BY DEF Open, Settled
  <2> QED  BY <1>1, <1>2, <2>1 DEF NoRow, RequestInv
<1>7. CASE mark \in Open
  <2>1. IsOpen(r)' /\ before' = before /\ AsRecorded(r)
    BY <1>1, <1>2, <1>5, <1>7 DEF IsOpen, Open, Settled, RequestInv
  <2>2. AsRecorded(r)'
    BY <1>2, <1>5, <2>1 DEF AsRecorded, MadeWithin, Made
  <2>3. ThreadInv(r)'
    <3>1. CASE go \in {NoWork, Abandoned}
      BY <1>5, <3>1 DEF ThreadInv, Is, NoWork, Abandoned
    <3>2. CASE go \notin {NoWork, Abandoned}
      BY <1>2, <1>5, <1>7, <2>1, <3>2 DEF ThreadInv, Is, MadeWithin, Made
    <3> QED  BY <3>1, <3>2
  <2>4. RequestInv(r)'
    BY <1>2, <1>5, <1>6, <2>1, <2>2, <2>3 DEF RequestInv
  <2> QED  BY <1>4, <1>5, <2>4, OneRequest
<1>8. CASE mark \in Settled
  <2>1. ~IsOpen(r)'
    BY <1>2, <1>5, <1>8 DEF IsOpen, Open, Settled
  <2>2. RequestInv(r)'
    BY <1>2, <1>5, <1>6, <1>8, <2>1 DEF RequestInv
  <2> QED  BY <1>4, <1>5, <2>2, OneRequest
<1> QED  BY <1>7, <1>8

LEMMA Failing ==
    ASSUME SeparateEdits, EditsInv, NEW r \in Requests, RollBack(r)
    PROVE  EditsInv'
<1> DEFINE k == work[r].at
           go == [mode |-> "back", at |-> k - 1]
<1>1. work[r] \notin {NoWork, Abandoned} /\ Is(r, "failed")
  BY DEF RollBack, Is, Abandoned
<1>2. /\ EditsTypeOK /\ work[r] \in Works /\ row[r] \in Rows /\ row[r] # NoRow /\ IsOpen(r)
      /\ k = row[r].applied /\ k > 0 /\ MadeWithin(r, (1..(k - 1)) \cup late[r])
  BY <1>1, ThreadFacts DEF ThreadInv
<1>3. k \in Nat /\ k - 1 \in Nat /\ k - 1 <= row[r].applied
  BY <1>2 DEF Works
<1>4. go \in Works /\ go.mode = "back" /\ go.at = k - 1
  BY <1>3 DEF Works
<1>5. /\ row' = [row EXCEPT ![r].status = "rolling_back"] /\ work' = [work EXCEPT ![r] = go]
      /\ UNCHANGED <<files, process, crashes, before, late>>
  BY <1>2 DEF RollBack, EditsTypeOK
<1> HIDE DEF go
<1>6. MadeWithin(r, (1..go.at) \cup late[r])
  BY <1>2, <1>4
<1>7. /\ "rolling_back" \in Open /\ "rolling_back" \notin Settled
      /\ process' \in {"up", "down", "recovering"}
  BY <1>2, <1>5 DEF Open, Settled, EditsTypeOK
<1> QED  BY <1>2, <1>3, <1>4, <1>5, <1>6, <1>7, RowMarked

LEMMA Committing ==
    ASSUME SeparateEdits, EditsInv, NEW r \in Requests, Commit(r)
    PROVE  EditsInv'
<1>1. work[r] \notin {NoWork, Abandoned}
  BY DEF Commit, Is, Abandoned
<1>2. row[r] # NoRow /\ EditsTypeOK
  BY <1>1, ThreadFacts
<1>3. /\ "committed" \in Settled /\ "committed" \notin Open
      /\ process' \in {"up", "down", "recovering"}
  BY <1>2 DEF Open, Settled, Commit, EditsTypeOK
<1> QED  BY <1>2, <1>3, RowMarked DEF Commit

LEMMA RollingBackEnds ==
    ASSUME SeparateEdits, EditsInv, NEW r \in Requests, FinishRollback(r)
    PROVE  EditsInv'
<1>1. work[r] \notin {NoWork, Abandoned}
  BY DEF FinishRollback, Is, Abandoned
<1>2. row[r] # NoRow /\ EditsTypeOK
  BY <1>1, ThreadFacts
<1>3. /\ "rolled_back" \in Settled /\ "rolled_back" \notin Open
      /\ process' \in {"up", "down", "recovering"}
  BY <1>2 DEF Open, Settled, FinishRollback, EditsTypeOK
<1> QED  BY <1>2, <1>3, RowMarked DEF FinishRollback

LEMMA Recovering ==
    ASSUME SeparateEdits, EditsInv, NEW r \in Requests, RecoverRow(r)
    PROVE  EditsInv'
<1> DEFINE go == [mode |-> "back", at |-> row[r].applied]
<1>1. IsOpen(r) /\ row[r] # NoRow /\ row[r] \in Rows /\ EditsTypeOK /\ AsRecorded(r)
  BY RowFacts DEF RecoverRow, IsOpen, EditsInv, RequestInv
<1>2. go \in Works /\ go.mode = "back" /\ go.at = row[r].applied /\ row[r].applied \in Nat
  BY <1>1 DEF Works, Rows
<1>3. /\ row' = [row EXCEPT ![r].status = "rolling_back"] /\ work' = [work EXCEPT ![r] = go]
      /\ UNCHANGED <<files, process, crashes, before, late>>
  BY DEF RecoverRow
<1> HIDE DEF go
<1>4. go.at <= row[r].applied /\ MadeWithin(r, (1..go.at) \cup late[r])
  BY <1>1, <1>2 DEF AsRecorded, MadeWithin
<1>5. /\ "rolling_back" \in Open /\ "rolling_back" \notin Settled
      /\ process' \in {"up", "down", "recovering"}
  BY <1>1, <1>3 DEF Open, Settled, EditsTypeOK
<1> QED  BY <1>1, <1>2, <1>3, <1>4, <1>5, RowMarked

LEMMA Compensating ==
    ASSUME SeparateEdits, EditsInv, NEW r \in Requests, Compensate(r)
    PROVE  EditsInv'
<1> DEFINE k == work[r].at
           ops == row[r].ops
           was == before[r]
           go == [work[r] EXCEPT !.at = k - 1]
<1>1. work[r] \notin {NoWork, Abandoned} /\ Is(r, "back") /\ k > 0
  BY DEF Compensate, Is, Abandoned
<1>2. /\ AsRecorded(r) /\ EditsTypeOK /\ row[r] \in Rows /\ work[r] \in Works
      /\ k <= row[r].applied /\ MadeWithin(r, (1..k) \cup late[r])
      /\ row[r] # NoRow /\ IsOpen(r)
      /\ Separate(ops) /\ row[r].applied <= Len(ops) /\ row[r].applied \in Nat
      /\ was \in Worktrees /\ files \in Worktrees
  BY <1>1, ThreadFacts DEF ThreadInv, Rows
<1>3. /\ k \in 1..Len(ops) /\ ops[k] \in Operation /\ PathsOf(ops[k]) \subseteq Touched(ops)
      /\ DOMAIN ops = 1..Len(ops)
  BY <1>1, <1>2, SeparateFacts DEF Works
<1>4. /\ Snapshots(was, ops) /\ row[r].saved[k] = was[ops[k].path] /\ OwnWork(was, ops[k])
      /\ was[ops[k].path] \in Contents \cup {Missing}
  BY <1>2, <1>3, RowFacts, OperationFields DEF AsRecorded, Saved, Worktrees
<1>5. /\ ~Conflict(files, ops[k], was[ops[k].path])
      /\ files' = Compensated(files, ops[k], was[ops[k].path])
      /\ UNCHANGED <<row, process, crashes, before, late>>
  BY <1>4 DEF Compensate, Current
<1>6. /\ \E D \in SUBSET ((1..(k - 1)) \cup late[r]) : MadeIn(files', was, ops, D)
      /\ MadeWithin(r, 1..row[r].applied)'
  <2>1. PICK D \in SUBSET ((1..k) \cup late[r]) : MadeIn(files, was, ops, D)
    BY <1>2 DEF MadeWithin, Made
  <2>2. MadeIn(files', was, ops, D \ {k})
    BY <1>2, <1>3, <1>4, <1>5, <2>1, MadeBack
  <2>4. D \ {k} \in SUBSET ((1..(k - 1)) \cup late[r])
    BY <1>3, <2>1
  <2>5. late[r] \subseteq 1..row[r].applied
    BY <1>2 DEF AsRecorded
  <2>6. D \ {k} \in SUBSET (1..row[r].applied)
    BY <1>2, <1>3, <2>4, <2>5
  <2> QED  BY <1>5, <2>2, <2>4, <2>6 DEF MadeWithin, Made
<1>7. /\ files' \in Worktrees
      /\ \A p \in Paths : files'[p] # files[p] => p \in Touched(ops)
  <2> DEFINE old == was[ops[k].path]
  <2>1. files \in Worktrees /\ ops[k] \in Operation /\ old \in Contents \cup {Missing}
    BY <1>2, <1>3, <1>4
  <2>2. files' = Compensated(files, ops[k], old)
    BY <1>5
  <2>3. /\ Compensated(files, ops[k], old) \in Worktrees
        /\ \A p \in Paths \ PathsOf(ops[k]) : Compensated(files, ops[k], old)[p] = files[p]
    BY <2>1, CompensatedLocal
  <2> HIDE DEF old
  <2> QED  BY <1>3, <2>2, <2>3
<1>8. work' = [work EXCEPT ![r] = go] /\ go \in Works /\ go.mode = "back" /\ go.at = k - 1
  <2>1. k - 1 \in Nat /\ work[r].mode = "back"
    BY <1>1, <1>3 DEF Is
  <2>2. go \in Works /\ go.mode = "back" /\ go.at = k - 1
    BY <1>2, <2>1 DEF Works
  <2>3. work' = [work EXCEPT ![r] = go]
    BY <1>2 DEF Compensate, EditsTypeOK
  <2> QED  BY <2>2, <2>3
<1> HIDE DEF go
<1>9. EditsTypeOK'
  BY <1>2, <1>5, <1>7, <1>8 DEF EditsTypeOK
<1>10. work'[r] = go /\ \A q \in Requests \ {r} : work'[q] = work[q]
  BY <1>2, <1>8 DEF EditsTypeOK
<1>11. RequestInv(r)'
  <2>1. AsRecorded(r)'
    BY <1>2, <1>5, <1>6 DEF AsRecorded
  <2>2. ThreadInv(r)'
    <3>1. go.at <= row[r].applied
      BY <1>2, <1>3, <1>8
    <3>2. MadeWithin(r, (1..work[r].at) \cup late[r])'
      BY <1>5, <1>6, <1>8, <1>10 DEF MadeWithin, Made
    <3> QED  BY <1>5, <1>8, <1>10, <3>1, <3>2 DEF ThreadInv, Is
  <2>3. \E fs \in Worktrees : row[r].ops \in Proposed(r, fs)
    BY <1>2 DEF EditsInv, RequestInv
  <2> QED  BY <1>2, <1>5, <2>1, <2>2, <2>3 DEF RequestInv, IsOpen
<1> QED  BY <1>2, <1>5, <1>7, <1>9, <1>10, <1>11, OneRequest

LEMMA GivingUp ==
    ASSUME SeparateEdits, EditsInv, NEW r \in Requests, GiveUp(r)
    PROVE  EditsInv'
<1>1. work[r] \notin {NoWork, Abandoned}
  BY DEF GiveUp, Is, Abandoned
<1>2. row[r] # NoRow /\ row[r] \in Rows /\ IsOpen(r) /\ EditsTypeOK
  BY <1>1, ThreadFacts
<1>3. row[r].status \in Open /\ row[r].status \notin Settled
  BY <1>2 DEF IsOpen, Open, Settled
<1>4. row' = [row EXCEPT ![r].status = row[r].status]
  BY <1>2 DEF GiveUp, EditsTypeOK, Rows
<1>5. PICK go \in {NoWork, Abandoned} : work' = [work EXCEPT ![r] = go]
  BY DEF GiveUp
<1>6. process' \in {"up", "down", "recovering"} /\ UNCHANGED <<files, crashes, before, late>>
  BY <1>2 DEF GiveUp, EditsTypeOK
<1> QED  BY <1>2, <1>3, <1>4, <1>5, <1>6, RowMarked

\* A stop of the application, and what starts it again.
LEMMA Stopping ==
    ASSUME EditsInv, Crash \/ StartAgain \/ Ready
    PROVE  EditsInv'
<1>1. /\ UNCHANGED <<files, row, before, late>> /\ EditsTypeOK
      /\ \/ work' = work
         \/ work' = [r \in Requests |-> NoWork]
  BY DEF Crash, StartAgain, Ready, EditsInv
<1>2. EditsTypeOK'
  BY <1>1, EditAssumption DEF Crash, StartAgain, Ready, EditsTypeOK
<1>3. ASSUME NEW r \in Requests PROVE RequestInv(r)'
  <2>1. RequestInv(r)
    BY DEF EditsInv
  <2>2. work'[r] \in {work[r], NoWork}
    BY <1>1
  <2>3. AsRecorded(r) => AsRecorded(r)'
    BY <1>1 DEF AsRecorded, MadeWithin, Made
  <2>4. ThreadInv(r) => ThreadInv(r)'
    <3>1. CASE work'[r] = work[r]
      BY <1>1, <3>1 DEF ThreadInv, Is, MadeWithin, Made
    <3>2. CASE work'[r] = NoWork
      BY <3>2 DEF ThreadInv, Is
    <3> QED  BY <2>2, <3>1, <3>2
  <2> QED  BY <1>1, <2>1, <2>2, <2>3, <2>4 DEF RequestInv, IsOpen
<1> QED  BY <1>2, <1>3 DEF EditsInv

LEMMA EditsInductive ==
    ASSUME SeparateEdits
    PROVE  EditsSpec => []EditsInv
<1>1. EditsInit => EditsInv
  <2> SUFFICES ASSUME EditsInit PROVE EditsInv
    OBVIOUS
  <2>1. EditsTypeOK
    BY EditAssumption DEF EditsInit, EditsTypeOK
  <2>2. \A r \in Requests : RequestInv(r)
    BY DEF EditsInit, RequestInv, IsOpen, Open, NoRow
  <2> QED  BY <2>1, <2>2 DEF EditsInv
<1>2. EditsInv /\ [EditsNext]_editVars => EditsInv'
  <2> SUFFICES ASSUME EditsInv, [EditsNext]_editVars PROVE EditsInv'
    OBVIOUS
  <2>1. ASSUME NEW r \in Requests, Request(r) \/ Step(r) PROVE EditsInv'
    BY <2>1, Recording, Announcing, Executing, FailingEarly, FailingLate, Failing, Committing,
       Compensating, GivingUp, RollingBackEnds, Recovering DEF Step
  <2>2. CASE Crash \/ StartAgain \/ Ready
    BY <2>2, Stopping
  <2>3. CASE UNCHANGED editVars
    BY <2>3 DEF editVars, EditsInv, EditsTypeOK, RequestInv, IsOpen, AsRecorded, ThreadInv, Is,
                   MadeWithin, Made
  <2> QED  BY <2>1, <2>2, <2>3 DEF EditsNext
<1> QED  BY <1>1, <1>2, PTL DEF EditsSpec

-----------------------------------------------------------------------------
(* Each step is one of AtomicEdits, or changes nothing that it sees.       *)

Asked   == [r \in Requests |-> IF row[r] = NoRow THEN <<>> ELSE row[r].ops]
Shown   == [p \in Paths |-> IF OpenOn(p) = {} THEN files[p]
                            ELSE before[CHOOSE r \in OpenOn(p) : TRUE][p]]
Said == [r \in Requests |-> IF row[r].status \in Settled THEN row[r].status ELSE "open"]

\* What is seen at p when the requests in S are open on it.
SeenAt(p, S, fs, was) == IF S = {} THEN fs[p] ELSE was[CHOOSE r \in S : TRUE][p]

LEMMA SeenLocal ==
    ASSUME NEW p, NEW S, NEW fs, NEW gs, NEW was, NEW then,
           S = {} => gs[p] = fs[p], \A r \in S : then[r] = was[r]
    PROVE  SeenAt(p, S, gs, then) = SeenAt(p, S, fs, was)
<1>1. S # {} => (CHOOSE r \in S : TRUE) \in S
  OBVIOUS
<1> QED  BY <1>1 DEF SeenAt

LEMMA ShownOf ==
    ASSUME SeparateEdits, EditsInv
    PROVE  /\ Shown \in Worktrees
           /\ \A r \in Requests : IsOpen(r) =>
                 \A p \in Touched(row[r].ops) : OpenOn(p) = {r} /\ Shown[p] = before[r][p]
<1>1. ASSUME NEW r \in Requests, IsOpen(r), NEW p \in Touched(row[r].ops)
      PROVE  OpenOn(p) = {r} /\ Shown[p] = before[r][p]
  <2>1. \A q \in Requests : IsOpen(q) /\ p \in Touched(row[q].ops) => q = r
    BY <1>1, RowFacts
  <2>2. OpenOn(p) = {r}
    BY <1>1, <2>1 DEF OpenOn, IsOpen
  <2>3. p \in Paths
    BY <1>1, RowFacts, SeparateFacts
  <2>4. (CHOOSE q \in OpenOn(p) : TRUE) = r
    BY <2>2
  <2> QED  BY <2>2, <2>3, <2>4 DEF Shown
<1>2. ASSUME NEW p \in Paths PROVE Shown[p] \in Contents \cup {Missing}
  <2>1. CASE OpenOn(p) = {}
    BY <2>1 DEF Shown, EditsInv, EditsTypeOK, Worktrees
  <2>2. CASE OpenOn(p) # {}
    <3>1. PICK r \in Requests : IsOpen(r) /\ p \in Touched(row[r].ops)
      BY <2>2 DEF OpenOn, IsOpen
    <3>2. Shown[p] = before[r][p] /\ before[r] \in Worktrees
      BY <1>1, <3>1, RowFacts
    <3> QED  BY <3>2 DEF Worktrees
  <2> QED  BY <2>1, <2>2
<1>3. Shown = [p \in Paths |-> Shown[p]]
  BY DEF Shown
<1> QED  BY <1>1, <1>2, <1>3 DEF Worktrees

\* What an open request does to its files is not seen.
LEMMA Unseen ==
    ASSUME \A q \in Requests :
              /\ IsOpen(q)' = IsOpen(q) /\ (row'[q] = NoRow) = (row[q] = NoRow)
              /\ row'[q].ops = row[q].ops
              /\ ~IsOpen(q) => row'[q] = row[q],
           \A p \in Paths : files'[p] # files[p] =>
              \E q \in Requests : IsOpen(q) /\ p \in Touched(row[q].ops),
           UNCHANGED before
    PROVE  Asked' = Asked /\ Shown' = Shown /\ Said' = Said
<1>1. Asked' = Asked
  BY DEF Asked
<1>2. Said' = Said
  <2>1. \A q \in Requests : (IF row'[q].status \in Settled THEN row'[q].status ELSE "open")
                              = (IF row[q].status \in Settled THEN row[q].status ELSE "open")
    BY DEF IsOpen, Open, Settled
  <2> QED  BY <2>1 DEF Said
<1>3. ASSUME NEW p \in Paths PROVE OpenOn(p)' = OpenOn(p)
  BY DEF OpenOn, IsOpen
<1>4. ASSUME NEW p \in Paths, OpenOn(p) = {} PROVE files'[p] = files[p]
  BY <1>4 DEF OpenOn, IsOpen
<1>5. \A p \in Paths : SeenAt(p, OpenOn(p)', files', before') = SeenAt(p, OpenOn(p), files, before)
  <2> TAKE p \in Paths
  <2>1. OpenOn(p)' = OpenOn(p) /\ (OpenOn(p) = {} => files'[p] = files[p]) /\ before' = before
    BY <1>3, <1>4
  <2> DEFINE S == OpenOn(p)
  <2>2. SeenAt(p, S, files', before') = SeenAt(p, S, files, before)
    BY <2>1, SeenLocal
  <2> QED  BY <2>1, <2>2
<1>6. Shown' = Shown
  BY <1>5 DEF Shown, SeenAt
<1> QED  BY <1>1, <1>2, <1>6

\* When a request is settled its own files are seen as they are.
LEMMA Settling ==
    ASSUME SeparateEdits, EditsInv, NEW r \in Requests, IsOpen(r), NEW mark \in Settled,
           row' = [row EXCEPT ![r].status = mark], files' = files,
           before' = [before EXCEPT ![r] = NoFiles]
    PROVE  /\ Asked' = Asked /\ Asked[r] # <<>>
           /\ Said[r] = "open" /\ Said' = [Said EXCEPT ![r] = mark]
           /\ Shown' = [p \in Paths |-> IF p \in Touched(row[r].ops) THEN files[p] ELSE Shown[p]]
<1>1. /\ EditsTypeOK /\ row[r] # NoRow /\ row[r] \in Rows /\ Separate(row[r].ops)
  BY RowFacts DEF EditsInv
<1>2. /\ row'[r].status = mark /\ row'[r].ops = row[r].ops /\ row'[r] # NoRow
      /\ \A q \in Requests \ {r} : row'[q] = row[q] /\ before'[q] = before[q]
  <2>1. row'[r] = [row[r] EXCEPT !.status = mark]
    BY <1>1 DEF EditsTypeOK
  <2>2. mark # "none"
    BY DEF Settled
  <2> QED  BY <1>1, <2>1, <2>2 DEF Rows, NoRow, EditsTypeOK
<1>3. Asked' = Asked /\ Asked[r] # <<>>
  BY <1>1, <1>2 DEF Asked, Separate
<1>4. Said[r] = "open" /\ Said' = [Said EXCEPT ![r] = mark]
  BY <1>2 DEF Said, IsOpen, Open, Settled
<1>5. ASSUME NEW p \in Touched(row[r].ops) PROVE OpenOn(p)' = {}
  <2>1. OpenOn(p) = {r}
    BY ShownOf
  <2> QED  BY <1>2, <2>1 DEF OpenOn, Open, Settled
<1>6. ASSUME NEW p \in Paths, p \notin Touched(row[r].ops)
      PROVE  OpenOn(p)' = OpenOn(p) /\ r \notin OpenOn(p)
  BY <1>2, <1>6 DEF OpenOn
<1>7. ASSUME NEW p \in Paths
      PROVE  SeenAt(p, OpenOn(p)', files', before')
                = IF p \in Touched(row[r].ops) THEN files[p]
                  ELSE SeenAt(p, OpenOn(p), files, before)
  <2>1. CASE p \in Touched(row[r].ops)
    BY <1>5, <2>1 DEF SeenAt
  <2>2. CASE p \notin Touched(row[r].ops)
    <3> DEFINE S == OpenOn(p)
    <3>1. /\ OpenOn(p)' = S /\ (S = {} => files'[p] = files[p])
          /\ \A q \in S : before'[q] = before[q]
      BY <1>2, <1>6, <2>2 DEF OpenOn
    <3> HIDE DEF S
    <3>2. SeenAt(p, S, files', before') = SeenAt(p, S, files, before)
      BY ONLY <3>1, SeenLocal
    <3> QED  BY <2>2, <3>1, <3>2 DEF S
  <2> QED  BY <2>1, <2>2
<1>8. Shown' = [p \in Paths |-> IF p \in Touched(row[r].ops) THEN files[p] ELSE Shown[p]]
  BY <1>7 DEF Shown, SeenAt
<1> QED  BY <1>3, <1>4, <1>8

LEMMA RecordingSeen ==
    ASSUME SeparateEdits, EditsInv, NEW r \in Requests, Request(r)
    PROVE  Atomic!Record(r)
<1>1. PICK ops \in Proposed(r, files) : Prepare(r, ops)
  BY DEF Request
<1>2. row[r] = NoRow /\ EditsTypeOK /\ files \in Worktrees
  BY DEF Request, EditsInv, EditsTypeOK
<1>3. /\ row'[r].ops = ops /\ row'[r].status = "prepared" /\ before'[r] = files /\ files' = files
      /\ \A q \in Requests \ {r} : row'[q] = row[q] /\ before'[q] = before[q]
  BY <1>1, <1>2 DEF Prepare, EditsTypeOK
<1>4. Separate(ops) /\ row'[r] # NoRow
  BY <1>1, <1>2, <1>3 DEF SeparateEdits, Separate, NoRow
<1>5. Asked[r] = <<>> /\ Asked'[r] = ops /\ Asked' = [Asked EXCEPT ![r] = Asked'[r]]
  <2>1. \A q \in Requests \ {r} : Asked'[q] = Asked[q]
    BY <1>3 DEF Asked
  <2>2. Asked[r] = <<>> /\ Asked'[r] = ops
    BY <1>2, <1>3, <1>4 DEF Asked
  <2>3. Asked' = [q \in Requests |-> Asked'[q]] /\ Asked = [q \in Requests |-> Asked[q]]
    BY DEF Asked
  <2> QED  BY <2>1, <2>2, <2>3
<1>6. Said' = Said
  <2>1. \A q \in Requests : (IF row'[q].status \in Settled THEN row'[q].status ELSE "open")
                              = (IF row[q].status \in Settled THEN row[q].status ELSE "open")
    BY <1>2, <1>3 DEF NoRow, Settled
  <2> QED  BY <2>1 DEF Said
<1>7. IsOpen(r)' /\ ~IsOpen(r)
  BY <1>2, <1>3 DEF IsOpen, Open, NoRow
<1>8. ASSUME NEW p \in Paths
      PROVE  SeenAt(p, OpenOn(p)', files', before') = SeenAt(p, OpenOn(p), files, before)
  <2>1. CASE p \in Touched(ops)
    <3>1. ASSUME NEW q \in Requests, row[q] # NoRow PROVE p \notin Touched(row[q].ops)
      <4>1. PICK fs \in Worktrees : row[q].ops \in Proposed(q, fs)
        BY <3>1 DEF EditsInv, RequestInv
      <4>2. q # r
        BY <1>2, <3>1
      <4>3. Touched(ops) \cap Touched(row[q].ops) = {}
        BY <1>1, <1>2, <4>1, <4>2 DEF SeparateEdits
      <4> QED  BY <2>1, <4>3
    <3>2. OpenOn(p) = {}
      BY <3>1 DEF OpenOn, Open, NoRow
    <3>3. OpenOn(p)' = {r}
      <4>1. \A q \in Requests : q \in OpenOn(p)' => q = r
        BY <1>3, <3>2 DEF OpenOn
      <4>2. r \in OpenOn(p)'
        BY <1>3, <2>1 DEF OpenOn, Open
      <4> QED  BY <4>1, <4>2 DEF OpenOn
    <3>4. (CHOOSE q \in {r} : TRUE) = r
      OBVIOUS
    <3>5. SeenAt(p, {r}, files', before') = files[p]
      BY <1>3, <3>4 DEF SeenAt
    <3>6. SeenAt(p, {}, files, before) = files[p]
      BY DEF SeenAt
    <3> QED  BY <3>2, <3>3, <3>5, <3>6
  <2>2. CASE p \notin Touched(ops)
    <3> DEFINE S == OpenOn(p)
    <3>1. OpenOn(p)' = S /\ \A q \in S : before'[q] = before[q]
      BY <1>3, <1>7, <2>2 DEF OpenOn, IsOpen
    <3> HIDE DEF S
    <3>2. SeenAt(p, S, files', before') = SeenAt(p, S, files, before)
      BY <1>3, <3>1, SeenLocal
    <3> QED  BY <3>1, <3>2 DEF S
  <2> QED  BY <2>1, <2>2
<1>9. Shown' = Shown
  BY <1>8 DEF Shown, SeenAt
<1> QED  BY <1>1, <1>4, <1>5, <1>6, <1>9 DEF Atomic!Record, Asked, Shown, Said, Separate, Prepare

LEMMA CommitSeen ==
    ASSUME SeparateEdits, EditsInv, NEW r \in Requests, Commit(r)
    PROVE  Atomic!CommitAll(r)
<1> DEFINE ops == row[r].ops
           was == before[r]
           all == Len(ops)
<1>1. work[r] \notin {NoWork, Abandoned} /\ Is(r, "forward")
  BY DEF Commit, Is, Abandoned
<1>2. /\ IsOpen(r) /\ row[r] \in Rows /\ Separate(ops) /\ was \in Worktrees /\ files \in Worktrees
      /\ all \in Nat /\ row[r].applied = all /\ Made(r, 1..all) /\ late[r] = {}
  <2>1. /\ IsOpen(r) /\ row[r] \in Rows /\ Separate(ops) /\ was \in Worktrees
        /\ files \in Worktrees /\ row[r].applied <= all
        /\ work[r].at = row[r].applied + 1 /\ Made(r, 1..row[r].applied) /\ late[r] = {}
    BY <1>1, ThreadFacts DEF ThreadInv
  <2>2. all \in Nat /\ row[r].applied \in Nat /\ row[r].applied + 1 > all
    BY <2>1, SeparateFacts DEF Commit, Rows
  <2>3. row[r].applied = all
    BY <2>1, <2>2
  <2> QED  BY <2>1, <2>2, <2>3
<1>3. /\ Asked' = Asked /\ Asked[r] # <<>> /\ Said[r] = "open"
      /\ Said' = [Said EXCEPT ![r] = "committed"]
      /\ Shown' = [p \in Paths |-> IF p \in Touched(ops) THEN files[p] ELSE Shown[p]]
  <2>1. "committed" \in Settled
    BY DEF Settled
  <2> QED  BY <1>2, <2>1, Settling DEF Commit
<1>4. Asked[r] = ops
  BY <1>2, RowFacts DEF Asked
<1>5. Shown \in Worktrees /\ \A p \in Touched(ops) : Shown[p] = was[p]
  BY <1>2, ShownOf
<1>6. /\ After(Shown, ops) \in Worktrees
      /\ \A p \in Paths \ Touched(ops) : After(Shown, ops)[p] = Shown[p]
      /\ \A i \in 1..all : \A p \in PathsOf(ops[i]) :
            After(Shown, ops)[p] = Executed(Shown, ops[i])[p]
  BY <1>2, <1>5, AfterEach DEF Separate
<1>7. ASSUME NEW p \in Touched(ops) PROVE After(Shown, ops)[p] = files[p]
  <2>1. PICK i \in 1..all : p \in PathsOf(ops[i])
    BY <1>2, SeparateFacts DEF Touched
  <2>2. ops[i] \in Operation /\ PathsOf(ops[i]) \subseteq Touched(ops)
    BY <1>2, SeparateFacts
  <2>3. Executed(Shown, ops[i])[p] = Executed(was, ops[i])[p]
    BY <1>2, <1>5, <2>1, <2>2, ExecutedLocal
  <2>4. files[p] = Executed(was, ops[i])[p]
    BY <1>2, <2>1 DEF Made, MadeIn
  <2> QED  BY <1>6, <2>1, <2>3, <2>4
<1>8. Shown' = After(Shown, ops)
  BY <1>3, <1>6, <1>7 DEF Worktrees
<1> QED  BY <1>2, <1>3, <1>4, <1>8 DEF Atomic!CommitAll, Atomic!Decide, Asked, Shown, Said, Commit

LEMMA RollbackSeen ==
    ASSUME SeparateEdits, EditsInv, NEW r \in Requests, FinishRollback(r)
    PROVE  Atomic!RollBack(r)
<1> DEFINE ops == row[r].ops
           was == before[r]
<1>1. work[r] \notin {NoWork, Abandoned} /\ Is(r, "back")
  BY DEF FinishRollback, Is, Abandoned
<1>2. /\ IsOpen(r) /\ Separate(ops) /\ was \in Worktrees /\ row[r] # NoRow
      /\ late[r] = {} \/ \E i \in 1..Len(ops) : late[r] = {i}
      /\ MadeWithin(r, late[r])
  <2>1. /\ IsOpen(r) /\ Separate(ops) /\ was \in Worktrees /\ AsRecorded(r) /\ row[r] \in Rows
        /\ MadeWithin(r, (1..work[r].at) \cup late[r]) /\ row[r] # NoRow
    BY <1>1, ThreadFacts DEF ThreadInv
  <2>2. 1..work[r].at = {}
    BY DEF FinishRollback
  <2>3. Len(ops) \in Nat /\ row[r].applied \in Nat /\ row[r].applied <= Len(ops)
    BY <2>1, SeparateFacts DEF AsRecorded, Rows
  <2>4. late[r] = {} \/ \E i \in 1..Len(ops) : late[r] = {i}
    BY <2>1, <2>3 DEF AsRecorded
  <2> QED  BY <2>1, <2>2, <2>4
<1>3. /\ Asked' = Asked /\ Asked[r] # <<>> /\ Said[r] = "open"
      /\ Said' = [Said EXCEPT ![r] = "rolled_back"]
      /\ Shown' = [p \in Paths |-> IF p \in Touched(ops) THEN files[p] ELSE Shown[p]]
  <2>1. "rolled_back" \in Settled
    BY DEF Settled
  <2> QED  BY <1>2, <2>1, Settling DEF FinishRollback
<1>4. Shown \in Worktrees /\ \A p \in Touched(ops) : Shown[p] = was[p]
  BY <1>2, ShownOf
<1>5. Asked[r] = ops /\ late' = late
  BY <1>2 DEF Asked, FinishRollback
<1>6. CASE Made(r, {})
  <2>1. ASSUME NEW p \in Touched(ops) PROVE files[p] = was[p]
    <3>1. PICK i \in 1..Len(ops) : p \in PathsOf(ops[i])
      BY <1>2, SeparateFacts DEF Touched
    <3> QED  BY <1>2, <1>6, <3>1 DEF Made, MadeIn
  <2>2. Shown' = Shown
    BY <1>3, <1>4, <2>1 DEF Worktrees
  <2> QED  BY <1>3, <1>5, <2>2 DEF Atomic!RollBack, Atomic!Decide, Asked, Shown, Said
<1>7. CASE \E k \in 1..Len(ops) : late[r] = {k} /\ Made(r, {k})
  <2>1. PICK k \in 1..Len(ops) : late[r] = {k} /\ Made(r, {k})
    BY <1>7
  <2> DEFINE op == ops[k]
             alone == <<op>>
  <2>2. op \in Operation /\ PathsOf(op) \subseteq Touched(ops) /\ PathsOf(op) \subseteq Paths
    BY <1>2, <2>1, SeparateFacts
  <2>3. /\ alone \in Seq(Operation) /\ PathsUsedOnce(alone) /\ Len(alone) = 1 /\ alone[1] = op
        /\ Touched(alone) = PathsOf(op)
    BY <2>2 DEF PathsUsedOnce, Touched
  <2>4. /\ After(Shown, alone) \in Worktrees
        /\ \A p \in Paths \ PathsOf(op) : After(Shown, alone)[p] = Shown[p]
        /\ \A p \in PathsOf(op) : After(Shown, alone)[p] = Executed(Shown, op)[p]
    <3> HIDE DEF alone
    <3>1. /\ After(Shown, alone) \in Worktrees
          /\ \A p \in Paths \ Touched(alone) : After(Shown, alone)[p] = Shown[p]
          /\ \A i \in 1..Len(alone) : \A p \in PathsOf(alone[i]) :
                After(Shown, alone)[p] = Executed(Shown, alone[i])[p]
      BY <1>4, <2>3, AfterEach
    <3> QED  BY <2>3, <3>1
  <2>5. \A p \in PathsOf(op) : Executed(Shown, op)[p] = Executed(was, op)[p]
    BY <1>2, <1>4, <2>2, ExecutedLocal
  <2>6. ASSUME NEW p \in Touched(ops) PROVE After(Shown, alone)[p] = files[p]
    <3>1. PICK i \in 1..Len(ops) : p \in PathsOf(ops[i])
      BY <1>2, SeparateFacts DEF Touched
    <3>2. files[p] = IF i = k THEN Executed(was, ops[i])[p] ELSE was[p]
      BY <2>1, <3>1 DEF Made, MadeIn
    <3>3. p \in Paths
      BY <1>2, SeparateFacts
    <3>4. CASE i = k
      BY <2>4, <2>5, <3>1, <3>2, <3>4
    <3>5. CASE i # k
      <4>1. p \notin PathsOf(op)
        BY <1>2, <2>1, <3>1, <3>5, SeparateFacts
      <4> QED  BY <1>4, <2>4, <3>2, <3>3, <3>5, <4>1
    <3> QED  BY <3>4, <3>5
  <2>7. \A p \in Paths \ Touched(ops) : After(Shown, alone)[p] = Shown[p]
    BY <2>2, <2>4
  <2> HIDE DEF alone
  <2>8. Shown' = After(Shown, alone)
    BY <1>3, <2>4, <2>6, <2>7 DEF Worktrees
  <2>9. k \in late[r] /\ <<Asked[r][k]>> = alone
    BY <1>5, <2>1 DEF alone
  <2> QED  BY <1>3, <1>5, <2>8, <2>9 DEF Atomic!RollBack, Atomic!Decide, Asked, Shown, Said
<1>8. Made(r, {}) \/ \E k \in 1..Len(ops) : late[r] = {k} /\ Made(r, {k})
  <2>1. PICK D \in SUBSET late[r] : Made(r, D)
    BY <1>2 DEF MadeWithin
  <2>2. CASE D = {}
    BY <2>1, <2>2
  <2>3. CASE D # {}
    <3>1. PICK k \in 1..Len(ops) : late[r] = {k}
      BY <1>2, <2>1, <2>3
    <3>2. D = {k}
      BY <2>1, <2>3, <3>1
    <3> QED  BY <2>1, <3>1, <3>2
  <2> QED  BY <2>2, <2>3
<1> QED  BY <1>6, <1>7, <1>8

LEMMA MarkUnseen ==
    ASSUME SeparateEdits, EditsInv, NEW r \in Requests,
           Announce(r) \/ RollBack(r) \/ RecoverRow(r)
    PROVE  Asked' = Asked /\ Shown' = Shown /\ Said' = Said
<1>1. IsOpen(r) /\ row[r] # NoRow /\ row[r] \in Rows /\ EditsTypeOK
  <2>1. CASE work[r] \notin {NoWork, Abandoned}
    BY <2>1, ThreadFacts
  <2>2. CASE RecoverRow(r)
    BY <2>2, RowFacts DEF RecoverRow, IsOpen, EditsInv
  <2> QED  BY <2>1, <2>2 DEF Announce, RollBack, Is, Abandoned
<1>2. UNCHANGED <<files, before>>
  BY DEF Announce, RollBack, RecoverRow
<1>3. PICK mark \in Open, n \in Nat :
         row' = [row EXCEPT ![r] = [row[r] EXCEPT !.status = mark, !.applied = n]]
  <2>1. CASE Announce(r)
    <3>1. work[r] \in Works
      BY <2>1, ThreadFacts DEF Announce, Is, Abandoned
    <3> QED  BY <1>1, <2>1, <3>1 DEF Announce, Open, EditsTypeOK, Works
  <2>2. CASE RollBack(r) \/ RecoverRow(r)
    <3>1. row' = [row EXCEPT ![r].status = "rolling_back"]
      BY <2>2 DEF RollBack, RecoverRow
    <3>2. row' = [row EXCEPT ![r] = [row[r] EXCEPT !.status = "rolling_back",
                                                   !.applied = row[r].applied]]
      BY <1>1, <3>1 DEF EditsTypeOK, Rows
    <3> QED  BY <1>1, <3>2 DEF Open, Rows
  <2> QED  BY <2>1, <2>2
<1>4. /\ row'[r].status = mark /\ row'[r].ops = row[r].ops
      /\ \A q \in Requests \ {r} : row'[q] = row[q]
  BY <1>1, <1>3 DEF EditsTypeOK, Rows
<1>5. row'[r] # NoRow
  BY <1>4 DEF NoRow, Open
<1>6. \A q \in Requests :
         /\ IsOpen(q)' = IsOpen(q) /\ (row'[q] = NoRow) = (row[q] = NoRow)
         /\ row'[q].ops = row[q].ops
         /\ ~IsOpen(q) => row'[q] = row[q]
  BY <1>1, <1>4, <1>5 DEF IsOpen
<1> QED  BY <1>2, <1>6, Unseen

LEMMA FilesUnseen ==
    ASSUME SeparateEdits, EditsInv, NEW r \in Requests,
           Execute(r) \/ FailsLate(r) \/ Compensate(r)
    PROVE  Asked' = Asked /\ Shown' = Shown /\ Said' = Said
<1>1. /\ IsOpen(r) /\ row[r] \in Rows /\ work[r] \in Works /\ Separate(row[r].ops)
      /\ files \in Worktrees /\ AsRecorded(r) /\ ThreadInv(r) /\ work[r] # NoWork
  BY ThreadFacts DEF Execute, FailsLate, Compensate, Is, Abandoned
<1>2. work[r].at \in 1..Len(row[r].ops)
  <2>1. Len(row[r].ops) \in Nat /\ work[r].at \in Nat /\ row[r].applied \in Nat
    BY <1>1, SeparateFacts DEF Works, Rows
  <2>2. work[r].at > 0 /\ work[r].at <= row[r].applied
    BY <1>1, <2>1 DEF ThreadInv, Execute, FailsLate, Compensate
  <2> QED  BY <1>1, <2>1, <2>2 DEF AsRecorded
<1> DEFINE op == Current(r)
           old == row[r].saved[work[r].at]
<1>3. op \in Operation /\ PathsOf(op) \subseteq Touched(row[r].ops)
  BY <1>1, <1>2, SeparateFacts DEF Current
<1>4. old \in Contents \cup {Missing}
  <2>1. row[r].ops[work[r].at].path \in Paths /\ before[r] \in Worktrees
    BY <1>1, <1>3, OperationFields DEF Current, AsRecorded
  <2>2. DOMAIN row[r].ops = 1..Len(row[r].ops) /\ row[r].saved = Saved(before[r], row[r].ops)
    BY <1>1, SeparateFacts DEF AsRecorded
  <2> QED  BY <1>2, <2>1, <2>2 DEF Saved, Worktrees
<1>5. files' = Executed(files, op) \/ files' = Compensated(files, op, old)
  BY DEF Execute, FailsLate, Compensate
<1>6. row' = row /\ before' = before
  BY DEF Execute, FailsLate, Compensate
<1> HIDE DEF op, old
<1>7. \A p \in Paths : files'[p] # files[p] => p \in Touched(row[r].ops)
  <2>1. \A p \in Paths \ PathsOf(op) : /\ Executed(files, op)[p] = files[p]
                                       /\ Compensated(files, op, old)[p] = files[p]
    BY <1>1, <1>3, <1>4, ExecutedLocal, CompensatedLocal
  <2> QED  BY <1>3, <1>5, <2>1
<1>8. \A q \in Requests : IsOpen(q)' = IsOpen(q)
  BY <1>6 DEF IsOpen
<1> QED  BY <1>1, <1>6, <1>7, <1>8, Unseen

LEMMA SlipSeen ==
    ASSUME SeparateEdits, EditsInv, NEW r \in Requests, FailsLate(r)
    PROVE  Atomic!Slip(r)
<1>1. Asked' = Asked /\ Shown' = Shown /\ Said' = Said
  BY FilesUnseen
<1>2. /\ work[r].at \in 1..Len(row[r].ops) /\ IsOpen(r) /\ row[r] # NoRow
      /\ DOMAIN row[r].ops = 1..Len(row[r].ops)
  BY MidwayFacts, ThreadFacts, SeparateFacts DEF FailsLate, Is, Abandoned
<1>3. Said[r] = "open" /\ Asked[r] = row[r].ops
  BY <1>2 DEF Said, Asked, IsOpen, Open, Settled
<1>4. late' = [late EXCEPT ![r] = @ \cup {work[r].at}]
  BY DEF FailsLate
<1> QED  BY <1>1, <1>2, <1>3, <1>4 DEF Atomic!Slip, Asked, Shown, Said

LEMMA IdleUnseen ==
    ASSUME UNCHANGED <<files, row, before>>
    PROVE  Asked' = Asked /\ Shown' = Shown /\ Said' = Said
<1>1. \A q \in Requests : IsOpen(q)' = IsOpen(q)
  BY DEF IsOpen
<1> QED  BY <1>1, Unseen

LEMMA EditsStepIsAtomic ==
    ASSUME SeparateEdits, EditsInv, [EditsNext]_editVars
    PROVE  Atomic!Next \/ UNCHANGED Atomic!vars
<1>1. Asked' = Asked /\ Shown' = Shown /\ Said' = Said /\ late' = late => UNCHANGED Atomic!vars
  BY DEF Atomic!vars, Asked, Shown, Said
<1>2. ASSUME NEW r \in Requests, Request(r) \/ FailsLate(r) PROVE Atomic!Next
  BY <1>2, RecordingSeen, SlipSeen DEF Atomic!Next
<1>3. ASSUME NEW r \in Requests, Commit(r) \/ FinishRollback(r) PROVE Atomic!Next
  BY <1>3, CommitSeen, RollbackSeen DEF Atomic!Next
<1>4. ASSUME NEW r \in Requests,
             \/ Announce(r) \/ RollBack(r) \/ RecoverRow(r)
             \/ Execute(r) \/ Compensate(r)
      PROVE  UNCHANGED Atomic!vars
  <2>1. late' = late
    BY <1>4 DEF Announce, RollBack, RecoverRow, Execute, Compensate
  <2> QED  BY <1>1, <1>4, <2>1, MarkUnseen, FilesUnseen
<1>5. ASSUME \/ \E r \in Requests : OperationFails(r) \/ GiveUp(r)
             \/ Crash \/ StartAgain \/ Ready \/ UNCHANGED editVars
      PROVE  UNCHANGED Atomic!vars
  <2>1. UNCHANGED <<files, row, before, late>>
    BY <1>5 DEF OperationFails, GiveUp, Crash, StartAgain, Ready, editVars
  <2> QED  BY <1>1, <2>1, IdleUnseen
<1> QED  BY <1>2, <1>3, <1>4, <1>5 DEF EditsNext, Step

LEMMA EditsStartAtomic ==
    ASSUME EditsInit
    PROVE  Atomic!Init
<1>1. \A r \in Requests : row[r] = NoRow /\ row[r].status \notin Settled
  BY DEF EditsInit, NoRow, Settled
<1> QED  BY <1>1 DEF Atomic!Init, EditsInit

\* Whatever requests are recorded (execute_transaction in files.rs), each row
\* has a status, as many saved contents as a request can need and a progress,
\* and the worktree holds a content or nothing at every path.
THEOREM EditsTyped ==
    ASSUME SeparateEdits
    PROVE  EditsSpec => []EditsTypeOK
<1>1. EditsInv => EditsTypeOK
  BY DEF EditsInv
<1> QED  BY <1>1, EditsInductive, PTL

\* Of requests that keep out of each other's way one that is committed has
\* changed all of its files.  One that is rolled back has changed none, or only
\* those of one operation that reported an error after its effect (safe_fs.rs):
\* through calls of the file system and of the store that fail anywhere, an
\* undoing one included, requests that run between the operations of another,
\* and stops at any point of the work or of its recovery at startup
\* (rollback and recover_incomplete_file_transactions).
THEOREM EditsAreAtomic ==
    ASSUME SeparateEdits
    PROVE  EditsSpec => ImplementsAtomicEdits
<1>1. EditsInit => Atomic!Init
  BY EditsStartAtomic
<1>2. EditsInv /\ [EditsNext]_editVars => [Atomic!Next]_(Atomic!vars)
  BY EditsStepIsAtomic
<1> QED  BY <1>1, <1>2, EditsInductive, PTL DEF EditsSpec, ImplementsAtomicEdits, Atomic!Spec
=============================================================================
