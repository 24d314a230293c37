-------------------------- MODULE MigrationsProofs --------------------------
(***************************************************************************)
(* What holds of Migrations for any migrations and steps, any number of    *)
(* runners at work at once, and any crashes and lost answers.              *)
(***************************************************************************)
EXTENDS Migrations, TLAPS

HasRow(m) == record[m] # "none" \/ m \in touched

\* Every step behind a runner is done.
RunnerOK(r) ==
  /\ pc[r] \in {"step", "checkpoint", "recordFailure"} =>
       \A i \in 1..Length[Current(r)] : i < step[r] => Done(<<Current(r), i>>)
  /\ pc[r] = "checkpoint" => Done(CurrentStep(r))

\* Every migration behind a runner has a row, and so has every one it skips.
RowOK(r) ==
  pc[r] # "idle" =>
    /\ \A i \in 1..Len(Order) : i < pos[r] => HasRow(Order[i])
    /\ \A m \in known[r] : HasRow(m)

RunnersOK == \A r \in Runners : RunnerOK(r) /\ RowOK(r)

IInv == /\ TypeOK /\ RunnersOK
        /\ PrefixDone /\ CompletedIsDone /\ SuccessIsRecorded /\ OrderKept

-----------------------------------------------------------------------------
(* Lemmas.                                                                 *)

LEMMA StepsLemma ==
  /\ \A m \in Ids : \A i \in 1..Length[m] : <<m, i>> \in Steps
  /\ \A s \in Steps : \E m \in Ids : \E i \in 1..Length[m] : s = <<m, i>>
BY DEF Steps

LEMMA OrderLemma ==
  /\ \A i \in 1..Len(Order) : Order[i] \in Ids
  /\ Len(Order) \in Nat
  /\ Given \subseteq Ids
BY MigrationsAssumption DEF Given

\* Where a runner at work is.
LEMMA AtWork ==
  ASSUME TypeOK, NEW r \in Runners, pc[r] \notin {"idle", "next"}
  PROVE  /\ pos[r] \in 1..Len(Order)
         /\ Current(r) \in Ids
         /\ Length[Current(r)] \in Nat
         /\ step[r] \in 1..(Length[Current(r)] + 1)
         /\ pc[r] = "checkpoint" => step[r] <= Length[Current(r)]
         /\ step[r] <= Length[Current(r)] => CurrentStep(r) \in Steps
<1>1. pos[r] \in 1..Len(Order)
  BY OrderLemma DEF TypeOK, RunnerType, Located
<1>2. Current(r) \in Ids
  BY <1>1, OrderLemma DEF Current
<1>3. Length[Current(r)] \in Nat
  BY <1>2, MigrationsAssumption
<1>4. /\ step[r] \in 1..(Length[Current(r)] + 1)
      /\ pc[r] = "checkpoint" => step[r] <= Length[Current(r)]
  BY <1>3 DEF TypeOK, RunnerType, Located, Current
<1>5. step[r] <= Length[Current(r)] => CurrentStep(r) \in Steps
  BY <1>2, <1>3, <1>4, StepsLemma DEF CurrentStep
<1>6. QED
  BY <1>1, <1>2, <1>3, <1>4, <1>5

\* Nothing that was done is undone.
LEMMA DoneStays ==
  ASSUME TypeOK, NEW r \in Runners, Execute(r)
  PROVE  /\ times' \in [Steps -> Nat]
         /\ excused' \subseteq Steps
         /\ \A s \in Steps : Present(s) => Present(s)'
         /\ \A s \in Steps : Done(s) => Done(s)'
         /\ \A s \in Steps : s # CurrentStep(r) => times'[s] = times[s]
         /\ \A s \in Steps : s # CurrentStep(r) => (Done(s)' => Done(s))
<1> DEFINE c == CurrentStep(r)
<1>1. c \in Steps
  BY AtWork DEF Execute
<1>2. times \in [Steps -> Nat] /\ times[c] \in Nat
  BY <1>1 DEF TypeOK, DatabaseType
<1>3. times' = times \/ \E n \in Nat : times' = [times EXCEPT ![c] = n] /\ n >= times[c]
  <2>1. CASE TakeEffect(c)
    <3>1. times' = [times EXCEPT ![c] = times[c]] \/ times' = [times EXCEPT ![c] = times[c] + 1]
      BY <2>1 DEF TakeEffect
    <3>2. QED
      BY <1>2, <3>1
  <2>2. QED
    BY <2>1 DEF Execute, StepSucceeds, StepExcused, StepFails
<1>4. excused' = excused \/ excused' = excused \cup {c}
  BY DEF Execute, StepSucceeds, StepExcused, StepFails
<1>5. /\ times' \in [Steps -> Nat]
      /\ \A s \in Steps : times'[s] >= times[s]
      /\ \A s \in Steps : s # c => times'[s] = times[s]
  BY <1>1, <1>2, <1>3
<1>6. excused' \subseteq Steps
  BY <1>1, <1>4 DEF TypeOK, DatabaseType
<1>7. \A s \in Steps : times[s] \in Nat /\ times'[s] \in Nat
  BY <1>2, <1>5
<1>8. \A s \in Steps : Present(s) => Present(s)'
  BY <1>5, <1>7 DEF Present
<1>9. \A s \in Steps : s # c => (Present(s)' => Present(s))
  BY <1>5 DEF Present
<1>10. /\ \A s \in Steps : Done(s) => Done(s)'
       /\ \A s \in Steps : s # c => (Done(s)' => Done(s))
  BY <1>4, <1>8, <1>9 DEF Done
<1>11. QED
  BY <1>5, <1>6, <1>8, <1>10

-----------------------------------------------------------------------------
(* Type correctness.                                                       *)

LEMMA RowType ==
  ASSUME TypeOK, NEW m \in Ids, NEW status \in {"completed", "failed", "partial"},
         NEW cp \in Nat, WriteRow(m, status, cp)
  PROVE  /\ record' \in [Ids -> {"none", "completed", "failed", "partial"}]
         /\ checksum' \in [Ids -> 0..MaxEdits]
         /\ checkpoint' \in [Ids -> Nat]
BY BoundsAssumption DEF TypeOK, DatabaseType, WriteRow

\* A step of one runner leaves the others where they are.
LEMMA StaysLocated ==
  ASSUME TypeOK, NEW r \in Runners,
         \A q \in Runners \ {r} : pc'[q] = pc[q] /\ pos'[q] = pos[q] /\ step'[q] = step[q],
         \/ pc'[r] \in {"idle", "next"}
         \/ /\ pos'[r] <= Len(Order)
            /\ step'[r] <= Length[Order[pos'[r]]] + IF pc'[r] = "checkpoint" THEN 0 ELSE 1
  PROVE  Located'
BY DEF TypeOK, Located

LEMMA ExecuteType ==
  ASSUME TypeOK, NEW r \in Runners, Execute(r)
  PROVE  TypeOK'
<1>1. /\ CurrentStep(r) \in Steps /\ Length[Current(r)] \in Nat
      /\ step[r] \in Nat \ {0} /\ step[r] <= Length[Current(r)]
      /\ pos[r] \in 1..Len(Order)
  BY AtWork DEF Execute
<1>2. /\ times' \in [Steps -> Nat] /\ excused' \subseteq Steps
      /\ UNCHANGED <<tracked, record, checksum, checkpoint, version, touched, untracked>>
  BY DoneStays DEF Execute
<1>3. /\ \/ step' = [step EXCEPT ![r] = step[r] + 1]
         \/ step' = step
      /\ \/ executed' = [executed EXCEPT ![r] = executed[r] + 1]
         \/ executed' = executed
      /\ \/ last' = [last EXCEPT ![r] = step[r]]
         \/ last' = last
      /\ \/ pc' = pc
         \/ pc' = [pc EXCEPT ![r] = "checkpoint"]
         \/ pc' = [pc EXCEPT ![r] = "recordFailure"]
      /\ UNCHANGED <<runs, pos, known, outcome>>
  BY DEF Execute, StepSucceeds, StepExcused, StepFails, Advance
<1>4. DatabaseType'
  BY <1>2 DEF TypeOK, DatabaseType
<1>5. RunnerType'
  <2>1. RunnerType
    BY DEF TypeOK
  <2>2. /\ step' \in [Runners -> Nat \ {0}]
        /\ executed' \in [Runners -> Nat]
    <3>1. step \in [Runners -> Nat \ {0}] /\ executed \in [Runners -> Nat]
      BY <2>1 DEF RunnerType
    <3>2. step[r] + 1 \in Nat \ {0} /\ executed[r] + 1 \in Nat
      BY <3>1
    <3>3. QED
      BY <1>3, <3>1, <3>2
  <2>3. last' \in [Runners -> Nat]
    BY <1>1, <1>3, <2>1 DEF RunnerType
  <2>4. pc' \in [Runners -> {"idle", "next", "step", "checkpoint", "recordFailure"}]
    BY <1>3, <2>1 DEF RunnerType
  <2>5. QED
    BY <1>3, <2>1, <2>2, <2>3, <2>4 DEF RunnerType
<1>6. Located'
  <2>1. /\ pc \in [Runners -> {"idle", "next", "step", "checkpoint", "recordFailure"}]
        /\ step \in [Runners -> Nat \ {0}]
    BY DEF TypeOK, RunnerType
  <2>2. \A q \in Runners \ {r} : pc'[q] = pc[q] /\ pos'[q] = pos[q] /\ step'[q] = step[q]
    BY <1>3, <2>1
  <2>3. pc'[r] = "checkpoint" => step' = step
    BY <2>1 DEF Execute, StepSucceeds, StepExcused, StepFails
  <2>4. step'[r] = step[r] \/ step'[r] = step[r] + 1
    BY <1>3, <2>1
  <2>5. step'[r] <= Length[Order[pos[r]]] + IF pc'[r] = "checkpoint" THEN 0 ELSE 1
    BY <1>1, <2>3, <2>4 DEF Current
  <2>6. QED
    BY <1>1, <1>3, <2>2, <2>5, StaysLocated
<1>7. QED
  BY <1>4, <1>5, <1>6 DEF TypeOK

LEMMA RunnerStepType ==
  ASSUME TypeOK, NEW r \in Runners, RunnerStep(r)
  PROVE  TypeOK'
<1> DEFINE PCs == {"idle", "next", "step", "checkpoint", "recordFailure"}
<1>a. DatabaseType /\ RunnerType
  BY DEF TypeOK
<1>1. CASE Plan(r)
  <2>1. DatabaseType'
    BY <1>1, <1>a DEF Plan, DatabaseType, dbVars, historyVars
  <2>2. runs[r] + 1 \in 0..MaxRuns /\ Recorded \in SUBSET Ids
    BY <1>1, <1>a, BoundsAssumption DEF Plan, RunnerType, Recorded
  <2>3. pc' \in [Runners -> PCs] /\ pc'[r] \in {"idle", "next"}
    BY <1>1, <1>a DEF Plan, Return, RunnerType
  <2>4. outcome' \in [Runners -> {"none", "succeeded", "failed", "threw", "crashed"}]
    BY <1>1, <1>a DEF Plan, Return, RunnerType
  <2>5. RunnerType'
    BY <1>1, <1>a, <2>2, <2>3, <2>4, OrderLemma DEF Plan, RunnerType
  <2>6. Located'
    BY <1>1, <1>a, <2>3, StaysLocated DEF Plan, Return, RunnerType
  <2>7. QED
    BY <2>1, <2>5, <2>6 DEF TypeOK
<1>2. CASE Skip(r) \/ FinishMigrate(r)
  <2>1. DatabaseType'
    BY <1>2, <1>a DEF Skip, FinishMigrate, DatabaseType, dbVars, historyVars
  <2>2. RunnerType'
    <3>1. CASE Skip(r)
      <4>1. pos[r] + 1 \in 1..(Len(Order) + 1)
        BY <1>a, <3>1, OrderLemma DEF Skip, RunnerType
      <4>2. QED
        BY <1>a, <3>1, <4>1 DEF Skip, RunnerType
    <3>2. CASE FinishMigrate(r)
      BY <1>a, <3>2 DEF FinishMigrate, Return, RunnerType
    <3>3. QED
      BY <1>2, <3>1, <3>2
  <2>3. Located'
    BY <1>2, <1>a, StaysLocated DEF Skip, FinishMigrate, Return, RunnerType
  <2>4. QED
    BY <2>1, <2>2, <2>3 DEF TypeOK
<1>3. CASE BeginMigration(r)
  <2>1. DatabaseType'
    BY <1>3, <1>a DEF BeginMigration, DatabaseType, dbVars, historyVars
  <2>2. RunnerType'
    <3>1. CASE /\ pc' = [pc EXCEPT ![r] = "step"] /\ step' = [step EXCEPT ![r] = 1]
               /\ executed' = [executed EXCEPT ![r] = 0] /\ last' = [last EXCEPT ![r] = 0]
               /\ UNCHANGED outcome
      BY <1>3, <1>a, <3>1 DEF BeginMigration, Return, RunnerType
    <3>2. CASE Return(r, "threw") /\ UNCHANGED <<step, executed, last>>
      BY <1>3, <1>a, <3>2 DEF BeginMigration, Return, RunnerType
    <3>3. QED
      BY <1>3, <3>1, <3>2 DEF BeginMigration
  <2>3. Length[Order[pos[r]]] \in Nat
    BY <1>3, <1>a, OrderLemma, MigrationsAssumption DEF BeginMigration, RunnerType
  <2>4. \/ pc'[r] = "step" /\ step'[r] = 1
        \/ pc'[r] = "idle"
    BY <1>3, <1>a DEF BeginMigration, Return, RunnerType
  <2>5. \/ pc'[r] \in {"idle", "next"}
        \/ /\ pos'[r] <= Len(Order)
           /\ step'[r] <= Length[Order[pos'[r]]] + IF pc'[r] = "checkpoint" THEN 0 ELSE 1
    BY <1>3, <2>3, <2>4 DEF BeginMigration
  <2>6. \A q \in Runners \ {r} : pc'[q] = pc[q] /\ pos'[q] = pos[q] /\ step'[q] = step[q]
    BY <1>3, <1>a DEF BeginMigration, Return, RunnerType
  <2>7. Located'
    BY <2>5, <2>6, StaysLocated
  <2>8. QED
    BY <2>1, <2>2, <2>7 DEF TypeOK
<1>4. CASE Execute(r)
  BY <1>4, ExecuteType
<1>5. CASE UpdateCheckpoint(r)
  <2>1. pc[r] \notin {"idle", "next"} /\ Current(r) \in Ids
    BY <1>5, AtWork DEF UpdateCheckpoint
  <2>2. DatabaseType'
    BY <1>5, <1>a, <2>1 DEF UpdateCheckpoint, DatabaseType, RunnerType, historyVars
  <2>3. RunnerType'
    BY <1>5, <1>a DEF UpdateCheckpoint, Advance, RunnerType
  <2>4. /\ pc'[r] = "step" /\ step'[r] = step[r] + 1 /\ pos'[r] = pos[r]
        /\ pos[r] \in 1..Len(Order) /\ Length[Order[pos[r]]] \in Nat
        /\ step[r] \in Nat /\ step[r] <= Length[Order[pos[r]]]
    BY <1>5, <1>a, <2>1, AtWork DEF UpdateCheckpoint, Advance, RunnerType, Current
  <2>5. Located'
    BY <1>5, <1>a, <2>4, OrderLemma, StaysLocated DEF UpdateCheckpoint, Advance, RunnerType
  <2>6. QED
    BY <2>2, <2>3, <2>5 DEF TypeOK
<1>6. CASE RecordCompleted(r)
  <2>1. Current(r) \in Ids /\ pos[r] \in 1..Len(Order)
    BY <1>6, AtWork DEF RecordCompleted
  <2>2. DatabaseType'
    BY <1>6, <2>1, RowType DEF RecordCompleted, KeepRow, TypeOK, DatabaseType, historyVars
  <2>3. CASE GoOn(r)
    BY <1>6, <1>a, <2>1, <2>2, <2>3, OrderLemma, StaysLocated
    DEF RecordCompleted, GoOn, RunnerType, TypeOK
  <2>4. CASE pc' = [pc EXCEPT ![r] = "recordFailure"] /\ UNCHANGED pos
    <3>1. RunnerType'
      BY <1>6, <1>a, <2>4 DEF RecordCompleted, RunnerType
    <3>2. step'[r] <= Length[Order[pos'[r]]] + 1 /\ pos'[r] <= Len(Order)
      BY <1>6, <2>4, AtWork DEF RecordCompleted, Current
    <3>3. Located'
      BY <1>6, <1>a, <2>4, <3>2, StaysLocated DEF RecordCompleted, RunnerType
    <3>4. QED
      BY <2>2, <3>1, <3>3 DEF TypeOK
  <2>5. QED
    BY <1>6, <2>3, <2>4 DEF RecordCompleted
<1>7. CASE RecordFailure(r)
  <2>1. Current(r) \in Ids /\ pos[r] \in 1..Len(Order) /\ last[r] \in Nat
    BY <1>7, AtWork DEF RecordFailure, TypeOK, RunnerType
  <2>2. DatabaseType'
    BY <1>7, <2>1, RowType DEF RecordFailure, KeepRow, TypeOK, DatabaseType
  <2>3. CASE GoOn(r) /\ outcome' = [outcome EXCEPT ![r] = "failed"]
    BY <1>7, <1>a, <2>1, <2>2, <2>3, OrderLemma, StaysLocated
    DEF RecordFailure, GoOn, RunnerType, TypeOK
  <2>4. CASE (Return(r, "failed") \/ Return(r, "threw")) /\ UNCHANGED pos
    BY <1>7, <1>a, <2>2, <2>4, StaysLocated DEF RecordFailure, Return, RunnerType, TypeOK
  <2>5. QED
    BY <1>7, <2>3, <2>4 DEF RecordFailure
<1>8. CASE Crash(r)
  <2>1. pc[r] # "next" => Current(r) \in Ids
    BY <1>8, AtWork DEF Crash, TypeOK, RunnerType
  <2>2. QED
    BY <1>8, <2>1 DEF Crash, Return, TypeOK, DatabaseType, RunnerType, Located, dbVars
<1>9. QED
  BY <1>1, <1>2, <1>3, <1>4, <1>5, <1>6, <1>7, <1>8 DEF RunnerStep

-----------------------------------------------------------------------------
(* Steps that leave the steps done alone and remove no row but through the *)
(* operator: all but Execute.                                              *)

Quiet ==
  /\ UNCHANGED <<times, excused>>
  /\ touched \subseteq touched'
  /\ \A m \in Ids : HasRow(m) => HasRow(m)'

Stays(q) ==
  pc'[q] = pc[q] /\ pos'[q] = pos[q] /\ known'[q] = known[q] /\ step'[q] = step[q]

LEMMA QuietDone ==
  ASSUME Quiet
  PROVE  \A s : (Present(s) <=> Present(s)') /\ (Done(s) <=> Done(s)')
BY DEF Quiet, Present, Done

LEMMA QuietStays ==
  ASSUME Quiet, TypeOK, NEW q \in Runners, Stays(q)
  PROVE  /\ RunnerOK(q) => RunnerOK(q)'
         /\ RowOK(q) => RowOK(q)'
<1>1. Current(q)' = Current(q) /\ CurrentStep(q)' = CurrentStep(q)
  BY DEF Stays, Current, CurrentStep
<1>2. RunnerOK(q) => RunnerOK(q)'
  BY <1>1, QuietDone DEF Stays, RunnerOK
<1>3. known[q] \subseteq Ids
  BY DEF TypeOK, RunnerType
<1>4. RowOK(q) => RowOK(q)'
  BY <1>3, OrderLemma DEF Stays, RowOK, Quiet
<1>5. QED
  BY <1>2, <1>4

\* What a quiet step keeps whoever takes it.
LEMMA QuietKeeps ==
  ASSUME IInv, Quiet
  PROVE  PrefixDone' /\ OrderKept'
<1>1. PrefixDone'
  BY QuietDone DEF IInv, PrefixDone
<1>2. OrderKept'
  <2>1. SUFFICES ASSUME NEW i \in 1..Len(Order), NEW j \in 1..Len(Order), i < j,
                        Order[i] \notin touched',
                        NEW k \in 1..Length[Order[j]], Present(<<Order[j], k>>)'
                 PROVE  record'[Order[i]] # "none"
    BY DEF OrderKept
  <2>2. Present(<<Order[j], k>>) /\ Order[i] \notin touched
    BY <2>1, QuietDone DEF Quiet
  <2>3. HasRow(Order[i])
    BY <2>1, <2>2 DEF IInv, OrderKept, HasRow
  <2>4. HasRow(Order[i])'
    BY <2>3, OrderLemma DEF Quiet
  <2>5. QED
    BY <2>1, <2>4 DEF HasRow
<1>3. QED
  BY <1>1, <1>2

\* A quiet step of runner r, reduced to what is particular to r.
LEMMA QuietStep ==
  ASSUME IInv, TypeOK', Quiet, NEW r \in Runners,
         \A q \in Runners \ {r} : Stays(q) /\ outcome'[q] = outcome[q],
         RunnerOK(r)', RowOK(r)',
         outcome'[r] = "succeeded" => outcome[r] = "succeeded" \/ \A m \in Given : HasRow(m),
         \A m \in Ids \ touched' : record'[m] = "completed" =>
           record[m] = "completed" \/ \A i \in 1..Length[m] : Done(<<m, i>>)
  PROVE  IInv'
<1>1. RunnersOK'
  BY QuietStays DEF RunnersOK, IInv
<1>2. SuccessIsRecorded'
  <2>1. SUFFICES ASSUME NEW q \in Runners, outcome'[q] = "succeeded",
                        NEW m \in Given \ touched'
                 PROVE  record'[m] # "none"
    BY DEF SuccessIsRecorded, Given
  <2>2. HasRow(m)
    BY <2>1 DEF IInv, SuccessIsRecorded, HasRow, Quiet
  <2>3. QED
    BY <2>1, <2>2, OrderLemma DEF Quiet, HasRow
<1>3. CompletedIsDone'
  BY QuietDone DEF IInv, CompletedIsDone, Quiet
<1>4. QED
  BY <1>1, <1>2, <1>3, QuietKeeps DEF IInv

\* The frame of a step of runner r.
LEMMA OthersStay ==
  ASSUME IInv, NEW r \in Runners, RunnerStep(r)
  PROVE  \A q \in Runners \ {r} : Stays(q) /\ outcome'[q] = outcome[q]
<1>1. RunnerType
  BY DEF IInv, TypeOK
<1>2. CASE Plan(r) \/ Skip(r) \/ BeginMigration(r) \/ FinishMigrate(r)
  BY <1>1, <1>2 DEF Plan, Skip, BeginMigration, FinishMigrate, Return, RunnerType, Stays
<1>3. CASE Execute(r) \/ UpdateCheckpoint(r)
  BY <1>1, <1>3 DEF Execute, StepSucceeds, StepExcused, StepFails, UpdateCheckpoint, Advance,
                    RunnerType, Stays
<1>4. CASE RecordCompleted(r) \/ RecordFailure(r) \/ Crash(r)
  BY <1>1, <1>4 DEF RecordCompleted, RecordFailure, GoOn, Return, Crash, RunnerType, Stays
<1>5. QED
  BY <1>2, <1>3, <1>4 DEF RunnerStep

\* The step that touches the data.
LEMMA ExecuteInv ==
  ASSUME IInv, NEW r \in Runners, Execute(r)
  PROVE  IInv'
<1> DEFINE c == CurrentStep(r)
<1>1. TypeOK /\ TypeOK' /\ RunnersOK
  BY ExecuteType DEF IInv
<1>2. /\ pos[r] \in 1..Len(Order) /\ Current(r) \in Ids
      /\ Length[Current(r)] \in Nat /\ step[r] \in 1..Length[Current(r)]
      /\ c = <<Current(r), step[r]>> /\ c \in Steps
  BY <1>1, AtWork DEF Execute, CurrentStep
<1>3. \A i \in 1..Length[Current(r)] : i < step[r] => Done(<<Current(r), i>>)
  BY <1>1 DEF Execute, RunnersOK, RunnerOK
<1>4. /\ \A s \in Steps : Done(s) => Done(s)'
      /\ \A s \in Steps : s # c => (Done(s)' => Done(s))
      /\ \A s \in Steps : s # c => (Present(s)' => Present(s))
  BY <1>1, DoneStays DEF Present
<1>5. UNCHANGED <<pos, known, outcome, record, touched>>
  BY DEF Execute
<1>6. PrefixDone'
  <2>1. SUFFICES ASSUME NEW m \in Ids, NEW i \in 1..Length[m], NEW j \in 1..Length[m], i < j,
                        Done(<<m, j>>)'
                 PROVE  Done(<<m, i>>)'
    BY DEF PrefixDone
  <2>2. <<m, i>> \in Steps /\ <<m, j>> \in Steps
    BY <2>1, StepsLemma
  <2>3. CASE <<m, j>> = c
    BY <1>2, <1>3, <1>4, <2>1, <2>2, <2>3
  <2>4. CASE <<m, j>> # c
    BY <1>4, <2>1, <2>2, <2>4 DEF IInv, PrefixDone
  <2>5. QED
    BY <2>3, <2>4
<1>7. CompletedIsDone'
  BY <1>4, <1>5, StepsLemma DEF IInv, CompletedIsDone
<1>8. SuccessIsRecorded'
  BY <1>5 DEF IInv, SuccessIsRecorded, Given
<1>9. OrderKept'
  <2>1. SUFFICES ASSUME NEW i \in 1..Len(Order), NEW j \in 1..Len(Order), i < j,
                        Order[i] \notin touched,
                        NEW k \in 1..Length[Order[j]], Present(<<Order[j], k>>)'
                 PROVE  record[Order[i]] # "none"
    BY <1>5 DEF OrderKept
  <2>2. <<Order[j], k>> \in Steps
    BY <2>1, StepsLemma, OrderLemma
  <2>3. CASE <<Order[j], k>> = c
    <3>1. j = pos[r]
      BY <1>2, <2>1, <2>3, MigrationsAssumption DEF Current
    <3>2. HasRow(Order[i])
      BY <1>1, <2>1, <3>1 DEF Execute, RunnersOK, RowOK
    <3>3. QED
      BY <2>1, <3>2 DEF HasRow
  <2>4. CASE <<Order[j], k>> # c
    BY <1>4, <2>1, <2>2, <2>4 DEF IInv, OrderKept
  <2>5. QED
    BY <2>3, <2>4
<1>10. RunnersOK'
  <2>1. SUFFICES ASSUME NEW q \in Runners PROVE RunnerOK(q)' /\ RowOK(q)'
    BY DEF RunnersOK
  <2>2. Current(q)' = Current(q)
    BY <1>5 DEF Current
  <2>3. RowOK(q)'
    BY <1>1, <1>5 DEF RunnersOK, RowOK, HasRow, Execute, StepSucceeds, StepExcused, StepFails,
                      RunnerType, TypeOK
  <2>4. CASE q # r
    <3>1. pc'[q] = pc[q] /\ step'[q] = step[q]
      BY <2>4, OthersStay DEF RunnerStep, Stays
    <3>2. CASE pc[q] \in {"step", "checkpoint", "recordFailure"}
      <4>1. PICK m \in Ids : m = Current(q)
        BY <1>1, <3>2, AtWork
      <4>2. PICK n \in Nat : n = step[q]
        BY <1>1 DEF TypeOK, RunnerType
      <4>3. \A i \in 1..Length[m] : i < n => Done(<<m, i>>)'
        BY <1>1, <1>4, <3>2, <4>1, <4>2, StepsLemma DEF RunnersOK, RunnerOK
      <4>4. pc[q] = "checkpoint" => <<m, n>> \in Steps /\ Done(<<m, n>>)
        BY <1>1, <3>2, <4>1, <4>2, AtWork DEF RunnersOK, RunnerOK, CurrentStep
      <4>5. CurrentStep(q)' = <<m, n>>
        BY <2>2, <3>1, <4>1, <4>2 DEF CurrentStep
      <4>6. pc[q] = "checkpoint" => Done(CurrentStep(q))'
        BY <1>4, <4>4, <4>5 DEF Done, Present
      <4>7. RunnerOK(q)'
        BY <2>2, <3>1, <4>1, <4>2, <4>3, <4>6 DEF RunnerOK, Done, Present
      <4>8. QED
        BY <2>3, <4>7
    <3>3. CASE pc[q] \notin {"step", "checkpoint", "recordFailure"}
      <4>1. RunnerOK(q)'
        BY <3>1, <3>3 DEF RunnerOK
      <4>2. QED
        BY <2>3, <4>1
    <3>4. QED
      BY <2>3, <3>2, <3>3
  <2>5. CASE q = r
    <3>1. PICK m \in Ids : m = Current(r)
      BY <1>2
    <3>2. PICK n \in 1..Length[m] : n = step[r]
      BY <1>2, <3>1
    <3>3. c = <<m, n>> /\ Length[m] \in Nat /\ pc[r] = "step" /\ RunnerType
      BY <1>1, <1>2, <3>1, <3>2 DEF Execute, TypeOK
    <3>4. \A i \in 1..Length[m] : i < n => Done(<<m, i>>)'
      BY <1>3, <1>4, <3>1, <3>2, StepsLemma
    <3>5. \/ Done(<<m, n>>)' /\ step'[r] = n + 1 /\ pc'[r] = "step"
          \/ Done(<<m, n>>)' /\ step'[r] = n
          \/ pc'[r] = "recordFailure" /\ step'[r] = n
      <4>1. CASE StepSucceeds(r)
        <5>1. times'[<<m, n>>] > 0
          BY <1>1, <1>2, <3>3, <4>1
          DEF StepSucceeds, TakeEffect, Present, TypeOK, DatabaseType
        <5>2. step' = step \/ (step' = [step EXCEPT ![r] = @ + 1] /\ pc' = pc)
          BY <4>1 DEF StepSucceeds, Advance
        <5>3. QED
          BY <3>2, <3>3, <5>1, <5>2 DEF Done, Present, RunnerType
      <4>2. CASE StepExcused(r)
        <5>1. <<m, n>> \in excused'
          BY <3>3, <4>2 DEF StepExcused
        <5>2. step' = [step EXCEPT ![r] = @ + 1] /\ pc' = pc
          BY <4>2 DEF StepExcused, Advance
        <5>3. QED
          BY <3>2, <3>3, <5>1, <5>2 DEF Done, RunnerType
      <4>3. CASE StepFails(r)
        BY <3>2, <3>3, <4>3 DEF StepFails, RunnerType
      <4>4. QED
        BY <4>1, <4>2, <4>3 DEF Execute
    <3>6. /\ \A i \in 1..Length[m] : i < step'[r] => Done(<<m, i>>)'
          /\ pc'[r] = "checkpoint" => step'[r] = n /\ Done(<<m, n>>)'
      BY <3>2, <3>3, <3>4, <3>5
    <3>7. RunnerOK(r)'
      <4>1. Current(r)' = m
        BY <2>2, <2>5, <3>1
      <4>2. CurrentStep(r)' = <<m, step'[r]>>
        BY <4>1 DEF CurrentStep
      <4>3. QED
        BY <3>6, <4>1, <4>2 DEF RunnerOK, Done, Present
    <3>8. QED
      BY <2>3, <2>5, <3>7
  <2>6. QED
    BY <2>4, <2>5
<1>11. QED
  BY <1>1, <1>6, <1>7, <1>8, <1>9, <1>10 DEF IInv

\* A runner's step that leaves rows and data alone.
LEMMA RowlessStep ==
  ASSUME IInv, NEW r \in Runners,
         Plan(r) \/ Skip(r) \/ BeginMigration(r) \/ FinishMigrate(r) \/ UpdateCheckpoint(r)
           \/ Crash(r)
  PROVE  IInv'
<1>1. TypeOK /\ TypeOK' /\ RunnerType /\ RunnerOK(r) /\ RowOK(r)
  BY RunnerStepType DEF RunnerStep, IInv, RunnersOK, TypeOK
<1>2. /\ UNCHANGED <<record, times, excused, touched>>
      /\ Quiet /\ \A m : HasRow(m)' <=> HasRow(m)
  BY DEF Plan, Skip, BeginMigration, FinishMigrate, UpdateCheckpoint, Crash, dbVars,
         historyVars, Quiet, HasRow
<1>3. \A q \in Runners \ {r} : Stays(q) /\ outcome'[q] = outcome[q]
  BY OthersStay DEF RunnerStep
<1>4. SUFFICES /\ RunnerOK(r)' /\ RowOK(r)'
               /\ outcome'[r] = "succeeded" =>
                    outcome[r] = "succeeded" \/ \A m \in Given : HasRow(m)
  BY <1>1, <1>2, <1>3, QuietStep
<1>5. CASE Plan(r)
  <2>1. pc'[r] \in {"idle", "next"} /\ pos'[r] = 1 /\ known'[r] = Recorded
    BY <1>1, <1>5 DEF Plan, Return, RunnerType
  <2>2. outcome'[r] # "succeeded"
    BY <1>1, <1>5 DEF Plan, Return, RunnerType
  <2>3. QED
    BY <1>2, <2>1, <2>2, OrderLemma DEF RunnerOK, RowOK, Recorded, HasRow
<1>6. CASE Skip(r)
  <2>1. /\ pc'[r] = "next" /\ pc[r] = "next" /\ pos'[r] = pos[r] + 1 /\ known' = known
        /\ pos[r] \in Nat /\ outcome' = outcome
    BY <1>1, <1>6 DEF Skip, RunnerType
  <2>2. \A i \in 1..Len(Order) : i < pos[r] + 1 => HasRow(Order[i])
    BY <1>1, <1>6, <2>1, OrderLemma DEF Skip, Current, RowOK
  <2>3. QED
    BY <1>1, <1>2, <2>1, <2>2 DEF RunnerOK, RowOK
<1>7. CASE BeginMigration(r)
  <2>1. /\ pc[r] = "next" /\ pos' = pos /\ known' = known
        /\ outcome'[r] \in {outcome[r], "threw"}
        /\ \/ pc'[r] = "step" /\ step'[r] = 1
           \/ pc'[r] = "idle"
    BY <1>1, <1>7 DEF BeginMigration, Return, RunnerType
  <2>2. RowOK(r)'
    BY <1>1, <1>2, <2>1 DEF RowOK
  <2>3. RunnerOK(r)'
    BY <2>1 DEF RunnerOK
  <2>4. QED
    BY <2>1, <2>2, <2>3
<1>8. CASE FinishMigrate(r)
  <2>1. \A m \in Given : HasRow(m)
    <3>1. pc[r] = "next" /\ pos[r] \in Nat /\ pos[r] > Len(Order)
      BY <1>1, <1>8, OrderLemma DEF FinishMigrate, RunnerType
    <3>2. \A i \in 1..Len(Order) : HasRow(Order[i])
      BY <1>1, <3>1, OrderLemma DEF RowOK
    <3>3. QED
      BY <3>2 DEF Given
  <2>2. pc'[r] = "idle"
    BY <1>1, <1>8 DEF FinishMigrate, Return, RunnerType
  <2>3. QED
    BY <2>1, <2>2 DEF RunnerOK, RowOK
<1>9. CASE UpdateCheckpoint(r)
  <2>1. PICK m \in Ids : m = Current(r)
    BY <1>1, <1>9, AtWork DEF UpdateCheckpoint
  <2>2. PICK n \in 1..Length[m] : n = step[r]
    BY <1>1, <1>9, <2>1, AtWork DEF UpdateCheckpoint
  <2>3. /\ pc[r] = "checkpoint" /\ pc'[r] = "step" /\ step'[r] = n + 1 /\ pos' = pos
        /\ known' = known /\ outcome' = outcome
    BY <1>1, <1>9, <2>2 DEF UpdateCheckpoint, Advance, RunnerType
  <2>4. \A i \in 1..Length[m] : i < n + 1 => Done(<<m, i>>)
    <3>1. Length[m] \in Nat
      BY MigrationsAssumption
    <3>2. Done(<<m, n>>)
      BY <1>1, <2>1, <2>2, <2>3 DEF RunnerOK, CurrentStep
    <3>3. \A i \in 1..Length[m] : i < n => Done(<<m, i>>)
      BY <1>1, <2>1, <2>2, <2>3 DEF RunnerOK
    <3>4. \A i \in 1..Length[m] : i < n + 1 => i < n \/ i = n
      BY <2>2, <3>1
    <3>5. QED
      BY <3>2, <3>3, <3>4
  <2>5. Current(r)' = m
    BY <2>1, <2>3 DEF Current
  <2>6. RunnerOK(r)'
    BY <1>2, <2>3, <2>4, <2>5, QuietDone DEF RunnerOK
  <2>7. RowOK(r)'
    BY <1>1, <1>2, <2>3 DEF RowOK
  <2>8. QED
    BY <2>3, <2>6, <2>7
<1>10. CASE Crash(r)
  <2>1. pc'[r] = "idle" /\ outcome'[r] = "crashed"
    BY <1>1, <1>10 DEF Crash, Return, RunnerType
  <2>2. QED
    BY <2>1 DEF RunnerOK, RowOK
<1>11. QED
  BY <1>5, <1>6, <1>7, <1>8, <1>9, <1>10

\* A runner's step that writes a row.
LEMMA RowStep ==
  ASSUME IInv, NEW r \in Runners, RecordCompleted(r) \/ RecordFailure(r)
  PROVE  IInv'
<1>1. TypeOK /\ TypeOK' /\ RunnerType /\ RunnerOK(r) /\ RowOK(r)
  BY RunnerStepType DEF RunnerStep, IInv, RunnersOK, TypeOK
<1>2. PICK m \in Ids : m = Current(r)
  BY <1>1, AtWork DEF RecordCompleted, RecordFailure
<1>3. /\ UNCHANGED <<times, excused, touched, step, known>>
      /\ pos[r] \in 1..Len(Order) /\ m = Order[pos[r]]
  BY <1>1, <1>2, AtWork DEF RecordCompleted, RecordFailure, historyVars, Current
<1>4. record' = record \/ \E status \in {"completed", "failed", "partial"} :
                            record' = [record EXCEPT ![m] = status]
  BY <1>2 DEF RecordCompleted, RecordFailure, WriteRow, KeepRow
<1>5. record \in [Ids -> {"none", "completed", "failed", "partial"}]
  BY <1>1 DEF TypeOK, DatabaseType
<1>6. Quiet
  BY <1>3, <1>4, <1>5 DEF Quiet, HasRow
<1>7. \A q \in Runners \ {r} : Stays(q) /\ outcome'[q] = outcome[q]
  BY OthersStay DEF RunnerStep
<1>8. \A n \in Ids \ touched' : record'[n] = "completed" =>
        record[n] = "completed" \/ \A i \in 1..Length[n] : Done(<<n, i>>)
  <2>1. CASE RecordCompleted(r)
    <3>1. \A i \in 1..Length[m] : Done(<<m, i>>)
      BY <1>1, <1>2, <2>1, MigrationsAssumption DEF RecordCompleted, RunnerOK, RunnerType
    <3>2. QED
      BY <1>4, <1>5, <3>1
  <2>2. CASE RecordFailure(r)
    <3>1. record' = record \/ record' = [record EXCEPT ![m] = "failed"]
            \/ record' = [record EXCEPT ![m] = "partial"]
      BY <1>2, <2>2 DEF RecordFailure, WriteRow, KeepRow
    <3>2. QED
      BY <1>5, <3>1
  <2>3. QED
    BY <2>1, <2>2
<1>9. outcome'[r] = "succeeded" => outcome[r] = "succeeded"
  BY <1>1 DEF RecordCompleted, RecordFailure, Return, RunnerType
<1>10. \/ /\ pc'[r] = "next" /\ pos'[r] = pos[r] + 1
          /\ record'[m] # "none"
       \/ pc'[r] = "recordFailure" /\ pos' = pos
       \/ pc'[r] = "idle"
  BY <1>1, <1>2, <1>5
  DEF RecordCompleted, RecordFailure, WriteRow, GoOn, Return, RunnerType
<1>11. pc[r] \in {"step", "recordFailure"}
  BY DEF RecordCompleted, RecordFailure
<1>12. RowOK(r)'
  <2>1. /\ \A i \in 1..Len(Order) : i < pos[r] => HasRow(Order[i])'
        /\ \A n \in known[r] : HasRow(n)'
    BY <1>1, <1>6, <1>11, OrderLemma DEF RowOK, Quiet, RunnerType
  <2>2. CASE pc'[r] = "next" /\ pos'[r] = pos[r] + 1 /\ record'[m] # "none"
    <3>1. \A i \in 1..Len(Order) : i < pos'[r] => HasRow(Order[i])'
      BY <1>3, <2>1, <2>2 DEF HasRow
    <3>2. QED
      BY <1>3, <2>1, <3>1 DEF RowOK
  <2>3. CASE pc'[r] = "recordFailure" /\ pos' = pos
    BY <1>3, <2>1, <2>3 DEF RowOK
  <2>4. CASE pc'[r] = "idle"
    BY <2>4 DEF RowOK
  <2>5. QED
    BY <1>10, <2>2, <2>3, <2>4
<1>13. RunnerOK(r)'
  <2>1. CASE pc'[r] = "recordFailure" /\ pos' = pos
    <3>1. Current(r)' = m
      BY <1>2, <2>1 DEF Current
    <3>2. \A i \in 1..Length[m] : i < step[r] => Done(<<m, i>>)'
      BY <1>1, <1>2, <1>6, <1>11, QuietDone DEF RunnerOK
    <3>3. QED
      BY <1>3, <2>1, <3>1, <3>2 DEF RunnerOK, Done, Present
  <2>2. CASE pc'[r] \in {"next", "idle"}
    BY <2>2 DEF RunnerOK
  <2>3. QED
    BY <1>10, <2>1, <2>2
<1>14. QED
  BY <1>1, <1>6, <1>7, <1>8, <1>9, <1>12, <1>13, QuietStep

-----------------------------------------------------------------------------
(* The invariant.                                                          *)

LEMMA InitInv == Init => IInv
<1> SUFFICES ASSUME Init PROVE IInv
  OBVIOUS
<1>2. TypeOK
  <2>1. DatabaseType
    <3>1. 0 \in 0..MaxEdits
      BY BoundsAssumption
    <3>2. QED
      BY <3>1 DEF Init, DatabaseType
  <2>2. RunnerType
    BY BoundsAssumption, OrderLemma DEF Init, RunnerType
  <2>3. Located
    BY DEF Init, Located
  <2>4. QED
    BY <2>1, <2>2, <2>3 DEF TypeOK
<1>3. RunnersOK
  BY DEF Init, RunnersOK, RunnerOK, RowOK
<1>4. \A s \in Steps : ~Done(s) /\ ~Present(s)
  BY DEF Init, Done, Present
<1>5. PrefixDone /\ CompletedIsDone /\ SuccessIsRecorded /\ OrderKept
  BY <1>4, StepsLemma, OrderLemma
  DEF Init, PrefixDone, CompletedIsDone, SuccessIsRecorded, OrderKept
<1>6. QED
  BY <1>2, <1>3, <1>5 DEF IInv

\* Nobody at work, or somebody not at the runner: all runners stay.
LEMMA OutsideStep ==
  ASSUME IInv, TypeOK', Quiet,
         UNCHANGED runnerVars,
         \A m \in Ids \ touched' : record'[m] = record[m]
  PROVE  IInv'
<1>1. \A q \in Runners : Stays(q) /\ outcome'[q] = outcome[q]
  BY DEF runnerVars, Stays
<1>2. RunnersOK'
  BY <1>1, QuietStays DEF RunnersOK, IInv
<1>3. SuccessIsRecorded'
  BY <1>1, OrderLemma DEF IInv, SuccessIsRecorded, Quiet, Given
<1>4. CompletedIsDone'
  BY QuietDone DEF IInv, CompletedIsDone, Quiet
<1>5. QED
  BY <1>2, <1>3, <1>4, QuietKeeps DEF IInv

LEMMA NextInv == IInv /\ [Next]_vars => IInv'
<1> SUFFICES ASSUME IInv, [Next]_vars PROVE IInv'
  OBVIOUS
<1>a. DatabaseType /\ RunnerType /\ Located /\ TypeOK
  BY DEF IInv, TypeOK
<1>1. CASE \E r \in Runners : RunnerStep(r)
  BY <1>1, ExecuteInv, RowlessStep, RowStep DEF RunnerStep
<1>2. CASE Initialize
  <2>1. TypeOK'
    BY <1>a, <1>2 DEF Initialize, TypeOK, DatabaseType, RunnerType, Located, runnerVars,
                      historyVars
  <2>2. Quiet
    BY <1>2 DEF Initialize, Quiet, HasRow, historyVars
  <2>3. QED
    BY <1>2, <2>1, <2>2, OutsideStep DEF Initialize
<1>3. ASSUME NEW m \in Ids, MarkResolved(m) \/ RemoveMigrationRecord(m)
      PROVE  IInv'
  <2>1. /\ touched' = touched \cup {m}
        /\ UNCHANGED <<tracked, checksum, checkpoint, times, version, runnerVars, excused,
                       untracked>>
        /\ \/ record' = [record EXCEPT ![m] = "completed"]
           \/ record' = [record EXCEPT ![m] = "none"]
    BY <1>3 DEF MarkResolved, RemoveMigrationRecord
  <2>2. TypeOK'
    BY <1>a, <2>1 DEF TypeOK, DatabaseType, RunnerType, Located, runnerVars
  <2>3. Quiet
    BY <1>a, <2>1 DEF Quiet, HasRow, DatabaseType
  <2>4. \A n \in Ids \ touched' : record'[n] = record[n]
    BY <1>a, <2>1 DEF DatabaseType
  <2>5. QED
    BY <2>1, <2>2, <2>3, <2>4, OutsideStep
<1>4. ASSUME NEW m \in Ids, Edit(m)
      PROVE  IInv'
  <2>1. version[m] + 1 \in 0..MaxEdits
    BY <1>a, <1>4, BoundsAssumption DEF Edit, DatabaseType
  <2>2. TypeOK'
    BY <1>a, <1>4, <2>1
    DEF Edit, TypeOK, DatabaseType, RunnerType, Located, runnerVars, dbVars, historyVars
  <2>3. Quiet /\ record' = record /\ UNCHANGED runnerVars
    BY <1>4 DEF Edit, Quiet, HasRow, dbVars, historyVars
  <2>4. QED
    BY <2>2, <2>3, OutsideStep
<1>5. CASE UNCHANGED vars
  <2>1. TypeOK'
    BY <1>a, <1>5 DEF vars, TypeOK, DatabaseType, RunnerType, Located, dbVars, runnerVars,
                      historyVars
  <2>2. Quiet /\ record' = record /\ UNCHANGED runnerVars
    BY <1>5 DEF vars, Quiet, HasRow, dbVars, historyVars
  <2>3. QED
    BY <2>1, <2>2, OutsideStep
<1>6. QED
  BY <1>1, <1>2, <1>3, <1>4, <1>5 DEF Next

\* The runners of migrate() keep their invariant in every interleaving, with
\* crashes, lost answers and an operator at the tracking table.
THEOREM Invariance == Spec => []IInv
BY InitInv, NextInv, PTL DEF Spec

-----------------------------------------------------------------------------
(* What it implies.                                                        *)

\* Variables have their types, and a runner at work is at one of its steps.
THEOREM TypeCorrect == Spec => []TypeOK
<1>1. IInv => TypeOK
  BY DEF IInv
<1>2. QED
  BY <1>1, Invariance, PTL

\* The loop of runMigration: effects come in the order of the steps, however
\* many runners, crashes and lost answers there were.
THEOREM PrefixDoneAlways == Spec => []PrefixDone
<1>1. IInv => PrefixDone
  BY DEF IInv
<1>2. QED
  BY <1>1, Invariance, PTL

\* A row recordMigration wrote as completed is true.
THEOREM CompletedIsDoneAlways == Spec => []CompletedIsDone
<1>1. IInv => CompletedIsDone
  BY DEF IInv
<1>2. QED
  BY <1>1, Invariance, PTL

\* A successful migrate() left every migration with a row.
THEOREM SuccessIsRecordedAlways == Spec => []SuccessIsRecorded
<1>1. IInv => SuccessIsRecorded
  BY DEF IInv
<1>2. QED
  BY <1>1, Invariance, PTL

\* Migrations are taken in the order given to migrate().
THEOREM OrderKeptAlways == Spec => []OrderKept
<1>1. IInv => OrderKept
  BY DEF IInv
<1>2. QED
  BY <1>1, Invariance, PTL

-----------------------------------------------------------------------------
(* Nothing is executed while a migration that has a row was edited.        *)

\* While a runner is at work, the rows of its migrations are those of their
\* source: plan() compared them, and the source is edited only between runs.
Checked ==
  (\E r \in Runners : pc[r] # "idle") =>
    \A m \in Given : record[m] # "none" => checksum[m] = version[m]

\* A row is written with the checksum of the source it was executed from.
LEMMA RowsMatch ==
  ASSUME TypeOK, NEW r \in Runners, RecordCompleted(r) \/ RecordFailure(r)
  PROVE  \A m \in Ids : record'[m] # "none" =>
           \/ checksum'[m] = version[m]
           \/ record[m] # "none" /\ checksum'[m] = checksum[m]
<1>1. PICK m \in Ids : m = Current(r)
  BY AtWork DEF RecordCompleted, RecordFailure
<1>2. \/ KeepRow
      \/ \E status, cp : WriteRow(m, status, cp)
  BY <1>1 DEF RecordCompleted, RecordFailure
<1>3. QED
  BY <1>1, <1>2 DEF KeepRow, WriteRow, TypeOK, DatabaseType

LEMMA CheckedStep ==
  ASSUME TypeOK, Checked, [Next]_vars
  PROVE  Checked'
<1>a. DatabaseType /\ RunnerType
  BY DEF TypeOK
<1>1. ASSUME NEW r \in Runners, Plan(r) PROVE Checked'
  <2>1. UNCHANGED <<record, checksum, version>>
    BY <1>1 DEF Plan, dbVars
  <2>2. CASE Conflicts(Recorded) = {}
    <3>1. \A m \in Given : record[m] # "none" => checksum[m] = version[m]
      BY <2>2, OrderLemma DEF Conflicts, Recorded
    <3>2. QED
      BY <2>1, <3>1 DEF Checked
  <2>3. CASE Return(r, "threw")
    <3>1. pc' = pc
      BY <1>1, <1>a, <2>3 DEF Plan, Return, RunnerType
    <3>2. QED
      BY <2>1, <3>1 DEF Checked
  <2>4. QED
    BY <1>1, <2>2, <2>3 DEF Plan
<1>2. ASSUME NEW r \in Runners, RecordCompleted(r) \/ RecordFailure(r) PROVE Checked'
  <2>1. pc[r] # "idle" /\ version' = version
    BY <1>2 DEF RecordCompleted, RecordFailure
  <2>2. QED
    BY <1>2, <2>1, RowsMatch, OrderLemma DEF Checked
<1>3. ASSUME NEW r \in Runners,
             \/ Skip(r) \/ BeginMigration(r) \/ FinishMigrate(r) \/ Execute(r)
             \/ UpdateCheckpoint(r) \/ Crash(r)
      PROVE  Checked'
  <2>1. pc[r] # "idle" /\ UNCHANGED <<record, checksum, version>>
    BY <1>3 DEF Skip, BeginMigration, FinishMigrate, Execute, UpdateCheckpoint, Crash, dbVars
  <2>2. QED
    BY <2>1 DEF Checked
<1>4. ASSUME NEW m \in Ids, MarkResolved(m) \/ RemoveMigrationRecord(m) PROVE Checked'
  <2>1. /\ record[m] # "none" /\ UNCHANGED <<pc, checksum, version>>
        /\ \/ record' = [record EXCEPT ![m] = "completed"]
           \/ record' = [record EXCEPT ![m] = "none"]
    BY <1>4 DEF MarkResolved, RemoveMigrationRecord, runnerVars
  <2>2. \A n \in Ids : record'[n] # "none" => record[n] # "none"
    BY <1>a, <2>1 DEF DatabaseType
  <2>3. QED
    BY <2>1, <2>2, OrderLemma DEF Checked
<1>5. ASSUME NEW m \in Ids, Edit(m) PROVE Checked'
  BY <1>5 DEF Edit, Checked, runnerVars
<1>6. CASE Initialize \/ UNCHANGED vars
  BY <1>6 DEF Initialize, vars, dbVars, runnerVars, Checked
<1>7. QED
  BY <1>1, <1>2, <1>3, <1>4, <1>5, <1>6 DEF Next, RunnerStep

\* plan() refuses to work, and goes on refusing, while a migration that has a
\* row differs from its source, however many runners there are: no run that
\* planned before the edit is still executing.
THEOREM ModifiedBlocksAlways == Spec => ModifiedBlocks
<1>1. Init => Checked
  BY DEF Init, Checked
<1>2. TypeOK /\ Checked /\ [Next]_vars => Checked'
  BY CheckedStep
<1>3. TypeOK /\ Checked /\ [Next]_vars =>
        [(\E m \in Given : record[m] # "none" /\ checksum[m] # version[m])
           => UNCHANGED times]_vars
  <2>1. SUFFICES ASSUME TypeOK, Checked, Next, NEW m \in Given,
                        record[m] # "none", checksum[m] # version[m]
                 PROVE  UNCHANGED times
    OBVIOUS
  <2>2. \A r \in Runners : ~Execute(r)
    BY <2>1 DEF Checked, Execute
  <2>3. QED
    BY <2>1, <2>2 DEF Next, RunnerStep, Plan, Skip, BeginMigration, FinishMigrate,
       UpdateCheckpoint, RecordCompleted, RecordFailure, Crash, Initialize, MarkResolved,
       RemoveMigrationRecord, Edit, dbVars
<1>4. QED
  BY <1>1, <1>2, <1>3, TypeCorrect, PTL DEF Spec, ModifiedBlocks

-----------------------------------------------------------------------------
(* One runner at a time.                                                   *)

OneAtATime == \A q, r \in Runners : pc[q] # "idle" /\ pc[r] # "idle" => q = r

Working(r) == pc[r] \in {"step", "checkpoint", "recordFailure"}
Clean(m) == m \notin touched \cup untracked

\* A migration without a row, that nobody works on and whose runs all wrote
\* their rows, has not begun.
Fresh ==
  \A m \in Ids : Clean(m) /\ record[m] = "none" /\ (\A r \in Runners : Working(r) => Current(r) # m)
    => \A i \in 1..Length[m] : times[<<m, i>>] = 0

\* The first step that the runner's migration has yet to come to.
Coming(r) == IF pc[r] = "checkpoint" THEN step[r] + 1 ELSE step[r]

\* The run under way is the first to execute its migration.
FirstRun(r) ==
  Working(r) /\ Clean(Current(r)) =>
    \A i \in 1..Length[Current(r)] :
      /\ times[<<Current(r), i>>] <= 1
      /\ pc[r] # "recordFailure" /\ i >= Coming(r) => times[<<Current(r), i>>] = 0

\* A migration ahead of the runner that had no row when it planned has none yet.
Ahead(r) ==
  pc[r] # "idle" =>
    \A i \in 1..Len(Order) :
      i > pos[r] \/ (i = pos[r] /\ pc[r] = "next")
        => Order[i] \in known[r] \cup touched \/ record[Order[i]] = "none"

SerialInv == RunsOnce /\ Fresh /\ \A r \in Runners : FirstRun(r) /\ Ahead(r)

\* What a step leaves of the invariant when it executes nothing and only one
\* runner, if any, is at work after it.
LEMMA SerialQuiet ==
  ASSUME TypeOK, SerialInv, UNCHANGED times,
         touched \subseteq touched', untracked \subseteq untracked',
         \A m \in Ids : Clean(m)' /\ record'[m] = "none"
                          /\ (\A r \in Runners : Working(r)' => Current(r)' # m)
            => record[m] = "none" /\ \A r \in Runners : Working(r) => Current(r) # m
  PROVE  RunsOnce' /\ Fresh'
<1>1. RunsOnce'
  BY DEF SerialInv, RunsOnce
<1>2. Fresh'
  <2>1. SUFFICES ASSUME NEW m \in Ids, Clean(m)', record'[m] = "none",
                        \A r \in Runners : Working(r)' => Current(r)' # m
                 PROVE  \A i \in 1..Length[m] : times[<<m, i>>] = 0
    BY DEF Fresh
  <2>2. Clean(m)
    BY <2>1 DEF Clean
  <2>3. QED
    BY <2>1, <2>2 DEF SerialInv, Fresh
<1>3. QED
  BY <1>1, <1>2

\* An idle runner keeps its part.
LEMMA IdleSerial ==
  ASSUME NEW r \in Runners, pc'[r] = "idle"
  PROVE  FirstRun(r)' /\ Ahead(r)'
BY DEF FirstRun, Ahead, Working

\* Starting a call of migrate().
LEMMA PlanSerial ==
  ASSUME TypeOK, SerialInv, NEW r \in Runners, Plan(r), OneAtATime'
  PROVE  SerialInv'
<1>a. RunnerType /\ DatabaseType
  BY DEF TypeOK
<1>1. /\ pc[r] = "idle"
      /\ pos' = [pos EXCEPT ![r] = 1] \/ UNCHANGED pos
      /\ UNCHANGED <<step, record, times, touched, untracked>>
      /\ known' = [known EXCEPT ![r] = Recorded]
      /\ \/ pc' = [pc EXCEPT ![r] = "next"]
         \/ pc' = [pc EXCEPT ![r] = "idle"]
  BY DEF Plan, Return, dbVars, historyVars
<1>2. \A q \in Runners : Working(q)' <=> Working(q)
  BY <1>1, <1>a DEF Working, RunnerType
<1>3. \A q \in Runners : Working(q) => Current(q)' = Current(q) /\ Coming(q)' = Coming(q)
                                       /\ pc'[q] = pc[q] /\ known'[q] = known[q] /\ q # r
  BY <1>1, <1>a DEF Working, Current, Coming, RunnerType, Plan
<1>4. RunsOnce' /\ Fresh'
  <2>1. \A m \in Ids : (\A q \in Runners : Working(q)' => Current(q)' # m)
          => \A q \in Runners : Working(q) => Current(q) # m
    BY <1>2, <1>3
  <2>2. QED
    BY <1>1, <2>1, SerialQuiet
<1>5. ASSUME NEW q \in Runners PROVE FirstRun(q)'
  BY <1>1, <1>2, <1>3 DEF SerialInv, FirstRun, Clean
<1>6. ASSUME NEW q \in Runners PROVE Ahead(q)'
  <2>1. CASE q = r
    <3>1. known'[r] = Recorded
      BY <1>1, <1>a DEF RunnerType
    <3>2. QED
      BY <1>1, <2>1, <3>1, OrderLemma DEF Ahead, Recorded
  <2>2. CASE q # r
    <3>1. pc'[q] = pc[q] /\ pos'[q] = pos[q] /\ known'[q] = known[q]
      BY <1>1, <1>a, <2>2 DEF RunnerType, Plan
    <3>2. QED
      BY <1>1, <3>1 DEF SerialInv, Ahead
  <2>3. QED
    BY <2>1, <2>2
<1>7. QED
  BY <1>4, <1>5, <1>6 DEF SerialInv

\* The steps of the runner that is alone at work.
LEMMA AloneFrame ==
  ASSUME IInv, OneAtATime, NEW r \in Runners, pc[r] # "idle", RunnerStep(r)
  PROVE  \A q \in Runners \ {r} : pc[q] = "idle" /\ pc'[q] = "idle"
BY OthersStay DEF OneAtATime, Stays

\* Moving on in the loop of migrate(), beginning a migration.
LEMMA LoopSerial ==
  ASSUME IInv, SerialInv, OneAtATime, NEW r \in Runners,
         Skip(r) \/ BeginMigration(r) \/ FinishMigrate(r)
  PROVE  SerialInv'
<1>a. RunnerType /\ DatabaseType /\ TypeOK
  BY DEF IInv, TypeOK
<1>1. pc[r] = "next" /\ UNCHANGED <<record, times, touched, untracked, known>>
  BY DEF Skip, BeginMigration, FinishMigrate, dbVars, historyVars
<1>2. \A q \in Runners \ {r} : pc[q] = "idle" /\ pc'[q] = "idle"
  BY <1>1, AloneFrame DEF RunnerStep
<1>3. \A q \in Runners : ~Working(q)
  BY <1>1, <1>2 DEF Working
<1>4. RunsOnce' /\ Fresh'
  BY <1>1, <1>3, <1>a, SerialQuiet
<1>5. FirstRun(r)' /\ Ahead(r)'
  <2>1. CASE Skip(r)
    <3>1. pc' = pc /\ pos'[r] = pos[r] + 1 /\ pos[r] \in Nat
      BY <1>a, <2>1, OrderLemma DEF Skip, RunnerType
    <3>2. QED
      BY <1>1, <3>1, OrderLemma DEF SerialInv, Ahead, FirstRun, Working
  <2>2. CASE FinishMigrate(r)
    BY <1>a, <2>2, IdleSerial DEF FinishMigrate, Return, RunnerType
  <2>3. CASE BeginMigration(r)
    <3>1. CASE Return(r, "threw")
      BY <1>a, <3>1, IdleSerial DEF Return, RunnerType
    <3>2. CASE pc' = [pc EXCEPT ![r] = "step"] /\ step' = [step EXCEPT ![r] = 1]
      <4>1. PICK m \in Ids : m = Current(r)
        BY <1>a, <2>3, OrderLemma DEF BeginMigration, Current, RunnerType
      <4>2. pc'[r] = "step" /\ pos' = pos /\ Current(r)' = m /\ Coming(r)' = 1
        BY <1>a, <2>3, <3>2, <4>1 DEF BeginMigration, Current, Coming, RunnerType
      <4>3. Clean(m) => \A i \in 1..Length[m] : times[<<m, i>>] = 0
        <5>1. pos[r] \in 1..Len(Order) /\ m = Order[pos[r]] /\ m \notin known[r]
          BY <1>a, <2>3, <4>1, OrderLemma DEF BeginMigration, Current, RunnerType
        <5>2. Clean(m) => record[m] = "none"
          BY <1>1, <5>1 DEF SerialInv, Ahead, Clean
        <5>3. QED
          BY <1>3, <5>2 DEF SerialInv, Fresh
      <4>4. FirstRun(r)'
        BY <1>1, <4>2, <4>3 DEF FirstRun, Clean
      <4>5. Ahead(r)'
        BY <1>1, <4>2 DEF SerialInv, Ahead
      <4>6. QED
        BY <4>4, <4>5
    <3>3. QED
      BY <2>3, <3>1, <3>2 DEF BeginMigration
  <2>4. QED
    BY <2>1, <2>2, <2>3
<1>6. QED
  BY <1>2, <1>4, <1>5, IdleSerial DEF SerialInv

\* Executing a step.
LEMMA ExecuteSerial ==
  ASSUME IInv, SerialInv, OneAtATime, NEW r \in Runners, Execute(r)
  PROVE  SerialInv'
<1>a. RunnerType /\ DatabaseType /\ TypeOK
  BY DEF IInv, TypeOK
<1>1. PICK m \in Ids : m = Current(r)
  BY <1>a, AtWork DEF Execute
<1>2. PICK n \in 1..Length[m] : n = step[r]
  BY <1>a, <1>1, AtWork DEF Execute
<1>3. PICK c \in Steps : c = <<m, n>>
  BY <1>2, StepsLemma
<1>4. /\ pc[r] = "step" /\ UNCHANGED <<record, touched, untracked, known, pos>>
      /\ c = CurrentStep(r)
  BY <1>1, <1>2, <1>3 DEF Execute, CurrentStep
<1>5. \A q \in Runners \ {r} : pc[q] = "idle" /\ pc'[q] = "idle"
  BY <1>4, AloneFrame DEF RunnerStep
<1>6. /\ \A s \in Steps : s # c => times'[s] = times[s]
      /\ times[c] \in Nat
      /\ times'[c] = times[c] \/ times'[c] = times[c] + 1
  <2>1. \A s \in Steps : s # c => times'[s] = times[s]
    BY <1>a, <1>4, DoneStays
  <2>2. times'[c] = times[c] \/ times'[c] = times[c] + 1
    BY <1>a, <1>4 DEF Execute, StepSucceeds, StepExcused, StepFails, TakeEffect, DatabaseType
  <2>3. QED
    BY <1>a, <2>1, <2>2 DEF DatabaseType
<1>7. /\ pc'[r] \in {"step", "checkpoint", "recordFailure"}
      /\ pc'[r] = "step" => step'[r] = n + 1
      /\ pc'[r] = "checkpoint" => step'[r] = n
  BY <1>a, <1>2, <1>4 DEF Execute, StepSucceeds, StepExcused, StepFails, Advance, RunnerType
<1>8. /\ Working(r) /\ Working(r)' /\ Current(r)' = m
      /\ pc'[r] # "recordFailure" => Coming(r)' = n + 1
      /\ Coming(r) = n
  BY <1>1, <1>2, <1>4, <1>7 DEF Working, Current, Coming
<1>9. Length[m] \in Nat
  BY MigrationsAssumption
<1>10. Clean(m) => /\ \A i \in 1..Length[m] : times[<<m, i>>] <= 1
                   /\ \A i \in 1..Length[m] : i >= n => times[<<m, i>>] = 0
  BY <1>1, <1>4, <1>8 DEF SerialInv, FirstRun
<1>11. Clean(m) => /\ \A i \in 1..Length[m] : times'[<<m, i>>] <= 1
                   /\ \A i \in 1..Length[m] : i >= n + 1 => times'[<<m, i>>] = 0
  <2> SUFFICES ASSUME Clean(m), NEW i \in 1..Length[m]
               PROVE  times'[<<m, i>>] <= 1 /\ (i >= n + 1 => times'[<<m, i>>] = 0)
    OBVIOUS
  <2>1. CASE i = n
    <3>1. times[c] = 0
      BY <1>3, <1>10
    <3>2. QED
      BY <1>3, <1>6, <2>1, <3>1
  <2>2. CASE i # n
    <3>1. <<m, i>> \in Steps /\ <<m, i>> # c
      BY <1>3, <2>2, StepsLemma
    <3>2. times'[<<m, i>>] = times[<<m, i>>]
      BY <1>6, <3>1
    <3>3. QED
      BY <1>9, <1>10, <3>2
  <2>3. QED
    BY <2>1, <2>2
<1>12. RunsOnce'
  <2> SUFFICES ASSUME NEW s \in Steps, times'[s] > 1 PROVE s[1] \in untracked \cup touched
    BY <1>4 DEF RunsOnce
  <2>1. CASE s = c
    <3>1. c[1] = m /\ times'[<<m, n>>] > 1
      BY <1>3, <2>1
    <3>2. ~Clean(m)
      BY <1>3, <1>6, <1>11, <3>1
    <3>3. QED
      BY <2>1, <3>1, <3>2 DEF Clean
  <2>2. CASE s # c
    BY <1>6, <2>2 DEF SerialInv, RunsOnce
  <2>3. QED
    BY <2>1, <2>2
<1>13. Fresh'
  <2>1. SUFFICES ASSUME NEW k \in Ids, Clean(k)', record'[k] = "none",
                        \A q \in Runners : Working(q)' => Current(q)' # k,
                        NEW i \in 1..Length[k]
                 PROVE  times'[<<k, i>>] = 0
    BY DEF Fresh
  <2>2. k # m /\ Clean(k) /\ record[k] = "none"
    BY <1>4, <1>8, <2>1 DEF Clean
  <2>3. \A q \in Runners : Working(q) => Current(q) # k
    BY <1>1, <1>5, <2>2 DEF Working
  <2>4. <<k, i>> \in Steps /\ <<k, i>> # c
    BY <1>3, <2>2, StepsLemma
  <2>5. QED
    BY <1>6, <2>2, <2>3, <2>4 DEF SerialInv, Fresh
<1>14. FirstRun(r)'
  BY <1>4, <1>8, <1>11 DEF FirstRun, Clean
<1>15. Ahead(r)'
  BY <1>4, <1>7 DEF SerialInv, Ahead
<1>16. QED
  BY <1>5, <1>12, <1>13, <1>14, <1>15, IdleSerial DEF SerialInv

\* Ending a step or a migration: the row is written, or its loss remembered.
LEMMA EndSerial ==
  ASSUME IInv, SerialInv, OneAtATime, NEW r \in Runners,
         UpdateCheckpoint(r) \/ RecordCompleted(r) \/ RecordFailure(r) \/ Crash(r)
  PROVE  SerialInv'
<1>a. RunnerType /\ DatabaseType /\ TypeOK
  BY DEF IInv, TypeOK
<1>1. /\ pc[r] # "idle" /\ UNCHANGED <<times, touched, known>> /\ untracked \subseteq untracked'
  BY DEF UpdateCheckpoint, RecordCompleted, RecordFailure, Crash, dbVars, historyVars
<1>2. \A q \in Runners \ {r} : pc[q] = "idle" /\ pc'[q] = "idle"
  BY <1>1, AloneFrame DEF RunnerStep
<1>3. CASE ~Working(r)
  <2>1. Crash(r) /\ pc[r] = "next" /\ pc'[r] = "idle" /\ UNCHANGED record
    BY <1>a, <1>1, <1>3
       DEF UpdateCheckpoint, RecordCompleted, RecordFailure, Crash, Working, RunnerType, Return,
           dbVars
  <2>2. \A q \in Runners : ~Working(q)
    BY <1>2, <1>3 DEF Working
  <2>3. RunsOnce' /\ Fresh'
    BY <1>a, <1>1, <2>1, <2>2, SerialQuiet
  <2>4. QED
    BY <1>2, <2>1, <2>3, IdleSerial DEF SerialInv
<1>4. CASE Working(r)
  <2>1. PICK m \in Ids : m = Current(r)
    BY <1>a, <1>4, AtWork DEF Working
  <2>2. PICK p \in 1..Len(Order) : p = pos[r] /\ m = Order[p]
    BY <1>a, <1>4, <2>1, AtWork DEF Working, Current
  <2>3. PICK n \in Nat : n = step[r]
    BY <1>a DEF RunnerType
  <2>4. record \in [Ids -> {"none", "completed", "failed", "partial"}]
    BY <1>a DEF DatabaseType
  <2>5. record' = record \/ \E status \in {"completed", "failed", "partial"} :
                              record' = [record EXCEPT ![m] = status]
    BY <2>1 DEF UpdateCheckpoint, RecordCompleted, RecordFailure, Crash, WriteRow, KeepRow, dbVars
  <2>6. /\ \A k \in Ids \ {m} : record'[k] = record[k]
        /\ record[m] # "none" => record'[m] # "none"
    BY <2>4, <2>5
  <2>7. \/ pc'[r] = "step" /\ step'[r] = n + 1 /\ pos'[r] = p /\ pc[r] = "checkpoint"
        \/ pc'[r] = "recordFailure" /\ pos'[r] = p
        \/ pc'[r] = "next" /\ pos'[r] = p + 1 /\ record'[m] # "none"
        \/ pc'[r] = "idle" /\ (record'[m] # "none" \/ m \in untracked')
    <3>1. CASE UpdateCheckpoint(r)
      BY <1>a, <2>2, <2>3, <3>1 DEF UpdateCheckpoint, Advance, RunnerType
    <3>2. CASE RecordCompleted(r)
      BY <1>a, <2>1, <2>2, <2>4, <3>2 DEF RecordCompleted, WriteRow, GoOn, RunnerType
    <3>3. CASE RecordFailure(r)
      BY <1>a, <2>1, <2>2, <2>4, <3>3 DEF RecordFailure, WriteRow, GoOn, Return, RunnerType
    <3>4. CASE Crash(r)
      BY <1>a, <1>4, <2>1, <3>4 DEF Crash, Return, RunnerType, Working
    <3>5. QED
      BY <3>1, <3>2, <3>3, <3>4
  <2>8. Working(r)' => Current(r)' = m
    BY <2>2, <2>7 DEF Working, Current
  <2>9. RunsOnce' /\ Fresh'
    <3>1. SUFFICES ASSUME NEW k \in Ids, Clean(k)', record'[k] = "none",
                          \A q \in Runners : Working(q)' => Current(q)' # k
                   PROVE  record[k] = "none" /\ \A q \in Runners : Working(q) => Current(q) # k
      BY <1>a, <1>1, SerialQuiet
    <3>2. k # m
      BY <2>7, <2>8, <3>1 DEF Clean, Working
    <3>3. QED
      BY <1>2, <2>1, <2>6, <3>1, <3>2 DEF Working
  <2>10. FirstRun(r)'
    <3>1. SUFFICES ASSUME Working(r)', Clean(m)', NEW i \in 1..Length[m]
                   PROVE  /\ times[<<m, i>>] <= 1
                          /\ pc'[r] # "recordFailure" /\ i >= Coming(r)' => times[<<m, i>>] = 0
      BY <1>1, <2>8 DEF FirstRun
    <3>2. Clean(m)
      BY <1>1, <3>1 DEF Clean
    <3>3. /\ times[<<m, i>>] <= 1
          /\ pc[r] # "recordFailure" /\ i >= Coming(r) => times[<<m, i>>] = 0
      BY <1>4, <2>1, <3>1, <3>2 DEF SerialInv, FirstRun
    <3>4. pc'[r] # "recordFailure" => pc[r] = "checkpoint" /\ Coming(r)' = n + 1 /\ Coming(r) = n + 1
      BY <2>3, <2>7, <3>1 DEF Coming, Working
    <3>5. QED
      BY <3>3, <3>4
  <2>11. Ahead(r)'
    <3>1. SUFFICES ASSUME pc'[r] # "idle", NEW i \in 1..Len(Order),
                          i > pos'[r] \/ (i = pos'[r] /\ pc'[r] = "next"),
                          Order[i] \notin known[r] \cup touched
                   PROVE  record'[Order[i]] = "none"
      BY <1>1 DEF Ahead
    <3>2. i > p
      BY <2>7, <3>1
    <3>3. Order[i] # m
      BY <2>2, <3>2, MigrationsAssumption
    <3>4. record[Order[i]] = "none"
      BY <1>1, <2>2, <3>1, <3>2 DEF SerialInv, Ahead
    <3>5. QED
      BY <2>6, <3>3, <3>4, OrderLemma
  <2>12. QED
    BY <1>2, <2>9, <2>10, <2>11, IdleSerial DEF SerialInv
<1>5. QED
  BY <1>3, <1>4

LEMMA SerialStep ==
  ASSUME IInv, SerialInv, OneAtATime, OneAtATime', [Next]_vars
  PROVE  SerialInv'
<1>a. RunnerType /\ DatabaseType /\ TypeOK
  BY DEF IInv, TypeOK
<1>1. ASSUME NEW r \in Runners, RunnerStep(r) PROVE SerialInv'
  BY <1>a, <1>1, PlanSerial, LoopSerial, ExecuteSerial, EndSerial DEF RunnerStep
<1>2. ASSUME UNCHANGED <<runnerVars, times, untracked>>, touched \subseteq touched',
             \A m \in Ids : m \notin touched' => record'[m] = record[m]
      PROVE  SerialInv'
  <2>1. \A q \in Runners :
          /\ Working(q)' <=> Working(q)
          /\ Current(q)' = Current(q) /\ Coming(q)' = Coming(q)
          /\ pc'[q] = pc[q] /\ pos'[q] = pos[q] /\ known'[q] = known[q]
    BY <1>2 DEF runnerVars, Working, Current, Coming
  <2>2. RunsOnce' /\ Fresh'
    <3>1. SUFFICES ASSUME NEW k \in Ids, Clean(k)', record'[k] = "none",
                          \A q \in Runners : Working(q)' => Current(q)' # k
                   PROVE  record[k] = "none" /\ \A q \in Runners : Working(q) => Current(q) # k
      BY <1>a, <1>2, SerialQuiet
    <3>2. QED
      BY <1>2, <2>1, <3>1 DEF Clean
  <2>3. ASSUME NEW q \in Runners PROVE FirstRun(q)'
    <3>1. PICK m : m = Current(q)
      OBVIOUS
    <3>2. Clean(m)' => Clean(m)
      BY <1>2 DEF Clean
    <3>3. Current(q)' = m
      BY <2>1, <3>1
    <3>4. QED
      BY <1>2, <2>1, <3>1, <3>2, <3>3 DEF SerialInv, FirstRun, Clean
  <2>4. ASSUME NEW q \in Runners PROVE Ahead(q)'
    BY <1>2, <2>1, OrderLemma DEF SerialInv, Ahead
  <2>5. QED
    BY <2>2, <2>3, <2>4 DEF SerialInv
<1>3. ASSUME NEW m \in Ids, MarkResolved(m) \/ RemoveMigrationRecord(m) PROVE SerialInv'
  <2>1. /\ touched' = touched \cup {m} /\ UNCHANGED <<runnerVars, times, untracked>>
        /\ \/ record' = [record EXCEPT ![m] = "completed"]
           \/ record' = [record EXCEPT ![m] = "none"]
    BY <1>3 DEF MarkResolved, RemoveMigrationRecord
  <2>2. QED
    BY <1>a, <1>2, <2>1 DEF DatabaseType
<1>4. CASE Initialize \/ (\E m \in Ids : Edit(m)) \/ UNCHANGED vars
  BY <1>2, <1>4 DEF Initialize, Edit, vars, dbVars, runnerVars, historyVars
<1>5. QED
  BY <1>1, <1>3, <1>4 DEF Next

\* As long as no two runners are at work at once, a step takes effect twice
\* only if a run of its migration ended without its row or the operator changed
\* the row, whatever crashed, failed or lost its answer in between.
THEOREM RunsOnceSerially == Spec /\ []OneAtATime => []RunsOnce
<1>1. Init => SerialInv
  <2>1. ASSUME Init PROVE \A s \in Steps : times[s] = 0
    BY <2>1 DEF Init
  <2>2. ASSUME Init PROVE \A r \in Runners : FirstRun(r) /\ Ahead(r)
    BY <2>2 DEF Init, FirstRun, Ahead, Working
  <2>3. QED
    BY <2>1, <2>2, StepsLemma DEF SerialInv, RunsOnce, Fresh
<1>2. IInv /\ SerialInv /\ OneAtATime /\ OneAtATime' /\ [Next]_vars => SerialInv'
  BY SerialStep
<1>3. SerialInv => RunsOnce
  BY DEF SerialInv
<1>4. QED
  BY <1>1, <1>2, <1>3, Invariance, PTL DEF Spec

\* In particular if there is only one.
THEOREM RunsOnceAlone == ASSUME \A q, r \in Runners : q = r PROVE Spec => []RunsOnce
<1>1. OneAtATime
  BY DEF OneAtATime
<1>2. QED
  BY <1>1, RunsOnceSerially, PTL
=============================================================================
