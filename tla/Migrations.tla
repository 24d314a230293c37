----------------------------- MODULE Migrations -----------------------------
(***************************************************************************)
(* The migration runner of src/src/migrations.ts: runners, one per process *)
(* that calls migrate(migrations), working on one database without locks   *)
(* or transactions.  A migration is a sequence of SQL steps; its outcome   *)
(* is recorded in one row of the tracking table once it has ended.         *)
(*                                                                         *)
(* SQL statements end in an error at any time, with or without effect (a   *)
(* connection lost before the answer), and a process may die between two   *)
(* of them.                                                                *)
(***************************************************************************)
EXTENDS Naturals, Sequences

CONSTANTS
  Ids,           \* migrations
  Order,         \* the array given to migrate(), without duplicates
  Length,        \* Length[m]: the number of its steps
  DependsOn,     \* DependsOn[m]
  Kind,          \* Kind[s]: what step s does to a database that has it already
  Needs,         \* Needs[s]: the steps whose effect its SQL refers to
  Flagged,       \* steps with idempotent: true
  Checkpointed,  \* steps with a checkpoint
  StopOnError,   \* the option of migrate
  Runners,
  MaxRuns,       \* bound: calls of migrate per runner
  MaxEdits,      \* bound: edits of a migration's SQL
  Crashes,       \* may a process die?
  LostAnswers,   \* may a statement take effect and yet end in an error?
  Operator       \* does somebody call markResolved and removeMigrationRecord?

Steps == UNION {{<<m, i>> : i \in 1..Length[m]} : m \in Ids}

ASSUME MigrationsAssumption ==
  /\ Order \in Seq(Ids)
  /\ \A i, j \in 1..Len(Order) : Order[i] = Order[j] => i = j
  /\ Length \in [Ids -> Nat]
  /\ DependsOn \in [Ids -> SUBSET Ids]
ASSUME StepsAssumption ==
  /\ Kind \in [Steps -> {"guarded", "strict", "repeats"}]
  /\ Needs \in [Steps -> SUBSET Steps]
  /\ Flagged \subseteq Steps /\ Checkpointed \subseteq Steps
ASSUME BoundsAssumption == MaxRuns \in Nat /\ MaxEdits \in Nat
ASSUME FlagsAssumption == {StopOnError, Crashes, LostAnswers, Operator} \subseteq BOOLEAN

VARIABLES
  \* the database
  tracked,     \* does the tracking table exist?
  record,      \* record[m]: the status in its row, "none" without a row
  checksum,    \* checksum[m]: the version its row was written for
  checkpoint,  \* checkpoint[m]: last_checkpoint in its row, 0 for NULL
  times,       \* times[s]: how often step s took effect
  \* the source
  version,     \* version[m]: how often its SQL was edited
  \* each runner
  pc, runs,
  pos,         \* index in Order of the migration it is at
  known,       \* appliedIds: the migrations that had a row when it planned
  step,        \* the step it is at
  executed,    \* stepsExecuted
  last,        \* lastCheckpoint, 0 for undefined
  outcome,     \* how migrate ended, or that some result of it failed
  \* history
  excused,     \* steps counted as executed because of their error
  touched,     \* migrations whose row the operator changed
  untracked    \* migrations whose run ended without writing their row

dbVars == <<tracked, record, checksum, checkpoint, times>>
runnerVars == <<pc, runs, pos, known, step, executed, last, outcome>>
historyVars == <<excused, touched, untracked>>
vars == <<dbVars, version, runnerVars, historyVars>>

DatabaseType ==
  /\ tracked \in BOOLEAN
  /\ record \in [Ids -> {"none", "completed", "failed", "partial"}]
  /\ checksum \in [Ids -> 0..MaxEdits]
  /\ checkpoint \in [Ids -> Nat]
  /\ times \in [Steps -> Nat]
  /\ version \in [Ids -> 0..MaxEdits]
  /\ excused \subseteq Steps
  /\ touched \subseteq Ids
  /\ untracked \subseteq Ids

RunnerType ==
  /\ pc \in [Runners -> {"idle", "next", "step", "checkpoint", "recordFailure"}]
  /\ runs \in [Runners -> 0..MaxRuns]
  /\ pos \in [Runners -> 1..(Len(Order) + 1)]
  /\ known \in [Runners -> SUBSET Ids]
  /\ step \in [Runners -> Nat \ {0}]
  /\ executed \in [Runners -> Nat]
  /\ last \in [Runners -> Nat]
  /\ outcome \in [Runners -> {"none", "succeeded", "failed", "threw", "crashed"}]

\* A runner at work is at a step of its migration, or behind the last one.
Located ==
  \A r \in Runners : pc[r] \notin {"idle", "next"} =>
    /\ pos[r] <= Len(Order)
    /\ step[r] <= Length[Order[pos[r]]] + IF pc[r] = "checkpoint" THEN 0 ELSE 1

TypeOK == DatabaseType /\ RunnerType /\ Located

Init ==
  /\ tracked = FALSE
  /\ record = [m \in Ids |-> "none"]
  /\ checksum = [m \in Ids |-> 0]
  /\ checkpoint = [m \in Ids |-> 0]
  /\ times = [s \in Steps |-> 0]
  /\ version = [m \in Ids |-> 0]
  /\ pc = [r \in Runners |-> "idle"]
  /\ runs = [r \in Runners |-> 0]
  /\ pos = [r \in Runners |-> 1]
  /\ known = [r \in Runners |-> {}]
  /\ step = [r \in Runners |-> 1]
  /\ executed = [r \in Runners |-> 0]
  /\ last = [r \in Runners |-> 0]
  /\ outcome = [r \in Runners |-> "none"]
  /\ excused = {}
  /\ touched = {}
  /\ untracked = {}

Given == {Order[i] : i \in 1..Len(Order)}
Current(r) == Order[pos[r]]
CurrentStep(r) == <<Current(r), step[r]>>

-----------------------------------------------------------------------------
(* plan() and the loop of migrate().                                       *)

\* (mutant) Failed and partial migrations count as pending.
RecordedCompleted == {m \in Ids : record[m] = "completed"}

\* getAppliedMigrations: every row counts, whatever its status.
Recorded == {m \in Ids : record[m] # "none"}

\* (mutant) Only completed migrations are compared with their source.
ConflictsOfCompleted(seen) ==
  {m \in Given : \/ record[m] = "completed" /\ checksum[m] # version[m]
                 \/ m \notin seen /\ ~(DependsOn[m] \subseteq seen \cup Given)}

Conflicts(seen) ==
  {m \in Given : \/ m \in seen /\ checksum[m] # version[m]
                 \/ m \notin seen /\ ~(DependsOn[m] \subseteq seen \cup Given)}

\* topologicalSort throws on a cycle among the pending migrations.
Acyclic(pending) ==
  \A S \in SUBSET pending : S # {} => \E m \in S : DependsOn[m] \cap S = {}

Return(r, how) ==
  /\ pc' = [pc EXCEPT ![r] = "idle"]
  /\ outcome' = [outcome EXCEPT ![r] = how]

\* It throws on a conflict or a cycle, and when a statement of plan() fails.
Plan(r) ==
  /\ pc[r] = "idle" /\ runs[r] < MaxRuns
  /\ runs' = [runs EXCEPT ![r] = @ + 1]
  /\ known' = [known EXCEPT ![r] = Recorded]
  /\ pos' = [pos EXCEPT ![r] = 1]
  /\ \/ /\ Conflicts(Recorded) = {} /\ Acyclic(Given \ Recorded)
        /\ pc' = [pc EXCEPT ![r] = "next"]
        /\ outcome' = [outcome EXCEPT ![r] = "none"]
     \/ Return(r, "threw")
  /\ UNCHANGED <<step, executed, last, dbVars, version, historyVars>>

\* "Already applied - mark as skipped": success, whatever the row says.
Skip(r) ==
  /\ pc[r] = "next" /\ pos[r] <= Len(Order) /\ Current(r) \in known[r]
  /\ pos' = [pos EXCEPT ![r] = @ + 1]
  /\ UNCHANGED <<pc, runs, known, step, executed, last, outcome, dbVars, version, historyVars>>

\* runMigration up to its try: the snapshot may throw.
BeginMigration(r) ==
  /\ pc[r] = "next" /\ pos[r] <= Len(Order) /\ Current(r) \notin known[r]
  /\ \/ /\ pc' = [pc EXCEPT ![r] = "step"]
        /\ step' = [step EXCEPT ![r] = 1]
        /\ executed' = [executed EXCEPT ![r] = 0]
        /\ last' = [last EXCEPT ![r] = 0]
        /\ UNCHANGED outcome
     \/ Return(r, "threw") /\ UNCHANGED <<step, executed, last>>
  /\ UNCHANGED <<runs, pos, known, dbVars, version, historyVars>>

FinishMigrate(r) ==
  /\ pc[r] = "next" /\ pos[r] > Len(Order)
  /\ Return(r, IF outcome[r] = "failed" THEN "failed" ELSE "succeeded")
  /\ UNCHANGED <<runs, pos, known, step, executed, last, dbVars, version, historyVars>>

-----------------------------------------------------------------------------
(* The steps of runMigration.  Their conditions are not evaluated, and     *)
(* checkpoints are written but not read.                                   *)

Present(s) == times[s] > 0

\* The SQL is refused because what it makes is there, or what it needs is not:
\* errors that isIdempotentError recognises.
Refused(s) == (Kind[s] = "strict" /\ Present(s)) \/ \E n \in Needs[s] : ~Present(n)

TakeEffect(s) ==
  /\ ~Refused(s)
  /\ times' = [times EXCEPT ![s] = IF Kind[s] = "guarded" /\ Present(s) THEN @ ELSE @ + 1]

Advance(r) == step' = [step EXCEPT ![r] = @ + 1]

StepSucceeds(r) ==
  LET s == CurrentStep(r) IN
  /\ TakeEffect(s)
  /\ executed' = [executed EXCEPT ![r] = @ + 1]
  /\ \/ /\ s \in Checkpointed
        /\ last' = [last EXCEPT ![r] = step[r]]
        /\ pc' = [pc EXCEPT ![r] = "checkpoint"]
        /\ UNCHANGED step
     \/ s \notin Checkpointed /\ Advance(r) /\ UNCHANGED <<last, pc>>
  /\ UNCHANGED excused

\* "(Idempotent step - already applied)": counted, and its checkpoint passed by.
StepExcused(r) ==
  LET s == CurrentStep(r) IN
  /\ Refused(s) /\ s \in Flagged
  /\ executed' = [executed EXCEPT ![r] = @ + 1]
  /\ excused' = excused \cup {s}
  /\ Advance(r)
  /\ UNCHANGED <<times, last, pc>>

\* (mutant) A failed step does not end the migration.
StepFailsGoingOn(r) ==
  /\ Advance(r)
  /\ UNCHANGED <<times, pc, executed, last, excused>>

\* Any other error, or one of those in a step that is not flagged; a statement
\* whose answer was lost has taken effect.
StepFails(r) ==
  LET s == CurrentStep(r) IN
  /\ UNCHANGED times \/ (LostAnswers /\ TakeEffect(s))
  /\ pc' = [pc EXCEPT ![r] = "recordFailure"]
  /\ UNCHANGED <<step, executed, last, excused>>

Execute(r) ==
  /\ pc[r] = "step" /\ step[r] <= Length[Current(r)]
  /\ StepSucceeds(r) \/ StepExcused(r) \/ StepFails(r)
  /\ UNCHANGED <<runs, pos, known, outcome, tracked, record, checksum, checkpoint, version,
                 touched, untracked>>

\* updateCheckpoint: an UPDATE of the migration's row, if it has one; its
\* errors are swallowed.
UpdateCheckpoint(r) ==
  LET m == Current(r) IN
  /\ pc[r] = "checkpoint"
  /\ \/ record[m] # "none" /\ checkpoint' = [checkpoint EXCEPT ![m] = last[r]]
     \/ UNCHANGED checkpoint
  /\ pc' = [pc EXCEPT ![r] = "step"]
  /\ Advance(r)
  /\ UNCHANGED <<runs, pos, known, executed, last, outcome, tracked, record, checksum, times,
                 version, historyVars>>

-----------------------------------------------------------------------------
(* recordMigration.                                                        *)

WriteRow(m, status, cp) ==
  /\ tracked
  /\ record' = [record EXCEPT ![m] = status]
  /\ checksum' = [checksum EXCEPT ![m] = version[m]]
  /\ checkpoint' = [checkpoint EXCEPT ![m] = cp]

KeepRow == UNCHANGED <<record, checksum, checkpoint>>

\* (mutant) runMigration advances the loop of migrate as well.
GoOnTwice(r) ==
  /\ pc' = [pc EXCEPT ![r] = "next"]
  /\ pos' = [pos EXCEPT ![r] = @ + 2]

GoOn(r) ==
  /\ pc' = [pc EXCEPT ![r] = "next"]
  /\ pos' = [pos EXCEPT ![r] = @ + 1]

\* (mutant) The row is written before the last step has run.
RecordCompletedEarly(r) ==
  /\ pc[r] = "step" /\ step[r] >= Length[Current(r)]
  /\ WriteRow(Current(r), "completed", 0) /\ GoOn(r)
  /\ UNCHANGED <<runs, known, step, executed, last, outcome, tracked, times, version, historyVars>>

\* All steps are done.  The INSERT is inside the try: its error is taken for a
\* failure of the migration.
RecordCompleted(r) ==
  /\ pc[r] = "step" /\ step[r] > Length[Current(r)]
  /\ \/ WriteRow(Current(r), "completed", 0) /\ GoOn(r)
     \/ /\ KeepRow \/ (LostAnswers /\ WriteRow(Current(r), "completed", 0))
        /\ pc' = [pc EXCEPT ![r] = "recordFailure"]
        /\ UNCHANGED pos
  /\ UNCHANGED <<runs, known, step, executed, last, outcome, tracked, times, version, historyVars>>

\* (mutant) An error of the INSERT is swallowed and migrate goes on.
RecordFailureSwallowing(r) ==
  /\ pc[r] = "recordFailure" /\ KeepRow /\ GoOn(r)
  /\ UNCHANGED <<runs, known, step, executed, last, outcome, tracked, times, version, historyVars>>

\* The catch: if this INSERT fails too, runMigration and migrate throw.
RecordFailure(r) ==
  LET m == Current(r)
      status == IF executed[r] > 0 THEN "partial" ELSE "failed"
  IN
  /\ pc[r] = "recordFailure"
  /\ \/ /\ WriteRow(m, status, last[r])
        /\ \/ ~StopOnError /\ GoOn(r) /\ outcome' = [outcome EXCEPT ![r] = "failed"]
           \/ StopOnError /\ Return(r, "failed") /\ UNCHANGED pos
        /\ UNCHANGED untracked
     \/ /\ KeepRow
        /\ untracked' = untracked \cup {m}
        /\ Return(r, "threw") /\ UNCHANGED pos
     \/ /\ LostAnswers /\ WriteRow(m, status, last[r])
        /\ Return(r, "threw") /\ UNCHANGED <<pos, untracked>>
  /\ UNCHANGED <<runs, known, step, executed, last, tracked, times, version, excused, touched>>

-----------------------------------------------------------------------------
(* The operator, the source and the processes.                             *)

Initialize ==
  /\ tracked' = TRUE
  /\ UNCHANGED <<record, checksum, checkpoint, times, version, runnerVars, historyVars>>

MarkResolved(m) ==
  /\ Operator /\ record[m] # "none"
  /\ record' = [record EXCEPT ![m] = "completed"]
  /\ touched' = touched \cup {m}
  /\ UNCHANGED <<tracked, checksum, checkpoint, times, version, runnerVars, excused, untracked>>

RemoveMigrationRecord(m) ==
  /\ Operator /\ record[m] # "none"
  /\ record' = [record EXCEPT ![m] = "none"]
  /\ touched' = touched \cup {m}
  /\ UNCHANGED <<tracked, checksum, checkpoint, times, version, runnerVars, excused, untracked>>

\* The SQL of a migration is edited while no runner is at work.
Edit(m) ==
  /\ version[m] < MaxEdits /\ \A r \in Runners : pc[r] = "idle"
  /\ version' = [version EXCEPT ![m] = @ + 1]
  /\ UNCHANGED <<dbVars, runnerVars, historyVars>>

Crash(r) ==
  /\ Crashes /\ pc[r] # "idle"
  /\ Return(r, "crashed")
  /\ untracked' = IF pc[r] = "next" THEN untracked ELSE untracked \cup {Current(r)}
  /\ UNCHANGED <<runs, pos, known, step, executed, last, dbVars, version, excused, touched>>

RunnerStep(r) ==
  \/ Plan(r) \/ Skip(r) \/ BeginMigration(r) \/ FinishMigrate(r)
  \/ Execute(r) \/ UpdateCheckpoint(r) \/ RecordCompleted(r) \/ RecordFailure(r)
  \/ Crash(r)

Next ==
  \/ \E r \in Runners : RunnerStep(r)
  \/ Initialize
  \/ \E m \in Ids : MarkResolved(m) \/ RemoveMigrationRecord(m) \/ Edit(m)

Spec == Init /\ [][Next]_vars

-----------------------------------------------------------------------------
(* Properties, for any number of runners, crashes and lost answers unless  *)
(* they say otherwise.                                                     *)

Done(s) == Present(s) \/ s \in excused

\* A step never takes effect before the steps ahead of it in its migration
\* have, or were excused, whatever runs stopped half way: the loop of
\* runMigration.
PrefixDone ==
  \A m \in Ids : \A i, j \in 1..Length[m] :
    i < j /\ Done(<<m, j>>) => Done(<<m, i>>)

\* A row the runner itself marked completed tells that every step was done,
\* even when other runners worked on the same migration.
CompletedIsDone ==
  \A m \in Ids \ touched : record[m] = "completed" =>
    \A i \in 1..Length[m] : Done(<<m, i>>)

\* Every migration of a migrate() whose results are all successful has a row.
SuccessIsRecorded ==
  \A r \in Runners : outcome[r] = "succeeded" =>
    \A m \in Given \ touched : record[m] # "none"

\* Migrations are taken in the order given: a step takes effect only when every
\* migration ahead of its own has a row.
OrderKept ==
  \A i, j \in 1..Len(Order) : i < j /\ Order[i] \notin touched =>
    \A k \in 1..Length[Order[j]] :
      Present(<<Order[j], k>>) => record[Order[i]] # "none"

\* (one runner at a time) A step takes effect twice only if a run of its
\* migration ended without its row, or the operator removed the row.
RunsOnce ==
  \A s \in Steps : times[s] > 1 => s[1] \in untracked \cup touched

\* While a migration that has a row differs from its source, nothing is
\* executed: plan()'s conflicts.
ModifiedBlocks ==
  [][(\E m \in Given : record[m] # "none" /\ checksum[m] # version[m])
       => UNCHANGED times]_vars

-----------------------------------------------------------------------------
(* A claim of the documentation that the code does not keep.               *)

\* README.md:551: "m2 will always run after m1".  No step of a migration takes
\* effect before those of the migrations it depends on.
DependenciesFirst ==
  \A m \in Given : \A d \in DependsOn[m] : \A i \in 1..Length[m], j \in 1..Length[d] :
    Present(<<m, i>>) => Done(<<d, j>>)

=============================================================================
