# TLA+ models of the StarRocks SDK

These modules model the parts of the SDK in `src/` that have behaviour over
time, or that rewrite what they are given: two-phase commit transactions, stream
loads with retries, the migration runner, the schema differ with the migrations
it generates, the SQL client with its pool, validator and archive, and the two
query builders. TLC checks them on small instances; TLAPS proves, for every
value of the constants, the safety properties of the transactions, the stream
loads, the migration runner, the generated schema migrations, and the client
with its labelled inserts, table creation, archive and validator, all properties
of the Knex style builder, and those of the query builder that do not read a
text back. Line numbers in the text are those of the files under `src/src/`.

    tlc -workers 2 -config txn_single.cfg MCTransaction
    tlapm TransactionProofs.tla

## 1. Inventory

The SDK is a TypeScript library. It keeps little state of its own; what makes
it hard is that it drives a server over HTTP and SQL, with requests that are
lost, delayed, retried, and served after the caller gave up.

| Component (source) | State | Operations | Talks to | Hard behaviour | What makes it correct |
|---|---|---|---|---|---|
| Transaction service (`layers/transaction.layer.ts`) | none kept between calls; per call: which operation, attempt number | `begin`, `load`, `prepare`, `commit`, `abort`, `withTransaction` | StarRocks `/api/transaction/*` over HTTP | retries after lost answers, timeouts that do not recall the request, interruption, crash after prepare, several callers with one label | rows are visible only of committed transactions and are those acknowledged; success only of one's own committed transaction; a rollback is final; whatever was acquired is released |
| Stream load service (`layers/stream-load.layer.ts`) | per call: label, attempt count | `loadObjects`, `loadCsv`, `loadJson` | `/_stream_load` | the same, and the label that is to make retries safe | at most one copy per label; success tells of own rows; calls return |
| Legacy stream load client (`stream-load.ts`) | none | `loadData`, `loadCsv`, `loadJson`, `loadObjects` | as above, following the FE to BE redirect by hand | no timeout; HTTP status ignored; shares labels with the service | as above, except that a call may wait forever |
| Legacy 2PC client (`stream-load-transaction.ts`) | none | `begin`, `load`, `prepare`, `commit`, `rollback` | `/api/transaction/*` | single requests without timeout, in an order the application chooses; shares labels with the service | as for the service, except that a call may wait forever |
| Migration runner (`migrations.ts`) | tracking table `_migrations`; per run: applied ids, position, checkpoint | `initialize`, `plan`, `migrate`, `runMigration`, `dryRun`, `status`, `markResolved`, `removeMigrationRecord` | the SQL client | no lock between runners, crash between steps, lost answers, the record of the outcome failing | order of steps and migrations, truth of the table, nothing run twice without a trace |
| SQL client (`client.ts`), pool wrapper (`pool.ts`) | connection pool, per connection the current database | DDL, inserts in labelled batches, catalogue queries, `useDatabase` | MySQL protocol | session state on pooled connections; a queue with a limit; several statements per call; statements that take effect after their connection broke | labelled rows land once; a table has its indexes in order, and all of them once a call returned |
| Data archive (`data-archive.ts`) | own pool; policies | `archive`, `executePolicy`, `purgeArchived` | SQL | rows arriving, and ageing into the filter, between archive and purge | a purge deletes what its archive has written, but for what came or aged in since |
| Schema differ, snapshot, generator (`schema/differ.ts`, `schema/schema-snapshot.ts`, `schema/migration-generator.ts`) | none (pure) | `diffSchema`, `schemaToIntrospected`, `generateMigration` | whoever executes the statements | recreation of a table in four statements; planning again after a stop; snapshots instead of the database | no row is lost; the statements turn the old schema into the new one, and back; nothing is found changed afterwards |
| Legacy schema diff (`schema-diff.ts`), introspector (`schema/introspector.ts`) | none | introspect table by table, compare | SQL | the catalogue changes between its statements; create statements are parsed as text; types are normalised before comparison | what is reported was so at some moment while it ran |
| Expressions and query builder (`schema/expressions.ts`, `schema/query-builder.ts`) | immutable builders that share arrays | fluent methods, set operations, subqueries, CTEs, `toSQL` | SQL | text without brackets; values gathered apart from the text; sharing | the text means what was composed; values meet their placeholders; no builder changes under another |
| Knex style builder (`schema/knex-builder.ts`) | mutable clauses | fluent methods, `first`, `count`, inserts, updates, deletes, execution | SQL | reuse of one builder over several statements; two renderings of one query | a where only narrows; counts agree with rows; writes touch no row the conditions do not match; rows land as given |
| Query functions, aggregates, windows (`schema/functions.ts`, ...) | none | one constructor per SQL function | | | |
| Materialized view manager, load jobs | none | single statements | SQL | | |
| Schema definitions, configuration, errors, metrics, types | none | declarations and formatting | | | |

Interactions: the transaction and stream load services share only the
configuration and the server; the migration runner calls the SQL client and the
introspector, and is given migrations that the generator can produce; the
archive has a pool of its own.

## 2. Plan

1. **Transactions** (`TxnCoordinator`, `Transaction`, `AtomicLoad`) – modelled,
   checked, proved; the legacy 2PC client beside the service.
2. **Stream loads** (`StreamLoad`, `LabelledLoad`) – modelled, checked, proved.
3. **Migration runner** (`Migrations`) – modelled, checked, proved.
4. **Schema differ and migration generator** (`SchemaDiffer`,
   `SchemaMigration`) – modelled, checked, proved.
5. **SQL client, validator and archive** (`SqlServer`, `LegacySchemaDiff`,
   `SqlClient`) – modelled, checked, proved.
6. **Query builders** (`SqlText`, `Expressions`, `QueryBuilder`, and for TLC
   alone `SqlReading`, `QueryReading`; `KnexBuilder`) – modelled, checked,
   proved but for what a text means when it is read back.

Open: the composition of `SchemaMigration` with the migration runner, which
executes the statements as steps; an abstract specification of one serial
migration run; the FE to BE redirect of loads; the load jobs and the
materialized view manager, whose one hazard is that `alter` applies the first of
the changes it is given and drops the others (`materialized-views.ts` 212).

Each model keeps recursion in recursive functions or folds if it is proved
about, has one action per operation, and its invariants are named conjuncts.

## 3. Transactions

`TxnCoordinator.tla` is the server (external): one record per label, what it
answers to each of the five requests in each state, its timeouts. It is not
part of the repository and is modelled from the requests of
`transaction.layer.ts`, the statuses it lists, and the integration tests.

`Transaction.tla` is the client and the channel.

| Model | Code |
|---|---|
| `pc`, `op`, `attempt` of a call, `cur` the request it awaits | the position in `withTransaction` (441–455) and in the retry of one operation (214–218) |
| `net`, `reply` | a request not yet served; the answer of the awaited one. A request whose wait has ended stays in `net`: `tryPromise` does not cancel it, and `AbortSignal.timeout` ends the wait only |
| `Begin`, `Load`, `Prepare`, `Commit`, `Abort` | the operations of the same names, 220–439 |
| `Answer`, `TransportFailure`, `HandleError`, `Retry`, `GiveUp` | `parseResponse` 22–65, `validateHttpResponse` 98–149, `isRetryableError` 162–178, the schedule |
| `FnFails`, `Interrupt` | failure of the user's function, interruption of the fiber: the release of `acquireUseRelease` rolls back and swallows errors |
| `Legacy`, `LegacyStep`, `LegacyGiveUp` | calls through `stream-load-transaction.ts` 204–450: the same operations, one request each, no timeout and no interruption; after an error the application rolls back or not |
| `Crash`, `Recover` | the process dies; a restarted one finishes a prepared transaction by label |

`AtomicLoad.tla` is what a `withTransaction` promises: the rows of a call become
visible at once and at most once, and only if its function succeeded; a call
that reports success has had its rows made visible; one that failed before it
asked for its commit leaves none. It has no rows of its own: that those readers
see are those acknowledged is `VisibleIsAcked`. `Transaction` implements it by
the mapping at the end of the module.

Runs: `txn_single` (one call, two batches, two attempts per operation, a crash
with recovery), `txn_shared` (a call of the service and one of the legacy
client, one label) and `txn_reuse` (one call on a server that frees the labels
of rolled back transactions; under the fairness below, every call returns). In
all of them the server may time out open and prepared transactions at any
moment: `transaction.test.ts` 17–19 sees the commit after a prepare refused with
TXN_NOT_EXISTS, so that nothing is claimed of a prepared transaction's survival.
`LeftOpenIsUnanswered` says what the code can promise instead: a transaction
that a finished call of the service leaves open or prepared at the server is one
it asked in vain to roll back. Two attempts are the least with which a retry
overtakes, or is overtaken by, what it repeats; two batches the least whose
order and multiplicity can differ; two calls the least that can be confused.

Batches are compared as sets, because a load retried after a lost answer may
stage its batch twice, and both copies are then committed: the model's `staged`
holds both attempts. Two more limits of the promise "commits on success, aborts on
failure" can be read off the model and are why `AtomicLoad` has the outcome
"indoubt": a call may report failure of a transaction that is committed (its
commit's answer was lost), and a begin whose answer was lost leaves a
transaction nobody rolls back.

Proved (`TransactionProofs.tla`), for any number of calls of either client,
labels, batches and attempts: `TypeOK` and `SuccessIsCommitted` unconditionally;
`CommitOnlyIfAsked` if the server does not give a label to a second transaction
(`~LabelReuse`) or no two calls are given one label; the other invariants, the
two action properties and the refinement under `~LabelReuse`. With reuse, a late
request of an earlier transaction reaches a later one under the same label;
`txn_reuse` checks what remains true then, and `CommitInv` is the invariant that
proves it: a request to commit on the way, or awaited, comes from a call that
chose to, and OK is answered to one only of a transaction that is committed.
Under `~LabelReuse` the inductive invariant relates each request in the channel
to the state of its transaction: who was granted the label, what has been
acknowledged, and which requests its owner can still have on the way. It is
needed because a request that has been given up may be served much later, so
that the properties cannot follow from the caller's position alone.

## 4. Stream loads

`StreamLoad.tla` puts the retrying service and the legacy client (`Legacy`, a
subset of the calls) side by side against one server that knows a load by its
label. `cur.try` tells the attempts of a call apart; the server cannot see it.

| Model | Code (`layers/stream-load.layer.ts`) |
|---|---|
| `Start`, `Invalid` | `doLoad` 374–416, `validateLoadOptions` 95–158 |
| `AttemptLabel`, `attemptCount`, `Retry` | `attempt` 426–441. `attempt()` is evaluated once, and what it returned is retried: the label stays |
| `Errors`, `IsRetryable`, `HandleError` | 33–63, 81–87: an error is the class of its HTTP status and whether its text matches a pattern |
| `ParseStatus`, `ServiceReturns` | 202–229, 344–367 |
| `LegacyReturns` | `stream-load.ts` 225–336: any status is returned, whatever the HTTP status |
| `TransportFailure`, `Interrupt` | 284–342 |
| `TakeUp`, `Complete`, `JobFails`, `Publish`, `Lose` | the server and the network (external) |

`LabelledLoad.tla` is what the calls promise: among the copies of the data
given under one label one at most enters the table, and a call reports a load
only of its own copy.

Runs: `load_shared` (two calls of the service and one of the legacy client, all
under one label, one retry: the least at which a retry, another call and a call
that never retries compete; safety, refinement and, under the fairness below,
that calls return). In it a call with a label of its own may be answered "Label
Already Exists" by its own first attempt, where the documentation of the retry
configuration promises a new label per attempt.

Proved (`StreamLoadProofs.tla`) without any assumption but those on the types
of the constants: `TypeOK`, `AtMostOnce`, `SuccessIsOwn`, and the refinement.
The inductive invariant says that every request of a call carries its bare base
label, that committed rows of a label are exactly those of the request the
server recorded for it, and that an answer on its way tells the truth about the
awaited request. It depends on the labels of retries being equal: with a suffix
per attempt, as the comments intend, `AtMostOnce` fails (that is the mutant of
the run).

## 5. Migrations

`Migrations.tla` models runners, each a process that calls `migrate` some
times, on one database without locks.

| Model | Code (`migrations.ts`) |
|---|---|
| `tracked`, `record`, `checksum`, `checkpoint` | the tracking table; a row's INSERT replaces the one with its key |
| `times` | how often a step's SQL took effect |
| `Plan` (`Recorded`, `Conflicts`, `Acyclic`) | `plan` 143–181, `getAppliedMigrations` 395–418, `topologicalSort` 586–616, and the check at the head of `migrate` |
| `Skip`, `BeginMigration`, `FinishMigrate` | the loop of `migrate` 199–246, `runMigration` up to its `try` |
| `Execute` (`StepSucceeds`, `StepExcused`, `StepFails`), `UpdateCheckpoint` | the loop of `runMigration` 324–348, 538–550, 576–584 |
| `RecordCompleted`, `RecordFailure` | 350–389: the INSERT of the completed row lies inside the `try` |
| `MarkResolved`, `RemoveMigrationRecord`, `Initialize` | the methods of the same names |
| `Crash`, `Edit`, `TakeEffect` | external: the process dies, somebody edits a migration, the database |

A step is "guarded" (does nothing the second time), "strict" (refused the
second time) or "repeats". The SQL of the migrations, the hash that is their
checksum (two versions have two checksums) and the text of errors are
abstracted. `dryRun` and `status` change nothing and are left out.

Runs: `mig_serial` (one runner, three calls, one edit, crashes, lost answers, an
operator: the least for "ran, was edited or tampered with, ran again, and
again") and `mig_concurrent` (two runners, two calls each, two migrations of two
steps, the second depending on the first). A third refutes a statement of the
documentation: dependencies do not order execution (`mig_doc_depends`). More
facts can be read off without a run: a migration that failed has a row and is
skipped by the next `migrate` (201); two migrations with one id are both pending
and both run, the second one's row replacing the first's, which
`MigrationsAssumption` excludes; the checksum is a 32-bit hash, so that an edit
may go unnoticed, where the model tells versions apart; a step refused for a
missing table counts as executed (`StepExcused`), conditions of steps are never
evaluated, and checkpoints are never read back, contrary to their comments (660,
47); the model has no use for the last two.

Proved (`MigrationsProofs.tla`), for any migrations, steps and dependencies, any
number of concurrent runners, crashes, lost answers and operators: `TypeOK`,
`PrefixDone`, `CompletedIsDone`, `SuccessIsRecorded`, `OrderKept` and
`ModifiedBlocks`. The inductive invariant adds `RunnersOK`: every step behind a
runner is done, and every migration behind it, or that it will skip, has a row
unless the operator touched it. The proof separates the one action that touches
data (`Execute`) from those that are quiet, for which it is enough to look at
the runner that moves. `ModifiedBlocks` needs `Checked` beside it: while a
runner works, the checksum of every row is that of its source. `RunsOnce` is
proved for executions in which no two runners are at work at once
(`RunsOnceSerially`, and `RunsOnceAlone` for a single one), from the further
invariant `SerialInv`: a migration without a row, that nobody works on and whose
runs all wrote their rows, has not begun (`Fresh`); a first run has executed
nothing it has still to come to (`FirstRun`); and what had no row at planning
has none until the runner comes to it (`Ahead`). Two runners at once do execute
a step twice, and the code does nothing against it.

## 6. Schema migrations

`SchemaDiffer.tla` holds the pure functions; `SchemaMigration.tla` generates
plans with them and executes the statements on a database with a writer.

| Model | Code (`schema/`) |
|---|---|
| `diffSchema`, `diffTable`, `diffColumn`, `diffIndex`, `diffView`, `diffMaterializedView` | `differ.ts` |
| `normalizeDataType` | `differ.ts` 322–346; a type is a base and a width |
| `schemaToIntrospected` | `schema-snapshot.ts`; null and undefined buckets are told apart (`NullBuckets`, `NoBuckets`) |
| `generateMigration` and the operators above it | `migration-generator.ts`: a plan is a list of statements up and one down |
| `CreateTable`, `CreateIndex`, `CreateView`, `CreateMV`, ... | the DDL of `table.ts`, `view.ts`, `materialized-view.ts` |
| `introspect`, `Losses` | what `introspector.ts` reads back, and what of it a failed query loses: of a table its key, distribution and properties (SHOW CREATE TABLE, 267) or its indexes (SHOW INDEX, 369), or all materialized views (472). A key is also taken for PRIMARY if the text has these words elsewhere (216). Queries whose failure is not caught end the planning, and are no step |
| `special` of a table | columns with a generated expression, an aggregate function, AUTO_INCREMENT or a comment: CREATE TABLE writes these (`table.ts` 659–686), ADD and MODIFY COLUMN do not (`migration-generator.ts` 366, 417), and the differ compares none |
| `TakesEffect`, `Spelled`, `StoredColumn` | StarRocks (external) |
| `Plan`; `Execute`, `Fail`, `Resume`, `StartOver`, `Rollback`, `Write` | planning; those who execute a plan, and an application beside them (external) |

Data are cut down to what the properties tell apart: a default is absent, the
number zero, a text, or the empty text; the value of a property is a text that
may be a list, a list of texts, not an empty one. An ALTER that sets a list is
refused by the model's database, as the quotes of its JSON end the value (254).
Copying rows into a generated column is refused too, as the step `Fail`, which
may happen to any statement. Nobody but those who execute plans changes the
schema, so that the queries of an introspection read it at one moment. A special
column is a column with a mark; the rows of a table are a set, so that a second
copy of a row is not seen. Key columns, partitions, comments, nested properties,
the properties of materialized views and the text of queries are left out.
Within a group of statements the order is arbitrary. Dropping a column takes its
indexes along. Statements carrying a text default back are refused, as they are
not quoted (`Readable`, `migration-generator.ts` 433).

Run `schema_migrate`: five schemas that between them reach every kind of
change (`First`; `Extended`, whose way back is complete; `Altered`, in place;
`Rekeyed`, which recreates a table; `Grown`, with buckets and refresh left
open), two tables, one row and three plans. One row is enough, as statements
treat all rows of a table alike; two plans are needed to plan on what another
left behind, the third to plan on what that one made of it. Each plan is made
from a full answer or from one in which every query that may fail does, each
for one of the tables (`TheLosses`). The run shows that rows survive, that a
migration planned from a full answer and finished has made the database what
its schema says and leaves the differ nothing it could still do, that diffing
against the snapshot plans what diffing against the database would, and that a
rollback of it that ends without error leads back.

`GoalReached`, `Settled` and `RollbackRestores` have the premise
`plan.lost = NothingLost`, and without it each is violated: an index that was not
shown is not dropped, and a view that was not shown is planned as new, which the
way back drops. Plans made earlier from less than a full answer, executed,
stopped or rolled back, are no exception: what they left behind is what the
next introspection reads. `Settled` looks with another full answer. Special
columns are claimed only of the tables that the plan created (`Made`): a column
that was added or modified has lost its mark, and no later plan sees it.

`RowsKept` holds in that run because of `Cautious`: nobody plans while a table
renamed by an unfinished recreation is there. Without it (`schema_doc_rows`)
the next plan takes `<table>_old` for a table removed from the schema and drops
it first, with all rows. No crash is needed: a column added together with a
change of key or distribution stops every recreation at its copy, which names a
column the old table lacks.

The exceptions in `GoalReached` and `Settled` are facts about the code. Bitmap
indexes of a new table are created twice (so that plan stops at the second);
a recreated table loses its other indexes until the next plan; a hash
distribution that leaves its buckets open never settles; of several changes to
a materialized view the first only is made; removed properties, random buckets
and queries are not compared; the security of a view is not read back.

Proved (`SchemaMigrationProofs.tla`), for any schemas, tables and rows and any
number of plans: all five properties, and `SnapshotInSync`. `SchemasAssumption`
says what the schemas are: what the builders of `schema/` make (`IsSchema`:
finitely many names, a BOOLEAN has no width, an index names columns of its own
table), with tables whose names and whose names with `_old` are all different.
`RowsAreKept` alone assumes `Cautious` too.

The order of a group of statements is arbitrary, and a plan is made of many
groups. The proof looks at the generator once: `IsUp` and `IsDown` say which
statements a plan has, one clause for each kind, and `Orderly` which of them
come before which. `TypeInv` then says that `plan` is such a plan, made from
what an introspection may read (`IsRead`, with or without the parts that
`plan.lost` names), and that `todo` is what is left of it. No later
lemma unfolds `generateMigration`. A statement may be executed again after its
answer was lost, and everything from the start (`StartOver`), so that nothing
can be said of the statements already executed; the other invariants speak of
those still to come.

- `OrderInv` and `RowsInv`, for `RowsAreKept`: the rows of a table are in it, or
  some are in the table it was renamed to, and then the copy is still to come
  and no DROP of the renamed table is ahead of it. A rename brings this about
  because what is left of the plan has CREATE, copy and DROP in that order behind
  it; starting over keeps it because the whole plan has the copy before any DROP;
  a new plan cannot disturb it because of `Cautious`.
- `GoalInv`, for `GoalIsReachedAlways` and `SettledAlways`: after a plan from a
  full answer, a column, key, distribution, property, index, view or
  materialized view that no statement still to come is about is as the goal
  wants it, and a table that the plan has created has the special columns of
  its definition. `OrderInv` is needed here for what is
  dropped and made again: the second statement follows the first.
- `BackInv`, for `RollbackRestoresAlways`: after a plan from a full answer, what
  no statement of the way back is about is as it was before the plan. A comment
  asking for manual work is never executed, so a way back that ended had none.
- `OfflineAgreesAlways` needs no invariant beyond `TypeInv`: two descriptions of
  a database that differ only where the differ does not look (`AlikeReads`) give
  the same plan, for whatever schema. That the database has nothing beyond its
  definition (`NothingBeyond`) is a premise of `OfflineAgrees`: a property,
  an index parameter or a distribution that the definition leaves open and
  the database has is not in the snapshot, and the differ reports no change.
- `SnapshotInSync`: the differ reports a change against the schema's own
  snapshot exactly if a hash distribution leaves its buckets open.
  `pipeline.test.ts` has the instance "should detect no changes between schema
  and its own snapshot".

## 7. Query builders

`SqlText.tla` and `SqlReading.tla` are the database's side of the first builder
(external): a statement is a sequence of tokens, placeholders among them, and
the grammar of expressions and of SELECTs, with its precedences, says what it
means. A model that produced trees could not lose a bracket; therefore the
builder produces tokens, as the code produces text, and the properties of
`QueryReading.tla` read them back. Reading is recursive, and the prover takes no
recursive operators; so it is apart, and what `QueryBuilder` is made of is not.
The Knex style builder sets no
brackets, so its conditions are kept as clauses, each a sequence of tests with
the word before each; that AND binds tighter than OR is in `Matches`.

| Model | Code (`schema/`) |
|---|---|
| `sql`, `comparison`, `and`, `or`, `not`, `inArray`, `between`, `caseWhen`, `exists`, ... (`Expressions`) | `expressions.ts`: tokens and the values of their placeholders |
| `clone` and the methods that call it (`QueryBuilder`) | `query-builder.ts` 107–385, 508–524. Arrays live in a heap, as `clone` copies some and shares others |
| `with`, `combine`, `asSubquery`, `toSQL` | 333–493 |
| `builder` and one action per method (`KnexBuilder`) | `knex-builder.ts`: one mutable builder; clauses are records of texts and values |
| `buildWhereSQL`, `buildHavingSQL`, `buildCountSQL`, `toSQL`, `insertSQL`, `updateSQL`, ... | 624–942 |
| `Run`, `Matches`, `Writes`, ... | the database with one table and one joined to it (external) |

Run `qb`: expressions composed in up to four steps from every constructor, and
up to four builders derived from one another in four steps, each able to be the
subquery, CTE or operand of the next. A third step is the least in which an
operator under another one stands beside a third; the fourth builder the least
in which two derived from one base meet again. It shows that the text means
what was composed (`ReadAsComposed`, `ReadAsBuilt`), that the values are those
of the placeholders in the order of the text (`ValuesInOrder`), and that no
builder changes under those derived from it (`BasesKeepTheirText`).

Where the code does otherwise, the properties say under which condition they
hold: an operand of a set operation with an ORDER BY, a LIMIT or set operations
of its own regroups the query, as no brackets are set (466); `groupBy` and
`orderBy` keep an expression's text and drop its values (262), which is the
constant `ValuedGroups` (`FALSE` in the run; with `TRUE`, `ValuesInOrder` fails).

Run `knex`: up to four calls on one builder, clauses and statements in any
order, and up to three conditions. Three conditions are the least in which AND
and OR mix; four calls the least in which clauses, a statement that leaves
something behind (`first` sets the limit, `pluck` the columns) and another
statement follow one another. `ValuesBound`, `CountAgrees`, `Narrowing`,
`OnlySelectedChange` and `InsertedAsGiven` are explained in the module, with the
cases they leave out: a raw condition that is an OR, counts of queries with
groups, distinct or limits, and `insertMany` of objects with different keys
(645: columns come from the first). `OnlySelectedChange` compares what a delete
takes with the rows its conditions match and with those its query finds, by way
of the joins (`Finds`): the statement leaves none of these, and without joins
takes just these. It is not what the query shows: the limit that `first` leaves
in the builder (571), and a join, narrow the query and not the statements, which
render the conditions alone (664–727).

Proved (`QueryBuilderProofs.tla`), for any conditions to start from and any
number of steps and builders:

- `BasesKeepTheirTextHolds`. The invariant `Shape` says that every builder holds
  an array of joins that is there. Builders share what `clone` does not copy;
  the joins are the one array that is added to in place, and `clone` copies
  them. So each method adds an array, and writes to none but that one
  (`Extending`).
- `ValuesInOrderAlways`, of the condition being composed and of every builder,
  under `~ValuedGroups`. The invariant `Valued` says that every part, join and
  CTE of a builder, and the condition, has a text whose placeholders ask for its
  values in order. `toSQL` joins texts and values in parallel, each with
  separators between them, and the lemmas say that flattening and asking
  distribute over concatenation (`FlatJoin`, `MeantJoins`). They are proved by
  induction on lengths: the set of numbers for which the claim holds is all of
  Nat, as it would otherwise have a least one missing (`ByInduction`).
- `ConditionsExpressed`. The constants `Leaves` and `Tests` are the conditions
  an application starts from, and `QueryAssumption`, which TLC evaluates for
  those of the run, says that theirs are in order. The theorem shows that the
  assumption holds of every condition made by `compare`, `inArray`,
  `notInArray`, `between`, `like`, `isNull` and `isNotNull`, with plain values
  and lists of any length.

Proved (`KnexBuilderProofs.tla`), for any columns, values, lists, raw
conditions, rows and objects with `KnexAssumption` and `TableAssumption` (the
values of the table are those of its columns, `id` is its key, an update sets no
key, raw conditions bring the values they ask for): all five properties.

- `NarrowingHolds`. A where added to a builder, or one of its shorthands, never
  adds a row to what its conditions match, and an orWhere never takes one away;
  a raw where with an OR of its own is left out (`Splices`). Nothing is put in
  brackets, so that a where binds to what follows the last OR only, and this is
  not obvious. The invariant `IInv` says that the conditions are always
  well-formed clauses, whatever other calls did to the builder; the lemma
  `TextJoins` that the text of a longer list begins with that of the shorter,
  and `AndNarrows` and `OrWidens` what more tests without an OR, and more clauses
  that begin with one, do to the rows a text matches.
- `ValuesBoundAlways`. Of conditions, havings, inserted and updated entries, texts
  and values are gathered apart, and leave out the same ones.
- `OnlySelectedChangeHolds` and `InsertedAsGivenHolds`, with the invariant
  `Keyed`: the rows are finitely many and `id` stays a key, so that an update
  that maps two rows to different ones loses none. That what a query finds are
  rows the conditions match, and all of them without joins, is `FoundAreHit`.
- `CountAgreesAlways`, with `Limited`: `count` renders the conditions anew
  (`buildCountSQL`) and must agree with the query, grouped, distinct or limited,
  on whether there is a row, and without these on how many.

## 8. SQL client, validator, archive

`SqlServer.tla` (external) is the database: what a statement needs, changes and
answers in the database of the session it arrives on. `LegacySchemaDiff.tla`
holds the parser and the comparison of `schema-diff.ts`. `SqlClient.tla` is
concurrent callers, each sending the statements of its operations one after the
other over the pools of the client and of the archive.

| Model | Code |
|---|---|
| `sessions`, `waiting`, `Ask`, `HandOver`, `Take` | the pools of `client.ts` 51–77 and `data-archive.ts` 193–206; what mysql2 does with them is external |
| `createTable`, `createIndex`, `insertMany`, `getTableStats`, ... | the statements of the operations of `client.ts` |
| `introspect`, `NextOf`, `Catches`, `Introspected` | `schema-diff.ts` 103–156: USE, SHOW TABLES, then two statements per table; one that fails leaves the table out |
| `archive`, `purgeArchived`, `Returned` | `data-archive.ts` 211–314: archive reports errors in its result |
| `Reply`, `Break`, `LateEffect` | a statement is answered; or its session breaks and it takes effect later, or never |
| filters, `server.now`, `Tick` | a filter says at each time which rows it matches, as one with NOW() does (README of the repository, 673 and 692); the export (250) and the DELETE (309) each evaluate it when they are carried out |
| `history` | what the properties remember; no step looks at it |

Run `client`: 48 scripts for three callers, two sessions of the client and one
of the archive, a queue of one, two breaks. Two breaks let a call and its
repetition both be cut off. Two sessions are the least at which `USE` on one
leaves the other behind; with three callers the queue of one overflows. The
scripts insert three rows under one label again and again in batches of one, two
and three; create tables with three indexes again, with a refused index and with
two bloom filters; archive and purge twice beside writers, under a filter that
a row ages into and under fixed ones; and validate while tables come and go.
Time moves once (`MaxTime`), which is enough to fall before, between or after
an export and its purge. It shows:

- `LabelledOnce`: rows given to `insertMany` under one label land at most once,
  whatever the batch sizes of the repetitions. A batch is labelled by the place
  of its first row, and a refused batch stops the rest.
- `IndexesInOrder`: a table has a prefix of its indexes at every moment and all
  of them once any `createTable` returned.
- `PurgedWasArchived`: a row that a purge after a successful archive deletes is
  in a file, or none of the caller's exports of that table under that filter, and
  there was one, found it: it came later, or aged into the filter. Such rows are
  lost, and the code does nothing against it; no others are.
- `ReportsWhatWas`: what the validator reports was so at a moment while it ran,
  and of what it does not report there was a moment at which it was as defined:
  the key and its columns and the distribution at one, the names, types and
  nullability of the columns at one. Types are compared as the code compares
  them: the sizes of decimals (526–537) and the widths of integers do not count,
  and DECIMAL(10,2) against DECIMAL(18,4) is never reported.

The premises are facts about the code; without them TLC finds each property
violated:

- `history.roamed`: `useDatabase` moves one session of the pool. Labels belong
  to a database, so that a repetition over another session may insert the rows
  once more there, and tables are created without some of their indexes.
- `CreatesOneWay`: of two bloom filters the second replaces the first, and a
  second `createTable` sets the first again before it stops at an index that is
  there. A `createTable` cut off after its first index can never be completed by
  calling it again.
- `Calls`: callers purge after an archive whose `success` they looked at. The
  example at lines 686–689 of the repository's README does not look at it (its
  purge is a dry run).
- `history.misled`, `PlainTables`: a statement that failed, or ran on a session
  in another database, makes a table look missing; a comment with the words
  PRIMARY KEY is taken for a key.

`SqlClientProofs` proves `PurgedWasArchived` (`PurgesAreArchived`) for any
callers, scripts, start and pools and any number of broken sessions, from three
assumptions: the pools have limits, operations are given sequences where they
take sequences, and only `purgeArchived` sends a DELETE; the tables of the start
have rows. The property is not inductive: a DELETE waits in a caller's
statements, in the queue, or behind a broken session long after the archive it
relies on. The invariant `IInv` therefore says of every place a DELETE can be
(`call`, `late`) that it is `Lawful`: its caller has exported the table under
its filter (`Covered`). It says of every answer in `told` that a reported
success is covered too (`Truthful`), which is what lets the next purge start;
and of every export that what it found is in the files (`FilesOK`, by
`ExportedRows`), so that a row that is deleted and in no file is one that no
such export found. No step takes an export back (`Upholds`) or a row out of the
files (`Keeps`), and neither new rows nor the passing of time change what an
older export found. `QueueOK` is there for `HandOver`: who is first in a queue
has a statement waiting.

`SqlClientOrderProofs` proves the three properties of operations made of several
statements. `LabelledOnceAlways` assumes `RowsAreNew` (rows given to
`insertMany` are not in the table of the start); `IndexesInOrderAlways` assumes
`IndexesAreCreateTables` (nobody but `createTable` sets indexes, and the start
has tables with the first of theirs). The scripts of the run satisfy both, and
TLC evaluates them there. These two theorems see a step only through what it
does to the operations (`Shape`: a caller begins, fails, or has a reply, or a
broken session's statement takes effect late), and rest on two invariants:
sessions stay in the database of the configuration until one roams (`HInv`), and
what an operation has still to send is the rest of its statements (`WorkOK`). On
top of them:

- `IndexOK`: a table has the first of its indexes; a call that has the CREATE
  TABLE and k indexes behind it found, or made, a table with k of them; a
  statement behind a broken session that sets an index comes to a table that has
  those ahead of it; and a call that returned found all. A statement may be
  answered "already exists" or arrive late; what it relied on is then still
  there, as nothing is taken away but with the table.
- `LabelOK`: a row given under one label only is in the table at most once. The
  batches of a repetition may be cut elsewhere, and their labels tell nothing of
  the rows behind them; but every call begins with the batch at the first place,
  whose label does not depend on the size, and is refused if that is taken. So
  one call at most is ever beyond its first batch. Until then the row is not in
  the table, and while that call, or a statement it left behind, has the row
  still to insert (`Threatened`), it is not there either.

`ReportsWhatWasAlways` rests on the same two invariants and on `WatchOK`. A
report is put together from answers given at different moments, between which
the other callers change the tables. So the invariant follows each validation
while it runs (`Follows`): the server as it is now is among the moments it has
seen, and what it has read so far (`Reads`) is of them. Every table it has read
was at one moment what its create statement showed, and at one what its columns
showed, which may be two different moments and two different tables (`Sound`);
and every table name is one that was missing at some moment, or is yet to be
asked for, or has been read (`Lists`): the names were taken at one moment, and a
table whose statements are refused had gone by then. At the end nothing is yet
to be asked for (`Complete`), and `ReportTells` says that `diff` makes a true
report of whatever is `Sound` and `Complete`. For the comparison of types this
is a lemma about `formatType` and `typesMatch` (`TypesAgree`): they find a
difference just when the definition and the server's column differ in base type
or length. That is so for the types in `TablesAreComparable`, which the theorem
assumes of the start and of every definition, and which the scripts of the run
satisfy: the server shows a width of integers alone, and both sizes of a
decimal; the columns of a table have different names, as have the definitions of
a validation; a definition gives the length of its texts and has no arrays.
Outside it the comparison is wrong in ways the code does not hide: a text
without a length is compared as one of 255, an array always differs. The
invariant carries the assumption along (`ShapesOK`), as every table of the
server is one of the start or made by a statement of the callers.

Two facts lie outside the instances: a `batchSize` of 0 never ends
(`client.ts` 415), and columns of complex types never match
(`formatType` in `LegacySchemaDiff`). A repeated `insertMany` whose first
batches are in stops at the first of them, and never inserts the rest.

## 9. Fairness

Liveness is checked for calls only, with weak fairness on a call's own step
after an answer or a timeout (`txn_reuse`, `load_shared`). The code justifies it:
each fetch of the two services carries `AbortSignal.timeout`, so an attempt
ends without the server's help, and the Effect runtime runs a fiber that can
run. Nothing is assumed of the channel or the server. The legacy clients'
fetches have no timeout, so nothing is claimed of their calls. Nothing is
claimed of the progress of SQL: a statement has no timeout, nor has a place in
the queue of a pool.

Runs whose calls, callers or runners have all ended, or whose plans or steps
are used up, stop; they say `CHECK_DEADLOCK FALSE`.

## 10. Proved, checked, left out

Proved are 36 of the 38 safety and refinement properties that the passing runs
check, each in a module named after its model. Left to TLC:

- the liveness properties (`Terminates`, `Returns`), as fairness and ENABLED are
  beyond the prover;
- `ReadAsComposed` and `ReadAsBuilt`: what a text means is defined by recursion
  over its brackets (`SqlReading`), which the prover cannot follow;
- the properties of transactions other than those above
  under label reuse;
- the counterexamples.

Recursion over data is avoided where something is proved, not given up: texts
are folded with operators of the community modules, whose unfolding the modules
prove, and induction is over sets of numbers, from the theorem that Nat is well
founded.

Not modelled, and why:

- query functions, aggregates and windows: one constructor per SQL function, all
  the `sql` template of `Expressions` with another name;
- the materialized view manager and the load jobs (`client.ts`, pipes, routine
  loads): single statements whose text is all there is to them;
- the pool wrapper `pool.ts` and `close`: they pass calls to mysql2;
- of the schema tools `toExecutableMigration`, the files written, the summaries;
- metrics, spans, log lines; the text of headers, statements and errors beyond
  what decides a branch; the backoff delays (a retry may come at any time);
  `generateLabel` (labels are given, equal or different); statuses of the server
  that are on no list of `parseResponse` (50), which would be taken for success;
- configuration, type declarations and exports.
