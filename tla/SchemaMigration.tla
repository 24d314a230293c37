-------------------------- MODULE SchemaMigration --------------------------
(***************************************************************************)
(* The migration generator, and the statements it generates at work on a   *)
(* database that has rows in its tables and applications writing to them.  *)
(*                                                                         *)
(* Plan is introspect, diffSchema and generateMigration.  A plan is a list *)
(* of statements up and a list down; whoever executes them stops at the    *)
(* first error, and may go on from there, start over, or plan again.  A    *)
(* query of the introspection that fails is taken for one with nothing to  *)
(* tell, and the plan is made all the same.  What a statement does to the  *)
(* database is external: StarRocks.                                        *)
(***************************************************************************)
EXTENDS SchemaDiffer, SequencesExt

CONSTANTS
  Schemas,      \* the schemas the developer moves between
  FirstSchema,  \* the one the database was created from
  Tables,       \* names of the tables defined in the schemas
  OldName,      \* the name "<table>_old" of each table
  Rows,         \* rows the applications write
  Losses,       \* what the queries of an introspection may fail to tell
  MaxPlans,     \* plans made (bound)
  Cautious      \* TRUE if nobody plans while a renamed table is there

ASSUME SchemasAssumption ==
  /\ FirstSchema \in Schemas
  /\ \A s \in Schemas : IsSchema(s) /\ DOMAIN s.tables \subseteq Tables
  /\ \A t \in Tables : OldName[t] \notin Tables
  /\ \A t, u \in Tables : OldName[t] = OldName[u] => t = u
  /\ MaxPlans \in Nat
  /\ Cautious \in BOOLEAN

VARIABLES
  plans,    \* how many plans were made
  db,       \* the database: tables with their rows, views, materialized views
  plan,     \* the last plan: goal, what was read before and what was not, up and down
  todo,     \* the statements of the plan not yet executed
  phase,    \* "running", "stopped" by an error, or "done"
  rolling,  \* TRUE once the statements are those of down
  acked     \* the rows whose writers were told that they are in the table

vars == <<plans, db, plan, todo, phase, rolling, acked>>

-----------------------------------------------------------------------------
(* The migration generator.  Within one group the order is that of the     *)
(* definitions in the code, and an arbitrary one here.                     *)

Nothing == [up |-> <<>>, down |-> <<>>]
Then(p, q) == [up |-> p.up \o q.up, down |-> p.down \o q.down]

\* What a function gives, name by name; and the statements of such parts in one.
Listing(f) == LET names == SetToSeq(DOMAIN f) IN [i \in DOMAIN names |-> f[names[i]]]
Gather(parts) ==
  LET ps == Listing(parts)
  IN  [up   |-> FlattenSeq([i \in DOMAIN ps |-> ps[i].up]),
       down |-> FlattenSeq([i \in DOMAIN ps |-> ps[i].down])]

\* A comment that asks for manual intervention.
Manual == [op |-> "manual"]

CreateTable(t, def) == [op |-> "createTable", name |-> t, def |-> def]
DropTable(t) == [op |-> "dropTableIfExists", name |-> t]
CreateIndex(t, i, index) == [op |-> "createIndex", name |-> t, index |-> i, def |-> index]
DropIndex(t, i) == [op |-> "dropIndex", name |-> t, index |-> i]
AddColumn(t, c, col) == [op |-> "addColumn", name |-> t, column |-> c, def |-> col]
DropColumn(t, c) == [op |-> "dropColumn", name |-> t, column |-> c]
ModifyColumn(t, c, col) == [op |-> "modifyColumn", name |-> t, column |-> c, def |-> col]

CreateView(v, def) == [op |-> "createView", name |-> v, def |-> def]
ReplaceView(v, def) == [op |-> "replaceView", name |-> v, def |-> def]
DropView(v) == [op |-> "dropView", name |-> v]
CreateMV(m, def) == [op |-> "createMV", name |-> m, def |-> def]
DropMV(m) == [op |-> "dropMV", name |-> m]
AlterRefresh(m, def) == [op |-> "alterRefresh", name |-> m, refresh |-> def.refresh]

\* A column of the database on the way back: an empty default is falsy.
OldColumn(col) == [col EXCEPT !.default = IF @ = "empty" THEN Null ELSE @]

\* (mutant) A column is reverted to its new definition.
ModifiedForGood(t, c, defined, existing) ==
  [up   |-> <<ModifyColumn(t, c, defined.columns[c])>>,
   down |-> <<ModifyColumn(t, c, defined.columns[c])>>]
ModifiedColumn(t, c, defined, existing) ==
  [up   |-> <<ModifyColumn(t, c, defined.columns[c])>>,
   down |-> <<ModifyColumn(t, c, OldColumn(existing.columns[c]))>>]

generateColumnAlterStatements(t, defined, existing, changes) ==
  LET added == [c \in changes.add |-> [up   |-> <<AddColumn(t, c, defined.columns[c])>>,
                                       down |-> <<DropColumn(t, c)>>]]
      removed == [c \in changes.remove |->
                    [up   |-> <<DropColumn(t, c)>>,
                     down |-> <<AddColumn(t, c, OldColumn(existing.columns[c]))>>]]
      modified == [c \in changes.modify |-> ModifiedColumn(t, c, defined, existing)]
  IN  Then(Gather(added), Then(Gather(removed), Gather(modified)))

generateIndexAlterStatements(t, defined, changes) ==
  LET Create(i) == CreateIndex(t, i, defined.indexes[i])
      added == [i \in changes.add |-> [up |-> <<Create(i)>>, down |-> <<DropIndex(t, i)>>]]
      removed == [i \in changes.remove |-> [up |-> <<DropIndex(t, i)>>, down |-> <<Manual>>]]
      modified == [i \in changes.modify |->
                     [up |-> <<DropIndex(t, i), Create(i)>>, down |-> <<Manual>>]]
  IN  Then(Gather(added), Then(Gather(removed), Gather(modified)))

SetProperties(t, defined, keys) ==
  IF keys = {} THEN Nothing
  ELSE [up   |-> <<[op |-> "setProperties", name |-> t,
                    props |-> [k \in keys |-> Stringify(defined.props[k])]]>>,
        down |-> <<Manual>>]

Rename(t) == [op |-> "rename", name |-> t, to |-> OldName[t]]
Copy(t, defined) == [op |-> "copy", name |-> t, from |-> OldName[t],
                     columns |-> DOMAIN defined.columns]
DropOld(t) == [op |-> "dropTable", name |-> OldName[t]]

\* (mutant) The old table is dropped before its rows are copied.
RecreateDroppingFirst(t, defined) ==
  [up   |-> <<Rename(t), CreateTable(t, defined), DropOld(t), Copy(t, defined)>>,
   down |-> <<Manual>>]
generateTableRecreateStatements(t, defined) ==
  [up   |-> <<Rename(t), CreateTable(t, defined), Copy(t, defined), DropOld(t)>>,
   down |-> <<Manual>>]

\* A table is altered, or recreated for its key or distribution; its indexes,
\* but for those in the CREATE TABLE, are then left out.
generateTableAlterStatements(t, defined, existing) ==
  LET change == diffTable(defined, existing) IN
  IF change.keyChange \/ change.distributionChange
  THEN generateTableRecreateStatements(t, defined)
  ELSE Then(generateColumnAlterStatements(t, defined, existing, change.columns),
            Then(generateIndexAlterStatements(t, defined, change.indexes),
                 SetProperties(t, defined, change.propertyChanges)))

\* The bitmap indexes of a new table are created twice: inside its CREATE TABLE
\* and by a statement of their own.
CreateIndexes(t, indexes) == Listing([i \in DOMAIN indexes |-> CreateIndex(t, i, indexes[i])])
generateTableMigrations(schema, diff, introspected) ==
  LET added == [t \in diff.tables.add |->
                  [up   |-> <<CreateTable(t, schema.tables[t])>>
                              \o CreateIndexes(t, schema.tables[t].indexes),
                   down |-> <<DropTable(t)>>]]
      removed == [t \in diff.tables.remove |-> [up |-> <<DropTable(t)>>, down |-> <<Manual>>]]
      modified == [t \in diff.tables.modify |->
                     generateTableAlterStatements(t, schema.tables[t], introspected.tables[t])]
  IN  Then(Gather(added), Then(Gather(removed), Gather(modified)))

generateViewMigrations(schema, diff) ==
  LET added == [v \in diff.views.add |-> [up   |-> <<CreateView(v, schema.views[v])>>,
                                          down |-> <<DropView(v)>>]]
      removed == [v \in diff.views.remove |-> [up |-> <<DropView(v)>>, down |-> <<Manual>>]]
      modified == [v \in diff.views.modify |-> [up   |-> <<ReplaceView(v, schema.views[v])>>,
                                                down |-> <<Manual>>]]
  IN  Then(Gather(added), Then(Gather(removed), Gather(modified)))

\* An alter_refresh of a view whose definition has no refresh adds nothing.
ModifiedMV(m, defined, existing) ==
  IF diffMaterializedView(defined, existing) = "recreate"
  THEN [up |-> <<DropMV(m), CreateMV(m, defined)>>, down |-> <<Manual>>]
  ELSE IF defined.refresh = Null THEN Nothing
  ELSE [up |-> <<AlterRefresh(m, defined)>>, down |-> <<Manual>>]

generateMaterializedViewMigrations(schema, diff, introspected) ==
  LET added == [m \in diff.mvs.add |-> [up   |-> <<CreateMV(m, schema.mvs[m])>>,
                                        down |-> <<DropMV(m)>>]]
      removed == [m \in diff.mvs.remove |-> [up |-> <<DropMV(m)>>, down |-> <<Manual>>]]
      modified == [m \in diff.mvs.modify |-> ModifiedMV(m, schema.mvs[m], introspected.mvs[m])]
  IN  Then(Gather(added), Then(Gather(removed), Gather(modified)))

generateMigration(schema, introspected) ==
  LET diff == diffSchema(schema, introspected) IN
  Then(generateTableMigrations(schema, diff, introspected),
       Then(generateViewMigrations(schema, diff),
            generateMaterializedViewMigrations(schema, diff, introspected)))

-----------------------------------------------------------------------------
(* StarRocks: what a statement makes of the database.                      *)

\* An integer type is given a display width; a boolean is a TINYINT(1).
Spelled(type) ==
  LET plain == normalizeDataType(type) IN
  CASE plain.base = "BOOLEAN" -> [base |-> "TINYINT", width |-> 1]
    [] plain.base \in IntegerTypes -> [plain EXCEPT !.width = 11]
    [] OTHER -> type

\* Tables with a primary key ignore the defaults of columns.
StoredColumn(key, col) ==
  [col EXCEPT !.type = Spelled(@), !.default = IF key = "PRIMARY" THEN Null ELSE @]

StoredTable(def) ==
  [special |-> def.special,
   columns |-> [c \in DOMAIN def.columns |-> StoredColumn(def.key, def.columns[c])],
   key     |-> def.key,
   dist    |-> IF def.dist.type = Null
               THEN [type |-> "RANDOM", columns |-> <<>>, buckets |-> NoBuckets] ELSE def.dist,
   props   |-> [k \in DOMAIN def.props |-> flattenProperties(def.props[k])],
   indexes |-> Restrict(def.indexes, {i \in DOMAIN def.indexes : def.indexes[i].type = "BITMAP"}),
   rows    |-> {}]

StoredMV(def) ==
  [def EXCEPT !.refresh = IF @ = Null THEN "MANUAL" ELSE @,
              !.dist = IF @.type = Null THEN NoDistribution ELSE @]

StoredSchema(s) ==
  [tables |-> [t \in DOMAIN s.tables |-> StoredTable(s.tables[t])],
   views  |-> s.views,
   mvs    |-> [m \in DOMAIN s.mvs |-> StoredMV(s.mvs[m])]]

\* What an introspection is not told: of which tables SHOW CREATE TABLE or SHOW
\* INDEX failed, and whether the query for materialized views did.  Of the tables
\* in primary the text holds "PRIMARY KEY" where it is not their key.
NothingLost == [ddl |-> {}, primary |-> {}, index |-> {}, mvs |-> FALSE]

\* SHOW CREATE TABLE is not understood without a number of buckets, and the
\* security of a view is not shown.
introspectTable(table, ddl, primary, index) ==
  [columns |-> table.columns,
   key     |-> IF ddl THEN Null ELSE IF primary THEN "PRIMARY" ELSE table.key,
   dist    |-> IF ddl \/ table.dist.buckets = NoBuckets THEN NoDistribution ELSE table.dist,
   props   |-> IF ddl THEN NoNames ELSE table.props,
   indexes |-> [i \in IF index THEN {} ELSE DOMAIN table.indexes |->
                  [table.indexes[i] EXCEPT !.params = IF ddl THEN NoNames ELSE @]]]

\* Only the migrator changes what is read here, so that it is read at one moment.
introspect(d, lost) ==
  [tables |-> [t \in DOMAIN d.tables |->
                 introspectTable(d.tables[t], t \in lost.ddl, t \in lost.primary, t \in lost.index)],
   views  |-> [v \in DOMAIN d.views |-> [d.views[v] EXCEPT !.security = Null]],
   mvs    |-> IF lost.mvs THEN NoNames ELSE d.mvs]

HasTable(t) == t \in DOMAIN db.tables
With(f, x, v) == [y \in DOMAIN f \cup {x} |-> IF y = x THEN v ELSE f[y]]
Without(f, x) == Restrict(f, DOMAIN f \ {x})

SetTable(t, v) == db' = [db EXCEPT !.tables = With(@, t, v)]
\* ALTER TABLE writes type, nullability and default: the column is special no more.
SetColumn(t, c, col) ==
  SetTable(t, [db.tables[t] EXCEPT !.columns = With(@, c, StoredColumn(db.tables[t].key, col)),
                                   !.special = @ \ {c}])

\* A default that is text is not quoted on the way back.
Readable(col) == rolling => col.default # "text"

\* The statement is accepted and takes effect.
TakesEffect(st) ==
  \/ st.op = "createTable" /\ ~HasTable(st.name) /\ SetTable(st.name, StoredTable(st.def))
  \/ st.op = "createTable" /\ HasTable(st.name) /\ UNCHANGED db
  \/ /\ st.op = "dropTableIfExists" \/ (st.op = "dropTable" /\ HasTable(st.name))
     /\ db' = [db EXCEPT !.tables = Without(@, st.name)]
  \/ /\ st.op = "rename" /\ HasTable(st.name) /\ ~HasTable(st.to)
     /\ db' = [db EXCEPT !.tables = With(Without(@, st.name), st.to, @[st.name])]
  \/ /\ st.op = "copy" /\ HasTable(st.name) /\ HasTable(st.from)
     /\ st.columns \subseteq DOMAIN db.tables[st.from].columns \cap DOMAIN db.tables[st.name].columns
     /\ SetTable(st.name, [db.tables[st.name] EXCEPT !.rows = @ \cup db.tables[st.from].rows])
  \/ /\ st.op = "addColumn" /\ HasTable(st.name) /\ Readable(st.def)
     /\ st.column \notin DOMAIN db.tables[st.name].columns
     /\ SetColumn(st.name, st.column, st.def)
  \/ /\ st.op = "modifyColumn" /\ HasTable(st.name) /\ Readable(st.def)
     /\ st.column \in DOMAIN db.tables[st.name].columns
     /\ SetColumn(st.name, st.column, st.def)
  \/ \* The indexes on the column go with it.
     /\ st.op = "dropColumn" /\ HasTable(st.name)
     /\ st.column \in DOMAIN db.tables[st.name].columns
     /\ SetTable(st.name, [db.tables[st.name] EXCEPT
                             !.columns = Without(@, st.column), !.special = @ \ {st.column},
                             !.indexes = Restrict(@, {i \in DOMAIN @ :
                                                        st.column \notin ToSet(@[i].columns)})])
  \/ /\ st.op = "createIndex" /\ HasTable(st.name)
     /\ st.index \notin DOMAIN db.tables[st.name].indexes
     /\ ToSet(st.def.columns) \subseteq DOMAIN db.tables[st.name].columns
     /\ SetTable(st.name, [db.tables[st.name] EXCEPT !.indexes = With(@, st.index, st.def)])
  \/ /\ st.op = "dropIndex" /\ HasTable(st.name)
     /\ st.index \in DOMAIN db.tables[st.name].indexes
     /\ SetTable(st.name, [db.tables[st.name] EXCEPT !.indexes = Without(@, st.index)])
  \/ \* The quotes in the JSON of a list end the value: the statement does not parse.
     /\ st.op = "setProperties" /\ HasTable(st.name)
     /\ \A k \in DOMAIN st.props : st.props[k].form = "plain"
     /\ SetTable(st.name, [db.tables[st.name] EXCEPT
                             !.props = [k \in DOMAIN @ \cup DOMAIN st.props |->
                                          IF k \in DOMAIN st.props THEN st.props[k] ELSE @[k]]])
  \/ /\ st.op = "replaceView" \/ (st.op = "createView" /\ st.name \notin DOMAIN db.views)
     /\ db' = [db EXCEPT !.views = With(@, st.name, st.def)]
  \/ st.op = "dropView" /\ db' = [db EXCEPT !.views = Without(@, st.name)]
  \/ /\ st.op = "createMV"
     /\ db' = [db EXCEPT !.mvs = IF st.name \in DOMAIN @ THEN @ ELSE With(@, st.name, StoredMV(st.def))]
  \/ st.op = "dropMV" /\ db' = [db EXCEPT !.mvs = Without(@, st.name)]
  \/ /\ st.op = "alterRefresh" /\ st.name \in DOMAIN db.mvs
     /\ db' = [db EXCEPT !.mvs[st.name].refresh = st.refresh]

-----------------------------------------------------------------------------
(* Planning, executing and writing.                                        *)

Wanted == DOMAIN plan.goal.tables \cap (IF rolling THEN DOMAIN plan.before.tables ELSE Tables)

Init ==
  /\ plans = 0
  /\ db = StoredSchema(FirstSchema)
  /\ plan = [goal |-> FirstSchema, lost |-> NothingLost, up |-> <<>>, down |-> <<>>,
             before |-> introspect(StoredSchema(FirstSchema), NothingLost)]
  /\ todo = <<>> /\ phase = "done" /\ rolling = FALSE
  /\ acked = [t \in Tables |-> {}]

\* generateCreateTableSQL throws for a table without a key.
Plan(s, lost) ==
  LET existing == introspect(db, lost)
      g == generateMigration(s, existing)
  IN
  /\ phase # "running" /\ plans < MaxPlans
  /\ plans' = plans + 1
  /\ Cautious => \A t \in Tables : ~HasTable(OldName[t])
  /\ \A i \in DOMAIN g.up : g.up[i].op = "createTable" => g.up[i].def.key # Null
  /\ plan' = [goal |-> s, lost |-> lost, before |-> existing, up |-> g.up, down |-> g.down]
  /\ todo' = g.up /\ rolling' = FALSE
  /\ phase' = IF g.up = <<>> THEN "done" ELSE "running"
  /\ acked' = [t \in Tables |-> IF t \in DOMAIN s.tables THEN acked[t] ELSE {}]
  /\ UNCHANGED db

Rollback ==
  /\ phase = "done" /\ ~rolling /\ plan.down # <<>>
  /\ todo' = plan.down /\ rolling' = TRUE /\ phase' = "running"
  /\ acked' = [t \in Tables |-> IF t \in DOMAIN plan.before.tables THEN acked[t] ELSE {}]
  /\ UNCHANGED <<plans, db, plan>>

\* The next statement takes effect; its answer may be lost.
Execute ==
  /\ phase = "running" /\ TakesEffect(Head(todo))
  /\ \/ /\ todo' = Tail(todo)
        /\ phase' = IF Tail(todo) = <<>> THEN "done" ELSE "running"
     \/ phase' = "stopped" /\ UNCHANGED todo
  /\ UNCHANGED <<plans, plan, rolling, acked>>

\* The next statement is refused, or fails for a reason of its own.
Fail ==
  /\ phase = "running" /\ phase' = "stopped"
  /\ UNCHANGED <<plans, db, plan, todo, rolling, acked>>

Resume ==
  /\ phase = "stopped" /\ phase' = "running"
  /\ UNCHANGED <<plans, db, plan, todo, rolling, acked>>

StartOver ==
  /\ phase = "stopped" /\ phase' = "running"
  /\ todo' = IF rolling THEN plan.down ELSE plan.up
  /\ UNCHANGED <<plans, db, plan, rolling, acked>>

\* An application writes a row to a table the goal defines.
Write(t, r) ==
  /\ t \in Wanted /\ HasTable(t) /\ r \notin db.tables[t].rows
  /\ db' = [db EXCEPT !.tables[t].rows = @ \cup {r}]
  /\ acked' = [acked EXCEPT ![t] = @ \cup {r}]
  /\ UNCHANGED <<plans, plan, todo, phase, rolling>>

Next ==
  \/ \E s \in Schemas, lost \in Losses : Plan(s, lost)
  \/ Execute \/ Fail \/ Resume \/ StartOver \/ Rollback
  \/ \E t \in Tables, r \in Rows : Write(t, r)

Spec == Init /\ [][Next]_vars

-----------------------------------------------------------------------------
(* Properties.                                                             *)

RowsOf(t) == IF HasTable(t) THEN db.tables[t].rows ELSE {}
Reached == plans > 0 /\ phase = "done" /\ ~rolling
Recreated == {t \in Tables : \E i \in DOMAIN plan.up :
                plan.up[i].op = "rename" /\ plan.up[i].name = t}
Made == {plan.up[i].name : i \in {j \in DOMAIN plan.up : plan.up[j].op = "createTable"}}
Refreshed == {plan.up[i].name : i \in {j \in DOMAIN plan.up : plan.up[j].op = "alterRefresh"}}

\* No step of a migration loses a row of a table that stays: it is in the table
\* or in the one set aside by a recreation, and in the table when all is done.
RowsKept ==
  \A t \in Wanted :
    acked[t] \subseteq RowsOf(t) \cup (IF phase = "done" THEN {} ELSE RowsOf(OldName[t]))

\* An altered database is what creating it from the schema would have given, in
\* all the generator looks at: a migration that was planned from a full answer and
\* executed to its end leaves no column, key, distribution, index or property
\* behind, whatever earlier plans did that were not.  The special columns are
\* those of the schema only in the tables that the plan made.
GoalReached ==
  Reached /\ plan.lost = NothingLost =>
    /\ DOMAIN db.tables = DOMAIN plan.goal.tables
    /\ \A t \in DOMAIN db.tables :
         LET is == db.tables[t]
             def == plan.goal.tables[t]
             created == StoredTable(def)
         IN  /\ is.columns = created.columns /\ is.key = created.key
             /\ t \in Made => is.special = created.special
             /\ def.dist.type # Null => is.dist.type = def.dist.type
             /\ def.dist.type = "HASH" => is.dist = def.dist
             /\ \A k \in DOMAIN def.props : is.props[k].text = def.props[k].text
             /\ LET indexes == IF t \in Recreated THEN created.indexes ELSE def.indexes IN
                /\ DOMAIN is.indexes = DOMAIN indexes
                /\ \A i \in DOMAIN indexes : ~diffIndex(indexes[i], is.indexes[i])
    /\ \A v \in DOMAIN db.views : db.views[v].columns = plan.goal.views[v].columns
    /\ DOMAIN db.views = DOMAIN plan.goal.views /\ DOMAIN db.mvs = DOMAIN plan.goal.mvs
    /\ \A m \in DOMAIN db.mvs :
         db.mvs[m].columns = plan.goal.mvs[m].columns \/ m \in Refreshed
                                                       \/ plan.goal.mvs[m].refresh = Null

\* After a migration that was planned from a full answer the differ, given
\* another, finds nothing more to do, but for what it cannot read back (open
\* buckets, list properties, a view's security, a refresh left open) and what the
\* plan put off (indexes of a recreated table, further changes of a refreshed
\* materialized view).
Settled ==
  Reached /\ plan.lost = NothingLost =>
    LET existing == introspect(db, NothingLost)
        diff == diffSchema(plan.goal, existing)
    IN  /\ \A kind \in {"tables", "views", "mvs"} : diff[kind].add = {} /\ diff[kind].remove = {}
        /\ \A t \in diff.tables.modify :
             LET def == plan.goal.tables[t]
                 change == diffTable(def, existing.tables[t])
             IN  /\ change.columns = NoChanges /\ ~change.keyChange
                 /\ change.distributionChange => def.dist.buckets = NoBuckets
                 /\ \A k \in change.propertyChanges : def.props[k].list
                 /\ change.indexes.remove = {} /\ change.indexes.modify = {}
                 /\ \A i \in change.indexes.add :
                      t \in Recreated /\ def.indexes[i].type # "BITMAP"
        /\ \A v \in diff.views.modify : plan.goal.views[v].security # Null
        /\ \A m \in diff.mvs.modify : m \in Refreshed \/ plan.goal.mvs[m].refresh = Null

\* The database holds nothing in a place that the definition leaves open, where
\* the differ does not look: further properties, parameters of an index, a
\* distribution.
NothingBeyond(schema, existing) ==
  /\ \A t \in DOMAIN schema.tables :
       LET def == schema.tables[t]
           is == existing.tables[t]
       IN  /\ DOMAIN is.props = DOMAIN def.props
           /\ def.dist.type = Null => is.dist.type = Null
           /\ \A i \in DOMAIN def.indexes : DOMAIN is.indexes[i].params = DOMAIN def.indexes[i].params
  /\ \A m \in DOMAIN schema.mvs :
       schema.mvs[m].dist.type = Null => existing.mvs[m].dist.type = Null

\* Offline diffing plans what a look at the database would: when the database is
\* as its schema says and has nothing beyond it, the snapshot of the schema
\* yields the same statements.
OfflineAgrees ==
  (/\ phase = "done" /\ ~rolling
   /\ ~hasChanges(diffSchema(plan.goal, introspect(db, NothingLost)))
   /\ NothingBeyond(plan.goal, introspect(db, NothingLost)))
  => \A s \in Schemas :
       generateMigration(s, schemaToIntrospected(plan.goal)).up
         = generateMigration(s, introspect(db, NothingLost)).up

\* The statements down, where none of them asks for manual work, lead back to
\* what was read before, up to an empty default, when every query was answered.
\* (A view that is there but was not read is planned as new, and down drops it.)
RollbackRestores ==
  phase = "done" /\ rolling /\ plan.lost = NothingLost =>
    LET now == introspect(db, NothingLost)
        Reverted(tables) == [t \in DOMAIN tables |->
          [tables[t] EXCEPT !.columns = [c \in DOMAIN @ |-> OldColumn(@[c])]]]
    IN  Reverted(now.tables) = Reverted(plan.before.tables)
        /\ now.views = plan.before.views /\ now.mvs = plan.before.mvs
=============================================================================
