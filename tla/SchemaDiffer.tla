---------------------------- MODULE SchemaDiffer ----------------------------
(***************************************************************************)
(* The differ and the snapshot of schema/: pure functions over two kinds   *)
(* of descriptions of a database.                                          *)
(*                                                                         *)
(*   - A schema is what the developer defines: functions from the names of *)
(*     tables, views and materialized views to their definitions.          *)
(*   - A description is what IntrospectedSchema holds, read from a         *)
(*     database or made from a schema (schemaToIntrospected).              *)
(*                                                                         *)
(* A table is a record of columns, key, dist, props and indexes; in a      *)
(* schema it also names its special columns, those with a generated        *)
(* expression, an aggregate function, AUTO_INCREMENT or a comment.  Only   *)
(* CREATE TABLE writes these and the differ compares none of them.         *)
(* Columns, props and indexes are functions from names.  Where the code    *)
(* tells undefined from null, so do NoBuckets (undefined) and NullBuckets  *)
(* (null).                                                                 *)
(***************************************************************************)
EXTENDS Integers, Sequences, SequencesExt, FiniteSets

Null == "null"
NoBuckets == 0
NullBuckets == -1

NoNames == [n \in {} |-> Null]
NoDistribution == [type |-> Null, columns |-> <<>>, buckets |-> NullBuckets]

\* A data type is a base with a width, 0 when none is written.
IntegerTypes == {"BIGINT", "INT", "SMALLINT", "TINYINT"}

\* (mutant) The width is taken off every type.
StripWidth(type) ==
  IF type \in {[base |-> "TINYINT", width |-> 1], [base |-> "BOOLEAN", width |-> 0]}
  THEN [base |-> "BOOLEAN", width |-> 0] ELSE [type EXCEPT !.width = 0]

normalizeDataType(type) ==
  IF type \in {[base |-> "TINYINT", width |-> 1], [base |-> "BOOLEAN", width |-> 0]}
  THEN [base |-> "BOOLEAN", width |-> 0]
  ELSE IF type.base \in IntegerTypes THEN [type EXCEPT !.width = 0] ELSE type

\* The value of a property is plain or a list.  The differ, the snapshot and
\* ALTER TABLE write a list as JSON, CREATE TABLE as text joined by commas.
Stringify(value) == [text |-> value.text, form |-> IF value.list THEN "json" ELSE "plain"]
flattenProperties(value) == [text |-> value.text, form |-> "plain"]

-----------------------------------------------------------------------------
(* What the builders of the schema make.                                   *)

IsNaming(f) == f = [n \in DOMAIN f |-> f[n]] /\ IsFiniteSet(DOMAIN f)

IsType(type) ==
  /\ type = [base |-> type.base, width |-> type.width]
  /\ type.base = "BOOLEAN" => type.width = 0

IsColumn(col) ==
  /\ col = [type |-> col.type, nullable |-> col.nullable, default |-> col.default]
  /\ IsType(col.type)

\* One that is absent has the type Null.
IsDistribution(d) ==
  /\ d = [type |-> d.type, columns |-> d.columns, buckets |-> d.buckets]
  /\ d.type \in {Null, "HASH", "RANDOM"} /\ d.buckets \in Int

\* An index is on columns of its table.
IsIndex(index, columns) ==
  /\ index = [type |-> index.type, columns |-> index.columns, params |-> index.params]
  /\ IsNaming(index.params) /\ ToSet(index.columns) \subseteq columns

IsProperty(value) == value = [text |-> value.text, list |-> value.list] /\ value.list \in BOOLEAN

IsTable(t) ==
  /\ t = [columns |-> t.columns, key |-> t.key, dist |-> t.dist, props |-> t.props,
          indexes |-> t.indexes, special |-> t.special]
  /\ t.special \subseteq DOMAIN t.columns
  /\ IsNaming(t.columns) /\ \A c \in DOMAIN t.columns : IsColumn(t.columns[c])
  /\ IsDistribution(t.dist)
  /\ IsNaming(t.props) /\ \A k \in DOMAIN t.props : IsProperty(t.props[k])
  /\ IsNaming(t.indexes) /\ \A i \in DOMAIN t.indexes : IsIndex(t.indexes[i], DOMAIN t.columns)

IsView(v) == v = [columns |-> v.columns, security |-> v.security]

IsMV(m) ==
  /\ m = [columns |-> m.columns, refresh |-> m.refresh, dist |-> m.dist]
  /\ IsDistribution(m.dist)

IsSchema(s) ==
  /\ s = [tables |-> s.tables, views |-> s.views, mvs |-> s.mvs]
  /\ IsNaming(s.tables) /\ \A t \in DOMAIN s.tables : IsTable(s.tables[t])
  /\ IsNaming(s.views) /\ \A v \in DOMAIN s.views : IsView(s.views[v])
  /\ IsNaming(s.mvs) /\ \A m \in DOMAIN s.mvs : IsMV(s.mvs[m])

-----------------------------------------------------------------------------
(* Tables.                                                                 *)

\* (mutant) Defaults are compared in every table.
diffColumnAndDefault(defined, existing, isPrimaryKey) ==
     {a \in {"type"} : normalizeDataType(defined.type) # normalizeDataType(existing.type)}
  \cup {a \in {"nullable"} : defined.nullable # existing.nullable}
  \cup {a \in {"default"} : defined.default # existing.default}

\* The aspects of a column in which the definition and the database differ.
\* The default is not compared in tables with a primary key.
diffColumn(defined, existing, isPrimaryKey) ==
     {a \in {"type"} : normalizeDataType(defined.type) # normalizeDataType(existing.type)}
  \cup {a \in {"nullable"} : defined.nullable # existing.nullable}
  \cup {a \in {"default"} : ~isPrimaryKey /\ defined.default # existing.default}

diffProperties(defined, existing) ==
  {k \in DOMAIN defined.props :
     k \notin DOMAIN existing.props \/ existing.props[k] # Stringify(defined.props[k])}

diffIndex(defined, existing) ==
  \/ defined.type # existing.type
  \/ defined.columns # existing.columns
  \/ \E k \in DOMAIN defined.params :
       k \notin DOMAIN existing.params \/ existing.params[k] # defined.params[k]

\* Names on one side only, on the other only, and on both but different.
Changes(defined, existing, Differ(_, _)) ==
  [add    |-> DOMAIN defined \ DOMAIN existing,
   remove |-> DOMAIN existing \ DOMAIN defined,
   modify |-> {n \in DOMAIN defined \cap DOMAIN existing : Differ(defined[n], existing[n])}]

NoChanges == [add |-> {}, remove |-> {}, modify |-> {}]

\* Buckets and columns are compared between two hash distributions only, and
\* buckets left open differ from those of every description.
DistributionChanged(defined, existing) ==
  /\ defined.type # Null
  /\ \/ defined.type # existing.type
     \/ /\ defined.type = "HASH"
        /\ defined.columns # existing.columns \/ defined.buckets # existing.buckets

diffTable(defined, existing) ==
  LET ColumnDiffers(d, e) == diffColumn(d, e, defined.key = "PRIMARY") # {}
  IN  [columns            |-> Changes(defined.columns, existing.columns, ColumnDiffers),
       keyChange          |-> defined.key # existing.key,
       distributionChange |-> DistributionChanged(defined.dist, existing.dist),
       propertyChanges    |-> diffProperties(defined, existing),
       indexes            |-> Changes(defined.indexes, existing.indexes, diffIndex)]

NoTableChange == [columns |-> NoChanges, keyChange |-> FALSE, distributionChange |-> FALSE,
                  propertyChanges |-> {}, indexes |-> NoChanges]

-----------------------------------------------------------------------------
(* Views and materialized views.                                           *)

\* The text of the query is not compared.
diffView(defined, existing) ==
  \/ defined.columns # existing.columns
  \/ defined.security # Null /\ defined.security # existing.security

\* The first change found is the one reported.
diffMaterializedView(defined, existing) ==
  IF defined.refresh # existing.refresh THEN "alter_refresh"
  ELSE IF \/ defined.columns # existing.columns
          \/ /\ defined.dist.type # Null
             /\ \/ defined.dist.type # existing.dist.type
                \/ defined.dist.type = "HASH" /\ defined.dist.columns # existing.dist.columns
       THEN "recreate" ELSE "none"

-----------------------------------------------------------------------------
(* Schemas.                                                                *)

diffSchema(schema, introspected) ==
  LET TableDiffers(d, e) == diffTable(d, e) # NoTableChange
      MVDiffers(d, e) == diffMaterializedView(d, e) # "none"
  IN  [tables |-> Changes(schema.tables, introspected.tables, TableDiffers),
       views  |-> Changes(schema.views, introspected.views, diffView),
       mvs    |-> Changes(schema.mvs, introspected.mvs, MVDiffers)]

hasChanges(diff) == \E kind \in {"tables", "views", "mvs"} : diff[kind] # NoChanges

-----------------------------------------------------------------------------
(* The description of a schema without a database.                         *)

\* (mutant) The snapshot forgets buckets.
tableWithoutBuckets(table) ==
  [columns |-> table.columns, key |-> table.key, indexes |-> table.indexes,
   dist    |-> IF table.dist.type = Null THEN NoDistribution
               ELSE [table.dist EXCEPT !.buckets = NullBuckets],
   props   |-> [k \in DOMAIN table.props |-> Stringify(table.props[k])]]

tableToIntrospected(table) ==
  LET dist == table.dist IN
  [columns |-> table.columns, key |-> table.key, indexes |-> table.indexes,
   dist    |-> IF dist.type = Null THEN NoDistribution
               ELSE [type    |-> dist.type,
                     columns |-> IF dist.type = "HASH" THEN dist.columns ELSE <<>>,
                     buckets |-> IF dist.buckets = NoBuckets THEN NullBuckets ELSE dist.buckets],
   props   |-> [k \in DOMAIN table.props |-> Stringify(table.props[k])]]

materializedViewToIntrospected(mv) ==
  [mv EXCEPT !.dist.columns = IF mv.dist.type = "HASH" THEN @ ELSE <<>>]

schemaToIntrospected(schema) ==
  [tables |-> [t \in DOMAIN schema.tables |-> tableToIntrospected(schema.tables[t])],
   views  |-> schema.views,
   mvs    |-> [m \in DOMAIN schema.mvs |-> materializedViewToIntrospected(schema.mvs[m])]]
=============================================================================
