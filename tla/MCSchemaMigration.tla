------------------------- MODULE MCSchemaMigration -------------------------
(* An instance of SchemaMigration for TLC: schemas that between them reach  *)
(* every kind of change the differ knows.                                   *)
EXTENDS SchemaMigration, TLC

CONSTANT r1  \* the row the applications write

OldNames == [t \in Tables |-> "old_" \o t]

Type(b) == [base |-> b, width |-> 0]
Varchar(n) == [base |-> "VARCHAR", width |-> n]
Col(type, nullable, default) == [type |-> type, nullable |-> nullable, default |-> default]
Hash(n) == [type |-> "HASH", columns |-> <<"id">>, buckets |-> n]
Random(n) == [type |-> "RANDOM", columns |-> <<>>, buckets |-> n]
Bitmap(c) == [type |-> "BITMAP", columns |-> <<c>>, params |-> NoNames]
Gin(c) == [type |-> "GIN", columns |-> <<c>>, params |-> NoNames]
Vector(c, dim) == [type |-> "VECTOR", columns |-> <<c>>, params |-> ("dim" :> dim)]
Plain(v) == [text |-> v, list |-> FALSE]
List(v) == [text |-> v, list |-> TRUE]
View(columns, security) == [columns |-> columns, security |-> security]
MV(columns, refresh, dist) == [columns |-> columns, refresh |-> refresh, dist |-> dist]
NoTable == [type |-> Null, columns |-> <<>>, buckets |-> NoBuckets]

Id == "id" :> Col(Type("BIGINT"), FALSE, Null)

First ==
  [tables |-> ("users" :> [columns |-> Id @@ ("name" :> Col(Varchar(10), TRUE, "zero")),
                           key |-> "DUPLICATE", dist |-> Hash(8), props |-> NoNames,
                           indexes |-> "byName" :> Bitmap("name"), special |-> {"name"}]),
   views  |-> "v" :> View({"id"}, Null),
   mvs    |-> "m" :> MV({"id"}, "ASYNC", Hash(8))]

\* Nothing but changes whose statements down are complete.
Extended ==
  [First EXCEPT
     !.tables["users"].columns = Id @@ ("name" :> Col(Varchar(20), TRUE, "zero"))
                                    @@ ("note" :> Col(Type("INT"), FALSE, "empty")),
     !.tables["users"].indexes = @ @@ ("words" :> Gin("name")),
     !.tables = @ @@ ("events" :> [columns |-> Id, key |-> "DUPLICATE", dist |-> Random(4),
                                   props |-> ("bloom" :> List("id,kind")), indexes |-> NoNames,
                                   special |-> {}]),
     !.views = @ @@ ("w" :> View({"id"}, Null)),
     !.mvs = @ @@ ("m2" :> MV({"id"}, "ASYNC", Random(4)))]

\* Columns, indexes and properties altered in place; an index is added.
Altered ==
  [First EXCEPT
     !.tables["users"].columns = Id @@ ("name" :> Col(Varchar(20), FALSE, "text"))
                                    @@ ("flag" :> Col(Type("BOOLEAN"), TRUE, "zero")),
     !.tables["users"].indexes = ("byName" :> Gin("name")) @@ ("byFlag" :> Bitmap("flag")),
     !.tables["users"].props = ("replicas" :> Plain("1")),
     !.views["v"].columns = {"id", "name"},
     !.mvs["m"].dist = Random(8)]

\* Another key, and with it defaults that are ignored; the materialized view is
\* refreshed otherwise and has another column.
Rekeyed ==
  [First EXCEPT
     !.tables["users"].key = "PRIMARY",
     !.tables["users"].indexes = ("near" :> Vector("name", 4)),
     !.views = NoNames,
     !.mvs["m"] = MV({"id", "name"}, "MANUAL", NoTable)]

\* The same key and more columns, more tables, buckets and refresh left open.
Grown ==
  [Rekeyed EXCEPT
     !.tables["users"].columns = @ @@ ("flag" :> Col(Type("BOOLEAN"), TRUE, "zero")),
     !.tables["users"].indexes = ("near" :> Vector("name", 8)),
     !.tables["users"].dist = Hash(8),
     !.tables = @ @@ ("events" :> [columns |-> Id, key |-> "DUPLICATE", dist |-> Hash(NoBuckets),
                                   props |-> NoNames, indexes |-> "byId" :> Bitmap("id"), special |-> {}]),
     !.views = "v" :> View({"id"}, "INVOKER"),
     !.mvs = "m2" :> MV({"id"}, Null, NoTable)]

\* Every kind of query fails somewhere: SHOW INDEX for the table whose text mentions
\* a primary key, SHOW CREATE TABLE for the other, and the materialized views.
Deaf == [ddl |-> {"events"}, primary |-> {"users"}, index |-> {"users"}, mvs |-> TRUE]
TheLosses == {NothingLost, Deaf}
NoLosses == {NothingLost}

TheSchemas == {First, Extended, Altered, Rekeyed, Grown}
=============================================================================
