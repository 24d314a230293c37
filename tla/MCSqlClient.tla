----------------------------- MODULE MCSqlClient -----------------------------
EXTENDS SqlClient

MCDisplayed == [INT |-> <<11>>]
MCLimits == [client |-> 2, archive |-> 1]
MCQueues == [client |-> 1, archive |-> 1]
MCCallers == {"a", "b", "c"}

Col(name, base, args) == [name |-> name, base |-> base, args |-> args, nullable |-> TRUE]
Def(name, columns, indexes) ==
    [name |-> name, columns |-> columns, keyType |-> "DUPLICATE", keys |-> <<"k">>,
     distribution |-> [type |-> "HASH", columns |-> <<"k">>], comment |-> {}, indexes |-> indexes]
Indexes == <<[type |-> "BITMAP", name |-> "i1", valid |-> TRUE],
             [type |-> "BLOOM_FILTER", columns |-> <<"k">>],
             [type |-> "VECTOR", name |-> "i2", valid |-> TRUE]>>
BadIndexes == <<Indexes[1], [type |-> "INVERTED", name |-> "i3", valid |-> FALSE], Indexes[2]>>

T == Def("t", <<Col("k", "INT", <<>>), Col("v", "VARCHAR", <<8>>)>>, <<>>)
TWider == [T EXCEPT !.columns[2].args = <<9>>, !.columns[2].nullable = FALSE]
U == Def("u", <<Col("k", "INT", <<>>)>>, Indexes)
UPrimary == [U EXCEPT !.keyType = "PRIMARY", !.distribution = [type |-> "RANDOM", columns |-> <<>>]]
UPlain == [U EXCEPT !.indexes = <<>>]
UTwice == [U EXCEPT !.indexes = <<Indexes[2], [Indexes[2] EXCEPT !.columns = <<"v">>], Indexes[1]>>]
\* The word of another clause in a comment.
TSays == [T EXCEPT !.comment = {"PRIMARY KEY"}]
UBad == [U EXCEPT !.indexes = BadIndexes]

MCStart == [tables |-> [home |-> [t |-> [EmptyTable(T) EXCEPT !.rows["r1"] = 1], s |-> EmptyTable(T)],
                        other |-> [t |-> EmptyTable(TWider), s |-> EmptyTable(T)]],
            labels |-> {}, files |-> {}, now |-> 0]
MCRows == {"r1", "r2", "r3"}

Send(kind, st) == [kind |-> kind, statement |-> st]
UseDatabase(db) == Send("useDatabase", useDatabase(db))
CreateDatabase(db) == Send("createDatabase", createDatabase(db, TRUE))
DropDatabase(db) == Send("dropDatabase", dropDatabase(db, FALSE))
DropTable(t) == Send("dropTable", dropTable(t, TRUE))
DropIndex(t, i) == Send("dropIndex", dropIndex(t, i))
Insert(t, r) == Send("insert", insert(t, r, NoLabel))
InsertSelect(t, from) == Send("insertSelect", insertSelect(t, from, NoLabel))
Overwrite(t, from) == Send("insertOverwrite", insertOverwrite(t, from))
CreateTable(def, lenient) == [kind |-> "createTable", def |-> def, lenient |-> lenient]
Many(size, label) == [kind |-> "insertMany", table |-> "s", rows |-> <<"r1", "r2", "r3">>,
                      batchSize |-> size, label |-> label]
Turned(size, label) == [Many(size, label) EXCEPT !.rows = <<"r3", "r1", "r2">>]
\* A filter with NOW(): r1 is old, r2 grows old.
Always(rows) == [time \in 0..1 |-> rows]
Older == [time \in 0..1 |-> IF time = 0 THEN {"r1"} ELSE {"r1", "r2"}]
Archive(f) == [kind |-> "archive", db |-> "home", table |-> "t", filter |-> f]
Purge(f) == [kind |-> "purgeArchived", db |-> "home", table |-> "t", filter |-> f, dryRun |-> FALSE]
Count == [Purge(Always({"r1"})) EXCEPT !.dryRun = TRUE]
Stats == [kind |-> "getTableStats", table |-> "t"]
Validate(tables) == [kind |-> "validate", db |-> "home", tables |-> tables]

Plays(A, B, C) == {("a" :> one) @@ ("b" :> other) @@ ("c" :> third) : one \in A, other \in B, third \in C}
MCScripts ==
    \* rows given under one label, again, in other batches and in another order
    Plays({<<Many(2, <<"l">>), Many(1, <<"l">>)>>},
          {<<Turned(1, <<"l">>), Many(2, <<"l">>)>>, <<Many(3, <<"l">>)>>},
          {<<>>, <<UseDatabase("other")>>, <<InsertSelect("s", "t")>>})
    \* tables with indexes, created again
    \cup Plays({<<CreateTable(U, TRUE), CreateTable(U, TRUE)>>, <<CreateTable(UTwice, TRUE)>>},
               {<<CreateTable(U, TRUE)>>, <<CreateTable(UBad, FALSE)>>, <<CreateTable(UTwice, TRUE)>>},
               {<<DropTable("u")>>, <<DropIndex("u", "i1")>>, <<UseDatabase("other")>>})
    \* archives and the purges that follow them
    \cup Plays({<<Archive(Older), Purge(Older), Archive(Older), Purge(Older)>>,
                <<Archive(Always({"r2"})), Purge(Always({"r2"})), Purge(NoFilter)>>},
               {<<Insert("t", "r2"), Insert("t", "r2")>>,
                <<Archive(Always({"r1"})), Purge(Always({"r1"}))>>, <<Overwrite("t", "s")>>},
               {<<>>, <<Count, Stats>>, <<Archive(Always({"r1"}))>>})
    \* validation while tables come and go
    \cup Plays({<<Validate({T, UPrimary})>>},
               {<<DropTable("t"), CreateTable(TWider, TRUE)>>, <<CreateTable(UPlain, TRUE), DropTable("s")>>},
               {<<>>, <<UseDatabase("other")>>})
    \cup Plays({<<Validate({TWider})>>},
               {<<DropTable("t"), CreateTable(TSays, FALSE)>>, <<DropDatabase("other"), CreateDatabase("other")>>},
               {<<>>})

\* These scripts and this start are such as the theorems about them suppose.
ASSUME RowsAreNew
ASSUME IndexesAreCreateTables
ASSUME TablesAreComparable
=============================================================================
