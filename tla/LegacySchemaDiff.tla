-------------------------- MODULE LegacySchemaDiff --------------------------
(***************************************************************************)
(* The validator of schema-diff.ts: what it makes of the answers to SHOW   *)
(* CREATE TABLE and DESC, and what it reports about a definition.  The     *)
(* text of a create statement is kept as what it says and the words its    *)
(* comments hold, which the parser takes for clauses.                      *)
(***************************************************************************)
EXTENDS Naturals, FiniteSets, Sequences, SequencesExt

(***************************************************************************)
(* SchemaIntrospector                                                      *)
(***************************************************************************)
\* The words are looked for in the text as a whole, in this order.
KeyTypes == {"PRIMARY", "UNIQUE", "AGGREGATE", "DUPLICATE"}
KeyClause == [PRIMARY |-> "PRIMARY KEY", UNIQUE |-> "UNIQUE KEY",
              AGGREGATE |-> "AGGREGATE KEY", DUPLICATE |-> "DUPLICATE KEY"]
Mentions(create, word) == word = KeyClause[create.keyType] \/ word \in create.comment
parsedKeyType(create) ==
    CASE Mentions(create, "PRIMARY KEY") -> "PRIMARY"
      [] ~Mentions(create, "PRIMARY KEY") /\ Mentions(create, "UNIQUE KEY") -> "UNIQUE"
      [] ~Mentions(create, "PRIMARY KEY") /\ ~Mentions(create, "UNIQUE KEY")
            /\ Mentions(create, "AGGREGATE KEY") -> "AGGREGATE"
      [] OTHER -> "DUPLICATE"
parsedDistribution(create) ==
    IF create.distribution.type = "RANDOM" \/ "DISTRIBUTED BY RANDOM" \in create.comment
    THEN [type |-> "RANDOM", columns |-> <<>>]
    ELSE create.distribution

parseCreateTable(create) ==
    [keyType |-> parsedKeyType(create), keys |-> create.keys,
     distribution |-> parsedDistribution(create)]

introspectTable(name, create, columns) ==
    LET parsed == parseCreateTable(create)
    IN  [name |-> name, columns |-> columns, keyType |-> parsed.keyType, keys |-> parsed.keys,
         distribution |-> parsed.distribution]

(***************************************************************************)
(* SchemaDiffer                                                            *)
(***************************************************************************)
Diff(type, severity, table) == [type |-> type, severity |-> severity, table |-> table]
ColumnDiff(type, severity, table, column) ==
    [type |-> type, severity |-> severity, table |-> table, column |-> column]

formatType(col) ==
    CASE col.base \in {"VARCHAR", "CHAR"} ->
            [base |-> col.base, args |-> IF col.args = <<>> THEN <<255>> ELSE col.args]
      [] col.base = "DECIMAL" ->
            [base |-> col.base, args |-> IF col.args = <<>> THEN <<10, 2>> ELSE col.args]
      [] col.base = "ARRAY" -> [base |-> "COMPLEX", args |-> <<>>]
      [] OTHER -> [base |-> col.base, args |-> <<>>]

\* Widths of integers and the sizes of decimals are no difference.
typesMatch(expected, actual) ==
    \/ expected.base = actual.base /\ expected.args = actual.args
    \/ /\ expected.base \in {"BIGINT", "INT"} /\ actual.base = expected.base
       /\ expected.args = <<>> /\ Len(actual.args) = 1
    \/ /\ expected.base = "DECIMAL" /\ actual.base = "DECIMAL"
       /\ Len(expected.args) = 2 /\ Len(actual.args) = 2

diffColumn(table, defined, actual) ==
    (IF typesMatch(formatType(defined), actual) THEN {}
     ELSE {ColumnDiff("column_type_mismatch", "error", table, defined.name)})
    \cup
    (IF defined.nullable = actual.nullable THEN {}
     ELSE {ColumnDiff("column_nullable_mismatch", "warning", table, defined.name)})

diffColumns(defined, actual) ==
    LET Named(columns, name) == {columns[i] : i \in {j \in DOMAIN columns : columns[j].name = name}}
        Of(col) == Named(actual.columns, col.name)
    IN  (UNION {IF Of(col) = {}
                THEN {ColumnDiff("column_missing", "error", defined.name, col.name)}
                ELSE diffColumn(defined.name, col, CHOOSE other \in Of(col) : TRUE)
                    : col \in ToSet(defined.columns)})
        \cup
        {ColumnDiff("column_extra", "warning", defined.name, col.name)
            : col \in {c \in ToSet(actual.columns) : Named(defined.columns, c.name) = {}}}

diffDistribution(defined, actual) ==
    (IF defined.distribution.type = actual.distribution.type THEN {}
     ELSE {Diff("distribution_mismatch", "warning", defined.name)})
    \cup
    (IF defined.distribution.type = "RANDOM"
        \/ defined.distribution.columns = actual.distribution.columns THEN {}
     ELSE {Diff("distribution_mismatch", "warning", defined.name)})

diffTable(defined, actual) ==
    (IF defined.keyType = actual.keyType THEN {}
     ELSE {Diff("key_type_mismatch", "error", defined.name)})
    \cup
    (IF defined.keys = actual.keys THEN {}
     ELSE {Diff("key_columns_mismatch", "error", defined.name)})
    \cup diffDistribution(defined, actual)
    \cup diffColumns(defined, actual)

\* defined and actual: sets of tables, no two of a set with one name.
diff(defined, actual) ==
    (UNION {LET found == {a \in actual : a.name = d.name}
            IN  IF found = {} THEN {Diff("table_missing", "error", d.name)}
                ELSE diffTable(d, CHOOSE a \in found : TRUE)
                : d \in defined})
    \cup {Diff("table_extra", "warning", a.name)
            : a \in {t \in actual : \A d \in defined : d.name # t.name}}

isValid(diffs) == \A d \in diffs : d.severity # "error"
=============================================================================
