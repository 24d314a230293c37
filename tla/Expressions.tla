---------------------------- MODULE Expressions ----------------------------
(***************************************************************************)
(* The expressions of schema/expressions.ts.  An expression is a text and  *)
(* the values of its placeholders.  An argument is a plain value, a column *)
(* or an expression.  The type parameter T and the objects' other fields   *)
(* are left out; a text is the sequence of its tokens (SqlText).           *)
(***************************************************************************)
EXTENDS SqlText

Expression(text, vals) == [sql |-> text, values |-> vals]
\* The three kinds of an argument.
Plain(v) == [a |-> "value", v |-> v]
ColumnRef(c) == [a |-> "column", c |-> c]
Nested(e) == [a |-> "expression", e |-> e]

\* The sequences of tokens, or of values, joined with a token between.
Joining(texts, sep) ==
    FlattenSeq([i \in DOMAIN texts |-> IF i = 1 THEN texts[i] ELSE <<sep>> \o texts[i]])
Sqls(es) == [i \in DOMAIN es |-> es[i].sql]
AllValues(es) == FlattenSeq([i \in DOMAIN es |-> es[i].values])

toSqlValue(arg) ==
    CASE arg.a = "expression" -> arg.e
      [] arg.a = "column" -> Expression(<<Col(arg.c)>>, <<>>)
      [] arg.a = "value" -> Expression(<<Hole(arg.v)>>, <<arg.v>>)

\* A template: strings[i] is followed by args[i].
sql(strings, args) ==
    LET piece(i) == IF i \in DOMAIN args THEN toSqlValue(args[i]) ELSE Expression(<<>>, <<>>)
        pieces == [i \in DOMAIN strings |-> piece(i)]
    IN  Expression(FlattenSeq([i \in DOMAIN strings |-> strings[i] \o pieces[i].sql]),
                   AllValues(pieces))

createBinaryExpression(left, operator, right) ==
    LET l == toSqlValue(left)
        r == toSqlValue(right)
    IN  Expression(<<Open("")>> \o l.sql \o <<Op(operator)>> \o r.sql \o <<Close>>,
                   l.values \o r.values)

\* eq, ne, gt, gte, lt, lte
comparison == [eq |-> "=", ne |-> "!=", gt |-> ">", gte |-> ">=", lt |-> "<", lte |-> "<="]
compare(name, left, right) == createBinaryExpression(left, comparison[name], right)

and(conditions) ==
    IF conditions = <<>> THEN Expression(<<K("TRUE")>>, <<>>)
    ELSE IF Len(conditions) = 1 THEN conditions[1]
    ELSE Expression(<<Open("")>> \o Joining(Sqls(conditions), K("AND")) \o <<Close>>,
                    AllValues(conditions))

\* Mutant: the alternatives are not put in brackets.
orWithoutBrackets(conditions) ==
    IF conditions = <<>> THEN Expression(<<K("FALSE")>>, <<>>)
    ELSE Expression(Joining(Sqls(conditions), K("OR")), AllValues(conditions))

or(conditions) ==
    IF conditions = <<>> THEN Expression(<<K("FALSE")>>, <<>>)
    ELSE IF Len(conditions) = 1 THEN conditions[1]
    ELSE Expression(<<Open("")>> \o Joining(Sqls(conditions), K("OR")) \o <<Close>>,
                    AllValues(conditions))

not(condition) ==
    Expression(<<K("NOT"), Open("")>> \o condition.sql \o <<Close>>, condition.values)

Placeholders(vals) == [i \in DOMAIN vals |-> <<Hole(vals[i])>>]
Test(column, tokens, vals) ==
    Expression(<<Open(""), Col(column)>> \o tokens \o <<Close>>, vals)

inArray(column, vals) ==
    IF vals = <<>> THEN Expression(<<K("FALSE")>>, <<>>)
    ELSE Test(column, <<Op("IN"), Open("")>> \o Joining(Placeholders(vals), Sep(","))
                         \o <<Close>>, vals)

notInArray(column, vals) ==
    IF vals = <<>> THEN Expression(<<K("TRUE")>>, <<>>)
    ELSE Test(column, <<Op("NOT IN"), Open("")>> \o Joining(Placeholders(vals), Sep(","))
                         \o <<Close>>, vals)

between(column, low, high) ==
    Test(column, <<Op("BETWEEN"), Hole(low), K("to"), Hole(high)>>, <<low, high>>)
like(column, pattern) == Test(column, <<Op("LIKE"), Hole(pattern)>>, <<pattern>>)
isNull(column) == Test(column, <<Op("IS NULL")>>, <<>>)
isNotNull(column) == Test(column, <<Op("IS NOT NULL")>>, <<>>)

when(condition, result) == [condition |-> condition, result |-> result]
Whens(whens) ==
    LET one(w) == LET c == toSqlValue(w.condition)
                      r == toSqlValue(w.result)
                  IN  Expression(<<Sep("WHEN")>> \o c.sql \o <<Sep("THEN")>> \o r.sql,
                                 c.values \o r.values)
        all == [i \in DOMAIN whens |-> one(whens[i])]
    IN  Expression(FlattenSeq(Sqls(all)), AllValues(all))

caseWhen(whens) ==
    LET ws == Whens(whens)
    IN  Expression(<<Open("CASE")>> \o ws.sql \o <<Close>>, ws.values)

caseExpr(expr, whens) ==
    LET e == toSqlValue(expr)
        ws == Whens(whens)
    IN  Expression(<<Open("CASE")>> \o e.sql \o ws.sql \o <<Close>>, e.values \o ws.values)

\* .else() of either: the END is cut off, and ELSE put before a new one
else(case, value) ==
    LET e == toSqlValue(value)
    IN  Expression(Front(case.sql) \o <<Sep("ELSE")>> \o e.sql \o <<Close>>,
                   case.values \o e.values)

\* ifExpr, coalesce, ifNull and nullIf differ in the name and the number of arguments.
FunctionNames == [ifExpr |-> "IF", coalesce |-> "COALESCE",
                  ifNull |-> "IFNULL", nullIf |-> "NULLIF"]
function(name, args) ==
    LET es == [i \in DOMAIN args |-> toSqlValue(args[i])]
    IN  Expression(<<Open(FunctionNames[name])>> \o Joining(Sqls(es), Sep(",")) \o <<Close>>,
                   AllValues(es))

exists(subquery) ==
    Expression(<<Open("EXISTS")>> \o subquery.sql \o <<Close>>, subquery.values)
notExists(subquery) ==
    Expression(<<K("NOT"), Open("EXISTS")>> \o subquery.sql \o <<Close>>, subquery.values)

Within(operator, column, subquery) ==
    LET c == toSqlValue(column)
    IN  Expression(<<Open("")>> \o c.sql \o <<Op(operator), Open("")>> \o subquery.sql
                     \o <<Close, Close>>,
                   c.values \o subquery.values)
inSubquery(column, subquery) == Within("IN", column, subquery)
notInSubquery(column, subquery) == Within("NOT IN", column, subquery)
============================================================================
