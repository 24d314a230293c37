--------------------------- MODULE MCQueryBuilder ---------------------------
EXTENDS QueryReading

MCStored == [t |-> {("t.x" :> 0), ("t.x" :> 1), ("t.x" :> -1)},
             u |-> {("u.k" :> 1), ("u.k" :> -1)}]
MCColumnOrder == <<"t.x", "u.k">>
MCVals == {0, 1}

Known(c, f(_)) == [env \in Env |-> f(env[c])]

MCLeaves == {
    Meaning(compare("gte", ColumnRef("t.x"), ColumnRef("u.k")),
            [env \in Env |-> Compare(">=", env["t.x"], env["u.k"])]),
    Meaning(between("t.x", 0, 1), Known("t.x", LAMBDA x : IF x = Null THEN Null ELSE 1))
}

MCTests == {
    Meaning(compare("eq", ColumnRef("u.k"), Plain(1)), Known("u.k", LAMBDA x : Compare("=", x, 1))),
    Meaning(inArray("t.x", <<0, 1>>), Known("t.x", LAMBDA x : IF x = Null THEN Null ELSE 1)),
    Meaning(inArray("t.x", <<>>), [env \in Env |-> 0]),
    Meaning(notInArray("t.x", <<0, -1>>), Known("t.x", LAMBDA x : IF x = 0 THEN 0 ELSE Null)),
    Meaning(notInArray("t.x", <<>>), [env \in Env |-> 1]),
    Meaning(isNull("u.k"), Known("u.k", LAMBDA x : Truth(x = Null))),
    Meaning(isNotNull("t.x"), Known("t.x", LAMBDA x : Truth(x # Null))),
    Meaning(like("t.x", 1), Known("t.x", LAMBDA x : Compare("=", x, 1)))
}
=============================================================================
