---------------------------- MODULE MCKnexBuilder ----------------------------
EXTENDS KnexBuilder

\* The key x is the column xc; both tables have an id.
MCColumns == [id |-> "id", x |-> "xc"]
MCOtherColumns == [id |-> "id", k |-> "k"]
MCOtherRows == {[id |-> 1, k |-> 0], [id |-> 2, k |-> 0]}
MCValues == {0, 1}
MCTested == {"x"}
MCGiven == {0}
MCCompared == {<<">", 0>>}
MCRanges == {<<0, 1>>}
MCLists == {<<>>, <<1, Null>>}
MCObjects == {<<>>, <<<<"x", 1>>, <<"id", 1>>>>}
MCUpdates == {<<<<"x", Undefined>>>>, <<<<"x", 1>>, <<"id", Undefined>>>>}
Unqualified(key) == [table |-> "", name |-> key]
MCJoinsGiven == {<<"inner", Unqualified("id"), "=", Unqualified("id")>>,
                 <<"left", [table |-> "t", name |-> "xc"], "=", Unqualified("k")>>,
                 <<"right", Unqualified("x"), ">", [table |-> "o", name |-> "k"]>>}
MCInserts == {<<>>, <<<<<<"id", 3>>, <<"x", 0>>>>>>,
              <<<<<<"id", 3>>, <<"x", 0>>>>, <<<<"x", 1>>, <<"id", 4>>>>>>,
              <<<<<<"id", 3>>>>, <<<<"id", 4>>, <<"x", 1>>>>>>}
T(word, operator, v) == [word |-> word, column |-> "xc", operator |-> operator, values |-> <<v>>]
MCRaws == {[sql |-> <<T("", ">", 0), T("AND", "!=", 1)>>, bindings |-> <<0, 1>>],
           [sql |-> <<T("", "=", 0), T("OR", "=", 1)>>, bindings |-> <<0, 1>>]}
MCFirstRows == {[id |-> 0, xc |-> 0], [id |-> 1, xc |-> 1], [id |-> 2, xc |-> Null]}
=============================================================================
