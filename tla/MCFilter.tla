------------------------------- MODULE MCFilter -------------------------------
EXTENDS Filter

\* The letters that have a capital: "e'" stands for one outside ASCII.
MCAsciiLower == [letter \in {"A"} |-> "a"]
MCOtherLower == [letter \in {"E'"} |-> "e'"]

\* Tags: two that share a prefix, one below another, one that begins with a
\* capital and is otherwise the third.
Tag1 == <<"a">>
Tag2 == <<"a", "/", "b">>
Tag3 == <<"a", "b">>
Tag4 == <<"A", "b">>

Stores(states, ids) ==
    [row_status : states, pinned : {FALSE}, has_task_list : BOOLEAN, has_link : {FALSE},
     tags : {<<>>, <<Tag1>>, <<Tag2>>, <<Tag4>>, <<Tag3, Tag2>>},
     content : {<<"x", ",", "E'">>},
     notebook_id : ids, creator_id : {1}, visibility : {"PRIVATE", "PUBLIC"},
     created_ts : {5}, memo_id : {None}]

MCMemos == Stores({"NORMAL"}, {None, 1}) \cup Stores({"ARCHIVED"}, {None})

MCCallers == {1, 2, None}

Cmp(n, r, v) == [op |-> "cmp", name |-> n, rel |-> r, num |-> v]
Is(n, r, b)  == [op |-> "is", name |-> n, rel |-> r, flag |-> b]
Holds(t) == [op |-> "contains", text |-> t]
Exists(p, t) == [op |-> "exists", pred |-> p, text |-> t]

Atoms ==
    {[op |-> "const", flag |-> TRUE],
     [op |-> "field", name |-> "has_task_list"], Is("has_task_list", "==", FALSE),
     Is("has_link", "!=", TRUE), Is("pinned", "==", FALSE),
     Cmp("notebook_id", "!=", 1), Cmp("created_ts", "<", 5),
     [op |-> "isnull", name |-> "memo_id", rel |-> "=="], [op |-> "size", rel |-> "<", num |-> 1],
     [op |-> "elem", text |-> Tag1], [op |-> "intags", texts |-> {Tag1, Tag2}],
     Exists("startsWith", Tag3), Exists("endsWith", <<"b">>), Exists("contains", <<"/">>),
     Holds(<<",", "e'">>)}

\* Filters with texts that LIKE or the JSON text takes for more.
Loose ==
    {Exists("contains", <<",">>), Exists("endsWith", <<"[">>), Exists("startsWith", <<"_">>),
     [op |-> "elem", text |-> <<"a", "_", "b">>],
     [op |-> "intags", texts |-> {<<"%", "b">>}], Holds(<<"x", "_", "E'">>), Holds(<<"_", "x">>)}

\* Filters the engine refuses: a number, all(), an order of notebooks, an alias.
Odd == {[op |-> "num", num |-> 1], [op |-> "all"], Cmp("notebook_id", "<", 1),
        [op |-> "isnull", name |-> "tag", rel |-> "=="]}

Signed == Atoms \cup {Negation(a) : a \in Atoms}

Loosely == Loose \cup {Negation(a) : a \in Loose}
           \cup {Conjunction(a, b) : a \in Loose, b \in {Exists("startsWith", Tag3), Holds(<<"e'">>)}}

MCExprs ==
    Signed \cup Loosely \cup {Conjunction(a, b) : a \in Atoms, b \in Signed \cup Odd}
    \cup {Disjunction(a, b) : a \in Signed, b \in Atoms}
    \cup {Negation(Disjunction(a, b)) : a, b \in {Is("has_task_list", "==", FALSE),
              [op |-> "elem", text |-> Tag1], Exists("contains", <<"/">>), [op |-> "const", flag |-> FALSE]}}
=============================================================================
