----------------------------- MODULE MCPlanner -----------------------------
(* Instances of Planner for TLC: statements over four tables.              *)
EXTENDS Planner

MCSchema ==
    [a |-> <<[col |-> "x", type |-> "int", len |-> 4]>>,
     b |-> <<[col |-> "x", type |-> "int", len |-> 4]>>,
     c |-> <<[col |-> "y", type |-> "int", len |-> 4]>>,
     d |-> <<[col |-> "z", type |-> "int", len |-> 4],
             [col |-> "s", type |-> "char", len |-> 2]>>]

MCIndexes ==
    [a |-> <<>>, b |-> <<<<"x">>>>, c |-> <<>>, d |-> <<<<"z">>, <<"z", "s">>, <<"s", "z">>>>]

Ref(t, x) == [tab |-> t, col |-> x]
Column(t, x) == [star |-> FALSE, ref |-> Ref(t, x)]
Star(t) == [star |-> TRUE, ref |-> Ref(t, NoTab)]
ColCol(l, op, r) ==
    [lhs |-> l, op |-> op, isVal |-> FALSE, rhs |-> r,
     type |-> "int", size |-> 0, val |-> 0, raw |-> 0]
ColVal(l, op, t, n) ==
    [lhs |-> l, op |-> op, isVal |-> TRUE, rhs |-> NoCol,
     type |-> t, size |-> n, val |-> 1, raw |-> 0]

Statement(kind, from, items, order, where, set) ==
    [kind |-> kind, from |-> from, items |-> items, order |-> order, where |-> where, set |-> set]

(* Predicates, as the parser nests AND.                                    *)
Comparison(c) == [node |-> "compare", cond |-> c]
Logical(op, p, q) == [node |-> op, lhs |-> p, rhs |-> q]
Where(conds) ==
    FoldLeft(LAMBDA p, c : IF p.node = "none" THEN Comparison(c)
                           ELSE Logical("and", p, Comparison(c)),
             [node |-> "none"], conds)

SeqsUpTo(S, n) == UNION {[1..m -> S] : m \in 0..n}

(* Joins of four tables by up to four conditions between columns.  Up to   *)
(* the names of the tables, the first condition joins a and b.             *)
KeyOf == [a |-> "x", b |-> "x", c |-> "y", d |-> "z"]
JoinCond(t, op, u) == ColCol(Ref(t, KeyOf[t]), op, Ref(u, KeyOf[u]))
JoinConds ==
    {JoinCond(t, op, u) : t \in DOMAIN KeyOf, u \in DOMAIN KeyOf, op \in {"EQ", "LT"}}
    \ {JoinCond(t, op, t) : t \in {"b", "c", "d"}, op \in {"EQ", "LT"}}

JoinStatements ==
    {Statement("select", <<"a", "b", "c", "d">>, <<Star(NoTab)>>, NoCol,
               Where(<<first>> \o more), <<>>) :
        first \in {JoinCond("a", "EQ", "b"), JoinCond("b", "LT", "a")},
        more \in SeqsUpTo(JoinConds, 2)}
    \cup
    {Statement("select", <<"d", "c", "b", "a">>, <<Star(NoTab)>>, NoCol,
               Where(<<JoinCond("a", "EQ", "b"), JoinCond("c", "LT", "d")>> \o more), <<>>) :
        more \in SeqsUpTo(JoinConds, 2)}

(* Every statement form over few tables, with qualified and unqualified,   *)
(* known and unknown names, repeated tables and mismatched types.          *)
FormConds ==
    {ColVal(r, op, "int", 1) :
        r \in {Ref(NoTab, "z"), Ref("b", "x"), Ref("d", "s")}, op \in {"EQ", "GE"}}
    \cup {ColVal(Ref("d", "s"), "EQ", "char", n) : n \in {1, 3}}
    \cup {ColCol(Ref("a", "x"), op, r) :
              r \in {Ref("a", "x"), Ref("d", "z"), Ref("c", "y")}, op \in {"EQ", "NE"}}
Predicates ==
    {Where(conds) : conds \in SeqsUpTo(FormConds, 2)}
    \cup {Logical(op, Comparison(c), Comparison(c)) : op \in {"or", "not"},
              c \in {ColVal(Ref(NoTab, "z"), "EQ", "int", 1)}}
Froms ==
    {<<"a">>, <<"d">>, <<"a", "d">>, <<"d", "b", "a">>, <<"a", "a">>, <<"a", "d", "a">>, <<"e">>}

Literals == [type : {"int", "char"}, size : {1, 2, 3}, literal : {TRUE}]
Assign(ref, v) == [ref |-> ref, type |-> v.type, size |-> v.size, literal |-> v.literal]
Assignments ==
    {<<>>} \cup {<<Assign(r, v)>> : r \in {Ref(NoTab, "z"), Ref("d", "s")}, v \in Literals}
    \cup {<<Assign(Ref(NoTab, "z"), [type |-> "int", size |-> 1, literal |-> FALSE])>>}

FormStatements ==
    {Statement("select", from, <<item>>, order, where, <<>>) :
        from \in Froms,
        item \in {Star(NoTab), Star("d"), Column(NoTab, "x")},
        order \in {NoCol, Ref("d", "z")},
        where \in Predicates}
    \cup
    {Statement("update", <<t>>, <<>>, NoCol, where, set) :
        t \in {"a", "d", "e"}, where \in {Where(c) : c \in SeqsUpTo(FormConds, 1)},
        set \in Assignments}
    \cup
    {Statement("delete", <<t>>, <<>>, NoCol, where, <<>>) :
        t \in {"a", "d", "e"}, where \in Predicates}

OtherStatements ==
    {[kind |-> "insert", tab |-> t, values |-> values] :
        t \in {"a", "d", "e"}, values \in SeqsUpTo(Literals, 3)}
    \cup {[kind |-> kind] : kind \in DDL \cup (Utilities \ {"set_knob"})}
    \cup {[kind |-> "set_knob", name |-> name, value |-> value] :
              name \in {"enable_sortmerge", "other"}, value \in {"true", "false", "maybe"}}

MCStatements == JoinStatements \cup FormStatements \cup OtherStatements
=============================================================================
