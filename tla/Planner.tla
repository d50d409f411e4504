------------------------------ MODULE Planner ------------------------------
(***************************************************************************)
(* From a parsed statement to its plan: analyze/analyzer.cpp binds names,  *)
(* optimizer/planner.cpp builds the plan tree.  The tree is built in steps,*)
(* one per iteration of the loops of build_from_plan and build_join_tree.  *)
(*                                                                         *)
(* A column is [tab, col], with tab = NoTab when the statement does not    *)
(* qualify it.  A condition compares its column lhs with a value (isVal)   *)
(* or with a column rhs.  A literal has a type and the size of its text;   *)
(* raw is the length it is encoded in.  A thrown SQL error is the result   *)
(* NoCol, or ok = FALSE; a thrown InternalError ends in step "internal".   *)
(***************************************************************************)
EXTENDS Naturals, SequencesExt

CONSTANTS Schema,      \* per table: the sequence of its columns [col, type, len]
          Indexes,     \* per table: the sequence of its indexes' columns
          Statements,  \* statements the parser may deliver
          Vals,        \* column values
          NoTab

VARIABLES
    stmt,       \* the statement
    step,       \* where analysis and planning are
    bound,      \* AnalyzedQuery
    rest,       \* remaining_conditions, then join_conditions
    scans,      \* scan_plans
    joined,     \* joined
    root,       \* join_root
    k           \* index of the loop under way

planVars == <<rest, scans, joined, root, k>>
vars == <<stmt, step, bound, rest, scans, joined, root, k>>

NoCol == [tab |-> NoTab, col |-> NoTab]
NoQuery == [ok |-> FALSE, tables |-> <<>>, cols |-> <<>>, order |-> NoCol, conds |-> <<>>,
            set |-> <<>>, values |-> <<>>]
NoPlan == [tag |-> "none"]

Utilities == {"help", "show_database", "show_tables", "desc_table", "set_knob",
              "begin", "commit", "abort", "rollback"}
DDL == {"create_table", "drop_table", "create_index", "drop_index"}

-----------------------------------------------------------------------------
(* Analyzer.                                                               *)

(* get_all_cols                                                            *)
AllCols(tables) ==
    FlattenSeq([i \in 1..Len(tables) |->
        [j \in 1..Len(Schema[tables[i]]) |->
            [tab |-> tables[i], col |-> Schema[tables[i]][j].col,
             type |-> Schema[tables[i]][j].type]]])

(* Mutant: a qualified column is taken as it is.                           *)
CheckColumnQualified(all, target) ==
    LET hits == {i \in DOMAIN all : all[i].col = target.col}
    IN  IF target.tab # NoTab THEN target
        ELSE IF Cardinality(hits) # 1 THEN NoCol
        ELSE [target EXCEPT !.tab = all[CHOOSE i \in hits : TRUE].tab]

(* check_column: an unqualified name must occur once among the visible     *)
(* columns, a qualified one at least once.                                 *)
CheckColumn(all, target) ==
    LET hits == {i \in DOMAIN all : /\ all[i].col = target.col
                                    /\ target.tab \in {NoTab, all[i].tab}}
    IN  IF hits = {} \/ (target.tab = NoTab /\ Cardinality(hits) > 1) THEN NoCol
        ELSE [target EXCEPT !.tab = all[CHOOSE i \in hits : TRUE].tab]

(* analyze_select, step 3: a column stays, a star becomes its columns.     *)
ExpandItem(all, item) ==
    IF ~item.star THEN <<item.ref>>
    ELSE LET named == SelectSeq(all, LAMBDA c : item.ref.tab \in {NoTab, c.tab})
         IN  [i \in DOMAIN named |-> [tab |-> named[i].tab, col |-> named[i].col]]

(* A bound column in the catalog: get_col.                                 *)
MetaOf(ref) ==
    LET cols == Schema[ref.tab]
    IN  cols[CHOOSE j \in DOMAIN cols : cols[j].col = ref.col]

(* A literal has the type of its column, and Value::init_raw finds room    *)
(* for it.                                                                 *)
Encodes(v, column) ==
    v.type = column.type /\ (v.type = "char" => v.size <= column.len)

(* append_clause: a tree of ANDs becomes the list of its comparisons.  OR, *)
(* NOT and every other expression is refused, here as a condition that     *)
(* cannot be bound.                                                        *)
Unsupported == [lhs |-> NoCol, op |-> "EQ", isVal |-> TRUE, rhs |-> NoCol,
                type |-> "int", size |-> 0, val |-> 0, raw |-> 0]

RECURSIVE AppendClause(_)
AppendClause(predicate) ==
    CASE predicate.node = "none" -> <<>>
      [] predicate.node = "compare" -> <<predicate.cond>>
      [] predicate.node = "and" ->
            AppendClause(predicate.lhs) \o AppendClause(predicate.rhs)
      [] OTHER -> <<Unsupported>>

(* check_clause: bind both sides of a condition, encode the literal in the *)
(* length of its column.                                                   *)
BindCondition(all, c) ==
    LET lhs == CheckColumn(all, c.lhs)
    IN  [c EXCEPT !.lhs = lhs,
                  !.rhs = IF c.isVal THEN @ ELSE CheckColumn(all, @),
                  !.raw = IF c.isVal /\ lhs # NoCol THEN MetaOf(lhs).len ELSE @]

(* check_clause: both sides must be bound and of one type.                 *)
CheckCondition(c) ==
    /\ c.lhs # NoCol
    /\ IF c.isVal THEN Encodes(c, MetaOf(c.lhs))
       ELSE c.rhs # NoCol /\ MetaOf(c.lhs).type = MetaOf(c.rhs).type

(* analyze_update: a SET clause assigns a literal to a column.             *)
BindSet(all, clause) ==
    LET lhs == CheckColumn(all, clause.ref)
    IN  [lhs |-> lhs, type |-> clause.type, raw |-> IF lhs = NoCol THEN 0 ELSE MetaOf(lhs).len]
CheckSet(all, clause) ==
    LET lhs == CheckColumn(all, clause.ref)
    IN  lhs # NoCol /\ clause.literal /\ Encodes(clause, MetaOf(lhs))

(* analyze_insert: as many values as columns, each for its column.         *)
AnalyzeInsert(s) ==
    IF /\ s.tab \in DOMAIN Schema
       /\ Len(s.values) = Len(Schema[s.tab])
       /\ \A i \in DOMAIN s.values : Encodes(s.values[i], Schema[s.tab][i])
    THEN [NoQuery EXCEPT
            !.ok = TRUE, !.tables = <<s.tab>>,
            !.values = [i \in DOMAIN s.values |->
                          [type |-> s.values[i].type, raw |-> Schema[s.tab][i].len]]]
    ELSE NoQuery

(* analyze_set_knob: the setting and the value in lower case.              *)
AnalyzeSetKnob(s) ==
    [NoQuery EXCEPT !.ok = s.name = "enable_sortmerge" /\ s.value \in {"true", "false"}]

(* analyze_select; for DELETE and UPDATE, the target table, the assigned   *)
(* columns with the types of their literals, and the WHERE clause.         *)
AnalyzeQuery(s) ==
    IF \E i \in DOMAIN s.from : s.from[i] \notin DOMAIN Schema THEN NoQuery
    ELSE LET all   == AllCols(s.from)
             items == FlattenSeq([i \in DOMAIN s.items |-> ExpandItem(all, s.items[i])])
             cols  == [i \in DOMAIN items |-> CheckColumn(all, items[i])]
             order == IF s.order = NoCol THEN NoCol ELSE CheckColumn(all, s.order)
             where == AppendClause(s.where)
             conds == [i \in DOMAIN where |-> BindCondition(all, where[i])]
         IN  IF /\ \A i \in DOMAIN s.items :
                      s.items[i].star => s.items[i].ref.tab \in Range(s.from) \cup {NoTab}
                /\ NoCol \notin Range(cols)
                /\ s.order # NoCol => order # NoCol
                /\ \A i \in DOMAIN s.set : CheckSet(all, s.set[i])
                /\ \A i \in DOMAIN conds : CheckCondition(conds[i])
             THEN [NoQuery EXCEPT
                     !.ok = TRUE, !.tables = s.from, !.cols = cols, !.order = order,
                     !.conds = conds,
                     !.set = [i \in DOMAIN s.set |-> BindSet(all, s.set[i])]]
             ELSE NoQuery

(* analyze: DDL and the other utilities have nothing to bind.              *)
Analyze(s) ==
    CASE s.kind \in {"select", "update", "delete"} -> AnalyzeQuery(s)
      [] s.kind = "insert" -> AnalyzeInsert(s)
      [] s.kind = "set_knob" -> AnalyzeSetKnob(s)
      [] OTHER -> [NoQuery EXCEPT !.ok = TRUE]

-----------------------------------------------------------------------------
(* Planner: scans.                                                         *)

(* choose_index: the first of the longest indexes whose columns all have   *)
(* an equality with a value.                                               *)
ChooseIndex(t, conds) ==
    LET Matched(index) == \A j \in DOMAIN index : \E i \in DOMAIN conds :
            /\ conds[i].isVal /\ conds[i].op = "EQ"
            /\ conds[i].lhs = [tab |-> t, col |-> index[j]]
    IN  FoldLeft(LAMBDA best, index :
                     IF Matched(index) /\ Len(index) > Len(best) THEN index ELSE best,
                 <<>>, Indexes[t])

(* make_scan_plan                                                          *)
ScanPlan(t, conds) ==
    LET index == ChooseIndex(t, conds)
    IN  [tag |-> IF index = <<>> THEN "SeqScan" ELSE "IndexScan", tab |-> t,
         conds |-> conds, index |-> index]

(* take_table_conditions: those on the columns of one table.               *)
OfTable(t, c) == c.lhs.tab = t /\ (c.isVal \/ c.rhs.tab = t)

(* table_index: 0 stands for the InternalError.                            *)
TableIndex(t) ==
    IF t \in Range(bound.tables)
    THEN CHOOSE i \in DOMAIN bound.tables :
            bound.tables[i] = t /\ \A j \in 1..(i - 1) : bound.tables[j] # t
    ELSE 0

-----------------------------------------------------------------------------
(* Planner: joins.                                                         *)

JoinPlan(left, right, conds) ==
    [tag |-> "NestLoop", left |-> left, right |-> right, conds |-> conds]

ReverseComparison(op) ==
    CASE op = "LT" -> "GT" [] op = "GT" -> "LT"
      [] op = "LE" -> "GE" [] op = "GE" -> "LE" [] OTHER -> op

(* Mutant: the columns change places but the operator stays.               *)
SwapColumns(c) == [c EXCEPT !.lhs = c.rhs, !.rhs = c.lhs]

(* std::swap of the columns, reverse_comparison of the operator.           *)
SwapSides(c) == [c EXCEPT !.lhs = c.rhs, !.rhs = c.lhs, !.op = ReverseComparison(@)]

(* attach_join_condition: a condition on two joined tables goes to the join*)
(* where they meet, turned so that lhs is on the left.                     *)
RECURSIVE Attach(_, _)
Attach(c, plan) ==
    IF plan.tag # "NestLoop"
    THEN [plan |-> plan,
          cov  |-> CASE plan.tab = c.lhs.tab -> "Lhs" [] plan.tab = c.rhs.tab -> "Rhs"
                     [] OTHER -> "None"]
    ELSE LET l == Attach(c, plan.left)
             r == Attach(c, plan.right)
         IN  CASE l.cov = "Both" -> [plan |-> [plan EXCEPT !.left = l.plan], cov |-> "Both"]
               [] l.cov # "Both" /\ r.cov = "Both" ->
                     [plan |-> [plan EXCEPT !.right = r.plan], cov |-> "Both"]
               [] l.cov = "None" /\ r.cov # "Both" -> [plan |-> plan, cov |-> r.cov]
               [] l.cov \in {"Lhs", "Rhs"} /\ r.cov = "None" -> [plan |-> plan, cov |-> l.cov]
               [] OTHER ->
                     [plan |-> [plan EXCEPT !.conds =
                                  Append(@, IF l.cov = "Rhs" THEN SwapSides(c) ELSE c)],
                      cov  |-> "Both"]

(* The knob enable_sortmerge is one atomic of the process, set by any      *)
(* session while this one plans: each read may see either value.           *)
Knob == BOOLEAN

(* choose_join_algorithm: the plans that the reads of the knob can lead to.*)
RECURSIVE Algorithms(_)
Algorithms(plan) ==
    IF plan.tag # "NestLoop" THEN {plan}
    ELSE LET eqs == {i \in DOMAIN plan.conds : ~plan.conds[i].isVal /\ plan.conds[i].op = "EQ"}
             Merge(p) ==
                LET first == Min(eqs)
                    key   == p.conds[first]
                IN  [tag   |-> "SortMerge",
                     left  |-> [tag |-> "Sort", col |-> key.lhs, sub |-> p.left],
                     right |-> [tag |-> "Sort", col |-> key.rhs, sub |-> p.right],
                     conds |-> <<key>> \o RemoveAt(p.conds, first)]
         IN  {IF on /\ eqs # {} THEN Merge(p) ELSE p :
                 on \in Knob,
                 p \in {[plan EXCEPT !.left = l, !.right = r] :
                           l \in Algorithms(plan.left), r \in Algorithms(plan.right)}}

-----------------------------------------------------------------------------
(* The statement's way through Server::execute_sql.                        *)

Init ==
    /\ stmt = [kind |-> "none"] /\ step = "idle" /\ bound = NoQuery
    /\ rest = <<>> /\ scans = <<>> /\ joined = <<>> /\ root = NoPlan /\ k = 1

Receive(s) ==
    /\ step = "idle"
    /\ stmt' = s /\ step' = "analyze"
    /\ UNCHANGED <<bound, planVars>>

(* analyze(), then the dispatch of plan_query and do_planner.              *)
AnalyzeStatement ==
    /\ step = "analyze"
    /\ bound' = Analyze(stmt)
    /\ step' = CASE ~bound'.ok -> "error"
                 [] bound'.ok /\ stmt.kind = "select" -> "scan"
                 [] bound'.ok /\ stmt.kind # "select" -> "plan"
    /\ rest' = bound'.conds
    /\ UNCHANGED <<stmt, scans, joined, root, k>>

(* plan_query for the utilities, do_planner for DDL and DML; DELETE and    *)
(* UPDATE scan the target table.                                           *)
PlanStatement ==
    /\ step = "plan"
    /\ IF stmt.kind \in Utilities \cup DDL
       THEN root' = [tag |-> stmt.kind] /\ step' = "done"
       ELSE /\ root' = CASE bound.tables = <<>> -> NoPlan
                         [] bound.tables # <<>> /\ stmt.kind = "insert" ->
                               [tag |-> "Insert", tab |-> bound.tables[1], values |-> bound.values]
                         [] OTHER ->
                               [tag |-> stmt.kind, tab |-> bound.tables[1], set |-> bound.set,
                                sub |-> ScanPlan(bound.tables[1], bound.conds)]
            /\ step' = IF bound.tables = <<>> THEN "internal" ELSE "done"
    /\ UNCHANGED <<stmt, bound, rest, scans, joined, k>>

(* build_from_plan: a scan per table takes the conditions on that table.   *)
ScanTable ==
    /\ step = "scan"
    /\ LET t == bound.tables[k]
           last == k = Len(bound.tables)
       IN  /\ scans' = Append(scans, ScanPlan(t, SelectSeq(rest, LAMBDA c : OfTable(t, c))))
           /\ rest' = SelectSeq(rest, LAMBDA c : ~OfTable(t, c))
           /\ step' = CASE ~last -> "scan" [] last /\ k = 1 -> "finish" [] OTHER -> "first"
           /\ root' = IF last /\ k = 1 THEN scans'[1] ELSE root
           /\ k' = IF last THEN 1 ELSE k + 1
           /\ joined' = Append(joined, FALSE)
    /\ UNCHANGED <<stmt, bound>>

(* take_scan_plan and table_index throw unless the scans are there to take.*)
CanTake(S) == \A i \in S : i # 0 /\ ~joined[i]
Take(S) == joined' = [i \in DOMAIN joined |-> joined[i] \/ i \in S]

Throw ==
    /\ step' = "internal"
    /\ UNCHANGED <<stmt, bound, planVars>>

(* build_join_tree: the first table, or the first condition's two tables.  *)
FirstJoin ==
    /\ step = "first"
    /\ IF rest = <<>>
       THEN /\ Take({1})
            /\ root' = scans[1] /\ k' = 1 /\ step' = "cross"
            /\ UNCHANGED <<stmt, bound, rest, scans>>
       ELSE LET l == TableIndex(rest[1].lhs.tab)
                r == TableIndex(rest[1].rhs.tab)
            IN  IF l # r /\ CanTake({l, r})
                THEN /\ Take({l, r})
                     /\ root' = JoinPlan(scans[l], scans[r], <<rest[1]>>)
                     /\ k' = 2 /\ step' = "join"
                     /\ UNCHANGED <<stmt, bound, rest, scans>>
                ELSE Throw

(* The next condition joins two new tables, one new table, or none.        *)
JoinTwo(c, l, r) ==
    /\ ~joined[l] /\ ~joined[r]
    /\ l # r
    /\ Take({l, r})
    /\ root' = JoinPlan(JoinPlan(scans[l], scans[r], <<c>>), root, <<>>)

JoinOne(c, l, r) ==
    /\ joined[l] # joined[r]
    /\ LET new == IF joined[l] THEN r ELSE l
       IN  /\ Take({new})
           /\ root' = JoinPlan(scans[new], root, <<IF joined[l] THEN SwapSides(c) ELSE c>>)

JoinNone(c, l, r) ==
    /\ joined[l] /\ joined[r]
    /\ LET attached == Attach(c, root)
       IN  attached.cov = "Both" /\ root' = attached.plan
    /\ UNCHANGED joined

JoinCondition ==
    /\ step = "join" /\ k <= Len(rest)
    /\ LET c == rest[k]
           l == TableIndex(c.lhs.tab)
           r == TableIndex(c.rhs.tab)
       IN  IF l # 0 /\ r # 0 /\ (joined[l] /\ joined[r] => Attach(c, root).cov = "Both")
           THEN /\ JoinTwo(c, l, r) \/ JoinOne(c, l, r) \/ JoinNone(c, l, r)
                /\ k' = k + 1
                /\ UNCHANGED <<stmt, step, bound, rest, scans>>
           ELSE Throw

JoinsDone ==
    /\ step = "join" /\ k > Len(rest)
    /\ k' = 1 /\ step' = "cross"
    /\ UNCHANGED <<stmt, bound, rest, scans, joined, root>>

(* The tables no condition mentions are joined without a condition.        *)
CrossJoin ==
    /\ step = "cross"
    /\ IF joined[k] THEN UNCHANGED <<joined, root>>
       ELSE Take({k}) /\ root' = JoinPlan(scans[k], root, <<>>)
    /\ k' = IF k = Len(joined) THEN 1 ELSE k + 1
    /\ step' = IF k = Len(joined) THEN "finish" ELSE "cross"
    /\ UNCHANGED <<stmt, bound, rest, scans>>

(* physical_optimization and plan_select: algorithms, ORDER BY, projection.*)
Finish ==
    /\ step = "finish"
    /\ \E plan \in Algorithms(root) :
          root' = [tag |-> "Projection", cols |-> bound.cols,
                   sub |-> IF bound.order = NoCol THEN plan
                           ELSE [tag |-> "Sort", col |-> bound.order, sub |-> plan]]
    /\ step' = "done"
    /\ UNCHANGED <<stmt, bound, rest, scans, joined, k>>

(* Portal::start: how the plan is run.                                     *)
PortalType(plan) ==
    CASE plan.tag \in Utilities -> "Utility"
      [] plan.tag \in DDL -> "Ddl"
      [] plan.tag = "Projection" -> "Select"
      [] plan.tag \in {"update", "delete", "Insert"} -> "Dml"
      [] OTHER -> "none"

(* Portal::run.  InsertExecutor::next checks that the values it was given  *)
(* have the types and lengths of the columns.                              *)
Execute ==
    /\ step = "done"
    /\ step' = IF /\ PortalType(root) # "none"
                  /\ root.tag = "Insert" =>
                        \A i \in DOMAIN Schema[root.tab] :
                            root.values[i].raw = Schema[root.tab][i].len
               THEN "ran" ELSE "internal"
    /\ UNCHANGED <<stmt, bound, planVars>>

(* The result or the error is sent.                                        *)
Reply ==
    /\ step \in {"ran", "error", "internal"}
    /\ stmt' = [kind |-> "none"] /\ step' = "idle" /\ bound' = NoQuery
    /\ rest' = <<>> /\ scans' = <<>> /\ joined' = <<>> /\ root' = NoPlan /\ k' = 1

Next ==
    \/ \E s \in Statements : Receive(s)
    \/ AnalyzeStatement \/ PlanStatement \/ ScanTable \/ FirstJoin \/ JoinCondition
    \/ JoinsDone \/ CrossJoin \/ Finish \/ Execute \/ Reply

Spec == Init /\ [][Next]_vars

-----------------------------------------------------------------------------
(* What the executors built by convert_plan_executor compute.              *)

Compare(op, x, y) ==
    CASE op = "EQ" -> x = y [] op = "NE" -> x # y [] op = "LT" -> x < y
      [] op = "GT" -> x > y [] op = "LE" -> x <= y [] op = "GE" -> x >= y

Holds(c, row) == Compare(c.op, row[c.lhs], IF c.isVal THEN c.val ELSE row[c.rhs])

RECURSIVE Leaves(_)
Leaves(plan) ==
    CASE plan.tag \in {"SeqScan", "IndexScan"} -> <<plan.tab>>
      [] plan.tag \in {"NestLoop", "SortMerge"} -> Leaves(plan.left) \o Leaves(plan.right)
      [] plan.tag \in {"Sort", "Projection", "update", "delete"} -> Leaves(plan.sub)

Sees(plan, ref) == ref.tab \in Range(Leaves(plan))

(* A join finds lhs in a tuple of its left child and rhs in one of its     *)
(* right child; a merge join merges on its first condition and needs both  *)
(* inputs sorted on it.                                                    *)
RECURSIVE Produces(_, _)
Produces(plan, row) ==
    CASE plan.tag \in {"SeqScan", "IndexScan"} ->
            \A i \in DOMAIN plan.conds :
                OfTable(plan.tab, plan.conds[i]) /\ Holds(plan.conds[i], row)
      [] plan.tag \in {"NestLoop", "SortMerge"} ->
            /\ Produces(plan.left, row) /\ Produces(plan.right, row)
            /\ \A i \in DOMAIN plan.conds :
                  /\ Sees(plan.left, plan.conds[i].lhs) /\ Sees(plan.right, plan.conds[i].rhs)
                  /\ Holds(plan.conds[i], row)
            /\ plan.tag = "SortMerge" =>
                  /\ plan.conds[1].op = "EQ"
                  /\ plan.left.tag = "Sort" /\ plan.left.col = plan.conds[1].lhs
                  /\ plan.right.tag = "Sort" /\ plan.right.col = plan.conds[1].rhs
      [] plan.tag = "Sort" -> Sees(plan.sub, plan.col) /\ Produces(plan.sub, row)
      [] plan.tag = "Projection" ->
            /\ \A i \in DOMAIN plan.cols : Sees(plan.sub, plan.cols[i])
            /\ Produces(plan.sub, row)
      [] plan.tag \in {"update", "delete"} -> Produces(plan.sub, row)

-----------------------------------------------------------------------------
(* Types of the planner's state: the loops stay within the tables and      *)
(* conditions, and there is a join flag for each scan.                     *)
TypeOK ==
    /\ step \in {"idle", "analyze", "plan", "scan", "first", "join", "cross",
                 "finish", "done", "ran", "error", "internal"}
    /\ k \in 1..(1 + Len(bound.tables) + Len(bound.conds))
    /\ Len(joined) = Len(scans) /\ Len(scans) <= Len(bound.tables)
    /\ Len(rest) <= Len(bound.conds)

(* Every table of FROM is scanned exactly once.                            *)
EachTableOnce ==
    \A t \in DOMAIN Schema :
        Cardinality({i \in DOMAIN Leaves(root) : Leaves(root)[i] = t})
      = Cardinality({i \in DOMAIN bound.tables : bound.tables[i] = t})

(* An index scan has a value for every column of its index: the scan's     *)
(* conditions determine one whole key, with each value in the length that  *)
(* its column has in the key.                                              *)
IndexKeyComplete ==
    LET scanned == IF root.tag \in {"update", "delete"} THEN {root.sub} ELSE Range(scans)
    IN  \A plan \in scanned : plan.tag = "IndexScan" =>
            \A j \in DOMAIN plan.index : \E i \in DOMAIN plan.conds :
                LET ref == [tab |-> plan.tab, col |-> plan.index[j]]
                IN  /\ plan.conds[i].isVal /\ plan.conds[i].op = "EQ"
                    /\ plan.conds[i].lhs = ref /\ plan.conds[i].raw = MetaOf(ref).len

(* What INSERT and UPDATE write: a value of the type and the length of its *)
(* column, for INSERT one for each column of the table.                    *)
WritesWholeColumns ==
    /\ \A i \in DOMAIN bound.set :
          LET column == MetaOf(bound.set[i].lhs)
          IN  /\ bound.set[i].lhs.tab = root.tab
              /\ bound.set[i].type = column.type /\ bound.set[i].raw = column.len
    /\ root.tag = "Insert" =>
          root.values = [i \in DOMAIN Schema[root.tab] |->
                            [type |-> Schema[root.tab][i].type, raw |-> Schema[root.tab][i].len]]

(* The plan scans each table of FROM once and, when they are distinct,     *)
(* produces exactly the rows of their cross product that satisfy every     *)
(* condition of the WHERE clause: however conditions are pushed down,      *)
(* turned around, attached deep in the tree or turned into merge keys,     *)
(* none is lost, and each is evaluated by a join with its lhs column on    *)
(* the left and its rhs column on the right.  An index scan has whole      *)
(* keys, and the values INSERT and UPDATE write fill their columns.        *)
PlanComputesQuery ==
    step = "done" =>
        /\ WritesWholeColumns
        /\ PortalType(root) = "Select" \/ root.tag \in {"update", "delete"} =>
              /\ EachTableOnce /\ IndexKeyComplete
              /\ IsInjective(bound.tables) =>
                    LET cols == {[tab |-> c.tab, col |-> c.col] :
                                    c \in Range(AllCols(bound.tables))}
                    IN  \A row \in [cols -> Vals] :
                           Produces(root, row)
                             <=> \A i \in DOMAIN bound.conds : Holds(bound.conds[i], row)

(* Whatever the analyzer lets through, the internal checks of the planner  *)
(* (table_index, take_scan_plan, attach_join_condition, do_planner), of    *)
(* Portal::start and of InsertExecutor never fail.                         *)
(* The variables also keep their types (TypeOK).                           *)
NoInternalError == TypeOK /\ step # "internal"
=============================================================================
