---------------------------- MODULE SelectServer ----------------------------
(* SQL Server reading a SELECT (external): which statements it refuses, the  *)
(* rows of the joined tables that satisfy the predicate, the pages an order  *)
(* leaves possible, and aggregates over groups.  A row of a joined result is *)
(* a function from the names of its sources to rows.                         *)
EXTENDS QueryAst, FiniteSets, FiniteSetsExt, TLC

CONSTANTS
    TableColumns,   \* the columns of each table
    MaxParams       \* the parameters a statement may have

NullRow(t) == [c \in ToSet(TableColumns[t]) |-> Null]
Name(ref) == ReferenceName(ref)

(* LIKE with % and _, classes in brackets and \ as escape character.         *)
RECURSIVE Matches(_, _)
Matches(p, s) ==
    IF p = <<>> THEN s = <<>>
    ELSE CASE p[1] = "%"  -> \E i \in 0..Len(s) : Matches(Tail(p), SubSeq(s, i + 1, Len(s)))
           [] p[1] = "_"  -> s # <<>> /\ Matches(Tail(p), Tail(s))
           [] p[1] = "\\" -> s # <<>> /\ Len(p) > 1 /\ p[2] = s[1]
                             /\ Matches(SubSeq(p, 3, Len(p)), Tail(s))
           [] p[1] = "[" /\ \E i \in DOMAIN p : p[i] = "]" ->
                LET end == CHOOSE i \in DOMAIN p : p[i] = "]" /\ \A j \in 1..(i-1) : p[j] # "]"
                IN  s # <<>> /\ (\E j \in 2..(end-1) : p[j] = s[1])
                    /\ Matches(SubSeq(p, end + 1, Len(p)), Tail(s))
           [] OTHER       -> s # <<>> /\ p[1] = s[1] /\ Matches(Tail(p), Tail(s))

RECURSIVE Eval(_, _)
Eval(e, row) ==
    CASE e.kind = "column" -> row[Name(e.table)][e.column]
      [] e.kind = "value"  -> e.value
      [] e.kind = "+"      -> LET l == Eval(e.args[1], row) r == Eval(e.args[2], row)
                              IN  IF Null \in {l, r} THEN Null ELSE l + r

(* Three-valued logic: 2 is true, 1 unknown, 0 false.                        *)
CompareValues(op, l, r) ==
    IF Null \in {l, r} THEN 1
    ELSE IF (CASE op = "=" -> l = r [] op = "<>" -> l # r [] op = ">" -> l > r
               [] op = ">=" -> l >= r [] op = "<" -> l < r [] op = "<=" -> l <= r)
         THEN 2 ELSE 0
RECURSIVE Truth(_, _)
Truth(p, row) ==
    LET arg(i) == Eval(p.args[i], row)
        all == {Truth(p.args[i], row) : i \in DOMAIN p.args}
    IN  CASE p.kind = "and" -> Min(all)
          [] p.kind = "or"  -> Max(all)
          [] p.kind = "not" -> 2 - Truth(p.args[1], row)
          [] p.kind = "isNull"    -> IF arg(1) = Null THEN 2 ELSE 0
          [] p.kind = "isNotNull" -> IF arg(1) # Null THEN 2 ELSE 0
          [] p.kind = "like"      -> IF arg(1) = Null THEN 1
                                     ELSE IF Matches(arg(2), arg(1)) THEN 2 ELSE 0
          [] OTHER -> CompareValues(p.kind, arg(1), arg(2))

-----------------------------------------------------------------------------
(* FROM, JOIN and WHERE.                                                     *)

JoinRows(db, rows, join) ==
    UNION {LET found == {row @@ (Name(join.table) :> r) : r \in db[join.table.table]}
               hits == {f \in found : Truth(join.on, f) = 2}
           IN  IF hits = {} /\ join.type = "left"
               THEN {row @@ (Name(join.table) :> NullRow(join.table.table))} ELSE hits
           : row \in rows}
Rows(q, db) ==
    LET joined == FoldLeft(LAMBDA rows, join : JoinRows(db, rows, join),
                           {Name(q.from) :> r : r \in db[q.from.table]}, q.joins)
    IN  IF q.predicate = None THEN joined ELSE {r \in joined : Truth(q.predicate, r) = 2}

(* The windows of limit elements after offset that an order leaves possible: *)
(* a position goes to any of the elements tied for it.                       *)
Windows(elements, Before(_, _), offset, limit) ==
    LET rank == [e \in elements |-> Cardinality({f \in elements : Before(f, e)})]
        last == [e \in elements |-> Cardinality({f \in elements : ~Before(e, f)})]
        fits(p) == {e \in elements : rank[e] < p /\ p <= last[e]}
        positions == [i \in 1..Min({limit, Max({0, Cardinality(elements) - offset})}) |-> offset + i]
    IN  FoldLeft(LAMBDA ws, p : UNION {{w \cup {e} : e \in fits(p) \ w} : w \in ws},
                 {{}}, positions)

(* NULL sorts before every value.                                            *)
Lower(l, r) == r # Null /\ (l = Null \/ l < r)
RECURSIVE Precedes(_, _, _)
Precedes(ls, rs, directions) ==
    /\ ls # <<>>
    /\ \/ IF Head(directions) = "asc" THEN Lower(Head(ls), Head(rs)) ELSE Lower(Head(rs), Head(ls))
       \/ Head(ls) = Head(rs) /\ Precedes(Tail(ls), Tail(rs), Tail(directions))

Directions(orderBy) == [i \in DOMAIN orderBy |-> orderBy[i].direction]
RowKey(orderBy, r) == [i \in DOMAIN orderBy |-> r[Name(orderBy[i].table)][orderBy[i].column]]
RowWindows(q, rows, offset, limit) ==
    Windows(rows, LAMBDA l, r : Precedes(RowKey(q.orderBy, l), RowKey(q.orderBy, r),
                                         Directions(q.orderBy)), offset, limit)

-----------------------------------------------------------------------------
(* GROUP BY and aggregates.                                                  *)

Groups(q, rows) ==
    IF q.groupBy = <<>> THEN {rows}
    ELSE {{s \in rows : \A i \in DOMAIN q.groupBy : Eval(q.groupBy[i], s) = Eval(q.groupBy[i], r)}
          : r \in rows}

AggregateValue(a, group) ==
    IF a.fn = "countAll" THEN Cardinality(group)
    ELSE IF a.fn = "key" THEN Eval(a.of, CHOOSE r \in group : TRUE)
    ELSE LET some == {r \in group : Eval(a.of, r) # Null}
             values == {Eval(a.of, r) : r \in some}
             sum == MapThenSumSet(LAMBDA r : Eval(a.of, r), some)
         IN  CASE a.fn = "count" -> Cardinality(some)
               [] some = {}      -> Null
               [] a.fn = "sum"   -> sum
               [] a.fn = "avg"   -> sum \div Cardinality(some)
               [] a.fn = "min"   -> Min(values)
               [] a.fn = "max"   -> Max(values)

RECURSIVE HavingTruth(_, _)
HavingTruth(p, group) ==
    LET all == {HavingTruth(p.args[i], group) : i \in DOMAIN p.args}
    IN  CASE p.kind = "and" -> Min(all)
          [] p.kind = "or"  -> Max(all)
          [] p.kind = "not" -> 2 - HavingTruth(p.args[1], group)
          [] OTHER -> CompareValues(p.kind, AggregateValue(p.aggregate, group),
                                    Eval(p.right, CHOOSE r \in group : TRUE))
Kept(q, groups) ==
    IF q.having = None THEN groups ELSE {g \in groups : HavingTruth(q.having, g) = 2}
GroupKeyOrder(q, g) == [i \in DOMAIN q.orderBy |-> AggregateValue(q.orderBy[i].expr, g)]
GroupWindows(q, groups, offset, limit) ==
    Windows(groups, LAMBDA l, r : Precedes(GroupKeyOrder(q, l), GroupKeyOrder(q, r),
                                           Directions(q.orderBy)), offset, limit)
ProjectGroup(q, g) ==
    [a \in {q.projection[i].alias : i \in DOMAIN q.projection} |->
        AggregateValue(q.projection[CHOOSE i \in DOMAIN q.projection :
                                        q.projection[i].alias = a].expr, g)]

-----------------------------------------------------------------------------
(* What the server refuses, by reason.                                       *)

Sources(q) == <<q.from>> \o [i \in DOMAIN q.joins |-> q.joins[i].table]
InScope(ref, sources) ==
    \E s \in sources : Name(s) = Name(ref) /\ (s.alias = None <=> ref.alias = None)
RECURSIVE Binds(_, _)
Binds(n, sources) ==
    /\ n.kind = "column" => InScope(n.table, sources)
    /\ \A i \in DOMAIN n.args : Binds(n.args[i], sources)
OnBinds(q) ==
    \A i \in DOMAIN q.joins : Binds(q.joins[i].on, ToSet(SubSeq(Sources(q), 1, i + 1)))

FromRefusals(q) ==
    LET sources == Sources(q)
        all == ToSet(sources)
    IN  {k \in {"repeated", "ambiguous", "unbound"} :
            CASE k = "repeated" -> ~IsInjective(sources)
              [] k = "ambiguous" -> Cardinality({Name(s) : s \in all}) < Cardinality(all)
              [] k = "unbound" -> ~OnBinds(q) \/ (q.predicate # None /\ ~Binds(q.predicate, all))}
PageRefusals(q, texts) ==
    {k \in {"unordered", "emptyPage", "orderTwice"} :
        CASE k = "unordered"  -> q.pagination # None /\ q.orderBy = <<>>
          [] k = "emptyPage"  -> q.pagination # None /\ q.pagination.limit = 0
          [] k = "orderTwice" -> ~IsInjective(texts)}
ParamRefusals(params) == IF Len(params) > MaxParams THEN {"params"} ELSE {}

SelectRefusals(q) ==
    LET all == ToSet(Sources(q))
        order == [i \in DOMAIN q.orderBy |-> <<Name(q.orderBy[i].table), q.orderBy[i].column>>]
    IN  FromRefusals(q) \cup PageRefusals(q, order) \cup ParamRefusals(SelectParams(q))
        \cup (IF /\ \A i \in DOMAIN q.projection : Binds(q.projection[i].expr, all)
                 /\ \A i \in DOMAIN q.orderBy : InScope(q.orderBy[i].table, all)
              THEN {} ELSE {"unbound"})
ExistsRefusals(q) == FromRefusals(q) \cup ParamRefusals(ExistsParams(q))

(* A grouped expression must repeat the text of a key: never one that holds  *)
(* a parameter, which is numbered anew; a key must hold a column.            *)
RECURSIVE HasColumn(_)
HasColumn(n) == n.kind = "column" \/ \E i \in DOMAIN n.args : HasColumn(n.args[i])
SameText(e, key) == e = key /\ Values(e) = <<>>
RECURSIVE Grouped(_, _)
Grouped(e, keys) ==
    \/ e.kind = "value" \/ \E k \in keys : SameText(e, k)
    \/ e.args # <<>> /\ \A i \in DOMAIN e.args : Grouped(e.args[i], keys)
AggregateGrouped(a, keys) == a.fn = "key" => Grouped(a.of, keys)
RECURSIVE HavingGrouped(_, _)
HavingGrouped(p, keys) ==
    IF p.args # <<>> THEN \A i \in DOMAIN p.args : HavingGrouped(p.args[i], keys)
    ELSE AggregateGrouped(p.aggregate, keys) /\ Grouped(p.right, keys)
AggregateBinds(a, all) == a.of # None => Binds(a.of, all)

AggregateRefusals(q) ==
    LET all == ToSet(Sources(q))
        keys == ToSet(q.groupBy)
        exprs == {q.projection[i].expr : i \in DOMAIN q.projection}
                 \cup {q.orderBy[i].expr : i \in DOMAIN q.orderBy}
        keyParams == \E k \in keys : Values(k) # <<>>
        order == [i \in DOMAIN q.orderBy |-> q.orderBy[i].expr]
    IN  FromRefusals(q) \cup PageRefusals(q, order) \cup ParamRefusals(AggregateParams(q))
        \cup {k \in {"ungrouped", "keyParameter", "constantKey", "unbound"} :
                CASE k = "constantKey" -> \E e \in keys : ~HasColumn(e)
                  [] k = "unbound" -> \/ \E e \in keys : ~Binds(e, all)
                                      \/ \E a \in exprs : ~AggregateBinds(a, all)
                  [] OTHER ->
                        /\ \/ \E a \in exprs : ~AggregateGrouped(a, keys)
                           \/ q.having # None /\ ~HavingGrouped(q.having, keys)
                        /\ k = (IF keyParams THEN "keyParameter" ELSE "ungrouped")}
=============================================================================
