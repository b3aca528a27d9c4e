------------------------------ MODULE QueryAst ------------------------------
(* The query tree of sql-orm-query and what SqlServerCompiler accepts of it. *)
(* Every node has a kind and a sequence of args, its subtrees.               *)
EXTENDS Integers, Sequences, SequencesExt

CONSTANTS
    None,           \* an absent option
    Null,           \* SqlValue::Null
    Unquotable      \* the names quote_identifier refuses

TableRef(t) == [table |-> t, alias |-> None]
AsAlias(t, a) == [table |-> t, alias |-> a]
ReferenceName(ref) == IF ref.alias = None THEN ref.table ELSE ref.alias
Quotable(name) == name \notin Unquotable

Node(kind, args) == [kind |-> kind, args |-> args]
Column(ref, c) == [kind |-> "column", table |-> ref, column |-> c, args |-> <<>>]
Value(v) == [kind |-> "value", value |-> v, args |-> <<>>]
Compare(op, column, v) == Node(op, <<column, Value(v)>>)
Conjoin(ps) == Node("and", ps)

(* Composed predicates absorb a conjunction, or a disjunction, on either     *)
(* side into one flat list.                                                  *)
Parts(kind, p) == IF p.kind = kind THEN p.args ELSE <<p>>
And(l, r) == Node("and", Parts("and", l) \o Parts("and", r))
Or(l, r) == Node("or", Parts("or", l) \o Parts("or", r))
Not(p) == Node("not", <<p>>)

(* A text matched literally: a LIKE pattern with its wildcards escaped.      *)
EscapeLike(text) ==
    FlattenSeq([i \in DOMAIN text |->
        IF text[i] \in {"\\", "%", "_", "[", "]"} THEN <<"\\", text[i]>> ELSE <<text[i]>>])
ContainsText(c, text) == Node("like", <<c, Value(<<"%">> \o EscapeLike(text) \o <<"%">>)>>)
StartsWithText(c, text) == Node("like", <<c, Value(EscapeLike(text) \o <<"%">>)>>)
EndsWithText(c, text) == Node("like", <<c, Value(<<"%">> \o EscapeLike(text))>>)

-----------------------------------------------------------------------------
(* SelectQuery and its builder.                                              *)

FromTable(ref) == [from |-> ref, joins |-> <<>>, projection |-> <<>>, predicate |-> None,
                   orderBy |-> <<>>, pagination |-> None]
Join(type, ref, on) == [type |-> type, table |-> ref, on |-> on]
BothPredicates(old, p) == IF old = None THEN p ELSE Conjoin(<<old, p>>)
Filter(q, p) == [q EXCEPT !.predicate = BothPredicates(@, p)]
AddJoin(q, join) == [q EXCEPT !.joins = Append(@, join)]
AddOrder(q, order) == [q EXCEPT !.orderBy = Append(@, order)]
Paginate(q, p) == [q EXCEPT !.pagination = p]
Pagination(offset, limit) == [offset |-> offset, limit |-> limit]
Page(page, size) == Pagination(IF page <= 1 THEN 0 ELSE (page - 1) * size, size)
OrderBy(ref, c, direction) == [table |-> ref, column |-> c, direction |-> direction]
Projected(expr, alias) == [expr |-> expr, alias |-> alias]
ProjectedColumn(c) == Projected(c, c.column)

(* AggregateQuery: expressions over the rows of a group.                     *)
Aggregate(fn, of) == [fn |-> fn, of |-> of]
GroupKey(expr) == Aggregate("key", expr)
CountAll == Aggregate("countAll", None)
Having(op, aggregate, right) ==
    [kind |-> op, aggregate |-> aggregate, right |-> right, args |-> <<>>]
AggregateFrom(q, groupBy, projection) ==
    [from |-> q.from, joins |-> q.joins, predicate |-> q.predicate, groupBy |-> groupBy,
     projection |-> projection, having |-> None, orderBy |-> <<>>, pagination |-> None]

-----------------------------------------------------------------------------
(* SqlServerCompiler.                                                        *)

Connectives == {"and", "or"}
(* A list of predicates must not be empty; names must be quotable.           *)
RECURSIVE Compiles(_)
Compiles(n) ==
    /\ n.kind \in Connectives => n.args # <<>>
    /\ n.kind = "column" => Quotable(ReferenceName(n.table)) /\ Quotable(n.column)
    /\ \A i \in DOMAIN n.args : Compiles(n.args[i])

(* ParameterBuilder: a value becomes the next numbered parameter.            *)
RECURSIVE Values(_)
Values(n) == IF n.kind = "value" THEN <<n.value>>
             ELSE FlattenSeq([i \in DOMAIN n.args |-> Values(n.args[i])])
ValuesOf(p) == IF p = None THEN <<>> ELSE Values(p)

(* A table is joined twice only under another alias.                         *)
DistinctSources(from, joins) ==
    IsInjective(<<from>> \o [i \in DOMAIN joins |-> joins[i].table])
JoinsCompile(from, joins) ==
    /\ DistinctSources(from, joins)
    /\ Quotable(ReferenceName(from))
    /\ \A i \in DOMAIN joins : Quotable(ReferenceName(joins[i].table)) /\ Compiles(joins[i].on)

AliasesCompile(projection) ==
    /\ \A i \in DOMAIN projection : projection[i].alias # None /\ Quotable(projection[i].alias)
    /\ IsInjective([i \in DOMAIN projection |-> projection[i].alias])

(* Mutant: a page may be cut out of unordered rows.                          *)
UnorderedPages(q) == TRUE
OrderedPages(q) == q.pagination # None => q.orderBy # <<>>

SelectCompiles(q) ==
    /\ AliasesCompile(q.projection)
    /\ \A i \in DOMAIN q.projection : Compiles(q.projection[i].expr)
    /\ JoinsCompile(q.from, q.joins)
    /\ q.predicate # None => Compiles(q.predicate)
    /\ \A i \in DOMAIN q.orderBy : Quotable(q.orderBy[i].column)
    /\ OrderedPages(q)

ExistsCompiles(q) ==
    JoinsCompile(q.from, q.joins) /\ (q.predicate # None => Compiles(q.predicate))

(* A key, and a column compared with in HAVING, must be an expression of     *)
(* GROUP BY.                                                                 *)
IsKey(expr, groupBy) == \E i \in DOMAIN groupBy : groupBy[i] = expr
AggregateValid(a, groupBy) == a.fn = "key" => IsKey(a.of, groupBy)
RECURSIVE GroupedOnly(_, _)
GroupedOnly(expr, groupBy) ==
    IF expr.kind = "column" THEN IsKey(expr, groupBy)
    ELSE \A i \in DOMAIN expr.args : GroupedOnly(expr.args[i], groupBy)
RECURSIVE HavingValid(_, _)
HavingValid(p, groupBy) ==
    IF p.kind \in Connectives \cup {"not"}
    THEN /\ p.kind \in Connectives => p.args # <<>>
         /\ \A i \in DOMAIN p.args : HavingValid(p.args[i], groupBy)
    ELSE AggregateValid(p.aggregate, groupBy) /\ GroupedOnly(p.right, groupBy)

AggregateCompiles(q) ==
    /\ q.projection # <<>>
    /\ AliasesCompile(q.projection)
    /\ \A i \in DOMAIN q.projection : AggregateValid(q.projection[i].expr, q.groupBy)
    /\ q.having # None => HavingValid(q.having, q.groupBy)
    /\ \A i \in DOMAIN q.orderBy : AggregateValid(q.orderBy[i].expr, q.groupBy)
    /\ ExistsCompiles(q)
    /\ \A i \in DOMAIN q.groupBy : Compiles(q.groupBy[i])
    /\ OrderedPages(q)

-----------------------------------------------------------------------------
(* The parameters of a statement, in the order of its text.                  *)

JoinParams(q) == FlattenSeq([i \in DOMAIN q.joins |-> Values(q.joins[i].on)])
PageParams(q) == IF q.pagination = None THEN <<>> ELSE <<q.pagination.offset, q.pagination.limit>>
ExistsParams(q) == JoinParams(q) \o ValuesOf(q.predicate)
SelectParams(q) ==
    FlattenSeq([i \in DOMAIN q.projection |-> Values(q.projection[i].expr)])
        \o ExistsParams(q) \o PageParams(q)

AggregateValues(a) == ValuesOf(a.of)
RECURSIVE HavingValues(_)
HavingValues(p) ==
    IF p.kind \in Connectives \cup {"not"}
    THEN FlattenSeq([i \in DOMAIN p.args |-> HavingValues(p.args[i])])
    ELSE AggregateValues(p.aggregate) \o Values(p.right)
AggregateParams(q) ==
    FlattenSeq([i \in DOMAIN q.projection |-> AggregateValues(q.projection[i].expr)])
        \o ExistsParams(q)
        \o FlattenSeq([i \in DOMAIN q.groupBy |-> Values(q.groupBy[i])])
        \o (IF q.having = None THEN <<>> ELSE HavingValues(q.having))
        \o FlattenSeq([i \in DOMAIN q.orderBy |-> AggregateValues(q.orderBy[i].expr)])
        \o PageParams(q)
=============================================================================
