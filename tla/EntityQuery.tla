----------------------------- MODULE EntityQuery -----------------------------
(* DbSetQuery and the builders it turns into: a client adds filters, joins,  *)
(* order, pages, includes or groups call by call, then runs the query.  The  *)
(* tenant and soft-delete policies of the root are added when it runs, those *)
(* of an included entity go into the ON of its join.                         *)
EXTENDS SelectServer

CONSTANTS
    Root, Target,       \* the tables of the queried and of the related entity
    Navigations,        \* name -> [kind, local, target] of the root entity
    Scenarios,          \* [model, tenant, db, registry]: the policies of the tables, the
                        \* active tenant or None, the rows, the tracked targets by key
    FilterChoices, JoinChoices, OrderChoices, PageChoices, ProjectionChoices,
    FromChoices, KeyChoices, AggregateChoices, HavingChoices, GroupOrderChoices,
    ScalarChoices, Aliases, RowLimits,
    MaxCalls            \* the builder calls of one query

VARIABLES
    model, tenant, db, registry,    \* fixed before the query is built
    query,      \* the builder
    calls,      \* the builder calls so far
    answer      \* what running it returned, None before

vars == <<model, tenant, db, registry, query, calls, answer>>

Ok(v) == [ok |-> TRUE, value |-> v]
Fails(error) == [ok |-> FALSE, error |-> error]
NoInclude == [name |-> None, alias |-> None]

Init ==
    /\ \E s \in Scenarios :
            model = s.model /\ tenant = s.tenant /\ db = s.db /\ registry = s.registry
    /\ query = [shape |-> "plain", select |-> FromTable(TableRef(Root)),
                visibility |-> "default", include |-> NoInclude, strategy |-> "join",
                rowLimit |-> None, grouped |-> None]
    /\ calls = 0
    /\ answer = None

-----------------------------------------------------------------------------
(* The policies.                                                             *)

(* Tenant-scoped entities need an active tenant of their column and type.    *)
TenantPredicate(t, ref) ==
    IF model[t].tenant = None THEN Ok(<<>>)
    ELSE IF tenant = None THEN Fails("tenant")
    ELSE IF tenant.column # model[t].tenant \/ ~tenant.typed THEN Fails("tenant")
    ELSE Ok(<<Compare("=", Column(ref, model[t].tenant), tenant.value)>>)

(* The first soft-delete column: a flag, a nullable mark, or neither.        *)
SoftDeletePredicate(t, ref, visibility) ==
    LET soft == model[t].soft
        column == Column(ref, "gone")
    IN  IF soft = None \/ visibility = "withDeleted" THEN Ok(<<>>)
        ELSE IF soft = "bit"
        THEN Ok(<<Compare("=", column, IF visibility = "default" THEN 0 ELSE 1)>>)
        ELSE IF soft = "nullable"
        THEN Ok(<<Node(IF visibility = "default" THEN "isNull" ELSE "isNotNull", <<column>>)>>)
        ELSE Fails("softDelete")

(* effective_select_query: the client's tree and the root's policies.        *)
Effective(b) ==
    LET ref == TableRef(Root)
        t == TenantPredicate(Root, ref)
        s == SoftDeletePredicate(Root, ref, b.visibility)
    IN  IF ~t.ok THEN t ELSE IF ~s.ok THEN s
        ELSE Ok(FoldLeft(Filter, b.select, t.value \o s.value))

(* The columns of the root under their names, the target's under a prefix.   *)
Prefixed(alias, c) == alias \o "__" \o c
IncludeProjection(q, alias) ==
    LET columns(t, ref, Rename(_)) ==
            [i \in DOMAIN TableColumns[t] |->
                Projected(Column(ref, TableColumns[t][i]), Rename(TableColumns[t][i]))]
    IN  [q EXCEPT !.projection =
            columns(Root, q.from, LAMBDA c : c)
                \o columns(Target, AsAlias(Target, alias), LAMBDA c : Prefixed(alias, c))]

(* The included entity's policies narrow its join.                           *)
NarrowInclude(q, policies, alias) ==
    LET i == CHOOSE i \in DOMAIN q.joins : q.joins[i].table = AsAlias(Target, alias)
    IN  IF policies = <<>> THEN q
        ELSE [q EXCEPT !.joins[i].on = Conjoin(<<@, Conjoin(policies)>>)]

(* Mutant: the included entity follows the root's visibility.                *)
RootVisibility(b) == b.visibility
IncludedVisibility(b) == "default"

EffectiveInclude(b) ==
    LET root == Effective(b)
        ref == AsAlias(Target, b.include.alias)
        t == TenantPredicate(Target, ref)
        s == SoftDeletePredicate(Target, ref, IncludedVisibility(b))
    IN  IF ~root.ok THEN root
        ELSE IF b.shape = "many" /\ root.value.pagination # None THEN Fails("paginated")
        ELSE IF ~t.ok THEN t ELSE IF ~s.ok THEN s
        ELSE Ok(IncludeProjection(
                    NarrowInclude(root.value, t.value \o s.value, b.include.alias),
                    b.include.alias))

-----------------------------------------------------------------------------
(* Running a query: the answers its rows allow.                              *)

(* count, sum, ... keep source, joins and predicate; order and page go.      *)
ScalarAggregateQuery(q, a) == AggregateFrom(q, <<>>, <<Projected(a, "value")>>)

(* A row answers with its projection, or every column by its name, of which  *)
(* the root's come first.                                                    *)
RowValue(q, row) ==
    IF q.projection = <<>> THEN row[Name(q.from)]
    ELSE [a \in {q.projection[i].alias : i \in DOMAIN q.projection} |->
            Eval(q.projection[CHOOSE i \in DOMAIN q.projection :
                                q.projection[i].alias = a].expr, row)]
Returned(q, rows) == {[row |-> r, value |-> RowValue(q, r)] : r \in rows}
(* A full entity needs all its columns.                                      *)
EntitiesOf(returned) ==
    IF \A r \in returned : ToSet(TableColumns[Root]) \subseteq DOMAIN r.value
    THEN Ok(returned) ELSE Fails("mapping")

(* first() reads one row where the page would start.                         *)
PageRead(q, first) ==
    IF first THEN Pagination(IF q.pagination = None THEN 0 ELSE q.pagination.offset, 1)
    ELSE q.pagination
PageOf(q, page, rows) ==
    IF page = None THEN {rows} ELSE RowWindows(q, rows, page.offset, page.limit)

(* The windows of result rows that a select statement may return on data.    *)
Selected(q, data, first) == PageOf(q, PageRead(q, first), Rows(q, data))
AnswerSelect(q, data, first, Materialize(_)) ==
    IF ~SelectCompiles(q) THEN {Fails("compile")}
    ELSE IF SelectRefusals(q) # {} THEN {Fails("server")}
    ELSE {Materialize(w) : w \in Selected(q, data, first)}

(* Groups that HAVING keeps, with the page of them.                          *)
GroupPageOf(q, page, groups) ==
    IF page = None THEN {groups} ELSE GroupWindows(q, groups, page.offset, page.limit)
AnswerGrouped(q, data, first) ==
    IF ~AggregateCompiles(q) THEN {Fails("compile")}
    ELSE IF AggregateRefusals(q) # {} THEN {Fails("server")}
    ELSE {Ok({[group |-> g, value |-> ProjectGroup(q, g)] : g \in w}) :
            w \in GroupPageOf(q, PageRead(q, first), Kept(q, Groups(q, Rows(q, data))))}

AnswerAggregate(s, a, data) ==
    IF ~AggregateCompiles(s) THEN Fails("compile")
    ELSE IF AggregateRefusals(s) # {} THEN Fails("server")
    ELSE Ok(AggregateValue(a, Rows(s, data)))
AnswerScalar(q, a, data) == AnswerAggregate(ScalarAggregateQuery(q, a), a, data)
(* Mutant: exists asks for a row of the source, whatever its joins leave.    *)
ExistsWithoutJoins(q, data) ==
    IF ~ExistsCompiles(q) THEN Fails("compile")
    ELSE IF ExistsRefusals(q) # {} THEN Fails("server")
    ELSE Ok(Rows([q EXCEPT !.joins = <<>>], data) # {})
AnswerExists(q, data) ==
    IF ~ExistsCompiles(q) THEN Fails("compile")
    ELSE IF ExistsRefusals(q) # {} THEN Fails("server")
    ELSE Ok(Rows(q, data) # {})

(* The related entity of a row: absent when its columns are all NULL, the    *)
(* tracked snapshot of its key when there is one.                            *)
IdentityMapped(r) == IF r.id \in DOMAIN registry THEN registry[r.id] ELSE r
Related(alias, row) ==
    LET r == row[alias] IN IF \A c \in DOMAIN r : r[c] = Null THEN None ELSE IdentityMapped(r)

IncludedOne(b, rows) ==
    LET alias == b.include.alias
    IN  {[row |-> r, entity |-> r[Name(b.select.from)], related |-> Related(alias, r)] : r \in rows}

(* Mutant: an absent related entity is kept in the collection.               *)
GroupWithAbsent(b, rows) ==
    LET entity(r) == r[Name(b.select.from)]
    IN  {[entity |-> e,
          related |-> [r \in {s \in rows : entity(s).id = e.id} |-> Related(b.include.alias, r)]]
         : e \in {entity(r) : r \in rows}}
(* Rows grouped by the root's key; the collection holds a value per row.     *)
GroupIncludeMany(b, rows) ==
    LET entity(r) == r[Name(b.select.from)]
        related(r) == Related(b.include.alias, r)
    IN  {[entity |-> e,
          related |-> [r \in {s \in rows : entity(s).id = e.id /\ related(s) # None} |-> related(r)]]
         : e \in {entity(r) : r \in rows}}
IncludedMany(b, rows) ==
    IF b.rowLimit # None /\ Cardinality(rows) > b.rowLimit THEN Fails("rowLimit")
    ELSE Ok(GroupIncludeMany(b, rows))

AnswerInclude(b, include, data, first) ==
    IF ~include.ok THEN {include}
    ELSE AnswerSelect(include.value, data, first, LAMBDA rows :
            IF b.shape = "many" THEN IncludedMany(b, rows) ELSE Ok(IncludedOne(b, rows)))
AnswerEntities(q, data, first, entity) ==
    AnswerSelect(q, data, first, LAMBDA rows :
        IF entity THEN EntitiesOf(Returned(q, rows)) ELSE Ok(Returned(q, rows)))
AnswerPlain(plain, op, data) ==
    CASE ~plain.ok -> {plain}
      [] plain.ok /\ op.name = "scalar" -> {AnswerScalar(plain.value, op.aggregate, data)}
      [] plain.ok /\ op.name = "exists" -> {AnswerExists(plain.value, data)}
      [] plain.ok /\ op.name \in {"all", "first"} ->
            AnswerEntities(plain.value, data, op.name = "first", op.entity)

(* Every answer that running op of builder b may give on data.               *)
Answers(b, op, data) ==
    CASE b.shape = "grouped" -> AnswerGrouped(b.grouped, data, op.name = "first")
      [] b.shape = "many" /\ b.strategy = "split" -> {Fails("split")}
      [] b.shape = "one" \/ (b.shape = "many" /\ b.strategy = "join") ->
            AnswerInclude(b, EffectiveInclude(b), data, op.name = "first")
      [] b.shape = "plain" -> AnswerPlain(Effective(b), op, data)

-----------------------------------------------------------------------------
(* The builder calls.                                                        *)

Fixed == UNCHANGED <<model, tenant, db, registry>>
Shapes == {"plain", "one", "many", "grouped"}
MayCall(shapes) == answer = None /\ query.shape \in shapes
Builds(shapes) == MayCall(shapes) /\ calls < MaxCalls
Becomes(b) ==
    /\ query' = b /\ UNCHANGED answer /\ Fixed
    /\ calls' = IF b.shape = query.shape THEN calls + 1 ELSE calls
Select(q) == Becomes([query EXCEPT !.select = q])
(* A call that refuses consumes the builder.                                 *)
Refused(error) == answer' = Fails(error) /\ UNCHANGED <<query, calls>> /\ Fixed

WithSelectQuery == Builds({"plain"}) /\ \E q \in FromChoices : Select(q)
AddFilter ==
    Builds({"plain", "one", "many"}) /\ \E p \in FilterChoices : Select(Filter(query.select, p))
JoinEntity ==
    Builds({"plain", "one", "many"})
        /\ \E j \in JoinChoices : Select(AddJoin(query.select, j))
Order ==
    Builds({"plain", "one", "many"})
        /\ \E o \in OrderChoices : Select(AddOrder(query.select, o))
(* limit and take: a page with offset 0; either replaces the other.          *)
LimitOrPaginate ==
    Builds({"plain", "one"}) /\ \E p \in PageChoices : Select(Paginate(query.select, p))
SelectProjections ==
    Builds({"plain"})
        /\ \E p \in ProjectionChoices : Select([query.select EXCEPT !.projection = p])
SetVisibility ==
    /\ Builds({"plain", "one", "many"})
    /\ \E v \in {"withDeleted", "onlyDeleted"} : Becomes([query EXCEPT !.visibility = v])

(* navigation_join: the columns of the navigation, pairwise equal.           *)
NavigationValid(n) == n \in DOMAIN Navigations /\ Navigations[n].table = Target
                      /\ Len(Navigations[n].local) = Len(Navigations[n].target)
NavigationJoin(n, type, ref) ==
    LET nav == Navigations[n]
        pairs == [i \in DOMAIN nav.local |->
                    Node("=", <<Column(query.select.from, nav.local[i]),
                                Column(ref, nav.target[i])>>)]
    IN  Join(type, ref, IF Len(pairs) = 1 THEN pairs[1] ELSE Conjoin(pairs))
JoinedNavigation(n, type, ref) == AddJoin(query.select, NavigationJoin(n, type, ref))
TargetRef(alias) == IF alias = None THEN TableRef(Target) ELSE AsAlias(Target, alias)

TryJoinNavigation ==
    /\ Builds({"plain"})
    /\ \E n \in DOMAIN Navigations, type \in {"inner", "left"}, alias \in Aliases \cup {None} :
        IF NavigationValid(n) THEN Select(JoinedNavigation(n, type, TargetRef(alias)))
                              ELSE Refused("compile")
(* include takes single navigations, include_many collections.               *)
IncludeKinds == [one |-> {"belongsTo", "hasOne"}, many |-> {"hasMany"}]
Include ==
    /\ MayCall({"plain"})
    /\ \E n \in DOMAIN Navigations, alias \in Aliases, shape \in {"one", "many"} :
        IF NavigationValid(n) /\ Navigations[n].kind \in IncludeKinds[shape]
        THEN Becomes([query EXCEPT !.shape = shape,
                        !.select = JoinedNavigation(n, "left", AsAlias(Target, alias)),
                        !.include = [name |-> n, alias |-> alias],
                        !.rowLimit = IF shape = "many" THEN Max(RowLimits) ELSE None])
        ELSE Refused("compile")
IncludeManyOptions ==
    /\ Builds({"many"})
    /\ \/ \E s \in {"join", "split"} : Becomes([query EXCEPT !.strategy = s])
       \/ \E n \in RowLimits \cup {None} : Becomes([query EXCEPT !.rowLimit = n])

(* group_by: the effective query of now; order, page and projection go.      *)
GroupBy ==
    /\ MayCall({"plain"})
    /\ \E keys \in KeyChoices :
        LET q == Effective(query)
        IN  IF keys = <<>> THEN Refused("compile")
            ELSE IF ~q.ok THEN Refused(q.error)
            ELSE Becomes([query EXCEPT !.shape = "grouped",
                            !.grouped = AggregateFrom(q.value, keys, <<>>)])
Grouping(q) == Becomes([query EXCEPT !.grouped = q])
AliasesChecked(projection) == projection # <<>> /\ AliasesCompile(projection)
(* try_select_aggregate checks the aliases that select_aggregate leaves to   *)
(* the compiler.                                                             *)
SelectAggregate ==
    /\ MayCall({"grouped"}) /\ query.grouped.projection = <<>>
    /\ \E p \in AggregateChoices, checked \in BOOLEAN :
        IF checked /\ ~AliasesChecked(p) THEN Refused("compile")
        ELSE /\ query' = [query EXCEPT !.grouped.projection = p]
             /\ UNCHANGED <<calls, answer>> /\ Fixed
AddHaving ==
    Builds({"grouped"})
        /\ \E p \in HavingChoices : Grouping([query.grouped EXCEPT !.having = BothPredicates(@, p)])
OrderGroups ==
    Builds({"grouped"})
        /\ \E o \in GroupOrderChoices :
                Grouping([query.grouped EXCEPT !.orderBy = Append(@, o)])
LimitGroups ==
    Builds({"grouped"}) /\ \E p \in PageChoices : Grouping(Paginate(query.grouped, p))

-----------------------------------------------------------------------------
(* Running it.                                                               *)

Op(name, entity, aggregate) == [name |-> name, entity |-> entity, aggregate |-> aggregate]
All == Op("all", TRUE, None)
First == Op("first", TRUE, None)
AllAs == Op("all", FALSE, None)
FirstAs == Op("first", FALSE, None)
Exists == Op("exists", FALSE, None)
Count == Op("scalar", FALSE, CountAll)
Scalar(a) == Op("scalar", FALSE, a)
(* What each builder can be run with.                                        *)
Operations(shape) ==
    CASE shape = "plain" -> {All, First, AllAs, FirstAs, Exists, Count}
                            \cup {Scalar(a) : a \in ScalarChoices}
      [] shape = "one" -> {All, First}
      [] shape = "many" -> {All}
      [] shape = "grouped" -> {AllAs, FirstAs}
Run ==
    /\ answer = None
    /\ \E op \in Operations(query.shape) :
            \E a \in Answers(query, op, db) : answer' = a @@ [op |-> op]
    /\ UNCHANGED <<query, calls>> /\ Fixed

Next ==
    \/ WithSelectQuery \/ AddFilter \/ JoinEntity \/ Order \/ LimitOrPaginate
    \/ SelectProjections \/ SetVisibility \/ TryJoinNavigation \/ Include
    \/ IncludeManyOptions \/ GroupBy \/ SelectAggregate \/ AddHaving \/ OrderGroups
    \/ LimitGroups \/ Run

Spec == Init /\ [][Next]_vars

-----------------------------------------------------------------------------
(* Properties.                                                               *)

TypeOK ==
    /\ query.shape \in Shapes /\ calls \in 0..MaxCalls
    /\ query.shape \in {"one", "many"} <=> query.include # NoInclude
    /\ query.shape = "grouped" <=> query.grouped # None
    /\ answer # None => answer.ok \in BOOLEAN

HasRun == answer # None /\ "op" \in DOMAIN answer
Tree == IF query.shape = "grouped" THEN query.grouped ELSE query.select
IncludeRef == AsAlias(Target, query.include.alias)
(* The tables the client joined itself: policies do not apply to those.      *)
JoinedByClient ==
    {Tree.joins[i].table.table : i \in {i \in DOMAIN Tree.joins :
        query.include = NoInclude \/ Tree.joins[i].table # IncludeRef}}
Guarded == {t \in {Root, Target} : t \notin JoinedByClient}
Without(Hidden(_, _)) ==
    [t \in DOMAIN db |-> IF t \in Guarded THEN {r \in db[t] : ~Hidden(t, r)} ELSE db[t]]

AnswersSame(data) == Cardinality({Answers(query, answer.op, d) : d \in {db, data}}) = 1

(* What other tenants store never changes an answer: of tables that are      *)
(* scoped to tenants, only the active tenant's rows matter, whatever the     *)
(* client filters, joins, groups or includes (tenant_predicate_for).         *)
Foreign(t, r) == model[t].tenant # None /\ (tenant = None \/ r.tenant # tenant.value)
TenantIsolated == HasRun => AnswersSame(Without(Foreign))

(* Rows out of the chosen visibility never change an answer: deleted ones by *)
(* default, live ones under only_deleted, and deleted related ones always    *)
(* (soft_delete_visibility_predicate_for).                                   *)
Deleted(t, r) == CASE model[t].soft = "bit" -> r.gone # 0
                   [] model[t].soft = "nullable" -> r.gone # Null
                   [] OTHER -> FALSE
Marked(t, r) == CASE model[t].soft = "bit" -> r.gone = 1 [] OTHER -> Deleted(t, r)
OutOfSight(t, r) ==
    CASE t = Target \/ query.visibility = "default" -> Deleted(t, r)
      [] query.visibility = "onlyDeleted" -> model[t].soft # None /\ ~Marked(t, r)
      [] OTHER -> FALSE
VisibilityHolds == HasRun => AnswersSame(Without(OutOfSight))

(* exists() answers whether all() returns a row without a page, joins and    *)
(* policies included, and count() how many.  What count() makes of joins is  *)
(* left out: docs/aggregations.md:281 says they are preserved, as they are,  *)
(* and docs/query-builder.md:221 that they are not carried.                  *)
Unpaged == [query EXCEPT !.select.pagination = None, !.select.projection = <<>>]
CountsAgree ==
    HasRun /\ answer.ok /\ answer.op \in {Exists, Count} =>
        \A a \in Answers(Unpaged, All, db) : a.ok =>
            /\ answer.op = Exists => answer.value = (a.value # {})
            /\ answer.op = Count /\ Tree.joins = <<>> => answer.value = Cardinality(a.value)

(* The pages of a query whose order leaves no ties are its rows, each once:  *)
(* PageRequest numbers pages from 1.                                         *)
PagesFor(size) ==
    [p \in 1..(Cardinality(answer.value) \div size + 1) |->
        Answers([query EXCEPT !.select.pagination = Page(p, size)], answer.op, db)]
Tile(pages, rows) ==
    LET page(p) == (CHOOSE a \in pages[p] : TRUE).value
    IN  (\A p \in DOMAIN pages : Cardinality(pages[p]) = 1 /\ \A a \in pages[p] : a.ok) =>
            /\ UNION {page(p) : p \in DOMAIN pages} = rows
            /\ \A p, r \in DOMAIN pages : p # r => page(p) \cap page(r) = {}
PagesTile ==
    /\ HasRun /\ answer.ok /\ answer.op = All /\ query.shape = "plain"
    /\ query.select.pagination = None
    => \A size \in {1, 2} : Tile(PagesFor(size), answer.value)

(* An include changes which related entities are attached, never which roots *)
(* are returned, and each root comes with exactly its visible related        *)
(* entities (apply_include_policy_filters, group_include_many_rows).  Joins  *)
(* of the client multiply rows and its filters may name the included table:  *)
(* those are left out.                                                       *)
RECURSIVE Mentions(_, _)
Mentions(n, ref) == \/ n.kind = "column" /\ n.table = ref
                    \/ \E i \in DOMAIN n.args : Mentions(n.args[i], ref)
Rooted == JoinedByClient = {} /\ (Tree.predicate # None => ~Mentions(Tree.predicate, IncludeRef))
WithoutInclude == [query EXCEPT !.shape = "plain", !.select.joins = <<>>, !.include = NoInclude]
Visible(t, r) == ~Foreign(t, r) /\ ~Deleted(t, r)
Linked(root) ==
    LET nav == Navigations[query.include.name]
    IN  {r \in db[Target] : Visible(Target, r) /\
            \A i \in DOMAIN nav.local :
                r[nav.target[i]] = root[nav.local[i]] /\ r[nav.target[i]] # Null}
Attached(e) == IF query.shape = "one" THEN {e.row[query.include.alias]} \ {NullRow(Target)}
               ELSE {r[query.include.alias] : r \in DOMAIN e.related}
IncludesComplete ==
    HasRun /\ answer.ok /\ query.shape \in {"one", "many"} /\ answer.op = All /\ Rooted =>
        /\ Tree.pagination = None =>
            \A a \in Answers(WithoutInclude, All, db) :
                a.ok => {r.value : r \in a.value} = {e.entity : e \in answer.value}
        /\ query.shape = "many" => \A e \in answer.value :
                Attached(e) = Linked(e.entity)
                /\ Cardinality(DOMAIN e.related) = Cardinality(Linked(e.entity))
        /\ Tree.pagination = None => \A e \in answer.value :
                UNION {Attached(f) : f \in {f \in answer.value : f.entity = e.entity}}
                    = Linked(e.entity)

(* The statement of op, as the server judges it.                             *)
Refusals(b, op) ==
    LET plain == Effective(b)
        include == EffectiveInclude(b)
    IN  CASE b.shape = "grouped" -> AggregateRefusals(b.grouped)
          [] b.shape \in {"one", "many"} -> SelectRefusals(include.value)
          [] op.name = "scalar" ->
                AggregateRefusals(ScalarAggregateQuery(plain.value, op.aggregate))
          [] op.name = "exists" -> ExistsRefusals(plain.value)
          [] OTHER -> SelectRefusals(plain.value)
ServerRefuses == HasRun /\ ~answer.ok /\ answer.error = "server"

(* What the compiler checks reaches no server: a repeated source, a page of  *)
(* unordered rows, a grouped query that uses a column outside its keys.      *)
CompilerCatches ==
    ServerRefuses => Refusals(query, answer.op) \cap {"repeated", "unordered", "ungrouped"} = {}

(* The policies never break a tree that stands on its own: the effective     *)
(* statement of a query over the unaliased root finds all its columns when   *)
(* the client's own does.                                                    *)
PoliciesBind ==
    ServerRefuses /\ query.shape # "grouped" /\ Tree.from = TableRef(Root) =>
        ("unbound" \in Refusals(query, answer.op) =>
            \/ "unbound" \in SelectRefusals(Tree)
            \/ answer.op.aggregate # None
                /\ ~AggregateBinds(answer.op.aggregate, ToSet(Sources(Tree))))

(* Composed predicates mean what was composed, NULLs included.               *)
RootFilters == {p \in FilterChoices : Binds(p, {TableRef(Root)})}
ComposedAsWritten ==
    calls = 0 /\ answer = None =>
        \A p, q, s \in RootFilters, r \in db[Root] :
            LET truth(x) == Truth(x, Root :> r)
            IN  /\ truth(And(Or(p, q), s)) = Min({Max({truth(p), truth(q)}), truth(s)})
                /\ truth(Or(And(p, q), Not(s))) = Max({Min({truth(p), truth(q)}), 2 - truth(s)})
                /\ truth(And(And(p, q), s)) = truth(Conjoin(<<p, q, s>>))

(* contains, starts_with and ends_with match a text literally, wildcards and *)
(* the escape character included.                                            *)
Texts == UNION {{SubSeq(r.name, i, j) : i, j \in DOMAIN r.name} : r \in db[Root]} \ {<<>>}
LiteralMatch ==
    calls = 0 /\ answer = None =>
        \A text \in Texts, r \in db[Root] :
            LET name == Column(TableRef(Root), "name")
                matches(p) == Truth(p, Root :> r) = 2
                at(i) == i + Len(text) - 1 <= Len(r.name)
                         /\ SubSeq(r.name, i, i + Len(text) - 1) = text
            IN  /\ matches(ContainsText(name, text)) <=> \E i \in DOMAIN r.name : at(i)
                /\ matches(StartsWithText(name, text)) <=> at(1)
                /\ matches(EndsWithText(name, text))
                        <=> (Len(text) <= Len(r.name) /\ at(Len(r.name) - Len(text) + 1))
(* The policies of a model decide what a query sees, and never break it.     *)
PoliciesHold == TenantIsolated /\ VisibilityHolds /\ PoliciesBind

(* The operations on one query agree: count, exists, all and its pages.      *)
ResultsAgree == CountsAgree /\ PagesTile

(* The trees mean what their builders were told, and the ones the compiler   *)
(* lets through are statements.                                              *)
TreesSound == TypeOK /\ CompilerCatches /\ ComposedAsWritten /\ LiteralMatch
=============================================================================
