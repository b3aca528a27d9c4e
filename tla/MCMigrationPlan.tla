--------------------------- MODULE MCMigrationPlan ---------------------------
(* Small snapshots for MigrationPlan.  Schema 1 is dbo.                      *)
EXTENDS MigrationPlan, TLC

(* Type 1 is nvarchar, type 2 decimal.                                       *)
Key == [from |-> None, type |-> 1, len |-> None, scale |-> None, null |-> FALSE,
        key |-> TRUE, def |-> None, comp |-> None]
Plain == [Key EXCEPT !.len = 300, !.key = FALSE]
Decimal(scale) == [Plain EXCEPT !.type = 2, !.len = None, !.scale = scale]
Table(from, cols, idx, fks) == [from |-> from, cols |-> cols, idx |-> idx, fks |-> fks]
Maybe(name, values) == {<<>>} \cup {name :> v : v \in values}
InSchema(s, models) == {s :> m : m \in models \ {<<>>}} \cup {<<>>}

(* Two tables, each absent, renamed, indexed, or referencing the other.      *)
Linked(s, o) ==
    {Table(from, (1 :> Key) @@ (2 :> Plain), idx, fks) :
        from \in {None, o}, idx \in {<<>>, 1 :> {2}},
        fks \in {<<>>, 1 :> [col |-> 2, ref |-> <<s, o>>]}}
TwoTables(s) ==
    LET all == {a @@ b : a \in Maybe(1, Linked(s, 2)), b \in Maybe(2, Linked(s, 1))}
    IN  InSchema(s, {m \in all : \A t \in DOMAIN m : m[t].fks # <<>> => 3 - t \in DOMAIN m})

(* Three tables whose hints may compete for an old name.                     *)
Bare(from) == Table(from, 1 :> Key, <<>>, <<>>)
ThreeTables ==
    InSchema(2, {a @@ b @@ c : a \in Maybe(1, {Bare(None)}),
                 b \in Maybe(2, {Bare(f) : f \in {None, 1}}),
                 c \in Maybe(3, {Bare(f) : f \in {None, 1, 2}})})

(* One table with two columns, one of them possibly indexed.                 *)
Columns(o) ==
    {Plain, [Plain EXCEPT !.len = 100], [Plain EXCEPT !.len = None],
     [Plain EXCEPT !.null = TRUE], [Plain EXCEPT !.def = 1], Decimal(4), Decimal(2),
     [Plain EXCEPT !.comp = 1], [Plain EXCEPT !.comp = 2],
     [Plain EXCEPT !.from = o], [Plain EXCEPT !.from = o, !.comp = 1]}
FewColumns(o) ==
    {Plain, [Plain EXCEPT !.from = o], [Plain EXCEPT !.from = o, !.comp = 1],
     [Plain EXCEPT !.null = TRUE]}
OneTable ==
    LET cols == {a @@ b : a \in Maybe(2, Columns(3)), b \in Maybe(3, FewColumns(2))}
    IN  UNION {{2 :> (1 :> Table(None, (1 :> Key) @@ c, idx, <<>>)) :
                idx \in {<<>>} \cup {1 :> {i} : i \in DOMAIN c}} : c \in cols}

SamePairs == (TwoTables(2) \X TwoTables(2)) \cup (ThreeTables \X ThreeTables)
             \cup (OneTable \X OneTable)
AcrossSchemas == TwoTables(1) \X TwoTables(2)
MCPairs == SamePairs \cup AcrossSchemas
=============================================================================
