---------------------------- MODULE MCEntityQuery ----------------------------
(* A small instance of EntityQuery: accounts with a boss and items.          *)
EXTENDS EntityQuery

MCRoot == "accounts"
MCTarget == "items"
MCColumns == [accounts |-> <<"id", "tenant", "gone", "val", "boss", "name">>,
              items |-> <<"id", "tenant", "gone", "val", "owner">>]
MCNavigations ==
    [boss  |-> [kind |-> "belongsTo", table |-> "items", local |-> <<"boss">>, target |-> <<"id">>],
     items |-> [kind |-> "hasMany", table |-> "items",
                local |-> <<"id", "tenant">>, target |-> <<"owner", "tenant">>],
     other |-> [kind |-> "hasMany", table |-> "others", local |-> <<"id">>, target |-> <<"owner">>]]

Account(id, t, gone, val, boss, name) ==
    [id |-> id, tenant |-> t, gone |-> gone, val |-> val, boss |-> boss, name |-> name]
Item(id, t, gone, val, owner) ==
    [id |-> id, tenant |-> t, gone |-> gone, val |-> val, owner |-> owner]
(* live and deleted are the marks of the soft-delete column.                 *)
Rows1(live, deleted) ==
    [accounts |-> {Account(1, 1, live, 1, 1, <<"a", "%">>),
                   Account(2, 1, deleted, 2, 2, <<"\\", "a">>),
                   Account(3, 2, live, 1, 1, <<"[", "a", "]">>),
                   Account(4, 1, live, Null, 3, <<"_", "a">>)},
     items |-> {Item(1, 1, live, 3, 1), Item(2, 2, live, 1, 1), Item(3, 1, deleted, 2, 1),
                Item(4, 1, live, 2, 1)}]
Rows2(live, deleted) ==
    [accounts |-> {Account(1, 1, live, 2, 4, <<"a">>), Account(2, 1, live, 2, Null, <<"%">>),
                   Account(3, 1, deleted, 1, 1, <<"a", "a">>)},
     items |-> {Item(1, 1, live, 1, 2), Item(4, 2, deleted, 2, 1)}]

Policies(scope, soft) == [tenant |-> scope, soft |-> soft]
Model(root, target) == [accounts |-> root, items |-> target]
One == [column |-> "tenant", value |-> 1, typed |-> TRUE]
Scenario(m, t, rows, tracked) == [model |-> m, tenant |-> t, db |-> rows, registry |-> tracked]
Edited == 1 :> Item(1, 1, 0, 9, 1)

MCScenarios ==
    LET bit == Policies("tenant", "bit")
        mark == Policies("tenant", "nullable")
        open == Policies(None, None)
    IN  {Scenario(Model(bit, bit), One, Rows1(0, 1), <<>>),
         Scenario(Model(mark, mark), One, Rows2(Null, 5), Edited),
         Scenario(Model(bit, mark), One, [Rows1(0, 1) EXCEPT !["items"] = Rows2(Null, 5).items], <<>>),
         Scenario(Model(bit, Policies(None, "required")), One, Rows2(0, Null), <<>>),
         Scenario(Model(open, Policies("tenant", None)), None, Rows1(0, 1), Edited),
         Scenario(Model(open, bit), [One EXCEPT !.typed = FALSE], Rows2(0, 1), <<>>),
         Scenario(Model(open, open), [One EXCEPT !.column = "owner"], Rows2(0, 1), <<>>),
         Scenario(Model(mark, bit), [One EXCEPT !.column = "owner"], Rows2(Null, 5), <<>>)}

RootColumn(c) == Column(TableRef(Root), c)
ItemColumn(c) == Column(AsAlias(Target, "x"), c)
MCFrom == {FromTable(AsAlias(Root, "r"))}
MCFilters == {Compare("=", RootColumn("val"), 1), Compare(">", RootColumn("id"), 1),
              Compare("<>", RootColumn("tenant"), 1),
              Compare(">=", ItemColumn("val"), 2)}
MCJoins == {Join("inner", TableRef(Target), Compare(">", Column(TableRef(Target), "val"), 1)),
            Join("left", AsAlias(Root, "x"), Node("=", <<Column(AsAlias(Root, "x"), "val"),
                                                         RootColumn("id")>>))}
MCOrders == {OrderBy(TableRef(Root), "id", "asc"), OrderBy(TableRef(Root), "val", "desc")}
MCPages == {Pagination(0, 0), Page(1, 1), Page(2, 2)}
MCProjections == {<<ProjectedColumn(RootColumn("id")), Projected(ItemColumn("val"), "v")>>,
                  <<ProjectedColumn(RootColumn("val")), ProjectedColumn(ItemColumn("val"))>>,
                  <<Projected(Node("+", <<RootColumn("val"), Value(1)>>), None)>>}
Increment == Node("+", <<RootColumn("val"), Value(1)>>)
MCKeys == {<<>>, <<RootColumn("val")>>, <<Increment, RootColumn("val")>>}
MCAggregates ==
    {<<>>, <<Projected(CountAll, "n")>>, <<Projected(CountAll, "")>>,
     <<Projected(GroupKey(RootColumn("val")), "k"), Projected(Aggregate("sum", RootColumn("id")), "s")>>,
     <<Projected(GroupKey(Increment), "k"), Projected(CountAll, "n")>>,
     <<Projected(GroupKey(RootColumn("val")), "n"), Projected(CountAll, "n")>>}
MCHavings == {Having(">", CountAll, Value(1)), Having("=", CountAll, RootColumn("val")),
              Having("=", CountAll, RootColumn("id"))}
MCGroupOrders == {[expr |-> CountAll, direction |-> "desc"]}
MCScalars == {Aggregate("sum", RootColumn("val")), Aggregate("avg", RootColumn("val")),
              Aggregate("min", ItemColumn("val")), Aggregate("max", RootColumn("val")),
              Aggregate("count", RootColumn("val"))}
=============================================================================
