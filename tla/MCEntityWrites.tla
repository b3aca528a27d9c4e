--------------------------- MODULE MCEntityWrites ---------------------------
(* A small instance of EntityWrites: two clients and ten tables.             *)
EXTENDS EntityWrites

Field(name, over) == over @@ ("name" :> name) @@ DefaultField
Policy(name, over) == over @@ ("name" :> name) @@ DefaultPolicyField
Plain == [fields |-> <<>>, audit |-> <<>>, soft |-> <<>>, tenant |-> <<>>, indexed |-> {}]
Set(name, value) == ColumnValue(name, value)
(* A field of an Insertable or Changeset struct.                             *)
Given(name, value) == [name |-> name, column |-> None, value |-> value]

Id == Field("id", [type |-> "i64", identity |-> TRUE])
Code == Field("code", [key |-> TRUE])
Name == Field("name", [type |-> "String"])
Version == Field("version", [type |-> "Bytes", rowversion |-> TRUE])
Audit == <<Policy("by", [nullable |-> TRUE]),
           Policy("born", [updatable |-> FALSE, default |-> TRUE])>>
Flag == <<Policy("gone", [type |-> "bool", default |-> TRUE])>>
Mark == <<Policy("gone", [option |-> TRUE]), Policy("why", [option |-> TRUE])>>
Tenant == <<Policy("tenant", [type |-> "i64"])>>

One == [column |-> "tenant", type |-> "i64", value |-> 1]
NoAudit == [request |-> <<>>, provider |-> [insert |-> <<>>, update |-> <<>>]]
NoSoft == [request |-> <<>>, provider |-> <<>>]
Runtime(tenant, audit, soft) == [tenant |-> tenant, audit |-> audit, soft |-> soft]
Audits(request, inserted, updated) ==
    [request |-> request, provider |-> [insert |-> inserted, update |-> updated]]
AuditA == Audits(<<Set("by", "a")>>, <<Set("by", "p"), Set("born", "p")>>, <<Set("by", "p")>>)
AuditB == Audits(<<>>, <<Set("born", "p"), Set("name", "p")>>, <<Set("by", "p")>>)
AuditBad == Audits(<<Set("born", "a")>>, <<>>, <<>>)
Soft(request, provider) == [request |-> request, provider |-> provider]

Bare == [decl |-> Plain, db |-> {}, keys |-> {}, fresh |-> {}, edits |-> {},
         insertables |-> {}, changesets |-> {},
         runtime |-> ("a" :> Runtime(None, NoAudit, NoSoft)
                      @@ "b" :> Runtime(None, NoAudit, NoSoft))]
Runtimes(a, b) == "a" :> a @@ "b" :> b

(* Every policy over an identity and a rowversion.                           *)
Row(id, name, version, by, born, gone, tenant) ==
    [id |-> id, name |-> name, version |-> version, by |-> by, born |-> born, gone |-> gone,
     tenant |-> tenant]
Accounts ==
    [Bare EXCEPT
        !.decl = [Plain EXCEPT !.fields = <<Id, Name, Version>>, !.audit = Audit, !.soft = Flag,
                               !.tenant = Tenant],
        !.db = {Row(1, "x", 1, "p", "p", FALSE, 1), Row(2, "x", 2, Null, "p", TRUE, 1),
                Row(3, "x", 3, "p", "p", FALSE, 2)},
        !.keys = 1 .. 2,
        !.fresh = {[id |-> 0, name |-> "x", version |-> 0]},
        !.edits = {Set("name", "y")},
        !.changesets = {<<Given("name", "z"), Given("version", 1), Given("by", "c")>>},
        !.runtime = Runtimes(Runtime(One, AuditA, Soft(<<Set("gone", TRUE)>>, <<>>)),
                             Runtime(One, AuditB, Soft(<<>>, <<Set("gone", TRUE)>>)))]
Tenants ==
    [Accounts EXCEPT !.keys = {1, 3}, !.changesets = {<<Given("gone", FALSE), Given("name", None)>>},
        !.insertables = {<<Given("name", "z"), Given("tenant", 1), Given("born", "c")>>},
        !.runtime["b"] = Runtime([One EXCEPT !.value = 2], NoAudit,
                                 Soft(<<>>, <<Set("gone", FALSE), Set("by", "s")>>))]
Misfit ==
    [Accounts EXCEPT !.runtime =
        Runtimes(Runtime([One EXCEPT !.type = "String"], AuditA, NoSoft),
                 Runtime(One, AuditBad, Soft(<<Set("gone", Null)>>, <<>>)))]

(* A natural key the tenants share, with and without a rowversion.           *)
Coded(code, name, gone, why, tenant) ==
    [code |-> code, name |-> name, gone |-> gone, why |-> why, tenant |-> tenant]
Codes ==
    [Bare EXCEPT
        !.decl = [Plain EXCEPT !.fields = <<Code, Name>>, !.soft = Mark, !.tenant = Tenant],
        !.db = {Coded("k", "x", Null, Null, 1), Coded("l", "x", Null, Null, 2)},
        !.keys = {"k", "l"},
        !.fresh = {[code |-> "k", name |-> "y"], [code |-> "m", name |-> "y"]},
        !.edits = {Set("name", "z")},
        !.insertables = {<<Given("code", "m"), Given("name", Null)>>},
        !.runtime = Runtimes(Runtime(One, NoAudit, Soft(<<Set("gone", "t")>>, <<Set("why", "w")>>)),
                             Runtime([One EXCEPT !.value = 2], NoAudit,
                                     Soft(<<Set("gone", "t")>>, <<Set("name", Null)>>)))]
Versioned ==
    [Bare EXCEPT
        !.decl = [Plain EXCEPT !.fields = <<Code, Name, Version>>],
        !.db = {[code |-> "k", name |-> "x", version |-> 1]},
        !.keys = {"k"},
        !.fresh = {[code |-> "m", name |-> "y", version |-> 0]},
        !.edits = {Set("name", "z")}]

(* Computed, defaulted and wrongly nullable columns; an identity that is no  *)
(* key; nothing to update; two key columns.                                  *)
Computed ==
    [Bare EXCEPT
        !.decl = [Plain EXCEPT !.fields = <<Code, Field("total", [computed |-> TRUE]),
                    Field("size", [default |-> TRUE]), Field("note", [nullable |-> TRUE])>>],
        !.db = {[code |-> "k", total |-> "computed", size |-> "s", note |-> "n"]},
        !.keys = {"k"},
        !.fresh = {[code |-> "m", total |-> "", size |-> "s", note |-> "n"]},
        !.edits = {Set("size", "t")},
        !.insertables = {<<Given("code", "m")>>,
                         <<Given("code", "m"), Given("note", "n"), Given("total", "t")>>},
        !.changesets = {<<Given("note", Null), Given("code", "m")>>, <<Given("code", "m")>>}]
Counted ==
    [Bare EXCEPT
        !.decl = [Plain EXCEPT !.fields = <<Code, Field("n", [type |-> "i64", identity |-> TRUE]), Name>>],
        !.db = {[code |-> "k", n |-> 1, name |-> "x"]},
        !.keys = {"k"}, !.fresh = {[code |-> "m", n |-> 0, name |-> "x"]},
        !.edits = {Set("name", "y")}]
Numbered ==
    [Bare EXCEPT !.decl = [Plain EXCEPT !.fields = <<Id, Name>>], !.db = {[id |-> 1, name |-> "x"]},
                 !.keys = {1}, !.fresh = {[id |-> 0, name |-> "y"]}]
OnlyKey ==
    [Bare EXCEPT !.decl = [Plain EXCEPT !.fields = <<Code>>], !.db = {[code |-> "k"]},
                 !.keys = {"k"}, !.fresh = {[code |-> "k"]}]
Composite ==
    [Bare EXCEPT
        !.decl = [Plain EXCEPT !.fields = <<Code, Field("part", [key |-> TRUE]), Name>>],
        !.db = {[code |-> "k", part |-> "p", name |-> "x"]},
        !.keys = {"k"}, !.fresh = {[code |-> "k", part |-> "q", name |-> "x"]},
        !.insertables = {<<Given("code", "k"), Given("part", "p"), Given("name", "x")>>,
                         <<Given("code", "k"), Given("part", "q"), Given("name", "x")>>}]

(* Declarations that derive(Entity) refuses.                                 *)
Refused(decl) == [Bare EXCEPT !.decl = decl]
Foreign(name, target, over) ==
    Field(name, over @@ ("type" :> "i64") @@
        ("foreignKey" :> [structured |-> TRUE, entity |-> target, name |-> None]))
MCScenarios ==
    [accounts |-> Accounts, tenants |-> Tenants, misfit |-> Misfit, codes |-> Codes,
     versioned |-> Versioned, computed |-> Computed, counted |-> Counted, numbered |-> Numbered,
     onlyKey |-> OnlyKey,
     composite |-> Composite,
     collidingTenant |->
        Refused([Accounts.decl EXCEPT !.tenant = <<Policy("gone", [type |-> "i64"])>>]),
     collidingAudit |->
        Refused([Accounts.decl EXCEPT !.audit = <<Policy("name", [nullable |-> TRUE])>>]),
     writableTenant |->
        Refused([Accounts.decl EXCEPT !.tenant =
            <<Policy("tenant", [type |-> "i64", updatable |-> TRUE])>>]),
     wideTenant |-> Refused([Accounts.decl EXCEPT !.tenant = Tenant \o Audit]),
     noKey |-> Refused([Accounts.decl EXCEPT !.fields = <<Name>>]),
     textVersion |->
        Refused([Accounts.decl EXCEPT !.fields = <<Id, Field("version", [rowversion |-> TRUE])>>]),
     twoUsers |->
        Refused([Accounts.decl EXCEPT !.fields =
            <<Id, Foreign("a", "User", [option |-> FALSE]), Foreign("b", "User", [option |-> TRUE])>>]),
     setNull |->
        Refused([Accounts.decl EXCEPT !.fields =
            <<Id, Foreign("a", "User", [onDelete |-> "setNull"])>>])]
=============================================================================
