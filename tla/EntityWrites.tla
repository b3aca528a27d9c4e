---------------------------- MODULE EntityWrites ----------------------------
(* Clients that write entities without the tracker: Active Record save and   *)
(* delete, and DbSet insert, update and delete by key.  Each statement is a  *)
(* step; clients interleave between the statements of one call.              *)
EXTENDS EntityModel

CONSTANTS
    Clients,
    Scenarios,  \* name -> [decl, db, keys, fresh, edits, insertables, changesets, runtime]: a
                \* declaration, the rows of its table, the inputs, and for each client the
                \* active tenant and the audit and soft-delete values of its context
    MaxSteps

VARIABLES
    scenario,   \* the name of the table, its rows, inputs and contexts
    meta,       \* the metadata that derive generated from its declaration
    db,         \* the rows: a set of functions from column names to values
    next,       \* the identity and the rowversion the server hands out next
    entity,     \* the object each client holds, or None
    call,       \* the call each client is inside of, or None
    last,       \* the last answer: [by, op, given, answer], None when a call goes on
    steps

vars == <<scenario, meta, db, next, entity, call, last, steps>>

Ok(v) == [ok |-> TRUE, value |-> v]
Compile == [ok |-> FALSE]       \* every error found before a statement is sent

(* The declarations that derive accepts, with the metadata it generates.     *)
Entities ==
    [n \in {n \in DOMAIN Scenarios : DeriveErrors(Scenarios[n].decl) = {}} |->
        LET d == Scenarios[n].decl
        IN  [columns |-> Columns(d), own |-> OwnColumns(d), key |-> KeyColumns(OwnColumns(d)),
             audit |-> PolicyColumns("audit", d.audit), soft |-> PolicyColumns("soft", d.soft),
             tenant |-> PolicyColumns("tenant", d.tenant)]]
model == Scenarios[scenario]
Own == meta.own
PrimaryKey == meta.key
AllColumns == meta.columns
AuditColumns == meta.audit
SoftColumns == meta.soft
TenantColumn == meta.tenant[1]
KeyOf(row) == row[PrimaryKey[1].name]

FirstIssued == 9    \* the identity and the rowversion that the server hands out first
Issued == 0 .. FirstIssued - 1

(* What a scenario is made of.  A row, or an object, has a value for each    *)
(* column; a rowversion it holds was handed out before.                      *)
IsList(s) == Len(s) \in Nat /\ s = [i \in 1 .. Len(s) |-> s[i]]
Holds(columns, record) ==
    /\ DOMAIN record = Names(columns)
    /\ \A i \in DOMAIN columns :
        LET value == record[columns[i].name]
        IN  value # None /\ (columns[i].rowversion => value \in Issued)
(* What the server asks of a table: own columns of distinct names, no key    *)
(* made of rowversions; rows of distinct keys, without a forbidden NULL.     *)
TableFits(table, e) ==
    /\ \A i, j \in DOMAIN e.own : e.own[i].name = e.own[j].name => i = j
    /\ \A i \in DOMAIN e.own : ~(e.own[i].key /\ e.own[i].rowversion)
    /\ \A row \in table.db : Holds(e.columns, row) /\ \A i \in DOMAIN e.columns :
        LET c == e.columns[i]
        IN  (row[c.name] = Null => c.nullable) /\ (c.identity => row[c.name] \in Issued)
    /\ \A r, s \in table.db :
        (\A i \in DOMAIN e.key : r[e.key[i].name] = s[e.key[i].name]) => r = s
AreValues(values) == IsList(values) /\ \A i \in DOMAIN values : values[i].value # None
(* Objects, edits, insertables and changesets that rustc accepts for the     *)
(* entity; tokens are rowversions that were read.                            *)
InputsFit(table, e) ==
    /\ \A object \in table.fresh : Holds(e.own, object)
    /\ \A edit \in table.edits :
        /\ edit.column \in Names(e.own) /\ edit.value # None
        /\ \A i \in DOMAIN e.own :
            e.own[i].name = edit.column /\ e.own[i].rowversion => edit.value \in Issued
    /\ \A given \in table.insertables : AreValues(given) /\ Resolves(e.columns, given)
    /\ \A given \in table.changesets :
        IsList(given) /\ Resolves(e.columns, given) /\ \A i \in DOMAIN given :
            given[i].value # None /\ Resolved(e.columns, given[i]).rowversion =>
                given[i].value \in Issued
(* What a context adds to a write.                                           *)
ContextFits(context) ==
    /\ context.tenant # None => context.tenant.value # None
    /\ AreValues(context.audit.request)
    /\ \A op \in {"insert", "update"} : AreValues(context.audit.provider[op])
    /\ AreValues(context.soft.request) /\ AreValues(context.soft.provider)
ASSUME ScenarioAssumption ==
    \A n \in DOMAIN Entities :
        LET table == Scenarios[n]
        IN  /\ IsList(table.decl.fields) /\ IsList(table.decl.audit)
            /\ IsList(table.decl.soft) /\ IsList(table.decl.tenant)
            /\ TableFits(table, Entities[n]) /\ InputsFit(table, Entities[n])
            /\ \A c \in Clients : ContextFits(table.runtime[c])
ASSUME ValuesAssumption ==
    /\ None \notin Nat /\ None # FALSE /\ None \notin {Null, "computed", "default"}
    /\ Null \notin Nat /\ Null # FALSE /\ Null \notin {"computed", "default"}
ASSUME BoundsAssumption == MaxSteps \in Nat /\ IsFiniteSet(Clients)

Init ==
    /\ scenario \in DOMAIN Entities
    /\ meta = Entities[scenario]
    /\ db = model.db
    /\ next = [id |-> FirstIssued, version |-> FirstIssued]
    /\ entity = [c \in Clients |-> None]
    /\ call = [c \in Clients |-> None]
    /\ last = None
    /\ steps = 0

-----------------------------------------------------------------------------
(* The values the policies add to a write.                                   *)

NoDuplicates(values) == IsInjective([i \in DOMAIN values |-> values[i].column])
Named(values, name) == \E i \in DOMAIN values : values[i].column = name
(* Only the policy's columns count; what is there already wins.              *)
AppendMissing(columns, values, more) ==
    values \o Where(more, LAMBDA v : v.column \in Names(columns) /\ ~Named(values, v.column))

(* Values the policy's columns do not take are errors, used or not.          *)
AllTake(columns, values, Takes(_)) ==
    \A i \in DOMAIN values : values[i].column \in Names(columns) =>
        LET column == ColumnNamed(columns, values[i].column)
        IN  Takes(column) /\ (values[i].value = Null => column.nullable)
AuditTakes(op, column) == IF op = "insert" THEN column.insertable ELSE column.updatable

(* The caller's values, then the request's, then the provider's.             *)
ApplyAuditValues(op, values, audit) ==
    LET all == <<values, audit.request, audit.provider[op]>>
    IN  IF ~NoDuplicates(values) THEN Compile
        ELSE IF AuditColumns = <<>> THEN Ok(values)
        ELSE IF \E i \in 1 .. 3 : ~NoDuplicates(all[i]) THEN Compile
        ELSE IF \E i \in 1 .. 3 : ~AllTake(AuditColumns, all[i], LAMBDA c : AuditTakes(op, c))
        THEN Compile
        ELSE Ok(AppendMissing(AuditColumns, AppendMissing(AuditColumns, values, audit.request),
                              audit.provider[op]))

(* The request's values and what the provider adds to them; a column that    *)
(* is written, has no default and takes no NULL needs a value.               *)
ApplySoftDeleteValues(soft) ==
    LET values == AppendMissing(SoftColumns, <<>>, soft.request) \o soft.provider
    IN  IF \/ ~NoDuplicates(soft.request) \/ ~NoDuplicates(values)
           \/ ~AllTake(SoftColumns, soft.request, LAMBDA c : c.updatable)
           \/ ~AllTake(SoftColumns, values, LAMBDA c : c.updatable)
           \/ \E i \in DOMAIN SoftColumns :
                LET c == SoftColumns[i]
                IN  c.updatable /\ ~c.default /\ ~c.nullable /\ ~Named(values, c.name)
        THEN Compile ELSE Ok(values)

(* The active tenant, for an entity that has a tenant column: of that name   *)
(* and type.                                                                 *)
Scoped == meta.tenant # <<>>
ActiveTenant(c) == model.runtime[c].tenant
TenantValueFits(tenant, column) == tenant.type = column.type /\ tenant.value # Null
TenantFits(c) ==
    /\ ActiveTenant(c) # None
    /\ ActiveTenant(c).column = TenantColumn.name
    /\ TenantValueFits(ActiveTenant(c), TenantColumn)

TenantInsertValues(c, values) ==
    LET given == {i \in DOMAIN values : values[i].column = TenantColumn.name}
    IN  IF ~Scoped THEN Ok(values)
        ELSE IF ~TenantFits(c) \/ \E i, j \in given : i # j THEN Compile
        ELSE IF given = {}
        THEN Ok(Append(values, ColumnValue(TenantColumn.name, ActiveTenant(c).value)))
        ELSE IF \E i \in given : values[i].value # ActiveTenant(c).value THEN Compile
        ELSE Ok(values)

-----------------------------------------------------------------------------
(* The statements.                                                           *)

InsertColumnFits(column) ==
    ~column.rowversion /\ ~column.computed /\ ~(column.key /\ column.identity)
    /\ column.insertable
UpdateColumnFits(column) ==
    ~column.key /\ ~column.rowversion /\ ~column.computed /\ column.updatable
(* At least one value, of distinct columns of the entity that fit.           *)
Compiles(values, Fits(_)) ==
    /\ values # <<>> /\ NoDuplicates(values)
    /\ \A i \in DOMAIN values :
        values[i].column \in Names(AllColumns) /\ Fits(ColumnNamed(AllColumns, values[i].column))

InsertStatement(c, values) ==
    LET audited == ApplyAuditValues("insert", values, model.runtime[c].audit)
        scoped == TenantInsertValues(c, audited.value)
    IN  IF ~audited.ok THEN audited ELSE IF ~scoped.ok THEN scoped
        ELSE IF Compiles(scoped.value, InsertColumnFits) THEN scoped ELSE Compile

(* Mutant: the tenant is not part of a write's WHERE.                        *)
WriteFilterByKey(c, key, token) ==
    IF Len(PrimaryKey) # 1
       \/ (token # None /\ RowversionColumn(AllColumns) = None)
    THEN Compile
    ELSE Ok([key |-> key, tenant |-> None, token |-> token])
(* The one key column, the tenant and the token, which needs a rowversion.   *)
WriteFilter(c, key, token) ==
    IF \/ Len(PrimaryKey) # 1
       \/ Scoped /\ ~TenantFits(c)
       \/ token # None /\ RowversionColumn(AllColumns) = None
    THEN Compile
    ELSE Ok([key |-> key, tenant |-> IF Scoped THEN ActiveTenant(c).value ELSE None,
             token |-> token])

Matches(row, filter) ==
    /\ KeyOf(row) = filter.key
    /\ filter.tenant # None => row[TenantColumn.name] = filter.tenant
    /\ filter.token # None => row[RowversionColumn(AllColumns).name] = filter.token

(* The SET and the WHERE of an UPDATE; a delete of a soft-delete entity is   *)
(* one whose values the audit policy does not see; a DELETE has no SET.      *)
UpdateWith(changes, filter) ==
    IF changes.ok /\ filter.ok /\ Compiles(changes.value, UpdateColumnFits)
    THEN Ok([changes |-> changes.value, filter |-> filter.value]) ELSE Compile
UpdateStatement(c, key, changes, token) ==
    UpdateWith(ApplyAuditValues("update", changes, model.runtime[c].audit),
               WriteFilter(c, key, token))
DeleteStatement(c, key, token) ==
    LET filter == WriteFilter(c, key, token)
    IN  IF SoftColumns # <<>> THEN UpdateWith(ApplySoftDeleteValues(model.runtime[c].soft), filter)
        ELSE IF filter.ok THEN Ok([changes |-> <<>>, filter |-> filter.value]) ELSE Compile

(* What the server makes of them: identities and versions are its own, a     *)
(* column without a value gets its default or NULL.                          *)
DefaultOf(column) ==
    IF column.type = "bool" THEN FALSE ELSE IF column.type = "String" THEN "default" ELSE 0
ValueOf(values, name) == FirstWhere(values, LAMBDA v : v.column = name).value
Inserted(values) ==
    [name \in Names(AllColumns) |->
        LET c == ColumnNamed(AllColumns, name)
        IN  IF c.rowversion THEN next.version ELSE IF c.identity THEN next.id
            ELSE IF c.computed THEN "computed"
            ELSE IF Named(values, name) THEN ValueOf(values, name)
            ELSE IF c.default THEN DefaultOf(c) ELSE Null]
Changed(row, changes) ==
    [name \in DOMAIN row |->
        IF ColumnNamed(AllColumns, name).rowversion THEN next.version
        ELSE IF Named(changes, name) THEN ValueOf(changes, name) ELSE row[name]]
ServerOwned(c) == c.identity \/ c.computed \/ c.rowversion
Assigns(values, Kind(_)) == \E i \in DOMAIN values : Kind(ColumnNamed(AllColumns, values[i].column))
HasForbiddenNull(row) == \E i \in DOMAIN AllColumns :
    ~AllColumns[i].nullable /\ row[AllColumns[i].name] = Null
SameKey(r, s) == \A i \in DOMAIN PrimaryKey : r[PrimaryKey[i].name] = s[PrimaryKey[i].name]
KeyTaken(row) == \E r \in db : SameKey(r, row)
InsertRefused(values) ==
    Assigns(values, ServerOwned) \/ HasForbiddenNull(Inserted(values)) \/ KeyTaken(Inserted(values))
(* An assignment to a column of the server's is refused, rows or not.        *)
UpdateRefused(u) ==
    u.changes # <<>> /\ \/ Assigns(u.changes, ServerOwned)
                        \/ \E r \in db : Matches(r, u.filter) /\ HasForbiddenNull(Changed(r, u.changes))

-----------------------------------------------------------------------------
(* The calls.                                                                *)

Idle(c) == call[c] = None /\ steps < MaxSteps
Answers(c, op, given, answer) ==
    /\ last' = [by |-> c, op |-> op, given |-> given, answer |-> answer]
    /\ call' = [call EXCEPT ![c] = None]
Continues(c, op, then, key, token) ==
    /\ last' = None
    /\ call' = [call EXCEPT ![c] = [op |-> op, then |-> then, key |-> key, token |-> token]]
Unwritten == UNCHANGED <<db, next, entity>>
Bumped == [next EXCEPT !.version = @ + 1]

SyncPersisted(c, row) == [entity EXCEPT ![c] = FromRow(Own, row)]
(* The written row comes back through from_row; the write stands even when   *)
(* it cannot be read.                                                        *)
Returns(c, op, given, row) ==
    IF ~FromRowFits(Own, row)
    THEN Answers(c, op, given, "mapping") /\ UNCHANGED entity
    ELSE /\ Answers(c, op, given, "ok")
         /\ entity' = IF op = "save" THEN SyncPersisted(c, row) ELSE entity

SendsInsert(c, op, given, s) ==
    \/ ~s.ok /\ Answers(c, op, given, "compile") /\ Unwritten
    \/ s.ok /\ InsertRefused(s.value) /\ Answers(c, op, given, "server") /\ Unwritten
    \/ /\ s.ok /\ ~InsertRefused(s.value)
       /\ db' = db \cup {Inserted(s.value)}
       /\ next' = [Bumped EXCEPT !.id = @ + 1]
       /\ Returns(c, op, given, Inserted(s.value))
Inserts(c, op, given) == SendsInsert(c, op, given, InsertStatement(c, given))

(* Mutant: a write that matched nothing counts as done.                      *)
MissedIsOk(op) == IF op = "save" THEN "concurrency" ELSE "ok"
(* What a write that matched nothing answers once no check is left.          *)
Missed(op) == IF op = "save" THEN "concurrency" ELSE "none"
(* An UPDATE or DELETE of at most one row; with a token a miss is looked     *)
(* into.                                                                     *)
Writes(c, op, given, s, token) ==
    \/ ~s.ok /\ Answers(c, op, given, "compile") /\ Unwritten
    \/ s.ok /\ UpdateRefused(s.value) /\ Answers(c, op, given, "server") /\ Unwritten
    \/ /\ s.ok /\ ~UpdateRefused(s.value)
       /\ ~\E r \in db : Matches(r, s.value.filter)
       /\ IF token = None THEN Answers(c, op, given, Missed(op))
          ELSE Continues(c, op, "recheck", s.value.filter.key, token)
       /\ Unwritten
    \/ /\ s.ok /\ ~UpdateRefused(s.value)
       /\ \E r \in db :
            /\ Matches(r, s.value.filter)
            /\ next' = Bumped
            /\ IF s.value.changes = <<>>
               THEN db' = db \ {r} /\ Answers(c, op, given, "ok") /\ UNCHANGED entity
               ELSE /\ db' = (db \ {r}) \cup {Changed(r, s.value.changes)}
                    /\ IF op \in {"remove", "delete"}
                       THEN Answers(c, op, given, "ok") /\ UNCHANGED entity
                       ELSE Returns(c, op, given, Changed(r, s.value.changes))

(* A read by key in the tenant; deleted rows only when asked for.            *)
Hidden(row) ==
    SoftColumns # <<>> /\ IF SoftColumns[1].type = "bool" THEN row[SoftColumns[1].name] # FALSE
                          ELSE row[SoftColumns[1].name] # Null
Readable == SoftColumns # <<>> => SoftColumns[1].type = "bool" \/ SoftColumns[1].nullable
Found(c, key, withDeleted) ==
    {r \in db : Matches(r, WriteFilter(c, key, None).value) /\ (withDeleted \/ ~Hidden(r))}

(* DbSet::find.                                                              *)
Find(c) ==
    /\ Idle(c) /\ \E key \in model.keys :
        \/ /\ ~(Readable /\ WriteFilter(c, key, None).ok)
           /\ Answers(c, "find", <<>>, "compile") /\ UNCHANGED entity
        \/ /\ Readable /\ WriteFilter(c, key, None).ok
           /\ Found(c, key, FALSE) = {}
           /\ Answers(c, "find", <<>>, "none") /\ UNCHANGED entity
        \/ /\ Readable /\ WriteFilter(c, key, None).ok
           /\ \E r \in Found(c, key, FALSE) :
                IF FromRowFits(Own, r)
                THEN Answers(c, "find", <<>>, "ok")
                     /\ entity' = [entity EXCEPT ![c] = FromRow(Own, r)]
                ELSE Answers(c, "find", <<>>, "mapping") /\ UNCHANGED entity
    /\ UNCHANGED <<db, next>>

(* The client's own work on its object.                                      *)
Create(c) ==
    /\ Idle(c) /\ entity[c] = None
    /\ \E e \in model.fresh : entity' = [entity EXCEPT ![c] = e]
    /\ last' = None /\ UNCHANGED <<db, next, call>>
Edit(c) ==
    /\ Idle(c) /\ entity[c] # None
    /\ \E e \in model.edits :
        entity[c][e.column] # e.value /\ entity' = [entity EXCEPT ![c][e.column] = e.value]
    /\ last' = None /\ UNCHANGED <<db, next, call>>

Key(c) == KeyOf(entity[c])
Token(c) == ConcurrencyToken(Own, entity[c])
SaveUpdates(c) ==
    LET changes == UpdateChanges(Own, entity[c])
    IN  Writes(c, "save", changes, UpdateStatement(c, Key(c), changes, Token(c)), Token(c))
SaveInserts(c) == Inserts(c, "save", InsertValues(Own, entity[c]))

(* exists_by_sql_value_internal reads deleted rows too.                      *)
Exists(c, key) == Found(c, key, TRUE)
Unreadable(c, key) == \E r \in Found(c, key, TRUE) : ~FromRowFits(Own, r)

(* ActiveRecord::save: by its key the object is inserted, updated, or looked *)
(* up first.                                                                 *)
Save(c) ==
    /\ Idle(c) /\ entity[c] # None
    /\ LET mode == PersistMode(Own, entity[c])
       IN  \/ mode = "error" /\ Answers(c, "save", <<>>, "compile") /\ Unwritten
           \/ mode = "insert" /\ SaveInserts(c)
           \/ mode = "update" /\ SaveUpdates(c)
           \/ /\ mode = "insertOrUpdate" /\ Unwritten
              /\ \/ ~WriteFilter(c, Key(c), None).ok /\ Answers(c, "save", <<>>, "compile")
                 \/ /\ WriteFilter(c, Key(c), None).ok
                    /\ IF Unreadable(c, Key(c)) THEN Answers(c, "save", <<>>, "mapping")
                       ELSE Continues(c, "save",
                                IF Exists(c, Key(c)) # {} THEN "update" ELSE "insert",
                                Key(c), Token(c))
SaveGoesOn(c) ==
    /\ call[c] # None
    /\ \/ call[c].then = "update" /\ SaveUpdates(c)
       \/ call[c].then = "insert" /\ SaveInserts(c)

(* After a miss with a token: a row that is still there has changed.         *)
Recheck(c) ==
    /\ call[c] # None /\ call[c].then = "recheck"
    /\ Answers(c, call[c].op, <<>>,
        IF Unreadable(c, call[c].key) THEN "mapping"
        ELSE IF Exists(c, call[c].key) # {} THEN "conflict" ELSE Missed(call[c].op))
    /\ Unwritten

(* ActiveRecord::delete and the DbSet's writes by key.                       *)
DeleteObject(c) ==
    /\ Idle(c) /\ entity[c] # None
    /\ \/ Len(PrimaryKey) # 1 /\ Answers(c, "remove", <<>>, "compile") /\ Unwritten
       \/ /\ Len(PrimaryKey) = 1
          /\ Writes(c, "remove", <<>>, DeleteStatement(c, Key(c), Token(c)), Token(c))
DbSetInsert(c) ==
    /\ Idle(c) /\ \E given \in model.insertables :
        Inserts(c, "insert", InsertableValues(AllColumns, given))
DbSetUpdate(c) ==
    /\ Idle(c) /\ \E key \in model.keys, given \in model.changesets :
        LET changes == ChangesetChanges(AllColumns, given)
            token == ChangesetToken(AllColumns, given)
        IN  Writes(c, "update", changes, UpdateStatement(c, key, changes, token), token)
DbSetDelete(c) ==
    /\ Idle(c) /\ \E key \in model.keys :
        Writes(c, "delete", <<>>, DeleteStatement(c, key, None), None)

Step(c) ==
    \/ Find(c) \/ Create(c) \/ Edit(c) \/ Save(c) \/ SaveGoesOn(c) \/ Recheck(c)
    \/ DeleteObject(c) \/ DbSetInsert(c) \/ DbSetUpdate(c) \/ DbSetDelete(c)
Next ==
    /\ \E c \in Clients : Step(c)
    /\ steps' = steps + 1 /\ UNCHANGED <<scenario, meta>>
Spec == Init /\ [][Next]_vars

-----------------------------------------------------------------------------
(* Properties.                                                               *)

(* Rows have the table's columns and keys of their own; an object has the    *)
(* entity's columns; a call that goes on has a statement left.               *)
TypeOK ==
    /\ \A r \in db : DOMAIN r = Names(AllColumns) /\ ~HasForbiddenNull(r)
    /\ \A r, s \in db : SameKey(r, s) => r = s
    /\ \A c \in Clients :
        /\ entity[c] # None => DOMAIN entity[c] = Names(Own)
        /\ call[c] # None => call[c].then \in {"insert", "update", "recheck"}
    /\ steps \in 0 .. MaxSteps + 2 * Cardinality(Clients)

(* An accepted declaration gives every policy column a name no other column  *)
(* has (the collision checks of derive(Entity)).                             *)
PolicyColumnsDistinct ==
    steps = 0 => \A i, j \in DOMAIN AllColumns :
        AllColumns[i].owner # "entity" /\ i # j => AllColumns[i].name # AllColumns[j].name

Touched == (db \ db') \cup (db' \ db)
Reports(ops) == last' # None /\ last'.op \in ops
Rowversion == RowversionColumn(AllColumns)

(* No call reads, changes, adds or removes a row of another tenant, whatever *)
(* keys the tenants share.                                                   *)
TenantConfined ==
    [][Scoped => \A r \in Touched : r[TenantColumn.name] = ActiveTenant(last'.by).value]_vars

(* With a rowversion, save and delete of an object touch only the version of *)
(* the row the object was loaded from or saved as.                           *)
NoLostUpdate ==
    [][Rowversion # None /\ Reports({"save", "remove"}) =>
        \A r \in db \ db' : r[Rowversion.name] = entity[last'.by][Rowversion.name]]_vars

(* A write answers ok when the server wrote a row, of one key, and otherwise *)
(* it wrote none, but for a row that cannot be read back.                    *)
OkMeansWritten ==
    [][/\ Cardinality({KeyOf(r) : r \in Touched}) <= 1
       /\ Reports({"save", "insert", "update", "remove", "delete"}) /\ last'.answer = "ok" =>
            next' # next
       /\ db' # db \/ next' # next =>
            \/ last'.answer = "ok"
            \/ last'.answer = "mapping" /\ \E r \in db' : ~FromRowFits(Own, r)]_vars

(* What a miss with a token answers: ConcurrencyConflict when the row is     *)
(* there in another version, deleted or not, and absence when it is not.     *)
MissExplained ==
    [][\A c \in Clients : call[c] # None /\ call[c].then = "recheck" /\ call'[c] = None =>
        LET there == {r \in db : KeyOf(r) = call[c].key
                                 /\ (Scoped => r[TenantColumn.name] = ActiveTenant(c).value)}
        IN  /\ (last'.answer = "conflict" =>
                    \E r \in there : r[Rowversion.name] # call[c].token)
            /\ (last'.answer \in {"none", "concurrency"} => there = {})]_vars

(* The values of a soft delete mark its first column.                        *)
Marks(c) ==
    LET name == SoftColumns[1].name
        values == ApplySoftDeleteValues(model.runtime[c].soft)
        mark == ValueOf(values.value, name)
    IN  values.ok /\ Named(values.value, name)
        /\ IF SoftColumns[1].type = "bool" THEN mark = TRUE ELSE mark # Null

(* No row of a soft-delete entity goes away.  One that a delete with marking *)
(* values answered for is hidden from find, and stays so until a write names *)
(* the mark or a delete overwrites it with values that mark nothing.         *)
SoftDeleteKeeps ==
    [][SoftColumns # <<>> => \A r \in db : \E s \in db' :
        /\ KeyOf(s) = KeyOf(r)
        /\ Hidden(r) => \/ Hidden(s) \/ Named(last'.given, SoftColumns[1].name)
                        \/ last'.op \in {"remove", "delete"} /\ ~Marks(last'.by)
        /\ r # s /\ last'.op \in {"remove", "delete"} /\ Marks(last'.by) => Hidden(s)]_vars

(* An audit column gets the caller's value, else the request's, else the     *)
(* provider's, and is left alone (or to its default) when none names it; of  *)
(* a soft delete only what the soft-delete provider adds can reach it.       *)
AuditPrecedence ==
    [][\A s \in db' \ db : \A i \in DOMAIN AuditColumns :
        LET name == AuditColumns[i].name
            before == {r \in db : SameKey(r, s)}
            runtime == model.runtime[last'.by]
            provided == runtime.audit.provider[IF before = {} THEN "insert" ELSE "update"]
            sources == IF last'.op \in {"remove", "delete"} THEN <<runtime.soft.provider>>
                       ELSE <<last'.given, runtime.audit.request, provided>>
            naming == {k \in DOMAIN sources : Named(sources[k], name)}
        IN  IF naming = {} THEN \A r \in before : s[name] = r[name]
            ELSE s[name] = ValueOf(FirstAt(sources, naming), name)]_vars

(* Saving an object that holds an identity never adds a row: its row is      *)
(* updated or the call fails.                                                *)
IdentitySavedOnce ==
    [][Reports({"save"}) /\ PrimaryKey[1].identity /\ Key(last'.by) # 0 =>
        \A s \in db' : \E r \in db : KeyOf(r) = KeyOf(s)]_vars

(* An object that was saved is what the database now holds, identity,        *)
(* version, defaults and computed columns included.                          *)
SavedIsSynced ==
    last # None /\ last.op = "save" /\ last.answer = "ok" =>
        \E r \in db : FromRow(Own, r) = entity[last.by]

(* Why the server may refuse a write of an accepted declaration that was     *)
(* compiled: the key is taken, a column that takes no NULL gets one or is    *)
(* left without value, or an update includes an identity that is no key.     *)
(* Save names every column of the entity that is not the server's.           *)
KeyClash(given) == \E i \in DOMAIN PrimaryKey :
    LET c == PrimaryKey[i]
    IN  ~c.identity /\ (Named(given, c.name) => \E r \in db : r[c.name] = ValueOf(given, c.name))
MayLeaveOut(op, c) ==
    /\ ~c.default /\ ~ServerOwned(c)
    /\ \/ c.owner = "entity" /\ op = "insert"
       \/ c.owner \in {"audit", "soft"} /\ op \in {"insert", "save"}
NoValue(op, given) == \E i \in DOMAIN AllColumns :
    LET c == AllColumns[i]
    IN  ~c.nullable /\ IF Named(given, c.name) THEN ValueOf(given, c.name) = Null
                       ELSE MayLeaveOut(op, c)
(* What the provider of a soft delete adds to it is not checked any further. *)
StrayNull(op, by) ==
    /\ op \in {"remove", "delete"}
    /\ \E v \in ToSet(model.runtime[by].soft.provider) :
        v.value = Null /\ v.column \notin Names(SoftColumns)
OtherIdentity == \E i \in DOMAIN AllColumns : AllColumns[i].identity /\ ~AllColumns[i].key
RefusalsExplained ==
    last # None /\ last.answer = "server" =>
        \/ last.op \in {"insert", "save"} /\ KeyClash(last.given)
        \/ NoValue(last.op, last.given) \/ StrayNull(last.op, last.by) \/ OtherIdentity
(* Declarations, objects and rows fit together after every write.            *)
WritesSound == TypeOK /\ PolicyColumnsDistinct /\ SavedIsSynced /\ RefusalsExplained

(* What a write may touch: its tenant, its version, its own row.             *)
WritesConfined == TenantConfined /\ NoLostUpdate /\ IdentitySavedOnce

(* What a write did is what was answered and what its policies say.          *)
AnswersTrue == OkMeansWritten /\ MissExplained /\ SoftDeleteKeeps /\ AuditPrecedence
=============================================================================
