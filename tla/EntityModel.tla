----------------------------- MODULE EntityModel -----------------------------
(* What the derive macros accept of an entity's declaration and generate     *)
(* from it: the metadata, and the values and keys that writes are made of.   *)
(* A field of a declaration is a record over DefaultField, a field of a      *)
(* policy struct one over DefaultPolicyField.                                *)
EXTENDS Integers, Sequences, FiniteSets, SequencesExt

CONSTANTS
    None,   \* an absent option
    Null    \* SqlValue::Null and TypedNull

Integer == {"i64", "i32", "i16", "u8"}
(* i16, u8 and f32 have an SQL type and no SqlTypeMapping: rustc refuses.    *)
Mapped == {"i64", "i32", "String", "Bytes", "bool"}
Wrappers == [one |-> {"Navigation", "LazyNavigation"}, many |-> {"Collection", "LazyCollection"}]
NavigationWrapper == Wrappers.one \cup Wrappers.many
DefaultField ==
    [name |-> None, column |-> None, type |-> "String", option |-> FALSE, key |-> FALSE,
     identity |-> FALSE, nullable |-> FALSE, default |-> FALSE, computed |-> FALSE,
     rowversion |-> FALSE, sqlType |-> None, unsafeSqlType |-> None, foreignKey |-> None,
     onDelete |-> "noAction", navigation |-> None, target |-> None]
DefaultPolicyField ==
    [name |-> None, column |-> None, type |-> "String", option |-> FALSE, nullable |-> FALSE,
     default |-> FALSE, insertable |-> None, updatable |-> None]

ColumnName(f) == IF f.column = None THEN f.name ELSE f.column
Optional(value, default) == IF value = None THEN default ELSE value

(* Iterator::find and filter: the first element that holds, if any, and all  *)
(* of them in order, by the set of their indices.                            *)
FirstAt(s, at) == IF at = {} THEN None ELSE s[CHOOSE i \in at : \A j \in at : i <= j]
Those(s, at) ==
    [n \in 1 .. Cardinality(at) |->
        s[CHOOSE i \in at : Cardinality({j \in at : j <= i}) = n]]
FirstWhere(s, Holds(_)) == FirstAt(s, {i \in DOMAIN s : Holds(s[i])})
Where(s, Holds(_)) == Those(s, {i \in DOMAIN s : Holds(s[i])})

-----------------------------------------------------------------------------
(* derive(Entity): the declarations it refuses.                              *)

IsNavigation(f) == f.navigation # None
Navigations(d) == Where(d.fields, IsNavigation)
ColumnFields(d) == Where(d.fields, LAMBDA f : ~IsNavigation(f))

(* A navigation declares no column; its wrapper fits its kind and target.    *)
NavigationFieldErrors(f) ==
    LET kind == f.navigation.kind
        wrappers == IF kind = "hasMany" THEN Wrappers.many ELSE Wrappers.one
    IN  {e \in {"attributes", "wrapper"} :
            \/ e = "attributes" /\ \/ f.column # None \/ f.key \/ f.identity \/ f.nullable
                                   \/ f.default \/ f.computed \/ f.rowversion
                                   \/ f.sqlType # None \/ f.foreignKey # None
                                   \/ f.onDelete # "noAction"
            \/ e = "wrapper" /\ ~(f.type \in wrappers /\ f.target = f.navigation.target)}

(* An explicit key, or a field called id.                                    *)
IsKey(d, f) ==
    \/ f.key
    \/ f.name = "id" /\ ~\E i \in DOMAIN d.fields : d.fields[i].key
NullableField(f) == f.nullable \/ f.option

(* The SQL type is named by a type the server has, or inferred.              *)
SqlTypeUnknown(f) ==
    \/ f.sqlType # None /\ f.unsafeSqlType # None
    \/ f.sqlType = "custom"
    \/ /\ f.sqlType = None /\ f.unsafeSqlType = None /\ ~f.rowversion
       /\ f.type \notin Mapped \cup Integer
ColumnFieldErrors(f) ==
    {e \in {"wrapper", "sqlType", "identity", "rowversion", "setNull"} :
        \/ e = "wrapper" /\ f.type \in NavigationWrapper
        \/ e = "sqlType" /\ SqlTypeUnknown(f)
        \/ e = "identity" /\ f.identity /\ f.type \notin Integer
        \/ e = "rowversion" /\ f.rowversion /\ f.type # "Bytes"
        \/ e = "setNull" /\ f.foreignKey # None /\ f.onDelete = "setNull" /\ ~NullableField(f)}

(* Two structured foreign keys to one entity need names of their own.        *)
ForeignKeyFields(d) == {i \in DOMAIN d.fields : d.fields[i].foreignKey # None}
AmbiguousForeignKeys(d) ==
    \E i, j \in ForeignKeyFields(d) :
        LET k == d.fields[i].foreignKey
            l == d.fields[j].foreignKey
        IN  i # j /\ k.structured /\ l.structured /\ k.entity = l.entity /\ k.name = None

(* belongs_to goes over a structured foreign key of this entity to its       *)
(* target; the field names of an entity are distinct.                        *)
BelongsToResolves(d, f) ==
    \E i \in ForeignKeyFields(d) :
        LET k == d.fields[i].foreignKey
        IN  d.fields[i].name = f.navigation.foreignKey /\ k.structured
            /\ k.entity = f.navigation.target

-----------------------------------------------------------------------------
(* The policies.                                                             *)

(* Audit columns are written by inserts and updates, soft-delete columns by  *)
(* updates, the tenant by inserts.                                           *)
DefaultInsertable == [audit |-> TRUE, soft |-> FALSE, tenant |-> TRUE]
DefaultUpdatable == [audit |-> TRUE, soft |-> TRUE, tenant |-> FALSE]
PolicyColumn(kind, f) ==
    [name |-> ColumnName(f), field |-> f.name, type |-> f.type, owner |-> kind,
     nullable |-> f.nullable \/ f.option, option |-> f.option, key |-> FALSE, identity |-> FALSE,
     default |-> f.default, computed |-> FALSE, rowversion |-> FALSE,
     insertable |-> Optional(f.insertable, DefaultInsertable[kind]),
     updatable |-> Optional(f.updatable, DefaultUpdatable[kind])]
PolicyColumns(kind, policy) == [i \in DOMAIN policy |-> PolicyColumn(kind, policy[i])]
Names(columns) == {columns[i].name : i \in DOMAIN columns}

(* The tenant struct has exactly one field, of a type without NULL and       *)
(* without the attributes that would say when its column is written.         *)
TenantFieldFits(f) ==
    ~f.option /\ ~f.nullable /\ ~f.default /\ f.insertable = None /\ f.updatable = None
PolicyErrors(d) ==
    {e \in {"policyDuplicate", "tenantShape"} :
        \/ e = "policyDuplicate" /\ \E p \in {d.audit, d.soft} :
                ~IsInjective([i \in DOMAIN p |-> ColumnName(p[i])])
        \/ e = "tenantShape" /\ d.tenant # <<>>
                /\ ~(Len(d.tenant) = 1 /\ TenantFieldFits(d.tenant[1]))}

(* Mutant: two policies may bring the same column.                           *)
OwnCollisions(own, audit, soft, tenant) ==
    own \cap (audit \cup soft \cup tenant) # {}
Collisions(own, audit, soft, tenant) ==
    \/ own \cap (audit \cup soft \cup tenant) # {}
    \/ soft \cap audit # {} \/ tenant \cap audit # {} \/ tenant \cap soft # {}

-----------------------------------------------------------------------------
(* The metadata.                                                             *)

InsertableField(f) == ~f.identity /\ ~f.rowversion /\ ~f.computed
UpdatableField(d, f) == ~IsKey(d, f) /\ ~f.rowversion /\ ~f.computed
EntityColumn(d, f) ==
    [name |-> ColumnName(f), field |-> f.name, type |-> f.type, owner |-> "entity",
     nullable |-> NullableField(f), option |-> f.option, key |-> IsKey(d, f),
     identity |-> f.identity, default |-> f.default, computed |-> f.computed,
     rowversion |-> f.rowversion, insertable |-> InsertableField(f),
     updatable |-> UpdatableField(d, f)]
OwnColumns(d) == [i \in DOMAIN ColumnFields(d) |-> EntityColumn(d, ColumnFields(d)[i])]

(* The policies' columns follow the entity's own.                            *)
Columns(d) ==
    OwnColumns(d) \o PolicyColumns("audit", d.audit) \o PolicyColumns("soft", d.soft)
        \o PolicyColumns("tenant", d.tenant)

EntityErrors(d) ==
    {e \in {"ambiguous", "belongsTo", "index", "noKey", "collision", "mapping"} :
        \/ e = "ambiguous" /\ AmbiguousForeignKeys(d)
        \/ e = "belongsTo" /\ \E i \in DOMAIN Navigations(d) :
                Navigations(d)[i].navigation.kind = "belongsTo"
                /\ ~BelongsToResolves(d, Navigations(d)[i])
        \/ e = "index" /\ \E c \in d.indexed : \A i \in DOMAIN ColumnFields(d) :
                ColumnFields(d)[i].name # c
        \/ e = "noKey" /\ ~\E i \in DOMAIN ColumnFields(d) : IsKey(d, ColumnFields(d)[i])
        \/ e = "collision" /\ Collisions(Names(OwnColumns(d)),
                Names(PolicyColumns("audit", d.audit)), Names(PolicyColumns("soft", d.soft)),
                Names(PolicyColumns("tenant", d.tenant)))
        \/ e = "mapping" /\ \E i \in DOMAIN Columns(d) : Columns(d)[i].type \notin Mapped}
DeriveErrors(d) ==
    (UNION {ColumnFieldErrors(ColumnFields(d)[i]) : i \in DOMAIN ColumnFields(d)})
    \cup (UNION {NavigationFieldErrors(Navigations(d)[i]) : i \in DOMAIN Navigations(d)})
    \cup PolicyErrors(d) \cup EntityErrors(d)

(* EntityMetadata: lookups answer the first match.                           *)
ColumnNamed(columns, name) == FirstWhere(columns, LAMBDA c : c.name = name)
FieldNamed(columns, name) == FirstWhere(columns, LAMBDA c : c.field = name)
KeyColumns(columns) == Where(columns, LAMBDA c : c.key)
RowversionColumn(columns) == FirstWhere(columns, LAMBDA c : c.rowversion)

-----------------------------------------------------------------------------
(* What the generated code makes of an entity, a function from its columns;  *)
(* own are the columns of its fields.                                        *)

ColumnValue(name, value) == [column |-> name, value |-> value]
ValuesWhere(columns, entity, Holds(_)) ==
    LET chosen == Where(columns, Holds)
    IN  [i \in DOMAIN chosen |-> ColumnValue(chosen[i].name, entity[chosen[i].name])]
InsertValues(own, entity) == ValuesWhere(own, entity, LAMBDA c : c.insertable)
UpdateChanges(own, entity) == ValuesWhere(own, entity, LAMBDA c : c.updatable)

(* Also a new entity has a token: the bytes it was built with.               *)
ConcurrencyToken(own, entity) ==
    LET c == RowversionColumn(own) IN IF c = None THEN None ELSE entity[c.name]

(* An identity of 0 is not stored yet; other keys are looked up.             *)
PersistMode(own, entity) ==
    LET keys == KeyColumns(own)
    IN  IF Len(keys) # 1 THEN "error"
        ELSE IF ~keys[1].identity THEN "insertOrUpdate"
        ELSE IF entity[keys[1].name] = 0 THEN "insert" ELSE "update"

(* from_row: NULL fits a field that is an Option.                            *)
FromRowFits(own, row) ==
    \A i \in DOMAIN own : row[own[i].name] = Null => own[i].option
FromRow(own, row) == [c \in Names(own) |-> row[c]]

(* derive(Insertable), derive(Changeset): fields name a column or a field of *)
(* the entity, and panic when it has none.                                   *)
Resolved(columns, f) ==
    IF f.column # None THEN ColumnNamed(columns, f.column) ELSE FieldNamed(columns, f.name)
Resolves(columns, given) == \A i \in DOMAIN given : Resolved(columns, given[i]) # None
InsertableValues(columns, given) ==
    [i \in DOMAIN given |-> ColumnValue(Resolved(columns, given[i]).name, given[i].value)]
(* A changeset leaves out what was not set and what cannot be updated.       *)
ChangesetChanges(columns, given) ==
    InsertableValues(columns, Where(given, LAMBDA f :
        f.value # None /\ Resolved(columns, f).updatable))
ChangesetToken(columns, given) ==
    LET token == FirstWhere(given, LAMBDA f : f.value # None /\ Resolved(columns, f).rowversion)
    IN  IF token = None THEN None ELSE token.value
=============================================================================
