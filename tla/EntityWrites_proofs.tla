------------------------- MODULE EntityWrites_proofs -------------------------
(* What EntityWrites promises, for every table, every input and any number   *)
(* of clients.                                                               *)
EXTENDS EntityWrites, FiniteSetTheorems, WellFoundedInduction, TLAPS

-----------------------------------------------------------------------------
(* Lists, first elements and selections                                      *)

(* A nonempty set of naturals has a least element: the induction the proofs  *)
(* about the first match of a list rest on.                                  *)
LEMMA LeastIndex ==
    ASSUME NEW at, at \subseteq Nat, at # {}
    PROVE  \E i \in at : \A j \in at : i <= j
<1>1. PICK m \in at : \A y \in at : <<y, m>> \notin OpToRel(<, Nat)
  BY NatLessThanWellFounded, WFMin
<1>2. \A y \in at : ~(y < m)
  BY <1>1 DEF OpToRel
<1> QED
  BY <1>2

(* FirstAt is the element at the least of the given indices, as iter().find  *)
(* returns the first match.                                                  *)
LEMMA FirstAtFacts ==
    ASSUME NEW s, NEW at, at \subseteq Nat, at # {}
    PROVE  \E i \in at : FirstAt(s, at) = s[i] /\ \A j \in at : i <= j
BY LeastIndex DEF FirstAt

(* What a list is: a sequence of its own elements, indexed from one.         *)
LEMMA ListFacts ==
    ASSUME NEW s, IsList(s)
    PROVE  /\ Len(s) \in Nat /\ DOMAIN s = 1 .. Len(s)
           /\ s \in Seq(ToSet(s))
<1>1. Len(s) \in Nat /\ s = [i \in 1 .. Len(s) |-> s[i]]
  BY DEF IsList
<1>2. DOMAIN s = 1 .. Len(s)
  BY <1>1
<1>3. \A i \in 1 .. Len(s) : s[i] \in ToSet(s)
  BY <1>2 DEF ToSet
<1>4. s \in [1 .. Len(s) -> ToSet(s)]
  BY <1>1, <1>3
<1> QED
  BY <1>1, <1>2, <1>4

(* A sequence over any set is a list.                                        *)
LEMMA SequenceIsList ==
    ASSUME NEW U, NEW s \in Seq(U)
    PROVE  IsList(s)
<1>1. Len(s) \in Nat /\ DOMAIN s = 1 .. Len(s) /\ s \in [1 .. Len(s) -> U]
  OBVIOUS
<1>2. s = [i \in 1 .. Len(s) |-> s[i]]
  BY <1>1
<1> QED
  BY <1>1, <1>2 DEF IsList

(* Those, the selection at a set of indices, is a list of exactly the        *)
(* elements there, as iter().filter().collect() is.                          *)
LEMMA ThoseFacts ==
    ASSUME NEW s, NEW n \in Nat, NEW at, at \subseteq 1 .. n
    PROVE  /\ IsList(Those(s, at))
           /\ ToSet(Those(s, at)) = {s[i] : i \in at}
<1> DEFINE upTo(i) == {j \in at : j <= i}
           rank == [i \in at |-> Cardinality(upTo(i))]
           m == Cardinality(at)
<1>1. IsFiniteSet(at) /\ m \in Nat
  <2>1. IsFiniteSet(1 .. n)
    BY FS_Interval
  <2>2. IsFiniteSet(at)
    BY <2>1, FS_Subset
  <2> QED
    BY <2>2, FS_CardinalityType
<1>2. \A i \in at : IsFiniteSet(upTo(i)) /\ Cardinality(upTo(i)) \in 1 .. m
  <2> TAKE i \in at
  <2>1. IsFiniteSet(upTo(i)) /\ Cardinality(upTo(i)) <= m
    BY <1>1, FS_Subset
  <2>2. upTo(i) # {}
    BY DEF upTo
  <2>3. Cardinality(upTo(i)) \in Nat /\ Cardinality(upTo(i)) # 0
    BY <2>1, <2>2, FS_CardinalityType, FS_EmptySet
  <2> QED
    BY <2>1, <2>3, <1>1
<1>3. \A i, j \in at : i < j => rank[i] < rank[j]
  <2> SUFFICES ASSUME NEW i \in at, NEW j \in at, i < j
               PROVE  Cardinality(upTo(i)) < Cardinality(upTo(j))
    OBVIOUS
  <2>1. i \in Nat /\ j \in Nat /\ \A k \in at : k \in Nat
    OBVIOUS
  <2>2. \A k \in at : k <= i => k <= j
    BY <2>1
  <2>3. j \in upTo(j) /\ j \notin upTo(i)
    BY <2>1
  <2>4. upTo(i) \subseteq upTo(j) /\ upTo(i) # upTo(j)
    BY <2>2, <2>3
  <2> QED
    BY <2>4, <1>2, FS_Subset
<1>4. rank \in Injection(at, 1 .. m)
  <2>1. rank \in [at -> 1 .. m]
    BY <1>2
  <2>2. \A i, j \in at : rank[i] = rank[j] => i = j
    BY <1>3, <2>1
  <2> QED
    BY <2>1, <2>2 DEF Injection, IsInjective
<1>5. \A k \in 1 .. m : \E i \in at : rank[i] = k
  <2>1. IsFiniteSet(1 .. m) /\ Cardinality(1 .. m) = m
    BY <1>1, FS_Interval
  <2>2. rank \in Surjection(at, 1 .. m)
    BY <1>4, <2>1, FS_Injection
  <2> QED
    BY <2>2 DEF Surjection
<1> DEFINE pick(k) == CHOOSE i \in at : Cardinality(upTo(i)) = k
<1>6. \A k \in 1 .. m : pick(k) \in at /\ rank[pick(k)] = k
  BY <1>5
<1>7. \A i \in at : rank[i] \in 1 .. m /\ pick(rank[i]) = i
  <2> TAKE i \in at
  <2>1. rank[i] \in 1 .. m
    BY <1>2
  <2>2. pick(rank[i]) \in at /\ rank[pick(rank[i])] = rank[i]
    BY <2>1, <1>6
  <2> QED
    BY <2>1, <2>2, <1>4 DEF Injection, IsInjective
<1>8. Those(s, at) = [k \in 1 .. m |-> s[pick(k)]]
  BY DEF Those
<1>9. IsList(Those(s, at))
  BY <1>8, <1>1 DEF IsList
<1>10. ToSet(Those(s, at)) = {s[pick(k)] : k \in 1 .. m}
  <2> HIDE DEF pick, m
  <2>1. DOMAIN Those(s, at) = 1 .. m /\ \A k \in 1 .. m : Those(s, at)[k] = s[pick(k)]
    BY <1>8
  <2> QED
    BY <2>1 DEF ToSet
<1>11. {pick(k) : k \in 1 .. m} = at
  <2> HIDE DEF pick, rank, m
  <2> QED
    BY <1>6, <1>7
<1>12. {s[pick(k)] : k \in 1 .. m} = {s[i] : i \in at}
  <2> HIDE DEF pick, rank, m
  <2> QED
    BY <1>11
<1> QED
  BY <1>9, <1>10, <1>12

-----------------------------------------------------------------------------
(* The metadata that derive generates from a declaration it accepts          *)

(* The entity's own columns are the metadata of its column fields, one each  *)
(* and in their order.                                                       *)
LEMMA OwnColumnsList ==
    ASSUME NEW d, IsList(d.fields)
    PROVE  /\ IsList(OwnColumns(d))
           /\ DOMAIN OwnColumns(d) = DOMAIN ColumnFields(d)
           /\ \A i \in DOMAIN OwnColumns(d) : OwnColumns(d)[i] = EntityColumn(d, ColumnFields(d)[i])
<1> DEFINE at == {i \in DOMAIN d.fields : ~IsNavigation(d.fields[i])}
<1>1. Len(d.fields) \in Nat /\ at \subseteq 1 .. Len(d.fields)
  BY ListFacts
<1>2. ColumnFields(d) = Those(d.fields, at)
  BY DEF ColumnFields, Where
<1>3. IsList(ColumnFields(d))
  BY <1>1, <1>2, ThoseFacts
<1>4. Len(ColumnFields(d)) \in Nat /\ DOMAIN ColumnFields(d) = 1 .. Len(ColumnFields(d))
  BY <1>3, ListFacts
<1> HIDE DEF at
<1>5. OwnColumns(d) = [i \in 1 .. Len(ColumnFields(d)) |-> EntityColumn(d, ColumnFields(d)[i])]
  BY <1>4 DEF OwnColumns
<1>6. DOMAIN OwnColumns(d) = 1 .. Len(ColumnFields(d))
  BY <1>5
<1>7. Len(OwnColumns(d)) = Len(ColumnFields(d))
  BY <1>4, <1>5
<1> QED
  BY <1>4, <1>5, <1>6, <1>7 DEF IsList

(* A policy's columns are the metadata of its fields, one each and in their  *)
(* order.                                                                    *)
LEMMA PolicyColumnsList ==
    ASSUME NEW kind, NEW policy, IsList(policy)
    PROVE  /\ IsList(PolicyColumns(kind, policy))
           /\ DOMAIN PolicyColumns(kind, policy) = DOMAIN policy
           /\ \A i \in DOMAIN policy :
                PolicyColumns(kind, policy)[i] = PolicyColumn(kind, policy[i])
<1>1. Len(policy) \in Nat /\ DOMAIN policy = 1 .. Len(policy)
  BY ListFacts
<1>2. PolicyColumns(kind, policy) = [i \in 1 .. Len(policy) |-> PolicyColumn(kind, policy[i])]
  BY <1>1 DEF PolicyColumns
<1>3. Len(PolicyColumns(kind, policy)) = Len(policy)
  BY <1>1, <1>2
<1> QED
  BY <1>1, <1>2, <1>3 DEF IsList

(* A list followed by another holds what the two hold.                       *)
LEMMA Concatenated ==
    ASSUME NEW s, NEW t, IsList(s), IsList(t)
    PROVE  /\ IsList(s \o t) /\ Len(s \o t) = Len(s) + Len(t)
           /\ DOMAIN (s \o t) = 1 .. Len(s) + Len(t)
           /\ \A i \in 1 .. Len(s) : (s \o t)[i] = s[i]
           /\ \A i \in 1 .. Len(t) : (s \o t)[Len(s) + i] = t[i]
           /\ ToSet(s \o t) = ToSet(s) \cup ToSet(t)
<1> DEFINE U == ToSet(s) \cup ToSet(t)
<1>1. s \in Seq(ToSet(s)) /\ t \in Seq(ToSet(t))
  BY ListFacts
<1>2. s \in Seq(U) /\ t \in Seq(U)
  BY <1>1
<1>3. /\ Len(s) \in Nat /\ DOMAIN s = 1 .. Len(s)
      /\ Len(t) \in Nat /\ DOMAIN t = 1 .. Len(t)
  BY ListFacts
<1> HIDE DEF U
<1>4. s \o t \in Seq(U) /\ Len(s \o t) = Len(s) + Len(t)
  BY <1>2
<1>5. DOMAIN (s \o t) = 1 .. Len(s) + Len(t) /\ Len(s \o t) \in Nat
  BY <1>3, <1>4
<1>6. \A i \in 1 .. Len(s) : (s \o t)[i] = s[i]
  BY <1>2, <1>3
<1>7. \A i \in 1 .. Len(t) : (s \o t)[Len(s) + i] = t[i]
  BY <1>2, <1>3
<1>8. IsList(s \o t)
  BY <1>4, SequenceIsList
<1>9. ASSUME NEW i \in 1 .. Len(s) + Len(t)
      PROVE  \/ i \in 1 .. Len(s)
             \/ i - Len(s) \in 1 .. Len(t) /\ i = Len(s) + (i - Len(s))
  BY <1>3
<1>10. ToSet(s \o t) \subseteq ToSet(s) \cup ToSet(t)
  <2> SUFFICES ASSUME NEW i \in 1 .. Len(s) + Len(t)
               PROVE  (s \o t)[i] \in ToSet(s) \cup ToSet(t)
    BY <1>5 DEF ToSet
  <2>1. CASE i \in 1 .. Len(s)
    BY <2>1, <1>3, <1>6 DEF ToSet
  <2>2. CASE i - Len(s) \in 1 .. Len(t) /\ i = Len(s) + (i - Len(s))
    <3>1. (s \o t)[i] = t[i - Len(s)]
      BY <2>2, <1>7
    <3> QED
      BY <3>1, <2>2, <1>3 DEF ToSet
  <2> QED
    BY <1>9, <2>1, <2>2
<1>11. ASSUME NEW i \in 1 .. Len(s)
       PROVE  s[i] \in ToSet(s \o t)
  <2>1. i \in 1 .. Len(s) + Len(t)
    BY <1>3
  <2> QED
    BY <2>1, <1>5, <1>6 DEF ToSet
<1>12. ASSUME NEW i \in 1 .. Len(t)
       PROVE  t[i] \in ToSet(s \o t)
  <2>1. Len(s) + i \in 1 .. Len(s) + Len(t)
    BY <1>3
  <2>2. (s \o t)[Len(s) + i] = t[i]
    BY <1>7
  <2>3. (s \o t)[Len(s) + i] \in ToSet(s \o t)
    BY <2>1, <1>5 DEF ToSet
  <2> QED
    BY <2>2, <2>3
<1>13. ToSet(s) \cup ToSet(t) \subseteq ToSet(s \o t)
  <2>1. ToSet(s) = {s[i] : i \in 1 .. Len(s)} /\ ToSet(t) = {t[i] : i \in 1 .. Len(t)}
    BY <1>3 DEF ToSet
  <2> QED
    BY <2>1, <1>11, <1>12
<1> QED
  BY <1>4, <1>5, <1>6, <1>7, <1>8, <1>10, <1>13

Distinct(columns) ==
    \A i, j \in DOMAIN columns : columns[i].name = columns[j].name => i = j

(* Two lists of columns without a common name concatenate to one without     *)
(* duplicates.                                                               *)
LEMMA DistinctConcatenated ==
    ASSUME NEW s, NEW t, IsList(s), IsList(t)
    PROVE  /\ Names(s \o t) = Names(s) \cup Names(t)
           /\ Distinct(s) /\ Distinct(t) /\ Names(s) \cap Names(t) = {} => Distinct(s \o t)
<1>1. /\ Len(s) \in Nat /\ DOMAIN s = 1 .. Len(s)
      /\ Len(t) \in Nat /\ DOMAIN t = 1 .. Len(t)
  BY ListFacts
<1>2. /\ DOMAIN (s \o t) = 1 .. Len(s) + Len(t)
      /\ \A i \in 1 .. Len(s) : (s \o t)[i] = s[i]
      /\ \A i \in 1 .. Len(t) : (s \o t)[Len(s) + i] = t[i]
      /\ ToSet(s \o t) = ToSet(s) \cup ToSet(t)
  BY Concatenated
<1>3. \A x : Names(x) = {c.name : c \in ToSet(x)}
  BY DEF Names, ToSet
<1>4. Names(s \o t) = Names(s) \cup Names(t)
  BY <1>2, <1>3
<1>5. \A i \in 1 .. Len(s) + Len(t) :
        \/ i \in 1 .. Len(s) /\ (s \o t)[i] = s[i]
        \/ i - Len(s) \in 1 .. Len(t) /\ (s \o t)[i] = t[i - Len(s)]
  <2> TAKE i \in 1 .. Len(s) + Len(t)
  <2>1. CASE i <= Len(s)
    <3>1. i \in 1 .. Len(s)
      BY <2>1, <1>1
    <3> QED
      BY <3>1, <1>2
  <2>2. CASE ~(i <= Len(s))
    <3>1. i - Len(s) \in 1 .. Len(t) /\ i = Len(s) + (i - Len(s))
      BY <2>2, <1>1
    <3>2. (s \o t)[Len(s) + (i - Len(s))] = t[i - Len(s)]
      BY <3>1, <1>2
    <3> QED
      BY <3>1, <3>2
  <2> QED
    BY <2>1, <2>2
<1>6. ASSUME Distinct(s), Distinct(t), Names(s) \cap Names(t) = {},
             NEW i \in DOMAIN (s \o t), NEW j \in DOMAIN (s \o t),
             (s \o t)[i].name = (s \o t)[j].name
      PROVE  i = j
  <2> DEFINE l == Len(s)
  <2>1. i \in 1 .. l + Len(t) /\ j \in 1 .. l + Len(t)
    BY <1>2
  <2>2. \A k \in 1 .. l : s[k].name \in Names(s)
    BY <1>1 DEF Names
  <2>3. \A k \in 1 .. Len(t) : t[k].name \in Names(t)
    BY <1>1 DEF Names
  <2>4. CASE i \in 1 .. l /\ (s \o t)[i] = s[i]
    <3>1. CASE j \in 1 .. l /\ (s \o t)[j] = s[j]
      BY <1>6, <2>4, <3>1, <1>1 DEF Distinct
    <3>2. CASE j - l \in 1 .. Len(t) /\ (s \o t)[j] = t[j - l]
      BY <1>6, <2>4, <3>2, <2>2, <2>3
    <3> QED
      BY <2>1, <3>1, <3>2, <1>5
  <2>5. CASE i - l \in 1 .. Len(t) /\ (s \o t)[i] = t[i - l]
    <3>1. CASE j \in 1 .. l /\ (s \o t)[j] = s[j]
      BY <1>6, <2>5, <3>1, <2>2, <2>3
    <3>2. CASE j - l \in 1 .. Len(t) /\ (s \o t)[j] = t[j - l]
      <4>1. i - l = j - l
        BY <1>6, <2>5, <3>2, <1>1 DEF Distinct
      <4> QED
        BY <4>1, <2>1, <1>1
    <3> QED
      BY <2>1, <3>1, <3>2, <1>5
  <2> QED
    BY <2>1, <2>4, <2>5, <1>5
<1> QED
  BY <1>4, <1>6 DEF Distinct

(* A policy whose fields name different columns, which its derive checks,    *)
(* contributes no name twice.                                                *)
LEMMA DistinctPolicyColumns ==
    ASSUME NEW kind, NEW policy, IsList(policy),
           IsInjective([i \in DOMAIN policy |-> ColumnName(policy[i])])
    PROVE  Distinct(PolicyColumns(kind, policy))
<1>1. /\ DOMAIN PolicyColumns(kind, policy) = DOMAIN policy
      /\ \A i \in DOMAIN policy : PolicyColumns(kind, policy)[i] = PolicyColumn(kind, policy[i])
  BY PolicyColumnsList
<1>2. \A i \in DOMAIN policy : PolicyColumns(kind, policy)[i].name = ColumnName(policy[i])
  BY <1>1 DEF PolicyColumn
<1>3. \A i, j \in DOMAIN policy : ColumnName(policy[i]) = ColumnName(policy[j]) => i = j
  BY DEF IsInjective
<1> QED
  BY <1>1, <1>2, <1>3 DEF Distinct

(* What derive guarantees of the metadata of a declaration it accepts.       *)
PolicySet(m) == ToSet(m.audit) \cup ToSet(m.soft) \cup ToSet(m.tenant)
WellMade(m) ==
    /\ IsList(m.columns) /\ IsList(m.own) /\ IsList(m.key)
    /\ IsList(m.audit) /\ IsList(m.soft) /\ IsList(m.tenant)
    /\ ToSet(m.columns) = ToSet(m.own) \cup PolicySet(m)
    /\ Distinct(m.columns)
    /\ \A c \in ToSet(m.own) :
        /\ c.owner = "entity"
        /\ c.identity => ~c.rowversion
        /\ c.key => ~c.rowversion
        /\ c.insertable <=> ~ServerOwned(c)
        /\ c.updatable <=> ~c.key /\ ~c.rowversion /\ ~c.computed
    /\ \A c \in PolicySet(m) :
        c.key = FALSE /\ c.identity = FALSE /\ c.computed = FALSE /\ c.rowversion = FALSE
    /\ \A c \in ToSet(m.audit) : c.owner = "audit"
    /\ \A c \in ToSet(m.soft) : c.owner = "soft"
    /\ \A c \in ToSet(m.tenant) :
        c.owner = "tenant" /\ ~c.nullable /\ ~c.default /\ ~c.updatable
    /\ m.tenant # <<>> => ToSet(m.tenant) = {m.tenant[1]}
    /\ m.soft # <<>> => m.soft[1] \in ToSet(m.soft)
    /\ ToSet(m.key) = {c \in ToSet(m.own) : c.key}
    /\ m.key # <<>> /\ m.key[1] \in ToSet(m.key)
    /\ Len(m.key) = 1 => ToSet(m.key) = {m.key[1]}
    /\ RowversionColumn(m.columns) = RowversionColumn(m.own)

(* What a declaration must satisfy for derive(Entity) and the policies'      *)
(* derives to report no error: fitting columns, a key, no collision of       *)
(* names, no name twice in a policy, one fitting tenant field.               *)
LEMMA AcceptedDeclaration ==
    ASSUME NEW d, DeriveErrors(d) = {}
    PROVE  /\ \A i \in DOMAIN ColumnFields(d) : ColumnFieldErrors(ColumnFields(d)[i]) = {}
           /\ \E i \in DOMAIN ColumnFields(d) : IsKey(d, ColumnFields(d)[i])
           /\ ~Collisions(Names(OwnColumns(d)), Names(PolicyColumns("audit", d.audit)),
                          Names(PolicyColumns("soft", d.soft)),
                          Names(PolicyColumns("tenant", d.tenant)))
           /\ \A p \in {d.audit, d.soft} : IsInjective([i \in DOMAIN p |-> ColumnName(p[i])])
           /\ d.tenant # <<>> => Len(d.tenant) = 1 /\ TenantFieldFits(d.tenant[1])
<1>1. /\ \A i \in DOMAIN ColumnFields(d) : ColumnFieldErrors(ColumnFields(d)[i]) = {}
      /\ PolicyErrors(d) = {} /\ EntityErrors(d) = {}
  BY DEF DeriveErrors
<1>2. "noKey" \notin EntityErrors(d) /\ "collision" \notin EntityErrors(d)
  BY <1>1
<1>3. "policyDuplicate" \notin PolicyErrors(d) /\ "tenantShape" \notin PolicyErrors(d)
  BY <1>1
<1>4. \E i \in DOMAIN ColumnFields(d) : IsKey(d, ColumnFields(d)[i])
  BY <1>2, Zenon DEF EntityErrors
<1>5. ~Collisions(Names(OwnColumns(d)), Names(PolicyColumns("audit", d.audit)),
                  Names(PolicyColumns("soft", d.soft)), Names(PolicyColumns("tenant", d.tenant)))
  BY <1>2, Zenon DEF EntityErrors
<1>6. \A p \in {d.audit, d.soft} : IsInjective([i \in DOMAIN p |-> ColumnName(p[i])])
  BY <1>3, Zenon DEF PolicyErrors
<1>7. d.tenant # <<>> => Len(d.tenant) = 1 /\ TenantFieldFits(d.tenant[1])
  BY <1>3, Zenon DEF PolicyErrors
<1> QED
  BY <1>1, <1>4, <1>5, <1>6, <1>7

(* Of an accepted declaration the insertable columns are those the server    *)
(* does not own, the updatable ones neither key, rowversion nor computed,    *)
(* and one is a key.                                                         *)
LEMMA OwnColumnsFit ==
    ASSUME NEW d, IsList(d.fields), DeriveErrors(d) = {}
    PROVE  /\ \A c \in ToSet(OwnColumns(d)) :
                /\ c.owner = "entity"
                /\ c.identity => ~c.rowversion
                /\ c.insertable <=> ~ServerOwned(c)
                /\ c.updatable <=> ~c.key /\ ~c.rowversion /\ ~c.computed
           /\ \E c \in ToSet(OwnColumns(d)) : c.key
<1>1. /\ DOMAIN OwnColumns(d) = DOMAIN ColumnFields(d)
      /\ \A i \in DOMAIN OwnColumns(d) : OwnColumns(d)[i] = EntityColumn(d, ColumnFields(d)[i])
  BY OwnColumnsList
<1>2. \A i \in DOMAIN ColumnFields(d) : ColumnFieldErrors(ColumnFields(d)[i]) = {}
  BY AcceptedDeclaration
<1>3. \A i \in DOMAIN ColumnFields(d) :
        LET f == ColumnFields(d)[i]
        IN  (f.identity => f.type \in Integer) /\ (f.rowversion => f.type = "Bytes")
  BY <1>2 DEF ColumnFieldErrors
<1>4. "Bytes" \notin Integer
  BY DEF Integer
<1>5. ASSUME NEW i \in DOMAIN ColumnFields(d)
      PROVE  LET c == OwnColumns(d)[i]
             IN  /\ c.owner = "entity"
                 /\ c.identity => ~c.rowversion
                 /\ c.insertable <=> ~ServerOwned(c)
                 /\ c.updatable <=> ~c.key /\ ~c.rowversion /\ ~c.computed
  <2> DEFINE f == ColumnFields(d)[i]
             c == OwnColumns(d)[i]
  <2>1. c = EntityColumn(d, f)
    BY <1>1
  <2>2. /\ c.owner = "entity" /\ c.identity = f.identity /\ c.rowversion = f.rowversion
        /\ c.computed = f.computed /\ c.key = IsKey(d, f)
        /\ c.insertable = InsertableField(f) /\ c.updatable = UpdatableField(d, f)
    BY <2>1 DEF EntityColumn
  <2>3. f.identity => ~f.rowversion
    BY <1>3, <1>4
  <2>4. c.insertable <=> ~f.identity /\ ~f.rowversion /\ ~f.computed
    BY <2>2 DEF InsertableField
  <2>5. c.updatable <=> ~IsKey(d, f) /\ ~f.rowversion /\ ~f.computed
    BY <2>2 DEF UpdatableField
  <2> HIDE DEF f, c
  <2>6. c.key <=> IsKey(d, f)
    BY <2>2
  <2>7. c.insertable <=> ~ServerOwned(c)
    BY <2>2, <2>4 DEF ServerOwned
  <2>8. c.updatable <=> ~c.key /\ ~c.rowversion /\ ~c.computed
    BY <2>2, <2>5, <2>6
  <2>9. c.owner = "entity" /\ (c.identity => ~c.rowversion)
    BY <2>2, <2>3
  <2> QED
    BY <2>7, <2>8, <2>9 DEF c
<1>6. \E i \in DOMAIN ColumnFields(d) : IsKey(d, ColumnFields(d)[i])
  BY AcceptedDeclaration
<1>7. \E i \in DOMAIN OwnColumns(d) : OwnColumns(d)[i].key
  BY <1>1, <1>6 DEF EntityColumn
<1> QED
  BY <1>1, <1>5, <1>7 DEF ToSet

(* A column that a policy contributes belongs to that policy and is no key,  *)
(* identity, computed or rowversion column.                                  *)
LEMMA PolicyColumnsFit ==
    ASSUME NEW kind, NEW policy, IsList(policy),
           NEW c \in ToSet(PolicyColumns(kind, policy))
    PROVE  /\ c.owner = kind
           /\ c.key = FALSE /\ c.identity = FALSE /\ c.computed = FALSE /\ c.rowversion = FALSE
<1>1. PICK i \in DOMAIN policy : c = PolicyColumn(kind, policy[i])
  BY PolicyColumnsList DEF ToSet
<1> QED
  BY <1>1 DEF PolicyColumn

(* Every column that a policy's derive contributes belongs to that policy    *)
(* and is never a key, an identity, a computed or a rowversion column.       *)
LEMMA PolicyColumnsAre ==
    ASSUME NEW kind, NEW policy, IsList(policy)
    PROVE  \A c \in ToSet(PolicyColumns(kind, policy)) :
             c.owner = kind /\ c.key = FALSE /\ c.identity = FALSE /\ c.computed = FALSE
             /\ c.rowversion = FALSE
<1> TAKE c \in ToSet(PolicyColumns(kind, policy))
<1> QED
  BY PolicyColumnsFit, ZenonT(30)

(* The tenant column of an accepted declaration takes no NULL, has no        *)
(* default and is never updated.                                             *)
LEMMA TenantColumnsFit ==
    ASSUME NEW d, IsList(d.tenant), DeriveErrors(d) = {},
           NEW c \in ToSet(PolicyColumns("tenant", d.tenant))
    PROVE  ~c.nullable /\ ~c.default /\ ~c.updatable
<1>1. PICK i \in DOMAIN d.tenant : c = PolicyColumn("tenant", d.tenant[i])
  BY PolicyColumnsList DEF ToSet
<1>2. d.tenant # <<>> /\ DOMAIN d.tenant = 1 .. Len(d.tenant)
  <2>1. DOMAIN d.tenant = 1 .. Len(d.tenant)
    BY ListFacts
  <2>2. DOMAIN d.tenant # {}
    BY <1>1
  <2>3. DOMAIN <<>> = {}
    OBVIOUS
  <2> QED
    BY <2>1, <2>2, <2>3
<1>3. Len(d.tenant) = 1 /\ TenantFieldFits(d.tenant[1])
  BY <1>2, AcceptedDeclaration
<1>4. c = PolicyColumn("tenant", d.tenant[1])
  BY <1>1, <1>2, <1>3
<1> DEFINE f == d.tenant[1]
<1>5. ~f.option /\ ~f.nullable /\ ~f.default /\ f.updatable = None
  BY <1>3 DEF TenantFieldFits
<1>6. c.updatable = DefaultUpdatable["tenant"]
  BY <1>4, <1>5 DEF PolicyColumn, Optional
<1>7. c.default = f.default
  BY <1>4 DEF PolicyColumn
<1>8. c.nullable <=> f.nullable \/ f.option
  BY <1>4 DEF PolicyColumn
<1> QED
  BY <1>5, <1>6, <1>7, <1>8 DEF DefaultUpdatable

(* primary_key_columns selects the key columns and nothing else.             *)
LEMMA KeyColumnsFit ==
    ASSUME NEW own, IsList(own)
    PROVE  /\ IsList(KeyColumns(own))
           /\ ToSet(KeyColumns(own)) = {c \in ToSet(own) : c.key}
<1> DEFINE at == {i \in DOMAIN own : own[i].key}
<1>1. Len(own) \in Nat /\ at \subseteq 1 .. Len(own)
  BY ListFacts
<1>2. KeyColumns(own) = Those(own, at)
  BY DEF KeyColumns, Where
<1>3. {own[i] : i \in at} = {c \in ToSet(own) : c.key}
  BY DEF ToSet
<1> HIDE DEF at
<1> QED
  BY <1>1, <1>2, <1>3, ThoseFacts

(* Policy columns have no rowversion, so the table's is the entity's.        *)
LEMMA SameRowversion ==
    ASSUME NEW own, NEW more, IsList(own), IsList(more), \A c \in ToSet(more) : c.rowversion = FALSE
    PROVE  RowversionColumn(own \o more) = RowversionColumn(own)
<1> DEFINE all == own \o more
           at(s) == {i \in DOMAIN s : s[i].rowversion}
<1>1. /\ Len(own) \in Nat /\ DOMAIN own = 1 .. Len(own)
      /\ Len(more) \in Nat /\ DOMAIN more = 1 .. Len(more)
  BY ListFacts
<1>2. /\ DOMAIN all = 1 .. Len(own) + Len(more)
      /\ \A i \in 1 .. Len(own) : all[i] = own[i]
      /\ \A i \in 1 .. Len(more) : all[Len(own) + i] = more[i]
  BY Concatenated
<1> HIDE DEF all
<1>3. \A i \in 1 .. Len(more) : more[i].rowversion = FALSE
  BY <1>1 DEF ToSet
<1>4. ASSUME NEW i \in DOMAIN all, i \notin 1 .. Len(own)
      PROVE  all[i].rowversion = FALSE
  <2>1. i - Len(own) \in 1 .. Len(more) /\ i = Len(own) + (i - Len(own))
    BY <1>1, <1>2, <1>4
  <2>2. all[Len(own) + (i - Len(own))] = more[i - Len(own)]
    BY <2>1, <1>2
  <2> QED
    BY <2>1, <2>2, <1>3
<1>5. \A i \in 1 .. Len(own) : i \in DOMAIN all
  BY <1>1, <1>2
<1>6. at(all) = at(own)
  BY <1>1, <1>2, <1>4, <1>5
<1>7. at(own) \subseteq Nat /\ at(own) \subseteq 1 .. Len(own)
  BY <1>1
<1>8. RowversionColumn(all) = FirstAt(all, at(own)) /\ RowversionColumn(own) = FirstAt(own, at(own))
  BY <1>6 DEF RowversionColumn, FirstWhere
<1>9. ASSUME NEW A, A \subseteq 1 .. Len(own)
      PROVE  FirstAt(all, A) = FirstAt(own, A)
  <2> DEFINE first == CHOOSE i \in A : \A j \in A : i <= j
  <2>1. CASE A = {}
    BY <2>1 DEF FirstAt
  <2>2. CASE A # {}
    <3>1. A \subseteq Nat
      BY <1>1, <1>9
    <3>2. first \in A
      BY <3>1, <2>2, LeastIndex
    <3>3. all[first] = own[first]
      <4> HIDE DEF first
      <4> QED
        BY <3>2, <1>2, <1>9
    <3> QED
      BY <3>3, <2>2 DEF FirstAt
  <2> QED
    BY <2>1, <2>2
<1> HIDE DEF at
<1>10. FirstAt(all, at(own)) = FirstAt(own, at(own))
  BY <1>7, <1>9
<1> QED
  BY <1>8, <1>10 DEF all

(* A list of length one holds one element.                                   *)
LEMMA Singleton ==
    ASSUME NEW s, IsList(s), Len(s) = 1
    PROVE  ToSet(s) = {s[1]}
<1>1. DOMAIN s = 1 .. 1
  BY ListFacts
<1>2. 1 .. 1 = {1}
  OBVIOUS
<1> QED
  BY <1>1, <1>2 DEF ToSet

(* The head of a nonempty list is one of its elements.                       *)
LEMMA NotEmpty ==
    ASSUME NEW s, IsList(s), s # <<>>
    PROVE  s[1] \in ToSet(s)
<1>1. Len(s) \in Nat /\ DOMAIN s = 1 .. Len(s) /\ s \in Seq(ToSet(s))
  BY ListFacts
<1>2. Len(s) # 0
  BY <1>1
<1>3. 1 \in DOMAIN s
  BY <1>1, <1>2
<1> QED
  BY <1>3 DEF ToSet

(* A list without elements is the empty list.                                *)
LEMMA EmptyList ==
    ASSUME NEW s, IsList(s), ToSet(s) = {}
    PROVE  s = <<>>
BY NotEmpty

(* The names of a list of columns are those of its elements.                 *)
LEMMA NamesAre ==
    ASSUME NEW s
    PROVE  Names(s) = {c.name : c \in ToSet(s)}
BY DEF Names, ToSet

(* The metadata of a table is what derive generates for a scenario whose     *)
(* declaration it accepts.                                                   *)
LEMMA TheMetadata ==
    ASSUME NEW n \in DOMAIN Entities
    PROVE  LET d == Scenarios[n].decl
           IN  /\ n \in DOMAIN Scenarios /\ DeriveErrors(d) = {}
               /\ Entities[n] =
                    [columns |-> Columns(d), own |-> OwnColumns(d),
                     key |-> KeyColumns(OwnColumns(d)),
                     audit |-> PolicyColumns("audit", d.audit),
                     soft |-> PolicyColumns("soft", d.soft),
                     tenant |-> PolicyColumns("tenant", d.tenant)]
BY DEF Entities

(* The columns of an accepted declaration are the entity's and the three     *)
(* policies', under distinct names, the entity's first.                      *)
LEMMA ColumnsAreDistinct ==
    ASSUME NEW d, IsList(d.fields), IsList(d.audit), IsList(d.soft), IsList(d.tenant),
           DeriveErrors(d) = {}, Distinct(OwnColumns(d))
    PROVE  LET a == PolicyColumns("audit", d.audit)
               s == PolicyColumns("soft", d.soft)
               t == PolicyColumns("tenant", d.tenant)
           IN  /\ IsList(a) /\ IsList(s) /\ IsList(t) /\ IsList(Columns(d))
               /\ ToSet(Columns(d)) = ToSet(OwnColumns(d)) \cup ToSet(a) \cup ToSet(s) \cup ToSet(t)
               /\ Distinct(Columns(d))
               /\ d.tenant # <<>> => Len(t) = 1
               /\ \E more : /\ Columns(d) = OwnColumns(d) \o more /\ IsList(more)
                            /\ ToSet(more) = ToSet(a) \cup ToSet(s) \cup ToSet(t)
<1> DEFINE o == OwnColumns(d)
           a == PolicyColumns("audit", d.audit)
           s == PolicyColumns("soft", d.soft)
           t == PolicyColumns("tenant", d.tenant)
<1>1. IsList(o)
  BY OwnColumnsList
<1>2. IsList(a) /\ DOMAIN a = DOMAIN d.audit /\ IsList(s) /\ DOMAIN s = DOMAIN d.soft
      /\ IsList(t) /\ DOMAIN t = DOMAIN d.tenant
  BY PolicyColumnsList
<1>3. ~Collisions(Names(o), Names(a), Names(s), Names(t))
  BY AcceptedDeclaration
<1>4. /\ Names(o) \cap (Names(a) \cup Names(s) \cup Names(t)) = {}
      /\ Names(s) \cap Names(a) = {} /\ Names(t) \cap Names(a) = {} /\ Names(t) \cap Names(s) = {}
  <2> HIDE DEF o, a, s, t
  <2> QED
    BY <1>3 DEF Collisions
<1>5. Distinct(a) /\ Distinct(s)
  BY AcceptedDeclaration, DistinctPolicyColumns
<1>6. d.tenant # <<>> => Len(d.tenant) = 1
  BY AcceptedDeclaration
<1>7. DOMAIN d.tenant = 1 .. Len(d.tenant) /\ Len(d.tenant) \in Nat
  BY ListFacts
<1>8. DOMAIN t = 1 .. Len(t) /\ Len(t) \in Nat
  BY <1>2, ListFacts
<1>9. d.tenant # <<>> => Len(t) = 1
  BY <1>2, <1>6, <1>7, <1>8
<1>10. Distinct(t)
  <2>1. CASE d.tenant = <<>>
    <3>1. DOMAIN t = {}
      BY <2>1, <1>2
    <3> QED
      BY <3>1 DEF Distinct
  <2>2. CASE d.tenant # <<>>
    BY <2>2, <1>8, <1>9 DEF Distinct
  <2> QED
    BY <2>1, <2>2
<1>11. Columns(d) = ((o \o a) \o s) \o t
  BY DEF Columns
<1> HIDE DEF o, a, s, t
<1>12. IsList(o \o a) /\ ToSet(o \o a) = ToSet(o) \cup ToSet(a)
  BY <1>1, <1>2, Concatenated
<1>13. Names(o \o a) = Names(o) \cup Names(a) /\ Distinct(o \o a)
  BY <1>1, <1>2, <1>4, <1>5, DistinctConcatenated DEF o
<1>14. IsList((o \o a) \o s) /\ ToSet((o \o a) \o s) = ToSet(o) \cup ToSet(a) \cup ToSet(s)
  BY <1>2, <1>12, Concatenated
<1>15. Names((o \o a) \o s) = Names(o) \cup Names(a) \cup Names(s) /\ Distinct((o \o a) \o s)
  BY <1>2, <1>12, <1>4, <1>5, <1>13, DistinctConcatenated
<1>16. IsList(Columns(d)) /\ ToSet(Columns(d)) = ToSet(o) \cup ToSet(a) \cup ToSet(s) \cup ToSet(t)
  BY <1>2, <1>11, <1>14, Concatenated
<1>17. Distinct(Columns(d))
  BY <1>2, <1>14, <1>4, <1>10, <1>11, <1>15, DistinctConcatenated
<1>18. IsList(a \o s) /\ ToSet(a \o s) = ToSet(a) \cup ToSet(s)
  BY <1>2, Concatenated
<1>19. IsList((a \o s) \o t) /\ ToSet((a \o s) \o t) = ToSet(a) \cup ToSet(s) \cup ToSet(t)
  BY <1>2, <1>18, Concatenated
<1>20. Columns(d) = o \o ((a \o s) \o t)
  <2> DEFINE U == ToSet(o) \cup ToSet(a) \cup ToSet(s) \cup ToSet(t)
  <2>1. o \in Seq(ToSet(o)) /\ a \in Seq(ToSet(a)) /\ s \in Seq(ToSet(s)) /\ t \in Seq(ToSet(t))
    BY <1>1, <1>2, ListFacts
  <2>2. o \in Seq(U) /\ a \in Seq(U) /\ s \in Seq(U) /\ t \in Seq(U)
    BY <2>1
  <2> HIDE DEF U, o, a, s, t
  <2>3. (o \o a) \o s = o \o (a \o s) /\ a \o s \in Seq(U)
    BY <2>2, SMTT(30)
  <2>4. (o \o (a \o s)) \o t = o \o ((a \o s) \o t)
    BY <2>2, <2>3
  <2> QED
    BY <2>3, <2>4, <1>11
<1> QED
  BY <1>2, <1>9, <1>16, <1>17, <1>19, <1>20 DEF o, a, s, t

(* The metadata of every accepted declaration is well made: what every later *)
(* proof knows of a table.                                                   *)
LEMMA MetadataWellMade ==
    ASSUME NEW n \in DOMAIN Entities
    PROVE  WellMade(Entities[n])
<1> DEFINE d == Scenarios[n].decl
           m == Entities[n]
           o == OwnColumns(d)
           a == PolicyColumns("audit", d.audit)
           s == PolicyColumns("soft", d.soft)
           t == PolicyColumns("tenant", d.tenant)
<1>1. DeriveErrors(d) = {}
  BY TheMetadata
<1>2. m = [columns |-> Columns(d), own |-> o, key |-> KeyColumns(o), audit |-> a, soft |-> s,
           tenant |-> t]
  BY TheMetadata
<1>3. m.columns = Columns(d) /\ m.own = o /\ m.key = KeyColumns(o)
      /\ m.audit = a /\ m.soft = s /\ m.tenant = t
  BY <1>2
<1>4. IsList(d.fields) /\ IsList(d.audit) /\ IsList(d.soft) /\ IsList(d.tenant)
      /\ TableFits(Scenarios[n], m)
  BY ScenarioAssumption
<1>5. Distinct(o) /\ \A i \in DOMAIN o : ~(o[i].key /\ o[i].rowversion)
  <2> HIDE DEF m, o
  <2> QED
    BY <1>3, <1>4 DEF TableFits, Distinct
<1>6. IsList(o)
  BY <1>4, OwnColumnsList
<1>7. /\ \A c \in ToSet(o) :
           /\ c.owner = "entity"
           /\ c.identity => ~c.rowversion
           /\ c.insertable <=> ~ServerOwned(c)
           /\ c.updatable <=> ~c.key /\ ~c.rowversion /\ ~c.computed
      /\ \E c \in ToSet(o) : c.key
  BY <1>1, <1>4, OwnColumnsFit
<1>8. \A c \in ToSet(a) :
        c.owner = "audit" /\ c.key = FALSE /\ c.identity = FALSE /\ c.computed = FALSE
        /\ c.rowversion = FALSE
  BY <1>4, PolicyColumnsAre, ZenonT(30)
<1>9. \A c \in ToSet(s) :
        c.owner = "soft" /\ c.key = FALSE /\ c.identity = FALSE /\ c.computed = FALSE
        /\ c.rowversion = FALSE
  BY <1>4, PolicyColumnsAre, ZenonT(30)
<1>10. \A c \in ToSet(t) :
        c.owner = "tenant" /\ c.key = FALSE /\ c.identity = FALSE /\ c.computed = FALSE
        /\ c.rowversion = FALSE
  BY <1>4, PolicyColumnsAre, ZenonT(30)
<1>11. \A c \in ToSet(t) : ~c.nullable /\ ~c.default /\ ~c.updatable
  BY <1>1, <1>4, TenantColumnsFit
<1>12. IsList(a) /\ IsList(s) /\ IsList(t) /\ IsList(Columns(d))
  BY <1>1, <1>4, <1>5, ColumnsAreDistinct
<1>13. ToSet(Columns(d)) = ToSet(o) \cup ToSet(a) \cup ToSet(s) \cup ToSet(t)
  BY <1>1, <1>4, <1>5, ColumnsAreDistinct
<1>14. Distinct(Columns(d)) /\ (d.tenant # <<>> => Len(t) = 1)
  BY <1>1, <1>4, <1>5, ColumnsAreDistinct
<1>15. PICK more : /\ Columns(d) = o \o more /\ IsList(more)
                   /\ ToSet(more) = ToSet(a) \cup ToSet(s) \cup ToSet(t)
  BY <1>1, <1>4, <1>5, ColumnsAreDistinct
<1>16. IsList(KeyColumns(o)) /\ ToSet(KeyColumns(o)) = {c \in ToSet(o) : c.key}
  BY <1>6, KeyColumnsFit
<1>17. t # <<>> => d.tenant # <<>>
  BY DEF PolicyColumns
<1> HIDE DEF d, m, o, a, s, t
<1>18. \A c \in ToSet(more) : c.rowversion = FALSE
  BY <1>8, <1>9, <1>10, <1>15
<1>19. RowversionColumn(Columns(d)) = RowversionColumn(o)
  BY <1>6, <1>15, <1>18, SameRowversion
<1>20. t # <<>> => ToSet(t) = {t[1]}
  BY <1>12, <1>14, <1>17, Singleton
<1>21. s # <<>> => s[1] \in ToSet(s)
  BY <1>12, NotEmpty
<1>22. KeyColumns(o) # <<>>
  <2>1. ToSet(KeyColumns(o)) # {}
    BY <1>7, <1>16
  <2>2. ToSet(<<>>) = {}
    BY DEF ToSet
  <2> QED
    BY <2>1, <2>2
<1>23. KeyColumns(o)[1] \in ToSet(KeyColumns(o))
  BY <1>16, <1>22, NotEmpty
<1>24. Len(KeyColumns(o)) = 1 => ToSet(KeyColumns(o)) = {KeyColumns(o)[1]}
  BY <1>16, Singleton
<1>25. \A c \in ToSet(o) : c.key => ~c.rowversion
  BY <1>5 DEF ToSet
<1>26. PolicySet(m) = ToSet(a) \cup ToSet(s) \cup ToSet(t)
  BY <1>3 DEF PolicySet
<1>27. \A c \in PolicySet(m) :
         c.key = FALSE /\ c.identity = FALSE /\ c.computed = FALSE /\ c.rowversion = FALSE
  BY <1>8, <1>9, <1>10, <1>26
<1>28. \A c \in ToSet(m.own) :
        /\ c.owner = "entity"
        /\ c.identity => ~c.rowversion
        /\ c.key => ~c.rowversion
        /\ c.insertable <=> ~ServerOwned(c)
        /\ c.updatable <=> ~c.key /\ ~c.rowversion /\ ~c.computed
  BY <1>3, <1>7, <1>25
<1>29. ToSet(m.columns) = ToSet(m.own) \cup PolicySet(m)
  BY <1>3, <1>13, <1>26
<1>30. /\ \A c \in ToSet(m.audit) : c.owner = "audit"
       /\ \A c \in ToSet(m.soft) : c.owner = "soft"
       /\ \A c \in ToSet(m.tenant) :
            c.owner = "tenant" /\ ~c.nullable /\ ~c.default /\ ~c.updatable
  BY <1>3, <1>8, <1>9, <1>10, <1>11
<1>31. /\ m.tenant # <<>> => ToSet(m.tenant) = {m.tenant[1]}
       /\ m.soft # <<>> => m.soft[1] \in ToSet(m.soft)
       /\ ToSet(m.key) = {c \in ToSet(m.own) : c.key}
       /\ m.key # <<>> /\ m.key[1] \in ToSet(m.key)
       /\ Len(m.key) = 1 => ToSet(m.key) = {m.key[1]}
       /\ RowversionColumn(m.columns) = RowversionColumn(m.own)
  BY <1>3, <1>16, <1>19, <1>20, <1>21, <1>22, <1>23, <1>24
<1>32. IsList(m.columns) /\ IsList(m.own) /\ IsList(m.key) /\ IsList(m.audit) /\ IsList(m.soft)
       /\ IsList(m.tenant) /\ Distinct(m.columns)
  BY <1>3, <1>6, <1>12, <1>14, <1>16
<1>33. WellMade(m)
  BY <1>27, <1>28, <1>29, <1>30, <1>31, <1>32, Zenon DEF WellMade
<1> QED
  BY <1>33 DEF m

-----------------------------------------------------------------------------
(* Looking up columns and values                                             *)

(* Looking a known name up finds a column of that name.                      *)
LEMMA ColumnLookup ==
    ASSUME NEW columns, NEW name, IsList(columns), name \in Names(columns)
    PROVE  /\ ColumnNamed(columns, name) \in ToSet(columns)
           /\ ColumnNamed(columns, name).name = name
<1> DEFINE at == {i \in DOMAIN columns : columns[i].name = name}
<1>1. Len(columns) \in Nat /\ DOMAIN columns = 1 .. Len(columns)
  BY ListFacts
<1>2. at \subseteq Nat /\ at # {}
  BY <1>1 DEF Names
<1>3. \A i \in at : i \in DOMAIN columns /\ columns[i].name = name
  OBVIOUS
<1>4. ColumnNamed(columns, name) = FirstAt(columns, at)
  BY DEF ColumnNamed, FirstWhere
<1> HIDE DEF at
<1>5. PICK i \in at : FirstAt(columns, at) = columns[i]
  BY <1>2, FirstAtFacts
<1> QED
  BY <1>3, <1>4, <1>5 DEF ToSet

(* In metadata without duplicates a column is found under its own name.      *)
LEMMA TheColumn ==
    ASSUME NEW columns, IsList(columns), Distinct(columns), NEW c \in ToSet(columns)
    PROVE  c.name \in Names(columns) /\ ColumnNamed(columns, c.name) = c
<1>1. c.name \in Names(columns)
  BY NamesAre
<1>2. PICK i \in DOMAIN columns : c = columns[i]
  BY DEF ToSet
<1>3. PICK j \in DOMAIN columns : ColumnNamed(columns, c.name) = columns[j]
  BY <1>1, ColumnLookup DEF ToSet
<1>4. columns[j].name = columns[i].name
  BY <1>1, <1>2, <1>3, ColumnLookup
<1> QED
  BY <1>1, <1>2, <1>3, <1>4 DEF Distinct

(* The rowversion column, when there is one, is a column marked as such.     *)
LEMMA TheRowversion ==
    ASSUME NEW columns, IsList(columns), RowversionColumn(columns) # None
    PROVE  /\ RowversionColumn(columns) \in ToSet(columns)
           /\ RowversionColumn(columns).rowversion
<1> DEFINE at == {i \in DOMAIN columns : columns[i].rowversion}
<1>1. Len(columns) \in Nat /\ DOMAIN columns = 1 .. Len(columns)
  BY ListFacts
<1>2. at \subseteq Nat
  BY <1>1
<1>3. \A i \in at : i \in DOMAIN columns /\ columns[i].rowversion
  OBVIOUS
<1>4. RowversionColumn(columns) = FirstAt(columns, at)
  BY DEF RowversionColumn, FirstWhere
<1> HIDE DEF at
<1>5. at # {}
  BY <1>4 DEF FirstAt
<1>6. PICK i \in at : FirstAt(columns, at) = columns[i]
  BY <1>2, <1>5, FirstAtFacts
<1> QED
  BY <1>3, <1>4, <1>6 DEF ToSet

(* A list of values names a column when one of its elements does.            *)
LEMMA NamedIs ==
    ASSUME NEW values, NEW name
    PROVE  Named(values, name) <=> \E v \in ToSet(values) : v.column = name
BY DEF Named, ToSet

(* The value found for a named column is that of one of the list's elements. *)
LEMMA ValueLookup ==
    ASSUME NEW values, NEW name, IsList(values), Named(values, name)
    PROVE  \E v \in ToSet(values) : v.column = name /\ ValueOf(values, name) = v.value
<1> DEFINE at == {i \in DOMAIN values : values[i].column = name}
<1>1. Len(values) \in Nat /\ DOMAIN values = 1 .. Len(values)
  BY ListFacts
<1>2. at \subseteq Nat /\ at # {}
  BY <1>1 DEF Named
<1>3. \A i \in at : i \in DOMAIN values /\ values[i].column = name
  OBVIOUS
<1>4. ValueOf(values, name) = FirstAt(values, at).value
  BY DEF ValueOf, FirstWhere
<1> HIDE DEF at
<1>5. PICK i \in at : FirstAt(values, at) = values[i]
  BY <1>2, FirstAtFacts
<1> QED
  BY <1>3, <1>4, <1>5 DEF ToSet

(* In a list without duplicates every element is the value found for its     *)
(* column.                                                                   *)
LEMMA TheValue ==
    ASSUME NEW values, IsList(values), NoDuplicates(values), NEW v \in ToSet(values)
    PROVE  Named(values, v.column) /\ ValueOf(values, v.column) = v.value
<1>1. Named(values, v.column)
  BY NamedIs
<1>2. PICK w \in ToSet(values) : w.column = v.column /\ ValueOf(values, v.column) = w.value
  BY <1>1, ValueLookup
<1>3. \A i, j \in DOMAIN values : values[i].column = values[j].column => i = j
  BY DEF NoDuplicates, IsInjective
<1>4. v = w
  BY <1>2, <1>3 DEF ToSet
<1> QED
  BY <1>1, <1>2, <1>4

(* append_missing keeps the values it is given and adds those of known       *)
(* columns that are not among them: the precedence of audit values.          *)
LEMMA Appended ==
    ASSUME NEW columns, NEW values, NEW more, IsList(values), IsList(more)
    PROVE  /\ IsList(AppendMissing(columns, values, more))
           /\ ToSet(AppendMissing(columns, values, more)) =
                ToSet(values) \cup {v \in ToSet(more) :
                    v.column \in Names(columns) /\ ~Named(values, v.column)}
<1> DEFINE at == {i \in DOMAIN more :
                    more[i].column \in Names(columns) /\ ~Named(values, more[i].column)}
           kept == Those(more, at)
<1>1. Len(more) \in Nat /\ at \subseteq 1 .. Len(more)
  BY ListFacts
<1>2. AppendMissing(columns, values, more) = values \o kept
  BY DEF AppendMissing, Where
<1>3. {more[i] : i \in at} =
        {v \in ToSet(more) : v.column \in Names(columns) /\ ~Named(values, v.column)}
  BY DEF ToSet
<1> HIDE DEF at
<1>4. IsList(kept) /\ ToSet(kept) = {more[i] : i \in at}
  BY <1>1, ThoseFacts
<1> HIDE DEF kept
<1>5. IsList(values \o kept) /\ ToSet(values \o kept) = ToSet(values) \cup ToSet(kept)
  BY <1>4, Concatenated
<1> QED
  BY <1>2, <1>3, <1>4, <1>5

(* Mapping a list gives a list of its length.                                *)
LEMMA SameLength ==
    ASSUME NEW s, IsList(s), NEW t, t = [i \in DOMAIN s |-> t[i]]
    PROVE  IsList(t) /\ DOMAIN t = DOMAIN s
<1>1. Len(s) \in Nat /\ DOMAIN s = 1 .. Len(s)
  BY ListFacts
<1>2. DOMAIN t = 1 .. Len(s) /\ t = [i \in 1 .. Len(s) |-> t[i]]
  BY <1>1
<1>3. Len(t) = Len(s)
  BY <1>1, <1>2
<1> QED
  BY <1>1, <1>2, <1>3 DEF IsList

(* The values of an insertable are those of its fields, each under the name  *)
(* of the column it resolves to.                                             *)
LEMMA InsertableValuesAre ==
    ASSUME NEW columns, NEW given, IsList(given)
    PROVE  /\ IsList(InsertableValues(columns, given))
           /\ ToSet(InsertableValues(columns, given)) =
                {ColumnValue(Resolved(columns, f).name, f.value) : f \in ToSet(given)}
<1> DEFINE values == InsertableValues(columns, given)
<1>1. values = [i \in DOMAIN given |-> ColumnValue(Resolved(columns, given[i]).name, given[i].value)]
  BY DEF InsertableValues
<1> HIDE DEF values
<1>2. IsList(values) /\ DOMAIN values = DOMAIN given
  BY <1>1, SameLength
<1>3. \A i \in DOMAIN given :
        values[i] = ColumnValue(Resolved(columns, given[i]).name, given[i].value)
  BY <1>1
<1>4. ToSet(values) = {ColumnValue(Resolved(columns, f).name, f.value) : f \in ToSet(given)}
  BY <1>2, <1>3 DEF ToSet
<1> QED
  BY <1>2, <1>4 DEF values

(* The changes of a changeset are its fields that have a value and resolve   *)
(* to an updatable column.                                                   *)
LEMMA ChangesetChangesAre ==
    ASSUME NEW columns, NEW given, IsList(given)
    PROVE  /\ IsList(ChangesetChanges(columns, given))
           /\ ToSet(ChangesetChanges(columns, given)) =
                {ColumnValue(Resolved(columns, f).name, f.value) :
                    f \in {f \in ToSet(given) :
                            f.value # None /\ Resolved(columns, f).updatable}}
<1> DEFINE at == {i \in DOMAIN given :
                    given[i].value # None /\ Resolved(columns, given[i]).updatable}
           kept == Those(given, at)
<1>1. Len(given) \in Nat /\ at \subseteq 1 .. Len(given)
  BY ListFacts
<1>2. ChangesetChanges(columns, given) = InsertableValues(columns, kept)
  BY DEF ChangesetChanges, Where
<1>3. {given[i] : i \in at} =
        {f \in ToSet(given) : f.value # None /\ Resolved(columns, f).updatable}
  BY DEF ToSet
<1> HIDE DEF at
<1>4. IsList(kept) /\ ToSet(kept) = {given[i] : i \in at}
  BY <1>1, ThoseFacts
<1> HIDE DEF kept
<1> QED
  BY <1>2, <1>3, <1>4, InsertableValuesAre

(* What save inserts are the object's values of the entity's insertable      *)
(* columns.                                                                  *)
LEMMA InsertValuesAre ==
    ASSUME NEW own, NEW object, IsList(own)
    PROVE  /\ IsList(InsertValues(own, object))
           /\ ToSet(InsertValues(own, object)) =
                {ColumnValue(c.name, object[c.name]) : c \in {c \in ToSet(own) : c.insertable}}
<1> DEFINE at == {i \in DOMAIN own : own[i].insertable}
           kept == Those(own, at)
           values == InsertValues(own, object)
<1>1. Len(own) \in Nat /\ at \subseteq 1 .. Len(own)
  BY ListFacts
<1>2. values = [i \in DOMAIN kept |-> ColumnValue(kept[i].name, object[kept[i].name])]
  BY DEF InsertValues, ValuesWhere, Where
<1>3. {own[i] : i \in at} = {c \in ToSet(own) : c.insertable}
  BY DEF ToSet
<1> HIDE DEF at, values
<1>4. IsList(kept) /\ ToSet(kept) = {own[i] : i \in at}
  BY <1>1, ThoseFacts
<1> HIDE DEF kept
<1>5. IsList(values) /\ DOMAIN values = DOMAIN kept
  BY <1>2, <1>4, SameLength
<1>6. \A i \in DOMAIN kept : values[i] = ColumnValue(kept[i].name, object[kept[i].name])
  BY <1>2
<1>7. ToSet(values) = {ColumnValue(c.name, object[c.name]) : c \in ToSet(kept)}
  BY <1>5, <1>6 DEF ToSet
<1> QED
  BY <1>3, <1>4, <1>5, <1>7 DEF values

(* What save updates are the object's values of the entity's updatable       *)
(* columns.                                                                  *)
LEMMA UpdateChangesAre ==
    ASSUME NEW own, NEW object, IsList(own)
    PROVE  /\ IsList(UpdateChanges(own, object))
           /\ ToSet(UpdateChanges(own, object)) =
                {ColumnValue(c.name, object[c.name]) : c \in {c \in ToSet(own) : c.updatable}}
<1> DEFINE at == {i \in DOMAIN own : own[i].updatable}
           kept == Those(own, at)
           values == UpdateChanges(own, object)
<1>1. Len(own) \in Nat /\ at \subseteq 1 .. Len(own)
  BY ListFacts
<1>2. values = [i \in DOMAIN kept |-> ColumnValue(kept[i].name, object[kept[i].name])]
  BY DEF UpdateChanges, ValuesWhere, Where
<1>3. {own[i] : i \in at} = {c \in ToSet(own) : c.updatable}
  BY DEF ToSet
<1> HIDE DEF at, values
<1>4. IsList(kept) /\ ToSet(kept) = {own[i] : i \in at}
  BY <1>1, ThoseFacts
<1> HIDE DEF kept
<1>5. IsList(values) /\ DOMAIN values = DOMAIN kept
  BY <1>2, <1>4, SameLength
<1>6. \A i \in DOMAIN kept : values[i] = ColumnValue(kept[i].name, object[kept[i].name])
  BY <1>2
<1>7. ToSet(values) = {ColumnValue(c.name, object[c.name]) : c \in ToSet(kept)}
  BY <1>5, <1>6 DEF ToSet
<1> QED
  BY <1>3, <1>4, <1>5, <1>7 DEF values

(* A list of values, each of which is there.                                 *)
Valued(values) == IsList(values) /\ \A v \in ToSet(values) : v.value # None

(* Values of a request or a provider are a list of present values.           *)
LEMMA ValuedIs ==
    ASSUME NEW values, AreValues(values)
    PROVE  Valued(values)
BY DEF AreValues, Valued, ToSet

(* append_missing of present values gives present values.                    *)
LEMMA ValuedAppended ==
    ASSUME NEW columns, NEW values, NEW more, Valued(values), Valued(more)
    PROVE  Valued(AppendMissing(columns, values, more))
BY Appended DEF Valued

(* The audit policy adds present values only, refuses duplicates among the   *)
(* caller's, and keeps each of the caller's.                                 *)
LEMMA AuditValued ==
    ASSUME NEW op \in {"insert", "update"}, NEW values, Valued(values),
           NEW audit, AreValues(audit.request), AreValues(audit.provider[op]),
           ApplyAuditValues(op, values, audit).ok
    PROVE  /\ Valued(ApplyAuditValues(op, values, audit).value)
           /\ NoDuplicates(values)
           /\ \A v \in ToSet(values) : v \in ToSet(ApplyAuditValues(op, values, audit).value)
<1> DEFINE s == ApplyAuditValues(op, values, audit)
           first == AppendMissing(AuditColumns, values, audit.request)
           second == AppendMissing(AuditColumns, first, audit.provider[op])
<1>1. NoDuplicates(values) /\ (s = Ok(values) \/ s = Ok(second))
  BY DEF ApplyAuditValues, Compile
<1>2. Valued(audit.request) /\ Valued(audit.provider[op])
  BY ValuedIs
<1>3. Valued(first) /\ ToSet(values) \subseteq ToSet(first)
  BY <1>2, ValuedAppended, Appended DEF Valued
<1>4. Valued(second) /\ ToSet(first) \subseteq ToSet(second)
  <2> HIDE DEF first
  <2> QED
    BY <1>2, <1>3, ValuedAppended, Appended DEF Valued
<1>5. Ok(values).value = values /\ Ok(second).value = second
  BY DEF Ok
<1> HIDE DEF s, first, second
<1> QED
  BY <1>1, <1>3, <1>4, <1>5 DEF s

(* The values of a soft delete are a list of present values.                 *)
LEMMA SoftValued ==
    ASSUME NEW soft, AreValues(soft.request), AreValues(soft.provider),
           ApplySoftDeleteValues(soft).ok
    PROVE  Valued(ApplySoftDeleteValues(soft).value)
<1> DEFINE first == AppendMissing(SoftColumns, <<>>, soft.request)
           values == first \o soft.provider
<1>1. ApplySoftDeleteValues(soft) = Ok(values)
  BY DEF ApplySoftDeleteValues, Compile
<1>2. Valued(<<>>)
  <2>1. DOMAIN <<>> = {} /\ <<>> \in Seq({})
    OBVIOUS
  <2>2. IsList(<<>>)
    BY <2>1, SequenceIsList
  <2> QED
    BY <2>1, <2>2 DEF Valued, ToSet
<1>3. Valued(soft.request) /\ Valued(soft.provider)
  BY ValuedIs
<1>4. Valued(first)
  BY <1>2, <1>3, ValuedAppended
<1> HIDE DEF first
<1>5. Valued(values)
  BY <1>3, <1>4, Concatenated DEF Valued
<1> HIDE DEF values
<1> QED
  BY <1>1, <1>5 DEF Ok

-----------------------------------------------------------------------------
(* The inductive invariant                                                   *)

TheTable == scenario \in DOMAIN Entities /\ meta = Entities[scenario]
HandsOut ==
    /\ next = [id |-> next.id, version |-> next.version]
    /\ next.id \in Nat /\ next.version \in Nat
    /\ FirstIssued <= next.id /\ FirstIssued <= next.version

(* A rowversion, and an identity, that a row holds was handed out before.    *)
RowFits(m, row, id, version) ==
    /\ DOMAIN row = Names(m.columns)
    /\ \A c \in ToSet(m.columns) :
        /\ row[c.name] # None
        /\ row[c.name] = Null => c.nullable
        /\ c.rowversion => row[c.name] \in 0 .. version - 1
        /\ c.identity => row[c.name] \in 0 .. id - 1
Rows ==
    /\ \A r \in db : RowFits(meta, r, next.id, next.version)
    /\ \A r, s \in db : SameKey(r, s) => r = s

ObjectFits(m, object, version) ==
    /\ DOMAIN object = Names(m.own)
    /\ \A c \in ToSet(m.own) :
        /\ object[c.name] # None
        /\ c.rowversion => object[c.name] \in 0 .. version - 1
Objects ==
    /\ entity = [c \in Clients |-> entity[c]]
    /\ \A c \in Clients : entity[c] # None => ObjectFits(meta, entity[c], next.version)

(* The rows that a recheck looks for.  They have another version than the    *)
(* token that missed: a version is never handed out twice.                   *)
Reaches(m, tenant, key, row) ==
    row[m.key[1].name] = key /\ (m.tenant # <<>> => row[m.tenant[1].name] = tenant.value)
Outdated(m, tenant, rows, version, key, token) ==
    /\ token \in 0 .. version - 1
    /\ \A r \in rows : Reaches(m, tenant, key, r) => r[RowversionColumn(m.columns).name] # token
Versioned(c) == Len(PrimaryKey) = 1 /\ (Scoped => TenantFits(c)) /\ Rowversion # None
Goes(m, object) == object # None /\ Len(m.key) = 1 /\ ~m.key[1].identity
Calls ==
    /\ call = [c \in Clients |-> call[c]]
    /\ \A c \in Clients : call[c] # None =>
        \/ call[c].then \in {"insert", "update"} /\ Goes(meta, entity[c])
        \/ /\ call[c].then = "recheck" /\ Versioned(c)
           /\ Outdated(meta, ActiveTenant(c), db, next.version, call[c].key, call[c].token)

Busy == {c \in Clients : call[c] # None}
Going == {c \in Clients : call[c] # None /\ call[c].then \in {"insert", "update"}}
Bounded ==
    steps \in Nat
    /\ steps + Cardinality(Busy) + Cardinality(Going) <= MaxSteps + 2 * Cardinality(Clients)

Inv == TheTable /\ HandsOut /\ Rows /\ Objects /\ Calls /\ Bounded

-----------------------------------------------------------------------------
(* What the server makes of a write                                          *)

(* The metadata the run works on is well made.                               *)
LEMMA TableWellMade ==
    ASSUME TheTable
    PROVE  WellMade(meta)
BY MetadataWellMade DEF TheTable

(* A column of the table is found under its name, which no other column has. *)
LEMMA AColumn ==
    ASSUME WellMade(meta), NEW c \in ToSet(AllColumns)
    PROVE  /\ c.name \in Names(AllColumns) /\ ColumnNamed(AllColumns, c.name) = c
           /\ \A d \in ToSet(AllColumns) : d.name = c.name => d = c
<1>1. IsList(AllColumns) /\ Distinct(AllColumns)
  BY DEF WellMade, AllColumns
<1> QED
  BY <1>1, TheColumn

(* No identity and no key of a well-made table is its rowversion.            *)
LEMMA ColumnKinds ==
    ASSUME WellMade(meta), NEW c \in ToSet(AllColumns)
    PROVE  /\ c.identity => ~c.rowversion
           /\ c.key => ~c.rowversion
BY DEF WellMade, AllColumns

(* What the server stores for a column of an INSERT: its own version,        *)
(* identity or computed value, else the given value, the default or NULL.    *)
LEMMA InsertedIs ==
    ASSUME WellMade(meta), NEW values, NEW c \in ToSet(AllColumns)
    PROVE  /\ DOMAIN Inserted(values) = Names(AllColumns)
           /\ Inserted(values)[c.name] =
                IF c.rowversion THEN next.version ELSE IF c.identity THEN next.id
                ELSE IF c.computed THEN "computed"
                ELSE IF Named(values, c.name) THEN ValueOf(values, c.name)
                ELSE IF c.default THEN DefaultOf(c) ELSE Null
<1>1. c.name \in Names(AllColumns) /\ ColumnNamed(AllColumns, c.name) = c
  BY AColumn
<1> QED
  BY <1>1 DEF Inserted

(* What the server stores for a column of an UPDATE: a new version, the      *)
(* assigned value, or what was there.                                        *)
LEMMA ChangedIs ==
    ASSUME WellMade(meta), NEW changes, NEW row, DOMAIN row = Names(AllColumns)
    PROVE  /\ DOMAIN Changed(row, changes) = Names(AllColumns)
           /\ \A c \in ToSet(AllColumns) : Changed(row, changes)[c.name] =
                IF c.rowversion THEN next.version
                ELSE IF Named(changes, c.name) THEN ValueOf(changes, c.name) ELSE row[c.name]
BY AColumn DEF Changed

-----------------------------------------------------------------------------
(* The statements that are sent                                              *)

(* A client's tenant, request and provider values fit the table of the       *)
(* scenario.                                                                 *)
LEMMA TheContext ==
    ASSUME TheTable, NEW c \in Clients
    PROVE  /\ ContextFits(model.runtime[c])
           /\ ActiveTenant(c) # None => ActiveTenant(c).value # None
           /\ \A op \in {"insert", "update"} :
                AreValues(model.runtime[c].audit.request)
                /\ AreValues(model.runtime[c].audit.provider[op])
           /\ AreValues(model.runtime[c].soft.request) /\ AreValues(model.runtime[c].soft.provider)
<1>1. ContextFits(model.runtime[c])
  BY ScenarioAssumption DEF TheTable, model
<1> QED
  BY <1>1 DEF ContextFits, ActiveTenant

(* The tenant column of a table that has one is a plain column that updates  *)
(* never assign.                                                             *)
LEMMA TenantOfTable ==
    ASSUME WellMade(meta), Scoped
    PROVE  /\ TenantColumn \in ToSet(AllColumns) /\ TenantColumn.owner = "tenant"
           /\ TenantColumn.key = FALSE /\ TenantColumn.rowversion = FALSE
           /\ TenantColumn.identity = FALSE /\ TenantColumn.computed = FALSE
           /\ ~TenantColumn.updatable
<1>1. TenantColumn \in ToSet(meta.tenant)
  BY DEF WellMade, Scoped, TenantColumn
<1>2. TenantColumn \in PolicySet(meta)
  BY <1>1 DEF PolicySet
<1> QED
  BY <1>1, <1>2 DEF WellMade, AllColumns

(* The insert's tenant step keeps the given values, adds at most the         *)
(* tenant's, and lets a statement through only when the tenant column holds  *)
(* the active tenant.                                                        *)
LEMMA TenantValued ==
    ASSUME NEW c, ActiveTenant(c) # None => ActiveTenant(c).value # None,
           NEW values, Valued(values), TenantInsertValues(c, values).ok
    PROVE  LET all == TenantInsertValues(c, values).value
           IN  /\ Valued(all) /\ ToSet(values) \subseteq ToSet(all)
               /\ \A v \in ToSet(all) :
                    v \in ToSet(values) \/ (Scoped /\ v.column = TenantColumn.name)
               /\ Scoped => /\ TenantFits(c) /\ Named(all, TenantColumn.name)
                            /\ \A v \in ToSet(all) : v.column = TenantColumn.name =>
                                    v.value = ActiveTenant(c).value
<1> DEFINE given == {i \in DOMAIN values : values[i].column = TenantColumn.name}
           own == ColumnValue(TenantColumn.name, ActiveTenant(c).value)
           all == TenantInsertValues(c, values).value
<1>1. CASE ~Scoped
  BY <1>1 DEF TenantInsertValues, Ok
<1>2. CASE Scoped /\ given = {}
  <2>1. TenantFits(c) /\ all = Append(values, own)
    BY <1>2 DEF TenantInsertValues, Compile, Ok
  <2>2. ActiveTenant(c).value # None
    BY <2>1 DEF TenantFits
  <2>3. own.column = TenantColumn.name /\ own.value = ActiveTenant(c).value
    BY DEF ColumnValue
  <2>4. IsList(values) /\ values \in Seq(ToSet(values))
    BY ListFacts DEF Valued
  <2>5. IsList(<<own>>) /\ ToSet(<<own>>) = {own}
    <3> HIDE DEF own
    <3>1. <<own>> \in Seq({own}) /\ DOMAIN <<own>> = {1} /\ <<own>>[1] = own
      OBVIOUS
    <3>2. IsList(<<own>>)
      BY <3>1, SequenceIsList
    <3> QED
      BY <3>1, <3>2 DEF ToSet
  <2>6. Append(values, own) = values \o <<own>>
    <3> HIDE DEF own
    <3>1. values \in Seq(ToSet(values) \cup {own})
      BY <2>4
    <3> QED
      BY <3>1
  <2>7. \A v \in ToSet(values) : v.column # TenantColumn.name
    BY <1>2 DEF ToSet
  <2> HIDE DEF own, all, given
  <2>8. IsList(all) /\ ToSet(all) = ToSet(values) \cup {own}
    BY <2>1, <2>4, <2>5, <2>6, Concatenated
  <2>9. Valued(all)
    BY <2>2, <2>3, <2>8 DEF Valued
  <2>10. Named(all, TenantColumn.name)
    BY <2>3, <2>8, NamedIs
  <2> QED
    BY <1>2, <2>1, <2>3, <2>7, <2>8, <2>9, <2>10 DEF all
<1>3. CASE Scoped /\ given # {}
  <2>1. TenantFits(c) /\ all = values /\ \A i \in given : values[i].value = ActiveTenant(c).value
    BY <1>3 DEF TenantInsertValues, Compile, Ok
  <2>2. Named(values, TenantColumn.name)
    BY <1>3 DEF Named
  <2>3. \A v \in ToSet(values) : v.column = TenantColumn.name => v.value = ActiveTenant(c).value
    BY <2>1 DEF ToSet
  <2> QED
    BY <1>3, <2>1, <2>2, <2>3
<1> QED
  BY <1>1, <1>2, <1>3

ValuesFit(values) ==
    /\ Valued(values) /\ NoDuplicates(values)
    /\ \A v \in ToSet(values) : \E d \in ToSet(AllColumns) : d.name = v.column /\ InsertColumnFits(d)
ChangesFit(changes) ==
    /\ Valued(changes) /\ NoDuplicates(changes)
    /\ \A v \in ToSet(changes) : \E d \in ToSet(AllColumns) : d.name = v.column /\ UpdateColumnFits(d)

(* An INSERT the compiler accepts assigns distinct insertable columns of the *)
(* table.                                                                    *)
LEMMA CompiledInsert ==
    ASSUME WellMade(meta), NEW values, Valued(values), Compiles(values, InsertColumnFits)
    PROVE  ValuesFit(values)
<1>1. NoDuplicates(values) /\ \A v \in ToSet(values) :
        v.column \in Names(AllColumns) /\ InsertColumnFits(ColumnNamed(AllColumns, v.column))
  BY DEF Compiles, ToSet
<1>2. IsList(AllColumns)
  BY DEF WellMade, AllColumns
<1> QED
  BY <1>1, <1>2, ColumnLookup DEF ValuesFit

(* An UPDATE the compiler accepts assigns distinct updatable columns of the  *)
(* table.                                                                    *)
LEMMA CompiledUpdate ==
    ASSUME WellMade(meta), NEW values, Valued(values), Compiles(values, UpdateColumnFits)
    PROVE  ChangesFit(values)
<1>1. NoDuplicates(values) /\ \A v \in ToSet(values) :
        v.column \in Names(AllColumns) /\ UpdateColumnFits(ColumnNamed(AllColumns, v.column))
  BY DEF Compiles, ToSet
<1>2. IsList(AllColumns)
  BY DEF WellMade, AllColumns
<1> QED
  BY <1>1, <1>2, ColumnLookup DEF ChangesFit

(* An INSERT that is sent holds the caller's and the audit policy's values   *)
(* and, for a tenant table, the active tenant, and nothing else.             *)
LEMMA InsertSent ==
    ASSUME TheTable, NEW c \in Clients, NEW given, Valued(given), InsertStatement(c, given).ok
    PROVE  LET values == InsertStatement(c, given).value
               audited == ApplyAuditValues("insert", given, model.runtime[c].audit)
           IN  /\ ValuesFit(values) /\ ToSet(given) \subseteq ToSet(values)
               /\ audited.ok /\ ToSet(audited.value) \subseteq ToSet(values)
               /\ \A v \in ToSet(values) :
                    v \in ToSet(audited.value) \/ (Scoped /\ v.column = TenantColumn.name)
               /\ Scoped => /\ Named(values, TenantColumn.name)
                            /\ ValueOf(values, TenantColumn.name) = ActiveTenant(c).value
<1> DEFINE audited == ApplyAuditValues("insert", given, model.runtime[c].audit)
           scoped == TenantInsertValues(c, audited.value)
           values == InsertStatement(c, given).value
<1>1. audited.ok /\ scoped.ok /\ Compiles(scoped.value, InsertColumnFits) /\ values = scoped.value
  BY DEF InsertStatement, Compile
<1>2. AreValues(model.runtime[c].audit.request)
      /\ AreValues(model.runtime[c].audit.provider["insert"])
      /\ (ActiveTenant(c) # None => ActiveTenant(c).value # None)
  BY TheContext
<1>3. Valued(audited.value) /\ ToSet(given) \subseteq ToSet(audited.value)
  BY <1>1, <1>2, AuditValued
<1> HIDE DEF audited
<1>4. /\ Valued(values) /\ ToSet(audited.value) \subseteq ToSet(values)
      /\ \A v \in ToSet(values) :
            v \in ToSet(audited.value) \/ (Scoped /\ v.column = TenantColumn.name)
      /\ Scoped => /\ Named(values, TenantColumn.name)
                   /\ \A v \in ToSet(values) : v.column = TenantColumn.name =>
                        v.value = ActiveTenant(c).value
  BY <1>1, <1>2, <1>3, TenantValued
<1> HIDE DEF values, scoped
<1>5. ValuesFit(values)
  BY <1>1, <1>4, CompiledInsert, TableWellMade
<1>6. Scoped => ValueOf(values, TenantColumn.name) = ActiveTenant(c).value
  BY <1>4, ValueLookup DEF Valued
<1> QED
  BY <1>1, <1>3, <1>4, <1>5, <1>6 DEF values, audited

(* The WHERE of a write that is sent has the one key, the token and the      *)
(* tenant of the caller.                                                     *)
LEMMA FilterSent ==
    ASSUME NEW c, NEW key, NEW token, WriteFilter(c, key, token).ok
    PROVE  LET filter == WriteFilter(c, key, token).value
           IN  /\ Len(PrimaryKey) = 1 /\ (Scoped => TenantFits(c))
               /\ token # None => Rowversion # None
               /\ filter.key = key /\ filter.token = token
               /\ filter.tenant = IF Scoped THEN ActiveTenant(c).value ELSE None
<1>1. WriteFilter(c, key, token) =
        Ok([key |-> key, tenant |-> IF Scoped THEN ActiveTenant(c).value ELSE None,
            token |-> token])
  BY DEF WriteFilter, Compile
<1>2. Len(PrimaryKey) = 1 /\ (Scoped => TenantFits(c)) /\ (token # None => Rowversion # None)
  BY DEF WriteFilter, Compile, Rowversion
<1> QED
  BY <1>1, <1>2 DEF Ok

(* Without a token a write's filter compiles for every table of one key      *)
(* column, given a fitting tenant where one is needed.                       *)
LEMMA FilterOk ==
    ASSUME NEW c, NEW key
    PROVE  WriteFilter(c, key, None).ok <=> Len(PrimaryKey) = 1 /\ (Scoped => TenantFits(c))
BY DEF WriteFilter, Compile, Ok

(* The filter of a write matches a row exactly when key, tenant and token    *)
(* do.                                                                       *)
LEMMA MatchesIs ==
    ASSUME TheTable, NEW c \in Clients, NEW key, NEW token, WriteFilter(c, key, token).ok, NEW row
    PROVE  Matches(row, WriteFilter(c, key, token).value) <=>
                /\ Reaches(meta, ActiveTenant(c), key, row)
                /\ token # None => row[Rowversion.name] = token
<1> DEFINE filter == WriteFilter(c, key, token).value
<1>1. /\ Scoped => TenantFits(c)
      /\ filter.key = key /\ filter.token = token
      /\ filter.tenant = IF Scoped THEN ActiveTenant(c).value ELSE None
  BY FilterSent
<1>2. Scoped => ActiveTenant(c).value # None
  BY <1>1, TheContext DEF TenantFits
<1> HIDE DEF filter
<1>3. Matches(row, filter) <=>
        /\ KeyOf(row) = filter.key
        /\ filter.tenant # None => row[TenantColumn.name] = filter.tenant
        /\ filter.token # None => row[Rowversion.name] = filter.token
  BY DEF Matches, Rowversion
<1>4. Matches(row, filter) <=>
        /\ Reaches(meta, ActiveTenant(c), key, row)
        /\ token # None => row[Rowversion.name] = token
  BY <1>1, <1>2, <1>3 DEF Reaches, KeyOf, PrimaryKey, Scoped, TenantColumn
<1> QED
  BY <1>4 DEF filter

(* What is sent for a write by key with a token.                             *)
Sent(c, key, token, s) ==
    s.ok => /\ WriteFilter(c, key, token).ok
            /\ s.value.filter = WriteFilter(c, key, token).value
            /\ ChangesFit(s.value.changes)

(* An UPDATE that is sent has a nonempty SET of updatable columns and the    *)
(* filter it was given.                                                      *)
LEMMA UpdateWithSent ==
    ASSUME WellMade(meta), NEW changes, NEW filter, UpdateWith(changes, filter).ok,
           changes.ok => Valued(changes.value)
    PROVE  LET u == UpdateWith(changes, filter).value
           IN  /\ changes.ok /\ filter.ok
               /\ u.filter = filter.value /\ u.changes = changes.value
               /\ ChangesFit(u.changes) /\ u.changes # <<>>
<1>1. /\ changes.ok /\ filter.ok /\ Compiles(changes.value, UpdateColumnFits)
      /\ UpdateWith(changes, filter) = Ok([changes |-> changes.value, filter |-> filter.value])
  BY DEF UpdateWith, Compile
<1>2. ChangesFit(changes.value) /\ changes.value # <<>>
  BY <1>1, CompiledUpdate DEF Compiles
<1> QED
  BY <1>1, <1>2 DEF Ok

(* An update's statement assigns what the audit policy made of the caller's  *)
(* changes.                                                                  *)
LEMMA UpdateSent ==
    ASSUME TheTable, NEW c \in Clients, NEW key, NEW token, NEW changes, Valued(changes),
           UpdateStatement(c, key, changes, token).ok
    PROVE  LET s == UpdateStatement(c, key, changes, token)
               audited == ApplyAuditValues("update", changes, model.runtime[c].audit)
           IN  /\ Sent(c, key, token, s)
               /\ audited.ok /\ s.value.changes = audited.value
               /\ s.value.changes # <<>>
<1> DEFINE audited == ApplyAuditValues("update", changes, model.runtime[c].audit)
<1>1. AreValues(model.runtime[c].audit.request)
      /\ AreValues(model.runtime[c].audit.provider["update"])
  BY TheContext
<1>2. audited.ok => Valued(audited.value)
  BY <1>1, AuditValued
<1>3. UpdateStatement(c, key, changes, token) = UpdateWith(audited, WriteFilter(c, key, token))
  BY DEF UpdateStatement
<1> HIDE DEF audited
<1> QED
  BY <1>2, <1>3, TableWellMade, UpdateWithSent DEF Sent, audited

(* A delete's statement is a DELETE for a table without soft delete and      *)
(* otherwise an UPDATE with the values of the policy.                        *)
LEMMA DeleteSent ==
    ASSUME TheTable, NEW c \in Clients, NEW key, NEW token, DeleteStatement(c, key, token).ok
    PROVE  LET s == DeleteStatement(c, key, token)
               values == ApplySoftDeleteValues(model.runtime[c].soft)
           IN  /\ Sent(c, key, token, s)
               /\ SoftColumns = <<>> => s.value.changes = <<>>
               /\ SoftColumns # <<>> => /\ values.ok /\ s.value.changes = values.value
                                        /\ s.value.changes # <<>>
<1> DEFINE filter == WriteFilter(c, key, token)
           values == ApplySoftDeleteValues(model.runtime[c].soft)
           s == DeleteStatement(c, key, token)
<1>1. AreValues(model.runtime[c].soft.request) /\ AreValues(model.runtime[c].soft.provider)
  BY TheContext
<1>2. values.ok => Valued(values.value)
  BY <1>1, SoftValued
<1>3. CASE SoftColumns # <<>>
  <2>1. s = UpdateWith(values, filter)
    BY <1>3 DEF DeleteStatement
  <2> HIDE DEF values, filter
  <2> QED
    BY <1>2, <1>3, <2>1, TableWellMade, UpdateWithSent DEF Sent, filter, values
<1>4. CASE SoftColumns = <<>>
  <2>1. filter.ok /\ s = Ok([changes |-> <<>>, filter |-> filter.value])
    BY <1>4 DEF DeleteStatement, Compile
  <2>2. s.value.changes = <<>> /\ s.value.filter = filter.value
    BY <2>1 DEF Ok
  <2>3. ChangesFit(<<>>)
    <3>1. DOMAIN <<>> = {} /\ <<>> \in Seq({})
      OBVIOUS
    <3>2. IsList(<<>>)
      BY <3>1, SequenceIsList
    <3> QED
      BY <3>1, <3>2 DEF ChangesFit, Valued, ToSet, NoDuplicates, IsInjective
  <2> QED
    BY <1>4, <2>1, <2>2, <2>3 DEF Sent
<1> QED
  BY <1>3, <1>4

-----------------------------------------------------------------------------
(* What clients write                                                        *)

(* The values save takes from an object that fits the table are all present. *)
LEMMA SavedValues ==
    ASSUME WellMade(meta), NEW object, NEW version, ObjectFits(meta, object, version)
    PROVE  Valued(UpdateChanges(Own, object)) /\ Valued(InsertValues(Own, object))
<1>1. IsList(Own) /\ \A c \in ToSet(Own) : object[c.name] # None
  BY DEF WellMade, Own, ObjectFits
<1>2. \A c : ColumnValue(c.name, object[c.name]).value = object[c.name]
  BY DEF ColumnValue
<1> QED
  BY <1>1, <1>2, UpdateChangesAre, InsertValuesAre DEF Valued

(* The rows, inputs and metadata of the current scenario fit together.       *)
LEMMA TheInputs ==
    ASSUME TheTable
    PROVE  /\ TableFits(model, meta) /\ InputsFit(model, meta)
           /\ AllColumns = meta.columns /\ Own = meta.own /\ PrimaryKey = meta.key
BY ScenarioAssumption DEF TheTable, model, AllColumns, Own, PrimaryKey

(* The values of every insertable of the scenario are present.               *)
LEMMA InsertedValues ==
    ASSUME TheTable, NEW given \in model.insertables
    PROVE  Valued(InsertableValues(AllColumns, given))
<1>1. AreValues(given)
  BY TheInputs DEF InputsFit
<1>2. Valued(given)
  BY <1>1, ValuedIs
<1> DEFINE values == InsertableValues(AllColumns, given)
<1>3. /\ IsList(values)
      /\ ToSet(values) = {ColumnValue(Resolved(AllColumns, f).name, f.value) : f \in ToSet(given)}
  BY <1>2, InsertableValuesAre DEF Valued
<1> HIDE DEF values
<1>4. ASSUME NEW v \in ToSet(values)
      PROVE  v.value # None
  <2>1. PICK f \in ToSet(given) : v = ColumnValue(Resolved(AllColumns, f).name, f.value)
    BY <1>3
  <2> QED
    BY <2>1, <1>2 DEF Valued, ColumnValue
<1> QED
  BY <1>3, <1>4 DEF Valued, values

(* The changes of every changeset of the scenario are present.               *)
LEMMA ChangedValues ==
    ASSUME TheTable, NEW given \in model.changesets
    PROVE  Valued(ChangesetChanges(AllColumns, given))
<1>1. IsList(given)
  BY TheInputs DEF InputsFit
<1> DEFINE values == ChangesetChanges(AllColumns, given)
           kept == {f \in ToSet(given) : f.value # None /\ Resolved(AllColumns, f).updatable}
<1>2. /\ IsList(values)
      /\ ToSet(values) = {ColumnValue(Resolved(AllColumns, f).name, f.value) : f \in kept}
  BY <1>1, ChangesetChangesAre
<1>3. \A f \in kept : f.value # None
  OBVIOUS
<1> HIDE DEF values, kept
<1>4. ASSUME NEW v \in ToSet(values)
      PROVE  v.value # None
  <2>1. PICK f \in kept : v = ColumnValue(Resolved(AllColumns, f).name, f.value)
    BY <1>2
  <2> QED
    BY <2>1, <1>3 DEF ColumnValue
<1> QED
  BY <1>2, <1>4 DEF Valued, values

(* The token a changeset carries is absent or a version handed out before    *)
(* the start.                                                                *)
LEMMA ChangesetTokenIssued ==
    ASSUME TheTable, NEW given \in model.changesets
    PROVE  ChangesetToken(AllColumns, given) \in Issued \cup {None}
<1> DEFINE at == {i \in DOMAIN given :
                    given[i].value # None /\ Resolved(AllColumns, given[i]).rowversion}
           token == FirstAt(given, at)
<1>1. /\ IsList(given)
      /\ \A i \in DOMAIN given :
            given[i].value # None /\ Resolved(AllColumns, given[i]).rowversion =>
                given[i].value \in Issued
  BY TheInputs DEF InputsFit
<1>2. at \subseteq Nat
  BY <1>1, ListFacts
<1>3. \A i \in at : given[i].value \in Issued
  BY <1>1
<1>4. ChangesetToken(AllColumns, given) = IF token = None THEN None ELSE token.value
  BY DEF ChangesetToken, FirstWhere
<1> HIDE DEF at
<1>5. CASE at = {}
  BY <1>4, <1>5 DEF FirstAt
<1>6. CASE at # {}
  <2>1. PICK i \in at : FirstAt(given, at) = given[i]
    BY <1>2, <1>6, FirstAtFacts
  <2> QED
    BY <2>1, <1>3, <1>4
<1> QED
  BY <1>5, <1>6

(* The token of an object is its rowversion, a version already handed out,   *)
(* and absent only when the table has none.                                  *)
LEMMA ObjectToken ==
    ASSUME WellMade(meta), NEW object, NEW version, ObjectFits(meta, object, version)
    PROVE  LET token == ConcurrencyToken(Own, object)
           IN  /\ Rowversion = None => token = None
               /\ Rowversion # None => /\ token = object[Rowversion.name]
                                       /\ token # None /\ token \in 0 .. version - 1
<1>1. IsList(Own) /\ RowversionColumn(Own) = Rowversion
  BY DEF WellMade, Own, Rowversion, AllColumns
<1>2. Rowversion # None => Rowversion \in ToSet(Own) /\ Rowversion.rowversion
  BY <1>1, TheRowversion
<1>3. \A c \in ToSet(Own) : object[c.name] # None /\ (c.rowversion => object[c.name] \in 0 .. version - 1)
  BY DEF ObjectFits, Own
<1> QED
  BY <1>1, <1>2, <1>3 DEF ConcurrencyToken

(* A write by c: the statement and what it is made of.                       *)
Asks(c, op, given, s, key, token) ==
    \/ /\ op = "save" /\ entity[c] # None /\ given = UpdateChanges(Own, entity[c])
       /\ key = Key(c) /\ token = Token(c) /\ s = UpdateStatement(c, key, given, token)
    \/ /\ op = "remove" /\ entity[c] # None /\ given = <<>>
       /\ key = Key(c) /\ token = Token(c) /\ s = DeleteStatement(c, key, token)
    \/ /\ op = "update" /\ Valued(given) /\ token \in Issued \cup {None}
       /\ s = UpdateStatement(c, key, given, token)
       /\ \E g \in model.changesets : given = ChangesetChanges(AllColumns, g)
    \/ /\ op = "delete" /\ given = <<>> /\ token = None
       /\ s = DeleteStatement(c, key, token)

(* What a save, an update, a remove or a delete asks the server is a fitting *)
(* statement for its key and token.                                          *)
LEMMA WhatIsSent ==
    ASSUME TheTable, Objects, NEW c \in Clients, NEW op, NEW given, NEW s, NEW key, NEW token,
           Asks(c, op, given, s, key, token)
    PROVE  /\ Sent(c, key, token, s)
           /\ op \in {"save", "update"} => Valued(given)
<1>1. WellMade(meta)
  BY TableWellMade
<1>2. op = "save" => Valued(UpdateChanges(Own, entity[c]))
  BY <1>1, SavedValues DEF Objects, Asks
<1>3. CASE op \in {"save", "update"}
  <2>1. Valued(given) /\ s = UpdateStatement(c, key, given, token)
    BY <1>2, <1>3 DEF Asks
  <2>2. s.ok => Sent(c, key, token, s)
    BY <2>1, UpdateSent
  <2> QED
    BY <2>1, <2>2 DEF Sent
<1>4. CASE op \in {"remove", "delete"}
  <2>1. s = DeleteStatement(c, key, token)
    BY <1>4 DEF Asks
  <2>2. s.ok => Sent(c, key, token, s)
    BY <2>1, DeleteSent
  <2> QED
    BY <2>2, <1>4 DEF Sent
<1> QED
  BY <1>3, <1>4 DEF Asks

-----------------------------------------------------------------------------
(* The rows that writes leave                                                *)

(* A row breaks NOT NULL when one of its columns that takes no NULL holds    *)
(* one.                                                                      *)
LEMMA ForbiddenNull ==
    ASSUME NEW row
    PROVE  HasForbiddenNull(row) <=>
                \E c \in ToSet(AllColumns) : ~c.nullable /\ row[c.name] = Null
BY DEF HasForbiddenNull, ToSet

(* A column's default is a present value and not NULL.                       *)
LEMMA DefaultsAre ==
    ASSUME NEW c
    PROVE  DefaultOf(c) # None /\ DefaultOf(c) # Null
<1>1. CASE c.type = "bool"
  BY <1>1, ValuesAssumption DEF DefaultOf
<1>2. CASE c.type # "bool" /\ c.type = "String"
  BY <1>2, ValuesAssumption DEF DefaultOf
<1>3. CASE c.type # "bool" /\ c.type # "String"
  BY <1>3, ValuesAssumption DEF DefaultOf
<1> QED
  BY <1>1, <1>2, <1>3

(* A row that an accepted INSERT adds has the table's columns, fresh version *)
(* and identity, and a key no row has.                                       *)
LEMMA InsertedFits ==
    ASSUME TheTable, HandsOut, Rows, NEW values, ValuesFit(values), ~InsertRefused(values)
    PROVE  /\ RowFits(meta, Inserted(values), next.id + 1, next.version + 1)
           /\ \A r \in db : ~SameKey(r, Inserted(values))
<1> DEFINE row == Inserted(values)
<1>1. WellMade(meta) /\ AllColumns = meta.columns
  BY TableWellMade DEF AllColumns
<1>2. ~HasForbiddenNull(row) /\ ~KeyTaken(row)
  BY DEF InsertRefused
<1>3. next.id \in Nat /\ next.version \in Nat
  BY DEF HandsOut
<1>4. DOMAIN row = Names(AllColumns)
  BY DEF Inserted
<1>5. \A c \in ToSet(AllColumns) :
        /\ c.identity => ~c.rowversion
        /\ row[c.name] = IF c.rowversion THEN next.version ELSE IF c.identity THEN next.id
                ELSE IF c.computed THEN "computed"
                ELSE IF Named(values, c.name) THEN ValueOf(values, c.name)
                ELSE IF c.default THEN DefaultOf(c) ELSE Null
  BY <1>1, ColumnKinds, InsertedIs
<1> HIDE DEF row
<1>6. \A name : Named(values, name) => ValueOf(values, name) # None
  BY ValueLookup DEF ValuesFit, Valued
<1>7. ASSUME NEW c \in ToSet(AllColumns)
      PROVE  /\ row[c.name] # None
             /\ row[c.name] = Null => c.nullable
             /\ c.rowversion => row[c.name] \in 0 .. (next.version + 1) - 1
             /\ c.identity => row[c.name] \in 0 .. (next.id + 1) - 1
  <2>1. row[c.name] = Null => c.nullable
    BY <1>2, ForbiddenNull
  <2>2. CASE c.rowversion
    <3>1. row[c.name] = next.version /\ ~c.identity
      BY <1>5, <2>2
    <3> QED
      BY <3>1, <2>1, <1>3, ValuesAssumption
  <2>3. CASE ~c.rowversion /\ c.identity
    <3>1. row[c.name] = next.id
      BY <1>5, <2>3
    <3> QED
      BY <3>1, <2>1, <2>3, <1>3, ValuesAssumption
  <2>4. CASE ~c.rowversion /\ ~c.identity
    <3>1. CASE c.computed
      <4>1. row[c.name] = "computed"
        BY <1>5, <2>4, <3>1
      <4> QED
        BY <4>1, <2>1, <2>4, ValuesAssumption
    <3>2. CASE ~c.computed /\ Named(values, c.name)
      <4>1. row[c.name] = ValueOf(values, c.name)
        BY <1>5, <2>4, <3>2
      <4> QED
        BY <4>1, <2>1, <2>4, <3>2, <1>6
    <3>3. CASE ~c.computed /\ ~Named(values, c.name)
      <4>1. row[c.name] = DefaultOf(c) \/ row[c.name] = Null
        BY <1>5, <2>4, <3>3
      <4>2. Null # None
        BY ValuesAssumption
      <4> QED
        BY <4>1, <4>2, <2>1, <2>4, DefaultsAre
    <3> QED
      BY <3>1, <3>2, <3>3
  <2> QED
    BY <2>2, <2>3, <2>4
<1>8. RowFits(meta, row, next.id + 1, next.version + 1)
  BY <1>1, <1>4, <1>7 DEF RowFits
<1>9. \A r \in db : ~SameKey(r, row)
  BY <1>2 DEF KeyTaken
<1> QED
  BY <1>8, <1>9 DEF row

(* The key columns are columns of the entity, no rowversions, and there is   *)
(* at least one.                                                             *)
LEMMA KeysAreColumns ==
    ASSUME WellMade(meta)
    PROVE  /\ \A i \in DOMAIN PrimaryKey :
                PrimaryKey[i] \in ToSet(AllColumns) /\ PrimaryKey[i] \in ToSet(Own)
                /\ PrimaryKey[i].key /\ ~PrimaryKey[i].rowversion
           /\ 1 \in DOMAIN PrimaryKey
<1>1. IsList(PrimaryKey) /\ PrimaryKey # <<>>
  BY DEF WellMade, PrimaryKey
<1>2. Len(PrimaryKey) \in Nat /\ DOMAIN PrimaryKey = 1 .. Len(PrimaryKey)
      /\ PrimaryKey \in Seq(ToSet(PrimaryKey))
  BY <1>1, ListFacts
<1>3. Len(PrimaryKey) # 0
  BY <1>1, <1>2
<1>4. \A i \in DOMAIN PrimaryKey : PrimaryKey[i] \in ToSet(PrimaryKey)
  BY DEF ToSet
<1>5. ToSet(PrimaryKey) = {c \in ToSet(Own) : c.key} /\ ToSet(Own) \subseteq ToSet(AllColumns)
  BY DEF WellMade, PrimaryKey, Own, AllColumns
<1> QED
  BY <1>2, <1>3, <1>4, <1>5, ColumnKinds

(* A row that an accepted UPDATE leaves has the table's columns, a fresh     *)
(* version and the key it had.                                               *)
LEMMA ChangedFits ==
    ASSUME TheTable, HandsOut, NEW row,
           RowFits(meta, row, next.id, next.version), NEW changes, ChangesFit(changes),
           ~Assigns(changes, ServerOwned), ~HasForbiddenNull(Changed(row, changes))
    PROVE  /\ RowFits(meta, Changed(row, changes), next.id, next.version + 1)
           /\ \A i \in DOMAIN PrimaryKey :
                Changed(row, changes)[PrimaryKey[i].name] = row[PrimaryKey[i].name]
<1> DEFINE new == Changed(row, changes)
<1>1. WellMade(meta) /\ AllColumns = meta.columns
  BY TableWellMade DEF AllColumns
<1>2. next.id \in Nat /\ next.version \in Nat
  BY DEF HandsOut
<1>3. DOMAIN row = Names(AllColumns) /\ \A c \in ToSet(AllColumns) :
        /\ row[c.name] # None
        /\ c.identity => row[c.name] \in 0 .. next.id - 1
  BY <1>1 DEF RowFits
<1>4. /\ DOMAIN new = Names(AllColumns)
      /\ \A c \in ToSet(AllColumns) : new[c.name] =
            IF c.rowversion THEN next.version
            ELSE IF Named(changes, c.name) THEN ValueOf(changes, c.name) ELSE row[c.name]
  BY <1>1, <1>3, ChangedIs
<1>5. \A c \in ToSet(AllColumns) : new[c.name] = Null => c.nullable
  BY ForbiddenNull
<1> HIDE DEF new
<1>6. \A name : Named(changes, name) => ValueOf(changes, name) # None
  BY ValueLookup DEF ChangesFit, Valued
<1>7. \A c \in ToSet(AllColumns) : Named(changes, c.name) => UpdateColumnFits(c)
  BY <1>1, NamedIs, AColumn DEF ChangesFit
<1>8. \A c \in ToSet(AllColumns) : Named(changes, c.name) => ~ServerOwned(c)
  <2> SUFFICES ASSUME NEW c \in ToSet(AllColumns), NEW i \in DOMAIN changes,
                      changes[i].column = c.name
               PROVE  ~ServerOwned(c)
    BY DEF Named
  <2>1. ~ServerOwned(ColumnNamed(AllColumns, changes[i].column))
    BY DEF Assigns
  <2> QED
    BY <2>1, <1>1, AColumn
<1>9. ASSUME NEW c \in ToSet(AllColumns)
      PROVE  /\ new[c.name] # None
             /\ new[c.name] = Null => c.nullable
             /\ c.rowversion => new[c.name] \in 0 .. (next.version + 1) - 1
             /\ c.identity => new[c.name] \in 0 .. next.id - 1
  <2>1. CASE c.rowversion
    <3>1. new[c.name] = next.version /\ ~c.identity
      BY <1>1, <1>4, <2>1, ColumnKinds
    <3> QED
      BY <3>1, <1>2, <1>5, ValuesAssumption
  <2>2. CASE ~c.rowversion /\ Named(changes, c.name)
    <3>1. new[c.name] = ValueOf(changes, c.name) /\ ~c.identity
      BY <1>4, <1>8, <2>2 DEF ServerOwned
    <3> QED
      BY <3>1, <2>2, <1>5, <1>6
  <2>3. CASE ~c.rowversion /\ ~Named(changes, c.name)
    <3>1. new[c.name] = row[c.name]
      BY <1>4, <2>3
    <3> QED
      BY <3>1, <2>3, <1>2, <1>3, <1>5
  <2> QED
    BY <2>1, <2>2, <2>3
<1>10. RowFits(meta, new, next.id, next.version + 1)
  BY <1>1, <1>4, <1>9 DEF RowFits
<1>11. \A i \in DOMAIN PrimaryKey : new[PrimaryKey[i].name] = row[PrimaryKey[i].name]
  <2> TAKE i \in DOMAIN PrimaryKey
  <2>1. PrimaryKey[i] \in ToSet(AllColumns) /\ PrimaryKey[i].key /\ ~PrimaryKey[i].rowversion
    BY <1>1, KeysAreColumns
  <2>2. ~Named(changes, PrimaryKey[i].name)
    BY <2>1, <1>7 DEF UpdateColumnFits
  <2> QED
    BY <2>1, <2>2, <1>4
<1> QED
  BY <1>10, <1>11 DEF new

-----------------------------------------------------------------------------
(* The first state                                                           *)

(* The rows a scenario starts from fit its table, with identities and        *)
(* versions handed out before.                                               *)
LEMMA InitialRows ==
    ASSUME TheTable, NEW row \in model.db
    PROVE  RowFits(meta, row, FirstIssued, FirstIssued)
<1>1. /\ Holds(meta.columns, row)
      /\ \A i \in DOMAIN meta.columns :
            LET c == meta.columns[i]
            IN  (row[c.name] = Null => c.nullable) /\ (c.identity => row[c.name] \in Issued)
  BY TheInputs DEF TableFits
<1>2. DOMAIN row = Names(meta.columns)
  BY <1>1 DEF Holds
<1>3. \A i \in DOMAIN meta.columns :
        LET c == meta.columns[i]
        IN  row[c.name] # None /\ (c.rowversion => row[c.name] \in Issued)
  BY <1>1 DEF Holds
<1>4. \A c \in ToSet(meta.columns) :
        /\ row[c.name] # None
        /\ row[c.name] = Null => c.nullable
        /\ c.rowversion => row[c.name] \in Issued
        /\ c.identity => row[c.name] \in Issued
  BY <1>1, <1>3 DEF ToSet
<1> QED
  BY <1>2, <1>4 DEF RowFits, Issued

(* The invariant holds initially.                                            *)
LEMMA FirstState == Init => Inv
<1> SUFFICES ASSUME Init
             PROVE  Inv
  OBVIOUS
<1>1. TheTable
  BY DEF Init, TheTable
<1>2. HandsOut
  BY DEF Init, HandsOut, FirstIssued
<1>3. Rows
  <2>1. \A r \in db : RowFits(meta, r, next.id, next.version)
    BY <1>1, InitialRows DEF Init
  <2>2. \A r, s \in db : SameKey(r, s) => r = s
    BY <1>1, TheInputs DEF Init, TableFits, SameKey
  <2> QED
    BY <2>1, <2>2 DEF Rows
<1>4. Objects
  BY DEF Init, Objects
<1>5. Calls
  BY DEF Init, Calls
<1>6. Bounded
  <2>1. Busy = {} /\ Going = {}
    BY DEF Init, Busy, Going
  <2>2. Cardinality(Busy) = 0 /\ Cardinality(Going) = 0
    BY <2>1, FS_EmptySet
  <2>3. Cardinality(Clients) \in Nat /\ MaxSteps \in Nat /\ steps = 0
    BY BoundsAssumption, FS_CardinalityType DEF Init
  <2> QED
    BY <2>2, <2>3 DEF Bounded
<1> QED
  BY <1>1, <1>2, <1>3, <1>4, <1>5, <1>6 DEF Inv

-----------------------------------------------------------------------------
(* What is left as it is                                                     *)

(* A row stays fitting when more identities and versions have been handed    *)
(* out.                                                                      *)
LEMMA RowKept ==
    ASSUME NEW m, NEW row, NEW i \in Nat, NEW v \in Nat, NEW j \in Nat, NEW w \in Nat,
           i <= j, v <= w, RowFits(m, row, i, v)
    PROVE  RowFits(m, row, j, w)
BY DEF RowFits

(* An object stays fitting when more versions have been handed out.          *)
LEMMA ObjectKept ==
    ASSUME NEW m, NEW object, NEW v \in Nat, NEW w \in Nat, v <= w, ObjectFits(m, object, v)
    PROVE  ObjectFits(m, object, w)
BY DEF ObjectFits

(* from_row of a fitting row is a fitting object.                            *)
LEMMA ReadObject ==
    ASSUME NEW m, WellMade(m), NEW row, NEW i, NEW v, RowFits(m, row, i, v)
    PROVE  ObjectFits(m, FromRow(m.own, row), v)
<1>1. ToSet(m.own) \subseteq ToSet(m.columns)
  BY DEF WellMade
<1>2. FromRow(m.own, row) = [name \in Names(m.own) |-> row[name]]
  BY DEF FromRow
<1>3. \A c \in ToSet(m.own) : c.name \in Names(m.own)
  BY NamesAre
<1> QED
  BY <1>1, <1>2, <1>3 DEF RowFits, ObjectFits

(* What a call reads of the scenario and the metadata no step changes.       *)
LEMMA Unmoved ==
    ASSUME UNCHANGED <<scenario, meta>>, NEW c
    PROVE  /\ Versioned(c)' <=> Versioned(c)
           /\ ActiveTenant(c)' = ActiveTenant(c)
           /\ TheTable' <=> TheTable
<1>1. ActiveTenant(c)' = ActiveTenant(c)
  BY DEF ActiveTenant, model
<1>2. TenantFits(c)' <=> TenantFits(c)
  BY <1>1 DEF TenantFits, TenantValueFits, TenantColumn
<1> QED
  BY <1>1, <1>2 DEF Versioned, TheTable, PrimaryKey, Scoped, Rowversion, AllColumns

(* Which rows have the same key does not depend on the state of the          *)
(* database.                                                                 *)
LEMMA UnmovedKeys ==
    ASSUME UNCHANGED meta
    PROVE  \A r, s : SameKey(r, s)' <=> SameKey(r, s)
BY DEF SameKey, PrimaryKey

-----------------------------------------------------------------------------
(* A step of client c, as far as the invariant goes                          *)

(* At most one row is new; the server has given it the version it counted    *)
(* on from, and no row that stays has its key.                               *)
Unread == next' = [id |-> next.id, version |-> next.version + 1]
Counted == next' = [id |-> next.id + 1, version |-> next.version + 1]
RowsMove ==
    \/ UNCHANGED <<db, next>>
    \/ /\ Unread \/ Counted
       /\ \A s \in db' \ db :
            /\ RowFits(meta, s, next'.id, next'.version)
            /\ Rowversion # None => s[Rowversion.name] = next.version
            /\ \A r \in db \cap db' : ~SameKey(r, s)
       /\ \A s, t \in db' \ db : s = t
ObjectMoves(c) ==
    \/ UNCHANGED entity
    \/ \E object : /\ entity' = [entity EXCEPT ![c] = object]
                   /\ ObjectFits(meta, object, next'.version)
                   /\ call'[c] = None
CallMoves(c) ==
    \/ call[c] = None /\ UNCHANGED call
    \/ call' = [call EXCEPT ![c] = None]
    \/ \E rec : /\ call' = [call EXCEPT ![c] = rec] /\ UNCHANGED entity
                /\ \/ rec.then \in {"insert", "update"} /\ Goes(meta, entity[c])
                   \/ /\ rec.then = "recheck" /\ Versioned(c)
                      /\ Outdated(meta, ActiveTenant(c), db', next'.version, rec.key, rec.token)
StepsMove(c) ==
    \/ call[c] = None /\ steps < MaxSteps
    \/ /\ call[c] # None
       /\ call'[c] = None \/ (call[c].then \in {"insert", "update"} /\ call'[c].then = "recheck")
Moves(c) == RowsMove /\ ObjectMoves(c) /\ CallMoves(c) /\ StepsMove(c)
Ticks == steps' = steps + 1 /\ UNCHANGED <<scenario, meta>>

(* Identities and versions are only ever handed out in increasing order.     *)
LEMMA HandsOutKept ==
    ASSUME HandsOut, RowsMove
    PROVE  /\ HandsOut' /\ next.id <= next'.id /\ next.version <= next'.version
           /\ next.id \in Nat /\ next.version \in Nat /\ next'.id \in Nat /\ next'.version \in Nat
<1>1. next.id \in Nat /\ next.version \in Nat /\ FirstIssued \in Nat
  BY DEF HandsOut, FirstIssued
<1>2. CASE UNCHANGED next
  BY <1>1, <1>2 DEF HandsOut
<1>3. CASE Unread
  BY <1>1, <1>3 DEF HandsOut, Unread
<1>4. CASE Counted
  BY <1>1, <1>4 DEF HandsOut, Counted
<1> QED
  BY <1>2, <1>3, <1>4 DEF RowsMove

(* A step that adds, changes or removes one fitting row keeps the rows       *)
(* fitting and their keys distinct.                                          *)
LEMMA RowsKept ==
    ASSUME TheTable, HandsOut, Rows, RowsMove, UNCHANGED meta
    PROVE  Rows'
<1>1. /\ next.id \in Nat /\ next.version \in Nat /\ next'.id \in Nat /\ next'.version \in Nat
      /\ next.id <= next'.id /\ next.version <= next'.version
  BY HandsOutKept
<1>2. \A r \in db : RowFits(meta, r, next'.id, next'.version)
  BY <1>1, RowKept DEF Rows
<1>3. \A r \in db' : RowFits(meta', r, next'.id, next'.version)
  BY <1>2 DEF RowsMove
<1>4. \A r, s : SameKey(r, s) => SameKey(s, r)
  BY DEF SameKey
<1>5. ASSUME NEW r \in db', NEW s \in db', SameKey(r, s)
      PROVE  r = s
  <2>1. CASE r \in db /\ s \in db
    BY <2>1, <1>5 DEF Rows
  <2>2. CASE r \notin db /\ s \notin db
    BY <2>2 DEF RowsMove
  <2>3. CASE r \in db /\ s \notin db
    BY <2>3, <1>5 DEF RowsMove
  <2>4. CASE r \notin db /\ s \in db
    BY <2>4, <1>4, <1>5 DEF RowsMove
  <2> QED
    BY <2>1, <2>2, <2>3, <2>4
<1>6. \A r, s \in db' : SameKey(r, s)' => r = s
  BY <1>5, UnmovedKeys
<1> QED
  BY <1>3, <1>6 DEF Rows

(* A step that leaves the objects alone or gives a client a fitting one      *)
(* keeps every object fitting.                                               *)
LEMMA ObjectsKept ==
    ASSUME HandsOut, Objects, NEW c \in Clients, RowsMove, ObjectMoves(c), UNCHANGED meta
    PROVE  Objects'
<1>1. next.version \in Nat /\ next'.version \in Nat /\ next.version <= next'.version
  BY HandsOutKept
<1>2. \A d \in Clients : entity[d] # None => ObjectFits(meta, entity[d], next'.version)
  BY <1>1, ObjectKept DEF Objects
<1>3. entity = [d \in Clients |-> entity[d]]
  BY DEF Objects
<1>4. CASE UNCHANGED entity
  BY <1>2, <1>3, <1>4 DEF Objects
<1>5. CASE \E object : entity' = [entity EXCEPT ![c] = object]
                       /\ ObjectFits(meta, object, next'.version)
  <2>1. PICK object : entity' = [entity EXCEPT ![c] = object]
                      /\ ObjectFits(meta, object, next'.version)
    BY <1>5
  <2>2. entity' = [d \in Clients |-> IF d = c THEN object ELSE entity[d]]
    BY <2>1, <1>3
  <2>3. \A d \in Clients : entity'[d] = IF d = c THEN object ELSE entity[d]
    BY <2>2
  <2>4. entity' = [d \in Clients |-> entity'[d]]
    BY <2>2
  <2>5. \A d \in Clients : entity'[d] # None => ObjectFits(meta, entity'[d], next'.version)
    BY <2>1, <2>3, <1>2
  <2> QED
    BY <2>4, <2>5 DEF Objects
<1> QED
  BY <1>4, <1>5 DEF ObjectMoves

(* A token that matches no row of its key never will: a changed row gets a   *)
(* version that was never handed out before.                                 *)
LEMMA OutdatedKept ==
    ASSUME HandsOut, RowsMove, NEW tenant, NEW key, NEW token, Rowversion # None,
           Outdated(meta, tenant, db, next.version, key, token)
    PROVE  Outdated(meta, tenant, db', next'.version, key, token)
<1>1. next.version \in Nat /\ next'.version \in Nat /\ next.version <= next'.version
  BY HandsOutKept
<1>2. token \in 0 .. next.version - 1
  BY DEF Outdated
<1>3. token \in 0 .. next'.version - 1 /\ token # next.version
  BY <1>1, <1>2
<1>4. Rowversion = RowversionColumn(meta.columns)
  BY DEF Rowversion, AllColumns
<1>5. \A r \in db' : r \in db \/ r[Rowversion.name] = next.version
  BY DEF RowsMove
<1> QED
  BY <1>3, <1>4, <1>5 DEF Outdated

(* What is known of a call in progress survives the steps of every other     *)
(* client.                                                                   *)
LEMMA CallsKept ==
    ASSUME HandsOut, Calls, NEW c \in Clients, RowsMove, ObjectMoves(c), CallMoves(c),
           entity = [d \in Clients |-> entity[d]], UNCHANGED <<scenario, meta>>
    PROVE  Calls'
<1>1. call = [d \in Clients |-> call[d]]
  BY DEF Calls
<1>2. \A d \in Clients : d # c => entity'[d] = entity[d]
  BY DEF ObjectMoves
<1>3. \A d : (Versioned(d)' <=> Versioned(d)) /\ ActiveTenant(d)' = ActiveTenant(d)
  BY Unmoved
<1>4. \A d : Versioned(d) => Rowversion # None
  BY DEF Versioned
<1>5. ASSUME NEW d \in Clients, call[d] # None, entity'[d] = entity[d]
      PROVE  \/ call[d].then \in {"insert", "update"} /\ Goes(meta', entity'[d])
             \/ /\ call[d].then = "recheck" /\ Versioned(d)'
                /\ Outdated(meta', ActiveTenant(d)', db', next'.version, call[d].key, call[d].token)
  <2>1. CASE call[d].then \in {"insert", "update"} /\ Goes(meta, entity[d])
    BY <1>5, <2>1
  <2>2. CASE /\ call[d].then = "recheck" /\ Versioned(d)
             /\ Outdated(meta, ActiveTenant(d), db, next.version, call[d].key, call[d].token)
    BY <1>3, <1>4, <2>2, OutdatedKept
  <2> QED
    BY <1>5, <2>1, <2>2 DEF Calls
<1>6. CASE call[c] = None /\ UNCHANGED call
  BY <1>1, <1>2, <1>5, <1>6 DEF Calls
<1>7. CASE call' = [call EXCEPT ![c] = None]
  <2>1. call' = [d \in Clients |-> IF d = c THEN None ELSE call[d]]
    BY <1>1, <1>7
  <2>2. \A d \in Clients : call'[d] = IF d = c THEN None ELSE call[d]
    BY <2>1
  <2>3. call' = [d \in Clients |-> call'[d]]
    BY <2>1
  <2> QED
    BY <1>2, <1>5, <2>2, <2>3 DEF Calls
<1>8. CASE \E rec : /\ call' = [call EXCEPT ![c] = rec] /\ UNCHANGED entity
                    /\ \/ rec.then \in {"insert", "update"} /\ Goes(meta, entity[c])
                       \/ /\ rec.then = "recheck" /\ Versioned(c)
                          /\ Outdated(meta, ActiveTenant(c), db', next'.version, rec.key, rec.token)
  <2>1. PICK rec : /\ call' = [call EXCEPT ![c] = rec] /\ UNCHANGED entity
                   /\ \/ rec.then \in {"insert", "update"} /\ Goes(meta, entity[c])
                      \/ /\ rec.then = "recheck" /\ Versioned(c)
                         /\ Outdated(meta, ActiveTenant(c), db', next'.version, rec.key, rec.token)
    BY <1>8
  <2>2. call' = [d \in Clients |-> IF d = c THEN rec ELSE call[d]]
    BY <1>1, <2>1
  <2>3. \A d \in Clients : call'[d] = IF d = c THEN rec ELSE call[d]
    BY <2>2
  <2>4. call' = [d \in Clients |-> call'[d]]
    BY <2>2
  <2>5. ASSUME NEW d \in Clients, call'[d] # None
        PROVE  \/ call'[d].then \in {"insert", "update"} /\ Goes(meta', entity'[d])
               \/ /\ call'[d].then = "recheck" /\ Versioned(d)'
                  /\ Outdated(meta', ActiveTenant(d)', db', next'.version, call'[d].key,
                              call'[d].token)
    <3>1. CASE d = c
      BY <1>3, <2>1, <2>3, <3>1
    <3>2. CASE d # c
      BY <1>2, <1>5, <2>3, <2>5, <3>2
    <3> QED
      BY <3>1, <3>2
  <2> QED
    BY <2>4, <2>5 DEF Calls
<1> QED
  BY <1>6, <1>7, <1>8 DEF CallMoves

(* Each call in progress has paid for its first step: the step counter stays *)
(* within its bound.                                                         *)
LEMMA BoundedKept ==
    ASSUME Bounded, Calls, NEW c \in Clients, CallMoves(c), StepsMove(c), steps' = steps + 1
    PROVE  Bounded'
<1>1. /\ steps \in Nat /\ MaxSteps \in Nat /\ IsFiniteSet(Clients) /\ Cardinality(Clients) \in Nat
      /\ steps + Cardinality(Busy) + Cardinality(Going) <= MaxSteps + 2 * Cardinality(Clients)
  BY BoundsAssumption, FS_CardinalityType DEF Bounded
<1>2. \A d \in Clients : d # c => call'[d] = call[d]
  BY DEF CallMoves, Calls
<1>3. \A S : S \subseteq Clients =>
        IsFiniteSet(S) /\ Cardinality(S) \in Nat /\ Cardinality(S) <= Cardinality(Clients)
  BY <1>1, FS_Subset, FS_CardinalityType
<1>4. Busy' = {d \in Clients : call'[d] # None}
      /\ Going' = {d \in Clients : call'[d] # None /\ call'[d].then \in {"insert", "update"}}
  BY DEF Busy, Going
<1>5. /\ Busy \subseteq Clients /\ Going \subseteq Clients
      /\ Busy' \subseteq Clients /\ Going' \subseteq Clients
  BY <1>4 DEF Busy, Going
<1>6. /\ IsFiniteSet(Busy) /\ IsFiniteSet(Going)
      /\ Cardinality(Busy) \in Nat /\ Cardinality(Going) \in Nat
      /\ Cardinality(Busy') \in Nat /\ Cardinality(Going') \in Nat
      /\ Cardinality(Busy') <= Cardinality(Clients) /\ Cardinality(Going') <= Cardinality(Clients)
  BY <1>3, <1>5
<1>7. ASSUME NEW S, IsFiniteSet(S), NEW T, T \subseteq S
      PROVE  Cardinality(T) <= Cardinality(S) /\ (T # S => Cardinality(T) < Cardinality(S))
  <2>1. /\ IsFiniteSet(T) /\ Cardinality(T) <= Cardinality(S)
        /\ Cardinality(S) = Cardinality(T) => S = T
    BY <1>7, FS_Subset
  <2>2. Cardinality(S) \in Nat /\ Cardinality(T) \in Nat
    BY <1>7, <2>1, FS_CardinalityType
  <2> QED
    BY <2>1, <2>2
<1>8. steps' + Cardinality(Busy') + Cardinality(Going') <= MaxSteps + 2 * Cardinality(Clients)
  <2>1. CASE steps < MaxSteps
    BY <2>1, <1>1, <1>6
  <2>2. CASE call[c] # None /\ call'[c] = None
    <3>1. Busy' \subseteq Busy /\ c \in Busy /\ c \notin Busy' /\ Going' \subseteq Going
      BY <2>2, <1>2, <1>4 DEF Busy, Going
    <3>2. Cardinality(Busy') < Cardinality(Busy) /\ Cardinality(Going') <= Cardinality(Going)
      BY <3>1, <1>6, <1>7
    <3> HIDE DEF Busy, Going
    <3> QED
      BY <3>2, <1>1, <1>6
  <2>3. CASE call[c] # None /\ call[c].then \in {"insert", "update"} /\ call'[c].then = "recheck"
    <3>1. c \in Going /\ c \notin Going'
      BY <2>3, <1>4 DEF Going
    <3>2. Going' \subseteq Going /\ Busy' \subseteq Busy
      BY <2>3, <1>2, <1>4 DEF Going, Busy
    <3>3. Cardinality(Going') < Cardinality(Going) /\ Cardinality(Busy') <= Cardinality(Busy)
      BY <3>1, <3>2, <1>6, <1>7
    <3> QED
      BY <3>3, <1>1, <1>6
  <2> QED
    BY <2>1, <2>2, <2>3 DEF StepsMove
<1> QED
  BY <1>1, <1>8 DEF Bounded

(* Every step that moves rows, objects and calls as described keeps the      *)
(* invariant.                                                                *)
LEMMA MovesKeepInv ==
    ASSUME Inv, NEW c \in Clients, Moves(c), Ticks
    PROVE  Inv'
<1>1. TheTable /\ HandsOut /\ Rows /\ Objects /\ Calls /\ Bounded
  BY DEF Inv
<1>2. RowsMove /\ ObjectMoves(c) /\ CallMoves(c) /\ StepsMove(c)
  BY DEF Moves
<1>3. UNCHANGED <<scenario, meta>> /\ steps' = steps + 1
  BY DEF Ticks
<1>4. TheTable'
  BY <1>1, <1>3 DEF TheTable
<1>5. HandsOut'
  BY <1>1, <1>2, HandsOutKept
<1>6. Rows'
  BY <1>1, <1>2, <1>3, RowsKept
<1>7. Objects'
  BY <1>1, <1>2, <1>3, ObjectsKept
<1>8. Calls'
  <2>1. entity = [d \in Clients |-> entity[d]]
    BY <1>1 DEF Objects
  <2> QED
    BY <2>1, <1>1, <1>2, <1>3, CallsKept
<1>9. Bounded'
  BY <1>1, <1>2, <1>3, BoundedKept
<1> QED
  BY <1>4, <1>5, <1>6, <1>7, <1>8, <1>9 DEF Inv

-----------------------------------------------------------------------------
(* What a sent statement does                                                *)

Refuses(c, op, given) ==
    \E answer \in {"compile", "server", "none", "concurrency"} :
        Answers(c, op, given, answer) /\ Unwritten
Adds(c, op, given, s) ==
    /\ s.ok /\ ~InsertRefused(s.value)
    /\ db' = db \cup {Inserted(s.value)} /\ Counted
    /\ Returns(c, op, given, Inserted(s.value))
Rewrites(c, op, given, s, r) ==
    /\ s.ok /\ ~UpdateRefused(s.value) /\ Matches(r, s.value.filter) /\ s.value.changes # <<>>
    /\ db' = (db \ {r}) \cup {Changed(r, s.value.changes)} /\ Unread
    /\ IF op \in {"remove", "delete"} THEN Answers(c, op, given, "ok") /\ UNCHANGED entity
       ELSE Returns(c, op, given, Changed(r, s.value.changes))
Erases(c, op, given, s, r) ==
    /\ s.ok /\ Matches(r, s.value.filter) /\ s.value.changes = <<>>
    /\ db' = db \ {r} /\ Unread
    /\ Answers(c, op, given, "ok") /\ UNCHANGED entity
Misses(c, op, s, token) ==
    /\ s.ok /\ ~\E r \in db : Matches(r, s.value.filter)
    /\ token # None /\ Continues(c, op, "recheck", s.value.filter.key, token) /\ Unwritten

(* What an insert does: it is refused or adds the row the server makes of    *)
(* its values.                                                               *)
LEMMA InsertDoes ==
    ASSUME HandsOut, NEW c, NEW op, NEW given, Inserts(c, op, given)
    PROVE  Refuses(c, op, given) \/ Adds(c, op, given, InsertStatement(c, given))
<1> DEFINE s == InsertStatement(c, given)
<1>1. SendsInsert(c, op, given, s)
  BY DEF Inserts
<1> HIDE DEF s
<1>2. CASE ~s.ok /\ Answers(c, op, given, "compile") /\ Unwritten
  BY <1>2 DEF Refuses
<1>3. CASE s.ok /\ InsertRefused(s.value) /\ Answers(c, op, given, "server") /\ Unwritten
  BY <1>3 DEF Refuses
<1>4. CASE /\ s.ok /\ ~InsertRefused(s.value)
           /\ db' = db \cup {Inserted(s.value)}
           /\ next' = [Bumped EXCEPT !.id = @ + 1]
           /\ Returns(c, op, given, Inserted(s.value))
  <2>1. next = [id |-> next.id, version |-> next.version]
    BY DEF HandsOut
  <2>2. Bumped = [id |-> next.id, version |-> next.version + 1]
    BY <2>1 DEF Bumped
  <2>3. Counted
    BY <1>4, <2>2 DEF Counted
  <2> QED
    BY <1>4, <2>3 DEF Adds, s
<1> QED
  BY <1>1, <1>2, <1>3, <1>4 DEF SendsInsert

(* What an update or delete does: it is refused, misses, or rewrites or      *)
(* erases one row.                                                           *)
LEMMA WriteDoes ==
    ASSUME HandsOut, NEW c, NEW op, NEW given, NEW s, NEW token, Writes(c, op, given, s, token)
    PROVE  \/ Refuses(c, op, given) \/ Misses(c, op, s, token)
           \/ \E r \in db : Rewrites(c, op, given, s, r)
           \/ \E r \in db : Erases(c, op, given, s, r)
<1>1. CASE ~s.ok /\ Answers(c, op, given, "compile") /\ Unwritten
  BY <1>1 DEF Refuses
<1>2. CASE s.ok /\ UpdateRefused(s.value) /\ Answers(c, op, given, "server") /\ Unwritten
  BY <1>2 DEF Refuses
<1>3. CASE /\ s.ok /\ ~UpdateRefused(s.value)
           /\ ~\E r \in db : Matches(r, s.value.filter)
           /\ IF token = None THEN Answers(c, op, given, Missed(op))
              ELSE Continues(c, op, "recheck", s.value.filter.key, token)
           /\ Unwritten
  <2>1. CASE token = None
    <3>1. Missed(op) \in {"none", "concurrency"}
      BY DEF Missed
    <3> QED
      BY <1>3, <2>1, <3>1 DEF Refuses
  <2>2. CASE token # None
    BY <1>3, <2>2 DEF Misses
  <2> QED
    BY <2>1, <2>2
<1>4. CASE /\ s.ok /\ ~UpdateRefused(s.value)
           /\ \E r \in db :
                /\ Matches(r, s.value.filter)
                /\ next' = Bumped
                /\ IF s.value.changes = <<>>
                   THEN db' = db \ {r} /\ Answers(c, op, given, "ok") /\ UNCHANGED entity
                   ELSE /\ db' = (db \ {r}) \cup {Changed(r, s.value.changes)}
                        /\ IF op \in {"remove", "delete"}
                           THEN Answers(c, op, given, "ok") /\ UNCHANGED entity
                           ELSE Returns(c, op, given, Changed(r, s.value.changes))
  <2>1. PICK r \in db :
            /\ Matches(r, s.value.filter)
            /\ next' = Bumped
            /\ IF s.value.changes = <<>>
               THEN db' = db \ {r} /\ Answers(c, op, given, "ok") /\ UNCHANGED entity
               ELSE /\ db' = (db \ {r}) \cup {Changed(r, s.value.changes)}
                    /\ IF op \in {"remove", "delete"}
                       THEN Answers(c, op, given, "ok") /\ UNCHANGED entity
                       ELSE Returns(c, op, given, Changed(r, s.value.changes))
    BY <1>4
  <2>2. next = [id |-> next.id, version |-> next.version]
    BY DEF HandsOut
  <2>3. Unread
    BY <2>1, <2>2 DEF Bumped, Unread
  <2>4. CASE s.value.changes = <<>>
    BY <1>4, <2>1, <2>3, <2>4 DEF Erases
  <2>5. CASE s.value.changes # <<>>
    BY <1>4, <2>1, <2>3, <2>5 DEF Rewrites
  <2> QED
    BY <2>4, <2>5
<1> QED
  BY <1>1, <1>2, <1>3, <1>4 DEF Writes

(* A step that answers ends the client's call with that answer.              *)
LEMMA CallEnds ==
    ASSUME Calls, NEW c \in Clients, NEW op, NEW given, NEW answer, Answers(c, op, given, answer)
    PROVE  /\ CallMoves(c) /\ call'[c] = None
           /\ last' = [by |-> c, op |-> op, given |-> given, answer |-> answer]
BY DEF Answers, CallMoves, Calls

(* A written row that cannot be read back is a mapping error and leaves the  *)
(* object; a read one is ok and is what a saved object becomes.              *)
LEMMA ReturnMoves ==
    ASSUME TheTable, Calls, NEW c \in Clients, NEW op, NEW given, NEW row, NEW id,
           RowFits(meta, row, id, next'.version), Returns(c, op, given, row)
    PROVE  /\ ObjectMoves(c) /\ CallMoves(c) /\ call'[c] = None
           /\ \/ last' = [by |-> c, op |-> op, given |-> given, answer |-> "mapping"]
                 /\ ~FromRowFits(Own, row) /\ UNCHANGED entity
              \/ last' = [by |-> c, op |-> op, given |-> given, answer |-> "ok"]
                 /\ entity' = IF op = "save" THEN [entity EXCEPT ![c] = FromRow(Own, row)]
                              ELSE entity
<1>1. ObjectFits(meta, FromRow(Own, row), next'.version)
  BY TableWellMade, ReadObject DEF Own
<1>2. CASE ~FromRowFits(Own, row) /\ Answers(c, op, given, "mapping") /\ UNCHANGED entity
  BY <1>2, CallEnds DEF ObjectMoves
<1>3. CASE /\ Answers(c, op, given, "ok")
           /\ entity' = IF op = "save" THEN SyncPersisted(c, row) ELSE entity
  <2>1. /\ CallMoves(c) /\ call'[c] = None
        /\ last' = [by |-> c, op |-> op, given |-> given, answer |-> "ok"]
    BY <1>3, CallEnds
  <2>2. entity' = [entity EXCEPT ![c] = FromRow(Own, row)] \/ entity' = entity
    BY <1>3 DEF SyncPersisted
  <2> QED
    BY <1>1, <1>3, <2>1, <2>2 DEF ObjectMoves, SyncPersisted
<1> QED
  BY <1>2, <1>3 DEF Returns

(* Every row an INSERT or UPDATE writes carries the next version.            *)
LEMMA NewVersion ==
    ASSUME WellMade(meta), Rowversion # None
    PROVE  /\ Rowversion \in ToSet(AllColumns) /\ Rowversion.rowversion
           /\ \A values : Inserted(values)[Rowversion.name] = next.version
           /\ \A row, changes : DOMAIN row = Names(AllColumns) =>
                Changed(row, changes)[Rowversion.name] = next.version
<1>1. Rowversion \in ToSet(AllColumns) /\ Rowversion.rowversion
  BY TheRowversion DEF WellMade, Rowversion, AllColumns
<1> QED
  BY <1>1, InsertedIs, ChangedIs

(* An accepted insert adds one fitting row under a key no row has and ends   *)
(* the call.                                                                 *)
LEMMA AddsMove ==
    ASSUME Inv, NEW c \in Clients, NEW op, NEW given, NEW s, Adds(c, op, given, s),
           ValuesFit(s.value)
    PROVE  /\ RowsMove /\ ObjectMoves(c) /\ CallMoves(c) /\ call'[c] = None
           /\ RowFits(meta, Inserted(s.value), next.id + 1, next.version + 1)
           /\ \A r \in db : ~SameKey(r, Inserted(s.value))
<1> DEFINE row == Inserted(s.value)
<1>1. TheTable /\ HandsOut /\ Rows /\ Calls /\ WellMade(meta)
  BY TableWellMade DEF Inv
<1>2. RowFits(meta, row, next.id + 1, next.version + 1) /\ \A r \in db : ~SameKey(r, row)
  BY <1>1, InsertedFits DEF Adds
<1>3. Rowversion # None => row[Rowversion.name] = next.version
  BY <1>1, NewVersion
<1> HIDE DEF row
<1>4. db' = db \cup {row} /\ Counted /\ Returns(c, op, given, row)
  BY DEF Adds, row
<1>5. next'.id = next.id + 1 /\ next'.version = next.version + 1
  BY <1>4 DEF Counted
<1>6. \A t \in db' \ db : t = row
  BY <1>4
<1>7. RowFits(meta, row, next'.id, next'.version)
  BY <1>2, <1>5
<1>8. RowsMove
  BY <1>2, <1>3, <1>4, <1>6, <1>7 DEF RowsMove
<1> QED
  BY <1>1, <1>2, <1>4, <1>7, <1>8, ReturnMoves DEF row

(* The row an accepted update leaves fits the table and has the key of the   *)
(* row it replaces.                                                          *)
LEMMA RewriteFits ==
    ASSUME Inv, NEW c, NEW op, NEW given, NEW s, NEW r \in db, Rewrites(c, op, given, s, r),
           ChangesFit(s.value.changes)
    PROVE  LET row == Changed(r, s.value.changes)
           IN  /\ RowFits(meta, row, next.id, next.version + 1) /\ SameKey(r, row)
               /\ ~Assigns(s.value.changes, ServerOwned) /\ ~HasForbiddenNull(row)
               /\ DOMAIN r = Names(AllColumns)
<1>1. TheTable /\ HandsOut /\ Rows
  BY DEF Inv
<1>2. ~Assigns(s.value.changes, ServerOwned) /\ ~HasForbiddenNull(Changed(r, s.value.changes))
  BY DEF Rewrites, UpdateRefused
<1>3. RowFits(meta, r, next.id, next.version)
  BY <1>1 DEF Rows
<1> QED
  BY <1>1, <1>2, <1>3, ChangedFits DEF SameKey, RowFits, AllColumns

(* An accepted update replaces one row by a fitting one of its key and ends  *)
(* the call.                                                                 *)
LEMMA RewritesMove ==
    ASSUME Inv, NEW c \in Clients, NEW op, NEW given, NEW s, NEW r \in db,
           Rewrites(c, op, given, s, r), ChangesFit(s.value.changes)
    PROVE  RowsMove /\ ObjectMoves(c) /\ CallMoves(c) /\ call'[c] = None
<1> DEFINE row == Changed(r, s.value.changes)
<1>1. TheTable /\ HandsOut /\ Rows /\ Calls /\ WellMade(meta)
  BY TableWellMade DEF Inv
<1>2. /\ RowFits(meta, row, next.id, next.version + 1) /\ SameKey(r, row)
      /\ DOMAIN r = Names(AllColumns)
  BY RewriteFits
<1>3. Rowversion # None => row[Rowversion.name] = next.version
  BY <1>1, <1>2, NewVersion
<1> HIDE DEF row
<1>4. /\ db' = (db \ {r}) \cup {row} /\ Unread
      /\ IF op \in {"remove", "delete"} THEN Answers(c, op, given, "ok") /\ UNCHANGED entity
         ELSE Returns(c, op, given, row)
  BY DEF Rewrites, row
<1>5. next'.id = next.id /\ next'.version = next.version + 1
  BY <1>4 DEF Unread
<1>6. \A t \in db' \ db : t = row
  BY <1>4
<1>7. RowFits(meta, row, next'.id, next'.version)
  BY <1>2, <1>5
<1>8. ASSUME row \notin db, NEW t \in db \cap db', SameKey(t, row)
      PROVE  FALSE
  <2>1. SameKey(t, r)
    BY <1>2, <1>8 DEF SameKey
  <2>2. t = r
    BY <2>1, <1>1 DEF Rows
  <2> QED
    BY <2>2, <1>4, <1>8
<1>9. RowsMove
  BY <1>3, <1>4, <1>6, <1>7, <1>8 DEF RowsMove
<1>10. ObjectMoves(c) /\ CallMoves(c) /\ call'[c] = None
  <2>1. CASE op \in {"remove", "delete"}
    BY <1>1, <1>4, <2>1, CallEnds DEF ObjectMoves
  <2>2. CASE op \notin {"remove", "delete"}
    BY <1>1, <1>4, <1>7, <2>2, ReturnMoves
  <2> QED
    BY <2>1, <2>2
<1> QED
  BY <1>9, <1>10

(* An accepted DELETE removes one row and ends the call.                     *)
LEMMA ErasesMove ==
    ASSUME Inv, NEW c \in Clients, NEW op, NEW given, NEW s, NEW r \in db,
           Erases(c, op, given, s, r)
    PROVE  RowsMove /\ ObjectMoves(c) /\ CallMoves(c) /\ call'[c] = None
<1>1. Unread /\ db' \ db = {} /\ Answers(c, op, given, "ok") /\ UNCHANGED entity
  BY DEF Erases
<1>2. RowsMove
  BY <1>1 DEF RowsMove
<1> QED
  BY <1>1, <1>2, CallEnds DEF ObjectMoves, Inv

(* A refused statement changes neither rows nor objects and ends the call.   *)
LEMMA RefusesMove ==
    ASSUME Inv, NEW c \in Clients, NEW op, NEW given, Refuses(c, op, given)
    PROVE  RowsMove /\ ObjectMoves(c) /\ CallMoves(c) /\ call'[c] = None
BY CallEnds DEF Refuses, Unwritten, RowsMove, ObjectMoves, Inv

(* The token of every statement is a version that was handed out.            *)
LEMMA AskedToken ==
    ASSUME Inv, NEW c \in Clients, NEW op, NEW given, NEW s, NEW key, NEW token,
           Asks(c, op, given, s, key, token), token # None
    PROVE  token \in 0 .. next.version - 1
<1>1. WellMade(meta) /\ next.version \in Nat /\ FirstIssued <= next.version
  BY TableWellMade DEF Inv, HandsOut
<1>2. CASE token \in Issued
  BY <1>1, <1>2 DEF Issued, FirstIssued
<1>3. CASE entity[c] # None /\ token = Token(c)
  <2>1. ObjectFits(meta, entity[c], next.version)
    BY <1>3 DEF Inv, Objects
  <2> QED
    BY <2>1, <1>1, <1>3, ObjectToken DEF Token
<1> QED
  BY <1>2, <1>3 DEF Asks

(* A write that matched nothing changes no row, and ends the call or leaves  *)
(* it to recheck.                                                            *)
LEMMA MissesMove ==
    ASSUME Inv, NEW c \in Clients, NEW op, NEW given, NEW s, NEW key, NEW token,
           Asks(c, op, given, s, key, token), Misses(c, op, s, token)
    PROVE  /\ RowsMove /\ ObjectMoves(c) /\ CallMoves(c)
           /\ call'[c] # None => call'[c].then = "recheck"
           /\ last' = None
<1>1. TheTable /\ Objects /\ Calls
  BY DEF Inv
<1>2. s.ok /\ token # None /\ Unwritten /\ Continues(c, op, "recheck", s.value.filter.key, token)
  BY DEF Misses
<1>3. /\ WriteFilter(c, key, token).ok /\ s.value.filter = WriteFilter(c, key, token).value
  BY <1>1, <1>2, WhatIsSent DEF Sent
<1>4. Versioned(c) /\ s.value.filter.key = key
  BY <1>2, <1>3, FilterSent DEF Versioned
<1>5. \A r \in db : Reaches(meta, ActiveTenant(c), key, r) => r[Rowversion.name] # token
  BY <1>1, <1>2, <1>3, MatchesIs DEF Misses
<1>6. token \in 0 .. next.version - 1
  BY <1>2, AskedToken
<1>7. Outdated(meta, ActiveTenant(c), db, next.version, key, token)
  BY <1>5, <1>6 DEF Outdated, Rowversion, AllColumns
<1> DEFINE rec == [op |-> op, then |-> "recheck", key |-> key, token |-> token]
<1>8. call' = [call EXCEPT ![c] = rec] /\ last' = None
  BY <1>2, <1>4 DEF Continues
<1>9. rec.then = "recheck" /\ rec.key = key /\ rec.token = token
  OBVIOUS
<1>10. db' = db /\ next' = next /\ entity' = entity
  BY <1>2 DEF Unwritten
<1>11. call'[c] = rec
  BY <1>1, <1>8 DEF Calls
<1> HIDE DEF rec
<1>12. CallMoves(c)
  BY <1>4, <1>7, <1>8, <1>9, <1>10 DEF CallMoves
<1> QED
  BY <1>8, <1>9, <1>10, <1>11, <1>12 DEF RowsMove, ObjectMoves

(* An insert moves rows, objects and calls as the invariant allows.          *)
LEMMA InsertsMove ==
    ASSUME Inv, NEW c \in Clients, NEW op, NEW given, Valued(given), Inserts(c, op, given)
    PROVE  RowsMove /\ ObjectMoves(c) /\ CallMoves(c) /\ call'[c] = None
<1>1. TheTable /\ HandsOut
  BY DEF Inv
<1>2. CASE Refuses(c, op, given)
  BY <1>2, RefusesMove
<1>3. CASE Adds(c, op, given, InsertStatement(c, given))
  <2>1. ValuesFit(InsertStatement(c, given).value)
    BY <1>1, <1>3, InsertSent DEF Adds
  <2> QED
    BY <2>1, <1>3, AddsMove
<1> QED
  BY <1>1, <1>2, <1>3, InsertDoes

(* An update or delete moves rows, objects and calls as the invariant        *)
(* allows.                                                                   *)
LEMMA WritesMove ==
    ASSUME Inv, NEW c \in Clients, NEW op, NEW given, NEW s, NEW key, NEW token,
           Asks(c, op, given, s, key, token), Writes(c, op, given, s, token)
    PROVE  /\ RowsMove /\ ObjectMoves(c) /\ CallMoves(c)
           /\ call'[c] = None \/ call'[c].then = "recheck"
<1>1. TheTable /\ HandsOut /\ Objects
  BY DEF Inv
<1>2. Sent(c, key, token, s)
  BY <1>1, WhatIsSent
<1>3. CASE Refuses(c, op, given)
  BY <1>3, RefusesMove
<1>4. CASE Misses(c, op, s, token)
  BY <1>4, MissesMove
<1>5. CASE \E r \in db : Rewrites(c, op, given, s, r)
  <2>1. PICK r \in db : Rewrites(c, op, given, s, r)
    BY <1>5
  <2>2. ChangesFit(s.value.changes)
    BY <1>2, <2>1 DEF Sent, Rewrites
  <2> QED
    BY <2>1, <2>2, RewritesMove
<1>6. CASE \E r \in db : Erases(c, op, given, s, r)
  BY <1>6, ErasesMove
<1> QED
  BY <1>1, <1>3, <1>4, <1>5, <1>6, WriteDoes

-----------------------------------------------------------------------------
(* Every step inserts, writes, or leaves the rows alone                      *)

Puts(c, op, given) ==
    /\ Inserts(c, op, given) /\ Valued(given)
    /\ \/ /\ op = "save" /\ entity[c] # None /\ given = InsertValues(Own, entity[c])
          /\ PersistMode(Own, entity[c]) \in {"insert", "insertOrUpdate"}
       \/ op = "insert" /\ \E g \in model.insertables : given = InsertableValues(AllColumns, g)
Sends(c) ==
    \/ \E op, given : Puts(c, op, given)
    \/ \E op, given, s, key, token :
            Asks(c, op, given, s, key, token) /\ Writes(c, op, given, s, token)
Rests(c) ==
    /\ UNCHANGED <<db, next>> /\ ObjectMoves(c) /\ CallMoves(c)
    /\ \/ last' = None
       \/ \E op, answer :
            /\ last' = [by |-> c, op |-> op, given |-> <<>>, answer |-> answer]
            /\ \/ op = "find" /\ answer # "server"
               \/ answer \in {"compile", "mapping", "conflict", "none", "concurrency"}

(* Every step that sends a statement moves as the invariant allows.          *)
LEMMA SendsMove ==
    ASSUME Inv, NEW c \in Clients, Sends(c)
    PROVE  /\ RowsMove /\ ObjectMoves(c) /\ CallMoves(c)
           /\ call'[c] = None \/ call'[c].then = "recheck"
BY InsertsMove, WritesMove DEF Sends, Puts

(* A step that sends no statement leaves every row alone.                    *)
LEMMA RestsMove ==
    ASSUME NEW c \in Clients, Rests(c)
    PROVE  RowsMove /\ ObjectMoves(c) /\ CallMoves(c)
BY DEF Rests, RowsMove

(* persist_mode: no single key is an error, a natural key is looked up       *)
(* first, an identity inserts when it is zero and updates otherwise.         *)
LEMMA TheMode ==
    ASSUME TheTable, NEW object
    PROVE  /\ PersistMode(Own, object) \in {"error", "insert", "update", "insertOrUpdate"}
           /\ PersistMode(Own, object) = "error" <=> Len(PrimaryKey) # 1
           /\ PersistMode(Own, object) = "insertOrUpdate" <=>
                Len(PrimaryKey) = 1 /\ ~PrimaryKey[1].identity
           /\ PersistMode(Own, object) = "insert" => object[PrimaryKey[1].name] = 0
<1>1. KeyColumns(Own) = PrimaryKey
  BY TheMetadata DEF TheTable, Own, PrimaryKey
<1> QED
  BY <1>1 DEF PersistMode

(* Save's insert sends an INSERT of the object's values.                     *)
LEMMA SavesInsert ==
    ASSUME Inv, NEW c \in Clients, entity[c] # None, SaveInserts(c),
           PersistMode(Own, entity[c]) \in {"insert", "insertOrUpdate"}
    PROVE  Sends(c)
<1>1. Valued(InsertValues(Own, entity[c]))
  BY TableWellMade, SavedValues DEF Inv, Objects
<1>2. Puts(c, "save", InsertValues(Own, entity[c]))
  BY <1>1 DEF Puts, SaveInserts
<1> QED
  BY <1>2 DEF Sends

(* Save's update sends an UPDATE by the object's key and token.              *)
LEMMA SavesUpdate ==
    ASSUME NEW c \in Clients, entity[c] # None, SaveUpdates(c)
    PROVE  Sends(c)
<1> DEFINE given == UpdateChanges(Own, entity[c])
           s == UpdateStatement(c, Key(c), given, Token(c))
<1>1. Writes(c, "save", given, s, Token(c))
  BY DEF SaveUpdates
<1>2. Asks(c, "save", given, s, Key(c), Token(c))
  BY DEF Asks
<1> HIDE DEF given, s
<1> QED
  BY <1>1, <1>2 DEF Sends

(* DbSet::find sends no write and gives its client a fitting object or       *)
(* leaves it.                                                                *)
LEMMA FindRests ==
    ASSUME Inv, NEW c \in Clients, Find(c)
    PROVE  Rests(c) /\ call[c] = None /\ steps < MaxSteps /\ call'[c] = None
<1>1. Idle(c) /\ UNCHANGED <<db, next>>
  BY DEF Find
<1>2. TheTable /\ Rows /\ Calls /\ WellMade(meta)
  BY TableWellMade DEF Inv
<1>3. CASE \E answer \in {"compile", "none", "mapping"} :
            Answers(c, "find", <<>>, answer) /\ UNCHANGED entity
  BY <1>1, <1>2, <1>3, CallEnds DEF Rests, ObjectMoves, Idle
<1>4. CASE \E r \in db : /\ Answers(c, "find", <<>>, "ok")
                         /\ entity' = [entity EXCEPT ![c] = FromRow(Own, r)]
  <2>1. PICK r \in db : /\ Answers(c, "find", <<>>, "ok")
                        /\ entity' = [entity EXCEPT ![c] = FromRow(Own, r)]
    BY <1>4
  <2>2. /\ CallMoves(c) /\ call'[c] = None
        /\ last' = [by |-> c, op |-> "find", given |-> <<>>, answer |-> "ok"]
    BY <1>2, <2>1, CallEnds
  <2>3. RowFits(meta, r, next.id, next'.version)
    BY <1>1, <1>2 DEF Rows
  <2>4. ObjectFits(meta, FromRow(Own, r), next'.version)
    BY <1>2, <2>3, ReadObject DEF Own
  <2>5. ObjectMoves(c)
    BY <2>1, <2>2, <2>4 DEF ObjectMoves
  <2>6. \E op, answer :
            /\ last' = [by |-> c, op |-> op, given |-> <<>>, answer |-> answer]
            /\ \/ op = "find" /\ answer # "server"
               \/ answer \in {"compile", "mapping", "conflict", "none", "concurrency"}
    <3>1. "find" = "find" /\ "ok" # "server"
      OBVIOUS
    <3> QED
      BY <2>2, <3>1, Zenon
  <2>7. Rests(c)
    BY <1>1, <2>2, <2>5, <2>6 DEF Rests
  <2> QED
    BY <1>1, <2>2, <2>7 DEF Idle
<1>5. \A key : Found(c, key, FALSE) \subseteq db
  BY DEF Found
<1>6. \/ \E answer \in {"compile", "none", "mapping"} :
            Answers(c, "find", <<>>, answer) /\ UNCHANGED entity
      \/ \E r \in db : /\ Answers(c, "find", <<>>, "ok")
                       /\ entity' = [entity EXCEPT ![c] = FromRow(Own, r)]
  BY <1>5 DEF Find
<1> QED
  BY <1>3, <1>4, <1>6

(* A client's own work on its object keeps it fitting and sends nothing.     *)
LEMMA CreateRests ==
    ASSUME Inv, NEW c \in Clients, Create(c) \/ Edit(c)
    PROVE  Rests(c) /\ call[c] = None /\ steps < MaxSteps /\ call'[c] = None
<1>1. /\ call[c] = None /\ steps < MaxSteps
      /\ UNCHANGED <<db, next, call>> /\ last' = None
  BY DEF Create, Edit, Idle
<1>2. InputsFit(model, meta) /\ next.version \in Nat /\ FirstIssued <= next.version
  BY TheInputs DEF Inv, HandsOut
<1>3. \A v \in Issued : v \in 0 .. next'.version - 1
  BY <1>1, <1>2 DEF Issued, FirstIssued
<1>4. CASE Create(c)
  <2>1. PICK o \in model.fresh : entity' = [entity EXCEPT ![c] = o]
    BY <1>4 DEF Create
  <2>2. Holds(meta.own, o)
    BY <1>2, <2>1, TheInputs DEF InputsFit, Inv
  <2>3. /\ DOMAIN o = Names(meta.own)
        /\ \A i \in DOMAIN meta.own :
            o[meta.own[i].name] # None
            /\ (meta.own[i].rowversion => o[meta.own[i].name] \in Issued)
    BY <2>2 DEF Holds
  <2>4. \A k \in ToSet(meta.own) :
            o[k.name] # None /\ (k.rowversion => o[k.name] \in Issued)
    BY <2>3 DEF ToSet
  <2>5. ObjectFits(meta, o, next'.version)
    BY <2>3, <2>4, <1>3 DEF ObjectFits
  <2> QED
    BY <1>1, <2>1, <2>5 DEF Rests, ObjectMoves, CallMoves
<1>5. CASE Edit(c)
  <2>1. PICK e \in model.edits : entity' = [entity EXCEPT ![c][e.column] = e.value]
    BY <1>5 DEF Edit
  <2>2. /\ e.column \in Names(meta.own) /\ e.value # None
        /\ \A i \in DOMAIN meta.own :
            meta.own[i].name = e.column /\ meta.own[i].rowversion => e.value \in Issued
    BY <1>2, <2>1 DEF InputsFit
  <2> DEFINE o == [entity[c] EXCEPT ![e.column] = e.value]
  <2>3. ObjectFits(meta, entity[c], next'.version)
    BY <1>1, <1>5 DEF Edit, Inv, Objects
  <2>4. /\ DOMAIN o = Names(meta.own)
        /\ \A name \in Names(meta.own) : o[name] = IF name = e.column THEN e.value ELSE entity[c][name]
    BY <2>3 DEF ObjectFits
  <2>5. entity' = [entity EXCEPT ![c] = o]
    BY <2>1
  <2> HIDE DEF o
  <2>6. ASSUME NEW k \in ToSet(meta.own)
        PROVE  o[k.name] # None /\ (k.rowversion => o[k.name] \in 0 .. next'.version - 1)
    <3>1. k.name \in Names(meta.own)
      BY NamesAre
    <3>2. CASE k.name = e.column
      <4>1. o[k.name] = e.value /\ (k.rowversion => e.value \in Issued)
        BY <2>2, <2>4, <3>1, <3>2 DEF ToSet
      <4> QED
        BY <4>1, <2>2, <1>3
    <3>3. CASE k.name # e.column
      BY <2>3, <2>4, <3>1, <3>3 DEF ObjectFits
    <3> QED
      BY <3>2, <3>3
  <2>7. ObjectFits(meta, o, next'.version)
    BY <2>4, <2>6 DEF ObjectFits
  <2> QED
    BY <1>1, <2>5, <2>7 DEF Rests, ObjectMoves, CallMoves
<1> QED
  BY <1>4, <1>5

(* A step that only answers leaves rows and objects alone.                   *)
LEMMA AnswerRests ==
    ASSUME Inv, NEW c \in Clients, NEW op,
           NEW answer \in {"compile", "mapping", "conflict", "none", "concurrency"},
           Answers(c, op, <<>>, answer), Unwritten
    PROVE  Rests(c) /\ call'[c] = None
<1>1. /\ CallMoves(c) /\ call'[c] = None
      /\ last' = [by |-> c, op |-> op, given |-> <<>>, answer |-> answer]
  BY CallEnds DEF Inv
<1>2. UNCHANGED <<db, next>> /\ ObjectMoves(c)
  BY DEF Unwritten, ObjectMoves
<1> QED
  BY <1>1, <1>2 DEF Rests

(* The first step of save sends a statement or only looks the key up.        *)
LEMMA SaveMoves ==
    ASSUME Inv, NEW c \in Clients, Save(c)
    PROVE  Rests(c) \/ Sends(c)
<1> DEFINE mode == PersistMode(Own, entity[c])
<1>1. entity[c] # None /\ Idle(c) /\ TheTable
  BY DEF Save, Inv
<1>2. CASE mode = "error" /\ Answers(c, "save", <<>>, "compile") /\ Unwritten
  BY <1>2, AnswerRests
<1>3. CASE mode = "insert" /\ SaveInserts(c)
  BY <1>1, <1>3, SavesInsert
<1>4. CASE mode = "update" /\ SaveUpdates(c)
  BY <1>1, <1>4, SavesUpdate
<1>5. CASE \E answer \in {"compile", "mapping"} : Answers(c, "save", <<>>, answer) /\ Unwritten
  BY <1>5, AnswerRests
<1>6. CASE /\ mode = "insertOrUpdate" /\ Unwritten
           /\ \E then \in {"insert", "update"} : Continues(c, "save", then, Key(c), Token(c))
  <2>1. PICK then \in {"insert", "update"} : Continues(c, "save", then, Key(c), Token(c))
    BY <1>6
  <2> DEFINE rec == [op |-> "save", then |-> then, key |-> Key(c), token |-> Token(c)]
  <2>2. call' = [call EXCEPT ![c] = rec] /\ rec.then \in {"insert", "update"} /\ last' = None
    BY <2>1 DEF Continues
  <2>3. Goes(meta, entity[c])
    BY <1>1, <1>6, TheMode DEF Goes, PrimaryKey
  <2>4. CallMoves(c) /\ ObjectMoves(c) /\ UNCHANGED <<db, next>>
    BY <1>6, <2>2, <2>3 DEF CallMoves, ObjectMoves, Unwritten
  <2> QED
    BY <2>2, <2>4 DEF Rests
<1>7. \/ mode = "error" /\ Answers(c, "save", <<>>, "compile") /\ Unwritten
      \/ mode = "insert" /\ SaveInserts(c)
      \/ mode = "update" /\ SaveUpdates(c)
      \/ \E answer \in {"compile", "mapping"} : Answers(c, "save", <<>>, answer) /\ Unwritten
      \/ /\ mode = "insertOrUpdate" /\ Unwritten
         /\ \E then \in {"insert", "update"} : Continues(c, "save", then, Key(c), Token(c))
  BY DEF Save
<1> QED
  BY <1>2, <1>3, <1>4, <1>5, <1>6, <1>7

(* A save that looked its key up goes on to send its statement.              *)
LEMMA GoesOnSends ==
    ASSUME Inv, NEW c \in Clients, SaveGoesOn(c)
    PROVE  Sends(c) /\ call[c] # None /\ call[c].then \in {"insert", "update"}
<1>1. /\ call[c] # None /\ call[c].then \in {"insert", "update"}
      /\ SaveUpdates(c) \/ SaveInserts(c)
  BY DEF SaveGoesOn
<1>2. Goes(meta, entity[c])
  <2>1. call[c].then # "recheck"
    BY <1>1
  <2> QED
    BY <1>1, <2>1 DEF Inv, Calls
<1>3. entity[c] # None /\ PersistMode(Own, entity[c]) = "insertOrUpdate"
  BY <1>2, TheMode DEF Inv, Goes, PrimaryKey
<1> QED
  BY <1>1, <1>3, SavesInsert, SavesUpdate

(* The check after a miss writes nothing and ends the call.                  *)
LEMMA RecheckRests ==
    ASSUME Inv, NEW c \in Clients, Recheck(c)
    PROVE  Rests(c) /\ call[c] # None /\ call'[c] = None
<1>1. PICK answer \in {"mapping", "conflict", "none", "concurrency"} :
            Answers(c, call[c].op, <<>>, answer)
  <2>1. Missed(call[c].op) \in {"none", "concurrency"}
    BY DEF Missed
  <2> QED
    BY <2>1 DEF Recheck
<1>2. call[c] # None /\ Unwritten
  BY DEF Recheck
<1> QED
  BY <1>1, <1>2, AnswerRests

(* ActiveRecord::delete sends a statement or fails on a key it cannot        *)
(* address.                                                                  *)
LEMMA DeleteMoves ==
    ASSUME Inv, NEW c \in Clients, DeleteObject(c)
    PROVE  Rests(c) \/ Sends(c)
<1>1. CASE Answers(c, "remove", <<>>, "compile") /\ Unwritten
  BY <1>1, AnswerRests
<1>2. CASE Writes(c, "remove", <<>>, DeleteStatement(c, Key(c), Token(c)), Token(c))
  <2>1. Asks(c, "remove", <<>>, DeleteStatement(c, Key(c), Token(c)), Key(c), Token(c))
    BY DEF Asks, DeleteObject
  <2> QED
    BY <1>2, <2>1 DEF Sends
<1> QED
  BY <1>1, <1>2 DEF DeleteObject

(* The writes of a DbSet send one statement, of a client with no call in     *)
(* progress.                                                                 *)
LEMMA DbSetSends ==
    ASSUME Inv, NEW c \in Clients, DbSetInsert(c) \/ DbSetUpdate(c) \/ DbSetDelete(c)
    PROVE  Sends(c) /\ Idle(c)
<1>1. TheTable
  BY DEF Inv
<1>2. CASE DbSetInsert(c)
  <2>1. PICK g \in model.insertables : Inserts(c, "insert", InsertableValues(AllColumns, g))
    BY <1>2 DEF DbSetInsert
  <2>2. Puts(c, "insert", InsertableValues(AllColumns, g))
    BY <1>1, <2>1, InsertedValues DEF Puts
  <2> QED
    BY <1>2, <2>2 DEF Sends, DbSetInsert
<1>3. CASE DbSetUpdate(c)
  <2>1. PICK key \in model.keys, g \in model.changesets :
            Writes(c, "update", ChangesetChanges(AllColumns, g),
                   UpdateStatement(c, key, ChangesetChanges(AllColumns, g),
                                   ChangesetToken(AllColumns, g)),
                   ChangesetToken(AllColumns, g))
    BY <1>3 DEF DbSetUpdate
  <2> DEFINE given == ChangesetChanges(AllColumns, g)
             token == ChangesetToken(AllColumns, g)
             s == UpdateStatement(c, key, given, token)
  <2>2. Valued(given) /\ token \in Issued \cup {None}
    BY <1>1, ChangedValues, ChangesetTokenIssued
  <2>3. Asks(c, "update", given, s, key, token)
    BY <2>2 DEF Asks
  <2>4. Writes(c, "update", given, s, token)
    BY <2>1
  <2> HIDE DEF given, token, s
  <2> QED
    BY <1>3, <2>3, <2>4 DEF Sends, DbSetUpdate
<1>4. CASE DbSetDelete(c)
  <2>1. PICK key \in model.keys : Writes(c, "delete", <<>>, DeleteStatement(c, key, None), None)
    BY <1>4 DEF DbSetDelete
  <2>2. Asks(c, "delete", <<>>, DeleteStatement(c, key, None), key, None)
    BY DEF Asks
  <2> QED
    BY <1>4, <2>1, <2>2 DEF Sends, DbSetDelete
<1> QED
  BY <1>2, <1>3, <1>4

(* Every step of a client sends one statement or rests, and pays its step.   *)
LEMMA StepCases ==
    ASSUME Inv, NEW c \in Clients, Step(c)
    PROVE  (Rests(c) \/ Sends(c)) /\ StepsMove(c)
<1>1. ASSUME call[c] = None, steps < MaxSteps
      PROVE  StepsMove(c)
  BY <1>1 DEF StepsMove
<1>2. CASE Find(c)
  BY <1>1, <1>2, FindRests
<1>3. CASE Create(c) \/ Edit(c)
  BY <1>1, <1>3, CreateRests
<1>4. CASE Save(c)
  BY <1>1, <1>4, SaveMoves DEF Save, Idle
<1>5. CASE SaveGoesOn(c)
  <2>1. Sends(c) /\ call[c] # None /\ call[c].then \in {"insert", "update"}
    BY <1>5, GoesOnSends
  <2>2. call'[c] = None \/ call'[c].then = "recheck"
    BY <2>1, SendsMove
  <2> QED
    BY <2>1, <2>2 DEF StepsMove
<1>6. CASE Recheck(c)
  BY <1>6, RecheckRests DEF StepsMove
<1>7. CASE DeleteObject(c)
  BY <1>1, <1>7, DeleteMoves DEF DeleteObject, Idle
<1>8. CASE DbSetInsert(c) \/ DbSetUpdate(c) \/ DbSetDelete(c)
  BY <1>1, <1>8, DbSetSends DEF Idle
<1> QED
  BY <1>2, <1>3, <1>4, <1>5, <1>6, <1>7, <1>8 DEF Step

(* Every step of the system keeps the invariant.                             *)
LEMMA NextKeepsInv ==
    ASSUME Inv, [Next]_vars
    PROVE  Inv'
<1>1. CASE UNCHANGED vars
  <2>1. UNCHANGED <<scenario, meta>> /\ db' = db /\ next' = next /\ entity' = entity
        /\ call' = call /\ steps' = steps
    BY <1>1 DEF vars
  <2>2. TheTable' /\ HandsOut' /\ Objects' /\ Bounded'
    BY <2>1 DEF Inv, TheTable, HandsOut, Objects, Bounded, Busy, Going
  <2>3. RowsMove
    BY <2>1 DEF RowsMove
  <2>4. Rows'
    BY <2>1, <2>3, RowsKept DEF Inv
  <2>5. Calls'
    <3>1. \A d : (Versioned(d)' <=> Versioned(d)) /\ ActiveTenant(d)' = ActiveTenant(d)
      BY <2>1, Unmoved
    <3> QED
      BY <2>1, <3>1 DEF Inv, Calls
  <2> QED
    BY <2>2, <2>4, <2>5 DEF Inv
<1>2. CASE Next
  <2>1. PICK c \in Clients : Step(c)
    BY <1>2 DEF Next
  <2>2. Ticks
    BY <1>2 DEF Next, Ticks
  <2>3. Moves(c)
    BY <2>1, StepCases, RestsMove, SendsMove DEF Moves
  <2> QED
    BY <2>2, <2>3, MovesKeepInv
<1> QED
  BY <1>1, <1>2

(* Whatever tables derive accepts, whatever the clients write in whatever    *)
(* order: rows fit their table under distinct keys, versions and identities  *)
(* are handed out once, objects fit their entity, and a call in progress     *)
(* knows of its key and token what it needs to end truthfully.               *)
THEOREM TablesStaySound == Spec => []Inv
<1>1. Init => Inv
  BY FirstState
<1>2. Inv /\ [Next]_vars => Inv'
  BY NextKeepsInv
<1> QED
  BY <1>1, <1>2, PTL DEF Spec

-----------------------------------------------------------------------------
(* What a write may touch                                                    *)

Answered(c, op, given) ==
    \E answer \in {"ok", "mapping"} :
        last' = [by |-> c, op |-> op, given |-> given, answer |-> answer]
Put(c, op, given) ==
    /\ Puts(c, op, given) /\ Answered(c, op, given)
    /\ Adds(c, op, given, InsertStatement(c, given))
Rewrote(c, op, given, s, key, token, r) ==
    /\ Asks(c, op, given, s, key, token) /\ Answered(c, op, given)
    /\ r \in db /\ Rewrites(c, op, given, s, r)
Erased(c, op, given, s, key, token, r) ==
    /\ Asks(c, op, given, s, key, token) /\ Answered(c, op, given)
    /\ r \in db /\ Erases(c, op, given, s, r)

(* A row added by an insert is reported as what its operation was given.     *)
LEMMA PutAnswers ==
    ASSUME Inv, NEW c \in Clients, NEW op, NEW given, Puts(c, op, given),
           Adds(c, op, given, InsertStatement(c, given))
    PROVE  Put(c, op, given)
<1>1. ValuesFit(InsertStatement(c, given).value)
  BY InsertSent DEF Inv, Puts, Adds
<1> DEFINE row == Inserted(InsertStatement(c, given).value)
<1>2. RowFits(meta, row, next.id + 1, next.version + 1)
  BY <1>1, AddsMove
<1>3. next'.version = next.version + 1 /\ Returns(c, op, given, row)
  BY DEF Adds, Counted
<1> HIDE DEF row
<1>4. Answered(c, op, given)
  BY <1>2, <1>3, ReturnMoves DEF Answered, Inv
<1> QED
  BY <1>4 DEF Put

(* A row changed by an update or a soft delete is reported under its         *)
(* operation.                                                                *)
LEMMA RewriteAnswers ==
    ASSUME Inv, NEW c \in Clients, NEW op, NEW given, NEW s, NEW key, NEW token, NEW r \in db,
           Asks(c, op, given, s, key, token), Rewrites(c, op, given, s, r)
    PROVE  Rewrote(c, op, given, s, key, token, r)
<1>1. ChangesFit(s.value.changes)
  BY WhatIsSent DEF Inv, Sent, Rewrites
<1> DEFINE row == Changed(r, s.value.changes)
<1>2. RowFits(meta, row, next.id, next.version + 1)
  BY <1>1, RewriteFits
<1>3. next'.version = next.version + 1
  BY DEF Rewrites, Unread
<1>4. CASE op \in {"remove", "delete"}
  <2>1. Answers(c, op, given, "ok")
    BY <1>4 DEF Rewrites
  <2> QED
    BY <2>1 DEF Answers, Answered, Rewrote
<1>5. CASE op \notin {"remove", "delete"}
  <2>1. Returns(c, op, given, row)
    BY <1>5 DEF Rewrites
  <2> HIDE DEF row
  <2>2. Answered(c, op, given)
    BY <1>2, <1>3, <2>1, ReturnMoves DEF Answered, Inv
  <2> QED
    BY <2>2 DEF Rewrote
<1> QED
  BY <1>4, <1>5

(* The database changes only by an insert, a rewrite or an erasure of one    *)
(* row.                                                                      *)
LEMMA WhatMoves ==
    ASSUME Inv, NEW c \in Clients, Step(c)
    PROVE  \/ UNCHANGED <<db, next>>
           \/ \E op, given : Put(c, op, given)
           \/ \E op, given, s, key, token, r :
                Rewrote(c, op, given, s, key, token, r) \/ Erased(c, op, given, s, key, token, r)
<1>1. HandsOut
  BY DEF Inv
<1>2. CASE Rests(c)
  BY <1>2 DEF Rests
<1>3. CASE \E op, given : Puts(c, op, given)
  <2>1. PICK op, given : Puts(c, op, given)
    BY <1>3
  <2>2. CASE Refuses(c, op, given)
    BY <2>2 DEF Refuses, Unwritten
  <2>3. CASE Adds(c, op, given, InsertStatement(c, given))
    BY <2>1, <2>3, PutAnswers
  <2> QED
    BY <1>1, <2>1, <2>2, <2>3, InsertDoes DEF Puts
<1>4. CASE \E op, given, s, key, token :
            Asks(c, op, given, s, key, token) /\ Writes(c, op, given, s, token)
  <2>1. PICK op, given, s, key, token :
            Asks(c, op, given, s, key, token) /\ Writes(c, op, given, s, token)
    BY <1>4
  <2>2. CASE Refuses(c, op, given)
    BY <2>2 DEF Refuses, Unwritten
  <2>3. CASE Misses(c, op, s, token)
    BY <2>3 DEF Misses, Unwritten
  <2>4. CASE \E r \in db : Rewrites(c, op, given, s, r)
    BY <2>1, <2>4, RewriteAnswers
  <2>5. CASE \E r \in db : Erases(c, op, given, s, r)
    <3>1. PICK r \in db : Erases(c, op, given, s, r)
      BY <2>5
    <3>2. Answered(c, op, given)
      BY <3>1 DEF Erases, Answers, Answered
    <3> QED
      BY <2>1, <3>1, <3>2 DEF Erased
  <2> QED
    BY <1>1, <2>1, <2>2, <2>3, <2>4, <2>5, WriteDoes
<1> QED
  BY <1>2, <1>3, <1>4, StepCases DEF Sends

(* A row that a sent statement matches has its key, its token and the        *)
(* caller's tenant.                                                          *)
LEMMA Reached ==
    ASSUME Inv, NEW c \in Clients, NEW op, NEW given, NEW s, NEW key, NEW token, NEW r,
           Asks(c, op, given, s, key, token), s.ok, Matches(r, s.value.filter)
    PROVE  /\ r[PrimaryKey[1].name] = key /\ Len(PrimaryKey) = 1
           /\ Scoped => r[TenantColumn.name] = ActiveTenant(c).value /\ TenantFits(c)
           /\ token # None => r[Rowversion.name] = token /\ Rowversion # None
           /\ ChangesFit(s.value.changes)
<1>1. Sent(c, key, token, s)
  BY WhatIsSent DEF Inv
<1>2. /\ WriteFilter(c, key, token).ok /\ s.value.filter = WriteFilter(c, key, token).value
      /\ ChangesFit(s.value.changes)
  BY <1>1 DEF Sent
<1>3. /\ Reaches(meta, ActiveTenant(c), key, r)
      /\ token # None => r[Rowversion.name] = token
  BY <1>2, MatchesIs DEF Inv
<1>4. /\ Len(PrimaryKey) = 1 /\ (Scoped => TenantFits(c))
      /\ token # None => Rowversion # None
  BY <1>2, FilterSent
<1> QED
  BY <1>2, <1>3, <1>4 DEF Reaches, PrimaryKey, Scoped, TenantColumn

(* No update changes the tenant of a row.                                    *)
LEMMA TenantUnchanged ==
    ASSUME Inv, Scoped, NEW r \in db, NEW changes, ChangesFit(changes)
    PROVE  Changed(r, changes)[TenantColumn.name] = r[TenantColumn.name]
<1>1. WellMade(meta) /\ DOMAIN r = Names(AllColumns)
  BY TableWellMade DEF Inv, Rows, RowFits, AllColumns
<1>2. TenantColumn \in ToSet(AllColumns) /\ TenantColumn.rowversion = FALSE
      /\ ~TenantColumn.updatable
  BY <1>1, TenantOfTable
<1>3. ~Named(changes, TenantColumn.name)
  BY <1>1, <1>2, NamedIs, AColumn DEF ChangesFit, UpdateColumnFits
<1> QED
  BY <1>1, <1>2, <1>3, ChangedIs

(* An inserted row belongs to the tenant of the client that sent it.         *)
LEMMA TenantInserted ==
    ASSUME Inv, Scoped, NEW c \in Clients, NEW op, NEW given, Put(c, op, given)
    PROVE  Inserted(InsertStatement(c, given).value)[TenantColumn.name] = ActiveTenant(c).value
<1> DEFINE values == InsertStatement(c, given).value
<1>1. Named(values, TenantColumn.name)
      /\ ValueOf(values, TenantColumn.name) = ActiveTenant(c).value
  BY InsertSent DEF Inv, Put, Puts, Adds
<1>2. WellMade(meta)
  BY TableWellMade DEF Inv
<1> HIDE DEF values
<1>3. /\ TenantColumn \in ToSet(AllColumns) /\ TenantColumn.rowversion = FALSE
      /\ TenantColumn.identity = FALSE /\ TenantColumn.computed = FALSE
  BY <1>2, TenantOfTable
<1>4. Inserted(values)[TenantColumn.name] = ValueOf(values, TenantColumn.name)
  BY <1>1, <1>2, <1>3, InsertedIs
<1> QED
  BY <1>1, <1>4 DEF values

TenantStep == Scoped => \A r \in Touched : r[TenantColumn.name] = ActiveTenant(last'.by).value
VersionStep ==
    Rowversion # None /\ Reports({"save", "remove"}) =>
        \A r \in db \ db' : r[Rowversion.name] = entity[last'.by][Rowversion.name]
IdentityStep ==
    Reports({"save"}) /\ PrimaryKey[1].identity /\ Key(last'.by) # 0 =>
        \A s \in db' : \E r \in db : KeyOf(r) = KeyOf(s)

(* An insert stays within its tenant, replaces no version and adds no row    *)
(* for an object that holds an identity.                                     *)
LEMMA PutConfined ==
    ASSUME Inv, NEW c \in Clients, NEW op, NEW given, Put(c, op, given)
    PROVE  TenantStep /\ VersionStep /\ IdentityStep
<1> DEFINE row == Inserted(InsertStatement(c, given).value)
<1>1. db' = db \cup {row}
  BY DEF Put, Adds
<1>2. Scoped => row[TenantColumn.name] = ActiveTenant(c).value
  BY TenantInserted
<1>3. last'.by = c /\ last'.op = op
  BY DEF Put, Answered
<1> HIDE DEF row
<1>4. TenantStep
  BY <1>1, <1>2, <1>3 DEF TenantStep, Touched
<1>5. VersionStep
  BY <1>1 DEF VersionStep
<1>6. IdentityStep
  <2>1. CASE op = "insert"
    BY <1>3, <2>1 DEF IdentityStep, Reports
  <2>2. CASE op = "save" /\ PersistMode(Own, entity[c]) \in {"insert", "insertOrUpdate"}
    <3>1. PrimaryKey[1].identity => Key(c) = 0
      BY <2>2, TheMode DEF Inv, Key, KeyOf
    <3> QED
      BY <1>3, <3>1 DEF IdentityStep
  <2> QED
    BY <2>1, <2>2 DEF Put, Puts
<1> QED
  BY <1>4, <1>5, <1>6

(* A rewrite or erasure stays within its tenant, the version it names and    *)
(* the keys that exist.                                                      *)
LEMMA WriteConfined ==
    ASSUME Inv, NEW c \in Clients, NEW op, NEW given, NEW s, NEW key, NEW token, NEW r \in db,
           Asks(c, op, given, s, key, token), Answered(c, op, given),
           Rewrites(c, op, given, s, r) \/ Erases(c, op, given, s, r)
    PROVE  TenantStep /\ VersionStep /\ IdentityStep
<1> DEFINE row == Changed(r, s.value.changes)
<1>1. db' = (db \ {r}) \cup {row} \/ db' = db \ {r}
  BY DEF Rewrites, Erases
<1>2. s.ok /\ Matches(r, s.value.filter)
  BY DEF Rewrites, Erases
<1>3. /\ Scoped => r[TenantColumn.name] = ActiveTenant(c).value
      /\ token # None => r[Rowversion.name] = token
      /\ ChangesFit(s.value.changes)
  BY <1>2, Reached
<1>4. Scoped => row[TenantColumn.name] = r[TenantColumn.name]
  BY <1>3, TenantUnchanged
<1>5. last'.by = c /\ last'.op = op
  BY DEF Answered
<1>6. Rewrites(c, op, given, s, r) => SameKey(r, row)
  BY <1>3, RewriteFits
<1>7. Rewrites(c, op, given, s, r) \/ db' = db \ {r}
  BY DEF Erases
<1> HIDE DEF row
<1>8. TenantStep
  BY <1>1, <1>3, <1>4, <1>5 DEF TenantStep, Touched
<1>9. VersionStep
  <2> SUFFICES ASSUME Rowversion # None, op \in {"save", "remove"}
               PROVE  r[Rowversion.name] = entity[c][Rowversion.name]
    BY <1>1, <1>5 DEF VersionStep, Reports
  <2>1. entity[c] # None /\ token = Token(c)
    BY DEF Asks
  <2>2. WellMade(meta) /\ ObjectFits(meta, entity[c], next.version)
    BY <2>1, TableWellMade DEF Inv, Objects
  <2>3. token = entity[c][Rowversion.name] /\ token # None
    BY <2>1, <2>2, ObjectToken DEF Token
  <2> QED
    BY <2>3, <1>3
<1>10. IdentityStep
  <2>1. 1 \in DOMAIN PrimaryKey
    BY TableWellMade, KeysAreColumns DEF Inv
  <2>2. \A t, u : SameKey(t, u) => KeyOf(t) = KeyOf(u)
    BY <2>1 DEF SameKey, KeyOf
  <2>3. \A t \in db' : \E u \in db : KeyOf(u) = KeyOf(t)
    <3>1. CASE db' = db \ {r}
      BY <3>1
    <3>2. CASE Rewrites(c, op, given, s, r)
      BY <3>2, <1>1, <1>6, <2>2
    <3> QED
      BY <1>7, <3>1, <3>2
  <2> QED
    BY <2>3 DEF IdentityStep
<1> QED
  BY <1>8, <1>9, <1>10

(* Every step stays within its tenant, its version and its row.              *)
LEMMA StepConfined ==
    ASSUME Inv, [Next]_vars
    PROVE  TenantStep /\ VersionStep /\ IdentityStep
<1>1. CASE UNCHANGED db
  BY <1>1 DEF TenantStep, VersionStep, IdentityStep, Touched
<1>2. CASE Next
  <2>1. PICK c \in Clients : Step(c)
    BY <1>2 DEF Next
  <2>2. CASE \E op, given : Put(c, op, given)
    BY <2>2, PutConfined
  <2>3. CASE \E op, given, s, key, token, r :
                Rewrote(c, op, given, s, key, token, r) \/ Erased(c, op, given, s, key, token, r)
    BY <2>3, WriteConfined DEF Rewrote, Erased
  <2> QED
    BY <1>1, <2>1, <2>2, <2>3, WhatMoves
<1> QED
  BY <1>1, <1>2 DEF vars

(* No write touches a row of another tenant, none replaces a version its     *)
(* object was not loaded with, and saving an object with an identity never   *)
(* adds a row: for every table, input and interleaving of clients.           *)
THEOREM WritesAreConfined == Spec => WritesConfined
<1>1. Inv /\ [Next]_vars => TenantStep /\ VersionStep /\ IdentityStep
  BY StepConfined
<1>2. Spec => [][TenantStep]_vars /\ [][VersionStep]_vars /\ [][IdentityStep]_vars
  BY <1>1, TablesStaySound, PTL DEF Spec
<1> QED
  BY <1>2 DEF WritesConfined, TenantConfined, NoLostUpdate, IdentitySavedOnce, TenantStep,
              VersionStep, IdentityStep

-----------------------------------------------------------------------------
(* Where the values of a write come from                                     *)

From(values, name, source) ==
    Named(values, name) /\ \A v \in ToSet(values) : v.column = name => v \in ToSet(source)

(* What the audit policy sends for a column comes from the caller, else from *)
(* the request, else from the provider, and only for columns that take it.   *)
LEMMA AuditSources ==
    ASSUME NEW op \in {"insert", "update"}, NEW values, Valued(values), NEW audit,
           AreValues(audit.request), AreValues(audit.provider[op]),
           ApplyAuditValues(op, values, audit).ok, AuditColumns # <<>>
    PROVE  LET all == ApplyAuditValues(op, values, audit).value
               provided == audit.provider[op]
           IN  /\ NoDuplicates(audit.request) /\ NoDuplicates(provided)
               /\ \A v \in ToSet(all) : v \in ToSet(values)
                    \/ (v.column \in Names(AuditColumns)
                        /\ v \in ToSet(audit.request) \cup ToSet(provided))
               /\ \A v \in ToSet(audit.request) \cup ToSet(provided) :
                    v.column \in Names(AuditColumns) /\ v.value = Null =>
                        ColumnNamed(AuditColumns, v.column).nullable
               /\ \A name \in Names(AuditColumns) :
                    /\ Named(values, name) => From(all, name, values)
                    /\ ~Named(values, name) /\ Named(audit.request, name) =>
                            From(all, name, audit.request)
                    /\ ~Named(values, name) /\ ~Named(audit.request, name)
                        /\ Named(provided, name) => From(all, name, provided)
                    /\ ~Named(values, name) /\ ~Named(audit.request, name)
                        /\ ~Named(provided, name) => ~Named(all, name)
<1> DEFINE request == audit.request
           provided == audit.provider[op]
           lists == <<values, request, provided>>
           first == AppendMissing(AuditColumns, values, request)
           all == AppendMissing(AuditColumns, first, provided)
           s == ApplyAuditValues(op, values, audit)
<1>1. /\ \A i \in 1 .. 3 : NoDuplicates(lists[i])
      /\ \A i \in 1 .. 3 : AllTake(AuditColumns, lists[i], LAMBDA c : AuditTakes(op, c))
      /\ s = Ok(all)
  BY DEF ApplyAuditValues, Compile
<1>2. s.value = all
  BY <1>1 DEF Ok
<1>3. lists[2] = request /\ lists[3] = provided /\ 2 \in 1 .. 3 /\ 3 \in 1 .. 3
  OBVIOUS
<1>4. NoDuplicates(request) /\ NoDuplicates(provided)
  BY <1>1, <1>3
<1>5. /\ AllTake(AuditColumns, request, LAMBDA c : AuditTakes(op, c))
      /\ AllTake(AuditColumns, provided, LAMBDA c : AuditTakes(op, c))
  BY <1>1, <1>3
<1>6. \A v \in ToSet(request) \cup ToSet(provided) :
        v.column \in Names(AuditColumns) /\ v.value = Null =>
            ColumnNamed(AuditColumns, v.column).nullable
  BY <1>5 DEF AllTake, ToSet
<1>7. Valued(request) /\ Valued(provided)
  BY ValuedIs
<1> HIDE DEF s, request, provided
<1>8. /\ IsList(first)
      /\ ToSet(first) = ToSet(values) \cup {v \in ToSet(request) :
            v.column \in Names(AuditColumns) /\ ~Named(values, v.column)}
  BY <1>7, Appended DEF Valued
<1> HIDE DEF first
<1>9. /\ IsList(all)
      /\ ToSet(all) = ToSet(first) \cup {v \in ToSet(provided) :
            v.column \in Names(AuditColumns) /\ ~Named(first, v.column)}
  BY <1>7, <1>8, Appended DEF Valued
<1> HIDE DEF all
<1>10. \A v \in ToSet(all) : v \in ToSet(values)
         \/ (v.column \in Names(AuditColumns) /\ v \in ToSet(request) \cup ToSet(provided))
  BY <1>8, <1>9
<1>11. \A name : /\ Named(values, name) <=> \E v \in ToSet(values) : v.column = name
                 /\ Named(request, name) <=> \E v \in ToSet(request) : v.column = name
                 /\ Named(provided, name) <=> \E v \in ToSet(provided) : v.column = name
                 /\ Named(first, name) <=> \E v \in ToSet(first) : v.column = name
                 /\ Named(all, name) <=> \E v \in ToSet(all) : v.column = name
  BY NamedIs
<1>12. ASSUME NEW name \in Names(AuditColumns)
       PROVE  /\ Named(values, name) => From(all, name, values)
              /\ ~Named(values, name) /\ Named(request, name) => From(all, name, request)
              /\ ~Named(values, name) /\ ~Named(request, name)
                  /\ Named(provided, name) => From(all, name, provided)
              /\ ~Named(values, name) /\ ~Named(request, name)
                  /\ ~Named(provided, name) => ~Named(all, name)
  <2>1. Named(first, name) <=> Named(values, name) \/ Named(request, name)
    BY <1>8, <1>11
  <2>2. CASE Named(values, name)
    BY <2>1, <2>2, <1>8, <1>9, <1>11 DEF From
  <2>3. CASE ~Named(values, name) /\ Named(request, name)
    BY <2>1, <2>3, <1>8, <1>9, <1>11 DEF From
  <2>4. CASE ~Named(values, name) /\ ~Named(request, name) /\ Named(provided, name)
    BY <2>1, <2>4, <1>8, <1>9, <1>11 DEF From
  <2>5. CASE ~Named(values, name) /\ ~Named(request, name) /\ ~Named(provided, name)
    BY <2>1, <2>5, <1>8, <1>9, <1>11
  <2> QED
    BY <2>2, <2>3, <2>4, <2>5
<1> QED
  BY <1>2, <1>4, <1>6, <1>10, <1>12 DEF s, request, provided

(* An entity without audit columns sends what the caller gave.               *)
LEMMA NoAuditColumns ==
    ASSUME NEW op, NEW values, NEW audit, ApplyAuditValues(op, values, audit).ok,
           AuditColumns = <<>>
    PROVE  ApplyAuditValues(op, values, audit).value = values
BY DEF ApplyAuditValues, Compile, Ok

(* What a soft delete sends is everything of its provider and, of the        *)
(* request, only columns of the policy.                                      *)
LEMMA SoftSources ==
    ASSUME NEW soft, AreValues(soft.request), AreValues(soft.provider),
           ApplySoftDeleteValues(soft).ok
    PROVE  LET all == ApplySoftDeleteValues(soft).value
           IN  /\ NoDuplicates(all)
               /\ ToSet(soft.provider) \subseteq ToSet(all)
               /\ \A v \in ToSet(all) :
                    v \in ToSet(soft.provider) \/ v.column \in Names(SoftColumns)
               /\ \A v \in ToSet(all) : v.column \in Names(SoftColumns) /\ v.value = Null =>
                    ColumnNamed(SoftColumns, v.column).nullable
<1> DEFINE first == AppendMissing(SoftColumns, <<>>, soft.request)
           all == first \o soft.provider
<1>1. NoDuplicates(all) /\ AllTake(SoftColumns, all, LAMBDA c : c.updatable)
  BY DEF ApplySoftDeleteValues, Compile
<1>2. ApplySoftDeleteValues(soft).value = all
  BY DEF ApplySoftDeleteValues, Compile, Ok
<1>3. \A v \in ToSet(all) : v.column \in Names(SoftColumns) /\ v.value = Null =>
        ColumnNamed(SoftColumns, v.column).nullable
  BY <1>1 DEF AllTake, ToSet
<1>4. IsList(<<>>) /\ ToSet(<<>>) = {}
  <2>1. DOMAIN <<>> = {} /\ <<>> \in Seq({})
    OBVIOUS
  <2>2. IsList(<<>>)
    BY <2>1, SequenceIsList
  <2> QED
    BY <2>1, <2>2 DEF ToSet
<1>5. IsList(soft.request) /\ IsList(soft.provider)
  BY DEF AreValues
<1>6. IsList(first) /\ \A v \in ToSet(first) : v.column \in Names(SoftColumns)
  BY <1>4, <1>5, Appended
<1> HIDE DEF first
<1>7. ToSet(all) = ToSet(first) \cup ToSet(soft.provider)
  BY <1>5, <1>6, Concatenated
<1> HIDE DEF all
<1> QED
  BY <1>1, <1>2, <1>3, <1>6, <1>7

(* An audit or soft-delete column is a plain column of the table and never   *)
(* the tenant's.                                                             *)
LEMMA PolicyColumnIs ==
    ASSUME WellMade(meta), NEW c \in ToSet(AuditColumns) \cup ToSet(SoftColumns)
    PROVE  /\ c \in ToSet(AllColumns) /\ c.name \in Names(AllColumns)
           /\ ~c.identity /\ ~c.computed /\ ~c.rowversion
           /\ Scoped => c.name # TenantColumn.name
<1>1. c \in PolicySet(meta) /\ c \in ToSet(AllColumns) /\ c.owner \in {"audit", "soft"}
  BY DEF WellMade, PolicySet, AuditColumns, SoftColumns, AllColumns
<1>2. ~c.identity /\ ~c.computed /\ ~c.rowversion
  BY <1>1 DEF WellMade
<1>3. ASSUME Scoped PROVE c.name # TenantColumn.name
  <2>1. TenantColumn \in ToSet(AllColumns) /\ TenantColumn.owner = "tenant"
    BY <1>3, TenantOfTable
  <2> QED
    BY <2>1, <1>1, AColumn
<1> QED
  BY <1>1, <1>2, <1>3, AColumn

(* The audit and the soft-delete policy share no column.                     *)
LEMMA PoliciesApart ==
    ASSUME WellMade(meta)
    PROVE  \A name \in Names(SoftColumns) : name \notin Names(AuditColumns)
<1> SUFFICES ASSUME NEW name \in Names(SoftColumns), name \in Names(AuditColumns)
             PROVE  FALSE
  OBVIOUS
<1>1. PICK c \in ToSet(SoftColumns) : c.name = name
  BY DEF Names, ToSet
<1>2. PICK d \in ToSet(AuditColumns) : d.name = name
  BY DEF Names, ToSet
<1>3. c \in ToSet(AllColumns) /\ d \in ToSet(AllColumns)
  BY PolicyColumnIs
<1>4. c.owner = "soft" /\ d.owner = "audit"
  BY DEF WellMade, SoftColumns, AuditColumns
<1> QED
  BY <1>1, <1>2, <1>3, <1>4, AColumn

(* An update names the caller's columns and audit columns and no others.     *)
LEMMA UpdateNames ==
    ASSUME Inv, NEW c \in Clients, NEW op \in {"save", "update"}, NEW given, NEW s, NEW key,
           NEW token, Asks(c, op, given, s, key, token), s.ok
    PROVE  LET audited == ApplyAuditValues("update", given, model.runtime[c].audit)
           IN  /\ audited.ok /\ s.value.changes = audited.value /\ s.value.changes # <<>>
               /\ Valued(given)
               /\ \A name : Named(s.value.changes, name) =>
                    Named(given, name) \/ name \in Names(AuditColumns)
<1> DEFINE audited == ApplyAuditValues("update", given, model.runtime[c].audit)
<1>1. TheTable /\ Objects
  BY DEF Inv
<1>2. Valued(given) /\ s = UpdateStatement(c, key, given, token)
  BY <1>1, WhatIsSent DEF Asks
<1>3. audited.ok /\ s.value.changes = audited.value /\ s.value.changes # <<>>
  BY <1>1, <1>2, UpdateSent
<1>4. \A v \in ToSet(audited.value) : v \in ToSet(given) \/ v.column \in Names(AuditColumns)
  <2>1. CASE AuditColumns = <<>>
    BY <1>3, <2>1, NoAuditColumns
  <2>2. CASE AuditColumns # <<>>
    <3>1. AreValues(model.runtime[c].audit.request)
          /\ AreValues(model.runtime[c].audit.provider["update"])
      BY <1>1, TheContext
    <3> QED
      BY <1>2, <1>3, <2>2, <3>1, AuditSources
  <2> QED
    BY <2>1, <2>2
<1> HIDE DEF audited
<1>5. \A name : Named(s.value.changes, name) => Named(given, name) \/ name \in Names(AuditColumns)
  BY <1>3, <1>4, NamedIs
<1> QED
  BY <1>2, <1>3, <1>5 DEF audited

(* A statement without SET is sent only by a delete of a table without soft  *)
(* delete.                                                                   *)
LEMMA NeverErased ==
    ASSUME Inv, NEW c \in Clients, NEW op, NEW given, NEW s, NEW key, NEW token,
           Asks(c, op, given, s, key, token), s.ok, s.value.changes = <<>>
    PROVE  SoftColumns = <<>> /\ op \in {"remove", "delete"}
<1>1. op \notin {"save", "update"}
  BY UpdateNames
<1>2. op \in {"remove", "delete"} /\ s = DeleteStatement(c, key, token)
  BY <1>1 DEF Asks
<1> QED
  BY <1>2, DeleteSent DEF Inv

-----------------------------------------------------------------------------
(* What a write did is what was answered                                     *)

(* A soft-deleted row stays, and stays hidden.                               *)
Survives(r, s) ==
    /\ KeyOf(s) = KeyOf(r)
    /\ Hidden(r) => \/ Hidden(s) \/ Named(last'.given, SoftColumns[1].name)
                    \/ last'.op \in {"remove", "delete"} /\ ~Marks(last'.by)
    /\ r # s /\ last'.op \in {"remove", "delete"} /\ Marks(last'.by) => Hidden(s)
KeepStep == SoftColumns # <<>> => \A r \in db : \E s \in db' : Survives(r, s)

(* A row that did not change survives.                                       *)
LEMMA StaysThere ==
    ASSUME NEW r
    PROVE  Survives(r, r)
BY DEF Survives

(* A row soft-deleted with marking values is hidden.                         *)
LEMMA DeleteSurvives ==
    ASSUME Inv, SoftColumns # <<>>, NEW c \in Clients, NEW op \in {"remove", "delete"}, NEW given,
           NEW s, NEW key, NEW token, NEW r \in db, Rewrote(c, op, given, s, key, token, r), Marks(c)
    PROVE  Hidden(Changed(r, s.value.changes))
<1> DEFINE values == ApplySoftDeleteValues(model.runtime[c].soft)
           m == SoftColumns[1]
           new == Changed(r, s.value.changes)
<1>1. TheTable /\ WellMade(meta) /\ DOMAIN r = Names(AllColumns)
  BY TableWellMade DEF Inv, Rows, RowFits, AllColumns
<1>2. s.ok /\ s = DeleteStatement(c, key, token)
  BY DEF Rewrote, Rewrites, Asks
<1>3. s.value.changes = values.value
  BY <1>1, <1>2, DeleteSent
<1>4. Named(values.value, m.name)
      /\ IF m.type = "bool" THEN ValueOf(values.value, m.name) = TRUE
         ELSE ValueOf(values.value, m.name) # Null
  BY DEF Marks
<1> HIDE DEF values
<1>5. m \in ToSet(SoftColumns)
  BY <1>1 DEF WellMade, SoftColumns
<1>6. m \in ToSet(AllColumns) /\ ~m.rowversion
  BY <1>1, <1>5, PolicyColumnIs
<1>7. new[m.name] = ValueOf(values.value, m.name)
  BY <1>1, <1>3, <1>4, <1>6, ChangedIs
<1> HIDE DEF new
<1>8. IF m.type = "bool" THEN new[m.name] # FALSE ELSE new[m.name] # Null
  BY <1>4, <1>7
<1>9. Hidden(new)
  BY <1>8 DEF Hidden
<1> QED
  BY <1>9 DEF new

(* An update that does not name the mark leaves a hidden row hidden.         *)
LEMMA UpdateSurvives ==
    ASSUME Inv, SoftColumns # <<>>, NEW c \in Clients, NEW op \in {"save", "update"}, NEW given,
           NEW s, NEW key, NEW token, NEW r \in db, Rewrote(c, op, given, s, key, token, r),
           Hidden(r), ~Named(given, SoftColumns[1].name)
    PROVE  Hidden(Changed(r, s.value.changes))
<1> DEFINE m == SoftColumns[1]
           new == Changed(r, s.value.changes)
<1>1. WellMade(meta) /\ DOMAIN r = Names(AllColumns)
  BY TableWellMade DEF Inv, Rows, RowFits, AllColumns
<1>2. Asks(c, op, given, s, key, token) /\ s.ok
  BY DEF Rewrote, Rewrites
<1>3. m \in ToSet(SoftColumns)
  BY <1>1 DEF WellMade, SoftColumns
<1>4. m \in ToSet(AllColumns) /\ ~m.rowversion /\ m.name \in Names(SoftColumns)
  BY <1>1, <1>3, PolicyColumnIs, NamesAre
<1>5. ~Named(s.value.changes, m.name)
  BY <1>1, <1>2, <1>4, UpdateNames, PoliciesApart
<1>6. new[m.name] = r[m.name]
  BY <1>1, <1>4, <1>5, ChangedIs
<1> HIDE DEF new
<1>7. Hidden(new)
  BY <1>6 DEF Hidden
<1> QED
  BY <1>7 DEF new

(* Every step keeps the rows of a soft-delete table and hides what it marks. *)
LEMMA StepKeeps ==
    ASSUME Inv, NEW c \in Clients, Step(c)
    PROVE  KeepStep
<1> SUFFICES ASSUME SoftColumns # <<>>, NEW r \in db
             PROVE  \E s \in db' : Survives(r, s)
  BY DEF KeepStep
<1>1. CASE r \in db'
  BY <1>1, StaysThere
<1>2. CASE \E op, given, s, key, token, t : Erased(c, op, given, s, key, token, t)
  BY <1>2, NeverErased DEF Erased, Erases
<1>3. CASE \E op, given, s, key, token, t : Rewrote(c, op, given, s, key, token, t)
  <2>1. PICK op, given, s, key, token, t : Rewrote(c, op, given, s, key, token, t)
    BY <1>3
  <2> DEFINE new == Changed(t, s.value.changes)
  <2>2. db' = (db \ {t}) \cup {new} /\ t \in db
    BY <2>1 DEF Rewrote, Rewrites
  <2>3. last'.by = c /\ last'.op = op /\ last'.given = given
    BY <2>1 DEF Rewrote, Answered
  <2>4. Asks(c, op, given, s, key, token) /\ s.ok /\ Rewrites(c, op, given, s, t)
    BY <2>1 DEF Rewrote, Rewrites
  <2>5. ChangesFit(s.value.changes)
    BY <2>4, WhatIsSent DEF Inv, Sent
  <2>6. SameKey(t, new)
    BY <2>2, <2>4, <2>5, RewriteFits
  <2>7. KeyOf(new) = KeyOf(t)
    BY <2>6, KeysAreColumns, TableWellMade DEF SameKey, KeyOf, Inv
  <2>8. op \in {"save", "update", "remove", "delete"}
    BY <2>4 DEF Asks
  <2>9. op \in {"remove", "delete"} /\ Marks(c) => Hidden(new)
    BY <2>1, <2>2, DeleteSurvives
  <2>10. op \in {"save", "update"} /\ Hidden(t) /\ ~Named(given, SoftColumns[1].name) => Hidden(new)
    BY <2>1, <2>2, UpdateSurvives
  <2> HIDE DEF new
  <2>11. Survives(t, new)
    BY <2>3, <2>7, <2>8, <2>9, <2>10 DEF Survives
  <2>12. CASE r = t
    BY <2>2, <2>11, <2>12
  <2>13. CASE r # t
    BY <2>2, <2>13, <1>1
  <2> QED
    BY <2>12, <2>13
<1>4. CASE \E op, given : Put(c, op, given)
  <2>1. r \in db'
    BY <1>4 DEF Put, Adds
  <2> QED
    BY <2>1, <1>1
<1>5. CASE UNCHANGED db
  BY <1>5, <1>1
<1> QED
  BY <1>2, <1>3, <1>4, <1>5, WhatMoves

(* A miss is looked into in the rows that the write itself could reach.      *)
Others(c) ==
    {r \in db : KeyOf(r) = call[c].key /\ (Scoped => r[TenantColumn.name] = ActiveTenant(c).value)}
MissStep == \A c \in Clients : call[c] # None /\ call[c].then = "recheck" /\ call'[c] = None =>
    LET there == {r \in db : KeyOf(r) = call[c].key
                             /\ (Scoped => r[TenantColumn.name] = ActiveTenant(c).value)}
    IN  /\ (last'.answer = "conflict" =>
                \E r \in there : r[Rowversion.name] # call[c].token)
        /\ (last'.answer \in {"none", "concurrency"} => there = {})

(* The check after a miss reports a conflict only for a row of another       *)
(* version, and absence only when no row is there.                           *)
LEMMA RecheckExplains ==
    ASSUME Inv, NEW c \in Clients, Recheck(c)
    PROVE  /\ last'.answer = "conflict" => \E r \in Others(c) : r[Rowversion.name] # call[c].token
           /\ last'.answer \in {"none", "concurrency"} => Others(c) = {}
<1>1. call[c] # None /\ call[c].then = "recheck" /\ TheTable
  BY DEF Recheck, Inv
<1>2. Versioned(c) /\ Outdated(meta, ActiveTenant(c), db, next.version, call[c].key, call[c].token)
  BY <1>1 DEF Inv, Calls
<1>3. WriteFilter(c, call[c].key, None).ok
  BY <1>2, FilterOk DEF Versioned
<1>4. \A r \in db : Matches(r, WriteFilter(c, call[c].key, None).value) <=>
                        Reaches(meta, ActiveTenant(c), call[c].key, r)
  BY <1>1, <1>3, MatchesIs
<1>5. \A r : Reaches(meta, ActiveTenant(c), call[c].key, r) <=>
        KeyOf(r) = call[c].key /\ (Scoped => r[TenantColumn.name] = ActiveTenant(c).value)
  BY DEF Reaches, KeyOf, PrimaryKey, Scoped, TenantColumn
<1>6. Exists(c, call[c].key) = Others(c)
  BY <1>4, <1>5 DEF Exists, Found, Others
<1>7. \A r \in Others(c) : r[Rowversion.name] # call[c].token
  BY <1>2, <1>5 DEF Others, Outdated, Rowversion, AllColumns
<1>8. last'.answer = IF Unreadable(c, call[c].key) THEN "mapping"
                     ELSE IF Others(c) # {} THEN "conflict" ELSE Missed(call[c].op)
  BY <1>6 DEF Recheck, Answers
<1>9. Missed(call[c].op) \in {"none", "concurrency"}
  BY DEF Missed
<1> QED
  BY <1>7, <1>8, <1>9

(* Every step that ends a check after a miss explains it truthfully.         *)
LEMMA StepExplains ==
    ASSUME Inv, NEW c \in Clients, Step(c)
    PROVE  MissStep
<1> SUFFICES ASSUME NEW d \in Clients, call[d] # None, call[d].then = "recheck", call'[d] = None
             PROVE  /\ last'.answer = "conflict" =>
                        \E r \in Others(d) : r[Rowversion.name] # call[d].token
                    /\ last'.answer \in {"none", "concurrency"} => Others(d) = {}
  BY DEF MissStep, Others
<1>1. CallMoves(c)
  BY StepCases, RestsMove, SendsMove
<1>2. c = d
  <2>1. \A rec : c # d => [call EXCEPT ![c] = rec][d] = call[d]
    BY DEF Inv, Calls
  <2> QED
    BY <1>1, <2>1 DEF CallMoves
<1>3. Recheck(c)
  <2>1. ~Idle(c) /\ ~SaveGoesOn(c)
    BY <1>2 DEF Idle, SaveGoesOn
  <2> QED
    BY <2>1 DEF Step, Find, Create, Edit, Save, DeleteObject, DbSetInsert, DbSetUpdate, DbSetDelete
<1> QED
  BY <1>2, <1>3, RecheckExplains

WritingOps == {"save", "insert", "update", "remove", "delete"}
OkStep ==
    /\ Cardinality({KeyOf(r) : r \in Touched}) <= 1
    /\ Reports({"save", "insert", "update", "remove", "delete"}) /\ last'.answer = "ok" =>
        next' # next
    /\ db' # db \/ next' # next =>
        \/ last'.answer = "ok"
        \/ last'.answer = "mapping" /\ \E r \in db' : ~FromRowFits(Own, r)

(* A step that touches rows of one key touches at most one key.              *)
LEMMA OneKey ==
    ASSUME NEW key, \A r \in Touched : KeyOf(r) = key
    PROVE  Cardinality({KeyOf(r) : r \in Touched}) <= 1
<1>1. {KeyOf(r) : r \in Touched} \subseteq {key}
  OBVIOUS
<1>2. IsFiniteSet({key}) /\ Cardinality({key}) = 1
  BY FS_Singleton
<1> QED
  BY <1>1, <1>2, FS_Subset

(* Handing out a version changes the counter that answers are compared with. *)
LEMMA Counts ==
    ASSUME HandsOut, Unread \/ Counted
    PROVE  next' # next
BY DEF HandsOut, Unread, Counted

(* A written row is answered ok when it can be read back and as a mapping    *)
(* error otherwise.                                                          *)
LEMMA ReturnAnswers ==
    ASSUME NEW c, NEW op, NEW given, NEW row, Returns(c, op, given, row)
    PROVE  /\ last' = [by |-> c, op |-> op, given |-> given, answer |-> last'.answer]
           /\ \/ last'.answer = "ok" /\ FromRowFits(Own, row)
              \/ last'.answer = "mapping" /\ ~FromRowFits(Own, row)
BY DEF Returns, Answers

(* A write for which the server did nothing is never answered ok.            *)
LEMMA UnwrittenNotOk ==
    ASSUME Inv, NEW c \in Clients, Step(c), UNCHANGED next, Reports(WritingOps)
    PROVE  last'.answer # "ok"
<1>1. HandsOut /\ ~Unread /\ ~Counted
  BY Counts DEF Inv
<1>2. last' # None /\ last'.op \in WritingOps
  BY DEF Reports
<1>3. CASE Rests(c)
  <2>1. PICK op, answer :
            /\ last' = [by |-> c, op |-> op, given |-> <<>>, answer |-> answer]
            /\ \/ op = "find" /\ answer # "server"
               \/ answer \in {"compile", "mapping", "conflict", "none", "concurrency"}
    BY <1>2, <1>3 DEF Rests
  <2>2. op # "find"
    BY <1>2, <2>1 DEF WritingOps
  <2> QED
    BY <2>1, <2>2
<1>4. ASSUME NEW op, NEW given, Refuses(c, op, given)
      PROVE  last'.answer # "ok"
  BY <1>4 DEF Refuses, Answers
<1>5. CASE \E op, given : Puts(c, op, given)
  <2>1. PICK op, given : Inserts(c, op, given)
    BY <1>5 DEF Puts
  <2> QED
    BY <2>1, <1>1, <1>4, InsertDoes DEF Adds
<1>6. CASE \E op, given, s, key, token :
            Asks(c, op, given, s, key, token) /\ Writes(c, op, given, s, token)
  <2>1. PICK op, given, s, key, token : Writes(c, op, given, s, token)
    BY <1>6
  <2> QED
    BY <2>1, <1>1, <1>2, <1>4, WriteDoes DEF Rewrites, Erases, Misses, Continues
<1> QED
  BY <1>3, <1>5, <1>6, StepCases DEF Sends

(* Every step answers ok exactly when the server wrote, but for a row that   *)
(* cannot be read back.                                                      *)
LEMMA StepAnswers ==
    ASSUME Inv, NEW c \in Clients, Step(c)
    PROVE  OkStep
<1>1. HandsOut /\ WellMade(meta)
  BY TableWellMade DEF Inv
<1>2. \A t, u : SameKey(t, u) => KeyOf(t) = KeyOf(u)
  BY <1>1, KeysAreColumns DEF SameKey, KeyOf
<1>3. CASE UNCHANGED <<db, next>>
  <2>1. Touched = {}
    BY <1>3 DEF Touched
  <2>2. Cardinality({KeyOf(r) : r \in Touched}) <= 1
    BY <2>1, OneKey
  <2> QED
    BY <1>3, <2>2, UnwrittenNotOk DEF OkStep, WritingOps
<1>4. CASE \E op, given : Put(c, op, given)
  <2>1. PICK op, given : Put(c, op, given)
    BY <1>4
  <2> DEFINE row == Inserted(InsertStatement(c, given).value)
  <2>2. db' = db \cup {row} /\ Counted /\ Returns(c, op, given, row)
    BY <2>1 DEF Put, Adds
  <2> HIDE DEF row
  <2>3. Cardinality({KeyOf(r) : r \in Touched}) <= 1
    <3>1. \A r \in Touched : KeyOf(r) = KeyOf(row)
      BY <2>2 DEF Touched
    <3> QED
      BY <3>1, OneKey
  <2>4. row \in db' /\ next' # next
    BY <2>2, <1>1, Counts
  <2> QED
    BY <2>2, <2>3, <2>4, ReturnAnswers DEF OkStep
<1>5. CASE \E op, given, s, key, token, t : Rewrote(c, op, given, s, key, token, t)
  <2>1. PICK op, given, s, key, token, t : Rewrote(c, op, given, s, key, token, t)
    BY <1>5
  <2> DEFINE new == Changed(t, s.value.changes)
  <2>2. /\ db' = (db \ {t}) \cup {new} /\ t \in db /\ Unread
        /\ IF op \in {"remove", "delete"} THEN Answers(c, op, given, "ok") /\ UNCHANGED entity
           ELSE Returns(c, op, given, new)
    BY <2>1 DEF Rewrote, Rewrites
  <2>3. Asks(c, op, given, s, key, token) /\ s.ok /\ Rewrites(c, op, given, s, t)
    BY <2>1 DEF Rewrote, Rewrites
  <2>4. ChangesFit(s.value.changes)
    BY <2>3, WhatIsSent DEF Inv, Sent
  <2>5. SameKey(t, new)
    BY <2>2, <2>3, <2>4, RewriteFits
  <2>6. KeyOf(new) = KeyOf(t)
    BY <2>5, <1>2
  <2> HIDE DEF new
  <2>7. Cardinality({KeyOf(r) : r \in Touched}) <= 1
    <3>1. \A r \in Touched : KeyOf(r) = KeyOf(t)
      BY <2>2, <2>6 DEF Touched
    <3> QED
      BY <3>1, OneKey
  <2>8. new \in db' /\ next' # next
    BY <2>2, <1>1, Counts
  <2>9. last'.answer = "ok" \/ (last'.answer = "mapping" /\ ~FromRowFits(Own, new))
    BY <2>2, ReturnAnswers DEF Answers
  <2> QED
    BY <2>7, <2>8, <2>9 DEF OkStep
<1>6. CASE \E op, given, s, key, token, t : Erased(c, op, given, s, key, token, t)
  <2>1. PICK op, given, s, key, token, t : Erased(c, op, given, s, key, token, t)
    BY <1>6
  <2>2. db' = db \ {t} /\ Unread /\ Answers(c, op, given, "ok")
    BY <2>1 DEF Erased, Erases
  <2>3. Cardinality({KeyOf(r) : r \in Touched}) <= 1
    <3>1. \A r \in Touched : KeyOf(r) = KeyOf(t)
      BY <2>2 DEF Touched
    <3> QED
      BY <3>1, OneKey
  <2>4. next' # next
    BY <2>2, <1>1, Counts
  <2>5. last'.answer = "ok"
    BY <2>2 DEF Answers
  <2> QED
    BY <2>3, <2>4, <2>5 DEF OkStep
<1> QED
  BY <1>3, <1>4, <1>5, <1>6, WhatMoves

(* The value of an audit column is that of the first source that names it.   *)
Naming(sources, name) == {k \in DOMAIN sources : Named(sources[k], name)}

(* The first of one source that names a column is that source.               *)
LEMMA FirstOfOne ==
    ASSUME NEW a, NEW name
    PROVE  LET at == Naming(<<a>>, name)
           IN  /\ at = {} <=> ~Named(a, name)
               /\ at # {} => FirstAt(<<a>>, at) = a
<1> DEFINE sources == <<a>>
           at == Naming(sources, name)
<1>1. DOMAIN sources = {1} /\ sources[1] = a
  OBVIOUS
<1> HIDE DEF sources
<1>2. at \subseteq {1} /\ (1 \in at <=> Named(a, name))
  BY <1>1 DEF Naming
<1> HIDE DEF at
<1>3. ASSUME at # {} PROVE FirstAt(sources, at) = a
  <2>1. at \subseteq Nat
    BY <1>2
  <2>2. PICK i \in at : FirstAt(sources, at) = sources[i]
    BY <1>3, <2>1, FirstAtFacts
  <2> QED
    BY <2>2, <1>1, <1>2
<1> QED
  BY <1>2, <1>3 DEF sources, at

(* The first of three sources that names a column, case by case.             *)
LEMMA FirstOfThree ==
    ASSUME NEW a, NEW b, NEW d, NEW name
    PROVE  LET sources == <<a, b, d>>
               at == Naming(sources, name)
               first == FirstAt(sources, at)
           IN  /\ at = {} <=> ~Named(a, name) /\ ~Named(b, name) /\ ~Named(d, name)
               /\ Named(a, name) => first = a
               /\ ~Named(a, name) /\ Named(b, name) => first = b
               /\ ~Named(a, name) /\ ~Named(b, name) /\ Named(d, name) => first = d
<1> DEFINE sources == <<a, b, d>>
           at == Naming(sources, name)
<1>1. DOMAIN sources = {1, 2, 3} /\ sources[1] = a /\ sources[2] = b /\ sources[3] = d
  OBVIOUS
<1> HIDE DEF sources
<1>2. /\ at \subseteq {1, 2, 3} /\ (1 \in at <=> Named(a, name))
      /\ 2 \in at <=> Named(b, name)
      /\ 3 \in at <=> Named(d, name)
  BY <1>1 DEF Naming
<1> HIDE DEF at
<1>3. at \subseteq Nat
  BY <1>2
<1>4. ASSUME at # {} PROVE \E i \in at : FirstAt(sources, at) = sources[i] /\ \A j \in at : i <= j
  BY <1>3, <1>4, FirstAtFacts
<1>5. Named(a, name) => FirstAt(sources, at) = a
  BY <1>1, <1>2, <1>4
<1>6. ~Named(a, name) /\ Named(b, name) => FirstAt(sources, at) = b
  BY <1>1, <1>2, <1>4
<1>7. ~Named(a, name) /\ ~Named(b, name) /\ Named(d, name) => FirstAt(sources, at) = d
  BY <1>1, <1>2, <1>4
<1>8. at = {} <=> ~Named(a, name) /\ ~Named(b, name) /\ ~Named(d, name)
  BY <1>2
<1> QED
  BY <1>5, <1>6, <1>7, <1>8 DEF sources, at

(* A value that comes from a source has the value that the source names.     *)
LEMMA FromIs ==
    ASSUME NEW all, NEW name, NEW source, From(all, name, source),
           IsList(source), NoDuplicates(source)
    PROVE  /\ Named(all, name)
           /\ \A v \in ToSet(all) : v.column = name => v.value = ValueOf(source, name)
BY TheValue DEF From

(* The value the audit policy sends for a column is that of the first source *)
(* naming it: caller, request, provider.                                     *)
LEMMA AuditFrom ==
    ASSUME NEW op \in {"insert", "update"}, NEW values, Valued(values), NEW audit,
           AreValues(audit.request), AreValues(audit.provider[op]),
           ApplyAuditValues(op, values, audit).ok, NEW name \in Names(AuditColumns)
    PROVE  LET all == ApplyAuditValues(op, values, audit).value
               sources == <<values, audit.request, audit.provider[op]>>
               at == Naming(sources, name)
           IN  /\ at = {} => ~Named(all, name)
               /\ at # {} => /\ Named(all, name)
                             /\ \A v \in ToSet(all) : v.column = name =>
                                    v.value = ValueOf(FirstAt(sources, at), name)
<1> DEFINE request == audit.request
           provided == audit.provider[op]
           all == ApplyAuditValues(op, values, audit).value
           sources == <<values, request, provided>>
           at == Naming(sources, name)
<1>1. AuditColumns # <<>>
  BY EmptyList DEF Names
<1>2. /\ NoDuplicates(request) /\ NoDuplicates(provided)
      /\ Named(values, name) => From(all, name, values)
      /\ ~Named(values, name) /\ Named(request, name) => From(all, name, request)
      /\ ~Named(values, name) /\ ~Named(request, name) /\ Named(provided, name) =>
            From(all, name, provided)
      /\ ~Named(values, name) /\ ~Named(request, name) /\ ~Named(provided, name) =>
            ~Named(all, name)
  BY <1>1, AuditSources
<1>3. NoDuplicates(values)
  BY AuditValued
<1>4. IsList(values) /\ IsList(request) /\ IsList(provided)
  BY DEF Valued, AreValues
<1>5. /\ at = {} <=> ~Named(values, name) /\ ~Named(request, name) /\ ~Named(provided, name)
      /\ Named(values, name) => FirstAt(sources, at) = values
      /\ ~Named(values, name) /\ Named(request, name) => FirstAt(sources, at) = request
      /\ ~Named(values, name) /\ ~Named(request, name) /\ Named(provided, name) =>
            FirstAt(sources, at) = provided
  BY FirstOfThree
<1> HIDE DEF request, provided, all, sources, at
<1>6. at = {} => ~Named(all, name)
  BY <1>2, <1>5
<1>7. ASSUME at # {}
      PROVE  From(all, name, FirstAt(sources, at)) /\ IsList(FirstAt(sources, at))
             /\ NoDuplicates(FirstAt(sources, at))
  BY <1>2, <1>3, <1>4, <1>5, <1>7
<1>8. at # {} => /\ Named(all, name)
                 /\ \A v \in ToSet(all) : v.column = name =>
                        v.value = ValueOf(FirstAt(sources, at), name)
  BY <1>7, FromIs
<1> QED
  BY <1>6, <1>8 DEF request, provided, all, sources, at

(* What a new row takes for an audit column, from the rows that had its key. *)
Takes(s, name, before, sources) ==
    LET naming == Naming(sources, name)
    IN  IF naming = {} THEN \A r \in before : s[name] = r[name]
        ELSE s[name] = ValueOf(FirstAt(sources, naming), name)
Sources(before) ==
    LET runtime == model.runtime[last'.by]
        provided == runtime.audit.provider[IF before = {} THEN "insert" ELSE "update"]
    IN  IF last'.op \in {"remove", "delete"} THEN <<runtime.soft.provider>>
        ELSE <<last'.given, runtime.audit.request, provided>>
AuditStep == \A s \in db' \ db : \A i \in DOMAIN AuditColumns :
    LET name == AuditColumns[i].name
        before == {r \in db : SameKey(r, s)}
        runtime == model.runtime[last'.by]
        provided == runtime.audit.provider[IF before = {} THEN "insert" ELSE "update"]
        sources == IF last'.op \in {"remove", "delete"} THEN <<runtime.soft.provider>>
                   ELSE <<last'.given, runtime.audit.request, provided>>
        naming == {k \in DOMAIN sources : Named(sources[k], name)}
    IN  IF naming = {} THEN \A r \in before : s[name] = r[name]
        ELSE s[name] = ValueOf(FirstAt(sources, naming), name)

(* An inserted row's audit columns take the value of the first source that   *)
(* names them.                                                               *)
LEMMA InsertTakes ==
    ASSUME Inv, NEW c \in Clients, NEW op, NEW given, Put(c, op, given),
           NEW col \in ToSet(AuditColumns)
    PROVE  Takes(Inserted(InsertStatement(c, given).value), col.name, {},
                 <<given, model.runtime[c].audit.request, model.runtime[c].audit.provider["insert"]>>)
<1> DEFINE audit == model.runtime[c].audit
           audited == ApplyAuditValues("insert", given, audit)
           values == InsertStatement(c, given).value
           sources == <<given, audit.request, audit.provider["insert"]>>
           at == Naming(sources, col.name)
<1>1. TheTable /\ WellMade(meta) /\ Valued(given) /\ InsertStatement(c, given).ok
  BY TableWellMade DEF Inv, Put, Puts, Adds
<1>2. ValuesFit(values) /\ audited.ok /\ ToSet(audited.value) \subseteq ToSet(values)
  BY <1>1, InsertSent
<1>3. AreValues(audit.request) /\ AreValues(audit.provider["insert"])
  BY <1>1, TheContext
<1>4. col.name \in Names(AuditColumns)
  BY NamesAre
<1>5. at # {} => /\ Named(audited.value, col.name)
                 /\ \A v \in ToSet(audited.value) : v.column = col.name =>
                        v.value = ValueOf(FirstAt(sources, at), col.name)
  BY <1>1, <1>2, <1>3, <1>4, AuditFrom
<1>6. col \in ToSet(AllColumns) /\ ~col.identity /\ ~col.computed /\ ~col.rowversion
  BY <1>1, PolicyColumnIs
<1> HIDE DEF audited, values, audit, sources, at
<1>7. ASSUME at # {}
      PROVE  Inserted(values)[col.name] = ValueOf(FirstAt(sources, at), col.name)
  <2>1. PICK v \in ToSet(audited.value) : v.column = col.name
    BY <1>5, <1>7, NamedIs
  <2>2. v \in ToSet(values) /\ v.value = ValueOf(FirstAt(sources, at), col.name)
    BY <1>2, <1>5, <1>7, <2>1
  <2>3. Named(values, col.name) /\ ValueOf(values, col.name) = v.value
    BY <1>2, <2>1, <2>2, TheValue DEF ValuesFit, Valued
  <2> QED
    BY <1>1, <1>6, <2>2, <2>3, InsertedIs
<1> QED
  BY <1>7 DEF Takes, values, sources, at, audit

(* An updated row's audit columns take the value of the first source that    *)
(* names them, or keep theirs.                                               *)
LEMMA UpdateTakes ==
    ASSUME Inv, NEW c \in Clients, NEW op \in {"save", "update"}, NEW given, NEW s, NEW key,
           NEW token, Asks(c, op, given, s, key, token), s.ok, ChangesFit(s.value.changes),
           NEW r \in db, NEW col \in ToSet(AuditColumns)
    PROVE  Takes(Changed(r, s.value.changes), col.name, {r},
                 <<given, model.runtime[c].audit.request, model.runtime[c].audit.provider["update"]>>)
<1> DEFINE audit == model.runtime[c].audit
           changes == s.value.changes
           sources == <<given, audit.request, audit.provider["update"]>>
           at == Naming(sources, col.name)
<1>1. TheTable /\ WellMade(meta) /\ DOMAIN r = Names(AllColumns)
  BY TableWellMade DEF Inv, Rows, RowFits, AllColumns
<1>2. /\ Valued(given) /\ ApplyAuditValues("update", given, audit).ok
      /\ changes = ApplyAuditValues("update", given, audit).value
  BY UpdateNames
<1>3. AreValues(audit.request) /\ AreValues(audit.provider["update"])
  BY <1>1, TheContext
<1>4. col.name \in Names(AuditColumns)
  BY NamesAre
<1>5. /\ at = {} => ~Named(changes, col.name)
      /\ at # {} => /\ Named(changes, col.name)
                    /\ \A v \in ToSet(changes) : v.column = col.name =>
                        v.value = ValueOf(FirstAt(sources, at), col.name)
  BY <1>2, <1>3, <1>4, AuditFrom
<1>6. col \in ToSet(AllColumns) /\ ~col.rowversion
  BY <1>1, PolicyColumnIs
<1>7. IsList(changes)
  BY DEF ChangesFit, Valued
<1> HIDE DEF changes, audit, sources, at
<1>8. Changed(r, changes)[col.name] =
        IF Named(changes, col.name) THEN ValueOf(changes, col.name) ELSE r[col.name]
  BY <1>1, <1>6, ChangedIs
<1>9. Named(changes, col.name) =>
        \E v \in ToSet(changes) : v.column = col.name /\ ValueOf(changes, col.name) = v.value
  BY <1>7, ValueLookup
<1>10. at # {} => Changed(r, changes)[col.name] = ValueOf(FirstAt(sources, at), col.name)
  BY <1>5, <1>8, <1>9
<1>11. at = {} => Changed(r, changes)[col.name] = r[col.name]
  BY <1>5, <1>8
<1> QED
  BY <1>10, <1>11 DEF Takes, changes, sources, at, audit

(* Of a soft delete only the provider's values reach an audit column.        *)
LEMMA DeleteTakes ==
    ASSUME Inv, NEW c \in Clients, NEW op \in {"remove", "delete"}, NEW given, NEW s, NEW key,
           NEW token, Asks(c, op, given, s, key, token), s.ok, s.value.changes # <<>>,
           NEW r \in db, NEW col \in ToSet(AuditColumns)
    PROVE  Takes(Changed(r, s.value.changes), col.name, {r}, <<model.runtime[c].soft.provider>>)
<1> DEFINE soft == model.runtime[c].soft
           changes == s.value.changes
           sources == <<soft.provider>>
           at == Naming(sources, col.name)
<1>1. TheTable /\ WellMade(meta) /\ DOMAIN r = Names(AllColumns)
  BY TableWellMade DEF Inv, Rows, RowFits, AllColumns
<1>2. ApplySoftDeleteValues(soft).ok /\ changes = ApplySoftDeleteValues(soft).value
  BY <1>1, DeleteSent DEF Asks
<1>3. AreValues(soft.request) /\ AreValues(soft.provider)
  BY <1>1, TheContext
<1>4. /\ NoDuplicates(changes) /\ ToSet(soft.provider) \subseteq ToSet(changes)
      /\ \A v \in ToSet(changes) : v \in ToSet(soft.provider) \/ v.column \in Names(SoftColumns)
  BY <1>2, <1>3, SoftSources
<1>5. IsList(changes)
  BY <1>2, <1>3, SoftValued DEF Valued
<1>6. IsList(soft.provider)
  BY <1>3 DEF AreValues
<1>7. col \in ToSet(AllColumns) /\ ~col.rowversion
  BY <1>1, PolicyColumnIs
<1>8. col.name \notin Names(SoftColumns)
  BY <1>1, NamesAre, PoliciesApart
<1>9. /\ at = {} <=> ~Named(soft.provider, col.name)
      /\ at # {} => FirstAt(sources, at) = soft.provider
  BY FirstOfOne
<1> HIDE DEF changes, soft, sources, at
<1>10. Changed(r, changes)[col.name] =
        IF Named(changes, col.name) THEN ValueOf(changes, col.name) ELSE r[col.name]
  BY <1>1, <1>7, ChangedIs
<1>11. CASE at = {}
  <2>1. ~Named(changes, col.name)
    BY <1>4, <1>8, <1>9, <1>11, NamedIs
  <2>2. Changed(r, changes)[col.name] = r[col.name]
    BY <1>10, <2>1
  <2> QED
    BY <1>11, <2>2 DEF Takes, changes, sources, at, soft
<1>12. CASE at # {}
  <2>1. PICK v \in ToSet(soft.provider) :
            v.column = col.name /\ ValueOf(soft.provider, col.name) = v.value
    BY <1>6, <1>9, <1>12, ValueLookup
  <2>2. Named(changes, col.name) /\ ValueOf(changes, col.name) = v.value
    BY <1>4, <1>5, <2>1, TheValue
  <2>3. Changed(r, changes)[col.name] = ValueOf(FirstAt(sources, at), col.name)
    BY <1>9, <1>10, <1>12, <2>1, <2>2
  <2> QED
    BY <1>12, <2>3 DEF Takes, changes, sources, at, soft
<1> QED
  BY <1>11, <1>12

(* Every step gives audit columns the values their precedence says.          *)
LEMMA StepAudits ==
    ASSUME Inv, NEW c \in Clients, Step(c)
    PROVE  AuditStep
<1> SUFFICES ASSUME NEW s \in db' \ db, NEW i \in DOMAIN AuditColumns
             PROVE  LET before == {r \in db : SameKey(r, s)}
                    IN  Takes(s, AuditColumns[i].name, before, Sources(before))
  BY Zenon DEF AuditStep, Takes, Sources, Naming
<1> DEFINE col == AuditColumns[i]
           before == {r \in db : SameKey(r, s)}
<1>1. col \in ToSet(AuditColumns)
  BY DEF ToSet
<1>2. CASE \E op, given : Put(c, op, given)
  <2>1. PICK op, given : Put(c, op, given)
    BY <1>2
  <2>2. s = Inserted(InsertStatement(c, given).value)
    BY <2>1 DEF Put, Adds
  <2>3. ValuesFit(InsertStatement(c, given).value)
    BY <2>1, InsertSent DEF Inv, Put, Puts, Adds
  <2>4. before = {}
    BY <2>1, <2>2, <2>3, AddsMove DEF Put
  <2>5. last'.by = c /\ last'.op = op /\ last'.given = given
    BY <2>1 DEF Put, Answered
  <2>6. op \notin {"remove", "delete"}
    BY <2>1 DEF Put, Puts
  <2>7. Sources({}) = <<given, model.runtime[c].audit.request,
                        model.runtime[c].audit.provider["insert"]>>
    BY <2>5, <2>6 DEF Sources
  <2>8. Takes(s, col.name, {}, Sources({}))
    BY <1>1, <2>1, <2>2, <2>7, InsertTakes
  <2> QED
    BY <2>4, <2>8
<1>3. CASE \E op, given, u, key, token, r : Rewrote(c, op, given, u, key, token, r)
  <2>1. PICK op, given, u, key, token, r : Rewrote(c, op, given, u, key, token, r)
    BY <1>3
  <2>2. /\ Asks(c, op, given, u, key, token) /\ u.ok /\ Rewrites(c, op, given, u, r) /\ r \in db
        /\ u.value.changes # <<>>
    BY <2>1 DEF Rewrote, Rewrites
  <2>3. s = Changed(r, u.value.changes)
    BY <2>2 DEF Rewrites
  <2>4. ChangesFit(u.value.changes)
    BY <2>2, WhatIsSent DEF Inv, Sent
  <2>5. SameKey(r, s)
    BY <2>2, <2>3, <2>4, RewriteFits
  <2>6. before = {r}
    <3>1. ASSUME NEW t \in db, SameKey(t, s) PROVE t = r
      <4>1. SameKey(t, r)
        BY <2>5, <3>1 DEF SameKey
      <4> QED
        BY <4>1, <2>2 DEF Inv, Rows
    <3> QED
      BY <3>1, <2>2, <2>5
  <2>7. last'.by = c /\ last'.op = op /\ last'.given = given
    BY <2>1 DEF Rewrote, Answered
  <2>8. CASE op \in {"save", "update"}
    <3>1. Sources({r}) = <<given, model.runtime[c].audit.request,
                           model.runtime[c].audit.provider["update"]>>
      BY <2>7, <2>8 DEF Sources
    <3>2. Takes(s, col.name, {r}, Sources({r}))
      BY <1>1, <2>2, <2>3, <2>4, <2>8, <3>1, UpdateTakes
    <3> QED
      BY <2>6, <3>2
  <2>9. CASE op \in {"remove", "delete"}
    <3>1. Sources({r}) = <<model.runtime[c].soft.provider>>
      BY <2>7, <2>9 DEF Sources
    <3>2. Takes(s, col.name, {r}, Sources({r}))
      BY <1>1, <2>2, <2>3, <2>9, <3>1, DeleteTakes
    <3> QED
      BY <2>6, <3>2
  <2> QED
    BY <2>2, <2>8, <2>9 DEF Asks
<1>4. CASE \E op, given, u, key, token, r : Erased(c, op, given, u, key, token, r)
  BY <1>4 DEF Erased, Erases
<1>5. CASE UNCHANGED db
  BY <1>5
<1>6. \/ UNCHANGED db
      \/ \E op, given : Put(c, op, given)
      \/ \E op, given, u, key, token, r : Rewrote(c, op, given, u, key, token, r)
      \/ \E op, given, u, key, token, r : Erased(c, op, given, u, key, token, r)
  <2> HIDE DEF before, col
  <2> QED
    BY WhatMoves
<1> QED
  BY <1>2, <1>3, <1>4, <1>5, <1>6

(* For every table, input and interleaving: ok means the server wrote one    *)
(* row, a miss is explained by what is there, a soft delete keeps and hides  *)
(* its row, and audit columns follow their precedence.                       *)
THEOREM AnswersAreTrue == Spec => AnswersTrue
<1>1. ASSUME Inv, [Next]_vars
      PROVE  /\ [OkStep]_vars /\ [MissStep]_vars /\ [KeepStep]_vars /\ [AuditStep]_vars
  <2>1. CASE UNCHANGED vars
    BY <2>1
  <2>2. CASE Next
    <3>1. PICK c \in Clients : Step(c)
      BY <2>2 DEF Next
    <3> QED
      BY <1>1, <3>1, StepAnswers, StepExplains, StepKeeps, StepAudits
  <2> QED
    BY <1>1, <2>1, <2>2
<1>2. Spec => [][OkStep]_vars /\ [][MissStep]_vars /\ [][KeepStep]_vars /\ [][AuditStep]_vars
  BY <1>1, TablesStaySound, PTL DEF Spec
<1>3. Spec => OkMeansWritten
  BY <1>2, PTL DEF OkMeansWritten, OkStep
<1>4. Spec => MissExplained
  BY <1>2, PTL DEF MissExplained, MissStep
<1>5. Spec => SoftDeleteKeeps
  BY <1>2, PTL DEF SoftDeleteKeeps, KeepStep, Survives
<1>6. Spec => AuditPrecedence
  BY <1>2, PTL DEF AuditPrecedence, AuditStep
<1> QED
  BY <1>3, <1>4, <1>5, <1>6 DEF AnswersTrue

-----------------------------------------------------------------------------
(* Why the server refuses a write                                            *)

(* A NULL that the audit policy sends to a column that takes none was the    *)
(* caller's own.                                                             *)
LEMMA AuditNull ==
    ASSUME TheTable, NEW c \in Clients, NEW op \in {"insert", "update"}, NEW given, Valued(given),
           ApplyAuditValues(op, given, model.runtime[c].audit).ok,
           NEW v \in ToSet(ApplyAuditValues(op, given, model.runtime[c].audit).value),
           v.value = Null, NEW col \in ToSet(AllColumns), col.name = v.column, ~col.nullable
    PROVE  Named(given, col.name) /\ ValueOf(given, col.name) = Null
<1> DEFINE audit == model.runtime[c].audit
           all == ApplyAuditValues(op, given, audit).value
<1>1. WellMade(meta) /\ AreValues(audit.request) /\ AreValues(audit.provider[op])
  BY TableWellMade, TheContext
<1>2. NoDuplicates(given)
  BY <1>1, AuditValued
<1>3. v \in ToSet(given)
  <2>1. CASE AuditColumns = <<>>
    BY <2>1, NoAuditColumns
  <2>2. CASE AuditColumns # <<>>
    <3>1. /\ \A w \in ToSet(all) : w \in ToSet(given)
                \/ (w.column \in Names(AuditColumns)
                    /\ w \in ToSet(audit.request) \cup ToSet(audit.provider[op]))
          /\ \A w \in ToSet(audit.request) \cup ToSet(audit.provider[op]) :
                w.column \in Names(AuditColumns) /\ w.value = Null =>
                    ColumnNamed(AuditColumns, w.column).nullable
      BY <1>1, <2>2, AuditSources
    <3> HIDE DEF all, audit
    <3>2. ASSUME v \notin ToSet(given) PROVE FALSE
      <4>1. v.column \in Names(AuditColumns) /\ ColumnNamed(AuditColumns, v.column).nullable
        BY <3>1, <3>2 DEF all, audit
      <4> DEFINE d == ColumnNamed(AuditColumns, v.column)
      <4>2. d \in ToSet(AuditColumns) /\ d.name = v.column
        BY <1>1, <4>1, ColumnLookup DEF WellMade, AuditColumns
      <4>3. d \in ToSet(AllColumns)
        BY <1>1, <4>2, PolicyColumnIs
      <4>4. d = col
        BY <1>1, <4>2, <4>3, AColumn
      <4> QED
        BY <4>1, <4>4
    <3> QED
      BY <3>2
  <2> QED
    BY <2>1, <2>2
<1> QED
  BY <1>2, <1>3, TheValue DEF Valued

(* A NULL given to a column that takes none, or such a column left out, is   *)
(* what the refusal is explained by.                                         *)
LEMMA GivenNull ==
    ASSUME NEW op, NEW given, NEW col \in ToSet(AllColumns), ~col.nullable,
           IF Named(given, col.name) THEN ValueOf(given, col.name) = Null ELSE MayLeaveOut(op, col)
    PROVE  NoValue(op, given)
BY DEF NoValue, ToSet

(* An identity that is no key is what OtherIdentity speaks of.               *)
LEMMA OtherIdentityIs ==
    ASSUME NEW col \in ToSet(AllColumns), col.identity, ~col.key
    PROVE  OtherIdentity
BY DEF OtherIdentity, ToSet

(* A statement that assigns a column of the server's names one.              *)
LEMMA AssignsIs ==
    ASSUME NEW values, Assigns(values, ServerOwned)
    PROVE  \E v \in ToSet(values) : ServerOwned(ColumnNamed(AllColumns, v.column))
BY DEF Assigns, ToSet

Explained(c, op, given) ==
    \/ op \in {"insert", "save"} /\ KeyClash(given)
    \/ NoValue(op, given) \/ StrayNull(op, c) \/ OtherIdentity

(* A NULL that an update sends to a column that takes none is explained by   *)
(* the caller or by the soft-delete provider.                                *)
LEMMA NullUpdated ==
    ASSUME Inv, NEW c \in Clients, NEW op, NEW given, NEW s, NEW key, NEW token,
           Asks(c, op, given, s, key, token), s.ok, s.value.changes # <<>>,
           NEW v \in ToSet(s.value.changes), v.value = Null,
           NEW col \in ToSet(AllColumns), col.name = v.column, ~col.nullable
    PROVE  Explained(c, op, given)
<1>1. TheTable /\ WellMade(meta)
  BY TableWellMade DEF Inv
<1>2. CASE op \in {"save", "update"}
  <2>1. /\ ApplyAuditValues("update", given, model.runtime[c].audit).ok /\ Valued(given)
        /\ s.value.changes = ApplyAuditValues("update", given, model.runtime[c].audit).value
    BY <1>2, UpdateNames
  <2>2. Named(given, col.name) /\ ValueOf(given, col.name) = Null
    BY <1>1, <2>1, AuditNull
  <2> QED
    BY <2>2, GivenNull DEF Explained
<1>3. CASE op \in {"remove", "delete"}
  <2> DEFINE soft == model.runtime[c].soft
             all == ApplySoftDeleteValues(soft).value
  <2>1. s = DeleteStatement(c, key, token)
    BY <1>3 DEF Asks
  <2>2. ApplySoftDeleteValues(soft).ok /\ s.value.changes = all
    BY <1>1, <2>1, DeleteSent
  <2>3. AreValues(soft.request) /\ AreValues(soft.provider)
    BY <1>1, TheContext
  <2>4. /\ \A w \in ToSet(all) : w \in ToSet(soft.provider) \/ w.column \in Names(SoftColumns)
        /\ \A w \in ToSet(all) : w.column \in Names(SoftColumns) /\ w.value = Null =>
                ColumnNamed(SoftColumns, w.column).nullable
    BY <2>2, <2>3, SoftSources
  <2> HIDE DEF all
  <2>5. CASE v.column \in Names(SoftColumns)
    <3> DEFINE d == ColumnNamed(SoftColumns, v.column)
    <3>1. d.nullable
      BY <2>2, <2>4, <2>5
    <3>2. d \in ToSet(SoftColumns) /\ d.name = v.column
      BY <1>1, <2>5, ColumnLookup DEF WellMade, SoftColumns
    <3>3. d \in ToSet(AllColumns)
      BY <1>1, <3>2, PolicyColumnIs
    <3>4. d = col
      BY <1>1, <3>2, <3>3, AColumn
    <3> QED
      BY <3>1, <3>4
  <2>6. CASE v.column \notin Names(SoftColumns)
    BY <1>3, <2>2, <2>4, <2>6 DEF StrayNull, Explained
  <2> QED
    BY <2>5, <2>6
<1> QED
  BY <1>2, <1>3 DEF Asks

(* Every refusal of a compiled update is explained.                          *)
LEMMA UpdateExplained ==
    ASSUME Inv, NEW c \in Clients, NEW op, NEW given, NEW s, NEW key, NEW token,
           Asks(c, op, given, s, key, token), s.ok, UpdateRefused(s.value)
    PROVE  Explained(c, op, given)
<1> DEFINE changes == s.value.changes
<1>1. TheTable /\ WellMade(meta) /\ HandsOut /\ Rows
  BY TableWellMade DEF Inv
<1>2. changes # <<>> /\ ChangesFit(changes)
  BY WhatIsSent DEF Inv, Sent, UpdateRefused
<1>3. CASE Assigns(changes, ServerOwned)
  <2>1. PICK v \in ToSet(changes) : ServerOwned(ColumnNamed(AllColumns, v.column))
    BY <1>3, AssignsIs
  <2>2. PICK d \in ToSet(AllColumns) : d.name = v.column /\ UpdateColumnFits(d)
    BY <1>2 DEF ChangesFit
  <2>3. ColumnNamed(AllColumns, v.column) = d
    BY <1>1, <2>2, AColumn
  <2>4. d.identity /\ ~d.key
    BY <2>1, <2>2, <2>3 DEF ServerOwned, UpdateColumnFits
  <2> QED
    BY <2>4, OtherIdentityIs DEF Explained
<1>4. CASE \E r \in db : HasForbiddenNull(Changed(r, changes))
  <2>1. PICK r \in db : HasForbiddenNull(Changed(r, changes))
    BY <1>4
  <2>2. PICK col \in ToSet(AllColumns) : ~col.nullable /\ Changed(r, changes)[col.name] = Null
    BY <2>1, ForbiddenNull
  <2>3. RowFits(meta, r, next.id, next.version)
    BY <1>1 DEF Rows
  <2>4. DOMAIN r = Names(AllColumns) /\ r[col.name] # Null
    BY <2>2, <2>3 DEF RowFits, AllColumns
  <2>5. next.version # Null
    BY <1>1, ValuesAssumption DEF HandsOut
  <2>6. Named(changes, col.name) /\ ValueOf(changes, col.name) = Null
    <3> HIDE DEF changes
    <3>1. Changed(r, changes)[col.name] =
            IF col.rowversion THEN next.version
            ELSE IF Named(changes, col.name) THEN ValueOf(changes, col.name) ELSE r[col.name]
      BY <1>1, <2>2, <2>4, ChangedIs
    <3> QED
      BY <2>2, <2>4, <2>5, <3>1
  <2>7. PICK v \in ToSet(changes) : v.column = col.name /\ v.value = Null
    BY <1>2, <2>6, ValueLookup DEF ChangesFit, Valued
  <2> QED
    BY <1>2, <2>2, <2>7, NullUpdated
<1> QED
  BY <1>3, <1>4 DEF UpdateRefused

(* An INSERT into a tenant table is sent only with a fitting tenant.         *)
LEMMA TenantFitsWhenSent ==
    ASSUME NEW c, NEW given, InsertStatement(c, given).ok, Scoped
    PROVE  TenantFits(c)
BY Zenon DEF InsertStatement, TenantInsertValues, Compile

(* Save names every column of the entity that is not the server's.           *)
LEMMA LeftOut ==
    ASSUME WellMade(meta), NEW c, NEW op, NEW given, Puts(c, op, given), NEW col \in ToSet(AllColumns),
           ~col.default, ~ServerOwned(col), ~Named(given, col.name),
           Scoped => col # TenantColumn
    PROVE  MayLeaveOut(op, col)
<1>1. op \in {"insert", "save"}
  BY DEF Puts
<1>2. CASE col \in ToSet(Own)
  <2>1. col.owner = "entity" /\ col.insertable /\ IsList(Own)
    BY <1>2 DEF WellMade, Own
  <2>2. ASSUME op = "save" PROVE FALSE
    <3>1. given = InsertValues(Own, entity[c])
      BY <2>2 DEF Puts
    <3>2. ColumnValue(col.name, entity[c][col.name]) \in ToSet(given)
      BY <1>2, <2>1, <3>1, InsertValuesAre
    <3> QED
      BY <3>2, NamedIs DEF ColumnValue
  <2> QED
    BY <1>1, <2>1, <2>2 DEF MayLeaveOut
<1>3. CASE col \in ToSet(AuditColumns) \cup ToSet(SoftColumns)
  BY <1>1, <1>3 DEF MayLeaveOut, WellMade, AuditColumns, SoftColumns
<1>4. CASE col \in ToSet(meta.tenant)
  <2>1. meta.tenant # <<>>
    <3>1. \A i : i \notin DOMAIN <<>>
      OBVIOUS
    <3> QED
      BY <3>1, <1>4 DEF ToSet
  <2> QED
    BY <2>1, <1>4 DEF WellMade, Scoped, TenantColumn
<1> QED
  BY <1>2, <1>3, <1>4 DEF WellMade, PolicySet, AllColumns, Own, AuditColumns, SoftColumns

(* A NULL that an insert leaves in a column that takes none was given or     *)
(* left out.                                                                 *)
LEMMA NullInserted ==
    ASSUME Inv, NEW c \in Clients, NEW op, NEW given, Puts(c, op, given),
           InsertStatement(c, given).ok,
           NEW col \in ToSet(AllColumns), ~col.nullable,
           Inserted(InsertStatement(c, given).value)[col.name] = Null
    PROVE  NoValue(op, given)
<1> DEFINE values == InsertStatement(c, given).value
           audited == ApplyAuditValues("insert", given, model.runtime[c].audit)
<1>1. TheTable /\ WellMade(meta) /\ HandsOut /\ Valued(given)
  BY TableWellMade DEF Inv, Puts
<1>2. /\ ValuesFit(values) /\ ToSet(given) \subseteq ToSet(values) /\ audited.ok
      /\ \A v \in ToSet(values) : v \in ToSet(audited.value) \/ (Scoped /\ v.column = TenantColumn.name)
      /\ Scoped => /\ Named(values, TenantColumn.name)
                   /\ ValueOf(values, TenantColumn.name) = ActiveTenant(c).value
  BY <1>1, InsertSent
<1>3. Scoped => ActiveTenant(c).value # Null
  BY TenantFitsWhenSent DEF TenantFits, TenantValueFits
<1>4. next.version # Null /\ next.id # Null /\ "computed" # Null
  BY <1>1, ValuesAssumption DEF HandsOut
<1>5. Inserted(values)[col.name] =
        IF col.rowversion THEN next.version ELSE IF col.identity THEN next.id
        ELSE IF col.computed THEN "computed"
        ELSE IF Named(values, col.name) THEN ValueOf(values, col.name)
        ELSE IF col.default THEN DefaultOf(col) ELSE Null
  BY <1>1, InsertedIs
<1>6. ~ServerOwned(col)
      /\ IF Named(values, col.name) THEN ValueOf(values, col.name) = Null ELSE ~col.default
  BY <1>4, <1>5, DefaultsAre DEF ServerOwned
<1> HIDE DEF values
<1>7. CASE Named(values, col.name)
  <2>1. PICK v \in ToSet(values) : v.column = col.name /\ v.value = Null
    BY <1>2, <1>6, <1>7, ValueLookup DEF ValuesFit, Valued
  <2>2. ~(Scoped /\ v.column = TenantColumn.name)
    BY <1>2, <1>3, <1>6, <1>7, <2>1
  <2>3. v \in ToSet(audited.value)
    BY <1>2, <2>1, <2>2
  <2>4. Named(given, col.name) /\ ValueOf(given, col.name) = Null
    BY <1>1, <1>2, <2>1, <2>3, AuditNull
  <2> QED
    BY <2>4, GivenNull
<1>8. CASE ~Named(values, col.name)
  <2>1. ~Named(given, col.name)
    BY <1>2, <1>8, NamedIs
  <2>2. Scoped => col # TenantColumn
    BY <1>2, <1>8
  <2>3. MayLeaveOut(op, col)
    BY <1>1, <1>6, <1>8, <2>1, <2>2, LeftOut
  <2> QED
    BY <2>1, <2>3, GivenNull
<1> QED
  BY <1>7, <1>8

(* An insert refused for its key names, or leaves out, a key that a row has. *)
LEMMA KeyInserted ==
    ASSUME Inv, NEW c \in Clients, NEW op, NEW given, Puts(c, op, given),
           InsertStatement(c, given).ok, KeyTaken(Inserted(InsertStatement(c, given).value))
    PROVE  KeyClash(given)
<1> DEFINE values == InsertStatement(c, given).value
           row == Inserted(values)
<1>1. TheTable /\ WellMade(meta) /\ HandsOut /\ Valued(given) /\ Rows
  BY TableWellMade DEF Inv, Puts
<1>2. /\ ValuesFit(values) /\ ToSet(given) \subseteq ToSet(values)
      /\ ApplyAuditValues("insert", given, model.runtime[c].audit).ok
  BY <1>1, InsertSent
<1>3. PICK r \in db : SameKey(r, row)
  BY DEF KeyTaken
<1>4. RowFits(meta, r, next.id, next.version)
  BY <1>1 DEF Rows
<1>5. \A col \in ToSet(AllColumns) : row[col.name] =
        IF col.rowversion THEN next.version ELSE IF col.identity THEN next.id
        ELSE IF col.computed THEN "computed"
        ELSE IF Named(values, col.name) THEN ValueOf(values, col.name)
        ELSE IF col.default THEN DefaultOf(col) ELSE Null
  BY <1>1, InsertedIs
<1> HIDE DEF values, row
<1> DEFINE k == PrimaryKey[1]
<1>6. /\ 1 \in DOMAIN PrimaryKey /\ k \in ToSet(AllColumns) /\ ~k.rowversion
      /\ r[k.name] = row[k.name]
  BY <1>1, <1>3, KeysAreColumns DEF SameKey
<1>7. ~k.identity
  <2> SUFFICES ASSUME k.identity PROVE FALSE
    OBVIOUS
  <2>1. row[k.name] = next.id
    BY <1>5, <1>6
  <2>2. r[k.name] \in 0 .. next.id - 1
    BY <1>4, <1>6 DEF RowFits, AllColumns
  <2> QED
    BY <1>1, <1>6, <2>1, <2>2 DEF HandsOut
<1>8. ASSUME Named(given, k.name)
      PROVE  r[k.name] = ValueOf(given, k.name)
  <2>1. PICK v \in ToSet(given) : v.column = k.name /\ ValueOf(given, k.name) = v.value
    BY <1>1, <1>8, ValueLookup DEF Valued
  <2>2. Named(values, k.name) /\ ValueOf(values, k.name) = v.value
    BY <1>2, <2>1, TheValue DEF ValuesFit, Valued
  <2>3. PICK d \in ToSet(AllColumns) : d.name = v.column /\ InsertColumnFits(d)
    BY <1>2, <2>1 DEF ValuesFit
  <2>4. d = k
    BY <1>1, <1>6, <2>1, <2>3, AColumn
  <2>5. ~k.computed
    BY <2>3, <2>4 DEF InsertColumnFits
  <2> QED
    BY <1>5, <1>6, <1>7, <2>1, <2>2, <2>5
<1> QED
  BY <1>6, <1>7, <1>8 DEF KeyClash

(* Every refusal of a compiled insert is explained.                          *)
LEMMA InsertExplained ==
    ASSUME Inv, NEW c \in Clients, NEW op, NEW given, Puts(c, op, given),
           InsertStatement(c, given).ok, InsertRefused(InsertStatement(c, given).value)
    PROVE  Explained(c, op, given)
<1> DEFINE values == InsertStatement(c, given).value
<1>1. TheTable /\ WellMade(meta) /\ Valued(given) /\ op \in {"insert", "save"}
  BY TableWellMade DEF Inv, Puts
<1>2. ValuesFit(values)
  BY <1>1, InsertSent
<1>3. CASE Assigns(values, ServerOwned)
  <2>1. PICK v \in ToSet(values) : ServerOwned(ColumnNamed(AllColumns, v.column))
    BY <1>3, AssignsIs
  <2>2. PICK d \in ToSet(AllColumns) : d.name = v.column /\ InsertColumnFits(d)
    BY <1>2 DEF ValuesFit
  <2>3. ColumnNamed(AllColumns, v.column) = d
    BY <1>1, <2>2, AColumn
  <2>4. d.identity /\ ~d.key
    BY <2>1, <2>2, <2>3 DEF ServerOwned, InsertColumnFits
  <2> QED
    BY <2>4, OtherIdentityIs DEF Explained
<1>4. CASE HasForbiddenNull(Inserted(values))
  <2>1. PICK col \in ToSet(AllColumns) : ~col.nullable /\ Inserted(values)[col.name] = Null
    BY <1>4, ForbiddenNull
  <2> QED
    BY <2>1, NullInserted DEF Explained
<1>5. CASE KeyTaken(Inserted(values))
  BY <1>1, <1>5, KeyInserted DEF Explained
<1> QED
  BY <1>3, <1>4, <1>5 DEF InsertRefused

Refused(c, op, given) ==
    /\ last' = [by |-> c, op |-> op, given |-> given, answer |-> "server"]
    /\ Unwritten /\ Explained(c, op, given)

(* An insert answered with the server's error was refused for an explained   *)
(* reason.                                                                   *)
LEMMA InsertServer ==
    ASSUME Inv, NEW c \in Clients, NEW op, NEW given, Puts(c, op, given), last'.answer = "server"
    PROVE  Refused(c, op, given)
<1> DEFINE s == InsertStatement(c, given)
<1>1. SendsInsert(c, op, given, s)
  BY DEF Puts, Inserts
<1> HIDE DEF s
<1>2. s.ok /\ InsertRefused(s.value) /\ Answers(c, op, given, "server") /\ Unwritten
  <2>1. ~Answers(c, op, given, "compile")
    BY DEF Answers
  <2>2. ~Returns(c, op, given, Inserted(s.value))
    BY ReturnAnswers
  <2> QED
    BY <1>1, <2>1, <2>2 DEF SendsInsert
<1>3. Explained(c, op, given)
  BY <1>2, InsertExplained DEF s
<1> QED
  BY <1>2, <1>3 DEF Refused, Answers

(* An update or delete answered with the server's error was refused for an   *)
(* explained reason.                                                         *)
LEMMA WriteServer ==
    ASSUME Inv, NEW c \in Clients, NEW op, NEW given, NEW s, NEW key, NEW token,
           Asks(c, op, given, s, key, token), Writes(c, op, given, s, token),
           last' # None, last'.answer = "server"
    PROVE  Refused(c, op, given)
<1>1. \A answer : answer # "server" => ~Answers(c, op, given, answer)
  BY DEF Answers
<1>2. Missed(op) # "server"
  BY DEF Missed
<1>3. s.ok /\ UpdateRefused(s.value) /\ Answers(c, op, given, "server") /\ Unwritten
  <2>1. \A row : ~Returns(c, op, given, row)
    BY ReturnAnswers
  <2>2. \A key_, token_ : ~Continues(c, op, "recheck", key_, token_)
    BY DEF Continues
  <2> QED
    BY <1>1, <1>2, <2>1, <2>2 DEF Writes
<1>4. Explained(c, op, given)
  BY <1>3, UpdateExplained
<1> QED
  BY <1>3, <1>4 DEF Refused, Answers

RefusedStep ==
    last' # None /\ last'.answer = "server" => /\ UNCHANGED db
                                               /\ Explained(last'.by, last'.op, last'.given)
SavedStep ==
    last' # None /\ last'.op = "save" /\ last'.answer = "ok" =>
        \E r \in db' : FromRow(Own, r) = entity'[last'.by]

(* Every step that answers with the server's error has an explained reason.  *)
LEMMA StepRefuses ==
    ASSUME Inv, NEW c \in Clients, Step(c)
    PROVE  RefusedStep
<1> SUFFICES ASSUME last' # None, last'.answer = "server"
             PROVE  UNCHANGED db /\ Explained(last'.by, last'.op, last'.given)
  BY DEF RefusedStep
<1>1. ~Rests(c)
  BY DEF Rests
<1>2. PICK op, given : Refused(c, op, given)
  BY <1>1, StepCases, InsertServer, WriteServer DEF Sends
<1> QED
  BY <1>2 DEF Refused, Unwritten

(* Every save that answers ok leaves its object equal to a row of the        *)
(* database.                                                                 *)
LEMMA StepSyncs ==
    ASSUME Inv, NEW c \in Clients, Step(c)
    PROVE  SavedStep
<1> SUFFICES ASSUME last' # None, last'.op = "save", last'.answer = "ok"
             PROVE  \E r \in db' : FromRow(Own, r) = entity'[last'.by]
  BY DEF SavedStep
<1>1. ~UNCHANGED next
  BY UnwrittenNotOk DEF Reports, WritingOps
<1>2. entity = [d \in Clients |-> entity[d]]
  BY DEF Inv, Objects
<1>3. ASSUME NEW given, NEW row \in db', Returns(c, "save", given, row)
      PROVE  FromRow(Own, row) = entity'[last'.by]
  <2>1. last'.by = c /\ entity' = [entity EXCEPT ![c] = FromRow(Own, row)]
    BY <1>3 DEF Returns, Answers, SyncPersisted
  <2> QED
    BY <1>2, <2>1
<1>4. CASE \E op, given : Put(c, op, given)
  <2>1. PICK op, given : Put(c, op, given)
    BY <1>4
  <2>2. op = "save"
    BY <2>1 DEF Put, Answered
  <2> DEFINE row == Inserted(InsertStatement(c, given).value)
  <2>3. row \in db' /\ Returns(c, "save", given, row)
    BY <2>1, <2>2 DEF Put, Adds
  <2> HIDE DEF row
  <2> QED
    BY <1>3, <2>3
<1>5. CASE \E op, given, s, key, token, r : Rewrote(c, op, given, s, key, token, r)
  <2>1. PICK op, given, s, key, token, r : Rewrote(c, op, given, s, key, token, r)
    BY <1>5
  <2>2. op = "save"
    BY <2>1 DEF Rewrote, Answered
  <2> DEFINE row == Changed(r, s.value.changes)
  <2>3. row \in db' /\ Returns(c, "save", given, row)
    BY <2>1, <2>2 DEF Rewrote, Rewrites
  <2> HIDE DEF row
  <2> QED
    BY <1>3, <2>3
<1>6. CASE \E op, given, s, key, token, r : Erased(c, op, given, s, key, token, r)
  <2>1. PICK op, given, s, key, token, r : Erased(c, op, given, s, key, token, r)
    BY <1>6
  <2>2. op = "save"
    BY <2>1 DEF Erased, Answered
  <2>3. op \in {"remove", "delete"}
    BY <2>1, NeverErased DEF Erased, Erases
  <2> QED
    BY <2>2, <2>3
<1> QED
  BY <1>1, <1>4, <1>5, <1>6, WhatMoves

(* The invariant contains the types and the distinct names of the policies'  *)
(* columns.                                                                  *)
LEMMA TypesHold ==
    ASSUME Inv
    PROVE  TypeOK /\ PolicyColumnsDistinct
<1>1. TheTable /\ WellMade(meta) /\ Rows /\ Objects /\ Calls /\ Bounded
  BY TableWellMade DEF Inv
<1>2. \A r \in db : DOMAIN r = Names(AllColumns) /\ ~HasForbiddenNull(r)
  BY <1>1, ForbiddenNull DEF Rows, RowFits, AllColumns
<1>3. \A r, s \in db : SameKey(r, s) => r = s
  BY <1>1 DEF Rows
<1>4. ASSUME NEW c \in Clients
      PROVE  /\ entity[c] # None => DOMAIN entity[c] = Names(Own)
             /\ call[c] # None => call[c].then \in {"insert", "update", "recheck"}
  BY <1>1, <1>4 DEF Objects, ObjectFits, Own, Calls
<1>5. steps \in 0 .. MaxSteps + 2 * Cardinality(Clients)
  <2>1. IsFiniteSet(Clients) /\ Busy \subseteq Clients /\ Going \subseteq Clients
    BY BoundsAssumption DEF Busy, Going
  <2>2. /\ Cardinality(Clients) \in Nat /\ Cardinality(Busy) \in Nat
        /\ Cardinality(Going) \in Nat
    BY <2>1, FS_Subset, FS_CardinalityType
  <2> QED
    BY <1>1, <2>2, BoundsAssumption DEF Bounded
<1>6. TypeOK
  BY <1>2, <1>3, <1>4, <1>5 DEF TypeOK
<1>7. PolicyColumnsDistinct
  <2>1. Distinct(AllColumns)
    BY <1>1 DEF WellMade, AllColumns
  <2> QED
    BY <2>1 DEF Distinct, PolicyColumnsDistinct
<1> QED
  BY <1>6, <1>7

(* Every step keeps a saved object equal to its row until the next answer,   *)
(* and refusals explained.                                                   *)
LEMMA SoundStep ==
    ASSUME Inv, SavedIsSynced, RefusalsExplained, [Next]_vars
    PROVE  SavedIsSynced' /\ RefusalsExplained'
<1>1. CASE UNCHANGED vars
  BY <1>1 DEF vars, SavedIsSynced, RefusalsExplained, Own, KeyClash, NoValue, StrayNull,
              OtherIdentity, AllColumns, PrimaryKey, SoftColumns, model
<1>2. CASE Next
  <2>1. PICK c \in Clients : Step(c)
    BY <1>2 DEF Next
  <2>2. UNCHANGED <<scenario, meta>>
    BY <1>2 DEF Next
  <2>3. SavedStep /\ RefusedStep
    BY <2>1, StepSyncs, StepRefuses
  <2>4. SavedIsSynced'
    BY <2>2, <2>3 DEF SavedIsSynced, SavedStep, Own
  <2>5. RefusalsExplained'
    BY <2>2, <2>3 DEF RefusalsExplained, RefusedStep, Explained, KeyClash, NoValue, StrayNull,
                      OtherIdentity, AllColumns, PrimaryKey, SoftColumns, model
  <2> QED
    BY <2>4, <2>5
<1> QED
  BY <1>1, <1>2

(* After every write, for every table and input: rows and objects have their *)
(* columns and distinct keys, policy columns their own names, a saved object *)
(* is what the database holds, and every refusal of the server is one the    *)
(* declaration or the input explains.                                        *)
THEOREM WritesStaySound == Spec => []WritesSound
<1>1. Init => SavedIsSynced /\ RefusalsExplained
  BY DEF Init, SavedIsSynced, RefusalsExplained
<1>2. Inv /\ SavedIsSynced /\ RefusalsExplained /\ [Next]_vars =>
        SavedIsSynced' /\ RefusalsExplained'
  BY SoundStep
<1>3. Inv => TypeOK /\ PolicyColumnsDistinct
  BY TypesHold
<1> QED
  BY <1>1, <1>2, <1>3, TablesStaySound, PTL DEF Spec, WritesSound
=============================================================================
