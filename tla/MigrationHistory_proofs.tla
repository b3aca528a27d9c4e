----------------------- MODULE MigrationHistory_proofs -----------------------
(* What MigrationHistory guarantees for every set of clients, every number   *)
(* of migrations, every sequence of models and every mix of faults.          *)
EXTENDS MigrationHistory, FiniteSetTheorems, WellFoundedInduction, TLAPS

-----------------------------------------------------------------------------
(* Numbers: the largest of a set, and a set in increasing order *)

(* Induction on the natural numbers, for a set of them.                      *)
LEMMA Induction ==
    ASSUME NEW S, 0 \in S, \A n \in Nat : n \in S => n + 1 \in S
    PROVE  Nat \subseteq S
<1> DEFINE T == Nat \ S
<1>1. SUFFICES ASSUME T # {}
               PROVE  FALSE
  OBVIOUS
<1>2. PICK m \in T : \A y \in T : <<y, m>> \notin OpToRel(<, Nat)
  BY <1>1, NatLessThanWellFounded, WFMin
<1>3. \A y \in T : ~(y < m)
  BY <1>2 DEF OpToRel
<1>4. m \in Nat /\ m \notin S /\ m # 0
  OBVIOUS
<1>5. m - 1 \in Nat /\ m - 1 < m /\ (m - 1) + 1 = m
  BY <1>4
<1>6. m - 1 \in S
  BY <1>3, <1>5
<1> QED
  BY <1>4, <1>5, <1>6

(* The largest of a bounded set of numbers is one of them, and no other is   *)
(* larger.                                                                   *)
LEMMA LargestIs ==
    ASSUME NEW n \in Nat, NEW S, S \subseteq 0..n, S # {}
    PROVE  Max(S) \in S /\ \A x \in S : x <= Max(S)
<1> DEFINE T == {k \in Nat : k <= n /\ n - k \in S}
<1>1. T # {}
  <2>1. PICK x \in S : TRUE
    OBVIOUS
  <2>2. x \in 0..n
    BY <2>1
  <2>3. n - x \in Nat /\ n - x <= n /\ n - (n - x) = x
    BY <2>2
  <2>4. n - x \in T
    BY <2>1, <2>3
  <2> QED  BY <2>4
<1>2. PICK k \in T : \A y \in T : <<y, k>> \notin OpToRel(<, Nat)
  BY <1>1, NatLessThanWellFounded, WFMin
<1>3. \A y \in T : ~(y < k)
  BY <1>2 DEF OpToRel
<1>4. k \in Nat /\ k <= n /\ n - k \in S
  BY <1>2
<1>5. ASSUME NEW x \in S
      PROVE  n - k >= x
  <2>1. x \in 0..n
    OBVIOUS
  <2>2. n - x \in Nat /\ n - x <= n /\ n - (n - x) = x
    BY <2>1
  <2>3. n - x \in T
    BY <2>2
  <2>4. ~(n - x < k)
    BY <1>3, <2>3
  <2> QED  BY <1>4, <2>1, <2>4
<1>6. \E x \in S : \A y \in S : x >= y
  BY <1>4, <1>5
<1>7. Max(S) \in S /\ \A y \in S : Max(S) >= y
  BY <1>6 DEF Max
<1> QED
  BY <1>7

(* An element that no other exceeds is the largest.                          *)
LEMMA LargestIsOnly ==
    ASSUME NEW S, S \subseteq Nat, NEW m \in S, \A x \in S : x <= m
    PROVE  Max(S) = m
<1>1. \A x \in S : m >= x
  OBVIOUS
<1>2. Max(S) \in S /\ \A x \in S : Max(S) >= x
  BY <1>1 DEF Max
<1>3. Max(S) \in Nat /\ m \in Nat
  BY <1>2
<1>4. Max(S) >= m /\ m >= Max(S)
  BY <1>1, <1>2
<1> QED
  BY <1>3, <1>4

Increasing(s, n) == \A i, j \in 1..n : i < j => s[i] < s[j]

(* Every finite set of numbers can be put in increasing order.               *)
LEMMA OrderExists ==
    ASSUME NEW S, IsFiniteSet(S), S \subseteq Nat
    PROVE  \E s \in [1..Cardinality(S) -> S] : Increasing(s, Cardinality(S))
<1> DEFINE Ordered(n) ==
        \A U \in SUBSET S : Cardinality(U) = n =>
            \E s \in [1..n -> U] : Increasing(s, n)
           N == {n \in Nat : Ordered(n)}
<1>1. 0 \in N
  <2>1. ASSUME NEW U \in SUBSET S
        PROVE  \E s \in [1..0 -> U] : Increasing(s, 0)
    <3>1. 1..0 = {}
      OBVIOUS
    <3>2. [i \in 1..0 |-> i] \in [1..0 -> U]
      BY <3>1
    <3>3. Increasing([i \in 1..0 |-> i], 0)
      BY <3>1 DEF Increasing
    <3> QED  BY <3>2, <3>3
  <2> QED  BY <2>1
<1>2. ASSUME NEW n \in Nat, n \in N
      PROVE  n + 1 \in N
  <2>1. ASSUME NEW U \in SUBSET S, Cardinality(U) = n + 1
        PROVE  \E s \in [1..n + 1 -> U] : Increasing(s, n + 1)
    <3>1. IsFiniteSet(U) /\ U \subseteq Nat
      BY FS_Subset
    <3>2. U # {}
      BY <2>1, <3>1, FS_EmptySet
    <3>3. PICK m \in U : \A y \in U : <<y, m>> \notin OpToRel(<, Nat)
      BY <3>1, <3>2, NatLessThanWellFounded, WFMin
    <3>4. \A y \in U : ~(y < m)
      BY <3>1, <3>3 DEF OpToRel
    <3>5. Cardinality(U \ {m}) = Cardinality(U) - 1
      BY <3>1, <3>3, FS_RemoveElement
    <3>6. Cardinality(U \ {m}) = n /\ U \ {m} \in SUBSET S
      BY <2>1, <3>5
    <3>7. PICK t \in [1..n -> U \ {m}] : Increasing(t, n)
      BY <1>2, <3>6
    <3> DEFINE s == [i \in 1..n + 1 |-> IF i = 1 THEN m ELSE t[i - 1]]
    <3>8. \A i \in 1..n + 1 : i # 1 => i - 1 \in 1..n /\ s[i] = t[i - 1]
      OBVIOUS
    <3>9. 1 \in 1..n + 1 /\ s[1] = m
      OBVIOUS
    <3>10. \A i \in 1..n + 1 : i # 1 => s[i] \in U /\ s[i] # m
      <4> HIDE DEF s
      <4> QED  BY <3>7, <3>8
    <3>11. s \in [1..n + 1 -> U]
      BY <3>3, <3>9, <3>10
    <3>12. ASSUME NEW i \in 1..n + 1, NEW j \in 1..n + 1, i < j
           PROVE  s[i] < s[j]
      <4> HIDE DEF s
      <4>1. j # 1 /\ s[j] \in U /\ s[j] # m
        BY <3>10, <3>12
      <4>2. CASE i = 1
        <5>1. ~(s[j] < m) /\ s[j] \in Nat /\ m \in Nat
          BY <3>1, <3>3, <3>4, <4>1
        <5> QED  BY <3>9, <4>1, <4>2, <5>1
      <4>3. CASE i # 1
        <5>1. i - 1 \in 1..n /\ j - 1 \in 1..n /\ i - 1 < j - 1
          BY <3>12, <4>3
        <5> QED  BY <3>7, <3>8, <4>1, <4>3, <5>1 DEF Increasing
      <4> QED  BY <4>2, <4>3
    <3>13. Increasing(s, n + 1)
      <4> HIDE DEF s
      <4> QED  BY <3>12 DEF Increasing
    <3> QED  BY <3>11, <3>13
  <2> QED  BY <2>1
<1> HIDE DEF N
<1>3. Nat \subseteq N
  BY <1>1, <1>2, Induction
<1>4. Cardinality(S) \in Nat
  BY FS_CardinalityType
<1>5. Ordered(Cardinality(S))
  BY <1>3, <1>4 DEF N
<1> QED
  BY <1>5

(* Sorted puts a set in increasing order and leaves nothing out.             *)
LEMMA SortedIs ==
    ASSUME NEW S, IsFiniteSet(S), S \subseteq Nat
    PROVE  /\ Sorted(S) \in Seq(S)
           /\ Cardinality(S) \in Nat /\ DOMAIN Sorted(S) = 1..Cardinality(S)
           /\ \A i, j \in 1..Cardinality(S) : i < j => Sorted(S)[i] < Sorted(S)[j]
           /\ \A i, j \in 1..Cardinality(S) : Sorted(S)[i] = Sorted(S)[j] => i = j
           /\ \A i \in 1..Cardinality(S) : Sorted(S)[i] \in S
           /\ \A x \in S : \E i \in 1..Cardinality(S) : Sorted(S)[i] = x
<1> DEFINE n == Cardinality(S)
           s == Sorted(S)
<1>1. \E t \in [1..n -> S] : \A i, j \in 1..n : i < j => t[i] < t[j]
  BY OrderExists DEF Increasing
<1>2. s \in [1..n -> S] /\ \A i, j \in 1..n : i < j => s[i] < s[j]
  BY <1>1 DEF Sorted
<1>3. n \in Nat
  BY FS_CardinalityType
<1> HIDE DEF n, s
<1>4. s \in Seq(S) /\ DOMAIN s = 1..n
  BY <1>2, <1>3
<1>5. ASSUME NEW i \in 1..n, NEW j \in 1..n, s[i] = s[j]
      PROVE  i = j
  <2>1. s[i] \in Nat /\ s[j] \in Nat
    BY <1>2
  <2>2. i \in Int /\ j \in Int
    BY <1>3
  <2> QED  BY <1>2, <1>5, <2>1, <2>2
<1>6. s \in Injection(1..n, S)
  BY <1>2, <1>5 DEF Injection, IsInjective
<1>7. IsFiniteSet(1..n) /\ Cardinality(1..n) = n
  BY <1>3, FS_Interval
<1>8. s \in Surjection(1..n, S)
  BY <1>6, <1>7, FS_Injection DEF n
<1>9. \A x \in S : \E i \in 1..n : s[i] = x
  BY <1>8 DEF Surjection
<1> QED
  BY <1>2, <1>3, <1>4, <1>5, <1>9 DEF n, s

-----------------------------------------------------------------------------
(* What a script's body does *)

Creates(body) == {body[i].object : i \in {n \in DOMAIN body : body[n].create}}
Drops(body) == {body[i].object : i \in {n \in DOMAIN body : ~body[n].create}}
(* No object is named twice.                                                 *)
Single(body) == \A i, j \in DOMAIN body : body[i].object = body[j].object => i = j
(* One body takes back what another does; one leads from a model to another. *)
Undoes(down, up) ==
    Single(down) /\ Creates(down) = Drops(up) /\ Drops(down) = Creates(up)
Leads(body, old, new) ==
    Single(body) /\ Creates(body) = new \ old /\ Drops(body) = old \ new

(* Membership of the two, spelled out.                                       *)
LEMMA CreatesDrops ==
    ASSUME NEW body, NEW x
    PROVE  /\ x \in Creates(body) <=> \E i \in DOMAIN body : body[i].create /\ body[i].object = x
           /\ x \in Drops(body) <=> \E i \in DOMAIN body : ~body[i].create /\ body[i].object = x
  BY Zenon DEF Creates, Drops

(* The plan from one model to another names what they differ in, once.       *)
LEMMA PlanLeads ==
    ASSUME NEW old, NEW new, old \subseteq Objects, new \subseteq Objects
    PROVE  UpBody(old, new) \in Bodies /\ Leads(UpBody(old, new), old, new)
<1> DEFINE a == Sorted(new \ old)
           g == Sorted(old \ new)
           A == [i \in DOMAIN a |-> Create(a[i])]
           G == [i \in DOMAIN g |-> Drop(g[i])]
<1>1. IsFiniteSet(Objects) /\ Objects \subseteq Nat
  BY ModelsAssumption
<1>2. /\ IsFiniteSet(new \ old) /\ new \ old \subseteq Nat
      /\ IsFiniteSet(old \ new) /\ old \ new \subseteq Nat
  <2>1. new \ old \in SUBSET Objects /\ old \ new \in SUBSET Objects
    OBVIOUS
  <2> QED  BY <1>1, <2>1, FS_Subset
<1> DEFINE n == Cardinality(new \ old)
           m == Cardinality(old \ new)
<1>3. /\ n \in Nat /\ DOMAIN a = 1..n
      /\ \A i, j \in 1..n : a[i] = a[j] => i = j
      /\ \A i \in 1..n : a[i] \in new \ old
      /\ \A x \in new \ old : \E i \in 1..n : a[i] = x
  BY <1>2, SortedIs
<1>4. /\ m \in Nat /\ DOMAIN g = 1..m
      /\ \A i, j \in 1..m : g[i] = g[j] => i = j
      /\ \A i \in 1..m : g[i] \in old \ new
      /\ \A x \in old \ new : \E i \in 1..m : g[i] = x
  BY <1>2, SortedIs
<1> HIDE DEF a, g, n, m
<1>5. A \in Seq(Statements) /\ Len(A) = n /\ \A i \in 1..n : A[i] = Create(a[i])
  <2>1. \A i \in 1..n : Create(a[i]) \in Statements
    BY <1>3 DEF Create, Statements
  <2> QED  BY <1>3, <2>1
<1>6. G \in Seq(Statements) /\ Len(G) = m /\ \A i \in 1..m : G[i] = Drop(g[i])
  <2>1. \A i \in 1..m : Drop(g[i]) \in Statements
    BY <1>4 DEF Drop, Statements
  <2> QED  BY <1>4, <2>1
<1> DEFINE b == A \o G
<1>7. UpBody(old, new) = b
  BY DEF UpBody, a, g
<1> HIDE DEF A, G
<1>8. /\ b \in Seq(Statements) /\ DOMAIN b = 1..n + m
      /\ \A i \in 1..n : b[i] = A[i]
      /\ \A i \in 1..m : b[n + i] = G[i]
  <2>1. b \in Seq(Statements) /\ Len(b) = n + m
    BY <1>3, <1>4, <1>5, <1>6
  <2>2. /\ \A i \in 1..Len(A) + Len(G) : i <= Len(A) => b[i] = A[i]
        /\ \A i \in 1..Len(A) + Len(G) : i > Len(A) => b[i] = G[i - Len(A)]
    BY <1>5, <1>6
  <2> HIDE DEF b
  <2>3. \A i \in 1..n : b[i] = A[i]
    BY <1>3, <1>4, <1>5, <1>6, <2>2
  <2>4. ASSUME NEW i \in 1..m
        PROVE  b[n + i] = G[i]
    <3>1. n + i \in 1..n + m /\ n + i > n /\ (n + i) - n = i
      BY <1>3, <1>4
    <3> QED  BY <1>5, <1>6, <2>2, <3>1
  <2> QED  BY <2>1, <2>3, <2>4
<1> HIDE DEF b
<1>9. \A i \in 1..n : i \in 1..n + m /\ b[i].create = TRUE /\ b[i].object = a[i]
  BY <1>3, <1>4, <1>5, <1>8 DEF Create
<1>10. \A i \in 1..m : n + i \in 1..n + m /\ b[n + i].create = FALSE /\ b[n + i].object = g[i]
  BY <1>3, <1>4, <1>6, <1>8 DEF Drop
<1>11. \A i \in 1..n + m : i \in 1..n \/ (i - n \in 1..m /\ n + (i - n) = i)
  BY <1>3, <1>4
<1>12. ASSUME NEW i \in 1..n + m, NEW j \in 1..n + m, b[i].object = b[j].object
       PROVE  i = j
  <2>1. CASE i \in 1..n /\ j \in 1..n
    <3>1. a[i] = a[j]
      BY <1>9, <1>12, <2>1
    <3> QED  BY <1>3, <2>1, <3>1
  <2>2. CASE i \in 1..n /\ j - n \in 1..m /\ n + (j - n) = j
    <3>1. b[i].object \in new
      BY <1>3, <1>9, <2>2
    <3>2. b[n + (j - n)].object = g[j - n]
      BY <1>10, <2>2
    <3>3. b[j].object \notin new
      BY <1>4, <2>2, <3>2
    <3> QED  BY <1>12, <3>1, <3>3
  <2>3. CASE i - n \in 1..m /\ n + (i - n) = i /\ j \in 1..n
    <3>1. b[j].object \in new
      BY <1>3, <1>9, <2>3
    <3>2. b[n + (i - n)].object = g[i - n]
      BY <1>10, <2>3
    <3>3. b[i].object \notin new
      BY <1>4, <2>3, <3>2
    <3> QED  BY <1>12, <3>1, <3>3
  <2>4. CASE i - n \in 1..m /\ n + (i - n) = i /\ j - n \in 1..m /\ n + (j - n) = j
    <3>1. b[n + (i - n)].object = g[i - n] /\ b[n + (j - n)].object = g[j - n]
      BY <1>10, <2>4
    <3>2. g[i - n] = g[j - n]
      BY <1>12, <2>4, <3>1
    <3>3. i - n = j - n
      BY <1>4, <2>4, <3>2
    <3> QED  BY <2>4, <3>3
  <2> QED  BY <1>11, <2>1, <2>2, <2>3, <2>4
<1>13. Single(b)
  BY <1>8, <1>12 DEF Single
<1>14. Creates(b) = new \ old
  <2>1. ASSUME NEW i \in 1..n + m, b[i].create
        PROVE  b[i].object \in new \ old
    <3>1. CASE i \in 1..n
      BY <1>3, <1>9, <3>1
    <3>2. CASE i - n \in 1..m /\ n + (i - n) = i
      <4>1. b[n + (i - n)].create = FALSE
        BY <1>10, <3>2
      <4> QED  BY <2>1, <3>2, <4>1
    <3> QED  BY <1>11, <3>1, <3>2
  <2>2. ASSUME NEW x \in new \ old
        PROVE  \E i \in 1..n + m : b[i].create /\ b[i].object = x
    BY <1>3, <1>9
  <2> QED  BY <1>8, <2>1, <2>2 DEF Creates
<1>15. Drops(b) = old \ new
  <2>1. ASSUME NEW i \in 1..n + m, ~b[i].create
        PROVE  b[i].object \in old \ new
    <3>1. CASE i \in 1..n
      BY <1>9, <2>1, <3>1
    <3>2. CASE i - n \in 1..m /\ n + (i - n) = i
      <4>1. b[n + (i - n)].object = g[i - n]
        BY <1>10, <3>2
      <4> QED  BY <1>4, <3>2, <4>1
    <3> QED  BY <1>11, <3>1, <3>2
  <2>2. ASSUME NEW x \in old \ new
        PROVE  \E i \in 1..n + m : ~b[i].create /\ b[i].object = x
    BY <1>4, <1>10
  <2> QED  BY <1>8, <2>1, <2>2 DEF Drops
<1> QED
  BY <1>7, <1>8, <1>13, <1>14, <1>15 DEF Leads, Bodies

(* A body read backwards, each statement replaced by its opposite.           *)
LEMMA OppositeUndoes ==
    ASSUME NEW up \in Bodies, Single(up), NEW down, DOMAIN down = DOMAIN up,
           \A i \in DOMAIN up :
               /\ down[i].object = up[Len(up) + 1 - i].object
               /\ down[i].create <=> ~up[Len(up) + 1 - i].create
    PROVE  Undoes(down, up)
<1>1. DOMAIN up = 1..Len(up) /\ Len(up) \in Nat
  BY DEF Bodies
<1>2. \A i \in DOMAIN up : Len(up) + 1 - i \in DOMAIN up /\ Len(up) + 1 - (Len(up) + 1 - i) = i
  BY <1>1
<1>3. ASSUME NEW i \in DOMAIN up, NEW j \in DOMAIN up, down[i].object = down[j].object
      PROVE  i = j
  <2>1. Len(up) + 1 - i = Len(up) + 1 - j
    BY <1>2, <1>3 DEF Single
  <2>2. i \in Int /\ j \in Int
    BY <1>1
  <2> QED  BY <1>1, <2>1, <2>2
<1>4. ASSUME NEW i \in DOMAIN up
      PROVE  \E j \in DOMAIN down : /\ down[j].object = up[i].object
                                    /\ down[j].create <=> ~up[i].create
  <2>1. Len(up) + 1 - i \in DOMAIN up /\ Len(up) + 1 - (Len(up) + 1 - i) = i
    BY <1>2
  <2> QED  BY <2>1
<1>5. ASSUME NEW i \in DOMAIN down
      PROVE  \E j \in DOMAIN up : /\ down[i].object = up[j].object
                                  /\ down[i].create <=> ~up[j].create
  BY <1>2
<1>6. ASSUME NEW x
      PROVE  x \in Creates(down) <=> x \in Drops(up)
  <2>1. ASSUME x \in Creates(down)
        PROVE  x \in Drops(up)
    <3>1. PICK i \in DOMAIN down : down[i].create /\ down[i].object = x
      BY <2>1, CreatesDrops
    <3>2. PICK j \in DOMAIN up : down[i].object = up[j].object /\ (down[i].create <=> ~up[j].create)
      BY <1>5, Zenon
    <3> QED  BY <3>1, <3>2, CreatesDrops, Zenon
  <2>2. ASSUME x \in Drops(up)
        PROVE  x \in Creates(down)
    <3>1. PICK i \in DOMAIN up : ~up[i].create /\ up[i].object = x
      BY <2>2, CreatesDrops
    <3>2. PICK j \in DOMAIN down : down[j].object = up[i].object /\ (down[j].create <=> ~up[i].create)
      BY <1>4, Zenon
    <3> QED  BY <3>1, <3>2, CreatesDrops, Zenon
  <2> QED  BY <2>1, <2>2
<1>7. ASSUME NEW x
      PROVE  x \in Drops(down) <=> x \in Creates(up)
  <2>1. ASSUME x \in Drops(down)
        PROVE  x \in Creates(up)
    <3>1. PICK i \in DOMAIN down : ~down[i].create /\ down[i].object = x
      BY <2>1, CreatesDrops
    <3>2. PICK j \in DOMAIN up : down[i].object = up[j].object /\ (down[i].create <=> ~up[j].create)
      BY <1>5, Zenon
    <3> QED  BY <3>1, <3>2, CreatesDrops, Zenon
  <2>2. ASSUME x \in Creates(up)
        PROVE  x \in Drops(down)
    <3>1. PICK i \in DOMAIN up : up[i].create /\ up[i].object = x
      BY <2>2, CreatesDrops
    <3>2. PICK j \in DOMAIN down : down[j].object = up[i].object /\ (down[j].create <=> ~up[i].create)
      BY <1>4, Zenon
    <3> QED  BY <3>1, <3>2, CreatesDrops, Zenon
  <2> QED  BY <2>1, <2>2
<1>8. Creates(down) = Drops(up) /\ Drops(down) = Creates(up)
  BY <1>6, <1>7, Zenon
<1> QED
  BY <1>3, <1>8 DEF Undoes, Single

(* The generated rollback is a template or undoes the migration.             *)
LEMMA DownBodyUndoes ==
    ASSUME NEW up \in Bodies, Single(up)
    PROVE  /\ DownBody(up) \in Bodies
           /\ DownBody(up) # <<>> => Undoes(DownBody(up), up)
<1>1. DOMAIN up = 1..Len(up) /\ Len(up) \in Nat /\ \A i \in DOMAIN up : up[i] \in Statements
  BY DEF Bodies
<1>2. \A i \in DOMAIN up : Len(up) + 1 - i \in DOMAIN up
  BY <1>1
<1>3. CASE \A i \in DOMAIN up : up[i].create
  <2> DEFINE d == [i \in DOMAIN up |-> Drop(up[Len(up) + 1 - i].object)]
  <2>1. DownBody(up) = d
    BY <1>3 DEF DownBody
  <2>2. \A i \in DOMAIN up : d[i] = Drop(up[Len(up) + 1 - i].object)
    OBVIOUS
  <2>3. \A i \in DOMAIN up : /\ d[i].object = up[Len(up) + 1 - i].object
                             /\ d[i].create <=> ~up[Len(up) + 1 - i].create
    BY <1>2, <1>3, <2>2 DEF Drop
  <2>4. \A i \in DOMAIN up : d[i] \in Statements
    BY <1>1, <1>2, <2>2 DEF Drop, Statements
  <2>5. DOMAIN d = DOMAIN up /\ d \in Bodies
    BY <1>1, <2>4 DEF Bodies
  <2> HIDE DEF d
  <2>6. Undoes(d, up)
    BY <2>3, <2>5, OppositeUndoes
  <2> QED  BY <2>1, <2>5, <2>6
<1>4. CASE ~\A i \in DOMAIN up : up[i].create
  BY <1>4 DEF DownBody, Bodies
<1> QED
  BY <1>3, <1>4

(* So does the rollback that a developer writes.                             *)
LEMMA HandWrittenUndoes ==
    ASSUME NEW up \in Bodies, Single(up)
    PROVE  HandWritten(up) \in Bodies /\ Undoes(HandWritten(up), up)
<1> DEFINE d == HandWritten(up)
           t(i) == up[Len(up) + 1 - i]
<1>1. DOMAIN up = 1..Len(up) /\ Len(up) \in Nat /\ \A i \in DOMAIN up : up[i] \in Statements
  BY DEF Bodies
<1>2. \A i \in DOMAIN up : Len(up) + 1 - i \in DOMAIN up
  BY <1>1
<1>3. DOMAIN d = DOMAIN up
  BY DEF HandWritten
<1>4. ASSUME NEW i \in DOMAIN up
      PROVE  /\ d[i] \in Statements
             /\ d[i].object = t(i).object
             /\ d[i].create <=> ~t(i).create
  <2>1. t(i) \in Statements
    BY <1>1, <1>2
  <2>2. d[i] = IF t(i).create THEN Drop(t(i).object) ELSE Create(t(i).object)
    BY DEF HandWritten
  <2> HIDE DEF d, t
  <2>3. CASE t(i).create
    <3>1. d[i] = [create |-> FALSE, object |-> t(i).object]
      BY <2>2, <2>3 DEF Drop
    <3> QED  BY <2>1, <2>3, <3>1 DEF Statements
  <2>4. CASE ~t(i).create
    <3>1. d[i] = [create |-> TRUE, object |-> t(i).object]
      BY <2>2, <2>4 DEF Create
    <3> QED  BY <2>1, <2>4, <3>1 DEF Statements
  <2> QED  BY <2>3, <2>4
<1>5. d \in Bodies
  <2>1. d = [i \in DOMAIN up |-> d[i]]
    BY <1>3 DEF HandWritten
  <2> HIDE DEF d
  <2> QED  BY <1>1, <1>4, <2>1 DEF Bodies
<1> HIDE DEF d
<1>6. Undoes(d, up)
  BY <1>3, <1>4, OppositeUndoes
<1> QED
  BY <1>5, <1>6 DEF d

-----------------------------------------------------------------------------
(* The migrations directory *)

Files == [up : Scripts \cup {Missing}, down : Bodies \cup {Missing},
          snapshot : (SUBSET Objects) \cup {Missing}]
Adds == [at : {"directory", "up template", "down template", "snapshot", "up", "down"},
         id : Ids, planned : BOOLEAN, snapshot : SUBSET Objects, body : Bodies]

FilesTyped ==
    /\ files \in [DOMAIN files -> Files] /\ DOMAIN files \subseteq used /\ used \subseteq Ids
    /\ lost \in BOOLEAN
    /\ add \in Adds \cup {NoAdd}

(* No script names an object twice, and a rollback that is not the template  *)
(* undoes its migration.                                                     *)
BodiesSound ==
    \A j \in DOMAIN files :
        /\ files[j].up # Missing => Single(files[j].up.body)
        /\ files[j].down \notin {Missing, <<>>} =>
               files[j].up # Missing /\ Undoes(files[j].down, files[j].up.body)

(* What migration add has written so far.                                    *)
Adding == add.at # "idle"
AddSound ==
    Adding =>
        /\ add.id \in used /\ Single(add.body)
        /\ add.at = "directory" <=> add.id \notin DOMAIN files
        /\ add.at = "up template" => files[add.id].up = Missing
        /\ add.at \in {"up template", "down template"} => files[add.id].down = Missing
        /\ add.at \in {"down template", "snapshot", "up"} =>
               files[add.id].up # Missing /\ files[add.id].up.body = <<>>
        /\ add.at \in {"snapshot", "up"} => files[add.id].down = <<>>
        /\ add.at = "down" => files[add.id].up # Missing /\ files[add.id].up.body = add.body
        /\ add.at \in {"up template", "down template", "snapshot"} =>
               files[add.id].snapshot = Missing
        /\ add.at \in {"up", "down"} => files[add.id].snapshot = add.snapshot

(* While no plan is lost, every script leads from the snapshot before its    *)
(* own to its own, and only the last migration may be without one.           *)
Before(f, j) ==
    LET earlier == {k \in DOMAIN f : k < j}
    IN  IF earlier = {} THEN {} ELSE f[Max(earlier)].snapshot
Planned(f, j) == f[j].up # Missing /\ Leads(f[j].up.body, Before(f, j), f[j].snapshot)
ChainSound ==
    ~lost =>
        /\ \A j \in DOMAIN files :
               files[j].snapshot = Missing \/ (Adding /\ j = add.id) \/ Planned(files, j)
        /\ \A j, k \in DOMAIN files : j < k => files[j].snapshot # Missing
        /\ Adding =>
               /\ add.planned
               /\ \A j \in DOMAIN files : j <= add.id
               /\ \A j \in DOMAIN files : j < add.id => files[j].snapshot # Missing
               /\ Leads(add.body, Before(files, add.id), add.snapshot)

(* What the developer's steps keep.                                          *)
Plans == FilesTyped /\ BodiesSound /\ AddSound /\ ChainSound

(* The snapshot before a migration is that of an earlier one, so that what   *)
(* happens to it and to later ones does not matter.                          *)
LEMMA BeforeSame ==
    ASSUME NEW f, NEW g, NEW j, DOMAIN f \subseteq Ids,
           \A k : (k \in DOMAIN f /\ k < j) <=> (k \in DOMAIN g /\ k < j),
           \A k \in DOMAIN f : k < j => g[k].snapshot = f[k].snapshot
    PROVE  Before(g, j) = Before(f, j)
<1> DEFINE earlier == {k \in DOMAIN f : k < j}
<1>1. {k \in DOMAIN g : k < j} = earlier
  OBVIOUS
<1>2. CASE earlier = {}
  BY <1>1, <1>2 DEF Before
<1>3. CASE earlier # {}
  <2>1. earlier \subseteq 0..MaxId /\ MaxId \in Nat
    BY IdsAssumption DEF Ids
  <2>2. Max(earlier) \in earlier
    BY <1>3, <2>1, LargestIs
  <2>3. g[Max(earlier)].snapshot = f[Max(earlier)].snapshot
    BY <2>2
  <2>4. Before(g, j) = g[Max(earlier)].snapshot /\ Before(f, j) = f[Max(earlier)].snapshot
    BY <1>1, <1>3 DEF Before
  <2> QED  BY <2>3, <2>4
<1> QED
  BY <1>2, <1>3

(* The template is a script with nothing in it.                              *)
LEMMA TemplatesTyped == Template \in Scripts /\ Template.body = <<>> /\ <<>> \in Bodies
  BY DEF Template, Scripts, Bodies

(* It names nothing twice.                                                   *)
LEMMA EmptyIsSingle == Single(<<>>)
  BY DEF Single

(* Writing one file changes nothing else.                                    *)
LEMMA WriteUpIs ==
    ASSUME files \in [DOMAIN files -> Files], NEW id \in DOMAIN files, NEW content \in Scripts,
           files' = WriteFile(id, "up", content)
    PROVE  /\ DOMAIN files' = DOMAIN files /\ files' \in [DOMAIN files' -> Files]
           /\ \A j \in DOMAIN files : j # id => files'[j] = files[j]
           /\ files'[id].up = content
           /\ files'[id].down = files[id].down /\ files'[id].snapshot = files[id].snapshot
  BY DEF WriteFile, Files

(* The same for down.sql.                                                    *)
LEMMA WriteDownIs ==
    ASSUME files \in [DOMAIN files -> Files], NEW id \in DOMAIN files, NEW content \in Bodies,
           files' = WriteFile(id, "down", content)
    PROVE  /\ DOMAIN files' = DOMAIN files /\ files' \in [DOMAIN files' -> Files]
           /\ \A j \in DOMAIN files : j # id => files'[j] = files[j]
           /\ files'[id].down = content
           /\ files'[id].up = files[id].up /\ files'[id].snapshot = files[id].snapshot
  BY DEF WriteFile, Files

(* The same for the snapshot.                                                *)
LEMMA WriteSnapshotIs ==
    ASSUME files \in [DOMAIN files -> Files], NEW id \in DOMAIN files,
           NEW content \in SUBSET Objects, files' = WriteFile(id, "snapshot", content)
    PROVE  /\ DOMAIN files' = DOMAIN files /\ files' \in [DOMAIN files' -> Files]
           /\ \A j \in DOMAIN files : j # id => files'[j] = files[j]
           /\ files'[id].snapshot = content
           /\ files'[id].up = files[id].up /\ files'[id].down = files[id].down
  BY DEF WriteFile, Files

(* A migration add that runs is a record of its kind.                        *)
LEMMA AddIs == FilesTyped /\ Adding => add \in Adds
  BY DEF FilesTyped, Adding, NoAdd

(* A plan is made against the snapshot of the last migration.                *)
LEMMA AddStartsKeeps ==
    ASSUME Plans, AddStarts
    PROVE  Plans'
<1> USE DEF Plans
<1>0. /\ add = NoAdd /\ ~Adding
      /\ files \in [DOMAIN files -> Files] /\ DOMAIN files \subseteq used /\ used \subseteq Ids
      /\ lost \in BOOLEAN
  BY DEF AddStarts, FilesTyped, Adds, Adding
<1>1. PICK id \in Ids, planned \in BOOLEAN, model \in Models :
         /\ \A j \in used : j < id
         /\ (planned => Previous # Missing) /\ (~planned => model = {})
         /\ add' = [at |-> "directory", id |-> id, planned |-> planned,
                    snapshot |-> model,
                    body |-> IF planned THEN UpBody(Previous, model) ELSE <<>>]
         /\ used' = used \cup {id}
         /\ lost' = (lost \/ ~planned)
  BY DEF AddStarts
<1>2. files' = files
  BY DEF AddStarts
<1>3. Ids \subseteq 0..MaxId /\ MaxId \in Nat /\ Ids \subseteq Nat
  BY IdsAssumption DEF Ids
<1>4. model \subseteq Objects
  BY ModelsAssumption
<1>5. ASSUME DOMAIN files # {}
      PROVE  Latest \in DOMAIN files /\ \A j \in DOMAIN files : j <= Latest
  BY <1>0, <1>3, <1>5, LargestIs DEF Latest
<1>6. ASSUME planned
      PROVE  Previous \subseteq Objects
  BY <1>0, <1>1, <1>5, <1>6 DEF Previous, Files
<1> DEFINE body == IF planned THEN UpBody(Previous, model) ELSE <<>>
<1>7. body \in Bodies /\ Single(body) /\ (planned => Leads(body, Previous, model))
  <2>1. CASE planned
    BY <1>4, <1>6, <2>1, PlanLeads DEF Leads
  <2>2. CASE ~planned
    BY <2>2, TemplatesTyped, EmptyIsSingle
  <2> QED  BY <2>1, <2>2
<1>8. add' = [at |-> "directory", id |-> id, planned |-> planned, snapshot |-> model, body |-> body]
  BY <1>1
<1> HIDE DEF body
<1>9. /\ add' \in Adds /\ add'.at = "directory" /\ add'.id = id /\ add'.planned = planned
      /\ add'.snapshot = model /\ add'.body = body
  BY <1>4, <1>7, <1>8 DEF Adds
<1>10. FilesTyped'
  BY <1>0, <1>1, <1>2, <1>9 DEF FilesTyped
<1>11. BodiesSound'
  BY <1>2 DEF BodiesSound
<1>12. id \notin DOMAIN files /\ \A j \in DOMAIN files : j < id
  BY <1>0, <1>1, <1>3
<1>13. AddSound'
  BY <1>1, <1>2, <1>7, <1>9, <1>12 DEF AddSound, Adding
<1>14. ASSUME ~lost'
       PROVE  /\ ~lost /\ planned
              /\ \A j \in DOMAIN files : files[j].snapshot = Missing \/ Planned(files, j)
              /\ \A j \in DOMAIN files : files[j].snapshot # Missing
              /\ Before(files, id) = Previous
  <2>1. ~lost /\ planned
    BY <1>0, <1>1, <1>14
  <2>2. \A j \in DOMAIN files : files[j].snapshot = Missing \/ Planned(files, j)
    BY <1>0, <2>1 DEF ChainSound
  <2>3. ASSUME NEW j \in DOMAIN files
        PROVE  files[j].snapshot # Missing
    <3>1. CASE j = Latest
      BY <1>1, <2>1, <3>1 DEF Previous
    <3>2. CASE j # Latest
      <4>1. Latest \in DOMAIN files /\ j < Latest
        BY <1>0, <1>3, <1>5, <3>2
      <4> QED  BY <2>1, <4>1 DEF ChainSound
    <3> QED  BY <3>1, <3>2
  <2>4. {k \in DOMAIN files : k < id} = DOMAIN files
    BY <1>12
  <2>5. Before(files, id) = Previous
    BY <2>4 DEF Before, Previous, Latest
  <2> QED  BY <2>1, <2>2, <2>3, <2>5
<1>15. ChainSound'
  <2> SUFFICES ASSUME ~lost'
               PROVE  /\ \A j \in DOMAIN files : files[j].snapshot = Missing \/ Planned(files, j)
                      /\ \A j \in DOMAIN files : files[j].snapshot # Missing
                      /\ planned /\ \A j \in DOMAIN files : j <= id
                      /\ Leads(body, Before(files, id), model)
    BY <1>2, <1>9 DEF ChainSound, Planned
  <2>1. \A j \in DOMAIN files : j <= id
    BY <1>0, <1>3, <1>12
  <2> QED  BY <1>7, <1>14, <2>1
<1> QED
  BY <1>10, <1>11, <1>13, <1>15

(* The new directory comes after every other.                                *)
LEMMA AddDirectoryKeeps ==
    ASSUME Plans, AddDirectory, UNCHANGED <<used, lost>>
    PROVE  Plans'
<1> USE DEF Plans
<1>0. /\ files \in [DOMAIN files -> Files] /\ DOMAIN files \subseteq used /\ used \subseteq Ids
      /\ add \in Adds /\ add.at = "directory" /\ Adding
  BY AddIs DEF AddDirectory, FilesTyped, Adding
<1>1. add.id \notin DOMAIN files /\ add.id \in used
  BY <1>0 DEF AddSound
<1> DEFINE new == [up |-> Missing, down |-> Missing, snapshot |-> Missing]
<1>2. new \in Files
  BY DEF Files
<1>3. /\ DOMAIN files' = DOMAIN files \cup {add.id}
      /\ \A j \in DOMAIN files : files'[j] = files[j]
      /\ files'[add.id] = new
      /\ files' \in [DOMAIN files' -> Files]
  <2>1. files' = [j \in DOMAIN files \cup {add.id} |-> IF j = add.id THEN new ELSE files[j]]
    BY DEF AddDirectory
  <2> HIDE DEF new
  <2> QED  BY <1>0, <1>1, <1>2, <2>1
<1>4. /\ add' \in Adds /\ add'.at = "up template" /\ add'.id = add.id
      /\ add'.planned = add.planned /\ add'.snapshot = add.snapshot /\ add'.body = add.body
  BY <1>0 DEF AddDirectory, Adds
<1>5. FilesTyped'
  BY <1>0, <1>1, <1>3, <1>4 DEF FilesTyped
<1>6. BodiesSound'
  BY <1>1, <1>3 DEF BodiesSound
<1>7. AddSound'
  <2>1. Single(add.body)
    BY <1>0 DEF AddSound
  <2>2. files'[add.id].up = Missing /\ files'[add.id].down = Missing /\ files'[add.id].snapshot = Missing
    BY <1>3
  <2> QED  BY <1>0, <1>1, <1>3, <1>4, <2>1, <2>2 DEF AddSound, Adding
<1>8. DOMAIN files \subseteq Nat /\ add.id \in Nat /\ DOMAIN files' \subseteq Nat
  BY <1>0, <1>1, <1>3, IdsAssumption DEF Ids
<1>9. ASSUME ~lost
      PROVE  \A j \in DOMAIN files : j < add.id /\ files[j].snapshot # Missing
  <2>1. \A j \in DOMAIN files : j <= add.id
    BY <1>0, <1>9 DEF ChainSound
  <2>2. \A j \in DOMAIN files : j < add.id
    BY <1>0, <1>1, <2>1, IdsAssumption DEF Ids
  <2> QED  BY <1>0, <1>9, <2>2 DEF ChainSound
<1>10. DOMAIN files \subseteq Ids
  BY <1>0
<1>11. ASSUME ~lost, NEW j \in DOMAIN files \cup {add.id}
       PROVE  Before(files', j) = Before(files, j)
  <2>1. ~(add.id < j)
    BY <1>9, <1>11, <1>8
  <2>2. \A k : (k \in DOMAIN files /\ k < j) <=> (k \in DOMAIN files' /\ k < j)
    BY <1>3, <2>1
  <2>3. \A k \in DOMAIN files : k < j => files'[k].snapshot = files[k].snapshot
    BY <1>3
  <2> QED  BY <1>10, <2>2, <2>3, BeforeSame
<1>12. ChainSound'
  <2> SUFFICES ASSUME ~lost
               PROVE  /\ \A j \in DOMAIN files' : files'[j].snapshot = Missing \/ Planned(files', j)
                      /\ \A j, k \in DOMAIN files' : j < k => files'[j].snapshot # Missing
                      /\ add.planned /\ \A j \in DOMAIN files' : j <= add.id
                      /\ \A j \in DOMAIN files' : j < add.id => files'[j].snapshot # Missing
                      /\ Leads(add.body, Before(files', add.id), add.snapshot)
    BY <1>4 DEF ChainSound, Planned
  <2>1. \A j \in DOMAIN files' : files'[j].snapshot = Missing \/ Planned(files', j)
    <3>1. ASSUME NEW j \in DOMAIN files
          PROVE  files[j].snapshot = Missing \/ Planned(files, j)
      BY <1>1 DEF ChainSound
    <3>2. ASSUME NEW j \in DOMAIN files
          PROVE  Planned(files, j) => Planned(files', j)
      BY <1>3, <1>11 DEF Planned
    <3> QED  BY <1>3, <3>1, <3>2
  <2>2. ASSUME NEW j \in DOMAIN files', NEW k \in DOMAIN files', j < k
        PROVE  files'[j].snapshot # Missing
    <3>1. j # add.id
      BY <1>3, <1>9, <1>8, <2>2
    <3> QED  BY <1>3, <1>9, <3>1
  <2>3. \A j \in DOMAIN files' : j <= add.id
    BY <1>3, <1>9, <1>8
  <2>4. \A j \in DOMAIN files' : j < add.id => files'[j].snapshot # Missing
    BY <1>3, <1>9, <1>8
  <2>5. add.planned /\ Leads(add.body, Before(files, add.id), add.snapshot)
    BY <1>0 DEF ChainSound
  <2> QED  BY <1>11, <2>1, <2>2, <2>3, <2>4, <2>5
<1> QED
  BY <1>5, <1>6, <1>7, <1>12

(* Snapshots that stay keep the chain, whatever is written to the directory  *)
(* that is being made.                                                       *)
LEMMA ChainStays ==
    ASSUME FilesTyped, ChainSound, lost' = lost, DOMAIN files' = DOMAIN files,
           \A j \in DOMAIN files : files'[j].snapshot = files[j].snapshot,
           \A j \in DOMAIN files : (Adding /\ j = add.id) \/
               (files[j].up # Missing => files'[j].up # Missing /\ files'[j].up.body = files[j].up.body),
           Adding' <=> Adding,
           Adding => /\ add'.id = add.id /\ add'.planned = add.planned
                     /\ add'.body = add.body /\ add'.snapshot = add.snapshot
    PROVE  ChainSound'
<1>1. DOMAIN files \subseteq Ids
  BY DEF FilesTyped
<1>2. ASSUME NEW j
      PROVE  Before(files', j) = Before(files, j)
  BY <1>1, BeforeSame
<1>3. ASSUME NEW j \in DOMAIN files, ~(Adding /\ j = add.id), Planned(files, j)
      PROVE  Planned(files', j)
  <2>1. files'[j].up # Missing /\ files'[j].up.body = files[j].up.body
    BY <1>3 DEF Planned
  <2> QED  BY <1>2, <1>3, <2>1 DEF Planned
<1> SUFFICES ASSUME ~lost
             PROVE  /\ \A j \in DOMAIN files : files'[j].snapshot = Missing
                           \/ (Adding' /\ j = add'.id) \/ Planned(files', j)
                    /\ \A j, k \in DOMAIN files : j < k => files'[j].snapshot # Missing
                    /\ Adding' => /\ add'.planned
                                  /\ \A j \in DOMAIN files : j <= add'.id
                                  /\ \A j \in DOMAIN files : j < add'.id => files'[j].snapshot # Missing
                                  /\ Leads(add'.body, Before(files', add'.id), add'.snapshot)
  BY DEF ChainSound
<1>4. \A j \in DOMAIN files : files'[j].snapshot = Missing
          \/ (Adding' /\ j = add'.id) \/ Planned(files', j)
  <2> SUFFICES ASSUME NEW j \in DOMAIN files
               PROVE  files'[j].snapshot = Missing \/ (Adding' /\ j = add'.id) \/ Planned(files', j)
    OBVIOUS
  <2>1. files[j].snapshot = Missing \/ (Adding /\ j = add.id) \/ Planned(files, j)
    BY DEF ChainSound
  <2>2. files'[j].snapshot = files[j].snapshot
    OBVIOUS
  <2> QED  BY <1>3, <2>1, <2>2
<1>5. \A j, k \in DOMAIN files : j < k => files'[j].snapshot # Missing
  BY DEF ChainSound
<1>6. ASSUME Adding'
      PROVE  /\ add'.planned
             /\ \A j \in DOMAIN files : j <= add'.id
             /\ \A j \in DOMAIN files : j < add'.id => files'[j].snapshot # Missing
             /\ Leads(add'.body, Before(files', add'.id), add'.snapshot)
  <2>1. Adding /\ add'.id = add.id /\ add'.planned = add.planned
        /\ add'.body = add.body /\ add'.snapshot = add.snapshot
    BY <1>6
  <2>2. /\ add.planned
        /\ \A j \in DOMAIN files : j <= add.id
        /\ \A j \in DOMAIN files : j < add.id => files[j].snapshot # Missing
        /\ Leads(add.body, Before(files, add.id), add.snapshot)
    BY <2>1 DEF ChainSound
  <2>3. Before(files', add.id) = Before(files, add.id)
    BY <1>2
  <2> QED  BY <2>1, <2>2, <2>3
<1> QED
  BY <1>4, <1>5, <1>6

(* The add that runs has its directory, and what the step writes is there.   *)
LEMMA AddHere ==
    ASSUME Plans, Adding, add.at # "directory"
    PROVE  /\ add \in Adds /\ add.id \in DOMAIN files /\ Single(add.body)
           /\ files \in [DOMAIN files -> Files] /\ files[add.id] \in Files
           /\ DOMAIN files \subseteq used /\ used \subseteq Ids /\ lost \in BOOLEAN
<1>1. add \in Adds
  BY AddIs DEF Plans
<1> QED
  BY <1>1 DEF Plans, FilesTyped, AddSound

(* The template of up.sql is written.                                        *)
LEMMA AddUpTemplateKeeps ==
    ASSUME Plans, AddUpTemplate, UNCHANGED <<used, lost>>
    PROVE  Plans'
<1>0. Adding /\ add.at = "up template"
  BY DEF AddUpTemplate, Adding
<1>1. /\ add \in Adds /\ add.id \in DOMAIN files /\ Single(add.body)
      /\ files \in [DOMAIN files -> Files] /\ DOMAIN files \subseteq used /\ used \subseteq Ids
      /\ lost \in BOOLEAN
  BY <1>0, AddHere
<1>2. /\ DOMAIN files' = DOMAIN files /\ files' \in [DOMAIN files' -> Files]
      /\ \A j \in DOMAIN files : j # add.id => files'[j] = files[j]
      /\ files'[add.id].up = Template
      /\ files'[add.id].down = files[add.id].down
      /\ files'[add.id].snapshot = files[add.id].snapshot
  BY <1>1, WriteUpIs, TemplatesTyped DEF AddUpTemplate
<1>3. /\ add' \in Adds /\ add'.at = "down template" /\ add'.id = add.id
      /\ add'.planned = add.planned /\ add'.snapshot = add.snapshot /\ add'.body = add.body
  BY <1>1 DEF AddUpTemplate, Adds
<1>4. files[add.id].down = Missing /\ files[add.id].snapshot = Missing
  BY <1>0 DEF Plans, AddSound
<1>5. FilesTyped'
  BY <1>1, <1>2, <1>3 DEF FilesTyped
<1>6. Template # Missing /\ Template.body = <<>>
  BY TemplatesTyped, MissingAssumption
<1>7. BodiesSound'
  BY <1>2, <1>4, <1>6, EmptyIsSingle DEF Plans, BodiesSound
<1>8. AddSound'
  BY <1>1, <1>2, <1>3, <1>4, <1>6 DEF AddSound, Plans, Adding
<1>9. ChainSound'
  BY <1>0, <1>1, <1>2, <1>3, ChainStays DEF Plans, Adding
<1> QED
  BY <1>5, <1>7, <1>8, <1>9 DEF Plans

(* The template of down.sql is written.                                      *)
LEMMA AddDownTemplateKeeps ==
    ASSUME Plans, AddDownTemplate, UNCHANGED <<used, lost>>
    PROVE  Plans'
<1>0. Adding /\ add.at = "down template"
  BY DEF AddDownTemplate, Adding
<1>1. /\ add \in Adds /\ add.id \in DOMAIN files /\ Single(add.body)
      /\ files \in [DOMAIN files -> Files] /\ DOMAIN files \subseteq used /\ used \subseteq Ids
      /\ lost \in BOOLEAN
  BY <1>0, AddHere
<1>2. /\ DOMAIN files' = DOMAIN files /\ files' \in [DOMAIN files' -> Files]
      /\ \A j \in DOMAIN files : j # add.id => files'[j] = files[j]
      /\ files'[add.id].down = <<>>
      /\ files'[add.id].up = files[add.id].up
      /\ files'[add.id].snapshot = files[add.id].snapshot
  BY <1>1, WriteDownIs, TemplatesTyped DEF AddDownTemplate
<1>3. /\ add' \in Adds /\ add'.at = "snapshot" /\ add'.id = add.id
      /\ add'.planned = add.planned /\ add'.snapshot = add.snapshot /\ add'.body = add.body
  BY <1>1 DEF AddDownTemplate, Adds
<1>4. /\ files[add.id].up # Missing /\ files[add.id].up.body = <<>>
      /\ files[add.id].snapshot = Missing
  BY <1>0 DEF Plans, AddSound
<1>5. FilesTyped'
  BY <1>1, <1>2, <1>3 DEF FilesTyped
<1>7. BodiesSound'
  BY <1>2, <1>4, EmptyIsSingle DEF Plans, BodiesSound
<1>8. AddSound'
  BY <1>1, <1>2, <1>3, <1>4 DEF AddSound, Plans, Adding
<1>9. ChainSound'
  BY <1>0, <1>1, <1>2, <1>3, ChainStays DEF Plans, Adding
<1> QED
  BY <1>5, <1>7, <1>8, <1>9 DEF Plans

(* An add without a model ends with its snapshot.                            *)
LEMMA AddSnapshotKeeps ==
    ASSUME Plans, AddSnapshot, UNCHANGED <<used, lost>>
    PROVE  Plans'
<1>0. Adding /\ add.at = "snapshot"
  BY DEF AddSnapshot, Adding
<1>1. /\ add \in Adds /\ add.id \in DOMAIN files /\ Single(add.body)
      /\ files \in [DOMAIN files -> Files] /\ DOMAIN files \subseteq used /\ used \subseteq Ids
      /\ lost \in BOOLEAN
  BY <1>0, AddHere
<1>2. /\ DOMAIN files' = DOMAIN files /\ files' \in [DOMAIN files' -> Files]
      /\ \A j \in DOMAIN files : j # add.id => files'[j] = files[j]
      /\ files'[add.id].snapshot = add.snapshot
      /\ files'[add.id].up = files[add.id].up
      /\ files'[add.id].down = files[add.id].down
  <2>1. add.snapshot \in SUBSET Objects
    BY <1>1 DEF Adds
  <2> QED  BY <1>1, <2>1, WriteSnapshotIs DEF AddSnapshot
<1>3. ASSUME add.planned
      PROVE  /\ add' \in Adds /\ add'.at = "up" /\ add'.id = add.id
             /\ add'.planned = add.planned /\ add'.snapshot = add.snapshot /\ add'.body = add.body
  BY <1>1, <1>3 DEF AddSnapshot, Adds
<1>4. ASSUME ~add.planned
      PROVE  add' = NoAdd /\ ~Adding'
  BY <1>4 DEF AddSnapshot, NoAdd, Adding
<1>5. FilesTyped'
  BY <1>1, <1>2, <1>3, <1>4 DEF FilesTyped
<1>6. BodiesSound'
  BY <1>2 DEF Plans, BodiesSound
<1>7. AddSound'
  <2>1. /\ files[add.id].up # Missing /\ files[add.id].up.body = <<>>
        /\ files[add.id].down = <<>>
    BY <1>0 DEF Plans, AddSound
  <2>2. CASE add.planned
    BY <1>1, <1>2, <1>3, <2>1, <2>2 DEF AddSound, Plans, Adding
  <2>3. CASE ~add.planned
    BY <1>4, <2>3 DEF AddSound
  <2> QED  BY <2>2, <2>3
<1>8. ChainSound'
  <2> SUFFICES ASSUME ~lost
               PROVE  ChainSound'
    BY DEF ChainSound
  <2>1. /\ add.planned
        /\ \A j \in DOMAIN files : j <= add.id
        /\ \A j \in DOMAIN files : j < add.id => files[j].snapshot # Missing
        /\ Leads(add.body, Before(files, add.id), add.snapshot)
    BY <1>0 DEF Plans, ChainSound
  <2>2. /\ \A j \in DOMAIN files : files[j].snapshot = Missing \/ j = add.id \/ Planned(files, j)
        /\ \A j, k \in DOMAIN files : j < k => files[j].snapshot # Missing
    BY <1>0 DEF Plans, ChainSound
  <2>3. DOMAIN files \subseteq Ids /\ DOMAIN files \subseteq Nat
    BY <1>1, IdsAssumption DEF Ids
  <2>4. ASSUME NEW j \in DOMAIN files
        PROVE  Before(files', j) = Before(files, j)
    <3>1. \A k \in DOMAIN files : k < j => k # add.id
      BY <1>1, <2>1, <2>3
    <3> QED  BY <1>2, <2>3, <3>1, BeforeSame
  <2>5. \A j \in DOMAIN files : j # add.id => files'[j].snapshot = Missing \/ Planned(files', j)
    BY <1>2, <2>2, <2>4 DEF Planned
  <2>6. \A j, k \in DOMAIN files : j < k => files'[j].snapshot # Missing
    <3>1. \A j, k \in DOMAIN files : j < k => j # add.id
      BY <1>1, <2>1, <2>3
    <3> QED  BY <1>2, <2>2, <3>1
  <2>7. \A j \in DOMAIN files : j < add.id => files'[j].snapshot # Missing
    BY <1>1, <2>6
  <2> QED  BY <1>1, <1>2, <1>3, <2>1, <2>4, <2>5, <2>6, <2>7 DEF ChainSound, Adding
<1> QED
  BY <1>5, <1>6, <1>7, <1>8 DEF Plans

(* The planned up.sql is written over the template.                          *)
LEMMA AddUpKeeps ==
    ASSUME Plans, AddUp, UNCHANGED <<used, lost>>
    PROVE  Plans'
<1>0. Adding /\ add.at = "up"
  BY DEF AddUp, Adding
<1>1. /\ add \in Adds /\ add.id \in DOMAIN files /\ Single(add.body)
      /\ files \in [DOMAIN files -> Files] /\ DOMAIN files \subseteq used /\ used \subseteq Ids
      /\ lost \in BOOLEAN
  BY <1>0, AddHere
<1> DEFINE up == [edition |-> 1, body |-> add.body]
<1>2. up \in Scripts /\ up.body = add.body /\ up # Missing
  <2>1. add.body \in Bodies
    BY <1>1 DEF Adds
  <2>2. up \in Scripts /\ up.body = add.body
    BY <2>1 DEF Scripts
  <2> HIDE DEF up
  <2> QED  BY <2>2, MissingAssumption
<1>3. files' = WriteFile(add.id, "up", up)
  BY DEF AddUp
<1> HIDE DEF up
<1>4. /\ DOMAIN files' = DOMAIN files /\ files' \in [DOMAIN files' -> Files]
      /\ \A j \in DOMAIN files : j # add.id => files'[j] = files[j]
      /\ files'[add.id].up = up
      /\ files'[add.id].down = files[add.id].down
      /\ files'[add.id].snapshot = files[add.id].snapshot
  BY <1>1, <1>2, <1>3, WriteUpIs
<1>5. /\ add' \in Adds /\ add'.at = "down" /\ add'.id = add.id
      /\ add'.planned = add.planned /\ add'.snapshot = add.snapshot /\ add'.body = add.body
  BY <1>1 DEF AddUp, Adds
<1>6. files[add.id].down = <<>> /\ files[add.id].snapshot = add.snapshot
  BY <1>0 DEF Plans, AddSound
<1>7. FilesTyped'
  BY <1>1, <1>4, <1>5 DEF FilesTyped
<1>8. BodiesSound'
  BY <1>1, <1>2, <1>4, <1>6 DEF Plans, BodiesSound
<1>9. AddSound'
  <2>1. add.id \in used'
    BY <1>1
  <2>2. files'[add.id].up # Missing /\ files'[add.id].up.body = add.body
    BY <1>2, <1>4
  <2>3. files'[add.id].snapshot = add.snapshot
    BY <1>4, <1>6
  <2> QED  BY <1>1, <1>4, <1>5, <2>1, <2>2, <2>3 DEF AddSound, Adding
<1>10. ChainSound'
  BY <1>0, <1>1, <1>4, <1>5, ChainStays DEF Plans, Adding
<1> QED
  BY <1>7, <1>8, <1>9, <1>10 DEF Plans

(* An add that ends leaves a migration that leads to its snapshot.           *)
LEMMA AddDownKeeps ==
    ASSUME Plans, AddDown, UNCHANGED <<used, lost>>
    PROVE  Plans'
<1>0. Adding /\ add.at = "down"
  BY DEF AddDown, Adding
<1>1. /\ add \in Adds /\ add.id \in DOMAIN files /\ Single(add.body)
      /\ files \in [DOMAIN files -> Files] /\ DOMAIN files \subseteq used /\ used \subseteq Ids
      /\ lost \in BOOLEAN
  BY <1>0, AddHere
<1>2. add.body \in Bodies
  BY <1>1 DEF Adds
<1>3. /\ DownBody(add.body) \in Bodies
      /\ DownBody(add.body) # <<>> => Undoes(DownBody(add.body), add.body)
  BY <1>1, <1>2, DownBodyUndoes
<1>4. /\ DOMAIN files' = DOMAIN files /\ files' \in [DOMAIN files' -> Files]
      /\ \A j \in DOMAIN files : j # add.id => files'[j] = files[j]
      /\ files'[add.id].down = DownBody(add.body)
      /\ files'[add.id].up = files[add.id].up
      /\ files'[add.id].snapshot = files[add.id].snapshot
  BY <1>1, <1>3, WriteDownIs DEF AddDown
<1>5. add' = NoAdd /\ ~Adding'
  BY DEF AddDown, NoAdd, Adding
<1>6. /\ files[add.id].up # Missing /\ files[add.id].up.body = add.body
      /\ files[add.id].snapshot = add.snapshot
  BY <1>0 DEF Plans, AddSound
<1>7. FilesTyped'
  BY <1>1, <1>4, <1>5 DEF FilesTyped
<1>8. BodiesSound'
  BY <1>1, <1>3, <1>4, <1>6 DEF Plans, BodiesSound
<1>9. AddSound'
  BY <1>5 DEF AddSound
<1>10. ChainSound'
  <2> SUFFICES ASSUME ~lost
               PROVE  ChainSound'
    BY DEF ChainSound
  <2>1. /\ \A j \in DOMAIN files : files[j].snapshot = Missing \/ j = add.id \/ Planned(files, j)
        /\ \A j, k \in DOMAIN files : j < k => files[j].snapshot # Missing
        /\ Leads(add.body, Before(files, add.id), add.snapshot)
    BY <1>0 DEF Plans, ChainSound
  <2>2. DOMAIN files \subseteq Ids
    BY <1>1
  <2>3. \A j \in DOMAIN files : files'[j].snapshot = files[j].snapshot /\ files'[j].up = files[j].up
    BY <1>4
  <2>4. ASSUME NEW j
        PROVE  Before(files', j) = Before(files, j)
    BY <1>4, <2>2, <2>3, BeforeSame
  <2>5. Planned(files', add.id)
    BY <1>1, <1>4, <1>6, <2>1, <2>4 DEF Planned
  <2>6. \A j \in DOMAIN files : files'[j].snapshot = Missing \/ Planned(files', j)
    BY <2>1, <2>3, <2>4, <2>5 DEF Planned
  <2> QED  BY <1>4, <1>5, <2>1, <2>3, <2>6 DEF ChainSound
<1> QED
  BY <1>7, <1>8, <1>9, <1>10 DEF Plans

(* An add that dies either wrote no snapshot yet, or has both files, or the  *)
(* plan is lost.                                                             *)
LEMMA AddCrashesKeeps ==
    ASSUME Plans, AddCrashes
    PROVE  Plans'
<1>0. /\ Adding /\ add \in Adds
      /\ files' = files /\ used' = used /\ lost' = (lost \/ add.at = "up")
      /\ add' = NoAdd /\ ~Adding'
  BY AddIs DEF AddCrashes, Adding, NoAdd, Plans
<1>1. FilesTyped'
  BY <1>0 DEF Plans, FilesTyped
<1>2. BodiesSound' /\ AddSound'
  BY <1>0 DEF Plans, BodiesSound, AddSound
<1>3. ChainSound'
  <2> SUFFICES ASSUME ~lost'
               PROVE  ChainSound'
    BY DEF ChainSound
  <2>1. ~lost /\ add.at # "up"
    BY <1>0
  <2>2. /\ \A j \in DOMAIN files : files[j].snapshot = Missing \/ j = add.id \/ Planned(files, j)
        /\ \A j, k \in DOMAIN files : j < k => files[j].snapshot # Missing
        /\ Leads(add.body, Before(files, add.id), add.snapshot)
    BY <1>0, <2>1 DEF Plans, ChainSound
  <2>3. add.id \in DOMAIN files => files[add.id].snapshot = Missing \/ Planned(files, add.id)
    <3>1. CASE add.at = "down"
      BY <1>0, <2>2, <3>1 DEF Plans, AddSound, Planned
    <3>2. CASE add.at # "down"
      BY <1>0, <2>1, <3>2 DEF Plans, AddSound, Adds
    <3> QED  BY <3>1, <3>2
  <2>4. \A j \in DOMAIN files : files[j].snapshot = Missing \/ Planned(files, j)
    BY <2>2, <2>3
  <2>5. \A j \in DOMAIN files : files'[j].snapshot = Missing \/ Planned(files', j)
    BY <1>0, <2>4
  <2> QED  BY <1>0, <2>2, <2>5 DEF ChainSound
<1> QED
  BY <1>1, <1>2, <1>3 DEF Plans

(* An edit changes the text, not what it does.                               *)
LEMMA EditUpKeeps ==
    ASSUME Plans, NEW id \in DOMAIN files, EditUp(id)
    PROVE  Plans'
<1> DEFINE up == [files[id].up EXCEPT !.edition = @ + 1]
<1>0. /\ files[id].up # Missing /\ files' = WriteFile(id, "up", up)
      /\ used' = used /\ add' = add /\ lost' = lost
  BY DEF EditUp
<1>1. /\ files \in [DOMAIN files -> Files] /\ DOMAIN files \subseteq used /\ used \subseteq Ids
      /\ lost \in BOOLEAN /\ add \in Adds \cup {NoAdd}
  BY DEF Plans, FilesTyped
<1>2. files[id].up \in Scripts
  BY <1>0, <1>1 DEF Files
<1>3. up \in Scripts /\ up.body = files[id].up.body /\ up # Missing
  BY <1>2, MissingAssumption DEF Scripts
<1> HIDE DEF up
<1>4. /\ DOMAIN files' = DOMAIN files /\ files' \in [DOMAIN files' -> Files]
      /\ \A j \in DOMAIN files : j # id => files'[j] = files[j]
      /\ files'[id].up = up
      /\ files'[id].down = files[id].down /\ files'[id].snapshot = files[id].snapshot
  BY <1>0, <1>1, <1>3, WriteUpIs
<1>5. \A j \in DOMAIN files : /\ files'[j].up # Missing <=> files[j].up # Missing
                              /\ files[j].up # Missing => files'[j].up.body = files[j].up.body
                              /\ files'[j].down = files[j].down
                              /\ files'[j].snapshot = files[j].snapshot
  BY <1>0, <1>3, <1>4
<1>6. FilesTyped'
  BY <1>0, <1>1, <1>4 DEF FilesTyped
<1>7. BodiesSound'
  BY <1>4, <1>5 DEF Plans, BodiesSound
<1>8. AddSound'
  <2> SUFFICES ASSUME Adding
               PROVE  AddSound'
    BY <1>0 DEF AddSound, Adding
  <2>1. add \in Adds
    BY AddIs DEF Plans
  <2> QED  BY <1>0, <1>4, <1>5, <2>1 DEF AddSound, Plans, Adding, Adds
<1>9. ChainSound'
  BY <1>0, <1>4, <1>5, <1>6, ChainStays DEF Plans, Adding
<1> QED
  BY <1>6, <1>7, <1>8, <1>9 DEF Plans

(* The rollback written by hand undoes the script as it is.                  *)
LEMMA WriteDownKeeps ==
    ASSUME Plans, NEW id \in DOMAIN files, WriteDown(id)
    PROVE  Plans'
<1> DEFINE down == HandWritten(files[id].up.body)
<1>0. /\ files[id].up # Missing /\ files' = WriteFile(id, "down", down)
      /\ files[id].down = <<>>
      /\ used' = used /\ add' = add /\ lost' = lost
  BY DEF WriteDown
<1>1. /\ files \in [DOMAIN files -> Files] /\ DOMAIN files \subseteq used /\ used \subseteq Ids
      /\ lost \in BOOLEAN /\ add \in Adds \cup {NoAdd}
  BY DEF Plans, FilesTyped
<1>2. files[id].up.body \in Bodies /\ Single(files[id].up.body)
  BY <1>0, <1>1 DEF Files, Scripts, Plans, BodiesSound
<1>3. down \in Bodies /\ Undoes(down, files[id].up.body)
  BY <1>2, HandWrittenUndoes
<1>4. files[id].up.body = <<>> => down = <<>>
  BY DEF HandWritten
<1> HIDE DEF down
<1>5. /\ DOMAIN files' = DOMAIN files /\ files' \in [DOMAIN files' -> Files]
      /\ \A j \in DOMAIN files : j # id => files'[j] = files[j]
      /\ files'[id].down = down
      /\ files'[id].up = files[id].up /\ files'[id].snapshot = files[id].snapshot
  BY <1>0, <1>1, <1>3, WriteDownIs
<1>6. \A j \in DOMAIN files : files'[j].up = files[j].up /\ files'[j].snapshot = files[j].snapshot
  BY <1>5
<1>7. FilesTyped'
  BY <1>0, <1>1, <1>5 DEF FilesTyped
<1>8. BodiesSound'
  BY <1>0, <1>3, <1>5, <1>6 DEF Plans, BodiesSound
<1>9. AddSound'
  <2> SUFFICES ASSUME Adding
               PROVE  AddSound'
    BY <1>0 DEF AddSound, Adding
  <2>1. add \in Adds
    BY AddIs DEF Plans
  <2>2. CASE id # add.id
    BY <1>0, <1>5, <1>6, <2>1, <2>2 DEF AddSound, Plans, Adding, Adds
  <2>3. CASE id = add.id
    <3>1. add.at \notin {"directory", "up template", "down template"}
      BY <1>0, <1>1, <2>3, MissingAssumption, TemplatesTyped DEF AddSound, Plans
    <3>2. add.at \in {"snapshot", "up"} => down = <<>>
      BY <1>4, <2>3 DEF AddSound, Plans
    <3> QED  BY <1>0, <1>5, <1>6, <2>1, <2>3, <3>1, <3>2 DEF AddSound, Plans, Adding, Adds
  <2> QED  BY <2>2, <2>3
<1>10. ChainSound'
  BY <1>0, <1>5, <1>6, <1>7, ChainStays DEF Plans, Adding
<1> QED
  BY <1>7, <1>8, <1>9, <1>10 DEF Plans

(* What a merged migration creates its rollback drops.                       *)
LEMMA OneObjectUndone ==
    ASSUME NEW o \in Objects
    PROVE  /\ <<Create(o)>> \in Bodies /\ <<Drop(o)>> \in Bodies
           /\ Single(<<Create(o)>>) /\ Undoes(<<Drop(o)>>, <<Create(o)>>)
<1>1. Create(o) \in Statements /\ Create(o).create = TRUE /\ Create(o).object = o
  BY DEF Create, Statements
<1>2. Drop(o) \in Statements /\ Drop(o).create = FALSE /\ Drop(o).object = o
  BY DEF Drop, Statements
<1> DEFINE up == <<Create(o)>>
           down == <<Drop(o)>>
<1>3. up \in Bodies /\ DOMAIN up = {1} /\ up[1] = Create(o)
  BY <1>1 DEF Bodies
<1>4. down \in Bodies /\ DOMAIN down = {1} /\ down[1] = Drop(o)
  BY <1>2 DEF Bodies
<1> HIDE DEF up, down
<1>5. Creates(up) = {o} /\ Drops(up) = {} /\ Single(up)
  BY <1>1, <1>3 DEF Creates, Drops, Single
<1>6. Creates(down) = {} /\ Drops(down) = {o} /\ Single(down)
  BY <1>2, <1>4 DEF Creates, Drops, Single
<1>7. Undoes(down, up)
  BY <1>5, <1>6 DEF Undoes
<1> QED
  BY <1>3, <1>4, <1>5, <1>7 DEF up, down

(* A merged migration is complete, and its snapshot breaks the chain.        *)
LEMMA MergeKeeps ==
    ASSUME Plans, Merge
    PROVE  Plans'
<1>0. /\ files \in [DOMAIN files -> Files] /\ DOMAIN files \subseteq used /\ used \subseteq Ids
      /\ add \in Adds \cup {NoAdd} /\ DOMAIN files \subseteq Ids
  BY DEF Plans, FilesTyped
<1>1. PICK id \in Ids \ used, o \in Objects :
        LET base == {j \in DOMAIN files : j < id}
            old == IF base = {} THEN {} ELSE files[Max(base)].snapshot
        IN  /\ id < Latest /\ used' = used \cup {id}
            /\ old # Missing /\ o \notin old
            /\ files' = [j \in DOMAIN files \cup {id} |->
                           IF j # id THEN files[j]
                           ELSE [up |-> [edition |-> 1, body |-> <<Create(o)>>],
                                 down |-> <<Drop(o)>>, snapshot |-> old \cup {o}]]
  BY DEF Merge
<1> DEFINE base == {j \in DOMAIN files : j < id}
           old == IF base = {} THEN {} ELSE files[Max(base)].snapshot
           new == [up |-> [edition |-> 1, body |-> <<Create(o)>>],
                   down |-> <<Drop(o)>>, snapshot |-> old \cup {o}]
<1>2. lost' = TRUE /\ add' = add
  BY DEF Merge
<1>3. /\ <<Create(o)>> \in Bodies /\ <<Drop(o)>> \in Bodies
      /\ Single(<<Create(o)>>) /\ Undoes(<<Drop(o)>>, <<Create(o)>>)
  BY OneObjectUndone
<1>4. old \subseteq Objects
  <2>1. CASE base = {}
    BY <2>1
  <2>2. CASE base # {}
    <3>1. base \subseteq 0..MaxId /\ MaxId \in Nat
      BY <1>0, IdsAssumption DEF Ids
    <3>2. Max(base) \in base
      <4> HIDE DEF base
      <4> QED  BY <2>2, <3>1, LargestIs
    <3>3. old = files[Max(base)].snapshot /\ Max(base) \in DOMAIN files
      BY <2>2, <3>2
    <3>4. old # Missing
      BY <1>1
    <3> HIDE DEF base, old
    <3> QED  BY <1>0, <3>3, <3>4 DEF Files
  <2> QED  BY <2>1, <2>2
<1>5. files' = [j \in DOMAIN files \cup {id} |-> IF j # id THEN files[j] ELSE new] /\ used' = used \cup {id}
  BY <1>1
<1> HIDE DEF old
<1>6. new \in Files /\ new.up.body = <<Create(o)>> /\ new.down = <<Drop(o)>>
  <2>1. [edition |-> 1, body |-> <<Create(o)>>] \in Scripts
    BY <1>3 DEF Scripts
  <2>2. old \cup {o} \in SUBSET Objects
    BY <1>4
  <2> QED  BY <1>3, <2>1, <2>2 DEF Files
<1>7. new.up # Missing
  <2>1. [edition |-> 1, body |-> <<Create(o)>>] \in Scripts
    BY <1>3 DEF Scripts
  <2> QED  BY <2>1, MissingAssumption
<1> HIDE DEF new
<1>8. id \notin DOMAIN files /\ id \in Ids
  BY <1>0, <1>1
<1>9. /\ DOMAIN files' = DOMAIN files \cup {id} /\ files' \in [DOMAIN files' -> Files]
      /\ \A j \in DOMAIN files : files'[j] = files[j]
      /\ files'[id] = new
  BY <1>0, <1>5, <1>6, <1>8
<1>10. FilesTyped'
  BY <1>0, <1>2, <1>5, <1>8, <1>9 DEF FilesTyped
<1>11. BodiesSound'
  BY <1>3, <1>6, <1>7, <1>9 DEF Plans, BodiesSound
<1>12. AddSound'
  <2> SUFFICES ASSUME Adding
               PROVE  AddSound'
    BY <1>2 DEF AddSound, Adding
  <2>1. add.id \in used /\ add.id # id /\ add \in Adds
    BY <1>1, AddIs DEF AddSound, Plans
  <2>2. add.id \in DOMAIN files' <=> add.id \in DOMAIN files
    BY <1>9, <2>1
  <2>3. add.at # "directory" => files'[add.id] = files[add.id]
    BY <1>9 DEF Plans, AddSound
  <2> QED  BY <1>2, <1>5, <2>1, <2>2, <2>3 DEF AddSound, Plans, Adding, Adds
<1>13. ChainSound'
  BY <1>2 DEF ChainSound
<1> QED
  BY <1>10, <1>11, <1>12, <1>13 DEF Plans

(* Without its last migration the chain ends one earlier.                    *)
LEMMA DeleteKeeps ==
    ASSUME Plans, NEW id \in DOMAIN files, Delete(id)
    PROVE  Plans'
<1>0. /\ files \in [DOMAIN files -> Files] /\ DOMAIN files \subseteq used /\ used \subseteq Ids
      /\ add \in Adds \cup {NoAdd} /\ DOMAIN files \subseteq Ids /\ lost \in BOOLEAN
  BY DEF Plans, FilesTyped
<1>1. /\ ~Adding /\ add' = add /\ used' = used /\ lost' = (lost \/ id # Latest)
      /\ files' = [j \in DOMAIN files \ {id} |-> files[j]]
  BY DEF Delete, Adding
<1>2. /\ DOMAIN files' = DOMAIN files \ {id} /\ files' \in [DOMAIN files' -> Files]
      /\ \A j \in DOMAIN files' : j \in DOMAIN files /\ files'[j] = files[j]
  BY <1>0, <1>1
<1>3. FilesTyped'
  BY <1>0, <1>1, <1>2 DEF FilesTyped
<1>4. BodiesSound' /\ AddSound'
  BY <1>1, <1>2 DEF Plans, BodiesSound, AddSound, Adding
<1>5. ChainSound'
  <2> SUFFICES ASSUME ~lost'
               PROVE  ChainSound'
    BY DEF ChainSound
  <2>1. ~lost /\ id = Latest
    BY <1>1
  <2>2. \A j \in DOMAIN files : j <= id /\ id \in Nat /\ j \in Nat
    <3>1. DOMAIN files \subseteq 0..MaxId /\ MaxId \in Nat
      BY <1>0, IdsAssumption DEF Ids
    <3> QED  BY <2>1, <3>1, LargestIs DEF Latest
  <2>3. ASSUME NEW j \in DOMAIN files'
        PROVE  Before(files', j) = Before(files, j)
    <3>1. ~(id < j)
      BY <1>2, <2>2
    <3>2. \A k : (k \in DOMAIN files /\ k < j) <=> (k \in DOMAIN files' /\ k < j)
      BY <1>2, <3>1
    <3>3. \A k \in DOMAIN files : k < j => files'[k].snapshot = files[k].snapshot
      BY <1>2, <3>2
    <3> QED  BY <1>0, <3>2, <3>3, BeforeSame
  <2>4. /\ \A j \in DOMAIN files : files[j].snapshot = Missing \/ Planned(files, j)
        /\ \A j, k \in DOMAIN files : j < k => files[j].snapshot # Missing
    BY <1>1, <2>1 DEF Plans, ChainSound
  <2>5. \A j \in DOMAIN files' : files'[j].snapshot = Missing \/ Planned(files', j)
    BY <1>2, <2>3, <2>4 DEF Planned
  <2>6. \A j, k \in DOMAIN files' : j < k => files'[j].snapshot # Missing
    BY <1>2, <2>4
  <2> QED  BY <1>1, <2>5, <2>6 DEF ChainSound, Adding
<1> QED
  BY <1>3, <1>4, <1>5 DEF Plans

(* A project starts with no migration or with a complete one.                *)
LEMMA PlansAtFirst == Init => Plans
<1> SUFFICES ASSUME Init
             PROVE  Plans
  OBVIOUS
<1>0. add = NoAdd /\ ~Adding /\ used = DOMAIN files /\ lost = FALSE
  BY DEF Init, Adding, NoAdd
<1>1. CASE files = <<>>
  <2>1. DOMAIN files = {}
    BY <1>1
  <2>2. files \in [DOMAIN files -> Files]
    BY <1>1, <2>1
  <2> QED  BY <1>0, <2>1, <2>2 DEF Plans, FilesTyped, BodiesSound, AddSound, ChainSound
<1>2. CASE files # <<>>
  <2> DEFINE up(new) == [edition |-> 1, body |-> UpBody({}, new)]
             file(new) == FirstMigration(new)
  <2>1. PICK id \in FirstIds, new \in FirstModels : files = [j \in {id} |-> file(new)]
    <3> DEFINE First == {[j \in {id} |-> FirstMigration(new)] : id \in FirstIds, new \in FirstModels}
    <3>1. Projects = {<<>>} \cup First
      BY DEF Projects
    <3>2. files \in First
      <4> HIDE DEF First
      <4> QED  BY <1>2, <3>1 DEF Init
    <3> QED  BY <3>2
  <2>2. new \in SUBSET Objects /\ {} \in SUBSET Objects
    BY ModelsAssumption
  <2>3. UpBody({}, new) \in Bodies /\ Leads(UpBody({}, new), {}, new)
    BY <2>2, PlanLeads
  <2>4. Single(UpBody({}, new))
    BY <2>3 DEF Leads
  <2>5. /\ DownBody(UpBody({}, new)) \in Bodies
        /\ DownBody(UpBody({}, new)) # <<>> => Undoes(DownBody(UpBody({}, new)), UpBody({}, new))
    BY <2>3, <2>4, DownBodyUndoes
  <2>6. up(new) \in Scripts /\ up(new).body = UpBody({}, new)
    BY <2>3 DEF Scripts
  <2> HIDE DEF up
  <2>7. /\ file(new) \in Files /\ file(new).up = up(new)
        /\ file(new).down = DownBody(UpBody({}, new)) /\ file(new).snapshot = new
    <3>1. file(new) = [up |-> up(new), down |-> DownBody(UpBody({}, new)), snapshot |-> new]
      BY DEF FirstMigration, up
    <3> HIDE DEF file
    <3> QED  BY <2>2, <2>5, <2>6, <3>1 DEF Files
  <2> HIDE DEF file
  <2>8. /\ DOMAIN files = {id} /\ files[id] = file(new)
        /\ files \in [DOMAIN files -> Files] /\ DOMAIN files \subseteq Ids /\ id \in Nat
    BY <2>1, <2>7, IdsAssumption DEF Ids
  <2>9. FilesTyped
    BY <1>0, <2>8 DEF FilesTyped
  <2>10. BodiesSound
    <3>1. files[id].up = up(new) /\ up(new) # Missing /\ files[id].down = DownBody(UpBody({}, new))
      BY <2>6, <2>7, <2>8, MissingAssumption
    <3> QED  BY <2>4, <2>5, <2>6, <2>8, <3>1 DEF BodiesSound
  <2>11. Before(files, id) = {}
    <3>1. {k \in DOMAIN files : k < id} = {}
      BY <2>8
    <3> QED  BY <3>1 DEF Before
  <2>12. Planned(files, id)
    <3>1. files[id].up = up(new) /\ files[id].snapshot = new /\ up(new) # Missing
      BY <2>6, <2>7, <2>8, MissingAssumption
    <3>2. Leads(files[id].up.body, {}, new)
      BY <2>3, <2>6, <3>1
    <3> QED  BY <2>11, <3>1, <3>2 DEF Planned
  <2>13. ChainSound
    BY <1>0, <2>8, <2>12 DEF ChainSound
  <2> QED  BY <1>0, <2>9, <2>10, <2>13 DEF Plans, AddSound
<1> QED
  BY <1>1, <1>2

(* The developer's steps, which happen while no script runs.                 *)
Develops ==
    \/ AddStarts \/ AddStep \/ AddCrashes \/ Merge
    \/ \E id \in DOMAIN files : EditUp(id) \/ WriteDown(id) \/ Delete(id)

(* Whatever the developer does keeps the directory sound.                    *)
LEMMA DevelopsKeeps ==
    ASSUME Plans, Develops
    PROVE  Plans'
<1>1. CASE AddStep
  BY <1>1, AddDirectoryKeeps, AddUpTemplateKeeps, AddDownTemplateKeeps, AddSnapshotKeeps,
     AddUpKeeps, AddDownKeeps DEF AddStep
<1> QED
  BY <1>1, AddStartsKeeps, AddCrashesKeeps, MergeKeeps, EditUpKeeps, WriteDownKeeps,
     DeleteKeeps DEF Develops

(* And it changes nothing that the scripts work on.                          *)
LEMMA DevelopsApart ==
    ASSUME Develops
    PROVE  Quiet /\ UNCHANGED <<client, database>>
  BY DEF Develops, AddStarts, AddStep, AddCrashes, Merge, EditUp, WriteDown, Delete, Change

(* What does not touch the directory keeps it sound.                         *)
LEMMA PlansUnchanged ==
    ASSUME Plans, UNCHANGED developer
    PROVE  Plans'
  BY DEF Plans, developer, FilesTyped, BodiesSound, AddSound, ChainSound, Adding, Planned

-----------------------------------------------------------------------------
(* The scripts and the database *)

Touches == [object : Objects, was : BOOLEAN]
Blocks == [id : Ids, sum : Scripts, body : Bodies]
Sessions == [at : {"guard", "block", "checked", "open"}, kind : {"up", "down"}, target : Nat,
             all : Seq(Blocks), todo : Seq(Blocks), known : SUBSET Ids, next : Nat,
             touched : SUBSET Touches, mixed : BOOLEAN]
Runs == [id : Ids, kind : {"up", "down"}, body : Bodies, by : Clients]

DatabaseTyped ==
    /\ objects \subseteq Objects
    /\ Applied \subseteq Ids /\ history \in [Applied -> Scripts]
    /\ client \in [Clients -> Sessions \cup {Idle}]
    /\ ran \in Seq(Runs) /\ \A i \in DOMAIN ran : Single(ran[i].body)

(* The files are as the script found them; what is left to do is the end of  *)
(* what there was to do.                                                     *)
Running(s) == s.at # "idle"
SessionSound(c, s) ==
    Running(s) =>
        /\ s.known = DOMAIN files
        /\ s.kind = "up" =>
               s.all = UpBlocks /\ \A j \in DOMAIN files : files[j].up # Missing
        /\ s.kind = "down" =>
               /\ c \in Downgraders /\ s.all = DownBlocks(s.target)
               /\ \A j \in Above(s.target) : files[j].up # Missing /\ files[j].down \notin {Missing, <<>>}
        /\ Len(s.todo) <= Len(s.all)
        /\ \A i \in 1..Len(s.todo) : s.todo[i] = s.all[i + (Len(s.all) - Len(s.todo))]
        /\ s.at \in {"checked", "open"} => s.todo # <<>>
        /\ s.at # "open" => s.next = 1
        /\ s.at = "open" => s.next \in 1..Len(s.todo[1].body) + 1

(* An open transaction has touched what its statements so far name, and the  *)
(* database is there as they left it.                                        *)
Done(s) == 1..s.next - 1
Touch(statement) == [object |-> statement.object, was |-> ~statement.create]
TouchedSound(s, db) ==
    /\ s.at # "open" => s.touched = {}
    /\ s.at = "open" =>
        /\ s.touched = {Touch(s.todo[1].body[i]) : i \in Done(s)}
        /\ \A i \in Done(s) : s.todo[1].body[i].object \in db <=> s.todo[1].body[i].create

(* No object is touched by two open transactions.                            *)
Apart(s, t) == \A u \in s.touched, v \in t.touched : u.object # v.object
LocksApart == \A c, d \in Clients : c # d => Apart(client[c], client[d])

(* What the scripts' steps keep.                                             *)
ScriptsSound ==
    /\ DatabaseTyped
    /\ \A c \in Clients : SessionSound(c, client[c]) /\ TouchedSound(client[c], objects)
    /\ LocksApart

(* Every block of an update is a migration as it is on disk, and they come   *)
(* in the order of their ids.                                                *)
LEMMA UpBlocksAre ==
    ASSUME Plans, \A j \in DOMAIN files : files[j].up # Missing
    PROVE  /\ UpBlocks \in Seq(Blocks)
           /\ \A i \in DOMAIN UpBlocks :
                  /\ UpBlocks[i].id \in DOMAIN files
                  /\ UpBlocks[i].sum = files[UpBlocks[i].id].up
                  /\ UpBlocks[i].body = files[UpBlocks[i].id].up.body
           /\ \A i, j \in DOMAIN UpBlocks : i < j => UpBlocks[i].id < UpBlocks[j].id
<1> DEFINE ids == Sorted(DOMAIN files)
           n == Cardinality(DOMAIN files)
<1>1. files \in [DOMAIN files -> Files] /\ DOMAIN files \subseteq Ids
  BY DEF Plans, FilesTyped
<1>2. IsFiniteSet(DOMAIN files) /\ DOMAIN files \subseteq Nat
  <2>1. IsFiniteSet(1..MaxId)
    BY IdsAssumption, FS_Interval
  <2> QED  BY <1>1, <2>1, IdsAssumption, FS_Subset DEF Ids
<1>3. /\ n \in Nat /\ DOMAIN ids = 1..n
      /\ \A i, j \in 1..n : i < j => ids[i] < ids[j]
      /\ \A i \in 1..n : ids[i] \in DOMAIN files
  BY <1>2, SortedIs
<1>4. UpBlocks = [i \in DOMAIN ids |-> Block(ids[i], files[ids[i]].up.body)]
  BY DEF UpBlocks
<1> HIDE DEF ids, n
<1>5. ASSUME NEW i \in 1..n
      PROVE  /\ UpBlocks[i] = [id |-> ids[i], sum |-> files[ids[i]].up, body |-> files[ids[i]].up.body]
             /\ UpBlocks[i] \in Blocks
  <2>1. files[ids[i]].up \in Scripts /\ ids[i] \in Ids
    BY <1>1, <1>3 DEF Files
  <2>2. files[ids[i]].up.body \in Bodies
    BY <2>1 DEF Scripts
  <2>3. UpBlocks[i] = [id |-> ids[i], sum |-> files[ids[i]].up, body |-> files[ids[i]].up.body]
    BY <1>3, <1>4 DEF Block
  <2> QED  BY <2>1, <2>2, <2>3 DEF Blocks
<1>6. DOMAIN UpBlocks = 1..n /\ UpBlocks \in Seq(Blocks)
  <2>1. UpBlocks = [i \in 1..n |-> UpBlocks[i]]
    BY <1>3, <1>4
  <2>2. \A i \in 1..n : UpBlocks[i] \in Blocks
    BY <1>5
  <2> QED  BY <1>3, <2>1, <2>2
<1>7. ASSUME NEW i \in 1..n
      PROVE  /\ UpBlocks[i].id = ids[i] /\ UpBlocks[i].sum = files[ids[i]].up
             /\ UpBlocks[i].body = files[ids[i]].up.body
  <2>1. UpBlocks[i] = [id |-> ids[i], sum |-> files[ids[i]].up, body |-> files[ids[i]].up.body]
    BY <1>5
  <2> QED  BY <2>1
<1> QED
  BY <1>3, <1>6, <1>7

(* Every block of a downgrade undoes a migration above its target, and they  *)
(* come in the opposite order.                                               *)
LEMMA DownBlocksAre ==
    ASSUME Plans, NEW target,
           \A j \in Above(target) : files[j].up # Missing /\ files[j].down \notin {Missing, <<>>}
    PROVE  /\ DownBlocks(target) \in Seq(Blocks)
           /\ \A i \in DOMAIN DownBlocks(target) :
                  /\ DownBlocks(target)[i].id \in Above(target)
                  /\ DownBlocks(target)[i].sum = files[DownBlocks(target)[i].id].up
                  /\ DownBlocks(target)[i].body = files[DownBlocks(target)[i].id].down
           /\ \A i, j \in DOMAIN DownBlocks(target) :
                  i < j => DownBlocks(target)[i].id > DownBlocks(target)[j].id
           /\ \A x \in Above(target) : \E i \in DOMAIN DownBlocks(target) : DownBlocks(target)[i].id = x
<1> DEFINE S == Above(target)
           up == Sorted(S)
           n == Cardinality(S)
           ids == Reverse(up)
           bs == DownBlocks(target)
<1>1. files \in [DOMAIN files -> Files] /\ DOMAIN files \subseteq Ids /\ S \subseteq DOMAIN files
  BY DEF Plans, FilesTyped, Above
<1>2. IsFiniteSet(S) /\ S \subseteq Nat
  <2>1. IsFiniteSet(1..MaxId) /\ S \in SUBSET (1..MaxId)
    BY <1>1, IdsAssumption, FS_Interval DEF Ids
  <2> QED  BY <2>1, IdsAssumption, FS_Subset
<1>3. /\ n \in Nat /\ DOMAIN up = 1..n /\ up \in Seq(S)
      /\ \A i, j \in 1..n : i < j => up[i] < up[j]
      /\ \A i \in 1..n : up[i] \in S
      /\ \A x \in S : \E i \in 1..n : up[i] = x
  BY <1>2, SortedIs
<1>4. bs = [i \in DOMAIN ids |-> Block(ids[i], files[ids[i]].down)]
  BY DEF DownBlocks
<1> HIDE DEF up, n, bs
<1>5. Len(up) = n
  BY <1>3
<1>6. DOMAIN ids = 1..n /\ \A i \in 1..n : ids[i] = up[(n - i) + 1] /\ (n - i) + 1 \in 1..n
  BY <1>3, <1>5 DEF Reverse
<1> HIDE DEF ids
<1>7. \A i \in 1..n : ids[i] \in S
  BY <1>3, <1>6
<1>8. ASSUME NEW i \in 1..n, NEW j \in 1..n, i < j
      PROVE  ids[i] > ids[j]
  <2>1. (n - j) + 1 < (n - i) + 1
    BY <1>3, <1>8
  <2>2. up[(n - j) + 1] < up[(n - i) + 1]
    BY <1>3, <1>6, <2>1
  <2>3. ids[i] \in Nat /\ ids[j] \in Nat
    BY <1>2, <1>7
  <2> QED  BY <1>6, <2>2, <2>3
<1>9. ASSUME NEW x \in S
      PROVE  \E i \in 1..n : ids[i] = x
  <2>1. PICK i \in 1..n : up[i] = x
    BY <1>3
  <2>2. (n - i) + 1 \in 1..n /\ (n - ((n - i) + 1)) + 1 = i
    BY <1>3
  <2> QED  BY <1>6, <2>1, <2>2
<1>10. ASSUME NEW i \in 1..n
       PROVE  /\ bs[i] = [id |-> ids[i], sum |-> files[ids[i]].up, body |-> files[ids[i]].down]
              /\ bs[i] \in Blocks
  <2>1. files[ids[i]].up \in Scripts /\ ids[i] \in Ids /\ files[ids[i]].down \in Bodies
    BY <1>1, <1>7 DEF Files
  <2>2. bs[i] = [id |-> ids[i], sum |-> files[ids[i]].up, body |-> files[ids[i]].down]
    BY <1>4, <1>6 DEF Block
  <2> QED  BY <2>1, <2>2 DEF Blocks
<1>11. DOMAIN bs = 1..n /\ bs \in Seq(Blocks)
  <2>1. bs = [i \in 1..n |-> bs[i]]
    BY <1>4, <1>6
  <2>2. \A i \in 1..n : bs[i] \in Blocks
    BY <1>10
  <2> QED  BY <1>3, <2>1, <2>2
<1>12. ASSUME NEW i \in 1..n
       PROVE  bs[i].id = ids[i] /\ bs[i].sum = files[ids[i]].up /\ bs[i].body = files[ids[i]].down
  <2>1. bs[i] = [id |-> ids[i], sum |-> files[ids[i]].up, body |-> files[ids[i]].down]
    BY <1>10
  <2> QED  BY <2>1
<1> QED
  BY <1>7, <1>8, <1>9, <1>11, <1>12 DEF bs

(* A block of a script that runs is what its kind makes of a migration.      *)
BlockSound(kind, b) ==
    /\ b \in Blocks /\ b.id \in DOMAIN files /\ b.sum = files[b.id].up /\ Single(b.body)
    /\ kind = "up" => b.body = b.sum.body
    /\ kind = "down" => Undoes(b.body, b.sum.body)

(* Every block of a script that runs is sound.                               *)
LEMMA BlocksAreSound ==
    ASSUME Plans, NEW c \in Clients, NEW s \in Sessions, SessionSound(c, s)
    PROVE  \A i \in DOMAIN s.all : BlockSound(s.kind, s.all[i])
<1>0. Running(s) /\ s.kind \in {"up", "down"}
  BY DEF Sessions, Running
<1>1. CASE s.kind = "up"
  <2>1. s.all = UpBlocks /\ \A j \in DOMAIN files : files[j].up # Missing
    BY <1>0, <1>1 DEF SessionSound
  <2>2. /\ UpBlocks \in Seq(Blocks)
        /\ \A i \in DOMAIN UpBlocks :
               /\ UpBlocks[i].id \in DOMAIN files
               /\ UpBlocks[i].sum = files[UpBlocks[i].id].up
               /\ UpBlocks[i].body = files[UpBlocks[i].id].up.body
    BY <2>1, UpBlocksAre
  <2>3. \A j \in DOMAIN files : Single(files[j].up.body)
    BY <2>1 DEF Plans, BodiesSound
  <2> QED  BY <1>1, <2>1, <2>2, <2>3 DEF BlockSound
<1>2. CASE s.kind = "down"
  <2> DEFINE bs == DownBlocks(s.target)
  <2>1. /\ s.all = bs
        /\ \A j \in Above(s.target) : files[j].up # Missing /\ files[j].down \notin {Missing, <<>>}
    BY <1>0, <1>2 DEF SessionSound
  <2>2. /\ bs \in Seq(Blocks)
        /\ \A i \in DOMAIN bs :
               /\ bs[i].id \in Above(s.target)
               /\ bs[i].sum = files[bs[i].id].up
               /\ bs[i].body = files[bs[i].id].down
    BY <2>1, DownBlocksAre
  <2> HIDE DEF bs
  <2>3. \A j \in Above(s.target) : j \in DOMAIN files /\ Undoes(files[j].down, files[j].up.body)
    BY <2>1 DEF Plans, BodiesSound, Above
  <2>4. \A j \in Above(s.target) : Single(files[j].down)
    BY <2>3 DEF Undoes
  <2> QED  BY <1>2, <2>1, <2>2, <2>3, <2>4 DEF BlockSound
<1> QED
  BY <1>0, <1>1, <1>2

(* So is the next one, which is a block of the script.                       *)
LEMMA NextIsSound ==
    ASSUME Plans, NEW c \in Clients, NEW s \in Sessions, SessionSound(c, s), s.todo # <<>>
    PROVE  /\ BlockSound(s.kind, s.todo[1])
           /\ Len(s.todo) \in Nat \ {0} /\ Len(s.all) \in Nat
           /\ (Len(s.all) - Len(s.todo)) + 1 \in DOMAIN s.all
           /\ s.todo[1] = s.all[(Len(s.all) - Len(s.todo)) + 1]
<1>1. Running(s) /\ s.todo \in Seq(Blocks) /\ s.all \in Seq(Blocks)
  BY DEF Sessions, Running
<1>2. Len(s.todo) \in Nat \ {0} /\ Len(s.all) \in Nat
  BY <1>1
<1>3. /\ Len(s.todo) <= Len(s.all)
      /\ \A i \in 1..Len(s.todo) : s.todo[i] = s.all[i + (Len(s.all) - Len(s.todo))]
  BY <1>1 DEF SessionSound
<1>4. /\ (Len(s.all) - Len(s.todo)) + 1 \in DOMAIN s.all
      /\ 1 \in 1..Len(s.todo) /\ 1 + (Len(s.all) - Len(s.todo)) = (Len(s.all) - Len(s.todo)) + 1
  <2>1. DOMAIN s.all = 1..Len(s.all)
    BY <1>1
  <2> DEFINE n == Len(s.all)
             m == Len(s.todo)
  <2> HIDE DEF n, m
  <2>2. n \in Nat /\ m \in Nat \ {0} /\ m <= n
    BY <1>2, <1>3 DEF n, m
  <2>3. (n - m) + 1 \in 1..n /\ 1 \in 1..m /\ 1 + (n - m) = (n - m) + 1
    BY <2>2
  <2> QED  BY <2>1, <2>3 DEF n, m
<1>5. s.todo[1] = s.all[(Len(s.all) - Len(s.todo)) + 1]
  BY <1>3, <1>4
<1> QED
  BY <1>2, <1>4, <1>5, BlocksAreSound

(* What a client that is not idle satisfies.                                 *)
LEMMA RunningIs ==
    ASSUME ScriptsSound, NEW c \in Clients, client[c].at # "idle"
    PROVE  /\ client[c] \in Sessions /\ Running(client[c])
           /\ SessionSound(c, client[c]) /\ TouchedSound(client[c], objects)
  BY DEF ScriptsSound, DatabaseTyped, Idle, Running

(* A step of one client that keeps off what the others hold.                 *)
LEMMA OneSteps ==
    ASSUME ScriptsSound, files' = files, NEW c \in Clients, NEW s \in Sessions \cup {Idle},
           Set(c, s), SessionSound(c, s), TouchedSound(s, objects'),
           \A d \in Clients \ {c} : Apart(s, client[d]),
           \A d \in Clients \ {c} : \A u \in client[d].touched :
               u.object \in objects' <=> u.object \in objects,
           objects' \subseteq Objects, (DOMAIN history') \subseteq Ids,
           history' \in [DOMAIN history' -> Scripts],
           ran' \in Seq(Runs), \A i \in DOMAIN ran' : Single(ran'[i].body)
    PROVE  ScriptsSound'
<1>1. client \in [Clients -> Sessions \cup {Idle}]
  BY DEF ScriptsSound, DatabaseTyped
<1>2. /\ client' \in [Clients -> Sessions \cup {Idle}] /\ client'[c] = s
      /\ \A d \in Clients \ {c} : client'[d] = client[d]
  BY <1>1 DEF Set
<1>3. DatabaseTyped'
  BY <1>2 DEF DatabaseTyped, Applied
<1>4. ASSUME NEW d \in Clients
      PROVE  SessionSound(d, client'[d]) /\ TouchedSound(client'[d], objects')
  <2>1. CASE d = c
    BY <1>2, <2>1
  <2>2. CASE d # c
    <3>1. client'[d] = client[d] /\ SessionSound(d, client[d]) /\ TouchedSound(client[d], objects)
      BY <1>2, <2>2 DEF ScriptsSound
    <3>2. \A u \in client[d].touched : u.object \in objects' <=> u.object \in objects
      BY <2>2
    <3>3. TouchedSound(client[d], objects')
      <4>1. CASE client[d].at # "open"
        BY <3>1, <4>1 DEF TouchedSound
      <4>2. CASE client[d].at = "open"
        <5> DEFINE body == client[d].todo[1].body
        <5>1. /\ client[d].touched = {Touch(body[i]) : i \in Done(client[d])}
              /\ \A i \in Done(client[d]) : body[i].object \in objects <=> body[i].create
          BY <3>1, <4>2 DEF TouchedSound
        <5>2. ASSUME NEW i \in Done(client[d])
              PROVE  body[i].object \in objects' <=> body[i].create
          <6>1. Touch(body[i]) \in client[d].touched
            BY <5>1
          <6>2. Touch(body[i]).object = body[i].object
            BY DEF Touch
          <6>3. body[i].object \in objects' <=> body[i].object \in objects
            BY <3>2, <6>1, <6>2
          <6>4. body[i].object \in objects <=> body[i].create
            BY <5>1
          <6> HIDE DEF body
          <6> QED  BY <6>3, <6>4, Zenon
        <5> QED  BY <4>2, <5>1, <5>2 DEF TouchedSound
      <4> QED  BY <4>1, <4>2
    <3> QED  BY <3>1, <3>3
  <2> QED  BY <2>1, <2>2
<1>5. ASSUME NEW d \in Clients
      PROVE  SessionSound(d, client[d])'
  <2>1. SessionSound(d, client'[d])
    BY <1>4
  <2>2. files' = files
    OBVIOUS
  <2> QED  BY <2>1, <2>2 DEF SessionSound, UpBlocks, DownBlocks, Above, Block
<1>6. ASSUME NEW d \in Clients
      PROVE  TouchedSound(client[d], objects)'
  BY <1>4 DEF TouchedSound
<1>7. ASSUME NEW d \in Clients, NEW e \in Clients, d # e
      PROVE  Apart(client'[d], client'[e])
  <2>1. CASE d = c
    BY <1>2, <1>7, <2>1
  <2>2. CASE e = c
    <3>1. Apart(s, client[d])
      BY <1>7, <2>2
    <3> QED  BY <1>2, <1>7, <2>2, <3>1 DEF Apart
  <2>3. CASE d # c /\ e # c
    BY <1>2, <1>7, <2>3 DEF ScriptsSound, LocksApart
  <2> QED  BY <2>1, <2>2, <2>3
<1>8. LocksApart'
  BY <1>7 DEF LocksApart, Apart
<1> QED
  BY <1>3, <1>5, <1>6, <1>8 DEF ScriptsSound

(* A client that runs nothing is sound in every database.                    *)
LEMMA IdleIsSound ==
    ASSUME NEW c, NEW db
    PROVE  SessionSound(c, Idle) /\ TouchedSound(Idle, db) /\ \A t : Apart(Idle, t)
  BY DEF SessionSound, TouchedSound, Apart, Idle, Running

(* A rollback gives back what the transaction had.                           *)
LEMMA StopKeeps ==
    ASSUME ScriptsSound, NEW c \in Clients, Stop(c)
    PROVE  ScriptsSound'
<1>1. /\ objects' = Undone(c) /\ Set(c, Idle) /\ files' = files
      /\ history' = history /\ ran' = ran
  BY DEF Stop, End, developer
<1>2. Undone(c) \subseteq Objects
  BY DEF Undone
<1>3. ASSUME NEW d \in Clients \ {c}, NEW u \in client[d].touched
      PROVE  u.object \in Undone(c) <=> u.object \in objects
  <2>1. u.object \in Objects
    <3>1. client[d] \in Sessions \cup {Idle}
      BY DEF ScriptsSound, DatabaseTyped
    <3>2. u \in Touches
      BY <3>1 DEF Sessions, Idle
    <3> QED  BY <3>2 DEF Touches
  <2>2. ~\E w \in client[c].touched : w.object = u.object
    BY DEF ScriptsSound, LocksApart, Apart
  <2> QED  BY <2>1, <2>2 DEF Undone
<1>4. /\ Applied \subseteq Ids /\ history \in [Applied -> Scripts]
      /\ ran \in Seq(Runs) /\ \A i \in DOMAIN ran : Single(ran[i].body)
  BY DEF ScriptsSound, DatabaseTyped
<1> QED
  BY <1>1, <1>2, <1>3, <1>4, IdleIsSound, OneSteps DEF Applied

(* A step that only moves the script on.                                     *)
LEMMA MoveKeeps ==
    ASSUME ScriptsSound, NEW c \in Clients, NEW s \in Sessions \cup {Idle}, Set(c, s),
           SessionSound(c, s), TouchedSound(s, objects), s.touched = {},
           UNCHANGED <<files, objects, history, ran>>
    PROVE  ScriptsSound'
<1>1. /\ Applied \subseteq Ids /\ history \in [Applied -> Scripts] /\ objects \subseteq Objects
      /\ ran \in Seq(Runs) /\ \A i \in DOMAIN ran : Single(ran[i].body)
  BY DEF ScriptsSound, DatabaseTyped
<1>2. \A d \in Clients \ {c} : Apart(s, client[d])
  BY DEF Apart
<1>3. TouchedSound(s, objects')
  OBVIOUS
<1> QED
  BY <1>1, <1>2, <1>3, OneSteps DEF Applied

(* The guard of a downgrade moves on or ends the script.                     *)
LEMMA GuardKeeps ==
    ASSUME ScriptsSound, NEW c \in Clients, Guard(c)
    PROVE  ScriptsSound'
<1>1. CASE GuardHolds(c)
  <2> DEFINE s == [client[c] EXCEPT !.at = "block"]
  <2>1. /\ client[c] \in Sessions /\ client[c].at = "guard"
        /\ SessionSound(c, client[c]) /\ TouchedSound(client[c], objects)
    BY RunningIs DEF Guard
  <2>2. /\ s \in Sessions /\ s.at = "block" /\ s.kind = client[c].kind
        /\ s.target = client[c].target /\ s.all = client[c].all /\ s.todo = client[c].todo
        /\ s.known = client[c].known /\ s.next = client[c].next /\ s.touched = client[c].touched
    BY <2>1 DEF Sessions
  <2>3. Set(c, s) /\ UNCHANGED <<files, objects, history, ran>>
    BY <1>1 DEF Guard, developer, database
  <2> HIDE DEF s
  <2>4. SessionSound(c, s)
    BY <2>1, <2>2 DEF SessionSound, Running
  <2>5. s.touched = {} /\ TouchedSound(s, objects)
    BY <2>1, <2>2 DEF TouchedSound
  <2> QED  BY <2>2, <2>3, <2>4, <2>5, MoveKeeps
<1>2. CASE ~GuardHolds(c)
  BY <1>2, StopKeeps DEF Guard
<1> QED
  BY <1>1, <1>2

(* So does the check for drift.                                              *)
LEMMA CheckSumKeeps ==
    ASSUME ScriptsSound, NEW c \in Clients, CheckSum(c)
    PROVE  ScriptsSound'
<1>1. CASE ~Drifted(c)
  <2> DEFINE s == [client[c] EXCEPT !.at = "checked"]
  <2>1. /\ client[c] \in Sessions /\ client[c].at = "block" /\ client[c].todo # <<>>
        /\ SessionSound(c, client[c]) /\ TouchedSound(client[c], objects)
    BY RunningIs DEF CheckSum
  <2>2. /\ s \in Sessions /\ s.at = "checked" /\ s.kind = client[c].kind
        /\ s.target = client[c].target /\ s.all = client[c].all /\ s.todo = client[c].todo
        /\ s.known = client[c].known /\ s.next = client[c].next /\ s.touched = client[c].touched
    BY <2>1 DEF Sessions
  <2>3. Set(c, s) /\ UNCHANGED <<files, objects, history, ran>>
    BY <1>1 DEF CheckSum, developer, database
  <2> HIDE DEF s
  <2>4. SessionSound(c, s)
    BY <2>1, <2>2 DEF SessionSound, Running
  <2>5. s.touched = {} /\ TouchedSound(s, objects)
    BY <2>1, <2>2 DEF TouchedSound
  <2> QED  BY <2>2, <2>3, <2>4, <2>5, MoveKeeps
<1>2. CASE Drifted(c)
  BY <1>2, StopKeeps DEF CheckSum
<1> QED
  BY <1>1, <1>2

(* The block after this one.                                                 *)
LEMMA NextBlockIs ==
    ASSUME ScriptsSound, NEW c \in Clients, client[c].at \in {"checked", "open"}
    PROVE  LET s == NextBlock(c) IN
           /\ s \in Sessions /\ s.at = "block" /\ s.kind = client[c].kind
           /\ s.target = client[c].target /\ s.all = client[c].all
           /\ s.todo = Tail(client[c].todo) /\ s.known = client[c].known
           /\ s.next = 1 /\ s.touched = {} /\ s.mixed = client[c].mixed
           /\ SessionSound(c, s) /\ \A db : TouchedSound(s, db)
           /\ Len(s.todo) = Len(client[c].todo) - 1
<1> DEFINE s == NextBlock(c)
<1>1. /\ client[c] \in Sessions /\ Running(client[c])
      /\ SessionSound(c, client[c]) /\ TouchedSound(client[c], objects)
  BY RunningIs
<1>2. client[c].todo \in Seq(Blocks) /\ client[c].all \in Seq(Blocks)
  BY <1>1 DEF Sessions
<1>3. client[c].todo # <<>>
  BY <1>1 DEF SessionSound
<1> DEFINE t == client[c].todo
           r == Tail(t)
<1>4. r \in Seq(Blocks) /\ Len(t) \in Nat \ {0} /\ Len(r) = Len(t) - 1
      /\ \A i \in 1..Len(r) : r[i] = t[i + 1]
  <2> HIDE DEF t
  <2>1. t \in Seq(Blocks) /\ t # <<>>
    BY <1>2, <1>3 DEF t
  <2> QED  BY <2>1
<1>5. s = [client[c] EXCEPT !.at = "block", !.todo = r, !.next = 1, !.touched = {}]
  BY DEF NextBlock
<1>6. /\ s \in Sessions /\ s.at = "block" /\ s.kind = client[c].kind
      /\ s.target = client[c].target /\ s.all = client[c].all /\ s.todo = r
      /\ s.known = client[c].known /\ s.next = 1 /\ s.touched = {}
      /\ s.mixed = client[c].mixed
  <2> HIDE DEF s, r
  <2> QED  BY <1>1, <1>4, <1>5 DEF Sessions
<1> HIDE DEF s
<1> DEFINE n == Len(client[c].all)
           m == Len(t)
<1>7. n \in Nat /\ m \in Nat \ {0} /\ m <= n /\ Len(r) = m - 1
  BY <1>1, <1>2, <1>4 DEF SessionSound
<1>8. \A i \in 1..m : t[i] = client[c].all[i + (n - m)]
  BY <1>1 DEF SessionSound
<1>9. ASSUME NEW i \in 1..Len(r)
      PROVE  r[i] = client[c].all[i + (n - Len(r))]
  <2>1. r[i] = t[i + 1] /\ i \in Nat
    BY <1>4, <1>7
  <2> HIDE DEF n, m, r, t
  <2>2. i + 1 \in 1..m /\ (i + 1) + (n - m) = i + (n - Len(r))
    BY <1>7, <2>1
  <2> QED  BY <1>8, <2>1, <2>2
<1>10. Len(r) <= n
  <2> HIDE DEF n, m, r
  <2> QED  BY <1>7
<1>11. SessionSound(c, s)
  <2> HIDE DEF r
  <2> QED  BY <1>1, <1>6, <1>9, <1>10 DEF SessionSound, Running
<1>12. \A db : TouchedSound(s, db)
  BY <1>6 DEF TouchedSound
<1> QED
  BY <1>4, <1>6, <1>11, <1>12 DEF s

(* A block is entered or passed over.                                        *)
LEMMA CheckAppliedKeeps ==
    ASSUME Plans, ScriptsSound, NEW c \in Clients, CheckApplied(c)
    PROVE  ScriptsSound'
<1>0. /\ client[c] \in Sessions /\ client[c].at = "checked" /\ Running(client[c])
      /\ SessionSound(c, client[c]) /\ TouchedSound(client[c], objects)
      /\ UNCHANGED <<files, objects, history, ran>>
  BY RunningIs DEF CheckApplied, developer, database
<1>1. CASE Wanted(c)
  <2> DEFINE s == [client[c] EXCEPT !.at = "open"]
  <2>1. /\ s \in Sessions /\ s.at = "open" /\ s.kind = client[c].kind
        /\ s.target = client[c].target /\ s.all = client[c].all /\ s.todo = client[c].todo
        /\ s.known = client[c].known /\ s.next = client[c].next /\ s.touched = client[c].touched
    BY <1>0 DEF Sessions
  <2>2. Set(c, s)
    BY <1>1 DEF CheckApplied
  <2> HIDE DEF s
  <2>3. s.touched = {} /\ s.next = 1 /\ s.todo # <<>>
    <3>1. client[c].touched = {}
      BY <1>0 DEF TouchedSound
    <3>2. client[c].next = 1 /\ client[c].todo # <<>>
      BY <1>0 DEF SessionSound
    <3> QED  BY <2>1, <3>1, <3>2
  <2>4. Len(s.todo[1].body) \in Nat
    <3>1. BlockSound(client[c].kind, client[c].todo[1])
      BY <1>0, <2>1, <2>3, NextIsSound
    <3>2. s.todo[1].body \in Bodies
      BY <2>1, <3>1 DEF BlockSound, Blocks
    <3> QED  BY <3>2 DEF Bodies
  <2>5. SessionSound(c, s)
    <3>1. s.next \in 1..Len(s.todo[1].body) + 1
      BY <2>3, <2>4
    <3>2. /\ s.known = DOMAIN files
          /\ s.kind = "up" => s.all = UpBlocks /\ \A j \in DOMAIN files : files[j].up # Missing
          /\ s.kind = "down" =>
               /\ c \in Downgraders /\ s.all = DownBlocks(s.target)
               /\ \A j \in Above(s.target) :
                      files[j].up # Missing /\ files[j].down \notin {Missing, <<>>}
          /\ Len(s.todo) <= Len(s.all)
          /\ \A i \in 1..Len(s.todo) : s.todo[i] = s.all[i + (Len(s.all) - Len(s.todo))]
      BY <1>0, <2>1 DEF SessionSound
    <3> QED  BY <2>1, <2>3, <3>1, <3>2 DEF SessionSound
  <2>6. TouchedSound(s, objects)
    <3>1. Done(s) = {}
      BY <2>3 DEF Done
    <3> QED  BY <2>1, <2>3, <3>1 DEF TouchedSound
  <2> QED  BY <1>0, <2>1, <2>2, <2>3, <2>5, <2>6, MoveKeeps
<1>2. CASE ~Wanted(c)
  <2> DEFINE s == NextBlock(c)
  <2>1. s \in Sessions /\ SessionSound(c, s) /\ TouchedSound(s, objects) /\ s.touched = {}
    BY <1>0, NextBlockIs
  <2>2. Set(c, s)
    BY <1>2 DEF CheckApplied
  <2> HIDE DEF s
  <2> QED  BY <1>0, <2>1, <2>2, MoveKeeps
<1> QED
  BY <1>1, <1>2

(* A script whose blocks are done ends.                                      *)
LEMMA FinishKeeps ==
    ASSUME ScriptsSound, NEW c \in Clients, Finish(c)
    PROVE  ScriptsSound'
<1>1. Set(c, Idle) /\ UNCHANGED <<files, objects, history, ran>>
  BY DEF Finish, End, developer, database
<1>2. Idle.touched = {}
  BY DEF Idle
<1> QED
  BY <1>1, <1>2, IdleIsSound, MoveKeeps

(* What one statement that succeeds does, to an object nobody has touched.   *)
Executed(c) == [client[c] EXCEPT !.next = @ + 1,
                                 !.touched = client[c].touched \cup {Touch(Statement(c))}]
(* The fields of the session after it.                                       *)
LEMMA ExecutedIs ==
    ASSUME NEW c \in Clients, client[c] \in Sessions, client[c].at = "open",
           Statement(c) \in Statements
    PROVE  LET t == Executed(c) IN
           /\ t \in Sessions /\ t.at = "open" /\ t.kind = client[c].kind
           /\ t.target = client[c].target /\ t.all = client[c].all /\ t.todo = client[c].todo
           /\ t.known = client[c].known /\ t.next = client[c].next + 1
           /\ t.touched = client[c].touched \cup {Touch(Statement(c))}
           /\ t.mixed = client[c].mixed
<1> DEFINE r == client[c]
           n == r.next + 1
           more == r.touched \cup {Touch(Statement(c))}
<1>1. n \in Nat
  BY DEF Sessions
<1>2. more \in SUBSET Touches
  <2>1. Touch(Statement(c)) \in Touches
    BY DEF Touch, Touches, Statements
  <2> QED  BY <2>1 DEF Sessions
<1>3. Executed(c) = [r EXCEPT !.next = n, !.touched = more]
  BY DEF Executed
<1>4. r \in Sessions /\ r.at = "open"
  OBVIOUS
<1> HIDE DEF r, n, more
<1>5. [r EXCEPT !.next = n, !.touched = more] \in Sessions
  BY <1>1, <1>2, <1>4 DEF Sessions
<1>6. /\ [r EXCEPT !.next = n, !.touched = more].at = r.at
      /\ [r EXCEPT !.next = n, !.touched = more].kind = r.kind
      /\ [r EXCEPT !.next = n, !.touched = more].target = r.target
      /\ [r EXCEPT !.next = n, !.touched = more].all = r.all
      /\ [r EXCEPT !.next = n, !.touched = more].todo = r.todo
      /\ [r EXCEPT !.next = n, !.touched = more].known = r.known
      /\ [r EXCEPT !.next = n, !.touched = more].mixed = r.mixed
      /\ [r EXCEPT !.next = n, !.touched = more].next = n
      /\ [r EXCEPT !.next = n, !.touched = more].touched = more
  BY <1>4 DEF Sessions
<1>7. \A t : t = [r EXCEPT !.next = n, !.touched = more] =>
        /\ t \in Sessions /\ t.at = r.at /\ t.kind = r.kind
        /\ t.target = r.target /\ t.all = r.all /\ t.todo = r.todo
        /\ t.known = r.known /\ t.next = n /\ t.touched = more /\ t.mixed = r.mixed
  BY <1>5, <1>6, Zenon
<1> QED
  BY <1>3, <1>4, <1>7 DEF r, n, more

(* What the statement finds and what it leaves.                              *)
LEMMA ExecuteIs ==
    ASSUME Plans, ScriptsSound, NEW c \in Clients, ExecuteStatement(c), Fits(Statement(c))
    PROVE  /\ client[c].at = "open" /\ Statement(c) \in Statements
           /\ client[c].next \in 1..Len(Mine(c).body)
           /\ \A d \in Clients : \A u \in client[d].touched : u.object # Statement(c).object
           /\ Set(c, Executed(c))
           /\ Statement(c).create => objects' = objects \cup {Statement(c).object}
           /\ ~Statement(c).create => objects' = objects \ {Statement(c).object}
           /\ UNCHANGED <<files, history, ran>>
<1> DEFINE s == Statement(c)
           body == Mine(c).body
<1>1. /\ client[c].at = "open" /\ client[c].next <= Len(body)
      /\ ~Locked(c, s.object)
  BY DEF ExecuteStatement, MoreStatements
<1>2. /\ client[c] \in Sessions /\ Running(client[c])
      /\ SessionSound(c, client[c]) /\ TouchedSound(client[c], objects)
  BY <1>1, RunningIs
<1>3. client[c].todo # <<>> /\ client[c].next \in 1..Len(body) + 1
  BY <1>1, <1>2 DEF SessionSound, Mine
<1>4. BlockSound(client[c].kind, Mine(c))
  BY <1>2, <1>3, NextIsSound DEF Mine
<1>5. body \in Seq(Statements) /\ Single(body)
  BY <1>4 DEF BlockSound, Blocks, Bodies
<1>6. client[c].next \in 1..Len(body) /\ client[c].next \in Nat
  <2> HIDE DEF body
  <2>1. Len(body) \in Nat
    BY <1>5
  <2> QED  BY <1>1, <1>3, <2>1
<1>7. s = body[client[c].next]
  BY DEF Statement
<1> HIDE DEF s, body
<1>8. s \in Statements
  BY <1>5, <1>6, <1>7
<1>9. ASSUME NEW d \in Clients, NEW u \in client[d].touched
      PROVE  u.object # s.object
  <2>1. CASE d # c
    BY <1>1, <1>9, <2>1 DEF Locked
  <2>2. CASE d = c
    <3>1. PICK i \in Done(client[c]) : u = Touch(body[i])
      BY <1>1, <1>2, <1>9, <2>2 DEF TouchedSound, body, Mine
    <3>2. u.object = body[i].object
      BY <3>1 DEF Touch
    <3>3. i \in DOMAIN body /\ client[c].next \in DOMAIN body /\ i # client[c].next
      <4>1. Len(body) \in Nat /\ DOMAIN body = 1..Len(body)
        BY <1>5
      <4> QED  BY <1>6, <3>1, <4>1 DEF Done
    <3>4. body[i].object # body[client[c].next].object
      BY <1>5, <3>3 DEF Single
    <3> QED  BY <1>7, <3>2, <3>4
  <2> QED  BY <2>1, <2>2
<1>10. ~\E u \in client[c].touched : u.object = s.object
  BY <1>9
<1>11. /\ objects' = IF s.create THEN objects \cup {s.object} ELSE objects \ {s.object}
       /\ Set(c, [client[c] EXCEPT !.next = @ + 1,
                   !.touched = IF \E u \in @ : u.object = s.object THEN @
                               ELSE @ \cup {[object |-> s.object, was |-> ~s.create]}])
       /\ UNCHANGED <<developer, scripts, history, ran>>
  BY DEF ExecuteStatement, s
<1>12. Set(c, Executed(c))
  <2>1. Set(c, [client[c] EXCEPT !.next = @ + 1, !.touched = client[c].touched \cup {Touch(s)}])
    BY <1>2, <1>10, <1>11 DEF Set, Touch, Sessions
  <2> QED  BY <2>1 DEF Executed, s
<1>13. UNCHANGED <<files, history, ran>>
  BY <1>11 DEF developer
<1>14. /\ s.create => objects' = objects \cup {s.object}
       /\ ~s.create => objects' = objects \ {s.object}
  BY <1>11
<1> QED
  BY <1>1, <1>6, <1>8, <1>9, <1>12, <1>13, <1>14 DEF s, body

(* A statement keeps databases and locks sound, or ends the script.          *)
LEMMA ExecuteKeeps ==
    ASSUME Plans, ScriptsSound, NEW c \in Clients, ExecuteStatement(c)
    PROVE  ScriptsSound'
<1>1. CASE ~Fits(Statement(c))
  BY <1>1, StopKeeps DEF ExecuteStatement
<1>2. CASE Fits(Statement(c))
  <2> DEFINE s == Statement(c)
             body == Mine(c).body
             t == Executed(c)
  <2>1. /\ client[c].at = "open" /\ s \in Statements
        /\ client[c].next \in 1..Len(body)
        /\ \A d \in Clients : \A u \in client[d].touched : u.object # s.object
        /\ Set(c, t)
        /\ s.create => objects' = objects \cup {s.object}
        /\ ~s.create => objects' = objects \ {s.object}
        /\ UNCHANGED <<files, history, ran>>
    BY <1>2, ExecuteIs
  <2>2. /\ client[c] \in Sessions /\ Running(client[c])
        /\ SessionSound(c, client[c]) /\ TouchedSound(client[c], objects)
    BY <2>1, RunningIs
  <2>3. client[c].next \in Nat /\ Touch(s) \in Touches /\ Touch(s).object = s.object
    <3> HIDE DEF s, t, body
    <3>1. s.object \in Objects /\ (~s.create) \in BOOLEAN
      BY <2>1 DEF Statements
    <3> QED  BY <2>2, <3>1 DEF Sessions, Touch, Touches
  <2>4. s = body[client[c].next] /\ body = client[c].todo[1].body
    BY DEF Statement, Mine
  <2> HIDE DEF s
  <2>5. /\ t \in Sessions /\ t.at = "open" /\ t.kind = client[c].kind
        /\ t.target = client[c].target /\ t.all = client[c].all /\ t.todo = client[c].todo
        /\ t.known = client[c].known /\ t.next = client[c].next + 1
        /\ t.touched = client[c].touched \cup {Touch(s)}
    BY <2>1, <2>2, ExecutedIs DEF s
  <2> HIDE DEF t, body
  <2>6. Done(t) = Done(client[c]) \cup {client[c].next} /\ t.next \in 1..Len(body) + 1
    <3>1. Len(body) \in Nat
      <4>1. BlockSound(client[c].kind, Mine(c))
        BY <2>1, <2>2, NextIsSound DEF Mine, SessionSound
      <4> QED  BY <4>1 DEF BlockSound, Blocks, Bodies, body
    <3> QED  BY <2>1, <2>3, <2>5, <3>1 DEF Done
  <2>7. SessionSound(c, t)
    <3>1. t.next \in 1..Len(t.todo[1].body) + 1 /\ t.todo # <<>>
      BY <2>1, <2>2, <2>4, <2>5, <2>6 DEF SessionSound
    <3>2. /\ t.known = DOMAIN files
          /\ t.kind = "up" => t.all = UpBlocks /\ \A j \in DOMAIN files : files[j].up # Missing
          /\ t.kind = "down" =>
               /\ c \in Downgraders /\ t.all = DownBlocks(t.target)
               /\ \A j \in Above(t.target) :
                      files[j].up # Missing /\ files[j].down \notin {Missing, <<>>}
          /\ Len(t.todo) <= Len(t.all)
          /\ \A i \in 1..Len(t.todo) : t.todo[i] = t.all[i + (Len(t.all) - Len(t.todo))]
      BY <2>2, <2>5 DEF SessionSound
    <3> QED  BY <2>5, <3>1, <3>2 DEF SessionSound
  <2>8. TouchedSound(t, objects')
    <3>1. /\ client[c].touched = {Touch(body[i]) : i \in Done(client[c])}
          /\ \A i \in Done(client[c]) : body[i].object \in objects <=> body[i].create
      BY <2>1, <2>2, <2>4 DEF TouchedSound
    <3>2. t.touched = {Touch(body[i]) : i \in Done(t)}
      BY <2>4, <2>5, <2>6, <3>1, SMTT(20)
    <3>3. ASSUME NEW i \in Done(t)
          PROVE  body[i].object \in objects' <=> body[i].create
      <4>1. CASE i = client[c].next
        BY <2>1, <2>4, <4>1
      <4>2. CASE i \in Done(client[c])
        <5>1. Touch(body[i]) \in client[c].touched /\ Touch(body[i]).object = body[i].object
          BY <3>1, <4>2 DEF Touch
        <5>2. body[i].object # s.object
          BY <2>1, <5>1
        <5>3. body[i].object \in objects' <=> body[i].object \in objects
          BY <2>1, <5>2
        <5>4. body[i].object \in objects <=> body[i].create
          BY <3>1, <4>2
        <5> QED  BY <5>3, <5>4, Zenon
      <4> QED  BY <2>6, <4>1, <4>2
    <3> QED  BY <2>4, <2>5, <3>2, <3>3, SMTT(20) DEF TouchedSound
  <2>9. ASSUME NEW d \in Clients \ {c}
        PROVE  Apart(t, client[d])
    <3>1. Apart(client[c], client[d])
      BY DEF ScriptsSound, LocksApart
    <3> QED  BY <2>1, <2>3, <2>5, <3>1 DEF Apart
  <2>10. ASSUME NEW d \in Clients \ {c}, NEW u \in client[d].touched
         PROVE  u.object \in objects' <=> u.object \in objects
    BY <2>1
  <2>11. /\ objects' \subseteq Objects
         /\ Applied \subseteq Ids /\ history \in [Applied -> Scripts]
         /\ ran \in Seq(Runs) /\ \A i \in DOMAIN ran : Single(ran[i].body)
    BY <2>1 DEF ScriptsSound, DatabaseTyped, Statements
  <2> QED  BY <2>1, <2>5, <2>7, <2>8, <2>9, <2>10, <2>11, OneSteps DEF Applied
<1> QED
  BY <1>1, <1>2

(* What a row that is written or taken out of the history comes with.        *)
Row(c) == [id |-> Mine(c).id, kind |-> client[c].kind, body |-> Mine(c).body, by |-> c]
Records(c) == Record(c) /\ ~(client[c].kind = "up" /\ Mine(c).id \in Applied)

(* What a commit finds and what it leaves.                                   *)
LEMMA RecordIs ==
    ASSUME Plans, ScriptsSound, NEW c \in Clients, Records(c)
    PROVE  /\ client[c] \in Sessions /\ client[c].at = "open" /\ Running(client[c])
           /\ SessionSound(c, client[c]) /\ TouchedSound(client[c], objects)
           /\ client[c].next = Len(Mine(c).body) + 1 /\ client[c].todo # <<>>
           /\ BlockSound(client[c].kind, Mine(c)) /\ Mine(c).id \in Ids
           /\ Mine(c).body \in Bodies /\ Single(Mine(c).body) /\ Mine(c).sum \in Scripts
           /\ Row(c) \in Runs
           /\ history' = Recorded(c) /\ ran' = Append(ran, Row(c)) /\ Set(c, NextBlock(c))
           /\ UNCHANGED <<files, used, add, lost, changes, scripts, objects>>
<1>1. client[c].at = "open" /\ client[c].next > Len(Mine(c).body)
  BY DEF Records, Record
<1>2. /\ client[c] \in Sessions /\ Running(client[c])
      /\ SessionSound(c, client[c]) /\ TouchedSound(client[c], objects)
  BY <1>1, RunningIs
<1>3. client[c].todo # <<>> /\ client[c].next \in 1..Len(Mine(c).body) + 1
  BY <1>1, <1>2 DEF SessionSound, Mine
<1>4. BlockSound(client[c].kind, Mine(c))
  BY <1>2, <1>3, NextIsSound DEF Mine
<1>5. /\ Mine(c).id \in Ids /\ Mine(c).body \in Bodies /\ Single(Mine(c).body)
      /\ Mine(c).sum \in Scripts
  BY <1>4 DEF BlockSound, Blocks
<1>6. client[c].next = Len(Mine(c).body) + 1
  <2>1. Len(Mine(c).body) \in Nat
    BY <1>5 DEF Bodies
  <2> QED  BY <1>1, <1>3, <2>1
<1>7. Row(c) \in Runs
  <2>1. client[c].kind \in {"up", "down"}
    BY <1>2 DEF Sessions
  <2> QED  BY <1>5, <2>1 DEF Row, Runs
<1>8. /\ history' = Recorded(c) /\ ran' = Append(ran, Row(c)) /\ Set(c, NextBlock(c))
      /\ UNCHANGED <<files, used, add, lost, changes, scripts, objects>>
  BY DEF Records, Record, Row, developer
<1> QED
  BY <1>1, <1>2, <1>3, <1>4, <1>5, <1>6, <1>7, <1>8

(* The rows of the history after a commit.                                   *)
LEMMA RecordedIs ==
    ASSUME NEW c \in Clients, Mine(c).id \in Ids, Mine(c).sum \in Scripts, Applied \subseteq Ids,
           history \in [Applied -> Scripts], client[c].kind \in {"up", "down"}
    PROVE  /\ Recorded(c) \in [DOMAIN Recorded(c) -> Scripts] /\ DOMAIN Recorded(c) \subseteq Ids
           /\ client[c].kind = "up" =>
                  /\ DOMAIN Recorded(c) = Applied \cup {Mine(c).id}
                  /\ Recorded(c)[Mine(c).id] = Mine(c).sum
           /\ client[c].kind = "down" => DOMAIN Recorded(c) = Applied \ {Mine(c).id}
           /\ \A j \in DOMAIN Recorded(c) \ {Mine(c).id} : Recorded(c)[j] = history[j]
<1>1. CASE client[c].kind = "up"
  BY <1>1 DEF Recorded
<1>2. CASE client[c].kind = "down"
  BY <1>2 DEF Recorded
<1> QED
  BY <1>1, <1>2

(* A commit keeps everything sound, or ends the script.                      *)
LEMMA RecordKeeps ==
    ASSUME Plans, ScriptsSound, NEW c \in Clients, Record(c)
    PROVE  ScriptsSound'
<1>1. CASE client[c].kind = "up" /\ Mine(c).id \in Applied
  BY <1>1, StopKeeps DEF Record
<1>2. CASE ~(client[c].kind = "up" /\ Mine(c).id \in Applied)
  <2> DEFINE s == NextBlock(c)
             r == Row(c)
  <2>1. Records(c)
    BY <1>2 DEF Records
  <2>2. /\ client[c] \in Sessions /\ client[c].at = "open"
        /\ Mine(c).id \in Ids /\ Single(Mine(c).body) /\ Mine(c).sum \in Scripts
        /\ r \in Runs /\ history' = Recorded(c) /\ ran' = Append(ran, r) /\ Set(c, s)
        /\ UNCHANGED <<files, objects>>
    BY <2>1, RecordIs
  <2>3. s \in Sessions /\ SessionSound(c, s) /\ TouchedSound(s, objects) /\ s.touched = {}
    BY <2>2, NextBlockIs
  <2>4. r.body = Mine(c).body
    BY DEF Row
  <2> HIDE DEF s, r
  <2>5. /\ objects \subseteq Objects /\ Applied \subseteq Ids /\ history \in [Applied -> Scripts]
        /\ ran \in Seq(Runs) /\ \A i \in DOMAIN ran : Single(ran[i].body)
    BY DEF ScriptsSound, DatabaseTyped
  <2>6. client[c].kind \in {"up", "down"}
    BY <2>2 DEF Sessions
  <2>7. Recorded(c) \in [DOMAIN Recorded(c) -> Scripts] /\ DOMAIN Recorded(c) \subseteq Ids
    BY <2>2, <2>5, <2>6, RecordedIs
  <2>8. (DOMAIN history') \subseteq Ids /\ history' \in [DOMAIN history' -> Scripts]
    BY <2>2, <2>7
  <2>9. ran' \in Seq(Runs) /\ \A i \in DOMAIN ran' : Single(ran'[i].body)
    <3>1. ran' \in Seq(Runs) /\ \A i \in DOMAIN ran' : ran'[i] = r \/ (i \in DOMAIN ran /\ ran'[i] = ran[i])
      BY <2>2, <2>5
    <3> QED  BY <2>2, <2>4, <2>5, <3>1
  <2>10. \A d \in Clients \ {c} : Apart(s, client[d])
    BY <2>3 DEF Apart
  <2>11. TouchedSound(s, objects') /\ objects' \subseteq Objects
         /\ \A d \in Clients \ {c} : \A u \in client[d].touched :
                u.object \in objects' <=> u.object \in objects
    BY <2>2, <2>3, <2>5
  <2>12. files' = files /\ s \in Sessions \cup {Idle}
    BY <2>2, <2>3
  <2> QED  BY <2>2, <2>3, <2>8, <2>9, <2>10, <2>11, <2>12, OneSteps
<1> QED
  BY <1>1, <1>2

(* Where a client that starts a script, and the others, stand then.          *)
Started(kind, target, blocks, at, mixed) ==
    [at |-> at, kind |-> kind, target |-> target, all |-> blocks, todo |-> blocks,
     known |-> DOMAIN files, next |-> 1, touched |-> {}, mixed |-> mixed]
Meets(s) == IF s.at = "idle" THEN s ELSE [s EXCEPT !.mixed = TRUE]

(* Meeting another script changes nothing but the mark.                      *)
LEMMA MeetsIs ==
    ASSUME NEW s \in Sessions \cup {Idle}
    PROVE  /\ Meets(s) \in Sessions \cup {Idle} /\ Meets(s).at = s.at /\ Meets(s).touched = s.touched
           /\ s.at = "idle" => Meets(s) = s
           /\ s.at # "idle" => Meets(s).mixed
           /\ s \in Sessions =>
                /\ Meets(s).kind = s.kind /\ Meets(s).target = s.target /\ Meets(s).all = s.all
                /\ Meets(s).todo = s.todo /\ Meets(s).known = s.known /\ Meets(s).next = s.next
<1>1. CASE s \in Sessions
  <2>1. s.at # "idle"
    BY <1>1 DEF Sessions
  <2>2. Meets(s) = [s EXCEPT !.mixed = TRUE]
    BY <2>1 DEF Meets
  <2>3. [s EXCEPT !.mixed = TRUE] \in Sessions
    BY <1>1 DEF Sessions
  <2>4. /\ [s EXCEPT !.mixed = TRUE].mixed = TRUE
        /\ [s EXCEPT !.mixed = TRUE].at = s.at /\ [s EXCEPT !.mixed = TRUE].touched = s.touched
        /\ [s EXCEPT !.mixed = TRUE].kind = s.kind /\ [s EXCEPT !.mixed = TRUE].target = s.target
        /\ [s EXCEPT !.mixed = TRUE].all = s.all /\ [s EXCEPT !.mixed = TRUE].todo = s.todo
        /\ [s EXCEPT !.mixed = TRUE].known = s.known /\ [s EXCEPT !.mixed = TRUE].next = s.next
    BY <1>1 DEF Sessions
  <2> QED  BY <1>1, <2>1, <2>2, <2>3, <2>4
<1>2. CASE s = Idle
  <2>1. s.at = "idle" /\ s \notin Sessions
    BY <1>2 DEF Idle, Sessions
  <2>2. Meets(s) = s
    BY <2>1 DEF Meets
  <2> QED  BY <1>2, <2>1, <2>2
<1> QED
  BY <1>1, <1>2

(* A script that starts is sound, and so stay those that it meets.           *)
LEMMA StartsKeeps ==
    ASSUME ScriptsSound, DOMAIN files \subseteq Ids, NEW c \in Clients,
           NEW kind \in {"up", "down"}, NEW target \in Nat,
           NEW blocks \in Seq(Blocks), NEW at \in {"guard", "block"},
           Starts(c, kind, target, blocks, at),
           kind = "up" => blocks = UpBlocks /\ \A j \in DOMAIN files : files[j].up # Missing,
           kind = "down" =>
               /\ c \in Downgraders /\ blocks = DownBlocks(target)
               /\ \A j \in Above(target) : files[j].up # Missing /\ files[j].down \notin {Missing, <<>>}
    PROVE  ScriptsSound'
<1> DEFINE new == Started(kind, target, blocks, at, Mixed(c))
<1>1. Mixed(c) \in BOOLEAN
  BY DEF Mixed
<1>2. /\ new \in Sessions /\ new.at = at /\ new.kind = kind /\ new.target = target
      /\ new.all = blocks /\ new.todo = blocks /\ new.known = DOMAIN files
      /\ new.next = 1 /\ new.touched = {}
  BY <1>1 DEF Started, Sessions
<1>3. /\ client' = [d \in Clients |-> IF d = c THEN new ELSE Meets(client[d])]
      /\ UNCHANGED <<files, objects, history, ran>>
  BY DEF Starts, Started, Meets, developer, database
<1> HIDE DEF new
<1>4. client'[c] = new /\ \A d \in Clients \ {c} : client'[d] = Meets(client[d])
  BY <1>3
<1>5. /\ client \in [Clients -> Sessions \cup {Idle}] /\ DatabaseTyped /\ LocksApart
      /\ \A d \in Clients : SessionSound(d, client[d]) /\ TouchedSound(client[d], objects)
  BY DEF ScriptsSound, DatabaseTyped
<1>6. client' \in [Clients -> Sessions \cup {Idle}]
  BY <1>2, <1>3, <1>5, MeetsIs
<1>7. DatabaseTyped'
  BY <1>3, <1>5, <1>6 DEF DatabaseTyped, Applied
<1>8. SessionSound(c, new) /\ TouchedSound(new, objects)
  <2>1. SessionSound(c, new)
    <3>1. blocks \in Seq(Blocks) /\ Len(blocks) \in Nat
      OBVIOUS
    <3>2. \A i \in 1..Len(new.todo) : new.todo[i] = new.all[i + (Len(new.all) - Len(new.todo))]
      BY <1>2, <3>1
    <3> QED  BY <1>2, <3>1, <3>2 DEF SessionSound
  <2> QED  BY <1>2, <2>1 DEF TouchedSound
<1>9. ASSUME NEW d \in Clients \ {c}
      PROVE  /\ SessionSound(d, client'[d]) /\ TouchedSound(client'[d], objects)
             /\ client'[d].touched = client[d].touched
  <2> DEFINE s == client[d]
  <2>1. /\ s \in Sessions \cup {Idle} /\ client'[d] = Meets(s)
        /\ SessionSound(d, s) /\ TouchedSound(s, objects)
    BY <1>4, <1>5
  <2> HIDE DEF s
  <2>2. CASE s = Idle
    <3>1. Meets(s) = s
      BY <2>1, <2>2, MeetsIs DEF Idle
    <3> QED  BY <2>1, <3>1 DEF s
  <2>3. CASE s \in Sessions
    <3> DEFINE m == Meets(s)
    <3>1. /\ m.at = s.at /\ m.touched = s.touched
          /\ m.kind = s.kind /\ m.target = s.target /\ m.all = s.all
          /\ m.todo = s.todo /\ m.known = s.known /\ m.next = s.next
      BY <2>3, MeetsIs
    <3> HIDE DEF m
    <3>2. SessionSound(d, m)
      BY <2>1, <3>1 DEF SessionSound, Running
    <3>3. TouchedSound(m, objects)
      BY <2>1, <3>1 DEF TouchedSound, Done
    <3> QED  BY <2>1, <3>1, <3>2, <3>3 DEF m, s
  <2> QED  BY <2>1, <2>2, <2>3
<1>10. ASSUME NEW d \in Clients
       PROVE  SessionSound(d, client'[d]) /\ TouchedSound(client'[d], objects)
  BY <1>4, <1>8, <1>9
<1>11. ASSUME NEW d \in Clients
       PROVE  (SessionSound(d, client[d]) /\ TouchedSound(client[d], objects))'
  <2>1. SessionSound(d, client'[d]) /\ TouchedSound(client'[d], objects)
    BY <1>10
  <2>2. files' = files /\ objects' = objects
    BY <1>3
  <2>3. SessionSound(d, client[d])'
    BY <2>1, <2>2 DEF SessionSound, UpBlocks, DownBlocks, Above, Block
  <2>4. TouchedSound(client[d], objects)'
    BY <2>1, <2>2 DEF TouchedSound
  <2> QED  BY <2>3, <2>4
<1>12. ASSUME NEW d \in Clients, NEW e \in Clients, d # e
       PROVE  Apart(client'[d], client'[e])
  <2>1. CASE d = c \/ e = c
    BY <1>2, <1>4, <2>1 DEF Apart
  <2>2. CASE d # c /\ e # c
    BY <1>5, <1>9, <1>12, <2>2 DEF LocksApart, Apart
  <2> QED  BY <2>1, <2>2
<1>13. LocksApart'
  BY <1>12 DEF LocksApart, Apart
<1> QED
  BY <1>7, <1>11, <1>13 DEF ScriptsSound

(* An update starts.                                                         *)
LEMMA StartUpdateKeeps ==
    ASSUME Plans, ScriptsSound, NEW c \in Clients, StartUpdate(c)
    PROVE  ScriptsSound'
<1>1. Starts(c, "up", 0, UpBlocks, "block") /\ \A j \in DOMAIN files : files[j].up # Missing
  BY DEF StartUpdate
<1>2. UpBlocks \in Seq(Blocks) /\ DOMAIN files \subseteq Ids
  BY <1>1, UpBlocksAre DEF Plans, FilesTyped
<1> QED
  BY <1>1, <1>2, StartsKeeps

(* A downgrade starts.                                                       *)
LEMMA StartDowngradeKeeps ==
    ASSUME Plans, ScriptsSound, NEW c \in Clients, StartDowngrade(c)
    PROVE  ScriptsSound'
<1>1. PICK target \in DOMAIN files \cup {0} :
        /\ \A j \in Above(target) : files[j].up # Missing /\ files[j].down \notin {Missing, <<>>}
        /\ Starts(c, "down", target, DownBlocks(target), "guard")
  BY DEF StartDowngrade
<1>2. c \in Downgraders
  BY DEF StartDowngrade
<1>3. DownBlocks(target) \in Seq(Blocks)
  BY <1>1, DownBlocksAre
<1>4. DOMAIN files \subseteq Ids /\ target \in Nat
  BY IdsAssumption DEF Plans, FilesTyped, Ids
<1> QED
  BY <1>1, <1>2, <1>3, <1>4, StartsKeeps

(* What any step of the scripts keeps, and any step of the developer.        *)
LEMMA ScriptsStep ==
    ASSUME Plans, ScriptsSound, NEW c \in Clients,
           StartUpdate(c) \/ StartDowngrade(c) \/ ScriptStep(c) \/ Fails(c)
    PROVE  ScriptsSound' /\ UNCHANGED developer
<1>1. ScriptsSound'
  BY StartUpdateKeeps, StartDowngradeKeeps, StopKeeps, GuardKeeps, CheckSumKeeps, CheckAppliedKeeps,
     ExecuteKeeps, RecordKeeps, FinishKeeps DEF ScriptStep, DeadlockVictim, Fails
<1>2. UNCHANGED developer
  BY DEF StartUpdate, StartDowngrade, Starts, ScriptStep, DeadlockVictim, Fails, Stop, Guard,
     CheckSum, CheckApplied, ExecuteStatement, Record, Finish
<1> QED
  BY <1>1, <1>2

(* The developer's steps find no script that runs.                           *)
LEMMA ScriptsApart ==
    ASSUME ScriptsSound, Develops
    PROVE  ScriptsSound'
<1>1. UNCHANGED <<client, database>> /\ \A c \in Clients : client[c].at = "idle"
  BY DevelopsApart DEF Quiet
<1>2. DatabaseTyped' /\ LocksApart'
  BY <1>1 DEF ScriptsSound, DatabaseTyped, LocksApart, Apart, Applied, database
<1>3. ASSUME NEW c \in Clients
      PROVE  (SessionSound(c, client[c]) /\ TouchedSound(client[c], objects))'
  <2>1. client'[c].at = "idle" /\ client'[c] = client[c] /\ TouchedSound(client[c], objects)
    BY <1>1 DEF ScriptsSound
  <2>2. objects' = objects
    BY <1>1 DEF database
  <2> QED  BY <2>1, <2>2 DEF SessionSound, TouchedSound, Running
<1> QED
  BY <1>2, <1>3 DEF ScriptsSound

(* At first there is nothing to be unsound.                                  *)
LEMMA ScriptsAtFirst == Init => ScriptsSound
<1> SUFFICES ASSUME Init PROVE ScriptsSound
  OBVIOUS
<1>1. \A c \in Clients : client[c] = Idle
  BY DEF Init
<1>2. DatabaseTyped
  BY DEF Init, DatabaseTyped, Applied
<1>3. LocksApart
  BY <1>1, IdleIsSound DEF LocksApart
<1> QED
  BY <1>1, <1>2, <1>3, IdleIsSound DEF ScriptsSound

(* What every step keeps.                                                    *)
Sound == Plans /\ ScriptsSound

(* Every step keeps directory, scripts and database sound.                   *)
LEMMA SoundStep == Sound /\ [Next]_vars => Sound'
<1> SUFFICES ASSUME Plans, ScriptsSound, [Next]_vars PROVE Plans' /\ ScriptsSound'
  BY DEF Sound
<1>1. CASE Develops
  BY <1>1, DevelopsKeeps, ScriptsApart
<1>2. ASSUME NEW c \in Clients, StartUpdate(c) \/ StartDowngrade(c) \/ ScriptStep(c) \/ Fails(c)
      PROVE  Plans' /\ ScriptsSound'
  BY <1>2, ScriptsStep, PlansUnchanged
<1>3. CASE UNCHANGED vars
  <2>1. UNCHANGED developer /\ UNCHANGED <<files, client, database>>
    BY <1>3 DEF vars, developer, database
  <2>2. Plans'
    BY <2>1, PlansUnchanged
  <2>3. ScriptsSound'
    <3>1. DatabaseTyped' /\ LocksApart'
      BY <2>1 DEF ScriptsSound, DatabaseTyped, LocksApart, Applied, database
    <3>2. ASSUME NEW c \in Clients
          PROVE  SessionSound(c, client[c])'
      <4>1. SessionSound(c, client[c])
        BY DEF ScriptsSound
      <4>2. files' = files /\ client' = client
        BY <2>1
      <4>3. UpBlocks' = UpBlocks
        BY <4>2 DEF UpBlocks, Block
      <4>4. Above(client[c].target)' = Above(client[c].target)
        BY <4>2 DEF Above
      <4>5. DownBlocks(client[c].target)' = DownBlocks(client[c].target)
        BY <4>2, <4>4 DEF DownBlocks, Block
      <4> QED
        BY <4>1, <4>2, <4>3, <4>4, <4>5 DEF SessionSound
    <3>3. ASSUME NEW c \in Clients
          PROVE  TouchedSound(client[c], objects)'
      BY <2>1 DEF ScriptsSound, TouchedSound, database
    <3> QED  BY <3>1, <3>2, <3>3 DEF ScriptsSound
  <2> QED  BY <2>2, <2>3
<1> QED
  BY <1>1, <1>2, <1>3 DEF Next, Develops

(* What the later proofs stand on: they are sound in every reachable state.  *)
LEMMA AlwaysSound == Spec => []Sound
<1>1. Init => Sound
  BY PlansAtFirst, ScriptsAtFirst DEF Sound
<1> QED
  BY <1>1, SoundStep, PTL DEF Spec

-----------------------------------------------------------------------------
(* The order in which scripts that run alone commit *)

(* A script goes down its blocks; what is behind it is done, and what it has *)
(* checked still holds.                                                      *)
Past(s) == Len(s.all) - Len(s.todo)
Agrees(block, h) == block.id \in DOMAIN h => h[block.id] = block.sum
Follows(s, h) ==
    /\ s.kind = "up" =>
        /\ \A i \in 1..Past(s) : s.all[i].id \in DOMAIN h /\ h[s.all[i].id] = s.all[i].sum
        /\ s.at = "checked" => Agrees(s.todo[1], h)
    /\ s.kind = "down" =>
        /\ \A i \in 1..Past(s) : s.all[i].id \notin DOMAIN h
        /\ s.at # "guard" =>
            /\ DOMAIN h \subseteq s.known
            /\ s.target = 0 \/ s.target \in DOMAIN h \/ ~\E j \in DOMAIN h : j > s.target
        /\ s.at = "checked" => Agrees(s.todo[1], h)
        /\ s.at = "open" => s.todo[1].id \in DOMAIN h /\ h[s.todo[1].id] = s.todo[1].sum

Alone(s) == Running(s) /\ ~s.mixed
InOrder ==
    \A c \in Clients : Alone(client[c]) =>
        (\A d \in Clients \ {c} : ~Running(client[d])) /\ Follows(client[c], history)

(* The block a running script is at is the one after those behind it.        *)
LEMMA PastIs ==
    ASSUME Plans, NEW c \in Clients, NEW s \in Sessions, SessionSound(c, s), s.todo # <<>>
    PROVE  /\ Past(s) \in Nat /\ Past(s) + 1 \in 1..Len(s.all) /\ DOMAIN s.all = 1..Len(s.all)
           /\ s.todo[1] = s.all[Past(s) + 1]
           /\ s.kind = "up" =>
                \A i, j \in DOMAIN s.all : i < j => s.all[i].id < s.all[j].id
           /\ s.kind = "down" =>
                /\ \A i, j \in DOMAIN s.all : i < j => s.all[i].id > s.all[j].id
                /\ \A i \in DOMAIN s.all : s.all[i].id \in Above(s.target)
                /\ \A x \in Above(s.target) : \E i \in DOMAIN s.all : s.all[i].id = x
<1>1. Running(s) /\ s.all \in Seq(Blocks) /\ s.todo \in Seq(Blocks) /\ s.kind \in {"up", "down"}
  BY DEF Sessions, Running
<1>2. /\ Len(s.todo) \in Nat \ {0} /\ Len(s.all) \in Nat
      /\ (Len(s.all) - Len(s.todo)) + 1 \in DOMAIN s.all
      /\ s.todo[1] = s.all[(Len(s.all) - Len(s.todo)) + 1]
  BY NextIsSound
<1>3. DOMAIN s.all = 1..Len(s.all) /\ Len(s.todo) <= Len(s.all)
  BY <1>1 DEF SessionSound
<1>4. Past(s) \in Nat /\ Past(s) + 1 \in 1..Len(s.all) /\ s.todo[1] = s.all[Past(s) + 1]
  <2> DEFINE n == Len(s.all)
             m == Len(s.todo)
  <2>1. n \in Nat /\ m \in Nat \ {0} /\ m <= n /\ Past(s) = n - m
    BY <1>2, <1>3 DEF Past
  <2> HIDE DEF n, m
  <2>2. Past(s) \in Nat
    BY <2>1
  <2> QED  BY <1>2, <1>3, <2>2 DEF Past
<1>5. CASE s.kind = "up"
  <2>1. s.all = UpBlocks /\ \A j \in DOMAIN files : files[j].up # Missing
    BY <1>1, <1>5 DEF SessionSound
  <2>2. \A i, j \in DOMAIN s.all : i < j => s.all[i].id < s.all[j].id
    BY <2>1, UpBlocksAre
  <2> QED  BY <1>3, <1>4, <1>5, <2>2
<1>6. CASE s.kind = "down"
  <2> DEFINE bs == DownBlocks(s.target)
  <2>1. /\ s.all = bs
        /\ \A j \in Above(s.target) : files[j].up # Missing /\ files[j].down \notin {Missing, <<>>}
    BY <1>1, <1>6 DEF SessionSound
  <2>2. /\ \A i, j \in DOMAIN bs : i < j => bs[i].id > bs[j].id
        /\ \A i \in DOMAIN bs : bs[i].id \in Above(s.target)
        /\ \A x \in Above(s.target) : \E i \in DOMAIN bs : bs[i].id = x
    BY <2>1, DownBlocksAre
  <2> HIDE DEF bs
  <2> QED  BY <1>3, <1>4, <1>6, <2>1, <2>2
<1> QED
  BY <1>1, <1>5, <1>6

(* When one client takes a step, the others are not alone, and it is only if *)
(* it was.                                                                   *)
LEMMA OneInOrder ==
    ASSUME ScriptsSound, InOrder, NEW c \in Clients, Running(client[c]),
           NEW s \in Sessions \cup {Idle}, Set(c, s),
           Running(s) => s.mixed = client[c].mixed,
           Alone(s) /\ Follows(client[c], history) => Follows(s, history')
    PROVE  InOrder'
<1>1. client'[c] = s /\ \A d \in Clients \ {c} : client'[d] = client[d]
  BY DEF Set, ScriptsSound, DatabaseTyped
<1>2. ASSUME NEW d \in Clients, Alone(client'[d])
      PROVE  (\A e \in Clients \ {d} : ~Running(client'[e])) /\ Follows(client'[d], history')
  <2>1. CASE d = c
    <3>1. Alone(s) /\ Alone(client[c])
      BY <1>1, <1>2, <2>1 DEF Alone
    <3>2. (\A e \in Clients \ {c} : ~Running(client[e])) /\ Follows(client[c], history)
      BY <3>1 DEF InOrder
    <3> QED  BY <1>1, <2>1, <3>1, <3>2
  <2>2. CASE d # c
    <3>1. Alone(client[d])
      BY <1>1, <1>2, <2>2
    <3>2. ~Running(client[c])
      BY <2>2, <3>1 DEF InOrder
    <3> QED  BY <3>2
  <2> QED  BY <2>1, <2>2
<1> QED
  BY <1>2 DEF InOrder, Alone, Running, Follows, Agrees, Past

(* A script that ends leaves the others as they were.                        *)
LEMMA StopInOrder ==
    ASSUME ScriptsSound, InOrder, NEW c \in Clients, client[c].at # "idle", Set(c, Idle)
    PROVE  InOrder'
<1>1. ~Running(Idle)
  BY DEF Running, Idle
<1> QED
  BY <1>1, OneInOrder DEF Alone, Running

(* A script that starts has everything before it; those it meets are mixed.  *)
LEMMA StartsInOrder ==
    ASSUME ScriptsSound, InOrder, NEW c \in Clients, NEW kind, NEW target, NEW blocks, NEW at,
           Starts(c, kind, target, blocks, at), kind \in {"up", "down"}, at # "idle",
           kind = "up" => at = "block", kind = "down" => at = "guard", blocks \in Seq(Blocks)
    PROVE  InOrder'
<1> DEFINE new == Started(kind, target, blocks, at, Mixed(c))
<1>1. client' = [d \in Clients |-> IF d = c THEN new ELSE Meets(client[d])] /\ history' = history
  BY DEF Starts, Started, Meets, database
<1>2. /\ new.at = at /\ new.kind = kind /\ new.all = blocks /\ new.todo = blocks
      /\ new.mixed = Mixed(c)
  BY DEF Started
<1> HIDE DEF new
<1>3. client'[c] = new /\ \A d \in Clients \ {c} : client'[d] = Meets(client[d])
  BY <1>1
<1>4. \A d \in Clients : client[d] \in Sessions \cup {Idle}
  BY DEF ScriptsSound, DatabaseTyped
<1>5. ASSUME NEW d \in Clients \ {c}
      PROVE  ~Alone(client'[d]) /\ (Running(client'[d]) <=> Running(client[d]))
  <2>1. /\ Meets(client[d]).at = client[d].at
        /\ client[d].at # "idle" => Meets(client[d]).mixed
    BY <1>4, MeetsIs
  <2> QED  BY <1>3, <2>1 DEF Alone, Running
<1>6. Past(new) = 0
  <2>1. Len(blocks) \in Nat
    OBVIOUS
  <2> QED  BY <1>2, <2>1 DEF Past
<1>7. ASSUME Alone(new)
      PROVE  (\A d \in Clients \ {c} : ~Running(client'[d])) /\ Follows(new, history')
  <2>1. ~Mixed(c)
    BY <1>2, <1>7 DEF Alone
  <2>2. \A d \in Clients \ {c} : ~Running(client[d])
    BY <2>1 DEF Mixed, Running
  <2>3. Follows(new, history')
    BY <1>2, <1>6 DEF Follows
  <2> QED  BY <1>5, <2>2, <2>3
<1>8. ASSUME NEW d \in Clients, Alone(client'[d])
      PROVE  (\A e \in Clients \ {d} : ~Running(client'[e])) /\ Follows(client'[d], history')
  <2>1. d = c
    BY <1>5, <1>8
  <2> QED  BY <1>3, <1>7, <1>8, <2>1
<1> QED
  BY <1>8 DEF InOrder, Alone, Running, Follows, Agrees, Past

(* Going to the next block, with the history as it is then.                  *)
LEMMA NextInOrder ==
    ASSUME Plans, ScriptsSound, NEW c \in Clients, client[c].at \in {"checked", "open"}, NEW h,
           client[c].kind = "up" =>
               \A i \in 1..Past(client[c]) + 1 :
                   LET block == client[c].all[i]
                   IN  block.id \in DOMAIN h /\ h[block.id] = block.sum,
           client[c].kind = "down" =>
               /\ \A i \in 1..Past(client[c]) + 1 : client[c].all[i].id \notin DOMAIN h
               /\ DOMAIN h \subseteq client[c].known
               /\ \/ client[c].target = 0 \/ client[c].target \in DOMAIN h
                  \/ ~\E j \in DOMAIN h : j > client[c].target
    PROVE  Follows(NextBlock(c), h)
<1> DEFINE s == NextBlock(c)
<1>1. /\ client[c] \in Sessions /\ SessionSound(c, client[c]) /\ Running(client[c])
  BY RunningIs
<1>2. /\ s.at = "block" /\ s.kind = client[c].kind /\ s.target = client[c].target
      /\ s.all = client[c].all /\ s.known = client[c].known
      /\ Len(s.todo) = Len(client[c].todo) - 1
  BY NextBlockIs
<1> HIDE DEF s
<1>3. Past(s) = Past(client[c]) + 1
  <2>1. Len(client[c].todo) \in Nat /\ Len(client[c].all) \in Nat
    BY <1>1 DEF Sessions
  <2> QED  BY <1>2, <2>1 DEF Past
<1> QED
  BY <1>2, <1>3 DEF Follows, s

(* What a downgrade's guard finds is what it needs.                          *)
LEMMA GuardInOrder ==
    ASSUME ScriptsSound, InOrder, NEW c \in Clients, Guard(c)
    PROVE  InOrder'
<1>0. client[c].at = "guard" /\ client[c].at # "idle"
  BY DEF Guard
<1>1. CASE GuardHolds(c)
  <2> DEFINE s == [client[c] EXCEPT !.at = "block"]
  <2>1. client[c] \in Sessions /\ Running(client[c])
    BY <1>0, RunningIs
  <2>2. /\ s \in Sessions /\ s.at = "block" /\ s.kind = client[c].kind
        /\ s.target = client[c].target /\ s.all = client[c].all /\ s.todo = client[c].todo
        /\ s.known = client[c].known /\ s.mixed = client[c].mixed
    BY <2>1 DEF Sessions
  <2>3. Set(c, s) /\ history' = history
    BY <1>0, <1>1 DEF Guard, database
  <2> HIDE DEF s
  <2>4. Follows(client[c], history) => Follows(s, history)
    BY <1>1, <2>2 DEF Follows, Past, GuardHolds, Applied
  <2> QED  BY <2>1, <2>2, <2>3, <2>4, OneInOrder
<1>2. CASE ~GuardHolds(c)
  BY <1>0, <1>2, StopInOrder DEF Guard, Stop, End
<1> QED
  BY <1>1, <1>2

(* A migration that is checked agrees with the history.                      *)
LEMMA CheckSumInOrder ==
    ASSUME ScriptsSound, InOrder, NEW c \in Clients, CheckSum(c)
    PROVE  InOrder'
<1>0. client[c].at = "block" /\ client[c].at # "idle"
  BY DEF CheckSum
<1>1. CASE ~Drifted(c)
  <2> DEFINE s == [client[c] EXCEPT !.at = "checked"]
  <2>1. client[c] \in Sessions /\ Running(client[c])
    BY <1>0, RunningIs
  <2>2. /\ s \in Sessions /\ s.at = "checked" /\ s.kind = client[c].kind
        /\ s.target = client[c].target /\ s.all = client[c].all /\ s.todo = client[c].todo
        /\ s.known = client[c].known /\ s.mixed = client[c].mixed
    BY <2>1 DEF Sessions
  <2>3. Set(c, s) /\ history' = history
    BY <1>0, <1>1 DEF CheckSum, database
  <2> HIDE DEF s
  <2>4. Agrees(s.todo[1], history)
    BY <1>1, <2>2 DEF Drifted, Mine, Agrees, Applied
  <2>5. Follows(client[c], history) => Follows(s, history)
    BY <1>0, <2>2, <2>4 DEF Follows, Past
  <2> QED  BY <2>1, <2>2, <2>3, <2>5, OneInOrder
<1>2. CASE Drifted(c)
  BY <1>0, <1>2, StopInOrder DEF CheckSum, Stop, End
<1> QED
  BY <1>1, <1>2

(* A migration that is passed over is as the script wants it.                *)
LEMMA CheckAppliedInOrder ==
    ASSUME Plans, ScriptsSound, InOrder, NEW c \in Clients, CheckApplied(c)
    PROVE  InOrder'
<1>0. /\ client[c].at = "checked" /\ client[c] \in Sessions /\ Running(client[c])
      /\ SessionSound(c, client[c]) /\ history' = history
  BY RunningIs DEF CheckApplied, database
<1>1. CASE Wanted(c)
  <2> DEFINE s == [client[c] EXCEPT !.at = "open"]
  <2>2. /\ s \in Sessions /\ s.at = "open" /\ s.kind = client[c].kind
        /\ s.target = client[c].target /\ s.all = client[c].all /\ s.todo = client[c].todo
        /\ s.known = client[c].known /\ s.mixed = client[c].mixed
    BY <1>0 DEF Sessions
  <2>3. Set(c, s)
    BY <1>1 DEF CheckApplied
  <2> HIDE DEF s
  <2>4. client[c].kind = "down" => s.todo[1].id \in DOMAIN history
    BY <1>1, <2>2 DEF Wanted, Mine, Applied
  <2>5. Follows(client[c], history) => Follows(s, history)
    BY <1>0, <2>2, <2>4 DEF Follows, Past, Agrees
  <2> QED  BY <1>0, <2>2, <2>3, <2>5, OneInOrder
<1>2. CASE ~Wanted(c)
  <2> DEFINE s == NextBlock(c)
             old == client[c]
  <2>1. s \in Sessions /\ s.mixed = old.mixed
    BY <1>0, NextBlockIs
  <2>2. Set(c, s)
    BY <1>2 DEF CheckApplied
  <2>3. Past(old) \in Nat /\ old.todo[1] = old.all[Past(old) + 1]
    <3>1. old.todo # <<>>
      BY <1>0 DEF SessionSound
    <3> QED  BY <1>0, <3>1, PastIs
  <2>4. ASSUME Follows(old, history)
        PROVE  Follows(s, history)
    <3>1. ASSUME old.kind = "up", NEW i \in 1..Past(old) + 1
          PROVE  old.all[i].id \in DOMAIN history /\ history[old.all[i].id] = old.all[i].sum
      <4>1. CASE i = Past(old) + 1
        <5>1. old.all[i].id \in DOMAIN history /\ Agrees(old.all[i], history)
          BY <1>0, <1>2, <2>3, <2>4, <3>1, <4>1 DEF Follows, Wanted, Mine, Applied
        <5> QED  BY <5>1 DEF Agrees
      <4>2. CASE i # Past(old) + 1
        <5>1. i \in 1..Past(old)
          BY <2>3, <3>1, <4>2
        <5> QED  BY <2>4, <3>1, <5>1 DEF Follows
      <4> QED  BY <4>1, <4>2
    <3>2. ASSUME old.kind = "down", NEW i \in 1..Past(old) + 1
          PROVE  old.all[i].id \notin DOMAIN history
      <4>1. CASE i = Past(old) + 1
        BY <1>2, <2>3, <3>2, <4>1 DEF Wanted, Mine, Applied
      <4>2. CASE i # Past(old) + 1
        <5>1. i \in 1..Past(old)
          BY <2>3, <3>2, <4>2
        <5> QED  BY <2>4, <3>2, <5>1 DEF Follows
      <4> QED  BY <4>1, <4>2
    <3>3. old.kind = "down" =>
            /\ DOMAIN history \subseteq old.known
            /\ \/ old.target = 0 \/ old.target \in DOMAIN history
               \/ ~\E j \in DOMAIN history : j > old.target
      BY <1>0, <2>4 DEF Follows
    <3>4. old.at \in {"checked", "open"}
      BY <1>0
    <3> QED  BY <3>1, <3>2, <3>3, <3>4, NextInOrder
  <2> HIDE DEF s
  <2> QED  BY <1>0, <2>1, <2>2, <2>4, OneInOrder
<1> QED
  BY <1>1, <1>2

(* A statement changes no row.                                               *)
LEMMA ExecuteInOrder ==
    ASSUME Plans, ScriptsSound, InOrder, NEW c \in Clients, ExecuteStatement(c)
    PROVE  InOrder'
<1>0. client[c].at = "open" /\ client[c] \in Sessions /\ Running(client[c])
  BY RunningIs DEF ExecuteStatement, MoreStatements
<1>1. CASE ~Fits(Statement(c))
  BY <1>0, <1>1, StopInOrder DEF ExecuteStatement, Stop, End
<1>2. CASE Fits(Statement(c))
  <2> DEFINE s == Executed(c)
  <2>1. /\ Set(c, s) /\ history' = history /\ Statement(c) \in Statements
    BY <1>2, ExecuteIs
  <2>2. /\ s \in Sessions /\ s.at = "open" /\ s.kind = client[c].kind
        /\ s.target = client[c].target /\ s.all = client[c].all /\ s.todo = client[c].todo
        /\ s.known = client[c].known /\ s.mixed = client[c].mixed
    BY <1>0, <2>1, ExecutedIs
  <2> HIDE DEF s
  <2>3. Follows(client[c], history) => Follows(s, history)
    BY <1>0, <2>2 DEF Follows, Past
  <2> QED  BY <1>0, <2>1, <2>2, <2>3, OneInOrder
<1> QED
  BY <1>1, <1>2

(* A commit adds or takes the row of the migration that was next.            *)
LEMMA RecordInOrder ==
    ASSUME Plans, ScriptsSound, InOrder, NEW c \in Clients, Record(c)
    PROVE  InOrder'
<1>1. CASE client[c].kind = "up" /\ Mine(c).id \in Applied
  BY <1>1, StopInOrder DEF Record, Stop, End
<1>2. CASE ~(client[c].kind = "up" /\ Mine(c).id \in Applied)
  <2> DEFINE s == NextBlock(c)
             old == client[c]
             h == Recorded(c)
  <2>1. Records(c)
    BY <1>2 DEF Records
  <2>2. /\ old \in Sessions /\ old.at = "open" /\ Running(old) /\ SessionSound(c, old)
        /\ old.todo # <<>> /\ Mine(c).id \in Ids /\ Mine(c).sum \in Scripts
        /\ history' = h /\ Set(c, s)
    BY <2>1, RecordIs
  <2>3. s \in Sessions /\ s.mixed = old.mixed
    BY <2>2, NextBlockIs
  <2>4. /\ Past(old) \in Nat /\ Past(old) + 1 \in 1..Len(old.all) /\ DOMAIN old.all = 1..Len(old.all)
        /\ Mine(c) = old.all[Past(old) + 1]
        /\ old.kind = "up" => \A i, j \in DOMAIN old.all : i < j => old.all[i].id < old.all[j].id
        /\ old.kind = "down" => \A i \in DOMAIN old.all : old.all[i].id \in Above(old.target)
    BY <2>2, PastIs DEF Mine
  <2>5. old.kind \in {"up", "down"} /\ old.all \in Seq(Blocks)
    BY <2>2 DEF Sessions
  <2>6. /\ old.kind = "up" =>
             DOMAIN h = Applied \cup {Mine(c).id} /\ h[Mine(c).id] = Mine(c).sum
        /\ old.kind = "down" => DOMAIN h = Applied \ {Mine(c).id}
        /\ \A j \in DOMAIN h \ {Mine(c).id} : h[j] = history[j]
    <3>1. Applied \subseteq Ids /\ history \in [Applied -> Scripts]
      BY DEF ScriptsSound, DatabaseTyped
    <3> QED  BY <2>2, <2>5, <3>1, RecordedIs
  <2> HIDE DEF h
  <2>7. ASSUME Follows(old, history)
        PROVE  Follows(s, h)
    <3>1. ASSUME old.kind = "up", NEW i \in 1..Past(old) + 1
          PROVE  old.all[i].id \in DOMAIN h /\ h[old.all[i].id] = old.all[i].sum
      <4>1. CASE i = Past(old) + 1
        BY <2>4, <2>6, <3>1, <4>1
      <4>2. CASE i # Past(old) + 1
        <5>1. i \in 1..Past(old) /\ i < Past(old) + 1 /\ i \in DOMAIN old.all
              /\ Past(old) + 1 \in DOMAIN old.all
          <6>1. Len(old.all) \in Nat
            BY <2>5
          <6> QED  BY <2>4, <3>1, <4>2, <6>1
        <5>2. old.all[i].id \in DOMAIN history /\ history[old.all[i].id] = old.all[i].sum
          BY <2>7, <3>1, <5>1 DEF Follows
        <5>3. old.all[i].id < Mine(c).id
          BY <2>4, <3>1, <5>1
        <5>4. old.all[i].id # Mine(c).id
          <6>1. old.all[i] \in Blocks
            BY <2>5, <5>1
          <6>2. old.all[i].id \in Nat
            BY <6>1, IdsAssumption DEF Blocks, Ids
          <6> QED  BY <5>3, <6>2
        <5> QED  BY <2>6, <3>1, <5>2, <5>4 DEF Applied
      <4> QED  BY <4>1, <4>2
    <3>2. ASSUME old.kind = "down", NEW i \in 1..Past(old) + 1
          PROVE  old.all[i].id \notin DOMAIN h
      <4>1. CASE i = Past(old) + 1
        BY <2>4, <2>6, <3>2, <4>1
      <4>2. CASE i # Past(old) + 1
        <5>1. i \in 1..Past(old)
          BY <2>4, <3>2, <4>2
        <5>2. old.all[i].id \notin DOMAIN history
          BY <2>7, <3>2, <5>1 DEF Follows
        <5> QED  BY <2>6, <3>2, <5>2 DEF Applied
      <4> QED  BY <4>1, <4>2
    <3>3. ASSUME old.kind = "down"
          PROVE  /\ DOMAIN h \subseteq old.known
                 /\ \/ old.target = 0 \/ old.target \in DOMAIN h
                    \/ ~\E j \in DOMAIN h : j > old.target
      <4>1. /\ DOMAIN history \subseteq old.known
            /\ \/ old.target = 0 \/ old.target \in DOMAIN history
               \/ ~\E j \in DOMAIN history : j > old.target
        BY <2>2, <2>7, <3>3 DEF Follows
      <4>2. DOMAIN h = DOMAIN history \ {Mine(c).id}
        BY <2>6, <3>3 DEF Applied
      <4>3. old.target # Mine(c).id
        <5>1. Mine(c).id > old.target
          BY <2>4, <3>3 DEF Above
        <5>2. Mine(c).id \in Nat /\ old.target \in Nat
          BY <2>2, IdsAssumption DEF Ids, Sessions
        <5> QED  BY <5>1, <5>2
      <4> QED  BY <4>1, <4>2, <4>3
    <3>4. old.at \in {"checked", "open"}
      BY <2>2
    <3> QED  BY <3>1, <3>2, <3>3, <3>4, NextInOrder
  <2> HIDE DEF s
  <2> QED  BY <2>2, <2>3, <2>7, OneInOrder
<1> QED
  BY <1>1, <1>2

(* Scripts that run alone stay in order.                                     *)
LEMMA InOrderStep == Sound /\ InOrder /\ [Next]_vars => InOrder'
<1> SUFFICES ASSUME Plans, ScriptsSound, InOrder, [Next]_vars PROVE InOrder'
  BY DEF Sound
<1>1. CASE UNCHANGED <<client, database>>
  BY <1>1 DEF InOrder, database
<1>2. CASE Develops
  BY <1>1, <1>2, DevelopsApart
<1>3. ASSUME NEW c \in Clients, StartUpdate(c)
      PROVE  InOrder'
  <2>1. Starts(c, "up", 0, UpBlocks, "block") /\ UpBlocks \in Seq(Blocks)
    BY <1>3, UpBlocksAre DEF StartUpdate
  <2> QED  BY <2>1, StartsInOrder
<1>4. ASSUME NEW c \in Clients, StartDowngrade(c)
      PROVE  InOrder'
  <2>1. PICK target \in DOMAIN files \cup {0} :
          /\ \A j \in Above(target) : files[j].up # Missing /\ files[j].down \notin {Missing, <<>>}
          /\ Starts(c, "down", target, DownBlocks(target), "guard")
    BY <1>4 DEF StartDowngrade
  <2>2. DownBlocks(target) \in Seq(Blocks)
    BY <2>1, DownBlocksAre
  <2> QED  BY <2>1, <2>2, StartsInOrder
<1>5. ASSUME NEW c \in Clients, Fails(c) \/ DeadlockVictim(c)
      PROVE  InOrder'
  <2>1. client[c].at # "idle" /\ Set(c, Idle)
    BY <1>5 DEF Fails, DeadlockVictim, Waits, MoreStatements, Stop, End
  <2> QED  BY <2>1, StopInOrder
<1>6. ASSUME NEW c \in Clients, Finish(c)
      PROVE  InOrder'
  <2>1. client[c].at # "idle" /\ Set(c, Idle)
    BY <1>6 DEF Finish, End
  <2> QED  BY <2>1, StopInOrder
<1>7. ASSUME NEW c \in Clients, ScriptStep(c)
      PROVE  InOrder'
  BY <1>5, <1>6, <1>7, GuardInOrder, CheckSumInOrder, CheckAppliedInOrder, ExecuteInOrder,
     RecordInOrder DEF ScriptStep
<1>8. CASE UNCHANGED vars
  BY <1>1, <1>8 DEF vars, database
<1> QED
  BY <1>2, <1>3, <1>4, <1>5, <1>7, <1>8 DEF Next, Develops

(* Only a row written or taken out is a run that takes effect, and it is the *)
(* step of the client whose script it is.                                    *)
LEMMA CommitsIs ==
    ASSUME Plans, ScriptsSound, [Next]_vars, NEW c \in Clients, NEW kind, Commits(c, kind)
    PROVE  Records(c) /\ client[c].kind = kind /\ ~client[c].mixed
<1>1. ran' # ran /\ ran'[Len(ran')].by = c /\ client[c].kind = kind /\ ~client[c].mixed
  BY DEF Commits
<1>2. ~Develops
  BY <1>1, DevelopsApart DEF database
<1>3. PICK d \in Clients : StartUpdate(d) \/ StartDowngrade(d) \/ ScriptStep(d) \/ Fails(d)
  BY <1>1, <1>2 DEF Next, Develops, vars
<1>4. Records(d)
  BY <1>1, <1>3 DEF StartUpdate, StartDowngrade, Starts, ScriptStep, DeadlockVictim, Fails, Stop,
     Guard, CheckSum, CheckApplied, ExecuteStatement, Record, Records, Finish, database
<1>5. ran' = Append(ran, Row(d)) /\ ran \in Seq(Runs) /\ Row(d) \in Runs
  BY <1>4, RecordIs DEF ScriptsSound, DatabaseTyped
<1>6. ran'[Len(ran')] = Row(d)
  BY <1>5
<1>7. c = d
  BY <1>1, <1>6 DEF Row
<1> QED
  BY <1>1, <1>4, <1>7

(* An update that commits has every earlier migration behind it.             *)
LEMMA UpdateFollows ==
    ASSUME Plans, ScriptsSound, InOrder, [Next]_vars, NEW c \in Clients, Commits(c, "up"),
           NEW i \in DOMAIN client[c].all, client[c].all[i].id < Mine(c).id
    PROVE  /\ client[c].all[i].id \in Applied
           /\ history[client[c].all[i].id] = client[c].all[i].sum
<1>1. Records(c) /\ client[c].kind = "up" /\ ~client[c].mixed
  BY CommitsIs
<1>2. /\ client[c] \in Sessions /\ Running(client[c]) /\ SessionSound(c, client[c])
      /\ client[c].todo # <<>>
  BY <1>1, RecordIs
<1>3. Follows(client[c], history)
  BY <1>1, <1>2 DEF InOrder, Alone
<1>4. /\ Past(client[c]) \in Nat /\ Past(client[c]) + 1 \in DOMAIN client[c].all
      /\ DOMAIN client[c].all = 1..Len(client[c].all)
      /\ Mine(c) = client[c].all[Past(client[c]) + 1]
      /\ \A k, j \in DOMAIN client[c].all : k < j => client[c].all[k].id < client[c].all[j].id
  BY <1>1, <1>2, PastIs DEF Mine
<1>5. client[c].all[i].id \in Nat /\ Mine(c).id \in Nat /\ i \in Nat
  <2>1. client[c].all \in Seq(Blocks)
    BY <1>2 DEF Sessions
  <2>2. client[c].all[i] \in Blocks /\ Mine(c) \in Blocks
    BY <1>4, <2>1
  <2> QED  BY <1>4, <2>2, IdsAssumption DEF Blocks, Ids
<1>6. i \in 1..Past(client[c])
  <2>1. ~(Past(client[c]) + 1 < i) /\ i # Past(client[c]) + 1
    BY <1>4, <1>5, SMTT(20)
  <2> QED  BY <1>4, <1>5, <2>1
<1> QED
  BY <1>1, <1>3, <1>6 DEF Follows, Applied

(* A downgrade that commits takes the last applied migration above its       *)
(* target.                                                                   *)
LEMMA DowngradeFollows ==
    ASSUME Plans, ScriptsSound, InOrder, [Next]_vars, NEW c \in Clients, Commits(c, "down")
    PROVE  /\ Mine(c).id = Max(Applied)
           /\ Mine(c).id > client[c].target
           /\ client[c].target = 0 \/ client[c].target \in Applied
           /\ Applied \subseteq client[c].known
           /\ history[Mine(c).id] = Mine(c).sum
<1> DEFINE s == client[c]
<1>1. Records(c) /\ s.kind = "down" /\ ~s.mixed
  BY CommitsIs
<1>2. /\ s \in Sessions /\ Running(s) /\ SessionSound(c, s) /\ s.at = "open"
      /\ s.todo # <<>> /\ Mine(c).id \in Ids
  BY <1>1, RecordIs
<1>3. Follows(s, history)
  BY <1>1, <1>2 DEF InOrder, Alone
<1>4. /\ Past(s) \in Nat /\ Past(s) + 1 \in DOMAIN s.all /\ DOMAIN s.all = 1..Len(s.all)
      /\ Mine(c) = s.all[Past(s) + 1]
      /\ \A i, j \in DOMAIN s.all : i < j => s.all[i].id > s.all[j].id
      /\ \A i \in DOMAIN s.all : s.all[i].id \in Above(s.target)
      /\ \A x \in Above(s.target) : \E i \in DOMAIN s.all : s.all[i].id = x
  BY <1>1, <1>2, PastIs DEF Mine
<1>5. /\ Applied \subseteq s.known /\ s.known = DOMAIN files
      /\ s.target = 0 \/ s.target \in Applied \/ ~\E j \in Applied : j > s.target
      /\ Mine(c).id \in Applied /\ history[Mine(c).id] = Mine(c).sum
      /\ \A i \in 1..Past(s) : s.all[i].id \notin Applied
  BY <1>1, <1>2, <1>3 DEF Follows, Applied, SessionSound, Mine
<1>6. Mine(c).id > s.target
  BY <1>4 DEF Above
<1>7. Applied \subseteq Nat /\ s.target \in Nat
  BY <1>2, IdsAssumption DEF ScriptsSound, DatabaseTyped, Ids, Sessions
<1> HIDE DEF s
<1>8. ASSUME NEW x \in Applied
      PROVE  x <= Mine(c).id
  <2>0. x \in Nat /\ Mine(c).id \in Nat /\ s.target \in Nat
    BY <1>5, <1>7
  <2> SUFFICES ASSUME x > Mine(c).id PROVE FALSE
    BY <2>0
  <2>1. x \in Above(s.target)
    <3>1. x > s.target
      BY <1>6, <2>0
    <3> QED  BY <1>5, <3>1 DEF Above
  <2>2. PICK i \in DOMAIN s.all : s.all[i].id = x
    BY <1>4, <2>1
  <2>3. i \notin 1..Past(s)
    BY <1>5, <2>2
  <2>4. i # Past(s) + 1
    BY <1>4, <2>0, <2>2
  <2>5. ~(Past(s) + 1 < i)
    <3> SUFFICES ASSUME Past(s) + 1 < i PROVE FALSE
      OBVIOUS
    <3>1. s.all[Past(s) + 1].id > s.all[i].id
      BY <1>4, <2>2
    <3> QED  BY <1>4, <2>0, <2>2, <3>1, SMTT(20)
  <2>6. i \in Nat \ {0}
    <3>1. s.all \in Seq(Blocks)
      BY <1>2 DEF s, Sessions
    <3>2. Len(s.all) \in Nat
      BY <3>1
    <3> QED  BY <1>4, <2>2, <3>2
  <2> QED  BY <1>4, <2>3, <2>4, <2>5, <2>6
<1>9. Max(Applied) = Mine(c).id
  BY <1>5, <1>7, <1>8, LargestIsOnly
<1> QED
  BY <1>5, <1>6, <1>9 DEF s

(* An update that runs alone applies a migration only when all the earlier   *)
(* ones are applied as they are on disk; a downgrade that runs alone takes   *)
(* back the latest applied migration, as it is on disk, down to a target     *)
(* that stays: whatever scripts ran before, failed or were killed.           *)
THEOREM ScriptsRunInOrder == Spec => ScriptsInOrder
<1>1. Init => InOrder
  BY DEF Init, InOrder, Alone, Running, Idle
<1>2. Sound /\ InOrder /\ [Next]_vars =>
        [\A c \in Clients : Commits(c, "up") =>
            \A i \in DOMAIN client[c].all :
                LET earlier == client[c].all[i]
                IN  earlier.id < Mine(c).id =>
                        earlier.id \in Applied /\ history[earlier.id] = earlier.sum]_vars
  BY UpdateFollows DEF Sound
<1>3. Sound /\ InOrder /\ [Next]_vars =>
        [\A c \in Clients : Commits(c, "down") =>
            /\ Mine(c).id = Max(Applied)
            /\ Mine(c).id > client[c].target
            /\ client[c].target = 0 \/ client[c].target \in Applied
            /\ Applied \subseteq client[c].known
            /\ history[Mine(c).id] = Mine(c).sum]_vars
  BY DowngradeFollows DEF Sound
<1> QED
  BY <1>1, <1>2, <1>3, AlwaysSound, InOrderStep, PTL
     DEF Spec, ScriptsInOrder, UpdateInOrder, DowngradeFromTop

-----------------------------------------------------------------------------
(* The database once every open transaction is rolled back *)

(* Some open transaction has touched the object.                             *)
Held(cl, o) == \E d \in Clients : \E u \in cl[d].touched : u.object = o

(* An object is touched by one open transaction, once.                       *)
LEMMA TouchedOnce ==
    ASSUME Sound, NEW c \in Clients, NEW d \in Clients,
           NEW u \in client[c].touched, NEW v \in client[d].touched, u.object = v.object
    PROVE  u = v /\ client[c].at = "open" /\ u.object \in Objects /\ u.was \in BOOLEAN
<1>0. Plans /\ ScriptsSound
  BY DEF Sound
<1>1. c = d
  BY <1>0 DEF ScriptsSound, LocksApart, Apart
<1>2. client[c].at = "open"
  BY <1>0 DEF ScriptsSound, TouchedSound
<1>3. /\ client[c] \in Sessions /\ SessionSound(c, client[c]) /\ TouchedSound(client[c], objects)
      /\ Running(client[c])
  BY <1>0, <1>2, RunningIs
<1>4. client[c].todo # <<>> /\ client[c].next \in 1..Len(Mine(c).body) + 1
  BY <1>2, <1>3 DEF SessionSound, Mine
<1>5. BlockSound(client[c].kind, Mine(c))
  BY <1>0, <1>3, <1>4, NextIsSound DEF Mine
<1> DEFINE body == Mine(c).body
<1>6. body \in Seq(Statements) /\ Single(body)
  BY <1>5 DEF BlockSound, Blocks, Bodies
<1>7. client[c].touched = {Touch(body[i]) : i \in Done(client[c])}
  BY <1>2, <1>3 DEF TouchedSound, Mine
<1>8. Done(client[c]) \subseteq DOMAIN body
  <2>1. DOMAIN body = 1..Len(body) /\ Len(body) \in Nat
    BY <1>6
  <2> HIDE DEF body
  <2> QED  BY <1>4, <2>1 DEF Done, body
<1> HIDE DEF body
<1>9. PICK i \in Done(client[c]) : u = Touch(body[i])
  BY <1>7
<1>10. PICK j \in Done(client[c]) : v = Touch(body[j])
  BY <1>1, <1>7
<1>11. u.object = body[i].object /\ v.object = body[j].object
  BY <1>9, <1>10 DEF Touch
<1>12. i = j
  BY <1>6, <1>8, <1>11 DEF Single
<1>13. u \in Touches
  BY <1>3 DEF Sessions
<1> QED
  BY <1>2, <1>9, <1>10, <1>12, <1>13 DEF Touches

(* What is touched is committed as it was before, the rest as it is.         *)
LEMMA CommittedIs ==
    Sound => /\ Committed \subseteq Objects
             /\ \A c \in Clients : \A u \in client[c].touched :
                    u.object \in Objects /\ (u.object \in Committed <=> u.was)
             /\ \A o \in Objects : ~Held(client, o) => (o \in Committed <=> o \in objects)
<1> SUFFICES ASSUME Sound
             PROVE  /\ Committed \subseteq Objects
                    /\ \A c \in Clients : \A u \in client[c].touched :
                           u.object \in Objects /\ (u.object \in Committed <=> u.was)
                    /\ \A o \in Objects : ~Held(client, o) => (o \in Committed <=> o \in objects)
  OBVIOUS
<1> DEFINE Open == {d \in Clients : client[d].at = "open"}
           On(o) == {s \in UNION {client[c].touched : c \in Open} : s.object = o}
<1>1. /\ Committed \subseteq Objects
      /\ \A o \in Objects : On(o) = {} => (o \in Committed <=> o \in objects)
      /\ \A o \in Objects : On(o) # {} => (o \in Committed <=> (CHOOSE s \in On(o) : TRUE).was)
  BY DEF Committed
<1>2. ASSUME NEW o \in Objects, ~Held(client, o)
      PROVE  On(o) = {}
  BY <1>2 DEF Held
<1>3. ASSUME NEW c \in Clients, NEW u \in client[c].touched
      PROVE  u.object \in Objects /\ (u.object \in Committed <=> u.was)
  <2>1. u.object \in Objects /\ client[c].at = "open"
    BY <1>3, TouchedOnce
  <2>2. u \in On(u.object)
    BY <2>1
  <2>3. ASSUME NEW v \in On(u.object)
        PROVE  v = u
    <3>1. PICK d \in Clients : v \in client[d].touched
      OBVIOUS
    <3>2. v.object = u.object
      OBVIOUS
    <3> QED  BY <3>1, <3>2, TouchedOnce
  <2> HIDE DEF On
  <2>4. (CHOOSE s \in On(u.object) : TRUE) = u
    BY <2>2, <2>3
  <2> QED  BY <1>1, <2>1, <2>2, <2>4, Zenon
<1> QED
  <2>1. \A o \in Objects : ~Held(client, o) => (o \in Committed <=> o \in objects)
    <3> HIDE DEF On
    <3> QED  BY <1>1, <1>2
  <2> QED  BY <1>1, <1>3, <2>1

(* The same, as a state function.                                            *)
CommittedSound ==
    /\ Committed \subseteq Objects
    /\ \A c \in Clients : \A u \in client[c].touched :
           u.object \in Objects /\ (u.object \in Committed <=> u.was)
    /\ \A o \in Objects : ~Held(client, o) => (o \in Committed <=> o \in objects)

(* It holds in every sound state.                                            *)
LEMMA CommittedStaysSound == Sound => CommittedSound
  BY CommittedIs DEF CommittedSound

(* So it does after a step.                                                  *)
LEMMA CommittedIsNext ==
    Sound' => /\ Committed' \subseteq Objects
              /\ \A c \in Clients : \A u \in client'[c].touched :
                     u.object \in Objects /\ (u.object \in Committed' <=> u.was)
              /\ \A o \in Objects : ~Held(client', o) => (o \in Committed' <=> o \in objects')
<1>1. Sound' => CommittedSound'
  BY CommittedStaysSound, PTL
<1> QED
  BY <1>1 DEF CommittedSound, Held

(* A step that changes neither database nor locks changes nothing committed. *)
LEMMA CommittedStays ==
    ASSUME Sound, Sound', objects' = objects,
           \A d \in Clients : client'[d].touched = client[d].touched
    PROVE  Committed' = Committed
<1>1. \A o \in Objects : Held(client', o) <=> Held(client, o)
  BY DEF Held
<1>2. ASSUME NEW o \in Objects
      PROVE  o \in Committed' <=> o \in Committed
  <2>1. CASE Held(client, o)
    <3>1. PICK d \in Clients : \E u \in client[d].touched : u.object = o
      BY <2>1 DEF Held
    <3>2. PICK u \in client[d].touched : u.object = o
      BY <3>1
    <3>3. u \in client'[d].touched
      OBVIOUS
    <3>4. (o \in Committed <=> u.was) /\ (o \in Committed' <=> u.was)
      BY <3>2, <3>3, CommittedIs, CommittedIsNext
    <3> QED  BY <3>4
  <2>2. CASE ~Held(client, o)
    BY <1>1, <2>2, CommittedIs, CommittedIsNext
  <2> QED  BY <2>1, <2>2
<1> QED
  BY <1>2, CommittedIs, CommittedIsNext

(* Nothing that a script that ends has not committed stays.                  *)
LEMMA StopCommits ==
    ASSUME Sound, Sound', NEW c \in Clients, Stop(c)
    PROVE  Committed' = Committed
<1>1. objects' = Undone(c) /\ client' = [client EXCEPT ![c] = Idle]
  BY DEF Stop, End, Set
<1>2. client'[c].touched = {} /\ \A d \in Clients \ {c} : client'[d] = client[d]
  <2>1. client \in [Clients -> Sessions \cup {Idle}]
    BY DEF Sound, ScriptsSound, DatabaseTyped
  <2> QED  BY <1>1, <2>1 DEF Idle
<1>3. ASSUME NEW o \in Objects
      PROVE  o \in Committed' <=> o \in Committed
  <2>1. CASE \E u \in client[c].touched : u.object = o
    <3>1. PICK u \in client[c].touched : u.object = o
      BY <2>1
    <3>2. (CHOOSE s \in client[c].touched : s.object = o) = u
      <4>1. \A v \in client[c].touched : v.object = o => v = u
        BY <3>1, TouchedOnce
      <4> QED  BY <3>1, <4>1
    <3>3. o \in objects' <=> u.was
      BY <1>1, <2>1, <3>2 DEF Undone
    <3>4. ~Held(client', o)
      <4>1. \A d \in Clients \ {c} : \A v \in client[d].touched : v.object # o
        BY <3>1 DEF Sound, ScriptsSound, LocksApart, Apart
      <4> QED  BY <1>2, <4>1 DEF Held
    <3>5. (o \in Committed <=> u.was) /\ (o \in Committed' <=> o \in objects')
      BY <3>1, <3>4, CommittedIs, CommittedIsNext
    <3> QED  BY <3>3, <3>5
  <2>2. CASE ~\E u \in client[c].touched : u.object = o
    <3>1. o \in objects' <=> o \in objects
      BY <1>1, <2>2 DEF Undone
    <3>2. CASE Held(client, o)
      <4>1. PICK d \in Clients : \E u \in client[d].touched : u.object = o
        BY <3>2 DEF Held
      <4>2. PICK u \in client[d].touched : u.object = o
        BY <4>1
      <4>3. u \in client'[d].touched
        BY <1>2, <2>2, <4>2
      <4>4. (o \in Committed <=> u.was) /\ (o \in Committed' <=> u.was)
        BY <4>2, <4>3, CommittedIs, CommittedIsNext
      <4> QED  BY <4>4
    <3>3. CASE ~Held(client, o)
      <4>1. ~Held(client', o)
        BY <1>2, <3>3 DEF Held
      <4>2. (o \in Committed <=> o \in objects) /\ (o \in Committed' <=> o \in objects')
        BY <3>3, <4>1, CommittedIs, CommittedIsNext
      <4> QED  BY <3>1, <4>2
    <3> QED  BY <3>2, <3>3
  <2> QED  BY <2>1, <2>2
<1> QED
  BY <1>3, CommittedIs, CommittedIsNext

(* What an open transaction does is not committed yet.                       *)
LEMMA ExecuteCommits ==
    ASSUME Sound, Sound', NEW c \in Clients, ExecuteStatement(c)
    PROVE  Committed' = Committed
<1>1. CASE ~Fits(Statement(c))
  BY <1>1, StopCommits DEF ExecuteStatement
<1>2. CASE Fits(Statement(c))
  <2> DEFINE s == Statement(c)
             more == client[c].touched \cup {Touch(s)}
  <2>0. Plans /\ ScriptsSound
    BY DEF Sound
  <2>1. /\ client[c].at = "open" /\ s \in Statements
        /\ \A d \in Clients : \A u \in client[d].touched : u.object # s.object
        /\ Set(c, Executed(c))
        /\ s.create => objects' = objects \cup {s.object}
        /\ ~s.create => objects' = objects \ {s.object}
    BY <1>2, <2>0, ExecuteIs
  <2>2. (s.create <=> s.object \notin objects) /\ s.object \in Objects /\ s.create \in BOOLEAN
    BY <1>2, <2>1 DEF Fits, Statements
  <2>3. Touch(s).object = s.object /\ Touch(s).was = ~s.create
    BY DEF Touch
  <2> HIDE DEF s, more
  <2>4. /\ client'[c].touched = more
        /\ \A d \in Clients \ {c} : client'[d] = client[d]
    <3>1. client[c] \in Sessions /\ client \in [Clients -> Sessions \cup {Idle}]
      BY <2>0, <2>1, RunningIs DEF ScriptsSound, DatabaseTyped
    <3>2. Executed(c).touched = more
      BY <2>1, <3>1, ExecutedIs DEF s, more
    <3> QED  BY <2>1, <3>1, <3>2 DEF Set
  <2>5. ASSUME NEW o \in Objects
        PROVE  o \in Committed' <=> o \in Committed
    <3>1. CASE o = s.object
      <4>1. ~Held(client, o)
        BY <2>1, <3>1 DEF Held
      <4>2. Touch(s) \in client'[c].touched
        BY <2>4 DEF more
      <4>3. (o \in Committed <=> o \in objects) /\ (o \in Committed' <=> Touch(s).was)
        BY <2>3, <3>1, <4>1, <4>2, CommittedIs, CommittedIsNext
      <4> QED  BY <2>2, <2>3, <3>1, <4>3
    <3>2. CASE o # s.object /\ Held(client, o)
      <4>1. PICK d \in Clients : \E u \in client[d].touched : u.object = o
        BY <3>2 DEF Held
      <4>2. PICK u \in client[d].touched : u.object = o
        BY <4>1
      <4>3. u \in client'[d].touched
        BY <2>4, <4>2 DEF more
      <4>4. (o \in Committed <=> u.was) /\ (o \in Committed' <=> u.was)
        BY <4>2, <4>3, CommittedIs, CommittedIsNext
      <4> QED  BY <4>4
    <3>3. CASE o # s.object /\ ~Held(client, o)
      <4>1. ~Held(client', o)
        BY <2>3, <2>4, <3>3 DEF Held, more
      <4>2. (o \in Committed <=> o \in objects) /\ (o \in Committed' <=> o \in objects')
        BY <3>3, <4>1, CommittedIs, CommittedIsNext
      <4> QED  BY <2>1, <3>3, <4>2
    <3> QED  BY <3>1, <3>2, <3>3
  <2> QED  BY <2>5, CommittedIs, CommittedIsNext
<1> QED
  BY <1>1, <1>2

(* A commit makes what its body creates and takes what it drops: nothing of  *)
(* the first was there, all of the second was.                               *)
LEMMA RecordCommits ==
    ASSUME Sound, Sound', NEW c \in Clients, Records(c)
    PROVE  LET body == Mine(c).body IN
           /\ Committed' = (Committed \cup Creates(body)) \ Drops(body)
           /\ Creates(body) \cap Committed = {} /\ Drops(body) \subseteq Committed
           /\ Creates(body) \cap Drops(body) = {}
<1> DEFINE body == Mine(c).body
<1>0. Plans /\ ScriptsSound
  BY DEF Sound
<1>1. /\ client[c] \in Sessions /\ client[c].at = "open" /\ TouchedSound(client[c], objects)
      /\ client[c].next = Len(body) + 1 /\ body \in Bodies /\ Single(body)
      /\ Set(c, NextBlock(c)) /\ objects' = objects
  BY <1>0, RecordIs
<1>2. NextBlock(c).touched = {}
  BY <1>0, <1>1, NextBlockIs
<1>3. client'[c].touched = {} /\ \A d \in Clients \ {c} : client'[d] = client[d]
  <2>1. client \in [Clients -> Sessions \cup {Idle}]
    BY <1>0 DEF ScriptsSound, DatabaseTyped
  <2> QED  BY <1>1, <1>2, <2>1 DEF Set
<1>4. DOMAIN body = 1..Len(body) /\ Len(body) \in Nat /\ \A i \in DOMAIN body : body[i] \in Statements
  BY <1>1 DEF Bodies
<1>5. /\ client[c].touched = {Touch(body[i]) : i \in Done(client[c])}
      /\ \A i \in Done(client[c]) : body[i].object \in objects <=> body[i].create
  BY <1>1 DEF TouchedSound, Mine
<1> HIDE DEF body
<1>6. Done(client[c]) = DOMAIN body
  BY <1>1, <1>4 DEF Done
<1>7. ASSUME NEW i \in DOMAIN body
      PROVE  /\ body[i].object \in Objects
             /\ body[i].object \in Committed <=> ~body[i].create
             /\ body[i].object \in Committed' <=> body[i].create
             /\ Touch(body[i]) \in client[c].touched
  <2> DEFINE u == Touch(body[i])
  <2>1. u \in client[c].touched /\ u.object = body[i].object /\ u.was = ~body[i].create
    BY <1>5, <1>6 DEF Touch
  <2>2. body[i].object \in Objects
    BY <1>4 DEF Statements
  <2> HIDE DEF u
  <2>3. body[i].object \in Committed <=> ~body[i].create
    BY <2>1, CommittedIs
  <2>4. ~Held(client', body[i].object)
    <3>1. \A d \in Clients \ {c} : \A v \in client[d].touched : v.object # body[i].object
      BY <1>0, <2>1 DEF ScriptsSound, LocksApart, Apart
    <3> QED  BY <1>3, <3>1 DEF Held
  <2>5. body[i].object \in Committed' <=> body[i].object \in objects
    BY <1>1, <2>2, <2>4, CommittedIsNext
  <2>6. body[i].object \in objects <=> body[i].create
    BY <1>5, <1>6
  <2>7. body[i].object \in Committed' <=> body[i].create
    BY <2>5, <2>6, Zenon
  <2> QED  BY <2>1, <2>2, <2>3, <2>7 DEF u
<1>8. ASSUME NEW o \in Objects, o \notin Creates(body), o \notin Drops(body)
      PROVE  o \in Committed' <=> o \in Committed
  <2>1. \A u \in client[c].touched : u.object # o
    <3> SUFFICES ASSUME NEW i \in DOMAIN body PROVE Touch(body[i]).object # o
      BY <1>5, <1>6
    <3>1. body[i].object # o
      BY <1>8, CreatesDrops
    <3> QED  BY <3>1 DEF Touch
  <2>2. CASE Held(client, o)
    <3>1. PICK d \in Clients : \E u \in client[d].touched : u.object = o
      BY <2>2 DEF Held
    <3>2. PICK u \in client[d].touched : u.object = o
      BY <3>1
    <3>3. u \in client'[d].touched
      BY <1>3, <2>1, <3>2
    <3>4. (o \in Committed <=> u.was) /\ (o \in Committed' <=> u.was)
      BY <3>2, <3>3, CommittedIs, CommittedIsNext
    <3> QED  BY <3>4
  <2>3. CASE ~Held(client, o)
    <3>1. ~Held(client', o)
      BY <1>3, <2>3 DEF Held
    <3> QED  BY <1>1, <2>3, <3>1, CommittedIs, CommittedIsNext
  <2> QED  BY <2>2, <2>3
<1>9. ASSUME NEW o \in Creates(body)
      PROVE  o \in Objects /\ o \notin Committed /\ o \in Committed'
  <2>1. PICK i \in DOMAIN body : body[i].create /\ body[i].object = o
    BY CreatesDrops
  <2> QED  BY <1>7, <2>1
<1>10. ASSUME NEW o \in Drops(body)
       PROVE  o \in Objects /\ o \in Committed /\ o \notin Committed'
  <2>1. PICK i \in DOMAIN body : ~body[i].create /\ body[i].object = o
    BY CreatesDrops
  <2> QED  BY <1>7, <2>1
<1>11. Committed' = (Committed \cup Creates(body)) \ Drops(body)
  BY <1>8, <1>9, <1>10, CommittedIs, CommittedIsNext
<1> QED
  BY <1>9, <1>10, <1>11 DEF body

-----------------------------------------------------------------------------
(* What the scripts that committed add up to *)

(* The runs are a sequence of runs.                                          *)
LEMMA RunsTyped ==
    ASSUME Sound
    PROVE  /\ ran \in Seq(Runs) /\ DOMAIN ran = 1..Len(ran) /\ Len(ran) \in Nat
           /\ \A i \in DOMAIN ran : Single(ran[i].body)
  BY DEF Sound, ScriptsSound, DatabaseTyped

(* One run more.                                                             *)
LEMMA AppendIs ==
    ASSUME Sound, NEW row \in Runs, ran' = Append(ran, row)
    PROVE  /\ DOMAIN ran' = DOMAIN ran \cup {Len(ran) + 1} /\ Len(ran') = Len(ran) + 1
           /\ ran'[Len(ran) + 1] = row /\ \A i \in DOMAIN ran : ran'[i] = ran[i]
  BY RunsTyped

(* Of the runs that say something of an object only the last one counts.     *)
LEMMA ReplayIs ==
    ASSUME Sound, NEW c \in Clients, Records(c)
    PROVE  LET body == Mine(c).body IN
           Replay' = (Replay \cup Creates(body)) \ Drops(body)
<1> DEFINE body == Mine(c).body
           n == Len(ran) + 1
           row == Row(c)
<1>0. Plans /\ ScriptsSound
  BY DEF Sound
<1>1. /\ row \in Runs /\ ran' = Append(ran, row) /\ body \in Bodies /\ Single(body)
      /\ row.body = body
  BY <1>0, RecordIs DEF Row
<1>2. /\ DOMAIN ran' = DOMAIN ran \cup {n} /\ ran'[n] = row
      /\ \A i \in DOMAIN ran : ran'[i] = ran[i]
      /\ DOMAIN ran = 1..Len(ran) /\ Len(ran) \in Nat
  BY <1>1, AppendIs, RunsTyped
<1>3. /\ \A i \in DOMAIN body : body[i] \in Statements
      /\ DOMAIN body = 1..Len(body) /\ Len(body) \in Nat
  BY <1>1 DEF Bodies
<1> HIDE DEF body, row
<1>4. n \in Nat /\ n \notin DOMAIN ran /\ \A i \in DOMAIN ran : i < n /\ i \in Nat
  BY <1>2
<1> HIDE DEF n
<1> DEFINE Touching(o) == {i \in DOMAIN ran' : About(ran'[i].body, o) # {}}
           Shows(o) == LET last == ran'[Max(Touching(o))].body
                       IN  last[Max(About(last, o))].create
<1>5. Replay' = {o \in Objects : Touching(o) # {} /\ Shows(o)}
  BY DEF Replay, RunsAbout
<1>6. ASSUME NEW o \in Objects, About(body, o) = {}
      PROVE  o \in Replay' <=> o \in Replay
  <2>1. Touching(o) = RunsAbout(o)
    BY <1>1, <1>2, <1>6 DEF RunsAbout
  <2>2. ASSUME RunsAbout(o) # {}
        PROVE  ran'[Max(RunsAbout(o))] = ran[Max(RunsAbout(o))]
    <3>1. Max(RunsAbout(o)) \in RunsAbout(o)
      <4>1. RunsAbout(o) \subseteq Nat /\ \A i \in RunsAbout(o) : i <= Len(ran)
        BY <1>2 DEF RunsAbout
      <4> QED  BY <1>2, <2>2, <4>1, LargestIs
    <3> QED  BY <1>2, <3>1 DEF RunsAbout
  <2> QED  BY <1>5, <2>1, <2>2 DEF Replay
<1>7. ASSUME NEW i \in DOMAIN body
      PROVE  body[i].object \in Objects /\ (body[i].object \in Replay' <=> body[i].create)
  <2> DEFINE o == body[i].object
  <2>1. o \in Objects /\ body[i].create \in BOOLEAN
    BY <1>3 DEF Statements
  <2>2. About(body, o) = {i}
    BY <1>1 DEF About, Single
  <2>3. Max(About(body, o)) = i
    <3>1. About(body, o) \subseteq Nat /\ i \in About(body, o) /\ \A k \in About(body, o) : k <= i
      BY <1>3, <2>2
    <3> HIDE DEF o
    <3> QED  BY <3>1, LargestIsOnly
  <2> HIDE DEF o
  <2>4. n \in Touching(o)
    BY <1>1, <1>2, <2>2
  <2>5. Max(Touching(o)) = n
    <3>1. Touching(o) \subseteq Nat /\ \A m \in Touching(o) : m <= n
      BY <1>2, <1>4
    <3> QED  BY <2>4, <3>1, LargestIsOnly, Zenon
  <2>6. Shows(o) = body[i].create
    BY <1>1, <1>2, <2>3, <2>5, Zenon
  <2> HIDE DEF Touching, Shows
  <2>7. o \in Replay' <=> Shows(o)
    BY <1>5, <2>1, <2>4
  <2>8. o \in Replay' <=> body[i].create
    BY <2>6, <2>7, Zenon
  <2> QED  BY <2>1, <2>8 DEF o
<1> HIDE DEF Touching, Shows
<1>8. ASSUME NEW o \in Objects, o \notin Creates(body), o \notin Drops(body)
      PROVE  About(body, o) = {}
  <2>1. \A i \in DOMAIN body : body[i].object # o
    BY <1>8, CreatesDrops
  <2> QED  BY <2>1 DEF About
<1>9. ASSUME NEW o \in Creates(body)
      PROVE  o \in Replay' /\ o \notin Drops(body)
  <2>1. PICK i \in DOMAIN body : body[i].create /\ body[i].object = o
    BY CreatesDrops
  <2>2. o \in Replay'
    BY <1>7, <2>1
  <2>3. ASSUME o \in Drops(body) PROVE FALSE
    <3>1. PICK j \in DOMAIN body : ~body[j].create /\ body[j].object = o
      BY <2>3, CreatesDrops
    <3> QED  BY <1>1, <2>1, <3>1 DEF Single
  <2> QED  BY <2>2, <2>3
<1>10. ASSUME NEW o \in Drops(body)
       PROVE  o \notin Replay'
  <2>1. PICK i \in DOMAIN body : ~body[i].create /\ body[i].object = o
    BY CreatesDrops
  <2> QED  BY <1>7, <2>1
<1>11. Replay \subseteq Objects /\ Replay' \subseteq Objects
  BY <1>5 DEF Replay
<1>12. Creates(body) \subseteq Objects
  BY <1>9, <1>11
<1> QED
  BY <1>6, <1>8, <1>9, <1>10, <1>11, <1>12 DEF body

(* A run that is added is the last of its migration's, and of no other's.    *)
Effect(r, id, n) ==
    LET runs == {i \in 1..n : r[i].id = id}
    IN  runs # {} /\ r[Max(runs)].kind = "up"

(* Whether a migration is in effect after a run more.                        *)
LEMMA EffectIs ==
    ASSUME NEW r \in Seq(Runs), NEW row \in Runs, NEW id, NEW n \in 0..Len(r) + 1
    PROVE  LET more == Append(r, row) IN
           /\ n <= Len(r) => (Effect(more, id, n) <=> Effect(r, id, n))
           /\ n = Len(r) + 1 /\ id = row.id => (Effect(more, id, n) <=> row.kind = "up")
           /\ n = Len(r) + 1 /\ id # row.id => (Effect(more, id, n) <=> Effect(r, id, n - 1))
<1> DEFINE more == Append(r, row)
           Of(q, k) == {i \in 1..k : q[i].id = id}
<1>0. \A q, k : Effect(q, id, k) <=> Of(q, k) # {} /\ q[Max(Of(q, k))].kind = "up"
  BY DEF Effect
<1>1. more[Len(r) + 1] = row /\ \A i \in 1..Len(r) : more[i] = r[i] /\ Len(r) \in Nat
  OBVIOUS
<1>2. Len(r) \in Nat /\ n \in Nat
  OBVIOUS
<1> HIDE DEF more
<1>3. ASSUME NEW k \in 0..Len(r)
      PROVE  Effect(more, id, k) <=> Effect(r, id, k)
  <2>1. Of(more, k) = Of(r, k)
    BY <1>1, <1>2
  <2>2. ASSUME Of(r, k) # {}
        PROVE  more[Max(Of(r, k))] = r[Max(Of(r, k))]
    <3>1. Of(r, k) \subseteq 0..Len(r)
      BY <1>2
    <3>2. Max(Of(r, k)) \in Of(r, k)
      BY <1>2, <2>2, <3>1, LargestIs
    <3> QED  BY <1>1, <1>2, <3>2
  <2> HIDE DEF Of
  <2> QED  BY <1>0, <2>1, <2>2
<1>4. ASSUME n = Len(r) + 1, id = row.id
      PROVE  Effect(more, id, n) <=> row.kind = "up"
  <2>1. n \in Of(more, n) /\ Of(more, n) \subseteq Nat /\ \A i \in Of(more, n) : i <= n
    BY <1>1, <1>2, <1>4
  <2>2. Max(Of(more, n)) = n
    BY <2>1, LargestIsOnly
  <2> HIDE DEF Of
  <2> QED  BY <1>0, <1>1, <1>4, <2>1, <2>2
<1>5. ASSUME n = Len(r) + 1, id # row.id
      PROVE  Effect(more, id, n) <=> Effect(r, id, n - 1)
  <2>1. Of(more, n) = Of(more, n - 1)
    BY <1>1, <1>2, <1>5
  <2>2. Effect(more, id, n) <=> Effect(more, id, n - 1)
    <3> HIDE DEF Of
    <3> QED  BY <1>0, <2>1
  <2>3. n - 1 \in 0..Len(r)
    BY <1>2, <1>5
  <2> QED  BY <1>3, <2>2, <2>3
<1>6. n <= Len(r) => n \in 0..Len(r)
  BY <1>2
<1> QED
  BY <1>3, <1>4, <1>5, <1>6 DEF more

(* Ups and downs alternate, and what is applied is what went up last.        *)
Alternates(r, applied) ==
    /\ \A i \in DOMAIN r :
          /\ Effect(r, r[i].id, i - 1) => r[i].kind = "down"
          /\ ~Effect(r, r[i].id, i - 1) => r[i].kind = "up"
    /\ \A id \in Ids : id \in applied <=> Effect(r, id, Len(r))

(* This is what TakesEffectOnce says, before and after a step.               *)
LEMMA OnceIs ==
    /\ TakesEffectOnce <=> Alternates(ran, Applied)
    /\ TakesEffectOnce' <=> Alternates(ran', DOMAIN history')
<1>1. TakesEffectOnce <=> Alternates(ran, Applied)
  BY DEF TakesEffectOnce, Alternates, InEffect, RunsOf, Effect
<1>2. TakesEffectOnce' <=> Alternates(ran', DOMAIN history')
  BY DEF TakesEffectOnce, Alternates, InEffect, RunsOf, Effect, Applied
<1> QED
  BY <1>1, <1>2

(* An up of what is not applied, or a down of what is, goes on alternating.  *)
LEMMA AlternatesMore ==
    ASSUME NEW r \in Seq(Runs), NEW row \in Runs, NEW D, NEW E, Alternates(r, D),
           row.kind = "up" => row.id \notin D /\ E = D \cup {row.id},
           row.kind = "down" => row.id \in D /\ E = D \ {row.id}
    PROVE  Alternates(Append(r, row), E)
<1> DEFINE more == Append(r, row)
<1>1. /\ Len(more) = Len(r) + 1 /\ DOMAIN more = 1..Len(r) + 1 /\ Len(r) \in Nat
      /\ DOMAIN r = 1..Len(r) /\ more[Len(r) + 1] = row /\ \A i \in 1..Len(r) : more[i] = r[i]
  OBVIOUS
<1>2. row.kind \in {"up", "down"} /\ row.id \in Ids
  BY DEF Runs
<1>3. \A id : \A n \in 0..Len(r) + 1 :
        /\ n <= Len(r) => (Effect(more, id, n) <=> Effect(r, id, n))
        /\ n = Len(r) + 1 /\ id = row.id => (Effect(more, id, n) <=> row.kind = "up")
        /\ n = Len(r) + 1 /\ id # row.id => (Effect(more, id, n) <=> Effect(r, id, n - 1))
  BY EffectIs
<1> HIDE DEF more
<1>4. \A id : Effect(more, id, Len(r)) <=> Effect(r, id, Len(r))
  BY <1>1, <1>3
<1>5. \A id : /\ id = row.id => (Effect(more, id, Len(r) + 1) <=> row.kind = "up")
              /\ id # row.id => (Effect(more, id, Len(r) + 1) <=> Effect(r, id, Len(r)))
  <2>1. Len(r) + 1 \in 0..Len(r) + 1 /\ (Len(r) + 1) - 1 = Len(r)
    BY <1>1
  <2> QED  BY <1>3, <2>1
<1>6. \A id \in Ids : id \in D <=> Effect(r, id, Len(r))
  BY DEF Alternates
<1>7. ASSUME NEW i \in DOMAIN more
      PROVE  /\ Effect(more, more[i].id, i - 1) => more[i].kind = "down"
             /\ ~Effect(more, more[i].id, i - 1) => more[i].kind = "up"
  <2>1. CASE i \in 1..Len(r)
    <3>1. i - 1 \in 0..Len(r) + 1 /\ i - 1 <= Len(r) /\ more[i] = r[i] /\ i \in DOMAIN r
      BY <1>1, <2>1
    <3>2. Effect(more, r[i].id, i - 1) <=> Effect(r, r[i].id, i - 1)
      BY <1>3, <3>1
    <3>3. /\ Effect(r, r[i].id, i - 1) => r[i].kind = "down"
          /\ ~Effect(r, r[i].id, i - 1) => r[i].kind = "up"
      BY <3>1 DEF Alternates
    <3> QED  BY <3>1, <3>2, <3>3
  <2>2. CASE i = Len(r) + 1
    <3>1. i - 1 = Len(r) /\ more[i] = row
      BY <1>1, <2>2
    <3>2. Effect(more, row.id, Len(r)) <=> row.id \in D
      BY <1>2, <1>4, <1>6
    <3> QED  BY <1>2, <3>1, <3>2
  <2> QED  BY <1>1, <2>1, <2>2
<1>8. ASSUME NEW id \in Ids
      PROVE  id \in E <=> Effect(more, id, Len(r) + 1)
  <2>1. CASE id = row.id
    BY <1>2, <1>5, <2>1
  <2>2. CASE id # row.id
    <3>1. id \in E <=> id \in D
      BY <1>2, <2>2
    <3> QED  BY <1>5, <1>6, <2>2, <3>1
  <2> QED  BY <2>1, <2>2
<1> QED
  BY <1>1, <1>7, <1>8 DEF Alternates, more

-----------------------------------------------------------------------------
(* One downgrade at a time *)

(* The downgrades are all one client's.                                      *)
OneDowngrader == \A c, d \in Downgraders : c = d

(* No other client takes rows out of the history, and a row that another one *)
(* puts in has the checksum of the same file: what a downgrade has checked   *)
(* still holds.                                                              *)
DownChecked ==
    \A c \in Clients : Running(client[c]) /\ client[c].kind = "down" =>
        /\ client[c].at = "checked" => Agrees(client[c].todo[1], history)
        /\ client[c].at = "open" =>
               /\ client[c].todo[1].id \in DOMAIN history
               /\ history[client[c].todo[1].id] = client[c].todo[1].sum

(* Steps that leave the history alone.                                       *)
LEMMA CheckedStays ==
    ASSUME ScriptsSound, DownChecked, NEW c \in Clients, NEW s \in Sessions \cup {Idle},
           Set(c, s), history' = history,
           Running(s) /\ s.kind = "down" =>
               /\ s.at = "checked" => Agrees(s.todo[1], history)
               /\ s.at = "open" => s.todo[1].id \in DOMAIN history /\ history[s.todo[1].id] = s.todo[1].sum
    PROVE  DownChecked'
<1>1. client'[c] = s /\ \A d \in Clients \ {c} : client'[d] = client[d]
  BY DEF Set, ScriptsSound, DatabaseTyped
<1>2. ASSUME NEW d \in Clients, Running(client'[d]), client'[d].kind = "down"
      PROVE  /\ client'[d].at = "checked" => Agrees(client'[d].todo[1], history')
             /\ client'[d].at = "open" =>
                    /\ client'[d].todo[1].id \in DOMAIN history'
                    /\ history'[client'[d].todo[1].id] = client'[d].todo[1].sum
  <2>1. CASE d = c
    BY <1>1, <1>2, <2>1
  <2>2. CASE d # c
    <3>1. client'[d] = client[d]
      BY <1>1, <2>2
    <3> QED  BY <1>2, <3>1 DEF DownChecked
  <2> QED  BY <2>1, <2>2
<1> QED
  BY <1>2 DEF DownChecked, Running, Agrees

(* A script that ends.                                                       *)
LEMMA CheckedStops ==
    ASSUME ScriptsSound, DownChecked, NEW c \in Clients, Set(c, Idle), history' = history
    PROVE  DownChecked'
<1>1. ~Running(Idle)
  BY DEF Running, Idle
<1> QED
  BY <1>1, CheckedStays

(* A script that starts has checked nothing yet.                             *)
LEMMA CheckedStarts ==
    ASSUME ScriptsSound, DownChecked, NEW c \in Clients, NEW kind, NEW target, NEW blocks,
           NEW at \in {"guard", "block"}, Starts(c, kind, target, blocks, at)
    PROVE  DownChecked'
<1> DEFINE new == Started(kind, target, blocks, at, Mixed(c))
<1>1. client' = [d \in Clients |-> IF d = c THEN new ELSE Meets(client[d])] /\ history' = history
  BY DEF Starts, Started, Meets, database
<1>2. new.at \in {"guard", "block"}
  BY DEF Started
<1> HIDE DEF new
<1>3. client'[c] = new /\ \A d \in Clients \ {c} : client'[d] = Meets(client[d])
  BY <1>1
<1>4. ASSUME NEW d \in Clients, Running(client'[d]), client'[d].kind = "down"
      PROVE  /\ client'[d].at = "checked" => Agrees(client'[d].todo[1], history')
             /\ client'[d].at = "open" =>
                    /\ client'[d].todo[1].id \in DOMAIN history'
                    /\ history'[client'[d].todo[1].id] = client'[d].todo[1].sum
  <2>1. CASE d = c
    BY <1>2, <1>3, <2>1
  <2>2. CASE d # c
    <3> DEFINE s == client[d]
    <3>1. s \in Sessions \cup {Idle} /\ client'[d] = Meets(s)
      BY <1>3, <2>2 DEF ScriptsSound, DatabaseTyped
    <3>2. s \in Sessions /\ Running(s)
      <4>1. s.at = "idle" => Meets(s) = s
        BY <3>1, MeetsIs
      <4> QED  BY <1>4, <3>1, <4>1 DEF Running, Idle
    <3>3. Meets(s).at = s.at /\ Meets(s).kind = s.kind /\ Meets(s).todo = s.todo
      BY <3>2, MeetsIs
    <3>4. /\ s.at = "checked" => Agrees(s.todo[1], history)
          /\ s.at = "open" => s.todo[1].id \in DOMAIN history /\ history[s.todo[1].id] = s.todo[1].sum
      BY <1>4, <3>1, <3>2, <3>3 DEF DownChecked
    <3> HIDE DEF s
    <3> QED  BY <1>1, <3>1, <3>3, <3>4
  <2> QED  BY <2>1, <2>2
<1> QED
  BY <1>4 DEF DownChecked, Running, Agrees

(* What a downgrade has checked, it has seen in the history.                 *)
LEMMA CheckedMoves ==
    ASSUME Plans, ScriptsSound, DownChecked, NEW c \in Clients,
           Guard(c) \/ CheckSum(c) \/ CheckApplied(c)
    PROVE  DownChecked'
<1>0. client[c].at \in {"guard", "block", "checked"} /\ history' = history
  BY DEF Guard, CheckSum, CheckApplied, Stop, database
<1>1. client[c] \in Sessions /\ Running(client[c])
  BY <1>0, RunningIs
<1>2. CASE Set(c, Idle)
  BY <1>0, <1>2, CheckedStops
<1>3. CASE Guard(c) /\ GuardHolds(c)
  <2> DEFINE s == [client[c] EXCEPT !.at = "block"]
  <2>1. s \in Sessions /\ s.at = "block" /\ Set(c, s)
    BY <1>1, <1>3 DEF Sessions, Guard
  <2> HIDE DEF s
  <2> QED  BY <1>0, <2>1, CheckedStays
<1>4. CASE CheckSum(c) /\ ~Drifted(c)
  <2> DEFINE s == [client[c] EXCEPT !.at = "checked"]
  <2>1. s \in Sessions /\ s.at = "checked" /\ s.todo = client[c].todo /\ Set(c, s)
    BY <1>1, <1>4 DEF Sessions, CheckSum
  <2> HIDE DEF s
  <2>2. Agrees(s.todo[1], history)
    BY <1>4, <2>1 DEF Drifted, Mine, Agrees, Applied
  <2> QED  BY <1>0, <2>1, <2>2, CheckedStays
<1>5. CASE CheckApplied(c) /\ Wanted(c)
  <2> DEFINE s == [client[c] EXCEPT !.at = "open"]
  <2>1. s \in Sessions /\ s.at = "open" /\ s.todo = client[c].todo /\ s.kind = client[c].kind /\ Set(c, s)
    BY <1>1, <1>5 DEF Sessions, CheckApplied
  <2> HIDE DEF s
  <2>2. s.kind = "down" =>
          s.todo[1].id \in DOMAIN history /\ history[s.todo[1].id] = s.todo[1].sum
    <3>1. client[c].at = "checked"
      BY <1>5 DEF CheckApplied
    <3> QED  BY <1>1, <1>5, <2>1, <3>1 DEF DownChecked, Agrees, Wanted, Mine, Applied
  <2> QED  BY <1>0, <2>1, <2>2, CheckedStays
<1>6. CASE CheckApplied(c) /\ ~Wanted(c)
  <2>1. client[c].at = "checked" /\ Set(c, NextBlock(c))
    BY <1>6 DEF CheckApplied
  <2>2. NextBlock(c) \in Sessions /\ NextBlock(c).at = "block"
    BY <2>1, NextBlockIs
  <2> QED  BY <1>0, <2>1, <2>2, CheckedStays
<1> QED
  BY <1>2, <1>3, <1>4, <1>5, <1>6 DEF Guard, CheckSum, Stop, End

(* A statement changes no row.                                               *)
LEMMA CheckedExecutes ==
    ASSUME Plans, ScriptsSound, DownChecked, NEW c \in Clients, ExecuteStatement(c)
    PROVE  DownChecked'
<1>0. client[c].at = "open" /\ client[c] \in Sessions /\ Running(client[c]) /\ history' = history
  BY RunningIs DEF ExecuteStatement, MoreStatements, Stop
<1>1. CASE ~Fits(Statement(c))
  BY <1>0, <1>1, CheckedStops DEF ExecuteStatement, Stop, End
<1>2. CASE Fits(Statement(c))
  <2> DEFINE s == Executed(c)
  <2>1. Set(c, s) /\ Statement(c) \in Statements
    BY <1>2, ExecuteIs
  <2>2. s \in Sessions /\ s.at = "open" /\ s.kind = client[c].kind /\ s.todo = client[c].todo
    BY <1>0, <2>1, ExecutedIs
  <2> HIDE DEF s
  <2>3. s.kind = "down" =>
          s.todo[1].id \in DOMAIN history /\ history[s.todo[1].id] = s.todo[1].sum
    BY <1>0, <2>2 DEF DownChecked
  <2> QED  BY <1>0, <2>1, <2>2, <2>3, CheckedStays
<1> QED
  BY <1>1, <1>2

(* A commit of one client leaves what another one's downgrade has checked.   *)
LEMMA CheckedRecords ==
    ASSUME Plans, ScriptsSound, DownChecked, OneDowngrader, NEW c \in Clients, Record(c)
    PROVE  DownChecked'
<1>1. CASE client[c].kind = "up" /\ Mine(c).id \in Applied
  BY <1>1, CheckedStops DEF Record, Stop, End
<1>2. CASE ~(client[c].kind = "up" /\ Mine(c).id \in Applied)
  <2> DEFINE h == Recorded(c)
             id == Mine(c).id
  <2>1. Records(c)
    BY <1>2 DEF Records
  <2>2. /\ client[c] \in Sessions /\ client[c].at = "open" /\ Running(client[c])
        /\ SessionSound(c, client[c]) /\ BlockSound(client[c].kind, Mine(c))
        /\ id \in Ids /\ Mine(c).sum \in Scripts /\ history' = h /\ Set(c, NextBlock(c))
    BY <2>1, RecordIs
  <2>3. NextBlock(c).at = "block"
    BY <2>2, NextBlockIs
  <2>4. client'[c] = NextBlock(c) /\ \A d \in Clients \ {c} : client'[d] = client[d]
    BY <2>2 DEF Set, ScriptsSound, DatabaseTyped
  <2>5. /\ client[c].kind = "up" => DOMAIN h = Applied \cup {id} /\ h[id] = Mine(c).sum
        /\ client[c].kind = "up" => id \notin Applied
        /\ client[c].kind = "down" => DOMAIN h = Applied \ {id}
        /\ \A j \in DOMAIN h \ {id} : h[j] = history[j]
        /\ client[c].kind \in {"up", "down"}
    <3>1. Applied \subseteq Ids /\ history \in [Applied -> Scripts]
      BY DEF ScriptsSound, DatabaseTyped
    <3>2. client[c].kind \in {"up", "down"}
      BY <2>2 DEF Sessions
    <3> QED  BY <1>2, <2>2, <3>1, <3>2, RecordedIs
  <2> HIDE DEF h, id
  <2>6. ASSUME NEW d \in Clients \ {c}, Running(client[d]), client[d].kind = "down",
               client[d].at \in {"checked", "open"}
        PROVE  /\ client[d].at = "checked" => Agrees(client[d].todo[1], h)
               /\ client[d].at = "open" =>
                      /\ client[d].todo[1].id \in DOMAIN h
                      /\ h[client[d].todo[1].id] = client[d].todo[1].sum
    <3> DEFINE b == client[d].todo[1]
    <3>1. client[d] \in Sessions /\ SessionSound(d, client[d])
      BY <2>6, RunningIs DEF Running
    <3>2. d \in Downgraders /\ client[d].todo # <<>>
      BY <2>6, <3>1 DEF SessionSound
    <3>3. client[c].kind = "up"
      <4>1. client[c].kind = "down" => c \in Downgraders
        BY <2>2 DEF SessionSound
      <4> QED  BY <2>5, <3>2, <4>1 DEF OneDowngrader
    <3>4. b.sum = files[b.id].up /\ Mine(c).sum = files[id].up
      <4>1. BlockSound(client[d].kind, b)
        BY <3>1, <3>2, NextIsSound
      <4> QED  BY <2>2, <4>1 DEF BlockSound, id
    <3>5. /\ client[d].at = "checked" => Agrees(b, history)
          /\ client[d].at = "open" => b.id \in DOMAIN history /\ history[b.id] = b.sum
      BY <2>6 DEF DownChecked
    <3> HIDE DEF b
    <3>6. client[d].at = "checked" => Agrees(b, h)
      BY <2>5, <3>3, <3>4, <3>5 DEF Agrees, Applied
    <3>7. client[d].at = "open" => b.id \in DOMAIN h /\ h[b.id] = b.sum
      BY <2>5, <3>3, <3>5 DEF Applied
    <3> QED  BY <3>6, <3>7 DEF b
  <2>7. ASSUME NEW d \in Clients, Running(client'[d]), client'[d].kind = "down"
        PROVE  /\ client'[d].at = "checked" => Agrees(client'[d].todo[1], history')
               /\ client'[d].at = "open" =>
                      /\ client'[d].todo[1].id \in DOMAIN history'
                      /\ history'[client'[d].todo[1].id] = client'[d].todo[1].sum
    <3>1. CASE d = c
      BY <2>3, <2>4, <3>1
    <3>2. CASE d # c
      <4>1. client'[d] = client[d]
        BY <2>4, <3>2
      <4> QED  BY <2>2, <2>6, <2>7, <3>2, <4>1
    <3> QED  BY <3>1, <3>2
  <2> QED  BY <2>7 DEF DownChecked, Running, Agrees
<1> QED
  BY <1>1, <1>2

(* With one client that downgrades, what it has checked holds at every step. *)
LEMMA CheckedStep ==
    OneDowngrader /\ Sound /\ DownChecked /\ [Next]_vars => DownChecked'
<1> SUFFICES ASSUME OneDowngrader, Plans, ScriptsSound, DownChecked, [Next]_vars PROVE DownChecked'
  BY DEF Sound
<1>1. CASE UNCHANGED <<client, database>>
  BY <1>1 DEF DownChecked, database
<1>2. CASE Develops
  BY <1>1, <1>2, DevelopsApart
<1>3. ASSUME NEW c \in Clients, StartUpdate(c) \/ StartDowngrade(c)
      PROVE  DownChecked'
  BY <1>3, CheckedStarts DEF StartUpdate, StartDowngrade
<1>4. ASSUME NEW c \in Clients, Fails(c) \/ DeadlockVictim(c) \/ Finish(c)
      PROVE  DownChecked'
  <2>1. history' = history /\ Set(c, Idle)
    BY <1>4 DEF Fails, DeadlockVictim, Stop, Finish, End, database
  <2> QED  BY <2>1, CheckedStops
<1>5. ASSUME NEW c \in Clients, ScriptStep(c)
      PROVE  DownChecked'
  BY <1>4, <1>5, CheckedMoves, CheckedExecutes, CheckedRecords DEF ScriptStep
<1>6. CASE UNCHANGED vars
  BY <1>1, <1>6 DEF vars, database
<1> QED
  BY <1>2, <1>3, <1>4, <1>5, <1>6 DEF Next, Develops

-----------------------------------------------------------------------------
(* What a commit does to history, database and runs, and that nothing else   *)
(* does                                                                      *)

(* A step that commits nothing leaves all three.                             *)
LEMMA OthersCommitNothing ==
    ASSUME Sound, Sound', [Next]_vars, \A c \in Clients : ~Records(c)
    PROVE  UNCHANGED <<history, ran>> /\ Committed' = Committed
<1>0. Plans /\ ScriptsSound /\ client \in [Clients -> Sessions \cup {Idle}]
  BY DEF Sound, ScriptsSound, DatabaseTyped
<1>1. CASE UNCHANGED <<client, database>>
  <2>1. objects' = objects /\ history' = history /\ ran' = ran /\ client' = client
    BY <1>1 DEF database
  <2> QED  BY <2>1, CommittedStays
<1>2. CASE Develops
  BY <1>1, <1>2, DevelopsApart
<1>3. CASE UNCHANGED vars
  BY <1>1, <1>3 DEF vars, database
<1>4. ASSUME NEW c \in Clients, Stop(c)
      PROVE  UNCHANGED <<history, ran>> /\ Committed' = Committed
  BY <1>4, StopCommits DEF Stop
<1>5. ASSUME NEW c \in Clients, StartUpdate(c) \/ StartDowngrade(c)
      PROVE  UNCHANGED <<history, ran>> /\ Committed' = Committed
  <2>1. PICK kind, target, blocks, at : Starts(c, kind, target, blocks, at)
    BY <1>5 DEF StartUpdate, StartDowngrade
  <2> DEFINE new == Started(kind, target, blocks, at, Mixed(c))
  <2>2. /\ client' = [d \in Clients |-> IF d = c THEN new ELSE Meets(client[d])]
        /\ client[c].at = "idle" /\ UNCHANGED <<objects, history, ran>>
    BY <2>1 DEF Starts, Started, Meets, database
  <2>3. new.touched = {} /\ client[c].touched = {}
    BY <1>0, <2>2 DEF Started, Sessions, Idle
  <2> HIDE DEF new
  <2>4. ASSUME NEW d \in Clients
        PROVE  client'[d].touched = client[d].touched
    <3>1. CASE d = c
      BY <2>2, <2>3, <3>1
    <3>2. CASE d # c
      <4>1. client'[d] = Meets(client[d]) /\ client[d] \in Sessions \cup {Idle}
        BY <1>0, <2>2, <3>2
      <4>2. Meets(client[d]).touched = client[d].touched
        BY <4>1, MeetsIs
      <4> QED  BY <4>1, <4>2
    <3> QED  BY <3>1, <3>2
  <2> QED  BY <2>2, <2>4, CommittedStays
<1>6. ASSUME NEW c \in Clients, NEW s, Set(c, s), s.touched = client[c].touched,
             UNCHANGED <<objects, history, ran>>
      PROVE  UNCHANGED <<history, ran>> /\ Committed' = Committed
  <2>1. \A d \in Clients : client'[d].touched = client[d].touched
    BY <1>0, <1>6 DEF Set
  <2> QED  BY <1>6, <2>1, CommittedStays
<1>7. ASSUME NEW c \in Clients, Guard(c) \/ CheckSum(c) \/ CheckApplied(c) \/ Finish(c)
      PROVE  UNCHANGED <<history, ran>> /\ Committed' = Committed
  <2>1. /\ client[c].at \in {"guard", "block", "checked"}
        /\ Stop(c) \/ UNCHANGED <<objects, history, ran>>
    BY <1>7 DEF Guard, CheckSum, CheckApplied, Finish, database
  <2>2. client[c] \in Sessions /\ client[c].touched = {}
    <3>1. TouchedSound(client[c], objects)
      BY <1>0 DEF ScriptsSound
    <3> QED  BY <1>0, <2>1, <3>1 DEF TouchedSound, Idle
  <2>3. CASE Guard(c) /\ GuardHolds(c)
    <3> DEFINE s == [client[c] EXCEPT !.at = "block"]
    <3>1. s.touched = client[c].touched /\ Set(c, s)
      BY <2>2, <2>3 DEF Sessions, Guard
    <3>2. UNCHANGED <<objects, history, ran>>
      BY <2>3 DEF Guard, database
    <3> HIDE DEF s
    <3> QED  BY <1>6, <3>1, <3>2
  <2>4. CASE CheckSum(c) /\ ~Drifted(c)
    <3> DEFINE s == [client[c] EXCEPT !.at = "checked"]
    <3>1. s.touched = client[c].touched /\ Set(c, s)
      BY <2>2, <2>4 DEF Sessions, CheckSum
    <3>2. UNCHANGED <<objects, history, ran>>
      BY <2>4 DEF CheckSum, database
    <3> HIDE DEF s
    <3> QED  BY <1>6, <3>1, <3>2
  <2>5. CASE CheckApplied(c) /\ Wanted(c)
    <3> DEFINE s == [client[c] EXCEPT !.at = "open"]
    <3>1. s.touched = client[c].touched /\ Set(c, s)
      BY <2>2, <2>5 DEF Sessions, CheckApplied
    <3>2. UNCHANGED <<objects, history, ran>>
      BY <2>5 DEF CheckApplied, database
    <3> HIDE DEF s
    <3> QED  BY <1>6, <3>1, <3>2
  <2>6. CASE CheckApplied(c) /\ ~Wanted(c)
    <3>1. client[c].at = "checked" /\ Set(c, NextBlock(c)) /\ UNCHANGED <<objects, history, ran>>
      BY <2>6 DEF CheckApplied, database
    <3>2. NextBlock(c).touched = {}
      BY <1>0, <3>1, NextBlockIs
    <3> QED  BY <1>6, <2>2, <3>1, <3>2
  <2>7. CASE Finish(c)
    <3>1. Set(c, Idle) /\ UNCHANGED <<objects, history, ran>>
      BY <2>7 DEF Finish, End, database
    <3>2. Idle.touched = {}
      BY DEF Idle
    <3> QED  BY <1>6, <2>2, <3>1, <3>2
  <2> QED  BY <1>4, <1>7, <2>3, <2>4, <2>5, <2>6, <2>7 DEF Guard, CheckSum
<1>8. ASSUME NEW c \in Clients, ExecuteStatement(c)
      PROVE  UNCHANGED <<history, ran>> /\ Committed' = Committed
  <2>1. UNCHANGED <<history, ran>>
    BY <1>8 DEF ExecuteStatement, Stop
  <2> QED  BY <1>8, <2>1, ExecuteCommits
<1>9. ASSUME NEW c \in Clients, Record(c)
      PROVE  Stop(c)
  BY <1>9 DEF Records, Record
<1>10. ASSUME NEW c \in Clients, ScriptStep(c) \/ Fails(c)
       PROVE  UNCHANGED <<history, ran>> /\ Committed' = Committed
  BY <1>4, <1>7, <1>8, <1>9, <1>10 DEF ScriptStep, Fails, DeadlockVictim
<1> QED
  BY <1>2, <1>3, <1>5, <1>10 DEF Next, Develops

(* What a commit does to the history: an update's row was not there, a       *)
(* downgrade's was, with the checksum of the file it undoes.                 *)
LEMMA RowChanges ==
    ASSUME Sound, DownChecked, NEW c \in Clients, Records(c)
    PROVE  LET id == Mine(c).id
               body == Mine(c).body
           IN  /\ client[c].kind \in {"up", "down"} /\ id \in Ids
               /\ Applied \subseteq Ids /\ history' = Recorded(c)
               /\ \A j \in (DOMAIN history') \ {id} : history'[j] = history[j]
               /\ client[c].kind = "up" =>
                    /\ id \notin Applied /\ DOMAIN history' = Applied \cup {id}
                    /\ body = history'[id].body
               /\ client[c].kind = "down" =>
                    /\ id \in Applied /\ DOMAIN history' = Applied \ {id}
                    /\ Undoes(body, history[id].body)
<1> DEFINE id == Mine(c).id
           body == Mine(c).body
           h == Recorded(c)
<1>0. Plans /\ ScriptsSound
  BY DEF Sound
<1>1. /\ client[c] \in Sessions /\ client[c].at = "open" /\ Running(client[c])
      /\ BlockSound(client[c].kind, Mine(c)) /\ id \in Ids /\ Mine(c).sum \in Scripts
      /\ history' = h
  BY <1>0, RecordIs
<1>2. Applied \subseteq Ids /\ history \in [Applied -> Scripts]
  BY <1>0 DEF ScriptsSound, DatabaseTyped
<1>3. client[c].kind \in {"up", "down"}
  BY <1>1 DEF Sessions
<1>4. /\ client[c].kind = "up" => DOMAIN h = Applied \cup {id} /\ h[id] = Mine(c).sum
      /\ client[c].kind = "down" => DOMAIN h = Applied \ {id}
      /\ \A j \in DOMAIN h \ {id} : h[j] = history[j]
  BY <1>1, <1>2, <1>3, RecordedIs
<1>5. client[c].kind = "up" => id \notin Applied
  BY DEF Records
<1>6. client[c].kind = "down" => id \in Applied /\ history[id] = Mine(c).sum
  BY <1>1 DEF DownChecked, Mine, Applied
<1>7. /\ client[c].kind = "up" => body = Mine(c).sum.body
      /\ client[c].kind = "down" => Undoes(body, Mine(c).sum.body)
  BY <1>1 DEF BlockSound
<1> HIDE DEF id, body, h
<1>8. \A j \in (DOMAIN history') \ {id} : history'[j] = history[j]
  BY <1>1, <1>4
<1>9. client[c].kind = "up" =>
        /\ id \notin Applied /\ DOMAIN history' = Applied \cup {id}
        /\ body = history'[id].body
  BY <1>1, <1>4, <1>5, <1>7
<1>10. client[c].kind = "down" =>
        /\ id \in Applied /\ DOMAIN history' = Applied \ {id}
        /\ Undoes(body, history[id].body)
  BY <1>1, <1>4, <1>6, <1>7
<1> QED
  BY <1>1, <1>2, <1>3, <1>8, <1>9, <1>10 DEF id, body, h

(* The ups and downs of a migration go on alternating.                       *)
LEMMA OnceStays ==
    ASSUME Sound, Sound', DownChecked, TakesEffectOnce, [Next]_vars
    PROVE  TakesEffectOnce'
<1>1. CASE \E c \in Clients : Records(c)
  <2>1. PICK c \in Clients : Records(c)
    BY <1>1
  <2>2. ran' = Append(ran, Row(c)) /\ Row(c) \in Runs
    BY <2>1, RecordIs DEF Sound
  <2>3. Row(c).id = Mine(c).id /\ Row(c).kind = client[c].kind
    BY DEF Row
  <2>4. /\ client[c].kind = "up" => Mine(c).id \notin Applied /\ DOMAIN history' = Applied \cup {Mine(c).id}
        /\ client[c].kind = "down" => Mine(c).id \in Applied /\ DOMAIN history' = Applied \ {Mine(c).id}
    BY <2>1, RowChanges
  <2>5. ran \in Seq(Runs) /\ Alternates(ran, Applied)
    BY RunsTyped, OnceIs
  <2> DEFINE row == Row(c)
             E == DOMAIN history'
  <2>6. /\ row.kind = "up" => row.id \notin Applied /\ E = Applied \cup {row.id}
        /\ row.kind = "down" => row.id \in Applied /\ E = Applied \ {row.id}
        /\ row \in Runs
    BY <2>2, <2>3, <2>4
  <2> HIDE DEF row, E
  <2>7. Alternates(Append(ran, row), E)
    BY <2>5, <2>6, AlternatesMore
  <2> QED  BY <2>2, <2>7, OnceIs DEF row, E
<1>2. CASE ~\E c \in Clients : Records(c)
  <2>1. history' = history /\ ran' = ran
    BY <1>2, OthersCommitNothing
  <2>2. Applied = DOMAIN history
    BY DEF Applied
  <2> QED  BY <2>1, <2>2, OnceIs
<1> QED
  BY <1>1, <1>2

(* The database goes on being what the runs add up to.                       *)
LEMMA NothingIsTorn ==
    ASSUME Sound, Sound', NothingTorn, [Next]_vars
    PROVE  NothingTorn'
<1>1. CASE \E c \in Clients : Records(c)
  <2>1. PICK c \in Clients : Records(c)
    BY <1>1
  <2>2. /\ Committed' = (Committed \cup Creates(Mine(c).body)) \ Drops(Mine(c).body)
        /\ Replay' = (Replay \cup Creates(Mine(c).body)) \ Drops(Mine(c).body)
    BY <2>1, RecordCommits, ReplayIs
  <2>3. Committed' = Replay'
    BY <2>2 DEF NothingTorn
  <2> QED  BY <2>3 DEF NothingTorn
<1>2. CASE ~\E c \in Clients : Records(c)
  <2>1. ran' = ran /\ Committed' = Committed
    BY <1>2, OthersCommitNothing
  <2>2. Replay' = Replay
    BY <2>1 DEF Replay, RunsAbout
  <2>3. Committed' = Replay'
    BY <2>1, <2>2 DEF NothingTorn
  <2> QED  BY <2>3 DEF NothingTorn
<1> QED
  BY <1>1, <1>2

-----------------------------------------------------------------------------
(* What the rows of the history add up to                                    *)

(* The rows whose scripts create an object, and those that drop it.  However *)
(* the rows came about, the database has the object when it was created once *)
(* more than dropped, and else it was dropped as often as created.           *)
Making(h, o) == {j \in DOMAIN h : o \in Creates(h[j].body)}
Unmaking(h, o) == {j \in DOMAIN h : o \in Drops(h[j].body)}
Balanced(h, db) ==
    \A o \in Objects :
        /\ o \in db => Cardinality(Making(h, o)) = Cardinality(Unmaking(h, o)) + 1
        /\ o \notin db => Cardinality(Making(h, o)) = Cardinality(Unmaking(h, o))

(* Sets of ids are finite: one more element is one more.                     *)
LEMMA CountMore ==
    ASSUME NEW S, S \subseteq Ids
    PROVE  /\ Cardinality(S) \in Nat
           /\ \A id \in Ids \ S : Cardinality(S \cup {id}) = Cardinality(S) + 1
<1>1. IsFiniteSet(S)
  <2>1. Ids = 1..MaxId /\ MaxId \in Int /\ 1 \in Int
    BY IdsAssumption DEF Ids
  <2>2. IsFiniteSet(Ids)
    BY <2>1, FS_Interval
  <2> QED  BY <2>2, FS_Subset
<1>2. Cardinality(S) \in Nat
  BY <1>1, FS_CardinalityType
<1>3. \A id : Cardinality(S \cup {id}) = IF id \in S THEN Cardinality(S) ELSE Cardinality(S) + 1
  BY <1>1, FS_AddElement
<1> QED
  BY <1>2, <1>3

(* One row more, for a script that the database lets pass.                   *)
LEMMA RowAdds ==
    ASSUME NEW h, NEW g, NEW id \in Ids, NEW db, NEW more, NEW less, DOMAIN h \subseteq Ids,
           id \notin DOMAIN h, DOMAIN g = DOMAIN h \cup {id}, \A j \in DOMAIN h : g[j] = h[j],
           more = Creates(g[id].body), less = Drops(g[id].body),
           more \cap db = {}, less \subseteq db
    PROVE  Balanced(h, db) <=> Balanced(g, (db \cup more) \ less)
<1> SUFFICES ASSUME NEW o \in Objects
             PROVE  LET m == Cardinality(Making(h, o))
                        u == Cardinality(Unmaking(h, o))
                        n == Cardinality(Making(g, o))
                        v == Cardinality(Unmaking(g, o))
                        new == (db \cup more) \ less
                    IN  ((o \in db => m = u + 1) /\ (o \notin db => m = u)) <=>
                        ((o \in new => n = v + 1) /\ (o \notin new => n = v))
  BY DEF Balanced
<1> DEFINE M == Making(h, o)
           U == Unmaking(h, o)
<1>1. M \subseteq Ids /\ U \subseteq Ids /\ id \notin M /\ id \notin U
  BY DEF Making, Unmaking
<1>2. /\ o \in more => Making(g, o) = M \cup {id}
      /\ o \notin more => Making(g, o) = M
      /\ o \in less => Unmaking(g, o) = U \cup {id}
      /\ o \notin less => Unmaking(g, o) = U
  BY DEF Making, Unmaking
<1> HIDE DEF M, U
<1>3. /\ Cardinality(M) \in Nat /\ Cardinality(M \cup {id}) = Cardinality(M) + 1
      /\ Cardinality(U) \in Nat /\ Cardinality(U \cup {id}) = Cardinality(U) + 1
  BY <1>1, CountMore
<1> DEFINE N == Making(g, o)
           V == Unmaking(g, o)
           new == (db \cup more) \ less
<1>4. /\ o \in more => N = M \cup {id} /\ V = U /\ o \notin db /\ o \in new
      /\ o \in less => N = M /\ V = U \cup {id} /\ o \in db /\ o \notin new
      /\ o \notin more /\ o \notin less => N = M /\ V = U /\ (o \in db <=> o \in new)
  BY <1>2
<1> HIDE DEF N, V, new
<1> DEFINE m == Cardinality(M)
           u == Cardinality(U)
           n == Cardinality(N)
           v == Cardinality(V)
<1>5. /\ m \in Nat /\ u \in Nat
      /\ o \in more => n = m + 1 /\ v = u
      /\ o \in less => n = m /\ v = u + 1
      /\ o \notin more /\ o \notin less => n = m /\ v = u
  BY <1>3, <1>4
<1> HIDE DEF m, u, n, v
<1>6. CASE o \in more
  <2>1. o \notin db /\ o \in new /\ n = m + 1 /\ v = u
    BY <1>4, <1>5, <1>6
  <2>2. m = u <=> n = v + 1
    BY <1>5, <2>1
  <2> QED  BY <2>1, <2>2 DEF M, U, N, V, new, m, u, n, v
<1>7. CASE o \in less
  <2>1. o \in db /\ o \notin new /\ n = m /\ v = u + 1
    BY <1>4, <1>5, <1>7
  <2>2. m = u + 1 <=> n = v
    BY <1>5, <2>1
  <2> QED  BY <2>1, <2>2 DEF M, U, N, V, new, m, u, n, v
<1>8. CASE o \notin more /\ o \notin less
  <2>1. (o \in db <=> o \in new) /\ n = m /\ v = u
    BY <1>4, <1>5, <1>8
  <2> QED  BY <2>1 DEF M, U, N, V, new, m, u, n, v
<1> QED
  BY <1>6, <1>7, <1>8

(* Two databases that the same rows add up to are the same.                  *)
LEMMA BalancedOnce ==
    ASSUME NEW h, NEW db, NEW eb, Balanced(h, db), Balanced(h, eb), DOMAIN h \subseteq Ids,
           db \subseteq Objects, eb \subseteq Objects
    PROVE  db = eb
<1>1. ASSUME NEW o \in Objects
      PROVE  o \in db <=> o \in eb
  <2>1. Unmaking(h, o) \subseteq Ids
    BY DEF Unmaking
  <2>2. Cardinality(Unmaking(h, o)) \in Nat
    BY <2>1, CountMore
  <2>3. Cardinality(Unmaking(h, o)) + 1 # Cardinality(Unmaking(h, o))
    BY <2>2
  <2> QED  BY <2>3 DEF Balanced
<1> QED
  BY <1>1

(* No rows add up to no objects.                                             *)
LEMMA NoRowsNoObjects == \A h : DOMAIN h = {} => Balanced(h, {})
  BY FS_EmptySet DEF Balanced, Making, Unmaking

(* The history goes on adding up to the database.                            *)
LEMMA BalanceStays ==
    ASSUME Sound, Sound', DownChecked, Balanced(history, Committed), [Next]_vars
    PROVE  Balanced(history', Committed')
<1>1. CASE \E c \in Clients : Records(c)
  <2>1. PICK c \in Clients : Records(c)
    BY <1>1
  <2> DEFINE id == Mine(c).id
             makes == Creates(Mine(c).body)
             takes == Drops(Mine(c).body)
             kind == client[c].kind
             h == history'
             db == Committed
             eb == Committed'
  <2>2. /\ eb = (db \cup makes) \ takes
        /\ makes \cap db = {} /\ takes \subseteq db /\ makes \cap takes = {}
    BY <2>1, RecordCommits
  <2>3. /\ kind \in {"up", "down"} /\ id \in Ids /\ DOMAIN history \subseteq Ids
        /\ \A j \in DOMAIN h \ {id} : h[j] = history[j]
        /\ kind = "up" => /\ id \notin DOMAIN history /\ DOMAIN h = DOMAIN history \cup {id}
                          /\ makes = Creates(h[id].body) /\ takes = Drops(h[id].body)
        /\ kind = "down" => /\ id \in DOMAIN history /\ DOMAIN h = DOMAIN history \ {id}
                            /\ makes = Drops(history[id].body) /\ takes = Creates(history[id].body)
    BY <2>1, RowChanges DEF Applied, Undoes
  <2> HIDE DEF id, makes, takes, kind, h, db, eb
  <2>4. CASE kind = "up"
    <3>1. \A j \in DOMAIN history : h[j] = history[j]
      BY <2>3, <2>4
    <3>2. Balanced(history, db) <=> Balanced(h, (db \cup makes) \ takes)
      BY <2>2, <2>3, <2>4, <3>1, RowAdds
    <3> QED  BY <2>2, <3>2 DEF h, db, eb
  <2>5. CASE kind = "down"
    <3>1. /\ DOMAIN h \subseteq Ids /\ id \notin DOMAIN h /\ DOMAIN history = DOMAIN h \cup {id}
          /\ \A j \in DOMAIN h : history[j] = h[j]
      BY <2>3, <2>5
    <3>2. takes \cap eb = {} /\ makes \subseteq eb /\ db = (eb \cup takes) \ makes
      BY <2>2
    <3>3. takes = Creates(history[id].body) /\ makes = Drops(history[id].body) /\ id \in Ids
      BY <2>3, <2>5
    <3>4. Balanced(h, eb) <=> Balanced(history, (eb \cup takes) \ makes)
      BY <3>1, <3>2, <3>3, RowAdds
    <3> QED  BY <3>2, <3>4 DEF h, db, eb
  <2> QED  BY <2>3, <2>4, <2>5
<1>2. CASE ~\E c \in Clients : Records(c)
  <2>1. history' = history /\ Committed' = Committed
    BY <1>2, OthersCommitNothing
  <2> QED  BY <2>1
<1> QED
  BY <1>1, <1>2

(* So do the migrations up to any of them, and its snapshot, along a chain   *)
(* of plans.                                                                 *)
Upto(f, n) == [j \in {k \in DOMAIN f : k <= n} |-> f[j].up]

(* By induction on the ids.                                                  *)
LEMMA PlansAddUp ==
    ASSUME NEW f, DOMAIN f \subseteq Ids, NEW last \in Nat,
           \A j \in DOMAIN f : j <= last => Planned(f, j)
    PROVE  \A n \in Nat : n <= last => Balanced(Upto(f, n), Before(f, n + 1))
<1> DEFINE S == {n \in Nat : n <= last => Balanced(Upto(f, n), Before(f, n + 1))}
<1>0. \A j \in DOMAIN f : j \in Nat /\ j >= 1
  BY IdsAssumption DEF Ids
<1>1. 0 \in S
  <2>1. DOMAIN Upto(f, 0) = {} /\ {k \in DOMAIN f : k < 0 + 1} = {}
    BY <1>0 DEF Upto
  <2>2. Before(f, 0 + 1) = {}
    BY <2>1 DEF Before
  <2> QED  BY <2>1, <2>2, NoRowsNoObjects
<1>2. ASSUME NEW n \in Nat, n \in S
      PROVE  n + 1 \in S
  <2>1. SUFFICES ASSUME n + 1 <= last
                 PROVE  Balanced(Upto(f, n + 1), Before(f, (n + 1) + 1))
    OBVIOUS
  <2>2. Balanced(Upto(f, n), Before(f, n + 1))
    BY <1>2, <2>1
  <2>3. CASE n + 1 \notin DOMAIN f
    <3>1. /\ {k \in DOMAIN f : k <= n + 1} = {k \in DOMAIN f : k <= n}
          /\ {k \in DOMAIN f : k < (n + 1) + 1} = {k \in DOMAIN f : k < n + 1}
      BY <1>0, <2>3
    <3>2. Upto(f, n + 1) = Upto(f, n)
      BY <3>1 DEF Upto
    <3>3. Before(f, (n + 1) + 1) = Before(f, n + 1)
      BY <3>1 DEF Before
    <3> QED  BY <2>2, <3>2, <3>3
  <2>4. CASE n + 1 \in DOMAIN f
    <3> DEFINE id == n + 1
               h == Upto(f, n)
               g == Upto(f, id)
               old == Before(f, id)
               new == f[id].snapshot
               makes == Creates(f[id].up.body)
               takes == Drops(f[id].up.body)
    <3>1. makes = new \ old /\ takes = old \ new
      BY <2>1, <2>4 DEF Planned, Leads
    <3>2. Before(f, id + 1) = new
      <4>1. id \in {k \in DOMAIN f : k < id + 1}
        BY <2>4
      <4>2. {k \in DOMAIN f : k < id + 1} \subseteq Nat /\ \A k \in {k \in DOMAIN f : k < id + 1} : k <= id
        BY <1>0
      <4>3. Max({k \in DOMAIN f : k < id + 1}) = id
        BY <4>1, <4>2, LargestIsOnly
      <4> QED  BY <4>1, <4>3 DEF Before
    <3>3. /\ DOMAIN h \subseteq Ids /\ id \in Ids /\ id \notin DOMAIN h
          /\ DOMAIN g = DOMAIN h \cup {id} /\ \A j \in DOMAIN h : g[j] = h[j]
          /\ g[id] = f[id].up
      BY <1>0, <2>4 DEF Upto
    <3>4. Balanced(h, old)
      BY <2>2
    <3> HIDE DEF id, h, g, old, new, makes, takes
    <3>5. makes \cap old = {} /\ takes \subseteq old /\ (old \cup makes) \ takes = new
      BY <3>1
    <3>6. makes = Creates(g[id].body) /\ takes = Drops(g[id].body)
      BY <3>3 DEF makes, takes
    <3>7. Balanced(g, (old \cup makes) \ takes)
      BY <3>3, <3>4, <3>5, <3>6, RowAdds
    <3>8. Balanced(g, Before(f, id + 1))
      BY <3>2, <3>5, <3>7
    <3> QED  BY <3>8 DEF g, id
  <2> QED  BY <2>3, <2>4
<1> HIDE DEF S
<1>3. Nat \subseteq S
  BY <1>1, <1>2, Induction
<1> QED
  BY <1>3 DEF S

-----------------------------------------------------------------------------
(* History, database and files agree                                         *)

(* The inductive invariant.                                                  *)
Inductive ==
    /\ Sound /\ DownChecked /\ TakesEffectOnce /\ NothingTorn
    /\ Balanced(history, Committed)

(* It holds at first.                                                        *)
LEMMA InductiveAtFirst == Init => Inductive
<1> SUFFICES ASSUME Init PROVE Inductive
  OBVIOUS
<1>1. Sound
  BY PlansAtFirst, ScriptsAtFirst DEF Sound
<1>2. /\ objects = {} /\ ran = <<>> /\ DOMAIN history = {} /\ Len(ran) = 0 /\ DOMAIN ran = {}
      /\ \A c \in Clients : client[c] = Idle
  BY DEF Init
<1>3. DownChecked
  BY <1>2 DEF DownChecked, Running, Idle
<1>4. Committed = {}
  <2>1. \A o : ~Held(client, o)
    BY <1>2 DEF Held, Idle
  <2> QED  BY <1>1, <1>2, <2>1, CommittedIs
<1>5. TakesEffectOnce
  <2>1. \A id : RunsOf(id, 0) = {}
    BY DEF RunsOf
  <2> QED  BY <1>2, <2>1 DEF TakesEffectOnce, InEffect, Applied
<1>6. Replay = {}
  BY <1>2 DEF Replay, RunsAbout
<1> QED
  BY <1>1, <1>2, <1>3, <1>4, <1>5, <1>6, NoRowsNoObjects DEF Inductive, NothingTorn

(* Every step keeps it.                                                      *)
LEMMA InductiveStep == OneDowngrader /\ Inductive /\ [Next]_vars => Inductive'
<1> SUFFICES ASSUME OneDowngrader, Inductive, [Next]_vars PROVE Inductive'
  OBVIOUS
<1>1. Sound /\ DownChecked /\ TakesEffectOnce /\ NothingTorn /\ Balanced(history, Committed)
  BY DEF Inductive
<1>2. Sound'
  BY <1>1, SoundStep
<1>3. DownChecked'
  BY <1>1, CheckedStep
<1>4. TakesEffectOnce' /\ NothingTorn' /\ Balanced(history', Committed')
  BY <1>1, <1>2, OnceStays, NothingIsTorn, BalanceStays
<1>5. Balanced(history, Committed)'
  BY <1>4 DEF Balanced
<1> QED
  BY <1>2, <1>3, <1>4, <1>5 DEF Inductive

(* The type invariant of the runs follows.                                   *)
LEMMA SoundIsTyped == Sound => TypeOK
<1> SUFFICES ASSUME Sound PROVE TypeOK
  OBVIOUS
<1>0. Plans /\ ScriptsSound
  BY DEF Sound
<1>1. objects \subseteq Objects /\ Applied \subseteq Ids /\ client \in [Clients -> Sessions \cup {Idle}]
  BY <1>0 DEF ScriptsSound, DatabaseTyped
<1>2. DOMAIN files \subseteq Ids
  BY <1>0 DEF Plans, FilesTyped
<1>3. ASSUME NEW c \in Clients
      PROVE  /\ client[c].at \in {"idle", "guard", "block", "checked", "open"}
             /\ client[c].at = "open" => client[c].next \in 1..(Len(Mine(c).body) + 1)
             /\ client[c].at # "open" => client[c].touched = {}
  <2>1. client[c].at \in {"idle", "guard", "block", "checked", "open"}
    BY <1>1 DEF Sessions, Idle
  <2>2. client[c].at # "open" => client[c].touched = {}
    BY <1>0 DEF ScriptsSound, TouchedSound
  <2>3. client[c].at = "open" => client[c].next \in 1..(Len(Mine(c).body) + 1)
    BY <1>0 DEF ScriptsSound, SessionSound, Running, Mine
  <2> QED  BY <2>1, <2>2, <2>3
<1> QED
  BY <1>1, <1>2, <1>3 DEF TypeOK

(* Both a history that is a prefix of the files and the files themselves add *)
(* up to what is there.                                                      *)
LEMMA SnapshotIsThere ==
    ASSUME Sound, Balanced(history, Committed)
    PROVE  SchemaIsSnapshot
<1>1. Plans /\ ScriptsSound /\ Committed \subseteq Objects
  BY CommittedIs DEF Sound
<1>2. /\ Applied \subseteq Ids /\ history \in [Applied -> Scripts] /\ DOMAIN history = Applied
      /\ DOMAIN files \subseteq Ids /\ files \in [DOMAIN files -> Files]
  <2>1. Applied \subseteq Ids /\ history \in [Applied -> Scripts]
    BY <1>1 DEF ScriptsSound, DatabaseTyped
  <2>2. DOMAIN files \subseteq Ids /\ files \in [DOMAIN files -> Files]
    BY <1>1 DEF Plans, FilesTyped
  <2>3. DOMAIN history = Applied
    BY Zenon DEF Applied
  <2> QED  BY <2>1, <2>2, <2>3
<1>3. Applied # {} => Max(Applied) \in Applied /\ \A j \in Applied : j <= Max(Applied)
  <2>1. Applied \subseteq 0..MaxId /\ MaxId \in Nat
    BY <1>2, IdsAssumption DEF Ids
  <2> QED  BY <2>1, LargestIs
<1> DEFINE prefix == {j \in DOMAIN files : \E i \in Applied : j <= i}
<1> SUFFICES ASSUME ~lost, add.at = "idle", Applied = prefix,
                    \A j \in Applied : history[j] = files[j].up /\ files[j].snapshot # Missing
             PROVE  /\ Applied = {} => Committed = {}
                    /\ Applied # {} => Committed = files[Max(Applied)].snapshot
  BY DEF SchemaIsSnapshot
<1>4. CASE Applied = {}
  <2>1. Balanced(history, {})
    BY <1>2, <1>4, NoRowsNoObjects
  <2>2. Committed = {}
    BY <1>1, <1>2, <2>1, BalancedOnce
  <2> QED  BY <1>4, <2>2
<1>5. CASE Applied # {}
  <2> DEFINE last == Max(Applied)
             new == files[last].snapshot
  <2>1. last \in Applied /\ \A j \in Applied : j <= last
    BY <1>3, <1>5
  <2> HIDE DEF last
  <2>2. last \in Nat /\ \A j \in DOMAIN files : j \in Nat
    BY <1>2, <2>1, IdsAssumption DEF Ids
  <2>3. Applied = {j \in DOMAIN files : j <= last}
    <3>1. \A j \in prefix : j <= last
      BY <2>1
    <3>2. \A j \in DOMAIN files : j <= last => j \in prefix
      BY <2>1
    <3> QED  BY <3>1, <3>2
  <2>4. \A j \in DOMAIN files : j <= last => Planned(files, j)
    <3>1. ~Adding
      BY DEF Adding
    <3>2. \A j \in DOMAIN files : files[j].snapshot = Missing \/ Planned(files, j)
      BY <1>1, <3>1 DEF Plans, ChainSound
    <3> QED  BY <2>3, <3>2
  <2>5. Balanced(Upto(files, last), Before(files, last + 1))
    <3>1. last <= last
      BY <2>2
    <3> QED  BY <1>2, <2>2, <2>4, <3>1, PlansAddUp
  <2>6. Upto(files, last) = history
    BY <1>2, <2>3 DEF Upto
  <2>7. Before(files, last + 1) = new
    <3> DEFINE earlier == {k \in DOMAIN files : k < last + 1}
    <3>1. earlier = Applied
      BY <2>2, <2>3
    <3> QED  BY <1>5, <3>1 DEF Before, last
  <2>8. new \subseteq Objects
    <3>1. last \in DOMAIN files /\ new # Missing
      BY <2>1
    <3> QED  BY <1>2, <3>1 DEF Files
  <2> HIDE DEF new
  <2>9. Committed = new
    BY <1>1, <1>2, <2>5, <2>6, <2>7, <2>8, BalancedOnce
  <2> QED  BY <1>5, <2>9 DEF new, last
<1> QED
  BY <1>4, <1>5

(* What history, database and files say of each other holds between any two  *)
(* batches of any number of updates and of one client's downgrades, whatever *)
(* fails, crashes, is edited or merged.  Two clients that downgrade at the   *)
(* same time can run one down.sql twice: the second of them looked at the    *)
(* history before the first one changed it, and its DELETE takes no row.     *)
THEOREM HistoryStaysSound == OneDowngrader => (Spec => []HistorySound)
<1>1. Inductive => HistorySound
  BY SoundIsTyped, SnapshotIsThere DEF Inductive, HistorySound
<1>2. OneDowngrader /\ Inductive /\ [Next]_vars => Inductive'
  BY InductiveStep
<1>3. ASSUME OneDowngrader
      PROVE  Spec => []HistorySound
  <2>1. Inductive /\ [Next]_vars => Inductive'
    BY <1>2, <1>3
  <2> QED  BY <1>1, <2>1, InductiveAtFirst, PTL DEF Spec
<1> QED
  BY <1>3
=============================================================================
