-------------------------- MODULE SaveOrder_proofs --------------------------
(* topological_entity_order for every number of entities, every assignment   *)
(* of tables to them and every set of foreign keys: the order it returns is  *)
(* the least one that puts parents first, and it reports a cycle exactly     *)
(* when there is none.                                                       *)
EXTENDS SaveOrder, FiniteSetTheorems, FunctionTheorems, SequenceTheorems,
        WellFoundedInduction, TLAPS

(* The entities visited in the first n steps, and in all of them.            *)
FirstOf(n) == {order[j] : j \in 1..n}
Visited == FirstOf(Len(order))

Typed ==
    /\ table \in [Entities -> Tables]
    /\ incoming \in [Entities -> Nat]
    /\ order \in Seq(Entities)

(* The counter of an entity is the number of its parents still to come.      *)
Counting == \A c \in Entities : incoming[c] = Cardinality(Parents(c) \ Visited)

(* The ready entities are those that could be visited next, no one else.     *)
ReadyIsNext == ready = {c \in Entities \ Visited : Parents(c) \subseteq Visited}

Once == \A i, j \in 1..Len(order) : order[i] = order[j] => i = j

ParentsFirst ==
    \A i \in 1..Len(order), c \in Entities :
        c = order[i] => Parents(c) \subseteq FirstOf(i - 1)

(* Each visited entity was the smallest of those that could be visited.      *)
Smallest ==
    \A i \in 1..Len(order) : \A c \in Entities \ FirstOf(i - 1) :
        Parents(c) \subseteq FirstOf(i - 1) => order[i] <= c

Inv == Typed /\ Counting /\ ReadyIsNext /\ Once /\ ParentsFirst /\ Smallest

-----------------------------------------------------------------------------
(* A nonempty set of natural numbers has a least element.                    *)
LEMMA LeastOf ==
    ASSUME NEW S, S \subseteq Nat, S # {}
    PROVE  \E m \in S : \A n \in S : m <= n
<1>1. PICK m \in S : \A y \in S : <<y, m>> \notin OpToRel(<, Nat)
  BY NatLessThanWellFounded, WFMin
<1>2. \A y \in S : ~(y < m)
  BY <1>1 DEF OpToRel
<1>3. m \in Nat /\ \A y \in S : y \in Nat /\ ~(y < m)
  BY <1>2
<1>4. \A y \in S : m <= y
  BY <1>3
<1> QED
  BY <1>4

(* The entities are finitely many, N of them, and a child's parents among    *)
(* them are others.                                                          *)
LEMMA EntitiesFinite ==
    /\ IsFiniteSet(Entities) /\ Cardinality(Entities) = N
    /\ Entities \subseteq Nat
    /\ \A c : Parents(c) \subseteq Entities
    /\ \A c, S : IsFiniteSet(Parents(c) \ S) /\ Cardinality(Parents(c) \ S) \in Nat
<1>1. IsFiniteSet(Entities) /\ Cardinality(Entities) = N
  BY NAssumption, FS_Interval DEF Entities
<1>2. Entities \subseteq Nat
  BY NAssumption DEF Entities
<1>3. \A c : Parents(c) \subseteq Entities
  BY DEF Parents, Principal
<1>4. ASSUME NEW c, NEW S
      PROVE  IsFiniteSet(Parents(c) \ S) /\ Cardinality(Parents(c) \ S) \in Nat
  <2>1. Parents(c) \ S \in SUBSET Entities
    BY <1>3
  <2> QED
    BY <1>1, <2>1, FS_Subset, FS_CardinalityType
<1> QED
  BY <1>1, <1>2, <1>3, <1>4

(* A child depends on exactly its parents.                                   *)
LEMMA DependsOnParents ==
    ASSUME Typed, NEW c \in Entities, NEW p \in Entities
    PROVE  DependsOn(c, p) <=> p \in Parents(c)
<1>1. table[p] \in Tables
  BY DEF Typed
<1>2. p \in Nat /\ p >= 1
  BY NAssumption DEF Entities
<1>3. (\A q \in 1..(p - 1) : table[q] # table[p])
          <=> \A j \in Entities : table[j] = table[p] => p <= j
  BY <1>2, NAssumption DEF Entities
<1>4. p \in Parents(c) <=>
          c # p /\ \E t \in Tables : keys[c, t] = "simple" /\ p \in Principal(t)
  BY DEF Parents
<1>5. \A t : p \in Principal(t) <=>
          table[p] = t /\ \A j \in Entities : table[j] = t => p <= j
  BY DEF Principal
<1> QED
  BY <1>1, <1>3, <1>4, <1>5 DEF DependsOn

(* At the start no entity is visited and the roots are ready.                *)
LEMMA InitEstablishes == Init => Inv
<1> SUFFICES ASSUME Init PROVE Inv
  OBVIOUS
<1>1. Len(order) = 0 /\ order \in Seq(Entities) /\ 1..Len(order) = {}
  BY DEF Init
<1>2. Visited = {}
  BY <1>1 DEF Visited, FirstOf
<1>3. \A c \in Entities : incoming[c] = Cardinality(Parents(c))
  BY DEF Init
<1>4. \A c : /\ Parents(c) \ {} = Parents(c)
             /\ IsFiniteSet(Parents(c)) /\ Cardinality(Parents(c)) \in Nat
  <2>1. \A c : Parents(c) \ {} = Parents(c)
    OBVIOUS
  <2> QED
    BY <2>1, EntitiesFinite
<1>5. Typed
  <2>1. table \in [Entities -> Tables]
    BY AssignmentsAssumption DEF Init, Entities
  <2>2. incoming = [c \in Entities |-> Cardinality(Parents(c))]
    BY DEF Init
  <2> QED
    BY <1>1, <1>4, <2>1, <2>2 DEF Typed
<1>6. Counting
  BY <1>2, <1>3, <1>4 DEF Counting
<1>7. ReadyIsNext
  <2>1. ready = {c \in Entities : incoming[c] = 0}
    BY DEF Init
  <2>2. \A c \in Entities : incoming[c] = 0 <=> Parents(c) = {}
    BY <1>3, <1>4, FS_EmptySet
  <2> QED
    BY <1>2, <2>1, <2>2 DEF ReadyIsNext
<1> QED
  BY <1>1, <1>5, <1>6, <1>7 DEF Inv, Once, ParentsFirst, Smallest

(* Visiting the smallest ready entity keeps every conjunct.                  *)
LEMMA VisitKeeps ==
    ASSUME Inv, NEW e \in Entities, Visit(e)
    PROVE  Inv'
<1> DEFINE n == Len(order)
<1>1. n \in Nat /\ order \in Seq(Entities) /\ order' = Append(order, e)
  BY DEF Inv, Typed, Visit
<1>2. /\ Len(order') = n + 1 /\ order' \in Seq(Entities)
      /\ order'[n + 1] = e /\ \A i \in 1..n : order'[i] = order[i]
  BY <1>1
<1>3. \A c : Parents(c)' = Parents(c)
  BY DEF Visit, Parents, Principal
<1>4. \A i \in 0..n : FirstOf(i)' = FirstOf(i)
  BY <1>1, <1>2 DEF FirstOf
<1>5. Visited' = Visited \cup {e}
  BY <1>1, <1>2 DEF Visited, FirstOf
<1>6. e \in ready /\ e \notin Visited /\ Parents(e) \subseteq Visited
  BY DEF Visit, Inv, ReadyIsNext
<1>7. \A f \in Entities \ Visited : Parents(f) \subseteq Visited => e <= f
  BY DEF Visit, Inv, ReadyIsNext
<1>8. Typed' /\ Counting'
  <2>1. ASSUME NEW c \in Entities
        PROVE  incoming'[c] = Cardinality(Parents(c) \ (Visited \cup {e}))
    <3>1. incoming[c] = Cardinality(Parents(c) \ Visited)
      BY DEF Inv, Counting
    <3>2. Parents(c) \ (Visited \cup {e}) = (Parents(c) \ Visited) \ {e}
      OBVIOUS
    <3>3. IsFiniteSet(Parents(c) \ Visited)
      BY EntitiesFinite
    <3>4. incoming'[c] = IF e \in Parents(c) THEN incoming[c] - 1 ELSE incoming[c]
      BY DEF Visit, Children
    <3>5. e \in Parents(c) <=> e \in Parents(c) \ Visited
      BY <1>6
    <3> QED
      BY <3>1, <3>2, <3>3, <3>4, <3>5, FS_RemoveElement
  <2>2. incoming' \in [Entities -> Nat]
    <3>1. incoming' = [c \in Entities |->
              IF c \in Children(e) THEN incoming[c] - 1 ELSE incoming[c]]
      BY DEF Visit
    <3>2. \A c \in Entities : incoming'[c] \in Nat
      BY <2>1, EntitiesFinite
    <3> QED
      BY <3>1, <3>2
  <2>3. Typed'
    BY <1>2, <2>2 DEF Inv, Typed, Visit, Entities
  <2> QED
    BY <1>3, <1>5, <2>1, <2>3 DEF Counting, Entities
<1>9. ReadyIsNext'
  <2>1. \A c \in Entities : incoming'[c] = 0 <=> Parents(c) \subseteq Visited \cup {e}
    <3> SUFFICES ASSUME NEW c \in Entities
                 PROVE  incoming'[c] = 0 <=> Parents(c) \subseteq Visited \cup {e}
      OBVIOUS
    <3>1. incoming'[c] = Cardinality(Parents(c) \ (Visited \cup {e}))
      BY <1>3, <1>5, <1>8 DEF Counting, Entities
    <3>2. IsFiniteSet(Parents(c) \ (Visited \cup {e}))
      BY EntitiesFinite
    <3>3. incoming'[c] = 0 <=> Parents(c) \ (Visited \cup {e}) = {}
      BY <3>1, <3>2, FS_EmptySet
    <3> QED
      BY <3>3
  <2>2. ready' = (ready \ {e}) \cup {c \in Children(e) : incoming'[c] = 0}
    BY DEF Visit
  <2>3. ready = {c \in Entities \ Visited : Parents(c) \subseteq Visited}
    BY DEF Inv, ReadyIsNext
  <2>4. ASSUME NEW c \in Entities, c \in Visited
        PROVE  e \notin Parents(c)
    <3>1. PICK i \in 1..n : c = order[i]
      BY <2>4 DEF Visited, FirstOf
    <3>2. Parents(c) \subseteq FirstOf(i - 1) /\ i - 1 <= n
      BY <3>1, <1>1 DEF Inv, ParentsFirst
    <3>3. FirstOf(i - 1) \subseteq Visited
      BY <3>1, <1>1 DEF FirstOf, Visited
    <3> QED
      BY <3>2, <3>3, <1>6
  <2>5. e \notin Parents(e)
    BY DEF Parents
  <2>6. \A c \in Entities :
            c \in ready' <=> (c \notin Visited \cup {e} /\ Parents(c) \subseteq Visited \cup {e})
    BY <2>1, <2>2, <2>3, <2>4, <2>5 DEF Children
  <2>7. ready' \subseteq Entities
    BY <2>2, <2>3 DEF Children
  <2>8. ready' = {c \in Entities \ (Visited \cup {e}) : Parents(c) \subseteq Visited \cup {e}}
    BY <2>6, <2>7
  <2> QED
    BY <2>8, <1>3, <1>5 DEF ReadyIsNext, Entities
<1>10. Once'
  <2>1. \A i \in 1..n : order[i] # e
    BY <1>6 DEF Visited, FirstOf
  <2>2. \A i, j \in 1..n : order[i] = order[j] => i = j
    BY DEF Inv, Once
  <2>3. ASSUME NEW i \in 1..(n + 1), NEW j \in 1..(n + 1), order'[i] = order'[j]
        PROVE  i = j
    BY <1>1, <1>2, <2>1, <2>2, <2>3
  <2> QED
    BY <1>2, <2>3 DEF Once
<1>11. \A i \in 1..(n + 1) : i \in 1..n \/ i = n + 1
  BY <1>1
<1>12. \A i \in 1..(n + 1) : i - 1 \in 0..n
  BY <1>1
<1>13. n + 1 - 1 = n /\ FirstOf(n) = Visited
  BY <1>1 DEF Visited
<1>14. ParentsFirst'
  <2>1. \A i \in 1..n, c \in Entities :
            c = order[i] => Parents(c) \subseteq FirstOf(i - 1)
    BY DEF Inv, ParentsFirst
  <2>2. ASSUME NEW i \in 1..(n + 1), NEW c \in Entities, c = order'[i]
        PROVE  Parents(c) \subseteq FirstOf(i - 1)
    <3>1. CASE i \in 1..n
      BY <3>1, <2>1, <2>2, <1>2
    <3>2. CASE i = n + 1
      BY <3>2, <2>2, <1>2, <1>6, <1>13
    <3> QED
      BY <3>1, <3>2, <1>11
  <2>3. \A i \in 1..(n + 1), c \in Entities :
            c = order'[i] => Parents(c)' \subseteq FirstOf(i - 1)'
    BY <2>2, <1>3, <1>4, <1>12
  <2> QED
    BY <2>3, <1>2 DEF ParentsFirst, Entities
<1>15. Smallest'
  <2>1. \A i \in 1..n : \A c \in Entities \ FirstOf(i - 1) :
            Parents(c) \subseteq FirstOf(i - 1) => order[i] <= c
    BY DEF Inv, Smallest
  <2>2. \A i \in 1..(n + 1) : \A c \in Entities \ FirstOf(i - 1) :
            Parents(c) \subseteq FirstOf(i - 1) => order'[i] <= c
    BY <2>1, <1>2, <1>7, <1>11, <1>13
  <2>3. \A i \in 1..(n + 1) : \A c \in Entities \ FirstOf(i - 1)' :
            Parents(c)' \subseteq FirstOf(i - 1)' => order'[i] <= c
    BY <2>2, <1>3, <1>4, <1>12
  <2> QED
    BY <2>3, <1>2 DEF Smallest, Entities
<1> QED
  BY <1>8, <1>9, <1>10, <1>14, <1>15 DEF Inv

(* Inv is inductive, so it holds of every state of every behaviour.          *)
LEMMA Invariance == Spec => []Inv
<1>1. Inv /\ [Next]_vars => Inv'
  <2> SUFFICES ASSUME Inv, [Next]_vars PROVE Inv'
    OBVIOUS
  <2>1. CASE Next
    BY <2>1, VisitKeeps DEF Next
  <2>2. CASE UNCHANGED vars
    <3>1. UNCHANGED <<table, incoming, ready, order>>
      BY <2>2 DEF vars
    <3>2. \A c : Parents(c)' = Parents(c)
      BY <2>2 DEF vars, Parents, Principal
    <3>3. (\A i : FirstOf(i)' = FirstOf(i)) /\ Visited' = Visited
      BY <3>1 DEF FirstOf, Visited
    <3> QED
      BY <3>1, <3>2, <3>3 DEF Inv, Typed, Counting, ReadyIsNext, Once, ParentsFirst,
                              Smallest, Entities
  <2> QED
    BY <2>1, <2>2
<1> QED
  BY InitEstablishes, <1>1, PTL DEF Spec

-----------------------------------------------------------------------------
(* A plan visits every entity.                                               *)
LEMMA PlanIsOnto ==
    ASSUME NEW p \in Plans, NEW c \in Entities
    PROVE  \E i \in Entities : p[i] = c
<1>1. p \in [Entities -> Entities] /\ \A i, j \in Entities : p[i] = p[j] => i = j
  BY DEF Plans
<1>2. p \in Injection(Entities, Entities)
  BY <1>1, Fun_IsInj
<1>3. p \in Surjection(Entities, Entities)
  BY <1>2, EntitiesFinite, FS_Injection
<1> QED
  BY <1>3, Fun_SurjectionProperties

(* In a plan that puts parents first, the parents of an entity are all among *)
(* the entities before it.                                                   *)
LEMMA ParentsBefore ==
    ASSUME Typed, NEW p \in Plans, Respects(p), NEW i \in Entities, NEW c \in Parents(p[i])
    PROVE  \E k \in Entities : k < i /\ p[k] = c
<1>1. p[i] \in Entities
  BY DEF Plans
<1>2. c \in Entities
  BY EntitiesFinite
<1>3. PICK k \in Entities : p[k] = c
  BY <1>2, PlanIsOnto
<1>4. DependsOn(p[i], p[k])
  BY <1>1, <1>2, <1>3, DependsOnParents
<1> QED
  BY <1>3, <1>4 DEF Respects

(* When all entities were reached, the order is a plan that puts parents     *)
(* first.                                                                    *)
LEMMA OrderIsPlan ==
    ASSUME Inv, Planned
    PROVE  order \in Plans /\ Respects(order)
<1>1. Len(order) = N /\ order \in Seq(Entities) /\ Typed /\ Once
  BY DEF Planned, Inv, Typed
<1>2. order \in [Entities -> Entities]
  BY <1>1, NAssumption DEF Entities
<1>3. order \in Plans
  BY <1>1, <1>2 DEF Plans, Once, Entities
<1>4. ASSUME NEW i \in Entities, NEW j \in Entities, DependsOn(order[j], order[i])
      PROVE  i < j
  <2>1. order[i] \in Entities /\ order[j] \in Entities
    BY <1>2
  <2>2. order[i] \in Parents(order[j])
    BY <1>1, <1>4, <2>1, DependsOnParents
  <2>3. i \in 1..Len(order) /\ j \in 1..Len(order)
    BY <1>1 DEF Entities
  <2>4. Parents(order[j]) \subseteq FirstOf(j - 1)
    BY <2>1, <2>3 DEF Inv, ParentsFirst
  <2>5. PICK k \in 1..(j - 1) : order[k] = order[i]
    BY <2>2, <2>4 DEF FirstOf
  <2>6. k = i
    BY <1>1, <2>3, <2>5, NAssumption DEF Once
  <2> QED
    BY <2>3, <2>5, <2>6, <1>1, NAssumption
<1> QED
  BY <1>3, <1>4 DEF Respects

(* docs/tracking-unit-of-work.md: the plan is the deterministic one.  Of all *)
(* the orders of the entities that put parents before children,              *)
(* topological_entity_order returns the one closest to the order of the      *)
(* context's fields, for any context and any foreign keys.                   *)
THEOREM PlanLeast == Spec => []PlanIsLeast
<1>1. Inv => PlanIsLeast
  <2> SUFFICES ASSUME Inv, Planned PROVE
          /\ Respects(order)
          /\ \A p \in Plans : Respects(p) /\ p # order => Before(order, p)
    BY DEF PlanIsLeast
  <2>1. order \in Plans /\ Respects(order) /\ Typed
    BY OrderIsPlan DEF Inv
  <2>2. Len(order) = N
    BY DEF Planned
  <2>3. ASSUME NEW p \in Plans, Respects(p), p # order
        PROVE  Before(order, p)
    <3> DEFINE differ == {i \in Entities : p[i] # order[i]}
    <3>1. /\ p \in [Entities -> Entities] /\ order \in [Entities -> Entities]
          /\ \A i, j \in Entities : p[i] = p[j] => i = j
      BY <2>1 DEF Plans
    <3>2. differ # {} /\ differ \subseteq Nat
      <4>1. \E i \in Entities : p[i] # order[i]
        BY <3>1, <2>3
      <4> QED
        BY <4>1, NAssumption DEF Entities
    <3>3. PICK m \in differ : \A i \in differ : m <= i
      <4> HIDE DEF differ
      <4> QED
        BY <3>2, LeastOf
    <3>4. m \in Entities /\ m \in 1..N /\ p[m] # order[m]
      BY DEF Entities
    <3>5. \A k \in 1..(m - 1) : k \in Entities /\ k < m /\ p[k] = order[k]
      BY <3>3, <3>4, NAssumption DEF Entities
    <3>6. p[m] \notin FirstOf(m - 1)
      <4> SUFFICES ASSUME p[m] \in FirstOf(m - 1) PROVE FALSE
        OBVIOUS
      <4>1. PICK k \in 1..(m - 1) : order[k] = p[m]
        BY DEF FirstOf
      <4>2. k \in Entities /\ k < m /\ p[k] = p[m]
        BY <4>1, <3>5
      <4> QED
        BY <4>2, <3>1, <3>4
    <3>7. Parents(p[m]) \subseteq FirstOf(m - 1)
      <4> SUFFICES ASSUME NEW c \in Parents(p[m]) PROVE c \in FirstOf(m - 1)
        OBVIOUS
      <4>1. PICK k \in Entities : k < m /\ p[k] = c
        BY <2>1, <2>3, <3>4, ParentsBefore
      <4>2. k \in 1..(m - 1)
        BY <4>1, <3>4, NAssumption DEF Entities
      <4> QED
        BY <4>1, <4>2, <3>5 DEF FirstOf
    <3>8. p[m] \in Entities /\ order[m] \in Entities
      BY <3>1, <3>4
    <3>9. order[m] <= p[m]
      BY <2>2, <3>4, <3>6, <3>7, <3>8 DEF Inv, Smallest
    <3>10. order[m] < p[m]
      BY <3>4, <3>8, <3>9, NAssumption DEF Entities
    <3> QED
      BY <3>4, <3>5, <3>10 DEF Before
  <2> QED
    BY <2>1, <2>3
<1> QED
  BY Invariance, <1>1, PTL

(* A context with a plan has all its entities reached: of those that were    *)
(* not, the first one in the plan would still be ready.                      *)
LEMMA PlanReachesAll ==
    ASSUME Inv, Done, NEW p \in Plans, Respects(p)
    PROVE  Entities \subseteq Visited
<1> SUFFICES ASSUME NEW d \in Entities \ Visited PROVE FALSE
  OBVIOUS
<1> DEFINE missed == {i \in Entities : p[i] \notin Visited}
<1>1. missed # {} /\ missed \subseteq Nat
  BY PlanIsOnto, EntitiesFinite
<1>2. PICK m \in missed : \A i \in missed : m <= i
  <2> HIDE DEF missed
  <2> QED
    BY <1>1, LeastOf
<1>3. m \in Entities /\ m \in Nat /\ p[m] \in Entities \ Visited
  BY EntitiesFinite DEF Plans
<1>4. Parents(p[m]) \subseteq Visited
  <2> SUFFICES ASSUME NEW c \in Parents(p[m]) PROVE c \in Visited
    OBVIOUS
  <2>1. PICK k \in Entities : k < m /\ p[k] = c
    BY <1>3, ParentsBefore DEF Inv
  <2>2. k \in Nat /\ k \notin missed
    BY <1>2, <1>3, <2>1, EntitiesFinite
  <2> QED
    BY <2>1, <2>2
<1>5. p[m] \in ready
  BY <1>3, <1>4 DEF Inv, ReadyIsNext
<1> QED
  BY <1>5 DEF Done

(* The foreign-key cycle error is raised exactly when no order of the        *)
(* entities puts parents before children: composite keys, self references    *)
(* and repeated foreign keys never cause it, for any context.                *)
THEOREM CycleMeansNoPlan == Spec => []CycleIffNoPlan
<1>1. Inv => CycleIffNoPlan
  <2> SUFFICES ASSUME Inv, Done PROVE Planned <=> \E p \in Plans : Respects(p)
    BY DEF CycleIffNoPlan
  <2>1. Planned => \E p \in Plans : Respects(p)
    BY OrderIsPlan
  <2>2. ASSUME NEW p \in Plans, Respects(p)
        PROVE  Planned
    <3>1. Entities \subseteq Visited
      BY <2>2, PlanReachesAll
    <3>2. order \in Seq(Entities) /\ Len(order) \in Nat
      BY DEF Inv, Typed
    <3>3. order \in [1..Len(order) -> Entities]
      BY <3>2
    <3>4. \A c \in Entities : \E i \in 1..Len(order) : order[i] = c
      BY <3>1 DEF Visited, FirstOf
    <3>5. order \in Surjection(1..Len(order), Entities)
      BY <3>3, <3>4, Fun_IsSurj
    <3>6. order \in Injection(1..Len(order), Entities)
      BY <3>3, Fun_IsInj DEF Inv, Once
    <3>7. IsFiniteSet(1..Len(order)) /\ Cardinality(1..Len(order)) = Len(order)
      BY <3>2, FS_Interval
    <3>8. Cardinality(Entities) = Len(order)
      BY <3>5, <3>6, <3>7, FS_Surjection
    <3> QED
      BY <3>8, EntitiesFinite DEF Planned
  <2> QED
    BY <2>1, <2>2
<1> QED
  BY Invariance, <1>1, PTL
=============================================================================
