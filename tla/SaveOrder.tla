------------------------------ MODULE SaveOrder ------------------------------
(* topological_entity_order and save_changes_operation_plan of crates/       *)
(* sql-orm/src/tracking.rs: the order in which save_changes visits the       *)
(* entity types of a context.  Entities are their positions in the context;  *)
(* a foreign key names the table it references.                              *)
EXTENDS Naturals, Sequences, FiniteSets

CONSTANTS
    N,              \* entity types in the context
    Tables,         \* physical tables
    Assignments     \* the possible tables of the entities, [1..N -> Tables]

ASSUME NAssumption == N \in Nat
ASSUME AssignmentsAssumption == Assignments \subseteq [1..N -> Tables]

VARIABLES
    table,      \* the table of each entity
    keys,       \* what foreign key of an entity references a table, if any
    incoming,   \* incoming_edge_count
    ready,      \* entities with no unvisited parent
    order       \* the order so far

vars == <<table, keys, incoming, ready, order>>

Entities == 1..N

(* The first entity mapped to a table stands for it; a table outside the     *)
(* context has none.                                                         *)
Principal(t) ==
    {i \in Entities : table[i] = t /\ \A j \in Entities : table[j] = t => i <= j}

(* Mutant: a self reference is an edge.                                      *)
ParentsAndSelf(c) ==
    UNION {Principal(t) : t \in {u \in Tables : keys[c, u] = "simple"}}

(* Composite keys, self references and repeated edges are left out.          *)
Parents(c) ==
    (UNION {Principal(t) : t \in {u \in Tables : keys[c, u] = "simple"}}) \ {c}

Children(p) == {c \in Entities : p \in Parents(c)}

Init ==
    /\ table \in Assignments
    /\ keys \in [Entities \X Tables -> {"none", "simple", "composite"}]
    /\ incoming = [c \in Entities |-> Cardinality(Parents(c))]
    /\ ready = {c \in Entities : incoming[c] = 0}
    /\ order = <<>>

(* Mutant: the largest ready index first.                                    *)
VisitLast(e) ==
    /\ e \in ready /\ \A f \in ready : e >= f
    /\ order' = Append(order, e)
    /\ incoming' = [c \in Entities |->
           IF c \in Children(e) THEN incoming[c] - 1 ELSE incoming[c]]
    /\ ready' = (ready \ {e}) \cup {c \in Children(e) : incoming'[c] = 0}
    /\ UNCHANGED <<table, keys>>

(* Kahn's algorithm, the smallest ready index first.                         *)
Visit(e) ==
    /\ e \in ready /\ \A f \in ready : e <= f
    /\ order' = Append(order, e)
    /\ incoming' = [c \in Entities |->
           IF c \in Children(e) THEN incoming[c] - 1 ELSE incoming[c]]
    /\ ready' = (ready \ {e}) \cup {c \in Children(e) : incoming'[c] = 0}
    /\ UNCHANGED <<table, keys>>

Next == \E e \in Entities : Visit(e)

Spec == Init /\ [][Next]_vars

(* The plan, or the foreign-key cycle error when an entity was not reached.  *)
Done == ready = {}
Planned == Done /\ Len(order) = N

-----------------------------------------------------------------------------
(* Properties *)

(* The orders of all entities. *)
Plans == {p \in [Entities -> Entities] : \A i, j \in Entities : i # j => p[i] # p[j]}
(* A child depends on the first entity mapped to the table it references by  *)
(* a simple foreign key.                                                     *)
DependsOn(c, p) ==
    /\ c # p /\ keys[c, table[p]] = "simple"
    /\ \A q \in 1..(p - 1) : table[q] # table[p]
Respects(p) == \A i, j \in Entities : DependsOn(p[j], p[i]) => i < j
Before(p, q) ==
    \E i \in Entities : p[i] < q[i] /\ \A j \in 1..(i - 1) : p[j] = q[j]

(* docs/tracking-unit-of-work.md: the plan is the deterministic one.  Among  *)
(* the orders that put parents before children it is the one closest to the  *)
(* order of the context's fields.                                            *)
PlanIsLeast ==
    Planned =>
        /\ Respects(order)
        /\ \A p \in Plans : Respects(p) /\ p # order => Before(order, p)

(* The cycle error is raised exactly when no order exists: composite keys,   *)
(* self references and repeated foreign keys never cause it.                 *)
CycleIffNoPlan == Done => (Planned <=> \E p \in Plans : Respects(p))
=============================================================================
