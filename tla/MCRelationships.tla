--------------------------- MODULE MCRelationships ---------------------------
(* A small instance of Relationships: two principals and a dependent in the *)
(* tables and in the tracker, one more entity to add.                       *)
EXTENDS Relationships

Context(required, lazy, hasOne, wired) ==
    [required |-> required, lazy |-> lazy, has_one |-> hasOne, wired |-> wired]
MCContexts == {Context(TRUE, FALSE, TRUE, FALSE), Context(TRUE, FALSE, FALSE, TRUE),
               Context(FALSE, TRUE, FALSE, FALSE), Context(FALSE, TRUE, FALSE, TRUE)}
MCLoaded == [principals |-> 2, dependents |-> 1]
=============================================================================
