--------------------------- MODULE MCChangeTracker ---------------------------
(* Small instances of ChangeTracker.                                         *)
EXTENDS ChangeTracker, TLC

Symmetry == Permutations(Keys) \cup Permutations(Values) \cup Permutations(Handles)
=============================================================================
