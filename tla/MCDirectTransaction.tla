----------------------- MODULE MCDirectTransaction -----------------------
(* Small instances of DirectTransaction.                                     *)
EXTENDS DirectTransaction, TLC

Symmetry == Permutations(Callers)
=============================================================================
