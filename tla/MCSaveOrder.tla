---------------------------- MODULE MCSaveOrder ----------------------------
(* SaveOrder on small instances.                                            *)
EXTENDS SaveOrder, TLC

(* Every sharing of tables between entities, up to the names of the tables.  *)
Sharings ==
    {f \in [1..N -> Tables] : \A i \in 1..N : f[i] = 1 \/ \E j \in 1..(i - 1) : f[i] <= f[j] + 1}
============================================================================
