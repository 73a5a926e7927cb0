----------------------------- MODULE MCSessions -----------------------------
(* An instance of Sessions for TLC.                                         *)
EXTENDS Sessions, TLC

CONSTANTS e1, e2, p, q

Symmetric == Permutations({e1, e2}) \cup Permutations({p, q})
=============================================================================
