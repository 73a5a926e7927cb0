----------------------------- MODULE MCRegistry -----------------------------
(* Instances of Registry for TLC.                                           *)
EXTENDS Registry, TLC

CONSTANTS p1, p2

Processes == {p1, p2}

Interchangeable == Permutations(Processes)
=============================================================================
