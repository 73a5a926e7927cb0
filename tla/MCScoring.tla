----------------------------- MODULE MCScoring -----------------------------
(* Instances of Scoring for TLC.                                            *)
EXTENDS Scoring, TLC

CONSTANTS e1, e2

Entities == {e1, e2}
Times == 1 .. 4
Symmetric == Permutations(Entities)
=============================================================================
