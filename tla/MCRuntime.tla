------------------------------ MODULE MCRuntime ------------------------------
(* Instances of Runtime for TLC.                                            *)
EXTENDS Runtime, TLC

CONSTANTS c1, c2

Clients == {c1, c2}
Feed == 1 .. MaxEvents
=============================================================================
