---------------------------- MODULE MCFileSource ----------------------------
(* Instances of FileSource for TLC.                                         *)
EXTENDS FileSource, TLC

CONSTANTS p1, p2

Paths == {p1, p2}
=============================================================================
