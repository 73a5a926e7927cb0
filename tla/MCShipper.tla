----------------------------- MODULE MCShipper -----------------------------
(* Instances of Shipper for TLC.                                            *)
EXTENDS Shipper

CONSTANTS a1, a2

Alerts == {a1, a2}
NoGhosts == {}
OneGhost == {a2}
SomeRows == [k \in Kind |-> CASE k = "download" -> 3 [] k = "triage" -> 1 [] OTHER -> 2]
UpdateRows == [k \in Kind |-> CASE k \in {"alert", "verification"} -> 2 [] OTHER -> 0]
=============================================================================
