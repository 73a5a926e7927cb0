----------------------------- MODULE MCDelivery -----------------------------
(* Instances of Delivery for TLC: the values its configurations share.      *)
EXTENDS Delivery, TLC

CONSTANTS a1, a2, u1, u2, k1, k2, k3

Addresses == {a1, a2}
UserAgents == {u1, u2}
Exposures == {k1, k2, k3}

\* Addresses, user-agents and alertable keys are only compared for equality.
Symmetric == Permutations(Addresses) \cup Permutations(UserAgents)
ExposureSymmetry == Permutations(Addresses) \cup Permutations({k1, k2})
=============================================================================
