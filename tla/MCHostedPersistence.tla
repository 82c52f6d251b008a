------------------------- MODULE MCHostedPersistence -------------------------
(* Small instances of HostedPersistence for TLC. *)
EXTENDS HostedPersistence, TLC

CONSTANTS u1, u2, u3, r1, r2, d1, d2, t1

OneTenant == [r \in Repos |-> t1]
UnitSize == [d \in Digests |-> 1]

Symmetry ==
    Permutations(Requests) \cup Permutations(Repos) \cup Permutations(Digests)
=============================================================================
