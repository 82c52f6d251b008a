---------------------------- MODULE MCHostedReview ----------------------------
(* Small instances of HostedReview for TLC.                                *)
EXTENDS HostedReview, TLC

CONSTANTS u1, r1, d1, d2, t1, v1, v2, v3

OneTenant == [r \in Repos |-> t1]
UnitSize == [d \in Digests |-> 1]

\* the visits are interchangeable
AllVisits == Permutations(Visits)
=============================================================================
