--------------------------- MODULE MCHostedSession ---------------------------
(* Small instances of HostedSession for TLC.                               *)
EXTENDS HostedSession, TLC

CONSTANTS c1, c2, c3, r1, r2

\* one request needs the role reviewer, the other is content with viewer
OneWriter == [r \in Requests |-> IF r = r1 THEN "appendDecision" ELSE "read"]

\* callbacks from the right browser are interchangeable
Symmetry == Permutations(Callbacks \ Strangers)
=============================================================================
