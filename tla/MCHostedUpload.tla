---------------------------- MODULE MCHostedUpload ----------------------------
(* A small instance of HostedUpload for TLC.                               *)
EXTENDS HostedUpload, TLC

CONSTANTS s1, s2, k1, k2

\* uploads are interchangeable, and so are keys
Symmetry == Permutations(Syncs) \cup Permutations(KeyIds)
=============================================================================
