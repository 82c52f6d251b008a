--------------------------- MODULE MCRecoveryRunner ---------------------------
(* Small instances of RecoveryRunner for TLC. *)
EXTENDS RecoveryRunner, TLC

CONSTANTS w1, w2, w3

OneRetained == <<w1>>
TwoSteps == <<w2, w3>>
OneStep == <<w2>>

Symmetry == Permutations(Commands)
=============================================================================
