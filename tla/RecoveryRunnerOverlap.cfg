SPECIFICATION Spec
CONSTANTS
    w1 = w1  w2 = w2  w3 = w3
    Units = {w1, w2, w3}
    Retained <- OneRetained
    Order <- OneStep
    Commands = {c1, c2, c3}
    StepLimit = 1
    MaxSequence = 4
    Overlap = TRUE
    Faults = {"crash", "patch", "foreign"}
SYMMETRY Symmetry
INVARIANTS WritersSatisfyVerifier BranchIsWitnessed
CHECK_DEADLOCK FALSE
