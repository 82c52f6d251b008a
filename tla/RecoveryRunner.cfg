SPECIFICATION Spec
CONSTANTS
    w1 = w1  w2 = w2  w3 = w3
    Units = {w1, w2, w3}
    Retained <- OneRetained
    Order <- TwoSteps
    Commands = {c1, c2, c3}
    StepLimit = 1
    MaxSequence = 6
    Overlap = FALSE
    Faults = {"crash", "disk", "patch", "evidence", "foreign"}
SYMMETRY Symmetry
INVARIANT StopIsExplained
PROPERTY ImplementsRecoveryLedger
CHECK_DEADLOCK FALSE
