SPECIFICATION RecoverySpec
CONSTANTS
    Units <- MCUnits
    Ghosts <- MCGhosts
    Plans <- MCPlans
    MaxDependencies = 2
    WithGhost = 2
    MaxDiagnostics = 4
    OwnReasons = {CLAIM_INVALID}
    RolledBack = {"pass"}
    Replaced <- MCReplaced
    MaxTargets = 2
    MaxRewired = 1
INVARIANTS
    CanonicalOrder
    ReasonsAreFinal
    InvalidIsConsequence
    CutExplainsInvalid
    ImpactIsCanonical
    CarriedStandOnCarried
PROPERTIES
    DiagnosesPlan
    GateEnds
