SPECIFICATION CiSpec
CONSTANTS
    None = None
    Null = Null
    Missing = Missing
    Units <- UnitsDef
    Deps <- DepsDef
    Satisfying <- SatisfyingDef
    Blueprints <- BlueprintsDef
    Troubles = {"plan", "sandbox", "snapshot", "ANCESTRY_AMBIGUOUS", "HEAD_RANGE_NON_LINEAR", "TEXT_CONFLICT", "CANDIDATE_BLUEPRINT_INVALID", "CANDIDATE_EVALUATION_FAILED", "policy", "disk"}
    MaxTarget = 2
    MaxHead = 2
INVARIANTS
    CompatibleIsSafe
    CompatibleStoodTogether
    VerifierNeverRefuses
    SuccessIsEarned
