SPECIFICATION GroupSpec
CONSTANTS
    Null = Null
    Missing = Missing
    Files = {"f", "g", "h"}
    Policy = "policy"
    Plans = {"A", "B"}
    UnitsOf <- UnitsDef
    NeedsOf <- NeedsDef
    Edit <- EditDef
    Holds <- HoldsDef
    BlueprintOf <- BlueprintDef
    MaxObjects = 8
    MaxWidth = 8
    MaxLine = 4
    MaxCommits = 5
    MaxMishaps = 1
INVARIANTS
    GroupPassIsEarned
    JoinsLoseNothing
    VerifierAcceptsGroup
