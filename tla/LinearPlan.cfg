SPECIFICATION Spec
CONSTANTS
    a = a  b = b  None = None  Torn = Torn
    Units <- Two
    Deps <- Chain
    Source = "P1"
    Other = "P2"
    ClaimOf <- Claims
    Evaluation <- Evaluate
    Blueprints <- Three
    Healthy <- Whole
    Mishaps = {"crash", "mixed", "trailer", "copy", "rewrite", "scope", "merge", "blueprint", "other", "edit", "reset", "rebase", "sandbox"}
    MaxMishaps = 2
    MaxCommits = 7
    MaxLength = 5
INVARIANTS PassIsEarned PreservedWasValid
PROPERTY PassIsFinal
CHECK_DEADLOCK FALSE
