SPECIFICATION Spec
CONSTANTS
    c1 = c1  c2 = c2  c3 = c3  r1 = r1  r2 = r2
    Callbacks = {c1, c2, c3}
    Strangers = {c3}
    Requests = {r1, r2}
    ActionOf <- OneWriter
    ForeignTenant = {}
    LoginTtl = 1
    SessionMax = 2
    RenewWindow = 1
    AccessLives = {1, 2}
    Grantable = {"none", "viewer", "reviewer"}
    RefreshLives = {1, 3}
    MaxTime = 2
    MaxGeneration = 3
    Faults = {"provider", "lost", "crash", "database"}
SYMMETRY Symmetry
INVARIANTS StrandedOnlyByFault GrantIsBacked
PROPERTY CredentialMovesForward
CHECK_DEADLOCK FALSE
