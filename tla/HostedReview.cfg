SPECIFICATION ReviewSpec
CONSTANTS
    u1 = u1  r1 = r1  d1 = d1  d2 = d2  t1 = t1  v1 = v1  v2 = v2  v3 = v3
    Tenants = {t1}
    Repos = {r1}
    TenantOf <- OneTenant
    Digests = {d1}
    Size <- UnitSize
    Requests = {u1}
    Purgers = {p1}
    DailyUploadLimit = 1
    TenantStorageLimit = 1
    EnvelopeRetention = 1
    IndexRetention = 1
    PrimaryPurgeDelay = 0
    DayLength = 2
    BatchLimit = 1
    MaxTime = 1
    Faults = {"purge"}
    Visits = {v1, v2, v3}
    VisitFaults = {"lost", "audit"}
INVARIANTS DecisionKeepsItsRow NoContentAfterDenial AuditTellsTheTruth
PROPERTY ImplementsDecisionLog
SYMMETRY AllVisits
CHECK_DEADLOCK FALSE
