SPECIFICATION Spec
CONSTANTS
    u1 = u1  u2 = u2  u3 = u3  r1 = r1  r2 = r2  d1 = d1  d2 = d2  t1 = t1
    Tenants = {t1}
    Repos = {r1, r2}
    TenantOf <- OneTenant
    Digests = {d1, d2}
    Size <- UnitSize
    Requests = {u1, u2, u3}
    Purgers = {p1}
    DailyUploadLimit = 1
    TenantStorageLimit = 1
    EnvelopeRetention = 1
    IndexRetention = 2
    PrimaryPurgeDelay = 1
    DayLength = 2
    BatchLimit = 2
    MaxTime = 3
    Faults = {"crash", "purge"}
SYMMETRY Symmetry
INVARIANTS TypeOK LiveIndexHasObject DailyUploadBound StorageOvershootBound
PROPERTY ImplementsEvidenceStore
