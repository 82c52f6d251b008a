SPECIFICATION Spec
CONSTANTS
    s1 = s1  s2 = s2  k1 = k1  k2 = k2
    Syncs = {s1, s2}
    KeyIds = {k1, k2}
    CacheLife = 1
    FetchLimit = 1
    TokenLife = 3
    ClockSkew = 1
    MaxTime = 3
    Flaws = {"unbound", "source"}
    Changing = {"installed", "selected"}
    Faults = {"keys", "provider", "store", "answer"}
PROPERTIES StoredWasBound KeyTrustIsBounded
SYMMETRY Symmetry
CHECK_DEADLOCK FALSE
