CONSTANTS
    k1 = k1  k2 = k2
    v1 = v1  v2 = v2
    r1 = r1  r2 = r2
    Keys = {k1, k2}
    Values = {v1, v2}
    Requests = {r1, r2}
    TTL = 1
    AccessTTL = 2
    MaxTime = 2
    Null = Null
SPECIFICATION Spec
SYMMETRY Symmetry
INVARIANTS
    LoginsFresh
    TokensBacked
    IInv
PROPERTIES
    OneTimeUse
