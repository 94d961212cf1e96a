CONSTANTS
    k1 = k1  k2 = k2  k3 = k3
    p1 = p1  p2 = p2
    a1 = a1  a2 = a2
    b1 = b1  b2 = b2
    r1 = r1  r2 = r2  r3 = r3
    Keys = {k1}
    PlatformIds = {p1}
    AgentIds = {a1}
    Beats = {b1}
    Requests = {r1, r2, r3}
    Null = Null
SPECIFICATION FairSpec
INVARIANTS
    DeadlockNeedsClaim
    IInv
PROPERTIES
    WritesAreLocked
    EveryRequestAnswered
