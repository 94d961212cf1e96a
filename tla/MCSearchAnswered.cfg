SPECIFICATION Spec
CONSTANTS
    a1 = a1
    a2 = a2
    a3 = a3
    Null = Null
    PlatformIds = {p1}
    AgentIds = {a1, a2, a3}
    CapabilityIds = {c1}
    Clients = {q1}
    Times = {1, 2, 3}
    Profiles <- MCProfiles
    Filters <- MCFilters
    Limits <- MCLimits
    FirstOffsets <- MCFirstOffsets
    DefaultLimit = 2
    MaxLimit = 2
SYMMETRY AgentSymmetry
INVARIANTS
    SearchAnswered
