CONSTANTS
    Procs = {p1, p2}
    Keys = {k1, k2}
    People = {human}
    AgentIds = {a1, a2}
    Missing = Missing
    Empty = Empty
    Null = Null
SPECIFICATION FairSpec
INVARIANTS
    KeyKept
    SameAgent
    IInv
PROPERTIES
    OwnerRefreshed
