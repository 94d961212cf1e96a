CONSTANTS
    k1 = k1  k2 = k2
    p1 = p1  p2 = p2
    a1 = a1  a2 = a2
    c1 = c1  c2 = c2
    n1 = n1  n2 = n2
    v1 = v1  v2 = v2
    r1 = r1  r2 = r2
    Owners = {k1, k2}
    PlatformIds = {p1, p2}
    AgentIds = {a1, a2}
    CapabilityIds = {c1}
    Names = {n1}
    Contents = {v1, v2}
    Requests = {r1, r2}
    Served = {"quickIdentity", "heartbeat", "createAgent", "createCapability", "patchCapability", "deleteAgent", "deleteCapability"}
    Null = Null
SPECIFICATION Spec
SYMMETRY Symmetry
INVARIANTS
    RegisteredAsAsked
PROPERTIES
    OnlyItsPlatformWrites
