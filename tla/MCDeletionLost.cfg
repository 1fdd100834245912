SPECIFICATION Spec
CONSTANTS
    s1 = s1
    s2 = s2
    c1 = c1
    c2 = c2
    Services = {s1}
    NameOf <- OwnName
    Clients = {c1, c2}
    Specs = {1}
    NoSpec = 0
    MaxAttempts = 2
    AttemptCap = 3
    Window = 1
    MaxChanges = 2
    MaxFaults = 2
    Operations = {"suspend", "delete"}
    FaultKinds = {}
    Expired = Expired
    Nobody = Nobody
    NoRequest = NoRequest
INVARIANTS DeletionStands
CHECK_DEADLOCK FALSE
