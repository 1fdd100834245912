SPECIFICATION FairSpec
CONSTANTS
    s1 = s1
    s2 = s2
    c1 = c1
    c2 = c2
    Services = {s1, s2}
    NameOf <- SharedName
    Clients = {c1}
    Specs = {1, 2}
    NoSpec = 0
    MaxAttempts = 1
    AttemptCap = 2
    Window = 2
    MaxChanges = 1
    MaxFaults = 1
    Operations = {"suspend", "edit", "delete"}
    FaultKinds = {"worker", "docker", "crash"}
    Expired = Expired
    Nobody = Nobody
    NoRequest = NoRequest
PROPERTIES WantedIsServed UnwantedGoesDown DeletedIsRetired
CHECK_DEADLOCK FALSE
