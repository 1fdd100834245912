SPECIFICATION Spec
CONSTANTS
    s1 = s1
    s2 = s2
    c1 = c1
    c2 = c2
    Services = {s1}
    NameOf <- OwnName
    Clients = {c1}
    Specs = {1}
    NoSpec = 0
    MaxAttempts = 2
    AttemptCap = 3
    Window = 1
    MaxChanges = 1
    MaxFaults = 2
    Operations = {"retry"}
    FaultKinds = {"no_image", "crash"}
    Expired = Expired
    Nobody = Nobody
    NoRequest = NoRequest
PROPERTIES BackoffSeparatesAttempts
CHECK_DEADLOCK FALSE
