SPECIFICATION Spec
CONSTANTS
    X = X
    Y = Y
    None = None
    Names <- MCNames
    Versions = {0, 1, 2}
    Registered <- MCRegistered
    Shipped <- MCShipped
    Bundles <- MCBundles
    Operations = {"update"}
    MaxRequests = 1
    MaxTogether = 1
    FaultKinds = {}
    MaxFaults = 0
INVARIANTS NoStashIsForgotten
CHECK_DEADLOCK FALSE
