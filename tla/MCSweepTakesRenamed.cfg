SPECIFICATION Spec
CONSTANTS
    X = X
    Y = Y
    None = None
    Names <- MCNames
    Versions = {0, 1, 2}
    Registered <- MCRegistered
    Shipped <- MCShipped
    Bundles <- MCBundles
    Operations = {"register", "rename"}
    MaxRequests = 1
    MaxTogether = 1
    FaultKinds = {"crash"}
    MaxFaults = 1
PROPERTIES SweepSparesTheLastCopy
CHECK_DEADLOCK FALSE
