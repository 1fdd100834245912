SPECIFICATION Spec
CONSTANTS
    X = X
    Y = Y
    Conf = Conf
    F1 = F1
    F2 = F2
    None = None
    Partial = Partial
    Failed = Failed
    Config = Conf
    Names <- MCNames
    Versions = {1, 2}
    Files <- MCFiles
    VersionOf <- MCVersionOf
    Registered <- MCRegistered
    Shipped <- MCShipped
    MaxCalls = 3
    FaultKinds = {"interruption", "copy"}
    MaxFaults = 1
INVARIANTS TypeOK MovesKeepTheOnlyCopy
PROPERTIES CallsEnd ImplementsModelFiles
CHECK_DEADLOCK FALSE
