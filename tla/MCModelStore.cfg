SPECIFICATION Spec
CONSTANTS
    X = X
    Y = Y
    None = None
    Names <- MCNames
    Versions = {0, 1, 2}
    Registered <- MCRegistered
    Shipped <- MCShipped
    Bundles <- MCBundles
    Operations = {"register", "update", "rename", "delete"}
    MaxRequests = 3
    MaxTogether = 2
    FaultKinds = {"save", "move", "flush", "commit", "undo", "discard", "refresh", "delete", "crash", "sweep"}
    MaxFaults = 2
INVARIANTS TypeOK RowsAreBacked
PROPERTIES StashWaitsForItsUpdate OnlyCopyIsKept OrphansAreSwept
CHECK_DEADLOCK FALSE
