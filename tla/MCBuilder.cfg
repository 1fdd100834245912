SPECIFICATION FairSpec
CONSTANTS
    Images = {h1, h2}
    Workers = {w1, w2}
    Handlers = {a1, a2}
    MaxRetries = 1
    StaleAfter = 1
    MaxAsks = 2
    MaxFaults = 2
    FaultKinds = {"error", "timeout", "death", "redelivery", "broker", "enqueue"}
INVARIANTS TypeOK ReadyIsPushed
PROPERTIES AskedBuildIsNotReaped BuilderImplementsImageLife
CHECK_DEADLOCK FALSE
