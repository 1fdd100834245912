SPECIFICATION Spec
CONSTANTS
    s1 = s1
    s2 = s2
    c1 = c1
    c2 = c2
    Services = {s1}
    NameOf <- OwnName
    Clients = {c1, c2}
    Specs = {1}
    NoSpec = 0
    MaxAttempts = 2
    AttemptCap = 3
    Window = 1
    MaxChanges = 2
    MaxFaults = 1
    Operations = {"suspend", "resume", "delete", "retry"}
    FaultKinds = {"crash", "vanish", "docker", "worker", "exit", "unhealthy", "build", "no_image"}
    Expired = Expired
    Nobody = Nobody
    NoRequest = NoRequest
SYMMETRY Alike
INVARIANTS TypeOK TombstoneInv
PROPERTIES RetiredNotRevived RetiredLeavesNoContainer BudgetReturnedOnlyWhenEarned SpentBudgetStopsBringUps OtherAttemptsAreSpaced
CHECK_DEADLOCK FALSE
