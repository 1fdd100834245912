SPECIFICATION Spec
CONSTANTS
    X = X
    Y = Y
    M1 = M1
    M2 = M2
    D1 = D1
    D2 = D2
    D3 = D3
    W1 = W1
    W2 = W2
    Names <- MCNames
    Devices <- MCDevices
    Models <- MCModels
    Workers <- MCWorkers
    Asks <- MCAsks
    First <- MCFirst
    Operations = {"create", "delete", "update", "drop"}
    MaxRequests = 3
    FaultKinds = {"route", "commit", "crash", "sync"}
    MaxEvents = 3
SYMMETRY MCSymmetry
INVARIANTS TypeOK RoutesFollowServices NoOvercommit HoldsWhatWasAsked ServedModelsAreLive
CHECK_DEADLOCK FALSE
