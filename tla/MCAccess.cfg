SPECIFICATION Spec
CONSTANTS
    X = X
    Y = Y
    Root = Root
    Caller = Caller
    Fresh = Fresh
    A1 = A1
    A2 = A2
    Names <- MCNames
    Keys <- MCKeys
    Ids = {1, 2}
    Starting <- MCStarting
    Granted <- MCGranted
    Attached <- MCAttached
    Handlers <- MCHandlers
    MaxChanges = 3
    MaxReplaced = 2
SYMMETRY MCSymmetry
INVARIANTS TypeOK AttachmentsHold
PROPERTIES OnlyTheEntitledWake TakenBackIsTurnedAway OthersKeepAttachments
CHECK_DEADLOCK FALSE
