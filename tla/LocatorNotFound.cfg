SPECIFICATION DevSpec
CONSTANTS
    NumHandles = 2
    HandleKinds <- MCHandleKinds
    Fns <- MCAllFns
    Faults = {}
    MaxCalls = 2
    ModeTable <- MCModeTable
    Keys = {k1}
    DevFaults = {}
    MaxMediaChanges = 0
    MaxKeys = 0
INVARIANTS NotFoundIsEmpty
CHECK_DEADLOCK FALSE
