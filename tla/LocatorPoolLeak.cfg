SPECIFICATION DevSpec
CONSTANTS
    NumHandles = 2
    HandleKinds <- MCHandleKinds
    Fns = {"fs"}
    Faults = {}
    MaxCalls = 2
    ModeTable <- MCModeTable
    Keys = {k1}
    DevFaults = {}
    MaxMediaChanges = 0
    MaxKeys = 0
INVARIANTS HandleBuffersFreed
CHECK_DEADLOCK FALSE
