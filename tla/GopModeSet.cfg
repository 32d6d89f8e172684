SPECIFICATION DevSpec
CONSTANTS
    NumHandles = 1
    HandleKinds <- MCHandleKinds
    Fns = {"gop"}
    Faults = {}
    MaxCalls = 2
    ModeTable <- MCModeTable
    Keys = {k1}
    DevFaults = {"setMode"}
    MaxMediaChanges = 0
    MaxKeys = 0
INVARIANT GopModeMatchesInfo
CHECK_DEADLOCK FALSE
