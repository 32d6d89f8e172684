SPECIFICATION DevSpec
CONSTANTS
    NumHandles = 2
    HandleKinds <- MCHandleKinds
    Fns = {"dhcp"}
    Faults <- MCAllFaults
    MaxCalls = 2
    ModeTable <- MCModeTable
    Keys = {k1}
    DevFaults = {}
    MaxMediaChanges = 0
    MaxKeys = 0
INVARIANTS ChildrenAccounted
CHECK_DEADLOCK FALSE
