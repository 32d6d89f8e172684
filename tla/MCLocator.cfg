SPECIFICATION DevSpec
CONSTANTS
    NumHandles = 2
    HandleKinds <- MCHandleKinds
    Fns <- MCAllFns
    Faults <- MCAllFaults
    MaxCalls = 2
    ModeTable <- MCModeTable
    Keys = {k1}
    DevFaults <- MCDevFaults
    MaxMediaChanges = 1
    MaxKeys = 1
INVARIANTS TypeOK EnumerationIsExact GopInitPicksLargest DiskResultIsHonest
CHECK_DEADLOCK FALSE
