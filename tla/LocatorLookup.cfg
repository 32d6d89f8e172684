SPECIFICATION DevSpec
CONSTANTS
    NumHandles = 2
    HandleKinds <- MCHandleKinds
    Fns <- MCAllFns
    Faults <- MCAllFaults
    MaxCalls = 2
    ModeTable <- MCModeTable
    Keys = {k1}
    DevFaults = {}
    MaxMediaChanges = 0
    MaxKeys = 0
PROPERTY LookupImplementsProtocolLookup
CHECK_DEADLOCK FALSE
