SPECIFICATION DevSpec
CONSTANTS
    NumHandles = 2
    HandleKinds <- MCHandleKinds
    Fns = {"snp"}
    Faults = {}
    MaxCalls = 2
    ModeTable <- MCModeTable
    Keys = {k1}
    DevFaults = {}
    MaxMediaChanges = 0
    MaxKeys = 0
INVARIANTS SnpEnumerationIsExact
CHECK_DEADLOCK FALSE
