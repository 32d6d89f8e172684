SPECIFICATION DevSpec
CONSTANTS
    NumHandles = 1
    HandleKinds <- MCHandleKinds
    Fns = {"disks"}
    Faults = {}
    MaxCalls = 2
    ModeTable <- MCModeTable
    Keys = {k1}
    DevFaults = {}
    MaxMediaChanges = 1
    MaxKeys = 0
INVARIANT DiskPreconditionsHonoured
CHECK_DEADLOCK FALSE
