SPECIFICATION DevSpec
CONSTANTS
    NumHandles = 2
    HandleKinds <- MCHandleKinds
    Fns = {"gop", "disks", "textin"}
    Faults = {}
    MaxCalls = 2
    ModeTable <- MCModeTable
    Keys = {k1}
    DevFaults <- MCDevFaults
    MaxMediaChanges = 1
    MaxKeys = 1
PROPERTY WrappersImplementDeviceContract
CHECK_DEADLOCK FALSE
