SPECIFICATION Spec
CONSTANTS
    b1 = b1
    b2 = b2
    Data <- MCData
    BufLens = {1}
    MaxSent = 2
    MaxOps = 3
    Faults = {"broken"}
PROPERTY ReadReportsDeviceError
CHECK_DEADLOCK FALSE
