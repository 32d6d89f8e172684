SPECIFICATION Spec
CONSTANTS
    b1 = b1
    b2 = b2
    Data <- MCData
    BufLens = {0, 1}
    MaxSent = 2
    MaxOps = 3
    Faults = {"reset", "attributes", "write"}
PROPERTIES SettingsPreserved ReadReturnsArrivedData
CHECK_DEADLOCK FALSE
