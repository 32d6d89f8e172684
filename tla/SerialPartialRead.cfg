SPECIFICATION Spec
CONSTANTS
    b1 = b1
    b2 = b2
    Data <- MCData
    BufLens = {2}
    MaxSent = 2
    MaxOps = 3
    Faults = {"reset", "attributes", "write"}
INVARIANT NoByteLost
CHECK_DEADLOCK FALSE
