CONSTANTS
    kGood = kGood
    kEvil = kEvil
    Absent = Absent
    KernelContents <- MCKernelContents
    Trusted <- MCTrusted
    CmdFileTexts <- MCCmdFileTexts
    Args <- MCArgs
    DefaultCmdLine <- MCDefaultCmdLine
    Faults <- MCAllFaults
    MaxAttempts = 2
    MaxTextLen <- MCMaxTextLen

SPECIFICATION Spec

INVARIANT TypeOK
INVARIANT LoadedImageIsReadBuffer
INVARIANT StartedImageGetsItsCmdline

CHECK_DEADLOCK FALSE
