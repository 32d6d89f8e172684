CONSTANTS
    kGood = kGood
    kEvil = kEvil
    Absent = Absent
    KernelContents <- MCKernelContents
    Trusted <- MCTrusted
    CmdFileTexts <- MCCmdFileTexts
    Args <- MCArgs
    DefaultCmdLine <- MCDefaultCmdLine
    Faults <- MCNoFaults
    MaxAttempts = 2
    MaxTextLen <- MCMaxTextLen

SPECIFICATION Spec

INVARIANT AttemptReleasesResources

CHECK_DEADLOCK FALSE
