CONSTANTS
    kGood = kGood
    kEvil = kEvil
    Absent = Absent
    KernelContents <- MCKernelContents
    Trusted <- MCTrusted
    CmdFileTexts <- MCCmdFileTexts
    Args <- MCArgs
    DefaultCmdLine <- MCDefaultCmdLine
    Faults <- MCFaultsRead
    MaxAttempts = 2
    MaxTextLen <- MCMaxTextLen

SPECIFICATION Spec

INVARIANT UnreadableCmdlineFallsBackToDefault

CHECK_DEADLOCK FALSE
