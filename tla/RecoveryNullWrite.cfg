CONSTANTS
    kGood = kGood
    kEvil = kEvil
    Absent = Absent
    KernelContents <- MCKernelContents
    Trusted <- MCTrusted
    CmdFileTexts <- MCCmdFileTexts
    Args <- MCArgs
    DefaultCmdLine <- MCDefaultCmdLine
    Faults <- MCFaultsHandle
    MaxAttempts = 2
    MaxTextLen <- MCMaxTextLen

SPECIFICATION Spec

INVARIANT CmdlineWrittenOnlyIntoLoadedImage

CHECK_DEADLOCK FALSE
