CONSTANTS
    kGood = kGood
    kEvil = kEvil
    Stubs <- MCStubs
    Configs <- MCConfigs
    KernelContents <- MCKernelContents
    Trusted <- MCTrusted
    KernelSize <- MCKernelSize
    Faults <- MCNoFaults

SPECIFICATION Spec

INVARIANT OnlyTrustedKernelStarted


\* The stub ends: the kernel runs, or main exits, resets or panics.
CHECK_DEADLOCK FALSE
