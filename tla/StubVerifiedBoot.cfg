CONSTANTS
    kGood = kGood
    kEvil = kEvil
    Stubs <- MCStubs
    Configs <- MCOverrideConfigs
    KernelContents <- MCKernelContents
    Trusted <- MCTrusted
    KernelSize <- MCKernelSize
    Faults <- MCAllFaults

SPECIFICATION Spec

PROPERTY StubImplementsVerifiedBoot


\* The stub ends: the kernel runs, or main exits, resets or panics.
CHECK_DEADLOCK FALSE
