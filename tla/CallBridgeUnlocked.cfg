CONSTANTS
    g1 = g1
    g2 = g2
    g3 = g3
    Unlocked = Unlocked
    Callers <- MCCallers
    Entries <- MCAllEntries

SPECIFICATION Spec

INVARIANT SerializedFirmwareCalls
