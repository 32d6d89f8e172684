CONSTANTS
    g1 = g1
    g2 = g2
    g3 = g3
    Unlocked = Unlocked
    Callers <- MCCallers
    Entries <- MCLockedEntries

SPECIFICATION FairSpec

INVARIANT TypeOK
INVARIANT SerializedFirmwareCalls

PROPERTY MuxHandedOn
