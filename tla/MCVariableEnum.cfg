CONSTANTS
    v1 = v1
    v2 = v2
    v3 = v3
    v4 = v4
    Empty = Empty
    Names <- MCNames
    NameLen <- MCNameLen
    Faults <- MCFaults

SPECIFICATION Spec

INVARIANT KeyBufferCoversAdvertisedSize
INVARIANT ListsEachVariableOnce
PROPERTY EnumerationEnds

\* vars() returns (EFI_NOT_FOUND) or panics: both end the walk.
CHECK_DEADLOCK FALSE
