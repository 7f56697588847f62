CONSTANTS
    UserFd = 3
    MaxFd = 7
    MayLack <- MCMayLack
    PipeSize = 1
    MaxText = 2
    MaxIntr = 2

SPECIFICATION Spec

INVARIANTS
    TypeOK
    ChildStreams
    ParentKeeps
    CaptureWhole
    TmpTidy

PROPERTY CaptureEnds
CHECK_DEADLOCK FALSE
