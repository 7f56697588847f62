CONSTANTS
    Abrupt <- MCAbrupt
    Dests <- MCDests
    MaxFails = 1
    MaxExpFails = 1

SPECIFICATION Spec

INVARIANTS
    TypeOK
    ResultTellsTheEnd
    PassedMeansWaited

PROPERTIES
    Judged
    VerdictEnds
CHECK_DEADLOCK FALSE
