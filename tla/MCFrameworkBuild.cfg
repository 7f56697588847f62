CONSTANTS
    Units <- MCUnits
    RunIds = {r1, r2}
    Graphs <- MCGraphs
    MaxRuns = 3
    NoUnit = NoUnit
    NoRun = NoRun

SPECIFICATION Spec

INVARIANTS
    TypeOK
    RootIsCause
    ReportIsTrue
    LatestKept

PROPERTY Promise
CHECK_DEADLOCK FALSE
