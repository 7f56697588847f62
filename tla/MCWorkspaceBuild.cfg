CONSTANTS
    Frameworks <- MCFrameworks
    RunIds = {r1, r2}
    Configs <- MCConfigs
    MaxRuns = 2
    NoRoot = NoRoot
    NoRun = NoRun

SPECIFICATION Spec

INVARIANTS
    TypeOK
    PrereqsHold
    SkippedForReason
    CauseIsReal
    ExitIsTrue
    LatestKept

CHECK_DEADLOCK FALSE
