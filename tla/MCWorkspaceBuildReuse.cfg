CONSTANTS
    Frameworks <- MCFrameworks
    RunIds = {r1}
    Configs <- MCChainOnly
    MaxRuns = 2
    NoRoot = NoRoot
    NoRun = NoRun

SPECIFICATION Spec

INVARIANT SkippedIsNotBuilt
CHECK_DEADLOCK FALSE
