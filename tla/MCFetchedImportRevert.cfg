CONSTANTS
    Versions <- MCVersions
    Dist <- MCDist
    Inputs <- MCInputs
    Headers <- MCHeaders
    Keys = {"linux-llvm"}
    Kinds = {"source-build"}
    MaxBuilds = 3
    MaxSlips = 0
    Nothing = Nothing

SPECIFICATION Spec

INVARIANT NothingPassed

CHECK_DEADLOCK FALSE
