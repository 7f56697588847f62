CONSTANTS
    Versions <- MCVersions
    Dist <- MCDist
    Inputs <- MCInputs
    Headers <- MCHeaders
    Keys = {"linux-llvm"}
    Kinds = {"source-build"}
    MaxBuilds = 2
    MaxSlips = 0
    Nothing = Nothing

SPECIFICATION Spec

INVARIANT StagedIsBuilt

CHECK_DEADLOCK FALSE
