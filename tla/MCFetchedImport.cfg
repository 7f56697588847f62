CONSTANTS
    Versions <- MCVersions
    Dist <- MCDist
    Inputs <- MCInputs
    Headers <- MCHeaders
    Keys = {"linux-llvm", "linux-gcc"}
    Kinds = {"source-build", "binary"}
    MaxBuilds = 3
    MaxSlips = 1
    Nothing = Nothing

SPECIFICATION Spec

INVARIANTS
    TypeOK
    OnlyVerified
    SourceIsWanted
    

CHECK_DEADLOCK FALSE
