CONSTANTS
    Modules <- MCModules
    Names <- MCNames
    LibPrefix <- MCLibPrefix
    Pos <- MCPos
    Makefiles <- MCMakefiles
    Parses = {p1, p2}
    MaxEdits = 1
    NoFile = NoFile

SPECIFICATION FairSpec

INVARIANTS
    TypeOK
    OrderSound
    DepsAgree
    FreshWhenAlone
    CycleIsReal
    NoLitter

PROPERTY ParseEnds
CHECK_DEADLOCK FALSE
