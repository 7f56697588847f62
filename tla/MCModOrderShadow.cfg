CONSTANTS
    Modules <- MCModules
    Names <- MCNames
    LibPrefix <- MCLibPrefix
    Pos <- MCPos
    Makefiles <- MCMakefiles
    Parses = {p1}
    MaxEdits = 0
    NoFile = NoFile

SPECIFICATION Spec

INVARIANT LibraryIsPrerequisite
CHECK_DEADLOCK FALSE
