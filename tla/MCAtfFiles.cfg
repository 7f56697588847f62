SPECIFICATION Spec
CONSTANTS
    f = f
    g = g
    Names <- MCNames
    Tests <- MCTests
    Modes <- MCModes
    Umasks <- MCUmasks
    Buffer = 2
    MaxFile = 3
    MaxText = 2
    MaxTries = 2
SYMMETRY MCSymmetry
CHECK_DEADLOCK FALSE
INVARIANTS
    TypeOK
    Whole
    Answers
