CONSTANTS
    WordBits = 4
    NarrowBits = 2
    IntLiterals = {0, 1, 3, 15}
    Initials <- MCInitials
    MaxNodes = 3
    Steps <- MCSteps
    MaxTurns = 16
SPECIFICATION RunSpec
CHECK_DEADLOCK FALSE
PROPERTY ReadsExtend
