CONSTANTS
    ARG_REGS <- MCArgRegs
    MaxArgs = 5
    MaxExprs = 8
SPECIFICATION Spec
CHECK_DEADLOCK FALSE
INVARIANTS
    OperandsMeet
    ArgumentsInPlace
    
PROPERTY RestoresStack
