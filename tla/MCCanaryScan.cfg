CONSTANTS
    STACK_PROTECTOR_ARRAY_THRESHOLD = 8
    STACK_PROTECTOR_SKIP = {"_hang"}
    Functions <- MCFunctions
    ArraySizes = {7, 8}
    MaxNodes = 4
SPECIFICATION Spec
CHECK_DEADLOCK FALSE
INVARIANTS
    ExposedAreProtected
    NoCanaryUncalledFor
