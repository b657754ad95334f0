CONSTANTS
    x = x
    Names = {x}
    Kinds = {"eff", "if", "while", "do", "for", "forarr", "break", "continue", "return"}
    MaxStmts = 4
    AnyRedeclaration = FALSE
    Trip = 1
SPECIFICATION RunSpec
CHECK_DEADLOCK FALSE
INVARIANTS
    CheckedOnce
PROPERTY ImplementsSource
