CONSTANTS
    x = x
    Names = {x}
    Kinds = {"eff", "for"}
    MaxStmts = 3
    AnyRedeclaration = TRUE
    Trip = 1
SPECIFICATION RunSpec
CHECK_DEADLOCK FALSE
PROPERTY CountedLoopsEnd
