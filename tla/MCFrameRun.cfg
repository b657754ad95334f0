CONSTANTS
    x = x
    y = y
    Names = {x, y}
    Types <- MCTypes
    MaxVars = 3
SYMMETRY NameSymmetry
SPECIFICATION RunSpec
CHECK_DEADLOCK FALSE
INVARIANTS
    SlotsDisjoint
    StoresInOwnSlot
    ReturnIntact
    FailMeansOverrun
