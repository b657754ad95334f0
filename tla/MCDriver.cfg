CONSTANTS
    f = f
    g = g
    h = h
    Files = {f, g, h}
    Missing = Missing
    ImportLists <- MCImportLists
    Plain = Plain
    Names = {"f", "g", "_q", "_s"}
    Private = {"_q", "_s"}
    Reserved = {"_s"}
    Slugs <- MCSlugs
    Modules <- MCModules
    Stems = {"a", "b", "main"}
    ExtraLists <- MCExtraLists
SPECIFICATION MCSpec
CHECK_DEADLOCK FALSE
INVARIANTS
    MergedOnce
    AllCollected
    NothingDropped
    
    CrossModuleNames
    DuplicatesAreReal
    ImageHoldsEverySource
PROPERTY BuildEnds
