CONSTANTS
    Sources <- MCSources
    Vocabulary <- MCVocabulary
SPECIFICATION MCSpec
CHECK_DEADLOCK FALSE
INVARIANTS
    LayoutFollowsIndents
    BracketsHideLines
    
    
    ParsesBack
    NothingUnreported
    ResumesAtDeclaration
PROPERTIES
    Terminates
    MovesOn
