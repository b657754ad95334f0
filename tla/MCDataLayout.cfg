CONSTANTS
    N = 3
    FieldLists <- MCAllFields
    BaseLists <- MCBaseLists
    Methods = {"m"}
    GlobalLists <- MCGlobalLists
SPECIFICATION MCSpec
CHECK_DEADLOCK FALSE
INVARIANTS
    FieldsApart
    FirstBasePrefix
    ReceiverInWords
    NearestOwner
    GlobalsApart
    PercpuAreaCovers
    TemplateAtOffset
