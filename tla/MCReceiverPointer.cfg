CONSTANTS
    N = 3
    FieldLists <- MCFieldLists
    BaseLists <- MCBaseLists
    Methods = {"m"}
SPECIFICATION Spec
CHECK_DEADLOCK FALSE
INVARIANT ReceiverOfPointer
