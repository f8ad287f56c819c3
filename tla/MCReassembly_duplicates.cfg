CONSTANTS
    Keys = {k1}
    None = None
    Data <- MCData
    DataLen <- MCDataLen
    OptionLists <- PlainOptions
    Tokens = {"x", "y"}
    Kinds = {"mds", "req"}
    Fragments <- LayoutFragments
    MaxReassembledSize = 11
    MaxSegments = 3
    MaxPendingPartials = 1
    Timeout = 1
    TimeoutMax = 3
SPECIFICATION Spec
PROPERTIES
    DuplicateIsNoOp
