CONSTANTS
    Keys = {k1}
    None = None
    Data <- MCData
    DataLen <- MCDataLen
    OptionLists <- CarriedOptions
    Tokens = {"x", "y"}
    Kinds = {"mds", "req"}
    Fragments <- LayoutAndOptionFragments
    MaxReassembledSize = 11
    MaxSegments = 3
    MaxPendingPartials = 1
    Timeout = 1
    TimeoutMax = 3
SPECIFICATION Spec
INVARIANTS
    SegmentsConsistent
    CompleteTilesTail
    TailFromTakenFragments
    NeverRetainsComplete
    OptionsCoalesced
