CONSTANTS
    NoFrag = NoFrag
    Datagrams <- MCDatagrams
    Policies <- MCPolicies
    Inside <- MCInside
    DirectFragments <- MCDirectFragments
    Empty = Empty
    TotalLenMax = 36
    Keys = {"k1", "k2"}
    Data <- MCData
    DataLen <- MCDataLen
    OptionLists <- MCOptionLists
    Tokens = {"t"}
    MaxReassembledSize = 20
    MaxSegments = 2
    MaxPendingPartials = 1
    Timeout = 1
    TimeoutMax = 2
    None = None
SPECIFICATION Spec
INVARIANTS
    UserDataSurvives
    DroppedLeavesNothing
    FailedFragmentFailsRequirement
    RequiredOcsHolds
    RequiredOptionExposed
PROPERTIES
    CacheTrustsChecks
    NestedOnlyRemoves
