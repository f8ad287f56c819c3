CONSTANTS
    Keys = {k1, k2, k3}
    None = None
    Data <- MCData
    DataLen <- MCDataLen
    OptionLists <- PlainOptions
    Tokens = {"x", "y"}
    Kinds = {"mds", "req"}
    Fragments <- TimedFragments
    MaxReassembledSize = 10
    MaxSegments = 3
    MaxPendingPartials = 2
    Timeout = 5
    TimeoutMax = 2
SPECIFICATION FairSpec
INVARIANTS
    ContributorsFresh
PROPERTIES
    AtomicAlwaysCompletes
    OtherKeysUntouched
    DataDuplicateIsNoOp
    EventuallyReclaimed
