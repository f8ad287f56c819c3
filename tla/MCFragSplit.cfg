CONSTANTS
    Requests <- MCRequests
    None = None
SPECIFICATION FairSpec
INVARIANTS
    SplitTiles
    FragmentsFit
    FewestFragments
    OptionsAligned
PROPERTIES
    SplitReturns
