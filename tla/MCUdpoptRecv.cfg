CONSTANTS
    Counts = {0, 1, 2}
    Deliveries = {"payload", "buffered", "error"}
    MaxMatching = 3
    Frames <- MCFrames
    OwnSrcSet = TRUE
    SrcPortSet = FALSE
    Timeouts = {0, 4, 7}
    Unit = 2
    MinRead = 3
    MaxInbox = 2
    None = None
SPECIFICATION FairSpec
INVARIANTS
    EveryMatchReported
    ExitHonest
    WaitBounded
    TimeoutSurvives
PROPERTIES
    RunEnds
\* The run ends.
CHECK_DEADLOCK FALSE
