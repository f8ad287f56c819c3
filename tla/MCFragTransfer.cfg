CONSTANTS
    Configs <- MCConfigs
    Jobs <- MCJobs
    Seeds = {0, 1}
    IdMax = 1
    MaxSends = 3
    MaxBinds = 2
    MaxReassembledSize = 52
    MaxSegments = 3
    MaxPendingPartials = 1
    Timeout = 1
    TimeoutMax = 3
    TailMax = 44
    None = None
SPECIFICATION TransferSpec
INVARIANTS
    FreshIds
    RejectedSendsNothing
PROPERTIES
    DeliversOnlySent
    GenuineNeverAborts
