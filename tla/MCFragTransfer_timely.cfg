CONSTANTS
    Configs <- TimelyConfigs
    Jobs <- TimelyJobs
    Seeds = {0, 1}
    IdMax = 1
    MaxSends = 2
    MaxBinds = 1
    MaxReassembledSize = 52
    MaxSegments = 3
    MaxPendingPartials = 2
    Timeout = 1
    TimeoutMax = 3
    TailMax = 44
    None = None
SPECIFICATION TimelySpec
PROPERTIES
    EventuallyReassembled
