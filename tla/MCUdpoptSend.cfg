CONSTANTS
    ArgSets <- MCArgSets
    Seeds = {0, 6}
    IdMax = 7
    SeqMax = 5
    MaxCount = 3
    None = None
SPECIFICATION Spec
INVARIANTS
    ManifestHonest
    ExitMeansSent
\* The run ends.
CHECK_DEADLOCK FALSE
