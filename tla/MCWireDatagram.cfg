CONSTANTS
    Src <- MCSrc
    Dst <- MCDst
    None = None
    UserData <- MCUserData
    Bodies <- MCBodies
    Faults <- MCFaults
    Damage <- MCDamage
    SrcPort = 12345
    DstPort = 53
SPECIFICATION Spec
INVARIANTS
    DispositionMatrix
    DamageNotTrusted
    LayoutsAgree
\* One datagram is received, or refused.
CHECK_DEADLOCK FALSE
