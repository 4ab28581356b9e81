SPECIFICATION FairSpec
CONSTANTS
    Start = 1
    End = 4
    Grace = 1
    Latest = 6
    Platforms = {"WINDOWS", "MACOS"}
    MaxLaunches = 2
    MaxEvents = 4
    Observed = {"HEARTBEAT"}
INVARIANTS
    ChainIntact
    NeverBlocked
    FinalAccount
PROPERTIES
    KeepsEvidence
    SessionEnds
CHECK_DEADLOCK FALSE
