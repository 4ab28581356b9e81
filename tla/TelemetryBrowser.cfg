SPECIFICATION Spec
CONSTANTS
    Start = 1
    End = 4
    Grace = 1
    Latest = 6
    Platforms = {"WINDOWS"}
    MaxLaunches = 1
    MaxEvents = 4
    Observed = {"HEARTBEAT", "UNHEALTHY", "HEALTHY"}
INVARIANTS
    HealthMatchesGaps
PROPERTY NothingAfterTheEnd
CHECK_DEADLOCK FALSE
