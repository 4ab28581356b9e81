SPECIFICATION WebhooksSpec
CONSTANTS
    MaxCheckouts = 2
    MaxEvents = 3
    MaxAttempts = 1
    MaxJobs = 1
    Requests = {r1, r2}
    Purposes = {"PROFESSIONAL"}
    Attributions = {"checkout"}
    Quantity = 1
    Price = 1
    Interviewers = {m1}
    Colleagues = {m2}
    Runs = {s1, s2}
    MaxNow = 2
    MaxConnections = 2
SYMMETRY Interchangeable
INVARIANT SourcesAreConnected
PROPERTIES
    OnlyNewerTakesOver
    RequestsAreServed
    SharedInterviewStays
CHECK_DEADLOCK FALSE
