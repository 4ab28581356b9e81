SPECIFICATION SoftwareSpec
CONSTANTS
    Machines = {m1, m2}
    Windows = {m1}
    Browsers = {m1}
    Observations <- Seen
    MaxKeys = 2
    MaxAttempts = 3
    MaxItems = 3
    QueueLimit = 2
    MaxExcuses = 1
    Dispatches = {k1, k2}
    Uploads = {u1, u2}
    VersionOf <- McVersions
    Builds = {1}
    MaxPublished = 2
INVARIANTS
    EnrolledKeyIsKept
    EvidenceOnce
    PlatformsReleaseTogether
CHECK_DEADLOCK FALSE
