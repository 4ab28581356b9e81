SPECIFICATION FairSpec
CONSTANTS
    Interviews = {1}
    Workers = {v, w}
    NoWorker = NoWorker
    MaxAttempts = 2
    Allowance = 1
    MaxExtra = 1
    MaxChanges = 3
    Slots = {"far", "soon", "live"}
INVARIANTS
    ReservationBacksVerification
    ScheduledHasLiveJob
    OneConsentedSession
    LinkIsForPendingConsent
    InvitedInTime
PROPERTIES
    ReservationsSettle
    VerificationsEnd
