SPECIFICATION McSpec
CONSTANTS
    Mails = {m1, m2}
    Mail = m1
    Hand = d1
    About <- McAbout
    Deliveries = {d1, d2}
    MaxAttempts = 2
    ClaimBound = 2
    MaxRecoveries = 1
    ReportAttempts = 3
    Kinds = {"link", "candidate", "notice", "reminder"}
INVARIANTS
    TransmissionsBounded
PROPERTIES
    MailsSettle
    KeepsPromise
    ReportsSettle
CHECK_DEADLOCK FALSE
