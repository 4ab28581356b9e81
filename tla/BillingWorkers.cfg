SPECIFICATION CommerceSpec
CONSTANTS
    MaxCheckouts = 1
    MaxEvents = 3
    MaxAttempts = 2
    MaxJobs = 2
    Requests = {r1}
    Purposes = {"PROFESSIONAL", "EXTRA_CREDITS"}
    Attributions = {"checkout", "nothing"}
    Quantity = 1
    Price = 2
    Staff = {f, s}
    Founder = f
    Organizations = {o1, o2}
    Terms = {1, 2}
    Invoices = {i1, i2}
    PaymentEvents = {e1, e2}
    Calls = {c1, c2}
INVARIANTS
    CreditsMatchPayments
    ProcessedIsApplied
    ContractedOnce
CHECK_DEADLOCK FALSE
