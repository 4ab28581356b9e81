SPECIFICATION WorkspaceSpec
CONSTANTS
    Mails = {t1, t2}
    Emails = {ann, bob}
    Passwords = {p1, p2}
    NoPassword = NoPassword
    Browsers = {b1, b2}
    Organizations = {o1}
    Invitable = {"MANAGER", "HR"}
    Members = {owner, hr}
    Owner = owner
    Meetings = {i1, i2}
    Adjustments = {k1, k2}
    MaxVersion = 2
SYMMETRY Interchangeable
INVARIANTS
    OwnerStays
    WalletsBalance
PROPERTY PasswordNeedsLink
CHECK_DEADLOCK FALSE
