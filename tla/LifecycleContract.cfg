SPECIFICATION Spec
CONSTANTS
    Interviews = {1, 2}
    Workers = {w}
    NoWorker = NoWorker
    MaxAttempts = 1
    Allowance = 1
    MaxExtra = 1
    MaxChanges = 1
    Slots = {"live"}
INVARIANTS
    NoOverbooking
    ChargedIffStarted
PROPERTIES
    KeepsContract
    ManualReleaseIsFinal
