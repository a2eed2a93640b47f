SPECIFICATION Spec
CONSTANTS
    Tests = {t1, t2}
    Workers = {w1, w2}
    None = None
    PipeCapacity = 1
    Options <- SomeOptions
    GetMayExpire = TRUE
    MaxTimeouts = 2
    MaxCrashes = 1
    MaxKills = 0
PROPERTIES
    RunEnds
    ImplementsLedger
    FailuresStay
CHECK_DEADLOCK TRUE
