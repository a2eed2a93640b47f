SPECIFICATION Spec
CONSTANTS
    Tests = {t1, t2, t3}
    Workers = {w1, w2}
    None = None
    PipeCapacity = 1
    Options <- AllOptions
    GetMayExpire = TRUE
    MaxTimeouts = 2
    MaxCrashes = 1
    MaxKills = 1
SYMMETRY Symmetry
INVARIANTS
    TypeOK
    SummaryIsComplete
    JoinIsSafe
    CountsEachMessageOnce
    NoJobVanishes
CHECK_DEADLOCK TRUE
