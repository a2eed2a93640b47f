SPECIFICATION Spec
CONSTANTS
    Tests = {t1, t2}
    Workers = {w1, w2}
    None = None
    PipeCapacity = 1
    Options <- ReuseChecked
    GetMayExpire = FALSE
    MaxTimeouts = 0
    MaxCrashes = 0
    MaxKills = 0
SYMMETRY Symmetry
INVARIANT AlwaysShipsShutdown
CHECK_DEADLOCK TRUE
