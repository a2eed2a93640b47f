SPECIFICATION Spec
CONSTANTS
    Tests = {t1, t2}
    Workers = {w1, w2}
    None = None
    PipeCapacity = 1
    Options <- Plain
    GetMayExpire = FALSE
    MaxTimeouts = 0
    MaxCrashes = 0
    MaxKills = 0
SYMMETRY Symmetry
INVARIANT ErrorMeansCrash
CHECK_DEADLOCK TRUE
