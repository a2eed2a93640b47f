SPECIFICATION Spec
CONSTANTS
    Tests = {t1, t2, t3}
    Workers = {w1, w2}
    None = None
    PipeCapacity = 1
    Options <- Plain
    GetMayExpire = FALSE
    MaxTimeouts = 2
    MaxCrashes = 0
    MaxKills = 0
SYMMETRY Symmetry
INVARIANT CountRemainsAccurate
CHECK_DEADLOCK TRUE
