SPECIFICATION Spec
CONSTANTS
    Tests = {c}
    Classes = {c}
    Methods = {m1, m2}
    None = None
    Options <- Plain
    MaxServers = 1
    MaxChecks = 2
INVARIANT SubtestFailureReported
CHECK_DEADLOCK TRUE
