SPECIFICATION Spec
CONSTANTS
    Tests = {c, f}
    Classes = {c}
    Methods = {m1, m2}
    None = None
    Options <- SomeOptions
    MaxServers = 2
    MaxChecks = 2
INVARIANTS
    TypeOK
    NoFalseBlame
    OnlyCurrentEnvRuns
    NothingLeftRunning
PROPERTIES
    GreenMeansNoFailure
    CrashesAreReported
CHECK_DEADLOCK TRUE
