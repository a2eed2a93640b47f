SPECIFICATION Spec
CONSTANTS
    Limit = 3
    Subtests = 3
INVARIANTS
    TypeOK
    OneVerdict
    TimeoutMeansOverrun
    InterruptsInsideOnly
    DisposesAlone
PROPERTIES
    EveryTestEnds
CHECK_DEADLOCK TRUE
