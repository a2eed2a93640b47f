SPECIFICATION Spec
CONSTANTS
    Options <- SomeOptions
    ShardsCount = 2
    HashSlots = 5
    MaxShards = 3
    MaxCalls <- CallBounds
    MaxCrashes = 1
    MaxHangs = 1
INVARIANTS
    TypeOK
    NoProcessForgotten
    FailedStartCleansUp
    FirstCrashIsReported
    PortsDistinct
    SlotsPartitioned
PROPERTIES
    StopReachesAll
    ServersAsPromised
    CallsReturn
    StopsReturn
CHECK_DEADLOCK FALSE
