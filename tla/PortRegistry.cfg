SPECIFICATION Spec
CONSTANTS
    Procs = {p1, p2, p3}
    Ports = {q1, q2}
    None = None
    Torn = Torn
    MaxTries = 2
    MaxKills = 1
INVARIANTS
    TypeOK
    RegistryKnowsOwners
    PortsExclusive
PROPERTIES
    CallsEnd
CHECK_DEADLOCK FALSE
