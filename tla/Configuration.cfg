SPECIFICATION Spec
CONSTANTS
    None = None
    Semicolon = ";"
    Escaped = "esc"
    Modules = {"v", "w", "x", "y", "z"}
    Words = {"K", "L", "M", "1", "2", ";", "esc"}
    CommandLines <- SomeLines
    Requests <- SomeRequests
INVARIANTS
    TypeOK
    ServersAsIfNew
    ArgsReachModules
    OneServerToDebug
PROPERTIES
    DefaultsUntouched
    SameSpecReuses
CHECK_DEADLOCK FALSE
