\* Two connections, at two addresses or one after the other at the same.
SPECIFICATION FairSpec
CONSTANTS
    Addrs = {a1, a2}
    NoAddr = NoAddr
    Apps = {app}
    Idle = Idle
    Slots = 1
    MaxSessions = 2
    MaxReads = 3
    MaxSends = 3
CHECK_DEADLOCK FALSE
INVARIANTS
    TypeOK
    RegistryExact
    CallbackOrder
PROPERTIES
    WrittenToOpen
    Freed
