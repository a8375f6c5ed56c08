\* Two connections, which may come to live at one address.
SPECIFICATION Spec
CONSTANTS
    Addrs = {a1, a2}
    NoAddr = NoAddr
    Apps = {app}
    Idle = Idle
    Slots = 1
    MaxSessions = 2
    MaxReads = 2
    MaxSends = 3
CHECK_DEADLOCK FALSE
SYMMETRY Symmetry
INVARIANTS
    ReachesItsPeer
