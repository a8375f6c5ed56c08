\* The server goes away once, and an application that knows m_peer keeps sending to it.
SPECIFICATION Spec
CONSTANTS
    EnableReconnect = TRUE
    EnableHeartBeat = FALSE
    Apps = {app}
    Idle = Idle
    Slots = 4
    Faults = {"eof"}
    MaxAttempts = 2
    MaxSends = 4
CHECK_DEADLOCK FALSE
INVARIANTS
    HandshakeFirst
