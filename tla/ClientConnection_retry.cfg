\* Every fault of the network, with the heartbeat on and an application that keeps sending.
SPECIFICATION FairSpec
CONSTANTS
    EnableReconnect = TRUE
    EnableHeartBeat = TRUE
    Apps = {app}
    Idle = Idle
    Slots = 2
    Faults = {"eof", "refused", "close", "split", "busy", "keyless"}
    MaxAttempts = 3
    MaxSends = 5
CHECK_DEADLOCK FALSE
INVARIANTS
    TypeOK
    NoTimerWhileOpen
    WorkingIsAgreed
PROPERTIES
    Retries
    HandshakeEnds
