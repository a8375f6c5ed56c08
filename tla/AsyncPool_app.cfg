\* One application thread.
SPECIFICATION FairSpec
CONSTANTS
    Size = 3
    Senders = {app}
    LoopSenders = {}
    NoSender = NoSender
    Peers = {p1}
    NoCtx = NoCtx
    MaxParts = 4
    MaxCalls = 3
CHECK_DEADLOCK FALSE
INVARIANTS
    TypeOK
PROPERTIES
    SlotsReturn
    CallsReturn
    ImplementsChannel
