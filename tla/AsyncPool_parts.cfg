\* The parts of a message of an application thread.
SPECIFICATION Spec
CONSTANTS
    Size = 3
    Senders = {app}
    LoopSenders = {}
    NoSender = NoSender
    Peers = {p1, p2}
    NoCtx = NoCtx
    MaxParts = 2
    MaxCalls = 2
CHECK_DEADLOCK FALSE
SYMMETRY PeerSymmetry
INVARIANTS
    PartsInOrder
