\* An application thread and the callbacks of the loop thread.
SPECIFICATION Spec
CONSTANTS
    Size = 3
    Senders = {app, cb}
    LoopSenders = {cb}
    NoSender = NoSender
    Peers = {p1}
    NoCtx = NoCtx
    MaxParts = 2
    MaxCalls = 2
CHECK_DEADLOCK FALSE
INVARIANTS
    BatchConsecutive
    NoLostWakeup
    NoStrandedSlot
    WrittenOnce
    LoopPartsInOrder
