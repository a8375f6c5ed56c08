\* Heartbeats of this library between its messages.
SPECIFICATION FairSpec
CONSTANTS
    XorByte <- TableXor
    ShortLen = 8
    MediumLen = 10
    FragLen = 9
    Traffic = {"own message", "own ping"}
    Ops = {1}
    Formats = {7}
    PeerMask = 0
    MaxSends = 2
    ForeignLens = {1}
    OwnLens = {7}
    SplitCounts = {}
CHECK_DEADLOCK FALSE
PROPERTIES
    ReadReturns
