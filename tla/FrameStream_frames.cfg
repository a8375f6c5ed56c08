\* Messages of this library and of another implementation, pings, and frames that
\* end the connection, in every cut of the stream.
SPECIFICATION FairSpec
CONSTANTS
    XorByte <- TableXor
    ShortLen = 1
    MediumLen = 2
    FragLen = 2
    Traffic = {"own message", "foreign message", "foreign ping", "foreign pong", "close", "huge"}
    Ops = {1, 2}
    Formats = {7, 16}
    PeerMask = 1
    MaxSends = 2
    ForeignLens = {1, 2}
    OwnLens = {1, 2, 5}
    SplitCounts = {0}
CHECK_DEADLOCK FALSE
INVARIANTS
    TypeOK
    Intact
    Drained
    ClosedOnRequest
PROPERTIES
    ReadEnds
