\* A server answers requests, and other code uses a membuf.
SPECIFICATION HsSpec
CONSTANTS
    Byte <- ByteDef
    Word = 32
    Calls <- CallsDef
    OtherCalls <- OtherCallsDef
    OtherMax = 5
    FirstSizes = {0, 4}
    MaxSize = 9
    Block = 6
    LenBytes = 2
    DigestLen = 2
    KeyLens = {1, 2, 3, 4, 5, 6, 9, 10}
    SuffixLen = 2
    AkeyLen = 12
    Digests <- DigestsDef
CHECK_DEADLOCK FALSE
INVARIANTS
    HsTypeOK
    CapacityHeld
    HashesMessage
    AcceptExact
PROPERTIES
    GrowEnds
    ImplementsString
