\* The owner stops a loop that runs tasks, or one that has a pool of asyncs.
SPECIFICATION TaskFairSpec
CONSTANTS
    MaxSends = 3
    Workers = {w1, w2}
    Idle = Idle
    MaxTasks = 3
CHECK_DEADLOCK FALSE
INVARIANTS
    StopFlushes
    TaskTypeOK
    OnePlace
    NoLostDone
PROPERTIES
    ListExact
    StopStops
    TasksComeBack
