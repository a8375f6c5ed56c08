\* The owner stops and deletes a loop, which nothing waits for.
SPECIFICATION Spec
CONSTANT
    MaxSends = 2
CHECK_DEADLOCK FALSE
INVARIANT
    FreedAfterLoop
