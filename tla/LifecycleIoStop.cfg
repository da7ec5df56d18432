SPECIFICATION Spec
CONSTANTS
    r1 = r1
    r2 = r2
    Requests = {r1, r2}
    QueueOf <- BothQueues
    Faults = {}
    MaxStarts = 3
INVARIANTS CompletedOnce
CHECK_DEADLOCK FALSE
