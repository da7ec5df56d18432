SPECIFICATION Spec
CONSTANTS
    r1 = r1
    r2 = r2
    Requests = {r1, r2}
    QueueOf <- BothQueues
    Faults = {"virtio", "block", "bitmap", "spinlock"}
    MaxStarts = 3
INVARIANTS TornDownOnce
CHECK_DEADLOCK FALSE
