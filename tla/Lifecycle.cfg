SPECIFICATION FairSpec
CONSTANTS
    r1 = r1
    r2 = r2
    Requests = {r1, r2}
    QueueOf <- BothQueues
    Faults = {"queues"}
    MaxStarts = 3
INVARIANTS TypeOK StoppedHoldsNothing TornDownOnce
PROPERTIES StopCompletes CompletionsServed
CHECK_DEADLOCK FALSE
