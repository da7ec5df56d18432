SPECIFICATION FairSpec
CONSTANTS
    Threads = {t1, t2}
    FencedThreads = {t1, t2}
    Dpcs = {d1}
    Blocks = {b1, b2}
    Ops = {"create", "submit"}
    Faults = {}
    HostInOrder = TRUE
    RingSize = 6
    MaxRes = 1
    MaxFence = 2
    MaxInFlight = 2
PROPERTIES BusyBecomesIdle
CHECK_DEADLOCK FALSE
