SPECIFICATION FairSpec
CONSTANTS
    Threads = {t1, t2}
    FencedThreads = {t1}
    Dpcs = {d1}
    Blocks = {b1, b2}
    Ops = {"blob", "submit", "xfer", "map", "wait"}
    Faults = {}
    HostInOrder = TRUE
    RingSize = 6
    MaxRes = 1
    MaxFence = 2
    MaxInFlight = 2
INVARIANTS BlobBusyUntilMapped MapAfterBlobMapped
PROPERTIES BusyBecomesIdle WaitersReturn FencesSignalled
