SPECIFICATION Spec
CONSTANTS
    Threads = {t1, t2}
    Host <- HostCapsets
    Requests = {}
    PAGE = 4
    RingSize = 2
    MaxStarts = 1
INVARIANTS SupportedMask
