SPECIFICATION Spec
CONSTANTS
    Threads = {t1, t2}
    FencedThreads = {t1}
    Dpcs = {d1, d2}
    Blocks = {b1, b2, b3}
    Ops = {"create", "submit", "xfer", "wait"}
    Faults = {}
    HostInOrder = FALSE
    RingSize = 6
    MaxRes = 1
    MaxFence = 2
    MaxInFlight = 3
SYMMETRY Sym
INVARIANTS BusyHasSetter NoBlockLeaked
PROPERTIES FenceLifeSpec
