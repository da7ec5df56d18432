SPECIFICATION Spec
CONSTANTS
    Threads = {t1, t2}
    FencedThreads = {t1, t2}
    Dpcs = {d1, d2}
    Blocks = {b1, b2}
    Ops = {"create", "blob", "submit", "xfer", "wait"}
    Faults = {"probe", "pool", "mapio"}
    HostInOrder = FALSE
    RingSize = 2
    MaxRes = 1
    MaxFence = 2
    MaxInFlight = 3
SYMMETRY Sym
INVARIANTS TypeOK CommandMemoryExclusive SignalledMeansDone InFenceOrder
PROPERTIES FenceLifeSpec
CHECK_DEADLOCK FALSE
