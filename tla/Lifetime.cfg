SPECIFICATION Spec
CONSTANTS
    p1 = p1
    p2 = p2
    t1 = t1
    t2 = t2
    t3 = t3
    Procs = {p1, p2}
    Threads = {t1, t2, t3}
    Proc <- TwoAndOne
    Blocks = {b1}
    Kinds = {"plain", "buffer", "blob"}
    MaxCtx = 2
    MaxRes = 2
    RingSize = 2
SYMMETRY Sym
VIEW UntilLost
INVARIANTS TypeOK HostCommandsValid HostMirrorsDriver HostBackingExclusive BlocksAccounted WalkFindsContext
CHECK_DEADLOCK FALSE
