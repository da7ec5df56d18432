SPECIFICATION FairSpec
CONSTANTS
    Threads = {t1, t2}
    Host <- HostCapsets
    Requests <- Asked
    PAGE = 4
    RingSize = 2
    MaxStarts = 2
INVARIANTS TypeOK InitializedMeansFilled CapsAnswered 
PROPERTIES TableSettles CallsReturn
CHECK_DEADLOCK FALSE
