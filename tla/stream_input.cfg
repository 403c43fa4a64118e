CONSTANTS
    r1 = r1
    r2 = r2
    w1 = w1
    w2 = w2
    NoIrp = NoIrp
    Reads = {r1, r2}
    Writes = {w1}
    RingSize = 2
    Empty = {r2}
    Cancellable = {r1, r2}
    CreateFaults = {"allocate", "spawn", "reference"}
    ConsoleFaults = {"acquire", "wakeup"}
    Overlap = FALSE
    Rival = FALSE
SPECIFICATION FairSpec
PROPERTIES
    ReadsReturnData
    WritesComplete
    DestroyEnds
    IsThread
