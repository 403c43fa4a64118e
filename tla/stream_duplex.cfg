CONSTANTS
    r1 = r1
    r2 = r2
    w1 = w1
    w2 = w2
    NoIrp = NoIrp
    Reads = {r1, r2}
    Writes = {w1, w2}
    RingSize = 1
    Empty = {}
    Cancellable = {r1, r2, w1, w2}
    CreateFaults = {"allocate", "spawn"}
    ConsoleFaults = {"acquire", "wakeup"}
    Overlap = FALSE
    Rival = TRUE
SPECIFICATION Spec
SYMMETRY Interchangeable
INVARIANTS
    CompletedOnce
    DestroyAssertion
    StreamUsersFindItLive
    ConsoleReturned
    NoLostWakeup
PROPERTY KeepsPromises
