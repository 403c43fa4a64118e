CONSTANTS
    r1 = r1
    r2 = r2
    w1 = w1
    w2 = w2
    NoIrp = NoIrp
    Reads = {r1}
    Writes = {}
    RingSize = 1
    Empty = {}
    Cancellable = {r1}
    CreateFaults = {}
    ConsoleFaults = {}
    Overlap = TRUE
    Rival = FALSE
SPECIFICATION Spec
INVARIANT DestroyAssertion
