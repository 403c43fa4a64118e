CONSTANTS
    system = system
    device = device
    i1 = i1
    i2 = i2
    Threads = {system, device}
    Irps = {i1, i2}
    Faults = {"device", "link", "fdo", "thread", "spawn", "reference", "bus", "debug", "suspend", "store"}
    Values <- MCValues
    Arrays <- MCArrays
    BufferNames <- MCBufferNames
    MaxCount = 2
SPECIFICATION DriverFairSpec
INVARIANTS
    UsersFindItLive
    LastUserFrees
    AlertNotLost
    NothingLeaks
    ReadsBack
    NothingLeft
    FreeAssertion
    FdoOutlivesThreads
PROPERTIES
    CallsReturn
