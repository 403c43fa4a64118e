CONSTANTS
    f1 = f1
    f2 = f2
    Files = {f1, f2}
    CreateFaults = {"handle", "streamMemory", "streamThread"}
SPECIFICATION FairSpec
INVARIANTS
    OnlyTheOvertakenBreak
    StreamFollowsHandle
    OnlyLateHandlesLeft
PROPERTIES
    PowerDownCompletesIrps
