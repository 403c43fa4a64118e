CONSTANTS
    LineSize = 3
    Scenes = {"line", "stop", "install"}
    MaxTyped = 3
SPECIFICATION FairSpec
CHECK_DEADLOCK FALSE
INVARIANTS
    ScreenShowsLine
    LinesArriveAsTyped
    StoppedLeavesNothing
PROPERTY RemovalEnds
