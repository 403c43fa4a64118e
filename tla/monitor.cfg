CONSTANTS
    MaxClients <- MCClients
    MaxArrivals = 1
    CountModulus = 8
    MaxWait = 1
    AddFaults <- MCAddFaults
SPECIFICATION FairSpec
INVARIANTS
    ThreadsUseWhatIsThere
PROPERTIES
    PresentIsAttached
    StopEnds
