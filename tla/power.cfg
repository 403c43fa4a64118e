CONSTANTS
    SystemStates <- States
    DeviceState <- DeviceStates
    ForwardFaults = {"device", "system"}
    RemoveBusy = FALSE
    MaxDispatchers = 2
SPECIFICATION FairSpec
INVARIANTS
    SlotAssertion
    NoIrpSleptOver
    SleepsInD3
PROPERTIES
    DeviceAnswersFirst
    PowerIrpsComplete
