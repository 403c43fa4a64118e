CONSTANTS
    Faults = {"forward", "suspend", "store", "register", "refuse"}
    UsageTypes = {"paging", "hibernation", "dump"}
    MaxUsage = 2
SPECIFICATION Spec
INVARIANTS
    HeldMatchesPower
    InStepWithManager
    RemovalUndoesStart
