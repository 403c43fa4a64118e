CONSTANTS
    Faults = {"refuse"}
    UsageTypes = {"paging"}
    MaxUsage = 2
SPECIFICATION Spec
INVARIANT DestroyAssertion
