CONSTANTS
    f1 = f1
    f2 = f2
    Files = {f1}
    CreateFaults = {"streamThread"}
SPECIFICATION Spec
INVARIANT FailedHandleAssertion
