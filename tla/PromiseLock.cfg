CONSTANTS
    c1 = c1
    c2 = c2
    c3 = c3
    Calls <- ThreeCalls
    None = None
    Outside = Outside
    Reentrant <- FirstOnly
    MaxTasks = 1
SPECIFICATION Spec
INVARIANTS ZoneExclusion
PROPERTIES ImplementsFifoMutex EveryCallServed
CHECK_DEADLOCK FALSE
