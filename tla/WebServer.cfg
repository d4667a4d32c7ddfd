CONSTANTS
    c1 = c1
    c2 = c2
    c3 = c3
    c4 = c4
    None = None
    Calls <- FourCalls
    Configs <- Configurations
SPECIFICATION Spec
INVARIANTS AwaitedStopClosesPorts
PROPERTIES ControllersHearOfListening
CHECK_DEADLOCK FALSE
