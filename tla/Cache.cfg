CONSTANTS
    k1 = k1
    k2 = k2
    None = None
    Keys <- TwoKeys
    NumCalls = 2
    Lifetimes <- ShortLived
    MaxItems = 1
    MaxTime = 2
    MaxTimers = 2
SPECIFICATION Spec
INVARIANTS OneFetcherPerKey ExpiredOnlyFromFailedRevalidation OverLimitIsCleanedUp
PROPERTIES FetchesReturn
CHECK_DEADLOCK FALSE
