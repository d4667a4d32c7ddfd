CONSTANTS
    app = app
    base = base
    configured = configured
    feature = feature
    svc = svc
    dep = dep
    None = None
    Missing = Missing
    NoProvider = NoProvider
    Modules <- FourModules
    Entry = app
    Configures <- ConfiguresBase
    ImportsOf <- SharedArray
    Arrays <- ArrayNames
    Graphs <- SmallGraphs
    Keys <- AllKeys
    Services <- TwoServices
    MultiServices <- DepIsMulti
    Wirings <- FourWirings
    Depth = 2
    MaxGets = 4
SPECIFICATION Spec
INVARIANTS ImportersOverride BuiltOnDependencies FirstCyclicErrorMeansCycle
PROPERTIES ImportsComeFirst WorkEnds
CHECK_DEADLOCK FALSE
