CONSTANTS
    web = web
    tasks = tasks
    o1 = o1
    o2 = o2
    Roles <- TwoRoles
    DefaultOff <- WorkersOff
    Unknown = Unknown
    NoValue = NoValue
    Ops <- TwoOps
    EnvChoices <- EveryMode
    CliChoices <- OnlyOptions
SPECIFICATION Spec
INVARIANTS NothingRunsAfterFailedBoot
PROPERTIES OperationsEnd
CHECK_DEADLOCK FALSE
