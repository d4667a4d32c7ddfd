CONSTANTS
    web = web
    tasks = tasks
    o1 = o1
    o2 = o2
    Roles <- TwoRoles
    DefaultOff <- WorkersOff
    Unknown = Unknown
    NoValue = NoValue
    Ops <- TwoOps
    EnvChoices <- OneEnv
    CliChoices <- NoArgs
SPECIFICATION Spec
INVARIANTS StoppedMeansDown
CHECK_DEADLOCK FALSE
