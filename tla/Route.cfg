CONSTANTS
    NumMiddleware = 2
    NumInterceptors = 2
    Statuses = {201, 404}
SPECIFICATION RequestSpec
INVARIANTS AnsweredWhenDone LostOnlyWhenBegun ErrorsReachClient QuietWhenDone
PROPERTIES RequestEnds
