SPECIFICATION Spec
CONSTANTS
  Subscriptions = {"first"}
  MaxProgress = 2
INVARIANTS NothingIsLeft AnswersEndInOrder DeclaredIsDelivered
PROPERTIES ExchangeEnds
CHECK_DEADLOCK FALSE
