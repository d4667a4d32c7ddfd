SPECIFICATION Spec
CONSTANTS
  Classes = {1, 2}
  Annotated = {2}
  Jobs = {j, k}
  Processes = {p, q}
  MaxAttempts = 2
  NoOne = NoOne
INVARIANTS OutcomeIsTrue NoLineIsDropped
PROPERTIES EveryJobEnds
CHECK_DEADLOCK FALSE
