SPECIFICATION ServiceSpec
CONSTANTS
  Methods = {"get"}
  Positions = {1}
  x = x
  y = y
  Fields = {x, y}
  RoutePaths <- MCRoutePaths
  MountPaths <- MCMountPaths
  BasePaths <- MCBasePaths
  Signatures <- MCSignatures
  Inputs <- MCInputs
  LaterSignatures <- MCLaterSignatures
  Requests <- MCRequests
  MaxClasses = 3
  MaxWritten = 4
  MaxUnread = 3
  MaxResponding = 1
INVARIANTS RoutesAnswerWhereDeclared GuardedByAncestors ArgumentsAreTyped ThrownAsReturned
PROPERTIES OthersKeepTheirs
SYMMETRY FieldSymmetry
CHECK_DEADLOCK FALSE
