SPECIFICATION Spec
CONSTANTS
  Packages = {"a", "b", "c"}
  Graphs <- MCGraphs
  OptionSets <- MCOptionSets
  RunModes = {"serial", "parallel", "parallel-wait"}
  Interactive = {TRUE, FALSE}
  Terminals <- MCTerminals
  LogLines <- MCLogLines
INVARIANTS DependenciesFirst NoFailureIsPassedOver FrameFits
PROPERTIES CommandEnds NothingTicksInTheEnd
CHECK_DEADLOCK FALSE
