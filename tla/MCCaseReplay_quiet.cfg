CONSTANTS
  MaxAttempts = 2
  Actors = {"simulated-human", "simulated-approver", "reviewer"}
  Places = {a, b}
  Cases <- QuietCase
  InPlace = FALSE
  MaxFresh = 3
  MaxEdits = 1
SYMMETRY Symmetric
SPECIFICATION Spec
PROPERTIES
  EquivalentIsSameRun
  CompletedRunReplays
CHECK_DEADLOCK FALSE
