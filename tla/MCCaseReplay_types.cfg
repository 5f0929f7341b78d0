CONSTANTS
  MaxAttempts = 2
  Actors = {"simulated-human", "simulated-approver", "reviewer"}
  Places = {a, b}
  Cases <- EveryCase
  InPlace = FALSE
  MaxFresh = 3
  MaxEdits = 1
SYMMETRY Symmetric
SPECIFICATION Spec
INVARIANT TypeOK
CHECK_DEADLOCK FALSE
