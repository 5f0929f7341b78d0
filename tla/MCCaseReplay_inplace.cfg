CONSTANTS
  MaxAttempts = 2
  Actors = {"simulated-human", "simulated-approver", "reviewer"}
  Places = {a, b}
  Cases <- EditedCase
  InPlace = TRUE
  MaxFresh = 2
  MaxEdits = 1
SYMMETRY Symmetric
SPECIFICATION Spec
PROPERTIES
  EquivalentToTheOriginal
CHECK_DEADLOCK FALSE
