CONSTANTS
  MaxAttempts = 2
  Actors = {"simulated-human", "simulated-approver", "reviewer"}
  Places = {a, b}
  Cases <- EditedCase
  InPlace = FALSE
  MaxFresh = 2
  MaxEdits = 1
SYMMETRY Symmetric
SPECIFICATION Spec
INVARIANTS
  RecommendationOfItsFindings
CHECK_DEADLOCK FALSE
