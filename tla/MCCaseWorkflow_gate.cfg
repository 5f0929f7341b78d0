CONSTANTS
  MaxAttempts = 2
  Actors = {"reviewer"}
  Adapters = {"deterministic"}
  CallerOutcomes <- AnyOutcome
SPECIFICATION Spec
INVARIANT DetectedContradictionGated
CHECK_DEADLOCK FALSE
