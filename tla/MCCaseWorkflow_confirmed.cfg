CONSTANTS
  MaxAttempts = 2
  Actors = {"reviewer"}
  Adapters = {"deterministic"}
  CallerOutcomes <- AnyOutcome
SPECIFICATION Spec
INVARIANT AuthorizationConfirmed
CHECK_DEADLOCK FALSE
