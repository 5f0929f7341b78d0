CONSTANTS
  MaxAttempts = 2
  Actors = {"reviewer"}
  Processes = {"p1"}
  Cases <- StandardCase
  Leftovers <- SomeLeft
  Tracked <- EveryFile
  MaxCommands = 2
  MaxKills = 1
SPECIFICATION Spec
INVARIANT InspectionComplete
CHECK_DEADLOCK FALSE
