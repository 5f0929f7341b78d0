CONSTANTS
  MaxAttempts = 2
  Actors = {"reviewer"}
  Processes = {"p1", "p2"}
  Cases <- StandardCase
  Leftovers <- NoneLeft
  Tracked <- EveryFile
  MaxCommands = 2
  MaxKills = 0
SPECIFICATION Spec
PROPERTY NewRunOverwritesNothing
CHECK_DEADLOCK FALSE
