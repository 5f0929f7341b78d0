CONSTANTS
  MaxAttempts = 2
  Actors = {"reviewer"}
  Processes = {"p1"}
  Cases <- EveryCase
  Leftovers <- SomeLeft
  Tracked <- EveryFile
  MaxCommands = 6
  MaxKills = 2
SPECIFICATION Spec
INVARIANT TypeOK
CHECK_DEADLOCK FALSE
