CONSTANTS
  MaxAttempts = 2
  Actors = {"reviewer", "approver"}
  Processes = {"p1", "p2"}
  Cases <- StandardCase
  Leftovers <- NoneLeft
  Tracked <- EveryFile
  MaxCommands = 3
  MaxKills = 0
SPECIFICATION Spec
PROPERTY DiskHistoryAppendOnly
CHECK_DEADLOCK FALSE
