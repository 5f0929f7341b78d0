CONSTANTS
  MaxAttempts = 2
  Actors = {"reviewer"}
  Processes = {"p1", "p2"}
  Cases <- StandardCase
  Leftovers <- NoneLeft
  Tracked <- FewFiles
  MaxCommands = 4
  MaxKills = 0
SPECIFICATION Spec
INVARIANTS
  AuthorizedOnDiskGoverned
CHECK_DEADLOCK FALSE
