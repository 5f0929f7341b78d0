CONSTANTS
  Processes = {"p1"}
  LivePlaces = {a, b}
  OfflinePlaces = {}
  Outcomes <- TwoModels
  Replacing = {FALSE}
  InPlace = FALSE
  MaxRuns = 3
SPECIFICATION Spec
INVARIANT RowsOfOneModel
CHECK_DEADLOCK FALSE
