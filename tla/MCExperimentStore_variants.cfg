CONSTANTS
  Processes = {"p1"}
  LivePlaces = {a, b}
  OfflinePlaces = {}
  Outcomes <- FewOutcomes
  Replacing = {FALSE}
  InPlace = FALSE
  MaxRuns = 3
SPECIFICATION Spec
INVARIANT RowsOfTheirVariant
CHECK_DEADLOCK FALSE
