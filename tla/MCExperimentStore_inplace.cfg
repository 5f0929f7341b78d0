CONSTANTS
  Processes = {"p1"}
  LivePlaces = {a, b}
  OfflinePlaces = {}
  Outcomes <- FewOutcomes
  Replacing = {TRUE, FALSE}
  InPlace = TRUE
  MaxRuns = 3
SPECIFICATION Spec
PROPERTY SourcePreserved
CHECK_DEADLOCK FALSE
