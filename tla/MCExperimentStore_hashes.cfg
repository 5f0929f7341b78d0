CONSTANTS
  Processes = {p1, p2}
  LivePlaces = {a, b}
  OfflinePlaces = {}
  Outcomes <- OneOutcome
  Replacing = {TRUE, FALSE}
  InPlace = FALSE
  MaxRuns = 3
SYMMETRY Alike
SPECIFICATION Spec
INVARIANT HashesOfSource
CHECK_DEADLOCK FALSE
