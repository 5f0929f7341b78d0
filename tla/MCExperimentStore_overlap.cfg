CONSTANTS
  Processes = {p1, p2}
  LivePlaces = {a, b}
  OfflinePlaces = {}
  Outcomes <- FewOutcomes
  Replacing = {FALSE}
  InPlace = FALSE
  MaxRuns = 3
SYMMETRY Alike
SPECIFICATION Spec
INVARIANTS
  AcceptedIsOneRun
  HashesOfSource
CHECK_DEADLOCK FALSE
