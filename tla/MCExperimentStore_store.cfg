CONSTANTS
  Processes = {"p1"}
  LivePlaces = {a, b}
  OfflinePlaces = {"offline"}
  Outcomes <- SomeOutcomes
  Replacing = {TRUE, FALSE}
  InPlace = TRUE
  MaxRuns = 3
SYMMETRY Symmetric
SPECIFICATION Spec
INVARIANTS
  ComparisonMeasured
  AcceptedIsOneRun
PROPERTY RemovedForResults
CHECK_DEADLOCK FALSE
