CONSTANTS
  Records <- SomeRecords
  Null = Null
  ConflictText = ConflictText
  ClearedText = ClearedText
  Fraction = Fraction
  Figures <- SampleFigures
  Orders <- ScheduleAudited
  Responses <- SomeResponses
  Audits <- SomeAudits
  Finals <- SomeFinals
SPECIFICATION Spec
INVARIANT ContradictionsVisible
CHECK_DEADLOCK FALSE
