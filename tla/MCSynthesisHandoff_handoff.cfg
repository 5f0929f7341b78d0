CONSTANTS
  Records <- SomeRecords
  Null = Null
  ConflictText = ConflictText
  ClearedText = ClearedText
  Fraction = Fraction
  Figures <- SampleFigures
  Orders <- SomeOrders
  Responses <- SomeResponses
  Audits <- SomeAudits
  Finals <- SomeFinals
SPECIFICATION Spec
INVARIANTS
  TypeOK
  EligibleFiguresRight
  NoSilentChoice
  AuditHeeded
  GateHolds
  ConsensusSkipsArbiter
  RebuildReproduces
  FullMarksAreEarned
  CitationMergeSound
CHECK_DEADLOCK FALSE
