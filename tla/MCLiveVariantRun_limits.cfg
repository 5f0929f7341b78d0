CONSTANTS
  MaximumRetries = 1
  Variants <- AllVariants
  Controls <- SomeControls
  Routings <- SomeRoutings
  Usages <- SomeUsages
SPECIFICATION Spec
INVARIANTS
  TypeOK
  ResultTruthful
  RetriesRight
  NoContactAfterStop
  OvershootByOneAtMost
  PlannerGrounded
  SummaryHonest
PROPERTY RunEnds
CHECK_DEADLOCK FALSE
