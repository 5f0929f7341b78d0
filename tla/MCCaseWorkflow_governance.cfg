CONSTANTS
  MaxAttempts = 3
  Actors = {"reviewer", "approver"}
  Adapters = {"deterministic", "external", "custom"}
  CallerOutcomes <- AnyOutcome
SPECIFICATION Spec
INVARIANTS
  TypeOK
  AuthorizationGoverned
  GovernanceOrder
  InspectorAccepts
  StageTrailLegal
  RetryDiscipline
PROPERTIES
  EvidenceAppendOnly
  ImplementsGovernedCase
  AnalysisSettles
CHECK_DEADLOCK FALSE
