CONSTANTS
  MaximumRetries = 1
  Variants <- AllVariants
  Controls <- FewControls
  Routings <- FewRoutings
  Usages <- NoCharge
SPECIFICATION Spec
INVARIANT FailedRunPreserved
CHECK_DEADLOCK FALSE
