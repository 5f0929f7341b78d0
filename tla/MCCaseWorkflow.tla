--------------------------- MODULE MCCaseWorkflow ---------------------------
(***************************************************************************)
(* Bounds for CaseWorkflow: every combination of case facts and callers    *)
(* that submit any outcome.                                                *)
(***************************************************************************)
EXTENDS CaseWorkflow

(* Callers of the runner's methods, which accept any outcome.              *)
AnyOutcome == Outcomes

=============================================================================
