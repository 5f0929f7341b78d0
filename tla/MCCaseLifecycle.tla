--------------------------- MODULE MCCaseLifecycle ---------------------------
(***************************************************************************)
(* Bounds for CaseLifecycle: the case bundles that lead the commands down  *)
(* different paths, and what a killed rmtree leaves behind.                *)
(***************************************************************************)
EXTENDS CaseLifecycle

Standard ==
  [issues |-> FALSE, deliveryLater |-> TRUE, exposurePositive |-> TRUE,
   arrivalRecorded |-> FALSE, riskListed |-> TRUE, optionListed |-> TRUE,
   slipNegative |-> FALSE, injectFailure |-> FALSE]

WithFailure == [Standard EXCEPT !.injectFailure = TRUE]
WithIssues  == [Standard EXCEPT !.issues = TRUE]
Arrived     == [Standard EXCEPT !.arrivalRecorded = TRUE]
Slipping    == [Standard EXCEPT !.slipNegative = TRUE]

StandardCase == {Standard}
EveryCase == {Standard, WithFailure, WithIssues, Arrived, Slipping}

(* Everything, everything but the state, only the state, everything but an *)
(* optional file.                                                          *)
SomeLeft ==
  {ToSet(AllFiles), ToSet(AllFiles) \ {StateFile}, {StateFile},
   ToSet(AllFiles) \ {"draft-recommendation.json"}}
NoneLeft == {}

EveryFile == ToSet(AllFiles)
(* For two processes at a time: the state, the summary, what the approver  *)
(* wrote and the manifest.                                                 *)
FewFiles == {"final-recommendation.json"}
=============================================================================
