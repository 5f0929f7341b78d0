---------------------------- MODULE MCCaseReplay ----------------------------
(***************************************************************************)
(* Bounds for CaseReplay: what the case bundle contains and is edited to.  *)
(***************************************************************************)
EXTENDS CaseReplay

Standard ==
  [facts |-> [issues |-> FALSE, deliveryLater |-> TRUE, exposurePositive |-> TRUE,
              arrivalRecorded |-> FALSE, riskListed |-> TRUE, optionListed |-> TRUE,
              slipNegative |-> FALSE, injectFailure |-> FALSE],
   figures |-> 1]

(* Other money, an arrival on record, a delay that the option does not     *)
(* shorten, files that contradict each other.                              *)
Repriced  == [Standard EXCEPT !.figures = 2]
Arrived   == [Standard EXCEPT !.facts.arrivalRecorded = TRUE]
Slipping  == [Standard EXCEPT !.facts.slipNegative = TRUE, !.figures = 2]
WithIssues == [Standard EXCEPT !.facts.issues = TRUE]

(* Nothing for any expert to find, with one budget and another.            *)
Unremarkable == [Standard EXCEPT !.facts.deliveryLater = FALSE, !.facts.exposurePositive = FALSE,
                                !.facts.riskListed = FALSE]
Rebudgeted == [Unremarkable EXCEPT !.figures = 2]

EveryCase == {Standard, Repriced, Arrived, Slipping, WithIssues}
QuietCase == {Unremarkable, Rebudgeted}
EditedCase == {Standard, Repriced}

Symmetric == Permutations(Places)
=============================================================================
