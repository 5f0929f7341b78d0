----------------------------- MODULE Evaluation -----------------------------
(***************************************************************************)
(* The evaluator of final answers (evaluation.py): the status of each      *)
(* claim, the precision and recall of its citations, and which metrics an  *)
(* answer passes.                                                          *)
(*                                                                         *)
(* An answer gives each claim the expected value, another one or none,     *)
(* marks some claims itself as unsupported or ambiguous, may assert that   *)
(* the equipment is onsite, and cites records.  The case expects the       *)
(* contradiction to be found and the assertion to be avoided.  A score is  *)
(* a pair of numerator and denominator.  What an answer cites for a claim  *)
(* is a list, in which a record may be mentioned more than once: here the  *)
(* set of its mentions <<record, which mention>>, since nothing reads the  *)
(* order.  Costs and tokens are left out.                                  *)
(***************************************************************************)
EXTENDS Integers, FiniteSets

CONSTANT Records   \* the names an answer may cite, records of the case or not

OnsiteRecords == {"PRG-ONSITE-001", "SUP-NOT-ARRIVED-001", "LOG-STATUS-001"}

CLAIM_REQUIREMENTS ==
  [projected_slip_days        |-> {"SCH-DELIVERY-001"},
   unmitigated_exposure_usd   |-> {"SCH-DELIVERY-001", "COST-SUMMARY-001", "CTR-DELAY-001"},
   mitigation_cost_usd        |-> {"COST-SUMMARY-001"},
   gross_avoided_exposure_usd |-> {"COST-SUMMARY-001", "CTR-DELAY-001"},
   onsite_status_contradiction_detected |-> OnsiteRecords,
   human_confirmation_required          |-> OnsiteRecords,
   preferred_option_id        |-> {"COST-SUMMARY-001", "SCH-DELIVERY-001"},
   preferred_option_subject_to_approval |-> {"COST-SUMMARY-001"} \cup OnsiteRecords]

RequiredRecords ==
  {"SCH-DELIVERY-001", "COST-SUMMARY-001", "CTR-DELAY-001"} \cup OnsiteRecords

ASSUME RecordsAssumption == IsFiniteSet(Records) /\ RequiredRecords \subseteq Records

Claims    == DOMAIN CLAIM_REQUIREMENTS
Monetary  == {"unmitigated_exposure_usd", "mitigation_cost_usd", "gross_avoided_exposure_usd"}
Preferred == {"preferred_option_id", "preferred_option_subject_to_approval"}
Facts     == {"onsite_status_contradiction_detected", "human_confirmation_required"} \cup Preferred

(* The lists of records, each mention apart; the records a list mentions;  *)
(* and the list that mentions each of some records once.                   *)
Mentions == {list \in SUBSET (Records \X (Nat \ {0})) : IsFiniteSet(list)}

RecordsOf(list) == {mention[1] : mention \in list}
Once(records)   == records \X {1}

(* What the planner answers; evaluable: under the schema that is evaluated *)
(* at all.                                                                 *)
Answers ==
  [evaluable : BOOLEAN, valid : BOOLEAN, asserted : BOOLEAN,
   values : [Claims -> {"right", "wrong", "absent"}],
   unsupported : SUBSET STRING, ambiguous : SUBSET STRING,
   citations : [Claims -> Mentions]]

(* A Fault_ operator is a plausible slip in the definition after it; none  *)
(* is part of the model.  Here: a claim is graded by its value alone.      *)
Fault_ClaimStatus(answer, claim) ==
  IF ~answer.valid THEN "absent"
  ELSE IF answer.values[claim] = "right" THEN "correct"
  ELSE IF answer.values[claim] = "wrong" THEN "incorrect"
  ELSE "absent"

(* What an answer says against a claim of its own comes before its value.  *)
ClaimStatus(answer, claim) ==
  IF ~answer.valid THEN "absent"
  ELSE IF claim \in answer.unsupported THEN "unsupported"
  ELSE IF claim \in answer.ambiguous THEN "ambiguous"
  ELSE IF answer.values[claim] = "absent" THEN "absent"
  ELSE IF answer.values[claim] = "right" THEN "correct"
  ELSE "incorrect"

(* The claim unsupported_onsite_assertion_prohibited                       *)
AssertionStatus(answer) ==
  IF ~answer.valid THEN "absent" ELSE IF answer.asserted THEN "unsupported" ELSE "correct"

(* What an invalid answer cites is not read.                               *)
Cited(answer, claim) == IF answer.valid THEN answer.citations[claim] ELSE {}

Share(part, whole) == <<Cardinality(part), Cardinality(whole)>>

(* Precision counts mentions, recall records.                              *)
Precision(cited, known) ==
  IF cited = {} THEN <<0, 1>>
  ELSE Share({mention \in cited : mention[1] \in known}, cited)

Recall(claim, cited, known) ==
  Share(RecordsOf(cited) \cap known \cap CLAIM_REQUIREMENTS[claim], CLAIM_REQUIREMENTS[claim])

Whole(score) == score[1] = score[2]

(* The contradiction is judged by the value alone, whatever the answer     *)
(* says against it.                                                        *)
ContradictionFound(answer) ==
  answer.valid /\ answer.values["onsite_status_contradiction_detected"] = "right"

(* Which metrics an answer passes: every share must be whole.              *)
Passed(answer, precision, recall) ==
  LET correct     == {c \in Claims : ClaimStatus(answer, c) = "correct"}
      unsupported == {c \in Claims : ClaimStatus(answer, c) = "unsupported"}
      assertion   == AssertionStatus(answer)
  IN  [required_fact_accuracy        |-> Facts \subseteq correct /\ assertion = "correct",
       monetary_calculation_accuracy |-> Monetary \subseteq correct,
       schedule_impact_accuracy      |-> "projected_slip_days" \in correct,
       evidence_citation_precision   |-> \A c \in Claims : Whole(precision[c]),
       evidence_citation_recall      |-> \A c \in Claims : Whole(recall[c]),
       contradiction_detection       |-> ContradictionFound(answer),
       unsupported_claim_count       |-> unsupported = {} /\ assertion # "unsupported",
       correct_human_escalation      |-> "human_confirmation_required" \in correct,
       preferred_recovery_option     |-> Preferred \subseteq correct,
       schema_valid_response_rate    |-> answer.valid]

(* evaluate_model_result: known are the records of the case bundle.        *)
Evaluated(answer, known) ==
  LET precision == [c \in Claims |-> Precision(Cited(answer, c), known)]
      recall    == [c \in Claims |-> Recall(c, Cited(answer, c), known)]
  IN  [precision |-> precision, recall |-> recall,
       passed    |-> Passed(answer, precision, recall)]

FullMarks(report) == \A metric \in DOMAIN report.passed : report.passed[metric]

(* What full marks should mean, said without metrics: each claim has the   *)
(* expected value and the required citations, only records of the case are *)
(* cited, no claim is taken back, no arrival is asserted.                  *)
Faultless(answer, known) ==
  /\ answer.valid /\ ~answer.asserted
  /\ (answer.unsupported \cup answer.ambiguous) \cap Claims = {}
  /\ \A c \in Claims :
       /\ answer.values[c] = "right"
       /\ CLAIM_REQUIREMENTS[c] \subseteq RecordsOf(answer.citations[c])
       /\ RecordsOf(answer.citations[c]) \subseteq known
=============================================================================
