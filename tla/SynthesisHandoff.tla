--------------------------- MODULE SynthesisHandoff ---------------------------
(***************************************************************************)
(* From the specialists' responses to the final answer of a live run: the  *)
(* normalization of claim keys, the role and semantic validators, the      *)
(* conversion of the auditor's assessments, the validated-findings handoff *)
(* with its recommendation and authorization state, the question whether   *)
(* findings disagree, the citations merged into the final answer, its      *)
(* evaluation, and the rebuild of all of it from the recorded invocations  *)
(* (claim_normalization.py, role_scope.py, schedule_semantics.py,          *)
(* commercial_semantics.py, evidence_auditor.py, synthesis_handoff.py and  *)
(* the methods of LiveVariantRun that call them).                          *)
(*                                                                         *)
(* LiveVariantRun has the limits and the order of the invocations and one  *)
(* finding per role; here a response has claims under keys, raw or         *)
(* canonical, with figures and citations.  A claim value is an integer or  *)
(* one of four model values.  Claims in words, dates and the patterns of   *)
(* the role policy are two Booleans of a response; the tables of keys hold *)
(* the keys the code computes with.                                        *)
(***************************************************************************)
EXTENDS Evaluation, SequencesExt

CONSTANTS
  Null,          \* a claim without a value
  ConflictText,  \* words for an open conflict that needs human confirmation
  ClearedText,   \* words for a confirmed arrival
  Fraction,      \* a number with a fraction: no validator reads one
  Figures,       \* what the case records say: see FiguresAssumption
  Orders,        \* the specialists of a run, in the order asked
  Responses,     \* role -> responses a specialist may give
  Audits,        \* responses the auditor may give
  Finals         \* answers the planner may give

FigureNames == {"movement", "float", "slip", "rate", "mitigation"}
ASSUME FiguresAssumption ==
  /\ Figures \in [FigureNames -> Int]
  /\ \A value \in {Null, ConflictText, ClearedText, Fraction} : value \notin Int

Auditor     == "EvidenceAuditor"
Specialists == {"ScheduleExpert", "CommercialExpert", "RiskExpert", Auditor}
Statuses    == {"completed", "validation_error", "failed"}

VARIABLES
  contradicted,   \* detect_onsite_contradictions finds one in the case
  order,          \* the specialists of this run
  phase,          \* where the run stands
  invocations,    \* recorded invocations, with the evidence selected for each
  checks,         \* the validators' verdict on each of them
  handoffs,       \* synthesis handoffs, in the order built
  arbitrated,     \* whether the findings disagreed
  final,          \* the accepted final answer, citations merged
  report,         \* its evaluation
  rebuilt         \* what a diagnostic rebuild derives from the recordings

vars == <<contradicted, order, phase, invocations, checks, handoffs,
          arbitrated, final, report, rebuilt>>

ASSUME OrdersAssumption ==
  \A o \in Orders : o \in Seq(Specialists) /\ o # <<>> /\ IsInjective(o)

(* The auditor gives one assessment per specialist and key of a claim.     *)
ASSUME AuditsAssumption ==
  \A audit \in Audits :
    /\ audit.assessments \in Seq(ToSet(audit.assessments))
    /\ \A i, j \in DOMAIN audit.assessments :
         LET one == audit.assessments[i] other == audit.assessments[j]
         IN  i # j => <<one.agent, one.key>> # <<other.agent, other.key>>

ASSUME FinalsAssumption == Finals \subseteq Answers

(* A run of the council asks the auditor last, the fixed chain does not.   *)
Council == Last(order) = Auditor

-----------------------------------------------------------------------------
(* Evidence a role is shown *)

RoleRecords ==
  [ScheduleExpert   |-> {"CASE-INTAKE-001", "SCH-DELIVERY-001"},
   CommercialExpert |-> {"CASE-INTAKE-001", "SCH-DELIVERY-001", "COST-SUMMARY-001",
                         "CTR-DELAY-001"},
   RiskExpert       |-> {"CASE-INTAKE-001", "SCH-DELIVERY-001", "RISK-001"} \cup OnsiteRecords]

KnownRecords == OnsiteRecords \cup UNION {RoleRecords[r] : r \in DOMAIN RoleRecords}

CitedIn(response) == UNION {response.citations[key] : key \in DOMAIN response.citations}

(* The auditor of a fixed chain is shown every record, the one of a council *)
(* what the specialists before it saw or cited.                            *)
SelectedFor(role, asked) ==
  IF role # Auditor THEN RoleRecords[role]
  ELSE IF ~Council THEN KnownRecords
  ELSE OnsiteRecords \cup
       UNION {asked[i].selected \cup (CitedIn(asked[i].response) \cap KnownRecords)
                : i \in DOMAIN asked}

-----------------------------------------------------------------------------
(* Claim keys *)

Aliases ==
  [ScheduleExpert |->
     [delivery_shift_days           |-> "delivery_movement_days",
      float_consumed_days           |-> "installation_total_float_consumed_days",
      remaining_float_days          |-> "installation_total_float_remaining_days",
      projected_milestone_slip_days |-> "forecast_milestone_slip_days"],
   CommercialExpert |->
     [contractual_delay_exposure_usd_per_day |-> "delay_exposure_usd_per_day",
      unmitigated_delay_exposure_usd         |-> "unmitigated_exposure_usd",
      net_avoided_exposure_usd               |-> "avoided_exposure_usd"],
   RiskExpert |-> <<>>]

Canonical(role, key) == IF key \in DOMAIN Aliases[role] THEN Aliases[role][key] ELSE key

RawKeys(role, claims, key) == {raw \in DOMAIN claims : Canonical(role, raw) = key}

CanonicalKeys(role, claims) == {Canonical(role, raw) : raw \in DOMAIN claims}

(* A Fault_ operator is a plausible slip in the definition after it; none  *)
(* is part of the model.  Here: the first of several values is taken.      *)
Fault_Conflicts(role, claims) == {}

Conflicts(role, claims) ==
  {key \in CanonicalKeys(role, claims) :
     \E one, other \in RawKeys(role, claims, key) : claims[one] # claims[other]}

(* The values of the raw keys of a claim without a conflict are the same.  *)
NormalizedClaims(role, claims) ==
  [key \in CanonicalKeys(role, claims) \ Conflicts(role, claims) |->
     claims[CHOOSE raw \in RawKeys(role, claims, key) : TRUE]]

(* Only the keys that the claims themselves use are translated: a citation *)
(* under an alias of a claim made under its canonical key stays where it   *)
(* is.                                                                     *)
CanonicalCitations(role, response, key) ==
  UNION {response.citations[cited] : cited \in
    {c \in DOMAIN response.citations :
       key = IF c \in DOMAIN response.claims THEN Canonical(role, c) ELSE c}}

-----------------------------------------------------------------------------
(* Semantic validators *)

(* The integer a claim holds, as a set of at most one element:             *)
(* _int_or_none drops a number with a fraction as it drops words.          *)
Read(claims, key) == {claims[k] : k \in {key} \cap DOMAIN claims} \cap Int

MinOf(a, b) == IF a < b THEN a ELSE b
MaxOf(a, b) == IF a < b THEN b ELSE a

(* The float used up and left, and the slip, follow from the movement the  *)
(* expert claims.                                                          *)
ScheduleExpected(movement) ==
  [installation_total_float_days           |-> Figures["float"],
   installation_total_float_consumed_days  |-> MinOf(movement, Figures["float"]),
   installation_total_float_remaining_days |-> MaxOf(Figures["float"] - movement, 0),
   forecast_milestone_slip_days            |-> MaxOf(movement - Figures["float"], 0)]

(* A claim that is not an integer is not checked, whatever it says.  The   *)
(* status, the direction and the dates are consistent or not.              *)
ScheduleValid(claims, consistent) ==
  LET movement == Read(claims, "delivery_movement_days")
      expected == ScheduleExpected(IF movement = {} THEN Figures["movement"]
                                   ELSE CHOOSE m \in movement : TRUE)
  IN  /\ movement \subseteq {Figures["movement"]}
      /\ \A key \in DOMAIN expected : Read(claims, key) \subseteq {expected[key]}
      /\ consistent

CommercialExpected ==
  LET exposure == Figures["rate"] * Figures["slip"]
  IN  [delay_exposure_usd_per_day    |-> Figures["rate"],
       forecast_milestone_slip_days  |-> Figures["slip"],
       projected_milestone_slip_days |-> Figures["slip"],
       unmitigated_exposure_usd      |-> exposure,
       mitigation_cost_usd           |-> Figures["mitigation"],
       avoided_exposure_usd          |-> exposure - Figures["mitigation"],
       gross_avoided_exposure_usd    |-> exposure - Figures["mitigation"]]

(* A projected slip is looked at only in the absence of a forecast one.    *)
SlipKey(claims) ==
  IF "forecast_milestone_slip_days" \in DOMAIN claims
  THEN "forecast_milestone_slip_days" ELSE "projected_milestone_slip_days"

CommercialChecked(claims) ==
  DOMAIN claims \cap
    ({SlipKey(claims)} \cup (DOMAIN CommercialExpected
       \ {"forecast_milestone_slip_days", "projected_milestone_slip_days"}))

WrongFigures(claims) ==
  {key \in CommercialChecked(claims) : claims[key] # CommercialExpected[key]}

(* Figures that do not follow from the other figures of the response.      *)
Inconsistent(claims) ==
  {key \in {"unmitigated_exposure_usd"} :
     \E exposure \in Read(claims, key), rate \in Read(claims, "delay_exposure_usd_per_day"),
        slip \in Read(claims, SlipKey(claims)) : exposure # rate * slip}
  \cup
  {key \in {"avoided_exposure_usd", "gross_avoided_exposure_usd"} :
     \E avoided \in Read(claims, key), exposure \in Read(claims, "unmitigated_exposure_usd"),
        cost \in Read(claims, "mitigation_cost_usd") : avoided # exposure - cost}

(* Fault: figures that follow from each other are taken for validated.     *)
Fault_CommercialInvalid(claims) == Inconsistent(claims)

CommercialInvalid(claims) == WrongFigures(claims) \cup Inconsistent(claims)

(* _semantic_status_for_claim: one wrong figure fails the commercial       *)
(* claims concerned and those not checked, but all the claims of the       *)
(* schedule.                                                               *)
SemanticStatus(role, claims, consistent, key) ==
  CASE role = "ScheduleExpert" ->
         IF ScheduleValid(claims, consistent) THEN "passed" ELSE "failed"
    [] role = "CommercialExpert" ->
         IF key \in CommercialInvalid(claims) THEN "failed"
         ELSE IF key \in CommercialChecked(claims) \/ CommercialInvalid(claims) = {}
         THEN "passed" ELSE "failed"
    [] OTHER -> "not_applicable"

-----------------------------------------------------------------------------
(* Role scope *)

ConflictKeys ==
  {"onsite_status_conflict", "conflicting_onsite_status_requires_human_confirmation"}

GateKeys ==
  {"human_escalation_required", "recovery_approval_risk",
   "conflicting_onsite_status_requires_human_confirmation"}

AllowedKeys ==
  [ScheduleExpert   |-> {"delivery_movement_days"} \cup DOMAIN ScheduleExpected(0),
   CommercialExpert |-> DOMAIN CommercialExpected,
   RiskExpert       |-> ConflictKeys \cup GateKeys]

(* inScope: no text or warning of the response matches a prohibited        *)
(* category.  Records the role was not shown include all those of a type   *)
(* it must not cite.                                                       *)
RoleScopeValid(role, response, claims, selected) ==
  /\ DOMAIN claims \subseteq AllowedKeys[role]
  /\ CitedIn(response) \subseteq selected
  /\ response.inScope

-----------------------------------------------------------------------------
(* Findings *)

Failing(tests) == {reason \in DOMAIN tests : ~tests[reason]}

(* A response that failed validation is kept, a failed call has none.      *)
RawClaims(invocation) == IF invocation.status = "failed" THEN <<>> ELSE invocation.response.claims

SpecialistTests(invocation, key) ==
  LET role   == invocation.role
      claims == NormalizedClaims(role, RawClaims(invocation))
  IN  [schema        |-> invocation.status = "completed",
       normalization |-> Conflicts(role, RawClaims(invocation)) = {},
       role_scope    |-> RoleScopeValid(role, invocation.response, claims, invocation.selected),
       semantic      |-> SemanticStatus(role, claims, invocation.response.consistent, key) # "failed"]

SpecialistFindings(invocation) ==
  LET claims == NormalizedClaims(invocation.role, RawClaims(invocation))
  IN  {[source |-> invocation.role, key |-> key, value |-> claims[key],
        citations |-> CanonicalCitations(invocation.role, invocation.response, key),
        audits |-> "nobody", support |-> "none",
        failing |-> Failing(SpecialistTests(invocation, key))] : key \in DOMAIN claims}

(* Fault: the auditor is taken to name every claim by its canonical key.   *)
Fault_ClaimId(assessment) == <<assessment.agent, assessment.key>>

ClaimId(assessment) == <<assessment.agent, Canonical(assessment.agent, assessment.key)>>

(* Fault: every assessment becomes a claim.                                *)
Fault_KeptAssessments(assessments) == ToSet(assessments)

(* The assessments become claims under their identifiers, one after the    *)
(* other: of two with the same identifier the later one stays.             *)
KeptAssessments(assessments) ==
  {assessments[i] : i \in
    {j \in DOMAIN assessments :
       \A k \in DOMAIN assessments : k > j => ClaimId(assessments[k]) # ClaimId(assessments[j])}}

(* Only a response that satisfies the auditor's schema has assessments.    *)
Assessments(invocation) ==
  IF invocation.status = "completed" THEN invocation.response.assessments ELSE <<>>

(* An assessment that cites an unknown record makes all of them ineligible. *)
AuditTests(invocation, assessment) ==
  LET cited == UNION {one.citations : one \in ToSet(Assessments(invocation))}
      valid == cited \subseteq KnownRecords
  IN  [normalization |-> valid,
       role_scope    |-> valid /\ cited \subseteq invocation.selected,
       audit         |-> assessment.support = "supported"]

AuditFindings(invocation) ==
  {[source |-> Auditor, key |-> ClaimId(a)[2], value |-> a.observed,
    citations |-> a.citations, audits |-> a.agent, support |-> a.support,
    failing |-> Failing(AuditTests(invocation, a))]
     : a \in KeptAssessments(Assessments(invocation))}

Validated(invocation) ==
  IF invocation.role = Auditor THEN AuditFindings(invocation) ELSE SpecialistFindings(invocation)

(* _apply_audit_assessment_exclusions: whether the assessment itself is    *)
(* eligible plays no part.                                                 *)
ExcludeAudited(findings) ==
  LET Overruled(finding) ==
        finding.source # Auditor /\ \E audit \in findings :
          /\ audit.source = Auditor
          /\ audit.support \in {"contradicted", "unsupported"}
          /\ audit.audits = finding.source
          /\ audit.key = finding.key
  IN  {IF Overruled(f) THEN [f EXCEPT !.failing = @ \cup {"audit"}] ELSE f : f \in findings}

-----------------------------------------------------------------------------
(* Recommendation and authorization *)

ConflictReported(findings) ==
  \E f \in findings : f.key \in ConflictKeys \/ f.value = ConflictText

HumanGateRequired(findings) ==
  \E f \in findings : f.key \in GateKeys \/ f.value = ConflictText

(* Fault: only what the findings say of the conflict counts.               *)
Fault_AuthorizationState(findings) ==
  [available     |-> FALSE,
   authorization |-> IF ConflictReported(findings) THEN "blocked_pending_human_confirmation"
                     ELSE "ready_for_authorization"]

(* No caller passes the decisions already recorded.  A gate without a      *)
(* contradiction has no request and blocks nothing.                        *)
AuthorizationState(findings) ==
  LET keys          == {f.key : f \in findings}
      contradiction == ConflictReported(findings) \/ contradicted
      gate          == HumanGateRequired(findings) \/ contradiction
  IN  [available     |->
         /\ keys \cap {"forecast_milestone_slip_days", "projected_milestone_slip_days"} # {}
         /\ {"unmitigated_exposure_usd", "mitigation_cost_usd"} \subseteq keys
         /\ keys \cap {"gross_avoided_exposure_usd", "avoided_exposure_usd"} # {},
       authorization |->
         IF gate /\ contradiction THEN "blocked_pending_human_confirmation"
         ELSE "ready_for_authorization"]

(* build_synthesis_handoff                                                 *)
Handoff(validated, target) ==
  LET findings == ExcludeAudited(UNION ToSet(validated))
      eligible == {f \in findings : f.failing = {}}
  IN  [target |-> target, validated |-> eligible, excluded |-> findings \ eligible,
       state |-> AuthorizationState(eligible)]

-----------------------------------------------------------------------------
(* Disagreements *)

Domain(key) ==
  CASE key \in {"forecast_milestone_slip_days", "projected_milestone_slip_days"} -> "milestone_slip"
    [] key \in {"gross_avoided_exposure_usd", "avoided_exposure_usd"} -> "avoided_exposure"
    [] key \in ConflictKeys -> "equipment_onsite_status"
    [] OTHER -> key

(* Fault: an assessment without an observed value counts as a value.       *)
Fault_Disagree(findings) ==
  \E one, other \in findings : Domain(one.key) = Domain(other.key) /\ one.value # other.value

(* Values of one domain that differ, but for an open conflict over the     *)
(* arrival, which only a human can settle.                                 *)
Disagree(findings) ==
  \E one, other \in findings :
    /\ Domain(one.key) = Domain(other.key)
    /\ one.value # other.value
    /\ Null \notin {one.value, other.value}
    /\ Domain(one.key) = "equipment_onsite_status" =>
         LET said == {f.value : f \in {g \in findings : Domain(g.key) = "equipment_onsite_status"}}
         IN  ConflictText \notin said \/ ClearedText \in said

-----------------------------------------------------------------------------
(* Citations of the final answer *)

FINAL_CITATION_REQUIREMENTS ==
  [projected_slip_days        |-> {"SCH-DELIVERY-001"},
   unmitigated_exposure_usd   |-> {"SCH-DELIVERY-001", "COST-SUMMARY-001", "CTR-DELAY-001"},
   mitigation_cost_usd        |-> {"COST-SUMMARY-001"},
   gross_avoided_exposure_usd |-> {"COST-SUMMARY-001", "CTR-DELAY-001"},
   onsite_status_contradiction_detected |-> OnsiteRecords,
   human_confirmation_required          |-> OnsiteRecords,
   preferred_option_id        |-> {"COST-SUMMARY-001", "SCH-DELIVERY-001", "LOG-STATUS-001"},
   preferred_option_subject_to_approval |-> {"COST-SUMMARY-001"} \cup OnsiteRecords]

FinalFields == DOMAIN FINAL_CITATION_REQUIREMENTS

Answered(answer) == {field \in FinalFields : answer.values[field] # "absent"}

(* Fault: a field that the planner cited itself is left alone.             *)
Fault_MergedUncited(answer, findings) ==
  LET available == UNION {f.citations : f \in findings}
  IN  [field \in FinalFields |->
         IF field \in Answered(answer) /\ answer.citations[field] = {}
           THEN Once(FINAL_CITATION_REQUIREMENTS[field] \cap available)
           ELSE answer.citations[field]]

(* Only records that findings cite are added, to the fields answered.  A   *)
(* field that gets any loses its repetitions, the others keep theirs.      *)
MergedCitations(answer, findings) ==
  LET available == UNION {f.citations : f \in findings}
  IN  [field \in FinalFields |->
         LET selected == FINAL_CITATION_REQUIREMENTS[field] \cap available
         IN  IF field \in Answered(answer) /\ selected # {}
               THEN Once(RecordsOf(answer.citations[field]) \cup selected)
               ELSE answer.citations[field]]

(* An answer without the recovery schema is kept as it came.               *)
Merged(answer, findings) ==
  IF answer.evaluable THEN [answer EXCEPT !.citations = MergedCitations(answer, findings)]
  ELSE answer

NoFinal    == [evaluable |-> FALSE, none |-> TRUE]
NoReport   == [made |-> FALSE]
NotRebuilt == [handoffs |-> <<>>, final |-> NoFinal, report |-> NoReport]

(* Only an answer with the recovery schema is evaluated, whether or not    *)
(* the rest of it is valid.                                                *)
Report(answer) ==
  IF answer.evaluable THEN [made |-> TRUE, grade |-> Evaluated(answer, KnownRecords)]
  ELSE NoReport

-----------------------------------------------------------------------------
Init ==
  /\ contradicted \in BOOLEAN
  /\ order \in Orders
  /\ phase = "asking"
  /\ invocations = <<>>
  /\ checks = <<>>
  /\ handoffs = <<>>
  /\ arbitrated = FALSE
  /\ final = NoFinal
  /\ report = NoReport
  /\ rebuilt = NotRebuilt

(* _invoke_specialist: the answer is validated whatever its status; one    *)
(* that is not completed stops the run.                                    *)
SpecialistAnswers ==
  /\ phase = "asking"
  /\ LET role == order[Len(invocations) + 1]
     IN  \E response \in IF role = Auditor THEN Audits ELSE Responses[role], status \in Statuses :
           LET invocation == [role |-> role, status |-> status, response |-> response,
                              selected |-> SelectedFor(role, invocations)]
           IN  /\ invocations' = Append(invocations, invocation)
               /\ checks' = Append(checks, Validated(invocation))
               /\ phase' = IF status # "completed" THEN "stopped"
                           ELSE IF Len(invocations') = Len(order) THEN "synthesis"
                           ELSE "asking"
  /\ UNCHANGED <<contradicted, order, handoffs, arbitrated, final, report, rebuilt>>

(* The council asks the arbiter when findings disagree, and builds the     *)
(* planner's handoff after that.                                           *)
Deliberate ==
  /\ phase = "synthesis"
  /\ Council
  /\ LET handoff == Handoff(checks, "ArbiterAgent")
     IN  /\ arbitrated' = Disagree(handoff.validated)
         /\ handoffs' = IF arbitrated' THEN <<handoff>>
                        ELSE <<handoff, Handoff(checks, "RecoveryPlanner")>>
  /\ phase' = IF arbitrated' THEN "arbitration" ELSE "planning"
  /\ UNCHANGED <<contradicted, order, invocations, checks, final, report, rebuilt>>

Synthesize ==
  /\ phase = "synthesis"
  /\ ~Council
  /\ handoffs' = <<Handoff(checks, "RecoveryPlanner")>>
  /\ phase' = "planning"
  /\ UNCHANGED <<contradicted, order, invocations, checks, arbitrated, final, report, rebuilt>>

ArbiterAnswers ==
  /\ phase = "arbitration"
  /\ \/ /\ handoffs' = Append(handoffs, Handoff(checks, "RecoveryPlanner"))
        /\ phase' = "planning"
     \/ /\ phase' = "stopped"
        /\ UNCHANGED handoffs
  /\ UNCHANGED <<contradicted, order, invocations, checks, arbitrated, final, report, rebuilt>>

(* _set_final_result, with the citations of the latest handoff             *)
PlannerAnswers ==
  /\ phase = "planning"
  /\ \E answer \in Finals : final' = Merged(answer, Last(handoffs).validated)
  /\ report' = Report(final')
  /\ phase' = "over"
  /\ UNCHANGED <<contradicted, order, invocations, checks, handoffs, arbitrated, rebuilt>>

(* Fault: the rebuild shows the auditor what one asked on its own is shown.*)
Fault_Rerun(invocation) ==
  Validated(IF invocation.role = Auditor THEN [invocation EXCEPT !.selected = KnownRecords]
            ELSE invocation)

(* The rebuild validates each recorded invocation against the evidence     *)
(* recorded for it.                                                        *)
Rerun(invocation) == Validated(invocation)

(* rebuild_derived_artifacts, also of a run that stopped: it starts from   *)
(* the recorded answer, whose citations are already merged.                *)
Rebuild ==
  /\ phase \in {"over", "stopped"}
  /\ LET handoff == Handoff([i \in DOMAIN invocations |-> Rerun(invocations[i])], "RecoveryPlanner")
         merged  == Merged(final, handoff.validated)
     IN  rebuilt' = [handoffs |-> <<handoff>>, final |-> merged, report |-> Report(merged)]
  /\ phase' = "rebuilt"
  /\ UNCHANGED <<contradicted, order, invocations, checks, handoffs, arbitrated, final, report>>

Next ==
  SpecialistAnswers \/ Deliberate \/ Synthesize \/ ArbiterAnswers \/ PlannerAnswers \/ Rebuild

Spec == Init /\ [][Next]_vars

-----------------------------------------------------------------------------
(* Properties *)

Built == ToSet(handoffs) \cup ToSet(rebuilt.handoffs)

FindingOf(handoff, claim) ==
  {f \in handoff.validated \cup handoff.excluded : <<f.source, f.audits, f.key>> = claim}

\* Every variable has its type; in particular a handoff speaks once of a claim,
\* validated or excluded, and once of an assessment.
TypeOK ==
  /\ contradicted \in BOOLEAN /\ order \in Orders /\ arbitrated \in BOOLEAN
  /\ phase \in {"asking", "synthesis", "arbitration", "planning", "stopped", "over", "rebuilt"}
  /\ Len(invocations) = Len(checks) /\ Len(invocations) <= Len(order)
  /\ \A i \in DOMAIN invocations :
       invocations[i].role = order[i] /\ invocations[i].selected \subseteq KnownRecords
  /\ \A handoff \in Built :
       /\ \A f \in handoff.validated : f.failing = {}
       /\ \A f \in handoff.excluded : f.failing # {}
       /\ \A one, other \in handoff.validated \cup handoff.excluded :
            <<one.source, one.audits, one.key>> = <<other.source, other.audits, other.key>> => one = other
  /\ final = NoFinal \/ DOMAIN final.citations = FinalFields
  /\ report.made => final.evaluable

(* What the case records imply for a key, as a set.                        *)
Truth(key) ==
  LET schedule == ScheduleExpected(Figures["movement"])
  IN  {Figures["movement"] : k \in {key} \cap {"delivery_movement_days"}}
      \cup {schedule[k] : k \in {key} \cap DOMAIN schedule}
      \cup {CommercialExpected[k] : k \in {key} \cap DOMAIN CommercialExpected}

\* An integer a specialist hands on is the case's figure, even when several wrong
\* figures of the response agree with each other; a commercial figure is always an
\* integer, but for a projected slip beside a forecast one, which nothing looks
\* at.  Of the schedule only integers are read: it can hand on a wrong number with
\* a fraction, 12.5 days of slip, as it can hand on words.
EligibleFiguresRight ==
  \A handoff \in Built : \A f \in handoff.validated :
    /\ (f.source = "ScheduleExpert" /\ f.value \in Int) => f.value \in Truth(f.key)
    /\ f.source = "CommercialExpert" =>
         f.value \in Truth(f.key) \/ f.key = "projected_milestone_slip_days"

\* No value is chosen silently: when a specialist gave two values for one claim
\* under its aliases, no handoff has a finding for that claim and none of that
\* specialist's other claims is handed on.
NoSilentChoice ==
  \A i \in DOMAIN invocations :
    LET role   == invocations[i].role
        claims == invocations[i].response.claims
    IN  (role # Auditor /\ invocations[i].status # "failed") =>
          \A one, other \in DOMAIN claims :
            (Canonical(role, one) = Canonical(role, other) /\ claims[one] # claims[other]) =>
              \A handoff \in Built :
                /\ FindingOf(handoff, <<role, "nobody", Canonical(role, one)>>) = {}
                /\ \A f \in handoff.validated : f.source # role

AuditResponses ==
  {Assessments(invocations[i]) : i \in
     {j \in DOMAIN invocations : invocations[j].role = Auditor}}

Names(assessment, agent, key) ==
  assessment.agent = agent /\ Canonical(agent, assessment.key) = key

\* The audit is heeded: a claim that every assessment of it finds contradicted
\* or unsupported is not handed on, under whichever key the auditor names it and
\* whether or not the auditor's response is itself eligible, and no assessment
\* that is not supported is handed on as a finding.
AuditHeeded ==
  \A assessments \in AuditResponses, handoff \in Built : \A f \in handoff.validated :
    /\ f.source = Auditor => f.support = "supported"
    /\ f.source # Auditor =>
         LET about == {a \in ToSet(assessments) : Names(a, f.source, f.key)}
         IN  about = {} \/ \E a \in about : a.support \notin {"contradicted", "unsupported"}

\* The human gate holds: whatever the agents answer, while the records of the
\* case contradict each other no handoff calls the recommendation ready for
\* authorization; and findings that were excluded block nothing.
GateHolds ==
  \A handoff \in Built :
    (handoff.state.authorization = "blocked_pending_human_confirmation") <=>
      (contradicted \/ \E f \in handoff.validated :
         f.key \in ConflictKeys \/ f.value = ConflictText)

\* The merge invents nothing: a citation of the final answer that the planner
\* did not give was given by a specialist to whom the record was shown, and
\* whose finding is in the handoff the planner got.
MergeInventsNothing ==
  (final # NoFinal /\ final.evaluable) =>
    \A field \in FinalFields :
      \A record \in RecordsOf(final.citations[field]) :
        \/ \E answer \in Finals :
             answer.values = final.values /\ record \in RecordsOf(answer.citations[field])
        \/ /\ record \in FINAL_CITATION_REQUIREMENTS[field] /\ field \in Answered(final)
           /\ \E f \in Last(handoffs).validated, i \in DOMAIN invocations :
                /\ invocations[i].role = f.source
                /\ record \in f.citations \cap invocations[i].selected

\* The arbiter is asked only with cause: two findings of one claim give it values
\* that differ, and one of them is not what the records imply.  So no arbitration
\* takes place when every figure handed on is the case's figure and the findings
\* of any other claim agree, although specialists state a claim under different
\* keys, derive it from different records, and assessments may have no observed
\* value.
ConsensusSkipsArbiter ==
  arbitrated =>
    \E f, g \in handoffs[1].validated :
      /\ Domain(f.key) = Domain(g.key)
      /\ f.value # g.value /\ Null \notin {f.value, g.value}
      /\ f.value \notin Truth(f.key)

\* A diagnostic rebuild reproduces the run it was made of: the handoff the
\* planner got, a final answer on which merging once more changes nothing, and
\* its evaluation.
RebuildReproduces ==
  (phase = "rebuilt" /\ final # NoFinal) =>
    /\ Last(rebuilt.handoffs) = Last(handoffs)
    /\ rebuilt.final = final
    /\ rebuilt.report = report

\* Full marks are earned: an answer passes every metric exactly when each of its
\* claims has the expected value and all the required citations, it cites only
\* records of the case, takes none of its claims back and does not assert an
\* arrival nobody confirmed; no claim is left out of the metrics, and what is
\* added to the citations neither hides a gap nor makes one.
FullMarksAreEarned ==
  report.made => (FullMarks(report.grade) <=> Faultless(final, KnownRecords))

NotWorse(score, than) == score[1] * than[2] >= than[1] * score[2]

(* A list that mentions a record more than once.                           *)
Repeats(list) == \E one, other \in list : one # other /\ one[1] = other[1]

\* What the specialists cited counts: whatever the planner's answer, the merge
\* lowers the recall of no claim, and its precision only by as much as a list in
\* which the planner mentioned records more than once loses with its repetitions;
\* it changes no other metric and turns none from passed to failed; and a claim
\* the answer makes is missing a required record only when neither the answer nor
\* any finding of the handoff cites it, although the evaluator and the merge each
\* have a table of their own of what a claim requires.
MergeServesTheGrade ==
  phase = "planning" =>
    \A answer \in {a \in Finals : a.evaluable /\ a.valid} :
      LET findings == Last(handoffs).validated
          available == UNION {f.citations : f \in findings}
          merged == Merged(answer, findings)
          before == Evaluated(answer, KnownRecords)
          after  == Evaluated(merged, KnownRecords)
      IN  /\ \A c \in Claims :
               LET cited == answer.citations[c]
               IN  /\ \/ after.precision[c] = before.precision[c]
                      \/ NotWorse(after.precision[c], Precision(Once(RecordsOf(cited)), KnownRecords))
                   /\ Repeats(cited) \/ NotWorse(after.precision[c], before.precision[c])
                   /\ NotWorse(after.recall[c], before.recall[c])
                   /\ answer.values[c] # "absent" =>
                        CLAIM_REQUIREMENTS[c] \cap available \subseteq RecordsOf(merged.citations[c])
          /\ \A metric \in DOMAIN after.passed :
               /\ before.passed[metric] => after.passed[metric]
               /\ metric \notin {"evidence_citation_precision", "evidence_citation_recall"} =>
                    after.passed[metric] = before.passed[metric]

\* The citations added to the final answer are sound: none is invented, and all
\* that count for the evaluation are there.
CitationMergeSound == MergeInventsNothing /\ MergeServesTheGrade

(* A statement the documentation makes and the code does not keep          *)

\* docs/EVIDENCE_AUDITOR_RESPONSE_CONTRACT.md: contradicted findings remain
\* visible but are excluded from positive synthesis.  Every assessment of the
\* auditor that contradicts a claim is among the excluded findings.
ContradictionsVisible ==
  \A assessments \in AuditResponses, handoff \in Built : \A a \in ToSet(assessments) :
    a.support = "contradicted" =>
      \E f \in handoff.excluded :
        f.source = Auditor /\ f.support = "contradicted" /\ Names(a, f.audits, f.key)
=============================================================================
