------------------------- MODULE MCSynthesisHandoff -------------------------
(***************************************************************************)
(* Bounds for SynthesisHandoff: the figures of the sample case; responses  *)
(* that are right, wrong, consistently wrong, with a fraction, incomplete, *)
(* out of scope or given under aliases; up to two assessments by the       *)
(* auditor.                                                                *)
(***************************************************************************)
EXTENDS SynthesisHandoff

SampleFigures ==
  [movement |-> 21, float |-> 8, slip |-> 13, rate |-> 15000, mitigation |-> 48000]

SomeOrders ==
  {<<"ScheduleExpert", "CommercialExpert", Auditor, "RiskExpert">>,
   <<"ScheduleExpert", "CommercialExpert", Auditor>>,
   <<"RiskExpert", Auditor>>,
   <<"ScheduleExpert", Auditor>>,
   <<"CommercialExpert", "RiskExpert", Auditor>>}

(* For the contradiction that gets lost: the schedule and its audit.       *)
ScheduleAudited == {<<"ScheduleExpert", Auditor>>}

Plain(claims, citations) ==
  [claims |-> claims, citations |-> citations, consistent |-> TRUE, inScope |-> TRUE]

ScheduleClaims ==
  {[delivery_movement_days |-> 21, forecast_milestone_slip_days |-> 13],
   [delivery_shift_days |-> 21, float_consumed_days |-> 8, projected_milestone_slip_days |-> 13],
   [delivery_movement_days |-> 20, forecast_milestone_slip_days |-> 12],
   [delivery_movement_days |-> Null, forecast_milestone_slip_days |-> Fraction],
   [forecast_milestone_slip_days |-> 13, projected_milestone_slip_days |-> 12]}

ScheduleResponses ==
  {Plain(claims, [forecast_milestone_slip_days |-> {"SCH-DELIVERY-001"}]) : claims \in ScheduleClaims}
  \cup
  {[Plain([forecast_milestone_slip_days |-> 13], <<>>) EXCEPT !.consistent = FALSE],
   Plain([projected_milestone_slip_days |-> 13],
         [projected_milestone_slip_days |-> {"SCH-DELIVERY-001", "COST-SUMMARY-001"}])}

CommercialClaims ==
  {[unmitigated_exposure_usd |-> 195000, mitigation_cost_usd |-> 48000,
    gross_avoided_exposure_usd |-> 147000],
   [unmitigated_delay_exposure_usd |-> 195000, mitigation_cost_usd |-> 48000,
    net_avoided_exposure_usd |-> 147000, gross_avoided_exposure_usd |-> 195000],
   [delay_exposure_usd_per_day |-> 15000, forecast_milestone_slip_days |-> 12,
    unmitigated_exposure_usd |-> 180000, mitigation_cost_usd |-> 48000,
    gross_avoided_exposure_usd |-> 132000],
   [delay_exposure_usd_per_day |-> 10000, forecast_milestone_slip_days |-> 13,
    unmitigated_exposure_usd |-> 195000],
   [forecast_milestone_slip_days |-> 13, projected_milestone_slip_days |-> 12],
   [avoided_exposure_usd |-> 147000, net_avoided_exposure_usd |-> 132000]}

CommercialResponses ==
  {Plain(claims, [unmitigated_exposure_usd |-> {"CTR-DELAY-001"},
                  mitigation_cost_usd |-> {"COST-SUMMARY-001"}]) : claims \in CommercialClaims}

RiskResponses ==
  {Plain([human_escalation_required |-> ConflictText], <<>>),
   Plain([onsite_status_conflict |-> ConflictText,
          conflicting_onsite_status_requires_human_confirmation |-> ClearedText],
         [onsite_status_conflict |-> OnsiteRecords]),
   [Plain([onsite_status_conflict |-> ConflictText], <<>>) EXCEPT !.inScope = FALSE]}

SomeResponses ==
  [ScheduleExpert |-> ScheduleResponses, CommercialExpert |-> CommercialResponses,
   RiskExpert |-> RiskResponses]

Assess(agent, key, support, observed, record) ==
  [agent |-> agent, key |-> key, support |-> support, observed |-> observed, citations |-> {record}]

SomeAssessments ==
  {Assess("ScheduleExpert", key, support, Null, "SCH-DELIVERY-001") :
     key \in {"delivery_shift_days", "delivery_movement_days"},
     support \in {"supported", "contradicted", "insufficient_evidence"}}
  \cup
  {Assess("ScheduleExpert", "forecast_milestone_slip_days", "supported", seen[1], seen[2]) :
     seen \in {<<13, "SCH-DELIVERY-001">>, <<Null, "SCH-DELIVERY-001">>,
               <<13, "CTR-DELAY-001">>, <<Null, "SUP-NO-RECORD">>}}
  \cup
  {Assess("CommercialExpert", "unmitigated_exposure_usd", "supported", observed, "COST-SUMMARY-001") :
     observed \in {195000, 180000}}
  \cup
  {Assess("CommercialExpert", "unmitigated_exposure_usd", "unsupported", 195000, "COST-SUMMARY-001"),
   Assess("CommercialExpert", "net_avoided_exposure_usd", "contradicted", Null, "CTR-DELAY-001"),
   Assess("RiskExpert", "onsite_status_conflict", "supported", Null, "PRG-ONSITE-001")}

SomeAudits ==
  {[assessments |-> <<>>]}
  \cup {[assessments |-> <<a>>] : a \in SomeAssessments}
  \cup {[assessments |-> <<pair[1], pair[2]>>] : pair \in
         {p \in SomeAssessments \X SomeAssessments :
            /\ p[1].agent = p[2].agent /\ p[1].key # p[2].key /\ p[1].support # p[2].support
            /\ {p[1].support, p[2].support} \cap {"contradicted", "unsupported"} # {}}}

(* The records of the case, and a name no record has.                      *)
SomeRecords == RequiredRecords \cup {"SUP-NO-RECORD"}

Answer(values, cited) ==
  [evaluable |-> TRUE, valid |-> TRUE, values |-> values, asserted |-> FALSE,
   unsupported |-> {}, ambiguous |-> {}, citations |-> cited]

AllRight    == [field \in FinalFields |-> "right"]
NoCitations == [field \in FinalFields |-> {}]
AllCited    == [field \in FinalFields |-> Once(CLAIM_REQUIREMENTS[field])]

Uncited == Answer(AllRight, NoCitations)
Ideal   == Answer(AllRight, AllCited)

(* The expected answer, uncited, with one thing amiss or invalid; an       *)
(* answer to some claims only, that mentions a record twice and one that   *)
(* does not exist; and an answer of another schema.                        *)
SomeFinals ==
  {Uncited,
   [Ideal EXCEPT !.ambiguous = {"onsite_status_contradiction_detected"}],
   [Ideal EXCEPT !.asserted = TRUE],
   [Ideal EXCEPT !.valid = FALSE],
   [Uncited EXCEPT !.values = [AllRight EXCEPT !["mitigation_cost_usd"] = "absent",
                                               !["projected_slip_days"] = "wrong"],
                   !.citations["projected_slip_days"] =
                      {<<"SCH-DELIVERY-001", 1>>, <<"SCH-DELIVERY-001", 2>>, <<"SUP-NO-RECORD", 1>>},
                   !.citations["preferred_option_id"] =
                      {<<"LOG-STATUS-001", 1>>, <<"SUP-NO-RECORD", 1>>}],
   [Uncited EXCEPT !.evaluable = FALSE]}
=============================================================================
