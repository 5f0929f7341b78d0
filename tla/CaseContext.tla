----------------------------- MODULE CaseContext -----------------------------
(***************************************************************************)
(* The workflow context of one recovery case and the operations the local  *)
(* runner performs on it: src/project_recovery_council/workflow.py with    *)
(* state.py, director.py, audit.py and the detector of validation.py.      *)
(*                                                                         *)
(* An operator takes a context record and returns the context the method   *)
(* leaves behind.  Guards and exceptions are kept apart from the updates,  *)
(* so that CaseWorkflow (one runner object) and CaseLifecycle (command     *)
(* line processes sharing a run directory) can compose the same operations *)
(* under their own control flow.                                           *)
(*                                                                         *)
(* Texts, evidence citations, identifiers built from a role and money are  *)
(* left out; a recommendation keeps its status, its approval status, its   *)
(* human-decision flag and the status of the contradictions it carries.    *)
(***************************************************************************)
EXTENDS Naturals, Sequences

CONSTANTS
  MaxAttempts,  \* attempts a finding expert gets; the literal 2 in the code
  Actors        \* people named by --actor or by the simulated decisions

ASSUME MaxAttemptsAssumption == MaxAttempts \in Nat \ {0}

-----------------------------------------------------------------------------
(* Stages and their legal successors *)

Stages == {"initialized", "validating", "triaging", "expert_analysis",
           "contradiction_review", "awaiting_human_decision",
           "recovery_planning", "awaiting_final_approval", "completed", "failed"}

ValidTransitions ==
  [initialized             |-> {"validating", "failed"},
   validating              |-> {"triaging", "failed"},
   triaging                |-> {"expert_analysis", "failed"},
   expert_analysis         |-> {"contradiction_review", "failed"},
   contradiction_review    |-> {"awaiting_human_decision", "recovery_planning", "failed"},
   awaiting_human_decision |-> {"recovery_planning", "failed"},
   recovery_planning       |-> {"awaiting_final_approval", "failed"},
   awaiting_final_approval |-> {"completed", "failed"},
   completed               |-> {},
   failed                  |-> {}]

(* Roles: the first three return findings, the auditor contradictions and  *)
(* the planner a recommendation.                                           *)
FindingRoles == {"ScheduleExpert", "CommercialExpert", "RiskExpert"}
Roles == FindingRoles \cup {"EvidenceAuditor", "RecoveryPlanner"}

FindingStatus == {"completed", "incomplete", "abstained", "failed"}
(* The contract rejects an unresolved contradiction that does not require  *)
(* human confirmation, so the status alone decides about the gate.         *)
ContradictionStatus == {"unresolved", "resolved", "dismissed"}

OnsiteRequest == "HDR-ONSITE-001"
FinalRequest  == "HDR-FINAL-APPROVAL-001"
Outcomes == {"approved", "rejected", "confirmed", "unable_to_confirm"}

Decisions == [request : {OnsiteRequest, FinalRequest}, outcome : Outcomes, by : Actors]

EventTypes ==
  {"case_created", "workflow_stage_changed", "fixture_validation_started",
   "fixture_validation_failed", "fixture_validation_completed",
   "expert_selected", "expert_request_created", "expert_execution_started",
   "expert_execution_failed", "expert_execution_completed", "retry_authorized",
   "contradiction_detected", "human_decision_requested",
   "human_decision_received", "recovery_option_created",
   "draft_recommendation_created", "final_approval_recorded",
   "final_recommendation_created", "case_completed"}

(* What an event is about: its role, the stage entered, or the workflow.   *)
Subjects == Roles \cup Stages \cup {"workflow"}
AuditEvents == [type : EventTypes, about : Subjects]

NoRecommendation ==
  [status |-> "none", approval |-> "not_requested", humanRequired |-> FALSE,
   contradictions |-> <<>>]

Recommendations ==
  [status : {"none", "draft", "authorized"},
   approval : {"not_requested", "pending", "approved"},
   humanRequired : BOOLEAN,
   contradictions : Seq(ContradictionStatus)]

ExpertRequests == [role : Roles, attempt : 1 .. MaxAttempts]
Findings == [role : FindingRoles, attempt : 1 .. MaxAttempts, status : FindingStatus]
HumanRequests == [id : {OnsiteRequest}, status : {"pending", "answered"}]

Contexts ==
  [stage          : Stages,
   selections     : SUBSET Roles,
   requests       : Seq(ExpertRequests),
   findings       : Seq(Findings),
   contradictions : Seq(ContradictionStatus),
   humanRequests  : Seq(HumanRequests),
   decisions      : Seq(Decisions),
   draft          : Recommendations,
   final          : Recommendations,
   events         : Seq(AuditEvents)]

-----------------------------------------------------------------------------
(* The facts of the case bundle that control the workflow.  The loader     *)
(* writes the progress claim and the supplier's denial into every bundle;  *)
(* everything else comes from the fixture files.                           *)

ProgressClaimsOnsite == TRUE
SupplierSaysArrived  == FALSE

Facts ==
  [issues           : BOOLEAN,   \* validate_fixture_bundle reports something
   deliveryLater    : BOOLEAN,   \* the delivery shift is positive
   exposurePositive : BOOLEAN,   \* the cost summary states an exposure
   arrivalRecorded  : BOOLEAN,   \* logistics carries an actual arrival date
   riskListed       : BOOLEAN,   \* RISK-001 is in the register
   optionListed     : BOOLEAN,   \* the option is REC-ACCEL-LOGISTICS
   slipNegative     : BOOLEAN,   \* float absorbs more than the delivery shift
   injectFailure    : BOOLEAN]   \* --inject-commercial-failure

SelectExperts(f) ==
  {r \in Roles :
     \/ r = "ScheduleExpert"   /\ f.deliveryLater
     \/ r = "CommercialExpert" /\ f.exposurePositive
     \/ r = "EvidenceAuditor"  /\ ProgressClaimsOnsite /\ ~f.arrivalRecorded
     \/ r = "RiskExpert"       /\ f.riskListed
     \/ r = "RecoveryPlanner"  /\ f.optionListed}

DetectOnsiteContradictions(f) ==
  IF ProgressClaimsOnsite /\ (~SupplierSaysArrived \/ ~f.arrivalRecorded)
    THEN <<"unresolved">>
    ELSE <<>>

HumanGateRequired(found) == \E i \in DOMAIN found : found[i] = "unresolved"

-----------------------------------------------------------------------------
(* Audit trail and stage changes *)

Record(c, type, about) ==
  [c EXCEPT !.events = Append(@, [type |-> type, about |-> about])]

CanMove(c, target) == target \in ValidTransitions[c.stage]

Transition(c, target) ==
  Record([c EXCEPT !.stage = target], "workflow_stage_changed", target)

MarkFailed(c) ==
  IF CanMove(c, "failed") THEN Transition(c, "failed") ELSE [c EXCEPT !.stage = "failed"]

InitialContext ==
  [stage |-> "initialized", selections |-> {}, requests |-> <<>>, findings |-> <<>>,
   contradictions |-> <<>>, humanRequests |-> <<>>, decisions |-> <<>>,
   draft |-> NoRecommendation, final |-> NoRecommendation,
   events |-> <<[type |-> "case_created", about |-> "workflow"]>>]

-----------------------------------------------------------------------------
(* Validation, triage and expert analysis *)

ValidateFixture(c, f) ==
  LET started == Record(Transition(c, "validating"), "fixture_validation_started", "workflow")
  IN  IF f.issues
        THEN MarkFailed(Record(started, "fixture_validation_failed", "workflow"))
        ELSE Record(started, "fixture_validation_completed", "workflow")

(* <<x>> when role is selected: the Director's list in its fixed order is  *)
(* a concatenation of such pieces.                                         *)
IfSelected(selected, role, x) == IF role \in selected THEN <<x>> ELSE <<>>

SelectionEvents(selected) ==
  LET Event(role) == IfSelected(selected, role, [type |-> "expert_selected", about |-> role])
  IN  Event("ScheduleExpert") \o Event("CommercialExpert") \o Event("EvidenceAuditor")
        \o Event("RiskExpert") \o Event("RecoveryPlanner")

Triage(c, f) ==
  LET selected == SelectExperts(f)
  IN  [Transition(c, "triaging") EXCEPT !.selections = selected,
                                        !.events = @ \o SelectionEvents(selected)]

FindingQueue(c) ==
  LET Turn(role) == IfSelected(c.selections, role, role)
  IN  Turn("ScheduleExpert") \o Turn("CommercialExpert") \o Turn("RiskExpert")

RequestExpert(c, role, n) ==
  LET created == Record([c EXCEPT !.requests = Append(@, [role |-> role, attempt |-> n])],
                        "expert_request_created", role)
  IN  Record(created, "expert_execution_started", role)

(* A Fault_ operator is a plausible slip in the definition after it; none  *)
(* is part of the model.  Here: an off-by-one in the retry budget.         *)
Fault_AuthorizeRetry(status, n) == status = "failed" /\ n <= MaxAttempts

AuthorizeRetry(status, n) == status = "failed" /\ n < MaxAttempts

(* Fault: a retry overwrites the finding of the attempt before it.         *)
Fault_ExecuteAttempt(c, role, n, status) ==
  LET asked   == RequestExpert(c, role, n)
      finding == [role |-> role, attempt |-> n, status |-> status]
      kept    == IF n > 1 THEN SubSeq(asked.findings, 1, Len(asked.findings) - 1)
                          ELSE asked.findings
      answered == [asked EXCEPT !.findings = Append(kept, finding)]
  IN  IF status = "failed" THEN Record(answered, "expert_execution_failed", role)
      ELSE Record(answered, "expert_execution_completed", role)

ExecuteAttempt(c, role, n, status) ==
  LET asked    == RequestExpert(c, role, n)
      answered == [asked EXCEPT !.findings =
                     Append(@, [role |-> role, attempt |-> n, status |-> status])]
      failed   == Record(answered, "expert_execution_failed", role)
  IN  IF status # "failed" THEN Record(answered, "expert_execution_completed", role)
      ELSE IF AuthorizeRetry(status, n) THEN Record(failed, "retry_authorized", role)
      ELSE failed

-----------------------------------------------------------------------------
(* Contradiction review and the human gate *)

RequestAudit(c) == RequestExpert(Transition(c, "contradiction_review"), "EvidenceAuditor", 1)

RecordContradictions(c, found) ==
  LET done == Record([c EXCEPT !.contradictions = @ \o found],
                     "expert_execution_completed", "EvidenceAuditor")
  IN  [done EXCEPT !.events =
         @ \o [i \in 1 .. Len(found) |->
                 [type |-> "contradiction_detected", about |-> "EvidenceAuditor"]]]

OpenHumanGate(c) ==
  LET requested == [c EXCEPT !.humanRequests =
                      Append(@, [id |-> OnsiteRequest, status |-> "pending"])]
  IN  Transition(Record(requested, "human_decision_requested", "EvidenceAuditor"),
                 "awaiting_human_decision")

ReviewContradictions(c, found) ==
  LET audited == RecordContradictions(RequestAudit(c), found)
  IN  IF HumanGateRequired(found) THEN OpenHumanGate(audited)
      ELSE Transition(audited, "recovery_planning")

(* Fault: planning is entered straight from expert analysis.               *)
Fault_SkipReview(c) == Transition(c, "recovery_planning")

(* No auditor selected: nothing is reviewed and planning is entered.       *)
SkipReview(c) == Transition(Transition(c, "contradiction_review"), "recovery_planning")

-----------------------------------------------------------------------------
(* Human decisions, planning and approval *)

Pending(c) == {i \in DOMAIN c.humanRequests : c.humanRequests[i].status = "pending"}
PendingIds(c) == {c.humanRequests[i].id : i \in Pending(c)}
DecidedIds(c) == {c.decisions[i].request : i \in DOMAIN c.decisions}

CanRecordDecision(c, d) ==
  /\ c.stage = "awaiting_human_decision"
  /\ d.request \in PendingIds(c)
  /\ d.request \notin DecidedIds(c)

RecordHumanDecision(c, d) ==
  Record([c EXCEPT !.decisions = Append(@, d)], "human_decision_received", "workflow")

LastPending(c) ==
  c.humanRequests[CHOOSE i \in Pending(c) : \A j \in Pending(c) : j <= i].id

(* Fault: resuming does not ask whether a decision was recorded.           *)
Fault_CanResume(c) == c.stage = "awaiting_human_decision" /\ Pending(c) # {}

CanResume(c) ==
  /\ c.stage = "awaiting_human_decision"
  /\ Pending(c) # {}
  /\ LastPending(c) \in DecidedIds(c)

AnswerRequest(c, id) ==
  LET first == CHOOSE i \in DOMAIN c.humanRequests :
                 /\ c.humanRequests[i].id = id
                 /\ \A j \in DOMAIN c.humanRequests : c.humanRequests[j].id = id => i <= j
  IN  [c EXCEPT !.humanRequests[first].status = "answered"]

(* Fault: the request is left pending.                                     *)
Fault_LeaveHumanGate(c) == Transition(c, "recovery_planning")

LeaveHumanGate(c) == Transition(AnswerRequest(c, LastPending(c)), "recovery_planning")

(* Fault: the approval status of the base recommendation is kept.          *)
Fault_PostHumanDraft(c) ==
  [status |-> "draft", approval |-> "not_requested", humanRequired |-> FALSE,
   contradictions |-> [i \in 1 .. Len(c.contradictions) |-> "resolved"]]

PostHumanDraft(c) ==
  [status |-> "draft", approval |-> "pending", humanRequired |-> FALSE,
   contradictions |-> [i \in 1 .. Len(c.contradictions) |-> "resolved"]]

RequestPlan(c) == RequestExpert(c, "RecoveryPlanner", 1)

PlanRecovery(c) ==
  LET asked   == RequestPlan(c)
      drafted == [asked EXCEPT !.draft = PostHumanDraft(asked)]
      option  == Record(drafted, "recovery_option_created", "RecoveryPlanner")
      created == Record(option, "draft_recommendation_created", "RecoveryPlanner")
      done    == Record(created, "expert_execution_completed", "RecoveryPlanner")
  IN  Transition(done, "awaiting_final_approval")

(* Planning that raises leaves the answered request, the planning stage    *)
(* and, when a planner was selected, its request behind.                   *)
AbortPlanning(c) == IF "RecoveryPlanner" \in c.selections THEN RequestPlan(c) ELSE c

(* Fault: a draft is enough, the stage is not looked at.                   *)
Fault_CanApprove(c) == c.draft.status = "draft"

CanApprove(c) == c.stage = "awaiting_final_approval"

ApproveFinal(c, actor) ==
  LET approval  == [request |-> FinalRequest, outcome |-> "approved", by |-> actor]
      approved  == Record([c EXCEPT !.decisions = Append(@, approval)],
                          "final_approval_recorded", "workflow")
      finalized == Record([approved EXCEPT !.final =
                             [c.draft EXCEPT !.status = "authorized", !.approval = "approved"]],
                          "final_recommendation_created", "RecoveryPlanner")
  IN  Record(Transition(finalized, "completed"), "case_completed", "workflow")

-----------------------------------------------------------------------------
(* What is persisted and what the inspector demands of it *)

ApprovalState(c) ==
  IF c.final.status # "none" THEN c.final.approval ELSE c.draft.approval

(* completed_stages: the targets of the recorded stage changes, gathered   *)
(* event by event.                                                         *)
CompletedStages(c) ==
  LET gathered[n \in 0 .. Len(c.events)] ==
        IF n = 0 THEN <<>>
        ELSE IF c.events[n].type # "workflow_stage_changed" THEN gathered[n - 1]
        ELSE Append(gathered[n - 1], c.events[n].about)
  IN  gathered[Len(c.events)]

EventsOf(c, type) == {i \in DOMAIN c.events : c.events[i].type = type}

(* Fault: findings are looked up by role, not by request.                  *)
Fault_AttemptStatus(c, request) ==
  LET own == {i \in DOMAIN c.findings : c.findings[i].role = request.role}
  IN  IF own = {} THEN "completed"
      ELSE c.findings[CHOOSE i \in own : \A j \in own : j <= i].status

(* expert_attempts: the status of a request is that of the last finding    *)
(* with its identifier, and "completed" when there is none.                *)
AttemptStatus(c, request) ==
  LET own == {i \in DOMAIN c.findings : /\ c.findings[i].role = request.role
                                        /\ c.findings[i].attempt = request.attempt}
  IN  IF own = {} THEN "completed"
      ELSE c.findings[CHOOSE i \in own : \A j \in own : j <= i].status

StateConsistent(c) ==
  /\ (c.stage = "awaiting_human_decision") <=> (Pending(c) # {})
  /\ (c.stage = "awaiting_final_approval") => (ApprovalState(c) = "pending")
  /\ (c.stage = "completed") => /\ c.final.status # "none"
                                /\ ApprovalState(c) = "approved"
                                /\ EventsOf(c, "final_approval_recorded") # {}
=============================================================================
