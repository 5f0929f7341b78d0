-------------------------- MODULE CaseContext_proofs --------------------------
(***************************************************************************)
(* What the operations of CaseContext do to a context, for every set of    *)
(* people and every retry budget: they return contexts, they keep the      *)
(* shape of the human gate, and each is a chain of quiet changes (routine  *)
(* audit events, requests and findings), stage changes and single          *)
(* governance events.  CaseWorkflow_proofs and CaseLifecycle_proofs put    *)
(* these facts together under their own control flow.                      *)
(***************************************************************************)
EXTENDS CaseContext, SequencesExt, FiniteSetTheorems, SequenceTheorems,
        WellFoundedInduction, TLAPS

-----------------------------------------------------------------------------
(* The operations of CaseContext return contexts *)

\* Recording an audit event keeps a context a context.
LEMMA RecordType ==
  ASSUME NEW c \in Contexts, NEW type \in EventTypes, NEW about \in Subjects
  PROVE  Record(c, type, about) \in Contexts
<1>1. Append(c.events, [type |-> type, about |-> about]) \in Seq(AuditEvents)
  BY DEF Contexts, AuditEvents
<1> QED BY <1>1 DEF Record, Contexts

\* A stage change keeps a context a context and enters the target.
LEMMA TransitionType ==
  ASSUME NEW c \in Contexts, NEW target \in Stages
  PROVE  /\ Transition(c, target) \in Contexts
         /\ Transition(c, target).stage = target
<1> DEFINE moved == [c EXCEPT !.stage = target]
<1>1. moved \in Contexts /\ moved.stage = target
  BY DEF Contexts
<1>2. Record(moved, "workflow_stage_changed", target) \in Contexts
  BY <1>1, RecordType DEF EventTypes, Subjects
<1>3. Record(moved, "workflow_stage_changed", target).stage = target
  BY <1>1 DEF Record, Contexts
<1> QED BY <1>2, <1>3 DEF Transition

\* Marking a case failed keeps a context a context.
LEMMA MarkFailedType ==
  ASSUME NEW c \in Contexts
  PROVE  MarkFailed(c) \in Contexts
<1>1. "failed" \in Stages
  BY DEF Stages
<1>2. [c EXCEPT !.stage = "failed"] \in Contexts
  BY <1>1 DEF Contexts
<1> QED BY <1>1, <1>2, TransitionType DEF MarkFailed

\* Asking an expert keeps a context a context.
LEMMA RequestExpertType ==
  ASSUME NEW c \in Contexts, NEW role \in Roles, NEW n \in 1 .. MaxAttempts
  PROVE  RequestExpert(c, role, n) \in Contexts
<1> DEFINE asked == [c EXCEPT !.requests = Append(@, [role |-> role, attempt |-> n])]
<1>0. [role |-> role, attempt |-> n] \in ExpertRequests
  BY DEF ExpertRequests
<1>a. Append(c.requests, [role |-> role, attempt |-> n]) \in Seq(ExpertRequests)
  <2>1. c.requests \in Seq(ExpertRequests)
    BY DEF Contexts
  <2> QED BY <1>0, <2>1
<1>1. asked \in Contexts
  BY <1>a DEF Contexts
<1>2. role \in Subjects
  BY DEF Subjects
<1>3. Record(asked, "expert_request_created", role) \in Contexts
  BY <1>1, <1>2, RecordType DEF EventTypes
<1> HIDE DEF asked
<1>4. Record(Record(asked, "expert_request_created", role), "expert_execution_started", role) \in Contexts
  BY <1>2, <1>3, RecordType DEF EventTypes
<1> QED BY <1>4 DEF RequestExpert, asked

\* Validating the fixture keeps a context a context, whatever it finds.
LEMMA ValidateFixtureType ==
  ASSUME NEW c \in Contexts, NEW f \in Facts
  PROVE  ValidateFixture(c, f) \in Contexts
<1> DEFINE entered == Transition(c, "validating")
           started == Record(entered, "fixture_validation_started", "workflow")
<1>1. entered \in Contexts
  BY TransitionType DEF Stages
<1>2. started \in Contexts
  BY <1>1, RecordType DEF EventTypes, Subjects
<1> HIDE DEF started
<1>3. /\ Record(started, "fixture_validation_failed", "workflow") \in Contexts
      /\ Record(started, "fixture_validation_completed", "workflow") \in Contexts
  BY <1>2, RecordType DEF EventTypes, Subjects
<1>4. MarkFailed(Record(started, "fixture_validation_failed", "workflow")) \in Contexts
  BY <1>3, MarkFailedType
<1> QED BY <1>3, <1>4 DEF ValidateFixture, started, entered

\* The audit events of a triage are well formed, and so is the queue of experts.
LEMMA SelectionEventsType ==
  ASSUME NEW selected
  PROVE  SelectionEvents(selected) \in Seq(AuditEvents)
<1> DEFINE Event(role) == IfSelected(selected, role, [type |-> "expert_selected", about |-> role])
<1>1. ASSUME NEW role \in Roles
      PROVE  Event(role) \in Seq(AuditEvents)
  <2>1. [type |-> "expert_selected", about |-> role] \in AuditEvents
    BY DEF AuditEvents, EventTypes, Subjects
  <2>2. <<[type |-> "expert_selected", about |-> role]>> \in Seq(AuditEvents)
    BY <2>1
  <2> QED BY <2>2 DEF IfSelected
<1>2. /\ Event("ScheduleExpert") \in Seq(AuditEvents)
      /\ Event("CommercialExpert") \in Seq(AuditEvents)
      /\ Event("EvidenceAuditor") \in Seq(AuditEvents)
      /\ Event("RiskExpert") \in Seq(AuditEvents)
      /\ Event("RecoveryPlanner") \in Seq(AuditEvents)
  BY <1>1 DEF Roles, FindingRoles
<1> HIDE DEF Event
<1>3. Event("ScheduleExpert") \o Event("CommercialExpert") \o Event("EvidenceAuditor")
        \o Event("RiskExpert") \o Event("RecoveryPlanner") \in Seq(AuditEvents)
  BY <1>2
<1> QED BY <1>3 DEF SelectionEvents, Event

\* Triage keeps a context a context and records the selection.
LEMMA TriageType ==
  ASSUME NEW c \in Contexts, NEW f \in Facts
  PROVE  Triage(c, f) \in Contexts
<1> DEFINE moved == Transition(c, "triaging")
<1>1. moved \in Contexts
  BY TransitionType DEF Stages
<1>2. SelectExperts(f) \in SUBSET Roles
  BY DEF SelectExperts
<1>3. moved.events \o SelectionEvents(SelectExperts(f)) \in Seq(AuditEvents)
  <2>1. moved.events \in Seq(AuditEvents)
    BY <1>1 DEF Contexts
  <2> QED BY <2>1, SelectionEventsType
<1> HIDE DEF moved
<1>4. [moved EXCEPT !.selections = SelectExperts(f),
                    !.events = @ \o SelectionEvents(SelectExperts(f))] \in Contexts
  BY <1>1, <1>2, <1>3 DEF Contexts
<1> QED BY <1>4 DEF Triage, moved

\* The queue of experts to run holds finding experts only.
LEMMA FindingQueueType ==
  ASSUME NEW c \in Contexts
  PROVE  FindingQueue(c) \in Seq(FindingRoles)
<1> DEFINE Turn(role) == IfSelected(c.selections, role, role)
<1>1. ASSUME NEW role \in FindingRoles
      PROVE  Turn(role) \in Seq(FindingRoles)
  BY DEF IfSelected
<1>2. /\ Turn("ScheduleExpert") \in Seq(FindingRoles)
      /\ Turn("CommercialExpert") \in Seq(FindingRoles)
      /\ Turn("RiskExpert") \in Seq(FindingRoles)
  BY <1>1 DEF FindingRoles
<1> HIDE DEF Turn
<1>3. Turn("ScheduleExpert") \o Turn("CommercialExpert") \o Turn("RiskExpert")
        \in Seq(FindingRoles)
  BY <1>2
<1> QED BY <1>3 DEF FindingQueue, Turn

\* One attempt of a finding expert keeps a context a context.
LEMMA ExecuteAttemptType ==
  ASSUME NEW c \in Contexts, NEW role \in FindingRoles,
         NEW n \in 1 .. MaxAttempts, NEW status \in FindingStatus
  PROVE  ExecuteAttempt(c, role, n, status) \in Contexts
<1> DEFINE asked    == RequestExpert(c, role, n)
           finding  == [role |-> role, attempt |-> n, status |-> status]
           answered == [asked EXCEPT !.findings = Append(@, finding)]
           failed   == Record(answered, "expert_execution_failed", role)
<1>1. role \in Roles /\ role \in Subjects
  BY DEF Roles, Subjects
<1>2. asked \in Contexts
  BY <1>1, RequestExpertType
<1>3. finding \in Findings
  BY DEF Findings
<1> HIDE DEF asked, finding
<1>4. Append(asked.findings, finding) \in Seq(Findings)
  <2>1. asked.findings \in Seq(Findings)
    BY <1>2 DEF Contexts
  <2> QED BY <1>3, <2>1
<1>5. answered \in Contexts
  BY <1>2, <1>4 DEF Contexts
<1> HIDE DEF answered
<1>6. failed \in Contexts
  BY <1>1, <1>5, RecordType DEF EventTypes
<1> HIDE DEF failed
<1>7. Record(failed, "retry_authorized", role) \in Contexts
  BY <1>1, <1>6, RecordType DEF EventTypes
<1>8. Record(answered, "expert_execution_completed", role) \in Contexts
  BY <1>1, <1>5, RecordType DEF EventTypes
<1> QED BY <1>6, <1>7, <1>8 DEF ExecuteAttempt, failed, answered, finding, asked

\* The three ways a contradiction review ends keep a context a context.
LEMMA RequestAuditType ==
  ASSUME NEW c \in Contexts
  PROVE  RequestAudit(c) \in Contexts
<1>1. Transition(c, "contradiction_review") \in Contexts
  BY TransitionType DEF Stages
<1>2. 1 \in 1 .. MaxAttempts /\ "EvidenceAuditor" \in Roles
  BY MaxAttemptsAssumption DEF Roles
<1> QED BY <1>1, <1>2, RequestExpertType DEF RequestAudit

\* Recording the auditor's contradictions keeps a context a context.
LEMMA RecordContradictionsType ==
  ASSUME NEW c \in Contexts, NEW found \in Seq(ContradictionStatus)
  PROVE  RecordContradictions(c, found) \in Contexts
<1> DEFINE noted == [c EXCEPT !.contradictions = @ \o found]
           done  == Record(noted, "expert_execution_completed", "EvidenceAuditor")
           detected == [i \in 1 .. Len(found) |->
                          [type |-> "contradiction_detected", about |-> "EvidenceAuditor"]]
<1>1. noted \in Contexts
  <2>1. c.contradictions \o found \in Seq(ContradictionStatus)
    <3>1. c.contradictions \in Seq(ContradictionStatus)
      BY DEF Contexts
    <3> QED BY <3>1
  <2> QED BY <2>1 DEF Contexts
<1> HIDE DEF noted
<1>2. done \in Contexts
  BY <1>1, RecordType DEF EventTypes, Subjects, Roles
<1>3. detected \in Seq(AuditEvents)
  <2>1. [type |-> "contradiction_detected", about |-> "EvidenceAuditor"] \in AuditEvents
    BY DEF AuditEvents, EventTypes, Subjects, Roles
  <2>2. Len(found) \in Nat
    OBVIOUS
  <2> QED BY <2>1, <2>2
<1> HIDE DEF done, detected
<1>4. done.events \o detected \in Seq(AuditEvents)
  <2>1. done.events \in Seq(AuditEvents)
    BY <1>2 DEF Contexts
  <2> QED BY <1>3, <2>1
<1>5. [done EXCEPT !.events = @ \o detected] \in Contexts
  BY <1>2, <1>4 DEF Contexts
<1> QED BY <1>5 DEF RecordContradictions, done, detected, noted

\* Opening the human gate keeps a context a context.
LEMMA OpenHumanGateType ==
  ASSUME NEW c \in Contexts
  PROVE  OpenHumanGate(c) \in Contexts
<1> DEFINE request   == [id |-> OnsiteRequest, status |-> "pending"]
           requested == [c EXCEPT !.humanRequests = Append(@, request)]
<1>1. request \in HumanRequests
  BY DEF HumanRequests
<1> HIDE DEF request
<1>2. Append(c.humanRequests, request) \in Seq(HumanRequests)
  <2>1. c.humanRequests \in Seq(HumanRequests)
    BY DEF Contexts
  <2> QED BY <1>1, <2>1
<1>3. requested \in Contexts
  BY <1>2 DEF Contexts
<1> HIDE DEF requested
<1>4. Record(requested, "human_decision_requested", "EvidenceAuditor") \in Contexts
  BY <1>3, RecordType DEF EventTypes, Subjects, Roles
<1>5. Transition(Record(requested, "human_decision_requested", "EvidenceAuditor"),
                 "awaiting_human_decision") \in Contexts
  BY <1>4, TransitionType DEF Stages
<1> QED BY <1>5 DEF OpenHumanGate, requested, request

\* The whole audited review keeps a context a context.
LEMMA ReviewContradictionsType ==
  ASSUME NEW c \in Contexts, NEW found \in Seq(ContradictionStatus)
  PROVE  ReviewContradictions(c, found) \in Contexts
<1> DEFINE audited == RecordContradictions(RequestAudit(c), found)
<1>1. audited \in Contexts
  BY RequestAuditType, RecordContradictionsType
<1> HIDE DEF audited
<1>2. OpenHumanGate(audited) \in Contexts
  BY <1>1, OpenHumanGateType
<1>3. Transition(audited, "recovery_planning") \in Contexts
  BY <1>1, TransitionType DEF Stages
<1> QED BY <1>2, <1>3 DEF ReviewContradictions, audited

\* A review without an auditor keeps a context a context.
LEMMA SkipReviewType ==
  ASSUME NEW c \in Contexts
  PROVE  SkipReview(c) \in Contexts
<1>1. Transition(c, "contradiction_review") \in Contexts
  BY TransitionType DEF Stages
<1> QED BY <1>1, TransitionType DEF SkipReview, Stages

-----------------------------------------------------------------------------
(* Membership of the literals, stated once so that no proof below expands   *)
(* the enumerations to find them.                                           *)

\* The event types and subjects the operations record are legal ones.
LEMMA EventNames ==
  /\ \A type \in {"fixture_validation_started", "fixture_validation_failed",
                  "fixture_validation_completed", "expert_execution_completed",
                  "human_decision_requested", "human_decision_received",
                  "recovery_option_created", "draft_recommendation_created",
                  "final_approval_recorded", "final_recommendation_created",
                  "case_completed"} : type \in EventTypes
  /\ "workflow" \in Subjects /\ "EvidenceAuditor" \in Subjects
  /\ "RecoveryPlanner" \in Subjects
BY DEF EventTypes, Subjects, Roles

-----------------------------------------------------------------------------
(* What the operations leave alone: the gate, the decisions and the advice *)

SameGovernance(c, d) ==
  /\ d.humanRequests = c.humanRequests
  /\ d.decisions = c.decisions
  /\ d.draft = c.draft
  /\ d.final = c.final

\* Recording an event touches nothing but the events.
LEMMA RecordFrame ==
  ASSUME NEW c \in Contexts, NEW type \in EventTypes, NEW about \in Subjects
  PROVE  /\ SameGovernance(c, Record(c, type, about))
         /\ Record(c, type, about).stage = c.stage
         /\ Record(c, type, about).selections = c.selections
         /\ Record(c, type, about).contradictions = c.contradictions
         /\ Record(c, type, about).events = Append(c.events, [type |-> type, about |-> about])
BY DEF Record, Contexts, SameGovernance

\* A stage change touches nothing but the stage and the events.
LEMMA TransitionFrame ==
  ASSUME NEW c \in Contexts, NEW target \in Stages
  PROVE  /\ SameGovernance(c, Transition(c, target))
         /\ Transition(c, target).selections = c.selections
         /\ Transition(c, target).contradictions = c.contradictions
         /\ Transition(c, target).events =
              Append(c.events, [type |-> "workflow_stage_changed", about |-> target])
<1> DEFINE moved == [c EXCEPT !.stage = target]
<1>1. /\ moved \in Contexts
      /\ SameGovernance(c, moved)
      /\ moved.selections = c.selections
      /\ moved.contradictions = c.contradictions
      /\ moved.events = c.events
  BY DEF Contexts, SameGovernance
<1> HIDE DEF moved
<1>2. "workflow_stage_changed" \in EventTypes /\ target \in Subjects
  BY DEF EventTypes, Subjects
<1>3. /\ SameGovernance(moved, Record(moved, "workflow_stage_changed", target))
      /\ Record(moved, "workflow_stage_changed", target).selections = moved.selections
      /\ Record(moved, "workflow_stage_changed", target).contradictions = moved.contradictions
      /\ Record(moved, "workflow_stage_changed", target).events =
           Append(moved.events, [type |-> "workflow_stage_changed", about |-> target])
  BY <1>1, <1>2, RecordFrame
<1>4. Transition(c, target) = Record(moved, "workflow_stage_changed", target)
  BY DEF Transition, moved
<1> QED BY <1>1, <1>3, <1>4 DEF SameGovernance

\* Marking a case failed fails it and touches nothing that governs it.
LEMMA MarkFailedFrame ==
  ASSUME NEW c \in Contexts
  PROVE  /\ MarkFailed(c).stage = "failed"
         /\ SameGovernance(c, MarkFailed(c))
<1>1. "failed" \in Stages
  BY DEF Stages
<1>2. /\ [c EXCEPT !.stage = "failed"].stage = "failed"
      /\ SameGovernance(c, [c EXCEPT !.stage = "failed"])
  BY DEF Contexts, SameGovernance
<1> QED BY <1>1, <1>2, TransitionType, TransitionFrame DEF MarkFailed

\* Asking an expert touches neither the stage nor what governs the case.
LEMMA RequestExpertFrame ==
  ASSUME NEW c \in Contexts, NEW role \in Roles, NEW n \in 1 .. MaxAttempts
  PROVE  /\ SameGovernance(c, RequestExpert(c, role, n))
         /\ RequestExpert(c, role, n).stage = c.stage
         /\ RequestExpert(c, role, n).contradictions = c.contradictions
<1> DEFINE request == [role |-> role, attempt |-> n]
           asked   == [c EXCEPT !.requests = Append(@, request)]
           created == Record(asked, "expert_request_created", role)
<1>1. request \in ExpertRequests
  BY DEF ExpertRequests
<1> HIDE DEF request
<1>2. Append(c.requests, request) \in Seq(ExpertRequests)
  <2>1. c.requests \in Seq(ExpertRequests)
    BY DEF Contexts
  <2> QED BY <1>1, <2>1
<1>3. /\ asked \in Contexts
      /\ SameGovernance(c, asked)
      /\ asked.stage = c.stage
      /\ asked.contradictions = c.contradictions
  BY <1>2 DEF Contexts, SameGovernance
<1> HIDE DEF asked
<1>4. role \in Subjects
  BY DEF Subjects
<1>5. /\ created \in Contexts
      /\ SameGovernance(c, created)
      /\ created.stage = c.stage
      /\ created.contradictions = c.contradictions
  BY <1>3, <1>4, RecordType, RecordFrame DEF EventTypes, SameGovernance
<1> HIDE DEF created
<1>6. /\ SameGovernance(c, Record(created, "expert_execution_started", role))
      /\ Record(created, "expert_execution_started", role).stage = c.stage
      /\ Record(created, "expert_execution_started", role).contradictions = c.contradictions
  BY <1>4, <1>5, RecordFrame DEF EventTypes, SameGovernance
<1> QED BY <1>6 DEF RequestExpert, created, asked, request

\* Validation ends in validating or failed and touches nothing that governs.
LEMMA ValidateFixtureFrame ==
  ASSUME NEW c \in Contexts, NEW f \in Facts
  PROVE  /\ SameGovernance(c, ValidateFixture(c, f))
         /\ ValidateFixture(c, f).stage \in {"validating", "failed"}
<1> DEFINE entered == Transition(c, "validating")
           started == Record(entered, "fixture_validation_started", "workflow")
<1>1. entered \in Contexts /\ SameGovernance(c, entered) /\ entered.stage = "validating"
  BY TransitionType, TransitionFrame DEF Stages
<1> HIDE DEF entered
<1>2. started \in Contexts /\ SameGovernance(c, started) /\ started.stage = "validating"
  <2>1. started \in Contexts
    BY <1>1, RecordType, EventNames
  <2>2. SameGovernance(entered, started) /\ started.stage = entered.stage
    BY <1>1, RecordFrame, EventNames
  <2> QED BY <1>1, <2>1, <2>2 DEF SameGovernance
<1> HIDE DEF started
<1>3. CASE f.issues
  <2> DEFINE noted == Record(started, "fixture_validation_failed", "workflow")
  <2>1. noted \in Contexts /\ SameGovernance(c, noted)
    <3>1. noted \in Contexts
      BY <1>2, RecordType, EventNames
    <3>2. SameGovernance(started, noted)
      BY <1>2, RecordFrame, EventNames
    <3> QED BY <1>2, <3>1, <3>2 DEF SameGovernance
  <2> HIDE DEF noted
  <2>2. SameGovernance(c, MarkFailed(noted)) /\ MarkFailed(noted).stage = "failed"
    BY <2>1, MarkFailedFrame DEF SameGovernance
  <2> QED BY <1>3, <2>2 DEF ValidateFixture, noted, started, entered
<1>4. CASE ~f.issues
  <2> DEFINE noted == Record(started, "fixture_validation_completed", "workflow")
  <2>1. SameGovernance(c, noted) /\ noted.stage = "validating"
    <3>1. SameGovernance(started, noted) /\ noted.stage = started.stage
      BY <1>2, RecordFrame, EventNames
    <3> QED BY <1>2, <3>1 DEF SameGovernance
  <2> QED BY <1>4, <2>1 DEF ValidateFixture, started, entered
<1> QED BY <1>3, <1>4

\* Triage enters the triaging stage and touches nothing that governs.
LEMMA TriageFrame ==
  ASSUME NEW c \in Contexts, NEW f \in Facts
  PROVE  SameGovernance(c, Triage(c, f)) /\ Triage(c, f).stage = "triaging"
<1> DEFINE moved == Transition(c, "triaging")
<1>1. moved \in Contexts /\ SameGovernance(c, moved) /\ moved.stage = "triaging"
  BY TransitionType, TransitionFrame DEF Stages
<1> HIDE DEF moved
<1>2. /\ SameGovernance(c, [moved EXCEPT !.selections = SelectExperts(f),
                                        !.events = @ \o SelectionEvents(SelectExperts(f))])
      /\ [moved EXCEPT !.selections = SelectExperts(f),
                       !.events = @ \o SelectionEvents(SelectExperts(f))].stage = "triaging"
  BY <1>1 DEF Contexts, SameGovernance
<1> QED BY <1>2 DEF Triage, moved

\* An attempt touches neither the stage nor what governs the case.
LEMMA ExecuteAttemptFrame ==
  ASSUME NEW c \in Contexts, NEW role \in FindingRoles,
         NEW n \in 1 .. MaxAttempts, NEW status \in FindingStatus
  PROVE  /\ SameGovernance(c, ExecuteAttempt(c, role, n, status))
         /\ ExecuteAttempt(c, role, n, status).stage = c.stage
<1> DEFINE asked    == RequestExpert(c, role, n)
           finding  == [role |-> role, attempt |-> n, status |-> status]
           answered == [asked EXCEPT !.findings = Append(@, finding)]
           failed   == Record(answered, "expert_execution_failed", role)
<1>1. role \in Roles /\ role \in Subjects
  BY DEF Roles, Subjects
<1>2. asked \in Contexts /\ SameGovernance(c, asked) /\ asked.stage = c.stage
  BY <1>1, RequestExpertType, RequestExpertFrame
<1>3. finding \in Findings
  BY DEF Findings
<1> HIDE DEF asked, finding
<1>4. Append(asked.findings, finding) \in Seq(Findings)
  <2>1. asked.findings \in Seq(Findings)
    BY <1>2 DEF Contexts
  <2> QED BY <1>3, <2>1
<1>5. answered \in Contexts /\ SameGovernance(c, answered) /\ answered.stage = c.stage
  BY <1>2, <1>4 DEF Contexts, SameGovernance
<1> HIDE DEF answered
<1>6. failed \in Contexts /\ SameGovernance(c, failed) /\ failed.stage = c.stage
  BY <1>1, <1>5, RecordType, RecordFrame DEF EventTypes, SameGovernance
<1> HIDE DEF failed
<1>7. /\ SameGovernance(c, Record(failed, "retry_authorized", role))
      /\ Record(failed, "retry_authorized", role).stage = c.stage
  BY <1>1, <1>6, RecordFrame DEF EventTypes, SameGovernance
<1>8. /\ SameGovernance(c, Record(answered, "expert_execution_completed", role))
      /\ Record(answered, "expert_execution_completed", role).stage = c.stage
  BY <1>1, <1>5, RecordFrame DEF EventTypes, SameGovernance
<1> QED BY <1>6, <1>7, <1>8 DEF ExecuteAttempt, failed, answered, finding, asked

\* Asking the auditor touches nothing that governs the case.
LEMMA RequestAuditFrame ==
  ASSUME NEW c \in Contexts
  PROVE  SameGovernance(c, RequestAudit(c))
<1> DEFINE entered == Transition(c, "contradiction_review")
<1>1. entered \in Contexts /\ SameGovernance(c, entered)
  BY TransitionType, TransitionFrame DEF Stages
<1>2. 1 \in 1 .. MaxAttempts /\ "EvidenceAuditor" \in Roles
  BY MaxAttemptsAssumption DEF Roles
<1> HIDE DEF entered
<1>3. SameGovernance(entered, RequestExpert(entered, "EvidenceAuditor", 1))
  BY <1>1, <1>2, RequestExpertFrame
<1> QED BY <1>1, <1>3 DEF RequestAudit, SameGovernance, entered

\* Recording contradictions touches nothing that governs the case.
LEMMA RecordContradictionsFrame ==
  ASSUME NEW c \in Contexts, NEW found \in Seq(ContradictionStatus)
  PROVE  SameGovernance(c, RecordContradictions(c, found))
<1> DEFINE noted == [c EXCEPT !.contradictions = @ \o found]
           done  == Record(noted, "expert_execution_completed", "EvidenceAuditor")
           detected == [i \in 1 .. Len(found) |->
                          [type |-> "contradiction_detected", about |-> "EvidenceAuditor"]]
<1>1. noted \in Contexts /\ SameGovernance(c, noted)
  <2>1. c.contradictions \o found \in Seq(ContradictionStatus)
    <3>1. c.contradictions \in Seq(ContradictionStatus)
      BY DEF Contexts
    <3> QED BY <3>1
  <2> QED BY <2>1 DEF Contexts, SameGovernance
<1> HIDE DEF noted
<1>2. done \in Contexts /\ SameGovernance(c, done)
  <2>1. done \in Contexts
    BY <1>1, RecordType, EventNames
  <2>2. SameGovernance(noted, done)
    BY <1>1, RecordFrame, EventNames
  <2> QED BY <1>1, <2>1, <2>2 DEF SameGovernance
<1> HIDE DEF done, detected
<1>3. SameGovernance(c, [done EXCEPT !.events = @ \o detected])
  BY <1>2 DEF Contexts, SameGovernance
<1> QED BY <1>3 DEF RecordContradictions, done, detected, noted

\* A review without an auditor enters planning and touches nothing that governs.
LEMMA SkipReviewFrame ==
  ASSUME NEW c \in Contexts
  PROVE  SameGovernance(c, SkipReview(c)) /\ SkipReview(c).stage = "recovery_planning"
<1> DEFINE entered == Transition(c, "contradiction_review")
<1>1. entered \in Contexts /\ SameGovernance(c, entered)
  BY TransitionType, TransitionFrame DEF Stages
<1> HIDE DEF entered
<1>2. /\ SameGovernance(c, Transition(entered, "recovery_planning"))
      /\ Transition(entered, "recovery_planning").stage = "recovery_planning"
  BY <1>1, TransitionType, TransitionFrame DEF Stages, SameGovernance
<1> QED BY <1>2 DEF SkipReview, entered

-----------------------------------------------------------------------------
(* What the gate, the decisions and the recommendations look like in each  *)
(* resting stage: the strengthening behind the theorems.                   *)
Gate(status) == <<[id |-> OnsiteRequest, status |-> status]>>

EarlyStages == {"initialized", "validating", "triaging", "expert_analysis", "failed"}
PlannedStages == {"awaiting_final_approval", "completed"}

Drafted(c) ==
  /\ c.draft.status = "draft"
  /\ c.draft.approval = "pending"
  /\ ~c.draft.humanRequired
  /\ \A i \in DOMAIN c.draft.contradictions : c.draft.contradictions[i] = "resolved"

Ungated(c) == c.humanRequests = <<>> /\ c.decisions = <<>>
Answered(c) == c.humanRequests = Gate("answered") /\ OnsiteRequest \in DecidedIds(c)

Approved(c) ==
  /\ c.final = [c.draft EXCEPT !.status = "authorized", !.approval = "approved"]
  /\ \E i \in DOMAIN c.decisions :
       c.decisions[i].request = FinalRequest /\ c.decisions[i].outcome = "approved"
  /\ EventsOf(c, "final_approval_recorded") # {}

GateShape(c) ==
  /\ c.stage # "contradiction_review"
  /\ c.stage \in EarlyStages => Ungated(c)
  /\ c.stage = "awaiting_human_decision" => c.humanRequests = Gate("pending")
  /\ c.stage = "recovery_planning" => Ungated(c) \/ Answered(c)
  /\ c.stage \in PlannedStages => Answered(c) /\ Drafted(c)
  /\ c.stage \notin PlannedStages => c.draft = NoRecommendation
  /\ c.stage # "completed" => c.final = NoRecommendation /\ FinalRequest \notin DecidedIds(c)
  /\ c.stage = "completed" => Approved(c)

-----------------------------------------------------------------------------
(* The gate shape survives every operation *)

\* A case begins as a context of the right shape.
LEMMA InitialShape == InitialContext \in Contexts /\ GateShape(InitialContext)
<1>1. /\ NoRecommendation \in Recommendations
      /\ "initialized" \in Stages
      /\ <<[type |-> "case_created", about |-> "workflow"]>> \in Seq(AuditEvents)
  BY DEF NoRecommendation, Recommendations, Stages, AuditEvents, EventTypes, Subjects
<1>2. InitialContext \in Contexts
  BY <1>1 DEF InitialContext, Contexts
<1>3. GateShape(InitialContext)
  BY DEF InitialContext, GateShape, EarlyStages, PlannedStages, Ungated, DecidedIds
<1> QED BY <1>2, <1>3

\* What leaves the governance fields alone and stays in, or moves on from, an
\* early stage keeps the shape.
LEMMA EarlyShape ==
  ASSUME NEW c \in Contexts, NEW d \in Contexts, GateShape(c), c.stage \in EarlyStages,
         SameGovernance(c, d), d.stage \in EarlyStages \cup {"recovery_planning"}
  PROVE  GateShape(d)
BY DEF GateShape, SameGovernance, EarlyStages, PlannedStages, Ungated, DecidedIds, Contexts

\* A case that is put to a human has one pending request, no decision yet.
LEMMA OpenHumanGateShape ==
  ASSUME NEW c \in Contexts, NEW b \in Contexts, GateShape(b), b.stage \in EarlyStages,
         SameGovernance(b, c)
  PROVE  GateShape(OpenHumanGate(c))
<1> DEFINE request   == [id |-> OnsiteRequest, status |-> "pending"]
           requested == [c EXCEPT !.humanRequests = Append(@, request)]
           told      == Record(requested, "human_decision_requested", "EvidenceAuditor")
           gated     == Transition(told, "awaiting_human_decision")
<1>1. Ungated(c) /\ c.draft = NoRecommendation /\ c.final = NoRecommendation
  BY DEF GateShape, SameGovernance, EarlyStages, PlannedStages, Ungated
<1>2. Append(c.humanRequests, request) = Gate("pending")
  BY <1>1 DEF Ungated, Gate
<1>3. requested.humanRequests = Gate("pending") /\ requested.decisions = <<>>
      /\ requested.draft = NoRecommendation /\ requested.final = NoRecommendation
  BY <1>1, <1>2 DEF Ungated, Contexts
<1>4. requested \in Contexts
  <2>1. request \in HumanRequests
    BY DEF HumanRequests
  <2>2. c.humanRequests \in Seq(HumanRequests)
    BY DEF Contexts
  <2>3. Append(c.humanRequests, request) \in Seq(HumanRequests)
    BY <2>1, <2>2
  <2> QED BY <2>3 DEF Contexts
<1> HIDE DEF requested
<1>5. told \in Contexts /\ SameGovernance(requested, told)
  BY <1>4, RecordType, RecordFrame, EventNames
<1> HIDE DEF told
<1>6. SameGovernance(told, gated) /\ gated.stage = "awaiting_human_decision"
  BY <1>5, TransitionType, TransitionFrame DEF Stages
<1> HIDE DEF gated
<1>7. /\ gated.humanRequests = Gate("pending") /\ gated.decisions = <<>>
      /\ gated.draft = NoRecommendation /\ gated.final = NoRecommendation
  BY <1>3, <1>5, <1>6 DEF SameGovernance
<1>8. DecidedIds(gated) = {}
  BY <1>7 DEF DecidedIds
<1>9. GateShape(gated)
  BY <1>6, <1>7, <1>8 DEF GateShape, EarlyStages, PlannedStages
<1> QED BY <1>9 DEF OpenHumanGate, gated, told, requested, request

\* The audited review leaves the case gated, or ungated in planning.
LEMMA ReviewContradictionsShape ==
  ASSUME NEW c \in Contexts, NEW found \in Seq(ContradictionStatus),
         GateShape(c), c.stage = "expert_analysis"
  PROVE  GateShape(ReviewContradictions(c, found))
<1> DEFINE requested == RequestAudit(c)
           audited   == RecordContradictions(requested, found)
<1>1. requested \in Contexts /\ SameGovernance(c, requested)
  BY RequestAuditType, RequestAuditFrame
<1> HIDE DEF requested
<1>2. audited \in Contexts /\ SameGovernance(c, audited)
  BY <1>1, RecordContradictionsType, RecordContradictionsFrame DEF SameGovernance
<1> HIDE DEF audited
<1>3. c.stage \in EarlyStages
  BY DEF EarlyStages
<1>4. GateShape(OpenHumanGate(audited))
  BY <1>2, <1>3, OpenHumanGateShape
<1>5. GateShape(Transition(audited, "recovery_planning"))
  <2> DEFINE moved == Transition(audited, "recovery_planning")
  <2>1. /\ moved \in Contexts
        /\ moved.stage = "recovery_planning"
        /\ SameGovernance(audited, moved)
    BY <1>2, TransitionType, TransitionFrame DEF Stages
  <2> HIDE DEF moved
  <2>2. SameGovernance(c, moved)
    BY <1>2, <2>1 DEF SameGovernance
  <2>3. GateShape(moved)
    BY <1>3, <2>1, <2>2, EarlyShape
  <2> QED BY <2>3 DEF moved
<1> QED BY <1>4, <1>5 DEF ReviewContradictions, audited, requested

\* A case without an auditor goes on to planning ungated.
LEMMA SkipReviewShape ==
  ASSUME NEW c \in Contexts, GateShape(c), c.stage = "expert_analysis"
  PROVE  GateShape(SkipReview(c))
<1>1. SkipReview(c) \in Contexts
  BY SkipReviewType
<1>2. SameGovernance(c, SkipReview(c)) /\ SkipReview(c).stage = "recovery_planning"
  BY SkipReviewFrame
<1>3. c.stage \in EarlyStages
  BY DEF EarlyStages
<1> QED BY <1>1, <1>2, <1>3, EarlyShape

-----------------------------------------------------------------------------
(* Decisions *)

\* The only request a decision can be about is the one that is pending.
LEMMA DecisionSubject ==
  ASSUME NEW c \in Contexts, NEW d, GateShape(c), CanRecordDecision(c, d)
  PROVE  /\ c.stage = "awaiting_human_decision"
         /\ c.humanRequests = Gate("pending")
         /\ d.request = OnsiteRequest
         /\ OnsiteRequest \notin DecidedIds(c)
<1>1. c.stage = "awaiting_human_decision" /\ d.request \in PendingIds(c)
        /\ d.request \notin DecidedIds(c)
  BY DEF CanRecordDecision
<1>2. c.humanRequests = Gate("pending")
  BY <1>1 DEF GateShape
<1>3. PendingIds(c) \subseteq {OnsiteRequest}
  BY <1>2 DEF PendingIds, Pending, Gate
<1> QED BY <1>1, <1>2, <1>3

\* Recording a decision adds it and an audit event, and leaves the rest alone.
LEMMA RecordHumanDecisionFrame ==
  ASSUME NEW c \in Contexts, NEW d \in Decisions
  PROVE  LET r == RecordHumanDecision(c, d)
         IN  /\ r \in Contexts
             /\ r.stage = c.stage
             /\ r.selections = c.selections
             /\ r.humanRequests = c.humanRequests
             /\ r.decisions = Append(c.decisions, d)
             /\ r.draft = c.draft
             /\ r.final = c.final
<1> DEFINE added == [c EXCEPT !.decisions = Append(@, d)]
           r     == Record(added, "human_decision_received", "workflow")
<1>1. Append(c.decisions, d) \in Seq(Decisions)
  <2>1. c.decisions \in Seq(Decisions)
    BY DEF Contexts
  <2> QED BY <2>1
<1>2. /\ added \in Contexts
      /\ added.stage = c.stage
      /\ added.selections = c.selections
      /\ added.humanRequests = c.humanRequests
      /\ added.decisions = Append(c.decisions, d)
      /\ added.draft = c.draft
      /\ added.final = c.final
  BY <1>1 DEF Contexts
<1> HIDE DEF added
<1>3. r \in Contexts
  BY <1>2, RecordType, EventNames
<1>4. SameGovernance(added, r) /\ r.stage = added.stage /\ r.selections = added.selections
  BY <1>2, RecordFrame, EventNames
<1> HIDE DEF r
<1>5. /\ r \in Contexts
      /\ r.stage = c.stage
      /\ r.selections = c.selections
      /\ r.humanRequests = c.humanRequests
      /\ r.decisions = Append(c.decisions, d)
      /\ r.draft = c.draft
      /\ r.final = c.final
  BY <1>2, <1>3, <1>4 DEF SameGovernance
<1>6. RecordHumanDecision(c, d) = r
  BY DEF RecordHumanDecision, r, added
<1> QED BY <1>5, <1>6

\* Appending a decision adds its request to the decided ones, and no other.
LEMMA DecidedAppend ==
  ASSUME NEW c \in Contexts, NEW e \in Contexts, NEW d \in Decisions,
         e.decisions = Append(c.decisions, d)
  PROVE  DecidedIds(e) = DecidedIds(c) \cup {d.request}
<1>1. c.decisions \in Seq(Decisions)
  BY DEF Contexts
<1>2. /\ Len(e.decisions) = Len(c.decisions) + 1
      /\ \A i \in 1 .. Len(c.decisions) : e.decisions[i] = c.decisions[i]
      /\ e.decisions[Len(c.decisions) + 1] = d
      /\ Len(c.decisions) \in Nat
      /\ DOMAIN c.decisions = 1 .. Len(c.decisions)
      /\ DOMAIN e.decisions = 1 .. Len(c.decisions) + 1
  BY <1>1
<1>3. ASSUME NEW x \in DecidedIds(e)
      PROVE  x \in DecidedIds(c) \cup {d.request}
  <2>1. PICK i \in 1 .. Len(c.decisions) + 1 : x = e.decisions[i].request
    BY <1>2 DEF DecidedIds
  <2>2. CASE i = Len(c.decisions) + 1
    BY <1>2, <2>1, <2>2
  <2>3. CASE i \in 1 .. Len(c.decisions)
    BY <1>2, <2>1, <2>3 DEF DecidedIds
  <2> QED BY <1>2, <2>1, <2>2, <2>3
<1>4. ASSUME NEW x \in DecidedIds(c)
      PROVE  x \in DecidedIds(e)
  <2>1. PICK i \in 1 .. Len(c.decisions) : x = c.decisions[i].request
    BY <1>2 DEF DecidedIds
  <2>2. i \in 1 .. Len(c.decisions) + 1 /\ x = e.decisions[i].request
    BY <1>2, <2>1
  <2> QED BY <1>2, <2>2 DEF DecidedIds
<1>5. d.request \in DecidedIds(e)
  BY <1>2 DEF DecidedIds
<1> QED BY <1>3, <1>4, <1>5

\* A decision at the gate keeps the shape and answers the gate's request.
LEMMA RecordHumanDecisionShape ==
  ASSUME NEW c \in Contexts, NEW d \in Decisions, GateShape(c), CanRecordDecision(c, d)
  PROVE  /\ RecordHumanDecision(c, d) \in Contexts
         /\ GateShape(RecordHumanDecision(c, d))
         /\ RecordHumanDecision(c, d).stage = "awaiting_human_decision"
         /\ OnsiteRequest \in DecidedIds(RecordHumanDecision(c, d))
<1> DEFINE r == RecordHumanDecision(c, d)
<1>1. /\ c.stage = "awaiting_human_decision"
      /\ c.humanRequests = Gate("pending")
      /\ d.request = OnsiteRequest
  BY DecisionSubject
<1>2. /\ r \in Contexts
      /\ r.stage = c.stage
      /\ r.humanRequests = c.humanRequests
      /\ r.decisions = Append(c.decisions, d)
      /\ r.draft = c.draft
      /\ r.final = c.final
  BY RecordHumanDecisionFrame
<1> HIDE DEF r
<1>3. DecidedIds(r) = DecidedIds(c) \cup {OnsiteRequest}
  BY <1>1, <1>2, DecidedAppend
<1>4. OnsiteRequest # FinalRequest
  BY DEF OnsiteRequest, FinalRequest
<1>5. GateShape(r)
  BY <1>1, <1>2, <1>3, <1>4 DEF GateShape, EarlyStages, PlannedStages
<1> QED BY <1>1, <1>2, <1>3, <1>5 DEF r

-----------------------------------------------------------------------------
(* Resuming *)

(* The case between leaving the gate and the end of planning.              *)
InPlanning(c) ==
  /\ c \in Contexts
  /\ c.stage = "recovery_planning"
  /\ Answered(c)
  /\ c.draft = NoRecommendation
  /\ c.final = NoRecommendation
  /\ FinalRequest \notin DecidedIds(c)

\* Answering the pending request of a gated case changes its status only.
LEMMA AnswerGate ==
  ASSUME NEW c \in Contexts, GateShape(c), c.stage = "awaiting_human_decision"
  PROVE  LET answered == AnswerRequest(c, LastPending(c))
         IN  /\ LastPending(c) = OnsiteRequest
             /\ answered \in Contexts
             /\ answered.humanRequests = Gate("answered")
             /\ answered.stage = c.stage
             /\ answered.selections = c.selections
             /\ answered.requests = c.requests
             /\ answered.findings = c.findings
             /\ answered.decisions = c.decisions
             /\ answered.draft = c.draft
             /\ answered.final = c.final
             /\ answered.events = c.events
<1> DEFINE answered == [c EXCEPT !.humanRequests[1].status = "answered"]
<1>1. c.humanRequests = Gate("pending")
  BY DEF GateShape
<1>2. Pending(c) = {1} /\ DOMAIN c.humanRequests = {1} /\ c.humanRequests[1].id = OnsiteRequest
  BY <1>1 DEF Pending, Gate
<1>3. LastPending(c) = OnsiteRequest
  <2>1. (CHOOSE i \in Pending(c) : \A j \in Pending(c) : j <= i) = 1
    BY <1>2
  <2> QED BY <1>2, <2>1 DEF LastPending
<1>4. AnswerRequest(c, OnsiteRequest) = answered
  <2>1. (CHOOSE i \in DOMAIN c.humanRequests :
           /\ c.humanRequests[i].id = OnsiteRequest
           /\ \A j \in DOMAIN c.humanRequests : c.humanRequests[j].id = OnsiteRequest => i <= j) = 1
    BY <1>2
  <2> QED BY <2>1 DEF AnswerRequest
<1>5. [c.humanRequests EXCEPT ![1].status = "answered"] = Gate("answered")
  BY <1>1 DEF Gate
<1>6. /\ answered.humanRequests = Gate("answered")
      /\ answered.stage = c.stage
      /\ answered.selections = c.selections
      /\ answered.requests = c.requests
      /\ answered.findings = c.findings
      /\ answered.decisions = c.decisions
      /\ answered.draft = c.draft
      /\ answered.final = c.final
      /\ answered.events = c.events
  BY <1>5 DEF Contexts
<1>7. answered \in Contexts
  <2>1. Gate("answered") \in Seq(HumanRequests)
    BY DEF Gate, HumanRequests
  <2> QED BY <1>5, <2>1 DEF Contexts
<1> HIDE DEF answered
<1> QED BY <1>3, <1>4, <1>6, <1>7

\* Resuming after a decision answers the one pending request and nothing else.
LEMMA LeaveHumanGateShape ==
  ASSUME NEW c \in Contexts, GateShape(c), c.stage = "awaiting_human_decision",
         OnsiteRequest \in DecidedIds(c)
  PROVE  /\ InPlanning(LeaveHumanGate(c))
         /\ LeaveHumanGate(c).selections = c.selections
         /\ LeaveHumanGate(c).decisions = c.decisions
<1> DEFINE answered == AnswerRequest(c, LastPending(c))
           left     == Transition(answered, "recovery_planning")
<1>1. /\ c.draft = NoRecommendation
      /\ c.final = NoRecommendation
      /\ FinalRequest \notin DecidedIds(c)
  BY DEF GateShape, PlannedStages
<1>2. /\ answered \in Contexts
      /\ answered.humanRequests = Gate("answered")
      /\ answered.decisions = c.decisions
      /\ answered.draft = c.draft
      /\ answered.final = c.final
      /\ answered.selections = c.selections
  BY AnswerGate
<1> HIDE DEF answered
<1>3. /\ left \in Contexts
      /\ left.stage = "recovery_planning"
      /\ SameGovernance(answered, left)
      /\ left.selections = answered.selections
  BY <1>2, TransitionType, TransitionFrame DEF Stages
<1> HIDE DEF left
<1>4. left.decisions = c.decisions
  BY <1>2, <1>3 DEF SameGovernance
<1>5. InPlanning(left) /\ left.selections = c.selections
  BY <1>1, <1>2, <1>3, <1>4 DEF InPlanning, SameGovernance, Answered, DecidedIds
<1> QED BY <1>4, <1>5 DEF LeaveHumanGate, left, answered

\* A case left in planning keeps the shape.
LEMMA InPlanningShape ==
  ASSUME NEW c, InPlanning(c)
  PROVE  GateShape(c)
BY DEF InPlanning, GateShape, EarlyStages, PlannedStages

\* Asking the planner leaves the case in planning.
LEMMA RequestPlanInPlanning ==
  ASSUME NEW c, InPlanning(c)
  PROVE  InPlanning(RequestPlan(c))
<1>1. c \in Contexts
  BY DEF InPlanning
<1>2. 1 \in 1 .. MaxAttempts /\ "RecoveryPlanner" \in Roles
  BY MaxAttemptsAssumption DEF Roles
<1>3. /\ RequestPlan(c) \in Contexts
      /\ SameGovernance(c, RequestPlan(c))
      /\ RequestPlan(c).stage = c.stage
  BY <1>1, <1>2, RequestExpertType, RequestExpertFrame DEF RequestPlan
<1> QED BY <1>3 DEF InPlanning, SameGovernance, Answered, DecidedIds

\* Planning that raises leaves an answered case in planning, with no draft.
LEMMA AbortPlanningShape ==
  ASSUME NEW c, InPlanning(c)
  PROVE  AbortPlanning(c) \in Contexts /\ GateShape(AbortPlanning(c))
<1>1. InPlanning(AbortPlanning(c))
  BY RequestPlanInPlanning DEF AbortPlanning
<1> QED BY <1>1, InPlanningShape DEF InPlanning

\* The draft drawn up after the human decision is a recommendation.
LEMMA DraftType ==
  ASSUME NEW c \in Contexts
  PROVE  PostHumanDraft(c) \in Recommendations
<1>1. Len(c.contradictions) \in Nat
  <2>1. c.contradictions \in Seq(ContradictionStatus)
    BY DEF Contexts
  <2> QED BY <2>1
<1>2. [i \in 1 .. Len(c.contradictions) |-> "resolved"] \in Seq(ContradictionStatus)
  BY <1>1 DEF ContradictionStatus
<1> QED BY <1>2 DEF PostHumanDraft, Recommendations

\* The planner's draft is pending, carries resolved contradictions only and
\* brings the case to final approval.
LEMMA PlanRecoveryShape ==
  ASSUME NEW c, InPlanning(c)
  PROVE  PlanRecovery(c) \in Contexts /\ GateShape(PlanRecovery(c))
<1> DEFINE asked   == RequestPlan(c)
           drafted == [asked EXCEPT !.draft = PostHumanDraft(asked)]
           option  == Record(drafted, "recovery_option_created", "RecoveryPlanner")
           created == Record(option, "draft_recommendation_created", "RecoveryPlanner")
           done    == Record(created, "expert_execution_completed", "RecoveryPlanner")
           planned == Transition(done, "awaiting_final_approval")
<1>1. InPlanning(asked)
  BY RequestPlanInPlanning
<1> HIDE DEF asked
<1>2. PostHumanDraft(asked) \in Recommendations
  BY <1>1, DraftType DEF InPlanning
<1>3. /\ drafted \in Contexts
      /\ drafted.humanRequests = asked.humanRequests
      /\ drafted.decisions = asked.decisions
      /\ drafted.final = asked.final
      /\ drafted.draft = PostHumanDraft(asked)
  BY <1>1, <1>2 DEF Contexts, InPlanning
<1> HIDE DEF drafted
<1>4. option \in Contexts /\ SameGovernance(drafted, option)
  BY <1>3, RecordType, RecordFrame, EventNames
<1> HIDE DEF option
<1>5. created \in Contexts /\ SameGovernance(option, created)
  BY <1>4, RecordType, RecordFrame, EventNames
<1> HIDE DEF created
<1>6. done \in Contexts /\ SameGovernance(created, done)
  BY <1>5, RecordType, RecordFrame, EventNames
<1> HIDE DEF done
<1>7. /\ planned \in Contexts
      /\ SameGovernance(done, planned)
      /\ planned.stage = "awaiting_final_approval"
  BY <1>6, TransitionType, TransitionFrame DEF Stages
<1> HIDE DEF planned
<1>8. /\ planned.humanRequests = asked.humanRequests
      /\ planned.decisions = asked.decisions
      /\ planned.final = asked.final
      /\ planned.draft = PostHumanDraft(asked)
  BY <1>3, <1>4, <1>5, <1>6, <1>7 DEF SameGovernance
<1>9. Answered(planned) /\ FinalRequest \notin DecidedIds(planned)
  BY <1>1, <1>8 DEF InPlanning, Answered, DecidedIds
<1>10. Drafted(planned)
  BY <1>8 DEF Drafted, PostHumanDraft
<1>11. GateShape(planned)
  BY <1>1, <1>7, <1>8, <1>9, <1>10 DEF GateShape, EarlyStages, PlannedStages, InPlanning
<1> QED BY <1>7, <1>11 DEF PlanRecovery, planned, done, created, option, drafted, asked

-----------------------------------------------------------------------------
(* Approving *)

\* An appended event is found, and so is every earlier one.
LEMMA EventsAppend ==
  ASSUME NEW c \in Contexts, NEW e \in Contexts, NEW x \in AuditEvents, NEW type,
         e.events = Append(c.events, x)
  PROVE  /\ EventsOf(c, type) \subseteq EventsOf(e, type)
         /\ x.type = type => EventsOf(e, type) # {}
<1>1. c.events \in Seq(AuditEvents)
  BY DEF Contexts
<1>2. /\ Len(c.events) \in Nat
      /\ DOMAIN c.events = 1 .. Len(c.events)
      /\ DOMAIN e.events = 1 .. Len(c.events) + 1
      /\ \A i \in 1 .. Len(c.events) : e.events[i] = c.events[i]
      /\ e.events[Len(c.events) + 1] = x
  BY <1>1
<1>3. ASSUME NEW i \in EventsOf(c, type)
      PROVE  i \in EventsOf(e, type)
  <2>1. i \in 1 .. Len(c.events) /\ c.events[i].type = type
    BY <1>2 DEF EventsOf
  <2>2. i \in 1 .. Len(c.events) + 1 /\ e.events[i].type = type
    BY <1>2, <2>1
  <2> QED BY <1>2, <2>2 DEF EventsOf
<1>4. x.type = type => Len(c.events) + 1 \in EventsOf(e, type)
  BY <1>2 DEF EventsOf
<1> QED BY <1>3, <1>4

\* Approving authorizes the draft, on record, and completes the case.
LEMMA ApproveFinalShape ==
  ASSUME NEW c \in Contexts, NEW actor \in Actors, GateShape(c), CanApprove(c)
  PROVE  ApproveFinal(c, actor) \in Contexts /\ GateShape(ApproveFinal(c, actor))
<1> DEFINE approval  == [request |-> FinalRequest, outcome |-> "approved", by |-> actor]
           added     == [c EXCEPT !.decisions = Append(@, approval)]
           approved  == Record(added, "final_approval_recorded", "workflow")
           advice    == [c.draft EXCEPT !.status = "authorized", !.approval = "approved"]
           advised   == [approved EXCEPT !.final = advice]
           finalized == Record(advised, "final_recommendation_created", "RecoveryPlanner")
           moved     == Transition(finalized, "completed")
           done      == Record(moved, "case_completed", "workflow")
<1>1. c.stage = "awaiting_final_approval" /\ Answered(c) /\ Drafted(c)
  BY DEF CanApprove, GateShape, PlannedStages
<1>2. approval \in Decisions
  BY DEF Decisions, Outcomes
<1>2a. approval.request = FinalRequest /\ approval.outcome = "approved"
  OBVIOUS
<1> HIDE DEF approval
<1>3. Append(c.decisions, approval) \in Seq(Decisions)
  <2>1. c.decisions \in Seq(Decisions)
    BY DEF Contexts
  <2> QED BY <1>2, <2>1
<1>4. /\ added \in Contexts
      /\ added.humanRequests = c.humanRequests
      /\ added.decisions = Append(c.decisions, approval)
      /\ added.draft = c.draft
  BY <1>3 DEF Contexts
<1> HIDE DEF added
<1>5. approved \in Contexts /\ SameGovernance(added, approved)
  BY <1>4, RecordType, RecordFrame, EventNames
<1>6. EventsOf(approved, "final_approval_recorded") # {}
  <2> DEFINE x == [type |-> "final_approval_recorded", about |-> "workflow"]
  <2>1. x \in AuditEvents /\ x.type = "final_approval_recorded"
    BY EventNames DEF AuditEvents
  <2>2. approved.events = Append(added.events, x)
    BY <1>4, RecordFrame, EventNames
  <2> HIDE DEF x
  <2> QED BY <1>4, <1>5, <2>1, <2>2, EventsAppend
<1> HIDE DEF approved
<1>7. advice \in Recommendations
  <2>1. c.draft \in Recommendations
    BY DEF Contexts
  <2> QED BY <2>1 DEF Recommendations
<1> HIDE DEF advice
<1>8. /\ advised \in Contexts
      /\ advised.humanRequests = approved.humanRequests
      /\ advised.decisions = approved.decisions
      /\ advised.draft = approved.draft
      /\ advised.final = advice
      /\ advised.events = approved.events
  BY <1>5, <1>7 DEF Contexts
<1> HIDE DEF advised
<1>9. finalized \in Contexts /\ SameGovernance(advised, finalized)
  BY <1>8, RecordType, RecordFrame, EventNames
<1>10. EventsOf(finalized, "final_approval_recorded") # {}
  <2> DEFINE x == [type |-> "final_recommendation_created", about |-> "RecoveryPlanner"]
  <2>1. x \in AuditEvents
    BY EventNames DEF AuditEvents
  <2>2. finalized.events = Append(advised.events, x)
    BY <1>8, RecordFrame, EventNames
  <2>3. EventsOf(advised, "final_approval_recorded") # {}
    BY <1>6, <1>8 DEF EventsOf
  <2> HIDE DEF x
  <2> QED BY <1>8, <1>9, <2>1, <2>2, <2>3, EventsAppend
<1> HIDE DEF finalized
<1>11. /\ moved \in Contexts
       /\ SameGovernance(finalized, moved)
       /\ moved.stage = "completed"
  BY <1>9, TransitionType, TransitionFrame DEF Stages
<1>12. EventsOf(moved, "final_approval_recorded") # {}
  <2> DEFINE x == [type |-> "workflow_stage_changed", about |-> "completed"]
  <2>1. x \in AuditEvents /\ "completed" \in Stages
    BY DEF AuditEvents, EventTypes, Subjects, Stages
  <2>2. moved.events = Append(finalized.events, x)
    BY <1>9, <2>1, TransitionFrame
  <2> HIDE DEF x
  <2> QED BY <1>9, <1>10, <1>11, <2>1, <2>2, EventsAppend
<1> HIDE DEF moved
<1>13. done \in Contexts /\ SameGovernance(moved, done) /\ done.stage = moved.stage
  BY <1>11, RecordType, RecordFrame, EventNames
<1>14. EventsOf(done, "final_approval_recorded") # {}
  <2> DEFINE x == [type |-> "case_completed", about |-> "workflow"]
  <2>1. x \in AuditEvents
    BY EventNames DEF AuditEvents
  <2>2. done.events = Append(moved.events, x)
    BY <1>11, RecordFrame, EventNames
  <2> HIDE DEF x
  <2> QED BY <1>11, <1>12, <1>13, <2>1, <2>2, EventsAppend
<1> HIDE DEF done
<1>15. /\ done.humanRequests = c.humanRequests
       /\ done.decisions = Append(c.decisions, approval)
       /\ done.draft = c.draft
       /\ done.final = advice
       /\ done.stage = "completed"
  BY <1>4, <1>5, <1>8, <1>9, <1>11, <1>13 DEF SameGovernance
<1>16. DecidedIds(done) = DecidedIds(c) \cup {FinalRequest}
  BY <1>2, <1>2a, <1>13, <1>15, DecidedAppend
<1>17. \E i \in DOMAIN done.decisions :
          done.decisions[i].request = FinalRequest /\ done.decisions[i].outcome = "approved"
  <2>1. c.decisions \in Seq(Decisions)
    BY DEF Contexts
  <2>2. /\ Len(c.decisions) + 1 \in DOMAIN done.decisions
        /\ done.decisions[Len(c.decisions) + 1] = approval
    BY <1>2, <1>15, <2>1
  <2> QED BY <1>2a, <2>2
<1>18. Answered(done) /\ Drafted(done)
  BY <1>1, <1>15, <1>16 DEF Answered, Drafted
<1>19. Approved(done)
  BY <1>14, <1>15, <1>17 DEF Approved, advice
<1>20. GateShape(done)
  BY <1>15, <1>18, <1>19 DEF GateShape, EarlyStages, PlannedStages
<1> QED BY <1>13, <1>20
      DEF ApproveFinal, done, moved, finalized, advised, advice, approved, added, approval


-----------------------------------------------------------------------------
(* What the shape of the gate says *)

\* Only a completed case authorizes, and it was answered, drafted and approved.
LEMMA AuthorizedShape ==
  ASSUME NEW c \in Contexts, GateShape(c), c.final.status = "authorized"
  PROVE  c.stage = "completed" /\ Answered(c) /\ Drafted(c) /\ Approved(c)
<1>1. c.stage = "completed"
  BY DEF GateShape, NoRecommendation
<1> QED BY <1>1 DEF GateShape, PlannedStages

\* The inspector's rules hold of every case whose gate has the shape.
LEMMA ShapeConsistent ==
  ASSUME NEW c \in Contexts, GateShape(c)
  PROVE  StateConsistent(c)
<1>1. c.stage = "awaiting_human_decision" => Pending(c) # {}
  BY DEF GateShape, Gate, Pending
<1>2. c.stage # "awaiting_human_decision" => Pending(c) = {}
  <2>1. c.stage # "awaiting_human_decision" =>
          c.humanRequests = <<>> \/ c.humanRequests = Gate("answered")
    BY DEF GateShape, EarlyStages, PlannedStages, Ungated, Answered, Contexts, Stages
  <2>2. c.humanRequests = <<>> => Pending(c) = {}
    BY DEF Pending
  <2>3. c.humanRequests = Gate("answered") => Pending(c) = {}
    BY DEF Pending, Gate
  <2> QED BY <2>1, <2>2, <2>3
<1>3. c.stage = "awaiting_final_approval" => ApprovalState(c) = "pending"
  BY DEF GateShape, PlannedStages, Drafted, ApprovalState, NoRecommendation
<1>4. c.stage = "completed" => /\ c.final.status = "authorized"
                               /\ c.final.approval = "approved"
                               /\ EventsOf(c, "final_approval_recorded") # {}
  BY DEF GateShape, Approved, Contexts, Recommendations
<1> QED BY <1>1, <1>2, <1>3, <1>4 DEF StateConsistent, ApprovalState

-----------------------------------------------------------------------------
(* One context continues another *)

Continues(s, t) == Len(s) <= Len(t) /\ \A i \in 1 .. Len(s) : t[i] = s[i]

Grows(c, d) ==
  /\ Continues(c.events, d.events)
  /\ Continues(c.requests, d.requests)
  /\ Continues(c.findings, d.findings)
  /\ Continues(c.decisions, d.decisions)

GovernanceTypes ==
  {"human_decision_requested", "human_decision_received", "draft_recommendation_created",
   "final_approval_recorded", "final_recommendation_created", "case_completed"}

RoutineTypes == EventTypes \ (GovernanceTypes \cup {"workflow_stage_changed"})

(* The added audit events are routine: no stage change, no governance.     *)
AddsRoutine(c, d) ==
  /\ Continues(c.events, d.events)
  /\ \A i \in 1 .. Len(d.events) : i > Len(c.events) => d.events[i].type \in RoutineTypes

(* The selection and the findings stay, and added requests are first       *)
(* attempts.                                                               *)
WorkKept(c, d) ==
  /\ d.selections = c.selections
  /\ d.findings = c.findings
  /\ Continues(c.requests, d.requests)
  /\ \A i \in 1 .. Len(d.requests) : i > Len(c.requests) => d.requests[i].attempt = 1

Quiet(c, d) ==
  /\ d \in Contexts
  /\ d.stage = c.stage
  /\ SameGovernance(c, d)
  /\ Continues(c.requests, d.requests)
  /\ Continues(c.findings, d.findings)
  /\ AddsRoutine(c, d)

(* One audit event is added, and only the audit trail is touched.          *)
Notes(c, d, type) ==
  /\ d \in Contexts
  /\ d.stage = c.stage
  /\ d.selections = c.selections
  /\ d.requests = c.requests
  /\ d.findings = c.findings
  /\ SameGovernance(c, d)
  /\ \E about \in Subjects : d.events = Append(c.events, [type |-> type, about |-> about])

(* The stage changes, on record, and nothing else does.                    *)
Moves(c, d, target) ==
  /\ d \in Contexts
  /\ d.stage = target
  /\ d.selections = c.selections
  /\ d.requests = c.requests
  /\ d.findings = c.findings
  /\ SameGovernance(c, d)
  /\ d.events = Append(c.events, [type |-> "workflow_stage_changed", about |-> target])

\* Continuing a sequence is transitive.
LEMMA ContinuesOrder ==
  ASSUME NEW S, NEW s \in Seq(S), NEW t \in Seq(S), NEW u \in Seq(S),
         Continues(s, t), Continues(t, u)
  PROVE  Continues(s, u)
<1>1. Len(s) \in Nat /\ Len(t) \in Nat /\ Len(u) \in Nat
  OBVIOUS
<1> QED BY <1>1 DEF Continues

\* A sequence continues into itself with an element added.
LEMMA AppendContinues ==
  ASSUME NEW S, NEW s \in Seq(S), NEW x \in S
  PROVE  Continues(s, Append(s, x))
<1>1. Len(s) \in Nat
  OBVIOUS
<1> QED BY <1>1 DEF Continues

\* A sequence continues itself.
LEMMA ContinuesSelf ==
  ASSUME NEW S, NEW s \in Seq(S)
  PROVE  Continues(s, s)
<1>1. Len(s) \in Nat
  OBVIOUS
<1> QED BY <1>1 DEF Continues

\* A sequence continues into itself with a sequence added.
LEMMA ConcatContinues ==
  ASSUME NEW S, NEW s \in Seq(S), NEW t \in Seq(S)
  PROVE  Continues(s, s \o t)
<1>1. Len(s) \in Nat /\ Len(t) \in Nat
  OBVIOUS
<1> QED BY <1>1 DEF Continues

\* What continues a sequence has it as a prefix.
LEMMA ContinuesPrefix ==
  ASSUME NEW S, NEW s \in Seq(S), NEW t \in Seq(S), Continues(s, t)
  PROVE  IsPrefix(s, t)
<1>1. Len(s) \in Nat /\ Len(t) \in Nat /\ Len(s) <= Len(t)
  BY DEF Continues
<1>2. SubSeq(s, 1, Len(s)) = SubSeq(t, 1, Len(s))
  <2> DEFINE a == SubSeq(s, 1, Len(s))
             b == SubSeq(t, 1, Len(s))
  <2>1. a = [i \in 1 .. Len(s) |-> s[i]]
    BY <1>1
  <2>2. b = [i \in 1 .. Len(s) |-> t[i]]
    BY <1>1
  <2> HIDE DEF a, b
  <2>3. a = b
    BY <2>1, <2>2 DEF Continues
  <2> QED BY <2>3 DEF a, b
<1> QED BY <1>1, <1>2 DEF IsPrefix

\* The sequences of a context are sequences of their element types.
LEMMA ContextSequences ==
  ASSUME NEW c \in Contexts
  PROVE  /\ c.events \in Seq(AuditEvents)
         /\ c.requests \in Seq(ExpertRequests)
         /\ c.findings \in Seq(Findings)
         /\ c.decisions \in Seq(Decisions)
         /\ c.humanRequests \in Seq(HumanRequests)
         /\ c.contradictions \in Seq(ContradictionStatus)
         /\ c.stage \in Stages
         /\ c.selections \in SUBSET Roles
BY DEF Contexts

-----------------------------------------------------------------------------
(* The links every operation is made of *)

\* Recording an event notes it and touches nothing else.
LEMMA RecordNotes ==
  ASSUME NEW c \in Contexts, NEW type \in EventTypes, NEW about \in Subjects
  PROVE  Notes(c, Record(c, type, about), type)
<1>1. Record(c, type, about) \in Contexts
  BY RecordType
<1>2. /\ Record(c, type, about).stage = c.stage
      /\ Record(c, type, about).selections = c.selections
      /\ Record(c, type, about).requests = c.requests
      /\ Record(c, type, about).findings = c.findings
      /\ SameGovernance(c, Record(c, type, about))
      /\ Record(c, type, about).events = Append(c.events, [type |-> type, about |-> about])
  BY DEF Record, Contexts, SameGovernance
<1> QED BY <1>1, <1>2 DEF Notes

\* A transition moves the case and touches nothing else.
LEMMA TransitionMoves ==
  ASSUME NEW c \in Contexts, NEW target \in Stages
  PROVE  Moves(c, Transition(c, target), target)
<1>1. Transition(c, target) \in Contexts /\ Transition(c, target).stage = target
  BY TransitionType
<1>2. /\ SameGovernance(c, Transition(c, target))
      /\ Transition(c, target).selections = c.selections
      /\ Transition(c, target).events =
           Append(c.events, [type |-> "workflow_stage_changed", about |-> target])
  BY TransitionFrame
<1>3. /\ Transition(c, target).requests = c.requests
      /\ Transition(c, target).findings = c.findings
  BY DEF Transition, Record, Contexts
<1> QED BY <1>1, <1>2, <1>3 DEF Moves

\* What an appended element does to a sequence, said element by element.
LEMMA AppendElements ==
  ASSUME NEW S, NEW s \in Seq(S), NEW x \in S
  PROVE  /\ Len(s) \in Nat
         /\ Len(Append(s, x)) = Len(s) + 1
         /\ \A i \in 1 .. Len(s) : Append(s, x)[i] = s[i]
         /\ Append(s, x)[Len(s) + 1] = x
         /\ DOMAIN s = 1 .. Len(s)
         /\ DOMAIN Append(s, x) = 1 .. Len(s) + 1
OBVIOUS

\* Noting a routine event is quiet, and leaves the experts' work alone.
LEMMA NoteQuiet ==
  ASSUME NEW c \in Contexts, NEW d, NEW type \in RoutineTypes, Notes(c, d, type)
  PROVE  Quiet(c, d) /\ WorkKept(c, d)
<1>1. PICK about \in Subjects : d.events = Append(c.events, [type |-> type, about |-> about])
  BY DEF Notes
<1> DEFINE x == [type |-> type, about |-> about]
<1>2. x \in AuditEvents /\ x.type = type
  BY DEF AuditEvents, RoutineTypes
<1>3. c.events \in Seq(AuditEvents) /\ c.requests \in Seq(ExpertRequests)
        /\ c.findings \in Seq(Findings)
  BY ContextSequences
<1>4. d.events = Append(c.events, x)
  BY <1>1
<1> HIDE DEF x
<1>5. /\ Len(c.events) \in Nat
      /\ Len(d.events) = Len(c.events) + 1
      /\ d.events[Len(c.events) + 1] = x
  BY <1>2, <1>3, <1>4, AppendElements
<1>6. Continues(c.events, d.events)
  BY <1>2, <1>3, <1>4, AppendContinues
<1>7. \A i \in 1 .. Len(d.events) : i > Len(c.events) => d.events[i].type \in RoutineTypes
  <2> SUFFICES ASSUME NEW i \in 1 .. Len(d.events), i > Len(c.events)
               PROVE  d.events[i].type \in RoutineTypes
    OBVIOUS
  <2>1. i = Len(c.events) + 1
    BY <1>5
  <2> QED BY <1>2, <1>5, <2>1
<1>8. AddsRoutine(c, d)
  BY <1>6, <1>7 DEF AddsRoutine
<1>9. Continues(c.requests, c.requests) /\ Continues(c.findings, c.findings)
        /\ Len(c.requests) \in Nat
  BY <1>3, ContinuesSelf
<1>10. d.requests = c.requests /\ d.findings = c.findings
  BY DEF Notes
<1>11. \A i \in 1 .. Len(d.requests) : i > Len(c.requests) => d.requests[i].attempt = 1
  BY <1>9, <1>10
<1> QED BY <1>8, <1>9, <1>10, <1>11 DEF Notes, Quiet, WorkKept

\* Two quiet changes are one.
LEMMA QuietTransitive ==
  ASSUME NEW b \in Contexts, NEW c, NEW d, Quiet(b, c), Quiet(c, d)
  PROVE  Quiet(b, d)
<1>1. c \in Contexts /\ d \in Contexts
  BY DEF Quiet
<1>2. /\ Continues(b.events, d.events)
      /\ Continues(b.requests, d.requests)
      /\ Continues(b.findings, d.findings)
  BY <1>1, ContextSequences, ContinuesOrder DEF Quiet, AddsRoutine
<1>3. Len(b.events) \in Nat /\ Len(c.events) \in Nat /\ Len(d.events) \in Nat
  BY <1>1, ContextSequences, LenProperties
<1>4. \A i \in 1 .. Len(d.events) : i > Len(b.events) => d.events[i].type \in RoutineTypes
  <2> SUFFICES ASSUME NEW i \in 1 .. Len(d.events), i > Len(b.events)
               PROVE  d.events[i].type \in RoutineTypes
    OBVIOUS
  <2>1. CASE i <= Len(c.events)
    <3>1. i \in 1 .. Len(c.events)
      BY <1>3, <2>1
    <3>2. d.events[i] = c.events[i] /\ c.events[i].type \in RoutineTypes
      BY <3>1 DEF Quiet, AddsRoutine, Continues
    <3> QED BY <3>2
  <2>2. CASE i > Len(c.events)
    BY <2>2 DEF Quiet, AddsRoutine
  <2> QED BY <1>3, <2>1, <2>2
<1>5. AddsRoutine(b, d)
  BY <1>2, <1>4 DEF AddsRoutine
<1>6. SameGovernance(b, d) /\ d.stage = b.stage
  BY DEF Quiet, SameGovernance
<1> QED BY <1>1, <1>2, <1>5, <1>6 DEF Quiet

\* Leaving the experts' work alone twice is leaving it alone.
LEMMA WorkKeptTransitive ==
  ASSUME NEW b \in Contexts, NEW c \in Contexts, NEW d \in Contexts,
         WorkKept(b, c), WorkKept(c, d)
  PROVE  WorkKept(b, d)
<1>1. Continues(b.requests, d.requests) /\ d.findings = b.findings
        /\ d.selections = b.selections
  BY ContextSequences, ContinuesOrder DEF WorkKept
<1>2. Len(b.requests) \in Nat /\ Len(c.requests) \in Nat /\ Len(d.requests) \in Nat
  BY ContextSequences, LenProperties
<1>3. \A i \in 1 .. Len(d.requests) : i > Len(b.requests) => d.requests[i].attempt = 1
  <2> SUFFICES ASSUME NEW i \in 1 .. Len(d.requests), i > Len(b.requests)
               PROVE  d.requests[i].attempt = 1
    OBVIOUS
  <2>1. CASE i <= Len(c.requests)
    <3>1. i \in 1 .. Len(c.requests)
      BY <1>2, <2>1
    <3> QED BY <3>1 DEF WorkKept, Continues
  <2>2. CASE i > Len(c.requests)
    BY <2>2 DEF WorkKept
  <2> QED BY <1>2, <2>1, <2>2
<1> QED BY <1>1, <1>3 DEF WorkKept

\* Asking an expert is quiet and adds exactly the request.
LEMMA RequestExpertQuiet ==
  ASSUME NEW c \in Contexts, NEW role \in Roles, NEW n \in 1 .. MaxAttempts
  PROVE  LET d == RequestExpert(c, role, n)
         IN  /\ Quiet(c, d)
             /\ d.selections = c.selections
             /\ d.requests = Append(c.requests, [role |-> role, attempt |-> n])
             /\ d.findings = c.findings
<1> DEFINE request == [role |-> role, attempt |-> n]
           asked   == [c EXCEPT !.requests = Append(@, request)]
           created == Record(asked, "expert_request_created", role)
           d       == Record(created, "expert_execution_started", role)
<1>1. request \in ExpertRequests
  BY DEF ExpertRequests
<1> HIDE DEF request
<1>2. c.requests \in Seq(ExpertRequests) /\ c.events \in Seq(AuditEvents)
        /\ c.findings \in Seq(Findings)
  BY ContextSequences
<1>3. Append(c.requests, request) \in Seq(ExpertRequests)
  BY <1>1, <1>2
<1>4. /\ asked \in Contexts
      /\ asked.stage = c.stage
      /\ asked.selections = c.selections
      /\ asked.requests = Append(c.requests, request)
      /\ asked.findings = c.findings
      /\ asked.events = c.events
      /\ SameGovernance(c, asked)
  BY <1>3 DEF Contexts, SameGovernance
<1> HIDE DEF asked
<1>5. Continues(c.requests, asked.requests) /\ Continues(c.findings, asked.findings)
        /\ Continues(c.events, asked.events)
  BY <1>1, <1>2, <1>4, AppendContinues, ContinuesSelf
<1>6. AddsRoutine(c, asked)
  BY <1>2, <1>4, <1>5 DEF AddsRoutine
<1>7. Quiet(c, asked)
  BY <1>4, <1>5, <1>6 DEF Quiet
<1>8. role \in Subjects /\ "expert_request_created" \in RoutineTypes
        /\ "expert_execution_started" \in RoutineTypes
        /\ RoutineTypes \subseteq EventTypes
  BY DEF Subjects, RoutineTypes, EventTypes, GovernanceTypes
<1>9. Notes(asked, created, "expert_request_created")
  BY <1>4, <1>8, RecordNotes
<1> HIDE DEF created
<1>10. created \in Contexts /\ Quiet(asked, created)
  BY <1>4, <1>8, <1>9, NoteQuiet DEF Notes
<1>11. Notes(created, d, "expert_execution_started")
  BY <1>8, <1>10, RecordNotes
<1> HIDE DEF d
<1>12. Quiet(created, d)
  BY <1>8, <1>10, <1>11, NoteQuiet
<1>13. Quiet(c, d)
  BY <1>4, <1>7, <1>10, <1>12, QuietTransitive
<1>14. /\ d.selections = c.selections
       /\ d.requests = Append(c.requests, request)
       /\ d.findings = c.findings
  BY <1>4, <1>9, <1>11 DEF Notes
<1>15. RequestExpert(c, role, n) = d
  BY DEF RequestExpert, d, created, asked, request
<1> QED BY <1>13, <1>14, <1>15 DEF request

\* A first request leaves the work of the other experts alone.
LEMMA FirstRequestKeepsWork ==
  ASSUME NEW c \in Contexts, NEW role \in Roles
  PROVE  LET d == RequestExpert(c, role, 1)
         IN  Quiet(c, d) /\ WorkKept(c, d)
<1> DEFINE d == RequestExpert(c, role, 1)
           x == [role |-> role, attempt |-> 1]
<1>1. 1 \in 1 .. MaxAttempts
  BY MaxAttemptsAssumption
<1>2. /\ Quiet(c, d)
      /\ d.selections = c.selections
      /\ d.requests = Append(c.requests, x)
      /\ d.findings = c.findings
  BY <1>1, RequestExpertQuiet
<1>3. x \in ExpertRequests /\ x.attempt = 1
  BY <1>1 DEF ExpertRequests
<1> HIDE DEF d, x
<1>4. c.requests \in Seq(ExpertRequests)
  BY ContextSequences
<1>5. /\ Len(c.requests) \in Nat
      /\ Len(d.requests) = Len(c.requests) + 1
      /\ d.requests[Len(c.requests) + 1] = x
  BY <1>2, <1>3, <1>4, AppendElements
<1>6. \A i \in 1 .. Len(d.requests) : i > Len(c.requests) => i = Len(c.requests) + 1
  BY <1>5
<1>7. \A i \in 1 .. Len(d.requests) : i > Len(c.requests) => d.requests[i].attempt = 1
  BY <1>3, <1>5, <1>6
<1>8. Continues(c.requests, d.requests)
  BY <1>2 DEF Quiet
<1> QED BY <1>2, <1>7, <1>8 DEF WorkKept, d

\* An attempt is quiet, and adds exactly the request and the finding.
LEMMA ExecuteAttemptQuiet ==
  ASSUME NEW c \in Contexts, NEW role \in FindingRoles,
         NEW n \in 1 .. MaxAttempts, NEW status \in FindingStatus
  PROVE  LET d == ExecuteAttempt(c, role, n, status)
         IN  /\ Quiet(c, d)
             /\ d.selections = c.selections
             /\ d.requests = Append(c.requests, [role |-> role, attempt |-> n])
             /\ d.findings =
                  Append(c.findings, [role |-> role, attempt |-> n, status |-> status])
<1> DEFINE asked    == RequestExpert(c, role, n)
           request  == [role |-> role, attempt |-> n]
           finding  == [role |-> role, attempt |-> n, status |-> status]
           answered == [asked EXCEPT !.findings = Append(@, finding)]
           failed   == Record(answered, "expert_execution_failed", role)
           retry    == Record(failed, "retry_authorized", role)
           done     == Record(answered, "expert_execution_completed", role)
<1>1. role \in Roles /\ role \in Subjects
  BY DEF Roles, Subjects
<1>2. /\ Quiet(c, asked)
      /\ asked.selections = c.selections
      /\ asked.requests = Append(c.requests, request)
      /\ asked.findings = c.findings
  BY <1>1, RequestExpertQuiet
<1>3. finding \in Findings
  BY DEF Findings
<1> HIDE DEF asked, finding, request
<1>4. asked \in Contexts
  BY <1>2 DEF Quiet
<1>5. asked.findings \in Seq(Findings) /\ asked.events \in Seq(AuditEvents)
        /\ asked.requests \in Seq(ExpertRequests)
  BY <1>4, ContextSequences
<1>6. Append(asked.findings, finding) \in Seq(Findings)
  BY <1>3, <1>5
<1>7. /\ answered \in Contexts
      /\ answered.stage = asked.stage
      /\ answered.selections = asked.selections
      /\ answered.requests = asked.requests
      /\ answered.findings = Append(asked.findings, finding)
      /\ answered.events = asked.events
      /\ SameGovernance(asked, answered)
  BY <1>4, <1>6 DEF Contexts, SameGovernance
<1> HIDE DEF answered
<1>8. /\ Continues(asked.findings, answered.findings)
      /\ Continues(asked.requests, answered.requests)
      /\ Continues(asked.events, answered.events)
  BY <1>3, <1>5, <1>7, AppendContinues, ContinuesSelf
<1>9. AddsRoutine(asked, answered)
  BY <1>5, <1>7, <1>8 DEF AddsRoutine
<1>10. Quiet(c, answered)
  BY <1>2, <1>4, <1>7, <1>8, <1>9, QuietTransitive DEF Quiet
<1>11. /\ "expert_execution_failed" \in RoutineTypes
       /\ "retry_authorized" \in RoutineTypes
       /\ "expert_execution_completed" \in RoutineTypes
       /\ RoutineTypes \subseteq EventTypes
  BY DEF RoutineTypes, EventTypes, GovernanceTypes
<1>12. ASSUME NEW b \in Contexts, NEW type \in RoutineTypes, Quiet(c, b),
              b.selections = c.selections,
              b.requests = asked.requests, b.findings = answered.findings
       PROVE  LET e == Record(b, type, role)
              IN  /\ e \in Contexts
                  /\ Quiet(c, e)
                  /\ e.selections = c.selections
                  /\ e.requests = asked.requests
                  /\ e.findings = answered.findings
  <2>1. Notes(b, Record(b, type, role), type)
    BY <1>1, <1>11, <1>12, RecordNotes
  <2>2. Quiet(b, Record(b, type, role))
    BY <1>12, <2>1, NoteQuiet
  <2>3. Quiet(c, Record(b, type, role))
    BY <1>12, <2>2, QuietTransitive
  <2> QED BY <1>12, <2>1, <2>3 DEF Notes
<1>13. /\ failed \in Contexts
       /\ Quiet(c, failed)
       /\ failed.selections = c.selections
       /\ failed.requests = asked.requests
       /\ failed.findings = answered.findings
  BY <1>2, <1>7, <1>10, <1>11, <1>12
<1> HIDE DEF failed
<1>14. /\ Quiet(c, retry)
       /\ retry.selections = c.selections
       /\ retry.requests = asked.requests
       /\ retry.findings = answered.findings
  BY <1>11, <1>12, <1>13
<1>15. /\ Quiet(c, done)
       /\ done.selections = c.selections
       /\ done.requests = asked.requests
       /\ done.findings = answered.findings
  BY <1>2, <1>7, <1>10, <1>11, <1>12
<1> HIDE DEF retry, done
<1>16. ExecuteAttempt(c, role, n, status) \in {failed, retry, done}
  BY DEF ExecuteAttempt, failed, retry, done, answered, finding, asked
<1>17. /\ answered.findings = Append(c.findings, finding)
       /\ asked.requests = Append(c.requests, request)
  BY <1>2, <1>7
<1> QED BY <1>13, <1>14, <1>15, <1>16, <1>17 DEF finding, request

-----------------------------------------------------------------------------
(* The stages on record.  A walk gives the stage after each audit event.   *)

IsWalk(walk, c) ==
  /\ walk \in [0 .. Len(c.events) -> Stages]
  /\ walk[0] = "initialized"
  /\ walk[Len(c.events)] = c.stage
  /\ \A i \in 1 .. Len(c.events) :
       IF c.events[i].type = "workflow_stage_changed"
         THEN walk[i] = c.events[i].about /\ walk[i] \in ValidTransitions[walk[i - 1]]
         ELSE walk[i] = walk[i - 1]

StageWalk(c) == \E walk : IsWalk(walk, c)

\* Events that change no stage prolong the walk where it stands.
LEMMA StandingWalk ==
  ASSUME NEW c \in Contexts, NEW d \in Contexts, StageWalk(c),
         d.stage = c.stage, Continues(c.events, d.events),
         \A i \in 1 .. Len(d.events) :
            i > Len(c.events) => d.events[i].type # "workflow_stage_changed"
  PROVE  StageWalk(d)
<1> DEFINE m == Len(c.events)
           n == Len(d.events)
<1>1. PICK walk : IsWalk(walk, c)
  BY DEF StageWalk
<1>2. m \in Nat /\ n \in Nat /\ m <= n
  BY ContextSequences, LenProperties DEF Continues
<1>3. c.stage \in Stages
  BY ContextSequences
<1>4. /\ walk \in [0 .. m -> Stages]
      /\ walk[0] = "initialized"
      /\ walk[m] = c.stage
      /\ \A i \in 1 .. m :
           IF c.events[i].type = "workflow_stage_changed"
             THEN walk[i] = c.events[i].about /\ walk[i] \in ValidTransitions[walk[i - 1]]
             ELSE walk[i] = walk[i - 1]
  BY <1>1 DEF IsWalk
<1>5. \A i \in 1 .. m : d.events[i] = c.events[i]
  BY DEF Continues
<1> DEFINE longer == [i \in 0 .. n |-> IF i <= m THEN walk[i] ELSE c.stage]
<1> HIDE DEF m, n
<1>6. longer \in [0 .. n -> Stages]
  BY <1>2, <1>3, <1>4
<1>7. longer[0] = "initialized" /\ longer[n] = d.stage
  BY <1>2, <1>4
<1>8. \A i \in 0 .. m : longer[i] = walk[i]
  BY <1>2
<1>9. \A i \in m .. n : longer[i] = c.stage
  BY <1>2, <1>4
<1>10. ASSUME NEW i \in 1 .. n
       PROVE  IF d.events[i].type = "workflow_stage_changed"
                THEN longer[i] = d.events[i].about /\ longer[i] \in ValidTransitions[longer[i - 1]]
                ELSE longer[i] = longer[i - 1]
  <2> HIDE DEF longer
  <2>1. CASE i <= m
    <3>1. i \in 1 .. m /\ i \in 0 .. m /\ i - 1 \in 0 .. m
      BY <1>2, <2>1
    <3>2. longer[i] = walk[i] /\ longer[i - 1] = walk[i - 1] /\ d.events[i] = c.events[i]
      BY <1>5, <1>8, <3>1
    <3> QED BY <1>4, <3>1, <3>2
  <2>2. CASE i > m
    <3>1. i \in m .. n /\ i - 1 \in m .. n
      BY <1>2, <2>2
    <3>2. longer[i] = longer[i - 1]
      BY <1>9, <3>1
    <3>3. d.events[i].type # "workflow_stage_changed"
      BY <2>2 DEF m, n
    <3> QED BY <3>2, <3>3
  <2> QED BY <1>2, <2>1, <2>2
<1> HIDE DEF longer
<1>11. IsWalk(longer, d)
  BY <1>6, <1>7, <1>10 DEF IsWalk, n
<1> QED BY <1>11 DEF StageWalk

\* A legal move prolongs the walk by its target.
LEMMA MovingWalk ==
  ASSUME NEW c \in Contexts, NEW d, NEW target \in Stages, StageWalk(c),
         Moves(c, d, target), target \in ValidTransitions[c.stage]
  PROVE  StageWalk(d)
<1> DEFINE m == Len(c.events)
           x == [type |-> "workflow_stage_changed", about |-> target]
<1>1. PICK walk : IsWalk(walk, c)
  BY DEF StageWalk
<1>2. x \in AuditEvents
  BY DEF AuditEvents, EventTypes, Subjects
<1>3. x.type = "workflow_stage_changed" /\ x.about = target
  OBVIOUS
<1>4. d.events = Append(c.events, x) /\ d.stage = target
  BY DEF Moves
<1> HIDE DEF x
<1>5. /\ m \in Nat
      /\ Len(d.events) = m + 1
      /\ \A i \in 1 .. m : d.events[i] = c.events[i]
      /\ d.events[m + 1] = x
  BY <1>2, <1>4, ContextSequences, AppendElements
<1>6. /\ walk \in [0 .. m -> Stages]
      /\ walk[0] = "initialized"
      /\ walk[m] = c.stage
      /\ \A i \in 1 .. m :
           IF c.events[i].type = "workflow_stage_changed"
             THEN walk[i] = c.events[i].about /\ walk[i] \in ValidTransitions[walk[i - 1]]
             ELSE walk[i] = walk[i - 1]
  BY <1>1 DEF IsWalk
<1> DEFINE longer == [i \in 0 .. m + 1 |-> IF i <= m THEN walk[i] ELSE target]
<1> HIDE DEF m
<1>7. longer \in [0 .. m + 1 -> Stages]
  BY <1>5, <1>6
<1>8. longer[0] = "initialized" /\ longer[m + 1] = target
  BY <1>5, <1>6
<1>9. \A i \in 0 .. m : longer[i] = walk[i]
  BY <1>5
<1> HIDE DEF longer
<1>10. ASSUME NEW i \in 1 .. m + 1
       PROVE  IF d.events[i].type = "workflow_stage_changed"
                THEN longer[i] = d.events[i].about /\ longer[i] \in ValidTransitions[longer[i - 1]]
                ELSE longer[i] = longer[i - 1]
  <2>1. CASE i \in 1 .. m
    <3>1. i \in 0 .. m /\ i - 1 \in 0 .. m
      BY <1>5, <2>1
    <3>2. longer[i] = walk[i] /\ longer[i - 1] = walk[i - 1] /\ d.events[i] = c.events[i]
      BY <1>5, <1>9, <2>1, <3>1
    <3> QED BY <1>6, <2>1, <3>2
  <2>2. CASE i = m + 1
    <3>1. m \in 0 .. m /\ i - 1 = m
      BY <1>5, <2>2
    <3>2. longer[i - 1] = c.stage
      BY <1>6, <1>9, <3>1
    <3> QED BY <1>3, <1>5, <1>8, <2>2, <3>2
  <2> QED BY <1>5, <2>1, <2>2
<1>11. IsWalk(longer, d)
  BY <1>4, <1>5, <1>7, <1>8, <1>10 DEF IsWalk
<1> QED BY <1>11 DEF StageWalk

-----------------------------------------------------------------------------
(* The order of the governance events *)

Has(c, type) == EventsOf(c, type) # {}

PrecedesIn(c, earlier, later) ==
  \A i \in EventsOf(c, later) : \E j \in EventsOf(c, earlier) : j < i

OnceIn(c, type) == \A i, j \in EventsOf(c, type) : i = j

OnceTypes == {"human_decision_received", "draft_recommendation_created",
              "final_approval_recorded", "case_completed"}

Order(c) ==
  /\ PrecedesIn(c, "human_decision_requested", "human_decision_received")
  /\ PrecedesIn(c, "human_decision_received", "draft_recommendation_created")
  /\ PrecedesIn(c, "draft_recommendation_created", "final_approval_recorded")
  /\ PrecedesIn(c, "final_approval_recorded", "final_recommendation_created")
  /\ PrecedesIn(c, "final_recommendation_created", "case_completed")
  /\ \A type \in OnceTypes : OnceIn(c, type)

(* What must be on record already, and what must not, when an event is     *)
(* recorded.                                                               *)
InTurn(c, type) ==
  /\ type = "human_decision_received" => Has(c, "human_decision_requested")
  /\ type = "draft_recommendation_created" => Has(c, "human_decision_received")
  /\ type = "final_approval_recorded" => Has(c, "draft_recommendation_created")
  /\ type = "final_recommendation_created" => Has(c, "final_approval_recorded")
  /\ type = "case_completed" => Has(c, "final_recommendation_created")
  /\ type \in OnceTypes => ~Has(c, type)

\* The events of a type after one more event.
LEMMA EventsOfAppend ==
  ASSUME NEW c \in Contexts, NEW d \in Contexts, NEW x \in AuditEvents, NEW type,
         d.events = Append(c.events, x)
  PROVE  /\ EventsOf(d, type) = EventsOf(c, type)
              \cup (IF x.type = type THEN {Len(c.events) + 1} ELSE {})
         /\ EventsOf(c, type) \subseteq 1 .. Len(c.events)
         /\ Len(c.events) \in Nat
<1>1. /\ Len(c.events) \in Nat
      /\ \A i \in 1 .. Len(c.events) : d.events[i] = c.events[i]
      /\ d.events[Len(c.events) + 1] = x
      /\ DOMAIN c.events = 1 .. Len(c.events)
      /\ DOMAIN d.events = 1 .. Len(c.events) + 1
  BY ContextSequences, AppendElements
<1>2. EventsOf(c, type) \subseteq 1 .. Len(c.events)
  BY <1>1 DEF EventsOf
<1>3. ASSUME NEW i \in EventsOf(d, type)
      PROVE  i \in EventsOf(c, type) \cup (IF x.type = type THEN {Len(c.events) + 1} ELSE {})
  <2>1. i \in 1 .. Len(c.events) + 1 /\ d.events[i].type = type
    BY <1>1, <1>3 DEF EventsOf
  <2>2. CASE i = Len(c.events) + 1
    BY <1>1, <2>1, <2>2
  <2>3. CASE i \in 1 .. Len(c.events)
    BY <1>1, <2>1, <2>3 DEF EventsOf
  <2> QED BY <1>1, <2>1, <2>2, <2>3
<1>4. ASSUME NEW i \in EventsOf(c, type)
      PROVE  i \in EventsOf(d, type)
  <2>1. i \in 1 .. Len(c.events) /\ c.events[i].type = type
    BY <1>1, <1>4 DEF EventsOf
  <2>2. i \in 1 .. Len(c.events) + 1 /\ d.events[i].type = type
    BY <1>1, <2>1
  <2> QED BY <1>1, <2>2 DEF EventsOf
<1>5. x.type = type => Len(c.events) + 1 \in EventsOf(d, type)
  <2>1. Len(c.events) + 1 \in 1 .. Len(c.events) + 1
    BY <1>1
  <2> QED BY <1>1, <2>1 DEF EventsOf
<1> QED BY <1>1, <1>2, <1>3, <1>4, <1>5

\* One more event keeps a precedence when its cause is on record.
LEMMA PrecedesAppend ==
  ASSUME NEW c \in Contexts, NEW d \in Contexts, NEW x \in AuditEvents,
         d.events = Append(c.events, x), NEW earlier, NEW later,
         PrecedesIn(c, earlier, later), x.type = later => Has(c, earlier)
  PROVE  PrecedesIn(d, earlier, later)
<1>1. /\ EventsOf(c, earlier) \subseteq EventsOf(d, earlier)
      /\ EventsOf(c, earlier) \subseteq 1 .. Len(c.events)
      /\ Len(c.events) \in Nat
  BY EventsOfAppend
<1>2. EventsOf(d, later) = EventsOf(c, later)
        \cup (IF x.type = later THEN {Len(c.events) + 1} ELSE {})
  BY EventsOfAppend
<1>3. ASSUME NEW i \in EventsOf(d, later)
      PROVE  \E j \in EventsOf(d, earlier) : j < i
  <2>1. CASE i \in EventsOf(c, later)
    BY <1>1, <2>1 DEF PrecedesIn
  <2>2. CASE x.type = later /\ i = Len(c.events) + 1
    <3>1. PICK j \in EventsOf(c, earlier) : TRUE
      BY <2>2 DEF Has
    <3>2. j \in EventsOf(d, earlier) /\ j < i
      BY <1>1, <2>2, <3>1
    <3> QED BY <3>2
  <2> QED BY <1>2, <1>3, <2>1, <2>2
<1> QED BY <1>3 DEF PrecedesIn

\* An event recorded in its turn keeps the order.
LEMMA OrderAppend ==
  ASSUME NEW c \in Contexts, NEW d \in Contexts, NEW x \in AuditEvents,
         d.events = Append(c.events, x), Order(c), InTurn(c, x.type)
  PROVE  Order(d)
<1>1. PrecedesIn(d, "human_decision_requested", "human_decision_received")
  BY PrecedesAppend DEF Order, InTurn
<1>2. PrecedesIn(d, "human_decision_received", "draft_recommendation_created")
  BY PrecedesAppend DEF Order, InTurn
<1>3. PrecedesIn(d, "draft_recommendation_created", "final_approval_recorded")
  BY PrecedesAppend DEF Order, InTurn
<1>4. PrecedesIn(d, "final_approval_recorded", "final_recommendation_created")
  BY PrecedesAppend DEF Order, InTurn
<1>5. PrecedesIn(d, "final_recommendation_created", "case_completed")
  BY PrecedesAppend DEF Order, InTurn
<1>6. ASSUME NEW type \in OnceTypes
      PROVE  OnceIn(d, type)
  <2>1. EventsOf(d, type) = EventsOf(c, type)
          \cup (IF x.type = type THEN {Len(c.events) + 1} ELSE {})
    BY EventsOfAppend
  <2>2. x.type = type => EventsOf(c, type) = {}
    BY <1>6 DEF InTurn, Has
  <2>3. OnceIn(c, type)
    BY <1>6 DEF Order
  <2> QED BY <2>1, <2>2, <2>3 DEF OnceIn
<1> QED BY <1>1, <1>2, <1>3, <1>4, <1>5, <1>6 DEF Order

\* Routine events add no event of any other type.
LEMMA RoutineEvents ==
  ASSUME NEW c \in Contexts, NEW d \in Contexts, AddsRoutine(c, d), NEW type,
         type \notin RoutineTypes
  PROVE  EventsOf(d, type) = EventsOf(c, type)
<1>1. /\ Len(c.events) \in Nat /\ Len(d.events) \in Nat /\ Len(c.events) <= Len(d.events)
      /\ DOMAIN c.events = 1 .. Len(c.events)
      /\ DOMAIN d.events = 1 .. Len(d.events)
      /\ \A i \in 1 .. Len(c.events) : d.events[i] = c.events[i]
  BY ContextSequences, LenProperties DEF AddsRoutine, Continues
<1>2. ASSUME NEW i \in EventsOf(d, type)
      PROVE  i \in EventsOf(c, type)
  <2>1. i \in 1 .. Len(d.events) /\ d.events[i].type = type
    BY <1>1, <1>2 DEF EventsOf
  <2>2. ~(i > Len(c.events))
    BY <2>1 DEF AddsRoutine
  <2>3. i \in 1 .. Len(c.events)
    BY <1>1, <2>1, <2>2
  <2> QED BY <1>1, <2>1, <2>3 DEF EventsOf
<1>3. ASSUME NEW i \in EventsOf(c, type)
      PROVE  i \in EventsOf(d, type)
  <2>1. i \in 1 .. Len(c.events) /\ c.events[i].type = type
    BY <1>1, <1>3 DEF EventsOf
  <2>2. i \in 1 .. Len(d.events) /\ d.events[i].type = type
    BY <1>1, <2>1
  <2> QED BY <1>1, <2>2 DEF EventsOf
<1> QED BY <1>2, <1>3

\* Routine events keep the order.
LEMMA RoutineOrder ==
  ASSUME NEW c \in Contexts, NEW d \in Contexts, AddsRoutine(c, d), Order(c)
  PROVE  Order(d)
<1>1. \A type \in GovernanceTypes : EventsOf(d, type) = EventsOf(c, type)
  BY RoutineEvents DEF RoutineTypes
<1>2. OnceTypes \subseteq GovernanceTypes
  BY DEF OnceTypes, GovernanceTypes
<1>3. /\ EventsOf(d, "human_decision_requested") = EventsOf(c, "human_decision_requested")
      /\ EventsOf(d, "human_decision_received") = EventsOf(c, "human_decision_received")
      /\ EventsOf(d, "draft_recommendation_created") = EventsOf(c, "draft_recommendation_created")
      /\ EventsOf(d, "final_approval_recorded") = EventsOf(c, "final_approval_recorded")
      /\ EventsOf(d, "final_recommendation_created") = EventsOf(c, "final_recommendation_created")
      /\ EventsOf(d, "case_completed") = EventsOf(c, "case_completed")
  BY <1>1 DEF GovernanceTypes
<1>4. \A type \in OnceTypes : OnceIn(d, type)
  BY <1>1, <1>2 DEF Order, OnceIn
<1> QED BY <1>3, <1>4 DEF Order, PrecedesIn

-----------------------------------------------------------------------------
(* Links, and chains of them.  types are the governance events added.      *)

Link(c, d, types) ==
  /\ d \in Contexts
  /\ Grows(c, d)
  /\ StageWalk(c) => StageWalk(d)
  /\ Order(c) => Order(d)
  /\ \A type \in GovernanceTypes : Has(d, type) <=> Has(c, type) \/ type \in types

(* The audit trail and the stage stay; decisions may have been added.      *)
Amends(c, d) ==
  /\ d \in Contexts
  /\ d.stage = c.stage
  /\ d.events = c.events
  /\ d.requests = c.requests
  /\ d.findings = c.findings
  /\ Continues(c.decisions, d.decisions)

\* Chains of links are links.
LEMMA LinkTransitive ==
  ASSUME NEW b \in Contexts, NEW c, NEW d, NEW S, NEW T, Link(b, c, S), Link(c, d, T)
  PROVE  Link(b, d, S \cup T)
<1>1. c \in Contexts /\ d \in Contexts
  BY DEF Link
<1>2. Grows(b, d)
  <2>1. /\ Continues(b.events, c.events) /\ Continues(c.events, d.events)
        /\ Continues(b.requests, c.requests) /\ Continues(c.requests, d.requests)
        /\ Continues(b.findings, c.findings) /\ Continues(c.findings, d.findings)
        /\ Continues(b.decisions, c.decisions) /\ Continues(c.decisions, d.decisions)
    BY DEF Link, Grows
  <2>2. Continues(b.events, d.events) /\ Continues(b.requests, d.requests)
    BY <1>1, <2>1, ContextSequences, ContinuesOrder
  <2>3. Continues(b.findings, d.findings) /\ Continues(b.decisions, d.decisions)
    BY <1>1, <2>1, ContextSequences, ContinuesOrder
  <2> QED BY <2>2, <2>3 DEF Grows
<1> QED BY <1>1, <1>2 DEF Link

\* A quiet change is a link that adds no governance event.
LEMMA QuietLink ==
  ASSUME NEW c \in Contexts, NEW d, Quiet(c, d)
  PROVE  Link(c, d, {})
<1>1. d \in Contexts /\ AddsRoutine(c, d) /\ d.stage = c.stage /\ d.decisions = c.decisions
  BY DEF Quiet, SameGovernance
<1>2. Grows(c, d)
  BY <1>1, ContextSequences, ContinuesSelf DEF Quiet, AddsRoutine, Grows
<1>3. StageWalk(c) => StageWalk(d)
  <2>1. \A i \in 1 .. Len(d.events) :
          i > Len(c.events) => d.events[i].type # "workflow_stage_changed"
    BY <1>1 DEF AddsRoutine, RoutineTypes
  <2> QED BY <1>1, <2>1, StandingWalk DEF AddsRoutine
<1>4. Order(c) => Order(d)
  BY <1>1, RoutineOrder
<1>5. \A type \in GovernanceTypes : Has(d, type) <=> Has(c, type)
  BY <1>1, RoutineEvents DEF Has, RoutineTypes
<1> QED BY <1>1, <1>2, <1>3, <1>4, <1>5 DEF Link

\* An amendment is a link that adds no event at all.
LEMMA AmendsLink ==
  ASSUME NEW c \in Contexts, NEW d, Amends(c, d)
  PROVE  Link(c, d, {})
<1>1. d \in Contexts /\ d.events = c.events /\ d.stage = c.stage
  BY DEF Amends
<1>2. Grows(c, d)
  BY ContextSequences, ContinuesSelf DEF Amends, Grows
<1>3. StageWalk(c) => StageWalk(d)
  BY <1>1 DEF StageWalk, IsWalk
<1>4. \A type : EventsOf(d, type) = EventsOf(c, type)
  BY <1>1 DEF EventsOf
<1>5. Order(c) => Order(d)
  BY <1>4 DEF Order, PrecedesIn, OnceIn
<1>6. \A type \in GovernanceTypes : Has(d, type) <=> Has(c, type)
  BY <1>4 DEF Has
<1> QED BY <1>1, <1>2, <1>3, <1>5, <1>6 DEF Link

\* What one appended event does to growth and to the events on record.
LEMMA AppendedEvent ==
  ASSUME NEW c \in Contexts, NEW d \in Contexts, NEW x \in AuditEvents,
         d.events = Append(c.events, x),
         d.requests = c.requests, d.findings = c.findings, SameGovernance(c, d)
  PROVE  /\ Grows(c, d)
         /\ \A type : Has(d, type) <=> Has(c, type) \/ type = x.type
<1>1. /\ c.events \in Seq(AuditEvents)
      /\ c.requests \in Seq(ExpertRequests)
      /\ c.findings \in Seq(Findings)
      /\ c.decisions \in Seq(Decisions)
  BY ContextSequences
<1>2. d.decisions = c.decisions
  BY DEF SameGovernance
<1>3. Grows(c, d)
  BY <1>1, <1>2, AppendContinues, ContinuesSelf DEF Grows
<1>4. ASSUME NEW type
      PROVE  Has(d, type) <=> Has(c, type) \/ type = x.type
  <2>1. EventsOf(d, type) = EventsOf(c, type)
          \cup (IF x.type = type THEN {Len(c.events) + 1} ELSE {})
    BY EventsOfAppend
  <2> QED BY <2>1 DEF Has
<1> QED BY <1>3, <1>4

\* A legal move is a link that adds no governance event.
LEMMA MovesLink ==
  ASSUME NEW c \in Contexts, NEW d, NEW target \in Stages, Moves(c, d, target),
         target \in ValidTransitions[c.stage]
  PROVE  Link(c, d, {})
<1> DEFINE x == [type |-> "workflow_stage_changed", about |-> target]
<1>1. x \in AuditEvents
  BY DEF AuditEvents, EventTypes, Subjects
<1>2. x.type = "workflow_stage_changed"
  OBVIOUS
<1>3. /\ d \in Contexts
      /\ d.events = Append(c.events, x)
      /\ d.requests = c.requests
      /\ d.findings = c.findings
      /\ SameGovernance(c, d)
  BY DEF Moves
<1> HIDE DEF x
<1>4. /\ Grows(c, d)
      /\ \A type : Has(d, type) <=> Has(c, type) \/ type = x.type
  BY <1>1, <1>3, AppendedEvent
<1>5. "workflow_stage_changed" \notin GovernanceTypes
        /\ "workflow_stage_changed" \notin OnceTypes
  BY DEF GovernanceTypes, OnceTypes
<1>6. StageWalk(c) => StageWalk(d)
  BY MovingWalk
<1>7. InTurn(c, x.type)
  BY <1>2, <1>5 DEF InTurn
<1>8. Order(c) => Order(d)
  BY <1>1, <1>3, <1>7, OrderAppend
<1> QED BY <1>2, <1>3, <1>4, <1>5, <1>6, <1>8 DEF Link

\* A governance event recorded in its turn is a link that adds it.
LEMMA NotesLink ==
  ASSUME NEW c \in Contexts, NEW d, NEW type \in GovernanceTypes, Notes(c, d, type),
         InTurn(c, type)
  PROVE  Link(c, d, {type})
<1>1. PICK about \in Subjects : d.events = Append(c.events, [type |-> type, about |-> about])
  BY DEF Notes
<1> DEFINE x == [type |-> type, about |-> about]
<1>2. x \in AuditEvents
  BY DEF AuditEvents, GovernanceTypes, EventTypes
<1>3. x.type = type
  OBVIOUS
<1>4. /\ d \in Contexts
      /\ d.events = Append(c.events, x)
      /\ d.stage = c.stage
      /\ d.requests = c.requests
      /\ d.findings = c.findings
      /\ SameGovernance(c, d)
  BY <1>1 DEF Notes
<1> HIDE DEF x
<1>5. /\ Grows(c, d)
      /\ \A t : Has(d, t) <=> Has(c, t) \/ t = type
  BY <1>2, <1>3, <1>4, AppendedEvent
<1>6. Order(c) => Order(d)
  BY <1>2, <1>3, <1>4, OrderAppend
<1>7. StageWalk(c) => StageWalk(d)
  <2>1. /\ Len(c.events) \in Nat
        /\ Len(d.events) = Len(c.events) + 1
        /\ d.events[Len(c.events) + 1] = x
    BY <1>2, <1>4, ContextSequences, AppendElements
  <2>2. type # "workflow_stage_changed"
    BY DEF GovernanceTypes
  <2>3. ASSUME NEW i \in 1 .. Len(d.events), i > Len(c.events)
        PROVE  d.events[i].type # "workflow_stage_changed"
    <3>1. i = Len(c.events) + 1
      BY <2>1, <2>3
    <3> QED BY <1>3, <2>1, <2>2, <3>1
  <2> QED BY <1>4, <1>5, <2>3, StandingWalk DEF Grows
<1> QED BY <1>4, <1>5, <1>6, <1>7 DEF Link

-----------------------------------------------------------------------------
(* The operations are links *)

\* A case that has not ended is marked failed by a legal move.
LEMMA MarkFailedMoves ==
  ASSUME NEW c \in Contexts, c.stage \in {"validating", "expert_analysis", "contradiction_review"}
  PROVE  /\ Moves(c, MarkFailed(c), "failed")
         /\ Link(c, MarkFailed(c), {})
<1>1. "failed" \in ValidTransitions[c.stage] /\ "failed" \in Stages
  BY DEF ValidTransitions, Stages
<1>2. MarkFailed(c) = Transition(c, "failed")
  BY <1>1 DEF MarkFailed, CanMove
<1>3. Moves(c, Transition(c, "failed"), "failed")
  BY <1>1, TransitionMoves
<1> QED BY <1>1, <1>2, <1>3, MovesLink

\* The routine event types the operations record.
LEMMA RoutineNames ==
  /\ \A type \in {"fixture_validation_started", "fixture_validation_failed",
                  "fixture_validation_completed", "expert_execution_completed",
                  "recovery_option_created", "expert_selected", "contradiction_detected"} :
        type \in RoutineTypes
  /\ RoutineTypes \subseteq EventTypes
  /\ GovernanceTypes \subseteq EventTypes
BY DEF RoutineTypes, EventTypes, GovernanceTypes

\* Validation moves the case on or fails it, and adds only routine events.
LEMMA ValidateFixtureLink ==
  ASSUME NEW c \in Contexts, NEW f \in Facts, c.stage = "initialized"
  PROVE  LET d == ValidateFixture(c, f)
         IN  /\ Link(c, d, {})
             /\ d.findings = c.findings
             /\ d.requests = c.requests
<1> DEFINE entered == Transition(c, "validating")
           started == Record(entered, "fixture_validation_started", "workflow")
           passed  == Record(started, "fixture_validation_completed", "workflow")
           refused == Record(started, "fixture_validation_failed", "workflow")
<1>1. "validating" \in Stages /\ "validating" \in ValidTransitions[c.stage]
        /\ "workflow" \in Subjects
  BY DEF Stages, ValidTransitions, Subjects
<1>2. Moves(c, entered, "validating")
  BY <1>1, TransitionMoves
<1> HIDE DEF entered
<1>3. /\ entered \in Contexts
      /\ entered.stage = "validating"
      /\ entered.findings = c.findings
      /\ entered.requests = c.requests
      /\ Link(c, entered, {})
  BY <1>1, <1>2, MovesLink DEF Moves
<1>4. ASSUME NEW b \in Contexts, NEW type \in RoutineTypes, b.stage = "validating",
             b.findings = c.findings, b.requests = c.requests, Link(c, b, {})
      PROVE  LET e == Record(b, type, "workflow")
             IN  /\ e \in Contexts
                 /\ e.stage = "validating"
                 /\ e.findings = c.findings
                 /\ e.requests = c.requests
                 /\ Link(c, e, {})
  <2>1. Notes(b, Record(b, type, "workflow"), type)
    BY <1>1, RoutineNames, RecordNotes
  <2>2. Link(b, Record(b, type, "workflow"), {})
    BY <2>1, NoteQuiet, QuietLink
  <2>3. Link(c, Record(b, type, "workflow"), {} \cup {})
    BY <1>4, <2>2, LinkTransitive
  <2> QED BY <1>4, <2>1, <2>3 DEF Notes
<1>5. /\ started \in Contexts
      /\ started.stage = "validating"
      /\ started.findings = c.findings
      /\ started.requests = c.requests
      /\ Link(c, started, {})
  BY <1>3, <1>4, RoutineNames
<1> HIDE DEF started
<1>6. /\ passed.findings = c.findings
      /\ passed.requests = c.requests
      /\ Link(c, passed, {})
  BY <1>4, <1>5, RoutineNames
<1>7. /\ refused \in Contexts
      /\ refused.stage = "validating"
      /\ refused.findings = c.findings
      /\ refused.requests = c.requests
      /\ Link(c, refused, {})
  BY <1>4, <1>5, RoutineNames
<1> HIDE DEF passed, refused
<1>8. /\ MarkFailed(refused).findings = c.findings
      /\ MarkFailed(refused).requests = c.requests
      /\ Link(refused, MarkFailed(refused), {})
  BY <1>7, MarkFailedMoves DEF Moves
<1>9. Link(c, MarkFailed(refused), {} \cup {})
  BY <1>7, <1>8, LinkTransitive
<1>10. ValidateFixture(c, f) = IF f.issues THEN MarkFailed(refused) ELSE passed
  BY DEF ValidateFixture, passed, refused, started, entered
<1> QED BY <1>6, <1>8, <1>9, <1>10

\* The events of a triage are routine.
LEMMA SelectionEventsRoutine ==
  ASSUME NEW selected
  PROVE  /\ SelectionEvents(selected) \in Seq(AuditEvents)
         /\ \A i \in 1 .. Len(SelectionEvents(selected)) :
               /\ SelectionEvents(selected)[i].type \in RoutineTypes
               /\ SelectionEvents(selected)[i].type = "expert_selected"
<1> DEFINE Selections == [type : {"expert_selected"}, about : Roles]
           Event(role) == IfSelected(selected, role, [type |-> "expert_selected", about |-> role])
<1>1. ASSUME NEW role \in Roles
      PROVE  Event(role) \in Seq(Selections)
  <2>1. [type |-> "expert_selected", about |-> role] \in Selections
    OBVIOUS
  <2> HIDE DEF Selections
  <2>2. <<[type |-> "expert_selected", about |-> role]>> \in Seq(Selections)
    BY <2>1
  <2> QED BY <2>2 DEF IfSelected
<1>2. /\ Event("ScheduleExpert") \in Seq(Selections)
      /\ Event("CommercialExpert") \in Seq(Selections)
      /\ Event("EvidenceAuditor") \in Seq(Selections)
      /\ Event("RiskExpert") \in Seq(Selections)
      /\ Event("RecoveryPlanner") \in Seq(Selections)
  BY <1>1 DEF Roles, FindingRoles
<1>3. \A x \in Selections : x.type \in RoutineTypes /\ x.type = "expert_selected"
  BY RoutineNames
<1> HIDE DEF Selections, Event
<1>4. Event("ScheduleExpert") \o Event("CommercialExpert") \o Event("EvidenceAuditor")
        \o Event("RiskExpert") \o Event("RecoveryPlanner") \in Seq(Selections)
  BY <1>2
<1>5. SelectionEvents(selected) \in Seq(Selections)
  BY <1>4 DEF SelectionEvents, Event
<1>6. \A i \in 1 .. Len(SelectionEvents(selected)) :
         SelectionEvents(selected)[i] \in Selections
  BY <1>5, ElementOfSeq
<1> QED BY <1>3, <1>6, SelectionEventsType

\* Adding a sequence of routine events is adding routine events.
LEMMA ConcatRoutine ==
  ASSUME NEW c \in Contexts, NEW d, NEW t \in Seq(AuditEvents),
         d.events = c.events \o t,
         \A i \in 1 .. Len(t) : t[i].type \in RoutineTypes
  PROVE  AddsRoutine(c, d)
<1>1. c.events \in Seq(AuditEvents)
  BY ContextSequences
<1>2. Continues(c.events, d.events)
  BY <1>1, ConcatContinues
<1>3. /\ Len(c.events) \in Nat
      /\ Len(t) \in Nat
      /\ Len(d.events) = Len(c.events) + Len(t)
      /\ \A i \in 1 .. Len(c.events) + Len(t) :
            d.events[i] = IF i <= Len(c.events) THEN c.events[i] ELSE t[i - Len(c.events)]
  BY <1>1, ConcatProperties
<1>4. ASSUME NEW i \in 1 .. Len(d.events), i > Len(c.events)
      PROVE  d.events[i].type \in RoutineTypes
  <2>1. i - Len(c.events) \in 1 .. Len(t) /\ d.events[i] = t[i - Len(c.events)]
    BY <1>3, <1>4
  <2> QED BY <2>1
<1> QED BY <1>2, <1>4 DEF AddsRoutine

\* Triage moves the case on and adds only routine events.
LEMMA TriageLink ==
  ASSUME NEW c \in Contexts, NEW f \in Facts, c.stage = "validating"
  PROVE  LET d == Triage(c, f)
         IN  /\ Link(c, d, {})
             /\ d.findings = c.findings
             /\ d.requests = c.requests
<1> DEFINE moved == Transition(c, "triaging")
           d     == Triage(c, f)
<1>1. "triaging" \in Stages /\ "triaging" \in ValidTransitions[c.stage]
  BY DEF Stages, ValidTransitions
<1>2. Moves(c, moved, "triaging")
  BY <1>1, TransitionMoves
<1>3. /\ moved \in Contexts
      /\ moved.findings = c.findings
      /\ moved.requests = c.requests
      /\ Link(c, moved, {})
  BY <1>1, <1>2, MovesLink DEF Moves
<1>4. d \in Contexts
  BY TriageType
<1>5. d = [moved EXCEPT !.selections = SelectExperts(f),
                        !.events = @ \o SelectionEvents(SelectExperts(f))]
  BY DEF Triage
<1> HIDE DEF moved, d
<1>6. /\ d.stage = moved.stage
      /\ d.requests = moved.requests
      /\ d.findings = moved.findings
      /\ d.events = moved.events \o SelectionEvents(SelectExperts(f))
      /\ SameGovernance(moved, d)
  BY <1>3, <1>5 DEF Contexts, SameGovernance
<1>7. AddsRoutine(moved, d)
  BY <1>3, <1>6, SelectionEventsRoutine, ConcatRoutine
<1>8. Continues(moved.requests, d.requests) /\ Continues(moved.findings, d.findings)
  BY <1>3, <1>6, ContextSequences, ContinuesSelf
<1>9. Link(moved, d, {})
  BY <1>3, <1>4, <1>6, <1>7, <1>8, QuietLink DEF Quiet
<1>10. Link(c, d, {} \cup {})
  BY <1>3, <1>9, LinkTransitive
<1> QED BY <1>3, <1>6, <1>10 DEF d

\* Recording contradictions is quiet and leaves the experts' work alone.
LEMMA RecordContradictionsQuiet ==
  ASSUME NEW c \in Contexts, NEW found \in Seq(ContradictionStatus)
  PROVE  LET d == RecordContradictions(c, found)
         IN  Quiet(c, d) /\ WorkKept(c, d)
<1> DEFINE noted == [c EXCEPT !.contradictions = @ \o found]
           done  == Record(noted, "expert_execution_completed", "EvidenceAuditor")
           detected == [i \in 1 .. Len(found) |->
                          [type |-> "contradiction_detected", about |-> "EvidenceAuditor"]]
           d == RecordContradictions(c, found)
<1>1. c.contradictions \o found \in Seq(ContradictionStatus)
  BY ContextSequences, ConcatProperties
<1>2. /\ noted \in Contexts
      /\ noted.stage = c.stage
      /\ noted.selections = c.selections
      /\ noted.requests = c.requests
      /\ noted.findings = c.findings
      /\ noted.events = c.events
      /\ SameGovernance(c, noted)
  BY <1>1 DEF Contexts, SameGovernance
<1> HIDE DEF noted
<1>3. "EvidenceAuditor" \in Subjects
  BY EventNames
<1>4. Notes(noted, done, "expert_execution_completed")
  BY <1>2, <1>3, RoutineNames, RecordNotes
<1>5. Quiet(noted, done) /\ WorkKept(noted, done) /\ done \in Contexts
  BY <1>2, <1>4, RoutineNames, NoteQuiet DEF Notes
<1>6. /\ detected \in Seq(AuditEvents)
      /\ \A i \in 1 .. Len(detected) : detected[i].type \in RoutineTypes
  <2>1. [type |-> "contradiction_detected", about |-> "EvidenceAuditor"] \in AuditEvents
    BY <1>3, RoutineNames DEF AuditEvents
  <2>2. Len(found) \in Nat
    OBVIOUS
  <2>3. detected \in Seq(AuditEvents) /\ Len(detected) = Len(found)
    BY <2>1, <2>2
  <2> QED BY <2>3, RoutineNames
<1>7. d = [done EXCEPT !.events = @ \o detected]
  BY DEF RecordContradictions, done, noted
<1>8. d \in Contexts
  BY RecordContradictionsType
<1> HIDE DEF done, detected, d
<1>9. /\ d.stage = done.stage
      /\ d.selections = done.selections
      /\ d.requests = done.requests
      /\ d.findings = done.findings
      /\ d.events = done.events \o detected
      /\ SameGovernance(done, d)
  BY <1>5, <1>7 DEF Contexts, SameGovernance
<1>10. AddsRoutine(done, d)
  BY <1>5, <1>6, <1>9, ConcatRoutine
<1>11. /\ Continues(done.requests, d.requests)
       /\ Continues(done.findings, d.findings)
  BY <1>5, <1>9, ContextSequences, ContinuesSelf
<1>12. Quiet(done, d)
  BY <1>8, <1>9, <1>10, <1>11 DEF Quiet
<1>13. Quiet(noted, d)
  BY <1>2, <1>5, <1>12, QuietTransitive
<1>14. Quiet(c, d)
  BY <1>2, <1>13 DEF Quiet, SameGovernance, AddsRoutine
<1>15. WorkKept(c, d)
  BY <1>2, <1>5, <1>9 DEF WorkKept
<1> QED BY <1>14, <1>15 DEF d

\* A move leaves the experts' work alone.
LEMMA MovesKeepWork ==
  ASSUME NEW c \in Contexts, NEW d, NEW target, Moves(c, d, target)
  PROVE  WorkKept(c, d)
<1>1. Continues(c.requests, c.requests) /\ Len(c.requests) \in Nat
  BY ContextSequences, ContinuesSelf
<1> QED BY <1>1 DEF Moves, WorkKept

\* Requesting the audit moves the case to its review.
LEMMA RequestAuditLink ==
  ASSUME NEW c \in Contexts, c.stage = "expert_analysis"
  PROVE  LET d == RequestAudit(c)
         IN  Link(c, d, {}) /\ WorkKept(c, d) /\ d.stage = "contradiction_review"
<1> DEFINE entered == Transition(c, "contradiction_review")
           d       == RequestExpert(entered, "EvidenceAuditor", 1)
<1>1. /\ "contradiction_review" \in Stages
      /\ "contradiction_review" \in ValidTransitions[c.stage]
      /\ "EvidenceAuditor" \in Roles
  BY DEF Stages, ValidTransitions, Roles
<1>2. Moves(c, entered, "contradiction_review")
  BY <1>1, TransitionMoves
<1> HIDE DEF entered
<1>3. entered \in Contexts /\ Link(c, entered, {}) /\ WorkKept(c, entered)
  BY <1>1, <1>2, MovesLink, MovesKeepWork DEF Moves
<1>4. Quiet(entered, d) /\ WorkKept(entered, d)
  BY <1>1, <1>3, FirstRequestKeepsWork
<1> HIDE DEF d
<1>5. d \in Contexts /\ Link(entered, d, {}) /\ d.stage = entered.stage
  BY <1>3, <1>4, QuietLink DEF Quiet
<1>6. Link(c, d, {} \cup {})
  BY <1>3, <1>5, LinkTransitive
<1>7. WorkKept(c, d)
  BY <1>3, <1>4, <1>5, WorkKeptTransitive
<1> QED BY <1>2, <1>5, <1>6, <1>7 DEF RequestAudit, d, entered, Moves

\* Opening the gate adds the human request, on record, and nothing else that
\* governs the case.
LEMMA OpenHumanGateLink ==
  ASSUME NEW c \in Contexts, c.stage = "contradiction_review"
  PROVE  LET d == OpenHumanGate(c)
         IN  Link(c, d, {"human_decision_requested"}) /\ WorkKept(c, d)
<1> DEFINE request   == [id |-> OnsiteRequest, status |-> "pending"]
           requested == [c EXCEPT !.humanRequests = Append(@, request)]
           told      == Record(requested, "human_decision_requested", "EvidenceAuditor")
           d         == Transition(told, "awaiting_human_decision")
<1>1. request \in HumanRequests
  BY DEF HumanRequests
<1> HIDE DEF request
<1>2. Append(c.humanRequests, request) \in Seq(HumanRequests)
  BY <1>1, ContextSequences
<1>3. /\ requested \in Contexts
      /\ requested.stage = c.stage
      /\ requested.selections = c.selections
      /\ requested.requests = c.requests
      /\ requested.findings = c.findings
      /\ requested.events = c.events
      /\ requested.decisions = c.decisions
  BY <1>2 DEF Contexts
<1> HIDE DEF requested
<1>4. Continues(c.decisions, c.decisions)
  BY ContextSequences, ContinuesSelf
<1>5. Link(c, requested, {})
  BY <1>3, <1>4, AmendsLink DEF Amends
<1>6. "human_decision_requested" \in GovernanceTypes /\ "EvidenceAuditor" \in Subjects
        /\ "human_decision_requested" \notin OnceTypes
  BY EventNames DEF GovernanceTypes, OnceTypes
<1>7. Notes(requested, told, "human_decision_requested")
  BY <1>3, <1>6, RoutineNames, RecordNotes
<1>8. InTurn(requested, "human_decision_requested")
  BY <1>6 DEF InTurn
<1>9. told \in Contexts /\ Link(requested, told, {"human_decision_requested"})
  BY <1>3, <1>6, <1>7, <1>8, NotesLink DEF Notes
<1> HIDE DEF told
<1>10. /\ "awaiting_human_decision" \in Stages
       /\ "awaiting_human_decision" \in ValidTransitions[told.stage]
  BY <1>3, <1>7 DEF Stages, ValidTransitions, Notes
<1>11. Moves(told, d, "awaiting_human_decision")
  BY <1>9, <1>10, TransitionMoves
<1>12. Link(told, d, {})
  BY <1>9, <1>10, <1>11, MovesLink
<1> HIDE DEF d
<1>13. Link(c, told, {} \cup {"human_decision_requested"})
  BY <1>3, <1>5, <1>9, LinkTransitive
<1>14. Link(c, d, ({} \cup {"human_decision_requested"}) \cup {})
  BY <1>9, <1>12, <1>13, LinkTransitive
<1>15. Link(c, d, {"human_decision_requested"})
  BY <1>14 DEF Link
<1>16. /\ d.selections = c.selections
       /\ d.requests = c.requests
       /\ d.findings = c.findings
  BY <1>3, <1>7, <1>11 DEF Notes, Moves
<1>17. Continues(c.requests, c.requests) /\ Len(c.requests) \in Nat
  BY ContextSequences, ContinuesSelf
<1>18. WorkKept(c, d)
  BY <1>16, <1>17 DEF WorkKept
<1> QED BY <1>15, <1>18 DEF OpenHumanGate, d, told, requested, request

\* The audited review ends at the gate, having asked for a human, or in
\* planning, having asked for none.
LEMMA ReviewContradictionsLink ==
  ASSUME NEW c \in Contexts, NEW found \in Seq(ContradictionStatus), c.stage = "expert_analysis"
  PROVE  LET d == ReviewContradictions(c, found)
         IN  /\ WorkKept(c, d)
             /\ HumanGateRequired(found) =>
                  /\ Link(c, d, {"human_decision_requested"})
                  /\ d.stage = "awaiting_human_decision"
             /\ ~HumanGateRequired(found) =>
                  /\ Link(c, d, {})
                  /\ d.stage = "recovery_planning"
                  /\ SameGovernance(c, d)
<1> DEFINE requested == RequestAudit(c)
           audited   == RecordContradictions(requested, found)
           gated     == OpenHumanGate(audited)
           passed    == Transition(audited, "recovery_planning")
<1>1. /\ requested \in Contexts
      /\ Link(c, requested, {})
      /\ WorkKept(c, requested)
      /\ requested.stage = "contradiction_review"
      /\ SameGovernance(c, requested)
  BY RequestAuditLink, RequestAuditFrame DEF Link
<1> HIDE DEF requested
<1>2. Quiet(requested, audited) /\ WorkKept(requested, audited)
  BY <1>1, RecordContradictionsQuiet
<1> HIDE DEF audited
<1>3. /\ audited \in Contexts
      /\ Link(requested, audited, {})
      /\ audited.stage = "contradiction_review"
      /\ SameGovernance(c, audited)
  BY <1>1, <1>2, QuietLink DEF Quiet, SameGovernance
<1>4. Link(c, audited, {} \cup {}) /\ WorkKept(c, audited)
  BY <1>1, <1>2, <1>3, LinkTransitive, WorkKeptTransitive
<1>5. Link(audited, gated, {"human_decision_requested"}) /\ WorkKept(audited, gated)
  BY <1>3, OpenHumanGateLink
<1>6. gated.stage = "awaiting_human_decision" /\ gated \in Contexts
  <2>1. gated \in Contexts
    BY <1>3, OpenHumanGateType
  <2> DEFINE opened == [audited EXCEPT !.humanRequests =
                          Append(@, [id |-> OnsiteRequest, status |-> "pending"])]
             told   == Record(opened, "human_decision_requested", "EvidenceAuditor")
  <2>2. gated = Transition(told, "awaiting_human_decision")
    BY DEF OpenHumanGate
  <2>3. told \in Contexts
    <3>1. [id |-> OnsiteRequest, status |-> "pending"] \in HumanRequests
      BY DEF HumanRequests
    <3>2. Append(audited.humanRequests, [id |-> OnsiteRequest, status |-> "pending"])
            \in Seq(HumanRequests)
      BY <1>3, <3>1, ContextSequences
    <3>3. opened \in Contexts
      BY <1>3, <3>2 DEF Contexts
    <3> HIDE DEF opened
    <3> QED BY <3>3, RecordType, EventNames
  <2> HIDE DEF told
  <2> QED BY <2>1, <2>2, <2>3, TransitionType DEF Stages
<1> HIDE DEF gated
<1>7. Link(c, gated, {} \cup {"human_decision_requested"}) /\ WorkKept(c, gated)
  BY <1>3, <1>4, <1>5, <1>6, LinkTransitive, WorkKeptTransitive
<1>8. Moves(audited, passed, "recovery_planning")
  BY <1>3, TransitionMoves DEF Stages
<1> HIDE DEF passed
<1>9. "recovery_planning" \in ValidTransitions[audited.stage] /\ "recovery_planning" \in Stages
  BY <1>3 DEF ValidTransitions, Stages
<1>10. /\ Link(audited, passed, {})
       /\ WorkKept(audited, passed)
       /\ passed \in Contexts
       /\ passed.stage = "recovery_planning"
       /\ SameGovernance(audited, passed)
  BY <1>3, <1>8, <1>9, MovesLink, MovesKeepWork DEF Moves
<1>11. Link(c, passed, {} \cup {}) /\ WorkKept(c, passed) /\ SameGovernance(c, passed)
  BY <1>3, <1>4, <1>10, LinkTransitive, WorkKeptTransitive DEF SameGovernance
<1>12. ReviewContradictions(c, found) = IF HumanGateRequired(found) THEN gated ELSE passed
  BY DEF ReviewContradictions, gated, passed, audited, requested
<1>13. Link(c, gated, {"human_decision_requested"}) /\ Link(c, passed, {})
  BY <1>7, <1>11 DEF Link
<1> QED BY <1>6, <1>7, <1>10, <1>11, <1>12, <1>13

\* A review without an auditor passes legally to planning.
LEMMA SkipReviewLink ==
  ASSUME NEW c \in Contexts, c.stage = "expert_analysis"
  PROVE  Link(c, SkipReview(c), {}) /\ WorkKept(c, SkipReview(c))
<1> DEFINE entered == Transition(c, "contradiction_review")
           d       == Transition(entered, "recovery_planning")
<1>1. /\ "contradiction_review" \in Stages /\ "recovery_planning" \in Stages
      /\ "contradiction_review" \in ValidTransitions[c.stage]
      /\ "recovery_planning" \in ValidTransitions["contradiction_review"]
  BY DEF Stages, ValidTransitions
<1>2. Moves(c, entered, "contradiction_review")
  BY <1>1, TransitionMoves
<1> HIDE DEF entered
<1>3. /\ entered \in Contexts
      /\ entered.stage = "contradiction_review"
      /\ Link(c, entered, {})
      /\ WorkKept(c, entered)
  BY <1>1, <1>2, MovesLink, MovesKeepWork DEF Moves
<1>4. Moves(entered, d, "recovery_planning")
  BY <1>1, <1>3, TransitionMoves
<1> HIDE DEF d
<1>5. Link(entered, d, {}) /\ WorkKept(entered, d) /\ d \in Contexts
  BY <1>1, <1>3, <1>4, MovesLink, MovesKeepWork DEF Moves
<1>6. Link(c, d, {} \cup {}) /\ WorkKept(c, d)
  BY <1>3, <1>5, LinkTransitive, WorkKeptTransitive
<1> QED BY <1>6 DEF SkipReview, d, entered

-----------------------------------------------------------------------------
(* Decisions, planning and approval are links *)

\* A note leaves the experts' work alone.
LEMMA NotesKeepWork ==
  ASSUME NEW c \in Contexts, NEW d, NEW type, Notes(c, d, type)
  PROVE  WorkKept(c, d)
<1>1. Continues(c.requests, c.requests) /\ Len(c.requests) \in Nat
  BY ContextSequences, ContinuesSelf
<1> QED BY <1>1 DEF Notes, WorkKept

\* Recording a human decision adds the decision and its event.
LEMMA RecordHumanDecisionLink ==
  ASSUME NEW c \in Contexts, NEW x \in Decisions, InTurn(c, "human_decision_received")
  PROVE  LET d == RecordHumanDecision(c, x)
         IN  Link(c, d, {"human_decision_received"}) /\ WorkKept(c, d)
<1> DEFINE added == [c EXCEPT !.decisions = Append(@, x)]
           d     == Record(added, "human_decision_received", "workflow")
<1>1. Append(c.decisions, x) \in Seq(Decisions) /\ Continues(c.decisions, Append(c.decisions, x))
  BY ContextSequences, AppendContinues
<1>2. /\ added \in Contexts
      /\ added.stage = c.stage
      /\ added.selections = c.selections
      /\ added.requests = c.requests
      /\ added.findings = c.findings
      /\ added.events = c.events
      /\ added.decisions = Append(c.decisions, x)
  BY <1>1 DEF Contexts
<1> HIDE DEF added
<1>3. Link(c, added, {})
  BY <1>1, <1>2, AmendsLink DEF Amends
<1>4. Notes(added, d, "human_decision_received")
  BY <1>2, EventNames, RecordNotes
<1>5. InTurn(added, "human_decision_received")
  BY <1>2 DEF InTurn, Has, EventsOf
<1> HIDE DEF d
<1>6. Link(added, d, {"human_decision_received"}) /\ d \in Contexts
  BY <1>2, <1>4, <1>5, NotesLink DEF GovernanceTypes, Notes
<1>7. Link(c, d, {} \cup {"human_decision_received"})
  BY <1>2, <1>3, <1>6, LinkTransitive
<1>8. Link(c, d, {"human_decision_received"})
  BY <1>7 DEF Link
<1>9. WorkKept(c, d)
  BY <1>2, <1>4, NotesKeepWork DEF WorkKept
<1> QED BY <1>8, <1>9 DEF RecordHumanDecision, d, added

\* Leaving the gate is a legal move to planning.
LEMMA LeaveHumanGateLink ==
  ASSUME NEW c \in Contexts, GateShape(c), c.stage = "awaiting_human_decision"
  PROVE  LET d == LeaveHumanGate(c)
         IN  Link(c, d, {}) /\ WorkKept(c, d)
<1> DEFINE answered == AnswerRequest(c, LastPending(c))
           d        == Transition(answered, "recovery_planning")
<1>1. /\ answered \in Contexts
      /\ answered.stage = c.stage
      /\ answered.selections = c.selections
      /\ answered.requests = c.requests
      /\ answered.findings = c.findings
      /\ answered.decisions = c.decisions
      /\ answered.events = c.events
  BY AnswerGate
<1> HIDE DEF answered
<1>2. Continues(c.decisions, c.decisions)
  BY ContextSequences, ContinuesSelf
<1>3. Link(c, answered, {})
  BY <1>1, <1>2, AmendsLink DEF Amends
<1>4. /\ "recovery_planning" \in Stages
      /\ "recovery_planning" \in ValidTransitions[answered.stage]
  BY <1>1 DEF Stages, ValidTransitions
<1>5. Moves(answered, d, "recovery_planning")
  BY <1>1, <1>4, TransitionMoves
<1> HIDE DEF d
<1>6. Link(answered, d, {}) /\ WorkKept(answered, d)
  BY <1>1, <1>4, <1>5, MovesLink, MovesKeepWork
<1>7. Link(c, d, {} \cup {})
  BY <1>1, <1>3, <1>6, LinkTransitive
<1>8. WorkKept(c, d)
  BY <1>1, <1>6 DEF WorkKept
<1> QED BY <1>7, <1>8 DEF LeaveHumanGate, d, answered

\* Asking the planner is quiet and leaves the experts' work alone.
LEMMA RequestPlanQuiet ==
  ASSUME NEW c \in Contexts
  PROVE  LET d == RequestPlan(c)
         IN  /\ d \in Contexts
             /\ Quiet(c, d)
             /\ WorkKept(c, d)
             /\ Link(c, d, {})
<1>1. "RecoveryPlanner" \in Roles
  BY DEF Roles
<1>2. Quiet(c, RequestPlan(c)) /\ WorkKept(c, RequestPlan(c))
  BY <1>1, FirstRequestKeepsWork DEF RequestPlan
<1> QED BY <1>2, QuietLink DEF Quiet

\* Planning that raises adds at most the planner's request.
LEMMA AbortPlanningLink ==
  ASSUME NEW c \in Contexts
  PROVE  LET d == AbortPlanning(c)
         IN  /\ Link(c, d, {})
             /\ WorkKept(c, d)
             /\ SameGovernance(c, d)
             /\ d.stage = c.stage
<1>1. Link(c, c, {}) /\ WorkKept(c, c) /\ SameGovernance(c, c)
  <2>1. Amends(c, c)
    BY ContextSequences, ContinuesSelf DEF Amends
  <2>2. Continues(c.requests, c.requests) /\ Len(c.requests) \in Nat
    BY ContextSequences, ContinuesSelf
  <2> QED BY <2>1, <2>2, AmendsLink DEF WorkKept, SameGovernance
<1> QED BY <1>1, RequestPlanQuiet DEF AbortPlanning, Quiet

\* Planning adds the draft, its event, and moves the case to final approval.
LEMMA PlanRecoveryLink ==
  ASSUME NEW c, InPlanning(c), InTurn(c, "draft_recommendation_created")
  PROVE  LET d == PlanRecovery(c)
         IN  /\ Link(c, d, {"draft_recommendation_created"})
             /\ WorkKept(c, d)
             /\ d.decisions = c.decisions
             /\ d.stage = "awaiting_final_approval"
<1> DEFINE asked   == RequestPlan(c)
           drafted == [asked EXCEPT !.draft = PostHumanDraft(asked)]
           option  == Record(drafted, "recovery_option_created", "RecoveryPlanner")
           created == Record(option, "draft_recommendation_created", "RecoveryPlanner")
           done    == Record(created, "expert_execution_completed", "RecoveryPlanner")
           d       == Transition(done, "awaiting_final_approval")
<1>1. c \in Contexts /\ c.stage = "recovery_planning"
  BY DEF InPlanning
<1>2. /\ asked \in Contexts
      /\ Link(c, asked, {})
      /\ WorkKept(c, asked)
      /\ asked.stage = c.stage
      /\ asked.decisions = c.decisions
  BY <1>1, RequestPlanQuiet DEF Quiet, SameGovernance
<1> HIDE DEF asked
<1>3. PostHumanDraft(asked) \in Recommendations
  BY <1>2, DraftType
<1>4. /\ drafted \in Contexts
      /\ drafted.stage = asked.stage
      /\ drafted.selections = asked.selections
      /\ drafted.requests = asked.requests
      /\ drafted.findings = asked.findings
      /\ drafted.decisions = asked.decisions
      /\ drafted.events = asked.events
  BY <1>2, <1>3 DEF Contexts
<1> HIDE DEF drafted
<1>5. Continues(asked.decisions, asked.decisions)
  BY <1>2, ContextSequences, ContinuesSelf
<1>6. Link(asked, drafted, {})
  BY <1>2, <1>4, <1>5, AmendsLink DEF Amends
<1>7. "RecoveryPlanner" \in Subjects
  BY EventNames
<1>8. Notes(drafted, option, "recovery_option_created")
  BY <1>4, <1>7, RoutineNames, RecordNotes
<1> HIDE DEF option
<1>9. option \in Contexts /\ Link(drafted, option, {})
  BY <1>4, <1>8, RoutineNames, NoteQuiet, QuietLink DEF Notes
<1>10. Link(c, option, {})
  <2>1. Link(c, drafted, {} \cup {})
    BY <1>1, <1>2, <1>6, LinkTransitive
  <2>2. Link(c, option, ({} \cup {}) \cup {})
    BY <1>1, <1>9, <2>1, LinkTransitive
  <2> QED BY <2>2
<1>11. Notes(option, created, "draft_recommendation_created")
  BY <1>7, <1>9, EventNames, RecordNotes
<1>12. InTurn(option, "draft_recommendation_created")
  <2>1. \A type \in GovernanceTypes : Has(option, type) <=> Has(c, type)
    BY <1>10 DEF Link
  <2>2. Has(option, "human_decision_received") <=> Has(c, "human_decision_received")
    BY <2>1 DEF GovernanceTypes
  <2>3. Has(option, "draft_recommendation_created") <=> Has(c, "draft_recommendation_created")
    BY <2>1 DEF GovernanceTypes
  <2> QED BY <2>2, <2>3 DEF InTurn
<1> HIDE DEF created
<1>13. created \in Contexts /\ Link(option, created, {"draft_recommendation_created"})
  BY <1>9, <1>11, <1>12, NotesLink DEF GovernanceTypes, Notes
<1>14. Notes(created, done, "expert_execution_completed")
  BY <1>7, <1>13, RoutineNames, RecordNotes
<1> HIDE DEF done
<1>15. done \in Contexts /\ Link(created, done, {})
  BY <1>13, <1>14, RoutineNames, NoteQuiet, QuietLink DEF Notes
<1>16. /\ "awaiting_final_approval" \in Stages
       /\ "awaiting_final_approval" \in ValidTransitions[done.stage]
  BY <1>1, <1>2, <1>4, <1>8, <1>11, <1>14 DEF Stages, ValidTransitions, Notes
<1>17. Moves(done, d, "awaiting_final_approval")
  BY <1>15, <1>16, TransitionMoves
<1> HIDE DEF d
<1>18. Link(done, d, {}) /\ d.stage = "awaiting_final_approval"
  BY <1>15, <1>16, <1>17, MovesLink DEF Moves
<1>19. Link(c, d, {"draft_recommendation_created"})
  <2>1. Link(c, created, {} \cup {"draft_recommendation_created"})
    BY <1>1, <1>10, <1>13, LinkTransitive
  <2>2. Link(c, done, ({} \cup {"draft_recommendation_created"}) \cup {})
    BY <1>1, <1>15, <2>1, LinkTransitive
  <2>3. Link(c, d, (({} \cup {"draft_recommendation_created"}) \cup {}) \cup {})
    BY <1>1, <1>18, <2>2, LinkTransitive
  <2> QED BY <2>3
<1>20. /\ d.selections = asked.selections
       /\ d.requests = asked.requests
       /\ d.findings = asked.findings
       /\ d.decisions = asked.decisions
  BY <1>4, <1>8, <1>11, <1>14, <1>17 DEF Notes, Moves, SameGovernance
<1>21. WorkKept(c, d)
  BY <1>2, <1>20 DEF WorkKept
<1> QED BY <1>2, <1>18, <1>19, <1>20, <1>21
        DEF PlanRecovery, d, done, created, option, drafted, asked

\* Approving adds the approval, the recommendation and the completion, in this
\* order.
LEMMA ApproveFinalLink ==
  ASSUME NEW c \in Contexts, NEW actor \in Actors, c.stage = "awaiting_final_approval",
         Has(c, "draft_recommendation_created"),
         ~Has(c, "final_approval_recorded"), ~Has(c, "case_completed")
  PROVE  LET d == ApproveFinal(c, actor)
         IN  /\ Link(c, d, {"final_approval_recorded", "final_recommendation_created",
                            "case_completed"})
             /\ WorkKept(c, d)
             /\ d.decisions = Append(c.decisions, [request |-> FinalRequest,
                                        outcome |-> "approved", by |-> actor])
             /\ d.stage = "completed"
<1> DEFINE approval  == [request |-> FinalRequest, outcome |-> "approved", by |-> actor]
           added     == [c EXCEPT !.decisions = Append(@, approval)]
           approved  == Record(added, "final_approval_recorded", "workflow")
           advice    == [c.draft EXCEPT !.status = "authorized", !.approval = "approved"]
           advised   == [approved EXCEPT !.final = advice]
           finalized == Record(advised, "final_recommendation_created", "RecoveryPlanner")
           moved     == Transition(finalized, "completed")
           d         == Record(moved, "case_completed", "workflow")
<1>1. approval \in Decisions
  BY DEF Decisions, Outcomes
<1> HIDE DEF approval
<1>2. Append(c.decisions, approval) \in Seq(Decisions)
        /\ Continues(c.decisions, Append(c.decisions, approval))
  BY <1>1, ContextSequences, AppendContinues
<1>3. /\ added \in Contexts
      /\ added.stage = c.stage
      /\ added.selections = c.selections
      /\ added.requests = c.requests
      /\ added.findings = c.findings
      /\ added.decisions = Append(c.decisions, approval)
      /\ added.events = c.events
  BY <1>2 DEF Contexts
<1> HIDE DEF added
<1>4. Link(c, added, {})
  BY <1>2, <1>3, AmendsLink DEF Amends
<1>5. "workflow" \in Subjects /\ "RecoveryPlanner" \in Subjects
  BY EventNames
<1>6. Notes(added, approved, "final_approval_recorded")
  BY <1>3, <1>5, EventNames, RecordNotes
<1>7. InTurn(added, "final_approval_recorded")
  BY <1>3 DEF InTurn, Has, EventsOf
<1> HIDE DEF approved
<1>8. approved \in Contexts /\ Link(added, approved, {"final_approval_recorded"})
  BY <1>3, <1>6, <1>7, NotesLink DEF GovernanceTypes, Notes
<1>9. Link(c, approved, {"final_approval_recorded"})
  <2>1. Link(c, approved, {} \cup {"final_approval_recorded"})
    BY <1>4, <1>8, LinkTransitive
  <2> QED BY <2>1
<1>10. advice \in Recommendations
  <2>1. c.draft \in Recommendations
    BY DEF Contexts
  <2> QED BY <2>1 DEF Recommendations
<1> HIDE DEF advice
<1>11. /\ advised \in Contexts
       /\ advised.stage = approved.stage
       /\ advised.selections = approved.selections
       /\ advised.requests = approved.requests
       /\ advised.findings = approved.findings
       /\ advised.decisions = approved.decisions
       /\ advised.events = approved.events
  BY <1>8, <1>10 DEF Contexts
<1> HIDE DEF advised
<1>12. Continues(approved.decisions, approved.decisions)
  BY <1>8, ContextSequences, ContinuesSelf
<1>13. Link(approved, advised, {})
  BY <1>8, <1>11, <1>12, AmendsLink DEF Amends
<1>14. Link(c, advised, {"final_approval_recorded"})
  <2>1. Link(c, advised, {"final_approval_recorded"} \cup {})
    BY <1>9, <1>13, LinkTransitive
  <2> QED BY <2>1
<1>15. Notes(advised, finalized, "final_recommendation_created")
  BY <1>5, <1>11, EventNames, RecordNotes
<1>16. InTurn(advised, "final_recommendation_created")
  <2>1. Has(advised, "final_approval_recorded")
    BY <1>14 DEF Link, GovernanceTypes
  <2> QED BY <2>1 DEF InTurn, OnceTypes
<1> HIDE DEF finalized
<1>17. finalized \in Contexts /\ Link(advised, finalized, {"final_recommendation_created"})
  BY <1>11, <1>15, <1>16, NotesLink DEF GovernanceTypes, Notes
<1>18. /\ "completed" \in Stages
       /\ "completed" \in ValidTransitions[finalized.stage]
  BY <1>3, <1>6, <1>11, <1>15 DEF Stages, ValidTransitions, Notes
<1>19. Moves(finalized, moved, "completed")
  BY <1>17, <1>18, TransitionMoves
<1> HIDE DEF moved
<1>20. moved \in Contexts /\ Link(finalized, moved, {})
  BY <1>17, <1>18, <1>19, MovesLink DEF Moves
<1>21. Link(c, moved, {"final_approval_recorded", "final_recommendation_created"})
  <2>1. Link(c, finalized, {"final_approval_recorded"} \cup {"final_recommendation_created"})
    BY <1>14, <1>17, LinkTransitive
  <2>2. Link(c, moved, ({"final_approval_recorded"} \cup {"final_recommendation_created"}) \cup {})
    BY <1>20, <2>1, LinkTransitive
  <2>3. ({"final_approval_recorded"} \cup {"final_recommendation_created"}) \cup {}
          = {"final_approval_recorded", "final_recommendation_created"}
    OBVIOUS
  <2> QED BY <2>2, <2>3
<1>22. Notes(moved, d, "case_completed")
  BY <1>5, <1>20, EventNames, RecordNotes
<1>23. InTurn(moved, "case_completed")
  <2>1. Has(moved, "final_recommendation_created")
    BY <1>21 DEF Link, GovernanceTypes
  <2>2. ~Has(moved, "case_completed")
    BY <1>21 DEF Link, GovernanceTypes
  <2> QED BY <2>1, <2>2 DEF InTurn
<1> HIDE DEF d
<1>24. Link(moved, d, {"case_completed"})
  BY <1>20, <1>22, <1>23, NotesLink DEF GovernanceTypes
<1>25. Link(c, d, {"final_approval_recorded", "final_recommendation_created", "case_completed"})
  <2>1. Link(c, d, {"final_approval_recorded", "final_recommendation_created"}
                     \cup {"case_completed"})
    BY <1>21, <1>24, LinkTransitive
  <2>2. {"final_approval_recorded", "final_recommendation_created"} \cup {"case_completed"}
          = {"final_approval_recorded", "final_recommendation_created", "case_completed"}
    OBVIOUS
  <2> QED BY <2>1, <2>2
<1>26. /\ d.selections = c.selections
       /\ d.requests = c.requests
       /\ d.findings = c.findings
       /\ d.decisions = Append(c.decisions, approval)
       /\ d.stage = "completed"
  BY <1>3, <1>6, <1>11, <1>15, <1>19, <1>22 DEF Notes, Moves, SameGovernance
<1>27. WorkKept(c, d)
  <2>1. Continues(c.requests, c.requests) /\ Len(c.requests) \in Nat
    BY ContextSequences, ContinuesSelf
  <2> QED BY <1>26, <2>1 DEF WorkKept
<1> QED BY <1>25, <1>26, <1>27
        DEF ApproveFinal, d, moved, finalized, advised, advice, approved, added, approval

-----------------------------------------------------------------------------
(* Nobody decides the same request twice *)

DecidedOnce(c) ==
  \A i, j \in DOMAIN c.decisions : c.decisions[i].request = c.decisions[j].request => i = j

\* A review decides nothing by itself.
LEMMA ReviewDecides ==
  ASSUME NEW c \in Contexts, NEW found \in Seq(ContradictionStatus), c.stage = "expert_analysis"
  PROVE  ReviewContradictions(c, found).decisions = c.decisions
<1> DEFINE requested == RequestAudit(c)
           audited   == RecordContradictions(requested, found)
<1>1. requested \in Contexts /\ requested.decisions = c.decisions
  BY RequestAuditType, RequestAuditFrame DEF SameGovernance
<1> HIDE DEF requested
<1>2. audited \in Contexts /\ audited.decisions = c.decisions
  BY <1>1, RecordContradictionsType, RecordContradictionsFrame DEF SameGovernance
<1> HIDE DEF audited
<1>3. OpenHumanGate(audited).decisions = audited.decisions
  <2> DEFINE asked == [audited EXCEPT !.humanRequests =
                         Append(@, [id |-> OnsiteRequest, status |-> "pending"])]
  <2>1. asked.decisions = audited.decisions
    BY <1>2 DEF Contexts
  <2> QED BY <2>1 DEF OpenHumanGate, Transition, Record
<1>4. Transition(audited, "recovery_planning").decisions = audited.decisions
  BY DEF Transition, Record
<1> QED BY <1>2, <1>3, <1>4 DEF ReviewContradictions, requested, audited

\* A decision on a request that had none is the only one on it.
LEMMA DecidedOnceAppend ==
  ASSUME NEW c \in Contexts, NEW d \in Contexts, NEW x \in Decisions,
         d.decisions = Append(c.decisions, x), DecidedOnce(c), x.request \notin DecidedIds(c)
  PROVE  DecidedOnce(d)
<1>1. /\ Len(c.decisions) \in Nat
      /\ \A i \in 1 .. Len(c.decisions) : d.decisions[i] = c.decisions[i]
      /\ d.decisions[Len(c.decisions) + 1] = x
      /\ DOMAIN c.decisions = 1 .. Len(c.decisions)
      /\ DOMAIN d.decisions = 1 .. Len(c.decisions) + 1
  BY ContextSequences, AppendElements
<1>2. \A i \in 1 .. Len(c.decisions) : c.decisions[i].request # x.request
  BY <1>1 DEF DecidedIds
<1>3. ASSUME NEW i \in DOMAIN d.decisions, NEW j \in DOMAIN d.decisions,
             d.decisions[i].request = d.decisions[j].request
      PROVE  i = j
  <2>1. CASE i \in 1 .. Len(c.decisions) /\ j \in 1 .. Len(c.decisions)
    <3>1. d.decisions[i] = c.decisions[i] /\ d.decisions[j] = c.decisions[j]
      BY <1>1, <2>1
    <3> QED BY <1>1, <1>3, <2>1, <3>1 DEF DecidedOnce
  <2>2. CASE i \in 1 .. Len(c.decisions) /\ j = Len(c.decisions) + 1
    BY <1>1, <1>2, <1>3, <2>2
  <2>3. CASE i = Len(c.decisions) + 1 /\ j \in 1 .. Len(c.decisions)
    BY <1>1, <1>2, <1>3, <2>3
  <2>4. CASE i = Len(c.decisions) + 1 /\ j = Len(c.decisions) + 1
    BY <2>4
  <2> QED BY <1>1, <2>1, <2>2, <2>3, <2>4
<1> QED BY <1>3 DEF DecidedOnce


-----------------------------------------------------------------------------
(* Least and greatest numbers *)

\* A set of natural numbers that is not empty has a least element.
LEMMA LeastNatural ==
  ASSUME NEW T \in SUBSET Nat, T # {}
  PROVE  \E m \in T : \A k \in T : m <= k
<1>1. IsWellFoundedOn(OpToRel(<, Nat), Nat)
  BY NatLessThanWellFounded
<1>2. PICK m \in T : \A y \in T : ~(<<y, m>> \in OpToRel(<, Nat))
  BY <1>1, WFMin
<1>3. \A y \in T : ~(y < m)
  BY <1>2 DEF OpToRel
<1> QED BY <1>3

\* A set of numbers that is bounded and not empty has a greatest element.
LEMMA GreatestNatural ==
  ASSUME NEW T \in SUBSET Nat, T # {}, NEW bound \in Nat, \A k \in T : k <= bound
  PROVE  \E m \in T : \A k \in T : k <= m
<1> DEFINE Above == {b \in Nat : \A k \in T : k <= b}
<1>1. PICK m \in Above : \A b \in Above : m <= b
  <2>1. bound \in Above /\ Above \in SUBSET Nat
    OBVIOUS
  <2> HIDE DEF Above
  <2> QED BY <2>1, LeastNatural
<1>2. m \in Nat /\ \A k \in T : k <= m
  BY <1>1
<1>3. m \in T
  <2> SUFFICES ASSUME m \notin T PROVE FALSE
    OBVIOUS
  <2>1. \A k \in T : k \in Nat /\ k # m /\ k <= m
    BY <1>2
  <2>2. m # 0
    <3>1. PICK k \in T : TRUE
      OBVIOUS
    <3> QED BY <1>2, <2>1, <3>1
  <2>3. m - 1 \in Above
    BY <1>2, <2>1, <2>2
  <2> QED BY <1>1, <1>2, <2>3
<1> QED BY <1>2, <1>3

-----------------------------------------------------------------------------
(* The records of attempts and the completions on the audit trail          *)

CompletedRequests(c, role) ==
  {i \in DOMAIN c.requests :
     c.requests[i].role = role /\ AttemptStatus(c, c.requests[i]) = "completed"}

Completions(c, role) ==
  {i \in EventsOf(c, "expert_execution_completed") : c.events[i].about = role}

(* As many attempts of every expert are recorded as completed as the trail *)
(* tells of, but for one of the expert that is being asked.                *)
Balanced(c, asked) ==
  \A role \in Roles :
    Cardinality(CompletedRequests(c, role)) =
      Cardinality(Completions(c, role)) + (IF role = asked THEN 1 ELSE 0)

Truthful(c) == Balanced(c, "workflow")

\* Both sets are finite.
LEMMA AttemptsFinite ==
  ASSUME NEW c \in Contexts, NEW role
  PROVE  /\ IsFiniteSet(CompletedRequests(c, role))
         /\ IsFiniteSet(Completions(c, role))
         /\ Cardinality(CompletedRequests(c, role)) \in Nat
         /\ Cardinality(Completions(c, role)) \in Nat
<1>1. /\ DOMAIN c.requests = 1 .. Len(c.requests) /\ Len(c.requests) \in Nat
      /\ DOMAIN c.events = 1 .. Len(c.events) /\ Len(c.events) \in Nat
  BY ContextSequences
<1>2. IsFiniteSet(DOMAIN c.requests) /\ IsFiniteSet(DOMAIN c.events)
  <2>1. 1 \in Int /\ Len(c.requests) \in Int /\ Len(c.events) \in Int
    BY <1>1
  <2>2. IsFiniteSet(1 .. Len(c.requests)) /\ IsFiniteSet(1 .. Len(c.events))
    BY <2>1, FS_Interval
  <2> QED BY <1>1, <2>2
<1>3. /\ CompletedRequests(c, role) \in SUBSET DOMAIN c.requests
      /\ Completions(c, role) \in SUBSET DOMAIN c.events
  BY DEF CompletedRequests, Completions, EventsOf
<1>4. IsFiniteSet(CompletedRequests(c, role)) /\ IsFiniteSet(Completions(c, role))
  BY <1>2, <1>3, FS_Subset
<1> QED BY <1>4, FS_CardinalityType

\* The status of an attempt depends on the findings only.
LEMMA StatusOfFindings ==
  ASSUME NEW c, NEW d, NEW request, d.findings = c.findings
  PROVE  AttemptStatus(d, request) = AttemptStatus(c, request)
BY DEF AttemptStatus

\* Events that tell of no completion leave the balance alone.
LEMMA BalancedEvents ==
  ASSUME NEW c \in Contexts, NEW d \in Contexts, NEW asked, Balanced(c, asked),
         d.requests = c.requests, d.findings = c.findings,
         NEW s \in Seq(AuditEvents), d.events = c.events \o s,
         \A i \in DOMAIN s : s[i].type # "expert_execution_completed"
  PROVE  Balanced(d, asked)
<1>1. c.events \in Seq(AuditEvents)
  BY ContextSequences
<1>2. /\ DOMAIN c.events = 1 .. Len(c.events) /\ Len(c.events) \in Nat
      /\ DOMAIN s = 1 .. Len(s) /\ Len(s) \in Nat
      /\ DOMAIN d.events = 1 .. Len(c.events) + Len(s)
      /\ \A i \in 1 .. Len(c.events) : d.events[i] = c.events[i]
      /\ \A i \in 1 .. Len(c.events) + Len(s) :
           i > Len(c.events) => d.events[i] = s[i - Len(c.events)]
  BY <1>1
<1>3. ASSUME NEW role
      PROVE  /\ Completions(d, role) = Completions(c, role)
             /\ CompletedRequests(d, role) = CompletedRequests(c, role)
  <2>1. ASSUME NEW i \in 1 .. Len(c.events) + Len(s), i > Len(c.events)
        PROVE  d.events[i].type # "expert_execution_completed"
    <3>1. i - Len(c.events) \in DOMAIN s
      BY <1>2, <2>1
    <3> QED BY <1>2, <2>1, <3>1
  <2>2. Completions(d, role) = Completions(c, role)
    BY <1>2, <2>1 DEF Completions, EventsOf
  <2>3. CompletedRequests(d, role) = CompletedRequests(c, role)
    BY StatusOfFindings DEF CompletedRequests
  <2> QED BY <2>2, <2>3
<1> QED BY <1>3 DEF Balanced

\* Noting anything but a completion leaves the balance alone.
LEMMA BalancedNote ==
  ASSUME NEW c \in Contexts, NEW type \in EventTypes, NEW about \in Subjects, NEW asked,
         Balanced(c, asked), type # "expert_execution_completed"
  PROVE  Balanced(Record(c, type, about), asked)
<1> DEFINE x == [type |-> type, about |-> about]
           d == Record(c, type, about)
<1>1. /\ d \in Contexts /\ d.requests = c.requests /\ d.findings = c.findings
      /\ d.events = Append(c.events, x)
  <2>1. d.requests = c.requests /\ d.findings = c.findings
    BY DEF Record, Contexts
  <2> QED BY <2>1, RecordType, RecordFrame
<1>2. x \in AuditEvents /\ x.type = type
  BY DEF AuditEvents
<1> HIDE DEF x, d
<1>3. /\ <<x>> \in Seq(AuditEvents)
      /\ \A i \in DOMAIN <<x>> : <<x>>[i].type # "expert_execution_completed"
      /\ Append(c.events, x) = c.events \o <<x>>
  BY <1>2, ContextSequences
<1>4. Balanced(d, asked)
  BY <1>1, <1>3, BalancedEvents
<1> QED BY <1>4 DEF d

\* A stage change leaves the balance alone.
LEMMA BalancedMove ==
  ASSUME NEW c \in Contexts, NEW target \in Stages, NEW asked, Balanced(c, asked)
  PROVE  Balanced(Transition(c, target), asked)
<1> DEFINE moved == [c EXCEPT !.stage = target]
<1>1. /\ moved \in Contexts
      /\ moved.requests = c.requests /\ moved.findings = c.findings /\ moved.events = c.events
  BY DEF Contexts
<1> HIDE DEF moved
<1>2. Balanced(moved, asked)
  <2>1. \A request : AttemptStatus(moved, request) = AttemptStatus(c, request)
    BY <1>1, StatusOfFindings
  <2>2. \A role : /\ CompletedRequests(moved, role) = CompletedRequests(c, role)
                  /\ Completions(moved, role) = Completions(c, role)
    BY <1>1, <2>1 DEF CompletedRequests, Completions, EventsOf
  <2> QED BY <2>2 DEF Balanced
<1>3. Balanced(Record(moved, "workflow_stage_changed", target), asked)
  <2>1. "workflow_stage_changed" \in EventTypes /\ target \in Subjects
    BY DEF EventTypes, Subjects
  <2>2. "workflow_stage_changed" # "expert_execution_completed"
    OBVIOUS
  <2> QED BY <1>1, <1>2, <2>1, <2>2, BalancedNote
<1> QED BY <1>3 DEF Transition, moved

\* Telling of the completion of the expert that was asked settles the balance.
LEMMA BalancedCompletion ==
  ASSUME NEW c \in Contexts, NEW role \in Roles, Balanced(c, role)
  PROVE  Truthful(Record(c, "expert_execution_completed", role))
<1> DEFINE x == [type |-> "expert_execution_completed", about |-> role]
           d == Record(c, "expert_execution_completed", role)
           n == Len(c.events) + 1
<1>0. "expert_execution_completed" \in EventTypes /\ role \in Subjects
  BY DEF EventTypes, Subjects
<1>1. /\ d.requests = c.requests /\ d.findings = c.findings
      /\ d.events = Append(c.events, x)
  <2>1. d.requests = c.requests /\ d.findings = c.findings
    BY DEF Record, Contexts
  <2> QED BY <1>0, <2>1, RecordFrame
<1>2. x \in AuditEvents /\ x.type = "expert_execution_completed" /\ x.about = role
  BY <1>0 DEF AuditEvents
<1> HIDE DEF x, d
<1>3. /\ DOMAIN c.events = 1 .. Len(c.events) /\ Len(c.events) \in Nat
      /\ DOMAIN d.events = 1 .. n
      /\ \A i \in 1 .. Len(c.events) : d.events[i] = c.events[i]
      /\ d.events[n] = x
  BY <1>1, <1>2, ContextSequences, AppendElements
<1>4. ASSUME NEW other
      PROVE  CompletedRequests(d, other) = CompletedRequests(c, other)
  BY <1>1, StatusOfFindings DEF CompletedRequests
<1>5. ASSUME NEW other, other # role
      PROVE  Completions(d, other) = Completions(c, other)
  BY <1>2, <1>3, <1>5 DEF Completions, EventsOf
<1>6. Completions(d, role) = Completions(c, role) \cup {n} /\ n \notin Completions(c, role)
  BY <1>2, <1>3 DEF Completions, EventsOf
<1>7. Cardinality(Completions(d, role)) = Cardinality(Completions(c, role)) + 1
  BY <1>6, AttemptsFinite, FS_AddElement
<1>8. "workflow" \notin Roles
  BY DEF Roles, FindingRoles
<1>9. ASSUME NEW other \in Roles
      PROVE  Cardinality(CompletedRequests(d, other)) = Cardinality(Completions(d, other))
  <2>1. CASE other = role
    BY <1>4, <1>7, <2>1 DEF Balanced
  <2>2. CASE other # role
    <3>1. Cardinality(CompletedRequests(c, other)) = Cardinality(Completions(c, other)) + 0
      BY <2>2 DEF Balanced
    <3> QED BY <1>4, <1>5, <2>2, <3>1, AttemptsFinite
  <2> QED BY <2>1, <2>2
<1>10. Truthful(d)
  <2> SUFFICES ASSUME NEW other \in Roles
               PROVE  Cardinality(CompletedRequests(d, other)) =
                        Cardinality(Completions(d, other)) + (IF other = "workflow" THEN 1 ELSE 0)
    BY DEF Truthful, Balanced
  <2>1. other # "workflow"
    BY <1>8
  <2>2. Cardinality(Completions(d, other)) \in Nat
    BY <1>0, RecordType, AttemptsFinite DEF d
  <2> QED BY <1>9, <2>1, <2>2
<1> QED BY <1>10 DEF d

(* The findings that answer an attempt *)
AnswersTo(c, request) ==
  {i \in DOMAIN c.findings : /\ c.findings[i].role = request.role
                             /\ c.findings[i].attempt = request.attempt}

\* An attempt with the same findings has the same status.
LEMMA StatusOfAnswers ==
  ASSUME NEW c \in Contexts, NEW d, NEW request,
         AnswersTo(d, request) = AnswersTo(c, request),
         \A i \in DOMAIN c.findings : d.findings[i] = c.findings[i]
  PROVE  AttemptStatus(d, request) = AttemptStatus(c, request)
<1> DEFINE own == AnswersTo(c, request)
           last == CHOOSE i \in own : \A j \in own : j <= i
<1>1. CASE own = {}
  <2>1. AttemptStatus(c, request) = "completed" /\ AttemptStatus(d, request) = "completed"
    BY <1>1 DEF AttemptStatus, AnswersTo
  <2> QED BY <2>1
<1>2. CASE own # {}
  <2>1. DOMAIN c.findings = 1 .. Len(c.findings) /\ Len(c.findings) \in Nat
    BY ContextSequences
  <2>2. own \in SUBSET Nat /\ \A k \in own : k <= Len(c.findings)
    BY <2>1 DEF AnswersTo
  <2>3. own \subseteq DOMAIN c.findings
    BY DEF AnswersTo
  <2>4. /\ AttemptStatus(c, request) = c.findings[last].status
        /\ AttemptStatus(d, request) = d.findings[last].status
    BY <1>2 DEF AttemptStatus, AnswersTo
  <2> HIDE DEF own
  <2>5. \E i \in own : \A j \in own : j <= i
    BY <1>2, <2>1, <2>2, GreatestNatural
  <2>6. last \in own
    BY <2>5
  <2> QED BY <2>3, <2>4, <2>6
<1> QED BY <1>1, <1>2

\* An attempt that one finding answers has the status of it.
LEMMA StatusOfOne ==
  ASSUME NEW c, NEW request, NEW k, k \in Nat, AnswersTo(c, request) = {k}
  PROVE  AttemptStatus(c, request) = c.findings[k].status
<1> DEFINE last == CHOOSE i \in {k} : \A j \in {k} : j <= i
<1>1. AttemptStatus(c, request) = c.findings[last].status
  BY DEF AttemptStatus, AnswersTo
<1>2. last = k
  <2>1. \E i \in {k} : \A j \in {k} : j <= i
    OBVIOUS
  <2>2. last \in {k}
    BY <2>1
  <2> QED BY <2>2
<1> QED BY <1>1, <1>2

Unasked(c, role, n) ==
  \A i \in DOMAIN c.requests : ~(c.requests[i].role = role /\ c.requests[i].attempt = n)

Unanswered(c, role, n) ==
  \A i \in DOMAIN c.findings : ~(c.findings[i].role = role /\ c.findings[i].attempt = n)

\* A request that nothing answers counts as completed: the balance is off by
\* one until its completion is told, or its finding is there.
LEMMA BalancedRequest ==
  ASSUME NEW c \in Contexts, NEW role \in Roles, NEW n \in 1 .. MaxAttempts,
         Truthful(c), Unanswered(c, role, n)
  PROVE  Balanced(RequestExpert(c, role, n), role)
<1> DEFINE request == [role |-> role, attempt |-> n]
           asked   == [c EXCEPT !.requests = Append(@, request)]
           created == Record(asked, "expert_request_created", role)
           started == Record(created, "expert_execution_started", role)
           k == Len(c.requests) + 1
<1>1. request \in ExpertRequests /\ request.role = role /\ request.attempt = n
  BY DEF ExpertRequests
<1> HIDE DEF request
<1>2. /\ asked \in Contexts
      /\ asked.requests = Append(c.requests, request)
      /\ asked.findings = c.findings /\ asked.events = c.events
  <2>1. Append(c.requests, request) \in Seq(ExpertRequests)
    BY <1>1, ContextSequences
  <2> QED BY <2>1 DEF Contexts
<1> HIDE DEF asked
<1>3. /\ DOMAIN c.requests = 1 .. Len(c.requests) /\ Len(c.requests) \in Nat
      /\ DOMAIN asked.requests = 1 .. k
      /\ \A i \in 1 .. Len(c.requests) : asked.requests[i] = c.requests[i]
      /\ asked.requests[k] = request
  BY <1>1, <1>2, ContextSequences, AppendElements
<1>4. \A r : AttemptStatus(asked, r) = AttemptStatus(c, r)
  BY <1>2, StatusOfFindings
<1>5. AttemptStatus(c, request) = "completed"
  BY <1>1 DEF Unanswered, AttemptStatus
<1>6. /\ CompletedRequests(asked, role) = CompletedRequests(c, role) \cup {k}
      /\ k \notin CompletedRequests(c, role)
  BY <1>1, <1>3, <1>4, <1>5 DEF CompletedRequests
<1>7. Cardinality(CompletedRequests(asked, role)) = Cardinality(CompletedRequests(c, role)) + 1
  BY <1>6, AttemptsFinite, FS_AddElement
<1>8. ASSUME NEW other, other # role
      PROVE  CompletedRequests(asked, other) = CompletedRequests(c, other)
  BY <1>1, <1>3, <1>4, <1>8 DEF CompletedRequests
<1>9. \A other : Completions(asked, other) = Completions(c, other)
  BY <1>2 DEF Completions, EventsOf
<1>10. \A other \in Roles :
          Cardinality(CompletedRequests(c, other)) = Cardinality(Completions(c, other)) + 0
  BY DEF Truthful, Balanced, Roles, FindingRoles
<1>11. Balanced(asked, role)
  <2> SUFFICES ASSUME NEW other \in Roles
               PROVE  Cardinality(CompletedRequests(asked, other)) =
                        Cardinality(Completions(asked, other)) + (IF other = role THEN 1 ELSE 0)
    BY DEF Balanced
  <2>1. Cardinality(Completions(c, other)) \in Nat
    BY AttemptsFinite
  <2>2. CASE other = role
    BY <1>7, <1>9, <1>10, <2>1, <2>2
  <2>3. CASE other # role
    BY <1>8, <1>9, <1>10, <2>1, <2>3
  <2> QED BY <2>2, <2>3
<1>12. /\ "expert_request_created" \in EventTypes /\ "expert_execution_started" \in EventTypes
       /\ role \in Subjects
  BY DEF EventTypes, Subjects
<1>13. created \in Contexts /\ Balanced(created, role)
  BY <1>2, <1>11, <1>12, RecordType, BalancedNote
<1> HIDE DEF created
<1>14. Balanced(started, role)
  BY <1>12, <1>13, BalancedNote
<1> QED BY <1>14 DEF RequestExpert, started, created, asked, request

\* A first finding on the last request changes the status of that one only.
LEMMA AnswerStatus ==
  ASSUME NEW c \in Contexts, NEW d, NEW finding \in Findings,
         d.findings = Append(c.findings, finding),
         Unanswered(c, finding.role, finding.attempt)
  PROVE  \A request \in ExpertRequests :
           AttemptStatus(d, request) =
             IF request.role = finding.role /\ request.attempt = finding.attempt
               THEN finding.status ELSE AttemptStatus(c, request)
<1> DEFINE k == Len(c.findings) + 1
<1>1. /\ DOMAIN c.findings = 1 .. Len(c.findings) /\ Len(c.findings) \in Nat
      /\ DOMAIN d.findings = 1 .. k
      /\ \A i \in 1 .. Len(c.findings) : d.findings[i] = c.findings[i]
      /\ d.findings[k] = finding
  BY ContextSequences, AppendElements
<1>2. ASSUME NEW request \in ExpertRequests,
             request.role = finding.role, request.attempt = finding.attempt
      PROVE  AttemptStatus(d, request) = finding.status
  <2>1. AnswersTo(d, request) = {k}
    BY <1>1, <1>2 DEF AnswersTo, Unanswered
  <2>2. k \in Nat
    BY <1>1
  <2> HIDE DEF k
  <2>3. AttemptStatus(d, request) = d.findings[k].status
    BY <2>1, <2>2, StatusOfOne
  <2> QED BY <1>1, <2>3
<1>3. ASSUME NEW request \in ExpertRequests,
             ~(request.role = finding.role /\ request.attempt = finding.attempt)
      PROVE  AttemptStatus(d, request) = AttemptStatus(c, request)
  <2>1. AnswersTo(d, request) = AnswersTo(c, request)
    BY <1>1, <1>3 DEF AnswersTo
  <2> QED BY <1>1, <2>1, StatusOfAnswers
<1> QED BY <1>2, <1>3

\* A finding that completes the request leaves the balance to the event; one
\* that does not settles it.
LEMMA BalancedFinding ==
  ASSUME NEW c \in Contexts, NEW d \in Contexts, NEW finding \in Findings,
         d.findings = Append(c.findings, finding),
         d.requests = c.requests, d.events = c.events,
         Unanswered(c, finding.role, finding.attempt),
         NEW k \in DOMAIN c.requests,
         \A i \in DOMAIN c.requests :
           (c.requests[i].role = finding.role /\ c.requests[i].attempt = finding.attempt)
             <=> i = k,
         Balanced(c, finding.role)
  PROVE  IF finding.status = "completed" THEN Balanced(d, finding.role) ELSE Truthful(d)
<1> DEFINE role == finding.role
<1>1. \A i \in DOMAIN c.requests :
        /\ d.requests[i] = c.requests[i]
        /\ c.requests[i] \in ExpertRequests
        /\ AttemptStatus(d, c.requests[i]) =
             IF i = k THEN finding.status ELSE AttemptStatus(c, c.requests[i])
  <2>1. \A i \in DOMAIN c.requests : c.requests[i] \in ExpertRequests
    BY ContextSequences
  <2>2. \A request \in ExpertRequests :
          AttemptStatus(d, request) =
            IF request.role = finding.role /\ request.attempt = finding.attempt
              THEN finding.status ELSE AttemptStatus(c, request)
    BY AnswerStatus
  <2> QED BY <2>1, <2>2
<1>2. \A other : Completions(d, other) = Completions(c, other)
  BY DEF Completions, EventsOf
<1>3. /\ c.requests[k].role = role
      /\ AttemptStatus(c, c.requests[k]) = "completed"
  <2>1. c.requests[k].role = finding.role /\ c.requests[k].attempt = finding.attempt
    OBVIOUS
  <2>2. AttemptStatus(c, c.requests[k]) = "completed"
    BY <2>1 DEF AttemptStatus, Unanswered
  <2> QED BY <2>1, <2>2
<1>4. CASE finding.status = "completed"
  <2>1. \A other : CompletedRequests(d, other) = CompletedRequests(c, other)
    BY <1>1, <1>3, <1>4 DEF CompletedRequests
  <2>2. Balanced(d, role)
    BY <1>2, <2>1 DEF Balanced
  <2> QED BY <1>4, <2>2
<1>5. CASE finding.status # "completed"
  <2>1. /\ CompletedRequests(d, role) = CompletedRequests(c, role) \ {k}
        /\ k \in CompletedRequests(c, role)
    BY <1>1, <1>3, <1>5 DEF CompletedRequests
  <2>2. \A other : other # role => CompletedRequests(d, other) = CompletedRequests(c, other)
    BY <1>1, <1>3 DEF CompletedRequests
  <2>3. role \in Roles
    BY DEF Findings, Roles
  <2>4. Cardinality(CompletedRequests(d, role)) = Cardinality(Completions(d, role))
    <3>1. Cardinality(CompletedRequests(d, role)) = Cardinality(CompletedRequests(c, role)) - 1
      BY <2>1, AttemptsFinite, FS_RemoveElement
    <3>2. Cardinality(CompletedRequests(c, role)) = Cardinality(Completions(c, role)) + 1
      BY <2>3 DEF Balanced
    <3>3. Cardinality(Completions(c, role)) \in Nat
      BY AttemptsFinite
    <3> HIDE DEF role
    <3> QED BY <1>2, <3>1, <3>2, <3>3
  <2>5. ASSUME NEW other \in Roles, other # role
        PROVE  Cardinality(CompletedRequests(d, other)) = Cardinality(Completions(d, other))
    <3>1. Cardinality(CompletedRequests(c, other)) = Cardinality(Completions(c, other)) + 0
      BY <2>5 DEF Balanced
    <3>2. Cardinality(Completions(c, other)) \in Nat
      BY AttemptsFinite
    <3> QED BY <1>2, <2>2, <2>5, <3>1, <3>2
  <2>6. "workflow" \notin Roles
    BY DEF Roles, FindingRoles
  <2> HIDE DEF role
  <2>7. ASSUME NEW other \in Roles
        PROVE  Cardinality(CompletedRequests(d, other)) =
                 Cardinality(Completions(d, other)) + (IF other = "workflow" THEN 1 ELSE 0)
    <3>1. Cardinality(Completions(d, other)) \in Nat
      BY AttemptsFinite
    <3> QED BY <2>4, <2>5, <2>6, <2>7, <3>1
  <2>8. Truthful(d)
    BY <2>7 DEF Truthful, Balanced
  <2> QED BY <1>5, <2>8
<1> QED BY <1>4, <1>5

\* What an attempt adds to the requests and the findings.
LEMMA AttemptAdds ==
  ASSUME NEW c \in Contexts, NEW role \in FindingRoles,
         NEW n \in 1 .. MaxAttempts, NEW status \in FindingStatus
  PROVE  LET d == ExecuteAttempt(c, role, n, status)
         IN  /\ d.requests = Append(c.requests, [role |-> role, attempt |-> n])
             /\ d.findings =
                  Append(c.findings, [role |-> role, attempt |-> n, status |-> status])
             /\ d.selections = c.selections
<1> DEFINE asked    == RequestExpert(c, role, n)
           finding  == [role |-> role, attempt |-> n, status |-> status]
           answered == [asked EXCEPT !.findings = Append(@, finding)]
           d        == ExecuteAttempt(c, role, n, status)
<1>1. role \in Roles
  BY DEF Roles
<1>2. /\ asked \in Contexts
      /\ asked.requests = Append(c.requests, [role |-> role, attempt |-> n])
      /\ asked.findings = c.findings
      /\ asked.selections = c.selections
  <2>1. asked \in Contexts
    BY <1>1, RequestExpertType
  <2>2. /\ asked.requests = Append(c.requests, [role |-> role, attempt |-> n])
        /\ asked.findings = c.findings
        /\ asked.selections = c.selections
    BY DEF RequestExpert, Record, Contexts
  <2> QED BY <2>1, <2>2
<1> HIDE DEF asked
<1>3. /\ answered.requests = asked.requests
      /\ answered.findings = Append(c.findings, finding)
      /\ answered.selections = c.selections
      /\ "events" \in DOMAIN answered
  BY <1>2 DEF Contexts
<1>4. \E s : d = [answered EXCEPT !.events = s]
  <2>1. /\ d = [answered EXCEPT !.events = d.events]
    BY <1>2 DEF ExecuteAttempt, Record, Contexts, asked
  <2> QED BY <2>1
<1> HIDE DEF answered
<1>5. /\ d.requests = answered.requests /\ d.findings = answered.findings
      /\ d.selections = answered.selections
  BY <1>4
<1> QED BY <1>2, <1>3, <1>5

\* An attempt that was not made before keeps the records truthful.
LEMMA AttemptTruthful ==
  ASSUME NEW c \in Contexts, NEW role \in FindingRoles,
         NEW n \in 1 .. MaxAttempts, NEW status \in {"completed", "failed"},
         Truthful(c), Unasked(c, role, n), Unanswered(c, role, n)
  PROVE  Truthful(ExecuteAttempt(c, role, n, status))
<1> DEFINE asked    == RequestExpert(c, role, n)
           finding  == [role |-> role, attempt |-> n, status |-> status]
           answered == [asked EXCEPT !.findings = Append(@, finding)]
           failed   == Record(answered, "expert_execution_failed", role)
           k        == Len(c.requests) + 1
<1>1. /\ role \in Roles /\ role \in Subjects
      /\ "expert_execution_failed" \in EventTypes /\ "retry_authorized" \in EventTypes
  BY DEF Roles, Subjects, EventTypes
<1>2. asked \in Contexts /\ Balanced(asked, role)
  BY <1>1, RequestExpertType, BalancedRequest
<1>3. /\ asked.requests = Append(c.requests, [role |-> role, attempt |-> n])
      /\ asked.findings = c.findings
  BY DEF RequestExpert, Record, Contexts
<1>4. /\ finding \in Findings
      /\ finding.role = role /\ finding.attempt = n /\ finding.status = status
  BY DEF Findings, FindingStatus
<1> HIDE DEF asked, finding
<1>5. Append(asked.findings, finding) \in Seq(Findings)
  BY <1>2, <1>4, ContextSequences
<1>6. /\ answered \in Contexts
      /\ answered.findings = Append(asked.findings, finding)
      /\ answered.requests = asked.requests /\ answered.events = asked.events
  BY <1>2, <1>5 DEF Contexts
<1> HIDE DEF answered
<1>7. Unanswered(asked, finding.role, finding.attempt)
  BY <1>3, <1>4 DEF Unanswered
<1>8. /\ k \in DOMAIN asked.requests
      /\ \A i \in DOMAIN asked.requests :
           (asked.requests[i].role = finding.role /\ asked.requests[i].attempt = finding.attempt)
             <=> i = k
  <2> DEFINE request == [role |-> role, attempt |-> n]
  <2>1. request \in ExpertRequests /\ request.role = role /\ request.attempt = n
    BY <1>1 DEF ExpertRequests
  <2>2. asked.requests = Append(c.requests, request)
    BY <1>3
  <2> HIDE DEF request
  <2>3. /\ DOMAIN c.requests = 1 .. Len(c.requests) /\ Len(c.requests) \in Nat
        /\ DOMAIN asked.requests = 1 .. k
        /\ \A i \in 1 .. Len(c.requests) : asked.requests[i] = c.requests[i]
        /\ asked.requests[k] = request
    BY <2>1, <2>2, ContextSequences, AppendElements
  <2>4. \A i \in 1 .. Len(c.requests) :
          ~(asked.requests[i].role = role /\ asked.requests[i].attempt = n)
    BY <2>3 DEF Unasked
  <2> QED BY <1>4, <2>1, <2>3, <2>4
<1> HIDE DEF k
<1>9. IF status = "completed" THEN Balanced(answered, role) ELSE Truthful(answered)
  <2>1. Balanced(asked, finding.role)
    BY <1>2, <1>4
  <2>2. IF finding.status = "completed" THEN Balanced(answered, finding.role)
                                        ELSE Truthful(answered)
    BY <1>2, <1>4, <1>6, <1>7, <1>8, <2>1, BalancedFinding
  <2> QED BY <1>4, <2>2
<1>10. CASE status = "completed"
  <2>1. Truthful(Record(answered, "expert_execution_completed", role))
    BY <1>1, <1>6, <1>9, <1>10, BalancedCompletion
  <2>2. ExecuteAttempt(c, role, n, status) = Record(answered, "expert_execution_completed", role)
    BY <1>10 DEF ExecuteAttempt, answered, asked, finding
  <2> QED BY <2>1, <2>2
<1>11. CASE status = "failed"
  <2>1. failed \in Contexts /\ Truthful(failed)
    <3>1. Balanced(answered, "workflow")
      BY <1>9, <1>11 DEF Truthful
    <3>2. Balanced(failed, "workflow")
      BY <1>1, <1>6, <3>1, BalancedNote
    <3> QED BY <1>1, <1>6, <3>2, RecordType DEF Truthful
  <2> HIDE DEF failed
  <2>2. Truthful(Record(failed, "retry_authorized", role))
    BY <1>1, <2>1, BalancedNote DEF Truthful
  <2>3. \/ ExecuteAttempt(c, role, n, status) = Record(failed, "retry_authorized", role)
        \/ ExecuteAttempt(c, role, n, status) = failed
    BY <1>11 DEF ExecuteAttempt, failed, answered, asked, finding
  <2> QED BY <2>1, <2>2, <2>3
<1> QED BY <1>10, <1>11

\* An audit that is told completed keeps the records truthful.
LEMMA AuditTruthful ==
  ASSUME NEW c \in Contexts, NEW found \in Seq(ContradictionStatus), Truthful(c)
  PROVE  Truthful(RecordContradictions(RequestAudit(c), found))
<1> DEFINE entered  == Transition(c, "contradiction_review")
           asked    == RequestExpert(entered, "EvidenceAuditor", 1)
           noted    == [asked EXCEPT !.contradictions = @ \o found]
           done     == Record(noted, "expert_execution_completed", "EvidenceAuditor")
           detected == [i \in 1 .. Len(found) |->
                          [type |-> "contradiction_detected", about |-> "EvidenceAuditor"]]
           told     == [done EXCEPT !.events = @ \o detected]
<1>1. entered \in Contexts /\ Balanced(entered, "workflow")
  <2>1. "contradiction_review" \in Stages
    BY DEF Stages
  <2> QED BY <2>1, TransitionType, BalancedMove DEF Truthful
<1> HIDE DEF entered
<1>2. /\ 1 \in 1 .. MaxAttempts /\ "EvidenceAuditor" \in Roles
      /\ "EvidenceAuditor" \notin FindingRoles
      /\ "expert_execution_completed" \in EventTypes /\ "EvidenceAuditor" \in Subjects
  BY MaxAttemptsAssumption DEF Roles, FindingRoles, EventTypes, Subjects
<1>3. asked \in Contexts /\ Balanced(asked, "EvidenceAuditor")
  <2>1. Unanswered(entered, "EvidenceAuditor", 1)
    <3>1. \A i \in DOMAIN entered.findings : entered.findings[i] \in Findings
      BY <1>1, ContextSequences
    <3> QED BY <1>2, <3>1 DEF Unanswered, Findings
  <2>2. Truthful(entered)
    BY <1>1 DEF Truthful
  <2> QED BY <1>1, <1>2, <2>1, <2>2, RequestExpertType, BalancedRequest
<1> HIDE DEF asked
<1>4. /\ noted \in Contexts
      /\ noted.requests = asked.requests /\ noted.findings = asked.findings
      /\ noted.events = asked.events
  <2>1. asked.contradictions \o found \in Seq(ContradictionStatus)
    BY <1>3, ContextSequences
  <2> QED BY <1>3, <2>1 DEF Contexts
<1> HIDE DEF noted
<1>5. Balanced(noted, "EvidenceAuditor")
  <2>1. \A request : AttemptStatus(noted, request) = AttemptStatus(asked, request)
    BY <1>4, StatusOfFindings
  <2>2. \A role : /\ CompletedRequests(noted, role) = CompletedRequests(asked, role)
                  /\ Completions(noted, role) = Completions(asked, role)
    BY <1>4, <2>1 DEF CompletedRequests, Completions, EventsOf
  <2> QED BY <1>3, <2>2 DEF Balanced
<1>6. done \in Contexts /\ Truthful(done)
  BY <1>2, <1>4, <1>5, RecordType, BalancedCompletion
<1> HIDE DEF done
<1>7. /\ detected \in Seq(AuditEvents)
      /\ \A i \in DOMAIN detected : detected[i].type # "expert_execution_completed"
  <2>1. [type |-> "contradiction_detected", about |-> "EvidenceAuditor"] \in AuditEvents
    BY DEF AuditEvents, EventTypes, Subjects, Roles
  <2>2. Len(found) \in Nat
    OBVIOUS
  <2> QED BY <2>1, <2>2
<1> HIDE DEF detected
<1>8. /\ told \in Contexts
      /\ told.requests = done.requests /\ told.findings = done.findings
      /\ told.events = done.events \o detected
  <2>1. done.events \o detected \in Seq(AuditEvents)
    BY <1>6, <1>7, ContextSequences
  <2> QED BY <1>6, <2>1 DEF Contexts
<1> HIDE DEF told
<1>9. Truthful(told)
  BY <1>6, <1>7, <1>8, BalancedEvents DEF Truthful
<1> QED BY <1>9
      DEF RecordContradictions, RequestAudit, told, done, detected, noted, asked, entered

\* Planning that succeeds tells of the planner's completion.
LEMMA PlanTruthful ==
  ASSUME NEW c \in Contexts, Truthful(c)
  PROVE  Truthful(PlanRecovery(c))
<1> DEFINE asked   == RequestPlan(c)
           drafted == [asked EXCEPT !.draft = PostHumanDraft(asked)]
           option  == Record(drafted, "recovery_option_created", "RecoveryPlanner")
           created == Record(option, "draft_recommendation_created", "RecoveryPlanner")
           done    == Record(created, "expert_execution_completed", "RecoveryPlanner")
<1>1. /\ 1 \in 1 .. MaxAttempts /\ "RecoveryPlanner" \in Roles
      /\ "RecoveryPlanner" \notin FindingRoles /\ "RecoveryPlanner" \in Subjects
      /\ "recovery_option_created" \in EventTypes
      /\ "draft_recommendation_created" \in EventTypes
      /\ "expert_execution_completed" \in EventTypes
  BY MaxAttemptsAssumption DEF Roles, FindingRoles, EventTypes, Subjects
<1>2. asked \in Contexts /\ Balanced(asked, "RecoveryPlanner")
  <2>1. Unanswered(c, "RecoveryPlanner", 1)
    <3>1. \A i \in DOMAIN c.findings : c.findings[i] \in Findings
      BY ContextSequences
    <3> QED BY <1>1, <3>1 DEF Unanswered, Findings
  <2> QED BY <1>1, <2>1, RequestExpertType, BalancedRequest DEF RequestPlan
<1> HIDE DEF asked
<1>3. /\ drafted \in Contexts
      /\ drafted.requests = asked.requests /\ drafted.findings = asked.findings
      /\ drafted.events = asked.events
  <2>1. PostHumanDraft(asked) \in Recommendations
    BY <1>2, DraftType
  <2> HIDE DEF PostHumanDraft
  <2> QED BY <1>2, <2>1 DEF Contexts
<1> HIDE DEF drafted
<1>4. Balanced(drafted, "RecoveryPlanner")
  <2>1. \A request : AttemptStatus(drafted, request) = AttemptStatus(asked, request)
    BY <1>3, StatusOfFindings
  <2>2. \A role : /\ CompletedRequests(drafted, role) = CompletedRequests(asked, role)
                  /\ Completions(drafted, role) = Completions(asked, role)
    BY <1>3, <2>1 DEF CompletedRequests, Completions, EventsOf
  <2> QED BY <1>2, <2>2 DEF Balanced
<1>5. option \in Contexts /\ Balanced(option, "RecoveryPlanner")
  BY <1>1, <1>3, <1>4, RecordType, BalancedNote
<1> HIDE DEF option
<1>6. created \in Contexts /\ Balanced(created, "RecoveryPlanner")
  BY <1>1, <1>5, RecordType, BalancedNote
<1> HIDE DEF created
<1>7. done \in Contexts /\ Truthful(done)
  BY <1>1, <1>6, RecordType, BalancedCompletion
<1> HIDE DEF done
<1>8. Truthful(Transition(done, "awaiting_final_approval"))
  BY <1>7, BalancedMove DEF Truthful, Stages
<1> QED BY <1>8 DEF PlanRecovery, done, created, option, drafted, asked
=============================================================================
