---------------------------- MODULE CaseWorkflow ----------------------------
(***************************************************************************)
(* One LocalWorkflowRunner object driving one case in one process          *)
(* (src/project_recovery_council/workflow.py).  The program's own steps    *)
(* take the case from initialization through validation, triage, expert    *)
(* analysis and contradiction review; the caller then records decisions,   *)
(* resumes and approves, in any order and as often as it likes.            *)
(*                                                                         *)
(* A call whose guard fails raises and changes nothing, so it is no step   *)
(* here.  A call that raises after changing the context is a step:         *)
(* FailValidation, ExhaustAttempts and FailReview mark the case failed (the*)
(* except clause of run_until_human_gate); AbortResume and                 *)
(* AbortResumeWithDecision do not, because resuming has no such clause.    *)
(* The raise of approve_final for a missing draft is unreachable: see      *)
(* InspectorAccepts.                                                       *)
(***************************************************************************)
EXTENDS CaseContext, SequencesExt

CONSTANTS
  Adapters,          \* kinds of ExpertAdapter the runner is built with
  CallerOutcomes     \* decision outcomes callers pass

ASSUME AdaptersAssumption == Adapters \subseteq {"deterministic", "external", "custom"}
ASSUME CallerOutcomesAssumption == CallerOutcomes \subseteq Outcomes

VARIABLES
  facts,     \* the case bundle and the failure injection, fixed for a run
  adapter,   \* the ExpertAdapter, fixed for a run
  ctx,       \* runner.context
  queue,     \* selected finding experts not yet done in _run_expert_analysis
  attempt    \* local variable of _execute_finding_expert

vars == <<facts, adapter, ctx, queue, attempt>>

-----------------------------------------------------------------------------
(* What each adapter may answer.  The deterministic one fails the first    *)
(* commercial attempt when told to, and fails to plan when there is no     *)
(* contradiction to cite or the slip is negative; the external one is      *)
(* disabled and always fails; a custom one may return anything the         *)
(* contracts admit.                                                        *)

FindingAnswers(role, n) ==
  CASE adapter = "deterministic" ->
         IF role = "CommercialExpert" /\ facts.injectFailure /\ n = 1
           THEN {"failed"} ELSE {"completed"}
    [] adapter = "external" -> {"failed"}
    [] adapter = "custom"   -> FindingStatus

AuditAnswers ==
  CASE adapter = "deterministic" -> {DetectOnsiteContradictions(facts)}
    [] adapter = "external"      -> {}
    [] adapter = "custom"        -> {<<>>} \cup {<<s>> : s \in ContradictionStatus}

AuditMayFail == adapter # "deterministic"

PlanMayComplete ==
  CASE adapter = "deterministic" ->
         DetectOnsiteContradictions(facts) # <<>> /\ ~facts.slipNegative
    [] adapter = "external" -> FALSE
    [] adapter = "custom"   -> TRUE

PlanMayAbort(c) ==
  \/ "RecoveryPlanner" \notin c.selections
  \/ adapter = "custom"
  \/ ~PlanMayComplete

-----------------------------------------------------------------------------
Init ==
  /\ facts \in Facts
  /\ adapter \in Adapters
  /\ ctx = InitialContext
  /\ queue = <<>>
  /\ attempt = 1

(* Steps of run_until_human_gate *)

PassValidation ==
  /\ ctx.stage = "initialized"
  /\ ~facts.issues
  /\ ctx' = ValidateFixture(ctx, facts)
  /\ UNCHANGED <<facts, adapter, queue, attempt>>

FailValidation ==
  /\ ctx.stage = "initialized"
  /\ facts.issues
  /\ ctx' = ValidateFixture(ctx, facts)
  /\ UNCHANGED <<facts, adapter, queue, attempt>>

SelectAndTriage ==
  /\ ctx.stage = "validating"
  /\ ctx' = Triage(ctx, facts)
  /\ UNCHANGED <<facts, adapter, queue, attempt>>

BeginExpertAnalysis ==
  /\ ctx.stage = "triaging"
  /\ ctx' = Transition(ctx, "expert_analysis")
  /\ queue' = FindingQueue(ctx)
  /\ attempt' = 1
  /\ UNCHANGED <<facts, adapter>>

InAnalysis == ctx.stage = "expert_analysis" /\ queue # <<>>

CompleteExpert ==
  /\ InAnalysis
  /\ \E status \in FindingAnswers(Head(queue), attempt) \ {"failed"} :
       ctx' = ExecuteAttempt(ctx, Head(queue), attempt, status)
  /\ queue' = Tail(queue)
  /\ attempt' = 1
  /\ UNCHANGED <<facts, adapter>>

RetryExpert ==
  /\ InAnalysis
  /\ "failed" \in FindingAnswers(Head(queue), attempt)
  /\ AuthorizeRetry("failed", attempt)
  /\ ctx' = ExecuteAttempt(ctx, Head(queue), attempt, "failed")
  /\ attempt' = attempt + 1
  /\ UNCHANGED <<facts, adapter, queue>>

(* Fault: a finding expert that keeps failing is skipped.                  *)
Fault_ExhaustAttempts ==
  /\ InAnalysis
  /\ "failed" \in FindingAnswers(Head(queue), attempt)
  /\ ~AuthorizeRetry("failed", attempt)
  /\ ctx' = ExecuteAttempt(ctx, Head(queue), attempt, "failed")
  /\ queue' = Tail(queue)
  /\ attempt' = 1
  /\ UNCHANGED <<facts, adapter>>

ExhaustAttempts ==
  /\ InAnalysis
  /\ "failed" \in FindingAnswers(Head(queue), attempt)
  /\ ~AuthorizeRetry("failed", attempt)
  /\ ctx' = MarkFailed(ExecuteAttempt(ctx, Head(queue), attempt, "failed"))
  /\ queue' = <<>>
  /\ attempt' = 1
  /\ UNCHANGED <<facts, adapter>>

(* Fault: the review waits for a finding even when no finding expert was   *)
(* selected.                                                               *)
Fault_ReviewReady == ctx.stage = "expert_analysis" /\ queue = <<>> /\ ctx.findings # <<>>

ReviewReady == ctx.stage = "expert_analysis" /\ queue = <<>>

ReviewUnaudited ==
  /\ ReviewReady
  /\ "EvidenceAuditor" \notin ctx.selections
  /\ ctx' = SkipReview(ctx)
  /\ UNCHANGED <<facts, adapter, queue, attempt>>

ReviewAudited ==
  /\ ReviewReady
  /\ "EvidenceAuditor" \in ctx.selections
  /\ \E found \in AuditAnswers : ctx' = ReviewContradictions(ctx, found)
  /\ UNCHANGED <<facts, adapter, queue, attempt>>

FailReview ==
  /\ ReviewReady
  /\ "EvidenceAuditor" \in ctx.selections
  /\ AuditMayFail
  /\ ctx' = MarkFailed(RequestAudit(ctx))
  /\ UNCHANGED <<facts, adapter, queue, attempt>>

(* Calls of the user of the runner *)

SubmitDecision(d) ==
  /\ CanRecordDecision(ctx, d)
  /\ ctx' = RecordHumanDecision(ctx, d)
  /\ UNCHANGED <<facts, adapter, queue, attempt>>

(* _plan_recovery draws up the draft, or raises and leaves the case there. *)
PlanFrom(c) ==
  /\ "RecoveryPlanner" \in c.selections
  /\ PlanMayComplete
  /\ ctx' = PlanRecovery(LeaveHumanGate(c))

AbortFrom(c) == PlanMayAbort(c) /\ ctx' = AbortPlanning(LeaveHumanGate(c))

Resume ==
  /\ CanResume(ctx)
  /\ PlanFrom(ctx)
  /\ UNCHANGED <<facts, adapter, queue, attempt>>

AbortResume ==
  /\ CanResume(ctx)
  /\ AbortFrom(ctx)
  /\ UNCHANGED <<facts, adapter, queue, attempt>>

(* resume_with_human_decision: both calls, nothing in between *)
ResumeWithDecision(d) ==
  /\ CanRecordDecision(ctx, d)
  /\ PlanFrom(RecordHumanDecision(ctx, d))
  /\ UNCHANGED <<facts, adapter, queue, attempt>>

AbortResumeWithDecision(d) ==
  /\ CanRecordDecision(ctx, d)
  /\ AbortFrom(RecordHumanDecision(ctx, d))
  /\ UNCHANGED <<facts, adapter, queue, attempt>>

Approve(actor) ==
  /\ CanApprove(ctx)
  /\ ctx' = ApproveFinal(ctx, actor)
  /\ UNCHANGED <<facts, adapter, queue, attempt>>

-----------------------------------------------------------------------------
Analyse ==
  \/ PassValidation \/ FailValidation \/ SelectAndTriage \/ BeginExpertAnalysis
  \/ CompleteExpert \/ RetryExpert \/ ExhaustAttempts
  \/ ReviewUnaudited \/ ReviewAudited \/ FailReview

CallerDecisions ==
  [request : {OnsiteRequest, FinalRequest}, outcome : CallerOutcomes, by : Actors]

Call ==
  \/ Resume
  \/ AbortResume
  \/ \E d \in CallerDecisions :
       SubmitDecision(d) \/ ResumeWithDecision(d) \/ AbortResumeWithDecision(d)
  \/ \E a \in Actors : Approve(a)

Next == Analyse \/ Call

(* run_until_human_gate is one synchronous call: it runs to its end.       *)
(* Nothing obliges a caller to decide, resume or approve.                  *)
Spec == Init /\ [][Next]_vars /\ WF_vars(Analyse)

-----------------------------------------------------------------------------
(* Properties *)

\* Every variable has its type: in particular no expert is asked more often
\* than MaxAttempts and every event, request and finding is well formed.
TypeOK ==
  /\ facts \in Facts
  /\ adapter \in Adapters
  /\ ctx \in Contexts
  /\ queue \in Seq(FindingRoles)
  /\ attempt \in 1 .. MaxAttempts

\* A recommendation is authorized only when the case went through the human
\* gate: every human request is answered and has a recorded decision, there
\* was one, somebody approved, and no contradiction the recommendation
\* carries is still unresolved (approve_final and its callers).
AuthorizationGoverned ==
  ctx.final.status = "authorized" =>
    /\ ctx.humanRequests # <<>>
    /\ Pending(ctx) = {}
    /\ \A i \in DOMAIN ctx.humanRequests : ctx.humanRequests[i].id \in DecidedIds(ctx)
    /\ \E i \in DOMAIN ctx.decisions :
          ctx.decisions[i].request = FinalRequest /\ ctx.decisions[i].outcome = "approved"
    /\ ~ctx.final.humanRequired
    /\ \A i \in DOMAIN ctx.final.contradictions : ctx.final.contradictions[i] = "resolved"

(* Every event of type later comes after one of type earlier.              *)
Precedes(earlier, later) ==
  \A i \in EventsOf(ctx, later) : \E j \in EventsOf(ctx, earlier) : j < i

AtMostOnce(type) == Cardinality(EventsOf(ctx, type)) <= 1

\* The audit trail itself proves the governance: request, human decision,
\* draft, approval, final recommendation and completion appear in this order
\* and at most once each, and no request has two decisions, whatever calls were
\* made and in which order.
GovernanceOrder ==
  /\ Precedes("human_decision_requested", "human_decision_received")
  /\ Precedes("human_decision_received", "draft_recommendation_created")
  /\ Precedes("draft_recommendation_created", "final_approval_recorded")
  /\ Precedes("final_approval_recorded", "final_recommendation_created")
  /\ Precedes("final_recommendation_created", "case_completed")
  /\ \A type \in {"human_decision_received", "draft_recommendation_created",
                   "final_approval_recorded", "case_completed"} : AtMostOnce(type)
  /\ \A i, j \in DOMAIN ctx.decisions :
       ctx.decisions[i].request = ctx.decisions[j].request => i = j

\* The rules `inspect` applies to a persisted state hold of the context after
\* every step: pending requests exist exactly while a human is awaited, a case
\* awaiting approval has a pending draft, a completed one its approval
\* (_validate_state_consistency in artifacts.py).
InspectorAccepts == StateConsistent(ctx)

\* The stages replayed from the audit trail (completed_stages in the persisted
\* state) form a legal path of VALID_TRANSITIONS that ends in the current stage.
StageTrailLegal ==
  LET trail == <<"initialized">> \o CompletedStages(ctx)
  IN  /\ trail[Len(trail)] = ctx.stage
      /\ \A i \in 1 .. Len(trail) - 1 : trail[i + 1] \in ValidTransitions[trail[i]]

\* Retries: an expert is asked again only after its previous attempt failed,
\* returns at most one finding that is not a failure, and no case gets past
\* expert analysis while a selected expert has none.
RetryDiscipline ==
  LET Answered(role) ==
        {i \in DOMAIN ctx.findings :
           ctx.findings[i].role = role /\ ctx.findings[i].status # "failed"}
  IN  /\ \A i \in DOMAIN ctx.requests :
           ctx.requests[i].attempt > 1 =>
             \E j \in DOMAIN ctx.findings :
               /\ ctx.findings[j].role = ctx.requests[i].role
               /\ ctx.findings[j].attempt = ctx.requests[i].attempt - 1
               /\ ctx.findings[j].status = "failed"
      /\ \A role \in FindingRoles : Cardinality(Answered(role)) <= 1
      /\ ctx.stage \in {"awaiting_human_decision", "recovery_planning",
                        "awaiting_final_approval", "completed"} =>
           \A role \in ctx.selections \cap FindingRoles : Answered(role) # {}

\* Evidence is only ever added: no step drops or rewrites an audit event, an
\* expert request, a finding (a failed attempt stays beside its retry) or a
\* human decision.
EvidenceAppendOnly ==
  [][/\ IsPrefix(ctx.events, ctx'.events)
     /\ IsPrefix(ctx.requests, ctx'.requests)
     /\ IsPrefix(ctx.findings, ctx'.findings)
     /\ IsPrefix(ctx.decisions, ctx'.decisions)]_vars

\* run_until_human_gate ends: the case reaches the human gate, recovery
\* planning or failure, whatever the experts answer.
AnalysisSettles ==
  <>(ctx.stage \in {"awaiting_human_decision", "recovery_planning", "failed"})

(* The abstract promise, read off the context *)
DecidersOf(id) ==
  {ctx.decisions[i].by : i \in {k \in DOMAIN ctx.decisions : ctx.decisions[k].request = id}}

AbstractPhase ==
  CASE ctx.stage = "awaiting_human_decision" -> "gated"
    [] ctx.stage = "recovery_planning"       -> "planning"
    [] ctx.stage = "awaiting_final_approval" -> "drafted"
    [] ctx.stage = "completed"               -> "authorized"
    [] ctx.stage = "failed"                  -> "abandoned"
    [] OTHER                                 -> "open"

Governed == INSTANCE GovernedCase WITH phase     <- AbstractPhase,
                                       deciders  <- DecidersOf(OnsiteRequest),
                                       approvers <- DecidersOf(FinalRequest)

\* The runner implements the abstract promise: gate, one answer, plan from the
\* answer, one approval, in that order and with the people on record.
ImplementsGovernedCase == Governed!Spec

(* Two statements the documentation makes and the code does not keep *)

\* docs/ARCHITECTURE.md: unresolved contradictions create a human request and
\* pause the workflow.  A contradiction the detector finds in the case bundle
\* is put to a human before the case reaches planning.
DetectedContradictionGated ==
  (adapter = "deterministic" /\ DetectOnsiteContradictions(facts) # <<>>
     /\ ctx.stage = "recovery_planning") => ctx.humanRequests # <<>>

\* docs/ARCHITECTURE.md: human confirmation gates block final authorization
\* when evidence conflicts.  An authorized recommendation rests on a human
\* decision that confirmed something.
AuthorizationConfirmed ==
  ctx.final.status = "authorized" =>
    \E i \in DOMAIN ctx.decisions :
      ctx.decisions[i].request = OnsiteRequest /\ ctx.decisions[i].outcome = "confirmed"
=============================================================================
