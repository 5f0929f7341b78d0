------------------------- MODULE CaseWorkflow_proofs -------------------------
(***************************************************************************)
(* Proofs about CaseWorkflow, for every set of actors, every set of        *)
(* adapters and every retry budget: the types, the human gate, and what a  *)
(* case leaves behind.  Evidence is only ever added, the stages on record  *)
(* form a legal path, the governance events come in order, retries follow  *)
(* failures, and the runner implements the abstract promise of             *)
(* GovernedCase.  Each history property survives the links that            *)
(* CaseContext_proofs finds in the operations; a step keeps it because its *)
(* links do.                                                               *)
(***************************************************************************)
EXTENDS CaseWorkflow, CaseContext_proofs

-----------------------------------------------------------------------------
(* The inductive invariant *)

GateInvariant == GateShape(ctx)

IInv == TypeOK /\ GateInvariant

\* The initial state has an empty, ungated context.
LEMMA InitIInv == Init => IInv
<1> SUFFICES ASSUME Init PROVE IInv
  OBVIOUS
<1>1. InitialContext \in Contexts /\ GateShape(InitialContext)
  BY InitialShape
<1>2. 1 \in 1 .. MaxAttempts /\ <<>> \in Seq(FindingRoles)
  BY MaxAttemptsAssumption
<1> QED BY <1>1, <1>2 DEF Init, IInv, TypeOK, GateInvariant

\* The status sets the adapters choose from.
LEMMA AnswersType ==
  ASSUME NEW role, NEW n, adapter \in {"deterministic", "external", "custom"}
  PROVE  /\ FindingAnswers(role, n) \subseteq FindingStatus
         /\ AuditAnswers \subseteq Seq(ContradictionStatus)
<1>1. "failed" \in FindingStatus /\ "completed" \in FindingStatus
  BY DEF FindingStatus
<1>2. FindingAnswers(role, n) \subseteq FindingStatus
  BY <1>1 DEF FindingAnswers
<1>3. DetectOnsiteContradictions(facts) \in Seq(ContradictionStatus)
  <2>1. <<"unresolved">> \in Seq(ContradictionStatus) /\ <<>> \in Seq(ContradictionStatus)
    BY DEF ContradictionStatus
  <2> QED BY <2>1 DEF DetectOnsiteContradictions
<1>4. {<<>>} \cup {<<s>> : s \in ContradictionStatus} \subseteq Seq(ContradictionStatus)
  <2>1. \A s \in ContradictionStatus : <<s>> \in Seq(ContradictionStatus)
    OBVIOUS
  <2>2. <<>> \in Seq(ContradictionStatus)
    OBVIOUS
  <2> QED BY <2>1, <2>2
<1>5. AuditAnswers \subseteq Seq(ContradictionStatus)
  BY <1>3, <1>4 DEF AuditAnswers
<1> QED BY <1>2, <1>5

\* A case marked failed during analysis stays ungated.
LEMMA FailedShape ==
  ASSUME NEW c \in Contexts, NEW d \in Contexts, GateShape(c), c.stage \in EarlyStages,
         SameGovernance(c, d)
  PROVE  MarkFailed(d) \in Contexts /\ GateShape(MarkFailed(d))
<1>1. MarkFailed(d) \in Contexts /\ MarkFailed(d).stage = "failed"
        /\ SameGovernance(d, MarkFailed(d))
  BY MarkFailedType, MarkFailedFrame
<1>2. SameGovernance(c, MarkFailed(d)) /\ MarkFailed(d).stage \in EarlyStages
  BY <1>1 DEF SameGovernance, EarlyStages
<1> QED BY <1>1, <1>2, EarlyShape

\* Every step of the runner and every call preserves the invariant.
LEMMA NextIInv == IInv /\ [Next]_vars => IInv'
<1> SUFFICES ASSUME IInv, [Next]_vars PROVE IInv'
  OBVIOUS
<1> USE DEF IInv, GateInvariant
<1>t. /\ facts \in Facts
      /\ adapter \in Adapters
      /\ ctx \in Contexts
      /\ queue \in Seq(FindingRoles)
      /\ attempt \in 1 .. MaxAttempts
      /\ GateShape(ctx)
      /\ adapter \in {"deterministic", "external", "custom"}
  BY AdaptersAssumption DEF TypeOK
<1>n. 1 \in 1 .. MaxAttempts /\ <<>> \in Seq(FindingRoles) /\ MaxAttempts \in Nat
  BY MaxAttemptsAssumption
<1>h. ASSUME queue # <<>>
      PROVE  Head(queue) \in FindingRoles /\ Tail(queue) \in Seq(FindingRoles)
  BY <1>t, <1>h
(* What is left to show once the action has been seen to leave the case     *)
(* bundle and the adapter alone.                                            *)
<1>s. ASSUME ctx' \in Contexts, GateShape(ctx'), UNCHANGED <<facts, adapter>>,
             queue' \in Seq(FindingRoles), attempt' \in 1 .. MaxAttempts
      PROVE  IInv'
  BY <1>t, <1>s DEF TypeOK
<1> HIDE DEF IInv, GateInvariant
<1>e. \A stage \in {"initialized", "validating", "triaging", "expert_analysis"} :
         stage \in EarlyStages
  BY DEF EarlyStages
<1>1. ASSUME PassValidation \/ FailValidation PROVE IInv'
  <2>1. /\ ctx.stage = "initialized"
        /\ ctx' = ValidateFixture(ctx, facts)
        /\ UNCHANGED <<facts, adapter, queue, attempt>>
    BY <1>1 DEF PassValidation, FailValidation
  <2>2. ctx' \in Contexts
    BY <1>t, <2>1, ValidateFixtureType
  <2>3. SameGovernance(ctx, ctx') /\ ctx'.stage \in EarlyStages
    BY <1>t, <2>1, ValidateFixtureFrame DEF EarlyStages
  <2>4. GateShape(ctx')
    BY <1>t, <1>e, <2>1, <2>2, <2>3, EarlyShape
  <2> QED BY <1>t, <1>s, <2>1, <2>2, <2>4
<1>2. ASSUME SelectAndTriage PROVE IInv'
  <2>1. /\ ctx.stage = "validating"
        /\ ctx' = Triage(ctx, facts)
        /\ UNCHANGED <<facts, adapter, queue, attempt>>
    BY <1>2 DEF SelectAndTriage
  <2>2. ctx' \in Contexts
    BY <1>t, <2>1, TriageType
  <2>3. SameGovernance(ctx, ctx') /\ ctx'.stage \in EarlyStages
    BY <1>t, <2>1, TriageFrame DEF EarlyStages
  <2>4. GateShape(ctx')
    BY <1>t, <1>e, <2>1, <2>2, <2>3, EarlyShape
  <2> QED BY <1>t, <1>s, <2>1, <2>2, <2>4
<1>3. ASSUME BeginExpertAnalysis PROVE IInv'
  <2>1. /\ ctx.stage = "triaging"
        /\ ctx' = Transition(ctx, "expert_analysis")
        /\ queue' = FindingQueue(ctx)
        /\ attempt' = 1
        /\ UNCHANGED <<facts, adapter>>
    BY <1>3 DEF BeginExpertAnalysis
  <2>2. ctx' \in Contexts /\ SameGovernance(ctx, ctx') /\ ctx'.stage \in EarlyStages
    BY <1>t, <2>1, TransitionType, TransitionFrame DEF EarlyStages, Stages
  <2>3. GateShape(ctx')
    BY <1>t, <1>e, <2>1, <2>2, EarlyShape
  <2>4. queue' \in Seq(FindingRoles)
    BY <1>t, <2>1, FindingQueueType
  <2> QED BY <1>n, <1>s, <2>1, <2>2, <2>3, <2>4
<1>4. ASSUME CompleteExpert PROVE IInv'
  <2>1. /\ ctx.stage = "expert_analysis"
        /\ queue # <<>>
        /\ queue' = Tail(queue)
        /\ attempt' = 1
        /\ UNCHANGED <<facts, adapter>>
    BY <1>4 DEF CompleteExpert, InAnalysis
  <2>2. PICK status \in FindingAnswers(Head(queue), attempt) :
          ctx' = ExecuteAttempt(ctx, Head(queue), attempt, status)
    BY <1>4 DEF CompleteExpert
  <2>3. status \in FindingStatus /\ Head(queue) \in FindingRoles
    BY <1>t, <1>h, <2>1, AnswersType
  <2>4. /\ ctx' \in Contexts
        /\ SameGovernance(ctx, ctx')
        /\ ctx'.stage = ctx.stage
    BY <1>t, <2>2, <2>3, ExecuteAttemptType, ExecuteAttemptFrame
  <2>5. GateShape(ctx')
    BY <1>t, <1>e, <2>1, <2>4, EarlyShape
  <2> QED BY <1>n, <1>h, <1>s, <2>1, <2>4, <2>5
<1>5. ASSUME RetryExpert PROVE IInv'
  <2>1. /\ ctx.stage = "expert_analysis"
        /\ queue # <<>>
        /\ attempt < MaxAttempts
        /\ ctx' = ExecuteAttempt(ctx, Head(queue), attempt, "failed")
        /\ attempt' = attempt + 1
        /\ UNCHANGED <<facts, adapter, queue>>
    BY <1>5 DEF RetryExpert, InAnalysis, AuthorizeRetry
  <2>2. "failed" \in FindingStatus /\ Head(queue) \in FindingRoles
    BY <1>h, <2>1 DEF FindingStatus
  <2>3. /\ ctx' \in Contexts
        /\ SameGovernance(ctx, ctx')
        /\ ctx'.stage = ctx.stage
    BY <1>t, <2>1, <2>2, ExecuteAttemptType, ExecuteAttemptFrame
  <2>4. GateShape(ctx')
    BY <1>t, <1>e, <2>1, <2>3, EarlyShape
  <2>5. attempt' \in 1 .. MaxAttempts
    BY <1>t, <1>n, <2>1
  <2> QED BY <1>t, <1>s, <2>1, <2>3, <2>4, <2>5
<1>6. ASSUME ExhaustAttempts PROVE IInv'
  <2> DEFINE last == ExecuteAttempt(ctx, Head(queue), attempt, "failed")
  <2>1. /\ ctx.stage = "expert_analysis"
        /\ queue # <<>>
        /\ ctx' = MarkFailed(last)
        /\ queue' = <<>>
        /\ attempt' = 1
        /\ UNCHANGED <<facts, adapter>>
    BY <1>6 DEF ExhaustAttempts, InAnalysis
  <2>2. "failed" \in FindingStatus /\ Head(queue) \in FindingRoles
    BY <1>h, <2>1 DEF FindingStatus
  <2>3. last \in Contexts /\ SameGovernance(ctx, last)
    BY <1>t, <2>2, ExecuteAttemptType, ExecuteAttemptFrame
  <2> HIDE DEF last
  <2>4. ctx' \in Contexts /\ GateShape(ctx')
    BY <1>t, <1>e, <2>1, <2>3, FailedShape
  <2> QED BY <1>n, <1>s, <2>1, <2>4
<1>7. ASSUME ReviewUnaudited PROVE IInv'
  <2>1. /\ ctx.stage = "expert_analysis"
        /\ ctx' = SkipReview(ctx)
        /\ UNCHANGED <<facts, adapter, queue, attempt>>
    BY <1>7 DEF ReviewUnaudited, ReviewReady
  <2>2. ctx' \in Contexts /\ GateShape(ctx')
    BY <1>t, <2>1, SkipReviewType, SkipReviewShape
  <2> QED BY <1>t, <1>s, <2>1, <2>2
<1>8. ASSUME ReviewAudited PROVE IInv'
  <2>1. /\ ctx.stage = "expert_analysis"
        /\ UNCHANGED <<facts, adapter, queue, attempt>>
    BY <1>8 DEF ReviewAudited, ReviewReady
  <2>2. PICK found \in AuditAnswers : ctx' = ReviewContradictions(ctx, found)
    BY <1>8 DEF ReviewAudited
  <2>3. found \in Seq(ContradictionStatus)
    BY <1>t, <2>2, AnswersType
  <2>4. ctx' \in Contexts /\ GateShape(ctx')
    BY <1>t, <2>1, <2>2, <2>3, ReviewContradictionsType, ReviewContradictionsShape
  <2> QED BY <1>t, <1>s, <2>1, <2>4
<1>9. ASSUME FailReview PROVE IInv'
  <2>1. /\ ctx.stage = "expert_analysis"
        /\ ctx' = MarkFailed(RequestAudit(ctx))
        /\ UNCHANGED <<facts, adapter, queue, attempt>>
    BY <1>9 DEF FailReview, ReviewReady
  <2>2. RequestAudit(ctx) \in Contexts /\ SameGovernance(ctx, RequestAudit(ctx))
    BY <1>t, RequestAuditType, RequestAuditFrame
  <2>3. ctx' \in Contexts /\ GateShape(ctx')
    BY <1>t, <1>e, <2>1, <2>2, FailedShape
  <2> QED BY <1>t, <1>s, <2>1, <2>3
<1>10. ASSUME NEW c \in Contexts, GateShape(c), c.stage = "awaiting_human_decision",
              OnsiteRequest \in DecidedIds(c), PlanFrom(c) \/ AbortFrom(c),
              UNCHANGED <<facts, adapter, queue, attempt>>
       PROVE  IInv'
  <2>1. InPlanning(LeaveHumanGate(c))
    BY <1>10, LeaveHumanGateShape
  <2>2. ctx' = PlanRecovery(LeaveHumanGate(c)) \/ ctx' = AbortPlanning(LeaveHumanGate(c))
    BY <1>10 DEF PlanFrom, AbortFrom
  <2>3. ctx' \in Contexts /\ GateShape(ctx')
    BY <2>1, <2>2, PlanRecoveryShape, AbortPlanningShape
  <2> QED BY <1>t, <1>s, <1>10, <2>3
<1>11. ASSUME Resume \/ AbortResume PROVE IInv'
  <2>1. /\ CanResume(ctx)
        /\ PlanFrom(ctx) \/ AbortFrom(ctx)
        /\ UNCHANGED <<facts, adapter, queue, attempt>>
    BY <1>11 DEF Resume, AbortResume
  <2>2. ctx.stage = "awaiting_human_decision" /\ LastPending(ctx) \in DecidedIds(ctx)
    BY <2>1 DEF CanResume
  <2>3. LastPending(ctx) = OnsiteRequest
    BY <1>t, <2>2, AnswerGate
  <2> QED BY <1>t, <1>10, <2>1, <2>2, <2>3
<1>12. ASSUME NEW d \in CallerDecisions, SubmitDecision(d) PROVE IInv'
  <2>1. /\ CanRecordDecision(ctx, d)
        /\ ctx' = RecordHumanDecision(ctx, d)
        /\ UNCHANGED <<facts, adapter, queue, attempt>>
    BY <1>12 DEF SubmitDecision
  <2>2. d \in Decisions
    BY CallerOutcomesAssumption DEF CallerDecisions, Decisions
  <2>3. ctx' \in Contexts /\ GateShape(ctx')
    BY <1>t, <2>1, <2>2, RecordHumanDecisionShape
  <2> QED BY <1>t, <1>s, <2>1, <2>3
<1>13. ASSUME NEW d \in CallerDecisions, ResumeWithDecision(d) \/ AbortResumeWithDecision(d)
       PROVE  IInv'
  <2> DEFINE told == RecordHumanDecision(ctx, d)
  <2>1. /\ CanRecordDecision(ctx, d)
        /\ PlanFrom(told) \/ AbortFrom(told)
        /\ UNCHANGED <<facts, adapter, queue, attempt>>
    BY <1>13 DEF ResumeWithDecision, AbortResumeWithDecision
  <2>2. d \in Decisions
    BY CallerOutcomesAssumption DEF CallerDecisions, Decisions
  <2>3. /\ told \in Contexts
        /\ GateShape(told)
        /\ told.stage = "awaiting_human_decision"
        /\ OnsiteRequest \in DecidedIds(told)
    BY <1>t, <2>1, <2>2, RecordHumanDecisionShape
  <2> HIDE DEF told
  <2> QED BY <1>10, <2>1, <2>3
<1>14. ASSUME NEW a \in Actors, Approve(a) PROVE IInv'
  <2>1. /\ CanApprove(ctx)
        /\ ctx' = ApproveFinal(ctx, a)
        /\ UNCHANGED <<facts, adapter, queue, attempt>>
    BY <1>14 DEF Approve
  <2>2. ctx' \in Contexts /\ GateShape(ctx')
    BY <1>t, <2>1, ApproveFinalShape
  <2> QED BY <1>t, <1>s, <2>1, <2>2
<1>15. ASSUME UNCHANGED vars PROVE IInv'
  BY <1>t, <1>s, <1>15 DEF vars
<1> QED
  BY <1>1, <1>2, <1>3, <1>4, <1>5, <1>6, <1>7, <1>8, <1>9, <1>11, <1>12, <1>13, <1>14, <1>15
  DEF Next, Analyse, Call

\* The shape of the gate implies that authorization is governed.
LEMMA IInvAuthorization == IInv => AuthorizationGoverned
<1> SUFFICES ASSUME IInv, ctx.final.status = "authorized"
             PROVE  /\ ctx.humanRequests # <<>>
                    /\ Pending(ctx) = {}
                    /\ \A i \in DOMAIN ctx.humanRequests :
                          ctx.humanRequests[i].id \in DecidedIds(ctx)
                    /\ \E i \in DOMAIN ctx.decisions :
                          /\ ctx.decisions[i].request = FinalRequest
                          /\ ctx.decisions[i].outcome = "approved"
                    /\ ~ctx.final.humanRequired
                    /\ \A i \in DOMAIN ctx.final.contradictions :
                          ctx.final.contradictions[i] = "resolved"
  BY DEF AuthorizationGoverned
<1>1. ctx \in Contexts /\ GateShape(ctx)
  BY DEF IInv, TypeOK, GateInvariant
<1>2. Answered(ctx) /\ Drafted(ctx) /\ Approved(ctx)
  BY <1>1, AuthorizedShape
<1>3. /\ ctx.humanRequests = <<[id |-> OnsiteRequest, status |-> "answered"]>>
      /\ OnsiteRequest \in DecidedIds(ctx)
  BY <1>2 DEF Answered, Gate
<1>4. ctx.humanRequests # <<>> /\ Pending(ctx) = {}
        /\ \A i \in DOMAIN ctx.humanRequests : ctx.humanRequests[i].id \in DecidedIds(ctx)
  BY <1>3 DEF Pending
<1>5. ctx.draft \in Recommendations
  BY <1>1 DEF Contexts
<1>6. /\ ctx.final.humanRequired = ctx.draft.humanRequired
      /\ ctx.final.contradictions = ctx.draft.contradictions
  BY <1>2, <1>5 DEF Approved, Recommendations
<1> QED BY <1>2, <1>4, <1>6 DEF Approved, Drafted

\* The shape of the gate implies the inspector's rules.
LEMMA IInvInspector == IInv => InspectorAccepts
BY ShapeConsistent DEF IInv, TypeOK, GateInvariant, InspectorAccepts

-----------------------------------------------------------------------------
\* Every reachable state is well typed: no expert is ever asked more than
\* MaxAttempts times, for any retry budget and any set of people.
THEOREM TypeCorrect == Spec => []TypeOK
<1>1. IInv => TypeOK
  BY DEF IInv
<1> QED BY InitIInv, NextIInv, <1>1, PTL DEF Spec

\* No recommendation is authorized without the answered human gate, the
\* recorded decision and the approval, whatever calls are made.
THEOREM AuthorizationIsGoverned == Spec => []AuthorizationGoverned
BY InitIInv, NextIInv, IInvAuthorization, PTL DEF Spec

\* The rules of `inspect` hold of the context in every reachable state.
THEOREM InspectorAlwaysAccepts == Spec => []InspectorAccepts
BY InitIInv, NextIInv, IInvInspector, PTL DEF Spec
-----------------------------------------------------------------------------
(* What the audit trail holds, by stage and by decision *)

OnRecord(c) ==
  /\ c.stage = "awaiting_human_decision" => Has(c, "human_decision_requested")
  /\ Has(c, "human_decision_received") <=> OnsiteRequest \in DecidedIds(c)
  /\ Has(c, "draft_recommendation_created") <=> c.stage \in PlannedStages
  /\ c.stage # "completed" => ~Has(c, "final_approval_recorded") /\ ~Has(c, "case_completed")
  /\ DecidedOnce(c)

Ledger(c) == OnRecord(c) /\ Order(c) /\ StageWalk(c)

(* The experts' work: what is asked, answered and still to do.             *)
AnsweredBy(c, role) ==
  {i \in DOMAIN c.findings : c.findings[i].role = role /\ c.findings[i].status # "failed"}

FailedBefore(c, role, n) ==
  \E j \in DOMAIN c.findings :
    c.findings[j].role = role /\ c.findings[j].attempt = n - 1 /\ c.findings[j].status = "failed"

ReviewedStages == {"awaiting_human_decision", "recovery_planning",
                   "awaiting_final_approval", "completed"}

RetriesFounded(c) ==
  \A i \in DOMAIN c.requests :
    c.requests[i].attempt > 1 => FailedBefore(c, c.requests[i].role, c.requests[i].attempt)

AnsweredOnce(c) == \A role \in FindingRoles : \A i, j \in AnsweredBy(c, role) : i = j

Distinct(q) == \A i, j \in DOMAIN q : q[i] = q[j] => i = j
Occurs(x, q) == \E k \in DOMAIN q : q[k] = x

InHand(c, q, n) ==
  /\ Distinct(q)
  /\ \A k \in DOMAIN q : AnsweredBy(c, q[k]) = {}
  /\ \A role \in c.selections \cap FindingRoles :
       AnsweredBy(c, role) # {} \/ Occurs(role, q)
  /\ n > 1 => q # <<>> /\ FailedBefore(c, Head(q), n)

Work(c, q, n) ==
  /\ RetriesFounded(c)
  /\ AnsweredOnce(c)
  /\ c.stage \in {"initialized", "validating", "triaging"} =>
       c.findings = <<>> /\ c.requests = <<>>
  /\ c.stage = "expert_analysis" => InHand(c, q, n)
  /\ c.stage \in ReviewedStages =>
       \A role \in c.selections \cap FindingRoles : AnsweredBy(c, role) # {}

HistoryInvariant == Ledger(ctx) /\ Work(ctx, queue, attempt)

\* The ledger survives a link that decides nothing: requesting a human,
\* drafting, and everything that adds no governance event.
LEMMA LedgerKept ==
  ASSUME NEW c \in Contexts, NEW d, NEW types, Ledger(c), Link(c, d, types),
         types \subseteq {"human_decision_requested", "draft_recommendation_created"},
         d.decisions = c.decisions,
         d.stage = "awaiting_human_decision" =>
           c.stage = "awaiting_human_decision" \/ "human_decision_requested" \in types,
         c.stage \notin PlannedStages,
         d.stage \in PlannedStages <=> "draft_recommendation_created" \in types,
         d.stage # "completed"
  PROVE  Ledger(d)
<1>1. \A type \in GovernanceTypes : Has(d, type) <=> Has(c, type) \/ type \in types
  BY DEF Link
<1>2. c.stage # "completed"
  BY DEF PlannedStages
<1>3. Has(d, "human_decision_requested") <=>
        Has(c, "human_decision_requested") \/ "human_decision_requested" \in types
  BY <1>1 DEF GovernanceTypes
<1>4. Has(d, "human_decision_received") <=> Has(c, "human_decision_received")
  BY <1>1 DEF GovernanceTypes
<1>5. Has(d, "draft_recommendation_created") <=>
        Has(c, "draft_recommendation_created") \/ "draft_recommendation_created" \in types
  BY <1>1 DEF GovernanceTypes
<1>6. Has(d, "final_approval_recorded") <=> Has(c, "final_approval_recorded")
  BY <1>1 DEF GovernanceTypes
<1>7. Has(d, "case_completed") <=> Has(c, "case_completed")
  BY <1>1 DEF GovernanceTypes
<1>8. DecidedIds(d) = DecidedIds(c) /\ (DecidedOnce(c) => DecidedOnce(d))
  BY DEF DecidedIds, DecidedOnce
<1>9. OnRecord(d)
  BY <1>2, <1>3, <1>4, <1>5, <1>6, <1>7, <1>8 DEF Ledger, OnRecord
<1> QED BY <1>9 DEF Ledger, Link

\* A decision at the gate comes in its turn and keeps the ledger.
LEMMA LedgerDecided ==
  ASSUME NEW c \in Contexts, NEW x \in Decisions, Ledger(c), GateShape(c),
         CanRecordDecision(c, x)
  PROVE  /\ Ledger(RecordHumanDecision(c, x))
         /\ Link(c, RecordHumanDecision(c, x), {"human_decision_received"})
         /\ WorkKept(c, RecordHumanDecision(c, x))
<1> DEFINE d == RecordHumanDecision(c, x)
<1>1. /\ c.stage = "awaiting_human_decision"
      /\ x.request = OnsiteRequest
      /\ OnsiteRequest \notin DecidedIds(c)
  BY DecisionSubject
<1>2. InTurn(c, "human_decision_received")
  BY <1>1 DEF InTurn, Ledger, OnRecord
<1>3. Link(c, d, {"human_decision_received"}) /\ WorkKept(c, d)
  BY <1>2, RecordHumanDecisionLink
<1>4. /\ d \in Contexts
      /\ d.stage = c.stage
      /\ d.decisions = Append(c.decisions, x)
  BY RecordHumanDecisionFrame
<1> HIDE DEF d
<1>5. DecidedIds(d) = DecidedIds(c) \cup {OnsiteRequest}
  BY <1>1, <1>4, DecidedAppend
<1>6. DecidedOnce(d)
  BY <1>1, <1>4, DecidedOnceAppend DEF Ledger, OnRecord
<1>7. \A type \in GovernanceTypes :
         Has(d, type) <=> Has(c, type) \/ type = "human_decision_received"
  BY <1>3 DEF Link
<1>8. /\ Has(d, "human_decision_requested") <=> Has(c, "human_decision_requested")
      /\ Has(d, "human_decision_received")
      /\ Has(d, "draft_recommendation_created") <=> Has(c, "draft_recommendation_created")
      /\ Has(d, "final_approval_recorded") <=> Has(c, "final_approval_recorded")
      /\ Has(d, "case_completed") <=> Has(c, "case_completed")
  BY <1>7 DEF GovernanceTypes
<1>9. OnRecord(d)
  BY <1>1, <1>4, <1>5, <1>6, <1>8 DEF Ledger, OnRecord
<1>10. Ledger(d)
  BY <1>3, <1>9 DEF Ledger, Link
<1> QED BY <1>3, <1>10 DEF d

\* An approval comes in its turn and keeps the ledger.
LEMMA LedgerApproved ==
  ASSUME NEW c \in Contexts, NEW actor \in Actors, Ledger(c), GateShape(c),
         c.stage = "awaiting_final_approval"
  PROVE  Ledger(ApproveFinal(c, actor))
<1> DEFINE x == [request |-> FinalRequest, outcome |-> "approved", by |-> actor]
           d == ApproveFinal(c, actor)
           types == {"final_approval_recorded", "final_recommendation_created", "case_completed"}
<1>1. /\ Has(c, "draft_recommendation_created")
      /\ ~Has(c, "final_approval_recorded")
      /\ ~Has(c, "case_completed")
  BY DEF Ledger, OnRecord, PlannedStages
<1>2. /\ Link(c, d, types)
      /\ d.decisions = Append(c.decisions, x)
      /\ d.stage = "completed"
  BY <1>1, ApproveFinalLink
<1>3. x \in Decisions /\ x.request = FinalRequest
  BY DEF Decisions, Outcomes
<1> HIDE DEF d, x
<1>4. d \in Contexts
  BY <1>2 DEF Link
<1>5. FinalRequest \notin DecidedIds(c) /\ OnsiteRequest # FinalRequest
  BY DEF GateShape, OnsiteRequest, FinalRequest
<1>6. DecidedIds(d) = DecidedIds(c) \cup {FinalRequest} /\ DecidedOnce(d)
  BY <1>2, <1>3, <1>4, <1>5, DecidedAppend, DecidedOnceAppend DEF Ledger, OnRecord
<1>7. \A type \in GovernanceTypes : Has(d, type) <=> Has(c, type) \/ type \in types
  BY <1>2 DEF Link
<1>8. /\ Has(d, "human_decision_received") <=> Has(c, "human_decision_received")
      /\ Has(d, "draft_recommendation_created")
  BY <1>1, <1>7 DEF GovernanceTypes
<1>9. OnRecord(d)
  BY <1>2, <1>5, <1>6, <1>8 DEF Ledger, OnRecord, PlannedStages
<1> QED BY <1>2, <1>9 DEF Ledger, Link, d

\* Asking no finding expert anew keeps the retries founded and the answers.
LEMMA WorkKeptFacts ==
  ASSUME NEW c \in Contexts, NEW d \in Contexts, WorkKept(c, d), RetriesFounded(c)
  PROVE  /\ RetriesFounded(d)
         /\ \A role : AnsweredBy(d, role) = AnsweredBy(c, role)
<1>1. \A role : AnsweredBy(d, role) = AnsweredBy(c, role)
  BY DEF WorkKept, AnsweredBy
<1>2. \A role, n : FailedBefore(d, role, n) <=> FailedBefore(c, role, n)
  BY DEF WorkKept, FailedBefore
<1>3. /\ Len(c.requests) \in Nat /\ Len(d.requests) \in Nat
      /\ DOMAIN c.requests = 1 .. Len(c.requests)
      /\ DOMAIN d.requests = 1 .. Len(d.requests)
  BY ContextSequences, LenProperties
<1>4. ASSUME NEW i \in DOMAIN d.requests, d.requests[i].attempt > 1
      PROVE  FailedBefore(d, d.requests[i].role, d.requests[i].attempt)
  <2>1. ~(i > Len(c.requests))
    BY <1>3, <1>4 DEF WorkKept
  <2>2. i \in 1 .. Len(c.requests) /\ d.requests[i] = c.requests[i]
    BY <1>3, <1>4, <2>1 DEF WorkKept, Continues
  <2> QED BY <1>2, <1>3, <1>4, <2>2 DEF RetriesFounded
<1> QED BY <1>1, <1>4 DEF RetriesFounded

\* The work survives what only reviews, plans, decides or fails.
LEMMA WorkReviewed ==
  ASSUME NEW c \in Contexts, NEW d \in Contexts, NEW q, NEW n, Work(c, q, n), WorkKept(c, d),
         \/ c.stage = "expert_analysis" /\ q = <<>>
         \/ c.stage \in ReviewedStages,
         d.stage \in ReviewedStages \cup {"failed"}
  PROVE  Work(d, q, n)
<1>1. RetriesFounded(d) /\ \A role : AnsweredBy(d, role) = AnsweredBy(c, role)
  BY WorkKeptFacts DEF Work
<1>2. AnsweredOnce(d)
  BY <1>1 DEF AnsweredOnce, Work
<1>3. \A role \in c.selections \cap FindingRoles : AnsweredBy(c, role) # {}
  <2>1. CASE c.stage = "expert_analysis" /\ q = <<>>
    <3>1. InHand(c, q, n)
      BY <2>1 DEF Work
    <3> QED BY <2>1, <3>1 DEF InHand, Occurs
  <2>2. CASE c.stage \in ReviewedStages
    BY <2>2 DEF Work
  <2> QED BY <2>1, <2>2
<1>4. \A role \in d.selections \cap FindingRoles : AnsweredBy(d, role) # {}
  BY <1>1, <1>3 DEF WorkKept
<1> QED BY <1>1, <1>2, <1>4 DEF Work, ReviewedStages

-----------------------------------------------------------------------------
(* The finding experts, one attempt after the other *)

\* A new case: one event on record, nothing asked, decided or found.
LEMMA InitHistory == Init => HistoryInvariant
<1> SUFFICES ASSUME Init PROVE Ledger(ctx) /\ Work(ctx, queue, attempt)
  BY DEF HistoryInvariant
<1> DEFINE walk == [i \in 0 .. 1 |-> "initialized"]
<1>1. /\ ctx.stage = "initialized"
      /\ ctx.events = <<[type |-> "case_created", about |-> "workflow"]>>
      /\ ctx.decisions = <<>>
      /\ ctx.findings = <<>>
      /\ ctx.requests = <<>>
  BY DEF Init, InitialContext
<1>2. \A type : type # "case_created" => EventsOf(ctx, type) = {}
  BY <1>1 DEF EventsOf
<1>3. \A type \in GovernanceTypes : EventsOf(ctx, type) = {}
  BY <1>2 DEF GovernanceTypes
<1>4. Order(ctx)
  <2>1. OnceTypes \subseteq GovernanceTypes
    BY DEF OnceTypes, GovernanceTypes
  <2>2. \A type \in OnceTypes : OnceIn(ctx, type)
    BY <1>3, <2>1 DEF OnceIn
  <2>3. /\ EventsOf(ctx, "human_decision_received") = {}
        /\ EventsOf(ctx, "draft_recommendation_created") = {}
        /\ EventsOf(ctx, "final_approval_recorded") = {}
        /\ EventsOf(ctx, "final_recommendation_created") = {}
        /\ EventsOf(ctx, "case_completed") = {}
    BY <1>2
  <2> QED BY <2>2, <2>3 DEF Order, PrecedesIn
<1>5. DecidedIds(ctx) = {} /\ DecidedOnce(ctx)
  BY <1>1 DEF DecidedIds, DecidedOnce
<1>6. OnRecord(ctx)
  BY <1>1, <1>2, <1>5 DEF OnRecord, Has, PlannedStages
<1>7. IsWalk(walk, ctx)
  <2>1. Len(ctx.events) = 1 /\ ctx.events[1].type = "case_created"
    BY <1>1
  <2>2. "initialized" \in Stages
    BY DEF Stages
  <2>3. walk \in [0 .. 1 -> Stages] /\ walk[0] = "initialized" /\ walk[1] = "initialized"
    BY <2>2
  <2> HIDE DEF walk
  <2> QED BY <1>1, <2>1, <2>3 DEF IsWalk
<1>8. Ledger(ctx)
  BY <1>4, <1>6, <1>7 DEF Ledger, StageWalk
<1>9. Work(ctx, queue, attempt)
  BY <1>1 DEF Work, RetriesFounded, AnsweredOnce, AnsweredBy, ReviewedStages
<1> QED BY <1>8, <1>9

\* A concatenation of sequences with nothing in common repeats nothing and
\* holds what either holds.
LEMMA ConcatDistinct ==
  ASSUME NEW S, NEW s \in Seq(S), NEW t \in Seq(S), Distinct(s), Distinct(t),
         \A x : ~(Occurs(x, s) /\ Occurs(x, t))
  PROVE  /\ Distinct(s \o t)
         /\ \A x : Occurs(x, s \o t) <=> Occurs(x, s) \/ Occurs(x, t)
<1> DEFINE u == s \o t
           m == Len(s)
<1>1. /\ m \in Nat /\ Len(t) \in Nat
      /\ DOMAIN s = 1 .. m /\ DOMAIN t = 1 .. Len(t) /\ DOMAIN u = 1 .. m + Len(t)
      /\ \A i \in 1 .. m : u[i] = s[i]
      /\ \A i \in 1 .. Len(t) : u[m + i] = t[i]
  BY LenProperties, ConcatProperties
<1> HIDE DEF u, m
<1>2. \A i \in DOMAIN u : i \in 1 .. m \/ (i - m \in 1 .. Len(t) /\ u[i] = t[i - m])
  <2>1. ASSUME NEW i \in DOMAIN u, i \notin 1 .. m
        PROVE  i - m \in 1 .. Len(t) /\ m + (i - m) = i
    BY <1>1, <2>1
  <2> QED BY <1>1, <2>1
<1>3. \A x : Occurs(x, u) <=> Occurs(x, s) \/ Occurs(x, t)
  <2>1. ASSUME NEW x, NEW k \in DOMAIN u, u[k] = x PROVE Occurs(x, s) \/ Occurs(x, t)
    BY <1>1, <1>2, <2>1 DEF Occurs
  <2>2. ASSUME NEW x, NEW k \in DOMAIN s, s[k] = x PROVE Occurs(x, u)
    <3>1. k \in DOMAIN u
      BY <1>1
    <3> QED BY <1>1, <2>2, <3>1 DEF Occurs
  <2>3. ASSUME NEW x, NEW k \in DOMAIN t, t[k] = x PROVE Occurs(x, u)
    <3>1. m + k \in DOMAIN u
      BY <1>1
    <3> QED BY <1>1, <2>3, <3>1 DEF Occurs
  <2> QED BY <2>1, <2>2, <2>3 DEF Occurs
<1>4. ASSUME NEW i \in DOMAIN u, NEW j \in DOMAIN u, u[i] = u[j] PROVE i = j
  <2>1. CASE i \in 1 .. m /\ j \in 1 .. m
    BY <1>1, <1>4, <2>1 DEF Distinct
  <2>2. CASE i \in 1 .. m /\ j \notin 1 .. m
    BY <1>1, <1>2, <1>4, <2>2 DEF Occurs
  <2>3. CASE i \notin 1 .. m /\ j \in 1 .. m
    BY <1>1, <1>2, <1>4, <2>3 DEF Occurs
  <2>4. CASE i \notin 1 .. m /\ j \notin 1 .. m
    <3>1. i - m = j - m
      BY <1>1, <1>2, <1>4, <2>4 DEF Distinct
    <3> QED BY <1>1, <3>1
  <2> QED BY <2>1, <2>2, <2>3, <2>4
<1>5. Distinct(u)
  BY <1>4 DEF Distinct
<1> QED BY <1>3, <1>5 DEF u

\* The queue holds each selected finding expert once.
LEMMA FindingQueueCovers ==
  ASSUME NEW c \in Contexts
  PROVE  /\ Distinct(FindingQueue(c))
         /\ \A role \in c.selections \cap FindingRoles : Occurs(role, FindingQueue(c))
<1> DEFINE Turn(role) == IfSelected(c.selections, role, role)
           front == Turn("ScheduleExpert") \o Turn("CommercialExpert")
<1>1. \A role \in FindingRoles :
         /\ Turn(role) \in Seq(FindingRoles)
         /\ Distinct(Turn(role))
         /\ \A x : Occurs(x, Turn(role)) <=> x = role /\ role \in c.selections
  BY DEF IfSelected, Distinct, Occurs
<1>2. /\ "ScheduleExpert" \in FindingRoles
      /\ "CommercialExpert" \in FindingRoles
      /\ "RiskExpert" \in FindingRoles
  BY DEF FindingRoles
<1>3. FindingQueue(c) = front \o Turn("RiskExpert")
  BY DEF FindingQueue
<1> HIDE DEF Turn
<1>4. /\ Distinct(front)
      /\ \A x : Occurs(x, front) <=> Occurs(x, Turn("ScheduleExpert"))
                                        \/ Occurs(x, Turn("CommercialExpert"))
  BY <1>1, <1>2, ConcatDistinct
<1>5. front \in Seq(FindingRoles)
  BY <1>1, <1>2
<1> HIDE DEF front
<1>6. \A x : ~(Occurs(x, front) /\ Occurs(x, Turn("RiskExpert")))
  BY <1>1, <1>2, <1>4
<1>7. /\ Distinct(front \o Turn("RiskExpert"))
      /\ \A x : Occurs(x, front \o Turn("RiskExpert"))
                 <=> Occurs(x, front) \/ Occurs(x, Turn("RiskExpert"))
  <2> DEFINE last == Turn("RiskExpert")
  <2>1. last \in Seq(FindingRoles) /\ Distinct(last)
    BY <1>1, <1>2
  <2> HIDE DEF last
  <2>2. \A x : ~(Occurs(x, front) /\ Occurs(x, last))
    BY <1>6 DEF last
  <2>3. /\ Distinct(front \o last)
        /\ \A x : Occurs(x, front \o last) <=> Occurs(x, front) \/ Occurs(x, last)
    BY <1>4, <1>5, <2>1, <2>2, ConcatDistinct
  <2> QED BY <2>3 DEF last
<1>8. ASSUME NEW role \in c.selections \cap FindingRoles PROVE Occurs(role, FindingQueue(c))
  BY <1>1, <1>2, <1>3, <1>4, <1>7 DEF FindingRoles
<1> QED BY <1>3, <1>7, <1>8

\* What an attempt adds to the findings: an answer of the asked expert when
\* it did not fail, a failure to build the next attempt on when it did.
LEMMA AttemptRecorded ==
  ASSUME NEW c \in Contexts, NEW role \in FindingRoles, NEW n \in 1 .. MaxAttempts,
         NEW status \in FindingStatus,
         RetriesFounded(c), n > 1 => FailedBefore(c, role, n)
  PROVE  LET d == ExecuteAttempt(c, role, n, status)
         IN  /\ RetriesFounded(d)
             /\ \A r : AnsweredBy(d, r) = AnsweredBy(c, r)
                  \cup (IF r = role /\ status # "failed" THEN {Len(c.findings) + 1} ELSE {})
             /\ status = "failed" => FailedBefore(d, role, n + 1)
<1> DEFINE d       == ExecuteAttempt(c, role, n, status)
           request == [role |-> role, attempt |-> n]
           finding == [role |-> role, attempt |-> n, status |-> status]
<1>1. /\ Quiet(c, d)
      /\ d.requests = Append(c.requests, request)
      /\ d.findings = Append(c.findings, finding)
  BY ExecuteAttemptQuiet
<1> HIDE DEF d
<1>2. /\ Len(c.requests) \in Nat
      /\ DOMAIN c.requests = 1 .. Len(c.requests)
      /\ DOMAIN d.requests = 1 .. Len(c.requests) + 1
      /\ \A i \in 1 .. Len(c.requests) : d.requests[i] = c.requests[i]
      /\ d.requests[Len(c.requests) + 1] = request
  <2>1. request \in ExpertRequests
    BY DEF ExpertRequests, Roles
  <2> QED BY <1>1, <2>1, ContextSequences, AppendElements
<1>3. /\ Len(c.findings) \in Nat
      /\ DOMAIN c.findings = 1 .. Len(c.findings)
      /\ DOMAIN d.findings = 1 .. Len(c.findings) + 1
      /\ \A i \in 1 .. Len(c.findings) : d.findings[i] = c.findings[i]
      /\ d.findings[Len(c.findings) + 1] = finding
  <2>1. finding \in Findings
    BY DEF Findings
  <2> QED BY <1>1, <2>1, ContextSequences, AppendElements
<1>4. /\ finding.role = role /\ finding.attempt = n /\ finding.status = status
      /\ request.role = role /\ request.attempt = n
  OBVIOUS
<1> HIDE DEF finding, request
<1>5. \A r, k : FailedBefore(c, r, k) => FailedBefore(d, r, k)
  BY <1>3 DEF FailedBefore
<1>6. ASSUME NEW i \in DOMAIN d.requests, d.requests[i].attempt > 1
      PROVE  FailedBefore(d, d.requests[i].role, d.requests[i].attempt)
  <2>1. CASE i \in 1 .. Len(c.requests)
    <3>1. d.requests[i] = c.requests[i] /\ i \in DOMAIN c.requests
      BY <1>2, <2>1
    <3> QED BY <1>5, <1>6, <3>1 DEF RetriesFounded
  <2>2. CASE i = Len(c.requests) + 1
    BY <1>2, <1>4, <1>5, <1>6, <2>2
  <2> QED BY <1>2, <2>1, <2>2
<1>7. RetriesFounded(d)
  BY <1>6 DEF RetriesFounded
<1>8. ASSUME NEW r
      PROVE  AnsweredBy(d, r) = AnsweredBy(c, r)
               \cup (IF r = role /\ status # "failed" THEN {Len(c.findings) + 1} ELSE {})
  BY <1>3, <1>4 DEF AnsweredBy
<1>9. status = "failed" => FailedBefore(d, role, n + 1)
  <2>1. n + 1 - 1 = n
    OBVIOUS
  <2> QED BY <1>3, <1>4, <2>1 DEF FailedBefore
<1> QED BY <1>7, <1>8, <1>9 DEF d

\* The head and the tail of a queue without repetitions.
LEMMA QueueAdvance ==
  ASSUME NEW S, NEW q \in Seq(S), q # <<>>, Distinct(q)
  PROVE  /\ Head(q) \in S
         /\ Occurs(Head(q), q)
         /\ Tail(q) \in Seq(S)
         /\ Distinct(Tail(q))
         /\ ~Occurs(Head(q), Tail(q))
         /\ \A x : Occurs(x, q) <=> x = Head(q) \/ Occurs(x, Tail(q))
<1> DEFINE t == Tail(q)
           h == Head(q)
<1>1. /\ Len(q) \in Nat /\ Len(q) >= 1
      /\ DOMAIN q = 1 .. Len(q)
      /\ t \in Seq(S)
      /\ DOMAIN t = 1 .. Len(q) - 1
      /\ \A i \in 1 .. Len(q) - 1 : t[i] = q[i + 1]
      /\ h = q[1] /\ h \in S
  BY LenProperties, HeadTailProperties, EmptySeq
<1> HIDE DEF t, h
<1>2. 1 \in DOMAIN q
  BY <1>1
<1>3. \A i \in DOMAIN t : i + 1 \in DOMAIN q /\ i + 1 # 1 /\ t[i] = q[i + 1]
  BY <1>1
<1>4. Distinct(t)
  <2>1. ASSUME NEW i \in DOMAIN t, NEW j \in DOMAIN t, t[i] = t[j] PROVE i = j
    <3>1. i + 1 = j + 1
      BY <1>3, <2>1 DEF Distinct
    <3> QED BY <1>1, <3>1
  <2> QED BY <2>1 DEF Distinct
<1>5. ~Occurs(h, t)
  <2>1. ASSUME NEW k \in DOMAIN t, t[k] = h PROVE FALSE
    BY <1>1, <1>2, <1>3, <2>1 DEF Distinct
  <2> QED BY <2>1 DEF Occurs
<1>6. Occurs(h, q)
  BY <1>1, <1>2 DEF Occurs
<1>7. ASSUME NEW x PROVE Occurs(x, q) <=> x = h \/ Occurs(x, t)
  <2>1. ASSUME NEW k \in DOMAIN q, q[k] = x, k # 1 PROVE Occurs(x, t)
    <3>1. k - 1 \in DOMAIN t /\ (k - 1) + 1 = k
      BY <1>1, <2>1
    <3> QED BY <1>3, <2>1, <3>1 DEF Occurs
  <2>2. Occurs(x, q) => x = h \/ Occurs(x, t)
    BY <1>1, <2>1 DEF Occurs
  <2>3. Occurs(x, t) => Occurs(x, q)
    BY <1>3 DEF Occurs
  <2> QED BY <1>6, <2>2, <2>3
<1> QED BY <1>1, <1>4, <1>5, <1>6, <1>7 DEF t, h

\* With nothing asked and nothing found yet, there is no work to account for.
LEMMA WorkUnbegun ==
  ASSUME NEW d, d.findings = <<>>, d.requests = <<>>,
         d.stage \in {"validating", "triaging", "failed"}, NEW q, NEW n
  PROVE  Work(d, q, n)
BY DEF Work, RetriesFounded, AnsweredOnce, AnsweredBy, ReviewedStages

\* Expert analysis starts with every selected finding expert in the queue.
LEMMA WorkBegun ==
  ASSUME NEW c \in Contexts, NEW q, NEW n, Work(c, q, n), c.stage = "triaging"
  PROVE  Work(Transition(c, "expert_analysis"), FindingQueue(c), 1)
<1> DEFINE d == Transition(c, "expert_analysis")
           p == FindingQueue(c)
<1>1. /\ d.stage = "expert_analysis"
      /\ d.selections = c.selections
      /\ d.findings = c.findings
      /\ d.requests = c.requests
  BY TransitionMoves DEF Moves, Stages
<1>2. c.findings = <<>> /\ c.requests = <<>>
  BY DEF Work
<1>3. Distinct(p) /\ \A role \in c.selections \cap FindingRoles : Occurs(role, p)
  BY FindingQueueCovers
<1> HIDE DEF d, p
<1>4. \A role : AnsweredBy(d, role) = {}
  BY <1>1, <1>2 DEF AnsweredBy
<1>5. InHand(d, p, 1)
  BY <1>1, <1>3, <1>4 DEF InHand
<1>6. RetriesFounded(d) /\ AnsweredOnce(d)
  BY <1>1, <1>2, <1>4 DEF RetriesFounded, AnsweredOnce
<1>7. Work(d, p, 1)
  BY <1>1, <1>5, <1>6 DEF Work, ReviewedStages
<1> QED BY <1>7 DEF d, p

\* An expert that answers is done, and was not done before.
LEMMA WorkAnswered ==
  ASSUME NEW c \in Contexts, NEW q \in Seq(FindingRoles), NEW n \in 1 .. MaxAttempts,
         Work(c, q, n), c.stage = "expert_analysis", q # <<>>,
         NEW status \in FindingStatus, status # "failed"
  PROVE  Work(ExecuteAttempt(c, Head(q), n, status), Tail(q), 1)
<1> DEFINE role == Head(q)
           t    == Tail(q)
           d    == ExecuteAttempt(c, role, n, status)
           last == Len(c.findings) + 1
<1>1. /\ RetriesFounded(c) /\ AnsweredOnce(c) /\ InHand(c, q, n)
  BY DEF Work
<1>2. Distinct(q)
  BY <1>1 DEF InHand
<1>3. /\ role \in FindingRoles
      /\ Occurs(role, q)
      /\ Distinct(t)
      /\ ~Occurs(role, t)
      /\ \A x : Occurs(x, q) <=> x = role \/ Occurs(x, t)
  BY <1>2, QueueAdvance
<1>4. n > 1 => FailedBefore(c, role, n)
  BY <1>1 DEF InHand
<1>5. /\ RetriesFounded(d)
      /\ \A r : AnsweredBy(d, r) = AnsweredBy(c, r) \cup (IF r = role THEN {last} ELSE {})
  BY <1>1, <1>3, <1>4, AttemptRecorded
<1>6. d.stage = "expert_analysis" /\ d.selections = c.selections
  BY <1>3, ExecuteAttemptQuiet DEF Quiet
<1> HIDE DEF role, t, d, last
<1>7. \A x : Occurs(x, q) => AnsweredBy(c, x) = {}
  BY <1>1 DEF InHand, Occurs
<1>8. AnsweredBy(d, role) = {last}
  BY <1>3, <1>5, <1>7
<1>9. \A r : r # role => AnsweredBy(d, r) = AnsweredBy(c, r)
  BY <1>5
<1>10. AnsweredOnce(d)
  BY <1>1, <1>8, <1>9 DEF AnsweredOnce
<1>11. \A k \in DOMAIN t : AnsweredBy(d, t[k]) = {}
  <2>1. ASSUME NEW k \in DOMAIN t PROVE AnsweredBy(d, t[k]) = {}
    <3>1. Occurs(t[k], t)
      BY DEF Occurs
    <3> QED BY <1>3, <1>7, <1>9, <3>1
  <2> QED BY <2>1
<1>12. ASSUME NEW r \in d.selections \cap FindingRoles
       PROVE  AnsweredBy(d, r) # {} \/ Occurs(r, t)
  <2>1. AnsweredBy(c, r) # {} \/ Occurs(r, q)
    BY <1>1, <1>6 DEF InHand
  <2> QED BY <1>3, <1>8, <1>9, <2>1
<1>13. InHand(d, t, 1)
  BY <1>3, <1>11, <1>12 DEF InHand
<1>14. Work(d, t, 1)
  BY <1>5, <1>6, <1>10, <1>13 DEF Work, ReviewedStages
<1> QED BY <1>14 DEF role, t, d

\* A failed attempt answers nothing and founds the next one.
LEMMA WorkRetried ==
  ASSUME NEW c \in Contexts, NEW q \in Seq(FindingRoles), NEW n \in 1 .. MaxAttempts,
         Work(c, q, n), c.stage = "expert_analysis", q # <<>>
  PROVE  LET d == ExecuteAttempt(c, Head(q), n, "failed")
         IN  /\ Work(d, q, n + 1)
             /\ RetriesFounded(d)
             /\ AnsweredOnce(d)
<1> DEFINE role == Head(q)
           d    == ExecuteAttempt(c, role, n, "failed")
<1>1. /\ RetriesFounded(c) /\ AnsweredOnce(c) /\ InHand(c, q, n)
  BY DEF Work
<1>2. role \in FindingRoles
  BY <1>1, QueueAdvance DEF InHand
<1>3. n > 1 => FailedBefore(c, role, n)
  BY <1>1 DEF InHand
<1>4. "failed" \in FindingStatus
  BY DEF FindingStatus
<1>5. /\ RetriesFounded(d)
      /\ \A r : AnsweredBy(d, r) = AnsweredBy(c, r)
                  \cup (IF r = role /\ "failed" # "failed" THEN {Len(c.findings) + 1} ELSE {})
      /\ "failed" = "failed" => FailedBefore(d, role, n + 1)
  BY <1>1, <1>2, <1>3, <1>4, AttemptRecorded
<1>6. d.stage = "expert_analysis" /\ d.selections = c.selections
  BY <1>2, <1>4, ExecuteAttemptQuiet DEF Quiet
<1> HIDE DEF d
<1>7. \A r : AnsweredBy(d, r) = AnsweredBy(c, r)
  BY <1>5
<1>8. AnsweredOnce(d)
  BY <1>1, <1>7 DEF AnsweredOnce
<1>9. InHand(d, q, n + 1)
  BY <1>1, <1>5, <1>6, <1>7 DEF InHand
<1>10. Work(d, q, n + 1)
  BY <1>5, <1>6, <1>8, <1>9 DEF Work, ReviewedStages
<1> QED BY <1>5, <1>8, <1>10 DEF d

\* A case that fails in analysis leaves its work as it stands.
LEMMA WorkFailed ==
  ASSUME NEW c \in Contexts, NEW d \in Contexts, RetriesFounded(c), AnsweredOnce(c),
         WorkKept(c, d), d.stage = "failed", NEW q, NEW n
  PROVE  Work(d, q, n)
<1>1. RetriesFounded(d) /\ \A role : AnsweredBy(d, role) = AnsweredBy(c, role)
  BY WorkKeptFacts
<1>2. AnsweredOnce(d)
  BY <1>1 DEF AnsweredOnce
<1> QED BY <1>1, <1>2 DEF Work, ReviewedStages

-----------------------------------------------------------------------------
(* Every step continues the record and keeps the history invariant *)

\* A step that decides nothing, gates nothing and drafts nothing.
LEMMA LedgerRoutine ==
  ASSUME NEW c \in Contexts, NEW d, Ledger(c), Link(c, d, {}), d.decisions = c.decisions,
         c.stage \notin PlannedStages,
         d.stage \notin PlannedStages \cup {"awaiting_human_decision"}
  PROVE  Ledger(d) /\ Grows(c, d)
<1> DEFINE none == {}
<1>1. /\ none \subseteq {"human_decision_requested", "draft_recommendation_created"}
      /\ "draft_recommendation_created" \notin none
      /\ Link(c, d, none)
      /\ d.stage # "completed"
  BY DEF PlannedStages
<1> HIDE DEF none
<1>2. Ledger(d)
  BY <1>1, LedgerKept
<1> QED BY <1>2 DEF Link

\* Planning from an answered gate, or its failure, keeps ledger and work.
LEMMA PlanHistory ==
  ASSUME NEW c \in Contexts, GateShape(c), c.stage = "awaiting_human_decision",
         OnsiteRequest \in DecidedIds(c), Ledger(c), NEW q, NEW n, Work(c, q, n),
         NEW d, d = PlanRecovery(LeaveHumanGate(c)) \/ d = AbortPlanning(LeaveHumanGate(c))
  PROVE  /\ Grows(c, d)
         /\ d \in Contexts
         /\ Ledger(d)
         /\ Work(d, q, n)
         /\ d.decisions = c.decisions
         /\ d.stage \in {"recovery_planning", "awaiting_final_approval"}
<1> DEFINE e == LeaveHumanGate(c)
<1>1. InPlanning(e) /\ e.decisions = c.decisions
  BY LeaveHumanGateShape
<1>2. Link(c, e, {}) /\ WorkKept(c, e)
  BY LeaveHumanGateLink
<1> HIDE DEF e
<1>3. e \in Contexts /\ e.stage = "recovery_planning"
  BY <1>1 DEF InPlanning
<1>4. c.stage \notin PlannedStages /\ e.stage \notin PlannedStages \cup {"awaiting_human_decision"}
  BY <1>3 DEF PlannedStages
<1>5. Ledger(e) /\ Grows(c, e)
  BY <1>1, <1>2, <1>4, LedgerRoutine
<1>6. OnsiteRequest \in DecidedIds(e)
  BY <1>1 DEF DecidedIds
<1>7. InTurn(e, "draft_recommendation_created")
  BY <1>4, <1>5, <1>6 DEF InTurn, Ledger, OnRecord
<1>8. CASE d = PlanRecovery(e)
  <2> DEFINE types == {"draft_recommendation_created"}
  <2>1. /\ Link(e, d, types)
        /\ WorkKept(e, d)
        /\ d.decisions = e.decisions
        /\ d.stage = "awaiting_final_approval"
    BY <1>1, <1>7, <1>8, PlanRecoveryLink
  <2>2. /\ types \subseteq {"human_decision_requested", "draft_recommendation_created"}
        /\ "draft_recommendation_created" \in types
    OBVIOUS
  <2> HIDE DEF types
  <2>3. d.stage \in PlannedStages /\ d.stage # "completed"
    BY <2>1 DEF PlannedStages
  <2>4. Ledger(d)
    BY <1>3, <1>4, <1>5, <2>1, <2>2, <2>3, LedgerKept
  <2>5. d \in Contexts /\ Link(c, d, {} \cup types)
    <3>1. d \in Contexts
      BY <2>1 DEF Link
    <3>2. Link(c, d, {} \cup types)
      BY <1>2, <2>1, LinkTransitive
    <3> QED BY <3>1, <3>2
  <2>6. WorkKept(c, d)
    BY <1>2, <1>3, <2>1, <2>5, WorkKeptTransitive
  <2>7. Work(d, q, n)
    BY <2>1, <2>5, <2>6, WorkReviewed DEF ReviewedStages
  <2> QED BY <1>1, <2>1, <2>4, <2>5, <2>7 DEF Link
<1>9. CASE d = AbortPlanning(e)
  <2>1. /\ Link(e, d, {})
        /\ WorkKept(e, d)
        /\ d.decisions = e.decisions
        /\ d.stage = "recovery_planning"
    BY <1>3, <1>9, AbortPlanningLink DEF SameGovernance
  <2>2. d.stage \notin PlannedStages \cup {"awaiting_human_decision"}
    BY <2>1 DEF PlannedStages
  <2>3. Ledger(d)
    BY <1>3, <1>4, <1>5, <2>1, <2>2, LedgerRoutine
  <2>4. d \in Contexts /\ Link(c, d, {} \cup {})
    <3>1. d \in Contexts
      BY <2>1 DEF Link
    <3>2. Link(c, d, {} \cup {})
      BY <1>2, <2>1, LinkTransitive
    <3> QED BY <3>1, <3>2
  <2>5. WorkKept(c, d)
    BY <1>2, <1>3, <2>1, <2>4, WorkKeptTransitive
  <2>6. Work(d, q, n)
    BY <2>1, <2>4, <2>5, WorkReviewed DEF ReviewedStages
  <2> QED BY <1>1, <2>1, <2>3, <2>4, <2>6 DEF Link
<1> QED BY <1>8, <1>9 DEF e

\* A recorded decision keeps ledger and work, and what is planned from it
\* continues the record it was made on.
LEMMA DecisionHistory ==
  ASSUME NEW c \in Contexts, NEW x \in Decisions, GateShape(c), Ledger(c),
         NEW q, NEW n, Work(c, q, n), CanRecordDecision(c, x)
  PROVE  LET d == RecordHumanDecision(c, x)
         IN  /\ Grows(c, d)
             /\ Ledger(d)
             /\ Work(d, q, n)
             /\ d.decisions = Append(c.decisions, x)
<1> DEFINE d == RecordHumanDecision(c, x)
<1>1. Ledger(d) /\ Link(c, d, {"human_decision_received"}) /\ WorkKept(c, d)
  BY LedgerDecided
<1>2. /\ d \in Contexts
      /\ d.stage = "awaiting_human_decision"
      /\ c.stage = "awaiting_human_decision"
      /\ d.decisions = Append(c.decisions, x)
  BY DecisionSubject, RecordHumanDecisionFrame
<1> HIDE DEF d
<1>3. Work(d, q, n)
  BY <1>1, <1>2, WorkReviewed DEF ReviewedStages
<1> QED BY <1>1, <1>2, <1>3 DEF d, Link

\* Growing is transitive.
LEMMA GrowsTransitive ==
  ASSUME NEW b \in Contexts, NEW c \in Contexts, NEW d \in Contexts, Grows(b, c), Grows(c, d)
  PROVE  Grows(b, d)
<1>1. Continues(b.events, d.events)
  BY ContextSequences, ContinuesOrder DEF Grows
<1>2. Continues(b.requests, d.requests)
  BY ContextSequences, ContinuesOrder DEF Grows
<1>3. Continues(b.findings, d.findings)
  BY ContextSequences, ContinuesOrder DEF Grows
<1>4. Continues(b.decisions, d.decisions)
  BY ContextSequences, ContinuesOrder DEF Grows
<1> QED BY <1>1, <1>2, <1>3, <1>4 DEF Grows

\* Every step of the runner and every call keeps the history invariant and
\* adds to the evidence without touching what is there.
LEMMA NextHistory ==
  IInv /\ HistoryInvariant /\ [Next]_vars => HistoryInvariant' /\ Grows(ctx, ctx')
<1> SUFFICES ASSUME IInv, HistoryInvariant, [Next]_vars
             PROVE  Ledger(ctx') /\ Work(ctx', queue', attempt') /\ Grows(ctx, ctx')
  BY DEF HistoryInvariant, Ledger, Work, OnRecord, Order, StageWalk
<1>t. /\ facts \in Facts
      /\ ctx \in Contexts
      /\ queue \in Seq(FindingRoles)
      /\ attempt \in 1 .. MaxAttempts
      /\ adapter \in {"deterministic", "external", "custom"}
      /\ GateShape(ctx)
      /\ Ledger(ctx)
      /\ Work(ctx, queue, attempt)
  BY AdaptersAssumption DEF IInv, GateInvariant, TypeOK, HistoryInvariant
<1>p. /\ "initialized" \notin PlannedStages
      /\ "validating" \notin PlannedStages \cup {"awaiting_human_decision"}
      /\ "triaging" \notin PlannedStages \cup {"awaiting_human_decision"}
      /\ "expert_analysis" \notin PlannedStages \cup {"awaiting_human_decision"}
      /\ "recovery_planning" \notin PlannedStages \cup {"awaiting_human_decision"}
      /\ "failed" \notin PlannedStages \cup {"awaiting_human_decision"}
  BY DEF PlannedStages
<1>d. \A d \in CallerDecisions : d \in Decisions
  BY CallerOutcomesAssumption DEF CallerDecisions, Decisions
<1>1. ASSUME PassValidation \/ FailValidation
      PROVE  Ledger(ctx') /\ Work(ctx', queue', attempt') /\ Grows(ctx, ctx')
  <2>1. /\ ctx.stage = "initialized"
        /\ ctx' = ValidateFixture(ctx, facts)
    BY <1>1 DEF PassValidation, FailValidation
  <2>2. Link(ctx, ctx', {}) /\ ctx'.findings = ctx.findings /\ ctx'.requests = ctx.requests
    BY <1>t, <2>1, ValidateFixtureLink
  <2>3. ctx'.decisions = ctx.decisions /\ ctx'.stage \in {"validating", "failed"}
    BY <1>t, <2>1, ValidateFixtureFrame DEF SameGovernance
  <2>4. ctx.findings = <<>> /\ ctx.requests = <<>>
    BY <1>t, <2>1 DEF Work
  <2>5. Work(ctx', queue', attempt')
    BY <2>2, <2>3, <2>4, WorkUnbegun
  <2>6. Ledger(ctx') /\ Grows(ctx, ctx')
    BY <1>t, <1>p, <2>1, <2>2, <2>3, LedgerRoutine
  <2> QED BY <2>5, <2>6
<1>2. ASSUME SelectAndTriage
      PROVE  Ledger(ctx') /\ Work(ctx', queue', attempt') /\ Grows(ctx, ctx')
  <2>1. /\ ctx.stage = "validating"
        /\ ctx' = Triage(ctx, facts)
    BY <1>2 DEF SelectAndTriage
  <2>2. Link(ctx, ctx', {}) /\ ctx'.findings = ctx.findings /\ ctx'.requests = ctx.requests
    BY <1>t, <2>1, TriageLink
  <2>3. ctx'.decisions = ctx.decisions /\ ctx'.stage = "triaging"
    BY <1>t, <2>1, TriageFrame DEF SameGovernance
  <2>4. ctx.findings = <<>> /\ ctx.requests = <<>>
    BY <1>t, <2>1 DEF Work
  <2>5. Work(ctx', queue', attempt')
    BY <2>2, <2>3, <2>4, WorkUnbegun
  <2>6. Ledger(ctx') /\ Grows(ctx, ctx')
    BY <1>t, <1>p, <2>1, <2>2, <2>3, LedgerRoutine
  <2> QED BY <2>5, <2>6
<1>3. ASSUME BeginExpertAnalysis
      PROVE  Ledger(ctx') /\ Work(ctx', queue', attempt') /\ Grows(ctx, ctx')
  <2>1. /\ ctx.stage = "triaging"
        /\ ctx' = Transition(ctx, "expert_analysis")
        /\ queue' = FindingQueue(ctx)
        /\ attempt' = 1
    BY <1>3 DEF BeginExpertAnalysis
  <2>2. "expert_analysis" \in Stages /\ "expert_analysis" \in ValidTransitions[ctx.stage]
    BY <2>1 DEF Stages, ValidTransitions
  <2>3. Moves(ctx, ctx', "expert_analysis")
    BY <1>t, <2>1, <2>2, TransitionMoves
  <2>4. Link(ctx, ctx', {}) /\ ctx'.stage = "expert_analysis" /\ ctx'.decisions = ctx.decisions
    BY <1>t, <2>2, <2>3, MovesLink DEF Moves, SameGovernance
  <2>5. Ledger(ctx') /\ Grows(ctx, ctx')
    BY <1>t, <1>p, <2>1, <2>4, LedgerRoutine
  <2>6. Work(ctx', queue', attempt')
    BY <1>t, <2>1, WorkBegun
  <2> QED BY <2>5, <2>6
<1>h. ASSUME queue # <<>>
      PROVE  Head(queue) \in FindingRoles
  BY <1>t, <1>h
(* What an attempt does to the ledger, whatever its outcome.               *)
<1>x. ASSUME ctx.stage = "expert_analysis", queue # <<>>, NEW status \in FindingStatus
      PROVE  LET d == ExecuteAttempt(ctx, Head(queue), attempt, status)
             IN  /\ d \in Contexts
                 /\ Ledger(d)
                 /\ Grows(ctx, d)
                 /\ d.stage = "expert_analysis"
                 /\ d.decisions = ctx.decisions
  <2> DEFINE d == ExecuteAttempt(ctx, Head(queue), attempt, status)
  <2>1. Quiet(ctx, d)
    BY <1>t, <1>h, <1>x, ExecuteAttemptQuiet
  <2> HIDE DEF d
  <2>2. d \in Contexts /\ d.stage = "expert_analysis" /\ d.decisions = ctx.decisions
    BY <1>x, <2>1 DEF Quiet, SameGovernance
  <2>3. Link(ctx, d, {})
    BY <1>t, <2>1, QuietLink
  <2>4. Ledger(d) /\ Grows(ctx, d)
    BY <1>t, <1>p, <1>x, <2>2, <2>3, LedgerRoutine
  <2> QED BY <2>2, <2>4 DEF d
<1>4. ASSUME CompleteExpert
      PROVE  Ledger(ctx') /\ Work(ctx', queue', attempt') /\ Grows(ctx, ctx')
  <2>1. /\ ctx.stage = "expert_analysis"
        /\ queue # <<>>
        /\ queue' = Tail(queue)
        /\ attempt' = 1
    BY <1>4 DEF CompleteExpert, InAnalysis
  <2>2. PICK status \in FindingAnswers(Head(queue), attempt) \ {"failed"} :
          ctx' = ExecuteAttempt(ctx, Head(queue), attempt, status)
    BY <1>4 DEF CompleteExpert
  <2>3. status \in FindingStatus /\ status # "failed"
    BY <1>t, AnswersType
  <2>4. Ledger(ctx') /\ Grows(ctx, ctx')
    BY <1>x, <2>1, <2>2, <2>3
  <2>5. Work(ctx', queue', attempt')
    BY <1>t, <2>1, <2>2, <2>3, WorkAnswered
  <2> QED BY <2>4, <2>5
<1>5. ASSUME RetryExpert
      PROVE  Ledger(ctx') /\ Work(ctx', queue', attempt') /\ Grows(ctx, ctx')
  <2>1. /\ ctx.stage = "expert_analysis"
        /\ queue # <<>>
        /\ ctx' = ExecuteAttempt(ctx, Head(queue), attempt, "failed")
        /\ attempt' = attempt + 1
        /\ queue' = queue
    BY <1>5 DEF RetryExpert, InAnalysis
  <2>2. "failed" \in FindingStatus
    BY DEF FindingStatus
  <2>3. Ledger(ctx') /\ Grows(ctx, ctx')
    BY <1>x, <2>1, <2>2
  <2>4. Work(ctx', queue', attempt')
    BY <1>t, <2>1, WorkRetried
  <2> QED BY <2>3, <2>4
<1>6. ASSUME ExhaustAttempts
      PROVE  Ledger(ctx') /\ Work(ctx', queue', attempt') /\ Grows(ctx, ctx')
  <2> DEFINE last == ExecuteAttempt(ctx, Head(queue), attempt, "failed")
  <2>1. /\ ctx.stage = "expert_analysis"
        /\ queue # <<>>
        /\ ctx' = MarkFailed(last)
    BY <1>6 DEF ExhaustAttempts, InAnalysis
  <2>2. "failed" \in FindingStatus
    BY DEF FindingStatus
  <2>3. /\ last \in Contexts
        /\ Ledger(last)
        /\ Grows(ctx, last)
        /\ last.stage = "expert_analysis"
    BY <1>x, <2>1, <2>2
  <2>4. RetriesFounded(last) /\ AnsweredOnce(last)
    BY <1>t, <2>1, WorkRetried
  <2> HIDE DEF last
  <2>5. Moves(last, ctx', "failed") /\ Link(last, ctx', {})
    BY <2>1, <2>3, MarkFailedMoves
  <2>6. /\ ctx' \in Contexts
        /\ ctx'.stage = "failed"
        /\ ctx'.decisions = last.decisions
        /\ WorkKept(last, ctx')
    BY <2>3, <2>5, MovesKeepWork DEF Moves, SameGovernance
  <2>7. Ledger(ctx') /\ Grows(last, ctx')
    BY <1>p, <2>3, <2>5, <2>6, LedgerRoutine
  <2>8. Work(ctx', queue', attempt')
    BY <2>3, <2>4, <2>6, WorkFailed
  <2> QED BY <1>t, <2>3, <2>6, <2>7, <2>8, GrowsTransitive
<1>7. ASSUME ReviewUnaudited
      PROVE  Ledger(ctx') /\ Work(ctx', queue', attempt') /\ Grows(ctx, ctx')
  <2>1. /\ ctx.stage = "expert_analysis"
        /\ queue = <<>>
        /\ ctx' = SkipReview(ctx)
        /\ UNCHANGED <<queue, attempt>>
    BY <1>7 DEF ReviewUnaudited, ReviewReady
  <2>2. Link(ctx, ctx', {}) /\ WorkKept(ctx, ctx')
    BY <1>t, <2>1, SkipReviewLink
  <2>3. ctx'.decisions = ctx.decisions /\ ctx'.stage = "recovery_planning"
    BY <1>t, <2>1, SkipReviewFrame DEF SameGovernance
  <2>4. Ledger(ctx') /\ Grows(ctx, ctx')
    BY <1>t, <1>p, <2>1, <2>2, <2>3, LedgerRoutine
  <2>5. ctx' \in Contexts
    BY <2>2 DEF Link
  <2>6. Work(ctx', queue, attempt)
    BY <1>t, <2>1, <2>2, <2>3, <2>5, WorkReviewed DEF ReviewedStages
  <2> QED BY <2>1, <2>4, <2>6
<1>8. ASSUME ReviewAudited
      PROVE  Ledger(ctx') /\ Work(ctx', queue', attempt') /\ Grows(ctx, ctx')
  <2>1. /\ ctx.stage = "expert_analysis"
        /\ queue = <<>>
        /\ UNCHANGED <<queue, attempt>>
    BY <1>8 DEF ReviewAudited, ReviewReady
  <2>2. PICK found \in AuditAnswers : ctx' = ReviewContradictions(ctx, found)
    BY <1>8 DEF ReviewAudited
  <2>3. found \in Seq(ContradictionStatus)
    BY <1>t, <2>2, AnswersType
  <2>4. /\ WorkKept(ctx, ctx')
        /\ HumanGateRequired(found) =>
             /\ Link(ctx, ctx', {"human_decision_requested"})
             /\ ctx'.stage = "awaiting_human_decision"
        /\ ~HumanGateRequired(found) =>
             /\ Link(ctx, ctx', {})
             /\ ctx'.stage = "recovery_planning"
             /\ SameGovernance(ctx, ctx')
    BY <1>t, <2>1, <2>2, <2>3, ReviewContradictionsLink
  <2>5. CASE HumanGateRequired(found)
    <3> DEFINE types == {"human_decision_requested"}
    <3>1. Link(ctx, ctx', types) /\ ctx'.stage = "awaiting_human_decision" /\ ctx' \in Contexts
      BY <2>4, <2>5 DEF Link
    <3>2. /\ types \subseteq {"human_decision_requested", "draft_recommendation_created"}
          /\ "human_decision_requested" \in types
          /\ "draft_recommendation_created" \notin types
          /\ ctx'.stage \notin PlannedStages
          /\ ctx'.stage # "completed"
      BY <3>1 DEF PlannedStages
    <3>3. ctx'.decisions = ctx.decisions
      BY <1>t, <2>1, <2>2, <2>3, ReviewDecides
    <3> HIDE DEF types
    <3>4. Ledger(ctx')
      BY <1>t, <1>p, <2>1, <3>1, <3>2, <3>3, LedgerKept
    <3>5. Work(ctx', queue, attempt)
      BY <1>t, <2>1, <2>4, <3>1, WorkReviewed DEF ReviewedStages
    <3> QED BY <2>1, <3>1, <3>4, <3>5 DEF Link
  <2>6. CASE ~HumanGateRequired(found)
    <3>1. /\ Link(ctx, ctx', {})
          /\ ctx'.stage = "recovery_planning"
          /\ ctx'.decisions = ctx.decisions
          /\ ctx' \in Contexts
      BY <2>4, <2>6 DEF Link, SameGovernance
    <3>2. Ledger(ctx') /\ Grows(ctx, ctx')
      BY <1>t, <1>p, <2>1, <3>1, LedgerRoutine
    <3>3. Work(ctx', queue, attempt)
      BY <1>t, <2>1, <2>4, <3>1, WorkReviewed DEF ReviewedStages
    <3> QED BY <2>1, <3>2, <3>3
  <2> QED BY <2>5, <2>6
<1>9. ASSUME FailReview
      PROVE  Ledger(ctx') /\ Work(ctx', queue', attempt') /\ Grows(ctx, ctx')
  <2> DEFINE asked == RequestAudit(ctx)
  <2>1. /\ ctx.stage = "expert_analysis"
        /\ queue = <<>>
        /\ ctx' = MarkFailed(asked)
        /\ UNCHANGED <<queue, attempt>>
    BY <1>9 DEF FailReview, ReviewReady
  <2>2. Link(ctx, asked, {}) /\ WorkKept(ctx, asked) /\ asked.stage = "contradiction_review"
    BY <1>t, <2>1, RequestAuditLink
  <2>3. asked \in Contexts /\ asked.decisions = ctx.decisions
    BY <1>t, <2>1, RequestAuditType, RequestAuditFrame DEF SameGovernance
  <2> HIDE DEF asked
  <2>4. Moves(asked, ctx', "failed") /\ Link(asked, ctx', {})
    BY <2>1, <2>2, <2>3, MarkFailedMoves
  <2>5. /\ ctx' \in Contexts
        /\ ctx'.stage = "failed"
        /\ ctx'.decisions = ctx.decisions
        /\ WorkKept(asked, ctx')
    BY <2>3, <2>4, MovesKeepWork DEF Moves, SameGovernance
  <2>6. Link(ctx, ctx', {} \cup {})
    BY <1>t, <2>2, <2>4, LinkTransitive
  <2>7. Ledger(ctx') /\ Grows(ctx, ctx')
    BY <1>t, <1>p, <2>1, <2>5, <2>6, LedgerRoutine
  <2>8. WorkKept(ctx, ctx')
    BY <1>t, <2>2, <2>3, <2>5, WorkKeptTransitive
  <2>9. Work(ctx', queue, attempt)
    BY <1>t, <2>1, <2>5, <2>8, WorkReviewed
  <2> QED BY <2>1, <2>7, <2>9
<1>10. ASSUME Resume \/ AbortResume
       PROVE  Ledger(ctx') /\ Work(ctx', queue', attempt') /\ Grows(ctx, ctx')
  <2>1. /\ CanResume(ctx)
        /\ \/ ctx' = PlanRecovery(LeaveHumanGate(ctx))
           \/ ctx' = AbortPlanning(LeaveHumanGate(ctx))
        /\ UNCHANGED <<queue, attempt>>
    BY <1>10 DEF Resume, AbortResume, PlanFrom, AbortFrom
  <2>2. ctx.stage = "awaiting_human_decision" /\ LastPending(ctx) \in DecidedIds(ctx)
    BY <2>1 DEF CanResume
  <2>3. LastPending(ctx) = OnsiteRequest
    BY <1>t, <2>2, AnswerGate
  <2> QED BY <1>t, <2>1, <2>2, <2>3, PlanHistory
<1>11. ASSUME NEW d \in CallerDecisions, SubmitDecision(d)
       PROVE  Ledger(ctx') /\ Work(ctx', queue', attempt') /\ Grows(ctx, ctx')
  <2>1. /\ CanRecordDecision(ctx, d)
        /\ ctx' = RecordHumanDecision(ctx, d)
        /\ UNCHANGED <<queue, attempt>>
    BY <1>11 DEF SubmitDecision
  <2> QED BY <1>t, <1>d, <2>1, DecisionHistory
<1>12. ASSUME NEW d \in CallerDecisions, ResumeWithDecision(d) \/ AbortResumeWithDecision(d)
       PROVE  Ledger(ctx') /\ Work(ctx', queue', attempt') /\ Grows(ctx, ctx')
  <2> DEFINE told == RecordHumanDecision(ctx, d)
  <2>1. /\ CanRecordDecision(ctx, d)
        /\ ctx' = PlanRecovery(LeaveHumanGate(told)) \/ ctx' = AbortPlanning(LeaveHumanGate(told))
        /\ UNCHANGED <<queue, attempt>>
    BY <1>12 DEF ResumeWithDecision, AbortResumeWithDecision, PlanFrom, AbortFrom
  <2>2. /\ told \in Contexts
        /\ GateShape(told)
        /\ told.stage = "awaiting_human_decision"
        /\ OnsiteRequest \in DecidedIds(told)
    BY <1>t, <1>d, <2>1, RecordHumanDecisionShape
  <2>3. Ledger(told) /\ Work(told, queue, attempt) /\ Grows(ctx, told)
    BY <1>t, <1>d, <2>1, DecisionHistory
  <2> HIDE DEF told
  <2>4. /\ Grows(told, ctx')
        /\ ctx' \in Contexts
        /\ Ledger(ctx')
        /\ Work(ctx', queue, attempt)
    BY <2>1, <2>2, <2>3, PlanHistory
  <2>5. Grows(ctx, ctx')
    BY <1>t, <2>2, <2>3, <2>4, GrowsTransitive
  <2> QED BY <2>1, <2>4, <2>5
<1>13. ASSUME NEW a \in Actors, Approve(a)
       PROVE  Ledger(ctx') /\ Work(ctx', queue', attempt') /\ Grows(ctx, ctx')
  <2>1. /\ ctx.stage = "awaiting_final_approval"
        /\ ctx' = ApproveFinal(ctx, a)
        /\ UNCHANGED <<queue, attempt>>
    BY <1>13 DEF Approve, CanApprove
  <2>2. Ledger(ctx')
    BY <1>t, <2>1, LedgerApproved
  <2>3. /\ Has(ctx, "draft_recommendation_created")
        /\ ~Has(ctx, "final_approval_recorded")
        /\ ~Has(ctx, "case_completed")
    BY <1>t, <2>1 DEF Ledger, OnRecord, PlannedStages
  <2>4. /\ Link(ctx, ctx', {"final_approval_recorded", "final_recommendation_created",
                            "case_completed"})
        /\ WorkKept(ctx, ctx')
        /\ ctx'.stage = "completed"
    BY <1>t, <2>1, <2>3, ApproveFinalLink
  <2>5. ctx' \in Contexts /\ Grows(ctx, ctx')
    BY <2>4 DEF Link
  <2>6. Work(ctx', queue, attempt)
    BY <1>t, <2>1, <2>4, <2>5, WorkReviewed DEF ReviewedStages
  <2> QED BY <2>1, <2>2, <2>5, <2>6
<1>14. ASSUME UNCHANGED vars
       PROVE  Ledger(ctx') /\ Work(ctx', queue', attempt') /\ Grows(ctx, ctx')
  <2>1. ctx' = ctx /\ queue' = queue /\ attempt' = attempt
    BY <1>14 DEF vars
  <2>2. Grows(ctx, ctx)
    BY <1>t, ContextSequences, ContinuesSelf DEF Grows
  <2> QED BY <1>t, <2>1, <2>2
<1> QED
  BY <1>1, <1>2, <1>3, <1>4, <1>5, <1>6, <1>7, <1>8, <1>9, <1>10, <1>11, <1>12, <1>13, <1>14
  DEF Next, Analyse, Call

-----------------------------------------------------------------------------
(* The theorems *)

\* A set without two different elements has at most one.
LEMMA AtMostOneElement ==
  ASSUME NEW S, \A x, y \in S : x = y
  PROVE  Cardinality(S) <= 1
<1>1. CASE S = {}
  BY <1>1, FS_EmptySet
<1>2. CASE S # {}
  <2>1. PICK x \in S : S = {x}
    BY <1>2
  <2> QED BY <2>1, FS_Singleton
<1> QED BY <1>1, <1>2

\* The ledger is the order the audit trail must show.
LEMMA HistoryGovernance == HistoryInvariant => GovernanceOrder
<1> SUFFICES ASSUME HistoryInvariant PROVE GovernanceOrder
  OBVIOUS
<1>1. Order(ctx) /\ DecidedOnce(ctx)
  BY DEF HistoryInvariant, Ledger, OnRecord
<1>2. \A earlier, later : PrecedesIn(ctx, earlier, later) => Precedes(earlier, later)
  BY DEF PrecedesIn, Precedes
<1>3. \A type \in OnceTypes : AtMostOnce(type)
  <2>1. ASSUME NEW type \in OnceTypes PROVE Cardinality(EventsOf(ctx, type)) <= 1
    <3>1. \A i, j \in EventsOf(ctx, type) : i = j
      BY <1>1 DEF Order, OnceIn
    <3> QED BY <3>1, AtMostOneElement
  <2> QED BY <2>1 DEF AtMostOnce
<1> QED BY <1>1, <1>2, <1>3 DEF GovernanceOrder, Order, OnceTypes, DecidedOnce

\* The work invariant is the discipline of the retries.
LEMMA HistoryRetries == HistoryInvariant => RetryDiscipline
<1> SUFFICES ASSUME HistoryInvariant PROVE RetryDiscipline
  OBVIOUS
<1> DEFINE Of(role) ==
             {i \in DOMAIN ctx.findings :
                ctx.findings[i].role = role /\ ctx.findings[i].status # "failed"}
<1>1. Work(ctx, queue, attempt)
  BY DEF HistoryInvariant
<1>2. \A i \in DOMAIN ctx.requests :
         ctx.requests[i].attempt > 1 =>
           \E j \in DOMAIN ctx.findings :
             /\ ctx.findings[j].role = ctx.requests[i].role
             /\ ctx.findings[j].attempt = ctx.requests[i].attempt - 1
             /\ ctx.findings[j].status = "failed"
  BY <1>1 DEF Work, RetriesFounded, FailedBefore
<1>3. \A role : Of(role) = AnsweredBy(ctx, role)
  BY DEF AnsweredBy
<1> HIDE DEF Of
<1>4. ASSUME NEW role \in FindingRoles PROVE Cardinality(Of(role)) <= 1
  <2>1. \A x, y \in Of(role) : x = y
    BY <1>1, <1>3 DEF Work, AnsweredOnce
  <2> QED BY <2>1, AtMostOneElement
<1>5. ctx.stage \in {"awaiting_human_decision", "recovery_planning",
                     "awaiting_final_approval", "completed"} =>
        \A role \in ctx.selections \cap FindingRoles : Of(role) # {}
  BY <1>1, <1>3 DEF Work, ReviewedStages
<1> QED BY <1>2, <1>4, <1>5 DEF RetryDiscipline, Of

\* Both invariants together are inductive.
LEMMA HistoryInductive == Spec => [](IInv /\ HistoryInvariant)
<1>1. Init => IInv /\ HistoryInvariant
  BY InitIInv, InitHistory
<1>2. IInv /\ HistoryInvariant /\ [Next]_vars => (IInv /\ HistoryInvariant)'
  BY NextIInv, NextHistory
<1> QED BY <1>1, <1>2, PTL DEF Spec

\* Request, decision, draft, approval, final recommendation and completion
\* are on the audit trail in this order, at most once each, in every run.
THEOREM GovernanceInOrder == Spec => []GovernanceOrder
BY HistoryInductive, HistoryGovernance, PTL

\* Retries follow failures, every expert answers at most once, and no case
\* passes analysis unanswered, whatever the adapter and the retry budget.
THEOREM RetriesDisciplined == Spec => []RetryDiscipline
BY HistoryInductive, HistoryRetries, PTL

\* Growing sequences have what they were as a prefix.
LEMMA GrowsPrefix ==
  ASSUME NEW c \in Contexts, NEW d \in Contexts, Grows(c, d)
  PROVE  /\ IsPrefix(c.events, d.events)
         /\ IsPrefix(c.requests, d.requests)
         /\ IsPrefix(c.findings, d.findings)
         /\ IsPrefix(c.decisions, d.decisions)
<1>1. IsPrefix(c.events, d.events)
  BY ContextSequences, ContinuesPrefix DEF Grows
<1>2. IsPrefix(c.requests, d.requests)
  BY ContextSequences, ContinuesPrefix DEF Grows
<1>3. IsPrefix(c.findings, d.findings)
  BY ContextSequences, ContinuesPrefix DEF Grows
<1>4. IsPrefix(c.decisions, d.decisions)
  BY ContextSequences, ContinuesPrefix DEF Grows
<1> QED BY <1>1, <1>2, <1>3, <1>4

\* No step of any run drops or rewrites an audit event, a request, a finding
\* or a decision.
THEOREM EvidenceOnlyAdded == Spec => EvidenceAppendOnly
<1>1. IInv /\ IInv' /\ HistoryInvariant /\ [Next]_vars =>
        [/\ IsPrefix(ctx.events, ctx'.events)
         /\ IsPrefix(ctx.requests, ctx'.requests)
         /\ IsPrefix(ctx.findings, ctx'.findings)
         /\ IsPrefix(ctx.decisions, ctx'.decisions)]_vars
  <2> SUFFICES ASSUME IInv, IInv', HistoryInvariant, [Next]_vars
               PROVE  /\ IsPrefix(ctx.events, ctx'.events)
                      /\ IsPrefix(ctx.requests, ctx'.requests)
                      /\ IsPrefix(ctx.findings, ctx'.findings)
                      /\ IsPrefix(ctx.decisions, ctx'.decisions)
    OBVIOUS
  <2>1. ctx \in Contexts /\ ctx' \in Contexts
    BY DEF IInv, TypeOK
  <2>2. Grows(ctx, ctx')
    BY NextHistory
  <2> QED BY <2>1, <2>2, GrowsPrefix
<1> QED BY <1>1, HistoryInductive, PTL DEF Spec, EvidenceAppendOnly

-----------------------------------------------------------------------------
(* The runner implements the abstract promise.  PhaseOf and DecidersIn are *)
(* AbstractPhase and DecidersOf of any context.                            *)

PhaseOf(c) ==
  CASE c.stage = "awaiting_human_decision" -> "gated"
    [] c.stage = "recovery_planning"       -> "planning"
    [] c.stage = "awaiting_final_approval" -> "drafted"
    [] c.stage = "completed"               -> "authorized"
    [] c.stage = "failed"                  -> "abandoned"
    [] OTHER                               -> "open"

DecidersIn(c, id) ==
  {c.decisions[i].by : i \in {k \in DOMAIN c.decisions : c.decisions[k].request = id}}

\* Who decided follows what was decided.
LEMMA DecidersFacts ==
  ASSUME NEW c \in Contexts, NEW id
  PROVE  /\ DecidersIn(c, id) = {} <=> id \notin DecidedIds(c)
         /\ \A d : d.decisions = c.decisions => DecidersIn(d, id) = DecidersIn(c, id)
BY DEF DecidersIn, DecidedIds

\* One more decision adds the one who made it.
LEMMA DecidersAppend ==
  ASSUME NEW c \in Contexts, NEW d, NEW x \in Decisions, NEW id,
         d.decisions = Append(c.decisions, x)
  PROVE  /\ x.request = id => DecidersIn(d, id) = DecidersIn(c, id) \cup {x.by}
         /\ x.request # id => DecidersIn(d, id) = DecidersIn(c, id)
<1>1. /\ Len(c.decisions) \in Nat
      /\ DOMAIN c.decisions = 1 .. Len(c.decisions)
      /\ DOMAIN d.decisions = 1 .. Len(c.decisions) + 1
      /\ \A i \in 1 .. Len(c.decisions) : d.decisions[i] = c.decisions[i]
      /\ d.decisions[Len(c.decisions) + 1] = x
  BY ContextSequences, AppendElements
<1> QED BY <1>1 DEF DecidersIn

\* The phase read off a stage.
LEMMA PhaseFacts ==
  ASSUME NEW c
  PROVE  /\ c.stage = "awaiting_human_decision" => PhaseOf(c) = "gated"
         /\ c.stage = "recovery_planning" => PhaseOf(c) = "planning"
         /\ c.stage = "awaiting_final_approval" => PhaseOf(c) = "drafted"
         /\ c.stage = "completed" => PhaseOf(c) = "authorized"
         /\ c.stage = "failed" => PhaseOf(c) = "abandoned"
         /\ c.stage \in {"initialized", "validating", "triaging", "expert_analysis"} =>
              PhaseOf(c) = "open"
BY DEF PhaseOf

\* The abstract variables before and after a step.
LEMMA AbstractState ==
  /\ AbstractPhase = PhaseOf(ctx)
  /\ AbstractPhase' = PhaseOf(ctx')
  /\ \A id : DecidersOf(id) = DecidersIn(ctx, id)
  /\ DecidersOf(OnsiteRequest)' = DecidersIn(ctx', OnsiteRequest)
  /\ DecidersOf(FinalRequest)' = DecidersIn(ctx', FinalRequest)
BY DEF AbstractPhase, PhaseOf, DecidersOf, DecidersIn

\* A new case promises nothing yet.
LEMMA InitGoverned == Init => Governed!Init
<1> SUFFICES ASSUME Init PROVE Governed!Init
  OBVIOUS
<1>1. ctx.stage = "initialized" /\ ctx.decisions = <<>>
  BY DEF Init, InitialContext
<1>2. PhaseOf(ctx) = "open"
  BY <1>1, PhaseFacts
<1>3. \A id : DecidersIn(ctx, id) = {}
  BY <1>1 DEF DecidersIn
<1> QED BY <1>2, <1>3, AbstractState DEF Governed!Init

\* Every step of the runner is a step of the promise, or leaves it alone.
LEMMA NextGoverned ==
  IInv /\ HistoryInvariant /\ [Next]_vars => [Governed!Next]_(Governed!vars)
<1> SUFFICES ASSUME IInv, HistoryInvariant, [Next]_vars
             PROVE  Governed!Next \/ UNCHANGED Governed!vars
  OBVIOUS
<1>t. /\ facts \in Facts
      /\ ctx \in Contexts
      /\ queue \in Seq(FindingRoles)
      /\ attempt \in 1 .. MaxAttempts
      /\ adapter \in {"deterministic", "external", "custom"}
      /\ GateShape(ctx)
      /\ Ledger(ctx)
      /\ Work(ctx, queue, attempt)
  BY AdaptersAssumption DEF IInv, GateInvariant, TypeOK, HistoryInvariant
<1>d. \A d \in CallerDecisions : d \in Decisions /\ d.by \in Actors
  BY CallerOutcomesAssumption DEF CallerDecisions, Decisions
<1>o. OnsiteRequest # FinalRequest
  BY DEF OnsiteRequest, FinalRequest
<1>k. ASSUME ctx'.decisions = ctx.decisions
      PROVE  /\ DecidersOf(OnsiteRequest)' = DecidersOf(OnsiteRequest)
             /\ DecidersOf(FinalRequest)' = DecidersOf(FinalRequest)
  BY <1>t, <1>k, AbstractState, DecidersFacts
(* Analysis moves an open case, and decides nothing.                       *)
<1>a. ASSUME ctx'.decisions = ctx.decisions,
             ctx.stage \in {"initialized", "validating", "triaging", "expert_analysis"},
             ctx'.stage \in {"validating", "triaging", "expert_analysis", "failed",
                             "recovery_planning", "awaiting_human_decision"}
      PROVE  Governed!Next \/ UNCHANGED Governed!vars
  <2>1. AbstractPhase = "open"
    BY <1>a, AbstractState, PhaseFacts
  <2>2. AbstractPhase' \in {"open", "abandoned", "planning", "gated"}
    BY <1>a, AbstractState, PhaseFacts
  <2>3. CASE AbstractPhase' = "open"
    BY <1>a, <1>k, <2>1, <2>3 DEF Governed!vars
  <2>4. CASE AbstractPhase' = "abandoned"
    BY <1>a, <1>k, <2>1, <2>4 DEF Governed!Next, Governed!Abandon
  <2>5. CASE AbstractPhase' = "planning"
    BY <1>a, <1>k, <2>1, <2>5 DEF Governed!Next, Governed!PassUngated
  <2>6. CASE AbstractPhase' = "gated"
    BY <1>a, <1>k, <2>1, <2>6 DEF Governed!Next, Governed!Gate
  <2> QED BY <2>2, <2>3, <2>4, <2>5, <2>6
<1>1. ASSUME PassValidation \/ FailValidation PROVE Governed!Next \/ UNCHANGED Governed!vars
  <2>1. /\ ctx.stage = "initialized"
        /\ ctx' = ValidateFixture(ctx, facts)
    BY <1>1 DEF PassValidation, FailValidation
  <2>2. ctx'.decisions = ctx.decisions /\ ctx'.stage \in {"validating", "failed"}
    BY <1>t, <2>1, ValidateFixtureFrame DEF SameGovernance
  <2> QED BY <1>a, <2>1, <2>2
<1>2. ASSUME SelectAndTriage PROVE Governed!Next \/ UNCHANGED Governed!vars
  <2>1. /\ ctx.stage = "validating"
        /\ ctx' = Triage(ctx, facts)
    BY <1>2 DEF SelectAndTriage
  <2>2. ctx'.decisions = ctx.decisions /\ ctx'.stage = "triaging"
    BY <1>t, <2>1, TriageFrame DEF SameGovernance
  <2> QED BY <1>a, <2>1, <2>2
<1>3. ASSUME BeginExpertAnalysis PROVE Governed!Next \/ UNCHANGED Governed!vars
  <2>1. /\ ctx.stage = "triaging"
        /\ ctx' = Transition(ctx, "expert_analysis")
    BY <1>3 DEF BeginExpertAnalysis
  <2>2. ctx'.decisions = ctx.decisions /\ ctx'.stage = "expert_analysis"
    BY <1>t, <2>1, TransitionMoves DEF Moves, SameGovernance, Stages
  <2> QED BY <1>a, <2>1, <2>2
<1>4. ASSUME CompleteExpert \/ RetryExpert \/ ExhaustAttempts
      PROVE  Governed!Next \/ UNCHANGED Governed!vars
  <2>1. ctx.stage = "expert_analysis" /\ queue # <<>>
    BY <1>4 DEF CompleteExpert, RetryExpert, ExhaustAttempts, InAnalysis
  <2>2. Head(queue) \in FindingRoles
    BY <1>t, <2>1
  <2>3. PICK status \in FindingStatus :
          \/ ctx' = ExecuteAttempt(ctx, Head(queue), attempt, status)
          \/ ctx' = MarkFailed(ExecuteAttempt(ctx, Head(queue), attempt, status))
    <3>1. FindingAnswers(Head(queue), attempt) \subseteq FindingStatus
      BY <1>t, AnswersType
    <3>2. "failed" \in FindingStatus
      BY DEF FindingStatus
    <3> QED BY <1>4, <3>1, <3>2 DEF CompleteExpert, RetryExpert, ExhaustAttempts
  <2> DEFINE tried == ExecuteAttempt(ctx, Head(queue), attempt, status)
  <2>4. /\ tried \in Contexts
        /\ tried.decisions = ctx.decisions
        /\ tried.stage = "expert_analysis"
    BY <1>t, <2>1, <2>2, <2>3, ExecuteAttemptType, ExecuteAttemptFrame DEF SameGovernance
  <2>5. ctx' = tried \/ ctx' = MarkFailed(tried)
    BY <2>3
  <2> HIDE DEF tried
  <2>6. /\ ctx'.decisions = ctx.decisions
        /\ ctx'.stage \in {"expert_analysis", "failed"}
    BY <2>4, <2>5, MarkFailedFrame DEF SameGovernance
  <2> QED BY <1>a, <2>1, <2>6
<1>5. ASSUME ReviewUnaudited PROVE Governed!Next \/ UNCHANGED Governed!vars
  <2>1. ctx.stage = "expert_analysis" /\ ctx' = SkipReview(ctx)
    BY <1>5 DEF ReviewUnaudited, ReviewReady
  <2>2. ctx'.decisions = ctx.decisions /\ ctx'.stage = "recovery_planning"
    BY <1>t, <2>1, SkipReviewFrame DEF SameGovernance
  <2> QED BY <1>a, <2>1, <2>2
<1>6. ASSUME ReviewAudited PROVE Governed!Next \/ UNCHANGED Governed!vars
  <2>1. ctx.stage = "expert_analysis"
    BY <1>6 DEF ReviewAudited, ReviewReady
  <2>2. PICK found \in AuditAnswers : ctx' = ReviewContradictions(ctx, found)
    BY <1>6 DEF ReviewAudited
  <2>3. found \in Seq(ContradictionStatus)
    BY <1>t, <2>2, AnswersType
  <2>4. ctx'.stage \in {"awaiting_human_decision", "recovery_planning"}
    BY <1>t, <2>1, <2>2, <2>3, ReviewContradictionsLink
  <2>5. ctx'.decisions = ctx.decisions
    BY <1>t, <2>1, <2>2, <2>3, ReviewDecides
  <2> QED BY <1>a, <2>1, <2>4, <2>5
<1>7. ASSUME FailReview PROVE Governed!Next \/ UNCHANGED Governed!vars
  <2>1. ctx.stage = "expert_analysis" /\ ctx' = MarkFailed(RequestAudit(ctx))
    BY <1>7 DEF FailReview, ReviewReady
  <2>2. RequestAudit(ctx) \in Contexts /\ RequestAudit(ctx).decisions = ctx.decisions
    BY <1>t, RequestAuditType, RequestAuditFrame DEF SameGovernance
  <2>3. ctx'.decisions = ctx.decisions /\ ctx'.stage = "failed"
    BY <2>1, <2>2, MarkFailedFrame DEF SameGovernance
  <2> QED BY <1>a, <2>1, <2>3
<1>8. ASSUME Resume \/ AbortResume PROVE Governed!Next \/ UNCHANGED Governed!vars
  <2>1. /\ CanResume(ctx)
        /\ \/ ctx' = PlanRecovery(LeaveHumanGate(ctx))
           \/ ctx' = AbortPlanning(LeaveHumanGate(ctx))
    BY <1>8 DEF Resume, AbortResume, PlanFrom, AbortFrom
  <2>2. ctx.stage = "awaiting_human_decision" /\ LastPending(ctx) \in DecidedIds(ctx)
    BY <2>1 DEF CanResume
  <2>3. OnsiteRequest \in DecidedIds(ctx)
    BY <1>t, <2>2, AnswerGate
  <2>4. /\ ctx'.decisions = ctx.decisions
        /\ ctx'.stage \in {"recovery_planning", "awaiting_final_approval"}
    BY <1>t, <2>1, <2>2, <2>3, PlanHistory
  <2>5. AbstractPhase = "gated" /\ AbstractPhase' \in {"planning", "drafted"}
    BY <2>2, <2>4, AbstractState, PhaseFacts
  <2>6. DecidersOf(OnsiteRequest) # {}
    BY <1>t, <2>3, AbstractState, DecidersFacts
  <2> QED BY <1>k, <2>4, <2>5, <2>6 DEF Governed!Next, Governed!Plan
<1>9. ASSUME NEW d \in CallerDecisions, CanRecordDecision(ctx, d)
      PROVE  /\ AbstractPhase = "gated"
             /\ DecidersOf(OnsiteRequest) = {}
             /\ d.request = OnsiteRequest
             /\ RecordHumanDecision(ctx, d).decisions = Append(ctx.decisions, d)
  <2>1. /\ ctx.stage = "awaiting_human_decision"
        /\ d.request = OnsiteRequest
        /\ OnsiteRequest \notin DecidedIds(ctx)
    BY <1>t, <1>9, DecisionSubject
  <2>2. AbstractPhase = "gated" /\ DecidersOf(OnsiteRequest) = {}
    BY <1>t, <2>1, AbstractState, PhaseFacts, DecidersFacts
  <2>3. RecordHumanDecision(ctx, d).decisions = Append(ctx.decisions, d)
    BY <1>t, <1>d, RecordHumanDecisionFrame
  <2> QED BY <2>1, <2>2, <2>3
<1>10. ASSUME NEW d \in CallerDecisions, d.request = OnsiteRequest,
              DecidersOf(OnsiteRequest) = {}, ctx'.decisions = Append(ctx.decisions, d)
       PROVE  /\ DecidersOf(OnsiteRequest)' = {d.by}
              /\ DecidersOf(FinalRequest)' = DecidersOf(FinalRequest)
  <2>1. d \in Decisions /\ d.request # FinalRequest
    BY <1>d, <1>o, <1>10
  <2>2. DecidersIn(ctx', OnsiteRequest) = DecidersIn(ctx, OnsiteRequest) \cup {d.by}
    BY <1>t, <1>10, <2>1, DecidersAppend
  <2>3. DecidersIn(ctx', FinalRequest) = DecidersIn(ctx, FinalRequest)
    BY <1>t, <1>10, <2>1, DecidersAppend
  <2> QED BY <1>10, <2>2, <2>3, AbstractState
<1>11. ASSUME NEW d \in CallerDecisions, SubmitDecision(d)
       PROVE  Governed!Next \/ UNCHANGED Governed!vars
  <2>1. CanRecordDecision(ctx, d) /\ ctx' = RecordHumanDecision(ctx, d)
    BY <1>11 DEF SubmitDecision
  <2>2. /\ AbstractPhase = "gated"
        /\ DecidersOf(OnsiteRequest) = {}
        /\ DecidersOf(OnsiteRequest)' = {d.by}
        /\ DecidersOf(FinalRequest)' = DecidersOf(FinalRequest)
    BY <1>9, <1>10, <2>1
  <2>3. ctx'.stage = "awaiting_human_decision"
    BY <1>t, <1>d, <2>1, RecordHumanDecisionShape
  <2>4. AbstractPhase' = "gated"
    BY <2>3, AbstractState, PhaseFacts
  <2>5. Governed!Decide(d.by)
    BY <2>2, <2>4 DEF Governed!Decide
  <2> QED BY <1>d, <2>5 DEF Governed!Next
<1>12. ASSUME NEW d \in CallerDecisions, ResumeWithDecision(d) \/ AbortResumeWithDecision(d)
       PROVE  Governed!Next \/ UNCHANGED Governed!vars
  <2> DEFINE told == RecordHumanDecision(ctx, d)
  <2>1. /\ CanRecordDecision(ctx, d)
        /\ ctx' = PlanRecovery(LeaveHumanGate(told)) \/ ctx' = AbortPlanning(LeaveHumanGate(told))
    BY <1>12 DEF ResumeWithDecision, AbortResumeWithDecision, PlanFrom, AbortFrom
  <2>2. /\ told \in Contexts
        /\ GateShape(told)
        /\ told.stage = "awaiting_human_decision"
        /\ OnsiteRequest \in DecidedIds(told)
    BY <1>t, <1>d, <2>1, RecordHumanDecisionShape
  <2>3. Ledger(told) /\ Work(told, queue, attempt)
    BY <1>t, <1>d, <2>1, DecisionHistory
  <2>4. told.decisions = Append(ctx.decisions, d)
    BY <1>9, <2>1
  <2> HIDE DEF told
  <2>5. /\ ctx'.decisions = Append(ctx.decisions, d)
        /\ ctx'.stage \in {"recovery_planning", "awaiting_final_approval"}
    BY <2>1, <2>2, <2>3, <2>4, PlanHistory
  <2>6. /\ AbstractPhase = "gated"
        /\ DecidersOf(OnsiteRequest) = {}
        /\ DecidersOf(OnsiteRequest)' = {d.by}
        /\ DecidersOf(FinalRequest)' = DecidersOf(FinalRequest)
    BY <1>9, <1>10, <2>1, <2>5
  <2>7. AbstractPhase' \in {"planning", "drafted"}
    BY <2>5, AbstractState, PhaseFacts
  <2>8. Governed!DecideAndPlan(d.by)
    BY <2>6, <2>7 DEF Governed!DecideAndPlan
  <2> QED BY <1>d, <2>8 DEF Governed!Next
<1>13. ASSUME NEW a \in Actors, Approve(a) PROVE Governed!Next \/ UNCHANGED Governed!vars
  <2> DEFINE x == [request |-> FinalRequest, outcome |-> "approved", by |-> a]
  <2>1. ctx.stage = "awaiting_final_approval" /\ ctx' = ApproveFinal(ctx, a)
    BY <1>13 DEF Approve, CanApprove
  <2>2. /\ Has(ctx, "draft_recommendation_created")
        /\ ~Has(ctx, "final_approval_recorded")
        /\ ~Has(ctx, "case_completed")
    BY <1>t, <2>1 DEF Ledger, OnRecord, PlannedStages
  <2>3. ctx'.decisions = Append(ctx.decisions, x) /\ ctx'.stage = "completed"
    BY <1>t, <2>1, <2>2, ApproveFinalLink
  <2>4. x \in Decisions /\ x.request = FinalRequest /\ x.by = a
    BY DEF Decisions, Outcomes
  <2> HIDE DEF x
  <2>5. DecidersIn(ctx', FinalRequest) = DecidersIn(ctx, FinalRequest) \cup {a}
    BY <1>t, <2>3, <2>4, DecidersAppend
  <2>6. DecidersIn(ctx', OnsiteRequest) = DecidersIn(ctx, OnsiteRequest)
    BY <1>t, <1>o, <2>3, <2>4, DecidersAppend
  <2>7. DecidersIn(ctx, FinalRequest) = {}
    BY <1>t, <2>1, DecidersFacts DEF GateShape
  <2>8. AbstractPhase = "drafted" /\ AbstractPhase' = "authorized"
    BY <2>1, <2>3, AbstractState, PhaseFacts
  <2>9. Governed!Authorize(a)
    BY <2>5, <2>6, <2>7, <2>8, AbstractState DEF Governed!Authorize
  <2> QED BY <2>9 DEF Governed!Next
<1>14. ASSUME UNCHANGED vars PROVE Governed!Next \/ UNCHANGED Governed!vars
  <2>1. ctx' = ctx
    BY <1>14 DEF vars
  <2>2. AbstractPhase' = AbstractPhase
    BY <2>1, AbstractState
  <2> QED BY <1>k, <2>1, <2>2 DEF Governed!vars
<1> QED
  BY <1>1, <1>2, <1>3, <1>4, <1>5, <1>6, <1>7, <1>8, <1>11, <1>12, <1>13, <1>14
  DEF Next, Analyse, Call

\* The runner keeps the promise of GovernedCase: gate, one answer, a plan
\* from the answer, one approval, by the people on record, for every set of
\* people, every retry budget and every adapter.
THEOREM GovernedCaseImplemented == Spec => ImplementsGovernedCase
BY InitGoverned, NextGoverned, HistoryInductive, PTL
   DEF Spec, ImplementsGovernedCase, Governed!Spec

-----------------------------------------------------------------------------
(* The stages on record form a legal path.  CompletedStages is gathered    *)
(* event by event; Gathers says what a function that gathers it satisfies. *)

GatherStep(t, c, n) ==
  IF n = 0 THEN <<>>
  ELSE IF c.events[n].type # "workflow_stage_changed" THEN t[n - 1]
  ELSE Append(t[n - 1], c.events[n].about)

Gathers(t, c, m) ==
  t \in [0 .. m -> Seq(Subjects)] /\ \A n \in 0 .. m : t[n] = GatherStep(t, c, n)

\* The stages can be gathered up to any event.
LEMMA GatherExists ==
  ASSUME NEW c \in Contexts
  PROVE  \A m \in 0 .. Len(c.events) : \E t : Gathers(t, c, m)
<1> DEFINE T == {m \in 0 .. Len(c.events) : ~ \E t : Gathers(t, c, m)}
<1>1. /\ Len(c.events) \in Nat
      /\ \A i \in 1 .. Len(c.events) : c.events[i].about \in Subjects
  <2>1. c.events \in Seq(AuditEvents)
    BY ContextSequences
  <2>2. \A i \in 1 .. Len(c.events) : c.events[i] \in AuditEvents
    BY <2>1
  <2> QED BY <2>1, <2>2 DEF AuditEvents
<1>2. SUFFICES ASSUME T # {} PROVE FALSE
  OBVIOUS
<1>3. PICK m \in T : \A k \in T : m <= k
  <2>1. T \in SUBSET Nat
    BY <1>1
  <2> HIDE DEF T
  <2> QED BY <1>2, <2>1, LeastNatural
<1>4. m \in 0 .. Len(c.events) /\ ~ \E t : Gathers(t, c, m)
  BY <1>3
<1>5. CASE m = 0
  <2> DEFINE t == [n \in 0 .. 0 |-> <<>>]
  <2>1. t \in [0 .. 0 -> Seq(Subjects)] /\ \A n \in 0 .. 0 : n = 0 /\ t[n] = <<>>
    OBVIOUS
  <2> HIDE DEF t
  <2>2. Gathers(t, c, 0)
    BY <2>1 DEF Gathers, GatherStep
  <2> QED BY <1>4, <1>5, <2>2
<1>6. CASE m # 0
  <2>1. m - 1 \in 0 .. Len(c.events) /\ m \in Nat /\ m - 1 \in Nat /\ m \in 1 .. Len(c.events)
    BY <1>1, <1>4, <1>6
  <2>2. m - 1 \notin T
    BY <1>3, <2>1
  <2>3. PICK t : Gathers(t, c, m - 1)
    BY <2>1, <2>2
  <2> DEFINE next == GatherStep(t, c, m)
             u    == [n \in 0 .. m |-> IF n = m THEN next ELSE t[n]]
  <2>4. next \in Seq(Subjects)
    <3>1. t[m - 1] \in Seq(Subjects)
      BY <2>1, <2>3 DEF Gathers
    <3> QED BY <1>1, <1>6, <2>1, <3>1 DEF GatherStep
  <2>5. \A n \in 0 .. m : n # m => n \in 0 .. m - 1
    BY <2>1
  <2>6. u \in [0 .. m -> Seq(Subjects)]
    BY <2>3, <2>4, <2>5 DEF Gathers
  <2>7. /\ u[m] = next
        /\ \A n \in 0 .. m : n # m => u[n] = t[n]
    BY <2>1
  <2> HIDE DEF u
  <2>8. ASSUME NEW n \in 0 .. m PROVE u[n] = GatherStep(u, c, n)
    <3>1. n # 0 => n - 1 \in 0 .. m /\ n - 1 # m
      BY <2>1
    <3>2. GatherStep(u, c, n) = GatherStep(t, c, n)
      BY <2>7, <3>1 DEF GatherStep
    <3>3. n # m => t[n] = GatherStep(t, c, n)
      BY <2>3, <2>5 DEF Gathers
    <3> QED BY <2>7, <3>2, <3>3
  <2>9. Gathers(u, c, m)
    BY <2>6, <2>8 DEF Gathers
  <2> QED BY <1>4, <2>9
<1> QED BY <1>5, <1>6

\* What is persisted as completed_stages is gathered from the audit trail.
LEMMA CompletedStagesGathered ==
  ASSUME NEW c \in Contexts
  PROVE  \E t : Gathers(t, c, Len(c.events)) /\ CompletedStages(c) = t[Len(c.events)]
<1> DEFINE L == Len(c.events)
           Body(t) == [n \in 0 .. L |->
                         IF n = 0 THEN <<>>
                         ELSE IF c.events[n].type # "workflow_stage_changed" THEN t[n - 1]
                         ELSE Append(t[n - 1], c.events[n].about)]
           g == CHOOSE t : t = Body(t)
<1>1. L \in Nat
  BY ContextSequences
<1>2. CompletedStages(c) = g[L]
  BY DEF CompletedStages
<1>3. PICK t : Gathers(t, c, L)
  BY <1>1, GatherExists
<1>4. t = Body(t)
  BY <1>3 DEF Gathers, GatherStep
<1>5. g = Body(g)
  BY <1>4
<1> HIDE DEF g
<1>6. \A n \in 0 .. L : g[n] = GatherStep(g, c, n)
  BY <1>5 DEF GatherStep
<1>7. g = t
  <2> DEFINE D == {n \in 0 .. L : g[n] # t[n]}
  <2>1. D = {}
    <3>1. SUFFICES ASSUME D # {} PROVE FALSE
      OBVIOUS
    <3>2. PICK m \in D : \A k \in D : m <= k
      <4>1. D \in SUBSET Nat
        BY <1>1
      <4> HIDE DEF D
      <4> QED BY <3>1, <4>1, LeastNatural
    <3>3. m \in 0 .. L /\ g[m] # t[m]
      BY <3>2
    <3>4. m # 0 => m - 1 \in 0 .. L /\ m - 1 \notin D
      BY <1>1, <3>2, <3>3
    <3>5. m # 0 => g[m - 1] = t[m - 1]
      BY <3>4
    <3>6. GatherStep(g, c, m) = GatherStep(t, c, m)
      BY <3>5 DEF GatherStep
    <3> QED BY <1>3, <1>6, <3>3, <3>6 DEF Gathers
  <2>2. \A n \in 0 .. L : g[n] = t[n]
    BY <2>1
  <2> QED BY <1>3, <1>5, <2>2 DEF Gathers
<1> QED BY <1>2, <1>3, <1>7

LegalTrail(s, stage) ==
  LET trail == <<"initialized">> \o s
  IN  /\ trail[Len(trail)] = stage
      /\ \A i \in 1 .. Len(trail) - 1 : trail[i + 1] \in ValidTransitions[trail[i]]

\* A legal stage change makes a legal trail longer.
LEMMA TrailAppend ==
  ASSUME NEW s \in Seq(Subjects), NEW stage, NEW target \in Subjects,
         LegalTrail(s, stage), target \in ValidTransitions[stage]
  PROVE  LegalTrail(Append(s, target), target)
<1> DEFINE trail  == <<"initialized">> \o s
           longer == <<"initialized">> \o Append(s, target)
<1>1. /\ Len(s) \in Nat
      /\ Len(trail) = Len(s) + 1
      /\ Len(longer) = Len(s) + 2
      /\ \A i \in 1 .. Len(s) + 1 : longer[i] = trail[i]
      /\ longer[Len(s) + 2] = target
  OBVIOUS
<1>2. /\ trail[Len(s) + 1] = stage
      /\ \A i \in 1 .. Len(s) : trail[i + 1] \in ValidTransitions[trail[i]]
  BY <1>1 DEF LegalTrail
<1> HIDE DEF trail, longer
<1>3. ASSUME NEW i \in 1 .. Len(s) + 1
      PROVE  longer[i + 1] \in ValidTransitions[longer[i]]
  <2>1. CASE i \in 1 .. Len(s)
    BY <1>1, <1>2, <2>1
  <2>2. CASE i = Len(s) + 1
    BY <1>1, <1>2, <2>2
  <2> QED BY <1>1, <2>1, <2>2
<1>4. /\ longer[Len(longer)] = target
      /\ \A i \in 1 .. Len(longer) - 1 : longer[i + 1] \in ValidTransitions[longer[i]]
  BY <1>1, <1>3
<1> QED BY <1>4 DEF LegalTrail, longer

\* The trail gathered up to an event ends where the walk stands.
LEMMA TrailFollowsWalk ==
  ASSUME NEW c \in Contexts, NEW walk, IsWalk(walk, c), NEW t,
         Gathers(t, c, Len(c.events))
  PROVE  \A n \in 0 .. Len(c.events) : LegalTrail(t[n], walk[n])
<1> DEFINE L == Len(c.events)
           T == {n \in 0 .. L : ~ LegalTrail(t[n], walk[n])}
<1>1. L \in Nat
  BY ContextSequences
<1>2. SUFFICES ASSUME T # {} PROVE FALSE
  OBVIOUS
<1>3. PICK m \in T : \A k \in T : m <= k
  <2>1. T \in SUBSET Nat
    BY <1>1
  <2> HIDE DEF T
  <2> QED BY <1>2, <2>1, LeastNatural
<1>4. m \in 0 .. L /\ ~ LegalTrail(t[m], walk[m])
  BY <1>3
<1>5. CASE m = 0
  <2>1. t[m] = <<>> /\ walk[m] = "initialized"
    BY <1>4, <1>5 DEF Gathers, GatherStep, IsWalk
  <2>2. LegalTrail(<<>>, "initialized")
    BY DEF LegalTrail
  <2> QED BY <1>4, <2>1, <2>2
<1>6. CASE m # 0
  <2>1. m - 1 \in 0 .. L /\ m - 1 \notin T /\ m \in 1 .. L
    BY <1>1, <1>3, <1>4, <1>6
  <2>2. LegalTrail(t[m - 1], walk[m - 1]) /\ t[m - 1] \in Seq(Subjects)
    BY <2>1 DEF Gathers
  <2>3. t[m] = GatherStep(t, c, m)
    BY <1>4 DEF Gathers
  <2>4. CASE c.events[m].type # "workflow_stage_changed"
    <3>1. t[m] = t[m - 1] /\ walk[m] = walk[m - 1]
      BY <1>6, <2>1, <2>3, <2>4 DEF GatherStep, IsWalk
    <3> QED BY <1>4, <2>2, <3>1
  <2>5. CASE c.events[m].type = "workflow_stage_changed"
    <3>1. /\ t[m] = Append(t[m - 1], c.events[m].about)
          /\ walk[m] = c.events[m].about
          /\ walk[m] \in ValidTransitions[walk[m - 1]]
      BY <1>6, <2>1, <2>3, <2>5 DEF GatherStep, IsWalk
    <3>2. walk[m] \in Subjects
      BY <1>4 DEF IsWalk, Subjects
    <3> QED BY <1>4, <2>2, <3>1, <3>2, TrailAppend
  <2> QED BY <2>4, <2>5
<1> QED BY <1>5, <1>6

\* The stage walk of the ledger is the trail `completed_stages` shows.
LEMMA HistoryTrail == IInv /\ HistoryInvariant => StageTrailLegal
<1> SUFFICES ASSUME IInv, HistoryInvariant PROVE StageTrailLegal
  OBVIOUS
<1>1. ctx \in Contexts /\ StageWalk(ctx)
  BY DEF IInv, TypeOK, HistoryInvariant, Ledger
<1>2. PICK walk : IsWalk(walk, ctx)
  BY <1>1 DEF StageWalk
<1>3. PICK t : Gathers(t, ctx, Len(ctx.events)) /\ CompletedStages(ctx) = t[Len(ctx.events)]
  BY <1>1, CompletedStagesGathered
<1>4. Len(ctx.events) \in 0 .. Len(ctx.events)
  BY <1>1, ContextSequences
<1>5. LegalTrail(CompletedStages(ctx), walk[Len(ctx.events)])
  BY <1>1, <1>2, <1>3, <1>4, TrailFollowsWalk
<1>6. walk[Len(ctx.events)] = ctx.stage
  BY <1>2 DEF IsWalk
<1> QED BY <1>5, <1>6 DEF StageTrailLegal, LegalTrail

\* The stages persisted for a case are a legal path of VALID_TRANSITIONS from
\* the initial stage to the present one, whatever happened to the case.
THEOREM StageTrailAlwaysLegal == Spec => []StageTrailLegal
BY HistoryInductive, HistoryTrail, PTL
=============================================================================
