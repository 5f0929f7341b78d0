-------------------------- MODULE CaseReplay_proofs --------------------------
(***************************************************************************)
(* Replay, for every set of run directories, people and case contents and  *)
(* every length of a behaviour: what is called equivalent is the same run, *)
(* and a run that the simulated people completed replays to itself.        *)
(*                                                                         *)
(* The argument: a context that a directory holds is determined by the     *)
(* context its run started with and the people that took it on from there  *)
(* (Grown).  The findings and the selected experts, which replay compares, *)
(* determine the context a run started with (SameStart), although neither  *)
(* the case bundle nor the injected failure is compared.                   *)
(***************************************************************************)
EXTENDS CaseReplay, CaseCommands_proofs

-----------------------------------------------------------------------------
(* What a run started with *)

(* Some expert's attempt failed.                                           *)
SomeFailed(c) == \E i \in DOMAIN c.findings : c.findings[i].status = "failed"

(* The failure that is injected reaches the commercial expert.             *)
Injected(f) == "CommercialExpert" \in SelectExperts(f) /\ f.injectFailure

\* An attempt adds a failure exactly when it fails.
LEMMA AttemptFails ==
  ASSUME NEW c \in Contexts, NEW role \in FindingRoles,
         NEW n \in 1 .. MaxAttempts, NEW status \in {"completed", "failed"}
  PROVE  SomeFailed(ExecuteAttempt(c, role, n, status)) <=>
           SomeFailed(c) \/ status = "failed"
<1> DEFINE d       == ExecuteAttempt(c, role, n, status)
           finding == [role |-> role, attempt |-> n, status |-> status]
<1>1. status \in FindingStatus
  BY DEF FindingStatus
<1>2. d.findings = Append(c.findings, finding)
  BY <1>1, AttemptAdds
<1>3. finding \in Findings /\ finding.status = status
  BY <1>1 DEF Findings
<1> HIDE DEF finding, d
<1>4. /\ DOMAIN c.findings = 1 .. Len(c.findings) /\ Len(c.findings) \in Nat
      /\ DOMAIN d.findings = 1 .. Len(c.findings) + 1
      /\ \A i \in 1 .. Len(c.findings) : d.findings[i] = c.findings[i]
      /\ d.findings[Len(c.findings) + 1] = finding
  BY <1>2, <1>3, ContextSequences, AppendElements
<1>5. SomeFailed(d) <=> SomeFailed(c) \/ status = "failed"
  <2>1. ASSUME NEW i \in DOMAIN d.findings, d.findings[i].status = "failed"
        PROVE  SomeFailed(c) \/ status = "failed"
    <3>1. i \in 1 .. Len(c.findings) \/ i = Len(c.findings) + 1
      BY <1>4, <2>1
    <3> QED BY <1>3, <1>4, <2>1, <3>1 DEF SomeFailed
  <2>2. ASSUME NEW i \in DOMAIN c.findings, c.findings[i].status = "failed"
        PROVE  SomeFailed(d)
    <3>1. i \in DOMAIN d.findings
      BY <1>4, <2>2
    <3> QED BY <1>4, <2>2, <3>1 DEF SomeFailed
  <2>3. status = "failed" => SomeFailed(d)
    <3>1. Len(c.findings) + 1 \in DOMAIN d.findings
      BY <1>4
    <3> QED BY <1>3, <1>4, <3>1 DEF SomeFailed
  <2> QED BY <2>1, <2>2, <2>3 DEF SomeFailed
<1> QED BY <1>5 DEF d

\* An expert's turn adds a failure only when one is injected into it.
LEMMA ConsultedFails ==
  ASSUME NEW f \in Facts, NEW c, NEW left, Analysing(f, c, left),
         NEW role \in left, role \in FindingRoles
  PROVE  SomeFailed(Consulted(c, role, f)) <=>
           SomeFailed(c) \/ (role = "CommercialExpert" /\ Injected(f))
<1>1. c \in Contexts /\ c.selections = SelectExperts(f)
  BY DEF Analysing
<1>2. /\ 1 \in 1 .. MaxAttempts /\ 2 \in 1 .. MaxAttempts
      /\ "completed" \in FindingStatus /\ "failed" \in FindingStatus
      /\ "completed" # "failed"
  BY RetryAssumption, MaxAttemptsAssumption DEF FindingStatus
<1> DEFINE once   == ExecuteAttempt(c, role, 1, "completed")
           failed == ExecuteAttempt(c, role, 1, "failed")
           twice  == ExecuteAttempt(failed, role, 2, "completed")
<1>3. SomeFailed(once) <=> SomeFailed(c)
  BY <1>1, <1>2, AttemptFails
<1>4. failed \in Contexts /\ SomeFailed(failed)
  BY <1>1, <1>2, AttemptFails, ExecuteAttemptType
<1> HIDE DEF once, failed
<1>5. SomeFailed(twice)
  BY <1>2, <1>4, AttemptFails
<1> HIDE DEF twice
<1>6. Consulted(c, role, f) =
        IF role \notin c.selections THEN c
        ELSE IF role = "CommercialExpert" /\ f.injectFailure THEN twice ELSE once
  BY DEF Consulted, RunExpert, once, failed, twice
<1>7. CASE role \notin c.selections
  BY <1>1, <1>6, <1>7 DEF Injected
<1>8. CASE role \in c.selections /\ role = "CommercialExpert" /\ f.injectFailure
  BY <1>1, <1>5, <1>6, <1>8 DEF Injected
<1>9. CASE role \in c.selections /\ ~(role = "CommercialExpert" /\ f.injectFailure)
  BY <1>1, <1>3, <1>6, <1>9 DEF Injected
<1> QED BY <1>7, <1>8, <1>9

\* A case starts with a failed attempt exactly when the injected failure reaches
\* its expert: the findings of a run tell how it was started.
LEMMA StartedFails ==
  ASSUME NEW f \in Facts, ~f.issues
  PROVE  SomeFailed(Started(f)) <=> Injected(f)
<1> DEFINE begun == AtAnalysis(f)
           one   == Consulted(begun, "ScheduleExpert", f)
           two   == Consulted(one, "CommercialExpert", f)
           three == Consulted(two, "RiskExpert", f)
           left  == FindingRoles \ {"ScheduleExpert"}
           last  == left \ {"CommercialExpert"}
           found == DetectOnsiteContradictions(f)
<1>1. Analysing(f, begun, FindingRoles) /\ begun.findings = <<>>
  BY BegunAnalysing
<1>2. ~SomeFailed(begun)
  <2>1. DOMAIN begun.findings = {}
    BY <1>1
  <2> QED BY <2>1 DEF SomeFailed
<1> HIDE DEF begun
<1>3. /\ "ScheduleExpert" \in FindingRoles /\ "CommercialExpert" \in FindingRoles
      /\ "RiskExpert" \in FindingRoles
      /\ "CommercialExpert" \in left /\ "RiskExpert" \in last
  BY DEF FindingRoles
<1>4. Analysing(f, one, left) /\ ~SomeFailed(one)
  BY <1>1, <1>2, <1>3, ConsultedAnalysing, ConsultedFails
<1> HIDE DEF one, left
<1>5. Analysing(f, two, last) /\ (SomeFailed(two) <=> Injected(f))
  BY <1>3, <1>4, ConsultedAnalysing, ConsultedFails
<1> HIDE DEF two, last
<1>6. Analysing(f, three, last \ {"RiskExpert"}) /\ (SomeFailed(three) <=> Injected(f))
  BY <1>3, <1>5, ConsultedAnalysing, ConsultedFails
<1>7. Analysed(begun, f) = three
  BY DEF Analysed, three, two, one
<1> HIDE DEF three
<1>8. three \in Contexts /\ three.stage = "expert_analysis"
  BY <1>6 DEF Analysing
<1>9. found \in Seq(ContradictionStatus)
  <2>1. found = <<"unresolved">>
    BY DEF DetectOnsiteContradictions, ProgressClaimsOnsite, SupplierSaysArrived
  <2> QED BY <2>1 DEF ContradictionStatus
<1> HIDE DEF found
<1>10. /\ ReviewContradictions(three, found).findings = three.findings
       /\ SkipReview(three).findings = three.findings
  BY <1>8, <1>9, ReviewContradictionsLink, SkipReviewLink DEF WorkKept
<1>11. Started(f) = IF "EvidenceAuditor" \in three.selections
                      THEN ReviewContradictions(three, found) ELSE SkipReview(three)
  BY <1>7 DEF Started, AtAnalysis, begun, found
<1>12. Started(f).findings = three.findings
  BY <1>10, <1>11
<1> QED BY <1>6, <1>12 DEF SomeFailed

\* The Director's selection and whether a failure is injected into it determine
\* what a case starts with; nothing else of the case bundle does.
LEMMA SameInjection ==
  ASSUME NEW f \in Facts, NEW g \in Facts, ~f.issues, ~g.issues,
         SelectExperts(f) = SelectExperts(g), Injected(f) <=> Injected(g)
  PROVE  Started(f) = Started(g)
<1> DEFINE begun == AtAnalysis(f)
           one   == Consulted(begun, "ScheduleExpert", f)
           two   == Consulted(one, "CommercialExpert", f)
           left  == FindingRoles \ {"ScheduleExpert"}
<1>1. ValidateFixture(InitialContext, f) = ValidateFixture(InitialContext, g)
  BY DEF ValidateFixture
<1>2. AtAnalysis(g) = begun
  <2> HIDE DEF ValidateFixture
  <2> QED BY <1>1 DEF AtAnalysis, Triage
<1>3. Analysing(f, begun, FindingRoles)
  BY BegunAnalysing
<1> HIDE DEF begun
<1>4. "ScheduleExpert" \in FindingRoles /\ "ScheduleExpert" # "CommercialExpert"
      /\ "RiskExpert" # "CommercialExpert"
  BY DEF FindingRoles
<1>5. \A c : /\ Consulted(c, "ScheduleExpert", g) = Consulted(c, "ScheduleExpert", f)
             /\ Consulted(c, "RiskExpert", g) = Consulted(c, "RiskExpert", f)
  BY <1>4 DEF Consulted, RunExpert
<1>6. one.selections = SelectExperts(f)
  BY <1>3, <1>4, ConsultedAnalysing DEF Analysing
<1> HIDE DEF one
<1>7. Consulted(one, "CommercialExpert", g) = two
  <2>1. CASE "CommercialExpert" \notin SelectExperts(f)
    BY <1>6, <2>1 DEF Consulted, two
  <2>2. CASE "CommercialExpert" \in SelectExperts(f)
    <3>1. f.injectFailure <=> g.injectFailure
      BY <2>2 DEF Injected
    <3> QED BY <3>1 DEF Consulted, RunExpert, two
  <2> QED BY <2>1, <2>2
<1> HIDE DEF two
<1>8. Analysed(AtAnalysis(g), g) = Analysed(begun, f)
  BY <1>2, <1>5, <1>7 DEF Analysed, one, two
<1>9. DetectOnsiteContradictions(g) = DetectOnsiteContradictions(f)
  BY DEF DetectOnsiteContradictions, ProgressClaimsOnsite, SupplierSaysArrived
<1>10. \A h : Started(h) =
         IF "EvidenceAuditor" \in Analysed(AtAnalysis(h), h).selections
           THEN ReviewContradictions(Analysed(AtAnalysis(h), h), DetectOnsiteContradictions(h))
           ELSE SkipReview(Analysed(AtAnalysis(h), h))
  BY DEF Started, AtAnalysis
<1> QED BY <1>8, <1>9, <1>10 DEF begun

-----------------------------------------------------------------------------
(* How the commands take a run on from what it started with *)

DecidedBy(s, a) == RecordHumanDecision(s, Confirmation(a))
PlannedBy(s, a) == PlanRecovery(LeaveHumanGate(DecidedBy(s, a)))
ApprovedBy(s, a, b) == ApproveFinal(PlannedBy(s, a), b)

(* Waits for somebody to answer the request.                               *)
Gated(s) == s.stage = "awaiting_human_decision"

(* The commands took s on to c: as long as a case waits at the gate.       *)
Grown(s, c) ==
  \/ c = s
  \/ /\ Gated(s)
     /\ \E a \in Actors :
          c = DecidedBy(s, a) \/ c = PlannedBy(s, a) \/ \E b \in Actors : c = ApprovedBy(s, a, b)

\* Recording an event and changing the stage keep the findings.
LEMMA NotesKeepFindings ==
  ASSUME NEW c \in Contexts
  PROVE  /\ \A type \in EventTypes, about \in Subjects : Record(c, type, about).findings = c.findings
         /\ \A target \in Stages : Transition(c, target).findings = c.findings
  BY RecordNotes, TransitionMoves DEF Notes, Moves

\* A recorded decision keeps the findings.
LEMMA DecisionKeepsFindings ==
  ASSUME NEW c \in Contexts, NEW x \in Decisions
  PROVE  RecordHumanDecision(c, x).findings = c.findings
<1> DEFINE added == [c EXCEPT !.decisions = Append(@, x)]
<1>1. Append(c.decisions, x) \in Seq(Decisions)
  BY ContextSequences
<1>2. added \in Contexts /\ added.findings = c.findings
  BY <1>1 DEF Contexts
<1>3. RecordHumanDecision(c, x) = Record(added, "human_decision_received", "workflow")
  BY DEF RecordHumanDecision
<1> HIDE DEF added
<1>4. "human_decision_received" \in EventTypes /\ "workflow" \in Subjects
  BY EventNames
<1> QED BY <1>2, <1>3, <1>4, NotesKeepFindings

\* Planning keeps the findings: the planner adds an option and a draft.
LEMMA PlanKeepsFindings ==
  ASSUME NEW c \in Contexts
  PROVE  PlanRecovery(c).findings = c.findings
<1> DEFINE asked   == RequestPlan(c)
           drafted == [asked EXCEPT !.draft = PostHumanDraft(asked)]
           option  == Record(drafted, "recovery_option_created", "RecoveryPlanner")
           created == Record(option, "draft_recommendation_created", "RecoveryPlanner")
           done    == Record(created, "expert_execution_completed", "RecoveryPlanner")
<1>1. asked \in Contexts /\ asked.findings = c.findings
  BY RequestPlanQuiet DEF WorkKept
<1> HIDE DEF asked
<1>2. drafted \in Contexts /\ drafted.findings = asked.findings
  <2>1. PostHumanDraft(asked) \in Recommendations
    BY <1>1, DraftType
  <2> HIDE DEF PostHumanDraft
  <2> QED BY <1>1, <2>1 DEF Contexts
<1> HIDE DEF drafted
<1>3. /\ "recovery_option_created" \in EventTypes
      /\ "draft_recommendation_created" \in EventTypes
      /\ "expert_execution_completed" \in EventTypes
      /\ "RecoveryPlanner" \in Subjects
      /\ "awaiting_final_approval" \in Stages
  BY EventNames DEF Stages
<1>4. option \in Contexts /\ option.findings = drafted.findings
  BY <1>2, <1>3, RecordType, NotesKeepFindings
<1> HIDE DEF option
<1>5. created \in Contexts /\ created.findings = option.findings
  BY <1>3, <1>4, RecordType, NotesKeepFindings
<1> HIDE DEF created
<1>6. done \in Contexts /\ done.findings = created.findings
  BY <1>3, <1>5, RecordType, NotesKeepFindings
<1> HIDE DEF done
<1>7. Transition(done, "awaiting_final_approval").findings = done.findings
  BY <1>3, <1>6, NotesKeepFindings
<1> QED BY <1>1, <1>2, <1>4, <1>5, <1>6, <1>7
        DEF PlanRecovery, done, created, option, drafted, asked

\* The final approval keeps the findings.
LEMMA ApprovalKeepsFindings ==
  ASSUME NEW c \in Contexts, NEW actor \in Actors
  PROVE  ApproveFinal(c, actor).findings = c.findings
<1> DEFINE added     == [c EXCEPT !.decisions = Append(@, Approval(actor))]
           approved  == Record(added, "final_approval_recorded", "workflow")
           advice    == [c.draft EXCEPT !.status = "authorized", !.approval = "approved"]
           advised   == [approved EXCEPT !.final = advice]
           finalized == Record(advised, "final_recommendation_created", "RecoveryPlanner")
           moved     == Transition(finalized, "completed")
           d         == Record(moved, "case_completed", "workflow")
<1>1. d = ApproveFinal(c, actor)
  BY DEF ApproveFinal, Approval
<1>2. added \in Contexts /\ added.findings = c.findings
  <2>1. Approval(actor) \in Decisions
    BY DEF Decisions, Outcomes, Approval
  <2> HIDE DEF Approval
  <2>2. Append(c.decisions, Approval(actor)) \in Seq(Decisions)
    BY <2>1, ContextSequences
  <2> QED BY <2>2 DEF Contexts
<1> HIDE DEF added
<1>3. /\ "final_approval_recorded" \in EventTypes
      /\ "final_recommendation_created" \in EventTypes
      /\ "case_completed" \in EventTypes
      /\ "workflow" \in Subjects /\ "RecoveryPlanner" \in Subjects
      /\ "completed" \in Stages
  BY EventNames DEF Stages
<1>4. approved \in Contexts /\ approved.findings = added.findings
  BY <1>2, <1>3, RecordType, NotesKeepFindings
<1> HIDE DEF approved
<1>5. advice \in Recommendations
  <2>1. c.draft \in Recommendations
    BY DEF Contexts
  <2> QED BY <2>1 DEF Recommendations
<1> HIDE DEF advice
<1>6. advised \in Contexts /\ advised.findings = approved.findings
  BY <1>4, <1>5 DEF Contexts
<1> HIDE DEF advised
<1>7. finalized \in Contexts /\ finalized.findings = advised.findings
  BY <1>3, <1>6, RecordType, NotesKeepFindings
<1> HIDE DEF finalized
<1>8. moved \in Contexts /\ moved.findings = finalized.findings
  BY <1>3, <1>7, TransitionType, NotesKeepFindings
<1> HIDE DEF moved
<1>9. d.findings = moved.findings
  BY <1>3, <1>8, NotesKeepFindings
<1> HIDE DEF d
<1> QED BY <1>1, <1>2, <1>4, <1>6, <1>7, <1>8, <1>9

\* Two elements one after the other are the pair of them.
LEMMA PairOfAppend ==
  ASSUME NEW S, NEW x \in S, NEW y \in S
  PROVE  Append(<<x>>, y) = <<x, y>>
<1> DEFINE s == Append(<<x>>, y)
           t == <<x, y>>
<1>1. <<x>> \in Seq(S) /\ Len(<<x>>) = 1 /\ <<x>>[1] = x
  OBVIOUS
<1>2. s \in Seq(S) /\ Len(s) = 2 /\ s[1] = x /\ s[2] = y
  BY <1>1, AppendProperties
<1>3. t \in Seq(S) /\ Len(t) = 2 /\ t[1] = x /\ t[2] = y
  OBVIOUS
<1> HIDE DEF s, t
<1>4. s \in [1 .. 2 -> S] /\ t \in [1 .. 2 -> S]
  BY <1>2, <1>3, LenProperties
<1>5. \A i \in 1 .. 2 : s[i] = t[i]
  <2>1. \A i \in 1 .. 2 : i = 1 \/ i = 2
    OBVIOUS
  <2> QED BY <1>2, <1>3, <2>1
<1>6. s = t
  BY <1>4, <1>5
<1> QED BY <1>6 DEF s, t

(* How far the commands took a case tells who decided, from the findings   *)
(* and the selection it started with.                                      *)
Form(f, s, c, stage, decisions) ==
  /\ Sound(f, c)
  /\ c.stage = stage
  /\ c.decisions = decisions
  /\ c.findings = s.findings

\* Each command that takes a waiting case on has its own stage and decisions,
\* and keeps the findings.
LEMMA Forms ==
  ASSUME NEW f \in Facts, ~f.issues, Gated(Started(f)), NEW a \in Actors, NEW b \in Actors
  PROVE  LET s == Started(f)
         IN  /\ Form(f, s, DecidedBy(s, a), "awaiting_human_decision", <<Confirmation(a)>>)
             /\ OnsiteRequest \in DecidedIds(DecidedBy(s, a))
             /\ Form(f, s, PlannedBy(s, a), "awaiting_final_approval", <<Confirmation(a)>>)
             /\ Form(f, s, ApprovedBy(s, a, b), "completed", <<Confirmation(a), Approval(b)>>)
<1> DEFINE s        == Started(f)
           x        == Confirmation(a)
           y        == Approval(b)
           decided  == DecidedBy(s, a)
           left     == LeaveHumanGate(decided)
           planned  == PlannedBy(s, a)
           approved == ApprovedBy(s, a, b)
<1>1. Sound(f, s) /\ s.decisions = <<>> /\ s.stage = "awaiting_human_decision" /\ s \in Contexts
  BY StartedSound DEF Gated, Sound
<1> HIDE DEF s
<1>2. CanRecordDecision(s, x)
  BY <1>1, StartedDecidable
<1>3. /\ Sound(f, decided) /\ decided.stage = "awaiting_human_decision"
      /\ OnsiteRequest \in DecidedIds(decided)
  BY <1>1, <1>2, DecideSound DEF DecidedBy
<1>4. x \in Decisions
  BY DEF Confirmation, Decisions, Outcomes
<1> HIDE DEF x
<1>5. decided.decisions = <<x>> /\ decided.findings = s.findings
  <2>1. decided.decisions = Append(s.decisions, x)
    BY <1>1, <1>4, RecordHumanDecisionFrame DEF DecidedBy, x
  <2>2. decided.findings = s.findings
    BY <1>1, <1>4, DecisionKeepsFindings DEF DecidedBy, x
  <2> QED BY <1>1, <2>1, <2>2
<1> HIDE DEF decided
<1>6. Sound(f, planned) /\ planned.stage = "awaiting_final_approval"
  BY <1>3, ResumeSound DEF PlannedBy, decided
<1>7. /\ InPlanning(left) /\ left.decisions = decided.decisions
      /\ left.findings = decided.findings /\ left \in Contexts
  <2>1. decided \in Contexts /\ GateShape(decided)
    BY <1>3 DEF Sound
  <2> QED BY <1>3, <2>1, LeaveHumanGateShape, LeaveHumanGateLink DEF WorkKept, InPlanning
<1>8. planned = PlanRecovery(left)
  BY DEF PlannedBy, left, decided
<1> HIDE DEF left
<1>9. planned.decisions = <<x>> /\ planned.findings = s.findings
  BY <1>5, <1>7, <1>8, PlanLater, PlanKeepsFindings
<1> HIDE DEF planned
<1>10. /\ Sound(f, approved) /\ approved.stage = "completed"
       /\ approved.decisions = Append(planned.decisions, y)
  <2>1. approved = ApproveFinal(planned, b)
    BY DEF ApprovedBy, approved, planned
  <2> QED BY <1>6, <2>1, ApproveSound DEF CanApprove
<1>11. approved.findings = s.findings
  <2>1. approved = ApproveFinal(planned, b) /\ planned \in Contexts
    BY <1>6 DEF ApprovedBy, approved, planned, Sound
  <2> QED BY <1>9, <2>1, ApprovalKeepsFindings
<1>12. approved.decisions = <<x, y>>
  <2>1. y \in Decisions
    BY DEF Approval, Decisions, Outcomes
  <2> HIDE DEF approved, y
  <2>2. <<x>> \in Seq(Decisions)
    BY <1>4
  <2>3. Append(<<x>>, y) = <<x, y>>
    BY <1>4, <2>1, PairOfAppend
  <2> QED BY <1>9, <1>10, <2>3
<1> HIDE DEF approved, y
<1> QED BY <1>3, <1>5, <1>6, <1>9, <1>10, <1>11, <1>12
        DEF Form, s, x, y, decided, planned, approved

\* What the commands make of a case is sound, and its stage tells how far they
\* came.
LEMMA GrownForms ==
  ASSUME NEW f \in Facts, ~f.issues, NEW c, Grown(Started(f), c)
  PROVE  LET s == Started(f)
         IN  /\ Sound(f, c)
             /\ c.findings = s.findings
             /\ c.stage = "recovery_planning" => c = s /\ c.decisions = <<>>
             /\ c.stage = "awaiting_human_decision" =>
                  /\ Gated(s)
                  /\ \/ c = s /\ OnsiteRequest \notin DecidedIds(c)
                     \/ /\ OnsiteRequest \in DecidedIds(c)
                        /\ \E a \in Actors : c = DecidedBy(s, a)
             /\ c.stage = "awaiting_final_approval" =>
                  Gated(s) /\ \E a \in Actors : c = PlannedBy(s, a)
             /\ c.stage = "completed" =>
                  /\ Gated(s)
                  /\ \E a, b \in Actors : /\ c = ApprovedBy(s, a, b)
                                          /\ c.decisions = <<Confirmation(a), Approval(b)>>
<1> DEFINE s == Started(f)
<1>1. Sound(f, s) /\ s.decisions = <<>>
  BY StartedSound
<1>2. DecidedIds(s) = {}
  BY <1>1 DEF DecidedIds
<1>3. s.stage \in {"awaiting_human_decision", "recovery_planning"}
  BY <1>1, <1>2 DEF Sound, GateShape, Answered
<1>4. /\ "awaiting_human_decision" # "recovery_planning"
      /\ "awaiting_human_decision" # "awaiting_final_approval"
      /\ "awaiting_human_decision" # "completed"
      /\ "recovery_planning" # "awaiting_final_approval"
      /\ "recovery_planning" # "completed"
      /\ "awaiting_final_approval" # "completed"
  OBVIOUS
<1>5. ASSUME Gated(s), NEW a \in Actors, NEW b \in Actors
      PROVE  /\ Form(f, s, DecidedBy(s, a), "awaiting_human_decision", <<Confirmation(a)>>)
             /\ OnsiteRequest \in DecidedIds(DecidedBy(s, a))
             /\ Form(f, s, PlannedBy(s, a), "awaiting_final_approval", <<Confirmation(a)>>)
             /\ Form(f, s, ApprovedBy(s, a, b), "completed", <<Confirmation(a), Approval(b)>>)
  BY <1>5, Forms
<1> HIDE DEF s
<1>6. CASE c = s
  BY <1>1, <1>2, <1>3, <1>4, <1>6 DEF Gated, s
<1>7. ASSUME Gated(s), NEW a \in Actors, c = DecidedBy(s, a)
      PROVE  /\ Sound(f, c) /\ c.findings = s.findings /\ c.stage = "awaiting_human_decision"
             /\ OnsiteRequest \in DecidedIds(c)
  BY <1>5, <1>7 DEF Form
<1>8. ASSUME Gated(s), NEW a \in Actors, c = PlannedBy(s, a)
      PROVE  Sound(f, c) /\ c.findings = s.findings /\ c.stage = "awaiting_final_approval"
  BY <1>5, <1>8 DEF Form
<1>9. ASSUME Gated(s), NEW a \in Actors, NEW b \in Actors, c = ApprovedBy(s, a, b)
      PROVE  /\ Sound(f, c) /\ c.findings = s.findings /\ c.stage = "completed"
             /\ c.decisions = <<Confirmation(a), Approval(b)>>
  BY <1>5, <1>9 DEF Form
<1>10. CASE Gated(s) /\ \E a \in Actors : c = DecidedBy(s, a)
  <2>1. PICK a \in Actors : c = DecidedBy(s, a)
    BY <1>10
  <2>2. /\ Sound(f, c) /\ c.findings = s.findings /\ c.stage = "awaiting_human_decision"
        /\ OnsiteRequest \in DecidedIds(c)
    BY <1>7, <1>10, <2>1
  <2> QED BY <1>4, <1>10, <2>1, <2>2 DEF s
<1>11. CASE Gated(s) /\ \E a \in Actors : c = PlannedBy(s, a)
  <2>1. PICK a \in Actors : c = PlannedBy(s, a)
    BY <1>11
  <2>2. Sound(f, c) /\ c.findings = s.findings /\ c.stage = "awaiting_final_approval"
    BY <1>8, <1>11, <2>1
  <2> QED BY <1>4, <1>11, <2>1, <2>2 DEF s
<1>12. CASE Gated(s) /\ \E a, b \in Actors : c = ApprovedBy(s, a, b)
  <2>1. PICK a \in Actors, b \in Actors : c = ApprovedBy(s, a, b)
    BY <1>12
  <2>2. /\ Sound(f, c) /\ c.findings = s.findings /\ c.stage = "completed"
        /\ c.decisions = <<Confirmation(a), Approval(b)>>
    BY <1>9, <1>12, <2>1
  <2> QED BY <1>4, <1>12, <2>1, <2>2 DEF s
<1>13. \/ c = s
       \/ Gated(s) /\ \E a \in Actors : c = DecidedBy(s, a)
       \/ Gated(s) /\ \E a \in Actors : c = PlannedBy(s, a)
       \/ Gated(s) /\ \E a, b \in Actors : c = ApprovedBy(s, a, b)
  BY DEF Grown, s
<1> QED BY <1>6, <1>10, <1>11, <1>12, <1>13

\* decide, resume and approve each take a case one command further.
LEMMA CommandsGrow ==
  ASSUME NEW f \in Facts, ~f.issues, NEW c, Grown(Started(f), c), NEW actor \in Actors
  PROVE  /\ CanRecordDecision(c, Confirmation(actor)) =>
              Grown(Started(f), RecordHumanDecision(c, Confirmation(actor)))
         /\ CanResume(c) => Grown(Started(f), PlanRecovery(LeaveHumanGate(c)))
         /\ CanApprove(c) => Grown(Started(f), ApproveFinal(c, actor))
<1> DEFINE s == Started(f)
<1>1. Sound(f, c) /\ c \in Contexts /\ GateShape(c)
  BY GrownForms DEF Sound
<1>2. Confirmation(actor).request = OnsiteRequest
  BY DEF Confirmation
<1>3. ASSUME CanRecordDecision(c, Confirmation(actor))
      PROVE  Grown(s, RecordHumanDecision(c, Confirmation(actor)))
  <2>1. c.stage = "awaiting_human_decision" /\ OnsiteRequest \notin DecidedIds(c)
    BY <1>1, <1>3, DecisionSubject
  <2>2. c = s /\ Gated(s)
    BY <2>1, GrownForms
  <2> QED BY <2>2 DEF Grown, DecidedBy
<1>4. ASSUME CanResume(c)
      PROVE  Grown(s, PlanRecovery(LeaveHumanGate(c)))
  <2>1. c.stage = "awaiting_human_decision" /\ OnsiteRequest \in DecidedIds(c)
    BY <1>1, <1>4, ResumeDecided
  <2>2. Gated(s) /\ \E a \in Actors : c = DecidedBy(s, a)
    BY <2>1, GrownForms
  <2> QED BY <2>2 DEF Grown, PlannedBy
<1>5. ASSUME CanApprove(c)
      PROVE  Grown(s, ApproveFinal(c, actor))
  <2>1. c.stage = "awaiting_final_approval"
    BY <1>5 DEF CanApprove
  <2>2. Gated(s) /\ \E a \in Actors : c = PlannedBy(s, a)
    BY <2>1, GrownForms
  <2> QED BY <2>2 DEF Grown, ApprovedBy
<1> QED BY <1>3, <1>4, <1>5

\* What the simulated people bring to its end has come to it command by command,
\* and no command takes it further.
LEMMA RanGrown ==
  ASSUME NEW f \in Facts, ~f.issues
  PROVE  LET c == RanToEnd(Started(f), SimulatedHuman, SimulatedApprover)
         IN  /\ Grown(Started(f), c)
             /\ c.stage \in {"recovery_planning", "completed"}
             /\ Gated(Started(f)) => c = ApprovedBy(Started(f), SimulatedHuman, SimulatedApprover)
<1> DEFINE s == Started(f)
           c == RanToEnd(s, SimulatedHuman, SimulatedApprover)
<1>1. SimulatedHuman \in Actors /\ SimulatedApprover \in Actors
  BY ActorsAssumption
<1>2. CASE Gated(s)
  <2>1. c = ApprovedBy(s, SimulatedHuman, SimulatedApprover)
    BY <1>2 DEF Gated, RanToEnd, ApprovedBy, PlannedBy, DecidedBy
  <2>2. c.stage = "completed"
    BY <1>1, <1>2, <2>1, Forms DEF Form
  <2> HIDE DEF c
  <2>3. Grown(s, c)
    BY <1>1, <1>2, <2>1 DEF Grown
  <2> QED BY <2>1, <2>2, <2>3 DEF c
<1>3. CASE ~Gated(s)
  <2>1. c = s
    BY <1>3 DEF Gated, RanToEnd
  <2>2. Grown(s, c)
    BY <2>1 DEF Grown
  <2>3. Sound(f, s) /\ s.decisions = <<>> /\ s.stage # "awaiting_human_decision"
    BY <1>3, StartedSound DEF Gated
  <2>4. DecidedIds(s) = {}
    BY <2>3 DEF DecidedIds
  <2>5. s.stage = "recovery_planning"
    BY <2>3, <2>4 DEF Sound, GateShape, Answered
  <2> QED BY <1>3, <2>1, <2>2, <2>5
<1> QED BY <1>2, <1>3

-----------------------------------------------------------------------------
(* Equal findings and selections mean an equal start *)

\* Two cases whose findings and selected experts agree started with the same
\* context: a failed finding betrays the injected failure.
LEMMA SameStart ==
  ASSUME NEW f \in Facts, NEW g \in Facts, ~f.issues, ~g.issues,
         NEW c, NEW d, Grown(Started(f), c), Grown(Started(g), d),
         c.selections = d.selections, c.findings = d.findings
  PROVE  Started(f) = Started(g)
<1>1. Sound(f, c) /\ c.findings = Started(f).findings
  BY GrownForms
<1>2. Sound(g, d) /\ d.findings = Started(g).findings
  BY GrownForms
<1>3. SelectExperts(f) = SelectExperts(g)
  BY <1>1, <1>2 DEF Sound
<1>4. SomeFailed(Started(f)) <=> SomeFailed(Started(g))
  BY <1>1, <1>2 DEF SomeFailed
<1>5. Injected(f) <=> Injected(g)
  BY <1>4, StartedFails
<1> QED BY <1>3, <1>5, SameInjection

\* The people a pair of decisions names are the same when the decisions are.
LEMMA SamePeople ==
  ASSUME NEW a, NEW b, NEW m, NEW n,
         <<Confirmation(a), Approval(b)>> = <<Confirmation(m), Approval(n)>>
  PROVE  a = m /\ b = n
<1>1. Confirmation(a) = Confirmation(m) /\ Approval(b) = Approval(n)
  OBVIOUS
<1>2. /\ Confirmation(a).by = a /\ Confirmation(m).by = m
      /\ Approval(b).by = b /\ Approval(n).by = n
  BY DEF Confirmation, Approval
<1> QED BY <1>1, <1>2

\* A case that comes from the start of another, as far as the simulated people
\* bring that one and by their decisions, is the other.
LEMMA SameEnd ==
  ASSUME NEW f \in Facts, NEW g \in Facts, ~f.issues, ~g.issues,
         NEW c, NEW d, Grown(Started(f), c), Started(f) = Started(g),
         d = RanToEnd(Started(g), SimulatedHuman, SimulatedApprover),
         c.stage = d.stage, c.decisions = d.decisions
  PROVE  /\ c = d
         /\ \A i \in DOMAIN c.decisions : c.decisions[i].by \in {SimulatedHuman, SimulatedApprover}
<1> DEFINE x == Confirmation(SimulatedHuman)
           y == Approval(SimulatedApprover)
<1>1. /\ Grown(Started(g), d) /\ d.stage \in {"recovery_planning", "completed"}
      /\ Gated(Started(g)) => d = ApprovedBy(Started(g), SimulatedHuman, SimulatedApprover)
  BY RanGrown
<1>2. x.by = SimulatedHuman /\ y.by = SimulatedApprover
  BY DEF Confirmation, Approval
<1>3. CASE d.stage = "recovery_planning"
  <2>1. d = Started(g) /\ d.decisions = <<>>
    BY <1>1, <1>3, GrownForms
  <2>2. c = Started(f) /\ c.decisions = <<>>
    BY <1>3, GrownForms
  <2>3. DOMAIN c.decisions = {}
    BY <2>2
  <2> QED BY <2>1, <2>2, <2>3
<1>4. CASE d.stage = "completed"
  <2>1. /\ Gated(Started(g))
        /\ d = ApprovedBy(Started(g), SimulatedHuman, SimulatedApprover)
    BY <1>1, <1>4, GrownForms
  <2>2. PICK m \in Actors, n \in Actors : /\ d = ApprovedBy(Started(g), m, n)
                                          /\ d.decisions = <<Confirmation(m), Approval(n)>>
    BY <1>1, <1>4, GrownForms
  <2>3. d.decisions = <<x, y>>
    <3>1. Form(g, Started(g), ApprovedBy(Started(g), SimulatedHuman, SimulatedApprover),
               "completed", <<x, y>>)
      BY <2>1, ActorsAssumption, Forms
    <3> QED BY <2>1, <3>1 DEF Form
  <2>4. PICK a \in Actors, b \in Actors : /\ c = ApprovedBy(Started(f), a, b)
                                          /\ c.decisions = <<Confirmation(a), Approval(b)>>
    BY <1>4, GrownForms
  <2>5. a = SimulatedHuman /\ b = SimulatedApprover
    BY <2>3, <2>4, SamePeople
  <2>6. c = d
    BY <2>1, <2>4, <2>5
  <2>7. \A i \in DOMAIN c.decisions : i = 1 \/ i = 2
    BY <2>4
  <2>8. c.decisions[1] = x /\ c.decisions[2] = y
    BY <2>4, <2>5
  <2> HIDE DEF x, y
  <2> QED BY <1>2, <2>6, <2>7, <2>8
<1> QED BY <1>1, <1>3, <1>4

-----------------------------------------------------------------------------
(* The invariant *)

RunRecords ==
  [exists : {TRUE}, number : Nat, ctx : Contexts, inject : BOOLEAN,
   found : FigureSet, planned : FigureSet, verdict : {"none", "equivalent", "different"}]

(* The facts of an intact case that was started with this injection.       *)
StartedFrom(f, inject) == f \in Facts /\ ~f.issues /\ (f.injectFailure <=> inject)

(* What a directory holds came from a start by the commands.               *)
Grew(run) ==
  /\ run \in RunRecords
  /\ \E f : StartedFrom(f, run.inject) /\ Grown(Started(f), run.ctx)

(* The run a replay wrote: run to its end, and planned from its findings.  *)
Copied(run, inject) ==
  /\ run.inject <=> inject
  /\ run.planned \in {NoFigures, run.found}
  /\ \E f : /\ StartedFrom(f, run.inject)
            /\ run.ctx = RanToEnd(Started(f), SimulatedHuman, SimulatedApprover)

Recorded(place) == runs[place] # NoRun

ReplayInv ==
  /\ bundle \in Cases
  /\ fresh \in 0 .. MaxFresh
  /\ edits \in 0 .. MaxEdits
  /\ runs \in [Places -> {NoRun} \cup RunRecords]
  /\ \A place \in Places : Recorded(place) => Grew(runs[place]) /\ runs[place].number <= fresh
  /\ replay # NoReplay =>
       /\ {replay.from, replay.to} \subseteq Places
       /\ replay.copy <= fresh
       /\ replay.copy \in Nat
       /\ \A place \in Places :
            Recorded(place) /\ runs[place].number = replay.copy
              => Copied(runs[place], replay.inject)

\* A directory holds a run exactly when its record says so.
LEMMA ExistsRecorded ==
  ASSUME runs \in [Places -> {NoRun} \cup RunRecords], NEW place \in Places
  PROVE  /\ Exists(place) <=> Recorded(place)
         /\ Recorded(place) => runs[place] \in RunRecords
<1>1. runs[place] = NoRun \/ runs[place] \in RunRecords
  OBVIOUS
<1>2. NoRun.exists = FALSE
  BY DEF NoRun
<1>3. ASSUME NEW run \in RunRecords
      PROVE  run.exists = TRUE
  <2>1. run.exists \in {TRUE}
    BY DEF RunRecords
  <2> QED BY <2>1
<1>4. TRUE # FALSE
  OBVIOUS
<1> QED BY <1>1, <1>2, <1>3, <1>4 DEF Exists, Recorded

-----------------------------------------------------------------------------
(* What start, run and replay make *)

\* start leaves a case at its start; run leaves it where the simulated people
\* bring it.  Either way with the injection asked for, not the bundle's.
LEMMA ResultsGrown ==
  ASSUME bundle \in Cases, NEW command \in {"start", "run"}, NEW inject \in BOOLEAN,
         NEW c \in Results(command, inject)
  PROVE  \E f : /\ StartedFrom(f, inject)
                /\ Grown(Started(f), c)
                /\ command = "run" =>
                     c = RanToEnd(Started(f), SimulatedHuman, SimulatedApprover)
<1> DEFINE f == WithInjection(inject)
           s == Started(f)
<1>1. bundle.facts \in Facts
  BY CasesAssumption
<1>2. f \in Facts /\ (f.injectFailure <=> inject)
  BY <1>1 DEF WithInjection, Facts
<1>3. "start" # "run"
  OBVIOUS
<1> HIDE DEF f
<1>4. /\ ~f.issues
      /\ \/ c = s /\ command = "start"
         \/ c = RanToEnd(s, SimulatedHuman, SimulatedApprover)
  BY DEF Results, f
<1>5. StartedFrom(f, inject)
  BY <1>2, <1>4 DEF StartedFrom
<1>6. CASE c = s /\ command = "start"
  <2>1. Grown(s, c)
    BY <1>6 DEF Grown
  <2> QED BY <1>3, <1>5, <1>6, <2>1
<1>7. CASE c = RanToEnd(s, SimulatedHuman, SimulatedApprover)
  BY <1>2, <1>4, <1>5, <1>7, RanGrown
<1> QED BY <1>4, <1>6, <1>7

\* A new run is recorded under the next number, planned from its findings.
LEMMA NewRunRecord ==
  ASSUME bundle \in Cases, fresh \in Nat, NEW c \in Contexts, NEW inject \in BOOLEAN
  PROVE  LET run == NewRun(c, inject, bundle.figures)
         IN  /\ run \in RunRecords
             /\ run.number = fresh + 1
             /\ run.ctx = c
             /\ run.inject = inject
             /\ run.planned \in {NoFigures, run.found}
<1> DEFINE figures == bundle.figures
           planned == IF c.draft.status = "none" THEN NoFigures ELSE figures
           run     == NewRun(c, inject, figures)
<1>1. figures \in FigureSet /\ NoFigures \in FigureSet
  BY DEF FigureSet
<1>2. planned \in FigureSet /\ planned \in {NoFigures, figures}
  BY <1>1
<1>3. run = [exists |-> TRUE, number |-> fresh + 1, ctx |-> c, inject |-> inject,
             found |-> figures, planned |-> planned, verdict |-> "none"]
  BY DEF NewRun
<1> HIDE DEF figures, planned, run
<1>4. run \in RunRecords
  BY <1>1, <1>2, <1>3 DEF RunRecords
<1> QED BY <1>2, <1>3, <1>4 DEF run, figures

\* Making a run changes one directory: it holds the new run or nothing.
LEMMA MakeStep ==
  ASSUME ReplayInv, NEW place \in Places, NEW command \in {"start", "run"},
         NEW inject \in BOOLEAN, NEW replace \in BOOLEAN,
         Make(place, command, inject, replace)
  PROVE  /\ runs' \in [Places -> {NoRun} \cup RunRecords]
         /\ fresh' = fresh + 1 /\ fresh' \in 0 .. MaxFresh
         /\ \A other \in Places \ {place} : runs'[other] = runs[other]
         /\ runs'[place] # NoRun =>
              /\ Grew(runs'[place])
              /\ runs'[place].number = fresh + 1
              /\ command = "run" => Copied(runs'[place], inject)
<1>1. /\ bundle \in Cases /\ fresh \in 0 .. MaxFresh
      /\ runs \in [Places -> {NoRun} \cup RunRecords]
  BY DEF ReplayInv
<1>2. fresh' = fresh + 1 /\ fresh' \in 0 .. MaxFresh
  BY <1>1, BoundsAssumption DEF Make
<1>3. CASE runs' = [runs EXCEPT ![place] = NoRun]
  BY <1>1, <1>2, <1>3
<1>4. CASE \E c \in Results(command, inject) :
             runs' = [runs EXCEPT ![place] = NewRun(c, inject, bundle.figures)]
  <2>1. PICK c \in Results(command, inject) :
          runs' = [runs EXCEPT ![place] = NewRun(c, inject, bundle.figures)]
    BY <1>4
  <2>2. PICK f : /\ StartedFrom(f, inject)
                 /\ Grown(Started(f), c)
                 /\ command = "run" =>
                      c = RanToEnd(Started(f), SimulatedHuman, SimulatedApprover)
    BY <1>1, ResultsGrown
  <2>3. c \in Contexts
    BY <2>2, GrownForms DEF StartedFrom, Sound
  <2> DEFINE run == NewRun(c, inject, bundle.figures)
  <2>4. /\ run \in RunRecords /\ run.number = fresh + 1
        /\ run.ctx = c /\ run.inject = inject
        /\ run.planned \in {NoFigures, run.found}
    BY <1>1, <2>3, NewRunRecord
  <2> HIDE DEF run
  <2>5. Grew(run) /\ (command = "run" => Copied(run, inject))
    BY <2>2, <2>4 DEF Grew, Copied
  <2>6. runs' = [runs EXCEPT ![place] = run]
    BY <2>1 DEF run
  <2> QED BY <1>1, <1>2, <2>4, <2>5, <2>6
<1> QED BY <1>3, <1>4 DEF Make

\* The invariant is kept when one directory changes to something fit for it.
LEMMA OneDirectory ==
  ASSUME ReplayInv, NEW place \in Places,
         runs' \in [Places -> {NoRun} \cup RunRecords],
         \A other \in Places \ {place} : runs'[other] = runs[other],
         runs'[place] # NoRun =>
           /\ Grew(runs'[place])
           /\ runs'[place].number <= fresh'
           /\ (replay # NoReplay /\ runs'[place].number = replay.copy)
                => Copied(runs'[place], replay.inject),
         bundle' = bundle, edits' = edits, replay' = replay,
         fresh' \in 0 .. MaxFresh, fresh <= fresh'
  PROVE  ReplayInv'
<1>1. /\ bundle' \in Cases /\ edits' \in 0 .. MaxEdits
  BY DEF ReplayInv
<1>2. ASSUME NEW other \in Places, runs'[other] # NoRun
      PROVE  Grew(runs'[other]) /\ runs'[other].number <= fresh'
  <2>1. CASE other = place
    BY <1>2, <2>1
  <2>2. CASE other # place
    <3>1. runs'[other] = runs[other] /\ Recorded(other)
      BY <1>2, <2>2 DEF Recorded
    <3>2. Grew(runs[other]) /\ runs[other].number <= fresh
      BY <3>1 DEF ReplayInv
    <3>3. runs[other].number \in Nat
      BY <3>2 DEF Grew, RunRecords
    <3> QED BY <3>1, <3>2, <3>3 DEF ReplayInv
  <2> QED BY <2>1, <2>2
<1>3. ASSUME replay # NoReplay
      PROVE  /\ {replay.from, replay.to} \subseteq Places
             /\ replay.copy <= fresh' /\ replay.copy \in Nat
             /\ \A other \in Places :
                  (runs'[other] # NoRun /\ runs'[other].number = replay.copy)
                    => Copied(runs'[other], replay.inject)
  <2>1. /\ {replay.from, replay.to} \subseteq Places
        /\ replay.copy <= fresh /\ replay.copy \in Nat
        /\ \A other \in Places :
             (Recorded(other) /\ runs[other].number = replay.copy)
               => Copied(runs[other], replay.inject)
    BY <1>3 DEF ReplayInv
  <2>2. replay.copy <= fresh'
    BY <2>1 DEF ReplayInv
  <2>3. ASSUME NEW other \in Places, runs'[other] # NoRun,
               runs'[other].number = replay.copy
        PROVE  Copied(runs'[other], replay.inject)
    <3>1. CASE other = place
      BY <1>3, <2>3, <3>1
    <3>2. CASE other # place
      BY <2>1, <2>3, <3>2 DEF Recorded
    <3> QED BY <3>1, <3>2
  <2> QED BY <2>1, <2>2, <2>3
<1> QED BY <1>1, <1>2, <1>3 DEF ReplayInv, Recorded

-----------------------------------------------------------------------------
(* The invariant is kept *)

\* Nobody has made a run at first.
LEMMA InitInv == Init => ReplayInv
<1> SUFFICES ASSUME Init
             PROVE  ReplayInv
  OBVIOUS
<1>1. 0 \in 0 .. MaxFresh /\ 0 \in 0 .. MaxEdits
  BY BoundsAssumption
<1>2. \A place \in Places : runs[place] = NoRun
  BY DEF Init
<1> QED BY <1>1, <1>2 DEF Init, ReplayInv, Recorded

\* start and run keep the invariant: their run is not the one a replay wrote.
LEMMA MakeRunInv ==
  ASSUME ReplayInv, NEW place \in Places, MakeRun(place)
  PROVE  ReplayInv'
<1>1. PICK command \in {"start", "run"}, inject \in BOOLEAN, replace \in BOOLEAN :
        Make(place, command, inject, replace)
  BY DEF MakeRun
<1>2. /\ runs' \in [Places -> {NoRun} \cup RunRecords]
      /\ fresh' = fresh + 1 /\ fresh' \in 0 .. MaxFresh
      /\ \A other \in Places \ {place} : runs'[other] = runs[other]
      /\ runs'[place] # NoRun => Grew(runs'[place]) /\ runs'[place].number = fresh + 1
  BY <1>1, MakeStep
<1>3. fresh \in Nat
  BY DEF ReplayInv
<1>4. replay # NoReplay => replay.copy # fresh + 1
  BY <1>3 DEF ReplayInv
<1>5. UNCHANGED <<bundle, replay, edits>>
  BY DEF MakeRun
<1> QED BY <1>2, <1>3, <1>4, <1>5, OneDirectory

\* A directory's context is that of a sound case, and comes back as it was.
LEMMA PersistedGrew ==
  ASSUME ReplayInv, NEW place \in Places, Exists(place)
  PROVE  /\ runs[place] \in RunRecords
         /\ Recorded(place)
         /\ Persisted(place) = runs[place].ctx
         /\ \E f : /\ StartedFrom(f, runs[place].inject)
                   /\ Grown(Started(f), runs[place].ctx)
<1>1. Recorded(place) /\ Grew(runs[place])
  BY ExistsRecorded DEF ReplayInv
<1>2. PICK f : StartedFrom(f, runs[place].inject) /\ Grown(Started(f), runs[place].ctx)
  BY <1>1 DEF Grew
<1>3. Sound(f, runs[place].ctx)
  BY <1>2, GrownForms DEF StartedFrom
<1>4. Persisted(place) = runs[place].ctx
  BY <1>3, ReloadedSame DEF Persisted
<1> QED BY <1>1, <1>2, <1>4 DEF Grew

\* decide, resume and approve keep the invariant.  They take no run further that
\* a replay wrote: it has come to its end.
LEMMA ContinueInv ==
  ASSUME ReplayInv, NEW place \in Places, Exists(place), NEW c, NEW figures \in FigureSet,
         runs[place].ctx.stage \in {"awaiting_human_decision", "awaiting_final_approval"},
         \A f : (StartedFrom(f, runs[place].inject) /\ Grown(Started(f), runs[place].ctx))
                  => Grown(Started(f), c),
         runs' = [runs EXCEPT ![place] = [runs[place] EXCEPT !.ctx = c, !.planned = figures]],
         UNCHANGED <<bundle, replay, fresh, edits>>
  PROVE  ReplayInv'
<1> DEFINE run == [runs[place] EXCEPT !.ctx = c, !.planned = figures]
<1>1. /\ runs[place] \in RunRecords /\ Recorded(place)
      /\ runs \in [Places -> {NoRun} \cup RunRecords]
  BY PersistedGrew DEF ReplayInv
<1>2. PICK f : StartedFrom(f, runs[place].inject) /\ Grown(Started(f), runs[place].ctx)
  BY PersistedGrew
<1>3. Grown(Started(f), c)
  BY <1>2
<1>4. c \in Contexts
  BY <1>2, <1>3, GrownForms DEF StartedFrom, Sound
<1>5. /\ run \in RunRecords /\ run.number = runs[place].number
      /\ run.ctx = c /\ run.inject = runs[place].inject
  BY <1>1, <1>4 DEF RunRecords
<1>6. runs' = [runs EXCEPT ![place] = run]
  OBVIOUS
<1> HIDE DEF run
<1>7. Grew(run)
  BY <1>2, <1>3, <1>5 DEF Grew
<1>8. ~(replay # NoReplay /\ runs[place].number = replay.copy)
  <2> SUFFICES ASSUME replay # NoReplay, runs[place].number = replay.copy
               PROVE  FALSE
    OBVIOUS
  <2>1. Copied(runs[place], replay.inject)
    BY <1>1 DEF ReplayInv
  <2>2. PICK g : /\ StartedFrom(g, runs[place].inject)
                 /\ runs[place].ctx = RanToEnd(Started(g), SimulatedHuman, SimulatedApprover)
    BY <2>1 DEF Copied
  <2>3. runs[place].ctx.stage \in {"recovery_planning", "completed"}
    BY <2>2, RanGrown DEF StartedFrom
  <2> QED BY <2>3
<1>9. run.number <= fresh
  BY <1>1, <1>5 DEF ReplayInv
<1>10. fresh \in 0 .. MaxFresh /\ fresh <= fresh
  BY DEF ReplayInv
<1>11. runs'[place] = run /\ \A other \in Places \ {place} : runs'[other] = runs[other]
  BY <1>1, <1>6
<1>12. runs' \in [Places -> {NoRun} \cup RunRecords]
  BY <1>1, <1>5, <1>6
<1> QED BY <1>5, <1>7, <1>8, <1>9, <1>10, <1>11, <1>12, OneDirectory

\* A decision keeps the invariant.
LEMMA DecideInv ==
  ASSUME ReplayInv, NEW place \in Places, NEW actor \in Actors, Decide(place, actor)
  PROVE  ReplayInv'
<1> DEFINE c == RecordHumanDecision(runs[place].ctx, Confirmation(actor))
<1>1. Exists(place)
  BY DEF Decide
<1>2. Persisted(place) = runs[place].ctx /\ runs[place] \in RunRecords
  BY <1>1, PersistedGrew
<1>3. CanRecordDecision(runs[place].ctx, Confirmation(actor))
  BY <1>2 DEF Decide
<1>4. runs[place].ctx.stage = "awaiting_human_decision"
  BY <1>3 DEF CanRecordDecision
<1>5. \A f : (StartedFrom(f, runs[place].inject) /\ Grown(Started(f), runs[place].ctx))
               => Grown(Started(f), c)
  BY <1>3, CommandsGrow DEF StartedFrom
<1>6. /\ runs' = [runs EXCEPT ![place].ctx = c]
      /\ UNCHANGED <<bundle, replay, fresh, edits>>
  BY <1>2 DEF Decide, Continue
<1> HIDE DEF c
<1>7. /\ runs[place].planned \in FigureSet
      /\ [runs[place] EXCEPT !.ctx = c] =
           [runs[place] EXCEPT !.ctx = c, !.planned = runs[place].planned]
  BY <1>2 DEF RunRecords
<1> QED BY <1>1, <1>4, <1>5, <1>6, <1>7, ContinueInv

\* Planning keeps the invariant, whatever the bundle has become.
LEMMA ResumeInv ==
  ASSUME ReplayInv, NEW place \in Places, Resume(place)
  PROVE  ReplayInv'
<1> DEFINE c == PlanRecovery(LeaveHumanGate(runs[place].ctx))
<1>1. Exists(place)
  BY DEF Resume
<1>2. Persisted(place) = runs[place].ctx /\ runs[place] \in RunRecords
  BY <1>1, PersistedGrew
<1>3. CanResume(runs[place].ctx)
  BY <1>2 DEF Resume
<1>4. runs[place].ctx.stage = "awaiting_human_decision"
  BY <1>3 DEF CanResume
<1>5. \A f : (StartedFrom(f, runs[place].inject) /\ Grown(Started(f), runs[place].ctx))
               => Grown(Started(f), c)
  BY <1>3, ActorsAssumption, CommandsGrow DEF StartedFrom
<1>6. /\ runs' = [runs EXCEPT ![place].ctx = c, ![place].planned = bundle.figures]
      /\ UNCHANGED <<bundle, replay, fresh, edits>>
  BY <1>2 DEF Resume
<1>7. bundle.figures \in FigureSet
  BY DEF ReplayInv, FigureSet
<1> HIDE DEF c
<1>8. runs' = [runs EXCEPT ![place] = [runs[place] EXCEPT !.ctx = c, !.planned = bundle.figures]]
  BY <1>6 DEF ReplayInv
<1> QED BY <1>1, <1>4, <1>5, <1>6, <1>7, <1>8, ContinueInv

\* A final approval keeps the invariant.
LEMMA ApproveInv ==
  ASSUME ReplayInv, NEW place \in Places, NEW actor \in Actors, Approve(place, actor)
  PROVE  ReplayInv'
<1> DEFINE c == ApproveFinal(runs[place].ctx, actor)
<1>1. Exists(place)
  BY DEF Approve
<1>2. Persisted(place) = runs[place].ctx /\ runs[place] \in RunRecords
  BY <1>1, PersistedGrew
<1>3. CanApprove(runs[place].ctx)
  BY <1>2 DEF Approve
<1>4. runs[place].ctx.stage = "awaiting_final_approval"
  BY <1>3 DEF CanApprove
<1>5. \A f : (StartedFrom(f, runs[place].inject) /\ Grown(Started(f), runs[place].ctx))
               => Grown(Started(f), c)
  BY <1>3, CommandsGrow DEF StartedFrom
<1>6. /\ runs' = [runs EXCEPT ![place].ctx = c]
      /\ UNCHANGED <<bundle, replay, fresh, edits>>
  BY <1>2 DEF Approve, Continue
<1> HIDE DEF c
<1>7. /\ runs[place].planned \in FigureSet
      /\ [runs[place] EXCEPT !.ctx = c] =
           [runs[place] EXCEPT !.ctx = c, !.planned = runs[place].planned]
  BY <1>2 DEF RunRecords
<1> QED BY <1>1, <1>4, <1>5, <1>6, <1>7, ContinueInv

\* A replay's first half keeps the invariant: the run it wrote is the only one
\* of its number, and the simulated people brought it to its end.
LEMMA RunCopyInv ==
  ASSUME ReplayInv, NEW from \in Places, NEW to \in Places, NEW replace \in BOOLEAN,
         RunCopy(from, to, replace)
  PROVE  ReplayInv'
<1> DEFINE inject == runs[from].inject
<1>1. replay = NoReplay /\ Exists(from)
  BY DEF RunCopy
<1>2. inject \in BOOLEAN
  <2>1. runs[from] \in RunRecords
    BY <1>1, PersistedGrew
  <2> QED BY <2>1 DEF RunRecords
<1>3. Make(to, "run", inject, replace)
  BY DEF RunCopy
<1>4. replay' = IF runs'[to].exists THEN Replaying(from, to) ELSE NoReplay
  BY DEF RunCopy
<1> HIDE DEF inject
<1>5. /\ runs' \in [Places -> {NoRun} \cup RunRecords]
      /\ fresh' = fresh + 1 /\ fresh' \in 0 .. MaxFresh
      /\ \A other \in Places \ {to} : runs'[other] = runs[other]
      /\ runs'[to] # NoRun => /\ Grew(runs'[to])
                              /\ runs'[to].number = fresh + 1
                              /\ Copied(runs'[to], inject)
  BY <1>2, <1>3, MakeStep
<1>6. fresh \in Nat
  BY DEF ReplayInv
<1>7. ASSUME NEW other \in Places, runs'[other] # NoRun
      PROVE  /\ Grew(runs'[other]) /\ runs'[other].number <= fresh'
             /\ runs'[other].number = fresh + 1 => Copied(runs'[other], inject)
  <2>1. CASE other = to
    BY <1>5, <1>6, <1>7, <2>1
  <2>2. CASE other # to
    <3>1. runs'[other] = runs[other] /\ Recorded(other)
      BY <1>5, <1>7, <2>2 DEF Recorded
    <3>2. Grew(runs[other]) /\ runs[other].number <= fresh
      BY <3>1 DEF ReplayInv
    <3>3. runs[other].number \in Nat
      BY <3>2 DEF Grew, RunRecords
    <3> QED BY <1>5, <1>6, <3>1, <3>2, <3>3
  <2> QED BY <2>1, <2>2
<1>8. replay' # NoReplay =>
        /\ replay'.from = from /\ replay'.to = to
        /\ replay'.copy = fresh + 1 /\ replay'.inject = inject
  <2>1. /\ Replaying(from, to).from = from /\ Replaying(from, to).to = to
        /\ Replaying(from, to).copy = fresh + 1 /\ Replaying(from, to).inject = inject
    BY DEF Replaying, inject
  <2> QED BY <1>4, <2>1
<1>9. bundle' = bundle /\ edits' = edits
  BY DEF RunCopy
<1>10. bundle' \in Cases /\ edits' \in 0 .. MaxEdits
  BY <1>9 DEF ReplayInv
<1> QED BY <1>5, <1>6, <1>7, <1>8, <1>10 DEF ReplayInv, Recorded

\* A comparison keeps the invariant: it writes a verdict, whatever has become of
\* the two directories.
LEMMA CompareInv ==
  ASSUME ReplayInv, CompareRuns
  PROVE  ReplayInv'
<1> DEFINE verdict == IF Equivalent(runs[replay.from], runs[replay.to])
                        THEN "equivalent" ELSE "different"
           run     == [runs[replay.to] EXCEPT !.verdict = verdict]
<1>1. /\ replay # NoReplay /\ {replay.from, replay.to} \subseteq Places
      /\ runs \in [Places -> {NoRun} \cup RunRecords]
      /\ fresh \in 0 .. MaxFresh /\ edits \in 0 .. MaxEdits /\ bundle \in Cases
  BY DEF CompareRuns, ReplayInv
<1>2. replay' = NoReplay /\ UNCHANGED <<bundle, fresh, edits>>
  BY DEF CompareRuns
<1>3. \/ runs' = runs
      \/ Exists(replay.to) /\ runs' = [runs EXCEPT ![replay.to] = run]
  BY DEF CompareRuns
<1>4. CASE runs' = runs
  BY <1>1, <1>2, <1>4 DEF ReplayInv, Recorded
<1>5. CASE Exists(replay.to) /\ runs' = [runs EXCEPT ![replay.to] = run]
  <2>1. /\ Recorded(replay.to) /\ runs[replay.to] \in RunRecords
        /\ Grew(runs[replay.to]) /\ runs[replay.to].number <= fresh
    BY <1>1, <1>5, PersistedGrew DEF ReplayInv
  <2>2. verdict \in {"none", "equivalent", "different"}
    OBVIOUS
  <2> HIDE DEF verdict
  <2>3. /\ run \in RunRecords /\ run.number = runs[replay.to].number
        /\ run.ctx = runs[replay.to].ctx /\ run.inject = runs[replay.to].inject
    BY <2>1, <2>2 DEF RunRecords
  <2> HIDE DEF run
  <2>4. Grew(run) /\ run.number <= fresh
    BY <2>1, <2>3 DEF Grew
  <2>5. /\ runs'[replay.to] = run
        /\ \A other \in Places \ {replay.to} : runs'[other] = runs[other]
        /\ runs' \in [Places -> {NoRun} \cup RunRecords]
    BY <1>1, <1>5, <2>3
  <2>6. \A other \in Places : runs'[other] # NoRun =>
          Grew(runs'[other]) /\ runs'[other].number <= fresh
    BY <2>4, <2>5 DEF ReplayInv, Recorded
  <2> QED BY <1>1, <1>2, <2>5, <2>6 DEF ReplayInv, Recorded
<1> QED BY <1>3, <1>4, <1>5

\* Every step keeps the invariant.
LEMMA StepInv == ReplayInv /\ [Next]_vars => ReplayInv'
<1> SUFFICES ASSUME ReplayInv, [Next]_vars
             PROVE  ReplayInv'
  OBVIOUS
<1>1. ASSUME NEW place \in Places, MakeRun(place)
      PROVE  ReplayInv'
  BY <1>1, MakeRunInv
<1>2. ASSUME NEW place \in Places, Resume(place)
      PROVE  ReplayInv'
  BY <1>2, ResumeInv
<1>3. ASSUME NEW place \in Places, NEW actor \in Actors, Decide(place, actor)
      PROVE  ReplayInv'
  BY <1>3, DecideInv
<1>4. ASSUME NEW place \in Places, NEW actor \in Actors, Approve(place, actor)
      PROVE  ReplayInv'
  BY <1>4, ApproveInv
<1>5. ASSUME NEW from \in Places, NEW to \in Places, NEW replace \in BOOLEAN,
             RunCopy(from, to, replace)
      PROVE  ReplayInv'
  BY <1>5, RunCopyInv
<1>6. CASE EditCase
  <2>1. edits' \in 0 .. MaxEdits /\ bundle' \in Cases /\ UNCHANGED <<runs, replay, fresh>>
    BY <1>6, BoundsAssumption DEF EditCase, ReplayInv
  <2> QED BY <2>1 DEF ReplayInv, Recorded
<1>7. CASE CompareRuns
  BY <1>7, CompareInv
<1>8. CASE KillReplay
  BY <1>8 DEF KillReplay, ReplayInv, Recorded
<1>9. CASE UNCHANGED vars
  BY <1>9 DEF vars, ReplayInv, Recorded
<1> QED BY <1>1, <1>2, <1>3, <1>4, <1>5, <1>6, <1>7, <1>8, <1>9 DEF Next

\* The invariant holds in every reachable state.
LEMMA AlwaysInv == Spec => []ReplayInv
<1>1. Init => ReplayInv
  BY InitInv
<1>2. ReplayInv /\ [Next]_vars => ReplayInv'
  BY StepInv
<1> QED BY <1>1, <1>2, PTL DEF Spec

-----------------------------------------------------------------------------
(* The properties *)

\* The variables of replay keep their types for every set of directories and of
\* case contents: in particular no directory ever holds anything but a context
\* and figures of some content the bundle can have.
THEOREM TypeCorrect == Spec => []TypeOK
<1>1. ASSUME ReplayInv
      PROVE  TypeOK
  <2>1. ASSUME NEW place \in Places, Exists(place)
        PROVE  /\ runs[place].ctx \in Contexts
               /\ runs[place].inject \in BOOLEAN
               /\ {runs[place].found, runs[place].planned} \subseteq FigureSet
               /\ runs[place].verdict \in {"none", "equivalent", "different"}
    <3>1. runs[place] \in RunRecords
      BY <1>1, <2>1, PersistedGrew
    <3> QED BY <3>1 DEF RunRecords
  <2> QED BY <1>1, <2>1 DEF ReplayInv, TypeOK
<1>2. Spec => []ReplayInv
  BY AlwaysInv
<1> QED BY <1>1, <1>2, PTL

\* What the comparison looks at, where it finds two runs equivalent.
LEMMA ComparedParts ==
  ASSUME NEW one, NEW other, Equivalent(one, other)
  PROVE  /\ one.ctx.stage = other.ctx.stage
         /\ one.ctx.selections = other.ctx.selections
         /\ one.ctx.findings = other.ctx.findings
         /\ one.ctx.decisions = other.ctx.decisions
         /\ one.planned = other.planned
         /\ Priced(one.ctx.findings) => one.found = other.found
<1> DEFINE Found(run)   == IF Priced(run.ctx.findings) THEN run.found ELSE NoFigures
           Figures(run) == <<Found(run), run.planned>>
<1>1. \A run : /\ LogicalSignature(run).status = run.ctx.stage
               /\ LogicalSignature(run).selected = run.ctx.selections
               /\ LogicalSignature(run).findings = run.ctx.findings
               /\ LogicalSignature(run).decisions = run.ctx.decisions
               /\ LogicalSignature(run).figures = Figures(run)
  BY DEF LogicalSignature
<1>2. LogicalSignature(one) = LogicalSignature(other)
  BY DEF Equivalent
<1>3. Figures(one) = Figures(other)
  BY <1>1, <1>2
<1>4. Found(one) = Found(other) /\ one.planned = other.planned
  <2> HIDE DEF Found
  <2> QED BY <1>3
<1>5. /\ one.ctx.stage = other.ctx.stage
      /\ one.ctx.selections = other.ctx.selections
      /\ one.ctx.findings = other.ctx.findings
      /\ one.ctx.decisions = other.ctx.decisions
  BY <1>1, <1>2
<1> QED BY <1>4, <1>5

\* A verdict is that of the comparison of the two runs as they are now.
LEMMA VerdictOfComparison ==
  ASSUME ReplayInv, NEW verdict, Finds(verdict, runs[replay.from], runs[replay.to])
  PROVE  /\ Exists(replay.from) /\ Exists(replay.to)
         /\ replay.from \in Places /\ replay.to \in Places
         /\ Copied(runs[replay.to], replay.inject)
         /\ verdict = IF Equivalent(runs[replay.from], runs[replay.to])
                        THEN "equivalent" ELSE "different"
<1>1. /\ replay # NoReplay /\ CompareRuns
      /\ runs[replay.from].exists /\ runs[replay.to].exists
      /\ runs[replay.to].number = replay.copy
      /\ runs'[replay.to].verdict = verdict
  BY DEF Finds
<1>2. Exists(replay.from) /\ Exists(replay.to)
  BY <1>1 DEF Exists
<1>3. replay.from \in Places /\ replay.to \in Places
  BY <1>1 DEF ReplayInv
<1>4. /\ runs[replay.to] \in RunRecords /\ Recorded(replay.to)
      /\ runs \in [Places -> {NoRun} \cup RunRecords]
  BY <1>2, <1>3, PersistedGrew DEF ReplayInv
<1>5. Copied(runs[replay.to], replay.inject)
  BY <1>1, <1>3, <1>4 DEF ReplayInv
<1> DEFINE found == IF Equivalent(runs[replay.from], runs[replay.to])
                      THEN "equivalent" ELSE "different"
<1>6. runs' = [runs EXCEPT ![replay.to].verdict = found]
  BY <1>1, <1>2 DEF CompareRuns
<1> HIDE DEF found
<1>7. runs'[replay.to].verdict = found
  BY <1>3, <1>4, <1>6 DEF RunRecords
<1> QED BY <1>1, <1>2, <1>3, <1>5, <1>7 DEF found

\* For every set of directories and of case contents, and whatever was edited,
\* replaced or continued before the comparison: a run that replay calls
\* equivalent to its copy has the same audit trail, expert requests and draft,
\* was decided by the simulated people alone, and recommends the figures of its
\* commercial finding.  Indeed the two contexts are one and the same.
THEOREM EquivalentIsAlwaysSameRun == Spec => EquivalentIsSameRun
<1> DEFINE Same(from, to) ==
             (replay.from = from /\ replay.to = to /\ Finds("equivalent", runs[from], runs[to])) =>
               /\ runs[from].ctx.events = runs[to].ctx.events
               /\ runs[from].ctx.requests = runs[to].ctx.requests
               /\ runs[from].ctx.draft = runs[to].ctx.draft
               /\ \A i \in DOMAIN runs[from].ctx.decisions :
                    runs[from].ctx.decisions[i].by \in {SimulatedHuman, SimulatedApprover}
               /\ Priced(runs[from].ctx.findings) =>
                    runs[from].planned \in {NoFigures, runs[from].found}
<1>1. ASSUME ReplayInv, NEW from \in Places, NEW to \in Places
      PROVE  Same(from, to)
  <2> SUFFICES ASSUME replay.from = from, replay.to = to,
                      Finds("equivalent", runs[from], runs[to])
               PROVE  /\ runs[from].ctx = runs[to].ctx
                      /\ \A i \in DOMAIN runs[from].ctx.decisions :
                           runs[from].ctx.decisions[i].by \in {SimulatedHuman, SimulatedApprover}
                      /\ Priced(runs[from].ctx.findings) =>
                           runs[from].planned \in {NoFigures, runs[from].found}
    OBVIOUS
  <2>1. /\ Exists(from) /\ Exists(to) /\ Copied(runs[to], replay.inject)
        /\ "equivalent" = IF Equivalent(runs[from], runs[to]) THEN "equivalent" ELSE "different"
    BY <1>1, VerdictOfComparison
  <2>2. Equivalent(runs[from], runs[to])
    BY <2>1
  <2>3. /\ runs[from].ctx.stage = runs[to].ctx.stage
        /\ runs[from].ctx.selections = runs[to].ctx.selections
        /\ runs[from].ctx.findings = runs[to].ctx.findings
        /\ runs[from].ctx.decisions = runs[to].ctx.decisions
        /\ runs[from].planned = runs[to].planned
        /\ Priced(runs[from].ctx.findings) => runs[from].found = runs[to].found
    BY <2>2, ComparedParts
  <2>4. PICK f : StartedFrom(f, runs[from].inject) /\ Grown(Started(f), runs[from].ctx)
    BY <1>1, <2>1, PersistedGrew
  <2>5. PICK g : /\ StartedFrom(g, runs[to].inject)
                 /\ runs[to].ctx = RanToEnd(Started(g), SimulatedHuman, SimulatedApprover)
    BY <2>1 DEF Copied
  <2>6. Grown(Started(g), runs[to].ctx)
    BY <2>5, RanGrown DEF StartedFrom
  <2>7. Started(f) = Started(g)
    BY <2>3, <2>4, <2>5, <2>6, SameStart DEF StartedFrom
  <2>8. /\ runs[from].ctx = runs[to].ctx
        /\ \A i \in DOMAIN runs[from].ctx.decisions :
             runs[from].ctx.decisions[i].by \in {SimulatedHuman, SimulatedApprover}
    BY <2>3, <2>4, <2>5, <2>7, SameEnd DEF StartedFrom
  <2>9. runs[to].planned \in {NoFigures, runs[to].found}
    BY <2>1 DEF Copied
  <2> QED BY <2>3, <2>8, <2>9
<1>2. ReplayInv /\ [Next]_vars => [\A from, to \in Places : Same(from, to)]_vars
  BY <1>1
<1> QED BY <1>2, AlwaysInv, PTL DEF Spec, EquivalentIsSameRun

\* For every set of directories and of case contents, with or without the
\* injected failure: a completed run that the simulated people decided is found
\* equivalent to its copy when figures and selection are those of the bundle the
\* copy was made from.  The facts that neither figures nor selection show do not
\* matter.
THEOREM CompletedRunAlwaysReplays == Spec => CompletedRunReplays
<1> DEFINE Decided == <<Confirmation(SimulatedHuman),
                        [request |-> FinalRequest, outcome |-> "approved", by |-> SimulatedApprover]>>
           Replays(from, to) ==
             (/\ replay.from = from /\ replay.to = to
              /\ Exists(from) /\ Exists(to)
              /\ runs[from].inject = replay.inject
              /\ runs[from].ctx.stage = "completed" /\ runs[to].ctx.stage = "completed"
              /\ runs[from].ctx.decisions = Decided
              /\ runs[from].ctx.selections = runs[to].ctx.selections
              /\ runs[from].found = runs[to].found /\ runs[from].planned = runs[to].planned)
             => ~Finds("different", runs[from], runs[to])
<1>1. ASSUME ReplayInv, NEW from \in Places, NEW to \in Places
      PROVE  Replays(from, to)
  <2> SUFFICES ASSUME replay.from = from, replay.to = to,
                      Exists(from), Exists(to),
                      runs[from].inject = replay.inject,
                      runs[from].ctx.stage = "completed", runs[to].ctx.stage = "completed",
                      runs[from].ctx.decisions = Decided,
                      runs[from].ctx.selections = runs[to].ctx.selections,
                      runs[from].found = runs[to].found, runs[from].planned = runs[to].planned,
                      Finds("different", runs[from], runs[to])
               PROVE  FALSE
    OBVIOUS
  <2>1. /\ Copied(runs[to], replay.inject)
        /\ "different" = IF Equivalent(runs[from], runs[to]) THEN "equivalent" ELSE "different"
    BY <1>1, VerdictOfComparison
  <2>2. PICK f : StartedFrom(f, runs[from].inject) /\ Grown(Started(f), runs[from].ctx)
    BY <1>1, PersistedGrew
  <2>3. PICK g : /\ StartedFrom(g, runs[to].inject)
                 /\ runs[to].ctx = RanToEnd(Started(g), SimulatedHuman, SimulatedApprover)
    BY <2>1 DEF Copied
  <2>4. f.injectFailure <=> g.injectFailure
    BY <2>1, <2>2, <2>3 DEF Copied, StartedFrom
  <2>5. Grown(Started(g), runs[to].ctx)
    BY <2>3, RanGrown DEF StartedFrom
  <2>6. SelectExperts(f) = SelectExperts(g)
    BY <2>2, <2>3, <2>5, GrownForms DEF StartedFrom, Sound
  <2>7. Started(f) = Started(g)
    BY <2>2, <2>3, <2>4, <2>6, SameInjection DEF StartedFrom, Injected
  <2>8. runs[to].ctx.decisions = Decided
    <3>1. /\ Gated(Started(g))
          /\ runs[to].ctx = ApprovedBy(Started(g), SimulatedHuman, SimulatedApprover)
      BY <2>3, <2>5, GrownForms, RanGrown DEF StartedFrom
    <3>2. Form(g, Started(g), ApprovedBy(Started(g), SimulatedHuman, SimulatedApprover),
               "completed", <<Confirmation(SimulatedHuman), Approval(SimulatedApprover)>>)
      BY <2>3, <3>1, ActorsAssumption, Forms DEF StartedFrom
    <3> QED BY <3>1, <3>2 DEF Form, Approval
  <2>9. runs[from].ctx = runs[to].ctx
    <3> HIDE DEF Decided
    <3> QED BY <2>2, <2>3, <2>7, <2>8, SameEnd DEF StartedFrom
  <2>10. Equivalent(runs[from], runs[to])
    BY <2>9 DEF Equivalent, LogicalSignature
  <2> QED BY <2>1, <2>10
<1>2. ReplayInv /\ [Next]_vars => [\A from, to \in Places : Replays(from, to)]_vars
  BY <1>1
<1> QED BY <1>2, AlwaysInv, PTL DEF Spec, CompletedRunReplays
=============================================================================
