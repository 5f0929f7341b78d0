------------------------- MODULE CaseCommands_proofs -------------------------
(***************************************************************************)
(* What the commands put together in memory is sound (Sound), whichever    *)
(* command it is and whatever state it found: for every set of people,     *)
(* every retry budget of two or more and every case bundle.                *)
(***************************************************************************)
EXTENDS CaseCommands, CaseContext_proofs

-----------------------------------------------------------------------------
(* What the commands have in hand *)

(* What holds of every context a command writes, of the case bundle f.     *)
Sound(f, c) ==
  /\ c \in Contexts
  /\ GateShape(c)
  /\ DecidedOnce(c)
  /\ Truthful(c)
  /\ c.selections = SelectExperts(f)
  /\ c.stage \in {"awaiting_human_decision", "recovery_planning"} \cup PlannedStages
  /\ c.stage = "recovery_planning" => "EvidenceAuditor" \notin c.selections
  /\ c.stage = "awaiting_human_decision" => c.contradictions # <<>>

(* A case in analysis, with the experts of left still to be asked.         *)
Analysing(f, c, left) ==
  /\ c \in Contexts
  /\ GateShape(c)
  /\ c.stage = "expert_analysis"
  /\ Truthful(c)
  /\ c.selections = SelectExperts(f)
  /\ \A role \in left : \A n \in 1 .. MaxAttempts :
       Unasked(c, role, n) /\ Unanswered(c, role, n)

\* An attempt leaves what other experts, and later attempts, have still to do.
LEMMA AttemptLeaves ==
  ASSUME NEW c \in Contexts, NEW role \in FindingRoles,
         NEW n \in 1 .. MaxAttempts, NEW status \in FindingStatus,
         NEW other, NEW m, other # role \/ m # n,
         Unasked(c, other, m), Unanswered(c, other, m)
  PROVE  /\ Unasked(ExecuteAttempt(c, role, n, status), other, m)
         /\ Unanswered(ExecuteAttempt(c, role, n, status), other, m)
<1> DEFINE d       == ExecuteAttempt(c, role, n, status)
           request == [role |-> role, attempt |-> n]
           finding == [role |-> role, attempt |-> n, status |-> status]
<1>1. d.requests = Append(c.requests, request) /\ d.findings = Append(c.findings, finding)
  BY AttemptAdds
<1>2. /\ request \in ExpertRequests /\ request.role = role /\ request.attempt = n
      /\ finding \in Findings /\ finding.role = role /\ finding.attempt = n
  BY DEF ExpertRequests, Findings, Roles
<1> HIDE DEF d, request, finding
<1>3. /\ DOMAIN c.requests = 1 .. Len(c.requests) /\ Len(c.requests) \in Nat
      /\ DOMAIN d.requests = 1 .. Len(c.requests) + 1
      /\ \A i \in 1 .. Len(c.requests) : d.requests[i] = c.requests[i]
      /\ d.requests[Len(c.requests) + 1] = request
  BY <1>1, <1>2, ContextSequences, AppendElements
<1>4. /\ DOMAIN c.findings = 1 .. Len(c.findings) /\ Len(c.findings) \in Nat
      /\ DOMAIN d.findings = 1 .. Len(c.findings) + 1
      /\ \A i \in 1 .. Len(c.findings) : d.findings[i] = c.findings[i]
      /\ d.findings[Len(c.findings) + 1] = finding
  BY <1>1, <1>2, ContextSequences, AppendElements
<1>5. Unasked(d, other, m)
  BY <1>2, <1>3 DEF Unasked
<1>6. Unanswered(d, other, m)
  BY <1>2, <1>4 DEF Unanswered
<1> QED BY <1>5, <1>6 DEF d

\* One attempt keeps the analysis going.
LEMMA AttemptAnalysing ==
  ASSUME NEW f \in Facts, NEW c, NEW left, Analysing(f, c, left),
         NEW role \in FindingRoles, NEW n \in 1 .. MaxAttempts,
         NEW status \in {"completed", "failed"},
         Unasked(c, role, n), Unanswered(c, role, n), role \notin left
  PROVE  Analysing(f, ExecuteAttempt(c, role, n, status), left)
<1> DEFINE d == ExecuteAttempt(c, role, n, status)
<1>1. status \in FindingStatus /\ c \in Contexts
  BY DEF FindingStatus, Analysing
<1>2. d \in Contexts /\ SameGovernance(c, d) /\ d.stage = c.stage /\ d.selections = c.selections
  BY <1>1, ExecuteAttemptType, ExecuteAttemptFrame, AttemptAdds
<1>3. Truthful(d)
  BY <1>1, AttemptTruthful DEF Analysing
<1>4. ASSUME NEW other \in left, NEW m \in 1 .. MaxAttempts
      PROVE  Unasked(d, other, m) /\ Unanswered(d, other, m)
  <2>1. other # role /\ Unasked(c, other, m) /\ Unanswered(c, other, m)
    BY DEF Analysing
  <2> QED BY <1>1, <2>1, AttemptLeaves
<1> HIDE DEF d
<1>5. GateShape(d)
  BY <1>1, <1>2, EarlyShape DEF Analysing, EarlyStages
<1>6. Analysing(f, d, left)
  BY <1>2, <1>3, <1>4, <1>5 DEF Analysing
<1> QED BY <1>6 DEF d

\* An expert's turn, with its retry when a failure is injected, keeps the
\* analysis going and leaves the others to be asked.
LEMMA ConsultedAnalysing ==
  ASSUME NEW f \in Facts, NEW c, NEW left, Analysing(f, c, left),
         NEW role \in left, role \in FindingRoles
  PROVE  Analysing(f, Consulted(c, role, f), left \ {role})
<1>1. Analysing(f, c, left \ {role})
  BY DEF Analysing
<1>2. /\ 1 \in 1 .. MaxAttempts /\ 2 \in 1 .. MaxAttempts
      /\ c \in Contexts
      /\ Unasked(c, role, 1) /\ Unanswered(c, role, 1)
      /\ Unasked(c, role, 2) /\ Unanswered(c, role, 2)
      /\ "completed" \in FindingStatus /\ "failed" \in FindingStatus
  BY RetryAssumption, MaxAttemptsAssumption DEF Analysing, FindingStatus
<1>3. Analysing(f, ExecuteAttempt(c, role, 1, "completed"), left \ {role})
  BY <1>1, <1>2, AttemptAnalysing
<1>4. Analysing(f, ExecuteAttempt(ExecuteAttempt(c, role, 1, "failed"), role, 2, "completed"),
                left \ {role})
  <2> DEFINE d == ExecuteAttempt(c, role, 1, "failed")
  <2>1. Analysing(f, d, left \ {role})
    BY <1>1, <1>2, AttemptAnalysing
  <2>2. Unasked(d, role, 2) /\ Unanswered(d, role, 2)
    BY <1>2, AttemptLeaves
  <2> HIDE DEF d
  <2>3. Analysing(f, ExecuteAttempt(d, role, 2, "completed"), left \ {role})
    BY <1>2, <2>1, <2>2, AttemptAnalysing
  <2> QED BY <2>3 DEF d
<1> QED BY <1>1, <1>3, <1>4 DEF Consulted, RunExpert

\* A case without an auditor goes on to planning soundly.
LEMMA SkippedSound ==
  ASSUME NEW f \in Facts, NEW c \in Contexts, GateShape(c), c.stage = "expert_analysis",
         Truthful(c), c.selections = SelectExperts(f), c.decisions = <<>>,
         "EvidenceAuditor" \notin c.selections
  PROVE  Sound(f, SkipReview(c))
<1> DEFINE entered == Transition(c, "contradiction_review")
           d       == SkipReview(c)
<1>1. /\ "contradiction_review" \in Stages /\ "recovery_planning" \in Stages
  BY DEF Stages
<1>2. /\ d \in Contexts /\ GateShape(d) /\ SameGovernance(c, d)
      /\ d.stage = "recovery_planning" /\ d.selections = c.selections
  BY SkipReviewType, SkipReviewShape, SkipReviewFrame, SkipReviewLink DEF WorkKept
<1>3. Truthful(d)
  <2>1. entered \in Contexts /\ Balanced(entered, "workflow")
    BY <1>1, TransitionType, BalancedMove DEF Truthful
  <2> HIDE DEF entered
  <2>2. Balanced(Transition(entered, "recovery_planning"), "workflow")
    BY <1>1, <2>1, BalancedMove
  <2> QED BY <2>2 DEF SkipReview, Truthful, entered
<1> HIDE DEF d
<1>4. DecidedOnce(d)
  BY <1>2 DEF DecidedOnce, SameGovernance
<1>5. Sound(f, d)
  BY <1>2, <1>3, <1>4 DEF Sound
<1> QED BY <1>5 DEF d

\* A reviewed case comes to the human gate soundly: the detector always finds
\* something, because the supplier's denial is in every bundle.
LEMMA ReviewedSound ==
  ASSUME NEW f \in Facts, NEW c \in Contexts, GateShape(c), c.stage = "expert_analysis",
         Truthful(c), c.selections = SelectExperts(f), c.decisions = <<>>
  PROVE  Sound(f, ReviewContradictions(c, DetectOnsiteContradictions(f)))
<1> DEFINE found     == DetectOnsiteContradictions(f)
           audited   == RecordContradictions(RequestAudit(c), found)
           requested == [audited EXCEPT !.humanRequests =
                           Append(@, [id |-> OnsiteRequest, status |-> "pending"])]
           told      == Record(requested, "human_decision_requested", "EvidenceAuditor")
           d         == ReviewContradictions(c, found)
<1>1. found = <<"unresolved">>
  BY DEF DetectOnsiteContradictions, ProgressClaimsOnsite, SupplierSaysArrived
<1>2. found \in Seq(ContradictionStatus) /\ HumanGateRequired(found)
  BY <1>1 DEF ContradictionStatus, HumanGateRequired
<1> HIDE DEF found
<1>3. /\ d \in Contexts /\ GateShape(d)
      /\ d.stage = "awaiting_human_decision" /\ d.selections = c.selections
      /\ d.decisions = <<>>
  <2>1. d \in Contexts /\ GateShape(d)
    BY <1>2, ReviewContradictionsType, ReviewContradictionsShape
  <2>2. d.stage = "awaiting_human_decision" /\ d.selections = c.selections
    BY <1>2, ReviewContradictionsLink DEF WorkKept
  <2>3. d.decisions = <<>>
    BY <1>2, ReviewDecides
  <2> QED BY <2>1, <2>2, <2>3
<1>4. d = Transition(told, "awaiting_human_decision")
  BY <1>2 DEF ReviewContradictions, OpenHumanGate
<1> HIDE DEF d
<1>5. /\ audited \in Contexts /\ Truthful(audited)
      /\ audited.contradictions = RequestAudit(c).contradictions \o found
  <2>1. RequestAudit(c) \in Contexts
    BY RequestAuditType
  <2>2. audited.contradictions = RequestAudit(c).contradictions \o found
    BY <2>1 DEF RecordContradictions, Record, Contexts
  <2> QED BY <1>2, <2>1, <2>2, RecordContradictionsType, AuditTruthful
<1>6. audited.contradictions # <<>>
  <2>1. RequestAudit(c).contradictions \in Seq(ContradictionStatus)
    BY RequestAuditType, ContextSequences
  <2> QED BY <1>1, <1>5, <2>1
<1> HIDE DEF audited
<1>7. /\ requested \in Contexts
      /\ requested.requests = audited.requests /\ requested.findings = audited.findings
      /\ requested.events = audited.events
      /\ requested.contradictions = audited.contradictions
  <2>1. [id |-> OnsiteRequest, status |-> "pending"] \in HumanRequests
    BY DEF HumanRequests
  <2>2. Append(audited.humanRequests, [id |-> OnsiteRequest, status |-> "pending"])
          \in Seq(HumanRequests)
    BY <1>5, <2>1, ContextSequences
  <2> QED BY <1>5, <2>2 DEF Contexts
<1> HIDE DEF requested
<1>8. Balanced(requested, "workflow")
  <2>1. \A request : AttemptStatus(requested, request) = AttemptStatus(audited, request)
    BY <1>7, StatusOfFindings
  <2>2. \A role : /\ CompletedRequests(requested, role) = CompletedRequests(audited, role)
                  /\ Completions(requested, role) = Completions(audited, role)
    BY <1>7, <2>1 DEF CompletedRequests, Completions, EventsOf
  <2> QED BY <1>5, <2>2 DEF Truthful, Balanced
<1>9. /\ told \in Contexts /\ Balanced(told, "workflow")
      /\ told.contradictions = requested.contradictions
  <2>1. /\ "human_decision_requested" \in EventTypes /\ "EvidenceAuditor" \in Subjects
        /\ "human_decision_requested" # "expert_execution_completed"
    BY EventNames
  <2>2. told \in Contexts
    BY <1>7, <2>1, RecordType
  <2>3. Balanced(told, "workflow")
    BY <1>7, <1>8, <2>1, BalancedNote
  <2>4. told.contradictions = requested.contradictions
    BY <1>7, <2>1, RecordFrame
  <2> QED BY <2>2, <2>3, <2>4
<1> HIDE DEF told
<1>10. Truthful(d) /\ d.contradictions = told.contradictions
  BY <1>4, <1>9, BalancedMove, TransitionFrame DEF Truthful, Stages
<1>11. DecidedOnce(d)
  BY <1>3 DEF DecidedOnce
<1>12. Sound(f, d)
  BY <1>3, <1>6, <1>7, <1>9, <1>10, <1>11 DEF Sound
<1> QED BY <1>12 DEF d, found

(* A case that enters the analysis of the finding experts.                  *)
AtAnalysis(f) == Transition(Triage(ValidateFixture(InitialContext, f), f), "expert_analysis")

\* A validated and triaged case begins its analysis soundly, nobody asked yet.
LEMMA BegunAnalysing ==
  ASSUME NEW f \in Facts, ~f.issues
  PROVE  Analysing(f, AtAnalysis(f), FindingRoles) /\ AtAnalysis(f).findings = <<>>
<1> DEFINE c       == InitialContext
           entered == Transition(c, "validating")
           started == Record(entered, "fixture_validation_started", "workflow")
           valid   == Record(started, "fixture_validation_completed", "workflow")
           chosen  == Triage(valid, f)
           begun   == Transition(chosen, "expert_analysis")
<1>1. /\ c \in Contexts /\ GateShape(c) /\ c.stage = "initialized"
      /\ c.requests = <<>> /\ c.findings = <<>>
  BY InitialShape DEF InitialContext
<1>2. Truthful(c)
  <2>1. \A role : CompletedRequests(c, role) = {} /\ Completions(c, role) = {}
    BY DEF CompletedRequests, Completions, EventsOf, InitialContext
  <2>2. "workflow" \notin Roles
    BY DEF Roles, FindingRoles
  <2>3. Cardinality({}) = 0
    BY FS_EmptySet
  <2> QED BY <2>1, <2>2, <2>3 DEF Truthful, Balanced
<1> HIDE DEF c
<1>3. /\ "validating" \in Stages /\ "triaging" \in Stages /\ "expert_analysis" \in Stages
      /\ "fixture_validation_started" \in EventTypes
      /\ "fixture_validation_completed" \in EventTypes
      /\ "workflow" \in Subjects
  BY DEF Stages, EventTypes, Subjects
<1>4. valid = ValidateFixture(c, f)
  BY DEF ValidateFixture
<1>5. /\ valid \in Contexts /\ SameGovernance(c, valid)
      /\ valid.requests = <<>> /\ valid.findings = <<>>
      /\ valid.stage = "validating"
  <2>1. valid \in Contexts /\ SameGovernance(c, valid)
    BY <1>1, <1>4, ValidateFixtureType, ValidateFixtureFrame
  <2>2. valid.requests = <<>> /\ valid.findings = <<>> /\ valid.stage = "validating"
    BY <1>1 DEF Record, Transition, Contexts
  <2> QED BY <2>1, <2>2
<1>6. Truthful(valid)
  <2>1. entered \in Contexts /\ Balanced(entered, "workflow")
    BY <1>1, <1>2, <1>3, TransitionType, BalancedMove DEF Truthful
  <2> HIDE DEF entered
  <2>2. started \in Contexts /\ Balanced(started, "workflow")
    BY <1>3, <2>1, RecordType, BalancedNote
  <2> HIDE DEF started
  <2>3. Balanced(valid, "workflow")
    BY <1>3, <2>2, BalancedNote
  <2> QED BY <2>3 DEF Truthful
<1> HIDE DEF valid
<1>7. /\ chosen \in Contexts /\ SameGovernance(valid, chosen)
      /\ chosen.requests = <<>> /\ chosen.findings = <<>>
      /\ chosen.selections = SelectExperts(f)
  <2>1. chosen \in Contexts /\ SameGovernance(valid, chosen)
    BY <1>5, TriageType, TriageFrame
  <2>2. chosen.requests = <<>> /\ chosen.findings = <<>>
    BY <1>5, TriageLink
  <2>3. chosen.selections = SelectExperts(f)
    <3>1. Transition(valid, "triaging") \in Contexts
      BY <1>3, <1>5, TransitionType
    <3> QED BY <3>1 DEF Triage, Contexts
  <2> QED BY <2>1, <2>2, <2>3
<1>8. Truthful(chosen)
  <2> DEFINE moved == Transition(valid, "triaging")
             s     == SelectionEvents(SelectExperts(f))
  <2>1. moved \in Contexts /\ Balanced(moved, "workflow")
    BY <1>3, <1>5, <1>6, TransitionType, BalancedMove DEF Truthful
  <2> HIDE DEF moved
  <2>2. /\ s \in Seq(AuditEvents)
        /\ \A i \in DOMAIN s : s[i].type # "expert_execution_completed"
    <3>1. /\ s \in Seq(AuditEvents)
          /\ \A i \in 1 .. Len(s) : s[i].type = "expert_selected"
      BY SelectionEventsRoutine
    <3>2. DOMAIN s = 1 .. Len(s)
      BY <3>1
    <3> QED BY <3>1, <3>2
  <2> HIDE DEF s
  <2>3. /\ chosen.requests = moved.requests /\ chosen.findings = moved.findings
        /\ chosen.events = moved.events \o s
    BY <2>1 DEF Triage, Contexts, moved, s
  <2> QED BY <1>7, <2>1, <2>2, <2>3, BalancedEvents DEF Truthful
<1> HIDE DEF chosen
<1>9. /\ begun \in Contexts /\ SameGovernance(c, begun)
      /\ begun.stage = "expert_analysis" /\ begun.selections = SelectExperts(f)
      /\ begun.requests = <<>> /\ begun.findings = <<>>
      /\ Truthful(begun)
  <2>1. /\ begun \in Contexts /\ begun.stage = "expert_analysis"
        /\ SameGovernance(chosen, begun) /\ begun.selections = chosen.selections
    BY <1>3, <1>7, TransitionType, TransitionFrame
  <2>2. begun.requests = chosen.requests /\ begun.findings = chosen.findings
    BY <1>7 DEF Transition, Record, Contexts
  <2>3. Truthful(begun)
    BY <1>3, <1>7, <1>8, BalancedMove DEF Truthful
  <2> QED BY <1>5, <1>7, <2>1, <2>2, <2>3 DEF SameGovernance
<1> HIDE DEF begun
<1>10. Analysing(f, begun, FindingRoles)
  <2>1. GateShape(begun)
    BY <1>1, <1>9, EarlyShape DEF EarlyStages
  <2>2. \A role, n : Unasked(begun, role, n) /\ Unanswered(begun, role, n)
    BY <1>9 DEF Unasked, Unanswered
  <2> QED BY <1>9, <2>1, <2>2 DEF Analysing
<1> QED BY <1>4, <1>9, <1>10 DEF AtAnalysis, begun, chosen, valid, c

\* What run_until_human_gate returns is sound, with nothing decided yet.
LEMMA StartedSound ==
  ASSUME NEW f \in Facts, ~f.issues
  PROVE  Sound(f, Started(f)) /\ Started(f).decisions = <<>>
<1> DEFINE begun == AtAnalysis(f)
           done  == Analysed(begun, f)
<1>10. Analysing(f, begun, FindingRoles)
  BY BegunAnalysing
<1> HIDE DEF begun
<1>11. \E left : Analysing(f, done, left)
  <2> DEFINE one == Consulted(begun, "ScheduleExpert", f)
             two == Consulted(one, "CommercialExpert", f)
             three == Consulted(two, "RiskExpert", f)
             left == FindingRoles \ {"ScheduleExpert"}
  <2>1. /\ "ScheduleExpert" \in FindingRoles /\ "CommercialExpert" \in FindingRoles
        /\ "RiskExpert" \in FindingRoles
        /\ "CommercialExpert" \in left /\ "RiskExpert" \in left \ {"CommercialExpert"}
    BY DEF FindingRoles
  <2>2. Analysing(f, one, left)
    BY <1>10, <2>1, ConsultedAnalysing
  <2> HIDE DEF one, left
  <2>3. Analysing(f, two, left \ {"CommercialExpert"})
    BY <2>1, <2>2, ConsultedAnalysing
  <2> HIDE DEF two
  <2>4. Analysing(f, three, (left \ {"CommercialExpert"}) \ {"RiskExpert"})
    BY <2>1, <2>3, ConsultedAnalysing
  <2>5. done = three
    BY DEF Analysed, three, two, one
  <2> HIDE DEF three
  <2> QED BY <2>4, <2>5
<1> HIDE DEF done
<1>12. /\ done \in Contexts /\ GateShape(done) /\ done.stage = "expert_analysis"
       /\ Truthful(done) /\ done.selections = SelectExperts(f)
  BY <1>11 DEF Analysing
<1>13. done.decisions = <<>>
  BY <1>12 DEF GateShape, EarlyStages, Ungated
<1>14. Started(f) = IF "EvidenceAuditor" \in done.selections
                      THEN ReviewContradictions(done, DetectOnsiteContradictions(f))
                      ELSE SkipReview(done)
  BY DEF Started, done, begun, AtAnalysis
<1>15. Sound(f, SkipReview(done)) \/ "EvidenceAuditor" \in done.selections
  BY <1>12, <1>13, SkippedSound
<1>16. Sound(f, ReviewContradictions(done, DetectOnsiteContradictions(f)))
  BY <1>12, <1>13, ReviewedSound
<1>17. SkipReview(done).decisions = <<>>
  BY <1>12, <1>13, SkipReviewFrame DEF SameGovernance
<1>18. ReviewContradictions(done, DetectOnsiteContradictions(f)).decisions = <<>>
  <2>1. DetectOnsiteContradictions(f) \in Seq(ContradictionStatus)
    <3>1. DetectOnsiteContradictions(f) = <<"unresolved">>
      BY DEF DetectOnsiteContradictions, ProgressClaimsOnsite, SupplierSaysArrived
    <3> QED BY <3>1 DEF ContradictionStatus
  <2> HIDE DEF DetectOnsiteContradictions
  <2> QED BY <1>12, <1>13, <2>1, ReviewDecides
<1> QED BY <1>14, <1>15, <1>16, <1>17, <1>18

-----------------------------------------------------------------------------
(* What a later command makes of a sound context *)

(* What an earlier command recorded is still there.                        *)
Later(c, d) == Continues(c.events, d.events)

\* The audit trail of an audit trail's continuation continues it.
LEMMA LaterTransitive ==
  ASSUME NEW b \in Contexts, NEW c \in Contexts, NEW d \in Contexts, Later(b, c), Later(c, d)
  PROVE  Later(b, d)
BY ContextSequences, ContinuesOrder DEF Later

\* Every step that appends one event, or none, keeps what was recorded.
LEMMA LaterSteps ==
  ASSUME NEW c \in Contexts, NEW d \in Contexts, NEW x \in AuditEvents,
         d.events = c.events \/ d.events = Append(c.events, x)
  PROVE  Later(c, d)
<1>1. Continues(c.events, c.events)
  BY ContextSequences, ContinuesSelf
<1>2. Continues(c.events, Append(c.events, x))
  BY ContextSequences, AppendContinues
<1> QED BY <1>1, <1>2 DEF Later

\* Recording an event keeps what was recorded.
LEMMA LaterRecord ==
  ASSUME NEW c \in Contexts, NEW type \in EventTypes, NEW about \in Subjects
  PROVE  Record(c, type, about) \in Contexts /\ Later(c, Record(c, type, about))
<1>1. [type |-> type, about |-> about] \in AuditEvents
  BY DEF AuditEvents
<1>2. /\ Record(c, type, about) \in Contexts
      /\ Record(c, type, about).events = Append(c.events, [type |-> type, about |-> about])
  BY RecordType, RecordFrame
<1> HIDE DEF Record
<1> QED BY <1>1, <1>2, LaterSteps

\* A stage change keeps what was recorded.
LEMMA LaterTransition ==
  ASSUME NEW c \in Contexts, NEW target \in Stages
  PROVE  Transition(c, target) \in Contexts /\ Later(c, Transition(c, target))
<1>1. [type |-> "workflow_stage_changed", about |-> target] \in AuditEvents
  BY DEF AuditEvents, EventTypes, Subjects
<1>2. /\ Transition(c, target) \in Contexts
      /\ Transition(c, target).events =
           Append(c.events, [type |-> "workflow_stage_changed", about |-> target])
  BY TransitionType, TransitionFrame
<1> HIDE DEF Transition
<1> QED BY <1>1, <1>2, LaterSteps

\* The attempt records speak of the requests, the findings and the events only.
LEMMA BalancedSame ==
  ASSUME NEW c, NEW d, NEW asked, Balanced(c, asked), d.requests = c.requests,
         d.findings = c.findings, d.events = c.events
  PROVE  Balanced(d, asked)
<1>1. \A request : AttemptStatus(d, request) = AttemptStatus(c, request)
  BY StatusOfFindings
<1>2. \A role : /\ CompletedRequests(d, role) = CompletedRequests(c, role)
                /\ Completions(d, role) = Completions(c, role)
  BY <1>1 DEF CompletedRequests, Completions, EventsOf
<1> QED BY <1>2 DEF Balanced

\* The requests a sound context holds: none, or the one of the gate.
LEMMA SoundRequests ==
  ASSUME NEW f, NEW c, Sound(f, c)
  PROVE  \/ c.humanRequests = <<>>
         \/ c.humanRequests = Gate("pending")
         \/ c.humanRequests = Gate("answered")
BY DEF Sound, GateShape, PlannedStages, Ungated, Answered

\* Sifting no request gives none, and sifting one gives it or nothing.
LEMMA SiftedFew ==
  ASSUME NEW pending \in BOOLEAN
  PROVE  /\ Sifted(<<>>, pending) = <<>>
         /\ \A request : Sifted(<<request>>, pending) =
              IF (request.status = "pending") # pending THEN <<>> ELSE <<request>>
<1>1. Sifted(<<>>, pending) = <<>>
  <2> DEFINE Body(g) == [n \in 0 .. 0 |->
                IF n = 0 THEN <<>>
                ELSE IF (<<>>[n].status = "pending") # pending THEN g[n - 1]
                ELSE Append(g[n - 1], <<>>[n])]
             g == CHOOSE t : t = Body(t)
  <2>1. Sifted(<<>>, pending) = g[0]
    BY DEF Sifted
  <2>2. \E t : t = Body(t)
    <3>1. [n \in 0 .. 0 |-> <<>>] = Body([n \in 0 .. 0 |-> <<>>])
      OBVIOUS
    <3> QED BY <3>1
  <2>3. g = Body(g)
    BY <2>2
  <2> HIDE DEF g
  <2>4. g[0] = <<>>
    BY <2>3
  <2> QED BY <2>1, <2>4
<1>2. ASSUME NEW request
      PROVE  Sifted(<<request>>, pending) =
               IF (request.status = "pending") # pending THEN <<>> ELSE <<request>>
  <2> DEFINE one == <<request>>
             Body(g) == [n \in 0 .. 1 |->
                IF n = 0 THEN <<>>
                ELSE IF (one[n].status = "pending") # pending THEN g[n - 1]
                ELSE Append(g[n - 1], one[n])]
             g == CHOOSE t : t = Body(t)
             result == IF (request.status = "pending") # pending THEN <<>> ELSE <<request>>
             h == [n \in 0 .. 1 |-> IF n = 0 THEN <<>> ELSE result]
  <2>1. Sifted(one, pending) = g[1]
    <3>1. Len(one) = 1
      OBVIOUS
    <3> QED BY <3>1 DEF Sifted
  <2>2. h = Body(h)
    <3>1. one[1] = request /\ Append(<<>>, request) = <<request>>
      OBVIOUS
    <3>2. h[0] = <<>> /\ h[1] = result
      OBVIOUS
    <3>3. Body(h)[0] = <<>>
      OBVIOUS
    <3>4. Body(h)[1] = IF (one[1].status = "pending") # pending THEN h[0]
                       ELSE Append(h[0], one[1])
      <4> HIDE DEF h, one
      <4> QED OBVIOUS
    <3>5. Body(h)[1] = result
      <4> HIDE DEF h, one, Body
      <4> QED BY <3>1, <3>2, <3>4
    <3>6. Body(h) = [n \in 0 .. 1 |-> Body(h)[n]]
      <4> HIDE DEF h, one
      <4> QED OBVIOUS
    <3>7. \A n \in 0 .. 1 : h[n] = Body(h)[n]
      <4> HIDE DEF h, one, Body, result
      <4> QED BY <3>2, <3>3, <3>5
    <3>8. [n \in 0 .. 1 |-> h[n]] = [n \in 0 .. 1 |-> Body(h)[n]]
      <4> HIDE DEF h, one, Body, result
      <4> QED BY <3>7
    <3>9. h = [n \in 0 .. 1 |-> h[n]]
      <4> HIDE DEF one, result
      <4> QED OBVIOUS
    <3> QED
      <4> HIDE DEF h, one, Body, result
      <4> QED BY <3>6, <3>8, <3>9
  <2>3. g = Body(g)
    <3> HIDE DEF h
    <3>1. \E t : t = Body(t)
      BY <2>2
    <3> QED BY <3>1
  <2> HIDE DEF g
  <2>4. g[0] = <<>>
    BY <2>3
  <2>5. g[1] = IF (request.status = "pending") # pending THEN <<>> ELSE <<request>>
    <3>1. g[1] = IF (one[1].status = "pending") # pending THEN g[0] ELSE Append(g[0], one[1])
      <4>1. Body(g)[1] = IF (one[1].status = "pending") # pending THEN g[0]
                         ELSE Append(g[0], one[1])
        <5> HIDE DEF one
        <5> QED OBVIOUS
      <4>2. g[1] = Body(g)[1]
        <5> HIDE DEF one, Body
        <5> QED BY <2>3
      <4> HIDE DEF one, Body
      <4> QED BY <4>1, <4>2
    <3>2. one[1] = request /\ Append(<<>>, request) = <<request>>
      OBVIOUS
    <3> HIDE DEF one
    <3> QED BY <2>4, <3>1, <3>2
  <2> QED BY <2>1, <2>5
<1> QED BY <1>1, <1>2

\* A sound context comes back from the file as it was: putting the pending
\* requests in front changes nothing when there is at most one.
LEMMA ReloadedSame ==
  ASSUME NEW f, NEW c, Sound(f, c)
  PROVE  Reloaded(c) = c
<1> DEFINE sifted == Sifted(c.humanRequests, TRUE) \o Sifted(c.humanRequests, FALSE)
<1>1. c \in Contexts
  BY DEF Sound
<1>2. sifted = c.humanRequests
  <2>1. CASE c.humanRequests = <<>>
    <3>1. Sifted(<<>>, TRUE) = <<>> /\ Sifted(<<>>, FALSE) = <<>>
      BY SiftedFew
    <3>2. <<>> \o <<>> = <<>>
      OBVIOUS
    <3> QED BY <2>1, <3>1, <3>2
  <2>2. CASE c.humanRequests \in {Gate("pending"), Gate("answered")}
    <3> PICK status \in {"pending", "answered"} : c.humanRequests = Gate(status)
      BY <2>2
    <3> DEFINE request == [id |-> OnsiteRequest, status |-> status]
    <3>1. Gate(status) = <<request>> /\ request.status = status
      BY DEF Gate
    <3> HIDE DEF request
    <3>2. /\ Sifted(<<request>>, TRUE) = IF status = "pending" THEN <<request>> ELSE <<>>
          /\ Sifted(<<request>>, FALSE) = IF status = "pending" THEN <<>> ELSE <<request>>
      BY <3>1, SiftedFew
    <3>3. <<request>> \o <<>> = <<request>> /\ <<>> \o <<request>> = <<request>>
      OBVIOUS
    <3> QED BY <3>1, <3>2, <3>3
  <2> QED BY <2>1, <2>2, SoundRequests
<1> HIDE DEF sifted
<1>3. Reloaded(c) = [c EXCEPT !.humanRequests = sifted]
  BY DEF Reloaded, sifted
<1> QED BY <1>1, <1>2, <1>3 DEF Contexts

\* decide: a decision the runner accepts keeps the context sound.
LEMMA DecideSound ==
  ASSUME NEW f \in Facts, NEW c, Sound(f, c), NEW actor \in Actors,
         CanRecordDecision(c, Confirmation(actor))
  PROVE  LET d == RecordHumanDecision(c, Confirmation(actor))
         IN  /\ Sound(f, d) /\ Later(c, d)
             /\ d.stage = "awaiting_human_decision" /\ OnsiteRequest \in DecidedIds(d)
<1> DEFINE x     == Confirmation(actor)
           added == [c EXCEPT !.decisions = Append(@, x)]
           d     == RecordHumanDecision(c, x)
<1>1. c \in Contexts /\ GateShape(c) /\ DecidedOnce(c) /\ Truthful(c)
  BY DEF Sound
<1>2. x \in Decisions /\ x.request = OnsiteRequest
  BY DEF Confirmation, Decisions, Outcomes
<1>3. CanRecordDecision(c, x)
  OBVIOUS
<1> HIDE DEF x
<1>4. /\ c.stage = "awaiting_human_decision" /\ OnsiteRequest \notin DecidedIds(c)
  BY <1>1, <1>2, <1>3, DecisionSubject
<1>5. /\ d \in Contexts /\ GateShape(d) /\ d.stage = "awaiting_human_decision"
      /\ OnsiteRequest \in DecidedIds(d)
  BY <1>1, <1>2, <1>3, RecordHumanDecisionShape
<1>6. d.selections = c.selections /\ d.decisions = Append(c.decisions, x)
  BY <1>1, <1>2, RecordHumanDecisionFrame
<1>7. /\ added \in Contexts
      /\ added.requests = c.requests /\ added.findings = c.findings
      /\ added.events = c.events /\ added.contradictions = c.contradictions
  <2>1. Append(c.decisions, x) \in Seq(Decisions)
    BY <1>1, <1>2, ContextSequences
  <2> QED BY <1>1, <2>1 DEF Contexts
<1>8. d = Record(added, "human_decision_received", "workflow")
  BY DEF RecordHumanDecision
<1> HIDE DEF added, d
<1>9. /\ "human_decision_received" \in EventTypes /\ "workflow" \in Subjects
      /\ "human_decision_received" # "expert_execution_completed"
  BY EventNames
<1>10. Truthful(d)
  <2>1. Balanced(added, "workflow")
    BY <1>1, <1>7, BalancedSame DEF Truthful
  <2> QED BY <1>7, <1>8, <1>9, <2>1, BalancedNote DEF Truthful
<1>11. d.contradictions = c.contradictions
  BY <1>7, <1>8, <1>9, RecordFrame
<1>12. Later(c, d)
  <2>1. Later(added, d)
    BY <1>7, <1>8, <1>9, LaterRecord
  <2> QED BY <1>7, <2>1 DEF Later
<1>13. DecidedOnce(d)
  BY <1>1, <1>2, <1>4, <1>5, <1>6, DecidedOnceAppend
<1>14. c.selections = SelectExperts(f) /\ c.contradictions # <<>>
  BY <1>4 DEF Sound
<1>15. Sound(f, d)
  BY <1>5, <1>6, <1>10, <1>11, <1>13, <1>14 DEF Sound
<1> QED BY <1>5, <1>12, <1>15 DEF d, x

\* Leaving the gate keeps the attempt records truthful and what was recorded.
LEMMA LeaveSound ==
  ASSUME NEW f \in Facts, NEW c, Sound(f, c), c.stage = "awaiting_human_decision",
         OnsiteRequest \in DecidedIds(c)
  PROVE  LET d == LeaveHumanGate(c)
         IN  /\ InPlanning(d) /\ DecidedOnce(d) /\ Truthful(d) /\ Later(c, d)
             /\ d.selections = c.selections
<1> DEFINE answered == AnswerRequest(c, LastPending(c))
           d        == LeaveHumanGate(c)
<1>1. c \in Contexts /\ GateShape(c) /\ DecidedOnce(c) /\ Truthful(c)
  BY DEF Sound
<1>2. InPlanning(d) /\ d.selections = c.selections /\ d.decisions = c.decisions
  BY <1>1, LeaveHumanGateShape
<1>3. /\ answered \in Contexts
      /\ answered.requests = c.requests /\ answered.findings = c.findings
      /\ answered.events = c.events
  BY <1>1, AnswerGate
<1>4. d = Transition(answered, "recovery_planning")
  BY DEF LeaveHumanGate
<1> HIDE DEF answered, d
<1>5. "recovery_planning" \in Stages
  BY DEF Stages
<1>6. Truthful(d)
  <2>1. Balanced(answered, "workflow")
    BY <1>1, <1>3, BalancedSame DEF Truthful
  <2> QED BY <1>3, <1>4, <1>5, <2>1, BalancedMove DEF Truthful
<1>7. Later(c, d)
  <2>1. Later(answered, d)
    BY <1>3, <1>4, <1>5, LaterTransition
  <2> QED BY <1>3, <2>1 DEF Later
<1>8. DecidedOnce(d)
  BY <1>1, <1>2 DEF DecidedOnce
<1> QED BY <1>2, <1>6, <1>7, <1>8 DEF d

\* Planning keeps what was recorded and the decisions.
LEMMA PlanLater ==
  ASSUME NEW c, InPlanning(c)
  PROVE  LET d == PlanRecovery(c)
         IN  /\ Later(c, d)
             /\ d.decisions = c.decisions /\ d.selections = c.selections
             /\ d.stage = "awaiting_final_approval"
<1> DEFINE asked   == RequestPlan(c)
           drafted == [asked EXCEPT !.draft = PostHumanDraft(asked)]
           option  == Record(drafted, "recovery_option_created", "RecoveryPlanner")
           created == Record(option, "draft_recommendation_created", "RecoveryPlanner")
           done    == Record(created, "expert_execution_completed", "RecoveryPlanner")
           d       == Transition(done, "awaiting_final_approval")
<1>1. c \in Contexts
  BY DEF InPlanning
<1>2. /\ asked \in Contexts /\ Later(c, asked)
      /\ asked.decisions = c.decisions /\ asked.selections = c.selections
  BY <1>1, RequestPlanQuiet DEF Quiet, WorkKept, SameGovernance, AddsRoutine, Later
<1> HIDE DEF asked
<1>3. /\ drafted \in Contexts /\ drafted.events = asked.events
      /\ drafted.decisions = asked.decisions /\ drafted.selections = asked.selections
  <2>1. PostHumanDraft(asked) \in Recommendations
    BY <1>2, DraftType
  <2> HIDE DEF PostHumanDraft
  <2> QED BY <1>2, <2>1 DEF Contexts
<1> HIDE DEF drafted
<1>4. /\ "recovery_option_created" \in EventTypes
      /\ "draft_recommendation_created" \in EventTypes
      /\ "expert_execution_completed" \in EventTypes
      /\ "RecoveryPlanner" \in Subjects
      /\ "awaiting_final_approval" \in Stages
  BY EventNames DEF Stages
<1>5. /\ option \in Contexts /\ Later(drafted, option)
      /\ option.decisions = drafted.decisions /\ option.selections = drafted.selections
  BY <1>3, <1>4, LaterRecord, RecordFrame DEF SameGovernance
<1> HIDE DEF option
<1>6. /\ created \in Contexts /\ Later(option, created)
      /\ created.decisions = option.decisions /\ created.selections = option.selections
  BY <1>4, <1>5, LaterRecord, RecordFrame DEF SameGovernance
<1> HIDE DEF created
<1>7. /\ done \in Contexts /\ Later(created, done)
      /\ done.decisions = created.decisions /\ done.selections = created.selections
  BY <1>4, <1>6, LaterRecord, RecordFrame DEF SameGovernance
<1> HIDE DEF done
<1>8. /\ d \in Contexts /\ Later(done, d) /\ d.stage = "awaiting_final_approval"
      /\ d.decisions = done.decisions /\ d.selections = done.selections
  BY <1>4, <1>7, LaterTransition, TransitionType, TransitionFrame DEF SameGovernance
<1> HIDE DEF d
<1>9. Later(c, d)
  <2>1. Later(c, drafted)
    BY <1>2, <1>3 DEF Later
  <2>2. Later(c, option)
    BY <1>1, <1>3, <1>5, <2>1, LaterTransitive
  <2>3. Later(c, created)
    BY <1>1, <1>5, <1>6, <2>2, LaterTransitive
  <2>4. Later(c, done)
    BY <1>1, <1>6, <1>7, <2>3, LaterTransitive
  <2> QED BY <1>1, <1>7, <1>8, <2>4, LaterTransitive
<1> QED BY <1>2, <1>3, <1>5, <1>6, <1>7, <1>8, <1>9
        DEF PlanRecovery, d, done, created, option, drafted, asked

\* resume: planning after an answered request gives a sound context.
LEMMA ResumeSound ==
  ASSUME NEW f \in Facts, NEW c, Sound(f, c), c.stage = "awaiting_human_decision",
         OnsiteRequest \in DecidedIds(c)
  PROVE  LET d == PlanRecovery(LeaveHumanGate(c))
         IN  Sound(f, d) /\ Later(c, d) /\ d.stage = "awaiting_final_approval"
<1> DEFINE left == LeaveHumanGate(c)
           d    == PlanRecovery(left)
<1>1. /\ InPlanning(left) /\ DecidedOnce(left) /\ Truthful(left) /\ Later(c, left)
      /\ left.selections = c.selections
  BY LeaveSound
<1> HIDE DEF left
<1>2. left \in Contexts /\ c \in Contexts /\ c.selections = SelectExperts(f)
  BY <1>1 DEF InPlanning, Sound
<1>3. d \in Contexts /\ GateShape(d)
  BY <1>1, PlanRecoveryShape
<1>4. /\ Later(left, d) /\ d.stage = "awaiting_final_approval"
      /\ d.decisions = left.decisions /\ d.selections = left.selections
  BY <1>1, PlanLater
<1>5. Truthful(d)
  BY <1>1, <1>2, PlanTruthful
<1> HIDE DEF d
<1>6. Later(c, d)
  BY <1>1, <1>2, <1>3, <1>4, LaterTransitive
<1>7. DecidedOnce(d)
  BY <1>1, <1>4 DEF DecidedOnce
<1>8. Sound(f, d)
  BY <1>1, <1>2, <1>3, <1>4, <1>5, <1>7 DEF Sound, PlannedStages
<1> QED BY <1>4, <1>6, <1>8 DEF d, left

\* A sound context that may be resumed waits with its request decided.
LEMMA ResumeDecided ==
  ASSUME NEW f, NEW c, Sound(f, c), CanResume(c)
  PROVE  c.stage = "awaiting_human_decision" /\ OnsiteRequest \in DecidedIds(c)
<1>1. c \in Contexts /\ GateShape(c) /\ c.stage = "awaiting_human_decision"
  BY DEF Sound, CanResume
<1>2. LastPending(c) = OnsiteRequest
  BY <1>1, AnswerGate
<1> QED BY <1>1, <1>2 DEF CanResume

(* What the final approval is recorded as.                                 *)
Approval(actor) == [request |-> FinalRequest, outcome |-> "approved", by |-> actor]

\* approve: a final approval gives a sound context, the case completed.
LEMMA ApproveSound ==
  ASSUME NEW f \in Facts, NEW c, Sound(f, c), CanApprove(c), NEW actor \in Actors
  PROVE  LET d == ApproveFinal(c, actor)
         IN  /\ Sound(f, d) /\ Later(c, d) /\ d.stage = "completed"
             /\ d.decisions = Append(c.decisions, Approval(actor))
<1> DEFINE approval  == Approval(actor)
           added     == [c EXCEPT !.decisions = Append(@, approval)]
           approved  == Record(added, "final_approval_recorded", "workflow")
           advice    == [c.draft EXCEPT !.status = "authorized", !.approval = "approved"]
           advised   == [approved EXCEPT !.final = advice]
           finalized == Record(advised, "final_recommendation_created", "RecoveryPlanner")
           moved     == Transition(finalized, "completed")
           d         == Record(moved, "case_completed", "workflow")
<1>1. /\ c \in Contexts /\ GateShape(c) /\ DecidedOnce(c) /\ Truthful(c)
      /\ c.stage = "awaiting_final_approval" /\ c.selections = SelectExperts(f)
  BY DEF Sound, CanApprove
<1>2. approval \in Decisions /\ approval.request = FinalRequest
  BY DEF Decisions, Outcomes, Approval
<1>3. d = ApproveFinal(c, actor)
  BY DEF ApproveFinal, Approval
<1>4. d \in Contexts /\ GateShape(d)
  <2> HIDE DEF d
  <2> QED BY <1>1, <1>3, ApproveFinalShape
<1> HIDE DEF approval
<1>5. FinalRequest \notin DecidedIds(c)
  BY <1>1 DEF GateShape
<1>6. /\ added \in Contexts
      /\ added.requests = c.requests /\ added.findings = c.findings
      /\ added.events = c.events /\ added.selections = c.selections
      /\ added.decisions = Append(c.decisions, approval)
  <2>1. Append(c.decisions, approval) \in Seq(Decisions)
    BY <1>1, <1>2, ContextSequences
  <2> QED BY <1>1, <2>1 DEF Contexts
<1>7. Later(c, added) /\ Balanced(added, "workflow")
  <2>1. Continues(c.events, c.events)
    BY <1>1, ContextSequences, ContinuesSelf
  <2> QED BY <1>1, <1>6, <2>1, BalancedSame DEF Truthful, Later
<1> HIDE DEF added
<1>8. /\ "final_approval_recorded" \in EventTypes
      /\ "final_recommendation_created" \in EventTypes
      /\ "case_completed" \in EventTypes
      /\ "workflow" \in Subjects /\ "RecoveryPlanner" \in Subjects
      /\ "completed" \in Stages
      /\ "expert_execution_completed" \notin
           {"final_approval_recorded", "final_recommendation_created", "case_completed"}
  BY EventNames DEF Stages
<1>9. /\ approved \in Contexts /\ Later(added, approved)
      /\ approved.decisions = added.decisions /\ approved.selections = added.selections
  BY <1>6, <1>8, LaterRecord, RecordFrame DEF SameGovernance
<1>10. Balanced(approved, "workflow")
  BY <1>6, <1>7, <1>8, BalancedNote
<1> HIDE DEF approved
<1>11. advice \in Recommendations
  <2>1. c.draft \in Recommendations
    BY <1>1 DEF Contexts
  <2> QED BY <2>1 DEF Recommendations
<1> HIDE DEF advice
<1>12. /\ advised \in Contexts
       /\ advised.requests = approved.requests /\ advised.findings = approved.findings
       /\ advised.events = approved.events /\ advised.selections = approved.selections
       /\ advised.decisions = approved.decisions
  BY <1>9, <1>11 DEF Contexts
<1> HIDE DEF advised
<1>13. Later(approved, advised) /\ Balanced(advised, "workflow")
  <2>1. Continues(approved.events, approved.events)
    BY <1>9, ContextSequences, ContinuesSelf
  <2> QED BY <1>10, <1>12, <2>1, BalancedSame DEF Later
<1>14. /\ finalized \in Contexts /\ Later(advised, finalized)
       /\ finalized.decisions = advised.decisions /\ finalized.selections = advised.selections
  BY <1>8, <1>12, LaterRecord, RecordFrame DEF SameGovernance
<1>15. Balanced(finalized, "workflow")
  BY <1>8, <1>12, <1>13, BalancedNote
<1> HIDE DEF finalized
<1>16. /\ moved \in Contexts /\ Later(finalized, moved) /\ moved.stage = "completed"
       /\ moved.decisions = finalized.decisions /\ moved.selections = finalized.selections
  BY <1>8, <1>14, LaterTransition, TransitionType, TransitionFrame DEF SameGovernance
<1>17. Balanced(moved, "workflow")
  BY <1>8, <1>14, <1>15, BalancedMove
<1> HIDE DEF moved
<1>18. /\ Later(moved, d) /\ d.stage = moved.stage
       /\ d.decisions = moved.decisions /\ d.selections = moved.selections
  BY <1>8, <1>16, LaterRecord, RecordFrame DEF SameGovernance
<1>19. Truthful(d)
  BY <1>8, <1>16, <1>17, BalancedNote DEF Truthful
<1> HIDE DEF d
<1>20. Later(c, d)
  <2>1. Later(c, approved)
    BY <1>1, <1>6, <1>7, <1>9, LaterTransitive
  <2>2. Later(c, advised)
    BY <1>1, <1>9, <1>12, <1>13, <2>1, LaterTransitive
  <2>3. Later(c, finalized)
    BY <1>1, <1>12, <1>14, <2>2, LaterTransitive
  <2>4. Later(c, moved)
    BY <1>1, <1>14, <1>16, <2>3, LaterTransitive
  <2> QED BY <1>1, <1>4, <1>16, <1>18, <2>4, LaterTransitive
<1>21. d.decisions = Append(c.decisions, approval)
  BY <1>6, <1>9, <1>12, <1>14, <1>16, <1>18
<1>22. DecidedOnce(d)
  BY <1>1, <1>2, <1>4, <1>5, <1>21, DecidedOnceAppend
<1>23. d.stage = "completed" /\ d.selections = c.selections
  BY <1>6, <1>9, <1>12, <1>14, <1>16, <1>18
<1>24. Sound(f, d)
  BY <1>1, <1>4, <1>19, <1>23, <1>22 DEF Sound, PlannedStages
<1> QED BY <1>3, <1>20, <1>21, <1>23, <1>24 DEF approval

\* A sound case that waits with nothing decided can be decided.
LEMMA StartedDecidable ==
  ASSUME NEW f \in Facts, NEW c, Sound(f, c), c.stage = "awaiting_human_decision",
         c.decisions = <<>>, NEW actor \in Actors
  PROVE  CanRecordDecision(c, Confirmation(actor))
<1>1. c.humanRequests = Gate("pending")
  BY DEF Sound, GateShape
<1>2. OnsiteRequest \in PendingIds(c)
  BY <1>1 DEF PendingIds, Pending, Gate
<1>3. DecidedIds(c) = {}
  BY DEF DecidedIds
<1>4. Confirmation(actor).request = OnsiteRequest
  BY DEF Confirmation
<1> QED BY <1>2, <1>3, <1>4 DEF CanRecordDecision

\* run: the whole workflow, its two decisions simulated, gives a sound context.
LEMMA RanSound ==
  ASSUME NEW f \in Facts, ~f.issues, NEW decider \in Actors, NEW approver \in Actors
  PROVE  Sound(f, RanToEnd(Started(f), decider, approver))
<1> DEFINE c       == Started(f)
           decided == RecordHumanDecision(c, Confirmation(decider))
           planned == PlanRecovery(LeaveHumanGate(decided))
<1>1. Sound(f, c)
  BY StartedSound
<1>2. c.decisions = <<>>
  BY StartedSound
<1> HIDE DEF c
<1>3. CASE c.stage = "awaiting_human_decision"
  <2>1. CanRecordDecision(c, Confirmation(decider))
    BY <1>1, <1>2, <1>3, StartedDecidable
  <2>2. /\ Sound(f, decided) /\ decided.stage = "awaiting_human_decision"
        /\ OnsiteRequest \in DecidedIds(decided)
    BY <1>1, <2>1, DecideSound
  <2> HIDE DEF decided
  <2>3. Sound(f, planned) /\ planned.stage = "awaiting_final_approval"
    BY <2>2, ResumeSound
  <2> HIDE DEF planned
  <2>4. Sound(f, ApproveFinal(planned, approver))
    BY <2>3, ApproveSound DEF CanApprove
  <2> QED BY <1>3, <2>4 DEF RanToEnd, planned, decided, c
<1>4. CASE c.stage # "awaiting_human_decision"
  BY <1>1, <1>4 DEF RanToEnd, c
<1> QED BY <1>3, <1>4
=============================================================================
