----------------------- MODULE SynthesisHandoff_proofs -----------------------
(***************************************************************************)
(* Proofs about the way from the responses to the final answer and its     *)
(* grade, for every case, order of specialists, response, audit and        *)
(* answer.  The grade comes first: what full marks mean, for every answer  *)
(* and every set of known records.                                         *)
(***************************************************************************)
EXTENDS SynthesisHandoff, FiniteSetTheorems, WellFoundedInduction, TLAPS

-----------------------------------------------------------------------------
(* Shares *)

\* A share is whole exactly when the part is all of a finite set.
LEMMA WholeShare ==
  ASSUME NEW set, IsFiniteSet(set), NEW part, part \subseteq set
  PROVE  Whole(Share(part, set)) <=> part = set
<1>1. Whole(Share(part, set)) <=> Cardinality(part) = Cardinality(set)
  BY DEF Whole, Share
<1>2. ASSUME Cardinality(part) = Cardinality(set)
      PROVE  part = set
  BY <1>2, FS_Subset
<1> QED BY <1>1, <1>2

\* The mentions of records of the case.
Valid(cited, known) == {mention \in cited : mention[1] \in known}

\* A claim's precision is whole exactly when it cites something, and records of
\* the case only, however often (_citation_assessment).
LEMMA WholePrecision ==
  ASSUME NEW cited, IsFiniteSet(cited), NEW known
  PROVE  Whole(Precision(cited, known)) <=> cited # {} /\ RecordsOf(cited) \subseteq known
<1>1. CASE cited = {}
  BY <1>1 DEF Whole, Precision
<1>2. CASE cited # {}
  <2>1. Precision(cited, known) = Share(Valid(cited, known), cited)
    BY <1>2 DEF Precision, Valid
  <2>2. Whole(Share(Valid(cited, known), cited)) <=> Valid(cited, known) = cited
    BY WholeShare DEF Valid
  <2>3. Valid(cited, known) = cited <=> RecordsOf(cited) \subseteq known
    BY DEF Valid, RecordsOf
  <2> QED BY <1>2, <2>1, <2>2, <2>3
<1> QED BY <1>1, <1>2

\* The records a claim requires are a finite set and not none.
LEMMA RequirementsFinite ==
  ASSUME NEW c \in Claims
  PROVE  IsFiniteSet(CLAIM_REQUIREMENTS[c]) /\ CLAIM_REQUIREMENTS[c] # {}
<1>1. CLAIM_REQUIREMENTS[c] \subseteq RequiredRecords /\ CLAIM_REQUIREMENTS[c] # {}
  BY DEF Claims, CLAIM_REQUIREMENTS, RequiredRecords, OnsiteRecords
<1>2. CLAIM_REQUIREMENTS[c] \subseteq Records
  BY <1>1, RecordsAssumption
<1> QED BY <1>1, <1>2, RecordsAssumption, FS_Subset

\* The citations of an answer for a claim are a finite set of mentions.
LEMMA CitationsFinite ==
  ASSUME NEW answer \in Answers, NEW c \in Claims
  PROVE  /\ IsFiniteSet(answer.citations[c])
         /\ answer.citations[c] \subseteq Records \X (Nat \ {0})
         /\ RecordsOf(answer.citations[c]) \subseteq Records
<1>1. answer.citations[c] \in Mentions
  BY DEF Answers
<1> QED BY <1>1 DEF Mentions, RecordsOf

\* A list that mentions each of some records once mentions these and no others,
\* none twice, and is finite if they are.
LEMMA OnceMentions ==
  ASSUME NEW records
  PROVE  /\ RecordsOf(Once(records)) = records
         /\ \A known : Valid(Once(records), known) = Once(records \cap known)
         /\ IsFiniteSet(records) => IsFiniteSet(Once(records))
         /\ (IsFiniteSet(records) /\ records \subseteq Records) => Once(records) \in Mentions
<1>1. RecordsOf(Once(records)) = records
  <2>1. \A record \in records : <<record, 1>> \in Once(records) /\ <<record, 1>>[1] = record
    BY DEF Once
  <2>2. \A mention \in Once(records) : mention[1] \in records
    BY DEF Once
  <2> QED BY <2>1, <2>2 DEF RecordsOf
<1>2. \A known : Valid(Once(records), known) = Once(records \cap known)
  BY DEF Valid, Once
<1>3. ASSUME IsFiniteSet(records)
      PROVE  IsFiniteSet(Once(records))
  <2>1. IsFiniteSet({1})
    BY FS_Singleton
  <2> QED BY <1>3, <2>1, FS_Product DEF Once
<1>4. records \subseteq Records => Once(records) \subseteq Records \X (Nat \ {0})
  BY DEF Once
<1> QED BY <1>1, <1>2, <1>3, <1>4 DEF Mentions

\* A claim's recall is whole exactly when its required records are cited and
\* known.
LEMMA WholeRecall ==
  ASSUME NEW c \in Claims, NEW cited, NEW known
  PROVE  Whole(Recall(c, cited, known)) <=>
           CLAIM_REQUIREMENTS[c] \subseteq RecordsOf(cited) \cap known
<1> DEFINE required == CLAIM_REQUIREMENTS[c]
<1>1. IsFiniteSet(required)
  BY RequirementsFinite
<1>2. Recall(c, cited, known) = Share(RecordsOf(cited) \cap known \cap required, required)
  BY DEF Recall
<1> HIDE DEF required
<1>3. Whole(Share(RecordsOf(cited) \cap known \cap required, required)) <=>
        RecordsOf(cited) \cap known \cap required = required
  BY <1>1, WholeShare
<1> QED BY <1>2, <1>3 DEF required

-----------------------------------------------------------------------------
(* The metrics *)

\* Every claim is in one of the lists of claims the metrics are computed from.
LEMMA ClaimsCovered == Claims = Facts \cup Monetary \cup {"projected_slip_days"}
  BY DEF Claims, CLAIM_REQUIREMENTS, Facts, Monetary, Preferred

\* A claim is correct exactly when it has the expected value in a valid answer
\* that does not take it back (_claim_status).
LEMMA CorrectClaim ==
  ASSUME NEW answer \in Answers, NEW c \in Claims
  PROVE  ClaimStatus(answer, c) = "correct" <=>
           /\ answer.valid /\ c \notin answer.unsupported \cup answer.ambiguous
           /\ answer.values[c] = "right"
  BY DEF ClaimStatus, Answers

\* An answer passes every metric exactly when it is faultless, whatever it
\* claims and cites and whichever records the case has: no claim is left out of
\* the metrics, and no metric asks for more (evaluate_model_result).
THEOREM FullMarksMeanFaultless ==
  ASSUME NEW answer \in Answers, NEW known
  PROVE  FullMarks(Evaluated(answer, known)) <=> Faultless(answer, known)
<1> DEFINE correct     == {c \in Claims : ClaimStatus(answer, c) = "correct"}
           unsupported == {c \in Claims : ClaimStatus(answer, c) = "unsupported"}
           precision   == [c \in Claims |-> Precision(Cited(answer, c), known)]
           recall      == [c \in Claims |-> Recall(c, Cited(answer, c), known)]
           assertion   == AssertionStatus(answer)
           passed      == Passed(answer, precision, recall)
<1>1. FullMarks(Evaluated(answer, known)) <=> \A metric \in DOMAIN passed : passed[metric]
  BY DEF FullMarks, Evaluated
<1>2. (\A metric \in DOMAIN passed : passed[metric]) <=>
        /\ Facts \subseteq correct /\ assertion = "correct"
        /\ Monetary \subseteq correct
        /\ "projected_slip_days" \in correct
        /\ \A c \in Claims : Whole(precision[c])
        /\ \A c \in Claims : Whole(recall[c])
        /\ ContradictionFound(answer)
        /\ unsupported = {} /\ assertion # "unsupported"
        /\ "human_confirmation_required" \in correct
        /\ Preferred \subseteq correct
        /\ answer.valid
  <2> HIDE DEF precision, recall
  <2> DEFINE marks == <<Facts \subseteq correct /\ assertion = "correct",
                        Monetary \subseteq correct,
                        "projected_slip_days" \in correct,
                        \A c \in Claims : Whole(precision[c]),
                        \A c \in Claims : Whole(recall[c]),
                        ContradictionFound(answer),
                        unsupported = {} /\ assertion # "unsupported",
                        "human_confirmation_required" \in correct,
                        Preferred \subseteq correct,
                        answer.valid>>
  <2>1. passed = [required_fact_accuracy        |-> marks[1],
                  monetary_calculation_accuracy |-> marks[2],
                  schedule_impact_accuracy      |-> marks[3],
                  evidence_citation_precision   |-> marks[4],
                  evidence_citation_recall      |-> marks[5],
                  contradiction_detection       |-> marks[6],
                  unsupported_claim_count       |-> marks[7],
                  correct_human_escalation      |-> marks[8],
                  preferred_recovery_option     |-> marks[9],
                  schema_valid_response_rate    |-> marks[10]]
    BY DEF Passed
  <2> HIDE DEF marks, passed
  <2>2. (\A metric \in DOMAIN passed : passed[metric]) <=>
          /\ marks[1] /\ marks[2] /\ marks[3] /\ marks[4] /\ marks[5]
          /\ marks[6] /\ marks[7] /\ marks[8] /\ marks[9] /\ marks[10]
    BY <2>1
  <2> QED BY <2>2 DEF marks
<1>3. Claims \subseteq correct <=>
        Facts \subseteq correct /\ Monetary \subseteq correct /\ "projected_slip_days" \in correct
  BY ClaimsCovered
<1>4. Claims \subseteq correct <=>
        \A c \in Claims : /\ answer.valid /\ c \notin answer.unsupported \cup answer.ambiguous
                          /\ answer.values[c] = "right"
  BY CorrectClaim
<1>5. ASSUME answer.valid, NEW c \in Claims
      PROVE  (Whole(precision[c]) /\ Whole(recall[c])) <=>
               /\ CLAIM_REQUIREMENTS[c] \subseteq RecordsOf(answer.citations[c])
               /\ RecordsOf(answer.citations[c]) \subseteq known
  <2>1. precision[c] = Precision(answer.citations[c], known)
    BY <1>5 DEF Cited
  <2>2. recall[c] = Recall(c, answer.citations[c], known)
    BY <1>5 DEF Cited
  <2>3. Whole(precision[c]) <=>
          answer.citations[c] # {} /\ RecordsOf(answer.citations[c]) \subseteq known
    BY <2>1, WholePrecision, CitationsFinite
  <2>4. Whole(recall[c]) <=> CLAIM_REQUIREMENTS[c] \subseteq RecordsOf(answer.citations[c]) \cap known
    BY <2>2, WholeRecall
  <2>5. CLAIM_REQUIREMENTS[c] # {} /\ RecordsOf({}) = {}
    BY RequirementsFinite DEF RecordsOf
  <2> HIDE DEF precision, recall
  <2> QED BY <2>3, <2>4, <2>5
<1>6. ASSUME answer.valid, Claims \subseteq correct
      PROVE  /\ assertion = "correct" <=> ~answer.asserted
             /\ ContradictionFound(answer)
             /\ unsupported = {}
             /\ "human_confirmation_required" \in correct
             /\ Preferred \subseteq correct
  <2>1. assertion = "correct" <=> ~answer.asserted
    BY <1>6 DEF AssertionStatus, Answers
  <2>2. {"onsite_status_contradiction_detected", "human_confirmation_required"} \cup Preferred
          \subseteq Claims
    BY ClaimsCovered DEF Facts
  <2>3. ContradictionFound(answer)
    BY <1>4, <1>6, <2>2 DEF ContradictionFound
  <2>4. unsupported = {}
    BY <1>6
  <2> QED BY <1>6, <2>1, <2>2, <2>3, <2>4
<1>7. Faultless(answer, known) <=>
        /\ answer.valid /\ ~answer.asserted /\ Claims \subseteq correct
        /\ \A c \in Claims : /\ CLAIM_REQUIREMENTS[c] \subseteq RecordsOf(answer.citations[c])
                            /\ RecordsOf(answer.citations[c]) \subseteq known
  <2>1. (\A c \in Claims : c \notin answer.unsupported \cup answer.ambiguous) <=>
          (answer.unsupported \cup answer.ambiguous) \cap Claims = {}
    OBVIOUS
  <2> HIDE DEF correct
  <2> QED BY <1>4, <2>1 DEF Faultless
<1> HIDE DEF correct, unsupported, precision, recall, passed
<1>8. CASE answer.valid /\ Claims \subseteq correct
  <2>1. (\A metric \in DOMAIN passed : passed[metric]) <=>
          assertion = "correct" /\ \A c \in Claims : Whole(precision[c]) /\ Whole(recall[c])
    BY <1>2, <1>3, <1>6, <1>8
  <2>2. (\A c \in Claims : Whole(precision[c]) /\ Whole(recall[c])) <=>
          \A c \in Claims : /\ CLAIM_REQUIREMENTS[c] \subseteq RecordsOf(answer.citations[c])
                           /\ RecordsOf(answer.citations[c]) \subseteq known
    BY <1>5, <1>8
  <2> QED BY <1>1, <1>6, <1>7, <1>8, <2>1, <2>2
<1>9. CASE ~(answer.valid /\ Claims \subseteq correct)
  BY <1>1, <1>2, <1>3, <1>7, <1>9
<1> QED BY <1>8, <1>9

-----------------------------------------------------------------------------
(* The citations of the final answer *)

\* The merge and the evaluator know the same claims.
LEMMA SameFields == FinalFields = Claims
  BY DEF FinalFields, FINAL_CITATION_REQUIREMENTS, Claims, CLAIM_REQUIREMENTS

\* What the merge may add to a field are records the evaluator knows by name.
LEMMA FinalRequirementsKnown ==
  ASSUME NEW field \in Claims
  PROVE  FINAL_CITATION_REQUIREMENTS[field] \subseteq Records
<1>1. FINAL_CITATION_REQUIREMENTS[field] \subseteq RequiredRecords
  BY DEF Claims, CLAIM_REQUIREMENTS, FINAL_CITATION_REQUIREMENTS, RequiredRecords, OnsiteRecords
<1> QED BY <1>1, RecordsAssumption

\* What the merge adds to a field of an answer with such values.
Selected(answer, findings, c) ==
  IF c \in Answered(answer)
    THEN FINAL_CITATION_REQUIREMENTS[c] \cap UNION {f.citations : f \in findings} ELSE {}

\* A field to which nothing is added stays as it is; another one mentions what it
\* mentioned, and what is added, once.
LEMMA MergedField ==
  ASSUME NEW answer, NEW findings, NEW c \in Claims
  PROVE  MergedCitations(answer, findings)[c] =
           LET selected == Selected(answer, findings, c)
           IN  IF selected = {} THEN answer.citations[c]
               ELSE Once(RecordsOf(answer.citations[c]) \cup selected)
<1> DEFINE available == UNION {f.citations : f \in findings}
           required  == FINAL_CITATION_REQUIREMENTS[c]
<1>1. MergedCitations(answer, findings)[c] =
        IF c \in Answered(answer) /\ required \cap available # {}
          THEN Once(RecordsOf(answer.citations[c]) \cup (required \cap available))
          ELSE answer.citations[c]
  BY SameFields DEF MergedCitations
<1>2. Selected(answer, findings, c) = IF c \in Answered(answer) THEN required \cap available ELSE {}
  BY DEF Selected
<1> HIDE DEF available, required
<1> QED BY <1>1, <1>2

\* What is added are finitely many records of the names the evaluator knows.
LEMMA SelectedFinite ==
  ASSUME NEW answer, NEW findings, NEW c \in Claims
  PROVE  /\ Selected(answer, findings, c) \subseteq FINAL_CITATION_REQUIREMENTS[c]
         /\ Selected(answer, findings, c) \subseteq Records
         /\ IsFiniteSet(Selected(answer, findings, c))
<1>1. Selected(answer, findings, c) \subseteq FINAL_CITATION_REQUIREMENTS[c]
  BY DEF Selected
<1> QED BY <1>1, FinalRequirementsKnown, RecordsAssumption, FS_Subset

\* An answer stays an answer when its citations are merged.
LEMMA MergedType ==
  ASSUME NEW answer \in Answers, NEW findings
  PROVE  Merged(answer, findings) \in Answers
<1> DEFINE citations == MergedCitations(answer, findings)
<1>1. CASE answer.evaluable
  <2>1. ASSUME NEW c \in Claims
        PROVE  citations[c] \in Mentions
    <3> DEFINE selected == Selected(answer, findings, c)
               all      == RecordsOf(answer.citations[c]) \cup selected
    <3>1. answer.citations[c] \in Mentions
      BY DEF Answers
    <3>2. all \subseteq Records
      BY CitationsFinite, SelectedFinite
    <3>3. IsFiniteSet(all)
      BY <3>2, RecordsAssumption, FS_Subset
    <3>4. citations[c] = IF selected = {} THEN answer.citations[c] ELSE Once(all)
      BY MergedField
    <3> HIDE DEF citations, selected, all
    <3> QED BY <3>1, <3>2, <3>3, <3>4, OnceMentions
  <2>2. citations = [c \in Claims |-> citations[c]]
    BY SameFields DEF MergedCitations
  <2> HIDE DEF citations
  <2>3. citations \in [Claims -> Mentions]
    BY <2>1, <2>2
  <2>4. [answer EXCEPT !.citations = citations] \in Answers
    BY <2>3 DEF Answers
  <2> QED BY <1>1, <2>4 DEF Merged, citations
<1>2. CASE ~answer.evaluable
  BY <1>2 DEF Merged
<1> QED BY <1>1, <1>2 DEF Answers

\* Merging once more with the same findings changes nothing: neither which
\* fields are answered nor what the findings cite has changed.
LEMMA MergeTwice ==
  ASSUME NEW answer \in Answers, NEW findings
  PROVE  Merged(Merged(answer, findings), findings) = Merged(answer, findings)
<1> DEFINE citations == MergedCitations(answer, findings)
           merged    == [answer EXCEPT !.citations = citations]
<1>1. CASE answer.evaluable
  <2>1. Merged(answer, findings) = merged
    BY <1>1 DEF Merged
  <2>2. /\ merged.evaluable /\ merged.values = answer.values
        /\ merged.citations = citations
        /\ [merged EXCEPT !.citations = citations] = merged
    BY <1>1 DEF Answers
  <2>3. Answered(merged) = Answered(answer)
    BY <2>2 DEF Answered
  <2> HIDE DEF merged
  <2>4. MergedCitations(merged, findings) = citations
    <3>1. ASSUME NEW c \in Claims
          PROVE  MergedCitations(merged, findings)[c] = citations[c]
      <4> DEFINE selected == Selected(answer, findings, c)
                 all      == RecordsOf(answer.citations[c]) \cup selected
      <4>1. Selected(merged, findings, c) = selected
        BY <2>3 DEF Selected
      <4>2. citations[c] = IF selected = {} THEN answer.citations[c] ELSE Once(all)
        BY MergedField
      <4>3. MergedCitations(merged, findings)[c] =
              IF selected = {} THEN citations[c] ELSE Once(RecordsOf(citations[c]) \cup selected)
        BY <2>2, <4>1, MergedField
      <4> HIDE DEF selected, citations
      <4>4. selected # {} => RecordsOf(citations[c]) \cup selected = all
        BY <4>2, OnceMentions
      <4> QED BY <4>2, <4>3, <4>4
    <3>2. /\ citations = [c \in Claims |-> citations[c]]
          /\ MergedCitations(merged, findings) = [c \in Claims |-> MergedCitations(merged, findings)[c]]
      BY SameFields DEF MergedCitations
    <3> HIDE DEF citations
    <3> QED BY <3>1, <3>2
  <2> HIDE DEF citations
  <2>5. Merged(merged, findings) = merged
    BY <2>2, <2>4 DEF Merged
  <2> QED BY <2>1, <2>5
<1>2. CASE ~answer.evaluable
  BY <1>2 DEF Merged
<1> QED BY <1>1, <1>2

-----------------------------------------------------------------------------
(* Full marks *)

\* Only an answer is graded, and the grade on record is its own.
GradeInv ==
  report.made =>
    /\ final \in Answers
    /\ report.grade = Evaluated(final, KnownRecords)

\* Whatever the specialists, the auditor and the planner answer, the final answer
\* gets full marks exactly when it is faultless.
THEOREM FullMarksAlwaysEarned == Spec => []FullMarksAreEarned
<1>1. Init => GradeInv
  BY DEF Init, GradeInv, NoReport
<1>2. GradeInv /\ [Next]_vars => GradeInv'
  <2> SUFFICES ASSUME GradeInv, [Next]_vars PROVE GradeInv'
    OBVIOUS
  <2>1. CASE PlannerAnswers
    <3>1. PICK answer \in Finals : final' = Merged(answer, Last(handoffs).validated)
      BY <2>1 DEF PlannerAnswers
    <3>2. answer \in Answers
      BY <3>1, FinalsAssumption
    <3>3. final' \in Answers
      BY <3>1, <3>2, MergedType
    <3>4. report' = Report(final')
      BY <2>1 DEF PlannerAnswers
    <3>5. report'.made => report'.grade = Evaluated(final', KnownRecords)
      BY <3>4 DEF Report, NoReport
    <3> QED BY <3>3, <3>5 DEF GradeInv
  <2>2. CASE SpecialistAnswers \/ Deliberate \/ Synthesize \/ ArbiterAnswers \/ Rebuild \/ UNCHANGED vars
    <3>1. final' = final /\ report' = report
      BY <2>2 DEF SpecialistAnswers, Deliberate, Synthesize, ArbiterAnswers, Rebuild, vars
    <3> QED BY <3>1 DEF GradeInv
  <2> QED BY <2>1, <2>2 DEF Next
<1>3. GradeInv => FullMarksAreEarned
  BY FullMarksMeanFaultless DEF GradeInv, FullMarksAreEarned
<1> QED BY <1>1, <1>2, <1>3, PTL DEF Spec

-----------------------------------------------------------------------------
(* The rebuild *)

PlannerHandoff == Handoff(checks, "RecoveryPlanner")

\* Each check is that of its invocation; the planner is given the handoff of all
\* of them, and nothing is checked or handed on after it answered.
ReplayInv ==
  /\ \E S : invocations \in Seq(S)
  /\ \E T : checks \in Seq(T)
  /\ Len(checks) = Len(invocations)
  /\ \A i \in DOMAIN invocations : checks[i] = Rerun(invocations[i])
  /\ phase = "arbitration" => \E handoff : handoffs = <<handoff>>
  /\ (phase = "planning" \/ final # NoFinal) => Last(handoffs) = PlannerHandoff
  /\ final # NoFinal =>
       /\ phase \in {"over", "rebuilt"}
       /\ \E answer \in Finals : final = Merged(answer, PlannerHandoff.validated)
       /\ report = Report(final)
  /\ phase = "rebuilt" =>
       /\ rebuilt.handoffs = <<PlannerHandoff>>
       /\ rebuilt.final = Merged(final, PlannerHandoff.validated)
       /\ rebuilt.report = Report(rebuilt.final)

LEMMA ReplayInvInit == Init => ReplayInv
<1> SUFFICES ASSUME Init PROVE ReplayInv
  OBVIOUS
<1>1. invocations \in Seq({}) /\ checks \in Seq({})
  BY DEF Init
<1> QED BY <1>1 DEF Init, ReplayInv

LEMMA ReplayInvStep == ReplayInv /\ [Next]_vars => ReplayInv'
<1> SUFFICES ASSUME ReplayInv, [Next]_vars PROVE ReplayInv'
  OBVIOUS
<1>1. checks' = checks => PlannerHandoff' = PlannerHandoff
  <2>1. contradicted' = contradicted
    BY DEF Next, SpecialistAnswers, Deliberate, Synthesize, ArbiterAnswers, PlannerAnswers,
           Rebuild, vars
  <2> QED BY <2>1 DEF PlannerHandoff, Handoff, AuthorizationState
<1>2. CASE SpecialistAnswers
  <2>1. PICK invocation : /\ invocations' = Append(invocations, invocation)
                          /\ checks' = Append(checks, Rerun(invocation))
    BY <1>2 DEF SpecialistAnswers, Rerun
  <2>2. PICK S : invocations \in Seq(S)
    BY DEF ReplayInv
  <2>3. PICK T : checks \in Seq(T)
    BY DEF ReplayInv
  <2>4. /\ invocations' \in Seq(S \cup {invocation})
        /\ checks' \in Seq(T \cup {Rerun(invocation)})
        /\ Len(checks') = Len(invocations')
    <3>1. invocations \in Seq(S \cup {invocation}) /\ checks \in Seq(T \cup {Rerun(invocation)})
      BY <2>2, <2>3
    <3> QED BY <2>1, <3>1 DEF ReplayInv
  <2>5. ASSUME NEW i \in DOMAIN invocations'
        PROVE  checks'[i] = Rerun(invocations'[i])
    BY <2>1, <2>2, <2>3 DEF ReplayInv
  <2>6. phase' \in {"stopped", "synthesis", "asking"} /\ final' = final /\ final = NoFinal
    BY <1>2 DEF SpecialistAnswers, ReplayInv
  <2> QED BY <2>4, <2>5, <2>6 DEF ReplayInv
<1>3. CASE Deliberate \/ Synthesize \/ ArbiterAnswers
  <2>1. UNCHANGED <<invocations, checks, final, rebuilt>> /\ final = NoFinal
    BY <1>3 DEF Deliberate, Synthesize, ArbiterAnswers, ReplayInv
  <2>2. phase' = "arbitration" => \E handoff : handoffs' = <<handoff>>
    BY <1>3 DEF Deliberate, Synthesize, ArbiterAnswers
  <2>3. phase' = "planning" => Last(handoffs') = PlannerHandoff
    <3>1. CASE Deliberate \/ Synthesize
      BY <3>1 DEF Deliberate, Synthesize, Last, PlannerHandoff
    <3>2. CASE ArbiterAnswers /\ phase' = "planning"
      <4>1. PICK handoff : handoffs = <<handoff>>
        BY <3>2 DEF ArbiterAnswers, ReplayInv
      <4>2. handoffs' = Append(<<handoff>>, PlannerHandoff)
        BY <3>2, <4>1 DEF ArbiterAnswers, PlannerHandoff
      <4> QED BY <4>2 DEF Last
    <3> QED BY <1>3, <3>1, <3>2
  <2>4. phase' # "rebuilt"
    BY <1>3 DEF Deliberate, Synthesize, ArbiterAnswers
  <2> QED BY <1>1, <2>1, <2>2, <2>3, <2>4 DEF ReplayInv
<1>4. CASE PlannerAnswers
  <2>1. /\ UNCHANGED <<invocations, checks, handoffs>> /\ Last(handoffs) = PlannerHandoff
        /\ phase' = "over" /\ report' = Report(final')
        /\ \E answer \in Finals : final' = Merged(answer, PlannerHandoff.validated)
    BY <1>4 DEF PlannerAnswers, ReplayInv
  <2> QED BY <1>1, <2>1 DEF ReplayInv
<1>5. CASE Rebuild
  <2>1. UNCHANGED <<invocations, checks, handoffs, final, report>> /\ phase' = "rebuilt"
    BY <1>5 DEF Rebuild
  <2>2. [i \in DOMAIN invocations |-> Rerun(invocations[i])] = checks
    BY DEF ReplayInv
  <2>3. rebuilt' = [handoffs |-> <<PlannerHandoff>>,
                    final    |-> Merged(final, PlannerHandoff.validated),
                    report   |-> Report(Merged(final, PlannerHandoff.validated))]
    BY <1>5, <2>2 DEF Rebuild, PlannerHandoff
  <2> QED BY <1>1, <2>1, <2>3 DEF ReplayInv
<1>6. CASE UNCHANGED vars
  BY <1>1, <1>6 DEF vars, ReplayInv
<1> QED BY <1>2, <1>3, <1>4, <1>5, <1>6 DEF Next

\* A diagnostic rebuild reproduces the run, for every case and whatever the
\* agents answered (rebuild_derived_artifacts): the recorded answer already has
\* the citations the rebuild merges into it.
THEOREM RebuildAlwaysReproduces == Spec => []RebuildReproduces
<1>1. ReplayInv => RebuildReproduces
  <2> SUFFICES ASSUME ReplayInv, phase = "rebuilt", final # NoFinal
               PROVE  /\ Last(rebuilt.handoffs) = Last(handoffs)
                      /\ rebuilt.final = final
                      /\ rebuilt.report = report
    BY DEF RebuildReproduces
  <2>1. Last(rebuilt.handoffs) = PlannerHandoff
    <3>1. rebuilt.handoffs = <<PlannerHandoff>>
      BY DEF ReplayInv
    <3> QED BY <3>1 DEF Last
  <2>2. PICK answer \in Finals : final = Merged(answer, PlannerHandoff.validated)
    BY DEF ReplayInv
  <2>3. Merged(final, PlannerHandoff.validated) = final
    BY <2>2, FinalsAssumption, MergeTwice
  <2> QED BY <2>1, <2>3 DEF ReplayInv
<1> QED BY <1>1, ReplayInvInit, ReplayInvStep, PTL DEF Spec

-----------------------------------------------------------------------------
(* What is handed on *)

\* Every handoff, of the run or of its rebuild, is made of the same checks, and
\* each specialist was asked in its place and once.
BuiltInv ==
  /\ ReplayInv
  /\ order \in Orders
  /\ Len(invocations) <= Len(order)
  /\ phase = "asking" => Len(invocations) < Len(order)
  /\ \A i \in DOMAIN invocations :
       /\ invocations[i].role = order[i]
       /\ order[i] = Auditor => invocations[i].response \in Audits
  /\ phase \in {"asking", "synthesis"} => handoffs = <<>>
  /\ phase # "rebuilt" => rebuilt.handoffs = <<>>
  /\ \A i \in DOMAIN handoffs : \E target : handoffs[i] = Handoff(checks, target)

LEMMA BuiltInvInit == Init => BuiltInv
<1> SUFFICES ASSUME Init PROVE BuiltInv
  OBVIOUS
<1>1. order \in Seq(Specialists) /\ order # <<>>
  BY OrdersAssumption DEF Init
<1>2. Len(order) > 0
  BY <1>1
<1> QED BY <1>2, ReplayInvInit DEF Init, BuiltInv, NotRebuilt

LEMMA BuiltInvStep == BuiltInv /\ [Next]_vars => BuiltInv'
<1> SUFFICES ASSUME BuiltInv, [Next]_vars PROVE BuiltInv'
  OBVIOUS
<1>1. ReplayInv'
  BY ReplayInvStep DEF BuiltInv
<1>2. order \in Orders /\ order' = order /\ contradicted' = contradicted
  BY DEF BuiltInv, Next, SpecialistAnswers, Deliberate, Synthesize, ArbiterAnswers,
         PlannerAnswers, Rebuild, vars
<1>3. \A target : checks' = checks => Handoff(checks, target)' = Handoff(checks, target)
  BY <1>2 DEF Handoff, AuthorizationState
<1>4. order \in Seq(Specialists)
  BY <1>2, OrdersAssumption
<1>5. CASE SpecialistAnswers
  <2>1. PICK invocation : /\ invocation.role = order[Len(invocations) + 1]
                          /\ invocation.role = Auditor => invocation.response \in Audits
                          /\ invocations' = Append(invocations, invocation)
                          /\ phase' \in {"stopped", "synthesis", "asking"}
                          /\ phase' = "asking" => Len(invocations') # Len(order)
    BY <1>5 DEF SpecialistAnswers
  <2>2. PICK S : invocations \in Seq(S)
    BY DEF BuiltInv, ReplayInv
  <2>3. /\ Len(invocations) < Len(order)
        /\ handoffs' = <<>> /\ rebuilt'.handoffs = <<>>
    BY <1>5 DEF SpecialistAnswers, BuiltInv
  <2>4. Len(invocations') = Len(invocations) + 1
    BY <2>1, <2>2
  <2>5. /\ Len(invocations') <= Len(order)
        /\ phase' = "asking" => Len(invocations') < Len(order)
    BY <1>4, <2>1, <2>2, <2>3, <2>4
  <2>6. \A i \in DOMAIN invocations' :
          /\ invocations'[i].role = order[i]
          /\ order[i] = Auditor => invocations'[i].response \in Audits
    BY <2>1, <2>2 DEF BuiltInv
  <2> QED BY <1>1, <1>2, <2>1, <2>3, <2>5, <2>6 DEF BuiltInv
<1>6. CASE Deliberate \/ Synthesize \/ ArbiterAnswers
  <2>1. /\ UNCHANGED <<invocations, checks, rebuilt>>
        /\ phase' \in {"arbitration", "planning", "stopped"} /\ rebuilt.handoffs = <<>>
    BY <1>6 DEF Deliberate, Synthesize, ArbiterAnswers, BuiltInv
  <2>2. \A i \in DOMAIN handoffs' : \E target : handoffs'[i] = Handoff(checks, target)
    <3>1. CASE Deliberate \/ Synthesize
      <4>1. \/ \E one : handoffs' = <<Handoff(checks, one)>>
            \/ \E one, two : handoffs' = <<Handoff(checks, one), Handoff(checks, two)>>
        BY <3>1 DEF Deliberate, Synthesize
      <4> QED BY <4>1
    <3>2. CASE ArbiterAnswers
      <4>1. PICK handoff : handoffs = <<handoff>>
        BY <3>2 DEF ArbiterAnswers, BuiltInv, ReplayInv
      <4>2. \E target : handoff = Handoff(checks, target)
        BY <4>1 DEF BuiltInv
      <4>3. \/ handoffs' = <<handoff, Handoff(checks, "RecoveryPlanner")>>
            \/ handoffs' = <<handoff>>
        BY <3>2, <4>1 DEF ArbiterAnswers
      <4> QED BY <4>2, <4>3
    <3> QED BY <1>6, <3>1, <3>2
  <2> QED BY <1>1, <1>2, <1>3, <2>1, <2>2 DEF BuiltInv
<1>7. CASE PlannerAnswers \/ Rebuild \/ UNCHANGED vars
  <2>1. UNCHANGED <<invocations, checks, handoffs>>
    BY <1>7 DEF PlannerAnswers, Rebuild, vars
  <2>2. /\ phase' = phase \/ phase' \in {"over", "rebuilt"}
        /\ phase' # "rebuilt" => phase # "rebuilt" /\ rebuilt' = rebuilt
    BY <1>7 DEF PlannerAnswers, Rebuild, vars
  <2> QED BY <1>1, <1>2, <1>3, <2>1, <2>2 DEF BuiltInv
<1> QED BY <1>5, <1>6, <1>7 DEF Next

\* Every handoff is one of the same checks.
LEMMA BuiltFromChecks ==
  ASSUME BuiltInv, NEW handoff \in Built
  PROVE  \E target : handoff = Handoff(checks, target)
<1>1. CASE handoff \in ToSet(handoffs)
  BY <1>1 DEF ToSet, BuiltInv
<1>2. CASE handoff \in ToSet(rebuilt.handoffs)
  <2>1. CASE phase = "rebuilt"
    <3>1. rebuilt.handoffs = <<PlannerHandoff>>
      BY <2>1 DEF BuiltInv, ReplayInv
    <3> QED BY <1>2, <3>1 DEF ToSet, PlannerHandoff
  <2>2. CASE phase # "rebuilt"
    <3>1. rebuilt.handoffs = <<>>
      BY <2>2 DEF BuiltInv
    <3> QED BY <1>2, <3>1 DEF ToSet
  <2> QED BY <2>1, <2>2
<1> QED BY <1>1, <1>2 DEF Built

\* What a handoff says comes from a check, and what is validated is what passed
\* every test there: the audit only adds reasons against a finding.
LEMMA ChecksHandedOn ==
  ASSUME BuiltInv, NEW target, NEW handoff, handoff = Handoff(checks, target)
  PROVE  /\ \A f \in handoff.validated : f.failing = {} /\
              \E i \in DOMAIN invocations : f \in Validated(invocations[i])
         /\ \A f \in handoff.validated \cup handoff.excluded :
              \E i \in DOMAIN invocations : \E g \in Validated(invocations[i]) :
                f.source = g.source /\ f.audits = g.audits /\ f.key = g.key
         /\ \A f \in handoff.validated : f.source # Auditor =>
              \A i \in DOMAIN invocations : \A g \in Validated(invocations[i]) :
                ~ /\ g.source = Auditor /\ g.support \in {"contradicted", "unsupported"}
                  /\ g.audits = f.source /\ g.key = f.key
<1> DEFINE all == UNION ToSet(checks)
           Overruled(f) ==
             f.source # Auditor /\ \E g \in all :
               /\ g.source = Auditor /\ g.support \in {"contradicted", "unsupported"}
               /\ g.audits = f.source /\ g.key = f.key
<1>1. /\ \A g \in all : \E i \in DOMAIN invocations : g \in Validated(invocations[i])
      /\ \A i \in DOMAIN invocations : \A g \in Validated(invocations[i]) : g \in all
  <2>1. DOMAIN checks = DOMAIN invocations
    BY DEF BuiltInv, ReplayInv
  <2> QED BY <2>1 DEF BuiltInv, ReplayInv, Rerun, ToSet
<1> HIDE DEF all
<1>2. \A f \in ExcludeAudited(all) : \E g \in all :
        \/ f = g /\ ~Overruled(g)
        \/ f = [g EXCEPT !.failing = @ \cup {"audit"}]
  BY DEF ExcludeAudited
<1>3. ASSUME NEW i \in DOMAIN invocations, NEW g \in Validated(invocations[i]),
             NEW f, f = g \/ f = [g EXCEPT !.failing = @ \cup {"audit"}]
      PROVE  /\ f.source = g.source /\ f.audits = g.audits /\ f.key = g.key
             /\ f # g => f.failing # {}
  BY <1>3 DEF Validated, AuditFindings, SpecialistFindings
<1>4. /\ handoff.validated = {f \in ExcludeAudited(all) : f.failing = {}}
      /\ handoff.validated \cup handoff.excluded = ExcludeAudited(all)
  BY DEF Handoff, all
<1>5. ASSUME NEW f \in ExcludeAudited(all)
      PROVE  /\ \E i \in DOMAIN invocations : \E g \in Validated(invocations[i]) :
                  /\ f.source = g.source /\ f.audits = g.audits /\ f.key = g.key
                  /\ f # g => f.failing # {}
             /\ f.failing = {} => ~Overruled(f)
  <2>1. PICK g \in all : \/ f = g /\ ~Overruled(g)
                         \/ f = [g EXCEPT !.failing = @ \cup {"audit"}]
    BY <1>2
  <2>2. PICK i \in DOMAIN invocations : g \in Validated(invocations[i])
    BY <1>1
  <2>3. /\ f.source = g.source /\ f.audits = g.audits /\ f.key = g.key
        /\ f # g => f.failing # {}
    BY <1>3, <2>1, <2>2
  <2>4. f = [g EXCEPT !.failing = @ \cup {"audit"}] => f.failing # {}
    BY <2>2 DEF Validated, AuditFindings, SpecialistFindings
  <2> HIDE DEF Overruled
  <2> QED BY <2>1, <2>2, <2>3, <2>4
<1>6. \A f \in handoff.validated : ~Overruled(f)
  BY <1>4, <1>5
<1>7. \A f \in handoff.validated : f.source # Auditor =>
        \A i \in DOMAIN invocations : \A g \in Validated(invocations[i]) :
          ~ /\ g.source = Auditor /\ g.support \in {"contradicted", "unsupported"}
            /\ g.audits = f.source /\ g.key = f.key
  BY <1>1, <1>6
<1> HIDE DEF Overruled
<1> QED BY <1>4, <1>5, <1>7

\* The same holds of every handoff of the run and of its rebuild.
LEMMA FindingsChecked ==
  ASSUME BuiltInv, NEW handoff \in Built
  PROVE  /\ \A f \in handoff.validated : f.failing = {} /\
              \E i \in DOMAIN invocations : f \in Validated(invocations[i])
         /\ \A f \in handoff.validated \cup handoff.excluded :
              \E i \in DOMAIN invocations : \E g \in Validated(invocations[i]) :
                f.source = g.source /\ f.audits = g.audits /\ f.key = g.key
         /\ \A f \in handoff.validated : f.source # Auditor =>
              \A i \in DOMAIN invocations : \A g \in Validated(invocations[i]) :
                ~ /\ g.source = Auditor /\ g.support \in {"contradicted", "unsupported"}
                  /\ g.audits = f.source /\ g.key = f.key
<1>1. PICK target : handoff = Handoff(checks, target)
  BY BuiltFromChecks
<1> QED BY <1>1, ChecksHandedOn

\* A finding of a specialist comes from that specialist's own invocation.
LEMMA OwnFindings ==
  ASSUME BuiltInv, NEW i \in DOMAIN invocations, NEW f \in Validated(invocations[i]),
         f.source # Auditor
  PROVE  invocations[i].role = f.source /\ f \in SpecialistFindings(invocations[i])
<1>1. CASE invocations[i].role = Auditor
  BY <1>1 DEF Validated, AuditFindings
<1>2. CASE invocations[i].role # Auditor
  <2>1. f \in SpecialistFindings(invocations[i])
    BY <1>2 DEF Validated
  <2> QED BY <2>1 DEF SpecialistFindings
<1> QED BY <1>1, <1>2

\* No two invocations are of one role.
LEMMA OneInvocationPerRole ==
  ASSUME BuiltInv, NEW i \in DOMAIN invocations, NEW j \in DOMAIN invocations,
         invocations[i].role = invocations[j].role
  PROVE  i = j
<1>1. order \in Seq(Specialists) /\ IsInjective(order)
  BY OrdersAssumption DEF BuiltInv
<1>2. DOMAIN invocations \subseteq DOMAIN order
  <2>1. PICK S : invocations \in Seq(S)
    BY DEF BuiltInv, ReplayInv
  <2> QED BY <1>1, <2>1 DEF BuiltInv
<1>3. order[i] = order[j]
  BY DEF BuiltInv
<1> QED BY <1>1, <1>2, <1>3 DEF IsInjective

\* Two values for one claim leave no finding for it, and a reason against every
\* other finding of the response (normalize_claims).
LEMMA ConflictExcludes ==
  ASSUME NEW invocation, invocation.status # "failed",
         NEW one \in DOMAIN invocation.response.claims,
         NEW other \in DOMAIN invocation.response.claims,
         Canonical(invocation.role, one) = Canonical(invocation.role, other),
         invocation.response.claims[one] # invocation.response.claims[other],
         NEW f \in SpecialistFindings(invocation)
  PROVE  f.key # Canonical(invocation.role, one) /\ f.failing # {}
<1> DEFINE role   == invocation.role
           raw    == invocation.response.claims
           claims == NormalizedClaims(role, raw)
           key    == Canonical(role, one)
<1>1. key \in Conflicts(role, raw)
  BY DEF Conflicts, CanonicalKeys, RawKeys
<1>2. DOMAIN claims = CanonicalKeys(role, raw) \ Conflicts(role, raw)
  BY DEF NormalizedClaims
<1>3. PICK k \in DOMAIN claims : f.key = k /\ f.failing = Failing(SpecialistTests(invocation, k))
  BY DEF SpecialistFindings, RawClaims
<1> HIDE DEF claims, key
<1>4. /\ "normalization" \in DOMAIN SpecialistTests(invocation, k)
      /\ SpecialistTests(invocation, k)["normalization"] <=> (Conflicts(role, raw) = {})
  BY DEF SpecialistTests, RawClaims
<1> HIDE DEF role, raw
<1>5. "normalization" \in f.failing
  BY <1>1, <1>3, <1>4 DEF Failing
<1> QED BY <1>1, <1>2, <1>3, <1>5 DEF key, role

\* No value is chosen silently, for every case, order of specialists, set of
\* responses and audit, in the run and in its rebuild.
THEOREM NothingChosenSilently == Spec => []NoSilentChoice
<1>1. BuiltInv => NoSilentChoice
  <2> SUFFICES
        ASSUME BuiltInv, NEW i \in DOMAIN invocations,
               invocations[i].role # Auditor, invocations[i].status # "failed",
               NEW one \in DOMAIN invocations[i].response.claims,
               NEW other \in DOMAIN invocations[i].response.claims,
               Canonical(invocations[i].role, one) = Canonical(invocations[i].role, other),
               invocations[i].response.claims[one] # invocations[i].response.claims[other],
               NEW handoff \in Built
        PROVE  /\ FindingOf(handoff, <<invocations[i].role, "nobody",
                                       Canonical(invocations[i].role, one)>>) = {}
               /\ \A f \in handoff.validated : f.source # invocations[i].role
    BY DEF NoSilentChoice
  <2>1. ASSUME NEW j \in DOMAIN invocations, NEW f \in Validated(invocations[j]),
               f.source = invocations[i].role
        PROVE  f.key # Canonical(invocations[i].role, one) /\ f.failing # {}
    <3>1. invocations[j].role = f.source /\ f \in SpecialistFindings(invocations[j])
      BY <2>1, OwnFindings
    <3>2. j = i
      BY <2>1, <3>1, OneInvocationPerRole
    <3> QED BY <3>1, <3>2, ConflictExcludes
  <2>2. \A f \in handoff.validated : f.source # invocations[i].role
    BY <2>1, FindingsChecked
  <2>3. \A f \in handoff.validated \cup handoff.excluded :
          f.source = invocations[i].role => f.key # Canonical(invocations[i].role, one)
    BY <2>1, FindingsChecked
  <2> QED BY <2>2, <2>3 DEF FindingOf
<1> QED BY <1>1, BuiltInvInit, BuiltInvStep, PTL DEF Spec

-----------------------------------------------------------------------------
(* Figures *)

\* The schedule validator lets no wrong integer through: the figures derived from
\* the movement are checked against the claimed movement, which is checked
\* itself (validate_schedule_semantics).  Of a number with a fraction it says
\* nothing, since _int_or_none reads it as no number at all.
LEMMA ScheduleFigures ==
  ASSUME NEW claims, NEW consistent, ScheduleValid(claims, consistent),
         NEW key \in DOMAIN claims, key \in AllowedKeys["ScheduleExpert"], claims[key] \in Int
  PROVE  claims[key] \in Truth(key)
<1> DEFINE movement == Read(claims, "delivery_movement_days")
           actual   == Figures["movement"]
<1>1. claims[key] \in Read(claims, key)
  BY DEF Read
<1>2. movement \subseteq {actual}
  BY DEF ScheduleValid
<1>3. (IF movement = {} THEN actual ELSE CHOOSE m \in movement : TRUE) = actual
  BY <1>2
<1> HIDE DEF movement, actual
<1>4. CASE key = "delivery_movement_days"
  BY <1>1, <1>2, <1>4 DEF Truth, movement, actual
<1>5. CASE key \in DOMAIN ScheduleExpected(actual)
  <2>1. Read(claims, key) \subseteq {ScheduleExpected(actual)[key]}
    BY <1>3, <1>5 DEF ScheduleValid, movement, actual
  <2>2. ScheduleExpected(actual)[key] \in Truth(key)
    BY <1>5 DEF Truth, actual
  <2> QED BY <1>1, <2>1, <2>2
<1>6. DOMAIN ScheduleExpected(0) = DOMAIN ScheduleExpected(actual)
  BY DEF ScheduleExpected
<1> QED BY <1>4, <1>5, <1>6 DEF AllowedKeys

\* The commercial validator lets no wrong claim through, but for a projected slip
\* beside a forecast one (validate_commercial_semantics).
LEMMA CommercialFigures ==
  ASSUME NEW claims, NEW consistent, NEW key \in DOMAIN claims,
         key \in AllowedKeys["CommercialExpert"],
         SemanticStatus("CommercialExpert", claims, consistent, key) # "failed"
  PROVE  claims[key] \in Truth(key) \/ key = "projected_milestone_slip_days"
<1>1. key \in DOMAIN CommercialExpected
  BY DEF AllowedKeys
<1>2. key \notin CommercialInvalid(claims)
  BY DEF SemanticStatus
<1>3. CASE key \in CommercialChecked(claims)
  <2>1. claims[key] = CommercialExpected[key]
    BY <1>2, <1>3 DEF CommercialInvalid, WrongFigures
  <2>2. CommercialExpected[key] \in Truth(key)
    BY <1>1 DEF Truth
  <2> QED BY <2>1, <2>2
<1>4. CASE key \notin CommercialChecked(claims)
  BY <1>1, <1>4 DEF CommercialChecked, SlipKey
<1> QED BY <1>3, <1>4

\* An integer a specialist states is handed on only when it is the case's figure,
\* for every case, response and order of specialists: the validators read the
\* records and not only whether the figures of a response agree with each other.
\* A commercial claim that is not an integer is not handed on either, but for a
\* projected slip beside a forecast one; a schedule claim that is not, a number
\* with a fraction among them, is outside this theorem.
THEOREM HandedOnFiguresRight == Spec => []EligibleFiguresRight
<1>1. BuiltInv => EligibleFiguresRight
  <2> SUFFICES
        ASSUME BuiltInv, NEW handoff \in Built, NEW f \in handoff.validated,
               f.source \in {"ScheduleExpert", "CommercialExpert"}
        PROVE  /\ (f.source = "ScheduleExpert" /\ f.value \in Int) => f.value \in Truth(f.key)
               /\ f.source = "CommercialExpert" =>
                    f.value \in Truth(f.key) \/ f.key = "projected_milestone_slip_days"
    BY DEF EligibleFiguresRight
  <2>1. PICK i \in DOMAIN invocations : f \in Validated(invocations[i])
    BY FindingsChecked
  <2>2. f.failing = {}
    BY FindingsChecked
  <2>3. invocations[i].role = f.source /\ f \in SpecialistFindings(invocations[i])
    BY <2>1, OwnFindings DEF Auditor
  <2> DEFINE claims == NormalizedClaims(f.source, RawClaims(invocations[i]))
             tests  == SpecialistTests(invocations[i], f.key)
  <2>4. /\ f.key \in DOMAIN claims /\ f.value = claims[f.key]
        /\ f.failing = Failing(tests)
    BY <2>3 DEF SpecialistFindings
  <2>5. /\ "role_scope" \in DOMAIN tests /\ "semantic" \in DOMAIN tests
        /\ tests["role_scope"] <=>
             RoleScopeValid(f.source, invocations[i].response, claims, invocations[i].selected)
        /\ tests["semantic"] <=>
             SemanticStatus(f.source, claims, invocations[i].response.consistent, f.key) # "failed"
    BY <2>3 DEF SpecialistTests
  <2> HIDE DEF claims, tests
  <2>6. /\ RoleScopeValid(f.source, invocations[i].response, claims, invocations[i].selected)
        /\ SemanticStatus(f.source, claims, invocations[i].response.consistent, f.key) # "failed"
    BY <2>2, <2>4, <2>5 DEF Failing
  <2>7. f.key \in AllowedKeys[f.source]
    BY <2>4, <2>6 DEF RoleScopeValid
  <2>8. ASSUME f.source = "ScheduleExpert", f.value \in Int
        PROVE  f.value \in Truth(f.key)
    <3>1. ScheduleValid(claims, invocations[i].response.consistent)
      BY <2>6, <2>8 DEF SemanticStatus
    <3> QED BY <2>4, <2>7, <2>8, <3>1, ScheduleFigures
  <2>9. ASSUME f.source = "CommercialExpert"
        PROVE  f.value \in Truth(f.key) \/ f.key = "projected_milestone_slip_days"
    BY <2>4, <2>6, <2>7, <2>9, CommercialFigures
  <2> QED BY <2>8, <2>9
<1> QED BY <1>1, BuiltInvInit, BuiltInvStep, PTL DEF Spec

-----------------------------------------------------------------------------
(* The audit and the gate *)

\* Of the assessments of one claim, which the auditor may name by several keys,
\* the last is kept.
LEMMA OneAssessmentKept ==
  ASSUME NEW assessments, assessments \in Seq(ToSet(assessments)),
         NEW i \in DOMAIN assessments
  PROVE  \E a \in KeptAssessments(assessments) : ClaimId(a) = ClaimId(assessments[i])
<1> DEFINE n     == Len(assessments)
           same  == {k \in DOMAIN assessments : ClaimId(assessments[k]) = ClaimId(assessments[i])}
           below == {n - k : k \in same}
<1>1. n \in Nat /\ DOMAIN assessments = 1..n
  OBVIOUS
<1> HIDE DEF n
<1>2. below \subseteq Nat /\ below # {}
  BY <1>1
<1> HIDE DEF below
<1>3. PICK x \in below : \A y \in below : ~(<<y, x>> \in OpToRel(<, Nat))
  BY <1>2, WFMin, NatLessThanWellFounded, Zenon
<1>4. \A y \in below : ~(y < x)
  BY <1>2, <1>3 DEF OpToRel
<1>5. PICK k \in same : x = n - k
  BY DEF below
<1>6. \A l \in same : n - l \in below
  BY DEF below
<1>7. \A l \in same : l <= k
  BY <1>1, <1>4, <1>5, <1>6
<1>8. assessments[k] \in KeptAssessments(assessments)
  BY <1>1, <1>7 DEF KeptAssessments
<1> QED BY <1>8

\* The audit is heeded, under whichever key the auditor names a claim.
THEOREM AuditAlwaysHeeded == Spec => []AuditHeeded
<1>1. BuiltInv => AuditHeeded
  <2> SUFFICES
        ASSUME BuiltInv, NEW j \in DOMAIN invocations, invocations[j].role = Auditor,
               NEW handoff \in Built, NEW f \in handoff.validated
        PROVE  /\ f.source = Auditor => f.support = "supported"
               /\ f.source # Auditor =>
                    LET about == {a \in ToSet(Assessments(invocations[j])) : Names(a, f.source, f.key)}
                    IN  about = {} \/ \E a \in about : a.support \notin {"contradicted", "unsupported"}
    BY DEF AuditHeeded, AuditResponses
  <2>1. PICK i \in DOMAIN invocations : f \in Validated(invocations[i])
    BY FindingsChecked
  <2>2. ASSUME f.source = Auditor
        PROVE  f.support = "supported"
    <3>1. f \in AuditFindings(invocations[i])
      BY <2>1, <2>2 DEF Validated, SpecialistFindings
    <3>2. PICK a : f.support = a.support /\ f.failing = Failing(AuditTests(invocations[i], a))
      BY <3>1 DEF AuditFindings
    <3>3. /\ "audit" \in DOMAIN AuditTests(invocations[i], a)
          /\ AuditTests(invocations[i], a)["audit"] <=> (a.support = "supported")
      BY DEF AuditTests
    <3>4. f.failing = {}
      BY FindingsChecked
    <3> QED BY <3>2, <3>3, <3>4 DEF Failing
  <2>3. ASSUME f.source # Auditor,
               NEW a \in ToSet(Assessments(invocations[j])), Names(a, f.source, f.key),
               \A b \in ToSet(Assessments(invocations[j])) :
                 Names(b, f.source, f.key) => b.support \in {"contradicted", "unsupported"}
        PROVE  FALSE
    <3> DEFINE assessments == Assessments(invocations[j])
    <3>1. assessments \in Seq(ToSet(assessments))
      <4>1. invocations[j].response \in Audits
        BY DEF BuiltInv
      <4>2. <<>> \in Seq(ToSet(<<>>))
        OBVIOUS
      <4> QED BY <4>1, <4>2, AuditsAssumption DEF Assessments
    <3> HIDE DEF assessments
    <3>2. PICK k \in DOMAIN assessments : a = assessments[k]
      BY DEF ToSet, assessments
    <3>3. PICK b \in KeptAssessments(assessments) : ClaimId(b) = ClaimId(a)
      BY <3>1, <3>2, OneAssessmentKept
    <3>4. b \in ToSet(assessments)
      BY DEF KeptAssessments, ToSet
    <3>5. b.agent = f.source /\ ClaimId(b)[2] = f.key /\ Names(b, f.source, f.key)
      BY <2>3, <3>3 DEF Names, ClaimId
    <3>6. PICK g \in Validated(invocations[j]) :
            /\ g.source = Auditor /\ g.support = b.support
            /\ g.audits = b.agent /\ g.key = ClaimId(b)[2]
      <4> DEFINE g == [source |-> Auditor, key |-> ClaimId(b)[2], value |-> b.observed,
                       citations |-> b.citations, audits |-> b.agent, support |-> b.support,
                       failing |-> Failing(AuditTests(invocations[j], b))]
      <4>1. g \in AuditFindings(invocations[j])
        BY DEF AuditFindings, assessments
      <4>2. g \in Validated(invocations[j])
        BY <2>3, <4>1 DEF Validated
      <4>3. /\ g.source = Auditor /\ g.support = b.support
            /\ g.audits = b.agent /\ g.key = ClaimId(b)[2]
        OBVIOUS
      <4> HIDE DEF g
      <4> QED BY <4>2, <4>3
    <3>7. b.support \in {"contradicted", "unsupported"}
      BY <2>3, <3>4, <3>5 DEF assessments
    <3> QED BY <2>3, <3>5, <3>6, <3>7, FindingsChecked
  <2> QED BY <2>2, <2>3
<1> QED BY <1>1, BuiltInvInit, BuiltInvStep, PTL DEF Spec

\* While the records of the case contradict each other nothing is ready for
\* authorization, whatever the agents answer, and what was excluded blocks
\* nothing (build_authorization_state).
THEOREM GateAlwaysHolds == Spec => []GateHolds
<1>1. BuiltInv => GateHolds
  <2> SUFFICES ASSUME BuiltInv, NEW handoff \in Built
               PROVE  (handoff.state.authorization = "blocked_pending_human_confirmation") <=>
                        (contradicted \/ ConflictReported(handoff.validated))
    BY DEF GateHolds, ConflictReported
  <2>1. PICK target : handoff = Handoff(checks, target)
    BY BuiltFromChecks
  <2>2. handoff.state = AuthorizationState(handoff.validated)
    BY <2>1 DEF Handoff
  <2> QED BY <2>2 DEF AuthorizationState
<1> QED BY <1>1, BuiltInvInit, BuiltInvStep, PTL DEF Spec

-----------------------------------------------------------------------------
(* Types *)

\* A specialist and an auditor are shown records of the case only, when those
\* asked before were (select_evidence_for_role).
LEMMA SelectedKnown ==
  ASSUME NEW role \in Specialists, NEW asked,
         \A i \in DOMAIN asked : asked[i].selected \subseteq KnownRecords
  PROVE  SelectedFor(role, asked) \subseteq KnownRecords
<1>1. \A r \in DOMAIN RoleRecords : RoleRecords[r] \subseteq KnownRecords
  BY DEF KnownRecords
<1>2. CASE role # Auditor
  <2>1. role \in DOMAIN RoleRecords
    BY <1>2 DEF Specialists, Auditor, RoleRecords
  <2> QED BY <1>1, <1>2, <2>1 DEF SelectedFor
<1>3. CASE role = Auditor
  <2>1. OnsiteRecords \subseteq KnownRecords
    BY DEF KnownRecords
  <2> HIDE DEF KnownRecords, OnsiteRecords
  <2> QED BY <1>3, <2>1 DEF SelectedFor
<1> QED BY <1>2, <1>3

\* A response of the auditor has its assessments in a list.
LEMMA AssessmentsListed ==
  ASSUME BuiltInv, NEW i \in DOMAIN invocations, invocations[i].role = Auditor
  PROVE  Assessments(invocations[i]) \in Seq(ToSet(Assessments(invocations[i])))
<1>1. invocations[i].response \in Audits
  BY DEF BuiltInv
<1>2. <<>> \in Seq(ToSet(<<>>))
  OBVIOUS
<1> QED BY <1>1, <1>2, AuditsAssumption DEF Assessments

\* Of two assessments kept, no two are of one claim.
LEMMA KeptOnce ==
  ASSUME NEW assessments, assessments \in Seq(ToSet(assessments)),
         NEW a \in KeptAssessments(assessments), NEW b \in KeptAssessments(assessments),
         ClaimId(a) = ClaimId(b)
  PROVE  a = b
<1> DEFINE IsLast(i) == \A k \in DOMAIN assessments : k > i => ClaimId(assessments[k]) # ClaimId(assessments[i])
<1>1. PICK i \in DOMAIN assessments : a = assessments[i] /\ IsLast(i)
  BY DEF KeptAssessments
<1>2. PICK j \in DOMAIN assessments : b = assessments[j] /\ IsLast(j)
  BY DEF KeptAssessments
<1>3. ~(i < j) /\ ~(j < i)
  BY <1>1, <1>2
<1> HIDE DEF IsLast
<1>4. i \in Int /\ j \in Int
  OBVIOUS
<1> QED BY <1>1, <1>2, <1>3, <1>4

\* A check speaks once of a claim and once of an assessment.
LEMMA CheckedOnce ==
  ASSUME BuiltInv, NEW i \in DOMAIN invocations,
         NEW f \in Validated(invocations[i]), NEW g \in Validated(invocations[i]),
         f.audits = g.audits, f.key = g.key
  PROVE  f = g
<1>1. CASE invocations[i].role = Auditor
  <2> DEFINE kept == KeptAssessments(Assessments(invocations[i]))
             Found(a) == [source |-> Auditor, key |-> ClaimId(a)[2], value |-> a.observed,
                          citations |-> a.citations, audits |-> a.agent, support |-> a.support,
                          failing |-> Failing(AuditTests(invocations[i], a))]
  <2>1. PICK a \in kept : f = Found(a)
    BY <1>1 DEF Validated, AuditFindings
  <2>2. PICK b \in kept : g = Found(b)
    BY <1>1 DEF Validated, AuditFindings
  <2>3. a.agent = b.agent /\ ClaimId(a)[2] = ClaimId(b)[2]
    BY <2>1, <2>2
  <2>4. ClaimId(a) = ClaimId(b)
    BY <2>3 DEF ClaimId
  <2> HIDE DEF Found
  <2>5. a = b
    BY <1>1, <2>4, KeptOnce, AssessmentsListed
  <2> QED BY <2>1, <2>2, <2>5
<1>2. CASE invocations[i].role # Auditor
  <2> DEFINE claims == NormalizedClaims(invocations[i].role, RawClaims(invocations[i]))
             Found(k) == [source |-> invocations[i].role, key |-> k, value |-> claims[k],
                          citations |-> CanonicalCitations(invocations[i].role, invocations[i].response, k),
                          audits |-> "nobody", support |-> "none",
                          failing |-> Failing(SpecialistTests(invocations[i], k))]
  <2>1. PICK k \in DOMAIN claims : f = Found(k)
    BY <1>2 DEF Validated, SpecialistFindings
  <2>2. PICK l \in DOMAIN claims : g = Found(l)
    BY <1>2 DEF Validated, SpecialistFindings
  <2>3. k = l
    BY <2>1, <2>2
  <2> QED BY <2>1, <2>2, <2>3
<1> QED BY <1>1, <1>2

\* A finding names the role whose response it comes from.
LEMMA SourceIsRole ==
  ASSUME NEW invocation, NEW f \in Validated(invocation)
  PROVE  f.source = invocation.role
BY DEF Validated, AuditFindings, SpecialistFindings

\* So do all the checks together.
LEMMA AllCheckedOnce ==
  ASSUME BuiltInv, NEW i \in DOMAIN invocations, NEW j \in DOMAIN invocations,
         NEW f \in Validated(invocations[i]), NEW g \in Validated(invocations[j]),
         f.source = g.source, f.audits = g.audits, f.key = g.key
  PROVE  f = g
<1>1. invocations[i].role = invocations[j].role
  BY SourceIsRole
<1>2. i = j
  BY <1>1, OneInvocationPerRole
<1> QED BY <1>2, CheckedOnce

\* A handoff speaks once of a claim or an assessment: what the audit adds to a
\* finding depends on the finding alone (build_synthesis_handoff).
LEMMA HandedOnOnce ==
  ASSUME BuiltInv, NEW handoff \in Built,
         NEW one \in handoff.validated \cup handoff.excluded,
         NEW other \in handoff.validated \cup handoff.excluded,
         one.source = other.source, one.audits = other.audits, one.key = other.key
  PROVE  one = other
<1>1. PICK target : handoff = Handoff(checks, target)
  BY BuiltFromChecks
<1> DEFINE all == UNION ToSet(checks)
           Overruled(f) ==
             f.source # Auditor /\ \E g \in all :
               /\ g.source = Auditor /\ g.support \in {"contradicted", "unsupported"}
               /\ g.audits = f.source /\ g.key = f.key
           Audited(f) == IF Overruled(f) THEN [f EXCEPT !.failing = @ \cup {"audit"}] ELSE f
<1>2. \A g \in all : \E i \in DOMAIN invocations : g \in Validated(invocations[i])
  <2>1. DOMAIN checks = DOMAIN invocations
    BY DEF BuiltInv, ReplayInv
  <2> QED BY <2>1 DEF BuiltInv, ReplayInv, Rerun, ToSet
<1>3. handoff.validated \cup handoff.excluded = {Audited(f) : f \in all}
  BY <1>1 DEF Handoff, ExcludeAudited
<1>4. ASSUME NEW f \in all
      PROVE  Audited(f).source = f.source /\ Audited(f).audits = f.audits /\ Audited(f).key = f.key
  <2>1. PICK i \in DOMAIN invocations : f \in Validated(invocations[i])
    BY <1>2
  <2> HIDE DEF Overruled, all
  <2> QED BY <2>1 DEF Validated, AuditFindings, SpecialistFindings
<1> HIDE DEF Audited, all
<1>5. PICK f \in all : one = Audited(f)
  BY <1>3
<1>6. PICK g \in all : other = Audited(g)
  BY <1>3
<1>7. f.source = g.source /\ f.audits = g.audits /\ f.key = g.key
  BY <1>4, <1>5, <1>6
<1>8. f = g
  BY <1>2, <1>7, AllCheckedOnce
<1> QED BY <1>5, <1>6, <1>8

\* The rest of TypeOK: a role is shown records of the case only, and only an
\* answer of the recovery schema has a grade.
TypeInv ==
  /\ BuiltInv
  /\ contradicted \in BOOLEAN /\ arbitrated \in BOOLEAN
  /\ phase \in {"asking", "synthesis", "arbitration", "planning", "stopped", "over", "rebuilt"}
  /\ \A i \in DOMAIN invocations : invocations[i].selected \subseteq KnownRecords
  /\ report.made => final.evaluable

LEMMA TypeInvStep == TypeInv /\ [Next]_vars => TypeInv'
<1> SUFFICES ASSUME TypeInv, [Next]_vars PROVE TypeInv'
  OBVIOUS
<1>1. BuiltInv'
  BY BuiltInvStep DEF TypeInv
<1>2. contradicted' = contradicted
  BY DEF Next, SpecialistAnswers, Deliberate, Synthesize, ArbiterAnswers, PlannerAnswers, Rebuild, vars
<1>3. CASE SpecialistAnswers
  <2>1. PICK role : /\ role = order[Len(invocations) + 1]
                    /\ \E invocation : /\ invocation.selected = SelectedFor(role, invocations)
                                       /\ invocations' = Append(invocations, invocation)
    BY <1>3 DEF SpecialistAnswers
  <2>2. PICK S : invocations \in Seq(S)
    BY DEF TypeInv, BuiltInv, ReplayInv
  <2>3. role \in Specialists
    <3>1. order \in Seq(Specialists)
      BY OrdersAssumption DEF TypeInv, BuiltInv
    <3>2. Len(invocations) + 1 \in DOMAIN order
      BY <1>3, <2>2, <3>1 DEF SpecialistAnswers, TypeInv, BuiltInv
    <3> QED BY <2>1, <3>1, <3>2
  <2>4. SelectedFor(role, invocations) \subseteq KnownRecords
    BY <2>3, SelectedKnown DEF TypeInv
  <2>5. \A i \in DOMAIN invocations' : invocations'[i].selected \subseteq KnownRecords
    BY <2>1, <2>2, <2>4 DEF TypeInv
  <2>6. /\ UNCHANGED <<arbitrated, final, report>>
        /\ phase' \in {"asking", "synthesis", "stopped"}
    BY <1>3 DEF SpecialistAnswers
  <2> QED BY <1>1, <1>2, <2>5, <2>6 DEF TypeInv
<1>4. CASE Deliberate
  <2>1. arbitrated' \in BOOLEAN
    BY <1>4 DEF Deliberate, Disagree
  <2>2. UNCHANGED <<invocations, final, report>> /\ phase' \in {"arbitration", "planning"}
    BY <1>4 DEF Deliberate
  <2> QED BY <1>1, <1>2, <2>1, <2>2 DEF TypeInv
<1>5. CASE PlannerAnswers
  <2>1. report' = Report(final')
    BY <1>5 DEF PlannerAnswers
  <2>2. report'.made => final'.evaluable
    BY <2>1 DEF Report, NoReport
  <2>3. UNCHANGED <<invocations, arbitrated>> /\ phase' = "over"
    BY <1>5 DEF PlannerAnswers
  <2> QED BY <1>1, <1>2, <2>2, <2>3 DEF TypeInv
<1>6. CASE Synthesize \/ ArbiterAnswers \/ Rebuild \/ UNCHANGED vars
  <2>1. /\ UNCHANGED <<invocations, arbitrated, final, report>>
        /\ phase' \in {"planning", "stopped", "rebuilt"} \/ phase' = phase
    BY <1>6 DEF Synthesize, ArbiterAnswers, Rebuild, vars
  <2> QED BY <1>1, <1>2, <2>1 DEF TypeInv
<1> QED BY <1>3, <1>4, <1>5, <1>6 DEF Next

\* Every variable has its type, for every case, order, response, audit and
\* answer; in particular a handoff speaks once of a claim, validated or excluded,
\* although the auditor may name a claim by several keys.
THEOREM TypeCorrect == Spec => []TypeOK
<1>1. Init => TypeInv
  <2> SUFFICES ASSUME Init PROVE TypeInv
    OBVIOUS
  <2>1. BuiltInv
    BY BuiltInvInit
  <2>2. DOMAIN invocations = {} /\ arbitrated = FALSE /\ contradicted \in BOOLEAN
    BY DEF Init
  <2>3. phase = "asking" /\ ~report.made
    BY DEF Init, NoReport
  <2> QED BY <2>1, <2>2, <2>3 DEF TypeInv
<1>2. TypeInv => TypeOK
  <2> SUFFICES ASSUME TypeInv PROVE TypeOK
    OBVIOUS
  <2>1. ASSUME NEW handoff \in Built
        PROVE  /\ \A f \in handoff.validated : f.failing = {}
               /\ \A f \in handoff.excluded : f.failing # {}
    <3>1. PICK target : handoff = Handoff(checks, target)
      BY <2>1, BuiltFromChecks DEF TypeInv
    <3> QED BY <3>1 DEF Handoff
  <2>2. ASSUME NEW handoff \in Built,
               NEW one \in handoff.validated \cup handoff.excluded,
               NEW other \in handoff.validated \cup handoff.excluded,
               <<one.source, one.audits, one.key>> = <<other.source, other.audits, other.key>>
        PROVE  one = other
    BY <2>2, HandedOnOnce DEF TypeInv
  <2>3. final = NoFinal \/ DOMAIN final.citations = FinalFields
    <3>1. CASE final # NoFinal
      <4>1. PICK answer \in Finals : final = Merged(answer, PlannerHandoff.validated)
        BY <3>1 DEF TypeInv, BuiltInv, ReplayInv
      <4>2. final \in Answers
        BY <4>1, FinalsAssumption, MergedType
      <4> QED BY <4>2, SameFields DEF Answers
    <3> QED BY <3>1
  <2>4. Len(invocations) = Len(checks) /\ Len(invocations) <= Len(order) /\ order \in Orders
    BY DEF TypeInv, BuiltInv, ReplayInv
  <2>5. \A i \in DOMAIN invocations :
          invocations[i].role = order[i] /\ invocations[i].selected \subseteq KnownRecords
    BY DEF TypeInv, BuiltInv
  <2> QED BY <2>1, <2>2, <2>3, <2>4, <2>5 DEF TypeInv, TypeOK
<1> QED BY <1>1, <1>2, TypeInvStep, PTL DEF Spec

-----------------------------------------------------------------------------
(* The arbiter *)

\* The cost record and the schedule record of the case name the same slip.
\* Nothing in the program checks that (validate_date_and_duration_consistency
\* reads the schedule record only); where they differ, two experts who each read
\* their record rightly disagree.
RecordsAgree == Figures["slip"] = MaxOf(Figures["movement"] - Figures["float"], 0)

\* The figure the records imply for a domain of claims.
DomainFigure(domain) ==
  LET schedule == ScheduleExpected(Figures["movement"])
  IN  IF domain = "delivery_movement_days" THEN Figures["movement"]
      ELSE IF domain = "milestone_slip" THEN Figures["slip"]
      ELSE IF domain = "avoided_exposure" THEN CommercialExpected["avoided_exposure_usd"]
      ELSE IF domain \in DOMAIN schedule THEN schedule[domain]
      ELSE CommercialExpected[domain]

\* Where the records agree, all they imply for a claim is the figure of its
\* domain.
LEMMA TruthOfDomain ==
  ASSUME RecordsAgree, NEW key, NEW value \in Truth(key)
  PROVE  value = DomainFigure(Domain(key))
<1> DEFINE schedule == ScheduleExpected(Figures["movement"])
<1>1. \/ key = "delivery_movement_days" /\ value = Figures["movement"]
      \/ key \in DOMAIN schedule /\ value = schedule[key]
      \/ key \in DOMAIN CommercialExpected /\ value = CommercialExpected[key]
  BY DEF Truth
<1>2. CASE key = "delivery_movement_days" /\ value = Figures["movement"]
  BY <1>2 DEF Domain, DomainFigure, ConflictKeys
<1>3. DOMAIN schedule = {"installation_total_float_days", "installation_total_float_consumed_days",
                         "installation_total_float_remaining_days", "forecast_milestone_slip_days"}
  BY DEF ScheduleExpected
<1>4. schedule["forecast_milestone_slip_days"] = Figures["slip"]
  BY DEF ScheduleExpected, RecordsAgree
<1>5. /\ DomainFigure("milestone_slip") = Figures["slip"]
      /\ DomainFigure("avoided_exposure") = CommercialExpected["avoided_exposure_usd"]
  BY DEF DomainFigure
<1>6. CASE key \in DOMAIN schedule /\ value = schedule[key]
  <2>1. CASE key = "forecast_milestone_slip_days"
    <3>1. Domain(key) = "milestone_slip"
      BY <2>1 DEF Domain, ConflictKeys
    <3>2. value = Figures["slip"]
      BY <1>4, <1>6, <2>1
    <3> QED BY <1>5, <3>1, <3>2
  <2>2. CASE key # "forecast_milestone_slip_days"
    <3>1. Domain(key) = key
      BY <1>3, <1>6, <2>2 DEF Domain, ConflictKeys
    <3>2. key \notin {"delivery_movement_days", "milestone_slip", "avoided_exposure"}
      BY <1>3, <1>6
    <3> QED BY <1>6, <3>1, <3>2 DEF DomainFigure
  <2> QED BY <2>1, <2>2
<1>7. DOMAIN CommercialExpected =
        {"delay_exposure_usd_per_day", "forecast_milestone_slip_days",
         "projected_milestone_slip_days", "unmitigated_exposure_usd", "mitigation_cost_usd",
         "avoided_exposure_usd", "gross_avoided_exposure_usd"}
  BY DEF CommercialExpected
<1>8. /\ CommercialExpected["forecast_milestone_slip_days"] = Figures["slip"]
      /\ CommercialExpected["projected_milestone_slip_days"] = Figures["slip"]
      /\ CommercialExpected["gross_avoided_exposure_usd"] = CommercialExpected["avoided_exposure_usd"]
  BY DEF CommercialExpected
<1>9. CASE key \in DOMAIN CommercialExpected /\ value = CommercialExpected[key]
  <2>1. CASE key \in {"forecast_milestone_slip_days", "projected_milestone_slip_days"}
    <3>1. Domain(key) = "milestone_slip"
      BY <2>1 DEF Domain, ConflictKeys
    <3>2. value = Figures["slip"]
      BY <1>8, <1>9, <2>1
    <3> QED BY <1>5, <3>1, <3>2
  <2>2. CASE key \in {"gross_avoided_exposure_usd", "avoided_exposure_usd"}
    <3>1. Domain(key) = "avoided_exposure"
      BY <2>2 DEF Domain, ConflictKeys
    <3>2. value = CommercialExpected["avoided_exposure_usd"]
      BY <1>8, <1>9, <2>2
    <3> QED BY <1>5, <3>1, <3>2
  <2>3. CASE key \in {"delay_exposure_usd_per_day", "unmitigated_exposure_usd", "mitigation_cost_usd"}
    <3>1. Domain(key) = key
      BY <2>3 DEF Domain, ConflictKeys
    <3>2. key \notin {"delivery_movement_days", "milestone_slip", "avoided_exposure"} \cup DOMAIN schedule
      BY <1>3, <2>3
    <3> QED BY <1>9, <3>1, <3>2 DEF DomainFigure
  <2> QED BY <1>7, <1>9, <2>1, <2>2, <2>3
<1> QED BY <1>1, <1>2, <1>6, <1>9

\* What gives the arbiter cause.
Cause(findings) ==
  \E f, g \in findings :
    /\ Domain(f.key) = Domain(g.key)
    /\ f.value # g.value /\ Null \notin {f.value, g.value}
    /\ f.value \notin Truth(f.key)

\* Findings that disagree give cause: of two values of one domain, one is not what
\* the records imply, or nothing is implied (detect_disagreements).
LEMMA DisagreementIsCause ==
  ASSUME RecordsAgree, NEW findings, Disagree(findings)
  PROVE  Cause(findings)
<1>1. PICK one \in findings, other \in findings :
        /\ Domain(one.key) = Domain(other.key) /\ one.value # other.value
        /\ one.value # Null /\ other.value # Null
  BY DEF Disagree
<1>2. CASE Truth(one.key) = {}
  BY <1>1, <1>2 DEF Cause
<1>3. CASE Truth(other.key) = {}
  BY <1>1, <1>3 DEF Cause
<1>4. CASE Truth(one.key) # {} /\ Truth(other.key) # {}
  <2>1. one.value \in Truth(one.key) => one.value = DomainFigure(Domain(one.key))
    BY TruthOfDomain
  <2>2. other.value \in Truth(other.key) => other.value = DomainFigure(Domain(one.key))
    BY <1>1, TruthOfDomain
  <2>3. one.value \notin Truth(one.key) \/ other.value \notin Truth(other.key)
    BY <1>1, <2>1, <2>2
  <2> QED BY <1>1, <1>4, <2>3 DEF Cause
<1> QED BY <1>2, <1>3, <1>4

\* Whether the arbiter is asked is decided by the first handoff, which stays the
\* first.
ArbitrationInv ==
  /\ phase \in {"asking", "synthesis"} => ~arbitrated
  /\ phase = "arbitration" => \E handoff : handoffs = <<handoff>>
  /\ arbitrated => Disagree(handoffs[1].validated)

LEMMA ArbitrationInvStep == ArbitrationInv /\ [Next]_vars => ArbitrationInv'
<1> SUFFICES ASSUME ArbitrationInv, [Next]_vars PROVE ArbitrationInv'
  OBVIOUS
<1>1. CASE SpecialistAnswers
  <2>1. ~arbitrated /\ arbitrated' = arbitrated /\ phase' # "arbitration"
    BY <1>1 DEF SpecialistAnswers, ArbitrationInv
  <2> QED BY <2>1 DEF ArbitrationInv
<1>2. CASE Deliberate
  <2> DEFINE handoff == Handoff(checks, "ArbiterAgent")
  <2>1. /\ arbitrated' = Disagree(handoff.validated)
        /\ arbitrated' => handoffs' = <<handoff>>
        /\ phase' = IF arbitrated' THEN "arbitration" ELSE "planning"
    BY <1>2 DEF Deliberate
  <2> HIDE DEF handoff
  <2>2. arbitrated' => handoffs'[1] = handoff
    BY <2>1
  <2>3. arbitrated' => Disagree(handoffs'[1].validated)
    BY <2>1, <2>2
  <2>4. Disagree(handoffs[1].validated)' <=> Disagree(handoffs'[1].validated)
    BY DEF Disagree
  <2> QED BY <2>1, <2>3, <2>4 DEF ArbitrationInv
<1>3. CASE Synthesize
  <2>1. ~arbitrated' /\ phase' = "planning"
    BY <1>3 DEF Synthesize, ArbitrationInv
  <2> QED BY <2>1 DEF ArbitrationInv
<1>4. CASE ArbiterAnswers
  <2>1. PICK handoff : handoffs = <<handoff>>
    BY <1>4 DEF ArbiterAnswers, ArbitrationInv
  <2>2. handoffs' = <<handoff>> \/ handoffs' = <<handoff, Handoff(checks, "RecoveryPlanner")>>
    BY <1>4, <2>1 DEF ArbiterAnswers
  <2>3. handoffs'[1] = handoffs[1]
    BY <2>1, <2>2
  <2>4. arbitrated' = arbitrated /\ phase' \in {"planning", "stopped"}
    BY <1>4 DEF ArbiterAnswers
  <2>5. Disagree(handoffs[1].validated)' <=> Disagree(handoffs[1].validated)
    BY <2>3 DEF Disagree
  <2> QED BY <2>4, <2>5 DEF ArbitrationInv
<1>5. CASE PlannerAnswers \/ Rebuild \/ UNCHANGED vars
  <2>1. UNCHANGED <<arbitrated, handoffs>> /\ (phase' = phase \/ phase' \in {"over", "rebuilt"})
    BY <1>5 DEF PlannerAnswers, Rebuild, vars
  <2>2. Disagree(handoffs[1].validated)' <=> Disagree(handoffs[1].validated)
    BY <2>1 DEF Disagree
  <2> QED BY <2>1, <2>2 DEF ArbitrationInv
<1> QED BY <1>1, <1>2, <1>3, <1>4, <1>5 DEF Next

\* The arbiter is asked with cause only, for every case whose records agree on the
\* slip: two findings of one claim differ, and one is not what the records imply.
THEOREM ConsensusAlwaysSkipsArbiter ==
  ASSUME RecordsAgree
  PROVE  Spec => []ConsensusSkipsArbiter
<1>1. Init => ArbitrationInv
  BY DEF Init, ArbitrationInv
<1>2. ArbitrationInv => ConsensusSkipsArbiter
  BY DisagreementIsCause DEF ArbitrationInv, ConsensusSkipsArbiter, Cause
<1> QED BY <1>1, <1>2, ArbitrationInvStep, PTL DEF Spec

-----------------------------------------------------------------------------
(* The citations merged *)

\* A finding that passed every test cites records its author was shown
\* (validate_role_scope, and the auditor's response contract).
LEMMA CitedShown ==
  ASSUME NEW invocation, NEW f \in Validated(invocation), f.failing = {}
  PROVE  f.citations \subseteq invocation.selected
<1>1. CASE invocation.role = Auditor
  <2>1. PICK a \in KeptAssessments(Assessments(invocation)) :
          f.citations = a.citations /\ f.failing = Failing(AuditTests(invocation, a))
    BY <1>1 DEF Validated, AuditFindings
  <2> DEFINE tests == AuditTests(invocation, a)
             cited == UNION {one.citations : one \in ToSet(Assessments(invocation))}
  <2>2. "role_scope" \in DOMAIN tests /\ (tests["role_scope"] => cited \subseteq invocation.selected)
    BY DEF AuditTests
  <2>3. a \in ToSet(Assessments(invocation))
    BY DEF KeptAssessments, ToSet
  <2>4. f.citations \subseteq cited
    BY <2>1, <2>3
  <2> HIDE DEF tests, cited
  <2>5. tests["role_scope"]
    BY <2>1, <2>2 DEF Failing, tests
  <2> QED BY <2>2, <2>4, <2>5
<1>2. CASE invocation.role # Auditor
  <2> DEFINE role   == invocation.role
             claims == NormalizedClaims(role, RawClaims(invocation))
             tests  == SpecialistTests(invocation, f.key)
  <2>1. /\ f.citations = CanonicalCitations(role, invocation.response, f.key)
        /\ f.failing = Failing(tests)
    BY <1>2 DEF Validated, SpecialistFindings
  <2>2. /\ "role_scope" \in DOMAIN tests
        /\ tests["role_scope"] <=>
             RoleScopeValid(role, invocation.response, claims, invocation.selected)
    BY DEF SpecialistTests
  <2> HIDE DEF claims, tests
  <2>3. RoleScopeValid(role, invocation.response, claims, invocation.selected)
    BY <2>1, <2>2 DEF Failing
  <2>4. CanonicalCitations(role, invocation.response, f.key) \subseteq CitedIn(invocation.response)
    BY DEF CanonicalCitations, CitedIn
  <2> QED BY <2>1, <2>3, <2>4 DEF RoleScopeValid
<1> QED BY <1>1, <1>2

\* What the merge leaves of an answer, and what it makes of a field.
LEMMA MergedShape ==
  ASSUME NEW answer \in Answers, answer.evaluable, NEW findings
  PROVE  LET merged == Merged(answer, findings)
         IN  /\ merged.evaluable /\ merged.valid = answer.valid
             /\ merged.asserted = answer.asserted /\ merged.values = answer.values
             /\ merged.unsupported = answer.unsupported /\ merged.ambiguous = answer.ambiguous
             /\ \A c \in Claims :
                  LET selected == Selected(answer, findings, c)
                      all      == RecordsOf(answer.citations[c]) \cup selected
                  IN  /\ merged.citations[c] = IF selected = {} THEN answer.citations[c] ELSE Once(all)
                      /\ RecordsOf(merged.citations[c]) = all
<1> DEFINE citations == MergedCitations(answer, findings)
           merged    == [answer EXCEPT !.citations = citations]
<1>1. Merged(answer, findings) = merged
  BY DEF Merged
<1>2. \A c \in Claims :
        citations[c] = IF Selected(answer, findings, c) = {} THEN answer.citations[c]
                       ELSE Once(RecordsOf(answer.citations[c]) \cup Selected(answer, findings, c))
  BY MergedField
<1> HIDE DEF citations
<1>3. /\ merged.evaluable /\ merged.valid = answer.valid
      /\ merged.asserted = answer.asserted /\ merged.values = answer.values
      /\ merged.unsupported = answer.unsupported /\ merged.ambiguous = answer.ambiguous
      /\ merged.citations = citations
  BY DEF Answers
<1> HIDE DEF merged
<1>4. ASSUME NEW c \in Claims
      PROVE  RecordsOf(citations[c]) = RecordsOf(answer.citations[c]) \cup Selected(answer, findings, c)
  BY <1>2, OnceMentions
<1> QED BY <1>1, <1>2, <1>3, <1>4

\* Merging invents nothing: what the planner did not cite itself, an eligible
\* finding cites whose author was shown the record.
LEMMA NothingInvented == BuiltInv => MergeInventsNothing
<1> SUFFICES
      ASSUME BuiltInv, final # NoFinal, final.evaluable, NEW field \in FinalFields,
             NEW record \in RecordsOf(final.citations[field])
      PROVE  \/ \E answer \in Finals :
                  answer.values = final.values /\ record \in RecordsOf(answer.citations[field])
             \/ /\ record \in FINAL_CITATION_REQUIREMENTS[field] /\ field \in Answered(final)
                /\ \E f \in Last(handoffs).validated, i \in DOMAIN invocations :
                     /\ invocations[i].role = f.source
                     /\ record \in f.citations \cap invocations[i].selected
  BY DEF MergeInventsNothing
<1> DEFINE findings == PlannerHandoff.validated
<1>1. PICK answer \in Finals : final = Merged(answer, findings)
  BY DEF BuiltInv, ReplayInv
<1>2. Last(handoffs) = PlannerHandoff
  BY DEF BuiltInv, ReplayInv
<1>3. \A f \in findings : f.failing = {} /\ \E i \in DOMAIN invocations : f \in Validated(invocations[i])
  BY ChecksHandedOn DEF PlannerHandoff
<1> HIDE DEF findings
<1>4. answer \in Answers /\ answer.evaluable
  BY <1>1, FinalsAssumption DEF Merged
<1>5. /\ final.values = answer.values
      /\ RecordsOf(final.citations[field]) =
           RecordsOf(answer.citations[field]) \cup Selected(answer, findings, field)
  BY <1>1, <1>4, MergedShape, SameFields
<1>6. Answered(final) = Answered(answer)
  BY <1>5 DEF Answered
<1>7. CASE record \in RecordsOf(answer.citations[field])
  BY <1>5, <1>7
<1>8. CASE record \notin RecordsOf(answer.citations[field])
  <2>1. /\ field \in Answered(final) /\ record \in FINAL_CITATION_REQUIREMENTS[field]
        /\ \E f \in findings : record \in f.citations
    BY <1>5, <1>6, <1>8 DEF Selected
  <2>2. PICK f \in findings : record \in f.citations
    BY <2>1
  <2>3. PICK i \in DOMAIN invocations : f \in Validated(invocations[i])
    BY <1>3
  <2>4. invocations[i].role = f.source
    BY <2>3, SourceIsRole
  <2>5. record \in invocations[i].selected
    BY <1>3, <2>2, <2>3, CitedShown
  <2> QED BY <1>2, <2>1, <2>2, <2>4, <2>5 DEF findings
<1> QED BY <1>7, <1>8

\* The share of the mentions that are of known records does not fall when others
\* of known records join them.
LEMMA ShareKept ==
  ASSUME NEW cited, IsFiniteSet(cited), NEW more, IsFiniteSet(more), NEW known,
         Valid(more, known) = more
  PROVE  NotWorse(Share(Valid(cited \cup more, known), cited \cup more),
                  Share(Valid(cited, known), cited))
<1> DEFINE new == more \ cited
           a   == Cardinality(cited)
           b   == Cardinality(Valid(cited, known))
           n   == Cardinality(new)
<1>1. /\ IsFiniteSet(new) /\ IsFiniteSet(Valid(cited, known))
      /\ a \in Nat /\ b \in Nat /\ n \in Nat /\ b <= a
  <2>1. new \subseteq more /\ Valid(cited, known) \subseteq cited
    BY DEF Valid
  <2> QED BY <2>1, FS_Subset, FS_CardinalityType
<1>2. Cardinality(cited \cup more) = a + n
  <2>1. cited \cup more = cited \cup new /\ cited \cap new = {}
    OBVIOUS
  <2>2. Cardinality(cited \cup new) = a + n - Cardinality(cited \cap new)
    BY <1>1, FS_Union
  <2>3. Cardinality(cited \cap new) = 0
    BY <2>1, FS_EmptySet
  <2>4. Cardinality(cited \cup more) = a + n - 0
    BY <2>1, <2>2, <2>3
  <2> QED BY <1>1, <2>4
<1>3. Cardinality(Valid(cited \cup more, known)) = b + n
  <2> DEFINE valid == Valid(cited, known)
  <2>1. Valid(cited \cup more, known) = valid \cup new /\ valid \cap new = {}
    BY DEF Valid
  <2> HIDE DEF valid, new
  <2>2. Cardinality(valid \cup new) = b + n - Cardinality(valid \cap new)
    BY <1>1, FS_Union DEF valid
  <2>3. Cardinality(valid \cap new) = 0
    BY <2>1, FS_EmptySet
  <2>4. Cardinality(Valid(cited \cup more, known)) = b + n - 0
    BY <2>1, <2>2, <2>3
  <2> QED BY <1>1, <2>4
<1> HIDE DEF a, b, n
<1>4. (b + n) * a >= b * (a + n)
  <2>1. n * a >= b * n
    BY <1>1
  <2>2. (b + n) * a = b * a + n * a /\ b * (a + n) = b * a + b * n
    BY <1>1
  <2>3. b * a \in Int /\ n * a \in Int /\ b * n \in Int
    BY <1>1
  <2> QED BY <2>1, <2>2, <2>3
<1> QED BY <1>2, <1>3, <1>4 DEF NotWorse, Share, a, b

\* Mentioning more known records lowers no precision.
LEMMA PrecisionKept ==
  ASSUME NEW cited, IsFiniteSet(cited), NEW more, IsFiniteSet(more), NEW known,
         Valid(more, known) = more
  PROVE  NotWorse(Precision(cited \cup more, known), Precision(cited, known))
<1> DEFINE all == cited \cup more
<1>1. /\ cited # {} => Precision(cited, known) = Share(Valid(cited, known), cited)
      /\ all # {} => Precision(all, known) = Share(Valid(all, known), all)
  BY DEF Precision, Valid
<1>2. CASE cited = {}
  <2>1. Precision(cited, known) = <<0, 1>>
    BY <1>2 DEF Precision
  <2>2. Precision(all, known)[1] \in Nat /\ Precision(all, known)[2] \in Nat
    <3>1. CASE all = {}
      BY <3>1 DEF Precision
    <3>2. CASE all # {}
      <4>1. IsFiniteSet(all) /\ Valid(all, known) \subseteq all
        BY <1>2 DEF Valid
      <4>2. IsFiniteSet(Valid(all, known))
        BY <4>1, FS_Subset
      <4> QED BY <1>1, <3>2, <4>1, <4>2, FS_CardinalityType DEF Share
    <3> QED BY <3>1, <3>2
  <2> HIDE DEF all
  <2>3. Precision(all, known)[1] * 1 >= 0 * Precision(all, known)[2]
    BY <2>2
  <2> QED BY <2>1, <2>3 DEF NotWorse, all
<1>3. CASE cited # {}
  BY <1>1, <1>3, ShareKept
<1> QED BY <1>2, <1>3

\* A finite list without repetitions has as many mentions as records.
LEMMA WithoutRepetitions ==
  ASSUME NEW list, IsFiniteSet(list), NEW set, list \subseteq set \X Nat, ~Repeats(list)
  PROVE  Cardinality(list) = Cardinality(Once(RecordsOf(list)))
<1> DEFINE once == Once(RecordsOf(list))
           f    == [mention \in list |-> <<mention[1], 1>>]
<1>1. f \in [list -> once]
  BY DEF Once, RecordsOf
<1>2. \A one, other \in list : f[one] = f[other] => one = other
  BY DEF Repeats
<1>3. \A mention \in once : \E one \in list : f[one] = mention
  BY DEF Once, RecordsOf
<1> HIDE DEF f, once
<1>4. f \in Bijection(list, once)
  BY <1>1, <1>2, <1>3 DEF Bijection, Injection, Surjection, IsInjective
<1>5. ExistsBijection(list, once)
  BY <1>4 DEF ExistsBijection
<1> QED BY <1>5, FS_Bijection DEF once

\* Without repetitions the precision of a list is that of its records.
LEMMA PrecisionOfRecords ==
  ASSUME NEW list, IsFiniteSet(list), NEW set, list \subseteq set \X Nat, ~Repeats(list), NEW known
  PROVE  Precision(list, known) = Precision(Once(RecordsOf(list)), known)
<1> DEFINE once  == Once(RecordsOf(list))
           valid == Valid(list, known)
<1>1. list = {} <=> once = {}
  <2>1. \A mention \in list : <<mention[1], 1>> \in once
    BY DEF Once, RecordsOf
  <2>2. list = {} => RecordsOf(list) = {}
    BY DEF RecordsOf
  <2>3. Once({}) = {}
    BY DEF Once
  <2> QED BY <2>1, <2>2, <2>3
<1>2. /\ list # {} => Precision(list, known) = Share(valid, list)
      /\ once # {} => Precision(once, known) = Share(Valid(once, known), once)
      /\ list = {} => Precision(list, known) = Precision(once, known)
  BY <1>1 DEF Precision, Valid
<1>3. Valid(once, known) = Once(RecordsOf(valid))
  BY DEF Valid, Once, RecordsOf
<1>4. valid \subseteq list /\ ~Repeats(valid)
  BY DEF Valid, Repeats
<1>5. IsFiniteSet(valid) /\ valid \subseteq set \X Nat
  BY <1>4, FS_Subset
<1> HIDE DEF valid, once
<1>6. Cardinality(valid) = Cardinality(Valid(once, known))
  BY <1>3, <1>4, <1>5, WithoutRepetitions
<1>7. Cardinality(list) = Cardinality(once)
  BY WithoutRepetitions DEF once
<1> QED BY <1>1, <1>2, <1>6, <1>7 DEF Share, once

\* Mentioning more records lowers no recall.
LEMMA RecallKept ==
  ASSUME NEW c \in Claims, NEW cited, NEW more, RecordsOf(cited) \subseteq RecordsOf(more), NEW known
  PROVE  NotWorse(Recall(c, more, known), Recall(c, cited, known))
<1> DEFINE required == CLAIM_REQUIREMENTS[c]
           less     == RecordsOf(cited) \cap known \cap required
           all      == RecordsOf(more) \cap known \cap required
<1>1. IsFiniteSet(required)
  BY RequirementsFinite
<1> HIDE DEF required
<1>2. IsFiniteSet(all) /\ IsFiniteSet(less) /\ less \subseteq all
  BY <1>1, FS_Subset
<1>3. /\ Cardinality(less) \in Nat /\ Cardinality(all) \in Nat /\ Cardinality(required) \in Nat
      /\ Cardinality(less) <= Cardinality(all)
  BY <1>1, <1>2, FS_Subset, FS_CardinalityType
<1>4. Cardinality(all) * Cardinality(required) >= Cardinality(less) * Cardinality(required)
  BY <1>3
<1> QED BY <1>4 DEF NotWorse, Recall, Share, required

\* The records a merge adds are records of the case, and for each claim it may add
\* all that the evaluator requires.
LEMMA RequirementTables ==
  ASSUME NEW c \in Claims
  PROVE  /\ FINAL_CITATION_REQUIREMENTS[c] \subseteq KnownRecords
         /\ CLAIM_REQUIREMENTS[c] \subseteq FINAL_CITATION_REQUIREMENTS[c]
<1>1. FINAL_CITATION_REQUIREMENTS[c] \subseteq RequiredRecords
  BY DEF Claims, CLAIM_REQUIREMENTS, FINAL_CITATION_REQUIREMENTS, RequiredRecords, OnsiteRecords
<1>2. RequiredRecords \subseteq KnownRecords
  <2>1. "CommercialExpert" \in DOMAIN RoleRecords
    BY DEF RoleRecords
  <2>2. {"SCH-DELIVERY-001", "COST-SUMMARY-001", "CTR-DELAY-001"} \subseteq RoleRecords["CommercialExpert"]
    BY DEF RoleRecords
  <2> QED BY <2>1, <2>2 DEF KnownRecords, RequiredRecords
<1>3. CLAIM_REQUIREMENTS[c] \subseteq FINAL_CITATION_REQUIREMENTS[c]
  BY DEF Claims, CLAIM_REQUIREMENTS, FINAL_CITATION_REQUIREMENTS
<1> QED BY <1>1, <1>2, <1>3

\* Two answers that differ in their citations only.
SameButCited(one, other) ==
  /\ one.valid = other.valid /\ one.asserted = other.asserted /\ one.values = other.values
  /\ one.unsupported = other.unsupported /\ one.ambiguous = other.ambiguous

\* Metrics other than those of the citations do not read them.
LEMMA OtherMetricsKept ==
  ASSUME NEW one, NEW other, SameButCited(one, other)
  PROVE  \A p, q, r, s :
           \A metric \in DOMAIN Passed(one, p, r) \
                 {"evidence_citation_precision", "evidence_citation_recall"} :
             Passed(one, p, r)[metric] = Passed(other, q, s)[metric]
<1> TAKE p, q, r, s
<1> TAKE metric \in DOMAIN Passed(one, p, r) \
           {"evidence_citation_precision", "evidence_citation_recall"}
<1>1. \A c : ClaimStatus(one, c) = ClaimStatus(other, c)
  BY DEF ClaimStatus, SameButCited
<1>2. AssertionStatus(one) = AssertionStatus(other)
  BY DEF AssertionStatus, SameButCited
<1>3. ContradictionFound(one) = ContradictionFound(other)
  BY DEF ContradictionFound, SameButCited
<1> DEFINE correct(a)     == {c \in Claims : ClaimStatus(a, c) = "correct"}
           unsupported(a) == {c \in Claims : ClaimStatus(a, c) = "unsupported"}
<1>4. correct(one) = correct(other) /\ unsupported(one) = unsupported(other)
  BY <1>1
<1> QED BY <1>2, <1>3, <1>4 DEF Passed, SameButCited

\* What the merge makes of the citations of a claim: the records mentioned only
\* grow, by records of the case, and the precision is that of before or no worse
\* than that of the records without their repetitions.
LEMMA FieldServed ==
  ASSUME NEW answer \in Answers, answer.evaluable, NEW findings, NEW c \in Claims
  PROVE  LET cited == answer.citations[c]
             more  == Merged(answer, findings).citations[c]
             Score(list) == Precision(list, KnownRecords)
         IN  /\ Score(more) = Score(cited) \/ NotWorse(Score(more), Score(Once(RecordsOf(cited))))
             /\ Repeats(cited) \/ NotWorse(Score(more), Score(cited))
             /\ Whole(Score(cited)) => Whole(Score(more))
             /\ RecordsOf(cited) \subseteq RecordsOf(more)
<1> DEFINE cited    == answer.citations[c]
           once     == Once(RecordsOf(cited))
           selected == Selected(answer, findings, c)
           more     == Merged(answer, findings).citations[c]
           Score(list) == Precision(list, KnownRecords)
<1>1. /\ IsFiniteSet(cited) /\ cited \subseteq Records \X Nat
      /\ RecordsOf(cited) \subseteq Records /\ IsFiniteSet(RecordsOf(cited))
  BY CitationsFinite, RecordsAssumption, FS_Subset
<1>2. /\ IsFiniteSet(selected) /\ selected \subseteq KnownRecords /\ selected \subseteq Records
  BY SelectedFinite, RequirementTables
<1>3. /\ more = IF selected = {} THEN cited ELSE Once(RecordsOf(cited) \cup selected)
      /\ RecordsOf(more) = RecordsOf(cited) \cup selected
  BY MergedShape
<1> HIDE DEF cited, selected, more
<1>4. Once(RecordsOf(cited) \cup selected) = once \cup Once(selected)
  BY DEF Once
<1>5. IsFiniteSet(once) /\ IsFiniteSet(Once(selected))
  BY <1>1, <1>2, OnceMentions
<1>6. Valid(Once(selected), KnownRecords) = Once(selected)
  BY <1>2 DEF Valid, Once
<1> HIDE DEF once
<1>7. selected # {} => NotWorse(Score(more), Score(once))
  BY <1>3, <1>4, <1>5, <1>6, PrecisionKept
<1>8. ~Repeats(cited) => Score(cited) = Score(once)
  BY <1>1, PrecisionOfRecords DEF once
<1>9. NotWorse(Score(cited), Score(cited))
  <2>1. Valid(cited, KnownRecords) \subseteq cited
    BY DEF Valid
  <2>2. Valid({}, KnownRecords) = {} /\ cited \cup {} = cited
    BY DEF Valid
  <2> QED BY <1>1, <2>2, PrecisionKept, FS_EmptySet
<1>10. ASSUME Whole(Score(cited)) PROVE Whole(Score(more))
  <2>1. cited # {} /\ RecordsOf(cited) \subseteq KnownRecords
    BY <1>1, <1>10, WholePrecision
  <2>2. IsFiniteSet(more)
    BY <1>1, <1>3, <1>4, <1>5, FS_Union
  <2>3. RecordsOf(cited) # {} /\ (more = {} => RecordsOf(more) = {})
    BY <2>1 DEF RecordsOf
  <2>4. more # {} /\ RecordsOf(more) \subseteq KnownRecords
    BY <1>2, <1>3, <2>1, <2>3
  <2> QED BY <2>2, <2>4, WholePrecision
<1>11. /\ Score(more) = Score(cited) \/ NotWorse(Score(more), Score(once))
       /\ Repeats(cited) \/ NotWorse(Score(more), Score(cited))
       /\ RecordsOf(cited) \subseteq RecordsOf(more)
  BY <1>3, <1>7, <1>8, <1>9
<1> QED BY <1>10, <1>11 DEF cited, more, once

\* The merge serves the grade, whatever the planner answered and the findings
\* cite.
LEMMA GradeServed == MergeServesTheGrade
<1> SUFFICES
      ASSUME NEW answer \in Finals, answer.evaluable, answer.valid, NEW findings
      PROVE  LET available == UNION {f.citations : f \in findings}
                 merged == Merged(answer, findings)
                 before == Evaluated(answer, KnownRecords)
                 after  == Evaluated(merged, KnownRecords)
             IN  /\ \A c \in Claims :
                      LET cited == answer.citations[c]
                      IN  /\ \/ after.precision[c] = before.precision[c]
                             \/ NotWorse(after.precision[c],
                                         Precision(Once(RecordsOf(cited)), KnownRecords))
                          /\ Repeats(cited) \/ NotWorse(after.precision[c], before.precision[c])
                          /\ NotWorse(after.recall[c], before.recall[c])
                          /\ answer.values[c] # "absent" =>
                               CLAIM_REQUIREMENTS[c] \cap available \subseteq RecordsOf(merged.citations[c])
                 /\ \A metric \in DOMAIN after.passed :
                      /\ before.passed[metric] => after.passed[metric]
                      /\ metric \notin {"evidence_citation_precision", "evidence_citation_recall"} =>
                           after.passed[metric] = before.passed[metric]
  BY DEF MergeServesTheGrade
<1> DEFINE available == UNION {f.citations : f \in findings}
           merged == Merged(answer, findings)
           before == Evaluated(answer, KnownRecords)
           after  == Evaluated(merged, KnownRecords)
           Precise(a) == [c \in Claims |-> Precision(Cited(a, c), KnownRecords)]
           Complete(a) == [c \in Claims |-> Recall(c, Cited(a, c), KnownRecords)]
<1>1. answer \in Answers
  BY FinalsAssumption
<1>2. /\ merged.valid = answer.valid
      /\ merged.asserted = answer.asserted /\ merged.values = answer.values
      /\ merged.unsupported = answer.unsupported /\ merged.ambiguous = answer.ambiguous
      /\ \A c \in Claims : RecordsOf(merged.citations[c]) =
                            RecordsOf(answer.citations[c]) \cup Selected(answer, findings, c)
  BY <1>1, MergedShape
<1>3. \A a : /\ Evaluated(a, KnownRecords).precision = Precise(a)
             /\ Evaluated(a, KnownRecords).recall = Complete(a)
             /\ Evaluated(a, KnownRecords).passed = Passed(a, Precise(a), Complete(a))
  BY DEF Evaluated
<1>4. ASSUME NEW c \in Claims
      PROVE  /\ before.precision[c] = Precision(answer.citations[c], KnownRecords)
             /\ after.precision[c] = Precision(merged.citations[c], KnownRecords)
             /\ before.recall[c] = Recall(c, answer.citations[c], KnownRecords)
             /\ after.recall[c] = Recall(c, merged.citations[c], KnownRecords)
  <2>1. Cited(answer, c) = answer.citations[c] /\ Cited(merged, c) = merged.citations[c]
    BY <1>2 DEF Cited
  <2>2. /\ before.precision = Precise(answer) /\ after.precision = Precise(merged)
        /\ before.recall = Complete(answer) /\ after.recall = Complete(merged)
    BY <1>3
  <2> HIDE DEF merged, before, after
  <2> QED BY <2>1, <2>2
<1>5. ASSUME NEW c \in Claims
      PROVE  answer.values[c] # "absent" =>
               CLAIM_REQUIREMENTS[c] \cap available \subseteq RecordsOf(merged.citations[c])
  <2>1. CLAIM_REQUIREMENTS[c] \subseteq FINAL_CITATION_REQUIREMENTS[c]
    BY RequirementTables
  <2>2. answer.values[c] # "absent" =>
          Selected(answer, findings, c) = FINAL_CITATION_REQUIREMENTS[c] \cap available
    BY SameFields DEF Answered, Selected
  <2> HIDE DEF merged, available
  <2> QED BY <1>2, <2>1, <2>2
<1> HIDE DEF available, Precise, Complete
<1>6. \A c \in Claims :
        LET cited == answer.citations[c]
            more  == merged.citations[c]
            Score(list) == Precision(list, KnownRecords)
        IN  /\ Score(more) = Score(cited) \/ NotWorse(Score(more), Score(Once(RecordsOf(cited))))
            /\ Repeats(cited) \/ NotWorse(Score(more), Score(cited))
            /\ Whole(Score(cited)) => Whole(Score(more))
            /\ RecordsOf(cited) \subseteq RecordsOf(more)
  BY <1>1, FieldServed
<1> HIDE DEF merged, before, after
<1>7. ASSUME NEW c \in Claims
      PROVE  LET cited == answer.citations[c]
             IN  /\ \/ after.precision[c] = before.precision[c]
                    \/ NotWorse(after.precision[c], Precision(Once(RecordsOf(cited)), KnownRecords))
                 /\ Repeats(cited) \/ NotWorse(after.precision[c], before.precision[c])
                 /\ NotWorse(after.recall[c], before.recall[c])
  BY <1>4, <1>6, RecallKept
<1>8. \A a, p, r :
        /\ "evidence_citation_precision" \in DOMAIN Passed(a, p, r)
        /\ "evidence_citation_recall" \in DOMAIN Passed(a, p, r)
        /\ Passed(a, p, r)["evidence_citation_precision"] <=> \A c \in Claims : Whole(p[c])
        /\ Passed(a, p, r)["evidence_citation_recall"] <=> \A c \in Claims : Whole(r[c])
  BY DEF Passed
<1>9. /\ before.passed["evidence_citation_precision"] => after.passed["evidence_citation_precision"]
      /\ before.passed["evidence_citation_recall"] => after.passed["evidence_citation_recall"]
  <2>1. \A c \in Claims : Whole(before.precision[c]) => Whole(after.precision[c])
    BY <1>4, <1>6
  <2>2. \A c \in Claims : Whole(before.recall[c]) => Whole(after.recall[c])
    <3> SUFFICES ASSUME NEW c \in Claims, Whole(before.recall[c]) PROVE Whole(after.recall[c])
      OBVIOUS
    <3>1. CLAIM_REQUIREMENTS[c] \subseteq RecordsOf(answer.citations[c]) \cap KnownRecords
      BY <1>4, WholeRecall
    <3>2. CLAIM_REQUIREMENTS[c] \subseteq RecordsOf(merged.citations[c]) \cap KnownRecords
      BY <1>6, <3>1
    <3> QED BY <1>4, <3>2, WholeRecall
  <2>3. /\ before.passed = Passed(answer, before.precision, before.recall)
        /\ after.passed = Passed(merged, after.precision, after.recall)
    BY <1>3 DEF before, after
  <2> QED BY <1>8, <2>1, <2>2, <2>3
<1>10. ASSUME NEW metric \in DOMAIN after.passed,
              metric \notin {"evidence_citation_precision", "evidence_citation_recall"}
       PROVE  after.passed[metric] = before.passed[metric]
  <2>1. /\ before.passed = Passed(answer, Precise(answer), Complete(answer))
        /\ after.passed = Passed(merged, Precise(merged), Complete(merged))
    BY <1>3 DEF before, after
  <2>2. SameButCited(merged, answer)
    BY <1>2 DEF SameButCited
  <2>3. \A p, q, r, s :
          \A m \in DOMAIN Passed(merged, p, r) \
                {"evidence_citation_precision", "evidence_citation_recall"} :
            Passed(merged, p, r)[m] = Passed(answer, q, s)[m]
    BY <2>2, OtherMetricsKept
  <2> QED BY <1>10, <2>1, <2>3
<1>11. ASSUME NEW metric \in DOMAIN after.passed
       PROVE  /\ before.passed[metric] => after.passed[metric]
              /\ metric \notin {"evidence_citation_precision", "evidence_citation_recall"} =>
                   after.passed[metric] = before.passed[metric]
  BY <1>9, <1>10
<1> QED BY <1>5, <1>7, <1>11 DEF merged, before, after, available

\* The citations added to a final answer are sound, for every response, audit and
\* answer: none is invented, none that counts is left out, no recall and no metric
\* falls, and a precision only by as much as a list with repetitions loses with
\* them.
THEOREM CitationMergeAlwaysSound == Spec => []CitationMergeSound
<1>1. BuiltInv => CitationMergeSound
  BY NothingInvented, GradeServed DEF CitationMergeSound
<1> QED BY <1>1, BuiltInvInit, BuiltInvStep, PTL DEF Spec
=============================================================================
