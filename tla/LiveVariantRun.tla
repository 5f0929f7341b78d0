--------------------------- MODULE LiveVariantRun ---------------------------
(***************************************************************************)
(* One controlled live run: a LiveVariantRun object that asks the agents   *)
(* of its variant one after the other through the Qwen client, under the   *)
(* limits of LiveRunControls, and then writes its artifacts                *)
(* (src/project_recovery_council/live_variant_runner.py).                  *)
(*                                                                         *)
(* A response is abstracted to what the control flow asks of it: whether   *)
(* the client completed it, the roles a routing selects, whether a         *)
(* specialist's finding passes the validators, whom the auditor overrules, *)
(* whether findings disagree, whether the final answer has the schema that *)
(* can be evaluated.  A role has one finding instead of several claims.    *)
(* Prompts, identifiers, metrics and citations are left out.               *)
(***************************************************************************)
EXTENDS QwenClient, SequencesExt

CONSTANTS
  Variants,    \* variants an instance runs
  Controls,    \* LiveRunControls an instance runs under
  Routings,    \* selected_experts of the Director's responses
  Usages       \* tokens the provider charges for a response

Specialists == {"ScheduleExpert", "CommercialExpert", "EvidenceAuditor", "RiskExpert"}
Selectable  == Specialists \ {"EvidenceAuditor"}
FinalRoles  == {"GeneralistAgent", "RecoveryPlanner"}
AgentRoles  == Specialists \cup FinalRoles \cup {"DirectorAgent", "ArbiterAgent"}

ASSUME VariantsAssumption ==
  Variants \subseteq {"single_generalist", "fixed_expert_chain", "dynamic_expert_council"}
(* An optional limit is the set of its value, or empty.                    *)
ASSUME ControlsAssumption ==
  \A limits \in Controls :
    /\ limits.count \in Nat \ {0} /\ limits.retries \in Nat /\ limits.timed \in BOOLEAN
    /\ \A optional \in {limits.stopAfter, limits.input, limits.output} :
         \E n \in optional \cup {0} : optional \subseteq {n} /\ n \in Nat
    /\ 0 \notin limits.stopAfter
ASSUME RoutingsAssumption == Routings \subseteq Seq(Specialists \cup {"unknown"})
ASSUME UsagesAssumption == Usages \subseteq [input : Nat, output : Nat]

VARIABLES
  variant,     \* fixed for a run
  controls,    \* fixed for a run
  step,        \* where the run_ method of the variant stands
  todo,        \* specialists it still has to ask
  run,         \* the attributes of the LiveVariantRun object
  late,        \* more time than max_elapsed_seconds has passed
  published    \* the summary written with the artifacts

runVars == <<variant, controls, step, todo, run, late, published>>
vars == <<runVars, keyPresent, call>>

-----------------------------------------------------------------------------
NewRun ==
  [invocations |-> <<>>,   \* role and finish status of each result
   checks      |-> <<>>,   \* role and verdict of each validated specialist
   overruled   |-> {},     \* roles whose finding the auditor contradicts
   handoffs    |-> <<>>,   \* synthesis handoffs built
   arbitration |-> <<>>,   \* whether findings disagreed
   tokens      |-> [input |-> 0, output |-> 0],
   evaluated   |-> FALSE,
   stopped     |-> "none",
   failed      |-> FALSE]

FirstStep(v) ==
  CASE v = "single_generalist"      -> "generalist"
    [] v = "fixed_expert_chain"     -> "specialists"
    [] v = "dynamic_expert_council" -> "director"

FixedChain == <<"ScheduleExpert", "CommercialExpert", "EvidenceAuditor", "RiskExpert">>

Unpublished == [status |-> "none"]

Init ==
  /\ variant \in Variants
  /\ controls \in Controls
  /\ step = FirstStep(variant)
  /\ todo = IF variant = "fixed_expert_chain" THEN FixedChain ELSE <<>>
  /\ run = NewRun
  /\ late = FALSE
  /\ published = Unpublished
  /\ keyPresent = TRUE
  /\ call = IdleCall

(* The agent the next call of _invoke asks.                                *)
NextRole ==
  CASE step = "generalist"  -> "GeneralistAgent"
    [] step = "director"    -> "DirectorAgent"
    [] step = "specialists" -> Head(todo)
    [] step = "arbitration" -> "ArbiterAgent"
    [] step = "planning"    -> "RecoveryPlanner"

Asking == step \in {"generalist", "director", "specialists", "arbitration", "planning"}

-----------------------------------------------------------------------------
(* Limits *)

Exceeds(limit, total) == \E n \in limit : total > n

(* Those _invoke looks at after a result, in its order: a later one        *)
(* overwrites an earlier one.                                              *)
LimitOrder ==
  <<"stop_after_invocation", "max_total_input_tokens", "max_total_output_tokens",
    "max_elapsed_seconds", "max_retries_per_invocation">>

Exceeded(limit, r, retries) ==
  CASE limit = "stop_after_invocation"      ->
         \E n \in controls.stopAfter : Len(r.invocations) >= n
    [] limit = "max_total_input_tokens"     -> Exceeds(controls.input, r.tokens.input)
    [] limit = "max_total_output_tokens"    -> Exceeds(controls.output, r.tokens.output)
    [] limit = "max_elapsed_seconds"        -> late
    [] limit = "max_retries_per_invocation" -> retries > controls.retries
    [] limit = "max_invocation_count"       -> Len(r.invocations) >= controls.count

(* A Fault_ operator is a plausible slip in the definition after it; none  *)
(* is part of the model.  Here: the last limit looked at decides alone.    *)
Fault_StoppedBy(r, retries) ==
  IF Exceeded(Last(LimitOrder), r, retries) THEN Last(LimitOrder) ELSE r.stopped

StoppedBy(r, retries) ==
  LET exceeded == {i \in DOMAIN LimitOrder : Exceeded(LimitOrder[i], r, retries)}
  IN  IF exceeded = {} THEN r.stopped ELSE LimitOrder[Max(exceeded)]

Halted(r) == r.stopped # "none" \/ r.failed

(* Fault: a limit recorded after an invocation is not looked at again.     *)
Fault_MayStart ==
  /\ ~run.failed
  /\ \A limit \in {"max_invocation_count", "max_elapsed_seconds"} : ~Exceeded(limit, run, 0)

(* Fault: the invocations are not counted.                                 *)
Fault_Unbounded == ~Halted(run) /\ ~Exceeded("max_elapsed_seconds", run, 0)

MayStart ==
  /\ ~Halted(run)
  /\ \A limit \in {"max_invocation_count", "max_elapsed_seconds"} : ~Exceeded(limit, run, 0)

RefusedBy ==
  IF Halted(run) THEN run.stopped
  ELSE IF Exceeded("max_invocation_count", run, 0) THEN "max_invocation_count"
  ELSE "max_elapsed_seconds"

-----------------------------------------------------------------------------
(* _invoke: begin the call of the client, or refuse and end the run *)

StartInvocation ==
  /\ Asking
  /\ call.phase = "idle"
  /\ MayStart
  /\ call' = Begun
  /\ UNCHANGED <<runVars, keyPresent>>

(* Fault: the refusal is not passed on to the caller of _invoke.           *)
Fault_RefuseInvocation ==
  /\ Asking
  /\ call.phase = "idle"
  /\ ~MayStart
  /\ run' = [run EXCEPT !.stopped = RefusedBy]
  /\ UNCHANGED <<variant, controls, step, todo, late, published, keyPresent, call>>

RefuseInvocation ==
  /\ Asking
  /\ call.phase = "idle"
  /\ ~MayStart
  /\ run' = [run EXCEPT !.stopped = RefusedBy]
  /\ step' = "over"
  /\ UNCHANGED <<variant, controls, todo, late, published, keyPresent, call>>

(* What _invoke records of a result that charges usage.                    *)
WithResult(role, usage) ==
  LET recorded == [run EXCEPT
        !.invocations = Append(@, [role |-> role, status |-> call.result.status]),
        !.tokens      = [input |-> @.input + usage.input, output |-> @.output + usage.output],
        !.failed      = @ \/ call.result.status # "completed"]
  IN  [recorded EXCEPT !.stopped = StoppedBy(recorded, call.result.retries)]

(* Token counts are absent from a result without a response.               *)
UsagesOf(result) ==
  IF HasResponse(result.status) THEN Usages ELSE {[input |-> 0, output |-> 0]}

Returned == call.phase = "returned" /\ call' = IdleCall

(* _set_final_result: an answer that carries the recovery schema is        *)
(* evaluated, even when it failed validation.                              *)
ReceiveFinal ==
  /\ step \in {"generalist", "planning"}
  /\ Returned
  /\ \E usage \in UsagesOf(call.result), evaluable \in BOOLEAN :
       /\ evaluable => HasResponse(call.result.status)
       /\ run' = [WithResult(NextRole, usage) EXCEPT !.evaluated = evaluable,
                                                     !.failed = @ \/ ~evaluable]
  /\ step' = "over"
  /\ UNCHANGED <<variant, controls, todo, late, published, keyPresent>>

(* _director_selected_roles: duplicates and the auditor are dropped.       *)
SelectedRoles(routing) ==
  LET kept[n \in 0 .. Len(routing)] ==
        IF n = 0 THEN <<>>
        ELSE IF routing[n] \in Selectable \ ToSet(kept[n - 1]) THEN Append(kept[n - 1], routing[n])
        ELSE kept[n - 1]
  IN  kept[Len(routing)]

RoutingAccepted(routing) ==
  "unknown" \notin ToSet(routing) /\ SelectedRoles(routing) # <<>>

ReceiveRouting ==
  /\ step = "director"
  /\ Returned
  /\ \E usage \in UsagesOf(call.result) :
       LET next == WithResult("DirectorAgent", usage)
       IN  IF call.result.status # "completed"
             THEN run' = next /\ step' = "over" /\ UNCHANGED todo
             ELSE \E routing \in Routings :
                    IF RoutingAccepted(routing)
                      THEN /\ run' = next
                           /\ todo' = Append(SelectedRoles(routing), "EvidenceAuditor")
                           /\ step' = "specialists"
                      ELSE /\ run' = [next EXCEPT !.failed = TRUE]
                           /\ step' = "over"
                           /\ UNCHANGED todo
  /\ UNCHANGED <<variant, controls, late, published, keyPresent>>

(* _invoke_specialist: every result is validated, failed ones included;    *)
(* only a completed one can be sound, or overrule others.                  *)
ReceiveFinding ==
  /\ step = "specialists"
  /\ Returned
  /\ \E usage \in UsagesOf(call.result), sound \in BOOLEAN, overruled \in SUBSET Selectable :
       /\ sound => call.result.status = "completed"
       /\ overruled # {} => NextRole = "EvidenceAuditor" /\ call.result.status = "completed"
       /\ run' = [WithResult(NextRole, usage) EXCEPT
                    !.checks = Append(@, [role |-> NextRole, sound |-> sound]),
                    !.overruled = @ \cup overruled]
  /\ todo' = Tail(todo)
  /\ step' = IF Halted(run') THEN "over" ELSE IF todo' = <<>> THEN "synthesis" ELSE step
  /\ UNCHANGED <<variant, controls, late, published, keyPresent>>

(* build_synthesis_handoff hands on the sound findings nobody overruled.   *)
Sound(r) ==
  {role \in Specialists : \E i \in DOMAIN r.checks : r.checks[i] = [role |-> role, sound |-> TRUE]}

Eligible(r) == Sound(r) \ r.overruled

HandedTo(r, target) ==
  [r EXCEPT !.handoffs = Append(@, [target |-> target, findings |-> Eligible(r)])]

(* Fault: the arbiter is asked whether or not findings disagree, and the   *)
(* planner gets the handoff of the arbiter.                                *)
Fault_Arbitrate ==
  /\ step = "synthesis"
  /\ variant = "dynamic_expert_council"
  /\ \E disagree \in BOOLEAN :
       /\ run' = [HandedTo(run, "ArbiterAgent") EXCEPT !.arbitration = Append(@, disagree)]
       /\ step' = IF disagree THEN "arbitration" ELSE "planning"
  /\ UNCHANGED <<variant, controls, todo, late, published, keyPresent, call>>

(* The council asks the arbiter only when eligible findings disagree.      *)
Arbitrate ==
  /\ step = "synthesis"
  /\ variant = "dynamic_expert_council"
  /\ \E disagree \in BOOLEAN :
       LET judged == [HandedTo(run, "ArbiterAgent") EXCEPT !.arbitration = Append(@, disagree)]
       IN  /\ disagree => Eligible(run) # {}
           /\ run' = IF disagree THEN judged ELSE HandedTo(judged, "RecoveryPlanner")
           /\ step' = IF disagree THEN "arbitration" ELSE "planning"
  /\ UNCHANGED <<variant, controls, todo, late, published, keyPresent, call>>

Synthesize ==
  /\ step = "synthesis"
  /\ variant = "fixed_expert_chain"
  /\ run' = HandedTo(run, "RecoveryPlanner")
  /\ step' = "planning"
  /\ UNCHANGED <<variant, controls, todo, late, published, keyPresent, call>>

ReceiveArbitration ==
  /\ step = "arbitration"
  /\ Returned
  /\ \E usage \in UsagesOf(call.result) :
       LET next == WithResult("ArbiterAgent", usage)
       IN  IF Halted(next) THEN run' = next /\ step' = "over"
           ELSE run' = HandedTo(next, "RecoveryPlanner") /\ step' = "planning"
  /\ UNCHANGED <<variant, controls, todo, late, published, keyPresent>>

(* The exception nobody catches ends the program before anything is        *)
(* written.                                                                *)
Crash ==
  /\ call.phase = "raised"
  /\ call' = IdleCall
  /\ step' = "crashed"
  /\ UNCHANGED <<variant, controls, todo, run, late, published, keyPresent>>

-----------------------------------------------------------------------------
(* summary and write_live_variant_artifacts *)

(* Fault: an evaluation is taken for completion.                           *)
Fault_Completed(r) == r.evaluated

Completed(r) == r.evaluated /\ r.stopped = "none" /\ ~r.failed

Status(r) ==
  IF r.failed /\ r.stopped = "none" THEN "failed"
  ELSE IF Completed(r) THEN "completed" ELSE "incomplete"

Executed(r) ==
  /\ r.invocations # <<>>
  /\ \A i \in DOMAIN r.invocations : r.invocations[i].status = "completed"
  /\ r.stopped = "none"

(* Artifacts that fail their own inspection are marked unusable.           *)
Publish ==
  /\ step = "over"
  /\ \E passed \in BOOLEAN :
       published' = [status |-> Status(run), completed |-> Completed(run),
                     stopped |-> run.stopped, executed |-> Executed(run),
                     usable |-> Completed(run) /\ passed]
  /\ step' = "published"
  /\ UNCHANGED <<variant, controls, todo, run, late, keyPresent, call>>

(* Time passes while the run lasts.                                        *)
TimePasses ==
  /\ controls.timed
  /\ ~late
  /\ step \notin {"over", "published", "crashed"}
  /\ late' = TRUE
  /\ UNCHANGED <<variant, controls, step, todo, run, published, keyPresent, call>>

Proceed ==
  \/ StartInvocation \/ RefuseInvocation
  \/ Serve /\ UNCHANGED runVars
  \/ ReceiveFinal \/ ReceiveRouting \/ ReceiveFinding \/ ReceiveArbitration
  \/ Arbitrate \/ Synthesize
  \/ Crash \/ Publish

Next == Proceed \/ TimePasses

(* The program keeps going and every post has a timeout; time may pass at  *)
(* any pace.                                                               *)
Spec == Init /\ [][Next]_vars /\ WF_vars(Proceed)

-----------------------------------------------------------------------------
(* Properties *)

Summaries ==
  [status : {"completed", "incomplete", "failed"}, completed : BOOLEAN,
   stopped : ToSet(LimitOrder) \cup {"none", "max_invocation_count"},
   executed : BOOLEAN, usable : BOOLEAN]

\* Every variable has its type; in particular a run makes no more invocations
\* than max_invocation_count.
TypeOK ==
  /\ CallTypeOK
  /\ variant \in Variants /\ controls \in Controls
  /\ Asking \/ step \in {"synthesis", "over", "published", "crashed"}
  /\ todo \in Seq(Specialists)
  /\ run.invocations \in Seq([role : AgentRoles, status : FinishStatus])
  /\ Len(run.invocations) <= controls.count
  /\ run.checks \in Seq([role : Specialists, sound : BOOLEAN])
  /\ run.overruled \subseteq Selectable
  /\ run.handoffs \in Seq([target : AgentRoles, findings : SUBSET Specialists])
  /\ run.arbitration \in Seq(BOOLEAN)
  /\ run.tokens.input \in Nat /\ run.tokens.output \in Nat
  /\ run.stopped \in ToSet(LimitOrder) \cup {"none", "max_invocation_count"}
  /\ published = Unpublished \/ published \in Summaries

\* The provider is not contacted again once a limit was hit or a result failed:
\* whatever the order of limits, failures and passing time, no call is in
\* progress in a halted run.
NoContactAfterStop == Halted(run) => call.phase = "idle"

\* Only the last invocation may break a limit or fail: when a new one begins,
\* the results so far completed, the token totals are within their limits and
\* the invocation to stop after has not been made.
OvershootByOneAtMost ==
  call.phase # "idle" =>
    /\ \A i \in DOMAIN run.invocations : run.invocations[i].status = "completed"
    /\ \A limit \in {"stop_after_invocation", "max_total_input_tokens",
                      "max_total_output_tokens", "max_invocation_count"} :
         ~Exceeded(limit, run, 0)

RolesAsked == {run.invocations[i].role : i \in DOMAIN run.invocations}

\* The planner is grounded: it is asked with the handoff addressed to it, which
\* holds exactly the sound findings nobody overruled; every specialist was
\* validated once, in the order asked, the auditor among them; and the arbiter
\* was asked exactly when findings disagreed.
PlannerGrounded ==
  (step = "planning" /\ call.phase # "idle") =>
    LET asked  == {i \in DOMAIN run.invocations : run.invocations[i].role \in Specialists}
        nth(i) == Cardinality({j \in asked : j <= i})
    IN  /\ Last(run.handoffs) = [target |-> "RecoveryPlanner", findings |-> Eligible(run)]
        /\ Cardinality(asked) = Len(run.checks)
        /\ \A i \in asked : run.invocations[i].role = run.checks[nth(i)].role
        /\ IsInjective(run.checks)
        /\ "EvidenceAuditor" \in RolesAsked /\ RolesAsked \cap Selectable # {}
        /\ ("ArbiterAgent" \in RolesAsked) <=> (TRUE \in ToSet(run.arbitration))

AnyExceeded ==
  \E limit \in {"stop_after_invocation", "max_total_input_tokens", "max_total_output_tokens"} :
    Exceeded(limit, run, 0)

(* A run called completed ends with a final response after results that    *)
(* all completed and broke no limit.                                       *)
CompletionHonest ==
  (published.completed \/ published.usable) =>
    /\ published.completed /\ published.executed /\ published.status = "completed"
    /\ Last(run.invocations).role \in FinalRoles
    /\ \A i \in DOMAIN run.invocations : run.invocations[i].status = "completed"
    /\ ~AnyExceeded

(* The limit on record was really exceeded, and none was in silence.       *)
LimitHonest ==
  /\ published.stopped \notin {"none", "max_retries_per_invocation"} =>
       Exceeded(published.stopped, run, 0)
  /\ published.stopped # "none" => published.status = "incomplete"
  /\ AnyExceeded => published.stopped # "none"

\* The summary is honest: only a run that completed, with a final response and
\* within its limits, is called completed or usable for the comparison, and the
\* limit that ended a run is recorded, although each one found overwrites the one
\* found before it.
SummaryHonest == published # Unpublished => CompletionHonest /\ LimitHonest

\* A run ends: its artifacts are written or an exception ended the program,
\* whatever the provider answers and the limits are.
RunEnds == <>(step \in {"published", "crashed"})

(* A statement the documentation makes and the code does not keep          *)

\* docs/DYNAMIC_COUNCIL_GOVERNANCE_POLICY.md: failed empirical runs preserve
\* provider outputs and validation errors.  A run that ended after the provider
\* gave results has written them.
FailedRunPreserved ==
  (step = "crashed" /\ run.invocations # <<>>) => published # Unpublished
=============================================================================
