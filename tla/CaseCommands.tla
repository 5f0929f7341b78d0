---------------------------- MODULE CaseCommands ----------------------------
(***************************************************************************)
(* What the commands that run a whole part of the workflow leave in        *)
(* memory: start, run, decide, resume and approve (runner.py,              *)
(* LocalWorkflowRunner.run in workflow.py), with the deterministic expert  *)
(* adapter they are always built with.  CaseLifecycle adds the files of    *)
(* one run directory, CaseReplay several directories and replay.           *)
(***************************************************************************)
EXTENDS CaseContext, SequencesExt

ASSUME RetryAssumption == MaxAttempts >= 2   \* an injected failure is retried

-----------------------------------------------------------------------------
(* What the commands compute, with the deterministic expert adapter        *)

RunExpert(c, role, f) ==
  IF role = "CommercialExpert" /\ f.injectFailure
    THEN ExecuteAttempt(ExecuteAttempt(c, role, 1, "failed"), role, 2, "completed")
    ELSE ExecuteAttempt(c, role, 1, "completed")

(* The finding experts in the Director's order, each if it is selected.    *)
Consulted(c, role, f) == IF role \in c.selections THEN RunExpert(c, role, f) ELSE c

Analysed(c, f) ==
  LET scheduled == Consulted(c, "ScheduleExpert", f)
      costed    == Consulted(scheduled, "CommercialExpert", f)
  IN  Consulted(costed, "RiskExpert", f)

(* run_until_human_gate                                                    *)
Started(f) ==
  LET triaged  == Triage(ValidateFixture(InitialContext, f), f)
      analysed == Analysed(Transition(triaged, "expert_analysis"), f)
  IN  IF "EvidenceAuditor" \in analysed.selections
        THEN ReviewContradictions(analysed, DetectOnsiteContradictions(f))
        ELSE SkipReview(analysed)

(* _plan_recovery returns, instead of raising                              *)
Plannable(c, f) ==
  "RecoveryPlanner" \in c.selections /\ c.contradictions # <<>> /\ ~f.slipNegative

Confirmation(actor) == [request |-> OnsiteRequest, outcome |-> "confirmed", by |-> actor]

(* LocalWorkflowRunner.run with both simulated decisions switched on       *)
RanToEnd(c, decider, approver) ==
  IF c.stage = "awaiting_human_decision"
    THEN ApproveFinal(PlanRecovery(LeaveHumanGate(
           RecordHumanDecision(c, Confirmation(decider)))), approver)
    ELSE c

(* LocalWorkflowRunner.run returns: with a gate, planning must succeed     *)
RunReturns(f) ==
  Started(f).stage = "awaiting_human_decision" => Plannable(Started(f), f)

-----------------------------------------------------------------------------
(* What a later command finds of the context an earlier one persisted      *)

(* The requests that are pending, or those that are not, in their order.   *)
Sifted(requests, pending) ==
  LET kept[n \in 0 .. Len(requests)] ==
        IF n = 0 THEN <<>>
        ELSE IF (requests[n].status = "pending") # pending THEN kept[n - 1]
        ELSE Append(kept[n - 1], requests[n])
  IN  kept[Len(requests)]

(* A Fault_ operator is a plausible slip in the definition after it; none  *)
(* is part of the model.  Here: only the answered requests come back.      *)
Fault_Reloaded(c) == [c EXCEPT !.humanRequests = Sifted(@, FALSE)]

(* Fault: the audit recorder starts empty.                                 *)
Fault_ReloadedEvents(c) == [c EXCEPT !.events = <<>>]

(* context_to_persisted_state followed by context_from_persisted_state:    *)
(* the requests come back with the pending ones in front.                  *)
Reloaded(c) == [c EXCEPT !.humanRequests = Sifted(@, TRUE) \o Sifted(@, FALSE)]
=============================================================================
