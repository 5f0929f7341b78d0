-------------------------- MODULE MCExperimentStore --------------------------
(***************************************************************************)
(* Bounds for ExperimentStore: which runs the live commands come to.       *)
(***************************************************************************)
EXTENDS ExperimentStore, TLC

LiveRun(variant, completed, sound) ==
  [kind |-> "variant", variant |-> variant, model |-> "qwen-plus", completed |-> completed,
   sound |-> sound, handoff |-> variant # "single_generalist", evaluated |-> completed, of |-> 0]

AgentRun == [LiveRun("dynamic_expert_council", FALSE, TRUE) EXCEPT !.kind = "agent", !.handoff = FALSE]

(* A completed run, one that fails its own inspection and one agent asked  *)
(* alone, whose rebuild is a run without a handoff.                        *)
SomeOutcomes ==
  {LiveRun("fixed_expert_chain", TRUE, TRUE),
   LiveRun("fixed_expert_chain", TRUE, FALSE),
   AgentRun}

OneOutcome == {LiveRun("single_generalist", TRUE, TRUE)}

FewOutcomes == {LiveRun("fixed_expert_chain", TRUE, TRUE), LiveRun("fixed_expert_chain", TRUE, FALSE)}

TwoModels ==
  {LiveRun(v, TRUE, TRUE) : v \in Variants}
  \cup {[LiveRun(v, TRUE, TRUE) EXCEPT !.model = "qwen-max"] : v \in Variants}

Symmetric == Permutations(LivePlaces)
Alike == Permutations(LivePlaces) \cup Permutations(Processes)
=============================================================================
