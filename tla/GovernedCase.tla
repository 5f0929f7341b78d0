---------------------------- MODULE GovernedCase ----------------------------
(***************************************************************************)
(* What the deterministic workflow promises to the people who govern a     *)
(* case, with nothing of how it is done: a recommendation is authorized    *)
(* only after the case was put to a human, the human answered, a draft was *)
(* planned from that answer, and an approver then approved the draft.      *)
(* CaseWorkflow implements it.                                             *)
(***************************************************************************)
CONSTANT Actors

VARIABLES
  phase,      \* how far the case has come
  deciders,   \* the people who answered the human gate
  approvers   \* the people who approved the recommendation

vars == <<phase, deciders, approvers>>

Phases == {"open", "gated", "planning", "drafted", "authorized", "abandoned"}

TypeOK ==
  /\ phase \in Phases
  /\ deciders \subseteq Actors
  /\ approvers \subseteq Actors

Init ==
  /\ phase = "open"
  /\ deciders = {}
  /\ approvers = {}

(* The case has a contradiction only a human can settle.                   *)
Gate ==
  /\ phase = "open"
  /\ phase' = "gated"
  /\ UNCHANGED <<deciders, approvers>>

(* The case is left in planning without having been gated.                 *)
PassUngated ==
  /\ phase = "open"
  /\ phase' = "planning"
  /\ UNCHANGED <<deciders, approvers>>

Abandon ==
  /\ phase = "open"
  /\ phase' = "abandoned"
  /\ UNCHANGED <<deciders, approvers>>

(* One answer only.                                                        *)
Decide(a) ==
  /\ phase = "gated"
  /\ deciders = {}
  /\ deciders' = {a}
  /\ UNCHANGED <<phase, approvers>>

Plan ==
  /\ phase = "gated"
  /\ deciders # {}
  /\ phase' \in {"planning", "drafted"}
  /\ UNCHANGED <<deciders, approvers>>

DecideAndPlan(a) ==
  /\ phase = "gated"
  /\ deciders = {}
  /\ deciders' = {a}
  /\ phase' \in {"planning", "drafted"}
  /\ UNCHANGED approvers

Authorize(a) ==
  /\ phase = "drafted"
  /\ phase' = "authorized"
  /\ approvers' = {a}
  /\ UNCHANGED deciders

Next ==
  \/ Gate
  \/ PassUngated
  \/ Abandon
  \/ Plan
  \/ \E a \in Actors : Decide(a) \/ DecideAndPlan(a) \/ Authorize(a)

Spec == Init /\ [][Next]_vars
=============================================================================
