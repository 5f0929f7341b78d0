-------------------------- MODULE MCLiveVariantRun --------------------------
(***************************************************************************)
(* Bounds for LiveVariantRun: the three variants under limits that are hit *)
(* at different places, and routings of every kind.                        *)
(***************************************************************************)
EXTENDS LiveVariantRun

AllVariants == {"single_generalist", "fixed_expert_chain", "dynamic_expert_council"}

(* Room for every invocation of every variant, no other limit.             *)
Ample ==
  [count |-> 8, stopAfter |-> {}, input |-> {}, output |-> {}, retries |-> 1, timed |-> FALSE]

(* Each limit hit before, at or after the last invocation of a variant.    *)
SomeControls ==
  {[Ample EXCEPT !.timed = TRUE],
   [Ample EXCEPT !.count = 3, !.retries = 0],
   [Ample EXCEPT !.stopAfter = {1}],
   [Ample EXCEPT !.stopAfter = {5}],
   [Ample EXCEPT !.input = {2}, !.output = {1}]}

SomeRoutings ==
  {<<>>, <<"EvidenceAuditor">>, <<"RiskExpert", "unknown">>,
   <<"ScheduleExpert">>,
   <<"CommercialExpert", "EvidenceAuditor", "RiskExpert", "CommercialExpert">>,
   <<"ScheduleExpert", "CommercialExpert", "RiskExpert">>}

(* For the crash: fewer limits, routings and charges.                      *)
FewControls == {Ample, [Ample EXCEPT !.count = 3, !.timed = TRUE]}

FewRoutings == {<<"RiskExpert", "unknown">>, <<"CommercialExpert", "RiskExpert">>}

NoCharge == {[input |-> 0, output |-> 0]}

SomeUsages == {[input |-> 0, output |-> 0], [input |-> 1, output |-> 1]}
=============================================================================
