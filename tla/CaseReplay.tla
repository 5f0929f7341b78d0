----------------------------- MODULE CaseReplay -----------------------------
(***************************************************************************)
(* Several run directories of one case and the replay of one into another  *)
(* (replay_run in runner.py, compare_run_artifacts in serialization.py),   *)
(* next to the commands that make and continue runs.                       *)
(*                                                                         *)
(* A command is one step here; CaseLifecycle takes the writing of its      *)
(* files apart.  Replay is two, because it compares the original as it is  *)
(* after the copy was run and written: other commands, an edit of the case *)
(* bundle or a kill may come in between.  Every command reads the bundle   *)
(* at the path it was given, or that the state remembers, as it is then.   *)
(***************************************************************************)
EXTENDS CaseCommands

CONSTANTS
  Places,     \* run directories
  Cases,      \* the contents the case bundle takes on: its facts and figures
  InPlace,    \* whether a replay may be told to write onto its original
  MaxFresh,   \* bound: runs made by start, run and replay in a behaviour
  MaxEdits    \* bound: edits of the case bundle in a behaviour

SimulatedHuman    == "simulated-human"
SimulatedApprover == "simulated-approver"

ASSUME CasesAssumption ==
  \A one \in Cases : one.facts \in Facts /\ ~one.facts.injectFailure /\ one.figures \in Nat
ASSUME ActorsAssumption == {SimulatedHuman, SimulatedApprover} \subseteq Actors
ASSUME BoundsAssumption == InPlace \in BOOLEAN /\ MaxFresh \in Nat /\ MaxEdits \in Nat

VARIABLES
  bundle,  \* the case bundle on disk
  runs,    \* the run directories
  replay,  \* the replay process, between writing the copy and comparing
  fresh,   \* runs made so far, up to MaxFresh
  edits    \* edits so far, up to MaxEdits

vars == <<bundle, runs, replay, fresh, edits>>

-----------------------------------------------------------------------------
(* A run directory: the persisted context, the flag in its replay input,   *)
(* the figures its findings and its recommendation state, and the verdict  *)
(* in replay-comparison.json; number tells runs of the same name apart.    *)

NoFigures == 0
NoRun == [exists |-> FALSE]

NewRun(c, inject, figures) ==
  [exists |-> TRUE, number |-> fresh + 1, ctx |-> c, inject |-> inject, found |-> figures,
   planned |-> IF c.draft.status = "none" THEN NoFigures ELSE figures,
   verdict |-> "none"]

Exists(place) == runs[place].exists
Persisted(place) == Reloaded(runs[place].ctx)

(* Fault: where a run ended up and what it recommends is all that counts.  *)
Fault_LogicalSignature(run) ==
  [status |-> run.ctx.stage, recommendation |-> run.ctx.final,
   figures |-> IF run.ctx.final.status = "none" THEN NoFigures ELSE run.planned]

(* Of the findings, a completed commercial one alone states money figures. *)
Priced(findings) ==
  \E i \in DOMAIN findings :
    findings[i].role = "CommercialExpert" /\ findings[i].status = "completed"

(* What two runs are compared by: neither the audit trail nor the draft.   *)
(* That finding, the options and the recommendation state figures.         *)
LogicalSignature(run) ==
  [status |-> run.ctx.stage, selected |-> run.ctx.selections, findings |-> run.ctx.findings,
   contradictions |-> run.ctx.contradictions, requests |-> Reloaded(run.ctx).humanRequests,
   decisions |-> run.ctx.decisions, recommendation |-> run.ctx.final,
   figures |-> <<IF Priced(run.ctx.findings) THEN run.found ELSE NoFigures, run.planned>>]

Equivalent(one, other) == LogicalSignature(one) = LogicalSignature(other)

(* What the process has read of replay-input.json stays with it.  copy is  *)
(* the number of the run it wrote.                                         *)
NoReplay == [from |-> "none", to |-> "none", copy |-> 0, inject |-> FALSE, decisions |-> <<>>]

Replaying(from, to) ==
  [from |-> from, to |-> to, copy |-> fresh + 1, inject |-> runs[from].inject, decisions |-> runs[from].ctx.decisions]

Init ==
  /\ bundle \in Cases
  /\ runs = [place \in Places |-> NoRun]
  /\ replay = NoReplay
  /\ fresh = 0
  /\ edits = 0

-----------------------------------------------------------------------------
(* The commands of one run directory *)

WithInjection(inject) == [bundle.facts EXCEPT !.injectFailure = inject]

(* Fault: run leaves the injection to start.                               *)
Fault_Results(command, inject) ==
  IF bundle.facts.issues THEN {}
  ELSE IF command = "start" THEN {Started(WithInjection(inject))}
  ELSE IF RunReturns(bundle.facts)
    THEN {RanToEnd(Started(bundle.facts), SimulatedHuman, SimulatedApprover)}
  ELSE {}

(* What start and run come to; nothing when they raise.                    *)
Results(command, inject) ==
  LET f == WithInjection(inject)
  IN  IF f.issues THEN {}
      ELSE IF command = "start" THEN {Started(f)}
      ELSE IF RunReturns(f) THEN {RanToEnd(Started(f), SimulatedHuman, SimulatedApprover)}
      ELSE {}

(* A directory that exists is refused, or taken away before anything else. *)
Make(place, command, inject, replace) ==
  /\ fresh < MaxFresh
  /\ Exists(place) => replace
  /\ LET results == Results(command, inject)
     IN  \/ results = {} /\ runs' = [runs EXCEPT ![place] = NoRun]
         \/ \E c \in results :
              runs' = [runs EXCEPT ![place] = NewRun(c, inject, bundle.figures)]
  /\ fresh' = fresh + 1

MakeRun(place) ==
  /\ \E command \in {"start", "run"}, inject, replace \in BOOLEAN :
       Make(place, command, inject, replace)
  /\ UNCHANGED <<bundle, replay, edits>>

(* decide, resume and approve rewrite the run's files; a verdict stays.    *)
Continue(place, c) ==
  /\ runs' = [runs EXCEPT ![place].ctx = c]
  /\ UNCHANGED <<bundle, replay, fresh, edits>>

Decide(place, actor) ==
  /\ Exists(place)
  /\ CanRecordDecision(Persisted(place), Confirmation(actor))
  /\ Continue(place, RecordHumanDecision(Persisted(place), Confirmation(actor)))

(* The planner works from the bundle, not from the persisted findings.     *)
Resume(place) ==
  /\ Exists(place)
  /\ CanResume(Persisted(place))
  /\ Plannable(Persisted(place), bundle.facts)
  /\ runs' = [runs EXCEPT ![place].ctx = PlanRecovery(LeaveHumanGate(Persisted(place))),
                          ![place].planned = bundle.figures]
  /\ UNCHANGED <<bundle, replay, fresh, edits>>

Approve(place, actor) ==
  /\ Exists(place)
  /\ CanApprove(Persisted(place))
  /\ Continue(place, ApproveFinal(Persisted(place), actor))

(* Somebody edits the files of the case.                                   *)
EditCase ==
  /\ edits < MaxEdits
  /\ bundle' \in Cases \ {bundle}
  /\ edits' = edits + 1
  /\ UNCHANGED <<runs, replay, fresh>>

-----------------------------------------------------------------------------
(* replay *)

(* The replay input is read, the case run with it and the copy written.    *)
RunCopy(from, to, replace) ==
  /\ replay = NoReplay
  /\ Exists(from)
  /\ from = to => InPlace
  /\ Make(to, "run", runs[from].inject, replace)
  /\ replay' = IF runs'[to].exists THEN Replaying(from, to) ELSE NoReplay
  /\ UNCHANGED <<bundle, edits>>

(* A directory that has gone in the meantime ends the process.             *)
CompareRuns ==
  /\ replay # NoReplay
  /\ \/ /\ Exists(replay.from) /\ Exists(replay.to)
        /\ runs' = [runs EXCEPT ![replay.to].verdict =
             IF Equivalent(runs[replay.from], runs[replay.to]) THEN "equivalent" ELSE "different"]
     \/ ~(Exists(replay.from) /\ Exists(replay.to)) /\ UNCHANGED runs
  /\ replay' = NoReplay
  /\ UNCHANGED <<bundle, fresh, edits>>

KillReplay ==
  /\ replay # NoReplay
  /\ replay' = NoReplay
  /\ UNCHANGED <<bundle, runs, fresh, edits>>

Next ==
  \/ \E place \in Places : MakeRun(place) \/ Resume(place)
  \/ \E place \in Places, actor \in Actors : Decide(place, actor) \/ Approve(place, actor)
  \/ \E from, to \in Places, replace \in BOOLEAN : RunCopy(from, to, replace)
  \/ EditCase \/ CompareRuns \/ KillReplay

Spec == Init /\ [][Next]_vars

-----------------------------------------------------------------------------
(* Properties *)

FigureSet == {NoFigures} \cup {one.figures : one \in Cases}

\* Every variable has its type.
TypeOK ==
  /\ bundle \in Cases
  /\ \A place \in Places : Exists(place) =>
       /\ runs[place].ctx \in Contexts
       /\ runs[place].inject \in BOOLEAN
       /\ {runs[place].found, runs[place].planned} \subseteq FigureSet
       /\ runs[place].verdict \in {"none", "equivalent", "different"}
  /\ replay # NoReplay => {replay.from, replay.to} \subseteq Places
  /\ fresh \in 0 .. MaxFresh /\ edits \in 0 .. MaxEdits

(* The step compares the run one with the copy that was written and finds  *)
(* verdict.                                                                *)
Finds(verdict, one, copy) ==
  /\ replay # NoReplay
  /\ CompareRuns
  /\ one.exists /\ copy.exists /\ copy.number = replay.copy
  /\ runs'[replay.to].verdict = verdict

\* What is called equivalent is the same run, also where the comparison does not
\* look: although it reads neither the audit trail nor the expert requests nor
\* the draft (logical_signature_from_run), these are the same in both runs,
\* whatever was edited, replaced or continued before the comparison.  And as a
\* replay decides and reads for itself, a run that real people decided, or whose
\* recommendation states other figures than its commercial finding because it was
\* resumed after the bundle was edited, is not vouched for.
EquivalentIsSameRun ==
  [][\A from, to \in Places :
       (replay.from = from /\ replay.to = to /\ Finds("equivalent", runs[from], runs[to])) =>
         /\ runs[from].ctx.events = runs[to].ctx.events
         /\ runs[from].ctx.requests = runs[to].ctx.requests
         /\ runs[from].ctx.draft = runs[to].ctx.draft
         /\ \A i \in DOMAIN runs[from].ctx.decisions :
              runs[from].ctx.decisions[i].by \in {SimulatedHuman, SimulatedApprover}
         /\ Priced(runs[from].ctx.findings) =>
              runs[from].planned \in {NoFigures, runs[from].found}]_vars

\* A run replays to itself: a completed run that the simulated people decided,
\* whether in one process or through start, decide, resume and approve, with or
\* without the injected failure, is found equivalent to its copy as long as the
\* figures and the selection of experts are those of the case bundle.
CompletedRunReplays ==
  [][\A from, to \in Places :
       /\ replay.from = from /\ replay.to = to
       /\ Exists(from) /\ Exists(to)
       /\ runs[from].inject = replay.inject
       /\ runs[from].ctx.stage = "completed" /\ runs[to].ctx.stage = "completed"
       /\ runs[from].ctx.decisions =
            <<Confirmation(SimulatedHuman),
              [request |-> FinalRequest, outcome |-> "approved", by |-> SimulatedApprover]>>
       /\ runs[from].ctx.selections = runs[to].ctx.selections
       /\ runs[from].found = runs[to].found /\ runs[from].planned = runs[to].planned
       => ~Finds("different", runs[from], runs[to])]_vars

(* Two statements of the documentation that the code does not keep         *)

\* docs/UIPATH_MAESTRO_MAPPING.md: the persisted state defines the minimum state
\* needed for deterministic resume.  What a run recommends states the figures of
\* the case its findings are about.
RecommendationOfItsFindings ==
  \A place \in Places :
    (Exists(place) /\ runs[place].ctx.final.status = "authorized") =>
      runs[place].planned = runs[place].found

\* docs/ARCHITECTURE.md: a replay compares the decisions.  What is called
\* equivalent was decided as the replay input says the original was.
EquivalentToTheOriginal ==
  [][\A to \in Places :
       (replay.to = to /\ Finds("equivalent", runs[replay.from], runs[to])) =>
         runs[to].ctx.decisions = replay.decisions]_vars
=============================================================================
