# Formal model of the Project Recovery Council

TLA+ modules, TLC runs and TLAPS proofs about `src/src/project_recovery_council/`
(paths below are relative to that directory unless they start with `src/`).

The program answers one question about a project whose equipment may or may not
have been delivered: what recovery plan to recommend, and whether that
recommendation may be *authorized*. It does so in two ways.

* The **deterministic workflow** (`workflow.py` and around it) runs rule-based
  experts, stops at a human gate when the evidence conflicts, and authorizes a
  recommendation after a human decision and a final approval. The command line
  splits it over several processes that share a run directory.
* The **live variants** (`live_variant_runner.py`) let language-model agents
  answer the same question, under limits on calls, tokens and time, and publish
  what happened as artifacts for a comparison.

## 1. Inventory

### Deterministic workflow

| component | state | operations | what makes it correct |
|---|---|---|---|
| runner (`workflow.py`, `state.py`) | one `WorkflowContext`: stage, requests, findings, contradictions, human requests, decisions, draft, final, audit trail | `run_until_human_gate`, `record_human_decision`, `resume`, `approve_final`, `run` | stages follow `VALID_TRANSITIONS`; nothing is authorized around the gate; nothing recorded is lost; analysis ends |
| Director (`director.py`) | none | `select_experts`, `authorize_retry` | every contradiction is looked for; two attempts per expert |
| detector and gate (`validation.py`) | none | `detect_onsite_contradictions`, `evaluate_human_gate_required`, delay and exposure arithmetic | agrees with the Director about when there is a contradiction |
| adapters and stubs (`adapters.py`, `stubs.py`) | none | `execute` | answer within the contract, or fail |
| audit recorder (`audit.py`) | event list, deterministic clock | `record` | history only grows |
| contracts, fixtures (`contracts.py`, `fixtures.py`) | none | validation, loading | – |
| lifecycle commands (`runner.py`, `__main__.py`) | none of their own | `start`, `run`, `decide`, `resume`, `approve`, `inspect`, `replay` | any order of commands, also overlapping or killed ones, keeps the directory usable and governed |
| persistence and artifacts (`persistence.py`, `artifacts.py`, `serialization.py`, `write_artifacts`) | twelve files, temporary files | load, write, sum, inspect | what the inspector accepts is consistent; the state is always loadable |

The runner calls the Director once, then each selected expert through its
adapter, with a retry the Director must authorize; then the auditor; then it
either opens the human gate or goes to planning. A command loads
`workflow-state.json`, rebuilds a runner, calls one method and writes all twelve
files again.

Hard behaviours: exceptions in the middle of a method leave a half-changed
context; the methods are public and can be called in any order; processes
overlap on the directory without a lock; a process dies between two writes or
inside `rmtree`; temporary names are shared between processes.

### Live variants and experiments

| component | state | operations | what makes it correct |
|---|---|---|---|
| Qwen client (`qwen_client.py`, `model_client.py`) | one call: attempt, retry history | `generate`, `post_json`, backoff | only transient failures are repeated, all retries are used, the result tells its cost |
| live variant run (`live_variant_runner.py`) | invocations, results, validations, handoffs, limit or failure that ended it | `run`, `_invoke`, `_validate_specialist`, `_set_final_result`, `summary`, `write_live_variant_artifacts` | nothing is asked after a stop; the planner gets validated findings; the summary is honest; it ends |
| synthesis handoff (`synthesis_handoff.py`) | none | `build_synthesis_handoff`, disagreements, authorization state, citation merge | ineligible and overruled findings do not reach the planner; the gate holds whatever the agents say |
| validators (`role_scope.py`, `claim_normalization.py`, `schedule_semantics.py`, `commercial_semantics.py`) | none | one check each | what they pass is the case's figure, in role, and not chosen among conflicting values |
| auditor contract (`evidence_auditor.py`) | none | conversion of the assessments to claims, validity of the response | no assessment is lost or heeded under the wrong claim |
| experiment directories (`experiment_artifacts.py`, `live_experiments.py`, `offline_experiments.py`, the ends of `live_variant_runner.py`) | thirty-six artifacts, a manifest, rebuild metadata | write, replace, rebuild, mark, inspect, compare | the files of an accepted directory are of one run; a comparison takes measured runs only; an old run is given up only for a new one |
| evaluation (`evaluation.py`) | none | `evaluate_model_result` | an answer passes everything exactly when nothing is amiss with it |
| plans, prompts, redaction, schemas, configuration | none | pure functions and single passes | out of scope, see section 8 |

A run creates one `LiveVariantRun`, which calls the client for one agent after
the other; each specialist's response is validated and, in the end, the eligible
findings are handed to the arbiter (when they disagree) and to the planner.

Hard behaviours: five limits are checked in two places; retries and failures of
the provider come in any order; an exception can escape the client between two
paid invocations; a directory is tested before the provider is asked and written
long after; a rebuild reads its source first and hashes it last.

The hazards with their lines are in `PROJECT.json`; each names the properties
that would catch it.

## 2. Modules

```
GovernedCase            what the deterministic workflow promises (abstract)
     ^ refinement
CaseWorkflow            one runner object, any caller      --- MCCaseWorkflow
     | EXTENDS                                             --- CaseWorkflow_proofs
CaseContext             the context and the operations on it
     | EXTENDS                                             --- CaseContext_proofs
CaseCommands            what start, run and reload come to
     | EXTENDS                        \ EXTENDS            --- CaseCommands_proofs
CaseLifecycle           processes,     CaseReplay   directories and replay
     |                  files, kills        |       --- MCCaseReplay
     --- MCCaseLifecycle                    --- CaseReplay_proofs
     --- CaseLifecycle_proofs

QwenClient              one call of the client
     | EXTENDS
LiveVariantRun          one live run                       --- MCLiveVariantRun
     |                                                     --- LiveVariantRun_proofs
     . one finding per role there, claims and figures here
SynthesisHandoff        from responses to the final answer --- MCSynthesisHandoff
     | EXTENDS                                             --- SynthesisHandoff_proofs
Evaluation              the grade of an answer

ExperimentStore         what the commands do to experiment --- MCExperimentStore
                        directories                        --- ExperimentStore_proofs
```

The proof modules follow the modules they are about: `CaseLifecycle_proofs` and
`CaseReplay_proofs` extend `CaseCommands_proofs`, which extends `CaseContext_proofs`;
the lemmas about `QwenClient` and `Evaluation` are in the proofs of the modules that
extend them.

**CaseContext** is the part of the program both deterministic modules share: the
context as a record, and one operator per method that returns the context the
method leaves behind (`ValidateFixture`, `Triage`, `ExecuteAttempt`,
`ReviewContradictions`, `SkipReview`, `RecordHumanDecision`, `LeaveHumanGate`,
`PlanRecovery`, `ApproveFinal`, ...), its guard kept apart (`CanRecordDecision`,
`CanResume`, `CanApprove`). The case bundle is eight Booleans (`Facts`), the ones
that some branch of the workflow depends on. `StateConsistent` is the rule the
inspector applies to a persisted state.

**CaseWorkflow** runs those operators. `Analyse` is `run_until_human_gate`, one
action per step between two expert answers: pass or fail validation, select,
begin, complete, retry or exhaust an attempt, review audited or unaudited.
`Call` is whatever a caller may do with the runner object: submit a decision
with any outcome, resume, resume with a decision, approve. A method that raises
half-way is an action of its own (`AbortResume`,
`AbortResumeWithDecision`, `FailValidation`, `FailReview`) that leaves what the
exception leaves. `adapter` says which expert adapter is in use: the
deterministic one answers as the stubs do, the external one is disabled and
always fails, a custom one may answer anything its contract allows.

**GovernedCase** says nothing of how: a case is gated, one person answers,
a draft is planned, one person authorizes. `ImplementsGovernedCase` maps the
stage and the decisions of the context to it.

**CaseLifecycle** has processes that begin a command, hold the context in memory
and write the files in the order of `write_artifacts`, each in three steps (open
a temporary file, fill it, rename it) and the manifest after a step that sums
the files. A file is missing, torn or whole; a whole one holds the slice of the
context that belongs to it, so comparing contents stands for comparing
checksums. Handles follow a renamed file as in POSIX. `Kill` may come between any two steps, `KilledReplacing`
inside `rmtree`.

**CaseCommands** has what the commands of both lifecycle modules have in common:
the context `start` and `run` come to (`Started`, `RanToEnd`, and when planning
raises, `Plannable`), and what a later command finds of it (`Reloaded`).

**CaseReplay** has several run directories, a case bundle that is edited, and a
replay that other commands overtake. A command is one step; `RunCopy` and
`CompareRuns` are the two halves of `replay_run`, because the original is read for
the comparison only after the copy was written. `LogicalSignature` lists what
`compare_run_artifacts` looks at; a run carries the figures its commercial finding
(`Priced`) and its recommendation state, as numbers that stand for the money of a
bundle.

**QwenClient** is one call of `generate`: `Post` chooses one of the ways a post
can end that the code tells apart, `Wake` is the end of the backoff. An exception
no `except` clause names is the outcome `escapes`.

**LiveVariantRun** goes through the steps of the variant's method. `run` is the
`LiveVariantRun` object. `StartInvocation` and `RefuseInvocation` are the two
ends of `_can_start_invocation`; the `Receive...` actions are everything between
the return of the client and the next invocation: recording, limits, validation
or routing. Validation verdicts, the auditor's objections, disagreement and
token counts are nondeterministic. `Publish` writes the summary.

**SynthesisHandoff** is the same run seen from its data: limits and failures of
the client are reduced to the status of an invocation, and a response has claims
with figures and citations instead of a verdict. `Validated` is what
`_validate_specialist` makes of a response: `NormalizedClaims` and `Conflicts`
(aliases), `RoleScopeValid`, `SemanticStatus` (with the arithmetic of
`ScheduleValid` and `CommercialInvalid`) for the experts, `AuditFindings` for the
auditor. `Handoff` is `build_synthesis_handoff`, with `ExcludeAudited` and
`AuthorizationState`; `Disagree` decides on the arbitration; `Merged` adds
citations to the final answer. `Rebuild` is the part of
`rebuild_derived_artifacts` that derives findings and the final answer a second
time from the recorded invocations. `Report` grades the answer. A finding carries the set of checks it fails
(`failing`), which is the list of exclusion reasons of the code.

**Evaluation** has no state: `ClaimStatus`, `Precision`, `Recall`, `Passed` and
`Evaluated` are the functions of `evaluation.py`, applied to the answers of
`SynthesisHandoff`. A score is a pair of numerator and denominator, so that shares
compare exactly. What an answer cites for a claim is a list that may mention a record
more than once (`Mentions`): precision counts the mentions, recall and the merge the
records (`RecordsOf`), and a list the merge adds to loses its repetitions (`Once`).

**ExperimentStore** is the third view of a live run, from its directory. A run
has facts the writers ask for (did it complete, do its payloads agree, was there a
handoff, an evaluation, of which run is it a rebuild) and the content of a file is
the number of the run it was written for. `StartLive` tests the directory,
`Conclude` comes back with results, `Land` tests it again; then `RemoveFile` and
`RemoveDirectory` (`rmtree`), `Make`, `WriteArtifact`, `WriteManifest` and
`Inspect` follow one by one, with `MarkSummary` and `MarkManifest` for a run that
fails its own inspection. `StartRebuild` reads its source, `HashSource` hashes it
when everything is written, `ListMetadata` enters that in the manifest.
`StartOffline` writes onto whatever is there. `Compare` is one step, with
`Comparable` for each directory. `Kill` comes between any two steps.

A definition whose name begins with `Fault_` is a plausible slip in the
definition that follows it. None is part of a specification: they are there to
see that each property can fail.

## 3. Runs

| run | question | distinct states |
|---|---|---|
| `governance` | is a recommendation ever authorized around the gate, is anything recorded ever lost, does the runner implement `GovernedCase`, does `run_until_human_gate` end (liveness)? | 300 096 |
| `kills` | one process at a time, killed anywhere: is the directory loadable, consistent where the inspector accepts it, and can the case go on? | 145 844 |
| `shared` | two processes: is an authorized state on disk always a governed one? | 382 994 |
| `live_limits` | does the retry loop repeat what it should and report what it did, are the limits kept, is the planner grounded and the summary honest, and does a run end (liveness)? | 787 738 |
| `handoff` | whatever the specialists claim and the auditor disputes: is no wrong integer, disputed or ambiguous claim handed on, does the gate hold, is the arbiter asked only about a claim of which one value is wrong, are the citations added to the answer sound, does only a faultless answer get full marks, does a rebuild give the same answer and grade? | 350 512 |
| `store` | one process at a time, killed anywhere, that writes, replaces, rebuilds, compares: is an accepted directory of one run and complete but for the disagreement records, a compared one measured, and is a run given up only for a new one? | 1 437 657 |
| `store_overlap` | two processes at a time that do not replace: is anything mixed, and does a rebuild name the run it was made of? | 270 924 |
| `replay` | is what a replay calls equivalent the same run, whatever came in between, and does a simulated run replay to itself? | 196 451 |

Four runs (`gate`, `confirmed`, `contradiction_visible`, `live_crash`) check one
statement each of the documentation that the code does not keep; section 6 has
them and nine further configurations of the same kind.

Deadlock is not checked: a completed or failed case, a directory after the last
command and a published run rightly do nothing more, and no caller is obliged to
act.

### Bounds, and why they are enough

* **Case facts**: `governance` starts from every combination of the
  eight facts; `CaseLifecycle` uses five bundles (standard, injected failure,
  invalid fixture, arrival recorded, option that lengthens the delay), one per
  path a command can take.
* **MaxAttempts** is 2, the literal in `director.py`, and 3 in `governance`, so
  that a retry may follow a retry. The proofs need no bound.
* **Actors**: two where it matters who decided and who approved, otherwise one.
* **Replay**: two directories are an original and its copy; `MaxFresh` 3 is an
  original, a run that replaces it and a copy; one edit of the bundle is enough to
  have it differ between any two commands. The five contents of a bundle change
  the money only, whether a gate opens, whether planning raises, and whether a start
  raises; `MCCaseReplay_quiet` checks the same properties of a case in which no expert
  has anything to find, under two budgets.
* **Experiment directories**: `MaxRuns` 3 is a run, its rebuild and the run that
  replaces either, or the three runs of two directories. The three
  outcomes of `store` (completed, failing its inspection, an agent asked alone, whose
  rebuild is a run without a handoff) are those a comparison must tell apart;
  `store_overlap` has the first two. The thirty-six artifacts are six files, of which
  those read together or required together are one: configuration, handoff, records,
  summary, evaluation, and `disagreement-records.json` on its own, the one
  artifact that may hold something and is never required. A kill between two files of
  one group is a kill inside an unfinished directory either way. Directories and processes are symmetric: neither the
  specification nor an invariant or action property names one, and no liveness is
  checked in these runs.
* **Answers** in `handoff`: right and uncited, faultless but for one thing (a claim
  taken back, the assertion, the schema), partly absent, wrong and badly cited (a
  record twice beside one that does not exist), and of another schema.
* **MaxCommands** 6 and **MaxKills** 2 in `kills`: a whole case takes three
  commands, so a start, two kills, a replacement and the rest fit.
  4 commands of 2 processes in `shared`: start and
  decide are followed by two overlapping commands. `FewFiles` tracks the state,
  the summary, the final recommendation and the manifest there; the other files
  are written in the same way and no command reads them.
* **Leftovers** of a killed `rmtree`: everything, all but the state, only the
  state, all but one optional file: the cases the load and the inspection tell
  apart.
* **MaximumRetries** is 1 in a live run, whose control flow looks only at whether
  the retries exceed the allowed ones (0 or 1); the retry loop itself is proved
  right for every value (section 5).
* **Controls**: five settings in which each limit is hit before, at and after the
  last invocation of some variant; token limits of 2 and 1 with charges of 0 or 1
  give every order of staying below, reaching and passing a limit, and both at
  once. `Ample` has the default of 8 invocations.
* **Figures** are those of the sample case (21 days of movement, 8 of float, 15 000
  a day, 48 000 for the mitigation): movement beyond the float, so that slip,
  consumed and remaining float all differ.
* **Orders** in `handoff`: five, with the auditor last (a council), in the middle
  (the fixed chain), and with each expert present and absent.
* **Responses**: each expert answers under canonical keys, under aliases, under
  two aliases with equal or different values, with one wrong figure, with wrong
  figures that agree with each other, without a value or with a fraction, out of scope,
  citing a record it was not shown, or not at all; statuses are free. **Audits**: none, any one
  assessment, or two of the same expert under different keys and with different
  verdicts, one of them negative, which is where one can hide another. **Records**:
  those of the case and one name no record has.
* **Routings**: empty, auditor only, an unknown role, one expert, duplicates with
  the auditor in the middle, all three.

### Fairness

`run_until_human_gate` is a synchronous call, so `CaseWorkflow` assumes weak
fairness of `Analyse` only; nothing obliges a caller to decide, resume or
approve, and `CaseLifecycle` assumes nothing. The live run is one
synchronous program whose posts have a timeout (`request_timeout_seconds`) and
whose backoff is bounded, hence weak fairness of `Proceed`. Time may pass at any
pace, with no fairness.

## 4. Properties

The type invariants carry one real bound each: attempts, posts, invocations. The
others relate parts of the state that different methods or processes write.

* `AuthorizationGoverned`, `GovernanceOrder`, `ImplementsGovernedCase`: no order of
  calls, and no exception half-way, authorizes around the gate or decides twice.
* `InspectorAccepts`, `StageTrailLegal`: what is persisted after any step
  satisfies the inspector, and the stages on record are a legal path.
* `RetryDiscipline`, `EvidenceAppendOnly`: a retry follows a failure, does not
  replace its evidence and is not skipped.
* `StateAlwaysLoadable`, `InspectionRight` (what a command that ended well leaves
  inspects, and what inspects is consistent), `FinalFileBacked`, `NeverStranded`,
  `AttemptRecordsTruthful`, `DiskHistoryAppendOnly`: what a kill between two writes
  may not do. `NeverStranded` excludes by name the two dead ends of the code, a case
  without an auditor and one whose option lengthens the delay (end of section 6).
* `AuthorizedOnDiskGoverned`: what overlapping processes may not do. They may
  lose each other's updates and overwrite each other's new runs, which this property
  does not see and `MCCaseLifecycle_lostupdate` and `_newrun` show (section 6), but not
  authorize around the gate.
* `ResultTruthful`, `RetriesRight`: the retry loop against the provider's own count
  of requests, neither one too many nor one too few.
* `NoContactAfterStop`, `OvershootByOneAtMost`: the limits.
* `PlannerGrounded`: the planner is asked with its own handoff, every specialist
  was validated once, the arbiter was asked exactly when findings disagreed.
* `SummaryHonest`: only a run whose results all completed within the limits is
  called completed or usable, and a limit that was passed is on record.
* `EligibleFiguresRight`: wrong integers that are consistent with each other do not
  get past the semantic validators. Its exceptions are those of the code: a projected
  slip beside a forecast one, and a claim of the schedule that is no integer.
  `_int_or_none` (`schedule_semantics.py:251`) drops every JSON float as it drops words,
  so that a wrong slip of 12.5 days passes unchecked and is handed on; the runs have
  such a response (`Fraction`). The commercial validator refuses a figure it cannot
  read as an integer.
* `NoSilentChoice`: two values for one claim under two aliases are never settled
  by taking one of them.
* `AuditHeeded`: an objection removes the claim it is about, under whichever key
  it names the claim, and is never itself handed on as a finding.
* `GateHolds`: the authorization state follows the case's records and the eligible
  findings, never an excluded one.
* `CitationMergeSound`: citations added to the final answer come from an eligible
  finding whose author was shown the record, lower no recall and no metric, and leave
  no requirement open that a finding could have met. Precision is another matter: the
  evaluator counts repetitions (`evaluation.py:518`) and the merge removes them
  (`synthesis_handoff.py:309`), so that an answer with a good record twice and an
  unknown one once falls from 2/3 to 1/2. The property allows a list that repeats
  records exactly that loss, and a list that does not none; the runs have both. The merge and the evaluator have
  a table each of what a claim must cite; they differ in one entry
  (`synthesis_handoff.py:93`, `evaluation.py:38`).
* `FullMarksAreEarned`: every metric passes exactly for a faultless answer.
* `ConsensusSkipsArbiter`: arbitration needs two findings of one claim with different
  values, one of which is not what the records imply.
* `RebuildReproduces`: validating again against the recorded evidence, merging
  citations twice and grading again change nothing.
* `ComparisonMeasured`, `AcceptedIsOneRun`, `RemovedForResults`, `HashesOfSource`:
  what killed, overlapping and replacing writers of experiment directories may not
  lead the inspector, a comparison or a rebuild to believe. `AcceptedIsOneRun` says
  that all files of an accepted directory are of one run and that none is missing but
  the disagreement records: `disagreement-records.json` is written as not required
  (`live_variant_runner.py:1359`) although a council puts into it the decision not to
  arbitrate, or what the arbiter left open (`:367`, `:390`), so that an `rmtree`
  (`:1272`) killed after that file alone leaves a directory the inspector accepts.
  `HashesOfSource` is checked without replacement, where no source changes; that
  it fails with replacement, or in place, is what two configurations of section 6
  show.
* `EquivalentIsSameRun`: a replay does not vouch for a run that differs from its
  copy in what is not compared, that real people decided, or whose recommendation
  states other figures than its commercial finding because it was resumed with
  another bundle. `CompletedRunReplays`: and it does vouch for a simulated one.

Each property of a passing run has a mutant in `PROJECT.json`, a `Fault_`
definition that breaks it under the bounds of that run.

## 5. Proofs

Every theorem holds for all values of the constants within the assumptions of its
module. `MaxAttempts` is any positive number, two or more where an injected failure
is retried (`RetryAssumption`); people, case contents, directories, processes,
limits, charges, responses and audits are arbitrary sets of the right kind; the
bounds on commands, kills, edits and runs are arbitrary numbers. A theorem that
needs more says so in an `ASSUME` of its own, and the hypothesis is one the code
makes necessary.

### The deterministic workflow

`CaseContext_proofs` has the lemmas on the operators that both lifecycles use: what
*type* they return, which fields they leave alone (*frame*), what *shape* the human
gate, draft and final recommendation have afterwards (`GateShape`), and what they
add to the records (*link* and *quiet* lemmas). The steps of the other proofs cite
those instead of definitions.

`CaseWorkflow_proofs`, for whatever calls are made in whatever order, and whichever
of them raise half-way:

* `TypeCorrect`, `AuthorizationIsGoverned`, `InspectorAlwaysAccepts` from
  `IInv == TypeOK /\ GateInvariant`. `AuthorizationGoverned` speaks of the completed
  stage only and is not inductive: what `approve_final` produces depends on the
  draft, and that on what `resume` found at the gate. `GateInvariant` says for each
  resting stage which requests and decisions there are and what draft and final look
  like.
* `GovernanceInOrder`, `RetriesDisciplined`, `StageTrailAlwaysLegal` from
  `HistoryInvariant`, which ties the audit trail to the context: which governance
  events are on record at each stage and in which order, that the stages on record
  are a walk to the present stage, and how requests, findings and the queue of
  experts count each other. `EvidenceOnlyAdded` is the action property that goes
  with it.
* `GovernedCaseImplemented`: the refinement, `Spec => Governed!Spec`. Each action
  maps to an abstract step or to a stutter; the history invariant supplies who
  decided and who approved.

`CallerOutcomes` is arbitrary in these theorems, so the authorization of rejected
cases (section 6) is inside what is proved: *governed* means decided, not
*confirmed*.

### Run directories and replay

`CaseCommands_proofs` shows that what `start`, `run`, `decide`, `resume` and `approve`
have in memory is `Sound` whatever sound context they found (`StartedSound`,
`DecideSound`, `ResumeSound`, `ApproveSound`, `RanSound`), and that a sound context
comes back from its state file as it was (`ReloadedSame`).

`CaseLifecycle_proofs`, with any number of commands and kills and any tracked files:

* For **any number of processes** that share the directory: `SharedDirectory` is
  the inductive invariant, that nothing but a slice of a sound context is ever whole
  in a file or in hand. From it `TypeCorrect`, `AuthorizationOnDiskIsGoverned`,
  `AttemptRecordsAreTruthful`, and `NobodyIsStranded`, which needs somebody to act
  (`Actors # {}`).
* For **one process at a time** (`Alone`), killed between any two steps:
  `SequentialDirectory` is the inductive invariant, which relates the files already
  written, the one in hand and those still to come to the context in memory. From
  it `StateCanAlwaysBeLoaded`, `InspectorIsRight`, `FinalFileIsBacked` and
  `DiskHistoryOnlyGrows`. `Alone` cannot be dropped: nothing in the program locks a
  run directory, and `lostupdate` (section 6) shows what two processes do to it.

`CaseReplay_proofs`: `EquivalentIsAlwaysSameRun`, `CompletedRunAlwaysReplays` and
`TypeCorrect`, for any number of directories and edits, replays onto the original
included. A context in a directory is determined by the one its run started with and
by the people who took it on (`Grown`). Neither the bundle nor the injected failure
is compared, but findings and selection determine the start (`SameStart`): a failed
finding betrays the injection, and nothing else of the bundle reaches the context.
`ReplayInv` adds that the run a replay wrote has its own number and no command takes
it further. So two equivalent runs have *equal* contexts, to the last event. The
proof attempt corrected the property: a run without a completed commercial finding
states no figures that a later edit could contradict, so that the last clause of
`EquivalentIsSameRun` is about runs with such a finding only (`MCCaseReplay_quiet` has
cases without any).

### Live runs and their data

`LiveVariantRun_proofs`, for every retry limit, variant, limits, routing and charges:

* `RunResultsTruthful` and `RunRetriesAreRight` from `CallInv`: in each phase of a
  call, how posts, attempt and history relate. `RunStepCall` shows that any other
  step of a run leaves the call alone, begins one or drops it.
* `NoContactWhenHalted`, `RunTypeOK`, `OnlyLastOvershoots` and `SummaryIsHonest` from
  `RunInv`, the books of a run: a call is made only while the run asks and has not
  been halted; there are no more invocations than `max_invocation_count` allows; all
  of them completed unless the run failed; without a limit on record the totals are
  within all limits, and a limit on record was really passed; the summary says what
  the run came to.
* `PlannerIsGrounded` from `GroundInv`: the checks on record are those of the
  specialists in the order they were asked, each of them once, and the arbiter's
  turn comes with a disagreement among the findings that were handed on.

`SynthesisHandoff_proofs`, for every case, order, response, audit and answer within
`FiguresAssumption`, `OrdersAssumption`, `AuditsAssumption`, `FinalsAssumption` and
`RecordsAssumption`:

* `FullMarksMeanFaultless`: the ten metrics of `Evaluation` all pass exactly for a
  `Faultless` answer, which is said without metrics. It rests on `WholeShare` (a share of a
  finite set is whole only for the whole set) and `ClaimsCovered` (the lists the
  metrics are made of name every claim). `FullMarksAlwaysEarned` carries it to the
  final answer.
* `HandedOnFiguresRight`, `NothingChosenSilently`, `AuditAlwaysHeeded`,
  `GateAlwaysHolds`, `TypeCorrect` from `BuiltInv`: every handoff, the rebuilt one
  included, is made of the checks of its invocations, and each specialist was asked
  once. `FindingsChecked` then leads from a finding to the invocation it comes from,
  and the properties follow from what the validators compute (`ScheduleFigures`, about integers only,
  `CommercialFigures`, `ConflictExcludes`, `OneAssessmentKept`). `TypeCorrect` needs
  `HandedOnOnce`: a handoff speaks once of a claim, although the auditor may name it
  by several keys.
* `RebuildAlwaysReproduces` from `ReplayInv` (the planner got the handoff of all
  checks, the answer is merged with it) and `MergeTwice` (merging again changes
  nothing).
* `CitationMergeAlwaysSound`: `NothingInvented` follows a citation back to an eligible
  finding and to the records its author was shown; `PrecisionKept`, `RecallKept` and
  `OtherMetricsKept` show what becomes of each score, and `WithoutRepetitions` that a
  list without repetitions has nothing to lose; `GradeServed` puts them together field
  by field, by comparing the two requirement tables of the code entry by entry
  (`RequirementTables`).
* `ConsensusAlwaysSkipsArbiter` needs `RecordsAgree`: the slip that the schedule record
  states is the movement beyond the float. The commercial rules compute with that
  difference (`commercial_semantics.py`), the schedule rules read the record
  (`schedule_semantics.py`), and nothing in the program compares the two; where they
  differ, two right specialists disagree and the arbiter is asked without a wrong
  finding.

`ExperimentStore_proofs` starts from `StoreInv`: the files of a live directory are
those of one run, a process at work has its own run alone there, and no two
processes work at one live place. Each property follows under the hypothesis that
the code makes necessary:

* `TypeCorrect` needs no `StoreInv` and holds for any number of processes and
  replacements (`TypeInv`). Its `ASSUME` is a truth of TLA+ that the provers do not
  know, that the literals `"simulated"` and `"none"` are strings.
* `NothingIsOverwritten` for any number of processes that replace nothing
  (`TRUE \notin Replacing`).
* `ComparisonsAreMeasured` and `RunsAreGivenUpForResults` for one process, or any
  number that replace nothing (`Undisturbed`): nothing locks an experiment directory,
  and of two processes that replace it each may remove what the other wrote.
* `AcceptedDirectoriesAreOneRun` likewise, but for several processes without offline
  runs (`OneWriter`), which write onto whatever is there. It says nothing of whether
  the disagreement records are there (section 4).
* `HashesAreOfTheSource` for one process that does not rebuild in place, or any number
  that replace nothing (`SourcesStay`); the `hashes` and `inplace` configurations
  of section 6 show both hypotheses to be needed.

### Only model-checked

The two liveness properties, `AnalysisSettles` and `RunEnds`: the prover does not
handle fairness and ENABLED. Their fairness is discussed in section 3. Every other
property of a passing run is stated by a theorem. What is left to TLC besides is
that the bounds and constants of the runs let each property fail: that is what the
mutants show.

## 6. Where the code and its documentation differ

| run | the code | the documentation |
|---|---|---|
| `gate` | the Director selects the auditor under a narrower condition than the detector's (`director.py:39`, `validation.py:95`), so a supplier's denial beside a recorded arrival is never put to a human | unresolved contradictions pause the workflow (`src/docs/ARCHITECTURE.md:31`) |
| `confirmed` | the outcome of a decision is stored and never read (`workflow.py:160`): a rejected case is authorized like a confirmed one | human confirmation gates block final authorization (`src/docs/ARCHITECTURE.md:136`) |
| `live_crash` | an exception that escapes the client ends the program before artifacts are written (`live_variant_runner.py:1137`) | failed runs preserve provider outputs (`src/docs/DYNAMIC_COUNCIL_GOVERNANCE_POLICY.md:108`) |
| `contradiction_visible` | the claims of an audit are keyed by agent and canonical key, so that of two assessments of one claim, one under an alias, the later replaces the earlier, and a contradiction is lost (`evidence_auditor.py:119`) | contradicted findings remain visible but are excluded from positive synthesis (`src/docs/EVIDENCE_AUDITOR_RESPONSE_CONTRACT.md:78`) |

Further configurations, one `.cfg` each, in which TLC finds such a statement
violated in the same way. They are not among the runs of `PROJECT.json`:

| configuration | property | the code | the documentation |
|---|---|---|---|
| `MCCaseLifecycle_lostupdate` | `DiskHistoryAppendOnly` | two overlapping commands rewrite the whole state from their own copy (`runner.py:96`) | the audit history is append-only (`src/docs/CASE_MODEL.md:67`) |
| `MCCaseLifecycle_newrun` | `NewRunOverwritesNothing` | the test for an existing directory and its creation lie apart (`workflow.py:300`) | prior evidence is not overwritten (`src/docs/RUN_ARTIFACT_CONTRACT.md:47`) |
| `MCCaseLifecycle_complete` | `InspectionComplete` | optional manifest entries may be absent (`workflow.py:765`) | the files must exist, and inspection validates it (`src/docs/RUN_ARTIFACT_CONTRACT.md:25`) |
| `MCCaseReplay_edited` | `RecommendationOfItsFindings` | `resume` plans from the bundle as it is then, not from the persisted findings (`persistence.py:56`) | persisted state is enough for a deterministic resume (`src/docs/UIPATH_MAESTRO_MAPPING.md:21`) |
| `MCCaseReplay_inplace` | `EquivalentToTheOriginal` | a replay onto its original compares the copy with itself (`runner.py:216`) | replay compares decisions and findings (`src/docs/ARCHITECTURE.md:142`) |
| `MCExperimentStore_inplace` | `SourcePreserved` | a rebuild whose output is its source removes the source (`live_variant_runner.py:1210`) | a rebuild does not overwrite the source run (`src/docs/VALIDATED_FINDINGS_HANDOFF.md:119`) |
| `MCExperimentStore_hashes` | `HashesOfSource` | the source is hashed at the end, when it may have been replaced (`live_variant_runner.py:1216`) | the derived output records source artifact hashes (`src/docs/DYNAMIC_COUNCIL_GOVERNANCE_POLICY.md:112`) |
| `MCExperimentStore_variants` | `RowsOfTheirVariant` | a comparison never checks which variant a directory is of (`live_variant_runner.py:1436`) | it requires one completed directory of each variant (`src/docs/EXPERIMENT_DESIGN.md:183`) |
| `MCExperimentStore_models` | `RowsOfOneModel` | the model of a report is that of the first directory (`live_variant_runner.py:1448`) | each row includes its model configuration (`src/docs/METRICS.md:172`) |

The `_types` configurations check, on the bounds of `kills`, `replay` and
`store_overlap`, the type invariants of `CaseLifecycle`, `CaseReplay` and
`ExperimentStore`, and that nothing is overwritten without `--replace-existing`
(`NothingOverwritten`); all hold, as do the properties of `replay` under
`MCCaseReplay_quiet`.

A case that went to planning ungated, or whose option does not help, stays in a
stage from which no command takes it further, although `state.py:103` calls the
persisted state sufficient to resume. It is listed as a hazard without a run:
`resume` refuses it by its first guard, so that a run would show nothing more.

## 7. Abstractions to keep in mind

* Texts, citations, money, identifiers and timestamps are left out; the audit
  trail keeps type and subject of each event in order.
* In `LiveVariantRun` a role has one finding. That a response is sound, whom
  the auditor overrules and whether findings disagree is chosen freely, within
  what the code requires (only a completed result can be sound, only the auditor
  overrules). `SynthesisHandoff` has what these verdicts rest on, but no limits.
* In `SynthesisHandoff` a claim is an integer or one of four model values: no value,
  two texts, and `Fraction` for any JSON float. A whole one, `13.0`, is skipped by the
  schedule validator like any other float and would equal 13 where values are compared;
  this is not distinguished. A string of digits is the integer it stands for. What the
  program finds by pattern or in words is a Boolean of the response: `inScope`
  (prohibited categories of the role policy), `consistent` (dates, direction and
  status of a schedule). The tables have the keys the program computes with, not
  those it only passes on. The auditor's response maps agents and keys to assessments,
  so there is at most one for a pair of them (`AuditsAssumption`).
* `Publish` of `LiveVariantRun` is one step; `ExperimentStore` has the files, and
  knows of a run only the facts its writers ask for. An experiment file is replaced
  by a rename and is whole or absent there; that a temporary name is shared is
  modelled in `CaseLifecycle` only.
* In `CaseReplay` a command is one step; its files are taken apart in
  `CaseLifecycle`. All directories hold runs of one case.
* In `Evaluation` a claim is right, wrong or absent.
* A result of a live run without a token count is a charge of 0 in `UsagesOf`, since
  `_sum_optional` (`live_variant_runner.py:1801`) leaves it out of the total.
* `ExperimentStore` assumes that offline experiments are written elsewhere than live
  ones (`PlacesAssumption`). This is a habit and nothing the program enforces:
  `evaluate-offline` takes any `--artifacts-root` and `--experiment-id`
  (`__main__.py:107`) and overwrites what it finds there (`exist_ok=True`,
  `experiment_artifacts.py:108`), a live directory included. The live commands take a
  root of their own as well (`__main__.py:437`), and
  `src/docs/EXPERIMENT_DESIGN.md:75` says only that live artifacts are isolated.
  `ComparisonMeasured`, `AcceptedIsOneRun` and their theorems rest on it.
* The files that an experiment writes about nothing, such as the metrics of no
  validations, are not required either; in the model they belong to a group that is.
* `rmtree` that meets a file which has vanished raises (Python 3.12) or goes on (3.13);
  both are steps of `RemoveFile`, as the program is tested under both
  (`src/.github/workflows/ci.yml:16`).
* `CaseLifecycle` has one run directory, and commands that raise before writing
  are no steps, except where they have deleted the directory first.
* The external posts, the file system and the processes' scheduling are the
  environment: free, except for the fairness in section 3.

## 8. Not modelled

The delay and exposure arithmetic of `validation.py` as a computation of its own:
its results are the figures of the sample case in `SynthesisHandoff`. In
`evaluation.py` the sums of tokens, latency and cost and the metric tables of the
validators. The simulated evaluation of the offline runs and the prompts of the
smoke runs. Prompts, redaction, schema export, plans and the configuration keep no
state and have no interleaving; they are left out for good.

## 9. Plan

In order of importance:

1. `CaseContext`, `GovernedCase`, `CaseWorkflow`, their runs and theorems *(done)*.
2. `CaseLifecycle` with kills and overlapping processes *(done)*.
3. `QwenClient` and `LiveVariantRun` *(done)*.
4. `SynthesisHandoff`: claims under keys, validators, exclusions, disagreements,
   authorization state, citation merge, rebuild of the findings *(done)*.
5. `ExperimentStore`: file-by-file write, replacement, inspection, rebuild and
   comparison of experiment directories *(done)*.
6. `CaseReplay`: what a replay vouches for *(done)*.
7. `Evaluation`: the grade of an answer, and what the citation merge does to it
   *(done)*.
8. Proofs: every invariant and action property of a passing run, the refinement of
   `GovernedCase`, and the inductive invariants of each component *(done)*.
9. What is left to prove: `Sequential` of `CaseLifecycle` for a directory that
   several processes use one after the other, which `Alone` covers for one process
   only, and the theorems of `ExperimentStore` for processes that replace one after
   the other.
