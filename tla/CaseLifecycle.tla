---------------------------- MODULE CaseLifecycle ----------------------------
(***************************************************************************)
(* The persistent pause / resume lifecycle: processes of the command line  *)
(* (start, run, decide, resume, approve) that share one run directory      *)
(* (runner.py, persistence.py, write_artifacts in workflow.py, write_json  *)
(* in serialization.py and the inspector in artifacts.py).                 *)
(*                                                                         *)
(* A process reads nothing but workflow-state.json, works on the context   *)
(* in memory and then writes twelve files one after the other, the state   *)
(* first and the manifest last.  Each file is written to a temporary file  *)
(* of a fixed name, which is then renamed onto the target.  Nothing locks  *)
(* the directory.  A process can be killed between any two of these steps. *)
(*                                                                         *)
(* A file content is missing, torn (truncated or half written) or whole;   *)
(* a whole content is the part of the context the file holds, so equality  *)
(* of contents stands for equality of checksums.                           *)
(***************************************************************************)
EXTENDS CaseCommands

CONSTANTS
  Processes,   \* command line processes
  Cases,       \* case bundles the run directory may be started from
  Leftovers,   \* what a process killed inside rmtree may leave behind
  Tracked,     \* bound: the artifacts an instance keeps track of
  MaxCommands, \* bound: commands begun in a behaviour
  MaxKills     \* bound: processes killed in a behaviour

StateFile    == "workflow-state.json"
SummaryFile  == "run-summary.json"
ManifestFile == "artifact-manifest.json"

(* A Fault_ operator is a plausible slip in the definition after it; none  *)
(* is part of the model.  Here: the state after the artifacts derived from *)
(* it.                                                                     *)
Fault_StateLast ==
  <<SummaryFile, "audit-events.json", "expert-findings.json",
    "contradictions.json", "human-decisions.json", "human-decision-requests.json",
    "recovery-options.json", "draft-recommendation.json",
    "final-recommendation.json", "replay-input.json", StateFile, ManifestFile>>

(* In the order write_artifacts writes them                                *)
AllFiles ==
  <<StateFile, SummaryFile, "audit-events.json", "expert-findings.json",
    "contradictions.json", "human-decisions.json", "human-decision-requests.json",
    "recovery-options.json", "draft-recommendation.json",
    "final-recommendation.json", "replay-input.json", ManifestFile>>

Optional == {"draft-recommendation.json", "final-recommendation.json"}

Files == Tracked \cup {StateFile, SummaryFile, ManifestFile}
Artifacts == Files \ {ManifestFile}

ASSUME CasesAssumption == Cases \subseteq Facts
ASSUME TrackedAssumption == Tracked \subseteq ToSet(AllFiles)
ASSUME LeftoversAssumption == Leftovers \subseteq SUBSET ToSet(AllFiles)
ASSUME BoundsAssumption == MaxCommands \in Nat /\ MaxKills \in Nat

VARIABLES
  facts,     \* the case bundle
  disk,      \* the run directory: content of each file
  tmp,       \* content of each temporary file
  proc,      \* the processes
  commands,  \* commands begun so far, up to MaxCommands
  kills      \* processes killed so far, up to MaxKills

vars == <<facts, disk, tmp, proc, commands, kills>>

-----------------------------------------------------------------------------
(* File contents *)

Missing == [kind |-> "missing"]
Torn == [kind |-> "torn"]
Whole(data) == [kind |-> "whole", data |-> data]

IsWhole(content) == content.kind = "whole"
Exists(content) == content # Missing

Summary(c) ==
  [stage |-> c.stage, selections |-> c.selections, requests |-> Len(c.requests),
   findings |-> Len(c.findings), contradictions |-> Len(c.contradictions),
   decisions |-> Len(c.decisions), events |-> Len(c.events)]

(* The part of the context each artifact holds.  The options a             *)
(* recommendation considers are there exactly when a recommendation is.    *)
Slice(file, c) ==
  CASE file = StateFile                       -> c
    [] file = SummaryFile                     -> Summary(c)
    [] file = "audit-events.json"             -> c.events
    [] file = "expert-findings.json"          -> c.findings
    [] file = "contradictions.json"           -> c.contradictions
    [] file = "human-decisions.json"          -> c.decisions
    [] file = "human-decision-requests.json"  -> c.humanRequests
    [] file = "recovery-options.json"         ->
         c.draft.status # "none" \/ c.final.status # "none"
    [] file = "draft-recommendation.json"     -> c.draft
    [] file = "final-recommendation.json"     -> c.final
    [] file = "replay-input.json"             -> c.decisions

Manifest(c, sums) == [stage |-> c.stage, generatedAt |-> Len(c.events), sums |-> sums]

Loadable == IsWhole(disk[StateFile])
Loaded == Reloaded(disk[StateFile].data)

DirectoryExists == \E f \in Files : Exists(disk[f]) \/ Exists(tmp[f])

-----------------------------------------------------------------------------
(* A process: pc is what it does next; file is the place in AllFiles it    *)
(* has come to; handle says where the temporary file it has open is now:   *)
(* still under its temporary name, renamed onto the target by another      *)
(* process, or gone; outcome is how its last command ended.                *)

Idle ==
  [pc |-> "idle", command |-> "none", ctx |-> InitialContext, file |-> 1,
   handle |-> "none", sums |-> <<>>, outcome |-> "none"]

Current(p) == AllFiles[proc[p].file]

Init ==
  /\ facts \in Cases
  /\ disk = [f \in Files |-> Missing]
  /\ tmp = [f \in Files |-> Missing]
  /\ proc = [p \in Processes |-> Idle]
  /\ commands = 0
  /\ kills = 0

(* The command has a context in hand and goes on to write it.              *)
Begin(p, command, c) ==
  /\ proc[p].pc = "idle"
  /\ commands < MaxCommands
  /\ commands' = commands + 1
  /\ proc' = [proc EXCEPT ![p] = [Idle EXCEPT !.pc = "open", !.command = command, !.ctx = c]]
  /\ UNCHANGED kills

(* What start and run have in hand after running the workflow; nothing     *)
(* when it raises, which it does before any write.                         *)
Fresh(command) ==
  IF facts.issues THEN {}
  ELSE IF command = "start" THEN {Started(facts)}
  ELSE IF ~RunReturns(facts) THEN {}
  ELSE {RanToEnd(Started(facts), decider, approver) : decider, approver \in Actors}

(* Without --replace-existing the directory must be absent when the        *)
(* command begins.                                                         *)
StartNew(p, command) ==
  /\ ~DirectoryExists
  /\ \E c \in Fresh(command) : Begin(p, command, c)
  /\ UNCHANGED <<facts, disk, tmp>>

(* --replace-existing: rmtree takes the directory away first, even when    *)
(* the workflow then raises.  Files that others hold open are unlinked.    *)
Unlink(procs) ==
  [p \in Processes |->
     IF procs[p].handle = "none" THEN procs[p] ELSE [procs[p] EXCEPT !.handle = "gone"]]

Ended(command, outcome) == [Idle EXCEPT !.command = command, !.outcome = outcome]

StartReplacing(p, command) ==
  /\ DirectoryExists
  /\ proc[p].pc = "idle"
  /\ commands < MaxCommands
  /\ disk' = [f \in Files |-> Missing]
  /\ tmp' = [f \in Files |-> Missing]
  /\ \/ /\ Fresh(command) = {}
        /\ proc' = [Unlink(proc) EXCEPT ![p] = Ended(command, "failed")]
     \/ \E c \in Fresh(command) :
          proc' = [Unlink(proc) EXCEPT ![p] =
                     [Idle EXCEPT !.pc = "open", !.command = command, !.ctx = c]]
  /\ commands' = commands + 1
  /\ UNCHANGED <<facts, kills>>

(* Killed inside rmtree: some files are still there.                       *)
KilledReplacing(p) ==
  /\ DirectoryExists
  /\ proc[p].pc = "idle"
  /\ commands < MaxCommands
  /\ kills < MaxKills
  /\ \E kept \in Leftovers :
       /\ disk' = [f \in Files |-> IF f \in kept THEN disk[f] ELSE Missing]
       /\ tmp' = [f \in Files |-> Missing]
  /\ proc' = [Unlink(proc) EXCEPT ![p] = Ended("start", "killed")]
  /\ commands' = commands + 1
  /\ kills' = kills + 1
  /\ UNCHANGED facts

(* decide, resume and approve load the state and raise before any write    *)
(* unless the runner accepts the call.                                     *)
Decide(p, actor) ==
  /\ Loadable
  /\ CanRecordDecision(Loaded, Confirmation(actor))
  /\ Begin(p, "decide", RecordHumanDecision(Loaded, Confirmation(actor)))
  /\ UNCHANGED <<facts, disk, tmp>>

Resume(p) ==
  /\ Loadable
  /\ CanResume(Loaded)
  /\ Plannable(Loaded, facts)
  /\ Begin(p, "resume", PlanRecovery(LeaveHumanGate(Loaded)))
  /\ UNCHANGED <<facts, disk, tmp>>

Approve(p, actor) ==
  /\ Loadable
  /\ CanApprove(Loaded)
  /\ Begin(p, "approve", ApproveFinal(Loaded, actor))
  /\ UNCHANGED <<facts, disk, tmp>>

-----------------------------------------------------------------------------
(* Writing the files *)

Payload(p) ==
  IF Current(p) = ManifestFile THEN Whole(Manifest(proc[p].ctx, proc[p].sums))
                               ELSE Whole(Slice(Current(p), proc[p].ctx))

(* Fault: the entries of a manifest that is already there are kept.        *)
Fault_SumArtifacts(p) ==
  /\ proc[p].pc = "sum"
  /\ IF \A f \in Artifacts : Exists(disk[f])
       THEN proc' = [proc EXCEPT ![p].pc = "open", ![p].sums =
              IF IsWhole(disk[ManifestFile]) THEN disk[ManifestFile].data.sums
                                             ELSE [f \in Artifacts |-> disk[f]]]
       ELSE proc' = [proc EXCEPT ![p] = Ended(@.command, "failed")]
  /\ UNCHANGED <<facts, disk, tmp, commands, kills>>

(* The manifest takes its checksums from the files as they are on disk,    *)
(* and a missing one ends the process.                                     *)
SumArtifacts(p) ==
  /\ proc[p].pc = "sum"
  /\ IF \A f \in Artifacts : Exists(disk[f])
       THEN proc' = [proc EXCEPT ![p].pc = "open", ![p].sums = [f \in Artifacts |-> disk[f]]]
       ELSE proc' = [proc EXCEPT ![p] = Ended(@.command, "failed")]
  /\ UNCHANGED <<facts, disk, tmp, commands, kills>>

(* Fault: the target is written in place.                                  *)
Fault_OpenTemporary(p) ==
  /\ proc[p].pc = "open"
  /\ disk' = [disk EXCEPT ![Current(p)] = Torn]
  /\ tmp' = [tmp EXCEPT ![Current(p)] = Torn]
  /\ proc' = [proc EXCEPT ![p].pc = "fill", ![p].handle = "tmp"]
  /\ UNCHANGED <<facts, commands, kills>>

(* Opening truncates, whoever may have the same temporary file open.       *)
OpenTemporary(p) ==
  /\ proc[p].pc = "open"
  /\ tmp' = [tmp EXCEPT ![Current(p)] = Torn]
  /\ proc' = [proc EXCEPT ![p].pc = "fill", ![p].handle = "tmp"]
  /\ UNCHANGED <<facts, disk, commands, kills>>

(* What is in the file once payload has been written over old: a shorter   *)
(* payload leaves the end of a longer old text behind.                     *)
Overwritten(old, payload) ==
  IF old \in {Torn, payload} THEN {payload} ELSE {payload, Torn}

FillTemporary(p) ==
  LET f == Current(p)
  IN  /\ proc[p].pc = "fill"
      /\ \/ /\ proc[p].handle = "tmp"
            /\ \E new \in Overwritten(tmp[f], Payload(p)) : tmp' = [tmp EXCEPT ![f] = new]
            /\ UNCHANGED disk
         \/ /\ proc[p].handle = "renamed"
            /\ \E new \in Overwritten(disk[f], Payload(p)) : disk' = [disk EXCEPT ![f] = new]
            /\ UNCHANGED tmp
         \/ /\ proc[p].handle = "gone"
            /\ UNCHANGED <<disk, tmp>>
      /\ proc' = [proc EXCEPT ![p].pc = "publish", ![p].handle = "none"]
      /\ UNCHANGED <<facts, commands, kills>>

(* Renaming f moves the handles others have on its temporary file along,   *)
(* and cuts off those on the file that was renamed before.                 *)
FollowRename(f) ==
  [q \in Processes |->
     IF proc[q].handle \in {"none", "gone"} \/ Current(q) # f THEN proc[q]
     ELSE [proc[q] EXCEPT !.handle = IF @ = "tmp" THEN "renamed" ELSE "gone"]]

(* The place of the next file after n that is kept track of                *)
Following(n) ==
  CHOOSE m \in n + 1 .. Len(AllFiles) :
    AllFiles[m] \in Files /\ \A k \in n + 1 .. m - 1 : AllFiles[k] \notin Files

Advanced(one) ==
  IF one.file = Len(AllFiles) THEN Ended(one.command, "done")
  ELSE LET next == Following(one.file)
       IN  [one EXCEPT !.file = next,
                       !.pc = IF AllFiles[next] = ManifestFile THEN "sum" ELSE "open"]

PublishFile(p) ==
  LET f == Current(p)
  IN  /\ proc[p].pc = "publish"
      /\ \/ /\ ~Exists(tmp[f])
            /\ proc' = [proc EXCEPT ![p] = Ended(@.command, "failed")]
            /\ UNCHANGED <<disk, tmp>>
         \/ /\ Exists(tmp[f])
            /\ disk' = [disk EXCEPT ![f] = tmp[f]]
            /\ tmp' = [tmp EXCEPT ![f] = Missing]
            /\ proc' = [FollowRename(f) EXCEPT ![p] = Advanced(proc[p])]
      /\ UNCHANGED <<facts, commands, kills>>

Kill(p) ==
  /\ proc[p].pc # "idle"
  /\ kills < MaxKills
  /\ kills' = kills + 1
  /\ proc' = [proc EXCEPT ![p] = Ended(@.command, "killed")]
  /\ UNCHANGED <<facts, disk, tmp, commands>>

-----------------------------------------------------------------------------
Command(p) ==
  \/ \E command \in {"start", "run"} : StartNew(p, command) \/ StartReplacing(p, command)
  \/ KilledReplacing(p)
  \/ Resume(p)
  \/ \E actor \in Actors : Decide(p, actor) \/ Approve(p, actor)

Write(p) == SumArtifacts(p) \/ OpenTemporary(p) \/ FillTemporary(p) \/ PublishFile(p)

Next == \E p \in Processes : Command(p) \/ Write(p) \/ Kill(p)

Spec == Init /\ [][Next]_vars

-----------------------------------------------------------------------------
(* The inspector: the manifest and every listed file parse, checksums      *)
(* match, the state satisfies the consistency rules, and the summary does  *)
(* not claim completion for the state.                                     *)
InspectPasses ==
  /\ IsWhole(disk[ManifestFile])
  /\ \A f \in Artifacts :
       \/ f \in Optional /\ ~Exists(disk[f])
       \/ IsWhole(disk[f]) /\ disk[f] = disk[ManifestFile].data.sums[f]
  /\ StateConsistent(disk[StateFile].data)
  /\ disk[StateFile].data.stage # "completed" => disk[SummaryFile].data.stage # "completed"

(* Properties *)

IsContent(f, content) ==
  \/ content \in {Missing, Torn}
  \/ /\ IsWhole(content)
     /\ DOMAIN content = {"kind", "data"}
     /\ f = StateFile => content.data \in Contexts

\* Every variable has its type; in particular what is in the state file is a
\* context record.
TypeOK ==
  /\ facts \in Cases
  /\ DOMAIN disk = Files /\ DOMAIN tmp = Files
  /\ \A f \in Files : IsContent(f, disk[f]) /\ IsContent(f, tmp[f])
  /\ \A p \in Processes :
       /\ proc[p].pc \in {"idle", "sum", "open", "fill", "publish"}
       /\ proc[p].command \in {"none", "start", "run", "decide", "resume", "approve"}
       /\ proc[p].ctx \in Contexts
       /\ proc[p].file \in DOMAIN AllFiles /\ Current(p) \in Files
       /\ proc[p].handle \in {"none", "tmp", "renamed", "gone"}
       /\ proc[p].outcome \in {"none", "done", "failed", "killed"}
  /\ commands \in 0 .. MaxCommands
  /\ kills \in 0 .. MaxKills

State == disk[StateFile].data

\* With one process at a time the state file is never torn, whenever the
\* process is killed: it is missing, or it is a whole state that satisfies the
\* inspector's rules (write_json renames a complete temporary file).
StateAlwaysLoadable ==
  /\ disk[StateFile] # Torn
  /\ Loadable => StateConsistent(State)

\* A command that ends well leaves a directory the inspector accepts, whatever
\* an earlier command that was killed left there.
SettledRunInspects ==
  \A p \in Processes : proc[p].outcome = "done" => InspectPasses

\* A directory the inspector accepts is consistent across its files, which the
\* inspector itself does not check: every artifact is the one that belongs to
\* the persisted state.
InspectionSound ==
  InspectPasses =>
    \A f \in Artifacts : Exists(disk[f]) => disk[f] = Whole(Slice(f, State))

\* The inspector is right both ways: it accepts what a command that ended well
\* left, and what it accepts is consistent.
InspectionRight == SettledRunInspects /\ InspectionSound

\* The audit history on disk only grows for as long as the state file is there:
\* what one command recorded the next one keeps.
DiskHistoryAppendOnly ==
  [][Loadable /\ Loadable' => IsPrefix(State.events, State'.events)]_vars

\* The final recommendation is never on disk ahead of the state that authorizes
\* it, nor left there beside a state that does not.
FinalFileBacked ==
  LET final == disk["final-recommendation.json"]
  IN  ("final-recommendation.json" \in Files /\ Loadable /\ IsWhole(final) /\ final.data.status = "authorized") =>
        State.final = final.data

(* Some command takes the persisted state further, or there is no further. *)
CanGoOn ==
  \/ State.stage \in {"completed", "failed"}
  \/ \E actor \in Actors : CanRecordDecision(Loaded, Confirmation(actor))
  \/ CanResume(Loaded) /\ Plannable(Loaded, facts)
  \/ CanApprove(Loaded)

\* Wherever processes were killed, a case that every expert takes part in and
\* whose option shortens the delay can be taken further by one of the commands.
NeverStranded ==
  (SelectExperts(facts) = Roles /\ ~facts.slipNegative /\ Loadable) => CanGoOn

\* The attempt records persisted with the state are truthful: an expert has as
\* many completed attempts as completions in the audit trail, although the
\* record of an attempt without a finding says "completed" by default.
AttemptRecordsTruthful ==
  Loadable =>
    \A role \in Roles :
      Cardinality({i \in DOMAIN State.requests :
                     /\ State.requests[i].role = role
                     /\ AttemptStatus(State, State.requests[i]) = "completed"})
        = Cardinality({i \in EventsOf(State, "expert_execution_completed") :
                         State.events[i].about = role})

\* Whatever the interleaving of processes, a state file that authorizes a
\* recommendation went through the gate: answered request, one decision for it,
\* one approval, no unresolved contradiction.
AuthorizedOnDiskGoverned ==
  (Loadable /\ State.final.status = "authorized") =>
    /\ State.humanRequests # <<>>
    /\ Pending(State) = {}
    /\ \A id \in {OnsiteRequest, FinalRequest} :
         Cardinality({i \in DOMAIN State.decisions : State.decisions[i].request = id}) = 1
    /\ \A i \in DOMAIN State.final.contradictions : State.final.contradictions[i] = "resolved"

(* Three statements of the documentation that the code does not keep       *)

\* docs/RUN_ARTIFACT_CONTRACT.md: creating a run fails when the directory
\* exists, so that prior evidence is not overwritten.  The state a start
\* publishes never replaces a state that is already there.
NewRunOverwritesNothing ==
  [][\A p \in Processes :
       (proc[p].command = "start" /\ PublishFile(p) /\ Current(p) = StateFile) =>
         ~Exists(disk[StateFile])]_vars

\* docs/RUN_ARTIFACT_CONTRACT.md: every run directory contains the twelve
\* files, those with a null payload included, and inspection validates that the
\* required files exist.
InspectionComplete == InspectPasses => \A f \in Files : Exists(disk[f])
=============================================================================
