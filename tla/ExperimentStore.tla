--------------------------- MODULE ExperimentStore ---------------------------
(***************************************************************************)
(* The directories of the live and offline experiments, and the processes  *)
(* of the command line that write, replace, rebuild and compare them:      *)
(* live-variant, rebuild-derived-artifacts and compare-live                *)
(* (live_variant_runner.py), live-agent and live-smoke                     *)
(* (live_experiments.py), evaluate-offline (offline_experiments.py) and    *)
(* the inspector (experiment_artifacts.py).                                *)
(*                                                                         *)
(* A run is what a command has in memory when it begins to write; its      *)
(* facts say what the control flow asks of it.  The content of a file is   *)
(* the number of the run it was written for, so equality of contents       *)
(* stands for equality of checksums.  The 36 artifacts of a run are six    *)
(* files here: those read together, or required together, are one.  A file *)
(* is replaced by a rename, so it is whole or absent.  Nothing locks a     *)
(* directory, and a process can be killed between any two of its steps.    *)
(***************************************************************************)
EXTENDS Naturals, SequencesExt

CONSTANTS
  Processes,     \* command line processes
  LivePlaces,    \* directories the live commands, rebuilds and comparisons name
  OfflinePlaces, \* directories evaluate-offline names, under another root
  Outcomes,      \* runs that live commands come to
  Replacing,     \* the values of --replace-existing
  InPlace,       \* whether a rebuild may be told to write onto its source
  MaxRuns        \* bound: runs made in a behaviour

Variants == {"single_generalist", "fixed_expert_chain", "dynamic_expert_council"}

Kinds == {"variant", "agent", "smoke", "offline", "rebuild"}

(* completed: the run ended with an evaluated answer and broke no limit.   *)
(* sound: its payloads agree among each other as the inspector demands.    *)
(* handoff: a synthesis handoff was built.  evaluated: there is an         *)
(* evaluation to write.  of: the run it was rebuilt from, or 0.            *)
Runs ==
  [kind : Kinds, variant : Variants, model : STRING, completed : BOOLEAN, sound : BOOLEAN,
   handoff : BOOLEAN, evaluated : BOOLEAN, of : 0 .. MaxRuns]

ASSUME OutcomesAssumption ==
  \A one \in Outcomes :
    /\ one \in Runs /\ one.kind \in {"variant", "agent", "smoke"} /\ one.of = 0
    /\ one.handoff => one.variant # "single_generalist"
    /\ one.completed =>
         one.kind = "variant" /\ one.evaluated /\ (one.handoff \/ one.variant = "single_generalist")

(* A habit of the operator and no rule of the program: evaluate-offline    *)
(* takes any --artifacts-root and writes onto what it finds there.         *)
ASSUME PlacesAssumption == LivePlaces \cap OfflinePlaces = {}
ASSUME FlagsAssumption == Replacing \subseteq BOOLEAN /\ InPlace \in BOOLEAN /\ MaxRuns \in Nat

Places == LivePlaces \cup OfflinePlaces

VARIABLES
  disk,  \* the directories
  runs,  \* the runs made so far, in the order they were
  proc   \* what each process is doing

vars == <<disk, runs, proc>>

-----------------------------------------------------------------------------
(* Directories and the artifacts of a run *)

Absent == [exists |-> FALSE, files |-> <<>>]
EmptyDirectory == [exists |-> TRUE, files |-> <<>>]

Has(place, file) == file \in DOMAIN disk[place].files
Content(place, file) == disk[place].files[file]

(* write_json makes the directory when it is not there.                    *)
With(dir, file, content) ==
  [exists |-> TRUE,
   files  |-> [f \in DOMAIN dir.files \cup {file} |-> IF f = file THEN content ELSE dir.files[f]]]

Without(dir, file) ==
  [dir EXCEPT !.files = [f \in DOMAIN dir.files \ {file} |-> dir.files[f]]]

Summarized(n) == runs[n].kind \in {"variant", "rebuild"}

(* What is written for a run before the manifest, in that order.           *)
Artifacts(n) ==
  IF Summarized(n)
    THEN <<"config", "handoff", "records", "disagreements", "summary", "evaluation">>
  ELSE IF runs[n].evaluated THEN <<"config", "records", "evaluation">>
  ELSE <<"config", "records">>

(* Those of a run that has nothing to put into them are not required, and  *)
(* disagreement-records.json never is, whatever is in it.                  *)
Required(n) ==
  ToSet(Artifacts(n)) \
    ({"disagreements"} \cup {f \in {"handoff"} : Summarized(n) /\ ~runs[n].handoff})

Artifact(n) == [by |-> n, marked |-> FALSE]

Manifest(place, n) ==
  [by |-> n, required |-> Required(n),
   sums |-> [f \in ToSet(Artifacts(n)) |-> Content(place, f)]]

(* place is the directory a process writes to, source the one it rebuilds  *)
(* from; todo the artifacts still to write, doomed the files to remove;    *)
(* rows what a comparison has read.                                        *)
Idle ==
  [phase |-> "idle", place |-> "none", source |-> "none", replace |-> FALSE, run |-> 0,
   todo |-> <<>>, doomed |-> {}, rows |-> <<>>, model |-> "none"]

Init ==
  /\ disk = [place \in Places |-> Absent]
  /\ runs = <<>>
  /\ proc = [p \in Processes |-> Idle]

Becomes(p, state) == proc' = [proc EXCEPT ![p] = state]
Moves(p, phase) == Becomes(p, [proc[p] EXCEPT !.phase = phase])
Raises(p) == Becomes(p, Idle) /\ UNCHANGED <<disk, runs>>

-----------------------------------------------------------------------------
(* validate_experiment_artifacts *)

(* A Fault_ operator is a plausible slip in the definition after it; none  *)
(* is part of the model.  Here: the checksums are not compared.            *)
Fault_Accepted(place) ==
  /\ Has(place, "manifest")
  /\ Content(place, "manifest").required \subseteq DOMAIN disk[place].files
  /\ Has(place, "records") => runs[Content(place, "records").by].sound

(* An entry that is not required may be absent.                            *)
Accepted(place) ==
  /\ Has(place, "manifest")
  /\ LET manifest == Content(place, "manifest")
     IN  /\ manifest.required \subseteq DOMAIN disk[place].files
         /\ \A f \in DOMAIN manifest.sums :
              Has(place, f) => Content(place, f) = manifest.sums[f]
         /\ Has(place, "records") => runs[Content(place, "records").by].sound

-----------------------------------------------------------------------------
(* live-variant, live-agent, live-smoke: up to the results *)

(* Fault: the old directory is removed before the provider is asked.       *)
Fault_StartLive(p) ==
  /\ proc[p] = Idle
  /\ Len(runs) < MaxRuns
  /\ \E place \in LivePlaces, replace \in Replacing :
       /\ disk[place].exists => replace
       /\ Becomes(p, [Idle EXCEPT !.phase = "asking", !.place = place, !.replace = replace])
       /\ disk' = [disk EXCEPT ![place] = Absent]
  /\ UNCHANGED runs

(* A directory that exists is refused unless it is to be replaced.         *)
StartLive(p) ==
  /\ proc[p] = Idle
  /\ Len(runs) < MaxRuns
  /\ \E place \in LivePlaces, replace \in Replacing :
       /\ disk[place].exists => replace
       /\ Becomes(p, [Idle EXCEPT !.phase = "asking", !.place = place, !.replace = replace])
  /\ UNCHANGED <<disk, runs>>

(* A process that has the run one in memory goes on as state.              *)
MakesRun(p, one, state) ==
  /\ Len(runs) < MaxRuns
  /\ runs' = Append(runs, one)
  /\ Becomes(p, [state EXCEPT !.run = Len(runs) + 1])

(* The results of the provider are in; the writer is called.               *)
Conclude(p) ==
  /\ proc[p].phase = "asking"
  /\ \E one \in Outcomes : MakesRun(p, one, [proc[p] EXCEPT !.phase = "landing"])
  /\ UNCHANGED disk

(* A rebuild is a run of the recorded variant that was not run itself, so  *)
(* it never completes.                                                     *)
Rebuilt(config, records, sound, handoff) ==
  [runs[config] EXCEPT !.kind = "rebuild", !.completed = FALSE, !.evaluated = TRUE,
                       !.sound = sound, !.handoff = handoff, !.of = records]

(* rebuild_derived_artifacts, up to the writer.                            *)
StartRebuild(p) ==
  /\ proc[p] = Idle
  /\ \E source \in LivePlaces, output \in LivePlaces, replace \in Replacing,
        sound \in BOOLEAN, handoff \in BOOLEAN :
       /\ disk[output].exists => replace
       /\ {"records", "config"} \subseteq DOMAIN disk[source].files
       /\ output = source => InPlace
       /\ LET one == Rebuilt(Content(source, "config").by, Content(source, "records").by,
                             sound, handoff)
          IN  /\ handoff => one.variant # "single_generalist"
              /\ runs[Content(source, "records").by].handoff => handoff
              /\ MakesRun(p, one, [Idle EXCEPT !.phase = "landing", !.place = output,
                                               !.replace = replace, !.source = source])
  /\ UNCHANGED disk

-----------------------------------------------------------------------------
(* write_live_variant_artifacts, write_live_artifacts *)

(* The directory is looked at again.                                       *)
Land(p) ==
  /\ proc[p].phase = "landing"
  /\ LET dir == disk[proc[p].place]
     IN  \/ ~dir.exists /\ Moves(p, "making")
         \/ /\ dir.exists /\ proc[p].replace
            /\ Becomes(p, [proc[p] EXCEPT !.phase = "removing", !.doomed = DOMAIN dir.files])
         \/ dir.exists /\ ~proc[p].replace /\ Becomes(p, Idle)
  /\ UNCHANGED <<disk, runs>>

(* rmtree lists the directory once.  A file that is gone by then is an     *)
(* error to Python 3.12 and none to 3.13, both of which the program runs   *)
(* on.                                                                     *)
RemoveFile(p) ==
  /\ proc[p].phase = "removing"
  /\ \E file \in proc[p].doomed :
       \/ ~Has(proc[p].place, file) /\ Raises(p)
       \/ /\ disk' = [disk EXCEPT ![proc[p].place] = Without(@, file)]
          /\ Becomes(p, [proc[p] EXCEPT !.doomed = @ \ {file}])
          /\ UNCHANGED runs

RemoveDirectory(p) ==
  /\ proc[p].phase = "removing"
  /\ proc[p].doomed = {}
  /\ IF disk[proc[p].place] = EmptyDirectory
       THEN disk' = [disk EXCEPT ![proc[p].place] = Absent] /\ Moves(p, "making") /\ UNCHANGED runs
       ELSE Raises(p)

(* Fault: exist_ok.                                                        *)
Fault_Make(p) ==
  /\ proc[p].phase = "making"
  /\ disk' = [disk EXCEPT ![proc[p].place].exists = TRUE]
  /\ Becomes(p, [proc[p] EXCEPT !.phase = "writing", !.todo = Artifacts(proc[p].run)])
  /\ UNCHANGED runs

(* mkdir without exist_ok                                                  *)
Make(p) ==
  /\ proc[p].phase = "making"
  /\ IF disk[proc[p].place].exists THEN Raises(p)
     ELSE /\ disk' = [disk EXCEPT ![proc[p].place] = EmptyDirectory]
          /\ Becomes(p, [proc[p] EXCEPT !.phase = "writing", !.todo = Artifacts(proc[p].run)])
          /\ UNCHANGED runs

WriteArtifact(p) ==
  /\ proc[p].phase = "writing"
  /\ proc[p].todo # <<>>
  /\ disk' = [disk EXCEPT ![proc[p].place] = With(@, Head(proc[p].todo), Artifact(proc[p].run))]
  /\ Becomes(p, [proc[p] EXCEPT !.todo = Tail(@)])
  /\ UNCHANGED runs

(* The checksums are those of the files as they are on disk by then.       *)
WriteManifest(p) ==
  /\ proc[p].phase = "writing"
  /\ proc[p].todo = <<>>
  /\ LET place == proc[p].place
         n == proc[p].run
     IN  IF ToSet(Artifacts(n)) \subseteq DOMAIN disk[place].files
           THEN /\ disk' = [disk EXCEPT ![place] = With(@, "manifest", Manifest(place, n))]
                /\ IF runs[n].kind = "offline" THEN Becomes(p, Idle) ELSE Moves(p, "inspecting")
                /\ UNCHANGED runs
           ELSE Raises(p)

(* A directory that fails its inspection ends the program; that of a       *)
(* variant or a rebuild is marked first.                                   *)
Inspect(p) ==
  /\ proc[p].phase = "inspecting"
  /\ LET passed  == Accepted(proc[p].place)
         marked  == ~passed /\ Summarized(proc[p].run)
                      /\ {"summary", "manifest"} \subseteq DOMAIN disk[proc[p].place].files
         rebuilt == passed /\ runs[proc[p].run].kind = "rebuild"
     IN  \/ marked /\ Moves(p, "marking")
         \/ rebuilt /\ Moves(p, "hashing")
         \/ ~marked /\ ~rebuilt /\ Becomes(p, Idle)
  /\ UNCHANGED <<disk, runs>>

(* _mark_artifact_validation_failure: the summary, then its checksum.      *)
MarkSummary(p) ==
  /\ proc[p].phase = "marking"
  /\ IF Has(proc[p].place, "summary")
       THEN /\ disk' = [disk EXCEPT ![proc[p].place].files["summary"].marked = TRUE]
            /\ Moves(p, "resumming")
            /\ UNCHANGED runs
       ELSE Raises(p)

MarkManifest(p) ==
  /\ proc[p].phase = "resumming"
  /\ LET place == proc[p].place
     IN  IF {"summary", "manifest"} \subseteq DOMAIN disk[place].files
           THEN /\ disk' = [disk EXCEPT ![place].files["manifest"].sums =
                              ("summary" :> Content(place, "summary")) @@ @]
                /\ Becomes(p, Idle)
                /\ UNCHANGED runs
           ELSE Raises(p)

-----------------------------------------------------------------------------
(* The end of rebuild_derived_artifacts *)

(* Fault: what is recorded is the output, not the source.                  *)
Fault_HashSource(p) ==
  /\ proc[p].phase = "hashing"
  /\ LET dir == disk[proc[p].place]
     IN  disk' = [disk EXCEPT ![proc[p].place] = With(@, "metadata",
           [by |-> proc[p].run, hashed |-> {dir.files[f].by : f \in DOMAIN dir.files}])]
  /\ Moves(p, "listing")
  /\ UNCHANGED runs

(* The hashes of whatever the source holds after the output was written.   *)
HashSource(p) ==
  /\ proc[p].phase = "hashing"
  /\ LET dir == disk[proc[p].source]
     IN  disk' = [disk EXCEPT ![proc[p].place] = With(@, "metadata",
           [by |-> proc[p].run, hashed |-> {dir.files[f].by : f \in DOMAIN dir.files}])]
  /\ Moves(p, "listing")
  /\ UNCHANGED runs

ListMetadata(p) ==
  /\ proc[p].phase = "listing"
  /\ LET place == proc[p].place
         manifest == Content(place, "manifest")
     IN  IF {"manifest", "metadata"} \subseteq DOMAIN disk[place].files
           THEN /\ disk' = [disk EXCEPT ![place] = With(@, "manifest",
                     [manifest EXCEPT !.required = @ \cup {"metadata"},
                        !.sums = ("metadata" :> Content(place, "metadata")) @@ @])]
                /\ Becomes(p, Idle)
                /\ UNCHANGED runs
           ELSE Raises(p)

-----------------------------------------------------------------------------
(* evaluate-offline: write_experiment_artifacts, onto whatever is there.   *)
(* Nothing here reads the variant of a fixture.                            *)

StartOffline(p) ==
  /\ proc[p] = Idle
  /\ \E place \in OfflinePlaces :
       MakesRun(p, [kind |-> "offline", variant |-> "single_generalist", model |-> "simulated",
                    completed |-> FALSE, sound |-> TRUE, handoff |-> FALSE,
                    evaluated |-> TRUE, of |-> 0],
                [Idle EXCEPT !.phase = "opening", !.place = place])
  /\ UNCHANGED disk

OpenOffline(p) ==
  /\ proc[p].phase = "opening"
  /\ disk' = [disk EXCEPT ![proc[p].place].exists = TRUE]
  /\ Becomes(p, [proc[p] EXCEPT !.phase = "writing", !.todo = Artifacts(proc[p].run)])
  /\ UNCHANGED runs

-----------------------------------------------------------------------------
(* compare-live *)

(* A summary is of its run, except that a mark makes it unusable.          *)
Usable(summary) == runs[summary.by].completed /\ runs[summary.by].kind # "rebuild" /\ ~summary.marked

(* Fault: the inspection is left out.                                      *)
Fault_Comparable(variant, place) ==
  /\ Has(place, "summary")
  /\ Usable(Content(place, "summary"))

(* The tests of one run in a normal comparison, the inspection and         *)
(* _live_compare_compatibility_errors among them.                          *)
Comparable(variant, place) ==
  /\ Accepted(place)
  /\ {"summary", "evaluation", "manifest"} \subseteq DOMAIN disk[place].files
  /\ variant # "single_generalist" => Has(place, "handoff")
  /\ Usable(Content(place, "summary"))

(* A report has a row for the run each directory is passed for, and the    *)
(* model of the first.                                                     *)
Compare(p) ==
  /\ proc[p] = Idle
  /\ \E chosen \in [Variants -> LivePlaces], lenient \in BOOLEAN :
       /\ \A variant \in Variants :
            /\ {"summary", "config"} \subseteq DOMAIN disk[chosen[variant]].files
            /\ lenient \/ Comparable(variant, chosen[variant])
       /\ Becomes(p, [Idle EXCEPT
            !.phase = "reporting",
            !.replace = lenient,
            !.rows  = [variant \in Variants |-> Content(chosen[variant], "summary").by],
            !.model = runs[Content(chosen["single_generalist"], "config").by].model])
  /\ UNCHANGED <<disk, runs>>

(* Into a directory of its own that nothing here reads.                    *)
WriteReport(p) == proc[p].phase = "reporting" /\ Raises(p)

-----------------------------------------------------------------------------
(* A process is killed, or what it asked raised.                           *)
Kill(p) == proc[p] # Idle /\ Raises(p)

Step(p) ==
  \/ StartLive(p) \/ Conclude(p) \/ StartRebuild(p)
  \/ Land(p) \/ RemoveFile(p) \/ RemoveDirectory(p) \/ Make(p)
  \/ WriteArtifact(p) \/ WriteManifest(p) \/ Inspect(p) \/ MarkSummary(p) \/ MarkManifest(p)
  \/ HashSource(p) \/ ListMetadata(p)
  \/ StartOffline(p) \/ OpenOffline(p)
  \/ Compare(p) \/ WriteReport(p)
  \/ Kill(p)

Next == \E p \in Processes : Step(p)

Spec == Init /\ [][Next]_vars

-----------------------------------------------------------------------------
(* Properties *)

Files == {"config", "handoff", "records", "disagreements", "summary", "evaluation",
          "manifest", "metadata"}

\* Every variable has its type; what is on disk was written for a run that was
\* made, and a run is rebuilt from an earlier one.
TypeOK ==
  /\ runs \in Seq(Runs) /\ Len(runs) <= MaxRuns
  /\ \A n \in DOMAIN runs : runs[n].of < n
  /\ \A place \in Places :
       /\ disk[place].exists \in BOOLEAN
       /\ DOMAIN disk[place].files \subseteq Files
       /\ disk[place].files # <<>> => disk[place].exists
       /\ \A f \in DOMAIN disk[place].files : Content(place, f).by \in DOMAIN runs
  /\ \A p \in Processes :
       /\ proc[p].run \in 0 .. Len(runs)
       /\ proc[p].doomed \subseteq Files /\ ToSet(proc[p].todo) \subseteq Files

\* What a normal comparison accepts was measured: the summary, the invocation
\* records and the evaluation are those of one live run that completed and whose
\* artifacts agree, never of a rebuild, of an agent asked alone, of a run marked
\* as failed or of what a killed process left of two.
ComparisonMeasured ==
  \A variant \in Variants, place \in LivePlaces :
    Comparable(variant, place) =>
      LET n == Content(place, "summary").by
      IN  /\ runs[n].kind = "variant" /\ runs[n].completed /\ runs[n].sound
          /\ \A f \in {"config", "records", "evaluation", "manifest"} :
               Has(place, f) /\ Content(place, f).by = n

\* What the inspector accepts is of one run: wherever a writer was killed, also one
\* that overwrites in place, every artifact of an accepted directory was written
\* for the run its manifest was, and none that run had something to put into is
\* missing but the disagreement records.  Those of a council hold the decision not
\* to arbitrate, or what the arbiter left open, are not required, and a removal
\* killed after them alone leaves a directory that is accepted without them.
AcceptedIsOneRun ==
  \A place \in Places :
    Accepted(place) =>
      LET n == Content(place, "manifest").by
      IN  /\ Required(n) \subseteq DOMAIN disk[place].files
          /\ \A f \in DOMAIN disk[place].files : Content(place, f).by = n

\* A run is given up only for another one: an artifact disappears, or a directory
\* with it, only while the process that removes it holds the results of a later
\* run for that place, so a run that fails before it has results costs nothing.
RemovedForResults ==
  [][\A place \in Places : \A f \in DOMAIN disk[place].files \ DOMAIN disk'[place].files :
       \E p \in Processes :
         /\ proc[p].place = place /\ proc[p].replace
         /\ proc[p].run > Content(place, f).by]_vars

\* Nothing is overwritten without --replace-existing: an artifact that is on disk
\* stays the artifact of its run, although directories are tested before the
\* provider is asked and written long after.
NothingOverwritten ==
  [][\A place \in LivePlaces : \A f \in DOMAIN disk[place].files :
       f \in DOMAIN disk'[place].files /\ disk'[place].files[f].by = Content(place, f).by]_vars

\* The hashes recorded with a rebuild are those of the run it was rebuilt from.
HashesOfSource ==
  \A place \in LivePlaces :
    Has(place, "metadata") =>
      Content(place, "metadata").hashed \subseteq {runs[Content(place, "metadata").by].of}

(* Statements the documentation makes and the code does not keep           *)

\* docs/VALIDATED_FINDINGS_HANDOFF.md: a rebuild does not overwrite the source
\* run.  While a process rebuilds, its steps leave the source as it is.
SourcePreserved ==
  [][\A p \in Processes :
       (proc[p].source # "none" /\ proc'[p] # proc[p]) =>
         disk'[proc[p].source] = disk[proc[p].source]]_vars

Reported(p) == proc[p].phase = "reporting" /\ ~proc[p].replace

\* docs/EXPERIMENT_DESIGN.md: compare-live requires completed single-generalist,
\* fixed-chain and dynamic-council directories.  The row of a variant is a run of
\* that variant.
RowsOfTheirVariant ==
  \A p \in Processes : Reported(p) =>
    \A variant \in Variants : runs[proc[p].rows[variant]].variant = variant

\* docs/METRICS.md: each row includes its model configuration.  The one model a
\* report names is that of every row.
RowsOfOneModel ==
  \A p \in Processes : Reported(p) =>
    \A variant \in Variants : runs[proc[p].rows[variant]].model = proc[p].model
=============================================================================
