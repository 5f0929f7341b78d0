------------------------ MODULE CaseLifecycle_proofs ------------------------
(***************************************************************************)
(* Proofs about CaseLifecycle, for every set of people, every retry budget *)
(* of two or more, every case bundle, every number of commands and kills,  *)
(* and whichever files are kept track of.                                  *)
(*                                                                         *)
(* For any number of processes sharing the directory, nothing but sound    *)
(* contexts is ever in the state file.  For one process at a time, killed  *)
(* wherever, the files of the directory go together (Sequential).          *)
(***************************************************************************)
EXTENDS CaseLifecycle, CaseCommands_proofs

-----------------------------------------------------------------------------
(* The files of a directory that any number of processes share *)

(* The contexts a command may write, and what each file may hold of them.  *)
SoundContexts(bundle) == {c \in Contexts : Sound(bundle, c)}

ArtifactContents(bundle) ==
  {Missing, Torn} \cup {Whole(Slice(f, c)) : f \in Artifacts, c \in SoundContexts(bundle)}

Sums(bundle) == {<<>>} \cup [Artifacts -> ArtifactContents(bundle)]

Data(file, bundle) ==
  IF file = ManifestFile THEN {Manifest(c, sums) : c \in Contexts, sums \in Sums(bundle)}
                         ELSE {Slice(file, c) : c \in SoundContexts(bundle)}

Fits(file, content, bundle) ==
  content \in {Missing, Torn} \cup {Whole(data) : data \in Data(file, bundle)}

ProcessRecords(bundle) ==
  [pc      : {"idle", "sum", "open", "fill", "publish"},
   command : {"none", "start", "run", "decide", "resume", "approve"},
   ctx     : Contexts,
   file    : 1 .. 12,
   handle  : {"none", "tmp", "renamed", "gone"},
   sums    : Sums(bundle),
   outcome : {"none", "done", "failed", "killed"}]

(* A process that has a command in hand has a sound context in hand.       *)
GoodProcess(bundle, one) ==
  /\ one \in ProcessRecords(bundle)
  /\ AllFiles[one.file] \in Files
  /\ one.pc # "idle" => Sound(bundle, one.ctx)

(* The invariant that any number of processes keeps.                       *)
SharedInvariant ==
  /\ facts \in Cases
  /\ disk = [f \in Files |-> disk[f]]
  /\ tmp = [f \in Files |-> tmp[f]]
  /\ \A f \in Files : Fits(f, disk[f], facts) /\ Fits(f, tmp[f], facts)
  /\ proc = [p \in Processes |-> proc[p]]
  /\ \A p \in Processes : GoodProcess(facts, proc[p])
  /\ commands \in 0 .. MaxCommands
  /\ kills \in 0 .. MaxKills

\* The state file comes first and the manifest last, and nowhere else.
LEMMA FilePlaces ==
  /\ DOMAIN AllFiles = 1 .. 12 /\ Len(AllFiles) = 12
  /\ AllFiles[1] = StateFile /\ AllFiles[12] = ManifestFile
  /\ \A n \in 1 .. 12 : AllFiles[n] = StateFile => n = 1
  /\ \A n \in 1 .. 12 : AllFiles[n] = ManifestFile => n = 12
  /\ StateFile \in Artifacts /\ SummaryFile \in Artifacts
  /\ Artifacts \subseteq Files
  /\ ManifestFile \in Files /\ ManifestFile \notin Artifacts
  /\ \A f \in Files : f # ManifestFile => f \in Artifacts
  /\ \A f \in Files : \E n \in 1 .. 12 : AllFiles[n] = f
<1>1. DOMAIN AllFiles = 1 .. 12 /\ Len(AllFiles) = 12
  BY DEF AllFiles
<1>2. AllFiles[1] = StateFile /\ AllFiles[2] = SummaryFile /\ AllFiles[12] = ManifestFile
  BY DEF AllFiles
<1>3. /\ \A n \in 1 .. 12 : AllFiles[n] = StateFile => n = 1
      /\ \A n \in 1 .. 12 : AllFiles[n] = ManifestFile => n = 12
  <2>1. \A n \in 1 .. 12 : n \in {1, 2, 3, 4, 5, 6, 7, 8, 9, 10, 11, 12}
    OBVIOUS
  <2>2. /\ AllFiles[1] # ManifestFile
        /\ \A n \in {2, 3, 4, 5, 6, 7, 8, 9, 10, 11} :
              AllFiles[n] # StateFile /\ AllFiles[n] # ManifestFile
        /\ AllFiles[12] # StateFile
    BY DEF AllFiles, StateFile, SummaryFile, ManifestFile
  <2> QED BY <2>1, <2>2
<1>4. StateFile # ManifestFile /\ SummaryFile # ManifestFile
  BY DEF StateFile, SummaryFile, ManifestFile
<1>5. \A f \in Files : \E n \in 1 .. 12 : AllFiles[n] = f
  <2>1. ToSet(AllFiles) = {AllFiles[n] : n \in 1 .. 12}
    BY <1>1 DEF ToSet
  <2> QED BY <1>2, <2>1, TrackedAssumption DEF Files
<1> QED BY <1>1, <1>2, <1>3, <1>4, <1>5 DEF Files, Artifacts

\* Before the manifest there is a next file that is kept track of.
LEMMA FollowingFile ==
  ASSUME NEW n \in 1 .. 12, n # 12
  PROVE  /\ Following(n) \in n + 1 .. 12
         /\ AllFiles[Following(n)] \in Files
         /\ \A k \in n + 1 .. 12 : AllFiles[k] \in Files => Following(n) <= k
<1> DEFINE T == {m \in n + 1 .. 12 : AllFiles[m] \in Files}
<1>1. T \in SUBSET Nat /\ 12 \in T
  BY FilePlaces
<1>2. PICK m \in T : \A k \in T : m <= k
  BY <1>1, LeastNatural
<1>3. /\ m \in n + 1 .. 12 /\ AllFiles[m] \in Files
      /\ \A k \in n + 1 .. m - 1 : AllFiles[k] \notin Files
  BY <1>2
<1>4. \A l \in n + 1 .. 12 :
        (AllFiles[l] \in Files /\ \A k \in n + 1 .. l - 1 : AllFiles[k] \notin Files) => l = m
  BY <1>2, <1>3
<1>5. Following(n) = m
  BY <1>3, <1>4, FilePlaces DEF Following
<1> QED BY <1>2, <1>3, <1>5

\* The state file holds the whole context, and each of the files that stand
\* for a part of it holds that part.
LEMMA StateSlice ==
  ASSUME NEW c
  PROVE  /\ Slice(StateFile, c) = c
         /\ Slice(SummaryFile, c) = Summary(c)
         /\ Slice("final-recommendation.json", c) = c.final
BY DEF Slice, StateFile, SummaryFile

\* A process that ends, well or not, is idle and in order.
LEMMA EndedGood ==
  ASSUME NEW bundle,
         NEW command \in {"none", "start", "run", "decide", "resume", "approve"},
         NEW outcome \in {"none", "done", "failed", "killed"}
  PROVE  /\ GoodProcess(bundle, Ended(command, outcome))
         /\ Ended(command, outcome).pc = "idle"
         /\ Ended(command, outcome).handle = "none"
         /\ Ended(command, outcome).outcome = outcome
<1>1. InitialContext \in Contexts
  BY InitialShape
<1>2. AllFiles[1] \in Files /\ <<>> \in Sums(bundle)
  BY FilePlaces DEF Sums
<1> HIDE DEF InitialContext, Sums
<1>3. Idle \in ProcessRecords(bundle) /\ Idle.pc = "idle" /\ Idle.file = 1 /\ Idle.handle = "none"
  BY <1>1, <1>2 DEF Idle, ProcessRecords
<1>4. /\ Ended(command, outcome) \in ProcessRecords(bundle)
      /\ Ended(command, outcome).pc = "idle" /\ Ended(command, outcome).file = 1
      /\ Ended(command, outcome).handle = "none"
      /\ Ended(command, outcome).outcome = outcome
  BY <1>3 DEF Ended, ProcessRecords
<1> QED BY <1>2, <1>4 DEF GoodProcess

(* The process that begins a command with context c in hand.               *)
Begun(command, c) == [Idle EXCEPT !.pc = "open", !.command = command, !.ctx = c]

\* A process that begins with a sound context in hand is in order.
LEMMA BegunGood ==
  ASSUME NEW bundle,
         NEW command \in {"none", "start", "run", "decide", "resume", "approve"},
         NEW c, Sound(bundle, c)
  PROVE  /\ GoodProcess(bundle, Begun(command, c))
         /\ Begun(command, c).pc = "open" /\ Begun(command, c).file = 1
         /\ Begun(command, c).ctx = c /\ Begun(command, c).handle = "none"
         /\ Begun(command, c).outcome = "none" /\ Begun(command, c).sums = <<>>
<1>1. c \in Contexts
  BY DEF Sound
<1>2. AllFiles[1] \in Files /\ <<>> \in Sums(bundle)
  BY FilePlaces DEF Sums
<1>3. Idle \in ProcessRecords(bundle)
  <2>1. InitialContext \in Contexts
    BY InitialShape
  <2> HIDE DEF Sums, InitialContext
  <2> QED BY <1>2, <2>1 DEF Idle, ProcessRecords
<1>4. /\ Idle.file = 1 /\ Idle.handle = "none" /\ Idle.outcome = "none" /\ Idle.sums = <<>>
  BY DEF Idle
<1> HIDE DEF Sums, Idle
<1>5. /\ Begun(command, c) \in ProcessRecords(bundle)
      /\ Begun(command, c).pc = "open" /\ Begun(command, c).file = Idle.file
      /\ Begun(command, c).ctx = c /\ Begun(command, c).handle = Idle.handle
      /\ Begun(command, c).outcome = Idle.outcome /\ Begun(command, c).sums = Idle.sums
  BY <1>1, <1>3 DEF Begun, ProcessRecords
<1> QED BY <1>2, <1>4, <1>5 DEF GoodProcess

\* What may be written over what fits a file fits it too.
LEMMA WrittenFits ==
  ASSUME NEW bundle, NEW one, GoodProcess(bundle, one), one.pc # "idle"
  PROVE  LET f == AllFiles[one.file]
             payload == IF f = ManifestFile THEN Whole(Manifest(one.ctx, one.sums))
                                            ELSE Whole(Slice(f, one.ctx))
         IN  /\ Fits(f, payload, bundle)
             /\ Fits(f, Torn, bundle)
             /\ Fits(f, Missing, bundle)
<1>1. one.ctx \in SoundContexts(bundle) /\ one.ctx \in Contexts /\ one.sums \in Sums(bundle)
  BY DEF GoodProcess, ProcessRecords, SoundContexts
<1> QED BY <1>1 DEF Fits, Data

\* A process whose temporary file is renamed or unlinked by another stays in
\* order.
LEMMA RelinkGood ==
  ASSUME NEW bundle, NEW one, GoodProcess(bundle, one),
         NEW handle \in {"none", "tmp", "renamed", "gone"}
  PROVE  /\ GoodProcess(bundle, [one EXCEPT !.handle = handle])
         /\ [one EXCEPT !.handle = handle].handle = handle
<1>1. one \in ProcessRecords(bundle)
  BY DEF GoodProcess
<1>2. /\ [one EXCEPT !.handle = handle] \in ProcessRecords(bundle)
      /\ [one EXCEPT !.handle = handle].file = one.file
      /\ [one EXCEPT !.handle = handle].pc = one.pc
      /\ [one EXCEPT !.handle = handle].ctx = one.ctx
      /\ [one EXCEPT !.handle = handle].handle = handle
  BY <1>1 DEF ProcessRecords
<1> QED BY <1>2 DEF GoodProcess

\* What start and run have in hand is sound.
LEMMA FreshSound ==
  ASSUME SharedInvariant, NEW command, NEW c \in Fresh(command)
  PROVE  Sound(facts, c)
<1>1. facts \in Facts
  BY CasesAssumption DEF SharedInvariant
<1>2. ~facts.issues
  BY DEF Fresh
<1>3. \/ c = Started(facts)
      \/ \E decider, approver \in Actors : c = RanToEnd(Started(facts), decider, approver)
  BY <1>2 DEF Fresh
<1> QED BY <1>1, <1>2, <1>3, StartedSound, RanSound

\* A state that loads is sound, and comes back as it was.
LEMMA LoadedSound ==
  ASSUME SharedInvariant, Loadable
  PROVE  /\ Sound(facts, State) /\ Loaded = State
         /\ State \in Contexts
<1>1. StateFile \in Files /\ StateFile # ManifestFile
  BY FilePlaces
<1>2. Fits(StateFile, disk[StateFile], facts)
  BY <1>1 DEF SharedInvariant
<1>3. disk[StateFile] \notin {Missing, Torn}
  BY DEF Loadable, IsWhole, Missing, Torn
<1>4. PICK c \in SoundContexts(facts) : disk[StateFile] = Whole(Slice(StateFile, c))
  BY <1>1, <1>2, <1>3 DEF Fits, Data
<1>5. State = c
  BY <1>4, StateSlice DEF State, Whole
<1>6. Sound(facts, State) /\ State \in Contexts
  BY <1>5 DEF SoundContexts
<1> QED BY <1>6, ReloadedSame DEF Loaded, State

\* What decide, resume and approve have in hand is sound, and continues the
\* audit trail of the state they loaded.
LEMMA CommandSound ==
  ASSUME SharedInvariant, Loadable, NEW actor \in Actors
  PROVE  /\ CanRecordDecision(Loaded, Confirmation(actor)) =>
              LET d == RecordHumanDecision(Loaded, Confirmation(actor))
              IN  Sound(facts, d) /\ Later(State, d)
         /\ CanApprove(Loaded) =>
              LET d == ApproveFinal(Loaded, actor)
              IN  Sound(facts, d) /\ Later(State, d)
<1>1. facts \in Facts
  BY CasesAssumption DEF SharedInvariant
<1>2. Sound(facts, State) /\ Loaded = State
  BY LoadedSound
<1> HIDE DEF State, Loaded
<1> QED BY <1>1, <1>2, DecideSound, ApproveSound

\* The same of resume, which no person acts in.
LEMMA ResumedSound ==
  ASSUME SharedInvariant, Loadable, CanResume(Loaded)
  PROVE  LET d == PlanRecovery(LeaveHumanGate(Loaded))
         IN  Sound(facts, d) /\ Later(State, d)
<1>1. facts \in Facts
  BY CasesAssumption DEF SharedInvariant
<1>2. Sound(facts, State) /\ Loaded = State
  BY LoadedSound
<1> HIDE DEF State, Loaded
<1>3. State.stage = "awaiting_human_decision" /\ OnsiteRequest \in DecidedIds(State)
  BY <1>2, ResumeDecided
<1> QED BY <1>1, <1>2, <1>3, ResumeSound

\* The invariant holds at first.
LEMMA SharedInit == Init => SharedInvariant
<1> SUFFICES ASSUME Init PROVE SharedInvariant
  OBVIOUS
<1>1. facts \in Cases /\ commands \in 0 .. MaxCommands /\ kills \in 0 .. MaxKills
  BY BoundsAssumption DEF Init
<1>2. /\ disk = [f \in Files |-> disk[f]] /\ tmp = [f \in Files |-> tmp[f]]
      /\ \A f \in Files : Fits(f, disk[f], facts) /\ Fits(f, tmp[f], facts)
  BY DEF Init, Fits
<1>3. proc = [p \in Processes |-> Idle]
  BY DEF Init
<1>4. GoodProcess(facts, Idle)
  <2>1. GoodProcess(facts, Ended("none", "none"))
    BY EndedGood
  <2>2. Ended("none", "none") = Idle
    <3> HIDE DEF InitialContext
    <3>1. Idle.command = "none" /\ Idle.outcome = "none"
      BY DEF Idle
    <3>2. Idle = [Idle EXCEPT !.command = Idle.command, !.outcome = Idle.outcome]
      BY DEF Idle
    <3> QED BY <3>1, <3>2 DEF Ended
  <2> QED BY <2>1, <2>2
<1> HIDE DEF Idle, GoodProcess
<1>5. proc = [p \in Processes |-> proc[p]] /\ \A p \in Processes : GoodProcess(facts, proc[p])
  BY <1>3, <1>4
<1> QED BY <1>1, <1>2, <1>5 DEF SharedInvariant

\* One process changes and stays in order.
LEMMA OneChanged ==
  ASSUME SharedInvariant, NEW p \in Processes, NEW one, GoodProcess(facts, one),
         proc' = [proc EXCEPT ![p] = one]
  PROVE  /\ proc' = [q \in Processes |-> proc'[q]]
         /\ \A q \in Processes : GoodProcess(facts, proc'[q])
         /\ proc'[p] = one /\ \A q \in Processes : q # p => proc'[q] = proc[q]
<1>1. proc = [q \in Processes |-> proc[q]] /\ \A q \in Processes : GoodProcess(facts, proc[q])
  BY DEF SharedInvariant
<1> HIDE DEF GoodProcess
<1>2. proc' = [q \in Processes |-> IF q = p THEN one ELSE proc[q]]
  BY <1>1
<1> QED BY <1>1, <1>2

\* One file is written with what fits it.
LEMMA OneWritten ==
  ASSUME NEW bundle, NEW before, before = [f \in Files |-> before[f]],
         \A f \in Files : Fits(f, before[f], bundle),
         NEW g \in Files, NEW content, Fits(g, content, bundle),
         NEW after, after = [before EXCEPT ![g] = content]
  PROVE  /\ after = [f \in Files |-> after[f]]
         /\ \A f \in Files : Fits(f, after[f], bundle)
         /\ after[g] = content /\ \A f \in Files : f # g => after[f] = before[f]
<1> HIDE DEF Fits
<1>1. after = [f \in Files |-> IF f = g THEN content ELSE before[f]]
  OBVIOUS
<1> QED BY <1>1

\* A command that begins keeps the invariant.
LEMMA SharedBegin ==
  ASSUME SharedInvariant, NEW p \in Processes,
         NEW command \in {"start", "run", "decide", "resume", "approve"},
         NEW c, Sound(facts, c), Begin(p, command, c), UNCHANGED <<facts, disk, tmp>>
  PROVE  SharedInvariant'
<1>1. proc' = [proc EXCEPT ![p] = Begun(command, c)]
  BY DEF Begin, Begun
<1>2. GoodProcess(facts, Begun(command, c))
  BY BegunGood
<1>3. /\ proc' = [q \in Processes |-> proc'[q]]
      /\ \A q \in Processes : GoodProcess(facts, proc'[q])
  BY <1>1, <1>2, OneChanged
<1>4. commands' \in 0 .. MaxCommands /\ kills' \in 0 .. MaxKills
  BY BoundsAssumption DEF SharedInvariant, Begin
<1> QED BY <1>3, <1>4 DEF SharedInvariant

\* start and run in a directory of their own keep the invariant.
LEMMA SharedStartNew ==
  ASSUME SharedInvariant, NEW p \in Processes, NEW command \in {"start", "run"},
         StartNew(p, command)
  PROVE  SharedInvariant'
<1>1. PICK c \in Fresh(command) : Begin(p, command, c)
  BY DEF StartNew
<1>2. Sound(facts, c)
  BY FreshSound
<1> QED BY <1>1, <1>2, SharedBegin DEF StartNew

\* The processes whose files were unlinked, and one that changes.
LEMMA UnlinkedGood ==
  ASSUME SharedInvariant, NEW p \in Processes, NEW one, GoodProcess(facts, one),
         proc' = [Unlink(proc) EXCEPT ![p] = one]
  PROVE  /\ proc' = [q \in Processes |-> proc'[q]]
         /\ \A q \in Processes : GoodProcess(facts, proc'[q])
         /\ proc'[p] = one
<1>1. \A q \in Processes : GoodProcess(facts, proc[q])
  BY DEF SharedInvariant
<1>2. \A q \in Processes : GoodProcess(facts, Unlink(proc)[q])
  <2> SUFFICES ASSUME NEW q \in Processes PROVE GoodProcess(facts, Unlink(proc)[q])
    OBVIOUS
  <2>1. GoodProcess(facts, [proc[q] EXCEPT !.handle = "gone"])
    BY <1>1, RelinkGood
  <2> HIDE DEF GoodProcess
  <2> QED BY <1>1, <2>1 DEF Unlink
<1> HIDE DEF GoodProcess
<1>3. Unlink(proc) = [q \in Processes |-> Unlink(proc)[q]]
  BY DEF Unlink
<1>4. proc' = [q \in Processes |-> IF q = p THEN one ELSE Unlink(proc)[q]]
  <2> HIDE DEF Unlink
  <2> QED BY <1>3
<1> HIDE DEF Unlink
<1> QED BY <1>2, <1>4

\* Replacing an existing run keeps the invariant.
LEMMA SharedStartReplacing ==
  ASSUME SharedInvariant, NEW p \in Processes, NEW command \in {"start", "run"},
         StartReplacing(p, command)
  PROVE  SharedInvariant'
<1>1. PICK one : /\ GoodProcess(facts, one)
                 /\ proc' = [Unlink(proc) EXCEPT ![p] = one]
  <2>1. CASE proc' = [Unlink(proc) EXCEPT ![p] = Ended(command, "failed")]
    <3>1. GoodProcess(facts, Ended(command, "failed"))
      BY EndedGood
    <3> QED BY <2>1, <3>1
  <2>2. CASE \E c \in Fresh(command) :
               proc' = [Unlink(proc) EXCEPT ![p] =
                          [Idle EXCEPT !.pc = "open", !.command = command, !.ctx = c]]
    <3>1. PICK c \in Fresh(command) : proc' = [Unlink(proc) EXCEPT ![p] = Begun(command, c)]
      BY <2>2 DEF Begun
    <3>2. GoodProcess(facts, Begun(command, c))
      BY FreshSound, BegunGood
    <3> QED BY <3>1, <3>2
  <2> QED BY <2>1, <2>2 DEF StartReplacing
<1>2. /\ proc' = [q \in Processes |-> proc'[q]]
      /\ \A q \in Processes : GoodProcess(facts, proc'[q])
  BY <1>1, UnlinkedGood
<1>3. /\ disk' = [f \in Files |-> Missing] /\ tmp' = [f \in Files |-> Missing]
      /\ facts' = facts
      /\ commands' \in 0 .. MaxCommands /\ kills' \in 0 .. MaxKills
  <2>1. /\ disk' = [f \in Files |-> Missing] /\ tmp' = [f \in Files |-> Missing]
        /\ facts' = facts /\ kills' = kills
        /\ commands' = commands + 1 /\ commands < MaxCommands
    BY DEF StartReplacing
  <2>2. commands \in 0 .. MaxCommands /\ kills \in 0 .. MaxKills
    BY DEF SharedInvariant
  <2> QED BY <2>1, <2>2, BoundsAssumption
<1>4. \A f : Fits(f, Missing, facts)
  BY DEF Fits
<1>5. facts' \in Cases
  BY <1>3 DEF SharedInvariant
<1> HIDE DEF Fits, GoodProcess
<1>6. /\ disk' = [f \in Files |-> disk'[f]] /\ tmp' = [f \in Files |-> tmp'[f]]
      /\ \A f \in Files : Fits(f, disk'[f], facts) /\ Fits(f, tmp'[f], facts)
  BY <1>3, <1>4
<1> QED BY <1>2, <1>3, <1>5, <1>6 DEF SharedInvariant

\* Being killed while the directory is taken away keeps the invariant.
LEMMA SharedKilledReplacing ==
  ASSUME SharedInvariant, NEW p \in Processes, KilledReplacing(p)
  PROVE  SharedInvariant'
<1>1. /\ proc' = [Unlink(proc) EXCEPT ![p] = Ended("start", "killed")]
      /\ facts' = facts
      /\ commands' \in 0 .. MaxCommands /\ kills' \in 0 .. MaxKills
  BY BoundsAssumption DEF KilledReplacing, SharedInvariant
<1>2. GoodProcess(facts, Ended("start", "killed"))
  BY EndedGood
<1>3. /\ proc' = [q \in Processes |-> proc'[q]]
      /\ \A q \in Processes : GoodProcess(facts, proc'[q])
  BY <1>1, <1>2, UnlinkedGood
<1>4. PICK kept \in Leftovers :
        /\ disk' = [f \in Files |-> IF f \in kept THEN disk[f] ELSE Missing]
        /\ tmp' = [f \in Files |-> Missing]
  BY DEF KilledReplacing
<1>5. \A f : Fits(f, Missing, facts)
  BY DEF Fits
<1>6. facts' \in Cases /\ \A f \in Files : Fits(f, disk[f], facts)
  BY <1>1 DEF SharedInvariant
<1> HIDE DEF Fits, GoodProcess
<1>7. /\ disk' = [f \in Files |-> disk'[f]] /\ tmp' = [f \in Files |-> tmp'[f]]
      /\ \A f \in Files : Fits(f, disk'[f], facts) /\ Fits(f, tmp'[f], facts)
  BY <1>4, <1>5, <1>6
<1> QED BY <1>1, <1>3, <1>6, <1>7 DEF SharedInvariant

\* decide, resume and approve keep the invariant.
LEMMA SharedLoading ==
  ASSUME SharedInvariant, NEW p \in Processes,
         Resume(p) \/ \E actor \in Actors : Decide(p, actor) \/ Approve(p, actor)
  PROVE  SharedInvariant'
<1>1. CASE Resume(p)
  <2>1. Loadable /\ CanResume(Loaded) /\ UNCHANGED <<facts, disk, tmp>>
    BY <1>1 DEF Resume
  <2>2. Sound(facts, PlanRecovery(LeaveHumanGate(Loaded)))
    BY <2>1, ResumedSound
  <2>3. Begin(p, "resume", PlanRecovery(LeaveHumanGate(Loaded)))
    BY <1>1 DEF Resume
  <2> QED BY <2>1, <2>2, <2>3, SharedBegin
<1>2. ASSUME NEW actor \in Actors, Decide(p, actor)
      PROVE  SharedInvariant'
  <2>1. /\ Loadable /\ CanRecordDecision(Loaded, Confirmation(actor))
        /\ UNCHANGED <<facts, disk, tmp>>
    BY <1>2 DEF Decide
  <2>2. Sound(facts, RecordHumanDecision(Loaded, Confirmation(actor)))
    BY <2>1, CommandSound
  <2>3. Begin(p, "decide", RecordHumanDecision(Loaded, Confirmation(actor)))
    BY <1>2 DEF Decide
  <2> QED BY <2>1, <2>2, <2>3, SharedBegin
<1>3. ASSUME NEW actor \in Actors, Approve(p, actor)
      PROVE  SharedInvariant'
  <2>1. Loadable /\ CanApprove(Loaded) /\ UNCHANGED <<facts, disk, tmp>>
    BY <1>3 DEF Approve
  <2>2. Sound(facts, ApproveFinal(Loaded, actor))
    BY <2>1, CommandSound
  <2>3. Begin(p, "approve", ApproveFinal(Loaded, actor))
    BY <1>3 DEF Approve
  <2> QED BY <2>1, <2>2, <2>3, SharedBegin
<1> QED BY <1>1, <1>2, <1>3

\* What a process has come to, in terms of its record.
LEMMA CurrentFile ==
  ASSUME SharedInvariant, NEW p \in Processes
  PROVE  /\ GoodProcess(facts, proc[p])
         /\ Current(p) = AllFiles[proc[p].file] /\ Current(p) \in Files
         /\ proc[p] \in ProcessRecords(facts)
         /\ proc[p].pc # "idle" => /\ Fits(Current(p), Payload(p), facts)
                                   /\ Fits(Current(p), Torn, facts)
                                   /\ Fits(Current(p), Missing, facts)
<1>1. GoodProcess(facts, proc[p])
  BY DEF SharedInvariant
<1>2. Current(p) = AllFiles[proc[p].file]
  BY DEF Current
<1>3. Current(p) \in Files /\ proc[p] \in ProcessRecords(facts)
  BY <1>1, <1>2 DEF GoodProcess
<1>4. proc[p].pc # "idle" => /\ Fits(Current(p), Payload(p), facts)
                             /\ Fits(Current(p), Torn, facts)
                             /\ Fits(Current(p), Missing, facts)
  <2> SUFFICES ASSUME proc[p].pc # "idle"
               PROVE  /\ Fits(Current(p), Payload(p), facts)
                      /\ Fits(Current(p), Torn, facts)
                      /\ Fits(Current(p), Missing, facts)
    OBVIOUS
  <2> HIDE DEF GoodProcess, Fits, Manifest, Slice
  <2> QED BY <1>1, <1>2, WrittenFits DEF Payload
<1> QED BY <1>1, <1>2, <1>3, <1>4

\* What the process that gathers the checksums becomes.
LEMMA SummedGood ==
  ASSUME SharedInvariant, NEW p \in Processes, SumArtifacts(p)
  PROVE  \E one : /\ GoodProcess(facts, one)
                  /\ proc' = [proc EXCEPT ![p] = one]
                  /\ \/ one = Ended(proc[p].command, "failed")
                     \/ one = [proc[p] EXCEPT !.pc = "open", !.sums = [f \in Artifacts |-> disk[f]]]
<1> DEFINE sums == [f \in Artifacts |-> disk[f]]
           one  == [proc[p] EXCEPT !.pc = "open", !.sums = sums]
<1>1. /\ proc[p] \in ProcessRecords(facts) /\ GoodProcess(facts, proc[p])
      /\ proc[p].pc # "idle"
  BY CurrentFile DEF SumArtifacts
<1>2. sums \in Sums(facts)
  <2>1. ASSUME NEW f \in Artifacts PROVE disk[f] \in ArtifactContents(facts)
    <3>1. f \in Files /\ f # ManifestFile
      BY FilePlaces
    <3>2. Fits(f, disk[f], facts)
      BY <3>1 DEF SharedInvariant
    <3> QED BY <3>1, <3>2 DEF Fits, Data, ArtifactContents
  <2> HIDE DEF ArtifactContents
  <2> QED BY <2>1 DEF Sums
<1> HIDE DEF sums
<1>3. /\ one \in ProcessRecords(facts) /\ one.file = proc[p].file
      /\ one.ctx = proc[p].ctx
  <2> HIDE DEF Sums
  <2> QED BY <1>1, <1>2 DEF ProcessRecords
<1>4. GoodProcess(facts, one)
  BY <1>1, <1>3 DEF GoodProcess
<1>5. proc[p].command \in {"none", "start", "run", "decide", "resume", "approve"}
  BY <1>1 DEF ProcessRecords
<1>6. GoodProcess(facts, Ended(proc[p].command, "failed"))
  BY <1>5, EndedGood
<1> HIDE DEF GoodProcess
<1>7. proc = [q \in Processes |-> proc[q]]
  BY DEF SharedInvariant
<1>8. CASE \A f \in Artifacts : Exists(disk[f])
  <2>1. proc' = [proc EXCEPT ![p].pc = "open", ![p].sums = sums]
    BY <1>8 DEF SumArtifacts, sums
  <2>2. proc' = [proc EXCEPT ![p] = one]
    BY <1>7, <2>1
  <2> QED BY <1>4, <2>2 DEF sums
<1>9. CASE ~ \A f \in Artifacts : Exists(disk[f])
  <2>1. proc' = [proc EXCEPT ![p] = Ended(@.command, "failed")]
    BY <1>9 DEF SumArtifacts
  <2>2. proc' = [proc EXCEPT ![p] = Ended(proc[p].command, "failed")]
    BY <1>7, <2>1
  <2> QED BY <1>6, <2>2
<1> QED BY <1>8, <1>9

\* What the process that opens, or fills, its temporary file becomes.
LEMMA MovedGood ==
  ASSUME NEW bundle, NEW one, GoodProcess(bundle, one), one.pc # "idle",
         NEW pc \in {"fill", "publish"}, NEW handle \in {"none", "tmp"}
  PROVE  LET moved == [one EXCEPT !.pc = pc, !.handle = handle]
         IN  /\ GoodProcess(bundle, moved)
             /\ moved.pc = pc /\ moved.handle = handle
             /\ moved.file = one.file /\ moved.ctx = one.ctx
             /\ moved.sums = one.sums /\ moved.outcome = one.outcome
<1> DEFINE moved == [one EXCEPT !.pc = pc, !.handle = handle]
<1>1. one \in ProcessRecords(bundle)
  BY DEF GoodProcess
<1>2. /\ moved \in ProcessRecords(bundle)
      /\ moved.pc = pc /\ moved.handle = handle
      /\ moved.file = one.file /\ moved.ctx = one.ctx
      /\ moved.sums = one.sums /\ moved.outcome = one.outcome
  BY <1>1 DEF ProcessRecords
<1> QED BY <1>1, <1>2 DEF GoodProcess

\* What the process that has published a file becomes.
LEMMA AdvancedGood ==
  ASSUME NEW bundle, NEW one, GoodProcess(bundle, one), one.pc # "idle"
  PROVE  /\ GoodProcess(bundle, Advanced(one))
         /\ one.file = 12 => Advanced(one) = Ended(one.command, "done")
         /\ one.file # 12 =>
              /\ Advanced(one).pc = IF Advanced(one).file = 12 THEN "sum" ELSE "open"
              /\ Advanced(one).file = Following(one.file)
              /\ Advanced(one).ctx = one.ctx /\ Advanced(one).handle = one.handle
              /\ Advanced(one).sums = one.sums /\ Advanced(one).outcome = one.outcome
<1>1. one \in ProcessRecords(bundle) /\ one.file \in 1 .. 12
  BY DEF GoodProcess, ProcessRecords
<1>2. CASE one.file = 12
  <2>1. Advanced(one) = Ended(one.command, "done")
    BY <1>2, FilePlaces DEF Advanced
  <2>2. one.command \in {"none", "start", "run", "decide", "resume", "approve"}
    BY <1>1 DEF ProcessRecords
  <2> QED BY <1>2, <2>1, <2>2, EndedGood
<1>3. CASE one.file # 12
  <2> DEFINE next == Following(one.file)
             pc   == IF AllFiles[next] = ManifestFile THEN "sum" ELSE "open"
             moved == [one EXCEPT !.file = next, !.pc = pc]
  <2>1. next \in 1 .. 12 /\ AllFiles[next] \in Files
    BY <1>1, <1>3, FollowingFile
  <2>2. Advanced(one) = moved
    BY <1>3, FilePlaces DEF Advanced
  <2>3. pc \in {"sum", "open"} /\ pc = IF next = 12 THEN "sum" ELSE "open"
    <3>1. AllFiles[next] = ManifestFile <=> next = 12
      BY <2>1, FilePlaces
    <3> QED BY <3>1
  <2> HIDE DEF next, pc
  <2>4. /\ moved \in ProcessRecords(bundle)
        /\ moved.pc = pc /\ moved.file = next
        /\ moved.ctx = one.ctx /\ moved.handle = one.handle
        /\ moved.sums = one.sums /\ moved.outcome = one.outcome
    BY <1>1, <2>1, <2>3 DEF ProcessRecords
  <2> HIDE DEF moved
  <2>5. GoodProcess(bundle, moved)
    BY <2>1, <2>4 DEF GoodProcess
  <2> QED BY <1>3, <2>2, <2>3, <2>4, <2>5 DEF next
<1> QED BY <1>2, <1>3

\* What the steps of one process do to its record.
LEMMA MovedProcess ==
  ASSUME SharedInvariant, NEW p \in Processes,
         NEW pc \in {"fill", "publish"}, NEW handle \in {"none", "tmp"},
         proc[p].pc # "idle",
         proc' = [proc EXCEPT ![p].pc = pc, ![p].handle = handle]
  PROVE  LET moved == [proc[p] EXCEPT !.pc = pc, !.handle = handle]
         IN  /\ GoodProcess(facts, moved)
             /\ proc' = [proc EXCEPT ![p] = moved]
             /\ proc'[p] = moved
             /\ proc' = [q \in Processes |-> proc'[q]]
             /\ \A q \in Processes : GoodProcess(facts, proc'[q])
<1> DEFINE moved == [proc[p] EXCEPT !.pc = pc, !.handle = handle]
<1>1. GoodProcess(facts, proc[p])
  BY CurrentFile
<1>2. GoodProcess(facts, moved)
  BY <1>1, MovedGood
<1>3. proc = [q \in Processes |-> proc[q]]
  BY DEF SharedInvariant
<1>4. proc' = [proc EXCEPT ![p] = moved]
  BY <1>3
<1> HIDE DEF moved
<1>5. /\ proc' = [q \in Processes |-> proc'[q]] /\ proc'[p] = moved
      /\ \A q \in Processes : GoodProcess(facts, proc'[q])
  BY <1>2, <1>4, OneChanged
<1> QED BY <1>2, <1>4, <1>5 DEF moved

\* Opening the temporary file keeps the invariant.
LEMMA SharedOpen ==
  ASSUME SharedInvariant, NEW p \in Processes, OpenTemporary(p)
  PROVE  SharedInvariant'
<1>1. /\ proc[p].pc # "idle"
      /\ tmp' = [tmp EXCEPT ![Current(p)] = Torn]
      /\ proc' = [proc EXCEPT ![p].pc = "fill", ![p].handle = "tmp"]
      /\ facts' = facts /\ disk' = disk /\ commands' = commands /\ kills' = kills
  BY DEF OpenTemporary
<1>2. /\ proc' = [q \in Processes |-> proc'[q]]
      /\ \A q \in Processes : GoodProcess(facts, proc'[q])
  BY <1>1, MovedProcess
<1>3. /\ tmp = [f \in Files |-> tmp[f]] /\ \A f \in Files : Fits(f, tmp[f], facts)
  BY DEF SharedInvariant
<1>4. Current(p) \in Files /\ Fits(Current(p), Torn, facts)
  BY <1>1, CurrentFile
<1>5. /\ tmp' = [f \in Files |-> tmp'[f]] /\ \A f \in Files : Fits(f, tmp'[f], facts)
  BY <1>1, <1>3, <1>4, OneWritten
<1> HIDE DEF Fits, GoodProcess
<1> QED BY <1>1, <1>2, <1>5 DEF SharedInvariant

\* Filling whatever the handle leads to keeps the invariant.
LEMMA SharedFill ==
  ASSUME SharedInvariant, NEW p \in Processes, FillTemporary(p)
  PROVE  SharedInvariant'
<1> DEFINE f == Current(p)
<1>1. /\ proc[p].pc # "idle"
      /\ proc' = [proc EXCEPT ![p].pc = "publish", ![p].handle = "none"]
      /\ facts' = facts /\ commands' = commands /\ kills' = kills
  BY DEF FillTemporary
<1>2. /\ proc' = [q \in Processes |-> proc'[q]]
      /\ \A q \in Processes : GoodProcess(facts, proc'[q])
  BY <1>1, MovedProcess
<1>3. /\ tmp = [g \in Files |-> tmp[g]] /\ \A g \in Files : Fits(g, tmp[g], facts)
      /\ disk = [g \in Files |-> disk[g]] /\ \A g \in Files : Fits(g, disk[g], facts)
  BY DEF SharedInvariant
<1>4. f \in Files /\ Fits(f, Torn, facts) /\ Fits(f, Payload(p), facts)
  BY <1>1, CurrentFile
<1>5. \A old : \A new \in Overwritten(old, Payload(p)) : Fits(f, new, facts)
  <2> HIDE DEF Payload, Fits, f
  <2> QED BY <1>4 DEF Overwritten
<1> HIDE DEF f
<1>6. /\ tmp' = [g \in Files |-> tmp'[g]] /\ \A g \in Files : Fits(g, tmp'[g], facts)
      /\ disk' = [g \in Files |-> disk'[g]] /\ \A g \in Files : Fits(g, disk'[g], facts)
  <2>1. CASE /\ \E new \in Overwritten(tmp[f], Payload(p)) : tmp' = [tmp EXCEPT ![f] = new]
             /\ disk' = disk
    <3>1. PICK new \in Overwritten(tmp[f], Payload(p)) : tmp' = [tmp EXCEPT ![f] = new]
      BY <2>1
    <3>2. Fits(f, new, facts)
      BY <1>5
    <3> QED BY <1>3, <1>4, <2>1, <3>1, <3>2, OneWritten
  <2>2. CASE /\ \E new \in Overwritten(disk[f], Payload(p)) : disk' = [disk EXCEPT ![f] = new]
             /\ tmp' = tmp
    <3>1. PICK new \in Overwritten(disk[f], Payload(p)) : disk' = [disk EXCEPT ![f] = new]
      BY <2>2
    <3>2. Fits(f, new, facts)
      BY <1>5
    <3> QED BY <1>3, <1>4, <2>2, <3>1, <3>2, OneWritten
  <2>3. CASE disk' = disk /\ tmp' = tmp
    BY <1>3, <2>3
  <2> QED BY <2>1, <2>2, <2>3 DEF FillTemporary, f
<1> HIDE DEF Fits, GoodProcess
<1> QED BY <1>1, <1>2, <1>6 DEF SharedInvariant

\* Gathering the checksums keeps the invariant.
LEMMA SharedSum ==
  ASSUME SharedInvariant, NEW p \in Processes, SumArtifacts(p)
  PROVE  SharedInvariant'
<1>1. PICK one : GoodProcess(facts, one) /\ proc' = [proc EXCEPT ![p] = one]
  BY SummedGood
<1>2. /\ proc' = [q \in Processes |-> proc'[q]]
      /\ \A q \in Processes : GoodProcess(facts, proc'[q])
  BY <1>1, OneChanged
<1>3. facts' = facts /\ disk' = disk /\ tmp' = tmp /\ commands' = commands /\ kills' = kills
  BY DEF SumArtifacts
<1> HIDE DEF Fits, GoodProcess
<1> QED BY <1>2, <1>3 DEF SharedInvariant

\* A process that is killed keeps the invariant.
LEMMA SharedKill ==
  ASSUME SharedInvariant, NEW p \in Processes, Kill(p)
  PROVE  SharedInvariant'
<1>1. /\ proc' = [proc EXCEPT ![p] = Ended(@.command, "killed")]
      /\ kills' = kills + 1 /\ kills < MaxKills
      /\ facts' = facts /\ disk' = disk /\ tmp' = tmp /\ commands' = commands
  BY DEF Kill
<1>2. proc[p] \in ProcessRecords(facts)
  BY CurrentFile
<1>3. proc[p].command \in {"none", "start", "run", "decide", "resume", "approve"}
  BY <1>2 DEF ProcessRecords
<1>4. proc' = [proc EXCEPT ![p] = Ended(proc[p].command, "killed")]
  <2>1. proc = [q \in Processes |-> proc[q]]
    BY DEF SharedInvariant
  <2> QED BY <1>1, <2>1
<1>5. GoodProcess(facts, Ended(proc[p].command, "killed"))
  BY <1>3, EndedGood
<1>6. /\ proc' = [q \in Processes |-> proc'[q]]
      /\ \A q \in Processes : GoodProcess(facts, proc'[q])
  BY <1>4, <1>5, OneChanged
<1>7. kills' \in 0 .. MaxKills
  <2>1. kills \in 0 .. MaxKills
    BY DEF SharedInvariant
  <2> QED BY <1>1, <2>1, BoundsAssumption
<1> HIDE DEF Fits, GoodProcess
<1> QED BY <1>1, <1>6, <1>7 DEF SharedInvariant

\* Publishing a file, which takes along the handles others have on it, keeps
\* the invariant.
LEMMA SharedPublish ==
  ASSUME SharedInvariant, NEW p \in Processes, PublishFile(p)
  PROVE  SharedInvariant'
<1> DEFINE f == Current(p)
<1>1. proc[p].pc # "idle" /\ facts' = facts /\ commands' = commands /\ kills' = kills
  BY DEF PublishFile
<1>2. /\ GoodProcess(facts, proc[p]) /\ proc[p] \in ProcessRecords(facts)
      /\ f \in Files /\ Fits(f, Missing, facts)
  BY <1>1, CurrentFile
<1>3. /\ tmp = [g \in Files |-> tmp[g]] /\ \A g \in Files : Fits(g, tmp[g], facts)
      /\ disk = [g \in Files |-> disk[g]] /\ \A g \in Files : Fits(g, disk[g], facts)
      /\ proc = [q \in Processes |-> proc[q]] /\ \A q \in Processes : GoodProcess(facts, proc[q])
  BY DEF SharedInvariant
<1> HIDE DEF f
<1>4. CASE /\ proc' = [proc EXCEPT ![p] = Ended(@.command, "failed")]
           /\ disk' = disk /\ tmp' = tmp
  <2>1. proc[p].command \in {"none", "start", "run", "decide", "resume", "approve"}
    BY <1>2 DEF ProcessRecords
  <2>2. GoodProcess(facts, Ended(proc[p].command, "failed"))
    BY <2>1, EndedGood
  <2>3. proc' = [proc EXCEPT ![p] = Ended(proc[p].command, "failed")]
    BY <1>3, <1>4
  <2>4. /\ proc' = [q \in Processes |-> proc'[q]]
        /\ \A q \in Processes : GoodProcess(facts, proc'[q])
    BY <2>2, <2>3, OneChanged
  <2> HIDE DEF Fits, GoodProcess
  <2> QED BY <1>1, <1>4, <2>4 DEF SharedInvariant
<1>5. CASE /\ disk' = [disk EXCEPT ![f] = tmp[f]]
           /\ tmp' = [tmp EXCEPT ![f] = Missing]
           /\ proc' = [FollowRename(f) EXCEPT ![p] = Advanced(proc[p])]
  <2>1. /\ disk' = [g \in Files |-> disk'[g]] /\ \A g \in Files : Fits(g, disk'[g], facts)
    BY <1>2, <1>3, <1>5, OneWritten
  <2>2. /\ tmp' = [g \in Files |-> tmp'[g]] /\ \A g \in Files : Fits(g, tmp'[g], facts)
    BY <1>2, <1>3, <1>5, OneWritten
  <2>3. GoodProcess(facts, Advanced(proc[p]))
    BY <1>1, <1>2, AdvancedGood
  <2>4. \A q \in Processes : GoodProcess(facts, FollowRename(f)[q])
    <3> SUFFICES ASSUME NEW q \in Processes PROVE GoodProcess(facts, FollowRename(f)[q])
      OBVIOUS
    <3>1. GoodProcess(facts, [proc[q] EXCEPT !.handle = "renamed"])
      BY <1>3, RelinkGood
    <3>2. GoodProcess(facts, [proc[q] EXCEPT !.handle = "gone"])
      BY <1>3, RelinkGood
    <3> HIDE DEF GoodProcess
    <3>3. FollowRename(f)[q] \in
            {proc[q], [proc[q] EXCEPT !.handle = "renamed"], [proc[q] EXCEPT !.handle = "gone"]}
      BY DEF FollowRename
    <3> QED BY <1>3, <3>1, <3>2, <3>3
  <2>5. FollowRename(f) = [q \in Processes |-> FollowRename(f)[q]]
    BY DEF FollowRename
  <2> HIDE DEF Fits, GoodProcess, FollowRename, Advanced
  <2>6. proc' = [q \in Processes |-> IF q = p THEN Advanced(proc[p]) ELSE FollowRename(f)[q]]
    BY <1>5, <2>5
  <2>7. /\ proc' = [q \in Processes |-> proc'[q]]
        /\ \A q \in Processes : GoodProcess(facts, proc'[q])
    BY <2>3, <2>4, <2>6
  <2> QED BY <1>1, <2>1, <2>2, <2>7 DEF SharedInvariant
<1> QED BY <1>4, <1>5 DEF PublishFile, f

\* Every step keeps the invariant.
LEMMA SharedNext == SharedInvariant /\ [Next]_vars => SharedInvariant'
<1> SUFFICES ASSUME SharedInvariant, [Next]_vars PROVE SharedInvariant'
  OBVIOUS
<1>1. CASE UNCHANGED vars
  <2> HIDE DEF Fits, GoodProcess
  <2> QED BY <1>1 DEF vars, SharedInvariant
<1>2. ASSUME NEW p \in Processes, Command(p) \/ Write(p) \/ Kill(p)
      PROVE  SharedInvariant'
  <2>1. ASSUME NEW command \in {"start", "run"},
               StartNew(p, command) \/ StartReplacing(p, command)
        PROVE  SharedInvariant'
    BY <2>1, SharedStartNew, SharedStartReplacing
  <2>2. CASE KilledReplacing(p)
    BY <2>2, SharedKilledReplacing
  <2>3. CASE Resume(p) \/ \E actor \in Actors : Decide(p, actor) \/ Approve(p, actor)
    BY <2>3, SharedLoading
  <2>4. CASE Write(p)
    BY <2>4, SharedSum, SharedOpen, SharedFill, SharedPublish DEF Write
  <2>5. CASE Kill(p)
    BY <2>5, SharedKill
  <2> QED BY <1>2, <2>1, <2>2, <2>3, <2>4, <2>5 DEF Command
<1> QED BY <1>1, <1>2 DEF Next

\* However many processes share the directory, nothing but whole sound
\* contexts, or pieces of them, is ever found whole in a file.
THEOREM SharedDirectory == Spec => []SharedInvariant
BY SharedInit, SharedNext, PTL DEF Spec

-----------------------------------------------------------------------------
(* What the invariant says, for any number of processes *)

\* Every variable has its type: in particular whatever is whole in the state
\* file is a context record.
THEOREM TypeCorrect == Spec => []TypeOK
<1>1. SharedInvariant => TypeOK
  <2> SUFFICES ASSUME SharedInvariant PROVE TypeOK
    OBVIOUS
  <2>1. /\ facts \in Cases /\ commands \in 0 .. MaxCommands /\ kills \in 0 .. MaxKills
        /\ disk = [f \in Files |-> disk[f]] /\ tmp = [f \in Files |-> tmp[f]]
    BY DEF SharedInvariant
  <2>2. DOMAIN disk = Files /\ DOMAIN tmp = Files
    BY <2>1
  <2>3. ASSUME NEW f \in Files, NEW content, Fits(f, content, facts)
        PROVE  IsContent(f, content)
    <3>1. CASE content \in {Missing, Torn}
      BY <3>1 DEF IsContent
    <3>2. CASE content \notin {Missing, Torn}
      <4>1. PICK data \in Data(f, facts) : content = Whole(data)
        BY <2>3, <3>2 DEF Fits
      <4>2. IsWhole(content) /\ DOMAIN content = {"kind", "data"} /\ content.data = data
        BY <4>1 DEF Whole, IsWhole
      <4>3. f = StateFile => data \in Contexts
        <5> SUFFICES ASSUME f = StateFile PROVE data \in Contexts
          OBVIOUS
        <5>1. PICK c \in SoundContexts(facts) : data = Slice(StateFile, c)
          BY <4>1, FilePlaces DEF Data
        <5> QED BY <5>1, StateSlice DEF SoundContexts
      <4> QED BY <4>2, <4>3 DEF IsContent
    <3> QED BY <3>1, <3>2
  <2>4. \A f \in Files : IsContent(f, disk[f]) /\ IsContent(f, tmp[f])
    BY <2>3 DEF SharedInvariant
  <2>5. ASSUME NEW p \in Processes
        PROVE  /\ proc[p].pc \in {"idle", "sum", "open", "fill", "publish"}
               /\ proc[p].command \in {"none", "start", "run", "decide", "resume", "approve"}
               /\ proc[p].ctx \in Contexts
               /\ proc[p].file \in DOMAIN AllFiles /\ Current(p) \in Files
               /\ proc[p].handle \in {"none", "tmp", "renamed", "gone"}
               /\ proc[p].outcome \in {"none", "done", "failed", "killed"}
    <3>1. proc[p] \in ProcessRecords(facts) /\ Current(p) \in Files
      BY CurrentFile
    <3> QED BY <3>1, FilePlaces DEF ProcessRecords
  <2> QED BY <2>1, <2>2, <2>4, <2>5 DEF TypeOK
<1> QED BY <1>1, SharedDirectory, PTL

\* Whatever state loads satisfies the inspector's rules, however many processes
\* wrote to the directory and whenever they were killed.
LEMMA StateInOrder ==
  ASSUME SharedInvariant, Loadable
  PROVE  StateConsistent(State)
<1>1. Sound(facts, State) /\ State \in Contexts
  BY LoadedSound
<1> HIDE DEF State
<1> QED BY <1>1, ShapeConsistent DEF Sound

\* Whatever the interleaving of processes, a state file that authorizes a
\* recommendation went through the gate: its request is answered, the request
\* and the approval were decided exactly once, no contradiction is unresolved.
THEOREM AuthorizationOnDiskIsGoverned == Spec => []AuthorizedOnDiskGoverned
<1>1. SharedInvariant => AuthorizedOnDiskGoverned
  <2> SUFFICES ASSUME SharedInvariant, Loadable, State.final.status = "authorized"
               PROVE  /\ State.humanRequests # <<>>
                      /\ Pending(State) = {}
                      /\ \A id \in {OnsiteRequest, FinalRequest} :
                           Cardinality({i \in DOMAIN State.decisions :
                                          State.decisions[i].request = id}) = 1
                      /\ \A i \in DOMAIN State.final.contradictions :
                           State.final.contradictions[i] = "resolved"
    BY DEF AuthorizedOnDiskGoverned
  <2> DEFINE c == State
  <2>1. c \in Contexts /\ GateShape(c) /\ DecidedOnce(c) /\ c.final.status = "authorized"
    BY LoadedSound DEF Sound
  <2> HIDE DEF c
  <2>2. Answered(c) /\ Drafted(c) /\ Approved(c)
    BY <2>1, AuthorizedShape
  <2>3. c.humanRequests # <<>> /\ Pending(c) = {}
    BY <2>2 DEF Answered, Gate, Pending
  <2>4. ASSUME NEW id \in {OnsiteRequest, FinalRequest}
        PROVE  Cardinality({i \in DOMAIN c.decisions : c.decisions[i].request = id}) = 1
    <3>1. OnsiteRequest \in DecidedIds(c)
      BY <2>2 DEF Answered
    <3>2. \E i \in DOMAIN c.decisions : c.decisions[i].request = FinalRequest
      BY <2>2 DEF Approved
    <3>3. PICK k \in DOMAIN c.decisions : c.decisions[k].request = id
      BY <3>1, <3>2 DEF DecidedIds
    <3>4. {i \in DOMAIN c.decisions : c.decisions[i].request = id} = {k}
      BY <2>1, <3>3 DEF DecidedOnce
    <3> QED BY <3>4, FS_Singleton
  <2>5. \A i \in DOMAIN c.final.contradictions : c.final.contradictions[i] = "resolved"
    <3>1. c.draft \in Recommendations
      BY <2>1 DEF Contexts
    <3>2. c.final.contradictions = c.draft.contradictions
      BY <2>2, <3>1 DEF Approved, Recommendations
    <3> QED BY <2>2, <3>2 DEF Drafted
  <2> QED BY <2>3, <2>4, <2>5 DEF c
<1> QED BY <1>1, SharedDirectory, PTL

\* The attempt records persisted with the state are truthful: an expert has as
\* many completed attempts as completions in the audit trail, although a record
\* without a finding says "completed" by default.
THEOREM AttemptRecordsAreTruthful == Spec => []AttemptRecordsTruthful
<1>1. SharedInvariant => AttemptRecordsTruthful
  <2> SUFFICES ASSUME SharedInvariant, Loadable, NEW role \in Roles
               PROVE  Cardinality({i \in DOMAIN State.requests :
                          /\ State.requests[i].role = role
                          /\ AttemptStatus(State, State.requests[i]) = "completed"})
                        = Cardinality({i \in EventsOf(State, "expert_execution_completed") :
                                         State.events[i].about = role})
    BY DEF AttemptRecordsTruthful
  <2> DEFINE c == State
  <2>1. c \in Contexts /\ Truthful(c)
    BY LoadedSound DEF Sound
  <2> HIDE DEF c
  <2>2. role # "workflow"
    BY DEF Roles, FindingRoles
  <2>3. Cardinality(CompletedRequests(c, role)) = Cardinality(Completions(c, role)) + 0
    BY <2>1, <2>2 DEF Truthful, Balanced
  <2>4. Cardinality(Completions(c, role)) \in Nat
    BY <2>1, AttemptsFinite
  <2>5. Cardinality(CompletedRequests(c, role)) = Cardinality(Completions(c, role))
    BY <2>3, <2>4
  <2> QED BY <2>5 DEF CompletedRequests, Completions, c
<1> QED BY <1>1, SharedDirectory, PTL

\* Wherever processes were killed and however they interleaved, a case that
\* every expert takes part in and whose option shortens the delay can be taken
\* further by one of the commands, as long as there is somebody to act.
THEOREM NobodyIsStranded ==
  ASSUME Actors # {}
  PROVE  Spec => []NeverStranded
<1>1. SharedInvariant => NeverStranded
  <2> SUFFICES ASSUME SharedInvariant, SelectExperts(facts) = Roles, ~facts.slipNegative,
                      Loadable
               PROVE  CanGoOn
    BY DEF NeverStranded
  <2> DEFINE c == State
  <2>1. Sound(facts, c) /\ Loaded = c
    BY LoadedSound
  <2>2. CanGoOn <=> \/ c.stage \in {"completed", "failed"}
                    \/ \E actor \in Actors : CanRecordDecision(Loaded, Confirmation(actor))
                    \/ CanResume(Loaded) /\ Plannable(Loaded, facts)
                    \/ CanApprove(Loaded)
    BY DEF CanGoOn
  <2> HIDE DEF c, Loaded
  <2>3. /\ GateShape(c) /\ c.selections = Roles
        /\ c.stage \in {"awaiting_human_decision", "recovery_planning",
                        "awaiting_final_approval", "completed"}
        /\ c.stage = "recovery_planning" => "EvidenceAuditor" \notin c.selections
        /\ c.stage = "awaiting_human_decision" => c.contradictions # <<>>
    BY <2>1 DEF Sound, PlannedStages
  <2>4. "EvidenceAuditor" \in Roles /\ "RecoveryPlanner" \in Roles
    BY DEF Roles
  <2>5. CASE c.stage = "awaiting_human_decision"
    <3>1. c.humanRequests = Gate("pending") /\ c.contradictions # <<>>
      BY <2>3, <2>5 DEF GateShape
    <3>2. Pending(c) = {1} /\ PendingIds(c) = {OnsiteRequest} /\ LastPending(c) = OnsiteRequest
      <4>1. /\ DOMAIN c.humanRequests = {1} /\ c.humanRequests[1].status = "pending"
            /\ c.humanRequests[1].id = OnsiteRequest
        BY <3>1 DEF Gate
      <4>2. Pending(c) = {1}
        BY <4>1 DEF Pending
      <4>3. PendingIds(c) = {OnsiteRequest}
        BY <4>1, <4>2 DEF PendingIds
      <4>4. (CHOOSE i \in {1} : \A j \in {1} : j <= i) = 1
        OBVIOUS
      <4>5. LastPending(c) = OnsiteRequest
        BY <4>1, <4>2, <4>4 DEF LastPending
      <4> QED BY <4>2, <4>3, <4>5
    <3>3. CASE OnsiteRequest \in DecidedIds(c)
      <4>1. CanResume(c)
        BY <2>5, <3>2, <3>3 DEF CanResume
      <4>2. Plannable(c, facts)
        BY <2>3, <2>4, <3>1 DEF Plannable
      <4> QED BY <2>1, <2>2, <4>1, <4>2
    <3>4. CASE OnsiteRequest \notin DecidedIds(c)
      <4>1. PICK actor \in Actors : TRUE
        OBVIOUS
      <4>2. Confirmation(actor).request = OnsiteRequest
        BY DEF Confirmation
      <4>3. CanRecordDecision(c, Confirmation(actor))
        BY <2>5, <3>2, <3>4, <4>2 DEF CanRecordDecision
      <4> QED BY <2>1, <2>2, <4>1, <4>3
    <3> QED BY <3>3, <3>4
  <2>6. CASE c.stage = "awaiting_final_approval"
    BY <2>1, <2>2, <2>6 DEF CanApprove
  <2>7. c.stage # "recovery_planning"
    BY <2>3, <2>4
  <2> QED BY <2>2, <2>3, <2>5, <2>6, <2>7
<1> QED BY <1>1, SharedDirectory, PTL

-----------------------------------------------------------------------------
(* One process at a time *)

(* Nobody runs a command on the directory while another is at work.        *)
Alone == \A p, q \in Processes : p = q

SumsOf(c) == [f \in Artifacts |-> Whole(Slice(f, c))]

(* The files p has come past hold what belongs to the context it writes.   *)
Written(p) ==
  \A n \in 1 .. 12 : (n < proc[p].file /\ AllFiles[n] \in Files) =>
    disk[AllFiles[n]] = Whole(Slice(AllFiles[n], proc[p].ctx))

FinalOnDisk ==
  LET final == disk["final-recommendation.json"]
  IN  /\ "final-recommendation.json" \in Files
      /\ IsWhole(final)
      /\ final.data.status = "authorized"

(* Before the first file: the state that is there is one the command       *)
(* started from, and it authorizes nothing.                                *)
AtStart(p) == (Loadable => Later(State, proc[p].ctx)) /\ ~FinalOnDisk

AtWork(p) ==
  proc[p].pc # "idle" =>
    /\ proc[p].outcome = "none"
    /\ Written(p)
    /\ proc[p].pc = "sum" => proc[p].file = 12
    /\ (proc[p].file = 12 /\ proc[p].pc # "sum") => proc[p].sums = SumsOf(proc[p].ctx)
    /\ proc[p].handle = IF proc[p].pc = "fill" THEN "tmp" ELSE "none"
    /\ proc[p].pc = "fill" => tmp[Current(p)] = Torn
    /\ proc[p].pc = "publish" => tmp[Current(p)] = Payload(p)
    /\ proc[p].file = 1 => AtStart(p)

(* A manifest is written whole, over the pieces of one context.            *)
ManifestRight ==
  IsWhole(disk[ManifestFile]) => \E c : disk[ManifestFile] = Whole(Manifest(c, SumsOf(c)))

(* What holds of the files whatever the process is doing.                  *)
FilesRight ==
  /\ \A f \in Files : disk[f] # Torn
  /\ ManifestRight
  /\ FinalFileBacked

(* The invariant that one process at a time keeps.                         *)
Sequential ==
  /\ SharedInvariant
  /\ FilesRight
  /\ \A p \in Processes : AtWork(p)
  /\ SettledRunInspects

(* What a step does to the history in the state file.                      *)
HistoryKept == (Loadable /\ Loadable') => IsPrefix(State.events, State'.events)

\* A step that leaves the state file alone, or takes it away, keeps the history.
LEMMA HistoryUntouched ==
  ASSUME SharedInvariant, disk'[StateFile] \in {disk[StateFile], Missing}
  PROVE  HistoryKept
<1> SUFFICES ASSUME Loadable, Loadable' PROVE IsPrefix(State.events, State'.events)
  BY DEF HistoryKept
<1>1. disk'[StateFile] # Missing
  BY DEF Loadable, IsWhole, Missing
<1>2. State' = State
  BY <1>1 DEF State
<1>3. State.events \in Seq(AuditEvents)
  BY LoadedSound, ContextSequences
<1>4. Continues(State.events, State.events)
  BY <1>3, ContinuesSelf
<1> HIDE DEF State
<1> QED BY <1>2, <1>3, <1>4, ContinuesPrefix

\* The empty directory is in order.
LEMMA EmptyRight ==
  ASSUME disk' = [f \in Files |-> Missing]
  PROVE  FilesRight' /\ ~Loadable' /\ ~FinalOnDisk'
<1>1. \A f \in Files : disk'[f] = Missing
  OBVIOUS
<1>2. Missing # Torn /\ ~IsWhole(Missing)
  BY DEF Missing, Torn, IsWhole
<1>3. StateFile \in Files /\ ManifestFile \in Files
  BY FilePlaces
<1>4. ~Loadable'
  BY <1>1, <1>2, <1>3 DEF Loadable
<1>5. ManifestRight'
  BY <1>1, <1>2, <1>3 DEF ManifestRight
<1>6. FinalFileBacked' /\ ~FinalOnDisk'
  BY <1>1, <1>2, <1>4 DEF FinalFileBacked, FinalOnDisk
<1> QED BY <1>1, <1>2, <1>4, <1>5, <1>6 DEF FilesRight

\* A process that is idle, and did not just end well, asks for nothing.
LEMMA IdleRight ==
  ASSUME Alone, NEW p \in Processes, SharedInvariant', FilesRight',
         proc'[p].pc = "idle", proc'[p].outcome # "done"
  PROVE  Sequential'
<1>1. \A q \in Processes : q = p
  BY DEF Alone
<1>2. \A q \in Processes : AtWork(q)'
  BY <1>1 DEF AtWork
<1>3. SettledRunInspects'
  BY <1>1 DEF SettledRunInspects
<1> QED BY <1>2, <1>3 DEF Sequential

\* A process at work that is where it should be.
LEMMA BusyRight ==
  ASSUME Alone, NEW p \in Processes, SharedInvariant', FilesRight',
         AtWork(p)', proc'[p].outcome = "none"
  PROVE  Sequential'
<1>1. \A q \in Processes : q = p
  BY DEF Alone
<1>2. \A q \in Processes : AtWork(q)'
  BY <1>1
<1>3. SettledRunInspects'
  BY <1>1 DEF SettledRunInspects
<1> QED BY <1>2, <1>3 DEF Sequential

\* A command that begins keeps the invariant.
LEMMA BegunRight ==
  ASSUME Alone, SharedInvariant', FilesRight', NEW p \in Processes, NEW command, NEW c,
         proc'[p] = Begun(command, c), Sound(facts, c),
         command \in {"start", "run", "decide", "resume", "approve"},
         Loadable' => Later(State', c), ~FinalOnDisk'
  PROVE  Sequential'
<1>1. /\ proc'[p].pc = "open" /\ proc'[p].file = 1 /\ proc'[p].ctx = c
      /\ proc'[p].handle = "none" /\ proc'[p].outcome = "none"
  BY BegunGood
<1>2. Written(p)'
  BY <1>1 DEF Written
<1>3. AtStart(p)'
  BY <1>1 DEF AtStart
<1>4. AtWork(p)'
  <2> HIDE DEF Written, AtStart, Begun
  <2> QED BY <1>1, <1>2, <1>3 DEF AtWork
<1> QED BY <1>1, <1>4, BusyRight

\* Without a directory there is nothing to go on from.
LEMMA NoDirectory ==
  ASSUME SharedInvariant, ~DirectoryExists
  PROVE  ~Loadable /\ ~FinalOnDisk
<1>1. \A f \in Files : disk[f] = Missing
  BY DEF DirectoryExists, Exists
<1>2. ~IsWhole(Missing) /\ StateFile \in Files
  BY FilePlaces DEF Missing, IsWhole
<1> QED BY <1>1, <1>2 DEF Loadable, FinalOnDisk

\* A state that is not completed has no authorized recommendation beside it.
LEMMA UnauthorizedDisk ==
  ASSUME Sequential, Loadable, State.stage # "completed"
  PROVE  ~FinalOnDisk
<1>1. State \in Contexts /\ GateShape(State)
  BY LoadedSound DEF Sequential, Sound
<1>2. State.final.status # "authorized"
  <2> HIDE DEF State
  <2> QED BY <1>1, AuthorizedShape
<1> QED BY <1>2 DEF Sequential, FilesRight, FinalFileBacked, FinalOnDisk

\* Beginning a command on files that stay as they are.
LEMMA SequentialBegin ==
  ASSUME Alone, Sequential, SharedInvariant', NEW p \in Processes,
         NEW command \in {"start", "run", "decide", "resume", "approve"}, NEW c,
         Sound(facts, c), Begin(p, command, c), disk' = disk,
         Loadable => Later(State, c), ~FinalOnDisk
  PROVE  Sequential' /\ HistoryKept
<1>1. proc' = [proc EXCEPT ![p] = Begun(command, c)]
  BY DEF Begin, Begun
<1>2. proc'[p] = Begun(command, c)
  <2>1. GoodProcess(facts, Begun(command, c)) /\ SharedInvariant
    BY BegunGood DEF Sequential
  <2> HIDE DEF Begun, GoodProcess
  <2> QED BY <1>1, <2>1, OneChanged
<1>3. FilesRight'
  BY DEF Sequential, FilesRight, ManifestRight, FinalFileBacked, Loadable, State
<1>4. (Loadable' => Later(State', c)) /\ ~FinalOnDisk'
  BY DEF Loadable, State, FinalOnDisk
<1>5. Sequential'
  BY <1>2, <1>3, <1>4, BegunRight
<1>6. HistoryKept
  BY HistoryUntouched DEF Sequential
<1> QED BY <1>5, <1>6

\* start and run in a directory of their own.
LEMMA SequentialStartNew ==
  ASSUME Alone, Sequential, SharedInvariant', NEW p \in Processes,
         NEW command \in {"start", "run"}, StartNew(p, command)
  PROVE  Sequential' /\ HistoryKept
<1>1. PICK c \in Fresh(command) : Begin(p, command, c)
  BY DEF StartNew
<1>2. Sound(facts, c)
  BY FreshSound DEF Sequential
<1>3. ~Loadable /\ ~FinalOnDisk /\ disk' = disk
  BY NoDirectory DEF StartNew, Sequential
<1> QED BY <1>1, <1>2, <1>3, SequentialBegin

\* decide, resume and approve: what they loaded authorizes nothing yet.
LEMMA SequentialLoading ==
  ASSUME Alone, Sequential, SharedInvariant', NEW p \in Processes,
         Resume(p) \/ \E actor \in Actors : Decide(p, actor) \/ Approve(p, actor)
  PROVE  Sequential' /\ HistoryKept
<1>1. SharedInvariant
  BY DEF Sequential
<1>2. CASE Resume(p)
  <2>1. /\ Loadable /\ CanResume(Loaded) /\ disk' = disk
        /\ Begin(p, "resume", PlanRecovery(LeaveHumanGate(Loaded)))
    BY <1>2 DEF Resume
  <2>2. /\ Sound(facts, PlanRecovery(LeaveHumanGate(Loaded)))
        /\ Later(State, PlanRecovery(LeaveHumanGate(Loaded)))
    BY <1>1, <2>1, ResumedSound
  <2>3. ~FinalOnDisk
    <3>1. State.stage = "awaiting_human_decision"
      BY <1>1, <2>1, LoadedSound DEF CanResume
    <3> QED BY <2>1, <3>1, UnauthorizedDisk
  <2> QED BY <2>1, <2>2, <2>3, SequentialBegin
<1>3. ASSUME NEW actor \in Actors, Decide(p, actor)
      PROVE  Sequential' /\ HistoryKept
  <2>1. /\ Loadable /\ CanRecordDecision(Loaded, Confirmation(actor)) /\ disk' = disk
        /\ Begin(p, "decide", RecordHumanDecision(Loaded, Confirmation(actor)))
    BY <1>3 DEF Decide
  <2>2. /\ Sound(facts, RecordHumanDecision(Loaded, Confirmation(actor)))
        /\ Later(State, RecordHumanDecision(Loaded, Confirmation(actor)))
    BY <1>1, <2>1, CommandSound
  <2>3. ~FinalOnDisk
    <3>1. State.stage = "awaiting_human_decision"
      BY <1>1, <2>1, LoadedSound DEF CanRecordDecision
    <3> QED BY <2>1, <3>1, UnauthorizedDisk
  <2> QED BY <2>1, <2>2, <2>3, SequentialBegin
<1>4. ASSUME NEW actor \in Actors, Approve(p, actor)
      PROVE  Sequential' /\ HistoryKept
  <2>1. /\ Loadable /\ CanApprove(Loaded) /\ disk' = disk
        /\ Begin(p, "approve", ApproveFinal(Loaded, actor))
    BY <1>4 DEF Approve
  <2>2. Sound(facts, ApproveFinal(Loaded, actor)) /\ Later(State, ApproveFinal(Loaded, actor))
    BY <1>1, <2>1, CommandSound
  <2>3. ~FinalOnDisk
    <3>1. State.stage = "awaiting_final_approval"
      BY <1>1, <2>1, LoadedSound DEF CanApprove
    <3> QED BY <2>1, <3>1, UnauthorizedDisk
  <2> QED BY <2>1, <2>2, <2>3, SequentialBegin
<1> QED BY <1>2, <1>3, <1>4

\* Replacing an existing run: the command goes on from an empty directory.
LEMMA SequentialStartReplacing ==
  ASSUME Alone, Sequential, SharedInvariant', NEW p \in Processes,
         NEW command \in {"start", "run"}, StartReplacing(p, command)
  PROVE  Sequential' /\ HistoryKept
<1>1. disk' = [f \in Files |-> Missing] /\ SharedInvariant
  BY DEF StartReplacing, Sequential
<1>2. FilesRight' /\ ~Loadable' /\ ~FinalOnDisk'
  BY <1>1, EmptyRight
<1>3. HistoryKept
  BY <1>2 DEF HistoryKept
<1>4. CASE proc' = [Unlink(proc) EXCEPT ![p] = Ended(command, "failed")]
  <2>1. /\ GoodProcess(facts, Ended(command, "failed"))
        /\ Ended(command, "failed").pc = "idle" /\ Ended(command, "failed").outcome = "failed"
    BY EndedGood
  <2>2. proc'[p] = Ended(command, "failed")
    BY <1>1, <1>4, <2>1, UnlinkedGood
  <2>3. proc'[p].pc = "idle" /\ proc'[p].outcome # "done"
    BY <2>1, <2>2
  <2> QED BY <1>2, <1>3, <2>3, IdleRight
<1>5. CASE \E c \in Fresh(command) :
             proc' = [Unlink(proc) EXCEPT ![p] =
                        [Idle EXCEPT !.pc = "open", !.command = command, !.ctx = c]]
  <2>1. PICK c \in Fresh(command) : proc' = [Unlink(proc) EXCEPT ![p] = Begun(command, c)]
    BY <1>5 DEF Begun
  <2>2. Sound(facts, c)
    BY <1>1, FreshSound
  <2>3. proc'[p] = Begun(command, c)
    BY <1>1, <2>1, <2>2, BegunGood, UnlinkedGood
  <2> QED BY <1>2, <1>3, <2>2, <2>3, BegunRight
<1> QED BY <1>4, <1>5 DEF StartReplacing

\* Being killed while the directory is taken away.
LEMMA SequentialKilledReplacing ==
  ASSUME Alone, Sequential, SharedInvariant', NEW p \in Processes, KilledReplacing(p)
  PROVE  Sequential' /\ HistoryKept
<1>1. SharedInvariant /\ FilesRight
  BY DEF Sequential
<1>2. /\ GoodProcess(facts, Ended("start", "killed"))
      /\ Ended("start", "killed").pc = "idle" /\ Ended("start", "killed").outcome = "killed"
  BY EndedGood
<1>3. proc' = [Unlink(proc) EXCEPT ![p] = Ended("start", "killed")]
  BY DEF KilledReplacing
<1>4. proc'[p] = Ended("start", "killed")
  BY <1>1, <1>2, <1>3, UnlinkedGood
<1>5. PICK kept \in Leftovers :
        disk' = [f \in Files |-> IF f \in kept THEN disk[f] ELSE Missing]
  BY DEF KilledReplacing
<1>6. \A f \in Files : disk'[f] \in {disk[f], Missing}
  BY <1>5
<1>7. Missing # Torn /\ ~IsWhole(Missing) /\ StateFile \in Files /\ ManifestFile \in Files
  BY FilePlaces DEF Missing, Torn, IsWhole
<1>8. HistoryKept
  BY <1>1, <1>6, <1>7, HistoryUntouched
<1>9. FilesRight'
  <2>1. \A f \in Files : disk'[f] # Torn
    BY <1>1, <1>6, <1>7 DEF FilesRight
  <2>2. ManifestRight'
    BY <1>1, <1>6, <1>7 DEF FilesRight, ManifestRight
  <2>3. FinalFileBacked'
    <3> DEFINE final == "final-recommendation.json"
    <3> SUFFICES ASSUME final \in Files, Loadable', IsWhole(disk'[final]),
                        disk'[final].data.status = "authorized"
                 PROVE  State'.final = disk'[final].data
      BY DEF FinalFileBacked
    <3>1. disk'[final] = disk[final] /\ disk'[StateFile] = disk[StateFile]
      BY <1>6, <1>7 DEF Loadable
    <3> QED BY <1>1, <3>1 DEF FilesRight, FinalFileBacked, Loadable, State
  <2> QED BY <2>1, <2>2, <2>3 DEF FilesRight
<1>10. proc'[p].pc = "idle" /\ proc'[p].outcome # "done"
  BY <1>2, <1>4
<1> QED BY <1>8, <1>9, <1>10, IdleRight

\* A process that is killed leaves the files as they are.
LEMMA SequentialKill ==
  ASSUME Alone, Sequential, SharedInvariant', NEW p \in Processes, Kill(p)
  PROVE  Sequential' /\ HistoryKept
<1>1. SharedInvariant /\ FilesRight
  BY DEF Sequential
<1>2. disk' = disk /\ proc' = [proc EXCEPT ![p] = Ended(@.command, "killed")]
  BY DEF Kill
<1>3. proc[p] \in ProcessRecords(facts) /\ proc = [q \in Processes |-> proc[q]]
  BY <1>1, CurrentFile DEF SharedInvariant
<1>4. proc'[p] = Ended(proc[p].command, "killed")
  BY <1>2, <1>3
<1>5. proc'[p].pc = "idle" /\ proc'[p].outcome = "killed"
  <2>1. proc[p].command \in {"none", "start", "run", "decide", "resume", "approve"}
    BY <1>3 DEF ProcessRecords
  <2> QED BY <1>4, <2>1, EndedGood
<1>6. FilesRight'
  BY <1>1, <1>2 DEF FilesRight, ManifestRight, FinalFileBacked, Loadable, State
<1> QED BY <1>1, <1>2, <1>5, <1>6, IdleRight, HistoryUntouched

\* Gathering the checksums: they are those of the pieces of the context in hand.
LEMMA SequentialSum ==
  ASSUME Alone, Sequential, SharedInvariant', NEW p \in Processes, SumArtifacts(p)
  PROVE  Sequential' /\ HistoryKept
<1> DEFINE sums == [f \in Artifacts |-> disk[f]]
<1>1. SharedInvariant /\ FilesRight /\ AtWork(p)
  BY DEF Sequential
<1>2. disk' = disk /\ tmp' = tmp /\ proc[p].pc = "sum"
  BY DEF SumArtifacts
<1>3. FilesRight'
  BY <1>1, <1>2 DEF FilesRight, ManifestRight, FinalFileBacked, Loadable, State
<1>4. HistoryKept
  BY <1>1, <1>2, HistoryUntouched
<1>5. /\ Written(p) /\ proc[p].file = 12 /\ proc[p].outcome = "none"
      /\ proc[p].handle = "none"
  BY <1>1, <1>2 DEF AtWork
<1>6. PICK one : /\ GoodProcess(facts, one)
                 /\ proc' = [proc EXCEPT ![p] = one]
                 /\ one = Ended(proc[p].command, "failed") \/ one = [proc[p] EXCEPT !.pc = "open", !.sums = sums]
  BY <1>1, SummedGood
<1>7. proc'[p] = one
  BY <1>1, <1>6, OneChanged
<1>8. proc[p] \in ProcessRecords(facts)
  BY <1>1, CurrentFile
<1>9. CASE one = Ended(proc[p].command, "failed")
  <2>1. proc[p].command \in {"none", "start", "run", "decide", "resume", "approve"}
    BY <1>8 DEF ProcessRecords
  <2>2. one.pc = "idle" /\ one.outcome # "done"
    BY <1>9, <2>1, EndedGood
  <2> QED BY <1>3, <1>4, <1>7, <2>2, IdleRight
<1>10. CASE one = [proc[p] EXCEPT !.pc = "open", !.sums = sums]
  <2>1. sums = SumsOf(proc[p].ctx)
    <3>1. ASSUME NEW f \in Artifacts PROVE disk[f] = Whole(Slice(f, proc[p].ctx))
      <4>1. PICK n \in 1 .. 12 : AllFiles[n] = f
        BY FilePlaces
      <4>2. n < 12 /\ f \in Files
        BY <4>1, FilePlaces
      <4> QED BY <1>5, <4>1, <4>2 DEF Written
    <3> QED BY <3>1 DEF SumsOf
  <2> HIDE DEF sums
  <2>2. /\ one.pc = "open" /\ one.sums = sums /\ one.file = proc[p].file
        /\ one.ctx = proc[p].ctx /\ one.handle = proc[p].handle
        /\ one.outcome = proc[p].outcome
    BY <1>8, <1>10 DEF ProcessRecords
  <2>3. Written(p)'
    BY <1>2, <1>5, <1>7, <2>2 DEF Written
  <2>4. AtWork(p)'
    <3> HIDE DEF Written, SumsOf, AtStart
    <3> QED BY <1>5, <1>7, <2>1, <2>2, <2>3 DEF AtWork
  <2> QED BY <1>3, <1>4, <1>5, <1>7, <2>2, <2>4, BusyRight
<1> QED BY <1>6, <1>9, <1>10

\* Opening the temporary file.
LEMMA SequentialOpen ==
  ASSUME Alone, Sequential, SharedInvariant', NEW p \in Processes, OpenTemporary(p)
  PROVE  Sequential' /\ HistoryKept
<1>1. SharedInvariant /\ FilesRight /\ AtWork(p)
  BY DEF Sequential
<1>2. /\ disk' = disk /\ tmp' = [tmp EXCEPT ![Current(p)] = Torn] /\ proc[p].pc = "open"
      /\ proc' = [proc EXCEPT ![p].pc = "fill", ![p].handle = "tmp"]
  BY DEF OpenTemporary
<1>3. FilesRight'
  BY <1>1, <1>2 DEF FilesRight, ManifestRight, FinalFileBacked, Loadable, State
<1>4. HistoryKept
  BY <1>1, <1>2, HistoryUntouched
<1>5. /\ Written(p) /\ proc[p].outcome = "none"
      /\ proc[p].file = 12 => proc[p].sums = SumsOf(proc[p].ctx)
      /\ proc[p].file = 1 => AtStart(p)
  BY <1>1, <1>2 DEF AtWork
<1> DEFINE moved == [proc[p] EXCEPT !.pc = "fill", !.handle = "tmp"]
<1>6. proc'[p] = moved /\ GoodProcess(facts, proc[p]) /\ Current(p) \in Files
  BY <1>1, <1>2, MovedProcess, CurrentFile
<1>7. /\ moved.pc = "fill" /\ moved.handle = "tmp"
      /\ moved.file = proc[p].file /\ moved.ctx = proc[p].ctx
      /\ moved.sums = proc[p].sums /\ moved.outcome = proc[p].outcome
  <2>1. proc[p] \in ProcessRecords(facts)
    BY <1>1, CurrentFile
  <2> QED BY <2>1 DEF ProcessRecords
<1> HIDE DEF moved
<1>8. Written(p)' /\ (proc[p].file = 1 => AtStart(p)')
  BY <1>2, <1>5, <1>6, <1>7 DEF Written, AtStart, Loadable, State, FinalOnDisk
<1>9. tmp'[Current(p)'] = Torn
  <2>1. Current(p)' = Current(p)
    BY <1>6, <1>7 DEF Current
  <2>2. tmp = [f \in Files |-> tmp[f]]
    BY <1>1 DEF SharedInvariant
  <2> HIDE DEF Current
  <2> QED BY <1>2, <1>6, <2>1, <2>2
<1>10. AtWork(p)'
  <2> HIDE DEF Written, SumsOf, AtStart, Current
  <2> QED BY <1>5, <1>6, <1>7, <1>8, <1>9 DEF AtWork
<1> QED BY <1>3, <1>4, <1>5, <1>6, <1>7, <1>10, BusyRight

\* Filling the temporary file, which nobody has moved.
LEMMA SequentialFill ==
  ASSUME Alone, Sequential, SharedInvariant', NEW p \in Processes, FillTemporary(p)
  PROVE  Sequential' /\ HistoryKept
<1>1. SharedInvariant /\ FilesRight /\ AtWork(p)
  BY DEF Sequential
<1>2. /\ proc[p].pc = "fill"
      /\ proc' = [proc EXCEPT ![p].pc = "publish", ![p].handle = "none"]
  BY DEF FillTemporary
<1>3. /\ Written(p) /\ proc[p].outcome = "none"
      /\ proc[p].file = 12 => proc[p].sums = SumsOf(proc[p].ctx)
      /\ proc[p].file = 1 => AtStart(p)
      /\ proc[p].handle = "tmp" /\ tmp[Current(p)] = Torn
  BY <1>1, <1>2 DEF AtWork
<1>4. disk' = disk /\ tmp' = [tmp EXCEPT ![Current(p)] = Payload(p)]
  <2>1. Overwritten(Torn, Payload(p)) = {Payload(p)}
    BY DEF Overwritten
  <2> HIDE DEF Payload, Current
  <2> QED BY <1>3, <2>1 DEF FillTemporary
<1>5. FilesRight'
  BY <1>1, <1>4 DEF FilesRight, ManifestRight, FinalFileBacked, Loadable, State
<1>6. HistoryKept
  BY <1>1, <1>4, HistoryUntouched
<1> DEFINE moved == [proc[p] EXCEPT !.pc = "publish", !.handle = "none"]
<1>7. proc'[p] = moved /\ GoodProcess(facts, proc[p]) /\ Current(p) \in Files
  BY <1>1, <1>2, MovedProcess, CurrentFile
<1>8. /\ moved.pc = "publish" /\ moved.handle = "none"
      /\ moved.file = proc[p].file /\ moved.ctx = proc[p].ctx
      /\ moved.sums = proc[p].sums /\ moved.outcome = proc[p].outcome
  <2>1. proc[p] \in ProcessRecords(facts)
    BY <1>1, CurrentFile
  <2> QED BY <2>1 DEF ProcessRecords
<1> HIDE DEF moved
<1>9. Written(p)' /\ (proc[p].file = 1 => AtStart(p)')
  BY <1>3, <1>4, <1>7, <1>8 DEF Written, AtStart, Loadable, State, FinalOnDisk
<1>10. tmp'[Current(p)'] = Payload(p)'
  <2>1. Current(p)' = Current(p) /\ Payload(p)' = Payload(p)
    BY <1>7, <1>8 DEF Current, Payload
  <2>2. tmp = [f \in Files |-> tmp[f]]
    BY <1>1 DEF SharedInvariant
  <2> HIDE DEF Current, Payload
  <2> QED BY <1>4, <1>7, <2>1, <2>2
<1>11. AtWork(p)'
  <2> HIDE DEF Written, SumsOf, AtStart, Current, Payload
  <2> QED BY <1>3, <1>7, <1>8, <1>9, <1>10 DEF AtWork
<1> QED BY <1>3, <1>5, <1>6, <1>7, <1>8, <1>11, BusyRight

\* The file that a lone process publishes holds its piece of the context.
LEMMA SequentialPublish ==
  ASSUME Alone, Sequential, SharedInvariant', NEW p \in Processes, PublishFile(p)
  PROVE  Sequential' /\ HistoryKept
<1> DEFINE f   == Current(p)
           c   == proc[p].ctx
           n   == proc[p].file
           one == Advanced(proc[p])
<1>1. SharedInvariant /\ FilesRight /\ AtWork(p) /\ proc[p].pc = "publish"
  BY DEF Sequential, PublishFile
<1>2. /\ Written(p) /\ proc[p].outcome = "none" /\ proc[p].handle = "none"
      /\ n = 12 => proc[p].sums = SumsOf(c)
      /\ n = 1 => AtStart(p)
      /\ tmp[f] = Payload(p)
  BY <1>1 DEF AtWork
<1>3. /\ GoodProcess(facts, proc[p]) /\ proc[p] \in ProcessRecords(facts)
      /\ f = AllFiles[n] /\ f \in Files
  BY <1>1, CurrentFile
<1>4. /\ n \in 1 .. 12 /\ Sound(facts, c) /\ c \in Contexts
      /\ proc[p].command \in {"none", "start", "run", "decide", "resume", "approve"}
  BY <1>1, <1>3 DEF GoodProcess, ProcessRecords
<1>5. (f = ManifestFile <=> n = 12) /\ (f = StateFile <=> n = 1)
  BY <1>3, <1>4, FilePlaces
<1>6. /\ f # ManifestFile => Payload(p) = Whole(Slice(f, c))
      /\ f = ManifestFile => Payload(p) = Whole(Manifest(c, SumsOf(c)))
  BY <1>2, <1>5 DEF Payload
<1>7. Exists(tmp[f])
  <2>1. \A data : Whole(data) # Missing
    BY DEF Whole, Missing
  <2> HIDE DEF f, c
  <2> QED BY <1>2, <1>6, <2>1 DEF Exists
<1>8. /\ disk' = [disk EXCEPT ![f] = Payload(p)]
      /\ proc' = [FollowRename(f) EXCEPT ![p] = one]
  BY <1>2, <1>7 DEF PublishFile
<1>9. disk'[f] = Payload(p) /\ \A g \in Files : g # f => disk'[g] = disk[g]
  <2>1. disk = [g \in Files |-> disk[g]]
    BY <1>1 DEF SharedInvariant
  <2> HIDE DEF f
  <2> QED BY <1>3, <1>8, <2>1
<1>10. proc'[p] = one
  <2>1. FollowRename(f) = [q \in Processes |-> FollowRename(f)[q]]
    BY DEF FollowRename
  <2> HIDE DEF FollowRename, one
  <2> QED BY <1>8, <2>1
<1>11. /\ n = 12 => one = Ended(proc[p].command, "done")
       /\ n # 12 =>
            /\ one.pc = IF one.file = 12 THEN "sum" ELSE "open"
            /\ one.file = Following(n)
            /\ one.ctx = c /\ one.handle = "none"
            /\ one.sums = proc[p].sums /\ one.outcome = "none"
  <2>1. proc[p].pc # "idle"
    BY <1>1
  <2> HIDE DEF GoodProcess
  <2> QED BY <1>2, <1>3, <2>1, AdvancedGood
<1> HIDE DEF f, c, n, one
<1>12. Payload(p) # Torn /\ IsWhole(Payload(p))
  <2>1. \A data : Whole(data) # Torn /\ IsWhole(Whole(data))
    BY DEF Whole, Torn, IsWhole
  <2> QED BY <1>6, <2>1
<1>13. StateFile \in Files /\ ManifestFile \in Files /\ StateFile # ManifestFile
  BY FilePlaces
<1>14. \A m \in 1 .. 12 : (m <= n /\ m # 12 /\ AllFiles[m] \in Files) =>
         disk'[AllFiles[m]] = Whole(Slice(AllFiles[m], c))
  <2> SUFFICES ASSUME NEW m \in 1 .. 12, m <= n, m # 12, AllFiles[m] \in Files
               PROVE  disk'[AllFiles[m]] = Whole(Slice(AllFiles[m], c))
    OBVIOUS
  <2>1. AllFiles[m] # ManifestFile
    BY FilePlaces
  <2>2. CASE AllFiles[m] = f
    BY <1>6, <1>9, <2>1, <2>2
  <2>3. CASE AllFiles[m] # f
    <3>1. m < n
      BY <1>3, <1>4, <2>3
    <3>2. disk[AllFiles[m]] = Whole(Slice(AllFiles[m], c))
      BY <1>2, <3>1 DEF Written, n, c
    <3> QED BY <1>9, <2>3, <3>2
  <2> QED BY <2>2, <2>3
<1>15. disk'[StateFile] = Whole(c)
  <2>1. 1 \in 1 .. 12 /\ 1 <= n /\ AllFiles[1] = StateFile
    BY <1>4, FilePlaces
  <2> QED BY <1>13, <1>14, <2>1, StateSlice
<1>16. Loadable' /\ State' = c
  BY <1>15 DEF Loadable, State, IsWhole, Whole
<1>17. HistoryKept
  <2>1. CASE n = 1
    <3>1. Loadable => Later(State, c)
      BY <1>2, <2>1 DEF AtStart, c
    <3>2. Loadable => State \in Contexts
      BY <1>1, LoadedSound
    <3>3. Loadable => IsPrefix(State.events, c.events)
      <4> HIDE DEF State
      <4> QED BY <1>4, <3>1, <3>2, ContextSequences, ContinuesPrefix DEF Later
    <3> HIDE DEF State
    <3> QED BY <1>16, <3>3 DEF HistoryKept
  <2>2. CASE n # 1
    <3>1. disk'[StateFile] = disk[StateFile]
      BY <1>5, <1>9, <1>13, <2>2
    <3> QED BY <1>1, <3>1, HistoryUntouched
  <2> QED BY <2>1, <2>2
<1>18. ManifestRight'
  <2>1. CASE n = 12
    BY <1>5, <1>6, <1>9, <2>1 DEF ManifestRight
  <2>2. CASE n # 12
    <3>1. disk'[ManifestFile] = disk[ManifestFile]
      BY <1>5, <1>9, <1>13, <2>2
    <3> QED BY <1>1, <3>1 DEF FilesRight, ManifestRight
  <2> QED BY <2>1, <2>2
<1>19. FinalFileBacked'
  <2> DEFINE final == "final-recommendation.json"
  <2> SUFFICES ASSUME final \in Files, IsWhole(disk'[final]),
                      disk'[final].data.status = "authorized"
               PROVE  State'.final = disk'[final].data
    BY DEF FinalFileBacked
  <2>1. final # StateFile /\ final # ManifestFile
    BY DEF StateFile, ManifestFile
  <2>2. CASE f = final
    <3>1. disk'[final] = Whole(c.final)
      BY <1>6, <1>9, <2>1, <2>2, StateSlice
    <3> QED BY <1>16, <3>1 DEF Whole
  <2>3. CASE f # final
    <3>1. disk'[final] = disk[final]
      BY <1>9, <2>3
    <3>2. FinalOnDisk
      BY <3>1 DEF FinalOnDisk
    <3>3. n # 1
      BY <1>2, <3>2 DEF AtStart
    <3>4. disk'[StateFile] = disk[StateFile]
      BY <1>5, <1>9, <1>13, <3>3
    <3>5. Loadable /\ State' = State
      BY <1>16, <3>4 DEF Loadable, State
    <3> QED BY <1>1, <3>1, <3>2, <3>5 DEF FilesRight, FinalFileBacked, FinalOnDisk
  <2> QED BY <2>2, <2>3
<1>20. FilesRight'
  BY <1>1, <1>9, <1>12, <1>18, <1>19 DEF FilesRight
<1>21. CASE n # 12
  <2>1. /\ one.file \in n + 1 .. 12
        /\ \A k \in n + 1 .. 12 : AllFiles[k] \in Files => one.file <= k
    BY <1>4, <1>11, <1>21, FollowingFile
  <2>2. Written(p)'
    <3> SUFFICES ASSUME NEW m \in 1 .. 12, m < one.file, AllFiles[m] \in Files
                 PROVE  disk'[AllFiles[m]] = Whole(Slice(AllFiles[m], c))
      BY <1>10, <1>11, <1>21 DEF Written
    <3>1. m <= n /\ m # 12
      BY <1>4, <2>1
    <3> QED BY <1>14, <3>1
  <2>3. one.file # 1
    BY <1>4, <2>1
  <2>4. AtWork(p)'
    <3> HIDE DEF Written, SumsOf, AtStart, Current, Payload
    <3> QED BY <1>10, <1>11, <1>21, <2>2, <2>3 DEF AtWork
  <2> QED BY <1>10, <1>11, <1>17, <1>20, <1>21, <2>4, BusyRight
<1>22. CASE n = 12
  <2>1. /\ \A g \in Artifacts : disk'[g] = Whole(Slice(g, c))
        /\ disk'[ManifestFile] = Whole(Manifest(c, SumsOf(c)))
    <3>1. ASSUME NEW g \in Artifacts PROVE disk'[g] = Whole(Slice(g, c))
      <4>1. PICK m \in 1 .. 12 : AllFiles[m] = g
        BY FilePlaces
      <4>2. m <= n /\ m # 12 /\ g \in Files
        BY <1>22, <4>1, FilePlaces
      <4> QED BY <1>14, <4>1, <4>2
    <3> QED BY <1>5, <1>6, <1>9, <1>22, <3>1
  <2>2. InspectPasses'
    <3>1. /\ IsWhole(disk'[ManifestFile])
          /\ disk'[ManifestFile].data.sums = SumsOf(c)
      BY <2>1 DEF Whole, IsWhole, Manifest
    <3>2. \A g \in Artifacts : IsWhole(disk'[g]) /\ disk'[g] = SumsOf(c)[g]
      <4>1. \A data : IsWhole(Whole(data))
        BY DEF Whole, IsWhole
      <4> QED BY <2>1, <4>1 DEF SumsOf
    <3>3. disk'[StateFile].data = c /\ disk'[SummaryFile].data = Summary(c)
      <4>1. disk'[SummaryFile] = Whole(Summary(c))
        BY <2>1, FilePlaces, StateSlice
      <4>2. \A data : Whole(data).data = data
        BY DEF Whole
      <4> HIDE DEF Whole, Summary
      <4> QED BY <1>15, <4>1, <4>2
    <3>4. StateConsistent(c)
      BY <1>4, ShapeConsistent DEF Sound
    <3>5. disk'[SummaryFile].data.stage = c.stage
      BY <3>3 DEF Summary
    <3> HIDE DEF StateConsistent, SumsOf
    <3> QED BY <3>1, <3>2, <3>3, <3>4, <3>5 DEF InspectPasses
  <2>3. proc'[p].pc = "idle"
    BY <1>4, <1>10, <1>11, <1>22, EndedGood
  <2>4. \A q \in Processes : q = p
    BY DEF Alone
  <2>5. \A q \in Processes : AtWork(q)'
    BY <2>3, <2>4 DEF AtWork
  <2>6. SettledRunInspects'
    <3> HIDE DEF InspectPasses
    <3> QED BY <2>2 DEF SettledRunInspects
  <2> QED BY <1>17, <1>20, <2>5, <2>6 DEF Sequential
<1> QED BY <1>21, <1>22

\* The invariant holds at first.
LEMMA SequentialInit == Init => Sequential
<1> SUFFICES ASSUME Init PROVE Sequential
  OBVIOUS
<1>1. SharedInvariant
  BY SharedInit
<1>2. \A f \in Files : disk[f] = Missing
  BY DEF Init
<1>3. Missing # Torn /\ ~IsWhole(Missing) /\ StateFile \in Files /\ ManifestFile \in Files
  BY FilePlaces DEF Missing, Torn, IsWhole
<1>4. FilesRight
  BY <1>2, <1>3 DEF FilesRight, ManifestRight, FinalFileBacked, Loadable
<1>5. \A p \in Processes : proc[p].pc = "idle" /\ proc[p].outcome = "none"
  <2> HIDE DEF InitialContext
  <2> QED BY DEF Init, Idle
<1>6. (\A p \in Processes : AtWork(p)) /\ SettledRunInspects
  BY <1>5 DEF AtWork, SettledRunInspects
<1> QED BY <1>1, <1>4, <1>6 DEF Sequential

\* Every step of a lone process keeps the invariant, and the history on disk.
LEMMA SequentialNext ==
  ASSUME Alone, Sequential, [Next]_vars
  PROVE  Sequential' /\ HistoryKept
<1>1. SharedInvariant /\ SharedInvariant'
  BY SharedNext DEF Sequential
<1>2. CASE UNCHANGED vars
  <2>1. Sequential'
    <3>1. FilesRight'
      BY <1>2 DEF Sequential, vars, FilesRight, ManifestRight, FinalFileBacked, Loadable, State
    <3>2. \A p \in Processes : AtWork(p)'
      BY <1>2 DEF Sequential, vars, AtWork, Written, AtStart, Loadable, State, FinalOnDisk,
                  Current, Payload
    <3>3. SettledRunInspects'
      BY <1>2 DEF Sequential, vars, SettledRunInspects, InspectPasses
    <3> QED BY <1>1, <3>1, <3>2, <3>3 DEF Sequential
  <2>2. disk' = disk
    BY <1>2 DEF vars
  <2> QED BY <1>1, <2>1, <2>2, HistoryUntouched
<1>3. ASSUME NEW p \in Processes, Command(p) \/ Write(p) \/ Kill(p)
      PROVE  Sequential' /\ HistoryKept
  <2>1. ASSUME NEW command \in {"start", "run"},
               StartNew(p, command) \/ StartReplacing(p, command)
        PROVE  Sequential' /\ HistoryKept
    BY <1>1, <2>1, SequentialStartNew, SequentialStartReplacing
  <2>2. CASE KilledReplacing(p)
    BY <1>1, <2>2, SequentialKilledReplacing
  <2>3. CASE Resume(p) \/ \E actor \in Actors : Decide(p, actor) \/ Approve(p, actor)
    BY <1>1, <2>3, SequentialLoading
  <2>4. CASE Write(p)
    BY <1>1, <2>4, SequentialSum, SequentialOpen, SequentialFill, SequentialPublish DEF Write
  <2>5. CASE Kill(p)
    BY <1>1, <2>5, SequentialKill
  <2> QED BY <1>3, <2>1, <2>2, <2>3, <2>4, <2>5 DEF Command
<1> QED BY <1>2, <1>3 DEF Next

\* With one process at a time, killed wherever, the directory stays in order.
THEOREM SequentialDirectory ==
  ASSUME Alone
  PROVE  Spec => []Sequential
<1>1. Init => Sequential
  BY SequentialInit
<1>2. Sequential /\ [Next]_vars => Sequential'
  BY SequentialNext
<1> QED BY <1>1, <1>2, PTL DEF Spec

\* The state file is never torn, whenever the process is killed: it is missing,
\* or a whole state that satisfies the inspector's rules.
THEOREM StateCanAlwaysBeLoaded ==
  ASSUME Alone
  PROVE  Spec => []StateAlwaysLoadable
<1>1. Sequential => StateAlwaysLoadable
  <2> SUFFICES ASSUME Sequential PROVE StateAlwaysLoadable
    OBVIOUS
  <2>1. disk[StateFile] # Torn
    BY FilePlaces DEF Sequential, FilesRight
  <2>2. Loadable => StateConsistent(State)
    BY StateInOrder DEF Sequential
  <2> QED BY <2>1, <2>2 DEF StateAlwaysLoadable
<1> QED BY <1>1, SequentialDirectory, PTL

\* The inspector is right both ways: it accepts what a command that ended well
\* left, and every artifact of a directory it accepts belongs to its state.
THEOREM InspectorIsRight ==
  ASSUME Alone
  PROVE  Spec => []InspectionRight
<1>1. Sequential => InspectionRight
  <2> SUFFICES ASSUME Sequential PROVE InspectionRight
    OBVIOUS
  <2>1. InspectionSound
    <3> SUFFICES ASSUME InspectPasses, NEW f \in Artifacts, Exists(disk[f])
                 PROVE  disk[f] = Whole(Slice(f, State))
      BY DEF InspectionSound
    <3>1. PICK c : disk[ManifestFile] = Whole(Manifest(c, SumsOf(c)))
      BY DEF Sequential, FilesRight, ManifestRight, InspectPasses
    <3>2. disk[ManifestFile].data.sums = SumsOf(c)
      <4>1. disk[ManifestFile].data = Manifest(c, SumsOf(c))
        BY <3>1 DEF Whole
      <4> QED BY <4>1 DEF Manifest
    <3>3. \A g \in Artifacts : Exists(disk[g]) => disk[g] = Whole(Slice(g, c))
      BY <3>2 DEF InspectPasses, SumsOf, IsWhole, Exists, Missing
    <3>4. Exists(disk[StateFile])
      <4>1. StateFile \in Artifacts /\ StateFile \notin Optional
        BY FilePlaces DEF Optional, StateFile
      <4>2. IsWhole(disk[StateFile])
        BY <4>1 DEF InspectPasses
      <4> QED BY <4>2 DEF IsWhole, Exists, Missing
    <3>5. State = c
      <4>1. disk[StateFile] = Whole(c)
        BY <3>3, <3>4, FilePlaces, StateSlice
      <4> QED BY <4>1 DEF State, Whole
    <3> QED BY <3>3, <3>5
  <2> QED BY <2>1 DEF Sequential, InspectionRight
<1> QED BY <1>1, SequentialDirectory, PTL

\* The final recommendation is never on disk ahead of the state that authorizes
\* it, nor left there beside a state that does not.
THEOREM FinalFileIsBacked ==
  ASSUME Alone
  PROVE  Spec => []FinalFileBacked
<1>1. Sequential => FinalFileBacked
  BY DEF Sequential, FilesRight
<1> QED BY <1>1, SequentialDirectory, PTL

\* The audit history on disk only grows for as long as the state file is there.
THEOREM DiskHistoryOnlyGrows ==
  ASSUME Alone
  PROVE  Spec => DiskHistoryAppendOnly
<1>1. Sequential /\ [Next]_vars =>
        [Loadable /\ Loadable' => IsPrefix(State.events, State'.events)]_vars
  <2> SUFFICES ASSUME Sequential, [Next]_vars
               PROVE  [Loadable /\ Loadable' => IsPrefix(State.events, State'.events)]_vars
    OBVIOUS
  <2>1. HistoryKept
    BY SequentialNext
  <2> QED BY <2>1 DEF HistoryKept
<1> QED BY <1>1, SequentialDirectory, PTL DEF Spec, DiskHistoryAppendOnly
=============================================================================
