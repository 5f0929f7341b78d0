----------------------- MODULE ExperimentStore_proofs -----------------------
(***************************************************************************)
(* Proofs about the experiment directories, for any processes, places,     *)
(* outcomes and number of runs: what the inspector accepts is of one run,  *)
(* what a comparison accepts was measured, a run is given up for another   *)
(* one only, nothing is overwritten unasked, and a rebuild records the     *)
(* hashes of its source.                                                   *)
(*                                                                         *)
(* Nothing locks a directory, so each theorem but the one on types names   *)
(* what it needs instead: one process at a time, or nobody who passes      *)
(* --replace-existing.                                                     *)
(***************************************************************************)
EXTENDS ExperimentStore, SequenceTheorems, TLAPS

Alone == \A p, q \in Processes : p = q

Undisturbed == Alone \/ TRUE \notin Replacing

-----------------------------------------------------------------------------
(* What holds of runs, directories and processes.  The operators take what *)
(* they read as arguments, so that they can be used of the next state.     *)

(* Names for the types that a literal such as "simulated" is known to have *)
Models == STRING \cup {"simulated", "none"}

Made ==
  [kind : Kinds, variant : Variants, model : Models, completed : BOOLEAN, sound : BOOLEAN,
   handoff : BOOLEAN, evaluated : BOOLEAN, of : Nat]

(* Only a live variant completes; an offline run is always evaluated.      *)
RunOK(one) ==
  /\ one \in Made
  /\ one.completed => one.kind = "variant"
  /\ one.kind = "offline" => one.evaluated

RunsOK(rs) == rs \in Seq(Made) /\ \A n \in 1 .. Len(rs) : RunOK(rs[n])

Longer(rs, more) == Len(rs) <= Len(more) /\ \A n \in 1 .. Len(rs) : more[n] = rs[n]

SummarizedIn(rs, n) == rs[n].kind \in {"variant", "rebuild"}

ArtifactsIn(rs, n) ==
  IF SummarizedIn(rs, n)
    THEN <<"config", "handoff", "records", "disagreements", "summary", "evaluation">>
  ELSE IF rs[n].evaluated THEN <<"config", "records", "evaluation">>
  ELSE <<"config", "records">>

RequiredIn(rs, n) ==
  ToSet(ArtifactsIn(rs, n)) \
    ({"disagreements"} \cup {f \in {"handoff"} : SummarizedIn(rs, n) /\ ~rs[n].handoff})

OfflineFiles == {"config", "records", "evaluation"}
Named == {"config", "handoff", "records", "disagreements", "summary", "evaluation"}

(* A manifest requires at least what its run had something to put into.    *)
FileOK(rs, f, c) ==
  /\ c.by \in 1 .. Len(rs)
  /\ f \in Named => c \in [by : 1 .. Len(rs), marked : BOOLEAN]
  /\ f = "manifest" => /\ c \in [by : 1 .. Len(rs), required : SUBSET Files, sums : {c.sums}]
                       /\ RequiredIn(rs, c.by) \subseteq c.required
  /\ f = "metadata" => c \in [by : 1 .. Len(rs), hashed : {c.hashed}]

DirOK(rs, d) ==
  /\ d \in [exists : BOOLEAN, files : {d.files}]
  /\ d.files \in [DOMAIN d.files -> {d.files[f] : f \in DOMAIN d.files}]
  /\ DOMAIN d.files \subseteq Files
  /\ DOMAIN d.files # {} => d.exists
  /\ \A f \in DOMAIN d.files : FileOK(rs, f, d.files[f])

OneBy(d) == \A f, g \in DOMAIN d.files : d.files[f].by = d.files[g].by

(* A manifest written by a process alone lists what that process wrote.    *)
OfflineOK(d) ==
  /\ DOMAIN d.files \subseteq OfflineFiles \cup {"manifest"}
  /\ "manifest" \in DOMAIN d.files =>
       /\ DOMAIN d.files["manifest"].sums = OfflineFiles
       /\ Alone => \A f \in OfflineFiles :
                     d.files["manifest"].sums[f].by = d.files["manifest"].by

PlaceOK(rs, place, d) ==
  /\ DirOK(rs, d)
  /\ place \in LivePlaces => OneBy(d)
  /\ place \in OfflinePlaces => OfflineOK(d)

Heading == {"landing", "removing", "making"}
Finishing == {"inspecting", "marking", "resumming", "hashing", "listing"}
AtWork == {"writing"} \cup Finishing
Carrying == Heading \cup AtWork \cup {"opening"}

States ==
  [phase : {"idle", "asking", "reporting"} \cup Carrying,
   place : Places \cup {"none"}, source : LivePlaces \cup {"none"}, replace : BOOLEAN,
   run : Nat, todo : Seq(Files), doomed : SUBSET Files,
   rows : {<<>>} \cup [Variants -> Nat], model : Models]

Offline(rs, s) == rs[s.run].kind = "offline"

(* What a process at work relies on: its directory is there and, outside   *)
(* evaluate-offline, holds its own run alone.                              *)
AtWorkOK(dk, rs, s) ==
  /\ dk[s.place].exists
  /\ ~Offline(rs, s) => \A f \in DOMAIN dk[s.place].files : dk[s.place].files[f].by = s.run

WritingOK(dk, rs, s) ==
  /\ ToSet(s.todo) \subseteq ToSet(ArtifactsIn(rs, s.run))
  /\ Alone => \A f \in ToSet(ArtifactsIn(rs, s.run)) \ ToSet(s.todo) :
                f \in DOMAIN dk[s.place].files => dk[s.place].files[f].by = s.run

CarryingOK(rs, s) ==
  /\ s.run \in 1 .. Len(rs)
  /\ s.place \in LivePlaces \cup OfflinePlaces
  /\ Offline(rs, s) => s.place \in OfflinePlaces /\ s.phase \in {"opening", "writing"}
  /\ ~Offline(rs, s) => s.place \in LivePlaces /\ s.phase # "opening"
  /\ s.phase \in {"hashing", "listing"} => rs[s.run].kind = "rebuild"

WorkOK(dk, rs, s) ==
  /\ s \in States
  /\ s.replace => TRUE \in Replacing \/ s.phase = "reporting"
  /\ s.phase = "asking" => s.place \in LivePlaces
  /\ s.phase = "removing" => s.replace
  /\ s.phase \in Carrying => CarryingOK(rs, s)
  /\ s.phase \in AtWork => AtWorkOK(dk, rs, s)
  /\ s.phase = "writing" => WritingOK(dk, rs, s)

(* Two processes never work at one live place.                             *)
Exclusive(pr) ==
  \A p, q \in Processes :
    pr[p].phase \in AtWork /\ pr[q].phase \in AtWork /\ pr[p].place = pr[q].place
      /\ pr[p].place \in LivePlaces => p = q

StoreInv ==
  /\ RunsOK(runs)
  /\ disk \in [Places -> {disk[place] : place \in Places}]
  /\ \A place \in Places : PlaceOK(runs, place, disk[place])
  /\ proc \in [Processes -> States]
  /\ \A p \in Processes : WorkOK(disk, runs, proc[p])
  /\ Exclusive(proc)

-----------------------------------------------------------------------------
(* Facts about the operators *)

\* The operators with arguments are those of the model.
LEMMA InThisState ==
  ASSUME NEW n
  PROVE  /\ Summarized(n) = SummarizedIn(runs, n)
         /\ Artifacts(n) = ArtifactsIn(runs, n)
         /\ Required(n) = RequiredIn(runs, n)
BY DEF Summarized, SummarizedIn, Artifacts, ArtifactsIn, Required, RequiredIn

\* The members of a sequence of two.
LEMMA ToSetOfTwo ==
  ASSUME NEW a, NEW b
  PROVE  ToSet(<<a, b>>) = {a, b}
<1> DEFINE s == <<a, b>>
<1>1. DOMAIN s = {1, 2} /\ s[1] = a /\ s[2] = b
  OBVIOUS
<1> HIDE DEF s
<1>2. ToSet(s) = {a, b}
  BY <1>1 DEF ToSet
<1> QED BY <1>2 DEF s

\* The members of a sequence of three.
LEMMA ToSetOfThree ==
  ASSUME NEW a, NEW b, NEW c
  PROVE  ToSet(<<a, b, c>>) = {a, b, c}
<1> DEFINE s == <<a, b, c>>
<1>1. DOMAIN s = {1, 2, 3} /\ s[1] = a /\ s[2] = b /\ s[3] = c
  OBVIOUS
<1> HIDE DEF s
<1>2. ToSet(s) = {a, b, c}
  BY <1>1 DEF ToSet
<1> QED BY <1>2 DEF s

\* The members of a sequence of six.
LEMMA ToSetOfSix ==
  ASSUME NEW a, NEW b, NEW c, NEW d, NEW e, NEW f
  PROVE  ToSet(<<a, b, c, d, e, f>>) = {a, b, c, d, e, f}
<1> DEFINE s == <<a, b, c, d, e, f>>
<1>1. /\ DOMAIN s = {1, 2, 3, 4, 5, 6}
      /\ s[1] = a /\ s[2] = b /\ s[3] = c /\ s[4] = d /\ s[5] = e /\ s[6] = f
  OBVIOUS
<1> HIDE DEF s
<1>2. ToSet(s) = {a, b, c, d, e, f}
  BY <1>1 DEF ToSet
<1> QED BY <1>2 DEF s

\* The artifacts of a run are named, and those of an offline run are three.
LEMMA ArtifactNames ==
  ASSUME NEW rs, NEW n
  PROVE  /\ ArtifactsIn(rs, n) \in Seq(Files)
         /\ ToSet(ArtifactsIn(rs, n)) \subseteq Named
         /\ RunOK(rs[n]) /\ rs[n].kind = "offline" => ToSet(ArtifactsIn(rs, n)) = OfflineFiles
         /\ SummarizedIn(rs, n) => {"config", "records", "evaluation"} \subseteq RequiredIn(rs, n)
<1> DEFINE six   == <<"config", "handoff", "records", "disagreements", "summary", "evaluation">>
           three == <<"config", "records", "evaluation">>
           two   == <<"config", "records">>
<1>1. six \in Seq(Files) /\ three \in Seq(Files) /\ two \in Seq(Files)
  BY DEF Files
<1>2. ToSet(six) = Named
  BY ToSetOfSix DEF Named
<1>3. ToSet(three) = OfflineFiles
  BY ToSetOfThree DEF OfflineFiles
<1>4. ToSet(two) = {"config", "records"}
  BY ToSetOfTwo
<1>5. /\ SummarizedIn(rs, n) => ArtifactsIn(rs, n) = six
      /\ ~SummarizedIn(rs, n) /\ rs[n].evaluated => ArtifactsIn(rs, n) = three
      /\ ~SummarizedIn(rs, n) /\ ~rs[n].evaluated => ArtifactsIn(rs, n) = two
  BY DEF ArtifactsIn
<1> HIDE DEF six, three, two
<1>6. ArtifactsIn(rs, n) \in Seq(Files)
  BY <1>1, <1>5
<1>7. ToSet(ArtifactsIn(rs, n)) \subseteq Named
  BY <1>2, <1>3, <1>4, <1>5 DEF Named, OfflineFiles
<1>8. RunOK(rs[n]) /\ rs[n].kind = "offline" => ToSet(ArtifactsIn(rs, n)) = OfflineFiles
  BY <1>3, <1>5 DEF RunOK, SummarizedIn
<1>9. SummarizedIn(rs, n) => {"config", "records", "evaluation"} \subseteq RequiredIn(rs, n)
  BY <1>2, <1>5 DEF RequiredIn, Named
<1> QED BY <1>6, <1>7, <1>8, <1>9

\* What a run's artifacts are does not change when others are made.
LEMMA LongerKeeps ==
  ASSUME NEW rs, NEW more, Longer(rs, more), NEW n \in 1 .. Len(rs)
  PROVE  /\ more[n] = rs[n]
         /\ ArtifactsIn(more, n) = ArtifactsIn(rs, n)
         /\ RequiredIn(more, n) = RequiredIn(rs, n)
<1>1. more[n] = rs[n]
  BY DEF Longer
<1> QED BY <1>1 DEF ArtifactsIn, RequiredIn, SummarizedIn

\* A file that is right stays so.
LEMMA FileOKKept ==
  ASSUME NEW rs, NEW more, Longer(rs, more), Len(rs) \in Nat, Len(more) \in Nat,
         NEW f, NEW c, FileOK(rs, f, c)
  PROVE  FileOK(more, f, c)
<1>1. c.by \in 1 .. Len(rs) /\ 1 .. Len(rs) \subseteq 1 .. Len(more)
  BY DEF FileOK, Longer
<1>2. RequiredIn(more, c.by) = RequiredIn(rs, c.by)
  BY <1>1, LongerKeeps
<1>3. f \in Named => c \in [by : 1 .. Len(more), marked : BOOLEAN]
  BY <1>1 DEF FileOK
<1>4. f = "manifest" => /\ c \in [by : 1 .. Len(more), required : SUBSET Files, sums : {c.sums}]
                        /\ RequiredIn(more, c.by) \subseteq c.required
  BY <1>1, <1>2 DEF FileOK
<1>5. f = "metadata" => c \in [by : 1 .. Len(more), hashed : {c.hashed}]
  BY <1>1 DEF FileOK
<1> QED BY <1>1, <1>3, <1>4, <1>5 DEF FileOK

\* So does a directory.
LEMMA PlaceOKKept ==
  ASSUME NEW rs, NEW more, Longer(rs, more), Len(rs) \in Nat, Len(more) \in Nat,
         NEW place, NEW d, PlaceOK(rs, place, d)
  PROVE  PlaceOK(more, place, d)
<1>1. \A f \in DOMAIN d.files : FileOK(more, f, d.files[f])
  BY FileOKKept DEF PlaceOK, DirOK
<1> QED BY <1>1 DEF PlaceOK, DirOK

-----------------------------------------------------------------------------
(* Steps in general: what the process that steps has to see to, and what   *)
(* the others need not care about.                                         *)

\* A process is not disturbed by runs that are made, nor by what happens at other
\* places than its own.
LEMMA BystanderKept ==
  ASSUME NEW rs, NEW more, Longer(rs, more), Len(rs) \in Nat, Len(more) \in Nat,
         NEW dk, NEW dj, NEW s, WorkOK(dk, rs, s),
         s.phase \in AtWork =>
           \/ dj[s.place] = dk[s.place]
           \/ dj[s.place].exists /\ s.place \notin LivePlaces /\ ~Alone
  PROVE  WorkOK(dj, more, s)
<1>1. CASE s.phase \notin Carrying
  BY <1>1 DEF WorkOK, Carrying, AtWork
<1>2. CASE s.phase \in Carrying
  <2>1. CarryingOK(rs, s)
    BY <1>2 DEF WorkOK
  <2>2. s.run \in 1 .. Len(rs) /\ s.run \in 1 .. Len(more)
    BY <2>1 DEF CarryingOK, Longer
  <2>3. more[s.run] = rs[s.run] /\ ArtifactsIn(more, s.run) = ArtifactsIn(rs, s.run)
    BY <2>2, LongerKeeps
  <2>4. Offline(more, s) <=> Offline(rs, s)
    BY <2>3 DEF Offline
  <2>5. CarryingOK(more, s)
    BY <2>1, <2>2, <2>3, <2>4 DEF CarryingOK
  <2>6. ASSUME s.phase \in AtWork PROVE AtWorkOK(dj, more, s)
    <3>1. AtWorkOK(dk, rs, s)
      BY <2>6 DEF WorkOK
    <3>2. CASE dj[s.place] = dk[s.place]
      BY <2>4, <3>1, <3>2 DEF AtWorkOK
    <3>3. CASE dj[s.place].exists /\ s.place \notin LivePlaces
      <4>1. Offline(rs, s)
        BY <2>1, <3>3 DEF CarryingOK
      <4> QED BY <2>4, <3>3, <4>1 DEF AtWorkOK
    <3> QED BY <2>6, <3>2, <3>3
  <2>7. ASSUME s.phase = "writing" PROVE WritingOK(dj, more, s)
    <3>1. WritingOK(dk, rs, s)
      BY <2>7 DEF WorkOK
    <3>2. dj[s.place] = dk[s.place] \/ ~Alone
      BY <2>7 DEF AtWork
    <3> QED BY <2>3, <3>1, <3>2 DEF WritingOK
  <2> QED BY <2>5, <2>6, <2>7 DEF WorkOK
<1> QED BY <1>1, <1>2

\* The state of the process that steps, and that of the others.
LEMMA BecomesFacts ==
  ASSUME StoreInv, NEW p \in Processes, NEW s \in States, Becomes(p, s)
  PROVE  /\ proc' \in [Processes -> States]
         /\ proc'[p] = s
         /\ \A q \in Processes : q # p => proc'[q] = proc[q]
BY DEF StoreInv, Becomes

\* A step that leaves the disk alone.
LEMMA QuietStep ==
  ASSUME StoreInv, NEW p \in Processes, NEW s, Becomes(p, s), disk' = disk,
         RunsOK(runs'), Longer(runs, runs'), WorkOK(disk, runs', s),
         s.phase \in AtWork => proc[p].phase \in AtWork /\ s.place = proc[p].place
  PROVE  StoreInv'
<1>1. s \in States
  BY DEF WorkOK
<1>2. /\ proc' \in [Processes -> States]
      /\ proc'[p] = s
      /\ \A q \in Processes : q # p => proc'[q] = proc[q]
  BY <1>1, BecomesFacts
<1>3. Len(runs) \in Nat /\ Len(runs') \in Nat
  BY DEF StoreInv, RunsOK
<1>4. ASSUME NEW place \in Places PROVE PlaceOK(runs', place, disk'[place])
  <2>1. PlaceOK(runs, place, disk[place])
    BY DEF StoreInv
  <2> QED BY <1>3, <2>1, PlaceOKKept
<1>5. ASSUME NEW q \in Processes PROVE WorkOK(disk', runs', proc'[q])
  <2>1. CASE q = p
    BY <1>2, <2>1
  <2>2. CASE q # p
    <3>1. WorkOK(disk, runs, proc[q])
      BY DEF StoreInv
    <3>2. WorkOK(disk, runs', proc[q])
      BY <1>3, <3>1, BystanderKept
    <3> QED BY <1>2, <2>2, <3>2
  <2> QED BY <2>1, <2>2
<1>6. Exclusive(proc')
  BY <1>2 DEF StoreInv, Exclusive
<1>7. disk' \in [Places -> {disk'[place] : place \in Places}]
  BY DEF StoreInv
<1> QED BY <1>2, <1>4, <1>5, <1>6, <1>7 DEF StoreInv

\* A step that changes one directory, its own.
LEMMA DiskStep ==
  ASSUME StoreInv, NEW p \in Processes, NEW s, Becomes(p, s), runs' = runs,
         NEW P \in Places, NEW d, disk' = [disk EXCEPT ![P] = d],
         PlaceOK(runs, P, d), WorkOK(disk', runs, s),
         P = proc[p].place, d.exists \/ Alone,
         s.phase \in AtWork => s.place = P,
         P \in LivePlaces => Alone \/ proc[p].phase \in AtWork \/ ~disk[P].exists
  PROVE  StoreInv'
<1>1. s \in States
  BY DEF WorkOK
<1>2. /\ proc' \in [Processes -> States]
      /\ proc'[p] = s
      /\ \A q \in Processes : q # p => proc'[q] = proc[q]
  BY <1>1, BecomesFacts
<1>3. /\ disk' \in [Places -> {disk'[place] : place \in Places}]
      /\ disk'[P] = d
      /\ \A place \in Places : place # P => disk'[place] = disk[place]
  BY DEF StoreInv
<1>4. ASSUME NEW place \in Places PROVE PlaceOK(runs', place, disk'[place])
  BY <1>3 DEF StoreInv
<1>5. ASSUME NEW q \in Processes, q # p, proc[q].phase \in AtWork, proc[q].place = P
      PROVE  P \notin LivePlaces /\ ~Alone
  <2>1. ~Alone
    BY <1>5 DEF Alone
  <2>2. disk[P].exists
    BY <1>5 DEF StoreInv, WorkOK, AtWorkOK
  <2>3. ASSUME P \in LivePlaces PROVE FALSE
    <3>1. proc[p].phase \in AtWork
      BY <2>1, <2>2, <2>3
    <3>2. p = q
      BY <1>5, <2>3, <3>1 DEF StoreInv, Exclusive
    <3> QED BY <1>5, <3>2
  <2> QED BY <2>1, <2>3
<1>6. Longer(runs, runs) /\ Len(runs) \in Nat
  BY DEF StoreInv, RunsOK, Longer
<1>7. ASSUME NEW q \in Processes PROVE WorkOK(disk', runs', proc'[q])
  <2>1. CASE q = p
    BY <1>2, <2>1
  <2>2. CASE q # p
    <3>1. WorkOK(disk, runs, proc[q])
      BY DEF StoreInv
    <3>2. ASSUME proc[q].phase \in AtWork
          PROVE  \/ disk'[proc[q].place] = disk[proc[q].place]
                 \/ disk'[proc[q].place].exists /\ proc[q].place \notin LivePlaces /\ ~Alone
      <4>1. proc[q].place \in Places
        BY <3>1, <3>2 DEF WorkOK, CarryingOK, Carrying, Places
      <4>2. CASE proc[q].place = P
        BY <1>3, <1>5, <2>2, <3>2, <4>2
      <4> QED BY <1>3, <4>1, <4>2
    <3>3. WorkOK(disk', runs, proc[q])
      BY <1>6, <3>1, <3>2, BystanderKept
    <3> QED BY <1>2, <2>2, <3>3
  <2> QED BY <2>1, <2>2
<1>8. Exclusive(proc')
  <2> SUFFICES ASSUME NEW a \in Processes, NEW b \in Processes,
                      proc'[a].phase \in AtWork, proc'[b].phase \in AtWork,
                      proc'[a].place = proc'[b].place, proc'[a].place \in LivePlaces
               PROVE  a = b
    BY DEF Exclusive
  <2>1. CASE a # p /\ b # p
    BY <1>2, <2>1 DEF StoreInv, Exclusive
  <2>2. CASE a = p /\ b # p
    BY <1>2, <1>5, <2>2
  <2>3. CASE a # p /\ b = p
    BY <1>2, <1>5, <2>3
  <2> QED BY <2>1, <2>2, <2>3
<1> QED BY <1>2, <1>3, <1>4, <1>7, <1>8 DEF StoreInv

-----------------------------------------------------------------------------
(* Steps that leave the disk alone *)

\* An idle process relies on nothing.
LEMMA IdleOK ==
  /\ Idle \in States /\ Idle.phase = "idle" /\ ~Idle.replace
  /\ \A dk, rs : WorkOK(dk, rs, Idle)
<1>1. Idle \in States /\ Idle.phase = "idle" /\ ~Idle.replace
  BY DEF Idle, States, Models
<1>2. Idle.phase \notin Carrying /\ Idle.phase \notin AtWork
  BY <1>1 DEF Carrying, Heading, AtWork, Finishing
<1> QED BY <1>1, <1>2 DEF WorkOK

\* What holds of a process and its runs whenever it steps.
LEMMA ProcessFacts ==
  ASSUME StoreInv, NEW p \in Processes
  PROVE  /\ WorkOK(disk, runs, proc[p]) /\ proc[p] \in States
         /\ RunsOK(runs) /\ Len(runs) \in Nat /\ Longer(runs, runs)
         /\ proc[p].phase \in Carrying => CarryingOK(runs, proc[p])
<1>1. WorkOK(disk, runs, proc[p]) /\ RunsOK(runs)
  BY DEF StoreInv
<1>2. proc[p] \in States /\ (proc[p].phase \in Carrying => CarryingOK(runs, proc[p]))
  BY <1>1 DEF WorkOK
<1>3. Len(runs) \in Nat
  BY <1>1 DEF RunsOK
<1>4. Longer(runs, runs)
  BY <1>3 DEF Longer
<1> QED BY <1>1, <1>2, <1>3, <1>4

\* A process that raises is idle.
LEMMA RaisesInv ==
  ASSUME StoreInv, NEW p \in Processes, Becomes(p, Idle), UNCHANGED <<disk, runs>>
  PROVE  StoreInv'
<1>1. WorkOK(disk, runs', Idle)
  BY IdleOK
<1>2. RunsOK(runs') /\ Longer(runs, runs')
  BY ProcessFacts
<1>3. Idle.phase \notin AtWork
  BY DEF Idle, AtWork, Finishing
<1> QED BY <1>1, <1>2, <1>3, QuietStep

\* A live command looks at its directory and asks the provider.
LEMMA StartLiveInv == \A p \in Processes : StoreInv /\ StartLive(p) => StoreInv'
<1> SUFFICES ASSUME NEW p \in Processes, StoreInv, StartLive(p) PROVE StoreInv'
  OBVIOUS
<1>1. PICK place \in LivePlaces, replace \in Replacing :
        Becomes(p, [Idle EXCEPT !.phase = "asking", !.place = place, !.replace = replace])
  BY DEF StartLive
<1> DEFINE s == [Idle EXCEPT !.phase = "asking", !.place = place, !.replace = replace]
<1>2. UNCHANGED <<disk, runs>>
  BY DEF StartLive
<1>3. replace \in BOOLEAN /\ (replace => TRUE \in Replacing)
  BY FlagsAssumption
<1>4. s.phase = "asking" /\ s.place = place /\ s.replace = replace /\ s \in States
  BY <1>3, IdleOK DEF States, Places
<1> HIDE DEF s
<1>5. WorkOK(disk, runs', s)
  BY <1>2, <1>3, <1>4 DEF WorkOK, Carrying, Heading, AtWork, Finishing
<1>6. RunsOK(runs') /\ Longer(runs, runs')
  BY <1>2, ProcessFacts
<1>7. Becomes(p, s) /\ s.phase \notin AtWork
  BY <1>1, <1>4 DEF s, AtWork, Finishing
<1> QED BY <1>2, <1>5, <1>6, <1>7, QuietStep

\* The directory is looked at again: it is made, removed first, or refused.
LEMMA LandInv == \A p \in Processes : StoreInv /\ Land(p) => StoreInv'
<1> SUFFICES ASSUME NEW p \in Processes, StoreInv, Land(p) PROVE StoreInv'
  OBVIOUS
<1> DEFINE w == proc[p]
           dir == disk[w.place]
<1>1. /\ WorkOK(disk, runs, w) /\ w \in States /\ RunsOK(runs) /\ Longer(runs, runs)
      /\ w.phase \in Carrying => CarryingOK(runs, w)
  BY ProcessFacts
<1>2. w.phase = "landing" /\ UNCHANGED <<disk, runs>>
  BY DEF Land
<1>3. CarryingOK(runs, w)
  BY <1>1, <1>2 DEF Carrying, Heading
<1>4. \/ Becomes(p, [w EXCEPT !.phase = "making"])
      \/ w.replace /\ Becomes(p, [w EXCEPT !.phase = "removing", !.doomed = DOMAIN dir.files])
      \/ Becomes(p, Idle)
  BY DEF Land, Moves
<1>5. DOMAIN dir.files \subseteq Files
  <2>1. w.place \in Places
    BY <1>3 DEF CarryingOK, Places
  <2> QED BY <2>1 DEF StoreInv, PlaceOK, DirOK
<1> HIDE DEF w
<1>6. ASSUME NEW s \in States, Becomes(p, s), s.phase \in {"making", "removing"}, s.run = w.run,
             s.place = w.place, s.replace = w.replace, s.phase = "removing" => w.replace
      PROVE  StoreInv'
  <2>1. CarryingOK(runs, s)
    BY <1>2, <1>3, <1>6 DEF CarryingOK, Offline
  <2>2. s.phase \notin AtWork /\ s.phase # "writing" /\ s.phase # "asking"
    BY <1>6 DEF AtWork, Finishing
  <2>3. WorkOK(disk, runs', s)
    BY <1>1, <1>2, <1>6, <2>1, <2>2 DEF WorkOK
  <2> QED BY <1>1, <1>2, <1>6, <2>2, <2>3, QuietStep
<1>7. CASE Becomes(p, [w EXCEPT !.phase = "making"])
  <2> DEFINE s == [w EXCEPT !.phase = "making"]
  <2>1. /\ s \in States /\ s.phase = "making" /\ s.run = w.run
        /\ s.place = w.place /\ s.replace = w.replace
    BY <1>1 DEF States, Carrying, Heading
  <2> HIDE DEF s
  <2>2. Becomes(p, s)
    BY <1>7 DEF s
  <2> QED BY <1>6, <2>1, <2>2
<1>8. CASE w.replace /\ Becomes(p, [w EXCEPT !.phase = "removing", !.doomed = DOMAIN dir.files])
  <2> DEFINE s == [w EXCEPT !.phase = "removing", !.doomed = DOMAIN dir.files]
  <2>1. /\ s \in States /\ s.phase = "removing" /\ s.run = w.run
        /\ s.place = w.place /\ s.replace = w.replace
    BY <1>1, <1>5 DEF States, Carrying, Heading
  <2> HIDE DEF s
  <2>2. Becomes(p, s)
    BY <1>8 DEF s
  <2> QED BY <1>6, <1>8, <2>1, <2>2
<1>9. CASE Becomes(p, Idle)
  BY <1>2, <1>9, RaisesInv
<1> QED BY <1>4, <1>7, <1>8, <1>9

\* A process at work whose phase alone changes still finds what it relies on.
LEMMA PhaseKept ==
  ASSUME NEW dk, NEW rs, NEW w, WorkOK(dk, rs, w), NEW s \in States, w.phase \in AtWork,
         s.phase \in Finishing, ~Offline(rs, w),
         s.phase \in {"hashing", "listing"} => rs[w.run].kind = "rebuild",
         s.run = w.run, s.place = w.place, s.replace = w.replace
  PROVE  WorkOK(dk, rs, s) /\ s.phase \in AtWork
<1>1. CarryingOK(rs, w) /\ AtWorkOK(dk, rs, w) /\ w.phase # "reporting"
  BY DEF WorkOK, Carrying, AtWork, Finishing
<1>2. ~Offline(rs, s)
  BY DEF Offline
<1>3. CarryingOK(rs, s)
  BY <1>1, <1>2 DEF CarryingOK, Finishing, Offline
<1>4. AtWorkOK(dk, rs, s)
  BY <1>1, <1>2 DEF AtWorkOK, Offline
<1>5. s.phase \notin {"asking", "removing", "writing"} /\ s.phase \in AtWork
  BY DEF Finishing, AtWork
<1>6. s.replace => TRUE \in Replacing
  BY <1>1 DEF WorkOK
<1>7. WorkOK(dk, rs, s)
  BY <1>3, <1>4, <1>5, <1>6 DEF WorkOK
<1> QED BY <1>5, <1>7

\* The inspection only decides how the process goes on.
LEMMA InspectInv == \A p \in Processes : StoreInv /\ Inspect(p) => StoreInv'
<1> SUFFICES ASSUME NEW p \in Processes, StoreInv, Inspect(p) PROVE StoreInv'
  OBVIOUS
<1> DEFINE w == proc[p]
<1>1. /\ WorkOK(disk, runs, w) /\ w \in States /\ RunsOK(runs) /\ Longer(runs, runs)
      /\ w.phase \in Carrying => CarryingOK(runs, w)
  BY ProcessFacts
<1>2. w.phase = "inspecting" /\ UNCHANGED <<disk, runs>>
  BY DEF Inspect
<1>3. ~Offline(runs, w) /\ w.phase \in AtWork
  BY <1>1, <1>2 DEF CarryingOK, Carrying, Heading, AtWork, Finishing
<1>4. \/ Becomes(p, [w EXCEPT !.phase = "marking"])
      \/ runs[w.run].kind = "rebuild" /\ Becomes(p, [w EXCEPT !.phase = "hashing"])
      \/ Becomes(p, Idle)
  BY DEF Inspect, Moves
<1> HIDE DEF w
<1>5. CASE Becomes(p, [w EXCEPT !.phase = "marking"])
  <2> DEFINE s == [w EXCEPT !.phase = "marking"]
  <2>1. /\ s \in States /\ s.phase = "marking" /\ s.run = w.run
        /\ s.place = w.place /\ s.replace = w.replace
    BY <1>1 DEF States, Carrying, AtWork, Finishing
  <2> HIDE DEF s
  <2>2. WorkOK(disk, runs', s) /\ s.phase \in AtWork
    BY <1>1, <1>2, <1>3, <2>1, PhaseKept DEF Finishing
  <2>3. Becomes(p, s)
    BY <1>5 DEF s
  <2> QED BY <1>1, <1>2, <1>3, <2>1, <2>2, <2>3, QuietStep DEF w
<1>6. CASE runs[w.run].kind = "rebuild" /\ Becomes(p, [w EXCEPT !.phase = "hashing"])
  <2> DEFINE s == [w EXCEPT !.phase = "hashing"]
  <2>1. /\ s \in States /\ s.phase = "hashing" /\ s.run = w.run
        /\ s.place = w.place /\ s.replace = w.replace
    BY <1>1 DEF States, Carrying, AtWork, Finishing
  <2> HIDE DEF s
  <2>2. WorkOK(disk, runs', s) /\ s.phase \in AtWork
    BY <1>1, <1>2, <1>3, <1>6, <2>1, PhaseKept DEF Finishing
  <2>3. Becomes(p, s)
    BY <1>6 DEF s
  <2> QED BY <1>1, <1>2, <1>3, <2>1, <2>2, <2>3, QuietStep DEF w
<1>7. CASE Becomes(p, Idle)
  BY <1>2, <1>7, RaisesInv
<1> QED BY <1>4, <1>5, <1>6, <1>7

\* A comparison reads, and keeps its rows in memory.
LEMMA CompareInv == \A p \in Processes : StoreInv /\ Compare(p) => StoreInv'
<1> SUFFICES ASSUME NEW p \in Processes, StoreInv, Compare(p) PROVE StoreInv'
  OBVIOUS
<1>1. PICK chosen \in [Variants -> LivePlaces], lenient \in BOOLEAN :
        /\ \A variant \in Variants :
             {"summary", "config"} \subseteq DOMAIN disk[chosen[variant]].files
        /\ Becomes(p, [Idle EXCEPT
             !.phase = "reporting",
             !.replace = lenient,
             !.rows  = [variant \in Variants |-> Content(chosen[variant], "summary").by],
             !.model = runs[Content(chosen["single_generalist"], "config").by].model])
  BY DEF Compare
<1>2. UNCHANGED <<disk, runs>>
  BY DEF Compare
<1> DEFINE rows  == [variant \in Variants |-> Content(chosen[variant], "summary").by]
           model == runs[Content(chosen["single_generalist"], "config").by].model
           s     == [Idle EXCEPT !.phase = "reporting", !.replace = lenient,
                                 !.rows = rows, !.model = model]
<1>3. ASSUME NEW variant \in Variants
      PROVE  /\ Content(chosen[variant], "summary").by \in 1 .. Len(runs)
             /\ Content(chosen[variant], "config").by \in 1 .. Len(runs)
  <2>1. chosen[variant] \in Places
    BY DEF Places
  <2>2. \A f \in DOMAIN disk[chosen[variant]].files :
          FileOK(runs, f, disk[chosen[variant]].files[f])
    BY <2>1 DEF StoreInv, PlaceOK, DirOK
  <2>3. \A f \in {"summary", "config"} : FileOK(runs, f, Content(chosen[variant], f))
    BY <1>1, <2>2 DEF Content
  <2> QED BY <2>3 DEF FileOK
<1>4. rows \in [Variants -> Nat]
  BY <1>3
<1>5. model \in Models
  <2>1. "single_generalist" \in Variants
    BY DEF Variants
  <2>2. RunOK(runs[Content(chosen["single_generalist"], "config").by])
    BY <1>3, <2>1 DEF StoreInv, RunsOK
  <2> QED BY <2>2 DEF RunOK, Made
<1> HIDE DEF rows, model
<1>6. s \in States /\ s.phase = "reporting"
  BY <1>4, <1>5, IdleOK DEF States
<1>7. Becomes(p, s)
  BY <1>1 DEF rows, model
<1> HIDE DEF s
<1>8. s.phase \notin AtWork
  BY <1>6 DEF AtWork, Finishing
<1>9. WorkOK(disk, runs', s)
  BY <1>6 DEF WorkOK, Carrying, Heading, AtWork, Finishing
<1>10. RunsOK(runs') /\ Longer(runs, runs')
  BY <1>2, ProcessFacts
<1> QED BY <1>2, <1>7, <1>8, <1>9, <1>10, QuietStep

-----------------------------------------------------------------------------
(* Steps that make a run *)

\* A process that has made a run has not touched any directory yet.
LEMMA MakesRunInv ==
  ASSUME StoreInv, NEW p \in Processes, NEW one, RunOK(one), NEW state \in States,
         MakesRun(p, one, state), disk' = disk,
         state.phase = "landing" \/ state.phase = "opening",
         state.replace => TRUE \in Replacing,
         one.kind = "offline" => state.place \in OfflinePlaces /\ state.phase = "opening",
         one.kind # "offline" => state.place \in LivePlaces /\ state.phase = "landing"
  PROVE  StoreInv'
<1> DEFINE n == Len(runs) + 1
           s == [state EXCEPT !.run = n]
<1>1. RunsOK(runs) /\ Len(runs) \in Nat /\ runs \in Seq(Made)
  BY ProcessFacts DEF RunsOK
<1>2. one \in Made
  BY DEF RunOK
<1>3. runs' = Append(runs, one) /\ Becomes(p, s)
  BY DEF MakesRun
<1>4. /\ runs' \in Seq(Made) /\ Len(runs') = n
      /\ \A i \in 1 .. Len(runs) : runs'[i] = runs[i]
      /\ runs'[n] = one
  BY <1>1, <1>2, <1>3, AppendProperties
<1>5. RunsOK(runs')
  <2> SUFFICES ASSUME NEW i \in 1 .. n PROVE RunOK(runs'[i])
    BY <1>4 DEF RunsOK
  <2>1. i = n \/ i \in 1 .. Len(runs)
    BY <1>1
  <2> QED BY <1>1, <1>4, <2>1 DEF RunsOK
<1>6. Longer(runs, runs')
  BY <1>1, <1>4 DEF Longer
<1>7. /\ s \in States /\ s.run = n /\ s.phase = state.phase /\ s.place = state.place
      /\ s.replace = state.replace
  BY <1>1 DEF States
<1> HIDE DEF s
<1>8. n \in 1 .. Len(runs')
  BY <1>1, <1>4
<1>9. Offline(runs', s) <=> one.kind = "offline"
  BY <1>4, <1>7 DEF Offline
<1> HIDE DEF n
<1>10. CarryingOK(runs', s)
  BY <1>7, <1>8, <1>9 DEF CarryingOK
<1>11. s.phase \notin AtWork /\ s.phase \notin {"asking", "removing", "writing"}
  BY <1>7 DEF AtWork, Finishing
<1>12. WorkOK(disk, runs', s)
  BY <1>7, <1>10, <1>11 DEF WorkOK
<1> QED BY <1>3, <1>5, <1>6, <1>11, <1>12, QuietStep

\* The provider answered.
LEMMA ConcludeInv == \A p \in Processes : StoreInv /\ Conclude(p) => StoreInv'
<1> SUFFICES ASSUME NEW p \in Processes, StoreInv, Conclude(p) PROVE StoreInv'
  OBVIOUS
<1> DEFINE w     == proc[p]
           state == [w EXCEPT !.phase = "landing"]
<1>1. WorkOK(disk, runs, w) /\ w \in States
  BY ProcessFacts
<1>2. w.phase = "asking" /\ disk' = disk
  BY DEF Conclude
<1>3. PICK one \in Outcomes : MakesRun(p, one, state)
  BY DEF Conclude
<1>4. RunOK(one) /\ one.kind # "offline"
  <2>1. one \in Runs /\ one.kind \in {"variant", "agent", "smoke"}
    BY OutcomesAssumption
  <2>2. one.completed => one.kind = "variant"
    BY OutcomesAssumption
  <2>3. one \in Made
    BY <2>1, FlagsAssumption DEF Runs, Made, Models
  <2> QED BY <2>1, <2>2, <2>3 DEF RunOK
<1>5. w.place \in LivePlaces /\ (w.replace => TRUE \in Replacing)
  BY <1>1, <1>2 DEF WorkOK
<1> HIDE DEF w
<1>6. /\ state \in States /\ state.phase = "landing" /\ state.place = w.place
      /\ state.replace = w.replace
  BY <1>1 DEF States, Carrying, Heading
<1> HIDE DEF state
<1> QED BY <1>2, <1>3, <1>4, <1>5, <1>6, MakesRunInv

\* A rebuild has read the configuration and the records of its source.
LEMMA StartRebuildInv == \A p \in Processes : StoreInv /\ StartRebuild(p) => StoreInv'
<1> SUFFICES ASSUME NEW p \in Processes, StoreInv, StartRebuild(p) PROVE StoreInv'
  OBVIOUS
<1>1. PICK source \in LivePlaces, output \in LivePlaces, replace \in Replacing,
           sound \in BOOLEAN, handoff \in BOOLEAN :
        /\ disk[output].exists => replace
        /\ {"records", "config"} \subseteq DOMAIN disk[source].files
        /\ output = source => InPlace
        /\ LET one == Rebuilt(Content(source, "config").by, Content(source, "records").by,
                              sound, handoff)
           IN  /\ handoff => one.variant # "single_generalist"
               /\ runs[Content(source, "records").by].handoff => handoff
               /\ MakesRun(p, one, [Idle EXCEPT !.phase = "landing", !.place = output,
                                                !.replace = replace, !.source = source])
  BY DEF StartRebuild
<1> DEFINE config  == Content(source, "config").by
           records == Content(source, "records").by
           one     == Rebuilt(config, records, sound, handoff)
           state   == [Idle EXCEPT !.phase = "landing", !.place = output,
                                   !.replace = replace, !.source = source]
<1>2. MakesRun(p, one, state) /\ disk' = disk
  BY <1>1 DEF StartRebuild
<1>3. config \in 1 .. Len(runs) /\ records \in 1 .. Len(runs)
  <2>1. \A f \in DOMAIN disk[source].files : FileOK(runs, f, disk[source].files[f])
    BY DEF StoreInv, PlaceOK, DirOK, Places
  <2>2. \A f \in {"records", "config"} : FileOK(runs, f, Content(source, f))
    BY <1>1, <2>1 DEF Content
  <2> QED BY <2>2 DEF FileOK
<1>4. Len(runs) \in Nat /\ RunOK(runs[config])
  BY <1>3, ProcessFacts DEF RunsOK
<1> HIDE DEF config, records
<1>5. RunOK(one) /\ one.kind = "rebuild"
  <2>1. runs[config] \in Made /\ records \in Nat
    BY <1>3, <1>4 DEF RunOK
  <2>2. one \in Made /\ one.kind = "rebuild" /\ one.completed = FALSE
    BY <2>1 DEF Rebuilt, Made, Kinds
  <2> QED BY <2>2 DEF RunOK
<1>6. replace \in BOOLEAN /\ (replace => TRUE \in Replacing)
  BY FlagsAssumption
<1>7. /\ state \in States /\ state.phase = "landing" /\ state.place = output
      /\ state.replace = replace
  BY <1>6, IdleOK DEF States, Places, Carrying, Heading
<1> HIDE DEF one, state
<1> QED BY <1>2, <1>5, <1>6, <1>7, MakesRunInv

\* evaluate-offline has evaluated its fixtures.
LEMMA StartOfflineInv == \A p \in Processes : StoreInv /\ StartOffline(p) => StoreInv'
<1> SUFFICES ASSUME NEW p \in Processes, StoreInv, StartOffline(p) PROVE StoreInv'
  OBVIOUS
<1> DEFINE one == [kind |-> "offline", variant |-> "single_generalist", model |-> "simulated",
                   completed |-> FALSE, sound |-> TRUE, handoff |-> FALSE,
                   evaluated |-> TRUE, of |-> 0]
<1>1. PICK place \in OfflinePlaces :
        MakesRun(p, one, [Idle EXCEPT !.phase = "opening", !.place = place])
  BY DEF StartOffline
<1> DEFINE state == [Idle EXCEPT !.phase = "opening", !.place = place]
<1>2. RunOK(one) /\ one.kind = "offline"
  BY DEF RunOK, Made, Kinds, Variants, Models
<1>3. /\ state \in States /\ state.phase = "opening" /\ state.place = place
      /\ ~state.replace
  BY IdleOK DEF States, Places, Carrying
<1>4. MakesRun(p, one, state) /\ disk' = disk
  BY <1>1 DEF StartOffline
<1> HIDE DEF one, state
<1> QED BY <1>2, <1>3, <1>4, MakesRunInv

-----------------------------------------------------------------------------
(* Directories with a file more, less, or another *)

\* The first member of a sequence, and the others.
LEMMA HeadAndTail ==
  ASSUME NEW S, NEW s \in Seq(S), s # <<>>
  PROVE  /\ Tail(s) \in Seq(S)
         /\ Head(s) \in ToSet(s)
         /\ ToSet(Tail(s)) \subseteq ToSet(s)
         /\ ToSet(s) \subseteq {Head(s)} \cup ToSet(Tail(s))
<1>1. /\ Len(s) \in Nat \ {0} /\ Tail(s) \in Seq(S) /\ Len(Tail(s)) = Len(s) - 1
      /\ Head(s) = s[1]
      /\ \A i \in 1 .. Len(Tail(s)) : Tail(s)[i] = s[i + 1]
  BY HeadTailProperties, LenProperties, EmptySeq
<1>2. DOMAIN s = 1 .. Len(s) /\ DOMAIN Tail(s) = 1 .. (Len(s) - 1)
  BY <1>1, LenProperties
<1> DEFINE t == Tail(s)
<1>3. ToSet(t) \subseteq ToSet(s)
  <2> SUFFICES ASSUME NEW i \in DOMAIN t PROVE t[i] \in ToSet(s)
    BY DEF ToSet
  <2>1. i + 1 \in DOMAIN s /\ t[i] = s[i + 1]
    BY <1>1, <1>2
  <2> QED BY <2>1 DEF ToSet
<1>4. ToSet(s) \subseteq {Head(s)} \cup ToSet(t)
  <2> SUFFICES ASSUME NEW i \in DOMAIN s, i # 1 PROVE s[i] \in ToSet(t)
    BY <1>1 DEF ToSet
  <2>1. i - 1 \in DOMAIN t /\ t[i - 1] = s[i]
    BY <1>1, <1>2
  <2> QED BY <2>1 DEF ToSet
<1>5. Head(s) \in ToSet(s)
  <2>1. 1 \in DOMAIN s
    BY <1>1, <1>2
  <2> QED BY <1>1, <2>1 DEF ToSet
<1> QED BY <1>1, <1>3, <1>4, <1>5

\* A file is written.
LEMMA WithOK ==
  ASSUME NEW rs, NEW dir, DirOK(rs, dir), NEW file \in Files, NEW c, FileOK(rs, file, c)
  PROVE  /\ DirOK(rs, With(dir, file, c))
         /\ With(dir, file, c).exists
         /\ DOMAIN With(dir, file, c).files = DOMAIN dir.files \cup {file}
         /\ With(dir, file, c).files[file] = c
         /\ \A f \in DOMAIN dir.files : f # file => With(dir, file, c).files[f] = dir.files[f]
<1> DEFINE d == With(dir, file, c)
<1>1. /\ d.exists = TRUE
      /\ d.files = [f \in DOMAIN dir.files \cup {file} |-> IF f = file THEN c ELSE dir.files[f]]
      /\ d \in [exists : BOOLEAN, files : {d.files}]
  BY DEF With
<1> HIDE DEF d
<1>2. /\ DOMAIN d.files = DOMAIN dir.files \cup {file}
      /\ d.files[file] = c
      /\ \A f \in DOMAIN dir.files : f # file => d.files[f] = dir.files[f]
  BY <1>1
<1>3. \A f \in DOMAIN d.files : FileOK(rs, f, d.files[f])
  BY <1>2 DEF DirOK
<1>4. d.files \in [DOMAIN d.files -> {d.files[f] : f \in DOMAIN d.files}]
  BY <1>1
<1>5. DirOK(rs, d)
  BY <1>1, <1>2, <1>3, <1>4 DEF DirOK
<1> QED BY <1>1, <1>2, <1>5 DEF d

\* A file is removed.
LEMMA WithoutDirOK ==
  ASSUME NEW rs, NEW dir, DirOK(rs, dir), NEW file
  PROVE  /\ DirOK(rs, Without(dir, file))
         /\ Without(dir, file).exists = dir.exists
         /\ DOMAIN Without(dir, file).files = DOMAIN dir.files \ {file}
         /\ \A f \in DOMAIN Without(dir, file).files :
              Without(dir, file).files[f] = dir.files[f]
<1> DEFINE files == [f \in DOMAIN dir.files \ {file} |-> dir.files[f]]
           d     == [dir EXCEPT !.files = files]
<1>1. dir \in [exists : BOOLEAN, files : {dir.files}]
  BY DEF DirOK
<1>2. DOMAIN files = DOMAIN dir.files \ {file} /\ \A f \in DOMAIN files : files[f] = dir.files[f]
  OBVIOUS
<1>3. files \in [DOMAIN files -> {files[f] : f \in DOMAIN files}]
  OBVIOUS
<1> HIDE DEF files
<1>4. d.exists = dir.exists /\ d.files = files /\ d \in [exists : BOOLEAN, files : {d.files}]
  BY <1>1
<1> HIDE DEF d
<1>5. DirOK(rs, d)
  BY <1>2, <1>3, <1>4 DEF DirOK
<1>6. Without(dir, file) = d
  BY DEF Without, d, files
<1> QED BY <1>2, <1>4, <1>5, <1>6

\* Of a live directory, what is left is still one run's.
LEMMA WithoutOK ==
  ASSUME NEW rs, NEW place \in LivePlaces, NEW dir, PlaceOK(rs, place, dir), NEW file
  PROVE  /\ PlaceOK(rs, place, Without(dir, file))
         /\ Without(dir, file).exists = dir.exists
<1> DEFINE d == Without(dir, file)
<1>1. /\ DirOK(rs, d) /\ d.exists = dir.exists
      /\ DOMAIN d.files = DOMAIN dir.files \ {file}
      /\ \A f \in DOMAIN d.files : d.files[f] = dir.files[f]
  BY WithoutDirOK DEF PlaceOK
<1> HIDE DEF d
<1>2. OneBy(d)
  BY <1>1 DEF PlaceOK, OneBy
<1>3. PlaceOK(rs, place, d)
  BY <1>1, <1>2, PlacesAssumption DEF PlaceOK
<1> QED BY <1>1, <1>3 DEF d

Edited(dir, file, c) == [dir EXCEPT !.files = [dir.files EXCEPT ![file] = c]]

\* A file gets another content.
LEMMA ReplacedOK ==
  ASSUME NEW rs, NEW dir, DirOK(rs, dir), NEW file \in DOMAIN dir.files, NEW c,
         FileOK(rs, file, c)
  PROVE  /\ DirOK(rs, Edited(dir, file, c))
         /\ Edited(dir, file, c).exists = dir.exists
         /\ DOMAIN Edited(dir, file, c).files = DOMAIN dir.files
         /\ Edited(dir, file, c).files[file] = c
         /\ \A f \in DOMAIN dir.files :
              f # file => Edited(dir, file, c).files[f] = dir.files[f]
<1> DEFINE d == Edited(dir, file, c)
           files == [dir.files EXCEPT ![file] = c]
<1>1. dir \in [exists : BOOLEAN, files : {dir.files}]
  BY DEF DirOK
<1>2. dir.files \in [DOMAIN dir.files -> {dir.files[f] : f \in DOMAIN dir.files}]
  BY DEF DirOK
<1>3. /\ DOMAIN files = DOMAIN dir.files /\ files[file] = c
      /\ \A f \in DOMAIN dir.files : f # file => files[f] = dir.files[f]
  BY <1>2
<1>4. files \in [DOMAIN files -> {files[f] : f \in DOMAIN files}]
  BY <1>2
<1> HIDE DEF files
<1>5. d.exists = dir.exists /\ d.files = files /\ d \in [exists : BOOLEAN, files : {d.files}]
  BY <1>1 DEF files, Edited
<1> HIDE DEF d
<1>6. \A f \in DOMAIN files : FileOK(rs, f, files[f])
  BY <1>3 DEF DirOK
<1>7. DirOK(rs, d)
  BY <1>3, <1>4, <1>5, <1>6 DEF DirOK
<1> QED BY <1>3, <1>5, <1>7 DEF d

\* A place is live or of evaluate-offline, as the run of the process that works there.
LEMMA PlaceOfRun ==
  ASSUME NEW rs, NEW s, CarryingOK(rs, s)
  PROVE  /\ s.place \in Places
         /\ s.place \in LivePlaces <=> ~Offline(rs, s)
         /\ s.place \in OfflinePlaces <=> Offline(rs, s)
BY PlacesAssumption DEF CarryingOK, Places

-----------------------------------------------------------------------------
(* Steps that change a directory *)

\* Who removes was told to replace, and is therefore alone.
LEMMA RemoverAlone ==
  ASSUME Undisturbed, StoreInv, NEW p \in Processes, proc[p].phase = "removing"
  PROVE  Alone
BY DEF StoreInv, WorkOK, Undisturbed

\* One more file of the old run is gone.
LEMMA RemoveFileInv == \A p \in Processes : Undisturbed /\ StoreInv /\ RemoveFile(p) => StoreInv'
<1> SUFFICES ASSUME NEW p \in Processes, Undisturbed, StoreInv, RemoveFile(p) PROVE StoreInv'
  OBVIOUS
<1> DEFINE w == proc[p]
<1>1. PICK file \in w.doomed :
        \/ Raises(p)
        \/ /\ disk' = [disk EXCEPT ![w.place] = Without(@, file)]
           /\ Becomes(p, [w EXCEPT !.doomed = @ \ {file}])
           /\ UNCHANGED runs
  BY DEF RemoveFile
<1>2. /\ WorkOK(disk, runs, w) /\ w \in States
      /\ w.phase \in Carrying => CarryingOK(runs, w)
  BY ProcessFacts
<1>3. w.phase = "removing"
  BY DEF RemoveFile
<1>4. Alone
  BY <1>3, RemoverAlone
<1>5. CarryingOK(runs, w)
  BY <1>2, <1>3 DEF Carrying, Heading
<1>6. w.place \in LivePlaces /\ w.place \in Places
  BY <1>3, <1>5 DEF CarryingOK, Places
<1>7. CASE Raises(p)
  BY <1>7, RaisesInv DEF Raises
<1>8. CASE /\ disk' = [disk EXCEPT ![w.place] = Without(@, file)]
           /\ Becomes(p, [w EXCEPT !.doomed = @ \ {file}])
           /\ UNCHANGED runs
  <2> DEFINE P == w.place
             d == Without(disk[P], file)
             s == [w EXCEPT !.doomed = @ \ {file}]
  <2>1. PlaceOK(runs, P, disk[P])
    BY <1>6 DEF StoreInv
  <2>2. PlaceOK(runs, P, d)
    BY <1>6, <2>1, WithoutOK
  <2>3. disk' = [disk EXCEPT ![P] = d] /\ Becomes(p, s) /\ runs' = runs
    BY <1>8
  <2> HIDE DEF w
  <2>4. /\ s \in States /\ s.phase = w.phase /\ s.run = w.run /\ s.place = w.place
        /\ s.replace = w.replace
    BY <1>2 DEF States
  <2> HIDE DEF s, d
  <2>5. CarryingOK(runs, s)
    BY <1>5, <2>4 DEF CarryingOK, Offline
  <2>6. s.phase \notin AtWork
    BY <1>3, <2>4 DEF AtWork, Finishing
  <2>7. WorkOK(disk', runs, s)
    BY <1>2, <1>3, <2>4, <2>5, <2>6 DEF WorkOK
  <2> QED BY <1>4, <1>6, <2>2, <2>3, <2>6, <2>7, DiskStep DEF w
<1> QED BY <1>1, <1>7, <1>8

\* The old directory is gone, unless something came into it.
LEMMA RemoveDirectoryInv ==
  \A p \in Processes : Undisturbed /\ StoreInv /\ RemoveDirectory(p) => StoreInv'
<1> SUFFICES ASSUME NEW p \in Processes, Undisturbed, StoreInv, RemoveDirectory(p) PROVE StoreInv'
  OBVIOUS
<1> DEFINE w == proc[p]
<1>1. \/ Raises(p)
      \/ /\ disk' = [disk EXCEPT ![w.place] = Absent]
         /\ Becomes(p, [w EXCEPT !.phase = "making"])
         /\ UNCHANGED runs
  BY DEF RemoveDirectory, Moves
<1>2. /\ WorkOK(disk, runs, w) /\ w \in States
      /\ w.phase \in Carrying => CarryingOK(runs, w)
  BY ProcessFacts
<1>3. w.phase = "removing"
  BY DEF RemoveDirectory
<1>4. Alone
  BY <1>3, RemoverAlone
<1>5. CarryingOK(runs, w)
  BY <1>2, <1>3 DEF Carrying, Heading
<1>6. w.place \in LivePlaces /\ w.place \in Places
  BY <1>3, <1>5 DEF CarryingOK, Places
<1>7. CASE Raises(p)
  BY <1>7, RaisesInv DEF Raises
<1>8. CASE /\ disk' = [disk EXCEPT ![w.place] = Absent]
           /\ Becomes(p, [w EXCEPT !.phase = "making"])
           /\ UNCHANGED runs
  <2> DEFINE P == w.place
             s == [w EXCEPT !.phase = "making"]
  <2>1. Absent.files = <<>> /\ DOMAIN Absent.files = {} /\ Absent.exists = FALSE
    BY DEF Absent
  <2>2. DirOK(runs, Absent)
    <3>1. Absent \in [exists : BOOLEAN, files : {Absent.files}]
      BY DEF Absent
    <3>2. Absent.files \in [DOMAIN Absent.files -> {Absent.files[f] : f \in DOMAIN Absent.files}]
      BY <2>1
    <3> QED BY <2>1, <3>1, <3>2 DEF DirOK
  <2>3. PlaceOK(runs, P, Absent)
    BY <2>1, <2>2 DEF PlaceOK, OneBy, OfflineOK
  <2>4. disk' = [disk EXCEPT ![P] = Absent] /\ Becomes(p, s) /\ runs' = runs
    BY <1>8
  <2> HIDE DEF w
  <2>5. /\ s \in States /\ s.phase = "making" /\ s.run = w.run /\ s.place = w.place
        /\ s.replace = w.replace
    BY <1>2 DEF States, Carrying, Heading
  <2> HIDE DEF s
  <2>6. CarryingOK(runs, s)
    BY <1>3, <1>5, <2>5 DEF CarryingOK, Offline
  <2>7. s.phase \notin AtWork
    BY <2>5 DEF AtWork, Finishing
  <2>8. WorkOK(disk', runs, s)
    BY <1>2, <1>3, <2>5, <2>6, <2>7 DEF WorkOK
  <2> QED BY <1>4, <1>6, <2>3, <2>4, <2>7, <2>8, DiskStep DEF w
<1> QED BY <1>1, <1>7, <1>8

\* A process that begins to write finds a directory it can work in.
LEMMA BeginsOK ==
  ASSUME NEW dk, NEW w, WorkOK(dk, runs, w), CarryingOK(runs, w),
         NEW s, s = [w EXCEPT !.phase = "writing", !.todo = Artifacts(w.run)],
         NEW dj, dj[w.place].exists, w.phase # "reporting",
         ~Offline(runs, w) => DOMAIN dj[w.place].files = {}
  PROVE  WorkOK(dj, runs, s) /\ s.place = w.place
<1>1. Artifacts(w.run) = ArtifactsIn(runs, w.run) /\ Artifacts(w.run) \in Seq(Files)
  BY InThisState, ArtifactNames
<1>2. w \in States
  BY DEF WorkOK
<1>3. /\ s \in States /\ s.phase = "writing" /\ s.run = w.run /\ s.place = w.place
      /\ s.replace = w.replace /\ s.todo = Artifacts(w.run)
  BY <1>1, <1>2 DEF States, Carrying, AtWork
<1>4. CarryingOK(runs, s) /\ (Offline(runs, s) <=> Offline(runs, w))
  BY <1>3 DEF CarryingOK, Offline
<1>5. AtWorkOK(dj, runs, s)
  BY <1>3, <1>4 DEF AtWorkOK
<1>6. WritingOK(dj, runs, s)
  BY <1>1, <1>3 DEF WritingOK
<1>7. s.replace => TRUE \in Replacing
  BY <1>3 DEF WorkOK
<1> QED BY <1>3, <1>4, <1>5, <1>6, <1>7 DEF WorkOK

\* The directory is made, unless somebody else was faster.
LEMMA MakeInv == \A p \in Processes : StoreInv /\ Make(p) => StoreInv'
<1> SUFFICES ASSUME NEW p \in Processes, StoreInv, Make(p) PROVE StoreInv'
  OBVIOUS
<1> DEFINE w == proc[p]
           P == w.place
           s == [w EXCEPT !.phase = "writing", !.todo = Artifacts(w.run)]
<1>1. \/ Raises(p)
      \/ /\ ~disk[P].exists
         /\ disk' = [disk EXCEPT ![P] = EmptyDirectory]
         /\ Becomes(p, s)
         /\ UNCHANGED runs
  BY DEF Make
<1>2. /\ WorkOK(disk, runs, w) /\ w \in States
      /\ w.phase \in Carrying => CarryingOK(runs, w)
  BY ProcessFacts
<1>3. w.phase = "making"
  BY DEF Make
<1>4. CarryingOK(runs, w)
  BY <1>2, <1>3 DEF Carrying, Heading
<1>5. P \in LivePlaces /\ P \in Places
  BY <1>3, <1>4 DEF CarryingOK, Places
<1>6. CASE Raises(p)
  BY <1>6, RaisesInv DEF Raises
<1>7. CASE /\ ~disk[P].exists
           /\ disk' = [disk EXCEPT ![P] = EmptyDirectory]
           /\ Becomes(p, s)
           /\ UNCHANGED runs
  <2> DEFINE d == EmptyDirectory
  <2>1. d.files = <<>> /\ DOMAIN d.files = {} /\ d.exists = TRUE
    BY DEF EmptyDirectory
  <2>2. DirOK(runs, d)
    <3>1. d \in [exists : BOOLEAN, files : {d.files}]
      BY DEF EmptyDirectory
    <3>2. d.files \in [DOMAIN d.files -> {d.files[f] : f \in DOMAIN d.files}]
      BY <2>1
    <3> QED BY <2>1, <3>1, <3>2 DEF DirOK
  <2> HIDE DEF d
  <2>3. PlaceOK(runs, P, d)
    BY <2>1, <2>2 DEF PlaceOK, OneBy, OfflineOK
  <2>4. disk'[P] = d
    BY <1>5, <1>7 DEF StoreInv, d
  <2>5. WorkOK(disk', runs, s) /\ s.place = P
    BY <1>2, <1>3, <1>4, <2>1, <2>4, BeginsOK
  <2> QED BY <1>5, <1>7, <2>1, <2>3, <2>5, DiskStep DEF d
<1> QED BY <1>1, <1>6, <1>7

\* evaluate-offline takes its directory as it is.
LEMMA OpenOfflineInv == \A p \in Processes : StoreInv /\ OpenOffline(p) => StoreInv'
<1> SUFFICES ASSUME NEW p \in Processes, StoreInv, OpenOffline(p) PROVE StoreInv'
  OBVIOUS
<1> DEFINE w == proc[p]
           P == w.place
           s == [w EXCEPT !.phase = "writing", !.todo = Artifacts(w.run)]
           d == [disk[P] EXCEPT !.exists = TRUE]
<1>1. /\ WorkOK(disk, runs, w) /\ w \in States
      /\ w.phase \in Carrying => CarryingOK(runs, w)
  BY ProcessFacts
<1>2. w.phase = "opening" /\ runs' = runs /\ Becomes(p, s)
  BY DEF OpenOffline
<1>3. CarryingOK(runs, w)
  BY <1>1, <1>2 DEF Carrying
<1>4. Offline(runs, w)
  BY <1>2, <1>3 DEF CarryingOK
<1>5. P \in Places /\ P \notin LivePlaces
  BY <1>3, <1>4, PlaceOfRun
<1>6. PlaceOK(runs, P, disk[P])
  BY <1>5 DEF StoreInv
<1>7. disk' = [disk EXCEPT ![P] = d]
  BY DEF OpenOffline
<1>8. disk[P] \in [exists : BOOLEAN, files : {disk[P].files}]
  BY <1>6 DEF PlaceOK, DirOK
<1>9. d.exists /\ d.files = disk[P].files /\ d \in [exists : BOOLEAN, files : {d.files}]
  BY <1>8
<1>10. disk'[P] = d
  BY <1>5, <1>7 DEF StoreInv
<1> HIDE DEF d
<1>11. PlaceOK(runs, P, d)
  BY <1>5, <1>6, <1>9 DEF PlaceOK, DirOK, OfflineOK
<1>12. WorkOK(disk', runs, s) /\ s.place = P
  BY <1>1, <1>2, <1>3, <1>4, <1>9, <1>10, BeginsOK
<1> QED BY <1>2, <1>5, <1>7, <1>9, <1>11, <1>12, DiskStep

-----------------------------------------------------------------------------
(* Steps of a process that is writing, or done with it *)

\* One more artifact is there.
LEMMA WriteArtifactInv == \A p \in Processes : StoreInv /\ WriteArtifact(p) => StoreInv'
<1> SUFFICES ASSUME NEW p \in Processes, StoreInv, WriteArtifact(p) PROVE StoreInv'
  OBVIOUS
<1> DEFINE w == proc[p]
           P == w.place
           n == w.run
           file == Head(w.todo)
           d == With(disk[P], file, Artifact(n))
           s == [w EXCEPT !.todo = Tail(w.todo)]
<1>1. /\ WorkOK(disk, runs, w) /\ w \in States /\ RunsOK(runs)
      /\ w.phase \in Carrying => CarryingOK(runs, w)
  BY ProcessFacts
<1>2. /\ w.phase = "writing" /\ w.todo # <<>> /\ runs' = runs
      /\ disk' = [disk EXCEPT ![P] = d] /\ Becomes(p, s)
  BY DEF WriteArtifact
<1>3. CarryingOK(runs, w) /\ AtWorkOK(disk, runs, w) /\ WritingOK(disk, runs, w)
  BY <1>1, <1>2 DEF WorkOK, Carrying, AtWork
<1>4. P \in Places /\ (P \in LivePlaces <=> ~Offline(runs, w)) /\ n \in 1 .. Len(runs)
  BY <1>3, PlaceOfRun DEF CarryingOK
<1>5. PlaceOK(runs, P, disk[P])
  BY <1>4 DEF StoreInv
<1>6. w.todo \in Seq(Files)
  BY <1>1 DEF States
<1>7. disk'[P] = d
  BY <1>2, <1>4 DEF StoreInv
<1>8. /\ s \in States /\ s.phase = "writing" /\ s.run = n /\ s.place = P
      /\ s.replace = w.replace /\ s.todo = Tail(w.todo)
  BY <1>1, <1>2, <1>6, HeadAndTail DEF States
<1> HIDE DEF w, s
<1>9. /\ file \in ToSet(w.todo) /\ ToSet(s.todo) \subseteq ToSet(w.todo)
      /\ ToSet(w.todo) \subseteq {file} \cup ToSet(s.todo)
  BY <1>2, <1>6, <1>8, HeadAndTail
<1>10. file \in ToSet(ArtifactsIn(runs, n)) /\ file \in Named
  BY <1>3, <1>9, ArtifactNames DEF WritingOK
<1> HIDE DEF file
<1>11. FileOK(runs, file, Artifact(n))
  BY <1>4, <1>10 DEF FileOK, Artifact, Named
<1>12. /\ DirOK(runs, d) /\ d.exists
       /\ DOMAIN d.files = DOMAIN disk[P].files \cup {file} /\ d.files[file] = Artifact(n)
       /\ \A f \in DOMAIN disk[P].files : f # file => d.files[f] = disk[P].files[f]
  BY <1>5, <1>10, <1>11, WithOK DEF PlaceOK, Named, Files
<1> HIDE DEF d
<1>13. Artifact(n).by = n
  BY DEF Artifact
<1>14. ASSUME ~Offline(runs, w) PROVE \A f \in DOMAIN d.files : d.files[f].by = n
  BY <1>3, <1>12, <1>13, <1>14 DEF AtWorkOK
<1>15. ASSUME Offline(runs, w) PROVE OfflineOK(d)
  <2>1. file \in OfflineFiles /\ file # "manifest"
    BY <1>1, <1>4, <1>10, <1>15, ArtifactNames DEF RunsOK, Offline, OfflineFiles
  <2>2. OfflineOK(disk[P])
    BY <1>3, <1>5, <1>15, PlaceOfRun DEF PlaceOK
  <2> QED BY <1>12, <2>1, <2>2 DEF OfflineOK
<1>16. PlaceOK(runs, P, d)
  <2>1. P \in OfflinePlaces => Offline(runs, w)
    BY <1>3, PlaceOfRun
  <2> QED BY <1>4, <1>12, <1>14, <1>15, <2>1 DEF PlaceOK, OneBy
<1>17. CarryingOK(runs, s) /\ (Offline(runs, s) <=> Offline(runs, w))
  BY <1>2, <1>3, <1>8 DEF CarryingOK, Offline
<1>18. AtWorkOK(disk', runs, s)
  BY <1>7, <1>8, <1>12, <1>14, <1>17 DEF AtWorkOK
<1>19. WritingOK(disk', runs, s)
  BY <1>3, <1>7, <1>8, <1>9, <1>12, <1>13 DEF WritingOK
<1>20. s.replace => TRUE \in Replacing
  BY <1>1, <1>2, <1>8 DEF WorkOK
<1>21. WorkOK(disk', runs, s)
  BY <1>8, <1>17, <1>18, <1>19, <1>20 DEF WorkOK
<1>22. proc[p].phase \in AtWork
  BY <1>2 DEF w, AtWork
<1> QED BY <1>2, <1>4, <1>8, <1>12, <1>16, <1>21, <1>22, DiskStep DEF w

\* A process at work outside evaluate-offline leaves files of its own run only.
LEMMA OwnDirectory ==
  ASSUME StoreInv, NEW p \in Processes, proc[p].phase \in AtWork, ~Offline(runs, proc[p]),
         NEW d, DirOK(runs, d), d.exists, \A f \in DOMAIN d.files : d.files[f].by = proc[p].run,
         disk' = [disk EXCEPT ![proc[p].place] = d], runs' = runs,
         NEW s \in States, Becomes(p, s),
         \/ s = Idle
         \/ /\ s.phase \in Finishing
            /\ s.phase \in {"hashing", "listing"} => runs[proc[p].run].kind = "rebuild"
            /\ s.run = proc[p].run /\ s.place = proc[p].place /\ s.replace = proc[p].replace
  PROVE  StoreInv'
<1> DEFINE w == proc[p]
           P == w.place
<1>1. WorkOK(disk, runs, w) /\ (w.phase \in Carrying => CarryingOK(runs, w))
  BY ProcessFacts
<1>2. CarryingOK(runs, w)
  BY <1>1 DEF Carrying
<1>3. P \in Places /\ P \in LivePlaces /\ P \notin OfflinePlaces
  BY <1>2, PlaceOfRun
<1>4. disk'[P] = d
  BY <1>3 DEF StoreInv
<1>5. PlaceOK(runs, P, d)
  BY <1>3 DEF PlaceOK, OneBy
<1>6. WorkOK(disk', runs, s) /\ (s.phase \in AtWork => s.place = P)
  <2>1. CASE s = Idle
    BY <2>1, IdleOK DEF AtWork, Finishing
  <2>2. CASE /\ s.phase \in Finishing
             /\ s.phase \in {"hashing", "listing"} => runs[w.run].kind = "rebuild"
             /\ s.run = w.run /\ s.place = w.place /\ s.replace = w.replace
    <3>1. AtWorkOK(disk', runs, s)
      BY <1>4, <2>2 DEF AtWorkOK
    <3>2. CarryingOK(runs, s)
      BY <1>2, <2>2 DEF CarryingOK, Finishing, Offline
    <3>3. s.phase \notin {"asking", "removing", "writing"} /\ s.phase \in AtWork
      BY <2>2 DEF Finishing, AtWork
    <3>4. s.replace => TRUE \in Replacing
      BY <1>1, <2>2 DEF WorkOK, AtWork, Finishing
    <3> QED BY <2>2, <3>1, <3>2, <3>3, <3>4 DEF WorkOK
  <2> QED BY <2>1, <2>2
<1> QED BY <1>3, <1>5, <1>6, DiskStep

\* The sums of a manifest are those of the files that are there.
LEMMA WriteManifestInv == \A p \in Processes : StoreInv /\ WriteManifest(p) => StoreInv'
<1> SUFFICES ASSUME NEW p \in Processes, StoreInv, WriteManifest(p) PROVE StoreInv'
  OBVIOUS
<1> DEFINE w == proc[p]
           P == w.place
           n == w.run
           manifest == Manifest(P, n)
           d == With(disk[P], "manifest", manifest)
           s == [w EXCEPT !.phase = "inspecting"]
<1>1. /\ WorkOK(disk, runs, w) /\ w \in States /\ RunsOK(runs)
      /\ w.phase \in Carrying => CarryingOK(runs, w)
  BY ProcessFacts
<1>2. w.phase = "writing" /\ w.todo = <<>>
  BY DEF WriteManifest
<1>3. \/ Raises(p)
      \/ /\ ToSet(Artifacts(n)) \subseteq DOMAIN disk[P].files
         /\ disk' = [disk EXCEPT ![P] = d]
         /\ IF runs[n].kind = "offline" THEN Becomes(p, Idle) ELSE Becomes(p, s)
         /\ runs' = runs
  BY DEF WriteManifest, Moves
<1>4. CASE Raises(p)
  BY <1>4, RaisesInv DEF Raises
<1>5. CASE /\ ToSet(Artifacts(n)) \subseteq DOMAIN disk[P].files
           /\ disk' = [disk EXCEPT ![P] = d]
           /\ IF runs[n].kind = "offline" THEN Becomes(p, Idle) ELSE Becomes(p, s)
           /\ runs' = runs
  <2>1. CarryingOK(runs, w) /\ AtWorkOK(disk, runs, w) /\ WritingOK(disk, runs, w)
    BY <1>1, <1>2 DEF WorkOK, Carrying, AtWork
  <2>2. P \in Places /\ (P \in LivePlaces <=> ~Offline(runs, w)) /\ n \in 1 .. Len(runs)
    BY <2>1, PlaceOfRun DEF CarryingOK
  <2>3. PlaceOK(runs, P, disk[P])
    BY <2>2 DEF StoreInv
  <2> DEFINE files == ToSet(ArtifactsIn(runs, n))
  <2>4. /\ manifest.by = n /\ manifest.required = RequiredIn(runs, n)
        /\ manifest.sums = [f \in files |-> disk[P].files[f]]
        /\ manifest \in [by : {n}, required : {RequiredIn(runs, n)}, sums : {manifest.sums}]
    BY InThisState DEF Manifest, Content
  <2>5. ToSet(ArtifactsIn(runs, n)) \subseteq Named
    BY ArtifactNames
  <2>6. RequiredIn(runs, n) \subseteq Files
    BY <2>5 DEF RequiredIn, Named, Files
  <2> HIDE DEF manifest
  <2>7. FileOK(runs, "manifest", manifest)
    BY <2>2, <2>4, <2>6 DEF FileOK, Named
  <2>8. /\ DirOK(runs, d) /\ d.exists
        /\ DOMAIN d.files = DOMAIN disk[P].files \cup {"manifest"}
        /\ d.files["manifest"] = manifest
        /\ \A f \in DOMAIN disk[P].files : f # "manifest" => d.files[f] = disk[P].files[f]
    BY <2>3, <2>7, WithOK DEF PlaceOK, Files
  <2> HIDE DEF d
  <2>9. s \in States /\ s.phase = "inspecting" /\ s.run = n /\ s.place = P /\ s.replace = w.replace
    BY <1>1 DEF States, Carrying, AtWork, Finishing
  <2> HIDE DEF s
  <2>10. w.phase \in AtWork
    BY <1>2 DEF AtWork
  <2>11. CASE ~Offline(runs, w)
    <3>1. \A f \in DOMAIN d.files : d.files[f].by = n
      BY <2>1, <2>4, <2>8, <2>11 DEF AtWorkOK
    <3>2. Becomes(p, s)
      BY <1>5, <2>11 DEF Offline
    <3>3. s.phase \in Finishing /\ s.phase \notin {"hashing", "listing"}
      BY <2>9 DEF Finishing
    <3> QED BY <1>5, <2>8, <2>9, <2>10, <2>11, <3>1, <3>2, <3>3, OwnDirectory
  <2>12. CASE Offline(runs, w)
    <3>1. files = OfflineFiles
      BY <1>1, <2>2, <2>12, ArtifactNames DEF RunsOK, Offline
    <3>2. OfflineOK(disk[P]) /\ P \notin LivePlaces
      BY <2>1, <2>2, <2>3, <2>12, PlaceOfRun DEF PlaceOK
    <3>3. files \subseteq DOMAIN disk[P].files
      BY <1>5, InThisState
    <3>4. ASSUME Alone PROVE \A f \in files : disk[P].files[f].by = n
      <4>1. ToSet(w.todo) = {}
        BY <1>2 DEF ToSet
      <4> QED BY <2>1, <3>3, <3>4, <4>1 DEF WritingOK
    <3> HIDE DEF files
    <3>5. DOMAIN manifest.sums = OfflineFiles
      BY <2>4, <3>1
    <3>6. Alone => \A f \in OfflineFiles : manifest.sums[f].by = manifest.by
      BY <2>4, <3>1, <3>4
    <3>7. OfflineOK(d)
      BY <2>8, <3>2, <3>5, <3>6 DEF OfflineOK
    <3>8. PlaceOK(runs, P, d)
      BY <2>8, <3>2, <3>7 DEF PlaceOK
    <3>9. Becomes(p, Idle)
      BY <1>5, <2>12 DEF Offline
    <3>10. WorkOK(disk', runs, Idle) /\ Idle.phase \notin AtWork
      BY IdleOK DEF AtWork, Finishing
    <3> QED BY <1>5, <2>2, <2>8, <3>2, <3>8, <3>9, <3>10, DiskStep
  <2> QED BY <2>11, <2>12
<1> QED BY <1>3, <1>4, <1>5

\* What a process that has written finds in its directory.
LEMMA FinishingFacts ==
  ASSUME StoreInv, NEW p \in Processes, proc[p].phase \in Finishing
  PROVE  /\ proc[p].phase \in AtWork /\ ~Offline(runs, proc[p])
         /\ proc[p].run \in 1 .. Len(runs)
         /\ proc[p].place \in Places /\ proc[p].place \in LivePlaces
         /\ DirOK(runs, disk[proc[p].place]) /\ disk[proc[p].place].exists
         /\ \A f \in DOMAIN disk[proc[p].place].files :
              disk[proc[p].place].files[f].by = proc[p].run
<1> DEFINE w == proc[p]
<1>1. WorkOK(disk, runs, w) /\ (w.phase \in Carrying => CarryingOK(runs, w))
  BY ProcessFacts
<1>2. w.phase \in AtWork
  BY DEF AtWork
<1>3. CarryingOK(runs, w) /\ AtWorkOK(disk, runs, w)
  BY <1>1, <1>2 DEF WorkOK, Carrying
<1>4. ~Offline(runs, w)
  BY <1>3 DEF CarryingOK, Finishing
<1>5. w.run \in 1 .. Len(runs) /\ w.place \in Places /\ w.place \in LivePlaces
  BY <1>3, <1>4, PlaceOfRun DEF CarryingOK
<1>6. DirOK(runs, disk[w.place])
  BY <1>5 DEF StoreInv, PlaceOK
<1> QED BY <1>2, <1>3, <1>4, <1>5, <1>6 DEF AtWorkOK

\* A file whose content changes, but not the run it was written for.
LEMMA EditInv ==
  ASSUME StoreInv, NEW p \in Processes, proc[p].phase \in Finishing,
         NEW file \in DOMAIN disk[proc[p].place].files, NEW c, FileOK(runs, file, c),
         c.by = disk[proc[p].place].files[file].by,
         disk' = [disk EXCEPT ![proc[p].place] = Edited(@, file, c)], runs' = runs,
         NEW s \in States, Becomes(p, s),
         \/ s = Idle
         \/ /\ s.phase \in Finishing /\ s.phase \notin {"hashing", "listing"}
            /\ s.run = proc[p].run /\ s.place = proc[p].place /\ s.replace = proc[p].replace
  PROVE  StoreInv'
<1> DEFINE dir == disk[proc[p].place]
           d   == Edited(dir, file, c)
<1>1. DirOK(runs, dir) /\ dir.exists /\ \A f \in DOMAIN dir.files : dir.files[f].by = proc[p].run
  BY FinishingFacts
<1>2. proc[p].phase \in AtWork /\ ~Offline(runs, proc[p])
  BY FinishingFacts
<1>3. /\ DirOK(runs, d)
      /\ d.exists = dir.exists
      /\ DOMAIN d.files = DOMAIN dir.files
      /\ d.files[file] = c
      /\ \A f \in DOMAIN dir.files : f # file => d.files[f] = dir.files[f]
  <2>1. file \in DOMAIN dir.files /\ FileOK(runs, file, c)
    OBVIOUS
  <2> HIDE DEF dir
  <2>2. DirOK(runs, d)
    BY <1>1, <2>1, ReplacedOK
  <2>3. d.exists = dir.exists
    BY <1>1, <2>1, ReplacedOK
  <2>6. DOMAIN d.files = DOMAIN dir.files
    BY <1>1, <2>1, ReplacedOK
  <2>4. d.files[file] = c
    BY <1>1, <2>1, ReplacedOK
  <2>5. \A f \in DOMAIN dir.files : f # file => d.files[f] = dir.files[f]
    BY <1>1, <2>1, ReplacedOK
  <2> QED BY <2>2, <2>3, <2>4, <2>5, <2>6
<1> HIDE DEF d
<1>4. \A f \in DOMAIN d.files : d.files[f].by = proc[p].run
  BY <1>1, <1>3
<1>5. d.exists
  BY <1>1, <1>3
<1>6. disk' = [disk EXCEPT ![proc[p].place] = d]
  BY DEF d
<1> QED BY <1>2, <1>3, <1>4, <1>5, <1>6, OwnDirectory

\* A summary is marked as failed.
LEMMA MarkSummaryInv == \A p \in Processes : StoreInv /\ MarkSummary(p) => StoreInv'
<1> SUFFICES ASSUME NEW p \in Processes, StoreInv, MarkSummary(p) PROVE StoreInv'
  OBVIOUS
<1> DEFINE w   == proc[p]
           P   == w.place
           dir == disk[P]
           c   == [dir.files["summary"] EXCEPT !.marked = TRUE]
           d   == Edited(dir, "summary", c)
           s   == [w EXCEPT !.phase = "resumming"]
<1>1. w.phase \in Finishing
  BY DEF MarkSummary, Finishing
<1>2. \/ Raises(p)
      \/ /\ "summary" \in DOMAIN dir.files
         /\ disk' = [disk EXCEPT ![P] = d]
         /\ Becomes(p, s)
         /\ runs' = runs
  BY DEF MarkSummary, Moves, Has, Edited
<1>3. CASE Raises(p)
  BY <1>3, RaisesInv DEF Raises
<1>4. CASE /\ "summary" \in DOMAIN dir.files
           /\ disk' = [disk EXCEPT ![P] = d]
           /\ Becomes(p, s)
           /\ runs' = runs
  <2>1. DirOK(runs, dir) /\ w \in States
    BY <1>1, FinishingFacts, ProcessFacts
  <2>2. dir.files["summary"] \in [by : 1 .. Len(runs), marked : BOOLEAN]
    BY <1>4, <2>1 DEF DirOK, FileOK, Named
  <2>3. c.by = dir.files["summary"].by /\ c \in [by : 1 .. Len(runs), marked : BOOLEAN]
    BY <2>2
  <2> HIDE DEF c
  <2>4. FileOK(runs, "summary", c)
    BY <2>3 DEF FileOK
  <2>5. /\ s \in States /\ s.phase = "resumming" /\ s.run = w.run /\ s.place = w.place
        /\ s.replace = w.replace
    BY <2>1 DEF States, Carrying, AtWork, Finishing
  <2> HIDE DEF s
  <2>6. s.phase \in Finishing /\ s.phase \notin {"hashing", "listing"}
    BY <2>5 DEF Finishing
  <2> QED BY <1>1, <1>4, <2>3, <2>4, <2>5, <2>6, EditInv
<1> QED BY <1>2, <1>3, <1>4

\* The sum of the summary is brought up to date.
LEMMA MarkManifestInv == \A p \in Processes : StoreInv /\ MarkManifest(p) => StoreInv'
<1> SUFFICES ASSUME NEW p \in Processes, StoreInv, MarkManifest(p) PROVE StoreInv'
  OBVIOUS
<1> DEFINE w    == proc[p]
           P    == w.place
           dir  == disk[P]
           old  == dir.files["manifest"]
           sums == ("summary" :> Content(P, "summary")) @@ old.sums
           c    == [old EXCEPT !.sums = sums]
           d    == Edited(dir, "manifest", c)
<1>1. w.phase \in Finishing
  BY DEF MarkManifest, Finishing
<1>2. \/ Raises(p)
      \/ /\ "manifest" \in DOMAIN dir.files
         /\ disk' = [disk EXCEPT ![P] = d]
         /\ Becomes(p, Idle)
         /\ runs' = runs
  BY DEF MarkManifest, Edited
<1>3. CASE Raises(p)
  BY <1>3, RaisesInv DEF Raises
<1>4. CASE /\ "manifest" \in DOMAIN dir.files
           /\ disk' = [disk EXCEPT ![P] = d]
           /\ Becomes(p, Idle)
           /\ runs' = runs
  <2>1. DirOK(runs, dir) /\ Idle \in States
    BY <1>1, FinishingFacts, IdleOK
  <2>2. FileOK(runs, "manifest", old)
    BY <1>4, <2>1 DEF DirOK
  <2>3. /\ old \in [by : 1 .. Len(runs), required : SUBSET Files, sums : {old.sums}]
        /\ RequiredIn(runs, old.by) \subseteq old.required
    BY <2>2 DEF FileOK
  <2> HIDE DEF sums, old
  <2>4. /\ c.by = old.by /\ c.required = old.required
        /\ c \in [by : 1 .. Len(runs), required : SUBSET Files, sums : {c.sums}]
    BY <2>3
  <2> HIDE DEF c
  <2>5. FileOK(runs, "manifest", c)
    BY <2>3, <2>4 DEF FileOK, Named
  <2> QED BY <1>1, <1>4, <2>1, <2>4, <2>5, EditInv DEF old
<1> QED BY <1>2, <1>3, <1>4

\* The metadata of a rebuild are listed.
LEMMA ListMetadataInv == \A p \in Processes : StoreInv /\ ListMetadata(p) => StoreInv'
<1> SUFFICES ASSUME NEW p \in Processes, StoreInv, ListMetadata(p) PROVE StoreInv'
  OBVIOUS
<1> DEFINE w    == proc[p]
           P    == w.place
           dir  == disk[P]
           old  == Content(P, "manifest")
           sums == ("metadata" :> Content(P, "metadata")) @@ old.sums
           c    == [old EXCEPT !.required = old.required \cup {"metadata"}, !.sums = sums]
           d    == With(dir, "manifest", c)
<1>1. w.phase \in Finishing
  BY DEF ListMetadata, Finishing
<1>2. \/ Raises(p)
      \/ /\ "manifest" \in DOMAIN dir.files
         /\ disk' = [disk EXCEPT ![P] = d]
         /\ Becomes(p, Idle)
         /\ runs' = runs
  BY DEF ListMetadata
<1>3. CASE Raises(p)
  BY <1>3, RaisesInv DEF Raises
<1>4. CASE /\ "manifest" \in DOMAIN dir.files
           /\ disk' = [disk EXCEPT ![P] = d]
           /\ Becomes(p, Idle)
           /\ runs' = runs
  <2>1. /\ w.phase \in AtWork /\ ~Offline(runs, w)
        /\ DirOK(runs, dir) /\ \A f \in DOMAIN dir.files : dir.files[f].by = w.run
    BY <1>1, FinishingFacts
  <2>2. FileOK(runs, "manifest", old) /\ old.by = w.run
    BY <1>4, <2>1 DEF DirOK, Content
  <2>3. /\ old \in [by : 1 .. Len(runs), required : SUBSET Files, sums : {old.sums}]
        /\ RequiredIn(runs, old.by) \subseteq old.required
    BY <2>2 DEF FileOK
  <2> HIDE DEF sums, old
  <2>4. /\ c.by = old.by /\ c.required = old.required \cup {"metadata"}
        /\ c \in [by : 1 .. Len(runs), required : SUBSET Files, sums : {c.sums}]
    BY <2>3 DEF Files
  <2> HIDE DEF c
  <2>5. FileOK(runs, "manifest", c)
    BY <2>3, <2>4 DEF FileOK, Named
  <2>6. /\ DirOK(runs, d) /\ d.exists
        /\ DOMAIN d.files = DOMAIN dir.files \cup {"manifest"} /\ d.files["manifest"] = c
        /\ \A f \in DOMAIN dir.files : f # "manifest" => d.files[f] = dir.files[f]
    BY <2>1, <2>5, WithOK DEF Files
  <2> HIDE DEF d
  <2>7. \A f \in DOMAIN d.files : d.files[f].by = w.run
    BY <2>1, <2>2, <2>4, <2>6
  <2> QED BY <1>4, <2>1, <2>6, <2>7, IdleOK, OwnDirectory
<1> QED BY <1>2, <1>3, <1>4

\* The hashes of the source are recorded.
LEMMA HashSourceInv == \A p \in Processes : StoreInv /\ HashSource(p) => StoreInv'
<1> SUFFICES ASSUME NEW p \in Processes, StoreInv, HashSource(p) PROVE StoreInv'
  OBVIOUS
<1> DEFINE w      == proc[p]
           P      == w.place
           dir    == disk[P]
           from   == disk[w.source]
           hashed == {from.files[f].by : f \in DOMAIN from.files}
           c      == [by |-> w.run, hashed |-> hashed]
           d      == With(dir, "metadata", c)
           s      == [w EXCEPT !.phase = "listing"]
<1>1. w.phase = "hashing" /\ w.phase \in Finishing
  BY DEF HashSource, Finishing
<1>2. disk' = [disk EXCEPT ![P] = d] /\ Becomes(p, s) /\ runs' = runs
  BY DEF HashSource, Moves
<1>3. /\ w.phase \in AtWork /\ ~Offline(runs, w) /\ w.run \in 1 .. Len(runs)
      /\ DirOK(runs, dir) /\ \A f \in DOMAIN dir.files : dir.files[f].by = w.run
  BY <1>1, FinishingFacts
<1>4. w \in States /\ CarryingOK(runs, w)
  BY <1>1, <1>3, ProcessFacts DEF Carrying
<1>5. runs[w.run].kind = "rebuild"
  BY <1>1, <1>4 DEF CarryingOK
<1> HIDE DEF hashed
<1>6. c.by = w.run /\ FileOK(runs, "metadata", c)
  BY <1>3 DEF FileOK, Named
<1> HIDE DEF c
<1>7. /\ DirOK(runs, d) /\ d.exists
      /\ DOMAIN d.files = DOMAIN dir.files \cup {"metadata"} /\ d.files["metadata"] = c
      /\ \A f \in DOMAIN dir.files : f # "metadata" => d.files[f] = dir.files[f]
  BY <1>3, <1>6, WithOK DEF Files
<1> HIDE DEF d
<1>8. \A f \in DOMAIN d.files : d.files[f].by = w.run
  BY <1>3, <1>6, <1>7
<1>9. /\ s \in States /\ s.phase = "listing" /\ s.run = w.run /\ s.place = w.place
      /\ s.replace = w.replace
  BY <1>4 DEF States, Carrying, AtWork, Finishing
<1> HIDE DEF s
<1>10. s.phase \in Finishing
  BY <1>9 DEF Finishing
<1> QED BY <1>2, <1>3, <1>5, <1>7, <1>8, <1>9, <1>10, OwnDirectory

-----------------------------------------------------------------------------
(* The invariant *)

\* Nothing is there at first.
LEMMA InitStoreInv == Init => StoreInv
<1> SUFFICES ASSUME Init PROVE StoreInv
  OBVIOUS
<1>1. runs = <<>> /\ disk = [place \in Places |-> Absent] /\ proc = [p \in Processes |-> Idle]
  BY DEF Init
<1>2. runs \in Seq(Made) /\ Len(runs) = 0
  BY <1>1
<1>3. RunsOK(runs)
  BY <1>2 DEF RunsOK
<1>4. Absent.files = <<>> /\ DOMAIN Absent.files = {} /\ Absent.exists = FALSE
  BY DEF Absent
<1>5. DirOK(runs, Absent)
  <2>1. Absent \in [exists : BOOLEAN, files : {Absent.files}]
    BY DEF Absent
  <2>2. Absent.files \in [DOMAIN Absent.files -> {Absent.files[f] : f \in DOMAIN Absent.files}]
    BY <1>4
  <2> QED BY <1>4, <2>1, <2>2 DEF DirOK
<1>6. \A place \in Places : PlaceOK(runs, place, disk[place])
  BY <1>1, <1>4, <1>5 DEF PlaceOK, OneBy, OfflineOK
<1>7. proc \in [Processes -> States] /\ \A p \in Processes : proc[p].phase \notin AtWork
  BY <1>1, IdleOK DEF AtWork, Finishing
<1>8. \A p \in Processes : WorkOK(disk, runs, proc[p])
  BY <1>1, IdleOK
<1>9. Exclusive(proc)
  BY <1>7 DEF Exclusive
<1>10. disk \in [Places -> {disk[place] : place \in Places}]
  BY <1>1
<1> QED BY <1>3, <1>6, <1>7, <1>8, <1>9, <1>10 DEF StoreInv

\* Every step keeps the invariant.
LEMMA StepStoreInv ==
  ASSUME Undisturbed, StoreInv, NEW p \in Processes, Step(p)
  PROVE  StoreInv'
<1>1. CASE StartLive(p)       BY <1>1, StartLiveInv
<1>2. CASE Conclude(p)        BY <1>2, ConcludeInv
<1>3. CASE StartRebuild(p)    BY <1>3, StartRebuildInv
<1>4. CASE Land(p)            BY <1>4, LandInv
<1>5. CASE RemoveFile(p)      BY <1>5, RemoveFileInv
<1>6. CASE RemoveDirectory(p) BY <1>6, RemoveDirectoryInv
<1>7. CASE Make(p)            BY <1>7, MakeInv
<1>8. CASE WriteArtifact(p)   BY <1>8, WriteArtifactInv
<1>9. CASE WriteManifest(p)   BY <1>9, WriteManifestInv
<1>10. CASE Inspect(p)        BY <1>10, InspectInv
<1>11. CASE MarkSummary(p)    BY <1>11, MarkSummaryInv
<1>12. CASE MarkManifest(p)   BY <1>12, MarkManifestInv
<1>13. CASE HashSource(p)     BY <1>13, HashSourceInv
<1>14. CASE ListMetadata(p)   BY <1>14, ListMetadataInv
<1>15. CASE StartOffline(p)   BY <1>15, StartOfflineInv
<1>16. CASE OpenOffline(p)    BY <1>16, OpenOfflineInv
<1>17. CASE Compare(p)        BY <1>17, CompareInv
<1>18. CASE WriteReport(p) \/ Kill(p)
  BY <1>18, RaisesInv DEF WriteReport, Kill, Raises
<1> QED BY <1>1, <1>2, <1>3, <1>4, <1>5, <1>6, <1>7, <1>8, <1>9, <1>10, <1>11, <1>12,
           <1>13, <1>14, <1>15, <1>16, <1>17, <1>18 DEF Step

\* Steps that change nothing keep it too.
LEMMA StutterStoreInv == StoreInv /\ UNCHANGED vars => StoreInv'
BY DEF StoreInv, vars

\* Undisturbed, directories, runs and processes stay as the invariant says.
LEMMA StoreInvariant ==
  ASSUME Undisturbed
  PROVE  Spec => []StoreInv
<1>1. StoreInv /\ [Next]_vars => StoreInv'
  BY StepStoreInv, StutterStoreInv DEF Next
<1> QED BY <1>1, InitStoreInv, PTL DEF Spec

-----------------------------------------------------------------------------
(* What is accepted, and what is compared *)

\* One process at a time, or nobody who replaces and no evaluate-offline, which
\* writes onto whatever is there without being asked to.
OneWriter == Alone \/ (TRUE \notin Replacing /\ OfflinePlaces = {})

\* The files of an accepted directory are those of one run.
LEMMA AcceptedFiles ==
  ASSUME StoreInv, OneWriter, NEW place \in Places, Accepted(place)
  PROVE  /\ "manifest" \in DOMAIN disk[place].files
         /\ RequiredIn(runs, Content(place, "manifest").by) \subseteq DOMAIN disk[place].files
         /\ \A f \in DOMAIN disk[place].files :
              Content(place, f).by = Content(place, "manifest").by
<1> DEFINE d == disk[place]
           m == d.files["manifest"]
<1>1. /\ "manifest" \in DOMAIN d.files
      /\ m.required \subseteq DOMAIN d.files
      /\ \A f \in DOMAIN m.sums : f \in DOMAIN d.files => d.files[f] = m.sums[f]
  BY DEF Accepted, Has, Content
<1>2. PlaceOK(runs, place, d)
  BY DEF StoreInv
<1>3. FileOK(runs, "manifest", m)
  BY <1>1, <1>2 DEF PlaceOK, DirOK
<1>4. RequiredIn(runs, m.by) \subseteq DOMAIN d.files
  BY <1>1, <1>3 DEF FileOK
<1>5. ASSUME NEW f \in DOMAIN d.files PROVE d.files[f].by = m.by
  <2>1. CASE place \in LivePlaces
    BY <1>1, <1>2, <2>1 DEF PlaceOK, OneBy
  <2>2. CASE place \in OfflinePlaces
    <3>1. OfflineOK(d) /\ Alone
      BY <1>2, <2>2 DEF PlaceOK, OneWriter
    <3>2. DOMAIN m.sums = OfflineFiles /\ \A g \in OfflineFiles : m.sums[g].by = m.by
      BY <1>1, <3>1 DEF OfflineOK
    <3>3. f \in OfflineFiles \/ f = "manifest"
      BY <3>1 DEF OfflineOK
    <3> QED BY <1>1, <3>2, <3>3
  <2> QED BY <2>1, <2>2 DEF Places
<1> QED BY <1>1, <1>4, <1>5 DEF Content

\* What the inspector accepts is of one run, and all that is required of it is
\* there: wherever a writer was killed, whatever else it overwrote, and although
\* the only evidence is a manifest that was written file by file beside the rest.
\* The disagreement records are never required: nothing is said of their presence,
\* only that those that are there are of the same run.
THEOREM AcceptedDirectoriesAreOneRun ==
  ASSUME OneWriter
  PROVE  Spec => []AcceptedIsOneRun
<1>1. StoreInv => AcceptedIsOneRun
  BY AcceptedFiles, InThisState DEF AcceptedIsOneRun
<1>2. Undisturbed
  BY DEF OneWriter, Undisturbed
<1> QED BY <1>1, <1>2, StoreInvariant, PTL

\* What a normal comparison accepts was measured: the summary, the records and the
\* evaluation are those of one live run that completed and whose artifacts agree,
\* never of a rebuild or of what a killed process left of two.
THEOREM ComparisonsAreMeasured ==
  ASSUME Undisturbed
  PROVE  Spec => []ComparisonMeasured
<1>1. ASSUME StoreInv, NEW variant \in Variants, NEW place \in LivePlaces,
             Comparable(variant, place)
      PROVE  LET n == Content(place, "summary").by
             IN  /\ runs[n].kind = "variant" /\ runs[n].completed /\ runs[n].sound
                 /\ \A f \in {"config", "records", "evaluation", "manifest"} :
                      Has(place, f) /\ Content(place, f).by = n
  <2> DEFINE d == disk[place]
             n == Content(place, "summary").by
             m == Content(place, "manifest")
  <2>1. /\ {"summary", "manifest"} \subseteq DOMAIN d.files
        /\ m.required \subseteq DOMAIN d.files
        /\ Has(place, "records") => runs[Content(place, "records").by].sound
        /\ Usable(Content(place, "summary"))
    BY <1>1 DEF Comparable, Accepted
  <2>2. PlaceOK(runs, place, d)
    BY <1>1 DEF StoreInv, Places
  <2>3. \A f \in DOMAIN d.files : FileOK(runs, f, d.files[f]) /\ d.files[f].by = n
    BY <2>1, <2>2 DEF PlaceOK, DirOK, OneBy, Content
  <2>4. m.by = n /\ n \in 1 .. Len(runs) /\ RequiredIn(runs, n) \subseteq m.required
    BY <2>1, <2>3 DEF FileOK, Content
  <2>5. RunOK(runs[n])
    BY <1>1, <2>4 DEF StoreInv, RunsOK
  <2>6. runs[n].completed /\ runs[n].kind = "variant"
    BY <2>1, <2>5 DEF Usable, RunOK
  <2>7. {"config", "records", "evaluation"} \subseteq RequiredIn(runs, n)
    BY <2>6, ArtifactNames DEF SummarizedIn
  <2>8. \A f \in {"config", "records", "evaluation", "manifest"} :
          Has(place, f) /\ Content(place, f).by = n
    BY <2>1, <2>3, <2>4, <2>7 DEF Has, Content
  <2>9. runs[n].sound
    BY <2>1, <2>8
  <2> QED BY <2>6, <2>8, <2>9
<1>2. StoreInv => ComparisonMeasured
  BY <1>1 DEF ComparisonMeasured
<1> QED BY <1>2, StoreInvariant, PTL

-----------------------------------------------------------------------------
(* What a single step does to a directory *)

Before(p) == disk[proc[p].place]

SourceHashes(p) ==
  [by |-> proc[p].run,
   hashed |-> {disk[proc[p].source].files[f].by : f \in DOMAIN disk[proc[p].source].files}]

(* Files go, one after the other.                                          *)
Shrinks(p, d) ==
  /\ proc[p].phase = "removing"
  /\ DOMAIN d.files \subseteq DOMAIN Before(p).files
  /\ \A f \in DOMAIN d.files : d.files[f] = Before(p).files[f]

(* Files come, or are written again, for the run of the process.           *)
Grows(p, d) ==
  /\ proc[p].phase \in AtWork \cup {"making", "opening"}
  /\ proc[p].phase = "making" => ~Before(p).exists
  /\ DOMAIN Before(p).files \subseteq DOMAIN d.files
  /\ \A f \in DOMAIN d.files :
       \/ f \in DOMAIN Before(p).files /\ d.files[f].by = Before(p).files[f].by
       \/ proc[p].phase \in AtWork /\ d.files[f].by = proc[p].run
  /\ "metadata" \in DOMAIN d.files =>
       \/ "metadata" \in DOMAIN Before(p).files /\ d.files["metadata"] = Before(p).files["metadata"]
       \/ proc[p].phase = "hashing" /\ d.files["metadata"] = SourceHashes(p)

\* A directory with one file more, or written again.
LEMMA WithFacts ==
  ASSUME NEW dir, NEW file, NEW c
  PROVE  /\ DOMAIN With(dir, file, c).files = DOMAIN dir.files \cup {file}
         /\ With(dir, file, c).files[file] = c
         /\ \A f \in DOMAIN dir.files : f # file => With(dir, file, c).files[f] = dir.files[f]
BY DEF With

\* A file of the process's own run is written.
LEMMA WithGrows ==
  ASSUME NEW p \in Processes, proc[p].phase \in AtWork, proc[p].phase # "making",
         NEW file, NEW c, c.by = proc[p].run,
         file = "metadata" => proc[p].phase = "hashing" /\ c = SourceHashes(p)
  PROVE  Grows(p, With(Before(p), file, c))
<1> DEFINE d == With(Before(p), file, c)
<1>1. /\ DOMAIN d.files = DOMAIN Before(p).files \cup {file}
      /\ d.files[file] = c
      /\ \A f \in DOMAIN Before(p).files : f # file => d.files[f] = Before(p).files[f]
  BY WithFacts
<1> HIDE DEF d
<1>2. Grows(p, d)
  BY <1>1 DEF Grows
<1> QED BY <1>2 DEF d

\* A file is edited, for the run it was written for.
LEMMA EditedGrows ==
  ASSUME StoreInv, NEW p \in Processes, proc[p].phase \in Finishing,
         NEW file \in DOMAIN Before(p).files, file # "metadata",
         NEW c, c.by = Before(p).files[file].by
  PROVE  Grows(p, Edited(Before(p), file, c))
<1> DEFINE dir   == Before(p)
           files == [dir.files EXCEPT ![file] = c]
           d     == [dir EXCEPT !.files = files]
<1>1. DirOK(runs, dir) /\ proc[p].phase \in AtWork
  BY FinishingFacts DEF Before
<1>2. /\ dir \in [exists : BOOLEAN, files : {dir.files}]
      /\ dir.files \in [DOMAIN dir.files -> {dir.files[f] : f \in DOMAIN dir.files}]
  BY <1>1 DEF DirOK
<1>3. /\ DOMAIN files = DOMAIN dir.files /\ files[file] = c
      /\ \A f \in DOMAIN dir.files : f # file => files[f] = dir.files[f]
  BY <1>2
<1> HIDE DEF files
<1>4. d.files = files
  BY <1>2
<1>5. d = Edited(dir, file, c)
  BY DEF Edited, files
<1> HIDE DEF d
<1>6. proc[p].phase # "making"
  BY DEF Finishing
<1>7. Grows(p, d)
  BY <1>1, <1>3, <1>4, <1>6 DEF Grows
<1> QED BY <1>5, <1>7

\* An artifact is never the metadata of a rebuild.
LEMMA ArtifactIsNamed ==
  ASSUME StoreInv, NEW p \in Processes, proc[p].phase = "writing", proc[p].todo # <<>>
  PROVE  Head(proc[p].todo) # "metadata"
<1>1. WritingOK(disk, runs, proc[p]) /\ proc[p].todo \in Seq(Files)
  BY DEF StoreInv, WorkOK, States
<1>2. Head(proc[p].todo) \in ToSet(proc[p].todo)
  BY <1>1, HeadAndTail
<1> QED BY <1>1, <1>2, ArtifactNames DEF WritingOK, Named

\* A step changes no directory, or that of its process, of which it removes files
\* or to which it adds files of its run.
LEMMA OneDirectory ==
  ASSUME StoreInv, NEW p \in Processes, Step(p)
  PROVE  \/ disk' = disk
         \/ \E d : disk' = [disk EXCEPT ![proc[p].place] = d] /\ (Shrinks(p, d) \/ Grows(p, d))
<1> DEFINE Changes(d) == disk' = [disk EXCEPT ![proc[p].place] = d]
<1>1. CASE StartLive(p) \/ Conclude(p) \/ StartRebuild(p) \/ Land(p) \/ Inspect(p)
           \/ StartOffline(p) \/ Compare(p) \/ WriteReport(p) \/ Kill(p)
  BY <1>1 DEF StartLive, Conclude, StartRebuild, Land, Inspect, StartOffline, Compare,
              WriteReport, Kill, Raises
<1>2. CASE RemoveFile(p)
  <2>1. PICK file \in proc[p].doomed :
          disk' = disk \/ Changes(Without(Before(p), file))
    BY <1>2 DEF RemoveFile, Raises, Before
  <2> DEFINE d == Without(Before(p), file)
             files == [f \in DOMAIN Before(p).files \ {file} |-> Before(p).files[f]]
  <2>2. CASE disk' = disk
    BY <2>2
  <2>3. CASE Changes(d)
    <3>1. proc[p].phase = "removing"
      BY <1>2 DEF RemoveFile
    <3>2. proc[p].place \in Places
      BY <3>1 DEF StoreInv, WorkOK, Carrying, Heading, CarryingOK, Places
    <3>3. Before(p) \in [exists : BOOLEAN, files : {Before(p).files}]
      BY <3>2 DEF StoreInv, PlaceOK, DirOK, Before
    <3>4. DOMAIN files = DOMAIN Before(p).files \ {file}
          /\ \A f \in DOMAIN files : files[f] = Before(p).files[f]
      OBVIOUS
    <3>5. d.files = files
      BY <3>3 DEF Without
    <3> HIDE DEF d, files
    <3>6. Shrinks(p, d)
      BY <3>1, <3>4, <3>5 DEF Shrinks
    <3> QED BY <2>3, <3>6
  <2> QED BY <2>1, <2>2, <2>3
<1>3. CASE RemoveDirectory(p)
  <2>1. Absent.files = <<>> /\ DOMAIN Absent.files = {}
    BY DEF Absent
  <2>2. Shrinks(p, Absent)
    BY <1>3, <2>1 DEF RemoveDirectory, Shrinks
  <2>3. disk' = disk \/ Changes(Absent)
    BY <1>3 DEF RemoveDirectory, Raises
  <2> QED BY <2>2, <2>3
<1>4. CASE Make(p)
  <2> DEFINE d == EmptyDirectory
  <2>1. disk' = disk \/ (Changes(d) /\ ~Before(p).exists)
    BY <1>4 DEF Make, Raises, Before
  <2>2. CASE Changes(d) /\ ~Before(p).exists
    <3>1. proc[p].phase = "making"
      BY <1>4 DEF Make
    <3>2. proc[p].place \in Places
      BY <3>1 DEF StoreInv, WorkOK, Carrying, Heading, CarryingOK, Places
    <3>3. DOMAIN Before(p).files = {}
      BY <2>2, <3>2 DEF StoreInv, PlaceOK, DirOK, Before
    <3>4. DOMAIN d.files = {}
      BY DEF EmptyDirectory
    <3> HIDE DEF d
    <3>5. Grows(p, d)
      BY <2>2, <3>1, <3>3, <3>4 DEF Grows
    <3> QED BY <2>2, <3>5
  <2> QED BY <2>1, <2>2
<1>5. CASE WriteArtifact(p)
  <2> DEFINE c == Artifact(proc[p].run)
             d == With(Before(p), Head(proc[p].todo), c)
  <2>1. proc[p].phase = "writing" /\ proc[p].todo # <<>> /\ Changes(d)
    BY <1>5 DEF WriteArtifact, Before
  <2>2. c.by = proc[p].run /\ proc[p].phase \in AtWork
    BY <2>1 DEF Artifact, AtWork
  <2> HIDE DEF c
  <2>3. Grows(p, d)
    BY <2>1, <2>2, ArtifactIsNamed, WithGrows
  <2> QED BY <2>1, <2>3
<1>6. CASE WriteManifest(p)
  <2> DEFINE c == Manifest(proc[p].place, proc[p].run)
             d == With(Before(p), "manifest", c)
  <2>1. proc[p].phase = "writing" /\ (disk' = disk \/ Changes(d))
    BY <1>6 DEF WriteManifest, Before, Raises
  <2>2. c.by = proc[p].run /\ proc[p].phase \in AtWork
    BY <2>1 DEF Manifest, AtWork
  <2> HIDE DEF c
  <2>3. Grows(p, d)
    BY <2>1, <2>2, WithGrows
  <2> QED BY <2>1, <2>3
<1>7. CASE HashSource(p)
  <2> DEFINE c == SourceHashes(p)
             d == With(Before(p), "metadata", c)
  <2>1. proc[p].phase = "hashing" /\ Changes(d)
    BY <1>7 DEF HashSource, Before, SourceHashes
  <2>2. c.by = proc[p].run /\ proc[p].phase \in AtWork
    BY <2>1 DEF SourceHashes, AtWork, Finishing
  <2> HIDE DEF c
  <2>3. Grows(p, d)
    BY <2>1, <2>2, WithGrows DEF c
  <2> QED BY <2>1, <2>3
<1>8. CASE ListMetadata(p)
  <2> DEFINE old == Content(proc[p].place, "manifest")
             c   == [old EXCEPT !.required = old.required \cup {"metadata"},
                       !.sums = ("metadata" :> Content(proc[p].place, "metadata")) @@ old.sums]
             d   == With(Before(p), "manifest", c)
  <2>1. proc[p].phase = "listing" /\ proc[p].phase \in Finishing
    BY <1>8 DEF ListMetadata, Finishing
  <2>2. disk' = disk \/ ("manifest" \in DOMAIN Before(p).files /\ Changes(d))
    BY <1>8 DEF ListMetadata, Before, Raises
  <2>3. CASE "manifest" \in DOMAIN Before(p).files /\ Changes(d)
    <3>1. FileOK(runs, "manifest", old) /\ old.by = proc[p].run /\ proc[p].phase \in AtWork
      BY <2>1, <2>3, FinishingFacts DEF DirOK, Content, Before
    <3>2. c.by = proc[p].run
      BY <3>1 DEF FileOK
    <3> HIDE DEF c
    <3>3. Grows(p, d)
      BY <2>1, <3>1, <3>2, WithGrows
    <3> QED BY <2>3, <3>3
  <2> QED BY <2>2, <2>3
<1>9. CASE MarkSummary(p)
  <2> DEFINE c == [Before(p).files["summary"] EXCEPT !.marked = TRUE]
             d == Edited(Before(p), "summary", c)
  <2>1. proc[p].phase \in Finishing
    BY <1>9 DEF MarkSummary, Finishing
  <2>2. disk' = disk \/ ("summary" \in DOMAIN Before(p).files /\ Changes(d))
    BY <1>9 DEF MarkSummary, Raises, Has, Before, Edited
  <2>3. CASE "summary" \in DOMAIN Before(p).files /\ Changes(d)
    <3>1. FileOK(runs, "summary", Before(p).files["summary"])
      BY <2>1, <2>3, FinishingFacts DEF DirOK, Before
    <3>2. c.by = Before(p).files["summary"].by
      BY <3>1 DEF FileOK, Named
    <3> HIDE DEF c
    <3>3. Grows(p, d)
      BY <2>1, <2>3, <3>2, EditedGrows
    <3> QED BY <2>3, <3>3
  <2> QED BY <2>2, <2>3
<1>10. CASE MarkManifest(p)
  <2> DEFINE old == Before(p).files["manifest"]
             c   == [old EXCEPT
                       !.sums = ("summary" :> Content(proc[p].place, "summary")) @@ old.sums]
             d   == Edited(Before(p), "manifest", c)
  <2>1. proc[p].phase \in Finishing
    BY <1>10 DEF MarkManifest, Finishing
  <2>2. disk' = disk \/ ("manifest" \in DOMAIN Before(p).files /\ Changes(d))
    BY <1>10 DEF MarkManifest, Raises, Before, Edited
  <2>3. CASE "manifest" \in DOMAIN Before(p).files /\ Changes(d)
    <3>1. FileOK(runs, "manifest", old)
      BY <2>1, <2>3, FinishingFacts DEF DirOK, Before
    <3>2. c.by = old.by
      BY <3>1 DEF FileOK
    <3> HIDE DEF c
    <3>3. Grows(p, d)
      BY <2>1, <2>3, <3>2, EditedGrows
    <3> QED BY <2>3, <3>3
  <2> QED BY <2>2, <2>3
<1>11. CASE OpenOffline(p)
  <2> DEFINE d == [Before(p) EXCEPT !.exists = TRUE]
  <2>1. proc[p].phase = "opening" /\ Changes(d)
    BY <1>11 DEF OpenOffline, Before
  <2>2. proc[p].place \in Places
    BY <2>1 DEF StoreInv, WorkOK, Carrying, CarryingOK, Places
  <2>3. Before(p) \in [exists : BOOLEAN, files : {Before(p).files}]
    BY <2>2 DEF StoreInv, PlaceOK, DirOK, Before
  <2>4. d.files = Before(p).files
    BY <2>3
  <2> HIDE DEF d
  <2>5. Grows(p, d)
    BY <2>1, <2>4 DEF Grows
  <2> QED BY <2>1, <2>5
<1> QED BY <1>1, <1>2, <1>3, <1>4, <1>5, <1>6, <1>7, <1>8, <1>9, <1>10, <1>11 DEF Step

\* A process goes on with its run and its places until it is idle, and only the
\* second look at the directory comes before files are removed.
LEMMA GoesOn ==
  ASSUME StoreInv, NEW p \in Processes, Step(p),
         ~Conclude(p), ~StartRebuild(p), ~StartOffline(p)
  PROVE  /\ runs' = runs
         /\ \A q \in Processes : q # p => proc'[q] = proc[q]
         /\ proc'[p].phase \in Carrying =>
              /\ proc[p].phase \in Carrying
              /\ proc'[p].run = proc[p].run /\ proc'[p].source = proc[p].source
              /\ proc'[p].place = proc[p].place
              /\ proc'[p].phase \in {"landing", "removing"} =>
                   proc[p].phase \in {"landing", "removing"}
<1> DEFINE w == proc[p]
           Same(s) == /\ s.run = w.run /\ s.source = w.source /\ s.place = w.place
                      /\ s.phase \in {"landing", "removing"} => w.phase \in {"landing", "removing"}
           Goal == /\ runs' = runs
                   /\ \A q \in Processes : q # p => proc'[q] = proc[q]
                   /\ proc'[p].phase \in Carrying =>
                        /\ w.phase \in Carrying
                        /\ Same(proc'[p])
<1>1. w \in States /\ proc \in [Processes -> States]
  BY DEF StoreInv
<1>2. ASSUME NEW s, Becomes(p, s), runs' = runs,
             s.phase \in Carrying => w.phase \in Carrying /\ Same(s)
      PROVE  Goal
  <2>1. proc'[p] = s /\ \A q \in Processes : q # p => proc'[q] = proc[q]
    BY <1>1, <1>2 DEF Becomes
  <2> HIDE DEF Same, w
  <2> QED BY <1>2, <2>1
<1>3. ASSUME Raises(p) PROVE Goal
  <2>1. Idle.phase \notin Carrying
    BY IdleOK DEF Carrying, Heading, AtWork, Finishing
  <2>2. Becomes(p, Idle) /\ runs' = runs
    BY <1>3 DEF Raises
  <2> HIDE DEF Goal, Same, w
  <2> QED BY <1>2, <2>1, <2>2
<1>4. ASSUME NEW phase, Moves(p, phase), runs' = runs, w.phase \in Carrying,
             phase \notin {"landing", "removing"}
      PROVE  Goal
  <2> DEFINE s == [w EXCEPT !.phase = phase]
  <2>1. s.phase = phase /\ Same(s)
    BY <1>1, <1>4 DEF States
  <2>2. Becomes(p, s)
    BY <1>4 DEF Moves
  <2> HIDE DEF Goal, Same, s
  <2> QED BY <1>2, <1>4, <2>1, <2>2
<1>5. ASSUME Becomes(p, Idle), runs' = runs PROVE Goal
  <2>1. Idle.phase \notin Carrying
    BY IdleOK DEF Carrying, Heading, AtWork, Finishing
  <2> HIDE DEF Goal, Same, w
  <2> QED BY <1>2, <1>5, <2>1
<1>6. ASSUME NEW s, Becomes(p, s), s.phase \in {"asking", "reporting"}, runs' = runs PROVE Goal
  <2>1. s.phase \notin Carrying
    BY <1>6 DEF Carrying, Heading, AtWork, Finishing
  <2> HIDE DEF Goal, Same, w
  <2> QED BY <1>2, <1>6, <2>1
<1> SUFFICES Goal
  OBVIOUS
<1> HIDE DEF Goal
<1>8. CASE StartLive(p)
  <2>1. PICK place \in LivePlaces, replace \in Replacing :
          Becomes(p, [Idle EXCEPT !.phase = "asking", !.place = place, !.replace = replace])
    BY <1>8 DEF StartLive
  <2> DEFINE s == [Idle EXCEPT !.phase = "asking", !.place = place, !.replace = replace]
  <2>2. s.phase = "asking" /\ runs' = runs /\ Becomes(p, s)
    BY <1>8, <2>1, IdleOK DEF StartLive, States
  <2> HIDE DEF s
  <2> QED BY <1>6, <2>2
<1>9. CASE Land(p)
  <2>1. w.phase = "landing" /\ runs' = runs
    BY <1>9 DEF Land
  <2>2. w.phase \in Carrying
    BY <2>1 DEF Carrying, Heading
  <2>3. \/ Moves(p, "making")
        \/ Becomes(p, [w EXCEPT !.phase = "removing", !.doomed = DOMAIN disk[w.place].files])
        \/ Becomes(p, Idle)
    BY <1>9 DEF Land
  <2>4. ASSUME Becomes(p, [w EXCEPT !.phase = "removing", !.doomed = DOMAIN disk[w.place].files])
        PROVE  Goal
    <3> DEFINE s == [w EXCEPT !.phase = "removing", !.doomed = DOMAIN disk[w.place].files]
    <3>1. s.run = w.run /\ s.source = w.source /\ s.place = w.place
      BY <1>1 DEF States
    <3>2. Same(s)
      BY <2>1, <3>1
    <3>3. Becomes(p, s)
      BY <2>4
    <3> HIDE DEF s, Same, w
    <3> QED BY <1>2, <2>1, <2>2, <3>2, <3>3 DEF Goal
  <2> QED BY <1>4, <1>5, <2>1, <2>2, <2>3, <2>4
<1>10. CASE RemoveFile(p)
  <2>1. w.phase = "removing"
    BY <1>10 DEF RemoveFile
  <2>2. PICK file \in w.doomed :
          Raises(p) \/ (Becomes(p, [w EXCEPT !.doomed = @ \ {file}]) /\ runs' = runs)
    BY <1>10 DEF RemoveFile
  <2> DEFINE s == [w EXCEPT !.doomed = @ \ {file}]
  <2>3. s.run = w.run /\ s.source = w.source /\ s.place = w.place
    BY <1>1 DEF States
  <2>4. Same(s) /\ w.phase \in Carrying
    BY <2>1, <2>3 DEF Carrying, Heading
  <2>5. Raises(p) \/ (Becomes(p, s) /\ runs' = runs)
    BY <2>2
  <2> HIDE DEF s, Same, w
  <2> QED BY <1>2, <1>3, <2>4, <2>5 DEF Goal
<1>11. CASE WriteArtifact(p)
  <2>1. w.phase = "writing" /\ runs' = runs /\ Becomes(p, [w EXCEPT !.todo = Tail(@)])
    BY <1>11 DEF WriteArtifact
  <2> DEFINE s == [w EXCEPT !.todo = Tail(@)]
  <2>2. s.run = w.run /\ s.source = w.source /\ s.place = w.place /\ s.phase = "writing"
    BY <1>1, <2>1 DEF States
  <2>3. Same(s) /\ w.phase \in Carrying
    BY <2>1, <2>2 DEF Carrying, AtWork
  <2>4. Becomes(p, s)
    BY <2>1
  <2> HIDE DEF s, Same, w
  <2> QED BY <1>2, <2>1, <2>3, <2>4 DEF Goal
<1>12. CASE Make(p) \/ OpenOffline(p)
  <2>1. w.phase \in {"making", "opening"}
    BY <1>12 DEF Make, OpenOffline
  <2>2. \/ Raises(p)
        \/ Becomes(p, [w EXCEPT !.phase = "writing", !.todo = Artifacts(w.run)]) /\ runs' = runs
    BY <1>12 DEF Make, OpenOffline
  <2> DEFINE s == [w EXCEPT !.phase = "writing", !.todo = Artifacts(w.run)]
  <2>3. s.phase = "writing" /\ s.run = w.run /\ s.source = w.source /\ s.place = w.place
    BY <1>1 DEF States
  <2>4. Same(s) /\ w.phase \in Carrying
    BY <2>1, <2>3 DEF Carrying, Heading
  <2>5. Raises(p) \/ (Becomes(p, s) /\ runs' = runs)
    BY <2>2
  <2> HIDE DEF s, Same, w
  <2> QED BY <1>2, <1>3, <2>4, <2>5 DEF Goal
<1>13. CASE WriteManifest(p) \/ RemoveDirectory(p) \/ Inspect(p) \/ MarkSummary(p) \/ HashSource(p)
  <2>1. w.phase \in Carrying
    BY <1>13 DEF WriteManifest, RemoveDirectory, Inspect, MarkSummary, HashSource,
                 Carrying, Heading, AtWork, Finishing
  <2>2. \/ Raises(p)
        \/ Becomes(p, Idle) /\ runs' = runs
        \/ runs' = runs /\ \E phase \in {"inspecting", "making", "marking", "hashing",
                                         "resumming", "listing"} : Moves(p, phase)
    BY <1>13 DEF WriteManifest, RemoveDirectory, Inspect, MarkSummary, HashSource, Raises
  <2> HIDE DEF w
  <2> QED BY <1>3, <1>4, <1>5, <2>1, <2>2
<1>14. CASE MarkManifest(p) \/ ListMetadata(p) \/ WriteReport(p) \/ Kill(p)
  <2>1. Raises(p) \/ (Becomes(p, Idle) /\ runs' = runs)
    BY <1>14 DEF MarkManifest, ListMetadata, WriteReport, Kill
  <2> QED BY <1>3, <1>5, <2>1
<1>15. CASE Compare(p)
  <2>1. PICK chosen \in [Variants -> LivePlaces], lenient \in BOOLEAN :
          Becomes(p, [Idle EXCEPT
            !.phase = "reporting",
            !.replace = lenient,
            !.rows  = [variant \in Variants |-> Content(chosen[variant], "summary").by],
            !.model = runs[Content(chosen["single_generalist"], "config").by].model])
    BY <1>15 DEF Compare
  <2> DEFINE rows  == [variant \in Variants |-> Content(chosen[variant], "summary").by]
             model == runs[Content(chosen["single_generalist"], "config").by].model
             s == [Idle EXCEPT !.phase = "reporting", !.replace = lenient, !.rows = rows,
                               !.model = model]
  <2>2. Becomes(p, s) /\ runs' = runs
    BY <1>15, <2>1 DEF Compare
  <2> HIDE DEF rows, model
  <2>3. s.phase = "reporting"
    BY IdleOK DEF States
  <2> HIDE DEF s
  <2> QED BY <1>6, <2>2, <2>3
<1> QED BY <1>8, <1>9, <1>10, <1>11, <1>12, <1>13, <1>14, <1>15 DEF Step

-----------------------------------------------------------------------------
(* Nothing is lost *)

\* Without --replace-existing a step takes no artifact away and gives none to
\* another run.
LEMMA FilesStay ==
  ASSUME TRUE \notin Replacing, StoreInv, NEW p \in Processes, Step(p),
         NEW place \in LivePlaces, NEW f \in DOMAIN disk[place].files
  PROVE  f \in DOMAIN disk'[place].files /\ disk'[place].files[f].by = disk[place].files[f].by
<1>1. CASE disk' = disk
  BY <1>1
<1>2. ASSUME NEW d, disk' = [disk EXCEPT ![proc[p].place] = d], Shrinks(p, d) \/ Grows(p, d)
      PROVE  f \in DOMAIN disk'[place].files /\ disk'[place].files[f].by = disk[place].files[f].by
  <2>1. place \in Places /\ disk \in [Places -> {disk[x] : x \in Places}]
    BY DEF StoreInv, Places
  <2>2. CASE place # proc[p].place
    BY <1>2, <2>1, <2>2
  <2>3. CASE place = proc[p].place
    <3>1. disk'[place] = d /\ disk[place] = Before(p)
      BY <1>2, <2>1, <2>3 DEF Before
    <3>2. WorkOK(disk, runs, proc[p])
      BY DEF StoreInv
    <3>3. proc[p].phase # "removing"
      BY <3>2 DEF WorkOK
    <3>4. Grows(p, d)
      BY <1>2, <3>3 DEF Shrinks
    <3>5. ASSUME proc[p].phase \in AtWork PROVE Before(p).files[f].by = proc[p].run
      <4>1. CarryingOK(runs, proc[p]) /\ AtWorkOK(disk, runs, proc[p])
        BY <3>2, <3>5 DEF WorkOK, Carrying
      <4>2. ~Offline(runs, proc[p])
        BY <2>3, <4>1, PlaceOfRun
      <4> QED BY <2>3, <4>1, <4>2 DEF AtWorkOK, Before
    <3> QED BY <3>1, <3>4, <3>5 DEF Grows
  <2> QED BY <2>2, <2>3
<1> QED BY <1>1, <1>2, OneDirectory

\* Unless somebody passes --replace-existing, what is written stays what it is:
\* although a directory is tested before the provider is asked and written long
\* after, two processes that were told the same directory do not mix in it.
THEOREM NothingIsOverwritten ==
  ASSUME TRUE \notin Replacing
  PROVE  Spec => NothingOverwritten
<1> DEFINE Kept == \A place \in LivePlaces : \A f \in DOMAIN disk[place].files :
                     f \in DOMAIN disk'[place].files
                       /\ disk'[place].files[f].by = Content(place, f).by
<1>1. StoreInv /\ [Next]_vars => [Kept]_vars
  BY FilesStay DEF Next, Content
<1>2. Undisturbed
  BY DEF Undisturbed
<1> HIDE DEF Kept
<1>3. Spec => [][Kept]_vars
  BY <1>1, <1>2, StoreInvariant, PTL DEF Spec
<1> QED BY <1>3 DEF Kept, NothingOverwritten

\* What a process that has made a run knows of it.
LEMMA NewRun ==
  ASSUME StoreInv, NEW p \in Processes, Conclude(p) \/ StartRebuild(p) \/ StartOffline(p)
  PROVE  \E one, state :
           /\ MakesRun(p, one, state) /\ state \in States /\ disk' = disk
           /\ one.kind = "rebuild" =>
                /\ state.source \in LivePlaces /\ state.place \in LivePlaces
                /\ disk[state.place].exists => TRUE \in Replacing
                /\ state.place = state.source => InPlace
                /\ "records" \in DOMAIN disk[state.source].files
                /\ one.of = Content(state.source, "records").by
<1>1. CASE Conclude(p)
  <2>1. PICK one \in Outcomes : MakesRun(p, one, [proc[p] EXCEPT !.phase = "landing"])
    BY <1>1 DEF Conclude
  <2> DEFINE state == [proc[p] EXCEPT !.phase = "landing"]
  <2>2. state \in States
    BY DEF StoreInv, States, Carrying, Heading
  <2>3. one.kind # "rebuild" /\ disk' = disk
    BY <1>1, OutcomesAssumption DEF Conclude
  <2> HIDE DEF state
  <2>4. MakesRun(p, one, state)
    BY <2>1 DEF state
  <2> QED BY <2>2, <2>3, <2>4
<1>2. CASE StartOffline(p)
  <2> DEFINE one == [kind |-> "offline", variant |-> "single_generalist", model |-> "simulated",
                     completed |-> FALSE, sound |-> TRUE, handoff |-> FALSE,
                     evaluated |-> TRUE, of |-> 0]
  <2>1. PICK place \in OfflinePlaces :
          MakesRun(p, one, [Idle EXCEPT !.phase = "opening", !.place = place])
    BY <1>2 DEF StartOffline
  <2> DEFINE state == [Idle EXCEPT !.phase = "opening", !.place = place]
  <2>2. state \in States
    BY IdleOK DEF States, Places, Carrying
  <2>3. one.kind # "rebuild" /\ disk' = disk
    BY <1>2 DEF StartOffline
  <2>4. MakesRun(p, one, state)
    BY <2>1
  <2> HIDE DEF one, state
  <2> QED BY <2>2, <2>3, <2>4
<1>3. CASE StartRebuild(p)
  <2>1. PICK source \in LivePlaces, output \in LivePlaces, replace \in Replacing,
             sound \in BOOLEAN, handoff \in BOOLEAN :
          /\ disk[output].exists => replace
          /\ {"records", "config"} \subseteq DOMAIN disk[source].files
          /\ output = source => InPlace
          /\ LET one == Rebuilt(Content(source, "config").by, Content(source, "records").by,
                                sound, handoff)
             IN  /\ handoff => one.variant # "single_generalist"
                 /\ runs[Content(source, "records").by].handoff => handoff
                 /\ MakesRun(p, one, [Idle EXCEPT !.phase = "landing", !.place = output,
                                                  !.replace = replace, !.source = source])
    BY <1>3 DEF StartRebuild
  <2> DEFINE config  == Content(source, "config").by
             records == Content(source, "records").by
             one     == Rebuilt(config, records, sound, handoff)
             state   == [Idle EXCEPT !.phase = "landing", !.place = output,
                                     !.replace = replace, !.source = source]
  <2>2. MakesRun(p, one, state) /\ disk' = disk
    BY <1>3, <2>1 DEF StartRebuild
  <2>3. config \in 1 .. Len(runs)
    <3>1. \A f \in DOMAIN disk[source].files : FileOK(runs, f, disk[source].files[f])
      BY DEF StoreInv, PlaceOK, DirOK, Places
    <3>2. FileOK(runs, "config", Content(source, "config"))
      BY <2>1, <3>1 DEF Content
    <3> QED BY <3>2 DEF FileOK
  <2>4. runs[config] \in Made
    BY <2>3 DEF StoreInv, RunsOK, RunOK
  <2> HIDE DEF config, records
  <2>5. one.of = records
    BY <2>4 DEF Rebuilt, Made
  <2>6. replace \in BOOLEAN /\ (replace => TRUE \in Replacing)
    BY FlagsAssumption
  <2>7. state \in States /\ state.place = output /\ state.source = source
    BY <2>6, IdleOK DEF States, Places, Carrying, Heading
  <2> HIDE DEF one, state
  <2> QED BY <2>1, <2>2, <2>5, <2>6, <2>7 DEF records
<1> QED BY <1>1, <1>2, <1>3

\* The run a process has made is the last, and its own.
LEMMA MakesRunFacts ==
  ASSUME StoreInv, StoreInv', NEW p \in Processes, NEW one, NEW state \in States,
         MakesRun(p, one, state)
  PROVE  /\ Longer(runs, runs') /\ runs'[proc'[p].run] = one
         /\ proc'[p].run = Len(runs) + 1
         /\ proc'[p].place = state.place /\ proc'[p].source = state.source
         /\ \A q \in Processes : q # p => proc'[q] = proc[q]
<1> DEFINE n == Len(runs) + 1
           s == [state EXCEPT !.run = n]
<1>1. runs \in Seq(Made) /\ Len(runs) \in Nat /\ proc \in [Processes -> States]
  BY DEF StoreInv, RunsOK
<1>2. runs' = Append(runs, one) /\ Becomes(p, s)
  BY DEF MakesRun
<1>3. Len(runs') = n /\ runs'[n] = one /\ \A i \in 1 .. Len(runs) : runs'[i] = runs[i]
  <2>1. DOMAIN Append(runs, one) = 1 .. n
    BY <1>1
  <2> QED BY <1>1, <1>2, <2>1
<1>4. Longer(runs, runs')
  BY <1>1, <1>3 DEF Longer
<1>5. s.run = n /\ s.place = state.place /\ s.source = state.source
  BY <1>1 DEF States
<1> HIDE DEF s
<1>6. proc'[p] = s /\ \A q \in Processes : q # p => proc'[q] = proc[q]
  BY <1>1, <1>2 DEF Becomes
<1> QED BY <1>3, <1>4, <1>5, <1>6

(* What a process means to replace is older than what it has.              *)
Newer(p) == \A f \in DOMAIN Before(p).files : Before(p).files[f].by < proc[p].run

Fresh == \A p \in Processes : proc[p].phase \in {"landing", "removing"} => Newer(p)

\* A process alone knows that it replaces an older run.
LEMMA FreshStep ==
  ASSUME Alone, StoreInv, StoreInv', Fresh, NEW p \in Processes, Step(p)
  PROVE  Fresh'
<1> SUFFICES ASSUME proc'[p].phase \in {"landing", "removing"} PROVE Newer(p)'
  BY DEF Fresh, Alone
<1> DEFINE P == proc'[p].place
<1>1. proc'[p].phase \in Carrying
  BY DEF Carrying, Heading
<1>2. P \in Places
  BY <1>1 DEF StoreInv, WorkOK, CarryingOK, Places
<1>3. \A f \in DOMAIN disk[P].files : disk[P].files[f].by \in 1 .. Len(runs)
  BY <1>2 DEF StoreInv, PlaceOK, DirOK, FileOK
<1>4. CASE Conclude(p) \/ StartRebuild(p) \/ StartOffline(p)
  <2>1. disk' = disk /\ proc'[p].run = Len(runs) + 1
    BY <1>4, NewRun, MakesRunFacts
  <2>2. Len(runs) \in Nat
    BY DEF StoreInv, RunsOK
  <2> QED BY <1>3, <2>1, <2>2 DEF Newer, Before
<1>5. CASE ~Conclude(p) /\ ~StartRebuild(p) /\ ~StartOffline(p)
  <2>1. /\ proc'[p].run = proc[p].run /\ P = proc[p].place
        /\ proc[p].phase \in {"landing", "removing"}
    BY <1>1, <1>5, GoesOn
  <2>2. Newer(p)
    BY <2>1 DEF Fresh
  <2>3. CASE disk' = disk
    BY <2>1, <2>2, <2>3 DEF Newer, Before
  <2>4. ASSUME NEW d, disk' = [disk EXCEPT ![proc[p].place] = d], Shrinks(p, d) \/ Grows(p, d)
        PROVE  Newer(p)'
    <3>1. Shrinks(p, d)
      BY <2>1, <2>4 DEF Grows, AtWork, Finishing
    <3>2. disk'[P] = d
      BY <1>2, <2>1, <2>4 DEF StoreInv
    <3> QED BY <2>1, <2>2, <3>1, <3>2 DEF Shrinks, Newer, Before
  <2> QED BY <2>3, <2>4, OneDirectory
<1> QED BY <1>4, <1>5

\* What a step takes away makes room for a later run.
LEMMA RemovalStep ==
  ASSUME Undisturbed, StoreInv, Alone => Fresh, NEW p \in Processes, Step(p),
         NEW place \in Places, NEW f \in DOMAIN disk[place].files \ DOMAIN disk'[place].files
  PROVE  \E q \in Processes :
           /\ proc[q].place = place /\ proc[q].replace
           /\ proc[q].run > Content(place, f).by
<1>1. PICK d : disk' = [disk EXCEPT ![proc[p].place] = d] /\ (Shrinks(p, d) \/ Grows(p, d))
  BY OneDirectory
<1>2. disk \in [Places -> {disk[x] : x \in Places}]
  BY DEF StoreInv
<1>3. place = proc[p].place /\ disk'[place] = d
  BY <1>1, <1>2
<1>4. Shrinks(p, d)
  BY <1>1, <1>3 DEF Grows, Before
<1>5. proc[p].phase = "removing" /\ proc[p].replace
  BY <1>4 DEF Shrinks, StoreInv, WorkOK
<1>6. Newer(p)
  BY <1>5, RemoverAlone DEF Fresh
<1>7. disk[place].files[f].by < proc[p].run
  BY <1>3, <1>6 DEF Newer, Before
<1>8. disk[place].files[f].by \in Nat /\ proc[p].run \in Nat
  <2>1. FileOK(runs, f, disk[place].files[f])
    BY DEF StoreInv, PlaceOK, DirOK
  <2>2. proc[p] \in States
    BY DEF StoreInv
  <2> QED BY <2>1, <2>2 DEF FileOK, States
<1> QED BY <1>3, <1>5, <1>7, <1>8 DEF Content

\* A run is given up for another one only: what disappears makes room for the
\* results of a later run that are already there, so that a run that fails before
\* it has results costs nothing.
THEOREM RunsAreGivenUpForResults ==
  ASSUME Undisturbed
  PROVE  Spec => RemovedForResults
<1> DEFINE Removed == \A place \in Places :
                        \A f \in DOMAIN disk[place].files \ DOMAIN disk'[place].files :
                          \E p \in Processes :
                            /\ proc[p].place = place /\ proc[p].replace
                            /\ proc[p].run > Content(place, f).by
           Inv == Alone => Fresh
<1>1. Init => Inv
  BY IdleOK DEF Init, Fresh
<1>2. StoreInv /\ StoreInv' /\ Inv /\ [Next]_vars => Inv'
  <2> SUFFICES ASSUME StoreInv, StoreInv', Inv, [Next]_vars, Alone PROVE Fresh'
    BY DEF Alone
  <2>1. CASE UNCHANGED vars
    BY <2>1 DEF vars, Fresh, Newer, Before
  <2>2. CASE Next
    BY <2>2, FreshStep DEF Next
  <2> QED BY <2>1, <2>2
<1>3. StoreInv /\ Inv /\ [Next]_vars => [Removed]_vars
  BY RemovalStep DEF Next
<1> HIDE DEF Removed, Inv
<1>4. Spec => [][Removed]_vars
  BY <1>1, <1>2, <1>3, StoreInvariant, PTL DEF Spec
<1> QED BY <1>4 DEF Removed, RemovedForResults

-----------------------------------------------------------------------------
(* The hashes of a rebuild *)

(* A rebuild that is told to write onto its source replaces what it was    *)
(* made from, and so does a live command that overlaps it.                 *)
SourcesStay == (Alone /\ ~InPlace) \/ TRUE \notin Replacing

Rebuilding(rs, s) == s.phase \in Carrying /\ rs[s.run].kind = "rebuild"

(* The source of a rebuild is another directory, and still what was read.  *)
SourceOK(dk, rs, s) ==
  /\ s.source \in LivePlaces /\ s.source # s.place
  /\ "records" \in DOMAIN dk[s.source].files
  /\ \A f \in DOMAIN dk[s.source].files : dk[s.source].files[f].by = rs[s.run].of

HashesOK(rs, d) ==
  "metadata" \in DOMAIN d.files =>
    d.files["metadata"].hashed \subseteq {rs[d.files["metadata"].by].of}

SourcesInv ==
  /\ \A p \in Processes : Rebuilding(runs, proc[p]) => SourceOK(disk, runs, proc[p])
  /\ \A place \in LivePlaces : HashesOK(runs, disk[place])

\* A process that has just read the source of its rebuild.
LEMMA NewSource ==
  ASSUME SourcesStay, StoreInv, StoreInv', NEW p \in Processes,
         Conclude(p) \/ StartRebuild(p) \/ StartOffline(p), Rebuilding(runs', proc'[p])
  PROVE  SourceOK(disk', runs', proc'[p])
<1>1. PICK one, state :
        /\ MakesRun(p, one, state) /\ state \in States /\ disk' = disk
        /\ one.kind = "rebuild" =>
             /\ state.source \in LivePlaces /\ state.place \in LivePlaces
             /\ disk[state.place].exists => TRUE \in Replacing
             /\ state.place = state.source => InPlace
             /\ "records" \in DOMAIN disk[state.source].files
             /\ one.of = Content(state.source, "records").by
  BY NewRun
<1>2. /\ runs'[proc'[p].run] = one
      /\ proc'[p].place = state.place /\ proc'[p].source = state.source
  BY <1>1, MakesRunFacts
<1>3. one.kind = "rebuild"
  BY <1>2 DEF Rebuilding
<1> DEFINE d == disk[state.source]
<1>4. state.source \in LivePlaces /\ "records" \in DOMAIN d.files
      /\ one.of = d.files["records"].by
  BY <1>1, <1>3 DEF Content
<1>5. PlaceOK(runs, state.source, d)
  BY <1>4 DEF StoreInv, Places
<1>6. \A f \in DOMAIN d.files : d.files[f].by = one.of
  BY <1>4, <1>5 DEF PlaceOK, OneBy
<1>7. state.source # state.place
  <2>1. d.exists
    BY <1>4, <1>5 DEF PlaceOK, DirOK
  <2> QED BY <1>1, <1>3, <2>1 DEF SourcesStay
<1> QED BY <1>1, <1>2, <1>4, <1>6, <1>7 DEF SourceOK

\* A source is not disturbed by what any process does to a directory.
LEMMA SourceKept ==
  ASSUME SourcesStay, StoreInv, NEW p \in Processes, Step(p), NEW q \in Processes,
         SourceOK(disk, runs, proc[q]), proc[q].phase \in Carrying
  PROVE  SourceOK(disk', runs, proc[q])
<1> DEFINE source == proc[q].source
           of     == runs[proc[q].run].of
           Still(d) == /\ "records" \in DOMAIN d.files
                       /\ \A f \in DOMAIN d.files : d.files[f].by = of
<1>1. source \in LivePlaces /\ source # proc[q].place /\ Still(disk[source])
  BY DEF SourceOK
<1>2. source \in Places /\ disk \in [Places -> {disk[x] : x \in Places}]
  BY <1>1 DEF StoreInv, Places
<1>3. ASSUME NEW d, disk' = [disk EXCEPT ![proc[p].place] = d], Shrinks(p, d) \/ Grows(p, d)
      PROVE  Still(disk'[source])
  <2>1. CASE source # proc[p].place
    BY <1>1, <1>2, <1>3, <2>1
  <2>2. CASE source = proc[p].place
    <3>1. p # q
      BY <1>1, <2>2
    <3>2. TRUE \notin Replacing
      BY <3>1 DEF SourcesStay, Alone
    <3>3. disk'[source] = d /\ disk[source] = Before(p) /\ Still(Before(p))
      BY <1>1, <1>2, <1>3, <2>2 DEF Before
    <3>4. WorkOK(disk, runs, proc[p])
      BY DEF StoreInv
    <3>5. Grows(p, d)
      BY <1>3, <3>2, <3>4 DEF Shrinks, WorkOK
    <3>6. ASSUME proc[p].phase \in AtWork PROVE proc[p].run = of
      <4>1. CarryingOK(runs, proc[p]) /\ AtWorkOK(disk, runs, proc[p])
        BY <3>4, <3>6 DEF WorkOK, Carrying
      <4>2. ~Offline(runs, proc[p])
        BY <1>1, <2>2, <4>1, PlaceOfRun
      <4>3. Before(p).files["records"].by = proc[p].run
        BY <3>3, <4>1, <4>2 DEF AtWorkOK, Before
      <4> QED BY <3>3, <4>3
    <3> HIDE DEF of
    <3> QED BY <3>3, <3>5, <3>6 DEF Grows
  <2> QED BY <2>1, <2>2
<1>4. Still(disk'[source])
  BY <1>1, <1>3, OneDirectory
<1> QED BY <1>1, <1>4 DEF SourceOK

\* What a rebuild relies on is not disturbed by runs that are made.
LEMMA SourceOfLonger ==
  ASSUME NEW rs, NEW more, Longer(rs, more), NEW dk, NEW s, s.run \in 1 .. Len(rs)
  PROVE  /\ Rebuilding(more, s) <=> Rebuilding(rs, s)
         /\ SourceOK(dk, more, s) <=> SourceOK(dk, rs, s)
BY LongerKeeps DEF Rebuilding, SourceOK

\* Recorded hashes stay those of the source, and new ones are.
LEMMA HashesStep ==
  ASSUME StoreInv, SourcesInv, NEW p \in Processes, Step(p), NEW place \in LivePlaces
  PROVE  HashesOK(runs, disk'[place])
<1>1. HashesOK(runs, disk[place])
  BY DEF SourcesInv
<1>2. ASSUME NEW d, disk' = [disk EXCEPT ![proc[p].place] = d], Shrinks(p, d) \/ Grows(p, d)
      PROVE  HashesOK(runs, disk'[place])
  <2>1. place \in Places /\ disk \in [Places -> {disk[x] : x \in Places}]
    BY DEF StoreInv, Places
  <2>2. CASE place # proc[p].place
    BY <1>1, <1>2, <2>1, <2>2
  <2>3. CASE place = proc[p].place
    <3>1. disk'[place] = d /\ disk[place] = Before(p)
      BY <1>2, <2>1, <2>3 DEF Before
    <3>2. CASE Shrinks(p, d)
      BY <1>1, <3>1, <3>2 DEF Shrinks, HashesOK
    <3>3. CASE Grows(p, d)
      <4> SUFFICES ASSUME "metadata" \in DOMAIN d.files
                   PROVE  d.files["metadata"].hashed \subseteq {runs[d.files["metadata"].by].of}
        BY <3>1 DEF HashesOK
      <4>1. CASE /\ "metadata" \in DOMAIN Before(p).files
                 /\ d.files["metadata"] = Before(p).files["metadata"]
        BY <1>1, <3>1, <4>1 DEF HashesOK
      <4>2. CASE proc[p].phase = "hashing" /\ d.files["metadata"] = SourceHashes(p)
        <5>1. proc[p].phase \in Carrying
          BY <4>2 DEF Carrying, AtWork, Finishing
        <5>2. CarryingOK(runs, proc[p])
          BY <5>1, ProcessFacts
        <5>3. Rebuilding(runs, proc[p])
          BY <4>2, <5>1, <5>2 DEF CarryingOK, Rebuilding
        <5>4. SourceOK(disk, runs, proc[p])
          BY <5>3 DEF SourcesInv
        <5>5. SourceHashes(p).hashed \subseteq {runs[proc[p].run].of}
          BY <5>4 DEF SourceOK, SourceHashes
        <5>6. SourceHashes(p).by = proc[p].run
          BY DEF SourceHashes
        <5> QED BY <4>2, <5>5, <5>6
      <4> QED BY <3>3, <4>1, <4>2 DEF Grows
    <3> QED BY <1>2, <3>2, <3>3
  <2> QED BY <2>2, <2>3
<1> QED BY <1>1, <1>2, OneDirectory

\* Every step keeps the sources, and what is recorded of them.
LEMMA SourcesStep ==
  ASSUME SourcesStay, StoreInv, StoreInv', SourcesInv, NEW p \in Processes, Step(p)
  PROVE  SourcesInv'
<1>1. CASE Conclude(p) \/ StartRebuild(p) \/ StartOffline(p)
  <2>1. /\ disk' = disk /\ Longer(runs, runs')
        /\ \A q \in Processes : q # p => proc'[q] = proc[q]
    BY <1>1, NewRun, MakesRunFacts
  <2>2. ASSUME NEW q \in Processes, Rebuilding(runs', proc'[q])
        PROVE  SourceOK(disk', runs', proc'[q])
    <3>1. CASE q = p
      BY <1>1, <2>2, <3>1, NewSource
    <3>2. CASE q # p
      <4>1. proc'[q] = proc[q] /\ proc[q].phase \in Carrying
        BY <2>1, <2>2, <3>2 DEF Rebuilding
      <4>2. proc[q].run \in 1 .. Len(runs)
        BY <4>1, ProcessFacts DEF CarryingOK
      <4>3. Rebuilding(runs, proc[q])
        BY <2>1, <2>2, <4>1, <4>2, SourceOfLonger
      <4>4. SourceOK(disk, runs, proc[q])
        BY <4>3 DEF SourcesInv
      <4>5. SourceOK(disk, runs', proc[q])
        BY <2>1, <4>2, <4>4, SourceOfLonger
      <4> QED BY <2>1, <4>1, <4>5
    <3> QED BY <3>1, <3>2
  <2>3. ASSUME NEW place \in LivePlaces PROVE HashesOK(runs', disk'[place])
    <3>1. HashesOK(runs, disk[place])
      BY DEF SourcesInv
    <3>2. "metadata" \in DOMAIN disk[place].files =>
            disk[place].files["metadata"].by \in 1 .. Len(runs)
      BY DEF StoreInv, PlaceOK, DirOK, FileOK, Places
    <3> QED BY <2>1, <3>1, <3>2 DEF HashesOK, Longer
  <2> QED BY <2>2, <2>3 DEF SourcesInv
<1>2. CASE ~Conclude(p) /\ ~StartRebuild(p) /\ ~StartOffline(p)
  <2>1. runs' = runs /\ \A q \in Processes : q # p => proc'[q] = proc[q]
    BY <1>2, GoesOn
  <2>2. ASSUME NEW q \in Processes, Rebuilding(runs, proc'[q])
        PROVE  SourceOK(disk', runs, proc'[q])
    <3>1. /\ proc[q].phase \in Carrying
          /\ proc'[q].run = proc[q].run /\ proc'[q].source = proc[q].source
          /\ proc'[q].place = proc[q].place
      <4>1. proc'[q].phase \in Carrying
        BY <2>2 DEF Rebuilding
      <4>2. CASE q = p
        BY <1>2, <4>1, <4>2, GoesOn
      <4>3. CASE q # p
        BY <2>1, <4>1, <4>3
      <4> QED BY <4>2, <4>3
    <3>2. Rebuilding(runs, proc[q])
      BY <2>2, <3>1 DEF Rebuilding
    <3>3. SourceOK(disk, runs, proc[q])
      BY <3>2 DEF SourcesInv
    <3>4. SourceOK(disk', runs, proc[q])
      BY <3>1, <3>3, SourceKept
    <3> QED BY <3>1, <3>4 DEF SourceOK
  <2>3. \A place \in LivePlaces : HashesOK(runs, disk'[place])
    BY HashesStep
  <2> QED BY <2>1, <2>2, <2>3 DEF SourcesInv
<1> QED BY <1>1, <1>2

\* The hashes that are recorded with a rebuild are those of the run it was made
\* from: although they are taken of the source after the output is written, and
\* other processes may be writing there.
THEOREM HashesAreOfTheSource ==
  ASSUME SourcesStay
  PROVE  Spec => []HashesOfSource
<1>1. Init => SourcesInv
  <2> SUFFICES ASSUME Init PROVE SourcesInv
    OBVIOUS
  <2>1. \A p \in Processes : proc[p].phase \notin Carrying
    BY IdleOK DEF Init, Carrying, Heading, AtWork, Finishing
  <2>2. \A place \in LivePlaces : DOMAIN disk[place].files = {}
    BY DEF Init, Places, Absent
  <2> QED BY <2>1, <2>2 DEF SourcesInv, Rebuilding, HashesOK
<1>2. StoreInv /\ StoreInv' /\ SourcesInv /\ [Next]_vars => SourcesInv'
  <2> SUFFICES ASSUME StoreInv, StoreInv', SourcesInv, [Next]_vars PROVE SourcesInv'
    OBVIOUS
  <2>1. CASE UNCHANGED vars
    BY <2>1 DEF vars, SourcesInv
  <2>2. CASE Next
    BY <2>2, SourcesStep DEF Next
  <2> QED BY <2>1, <2>2
<1>3. SourcesInv => HashesOfSource
  BY DEF SourcesInv, HashesOK, HashesOfSource, Has, Content
<1>4. Undisturbed
  BY DEF SourcesStay, Undisturbed
<1> QED BY <1>1, <1>2, <1>3, <1>4, StoreInvariant, PTL DEF Spec

-----------------------------------------------------------------------------
(* Types, for any number of processes, whatever they replace: nothing is   *)
(* asked here of whose files a directory holds.                            *)

RunsTyped(rs) ==
  RunsOK(rs) /\ Len(rs) <= MaxRuns /\ \A n \in 1 .. Len(rs) : rs[n].of < n

TypedIn(rs, s) ==
  /\ s \in States
  /\ s.run \in 0 .. Len(rs)
  /\ s.phase \in Carrying => s.run \in 1 .. Len(rs) /\ s.place \in Places
  /\ s.phase = "asking" => s.place \in Places
  /\ s.phase = "writing" => ToSet(s.todo) \subseteq Named

TypeInv ==
  /\ RunsTyped(runs)
  /\ disk \in [Places -> {disk[place] : place \in Places}]
  /\ \A place \in Places : DirOK(runs, disk[place])
  /\ proc \in [Processes -> States]
  /\ \A p \in Processes : TypedIn(runs, proc[p])

\* What the types say of a process and the directory it has to do with.
LEMMA TypeFacts ==
  ASSUME TypeInv, NEW p \in Processes
  PROVE  /\ RunsTyped(runs) /\ RunsOK(runs) /\ Len(runs) \in Nat /\ Longer(runs, runs)
         /\ TypedIn(runs, proc[p]) /\ proc[p] \in States
         /\ proc[p].phase \in Carrying =>
              /\ proc[p].run \in 1 .. Len(runs) /\ proc[p].place \in Places
              /\ DirOK(runs, disk[proc[p].place])
<1>1. RunsTyped(runs) /\ TypedIn(runs, proc[p])
  BY DEF TypeInv
<1>2. RunsOK(runs) /\ Len(runs) \in Nat
  BY <1>1 DEF RunsTyped, RunsOK
<1>3. Longer(runs, runs)
  BY <1>2 DEF Longer
<1>4. proc[p].phase \in Carrying => proc[p].run \in 1 .. Len(runs) /\ proc[p].place \in Places
  BY <1>1 DEF TypedIn
<1>5. proc[p].place \in Places => DirOK(runs, disk[proc[p].place])
  BY DEF TypeInv
<1> QED BY <1>1, <1>2, <1>3, <1>4, <1>5 DEF TypedIn

\* An absent directory, and one that is empty.
LEMMA NoFilesOK ==
  ASSUME NEW rs
  PROVE  DirOK(rs, Absent) /\ DirOK(rs, EmptyDirectory)
<1>1. /\ Absent \in [exists : BOOLEAN, files : {Absent.files}]
      /\ DOMAIN Absent.files = {} /\ Absent.files = <<>>
  BY DEF Absent
<1>2. /\ EmptyDirectory \in [exists : BOOLEAN, files : {EmptyDirectory.files}]
      /\ DOMAIN EmptyDirectory.files = {} /\ EmptyDirectory.files = <<>>
  BY DEF EmptyDirectory
<1>3. Absent.files \in [DOMAIN Absent.files -> {Absent.files[f] : f \in DOMAIN Absent.files}]
  BY <1>1
<1>4. EmptyDirectory.files
        \in [DOMAIN EmptyDirectory.files ->
               {EmptyDirectory.files[f] : f \in DOMAIN EmptyDirectory.files}]
  BY <1>2
<1> QED BY <1>1, <1>2, <1>3, <1>4 DEF DirOK

\* A step of one process, that changes at most one directory.
LEMMA TypeStep ==
  ASSUME TypeInv, NEW p \in Processes, NEW s, Becomes(p, s),
         RunsTyped(runs'), Longer(runs, runs'), TypedIn(runs', s),
         \/ disk' = disk
         \/ \E P \in Places : \E d : disk' = [disk EXCEPT ![P] = d] /\ DirOK(runs', d)
  PROVE  TypeInv'
<1>1. s \in States
  BY DEF TypedIn
<1>2. /\ proc' \in [Processes -> States]
      /\ proc'[p] = s
      /\ \A q \in Processes : q # p => proc'[q] = proc[q]
  BY <1>1 DEF TypeInv, Becomes
<1>3. Len(runs) \in Nat /\ Len(runs') \in Nat /\ Len(runs) <= Len(runs')
  BY DEF TypeInv, RunsTyped, RunsOK, Longer
<1>4. ASSUME NEW q \in Processes PROVE TypedIn(runs', proc'[q])
  <2>1. TypedIn(runs, proc[q])
    BY DEF TypeInv
  <2>2. TypedIn(runs', proc[q])
    BY <1>3, <2>1 DEF TypedIn
  <2> QED BY <1>2, <2>2
<1>5. ASSUME NEW place \in Places PROVE DirOK(runs', disk[place])
  <2>1. DirOK(runs, disk[place])
    BY DEF TypeInv
  <2>2. \A f \in DOMAIN disk[place].files : FileOK(runs', f, disk[place].files[f])
    BY <1>3, <2>1, FileOKKept DEF DirOK
  <2> QED BY <2>1, <2>2 DEF DirOK
<1>6. /\ disk' \in [Places -> {disk'[place] : place \in Places}]
      /\ \A place \in Places : DirOK(runs', disk'[place])
  <2>1. CASE disk' = disk
    BY <1>5, <2>1 DEF TypeInv
  <2>2. CASE \E P \in Places : \E d : disk' = [disk EXCEPT ![P] = d] /\ DirOK(runs', d)
    <3>1. PICK P \in Places : \E d : disk' = [disk EXCEPT ![P] = d] /\ DirOK(runs', d)
      BY <2>2
    <3>2. PICK d : disk' = [disk EXCEPT ![P] = d] /\ DirOK(runs', d)
      BY <3>1
    <3>3. /\ disk' \in [Places -> {disk'[place] : place \in Places}]
          /\ disk'[P] = d
          /\ \A place \in Places : place # P => disk'[place] = disk[place]
      BY <3>2 DEF TypeInv
    <3> QED BY <1>5, <3>2, <3>3
  <2> QED BY <2>1, <2>2
<1> QED BY <1>2, <1>4, <1>6 DEF TypeInv

\* A process that raises is idle.
LEMMA TypeRaises ==
  ASSUME TypeInv, NEW p \in Processes, Becomes(p, Idle), UNCHANGED <<disk, runs>>
  PROVE  TypeInv'
<1>1. RunsTyped(runs') /\ Longer(runs, runs') /\ Len(runs') \in Nat
  BY TypeFacts
<1>2. TypedIn(runs', Idle)
  BY <1>1, IdleOK DEF TypedIn, Idle, Carrying, Heading, AtWork, Finishing
<1> QED BY <1>1, <1>2, TypeStep

\* A process with its run goes on in its place, and changes nothing else there
\* than the directory.
LEMMA TypeGoesOn ==
  ASSUME TypeInv, NEW p \in Processes, proc[p].phase \in Carrying, runs' = runs,
         NEW s \in States, Becomes(p, s), s = Idle \/ s.phase # "asking",
         s = Idle \/ (s.run = proc[p].run /\ s.place = proc[p].place),
         s.phase = "writing" => ToSet(s.todo) \subseteq Named,
         \/ disk' = disk
         \/ \E d : disk' = [disk EXCEPT ![proc[p].place] = d] /\ DirOK(runs, d)
  PROVE  TypeInv'
<1>1. /\ RunsTyped(runs') /\ Longer(runs, runs') /\ Len(runs) \in Nat
      /\ proc[p].run \in 1 .. Len(runs) /\ proc[p].place \in Places
  BY TypeFacts
<1>2. TypedIn(runs', s)
  <2>1. CASE s = Idle
    BY <1>1, <2>1, IdleOK DEF TypedIn, Idle, Carrying, Heading, AtWork, Finishing
  <2>2. CASE s.run = proc[p].run /\ s.place = proc[p].place
    BY <1>1, <2>2 DEF TypedIn
  <2> QED BY <2>1, <2>2
<1> QED BY <1>1, <1>2, TypeStep

\* The steps that only begin, or read, and end.
LEMMA TypeBegins ==
  ASSUME TypeInv, NEW p \in Processes, StartLive(p) \/ Compare(p) \/ WriteReport(p) \/ Kill(p)
  PROVE  TypeInv'
<1>1. RunsTyped(runs) /\ RunsOK(runs) /\ Longer(runs, runs) /\ Len(runs) \in Nat
  BY TypeFacts
<1>2. CASE StartLive(p)
  <2>1. PICK place \in LivePlaces, replace \in Replacing :
          Becomes(p, [Idle EXCEPT !.phase = "asking", !.place = place, !.replace = replace])
    BY <1>2 DEF StartLive
  <2> DEFINE s == [Idle EXCEPT !.phase = "asking", !.place = place, !.replace = replace]
  <2>2. replace \in BOOLEAN /\ place \in Places
    BY FlagsAssumption DEF Places
  <2>3. s.phase = "asking" /\ s.place = place /\ s.run = 0 /\ s \in States
    BY <2>2, IdleOK DEF States, Idle
  <2>4. Becomes(p, s)
    BY <2>1
  <2> HIDE DEF s
  <2>5. TypedIn(runs, s)
    BY <1>1, <2>2, <2>3 DEF TypedIn, Carrying, Heading, AtWork, Finishing
  <2> QED BY <1>1, <1>2, <2>4, <2>5, TypeStep DEF StartLive
<1>3. CASE Compare(p)
  <2>1. PICK chosen \in [Variants -> LivePlaces], lenient \in BOOLEAN :
          /\ \A variant \in Variants :
               {"summary", "config"} \subseteq DOMAIN disk[chosen[variant]].files
          /\ Becomes(p, [Idle EXCEPT
               !.phase = "reporting",
               !.replace = lenient,
               !.rows  = [variant \in Variants |-> Content(chosen[variant], "summary").by],
               !.model = runs[Content(chosen["single_generalist"], "config").by].model])
    BY <1>3 DEF Compare
  <2> DEFINE rows  == [variant \in Variants |-> Content(chosen[variant], "summary").by]
             model == runs[Content(chosen["single_generalist"], "config").by].model
             s     == [Idle EXCEPT !.phase = "reporting", !.replace = lenient,
                                   !.rows = rows, !.model = model]
  <2>2. ASSUME NEW variant \in Variants
        PROVE  /\ Content(chosen[variant], "summary").by \in 1 .. Len(runs)
               /\ Content(chosen[variant], "config").by \in 1 .. Len(runs)
    <3>1. chosen[variant] \in Places
      BY DEF Places
    <3>2. \A f \in {"summary", "config"} : FileOK(runs, f, Content(chosen[variant], f))
      BY <2>1, <3>1 DEF TypeInv, DirOK, Content
    <3> QED BY <3>2 DEF FileOK
  <2>3. rows \in [Variants -> Nat]
    BY <2>2
  <2>4. model \in Models
    <3>1. "single_generalist" \in Variants
      BY DEF Variants
    <3>2. RunOK(runs[Content(chosen["single_generalist"], "config").by])
      BY <1>1, <2>2, <3>1 DEF RunsOK
    <3> QED BY <3>2 DEF RunOK, Made
  <2>5. Becomes(p, s)
    BY <2>1
  <2> HIDE DEF rows, model
  <2>6. s \in States /\ s.phase = "reporting" /\ s.run = 0
    BY <2>3, <2>4, IdleOK DEF States, Idle
  <2> HIDE DEF s
  <2>7. TypedIn(runs, s)
    BY <1>1, <2>6 DEF TypedIn, Carrying, Heading, AtWork, Finishing
  <2> QED BY <1>1, <1>3, <2>5, <2>7, TypeStep DEF Compare
<1>4. CASE WriteReport(p) \/ Kill(p)
  BY <1>4, TypeRaises DEF WriteReport, Kill, Raises
<1> QED BY <1>2, <1>3, <1>4

\* A run that is made is numbered after those before it, and so after its source.
LEMMA TypeMakesRun ==
  ASSUME TypeInv, NEW p \in Processes, NEW one, RunOK(one), one.of <= Len(runs),
         NEW state \in States, state.phase \in {"landing", "opening"}, state.place \in Places,
         MakesRun(p, one, state), disk' = disk
  PROVE  TypeInv'
<1> DEFINE n == Len(runs) + 1
           s == [state EXCEPT !.run = n]
<1>1. RunsTyped(runs) /\ RunsOK(runs) /\ Len(runs) \in Nat /\ runs \in Seq(Made)
  BY TypeFacts DEF RunsOK
<1>2. one \in Made /\ one.of \in Nat
  BY DEF RunOK, Made
<1>3. runs' = Append(runs, one) /\ Becomes(p, s) /\ n <= MaxRuns
  BY <1>1, FlagsAssumption DEF MakesRun
<1>4. /\ runs' \in Seq(Made) /\ Len(runs') = n
      /\ \A i \in 1 .. Len(runs) : runs'[i] = runs[i]
      /\ runs'[n] = one
  BY <1>1, <1>2, <1>3, AppendProperties
<1>5. RunsTyped(runs')
  <2>1. ASSUME NEW i \in 1 .. n PROVE RunOK(runs'[i]) /\ runs'[i].of < i
    <3>1. i = n \/ i \in 1 .. Len(runs)
      BY <1>1
    <3> QED BY <1>1, <1>2, <1>4, <3>1 DEF RunsOK, RunsTyped
  <2> QED BY <1>3, <1>4, <2>1 DEF RunsTyped, RunsOK
<1>6. Longer(runs, runs')
  BY <1>1, <1>4 DEF Longer
<1>7. /\ s \in States /\ s.run = n /\ s.phase = state.phase /\ s.place = state.place
  <2> DEFINE phases  == {"idle", "asking", "reporting"} \cup Carrying
             places  == Places \cup {"none"}
             sources == LivePlaces \cup {"none"}
             todos   == Seq(Files)
             dooms   == SUBSET Files
             tables  == {<<>>} \cup [Variants -> Nat]
             all     == [phase : phases, place : places, source : sources, replace : BOOLEAN,
                         run : Nat, todo : todos, doomed : dooms, rows : tables, model : Models]
  <2>1. n \in Nat
    BY <1>1
  <2>2. States = all
    BY DEF States
  <2> HIDE DEF n, phases, places, sources, todos, dooms, tables
  <2>3. state \in all =>
          s \in all /\ s.run = n /\ s.phase = state.phase /\ s.place = state.place
    BY <2>1
  <2> HIDE DEF s, all
  <2> QED BY <2>2, <2>3
<1> HIDE DEF s
<1>8. TypedIn(runs', s)
  BY <1>1, <1>4, <1>7 DEF TypedIn
<1> QED BY <1>3, <1>5, <1>6, <1>8, TypeStep

\* The steps that make a run.
LEMMA TypeMakes ==
  ASSUME TypeInv, NEW p \in Processes, Conclude(p) \/ StartRebuild(p) \/ StartOffline(p)
  PROVE  TypeInv'
<1>1. RunsTyped(runs) /\ RunsOK(runs) /\ Len(runs) \in Nat
  BY TypeFacts
<1>2. CASE Conclude(p)
  <2> DEFINE w     == proc[p]
             state == [w EXCEPT !.phase = "landing"]
  <2>1. w \in States /\ w.phase = "asking" /\ w.place \in Places
    BY <1>2, TypeFacts DEF Conclude, TypedIn
  <2>2. PICK one \in Outcomes : MakesRun(p, one, state)
    BY <1>2 DEF Conclude
  <2>3. RunOK(one) /\ one.of = 0
    <3>1. /\ one \in Runs /\ one.kind \in {"variant", "agent", "smoke"} /\ one.of = 0
          /\ one.completed => one.kind = "variant"
      BY OutcomesAssumption
    <3>2. one \in Made
      BY <3>1, FlagsAssumption DEF Runs, Made, Models
    <3> QED BY <3>1, <3>2 DEF RunOK
  <2> HIDE DEF w
  <2>4. state \in States /\ state.phase = "landing" /\ state.place = w.place
    BY <2>1 DEF States, Carrying, Heading
  <2> HIDE DEF state
  <2> QED BY <1>1, <1>2, <2>1, <2>2, <2>3, <2>4, TypeMakesRun DEF Conclude
<1>3. CASE StartRebuild(p)
  <2>1. PICK source \in LivePlaces, output \in LivePlaces, replace \in Replacing,
             sound \in BOOLEAN, handoff \in BOOLEAN :
          /\ disk[output].exists => replace
          /\ {"records", "config"} \subseteq DOMAIN disk[source].files
          /\ output = source => InPlace
          /\ LET one == Rebuilt(Content(source, "config").by, Content(source, "records").by,
                                sound, handoff)
             IN  /\ handoff => one.variant # "single_generalist"
                 /\ runs[Content(source, "records").by].handoff => handoff
                 /\ MakesRun(p, one, [Idle EXCEPT !.phase = "landing", !.place = output,
                                                  !.replace = replace, !.source = source])
    BY <1>3 DEF StartRebuild
  <2> DEFINE config  == Content(source, "config").by
             records == Content(source, "records").by
             one     == Rebuilt(config, records, sound, handoff)
             state   == [Idle EXCEPT !.phase = "landing", !.place = output,
                                     !.replace = replace, !.source = source]
  <2>2. config \in 1 .. Len(runs) /\ records \in 1 .. Len(runs)
    <3>1. source \in Places
      BY DEF Places
    <3>2. \A f \in {"records", "config"} : FileOK(runs, f, Content(source, f))
      BY <2>1, <3>1 DEF TypeInv, DirOK, Content
    <3> QED BY <3>2 DEF FileOK
  <2>3. RunOK(runs[config])
    BY <1>1, <2>2 DEF RunsOK
  <2>4. MakesRun(p, one, state)
    BY <2>1
  <2> HIDE DEF config, records
  <2>5. RunOK(one) /\ one.of <= Len(runs)
    <3>1. runs[config] \in Made /\ records \in Nat
      BY <2>2, <2>3 DEF RunOK
    <3>2. one \in Made /\ one.kind = "rebuild" /\ one.completed = FALSE /\ one.of = records
      BY <3>1 DEF Rebuilt, Made, Kinds
    <3> QED BY <1>1, <2>2, <3>2 DEF RunOK
  <2>6. replace \in BOOLEAN
    BY FlagsAssumption
  <2>7. /\ state \in States /\ state.phase = "landing" /\ state.place = output
        /\ output \in Places
    BY <2>6, IdleOK DEF States, Places, Carrying, Heading
  <2> HIDE DEF one, state
  <2>8. disk' = disk
    BY <1>3 DEF StartRebuild
  <2> QED BY <2>4, <2>5, <2>7, <2>8, TypeMakesRun
<1>4. CASE StartOffline(p)
  <2> DEFINE one == [kind |-> "offline", variant |-> "single_generalist", model |-> "simulated",
                     completed |-> FALSE, sound |-> TRUE, handoff |-> FALSE,
                     evaluated |-> TRUE, of |-> 0]
  <2>1. PICK place \in OfflinePlaces :
          MakesRun(p, one, [Idle EXCEPT !.phase = "opening", !.place = place])
    BY <1>4 DEF StartOffline
  <2> DEFINE state == [Idle EXCEPT !.phase = "opening", !.place = place]
  <2>2. RunOK(one) /\ one.of = 0
    BY DEF RunOK, Made, Kinds, Variants, Models
  <2>3. /\ state \in States /\ state.phase = "opening" /\ state.place = place
        /\ place \in Places
    BY IdleOK DEF States, Places, Carrying
  <2>4. MakesRun(p, one, state)
    BY <2>1
  <2>5. disk' = disk
    BY <1>4 DEF StartOffline
  <2>6. one.of <= Len(runs)
    BY <1>1, <2>2
  <2> HIDE DEF one, state
  <2> QED BY <2>2, <2>3, <2>4, <2>5, <2>6, TypeMakesRun
<1> QED BY <1>2, <1>3, <1>4

\* The steps that look at a directory, make room in it or make it.
LEMMA TypeHeads ==
  ASSUME TypeInv, NEW p \in Processes,
         Land(p) \/ RemoveFile(p) \/ RemoveDirectory(p) \/ Make(p) \/ OpenOffline(p)
  PROVE  TypeInv'
<1> DEFINE w   == proc[p]
           P   == w.place
           dir == disk[P]
<1>1. w.phase \in Carrying
  BY DEF Land, RemoveFile, RemoveDirectory, Make, OpenOffline, Carrying, Heading
<1>2. w \in States /\ P \in Places /\ DirOK(runs, dir)
  BY <1>1, TypeFacts
<1>3. ASSUME Raises(p) PROVE TypeInv'
  BY <1>3, TypeRaises DEF Raises
<1>4. Artifacts(w.run) \in Seq(Files) /\ ToSet(Artifacts(w.run)) \subseteq Named
  BY InThisState, ArtifactNames
<1>5. CASE Land(p)
  <2>1. \/ Becomes(p, [w EXCEPT !.phase = "making"])
        \/ Becomes(p, [w EXCEPT !.phase = "removing", !.doomed = DOMAIN dir.files])
        \/ Becomes(p, Idle)
    BY <1>5 DEF Land, Moves
  <2>2. UNCHANGED <<disk, runs>>
    BY <1>5 DEF Land
  <2>3. DOMAIN dir.files \subseteq Files
    BY <1>2 DEF DirOK
  <2> DEFINE making   == [w EXCEPT !.phase = "making"]
             removing == [w EXCEPT !.phase = "removing", !.doomed = DOMAIN dir.files]
  <2>4. /\ making \in States /\ making.phase = "making"
        /\ making.run = w.run /\ making.place = w.place
    BY <1>2 DEF States, Carrying, Heading
  <2>5. /\ removing \in States /\ removing.phase = "removing"
        /\ removing.run = w.run /\ removing.place = w.place
    BY <1>2, <2>3 DEF States, Carrying, Heading
  <2>6. Becomes(p, making) \/ Becomes(p, removing) \/ Becomes(p, Idle)
    BY <2>1
  <2> HIDE DEF making, removing
  <2>7. ASSUME Becomes(p, making) PROVE TypeInv'
    BY <1>1, <2>2, <2>4, <2>7, TypeGoesOn
  <2>8. ASSUME Becomes(p, removing) PROVE TypeInv'
    BY <1>1, <2>2, <2>5, <2>8, TypeGoesOn
  <2> QED BY <2>2, <2>6, <2>7, <2>8, TypeRaises
<1>6. CASE RemoveFile(p)
  <2>1. PICK file \in w.doomed :
          \/ Raises(p)
          \/ /\ disk' = [disk EXCEPT ![P] = Without(dir, file)]
             /\ Becomes(p, [w EXCEPT !.doomed = @ \ {file}])
             /\ UNCHANGED runs
    BY <1>6 DEF RemoveFile
  <2>2. CASE /\ disk' = [disk EXCEPT ![P] = Without(dir, file)]
             /\ Becomes(p, [w EXCEPT !.doomed = @ \ {file}])
             /\ UNCHANGED runs
    <3> DEFINE s == [w EXCEPT !.doomed = @ \ {file}]
    <3>1. DirOK(runs, Without(dir, file))
      BY <1>2, WithoutDirOK
    <3>2. w.phase = "removing"
      BY <1>6 DEF RemoveFile
    <3>3. s \in States /\ s.phase = w.phase /\ s.run = w.run /\ s.place = w.place
      BY <1>2 DEF States
    <3> HIDE DEF s
    <3>4. Becomes(p, s)
      BY <2>2 DEF s
    <3> QED BY <1>1, <2>2, <3>1, <3>2, <3>3, <3>4, TypeGoesOn
  <2> QED BY <1>3, <2>1, <2>2
<1>7. CASE RemoveDirectory(p)
  <2>1. \/ Raises(p)
        \/ /\ disk' = [disk EXCEPT ![P] = Absent]
           /\ Becomes(p, [w EXCEPT !.phase = "making"])
           /\ UNCHANGED runs
    BY <1>7 DEF RemoveDirectory, Moves
  <2>2. CASE /\ disk' = [disk EXCEPT ![P] = Absent]
             /\ Becomes(p, [w EXCEPT !.phase = "making"])
             /\ UNCHANGED runs
    <3> DEFINE s == [w EXCEPT !.phase = "making"]
    <3>1. s \in States /\ s.phase = "making" /\ s.run = w.run /\ s.place = w.place
      BY <1>2 DEF States, Carrying, Heading
    <3> HIDE DEF s
    <3>2. Becomes(p, s)
      BY <2>2 DEF s
    <3> QED BY <1>1, <2>2, <3>1, <3>2, NoFilesOK, TypeGoesOn
  <2> QED BY <1>3, <2>1, <2>2
<1> DEFINE begun == [w EXCEPT !.phase = "writing", !.todo = Artifacts(w.run)]
<1>8. /\ begun \in States /\ begun.phase = "writing" /\ begun.todo = Artifacts(w.run)
      /\ begun.run = w.run /\ begun.place = w.place
  BY <1>2, <1>4 DEF States, Carrying, AtWork
<1>9. CASE Make(p)
  <2>1. \/ Raises(p)
        \/ /\ disk' = [disk EXCEPT ![P] = EmptyDirectory]
           /\ Becomes(p, begun)
           /\ UNCHANGED runs
    BY <1>9 DEF Make
  <2> HIDE DEF begun
  <2>2. CASE /\ disk' = [disk EXCEPT ![P] = EmptyDirectory]
             /\ Becomes(p, begun)
             /\ UNCHANGED runs
    BY <1>1, <1>4, <1>8, <2>2, NoFilesOK, TypeGoesOn
  <2> QED BY <1>3, <2>1, <2>2
<1>10. CASE OpenOffline(p)
  <2> DEFINE d == [dir EXCEPT !.exists = TRUE]
  <2>1. disk' = [disk EXCEPT ![P] = d] /\ runs' = runs /\ Becomes(p, begun)
    BY <1>10 DEF OpenOffline
  <2>2. dir \in [exists : BOOLEAN, files : {dir.files}]
    BY <1>2 DEF DirOK
  <2>3. d.exists /\ d.files = dir.files /\ d \in [exists : BOOLEAN, files : {d.files}]
    BY <2>2
  <2> HIDE DEF d, begun
  <2>4. DirOK(runs, d)
    BY <1>2, <2>3 DEF DirOK
  <2> QED BY <1>1, <1>4, <1>8, <2>1, <2>4, TypeGoesOn
<1> QED BY <1>5, <1>6, <1>7, <1>9, <1>10

\* The steps that write the artifacts of a run, and the manifest after them.
LEMMA TypeWrites ==
  ASSUME TypeInv, NEW p \in Processes, WriteArtifact(p) \/ WriteManifest(p)
  PROVE  TypeInv'
<1> DEFINE w   == proc[p]
           P   == w.place
           n   == w.run
           dir == disk[P]
<1>1. w.phase = "writing" /\ w.phase \in Carrying
  BY DEF WriteArtifact, WriteManifest, Carrying, AtWork
<1>2. /\ w \in States /\ P \in Places /\ DirOK(runs, dir) /\ n \in 1 .. Len(runs)
      /\ ToSet(w.todo) \subseteq Named
  BY <1>1, TypeFacts DEF TypedIn
<1>3. CASE WriteArtifact(p)
  <2> DEFINE file == Head(w.todo)
             d    == With(dir, file, Artifact(n))
             s    == [w EXCEPT !.todo = Tail(w.todo)]
  <2>1. /\ w.todo # <<>> /\ runs' = runs
        /\ disk' = [disk EXCEPT ![P] = d] /\ Becomes(p, s)
    BY <1>3 DEF WriteArtifact
  <2>2. w.todo \in Seq(Files)
    BY <1>2 DEF States
  <2>3. /\ Tail(w.todo) \in Seq(Files) /\ file \in Named
        /\ ToSet(Tail(w.todo)) \subseteq Named
    BY <1>2, <2>1, <2>2, HeadAndTail
  <2>4. /\ s \in States /\ s.phase = "writing" /\ s.run = n /\ s.place = P
        /\ s.todo = Tail(w.todo)
    BY <1>1, <1>2, <2>3 DEF States
  <2> HIDE DEF w, s, file
  <2>5. FileOK(runs, file, Artifact(n))
    BY <1>2, <2>3 DEF FileOK, Artifact, Named
  <2>6. DirOK(runs, d)
    BY <1>2, <2>3, <2>5, WithOK DEF Named, Files
  <2> HIDE DEF d
  <2> QED BY <1>1, <2>1, <2>3, <2>4, <2>6, TypeGoesOn DEF w
<1>4. CASE WriteManifest(p)
  <2> DEFINE manifest == Manifest(P, n)
             d        == With(dir, "manifest", manifest)
             s        == [w EXCEPT !.phase = "inspecting"]
  <2>1. \/ Raises(p)
        \/ /\ disk' = [disk EXCEPT ![P] = d]
           /\ Becomes(p, Idle) \/ Becomes(p, s)
           /\ runs' = runs
    BY <1>4 DEF WriteManifest, Moves
  <2>2. /\ manifest.by = n /\ manifest.required = RequiredIn(runs, n)
        /\ manifest \in [by : {n}, required : {RequiredIn(runs, n)}, sums : {manifest.sums}]
    BY InThisState DEF Manifest
  <2>3. RequiredIn(runs, n) \subseteq Files
    BY ArtifactNames DEF RequiredIn, Named, Files
  <2> HIDE DEF manifest
  <2>4. FileOK(runs, "manifest", manifest)
    BY <1>2, <2>2, <2>3 DEF FileOK, Named
  <2>5. DirOK(runs, d)
    BY <1>2, <2>4, WithOK DEF Files
  <2>6. s \in States /\ s.phase = "inspecting" /\ s.run = n /\ s.place = P
    BY <1>2 DEF States, Carrying, AtWork, Finishing
  <2> HIDE DEF d, s
  <2>7. CASE Raises(p)
    BY <2>7, TypeRaises DEF Raises
  <2>8. CASE /\ disk' = [disk EXCEPT ![P] = d] /\ Becomes(p, s) /\ runs' = runs
    BY <1>1, <2>5, <2>6, <2>8, TypeGoesOn
  <2>9. CASE /\ disk' = [disk EXCEPT ![P] = d] /\ Becomes(p, Idle) /\ runs' = runs
    BY <1>1, <2>5, <2>9, IdleOK, TypeGoesOn
  <2> QED BY <2>1, <2>7, <2>8, <2>9
<1> QED BY <1>3, <1>4

\* The steps that inspect what was written, mark it or list what it was made of.
LEMMA TypeFinishes ==
  ASSUME TypeInv, NEW p \in Processes,
         Inspect(p) \/ MarkSummary(p) \/ MarkManifest(p) \/ HashSource(p) \/ ListMetadata(p)
  PROVE  TypeInv'
<1> DEFINE w   == proc[p]
           P   == w.place
           dir == disk[P]
<1>1. w.phase \in Carrying
  BY DEF Inspect, MarkSummary, MarkManifest, HashSource, ListMetadata,
         Carrying, AtWork, Finishing
<1>2. w \in States /\ P \in Places /\ DirOK(runs, dir) /\ w.run \in 1 .. Len(runs)
  BY <1>1, TypeFacts
<1>3. ASSUME Raises(p) PROVE TypeInv'
  BY <1>3, TypeRaises DEF Raises
<1>4. ASSUME NEW phase \in Finishing,
             Moves(p, phase), runs' = runs,
             \/ disk' = disk
             \/ \E d : disk' = [disk EXCEPT ![P] = d] /\ DirOK(runs, d)
      PROVE  TypeInv'
  <2> DEFINE s == [w EXCEPT !.phase = phase]
  <2>1. s \in States /\ s.phase = phase /\ s.run = w.run /\ s.place = P
    BY <1>2 DEF States, Carrying, AtWork
  <2>2. Becomes(p, s)
    BY <1>4 DEF Moves
  <2> HIDE DEF s
  <2>3. s.phase # "asking" /\ s.phase # "writing"
    BY <2>1 DEF Finishing
  <2> QED BY <1>1, <1>4, <2>1, <2>2, <2>3, TypeGoesOn
<1>5. ASSUME NEW d, DirOK(runs, d), disk' = [disk EXCEPT ![P] = d], runs' = runs,
             Becomes(p, Idle)
      PROVE  TypeInv'
  BY <1>1, <1>5, IdleOK, TypeGoesOn
<1>6. CASE Inspect(p)
  <2>1. \/ Moves(p, "marking")
        \/ Moves(p, "hashing")
        \/ Becomes(p, Idle)
    BY <1>6 DEF Inspect
  <2>2. UNCHANGED <<disk, runs>>
    BY <1>6 DEF Inspect
  <2> QED BY <1>4, <2>1, <2>2, TypeRaises DEF Finishing
<1>7. CASE MarkSummary(p)
  <2> DEFINE c == [dir.files["summary"] EXCEPT !.marked = TRUE]
             d == Edited(dir, "summary", c)
  <2>1. \/ Raises(p)
        \/ /\ "summary" \in DOMAIN dir.files
           /\ disk' = [disk EXCEPT ![P] = d]
           /\ Moves(p, "resumming")
           /\ runs' = runs
    BY <1>7 DEF MarkSummary, Has, Edited
  <2>2. CASE /\ "summary" \in DOMAIN dir.files
             /\ disk' = [disk EXCEPT ![P] = d]
             /\ Moves(p, "resumming")
             /\ runs' = runs
    <3>1. dir.files["summary"] \in [by : 1 .. Len(runs), marked : BOOLEAN]
      BY <1>2, <2>2 DEF DirOK, FileOK, Named
    <3>2. c \in [by : 1 .. Len(runs), marked : BOOLEAN]
      BY <3>1
    <3> HIDE DEF c
    <3>3. FileOK(runs, "summary", c)
      BY <3>2 DEF FileOK
    <3>4. "summary" \in DOMAIN dir.files
      BY <2>2
    <3> HIDE DEF dir
    <3>5. DirOK(runs, d)
      BY <1>2, <3>3, <3>4, ReplacedOK
    <3> HIDE DEF d
    <3>6. "resumming" \in Finishing
      BY DEF Finishing
    <3> QED BY <1>4, <2>2, <3>5, <3>6
  <2> QED BY <1>3, <2>1, <2>2
<1>8. CASE MarkManifest(p)
  <2> DEFINE old  == dir.files["manifest"]
             sums == ("summary" :> Content(P, "summary")) @@ old.sums
             c    == [old EXCEPT !.sums = sums]
             d    == Edited(dir, "manifest", c)
  <2>1. \/ Raises(p)
        \/ /\ "manifest" \in DOMAIN dir.files
           /\ disk' = [disk EXCEPT ![P] = d]
           /\ Becomes(p, Idle)
           /\ runs' = runs
    BY <1>8 DEF MarkManifest, Edited
  <2>2. CASE /\ "manifest" \in DOMAIN dir.files
             /\ disk' = [disk EXCEPT ![P] = d]
             /\ Becomes(p, Idle)
             /\ runs' = runs
    <3>1. FileOK(runs, "manifest", old)
      BY <1>2, <2>2 DEF DirOK
    <3>2. /\ old \in [by : 1 .. Len(runs), required : SUBSET Files, sums : {old.sums}]
          /\ RequiredIn(runs, old.by) \subseteq old.required
      BY <3>1 DEF FileOK
    <3> HIDE DEF sums, old
    <3>3. /\ c.by = old.by /\ c.required = old.required
          /\ c \in [by : 1 .. Len(runs), required : SUBSET Files, sums : {c.sums}]
      BY <3>2
    <3> HIDE DEF c
    <3>4. FileOK(runs, "manifest", c)
      BY <3>2, <3>3 DEF FileOK, Named
    <3>5. "manifest" \in DOMAIN dir.files
      BY <2>2
    <3> HIDE DEF dir
    <3>6. DirOK(runs, d)
      BY <1>2, <3>4, <3>5, ReplacedOK
    <3> HIDE DEF d
    <3> QED BY <1>5, <2>2, <3>6
  <2> QED BY <1>3, <2>1, <2>2
<1>9. CASE HashSource(p)
  <2> DEFINE from   == disk[w.source]
             hashed == {from.files[f].by : f \in DOMAIN from.files}
             c      == [by |-> w.run, hashed |-> hashed]
             d      == With(dir, "metadata", c)
  <2>1. disk' = [disk EXCEPT ![P] = d] /\ Moves(p, "listing") /\ runs' = runs
    BY <1>9 DEF HashSource
  <2> HIDE DEF hashed
  <2>2. FileOK(runs, "metadata", c)
    BY <1>2 DEF FileOK, Named
  <2> HIDE DEF c
  <2>3. DirOK(runs, d)
    BY <1>2, <2>2, WithOK DEF Files
  <2> HIDE DEF d
  <2>4. "listing" \in Finishing
    BY DEF Finishing
  <2> QED BY <1>4, <2>1, <2>3, <2>4
<1>10. CASE ListMetadata(p)
  <2> DEFINE old  == Content(P, "manifest")
             sums == ("metadata" :> Content(P, "metadata")) @@ old.sums
             c    == [old EXCEPT !.required = old.required \cup {"metadata"}, !.sums = sums]
             d    == With(dir, "manifest", c)
  <2>1. \/ Raises(p)
        \/ /\ "manifest" \in DOMAIN dir.files
           /\ disk' = [disk EXCEPT ![P] = d]
           /\ Becomes(p, Idle)
           /\ runs' = runs
    BY <1>10 DEF ListMetadata
  <2>2. CASE /\ "manifest" \in DOMAIN dir.files
             /\ disk' = [disk EXCEPT ![P] = d]
             /\ Becomes(p, Idle)
             /\ runs' = runs
    <3>1. FileOK(runs, "manifest", old)
      BY <1>2, <2>2 DEF DirOK, Content
    <3>2. /\ old \in [by : 1 .. Len(runs), required : SUBSET Files, sums : {old.sums}]
          /\ RequiredIn(runs, old.by) \subseteq old.required
      BY <3>1 DEF FileOK
    <3> HIDE DEF sums, old
    <3>3. /\ c.by = old.by /\ c.required = old.required \cup {"metadata"}
          /\ c \in [by : 1 .. Len(runs), required : SUBSET Files, sums : {c.sums}]
      BY <3>2 DEF Files
    <3> HIDE DEF c
    <3>4. FileOK(runs, "manifest", c)
      BY <3>2, <3>3 DEF FileOK, Named
    <3>5. DirOK(runs, d)
      BY <1>2, <3>4, WithOK DEF Files
    <3> HIDE DEF d
    <3> QED BY <1>5, <2>2, <3>5
  <2> QED BY <1>3, <2>1, <2>2
<1> QED BY <1>6, <1>7, <1>8, <1>9, <1>10

\* Every step keeps the types.
LEMMA TypeInvStep == TypeInv /\ [Next]_vars => TypeInv'
<1>1. ASSUME TypeInv, NEW p \in Processes, Step(p) PROVE TypeInv'
  BY <1>1, TypeBegins, TypeMakes, TypeHeads, TypeWrites, TypeFinishes DEF Step
<1>2. TypeInv /\ UNCHANGED vars => TypeInv'
  BY DEF TypeInv, vars
<1> QED BY <1>1, <1>2 DEF Next

\* Nothing is there at first.
LEMMA InitTypeInv == Init => TypeInv
<1> SUFFICES ASSUME Init PROVE TypeInv
  OBVIOUS
<1>1. runs = <<>> /\ disk = [place \in Places |-> Absent] /\ proc = [p \in Processes |-> Idle]
  BY DEF Init
<1>2. RunsTyped(runs) /\ Len(runs) = 0
  BY <1>1, FlagsAssumption DEF RunsTyped, RunsOK
<1>3. TypedIn(runs, Idle)
  BY <1>2, IdleOK DEF TypedIn, Idle, Carrying, Heading, AtWork, Finishing
<1>4. \A place \in Places : DirOK(runs, disk[place])
  BY <1>1, NoFilesOK
<1>5. proc \in [Processes -> States] /\ \A p \in Processes : TypedIn(runs, proc[p])
  BY <1>1, <1>3, IdleOK
<1>6. disk \in [Places -> {disk[place] : place \in Places}]
  BY <1>1
<1> QED BY <1>2, <1>4, <1>5, <1>6 DEF TypeInv

\* A file on disk is one of a run that was made, and a run is rebuilt from one
\* made before it, however many processes remove and write in the same
\* directories.  The assumption is a truth of TLA+ that none of the installed provers
\* knows: that the literals used as the name of a model are strings.
THEOREM TypeCorrect ==
  ASSUME {"simulated", "none"} \subseteq STRING
  PROVE  Spec => []TypeOK
<1>1. TypeInv => TypeOK
  <2> SUFFICES ASSUME TypeInv PROVE TypeOK
    OBVIOUS
  <2>1. RunsTyped(runs) /\ RunsOK(runs) /\ Len(runs) \in Nat /\ runs \in Seq(Made)
    BY DEF TypeInv, RunsTyped, RunsOK
  <2>2. runs \in Seq(Runs) /\ Len(runs) <= MaxRuns
    <3>1. ASSUME NEW n \in 1 .. Len(runs) PROVE runs[n] \in Runs
      <4>1. runs[n] \in Made /\ runs[n].of < n /\ n <= MaxRuns
        BY <2>1, FlagsAssumption DEF RunsTyped, RunsOK, RunOK
      <4>2. Models = STRING
        BY DEF Models
      <4>3. /\ runs[n] \in [kind : Kinds, variant : Variants, model : STRING,
                           completed : BOOLEAN, sound : BOOLEAN, handoff : BOOLEAN,
                           evaluated : BOOLEAN, of : Nat]
            /\ runs[n].of \in 0 .. MaxRuns
        BY <4>1, <4>2, FlagsAssumption DEF Made
      <4> QED BY <4>3 DEF Runs
    <3> QED BY <2>1, <3>1, SeqDef DEF RunsTyped
  <2>3. \A n \in DOMAIN runs : runs[n].of < n
    BY <2>1 DEF RunsTyped
  <2>4. ASSUME NEW place \in Places
        PROVE  /\ disk[place].exists \in BOOLEAN
               /\ DOMAIN disk[place].files \subseteq Files
               /\ disk[place].files # <<>> => disk[place].exists
               /\ \A f \in DOMAIN disk[place].files : Content(place, f).by \in DOMAIN runs
    <3>1. DirOK(runs, disk[place]) /\ DOMAIN runs = 1 .. Len(runs)
      BY <2>1 DEF TypeInv
    <3>2. disk[place].exists \in BOOLEAN /\ DOMAIN disk[place].files \subseteq Files
      BY <3>1 DEF DirOK
    <3>3. ASSUME ~disk[place].exists PROVE disk[place].files = <<>>
      <4>1. DOMAIN disk[place].files = {} /\ disk[place].files \in [{} -> {}]
        BY <3>1, <3>3 DEF DirOK
      <4> QED BY <4>1
    <3> QED BY <3>1, <3>2, <3>3 DEF DirOK, FileOK, Content
  <2>5. ASSUME NEW p \in Processes
        PROVE  /\ proc[p].run \in 0 .. Len(runs)
               /\ proc[p].doomed \subseteq Files /\ ToSet(proc[p].todo) \subseteq Files
    <3>1. TypedIn(runs, proc[p]) /\ proc[p] \in States
      BY DEF TypeInv, TypedIn
    <3>2. proc[p].doomed \subseteq Files /\ proc[p].todo \in Seq(Files)
      BY <3>1 DEF States
    <3> QED BY <3>1, <3>2 DEF TypedIn, ToSet
  <2> QED BY <2>2, <2>3, <2>4, <2>5 DEF TypeOK
<1> QED BY <1>1, InitTypeInv, TypeInvStep, PTL DEF Spec
=============================================================================
