--------------------------- MODULE UpdaterProofs ---------------------------
(* Theorems of Updater, for every set of versions, every number of power    *)
(* losses, kills and failing commands.                                      *)
EXTENDS Updater, TLAPS

Files == disk.files[Target]

\* What install_python_dependencies has done before a step.
Earlier == [venv |-> {}, pip |-> {"venv"}, deps |-> {"venv", "pip"}, wheel |-> {"venv", "pip", "deps"}]

\* No mark without the work it stands for.
Honest(files) == \A s \in Steps : Mark[s] \in files => s \in files

Preparing  == {"checked", "verified", "removing", "unpacking", "validate", "run", "mark", "link",
               "stop", "activate"}
Trusting   == {"validate", "run", "mark", "link", "stop", "activate"}
Activated  == {"units", "cleanup"}
Running    == Preparing \cup Activated
Succeeding == proc.pc = "exit" /\ proc.ok

-----------------------------------------------------------------------------
(* The inductive invariants *)

\* The status file speaks of the run in progress, and claims nothing before its end.
StatusInv ==
    /\ TypeOK
    /\ ~At("idle") => disk.status.target = Target /\ disk.status.state # "complete"
    /\ proc.pc \in Activated \/ Succeeding => disk.current = Target
    /\ At("cleanup") \/ Succeeding => disk.units = Target
    /\ CompleteIsTrue

\* Releases are installed in order of publication: nothing on the disk is newer than the
\* candidate of a run, and the candidate is newer than the release it replaces.
Ordered ==
    /\ disk.current <= world.latest
    /\ \A v \in Versions : disk.files[v] # {} => v <= world.latest
    /\ proc.pc \in Running => /\ Target <= world.latest
                              /\ \A v \in Versions : disk.files[v] # {} => v <= Target
    /\ proc.pc \in Preparing => disk.current < Target
    /\ proc.pc \in Activated => disk.current = Target

\* A directory newer than the current release that unpack_release would trust has marks
\* that can be trusted: only older directories are removed while they look unpacked.
Trusted == \A v \in Versions : disk.current < v /\ Fresh(disk.files[v]) => Honest(disk.files[v])

\* How far the candidate has come when a phase begins.
Candidate ==
    /\ At("removing") => ~Fresh(Files)
    /\ At("unpacking") => Files = {}
    /\ proc.pc \in Trusting => Fresh(Files)
    /\ proc.pc \in {"run", "mark"} => Earlier[proc.step] \subseteq Files
    /\ At("mark") => proc.step \in Files
    /\ At("link") => Steps \subseteq Files
    /\ proc.pc \in {"stop", "activate"} => Runnable(Files)

ReleaseInv == TypeOK /\ CurrentRunnable /\ Ordered /\ Trusted /\ Candidate

-----------------------------------------------------------------------------
(* Types *)

\* Writing into a release directory changes its files and the modification order only.
LEMMA AddFacts ==
    ASSUME TypeOK, NEW v \in Versions, NEW s \in SUBSET Parts
    PROVE  /\ Add(disk, v, s) \in Disks(Add(disk, v, s).recent)
           /\ Add(disk, v, s).current = disk.current
           /\ Add(disk, v, s).files = [disk.files EXCEPT ![v] = @ \cup s]
           /\ Add(disk, v, s).units = disk.units
           /\ Add(disk, v, s).status = disk.status
  BY DEF TypeOK, Disks, Add

\* An interrupted removal leaves a part of what was there.
LEMMA RemnantPart == ASSUME NEW files, NEW left \in Remnants(files)
                     PROVE  left \subseteq files
  <1>1. ASSUME NEW envs \in SUBSET SUBSET files, NEW marks \in SUBSET SUBSET files,
               left \in Debris(files, envs, marks)
        PROVE  left \subseteq files
    BY <1>1 DEF Debris, Torn
  <1>2. /\ {env \in Torn(files, Env) : env # {} => "venv" \in env} \in SUBSET SUBSET files
        /\ Torn(files, Marks) \in SUBSET SUBSET files
        /\ Whole(files, Marks) \in SUBSET SUBSET files
        /\ Whole(files, Env) \in SUBSET SUBSET files
    BY DEF Torn, Whole
  <1> QED BY <1>1, <1>2 DEF Remnants

LEMMA RemnantType == ASSUME NEW files \in SUBSET Parts, NEW left \in Remnants(files)
                     PROVE  left \in SUBSET Parts
  BY RemnantPart

\* What an interruption leaves alone, and what it may do to the files.
LEMMA InterruptedFacts ==
    ASSUME TypeOK, disk' \in Interrupted
    PROVE  /\ disk' \in Disks(disk'.recent)
           /\ disk'.current = disk.current /\ disk'.units = disk.units /\ disk'.status = disk.status
           /\ \/ disk'.files = disk.files
              \/ /\ At("removing")
                 /\ \E left \in Remnants(Files) : disk'.files = [disk.files EXCEPT ![Target] = left]
              \/ /\ At("cleanup")
                 /\ \E v \in Stale : \E left \in Remnants(disk.files[v]) :
                       disk'.files = [disk.files EXCEPT ![v] = left]
              \/ /\ At("run")
                 /\ disk'.files = [disk.files EXCEPT ![Target] = @ \cup {proc.step}]
  <1>1. disk \in Disks(disk.recent) /\ Target \in Versions /\ proc.step \in Steps
    BY DEF TypeOK, Procs, Target
  <1>2. Stale \subseteq Versions
    BY DEF Stale
  <1>3. CASE disk' = disk
    BY <1>1, <1>3
  <1>4. ASSUME NEW v \in Versions, NEW left \in Remnants(disk.files[v]),
               disk' = [disk EXCEPT !.files[v] = left]
        PROVE  /\ disk' \in Disks(disk'.recent)
               /\ disk'.current = disk.current /\ disk'.units = disk.units /\ disk'.status = disk.status
               /\ disk'.files = [disk.files EXCEPT ![v] = left]
    <2>1. left \in SUBSET Parts
      BY <1>1, <1>4, RemnantType DEF Disks
    <2> QED BY <1>1, <1>4, <2>1 DEF Disks
  <1>5. CASE At("removing")
    <2>1. disk' = disk \/ \E left \in Remnants(Files) : disk' = [disk EXCEPT !.files[Target] = left]
      BY <1>5 DEF Interrupted, Files, At
    <2> QED BY <1>1, <1>3, <1>4, <1>5, <2>1 DEF Files
  <1>6. CASE At("cleanup")
    <2>1. \/ disk' = disk
          \/ \E v \in Stale : \E left \in Remnants(disk.files[v]) : disk' = [disk EXCEPT !.files[v] = left]
      BY <1>6 DEF Interrupted, At
    <2>2. ASSUME NEW v \in Stale, NEW left \in Remnants(disk.files[v]),
                 disk' = [disk EXCEPT !.files[v] = left]
          PROVE  /\ disk' \in Disks(disk'.recent)
                 /\ disk'.current = disk.current /\ disk'.units = disk.units
                 /\ disk'.status = disk.status /\ disk'.files = [disk.files EXCEPT ![v] = left]
      BY <1>2, <1>4, <2>2
    <2> QED BY <1>3, <1>6, <2>1, <2>2
  <1>7. CASE At("run") /\ Mark[proc.step] \notin Files
    <2>1. disk' = disk \/ disk' = Add(disk, Target, {proc.step})
      BY <1>7 DEF Interrupted, At, Files
    <2>2. {proc.step} \in SUBSET Parts
      BY <1>1 DEF Steps, Parts, Content
    <2> QED BY <1>1, <1>3, <1>7, <2>1, <2>2, AddFacts DEF Files
  <1>8. CASE ~At("removing") /\ ~At("cleanup") /\ ~(At("run") /\ Mark[proc.step] \notin Files)
    BY <1>3, <1>8 DEF Interrupted, Files
  <1> QED BY <1>5, <1>6, <1>7, <1>8

\* Where a step of the process may go.
LEMMA ProcFacts ==
    ASSUME TypeOK
    PROVE  /\ \A pc \in Phases : Go(pc) => proc' \in Procs
           /\ Raise => proc' \in Procs
           /\ Fault => proc' \in Procs /\ world' \in Worlds
           /\ Idle \in Procs
           /\ Onward(proc.step) => proc' \in Procs
  <1>1. \A pc \in Phases : Go(pc) => proc' \in Procs
    BY DEF TypeOK, Go, Procs
  <1>2. Raise => proc' \in Procs
    BY DEF TypeOK, Raise, Procs, Phases
  <1>3. Fault => proc' \in Procs /\ world' \in Worlds
    BY <1>2, UpdaterBounds DEF Fault, TypeOK, Worlds
  <1>4. Idle \in Procs
    BY VersionsAssumption DEF Idle, Procs, Phases, Steps
  <1>5. Onward(proc.step) => proc' \in Procs
    <2>1. proc.step # "wheel" => Following[proc.step] \in Steps
      BY DEF TypeOK, Procs, Steps, Following
    <2> QED BY <2>1 DEF TypeOK, Onward, Procs, Phases
  <1> QED BY <1>1, <1>2, <1>3, <1>4, <1>5

LEMMA TypeUpdater == TypeOK /\ UpdaterStep => TypeOK'
  <1> SUFFICES ASSUME TypeOK, UpdaterStep PROVE TypeOK'
    OBVIOUS
  <1>0. /\ disk \in Disks(disk.recent) /\ proc \in Procs /\ svc \in Services /\ world \in Worlds
        /\ Target \in Versions /\ proc.step \in Steps
    BY DEF TypeOK, Procs, Target
  <1> USE <1>0, ProcFacts
  <1>1. CASE Check
    BY <1>1 DEF Check, TypeOK, Disks, Procs, Phases, States, Worlds
  <1>2. CASE Download
    BY <1>2 DEF Download, TypeOK, Phases
  <1>3. CASE Unpack
    BY <1>3 DEF Unpack, TypeOK, Disks, Say, States, Phases
  <1>4. CASE RemoveStale
    BY <1>4 DEF RemoveStale, TypeOK, Disks, Phases
  <1>5. CASE Rename
    <2>1. {"dir", "meta"} \in SUBSET Parts
      BY DEF Parts, Content
    <2> DEFINE d == Add(disk, Target, {"dir", "meta"})
    <2>2. d \in Disks(d.recent)
      BY <2>1, AddFacts
    <2>3. disk' = [d EXCEPT !.tmp = @ \ {Target}, !.status.state = "installing"]
      BY <1>5 DEF Rename
    <2> HIDE DEF d
    <2>4. disk' \in Disks(disk'.recent)
      BY <2>2, <2>3 DEF Disks, States
    <2> QED BY <1>5, <2>4 DEF Rename, TypeOK, Phases
  <1>6. CASE Validate
    BY <1>6 DEF Validate, TypeOK, Procs, Phases, Steps
  <1>7. CASE Run
    <2>1. {proc.step} \in SUBSET Parts
      BY DEF Steps, Parts, Content
    <2> QED BY <1>7, <2>1, AddFacts DEF Run, RunOnce, TypeOK, Phases
  <1>8. CASE MarkDone
    <2>1. {Mark[proc.step]} \in SUBSET Parts
      BY DEF Steps, Parts, Marks
    <2> QED BY <1>8, <2>1, AddFacts DEF MarkDone, TypeOK
  <1>9. CASE Link
    <2>1. {"bin"} \in SUBSET Parts
      BY DEF Parts, Content
    <2> QED BY <1>9, <2>1, AddFacts DEF Link, TypeOK, Phases
  <1>10. CASE Stop
    BY <1>10 DEF Stop, TypeOK, Disks, Procs, Services, Say, States, Phases
  <1>11. CASE Activate
    BY <1>11 DEF Activate, TypeOK, Disks, Phases
  <1>12. CASE RefreshUnits
    <2>1. \/ disk' = [disk EXCEPT !.units = Target, !.status.state = "cleanup"]
          \/ disk' = disk
          \/ disk' = [disk EXCEPT !.units = Target]
      BY <1>12 DEF RefreshUnits
    <2>2. disk' \in Disks(disk'.recent)
      <3>1. CASE disk' = [disk EXCEPT !.units = Target, !.status.state = "cleanup"]
        BY <3>1 DEF Disks, States
      <3>2. CASE disk' = disk
        BY <3>2
      <3>3. CASE disk' = [disk EXCEPT !.units = Target]
        BY <3>3 DEF Disks
      <3> QED BY <2>1, <3>1, <3>2, <3>3
    <2> QED BY <1>12, <2>2 DEF RefreshUnits, TypeOK, Phases
  <1>13. CASE RemoveOld
    <2>1. PICK v \in Stale :
             \/ disk' = [disk EXCEPT !.files[v] = {}] /\ UNCHANGED <<proc, world>>
             \/ Fault /\ \E left \in Remnants(disk.files[v]) : disk' = [disk EXCEPT !.files[v] = left]
      BY <1>13 DEF RemoveOld
    <2>2. v \in Versions /\ disk.files[v] \in SUBSET Parts
      BY DEF Stale, Disks
    <2>3. disk' \in Disks(disk'.recent)
      BY <2>1, <2>2, RemnantType DEF Disks
    <2> QED BY <1>13, <2>1, <2>3 DEF RemoveOld, TypeOK
  <1>14. CASE Cleaned
    BY <1>14 DEF Cleaned, TypeOK, Disks, States, Phases
  <1>15. CASE Exit
    <2>1. disk' \in Disks(disk'.recent)
      <3>1. PICK state \in {"complete", "failed"} : disk' = [disk EXCEPT !.status.state = state]
        BY <1>15 DEF Exit, Say, Verdict
      <3> QED BY <3>1 DEF Disks, States
    <2>2. svc' \in Services
      <3>1. Runnable(disk.files[disk.current]) \in BOOLEAN
        BY DEF Runnable
      <3> QED BY <1>15, <3>1 DEF Exit, Restarted, Services
    <2>3. world' \in Worlds
      BY <1>15, UpdaterBounds DEF Exit, Worlds
    <2> QED BY <1>15, <2>1, <2>2, <2>3 DEF Exit, TypeOK
  <1> QED BY <1>1, <1>2, <1>3, <1>4, <1>5, <1>6, <1>7, <1>8, <1>9, <1>10, <1>11, <1>12, <1>13, <1>14,
             <1>15 DEF UpdaterStep

\* A reboot or a kill: the files may have been caught half way, nothing else of the disk.
Abandoned == disk' \in Interrupted /\ proc' = Idle /\ world'.latest = world.latest

LEMMA TypeSurroundings ==
    TypeOK /\ (Watchdog \/ PowerLoss \/ Kill \/ \E v \in Versions : Publish(v)) => TypeOK'
  <1>0. ASSUME TypeOK, NEW n \in 0..Threshold, Boot(n) PROVE svc' \in Services
    <2>1. Runnable(disk.files[disk.current]) \in BOOLEAN
      BY DEF Runnable
    <2> QED BY <1>0, <2>1 DEF Boot, Services
  <1> USE UpdaterBounds
  <1>1. ASSUME TypeOK, Watchdog PROVE TypeOK'
    <2> DEFINE n == IF svc.failures < Threshold THEN svc.failures + 1 ELSE Threshold
    <2>1. n \in 0..Threshold /\ svc \in Services
      BY <1>1 DEF TypeOK, Services
    <2>2. \/ svc' = [svc EXCEPT !.failures = 0] /\ UNCHANGED <<disk, proc>>
          \/ svc' = [svc EXCEPT !.failures = n] /\ UNCHANGED <<disk, proc>>
          \/ disk' \in Interrupted /\ Boot(n)
      BY <1>1 DEF Watchdog
    <2> HIDE DEF n
    <2>3. svc' \in Services
      BY <1>0, <1>1, <2>1, <2>2 DEF Services
    <2>4. proc' \in Procs
      BY <1>1, <2>2, ProcFacts DEF TypeOK, Boot
    <2>5. disk' \in Disks(disk'.recent)
      BY <1>1, <2>2, InterruptedFacts DEF TypeOK
    <2> QED BY <1>1, <2>3, <2>4, <2>5 DEF Watchdog, TypeOK
  <1>2. ASSUME TypeOK, PowerLoss PROVE TypeOK'
    <2>1. svc.failures \in 0..Threshold
      BY <1>2 DEF TypeOK, Services
    <2>2. svc' \in Services
      BY <1>0, <1>2, <2>1 DEF PowerLoss
    <2> QED BY <1>2, <2>2, InterruptedFacts, ProcFacts DEF PowerLoss, Crashes, Boot, TypeOK, Worlds
  <1>3. ASSUME TypeOK, Kill PROVE TypeOK'
    BY <1>3, InterruptedFacts, ProcFacts DEF Kill, Crashes, TypeOK, Worlds
  <1>4. ASSUME TypeOK, NEW v \in Versions, Publish(v) PROVE TypeOK'
    BY <1>4 DEF Publish, TypeOK, Worlds
  <1> QED BY <1>1, <1>2, <1>3, <1>4

LEMMA TypeNext == TypeOK /\ [Next]_vars => TypeOK'
  <1>1. TypeOK /\ UNCHANGED vars => TypeOK'
    BY DEF vars, TypeOK
  <1> QED BY <1>1, TypeUpdater, TypeSurroundings DEF Next

\* What the surroundings do: the run is abandoned, or only a service, the watchdog's
\* count or the published release changes.
LEMMA SurroundingsFacts ==
    ASSUME TypeOK, Watchdog \/ PowerLoss \/ Kill \/ \E v \in Versions : Publish(v)
    PROVE  \/ Abandoned
           \/ UNCHANGED <<disk, proc>> /\ world'.latest = world.latest
           \/ UNCHANGED <<disk, proc>> /\ world'.latest \in Versions
                                        /\ (world'.latest > world.latest \/ Reoffered)
  <1>1. CASE Watchdog
    BY <1>1 DEF Watchdog, Boot, Abandoned
  <1>2. CASE PowerLoss
    BY <1>2 DEF PowerLoss, Crashes, Boot, Abandoned, TypeOK, Worlds
  <1>3. CASE Kill
    BY <1>3 DEF Kill, Crashes, Abandoned, TypeOK, Worlds
  <1>4. ASSUME NEW v \in Versions, Publish(v)
        PROVE  /\ UNCHANGED <<disk, proc>> /\ world'.latest \in Versions
               /\ (world'.latest > world.latest \/ Reoffered)
    BY <1>4 DEF Publish, TypeOK, Worlds
  <1> QED BY <1>1, <1>2, <1>3, <1>4

-----------------------------------------------------------------------------
(* What the status file says *)

LEMMA InitStatus == Init => StatusInv
  <1> SUFFICES ASSUME Init PROVE StatusInv
    OBVIOUS
  <1>1. disk \in Disks(disk.recent)
    BY VersionsAssumption DEF Init, Disks, States, Parts, Content
  <1>2. proc \in Procs
    BY VersionsAssumption DEF Init, Idle, Procs, Phases, Steps
  <1>3. svc \in Services /\ world \in Worlds
    BY VersionsAssumption, UpdaterBounds DEF Init, Services, Worlds
  <1> QED BY <1>1, <1>2, <1>3 DEF Init, StatusInv, TypeOK, At, Idle, Activated, Succeeding, CompleteIsTrue

\* A step that leaves the links and the verdict of the status file alone, and the run
\* under way, started no further than before.
LEMMA StatusKept ==
    ASSUME StatusInv, TypeOK', disk'.current = disk.current, disk'.units = disk.units,
           disk'.status.target = disk.status.target,
           disk'.status.state = "complete" => disk.status.state = "complete",
           \/ proc' = Idle
           \/ /\ ~At("idle") /\ Target' = Target
              /\ proc'.pc \in Activated \/ Succeeding' => FALSE
    PROVE  StatusInv'
  BY DEF StatusInv, TypeOK, Disks, At, Idle, Activated, Succeeding, CompleteIsTrue, Target

LEMMA StatusUpdater == StatusInv /\ UpdaterStep => StatusInv'
  <1> SUFFICES ASSUME StatusInv, UpdaterStep PROVE StatusInv'
    OBVIOUS
  <1>0. /\ TypeOK /\ disk \in Disks(disk.recent) /\ proc \in Procs /\ world \in Worlds /\ TypeOK'
        /\ Target \in Versions /\ proc.step \in Steps
    BY TypeUpdater DEF StatusInv, TypeOK, Procs, Target
  <1>F. Fault => /\ proc'.pc = "exit" /\ ~proc'.ok /\ Target' = Target
    BY <1>0 DEF Fault, Raise, Procs, Target
  <1>G. \A pc \in Phases : Go(pc) => proc'.pc = pc /\ Target' = Target
    BY <1>0 DEF Go, Procs, Target
  <1>O. Onward(proc.step) => proc'.pc \in {"link", "run"} /\ Target' = Target
    BY <1>0 DEF Onward, Procs, Target
  <1> USE <1>0, <1>F, <1>G, <1>O DEF Activated, Succeeding
  <1>1. CASE Check
    BY <1>1 DEF Check, StatusInv, Disks, Procs, Idle, At, Target, CompleteIsTrue
  <1>2. CASE Download
    BY <1>2, StatusKept DEF Download, At, Phases
  <1>3. CASE Unpack
    <2>1. /\ disk'.current = disk.current /\ disk'.units = disk.units
          /\ disk'.status.target = disk.status.target
          /\ disk'.status.state = "complete" => disk.status.state = "complete"
      BY <1>3 DEF Unpack, Say, Disks
    <2>2. Target' = Target /\ proc'.pc \notin Activated /\ ~Succeeding'
      BY <1>3 DEF Unpack, Phases, Raise, Target, Procs
    <2> QED BY <1>3, <2>1, <2>2, StatusKept DEF Unpack, At
  <1>4. CASE RemoveStale
    BY <1>4, StatusKept DEF RemoveStale, At, Disks, Phases
  <1>5. CASE Rename
    <2> DEFINE d == Add(disk, Target, {"dir", "meta"})
    <2>1. d \in Disks(d.recent) /\ d.current = disk.current /\ d.units = disk.units /\ d.status = disk.status
      BY AddFacts DEF Parts, Content
    <2>2. disk' = [d EXCEPT !.tmp = @ \ {Target}, !.status.state = "installing"]
      BY <1>5 DEF Rename
    <2> HIDE DEF d
    <2>3. /\ disk'.current = disk.current /\ disk'.units = disk.units
          /\ disk'.status.target = disk.status.target /\ disk'.status.state = "installing"
      BY <2>1, <2>2 DEF Disks
    <2> QED BY <1>5, <2>3, StatusKept DEF Rename, At, Phases
  <1>6. CASE Validate
    BY ZenonT(40), <1>6, StatusKept DEF Validate, At, Raise, Procs, Target
  <1>7. CASE Run
    <2>1. {proc.step} \in SUBSET Parts
      BY DEF Steps, Parts, Content
    <2>2. disk'.current = disk.current /\ disk'.units = disk.units /\ disk'.status = disk.status
      <3>1. disk' = disk \/ disk' = Add(disk, Target, {proc.step})
        BY <1>7 DEF Run, RunOnce
      <3>2. /\ Add(disk, Target, {proc.step}).current = disk.current
            /\ Add(disk, Target, {proc.step}).units = disk.units
            /\ Add(disk, Target, {proc.step}).status = disk.status
        BY <2>1, AddFacts
      <3> QED BY <3>1, <3>2
    <2>3. Target' = Target /\ proc'.pc \notin Activated /\ ~Succeeding'
      BY <1>7 DEF Run, RunOnce, Phases
    <2> QED BY <1>7, <2>2, <2>3, StatusKept DEF Run, At
  <1>8. CASE MarkDone
    <2>1. {Mark[proc.step]} \in SUBSET Parts
      BY DEF Steps, Parts, Marks
    <2>2. disk'.current = disk.current /\ disk'.units = disk.units /\ disk'.status = disk.status
      BY <1>8, <2>1, AddFacts DEF MarkDone
    <2> QED BY <1>8, <2>2, StatusKept DEF MarkDone, At
  <1>9. CASE Link
    <2>1. disk'.current = disk.current /\ disk'.units = disk.units /\ disk'.status = disk.status
      BY <1>9, AddFacts DEF Link, Parts, Content
    <2> QED BY <1>9, <2>1, StatusKept DEF Link, At, Phases, Raise, Procs, Target
  <1>10. CASE Stop
    BY <1>10, StatusKept DEF Stop, Say, Disks, Procs, At, Target
  <1>11. CASE Activate
    <2>1. CASE disk' = [disk EXCEPT !.current = Target] /\ Go("units")
      BY <1>11, <2>1 DEF Activate, StatusInv, Disks, At, CompleteIsTrue, Phases, Target
    <2>2. CASE Fault /\ UNCHANGED disk
      BY <1>11, <2>2, StatusKept DEF Activate, At
    <2> QED BY <1>11, <2>1, <2>2 DEF Activate
  <1>12. CASE RefreshUnits
    <2>1. CASE disk' = [disk EXCEPT !.units = Target, !.status.state = "cleanup"] /\ Go("cleanup")
      BY <1>12, <2>1 DEF RefreshUnits, StatusInv, Disks, At, CompleteIsTrue, Phases, Target
    <2>2. CASE Fault /\ disk' = disk
      BY <1>12, <2>2, StatusKept DEF RefreshUnits, At
    <2>3. CASE Fault /\ disk' = [disk EXCEPT !.units = Target]
      BY <1>12, <2>3 DEF RefreshUnits, StatusInv, Disks, At, CompleteIsTrue, Target
    <2> QED BY <1>12, <2>1, <2>2, <2>3 DEF RefreshUnits
  <1>13. CASE RemoveOld
    <2>1. PICK v \in Stale :
             \/ disk' = [disk EXCEPT !.files[v] = {}] /\ UNCHANGED <<proc, world>>
             \/ Fault /\ \E left \in Remnants(disk.files[v]) : disk' = [disk EXCEPT !.files[v] = left]
      BY <1>13 DEF RemoveOld
    <2>2. disk'.current = disk.current /\ disk'.units = disk.units /\ disk'.status = disk.status
      BY <2>1 DEF Disks
    <2>3. CASE UNCHANGED proc
      BY <1>13, <2>2, <2>3 DEF RemoveOld, StatusInv, At, CompleteIsTrue, Target
    <2>4. CASE Fault
      BY <1>13, <2>2, <2>4, StatusKept DEF RemoveOld, At
    <2> QED BY <2>1, <2>3, <2>4
  <1>14. CASE Cleaned
    BY <1>14 DEF Cleaned, StatusInv, Disks, At, CompleteIsTrue, Phases, Procs, Target
  <1>15. CASE Exit
    <2>1. PICK state \in {"complete", "failed"} :
             disk' = [disk EXCEPT !.status.state = state] /\ (state = "complete" => proc.ok)
      BY <1>15 DEF Exit, Say, Verdict
    <2>2. /\ disk'.current = disk.current /\ disk'.units = disk.units
          /\ disk'.status.target = disk.status.target /\ disk'.status.state = state
      BY <2>1 DEF Disks
    <2> QED BY <1>15, <2>1, <2>2 DEF Exit, StatusInv, At, Idle, CompleteIsTrue, Target
  <1> QED BY <1>1, <1>2, <1>3, <1>4, <1>5, <1>6, <1>7, <1>8, <1>9, <1>10, <1>11, <1>12, <1>13, <1>14,
             <1>15 DEF UpdaterStep

LEMMA NextStatus == StatusInv /\ [Next]_vars => StatusInv'
  <1> SUFFICES ASSUME StatusInv, [Next]_vars PROVE StatusInv'
    OBVIOUS
  <1>0. TypeOK /\ TypeOK'
    BY TypeNext DEF StatusInv
  <1>1. CASE UpdaterStep
    BY <1>1, StatusUpdater
  <1>2. CASE Watchdog \/ PowerLoss \/ Kill \/ \E v \in Versions : Publish(v)
    <2>1. CASE Abandoned
      BY <1>0, <2>1, InterruptedFacts, StatusKept DEF Abandoned
    <2>2. CASE UNCHANGED <<disk, proc>>
      BY <1>0, <2>2 DEF StatusInv, At, Activated, Succeeding, CompleteIsTrue, Target
    <2> QED BY <1>0, <1>2, <2>1, <2>2, SurroundingsFacts
  <1>3. CASE UNCHANGED vars
    BY <1>0, <1>3 DEF vars, StatusInv, At, Activated, Succeeding, CompleteIsTrue, Target
  <1> QED BY <1>1, <1>2, <1>3 DEF Next

\* Every field of the disk, the process and the services keeps its type.
THEOREM UpdaterTypeCorrect == Spec => []TypeOK
  <1>1. StatusInv => TypeOK
    BY DEF StatusInv
  <1> QED BY <1>1, InitStatus, NextStatus, PTL DEF Spec

\* A status that says complete is true of the current link and of the unit files, whatever
\* fails or is interrupted (run).
THEOREM CompleteStatusIsTrue == Spec => []CompleteIsTrue
  <1>1. StatusInv => CompleteIsTrue
    BY DEF StatusInv
  <1> QED BY <1>1, InitStatus, NextStatus, PTL DEF Spec

-----------------------------------------------------------------------------
(* Which releases are whole *)

LEMMA Numbers ==
    ASSUME TypeOK
    PROVE  /\ \A v \in Versions : v \in Nat
           /\ disk.current \in Versions /\ world.latest \in Versions /\ Target \in Versions
           /\ proc.step \in Steps /\ disk.files \in [Versions -> SUBSET Parts]
  BY VersionsAssumption DEF TypeOK, Disks, Worlds, Procs, Target

LEMMA RemnantFacts ==
    ASSUME NEW files, NEW left \in Remnants(files)
    PROVE  (left # {} => files # {}) /\ (Fresh(left) => Fresh(files))
  BY RemnantPart DEF Fresh

LEMMA InitRelease == Init => ReleaseInv
  <1> SUFFICES ASSUME Init PROVE ReleaseInv
    OBVIOUS
  <1>1. TypeOK
    BY InitStatus DEF StatusInv
  <1>2. \A v \in Versions : disk.files[v] = IF v = First THEN Content \cup Marks ELSE {}
    BY DEF Init
  <1>3. disk.current = First /\ world.latest = First /\ proc.pc = "idle" /\ First \in Versions /\ First \in Nat
    BY VersionsAssumption DEF Init, Idle
  <1>4. CurrentRunnable
    BY <1>2, <1>3 DEF CurrentRunnable, Runnable
  <1>5. Ordered
    BY <1>2, <1>3 DEF Ordered, Running, Preparing, Activated
  <1>6. Trusted
    <2>1. \A v \in Versions : disk.current < v => v # First
      BY <1>3
    <2>2. \A v \in Versions : v # First => ~Fresh(disk.files[v])
      BY <1>2 DEF Fresh
    <2> QED BY <2>1, <2>2 DEF Trusted
  <1>7. Candidate
    BY <1>3 DEF Candidate, At, Trusting
  <1> QED BY <1>1, <1>4, <1>5, <1>6, <1>7 DEF ReleaseInv

\* Content added to a candidate keeps what is known of every directory.
LEMMA Grown ==
    ASSUME ReleaseInv, proc.pc \in Trusting, NEW s \in SUBSET Content,
           disk'.current = disk.current, disk'.files = [disk.files EXCEPT ![Target] = @ \cup s]
    PROVE  /\ CurrentRunnable' /\ Trusted' /\ Fresh(disk'.files[Target])
           /\ disk'.files[Target] = Files \cup s
           /\ \A v \in Versions : disk'.files[v] # {} => disk.files[v] # {}
  <1>1. TypeOK /\ Target \in Versions /\ disk.files \in [Versions -> SUBSET Parts] /\ Fresh(Files)
        /\ disk.current \in Versions
    BY Numbers DEF ReleaseInv, Candidate
  <1>2. disk'.files[Target] = Files \cup s /\ \A v \in Versions \ {Target} : disk'.files[v] = disk.files[v]
    BY <1>1 DEF Files
  <1>3. Fresh(disk'.files[Target]) /\ Files # {}
    BY <1>1, <1>2 DEF Fresh
  <1>4. CurrentRunnable'
    BY <1>1, <1>2 DEF ReleaseInv, CurrentRunnable, Runnable, Files
  <1>5. Honest(Files) => Honest(Files \cup s)
    BY DEF Honest, Steps, Mark, Content
  <1>6. disk.current < Target
    BY DEF ReleaseInv, Ordered, Trusting, Preparing
  <1>7. Honest(Files)
    BY <1>1, <1>6 DEF ReleaseInv, Trusted, Files
  <1>8. Trusted'
    <2> SUFFICES ASSUME NEW v \in Versions, disk.current < v, Fresh(disk'.files[v])
                 PROVE  Honest(disk'.files[v])
      BY DEF Trusted
    <2>1. CASE v = Target
      BY <1>2, <1>5, <1>7, <2>1
    <2>2. CASE v # Target
      BY <1>2, <2>2 DEF ReleaseInv, Trusted
    <2> QED BY <2>1, <2>2
  <1> QED BY <1>2, <1>3, <1>4, <1>8 DEF Files

\* A directory other than the current one that is removed, or of which something is left.
LEMMA Shrunk ==
    ASSUME ReleaseInv, NEW v \in Versions, v # disk.current, NEW left,
           left = {} \/ left \in Remnants(disk.files[v]),
           v < disk.current \/ ~Fresh(disk.files[v]),
           disk'.current = disk.current, disk'.files = [disk.files EXCEPT ![v] = left]
    PROVE  /\ CurrentRunnable' /\ Trusted'
           /\ \A w \in Versions : disk'.files[w] # {} => disk.files[w] # {}
  <1>1. TypeOK /\ disk.files \in [Versions -> SUBSET Parts] /\ disk.current \in Versions
        /\ v \in Nat /\ disk.current \in Nat
    BY Numbers DEF ReleaseInv
  <1>2. disk'.files[v] = left /\ \A w \in Versions \ {v} : disk'.files[w] = disk.files[w]
    BY <1>1
  <1>3. (left # {} => disk.files[v] # {}) /\ (Fresh(left) => Fresh(disk.files[v]))
    BY RemnantFacts DEF Fresh
  <1>4. CurrentRunnable'
    BY <1>1, <1>2 DEF ReleaseInv, CurrentRunnable
  <1>5. Trusted'
    <2> SUFFICES ASSUME NEW w \in Versions, disk.current < w, Fresh(disk'.files[w])
                 PROVE  Honest(disk'.files[w])
      BY DEF Trusted
    <2>1. w # v
      BY <1>1, <1>2, <1>3
    <2> QED BY <1>2, <2>1 DEF ReleaseInv, Trusted
  <1> QED BY <1>2, <1>3, <1>4, <1>5

\* A run that is over, however far it came, leaves no obligation but these.
LEMMA Over ==
    ASSUME ReleaseInv, TypeOK', proc'.pc \in {"idle", "exit"},
           disk'.current = disk.current, world'.latest = world.latest,
           CurrentRunnable', Trusted', \A v \in Versions : disk'.files[v] # {} => disk.files[v] # {}
    PROVE  ReleaseInv'
  <1>1. Ordered'
    BY DEF ReleaseInv, Ordered, Running, Preparing, Activated
  <1>2. Candidate'
    BY DEF Candidate, At, Trusting
  <1> QED BY <1>1, <1>2 DEF ReleaseInv

LEMMA OverUntouched ==
    ASSUME ReleaseInv, TypeOK', proc'.pc \in {"idle", "exit"}, disk'.current = disk.current,
           world'.latest = world.latest, disk'.files = disk.files
    PROVE  ReleaseInv'
  <1>1. CurrentRunnable' /\ Trusted'
    BY DEF ReleaseInv, CurrentRunnable, Trusted
  <1> QED BY <1>1, Over

\* Stale directories are older than the current release.
LEMMA StaleIsOld ==
    ASSUME ReleaseInv, At("cleanup"), NEW v \in Stale
    PROVE  v \in Versions /\ v # disk.current /\ v < disk.current
  <1>1. v \in Versions /\ v # disk.current /\ disk.files[v] # {}
    BY DEF Stale, Kept
  <1>2. v <= Target /\ disk.current = Target
    BY <1>1 DEF ReleaseInv, Ordered, At, Running, Activated
  <1> QED BY <1>1, <1>2, Numbers DEF ReleaseInv

LEMMA ReleaseAbandoned == ReleaseInv /\ TypeOK' /\ Abandoned => ReleaseInv'
  <1> SUFFICES ASSUME ReleaseInv, TypeOK', Abandoned PROVE ReleaseInv'
    OBVIOUS
  <1>0. TypeOK /\ proc'.pc = "idle" /\ disk'.current = disk.current /\ world'.latest = world.latest
        /\ Target \in Versions /\ disk.current \in Nat
    BY InterruptedFacts, Numbers DEF ReleaseInv, Abandoned, Idle
  <1>1. CASE disk'.files = disk.files
    BY <1>0, <1>1, OverUntouched
  <1>2. CASE At("removing") /\ \E left \in Remnants(Files) : disk'.files = [disk.files EXCEPT ![Target] = left]
    <2>1. Target # disk.current /\ ~Fresh(disk.files[Target])
      BY <1>0, <1>2 DEF ReleaseInv, Ordered, Candidate, At, Preparing, Files
    <2> QED BY <1>0, <1>2, <2>1, Shrunk, Over DEF Files
  <1>3. CASE /\ At("cleanup")
             /\ \E v \in Stale : \E left \in Remnants(disk.files[v]) :
                   disk'.files = [disk.files EXCEPT ![v] = left]
    BY <1>0, <1>3, StaleIsOld, Shrunk, Over
  <1>4. CASE At("run") /\ disk'.files = [disk.files EXCEPT ![Target] = @ \cup {proc.step}]
    <2>1. {proc.step} \in SUBSET Content /\ proc.pc \in Trusting
      BY <1>0, <1>4, Numbers DEF Steps, Content, At, Trusting
    <2> QED BY <1>0, <1>4, <2>1, Grown, Over
  <1> QED BY <1>0, <1>1, <1>2, <1>3, <1>4, InterruptedFacts DEF Abandoned

LEMMA ReleaseUpdater == ReleaseInv /\ UpdaterStep => ReleaseInv'
  <1> SUFFICES ASSUME ReleaseInv, UpdaterStep PROVE ReleaseInv'
    OBVIOUS
  <1>0. /\ TypeOK /\ TypeOK' /\ proc \in Procs /\ world \in Worlds /\ disk \in Disks(disk.recent)
        /\ Target \in Versions /\ Target \in Nat /\ disk.current \in Versions /\ disk.current \in Nat
        /\ world.latest \in Versions /\ world.latest \in Nat /\ proc.step \in Steps
        /\ disk.files \in [Versions -> SUBSET Parts] /\ Files = disk.files[Target]
    BY TypeUpdater, Numbers DEF ReleaseInv, TypeOK, Files
  <1>F. Fault => proc'.pc = "exit" /\ world'.latest = world.latest
    BY <1>0 DEF Fault, Raise, Procs, Worlds
  <1>R. Raise => proc'.pc = "exit"
    BY <1>0 DEF Raise, Procs
  <1>G. \A pc \in Phases : Go(pc) => proc'.pc = pc /\ Target' = Target /\ proc'.step = proc.step
    BY <1>0 DEF Go, Procs, Target
  <1>A. \A s \in SUBSET Parts : /\ Add(disk, Target, s).current = disk.current
                               /\ Add(disk, Target, s).files = [disk.files EXCEPT ![Target] = @ \cup s]
    BY <1>0, AddFacts
  <1>P. \* The candidate of a run that is being prepared is not the current release.
        proc.pc \in Preparing => disk.current < Target /\ Target <= world.latest
    BY DEF ReleaseInv, Ordered, Running
  <1>N. ASSUME Onward(proc.step), proc.step \in Files, Earlier[proc.step] \subseteq Files
        PROVE  /\ Target' = Target
               /\ \/ proc'.pc = "link" /\ Steps \subseteq Files
                  \/ proc'.pc = "run" /\ Earlier[proc'.step] \subseteq Files
    <2>1. CASE proc.step = "wheel"
      BY <1>0, <1>N, <2>1 DEF Onward, Procs, Target, Earlier, Steps
    <2>2. CASE proc.step # "wheel"
      <3>1. /\ proc'.pc = "run" /\ Target' = Target /\ proc'.step = Following[proc.step]
        BY <1>0, <1>N, <2>2 DEF Onward, Procs, Target
      <3>2. Earlier[Following[proc.step]] = Earlier[proc.step] \cup {proc.step}
        BY <1>0, <2>2 DEF Earlier, Following, Steps
      <3> QED BY <1>N, <3>1, <3>2
    <2> QED BY <2>1, <2>2
  <1>1. CASE Check
    <2>1. /\ proc'.pc = "checked" /\ Target' = world.latest /\ world' = world
          /\ disk'.current = disk.current /\ disk'.files = disk.files
      BY <1>0, <1>1 DEF Check, Idle, Target, Disks
    <2>2. disk.current < world.latest
      BY <1>0, <1>1 DEF Check, ReleaseInv, Ordered
    <2>3. Ordered'
      BY <1>0, <2>1, <2>2 DEF ReleaseInv, Ordered, Running, Preparing, Activated
    <2> QED BY <1>0, <2>1, <2>3 DEF ReleaseInv, CurrentRunnable, Trusted, Candidate, At, Trusting
  <1>2. CASE Download
    <2>1. CASE Go("verified") /\ UNCHANGED world
      <3>1. proc'.pc = "verified" /\ Target' = Target /\ proc.pc = "checked" /\ disk' = disk /\ world' = world
        BY <1>2, <1>G, <2>1 DEF Download, At, Phases
      <3> QED BY <1>0, <3>1 DEF ReleaseInv, CurrentRunnable, Ordered, Trusted, Candidate, At, Running,
                                Preparing, Activated, Trusting
    <2>2. CASE Fault
      BY <1>0, <1>2, <1>F, <2>2, OverUntouched DEF Download
    <2> QED BY <1>2, <2>1, <2>2 DEF Download
  <1>3. CASE Unpack
    <2>0. proc.pc = "verified"
      BY <1>3 DEF Unpack, At
    <2>1. disk'.current = disk.current /\ disk'.files = disk.files
      BY <1>0, <1>3 DEF Unpack, Say, Disks
    <2>2. CASE proc'.pc = "exit"
      BY <1>0, <1>3, <1>F, <2>1, <2>2, OverUntouched DEF Unpack
    <2>3. CASE /\ world' = world /\ Target' = Target
               /\ \/ proc'.pc = "validate" /\ Fresh(Files)
                  \/ proc'.pc = "removing" /\ ~Fresh(Files)
      <3>1. Ordered'
        BY <1>0, <2>0, <2>1, <2>3 DEF ReleaseInv, Ordered, Running, Preparing, Activated
      <3>2. Candidate'
        BY <1>0, <2>1, <2>3 DEF Candidate, At, Trusting, Files
      <3> QED BY <1>0, <2>1, <3>1, <3>2 DEF ReleaseInv, CurrentRunnable, Trusted
    <2>4. CASE Fault \/ Raise
      BY <1>F, <1>R, <2>2, <2>4
    <2>5. CASE Fresh(Files) /\ Go("validate") /\ world' = world
      BY <1>G, <2>3, <2>5 DEF Phases
    <2>6. CASE ~Fresh(Files) /\ Go("removing") /\ world' = world
      BY <1>G, <2>3, <2>6 DEF Phases
    <2> QED BY <1>0, <1>3, <2>4, <2>5, <2>6 DEF Unpack
  <1>4. CASE RemoveStale
    <2>1. /\ proc.pc = "removing" /\ proc'.pc = "unpacking" /\ Target' = Target /\ world' = world
          /\ disk'.current = disk.current /\ disk'.files = [disk.files EXCEPT ![Target] = {}]
      BY <1>0, <1>4, <1>G DEF RemoveStale, At, Phases, Disks
    <2>2. Target # disk.current /\ ~Fresh(Files)
      BY <1>0, <1>P, <2>1 DEF ReleaseInv, Candidate, At, Preparing
    <2>3. /\ CurrentRunnable' /\ Trusted'
          /\ \A v \in Versions : disk'.files[v] # {} => disk.files[v] # {}
      BY <1>0, <2>1, <2>2, Shrunk
    <2>4. Ordered'
      BY <1>0, <2>1, <2>3 DEF ReleaseInv, Ordered, Running, Preparing, Activated
    <2>5. Candidate'
      BY <1>0, <2>1 DEF Candidate, At, Trusting, Files
    <2> QED BY <1>0, <2>3, <2>4, <2>5 DEF ReleaseInv
  <1>5. CASE Rename
    <2> DEFINE d == Add(disk, Target, {"dir", "meta"})
    <2>1. d \in Disks(d.recent) /\ d.current = disk.current
          /\ d.files = [disk.files EXCEPT ![Target] = @ \cup {"dir", "meta"}]
      BY <1>0, AddFacts DEF Parts, Content
    <2>2. disk' = [d EXCEPT !.tmp = @ \ {Target}, !.status.state = "installing"]
      BY <1>5 DEF Rename
    <2> HIDE DEF d
    <2>3. disk'.current = disk.current /\ disk'.files = [disk.files EXCEPT ![Target] = @ \cup {"dir", "meta"}]
      BY <2>1, <2>2 DEF Disks
    <2>4. proc.pc = "unpacking" /\ proc'.pc = "validate" /\ Target' = Target /\ world' = world
      BY <1>5, <1>G DEF Rename, At, Phases
    <2>5. Files = {} /\ Target # disk.current
      BY <1>0, <1>P, <2>4 DEF ReleaseInv, Candidate, At, Preparing
    <2>6. /\ disk'.files[Target] = {"dir", "meta"}
          /\ \A v \in Versions \ {Target} : disk'.files[v] = disk.files[v]
      BY <1>0, <2>3, <2>5
    <2>7. CurrentRunnable'
      BY <1>0, <2>3, <2>5, <2>6 DEF ReleaseInv, CurrentRunnable
    <2>8. Ordered'
      BY <1>0, <2>3, <2>4, <2>6 DEF ReleaseInv, Ordered, Running, Preparing, Activated
    <2>9. Trusted'
      <3>1. Honest({"dir", "meta"})
        BY DEF Honest, Steps, Mark
      <3> QED BY <2>3, <2>6, <3>1 DEF ReleaseInv, Trusted
    <2>10. Candidate'
      BY <2>4, <2>6 DEF Candidate, At, Trusting, Files, Fresh
    <2> QED BY <1>0, <2>7, <2>8, <2>9, <2>10 DEF ReleaseInv
  <1>6. CASE Validate
    <2>1. CASE Raise
      BY <1>0, <1>6, <1>R, <2>1, OverUntouched DEF Validate
    <2>2. CASE proc' = [proc EXCEPT !.pc = "run", !.step = "venv"]
      <3>1. /\ proc.pc = "validate" /\ proc'.pc = "run" /\ proc'.step = "venv" /\ Target' = Target
            /\ disk' = disk /\ world' = world
        BY <1>0, <1>6, <2>2 DEF Validate, At, Procs, Target
      <3>2. Earlier["venv"] = {}
        BY DEF Earlier
      <3> QED BY <1>0, <3>1, <3>2 DEF ReleaseInv, CurrentRunnable, Ordered, Trusted, Candidate, At,
                                      Running, Preparing, Activated, Trusting, Files
    <2> QED BY <1>6, <2>1, <2>2 DEF Validate
  <1>T. proc.pc \in Trusting => /\ Fresh(Files) /\ Honest(Files) /\ disk.current < Target
                              /\ Target <= world.latest
    BY <1>0, <1>P DEF ReleaseInv, Candidate, Trusted, Trusting, Preparing
  <1>7. CASE Run
    <2>0. proc.pc = "run" /\ Fresh(Files) /\ Honest(Files) /\ Earlier[proc.step] \subseteq Files
      BY <1>7, <1>T DEF Run, At, ReleaseInv, Candidate, Trusting
    <2>1. CASE Mark[proc.step] \in Files
      <3>1. Onward(proc.step) /\ disk' = disk /\ world' = world
        BY <1>0, <1>7, <2>1 DEF Run, RunOnce
      <3>2. proc.step \in Files
        BY <1>0, <2>0, <2>1 DEF Honest
      <3>3. Files' = Files /\ Target' = Target
        BY <1>N, <2>0, <3>1, <3>2 DEF Files
      <3> QED BY <1>0, <1>N, <2>0, <3>1, <3>2, <3>3 DEF ReleaseInv, CurrentRunnable, Ordered, Trusted,
                  Candidate, At, Running, Preparing, Activated, Trusting
    <2>2. CASE Go("mark") /\ disk' = Add(disk, Target, {proc.step}) /\ UNCHANGED world
      <3>1. {proc.step} \in SUBSET Content /\ {proc.step} \in SUBSET Parts /\ proc.pc \in Trusting
        BY <1>0, <2>0 DEF Steps, Parts, Content, Trusting
      <3>2. /\ proc'.pc = "mark" /\ Target' = Target /\ proc'.step = proc.step /\ world' = world
            /\ disk'.current = disk.current
            /\ disk'.files = [disk.files EXCEPT ![Target] = @ \cup {proc.step}]
        BY <1>A, <1>G, <2>2, <3>1 DEF Phases
      <3>3. /\ CurrentRunnable' /\ Trusted' /\ Fresh(disk'.files[Target])
            /\ disk'.files[Target] = Files \cup {proc.step}
            /\ \A v \in Versions : disk'.files[v] # {} => disk.files[v] # {}
        BY <3>1, <3>2, Grown
      <3>4. Ordered'
        BY <1>0, <2>0, <3>2, <3>3 DEF ReleaseInv, Ordered, Running, Preparing, Activated
      <3>5. Candidate'
        BY <2>0, <3>2, <3>3 DEF Candidate, At, Trusting, Files
      <3> QED BY <1>0, <3>3, <3>4, <3>5 DEF ReleaseInv
    <2>3. CASE Fault /\ disk' \in {disk, Add(disk, Target, {proc.step})}
      <3>1. {proc.step} \in SUBSET Content /\ {proc.step} \in SUBSET Parts /\ proc.pc \in Trusting
        BY <1>0, <2>0 DEF Steps, Parts, Content, Trusting
      <3>2. CASE disk' = disk
        BY <1>0, <1>F, <2>3, <3>2, OverUntouched
      <3>3. CASE disk' = Add(disk, Target, {proc.step})
        <4>1. disk'.current = disk.current /\ disk'.files = [disk.files EXCEPT ![Target] = @ \cup {proc.step}]
          BY <1>A, <3>1, <3>3
        <4> QED BY <1>0, <1>F, <2>3, <3>1, <4>1, Grown, Over
      <3> QED BY <2>3, <3>2, <3>3
    <2> QED BY <1>0, <1>7, <2>1, <2>2, <2>3 DEF Run, RunOnce
  <1>8. CASE MarkDone
    <2>0. /\ proc.pc = "mark" /\ Fresh(Files) /\ Honest(Files) /\ Earlier[proc.step] \subseteq Files
          /\ proc.step \in Files
      BY <1>8, <1>T DEF MarkDone, At, ReleaseInv, Candidate, Trusting
    <2>1. {Mark[proc.step]} \in SUBSET Parts
      BY <1>0 DEF Parts, Marks
    <2>2. /\ Target' = Target /\ world' = world /\ disk'.current = disk.current
          /\ disk'.files = [disk.files EXCEPT ![Target] = @ \cup {Mark[proc.step]}]
      BY <1>8, <1>A, <1>N, <2>0, <2>1 DEF MarkDone
    <2>3. /\ Files' = Files \cup {Mark[proc.step]}
          /\ \A v \in Versions \ {Target} : disk'.files[v] = disk.files[v]
      BY <1>0, <2>2 DEF Files
    <2>4. Honest(Files')
      BY <1>0, <2>0, <2>3 DEF Honest, Steps, Mark
    <2>5. CurrentRunnable'
      BY <1>0, <1>T, <2>0, <2>2, <2>3 DEF ReleaseInv, CurrentRunnable, Trusting
    <2>6. Trusted'
      BY <1>0, <2>2, <2>3, <2>4 DEF ReleaseInv, Trusted, Files
    <2>7. Files # {} /\ Fresh(Files')
      BY <2>0, <2>3 DEF Fresh
    <2>8. \/ proc'.pc = "link" /\ Steps \subseteq Files'
          \/ proc'.pc = "run" /\ Earlier[proc'.step] \subseteq Files'
      BY <1>8, <1>N, <2>0, <2>3 DEF MarkDone
    <2>9. Ordered'
      BY <1>0, <2>0, <2>2, <2>3, <2>7, <2>8 DEF ReleaseInv, Ordered, Running, Preparing, Activated, Files
    <2>10. Candidate'
      BY <2>7, <2>8 DEF Candidate, At, Trusting
    <2> QED BY <1>0, <2>5, <2>6, <2>9, <2>10 DEF ReleaseInv
  <1>9. CASE Link
    <2>0. proc.pc = "link" /\ proc.pc \in Trusting /\ Steps \subseteq Files
      BY <1>9 DEF Link, At, ReleaseInv, Candidate, Trusting
    <2>1. {"bin"} \in SUBSET Content /\ {"bin"} \in SUBSET Parts
      BY DEF Content, Parts
    <2>2. /\ world' = world /\ disk'.current = disk.current
          /\ disk'.files = [disk.files EXCEPT ![Target] = @ \cup {"bin"}]
      BY <1>9, <1>A, <2>1 DEF Link
    <2>3. /\ CurrentRunnable' /\ Trusted' /\ Fresh(disk'.files[Target])
          /\ disk'.files[Target] = Files \cup {"bin"}
          /\ \A v \in Versions : disk'.files[v] # {} => disk.files[v] # {}
      BY <2>0, <2>1, <2>2, Grown
    <2>4. CASE Raise
      BY <1>0, <1>R, <2>2, <2>3, <2>4, Over
    <2>5. CASE Go("stop")
      <3>1. proc'.pc = "stop" /\ Target' = Target
        BY <1>G, <2>5 DEF Phases
      <3>2. Ordered'
        BY <1>0, <2>0, <2>2, <2>3, <3>1 DEF ReleaseInv, Ordered, Running, Preparing, Activated
      <3>3. Runnable(disk'.files[Target])
        BY <2>0, <2>3 DEF Runnable, Content, Fresh
      <3>4. Candidate'
        BY <2>3, <3>1, <3>3 DEF Candidate, At, Trusting, Files
      <3> QED BY <1>0, <2>3, <3>2, <3>4 DEF ReleaseInv
    <2> QED BY <1>9, <2>4, <2>5 DEF Link
  <1>10. CASE Stop
    <2>1. /\ proc.pc = "stop" /\ proc'.pc = "activate" /\ Target' = Target /\ world' = world
          /\ disk'.current = disk.current /\ disk'.files = disk.files
      BY <1>0, <1>10 DEF Stop, Say, At, Disks, Procs, Target
    <2> QED BY <1>0, <2>1 DEF ReleaseInv, CurrentRunnable, Ordered, Trusted, Candidate, At, Running,
                              Preparing, Activated, Trusting, Files
  <1>11. CASE Activate
    <2>1. CASE Fault /\ UNCHANGED disk
      BY <1>0, <1>F, <2>1, OverUntouched
    <2>2. CASE disk' = [disk EXCEPT !.current = Target] /\ Go("units") /\ UNCHANGED world
      <3>1. /\ proc.pc = "activate" /\ proc'.pc = "units" /\ Target' = Target /\ world' = world
            /\ disk'.current = Target /\ disk'.files = disk.files
        BY <1>0, <1>11, <1>G, <2>2 DEF Activate, At, Disks, Phases
      <3>2. Runnable(disk.files[Target])
        BY <1>0, <3>1 DEF ReleaseInv, Candidate
      <3>3. Trusted'
        <4>1. \A v \in Versions : Target < v => disk.current < v
          BY <1>0, <1>P, <3>1, Numbers DEF Preparing
        <4> QED BY <3>1, <4>1 DEF ReleaseInv, Trusted
      <3> QED BY <1>0, <1>P, <3>1, <3>2, <3>3 DEF ReleaseInv, CurrentRunnable, Ordered, Candidate, At,
                      Running, Preparing, Activated, Trusting
    <2> QED BY <1>11, <2>1, <2>2 DEF Activate
  <1>12. CASE RefreshUnits
    <2>1. disk'.current = disk.current /\ disk'.files = disk.files
      BY <1>0, <1>12 DEF RefreshUnits, Disks
    <2>2. CASE Fault
      BY <1>0, <1>F, <2>1, <2>2, OverUntouched
    <2>3. CASE Go("cleanup") /\ UNCHANGED world
      <3>1. proc.pc = "units" /\ proc'.pc = "cleanup" /\ Target' = Target
        BY <1>12, <1>G, <2>3 DEF RefreshUnits, At, Phases
      <3> QED BY <1>0, <2>1, <2>3, <3>1 DEF ReleaseInv, CurrentRunnable, Ordered, Trusted, Candidate, At,
                      Running, Preparing, Activated, Trusting
    <2> QED BY <1>12, <2>2, <2>3 DEF RefreshUnits
  <1>13. CASE RemoveOld
    <2>1. PICK v \in Stale :
             \/ disk' = [disk EXCEPT !.files[v] = {}] /\ UNCHANGED <<proc, world>>
             \/ Fault /\ \E left \in Remnants(disk.files[v]) : disk' = [disk EXCEPT !.files[v] = left]
      BY <1>13 DEF RemoveOld
    <2>2. v \in Versions /\ v # disk.current /\ v < disk.current /\ proc.pc = "cleanup"
      BY <1>13, StaleIsOld DEF RemoveOld, At
    <2>3. PICK left : /\ left = {} \/ left \in Remnants(disk.files[v])
                      /\ disk'.current = disk.current /\ disk'.files = [disk.files EXCEPT ![v] = left]
      BY <1>0, <2>1 DEF Disks
    <2>4. /\ CurrentRunnable' /\ Trusted'
          /\ \A w \in Versions : disk'.files[w] # {} => disk.files[w] # {}
      BY <2>2, <2>3, Shrunk
    <2>5. CASE Fault
      BY <1>0, <1>F, <2>3, <2>4, <2>5, Over
    <2>6. CASE UNCHANGED <<proc, world>>
      <3>1. Ordered'
        BY <1>0, <2>2, <2>3, <2>4, <2>6 DEF ReleaseInv, Ordered, Running, Preparing, Activated, Target
      <3>2. Candidate'
        BY <2>2, <2>6 DEF Candidate, At, Trusting
      <3> QED BY <1>0, <2>4, <3>1, <3>2 DEF ReleaseInv
    <2> QED BY <2>1, <2>5, <2>6
  <1>14. CASE Cleaned
    <2>1. proc'.pc = "exit" /\ world' = world /\ disk'.current = disk.current /\ disk'.files = disk.files
      BY <1>0, <1>14, <1>G DEF Cleaned, Disks, Phases
    <2> QED BY <1>0, <2>1, OverUntouched
  <1>15. CASE Exit
    <2>1. /\ proc'.pc = "idle" /\ world'.latest = world.latest
          /\ disk'.current = disk.current /\ disk'.files = disk.files
      BY <1>0, <1>15 DEF Exit, Idle, Say, Disks, Worlds
    <2> QED BY <1>0, <2>1, OverUntouched
  <1> QED BY <1>1, <1>2, <1>3, <1>4, <1>5, <1>6, <1>7, <1>8, <1>9, <1>10, <1>11, <1>12, <1>13, <1>14,
             <1>15 DEF UpdaterStep

LEMMA NextRelease == ~Reoffered /\ ReleaseInv /\ [Next]_vars => ReleaseInv'
  <1> SUFFICES ASSUME ~Reoffered, ReleaseInv, [Next]_vars PROVE ReleaseInv'
    OBVIOUS
  <1>0. TypeOK /\ TypeOK'
    BY TypeNext DEF ReleaseInv
  <1>1. CASE UpdaterStep
    BY <1>1, ReleaseUpdater
  <1>2. CASE Watchdog \/ PowerLoss \/ Kill \/ \E v \in Versions : Publish(v)
    <2>1. CASE Abandoned
      BY <1>0, <2>1, ReleaseAbandoned
    <2>2. CASE UNCHANGED <<disk, proc>> /\ world'.latest \in Versions
               /\ (world'.latest = world.latest \/ world'.latest > world.latest)
      <3>1. \A v \in Versions : v <= world.latest => v <= world'.latest
        BY <1>0, <2>2, Numbers
      <3>2. Ordered'
        BY <1>0, <2>2, <3>1, Numbers DEF ReleaseInv, Ordered, Running, Preparing, Activated, Target
      <3> QED BY <1>0, <2>2, <3>2 DEF ReleaseInv, CurrentRunnable, Trusted, Candidate, At, Trusting, Files,
                                      Target
    <2> QED BY <1>0, <1>2, <2>1, <2>2, SurroundingsFacts, Numbers
  <1>3. CASE UNCHANGED vars
    BY <1>0, <1>3 DEF vars, ReleaseInv, CurrentRunnable, Ordered, Trusted, Candidate, At, Running,
                      Preparing, Activated, Trusting, Files, Target
  <1> QED BY <1>1, <1>2, <1>3 DEF Next

\* When releases are offered in order of publication, the active release is a completely
\* installed one, wherever the updater is interrupted and whatever fails (activate_release
\* after install_python_dependencies, cleanup_old_releases).
THEOREM ActiveReleaseIsWhole == ~Reoffered => (Spec => []CurrentRunnable)
  <1> SUFFICES ASSUME ~Reoffered PROVE Spec => []CurrentRunnable
    OBVIOUS
  <1>1. ReleaseInv /\ [Next]_vars => ReleaseInv'
    BY NextRelease
  <1>2. ReleaseInv => CurrentRunnable
    BY DEF ReleaseInv
  <1> QED BY <1>1, <1>2, InitRelease, PTL DEF Spec
=============================================================================
