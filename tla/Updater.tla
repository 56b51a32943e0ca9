------------------------------ MODULE Updater ------------------------------
(***************************************************************************)
(* The release updater (updater.py), a oneshot systemd service that runs   *)
(* from a timer, with the health watchdog (health_watchdog.py) that shares *)
(* its services and with power loss, reboots and kills at every step.      *)
(*                                                                         *)
(* `disk` survives everything.  `proc` is the updater process: one step is *)
(* one effect on the disk or on a service.  `svc` is what systemd runs.    *)
(***************************************************************************)
EXTENDS Naturals, Sequences

CONSTANTS
    Versions,      \* release versions, positive, in order of publication
    First,         \* the version the installer activated
    Threshold,     \* consecutive watchdog failures before a reboot
    Reoffered,     \* whether a version may be offered again (--release-version, update_channel)
    MaxCrashes,    \* bound on power losses, reboots and kills
    MaxFaults      \* bound on failing downloads, commands and services

ASSUME VersionsAssumption == Versions \subseteq Nat \ {0} /\ First \in Versions
ASSUME UpdaterBounds == /\ {MaxCrashes, MaxFaults} \subseteq Nat /\ Threshold \in Nat \ {0}
                        /\ Reoffered \in BOOLEAN

VARIABLES
    disk,      \* /opt/djconnect: releases, the current link, unit files, updater status
    proc,      \* the updater process
    svc,       \* services systemd runs, and the watchdog's failure count
    world      \* the published release, and how much went wrong so far

vars == <<disk, proc, svc, world>>

-----------------------------------------------------------------------------
(* Releases *)

\* A release directory is the set of things in it; the marks are the .install-state files.
Steps   == {"venv", "pip", "deps", "wheel"}
Mark    == [venv |-> "venv_created", pip |-> "pip_checked",
            deps |-> "locked_dependencies_installed", wheel |-> "wheel_installed"]
Marks   == {Mark[s] : s \in Steps}
Content == {"dir", "meta", "bin"} \cup Steps
Parts   == Content \cup Marks

Fresh(files)    == {"dir", "meta"} \subseteq files
Runnable(files) == Content \subseteq files

States == {"none", "checking", "installing", "activating", "cleanup", "restarting", "failed", "complete"}
Phases == {"idle", "checked", "verified", "removing", "unpacking", "validate", "run", "mark", "link",
           "stop", "activate", "units", "cleanup", "exit"}

\* The order of the modification times may be any sequence.
Disks(order) == [current : Versions, files : [Versions -> SUBSET Parts], recent : {order},
                 tmp : SUBSET Versions, units : Versions,
                 status : [state : States, target : Versions]]
Procs == [pc : Phases, target : Versions, step : Steps, touched : BOOLEAN, ok : BOOLEAN]
Services == [app : BOOLEAN, ui : BOOLEAN, failures : 0..Threshold]
Worlds == [latest : Versions, crashes : 0..MaxCrashes, faults : 0..MaxFaults]

Idle == [pc |-> "idle", target |-> First, step |-> "venv", touched |-> FALSE, ok |-> TRUE]

\* A new entry right under the directory makes its modification time the newest of all.
TopLevel       == {"dir", "venv", "bin"}
Newest(seq, v) == Append(SelectSeq(seq, LAMBDA w : w # v), v)
Add(d, v, s)   == [d EXCEPT !.files[v] = @ \cup s,
                            !.recent = IF s \cap TopLevel = {} THEN @ ELSE Newest(@, v)]

\* What rmtree leaves when it stops.  It takes the entries of the release in any order, and
\* empties a directory (.venv with its packages, .install-state) before it goes on to the next.
Env             == {"venv", "pip", "deps", "wheel"}
Whole(files, s) == {{}, files \cap s}
Torn(files, s)  == SUBSET (files \cap s)
Debris(files, envs, marks) ==
    {(files \cap {"dir"}) \cup rest \cup env \cup mark :
        rest \in Torn(files, {"meta", "bin"}), env \in envs, mark \in marks}
Remnants(files) ==
    {{}} \cup Debris(files, {env \in Torn(files, Env) : env # {} => "venv" \in env}, Whole(files, Marks))
         \cup Debris(files, Whole(files, Env), Torn(files, Marks))

-----------------------------------------------------------------------------
(* One run: each action is one step of updater.run, ended by the phase it    *)
(* leaves in proc.pc.  A step that raises goes to "exit".                    *)

Go(pc) == proc' = [proc EXCEPT !.pc = pc]
Raise  == proc' = [proc EXCEPT !.pc = "exit", !.ok = FALSE]
Fault  == world.faults < MaxFaults /\ world' = [world EXCEPT !.faults = @ + 1] /\ Raise
Say(state) == disk' = [disk EXCEPT !.status.state = state]
At(pc) == proc.pc = pc
Target == proc.target

\* The timer, or "check for updates": nothing to do on the published version.
Check ==
    /\ At("idle") /\ world.latest # disk.current
    /\ disk' = [disk EXCEPT !.status = [state |-> "checking", target |-> world.latest]]
    /\ proc' = [Idle EXCEPT !.pc = "checked", !.target = world.latest]
    /\ UNCHANGED <<svc, world>>

\* Interpreter probe, download and checksum: no effect but in a temporary directory.
Download ==
    /\ At("checked")
    /\ \/ Go("verified") /\ UNCHANGED world
       \/ Fault
    /\ UNCHANGED <<disk, svc>>

\* install_release: the active release is never installed over.
Distinct == Target # disk.current

\* unpack_release: a directory that looks unpacked is taken as it is.
Unpack ==
    /\ At("verified")
    /\ IF ~Distinct THEN Raise /\ UNCHANGED <<disk, world>>
       ELSE IF Fresh(disk.files[Target])
       THEN Go("validate") /\ Say("installing") /\ UNCHANGED world
       ELSE \/ Go("removing") /\ disk' = [disk EXCEPT !.tmp = @ \cup {Target}] /\ UNCHANGED world
            \/ Fault /\ disk' \in {disk, [disk EXCEPT !.tmp = @ \cup {Target}]}
    /\ UNCHANGED svc
RemoveStale ==
    /\ At("removing")
    /\ Go("unpacking") /\ disk' = [disk EXCEPT !.files[Target] = {}]
    /\ UNCHANGED <<svc, world>>
Rename ==
    /\ At("unpacking")
    /\ Go("validate")
    /\ disk' = [Add(disk, Target, {"dir", "meta"}) EXCEPT !.tmp = @ \ {Target}, !.status.state = "installing"]
    /\ UNCHANGED <<svc, world>>

\* validate_existing_python_environment: never execute or remove an incomplete one.
Acceptable(files) == ("venv" \in files) = (Mark["venv"] \in files)
Validate ==
    /\ At("validate")
    /\ IF ~Acceptable(disk.files[Target]) THEN Raise
       ELSE proc' = [proc EXCEPT !.pc = "run", !.step = "venv"]
    /\ UNCHANGED <<disk, svc, world>>

Following == [venv |-> "pip", pip |-> "deps", deps |-> "wheel"]
Onward(step) == proc' = IF step = "wheel" THEN [proc EXCEPT !.pc = "link"]
                        ELSE [proc EXCEPT !.pc = "run", !.step = Following[step]]

\* Mutant of RunOnce: the mark is written before the command ran.
MarkFirst(step) ==
    IF Mark[step] \in disk.files[Target] THEN Onward(step) /\ UNCHANGED <<disk, world>>
    ELSE \/ Onward(step) /\ disk' = Add(disk, Target, {Mark[step], step}) /\ UNCHANGED world
         \/ Fault /\ disk' \in {disk, Add(disk, Target, {Mark[step]})}
\* venv creation, and _run_once for the pip steps: skipped when marked.  A failing
\* command may have done all, part or nothing of its work.
RunOnce(step) ==
    IF Mark[step] \in disk.files[Target] THEN Onward(step) /\ UNCHANGED <<disk, world>>
    ELSE \/ Go("mark") /\ disk' = Add(disk, Target, {step}) /\ UNCHANGED world
         \/ Fault /\ disk' \in {disk, Add(disk, Target, {step})}
Run == At("run") /\ RunOnce(proc.step) /\ UNCHANGED svc
MarkDone == /\ At("mark")
            /\ disk' = Add(disk, Target, {Mark[proc.step]}) /\ Onward(proc.step)
            /\ UNCHANGED <<svc, world>>

\* The bin link is renewed, and the entry points must be there.
Link ==
    LET d == Add(disk, Target, {"bin"})
    IN  /\ At("link") /\ disk' = d
        /\ IF {"venv", "wheel"} \subseteq d.files[Target] THEN Go("stop") ELSE Raise
        /\ UNCHANGED <<svc, world>>

\* Only the verified candidate reaches stop.
Stop ==
    /\ At("stop")
    /\ svc' = [svc EXCEPT !.app = FALSE, !.ui = TRUE]
    /\ proc' = [proc EXCEPT !.pc = "activate", !.touched = TRUE]
    /\ Say("activating") /\ UNCHANGED world
Activate ==
    /\ At("activate")
    /\ \/ /\ disk' = [disk EXCEPT !.current = Target]
          /\ Go("units") /\ UNCHANGED world
       \/ Fault /\ UNCHANGED disk
    /\ UNCHANGED svc
RefreshUnits ==
    /\ At("units")
    /\ \/ disk' = [disk EXCEPT !.units = Target, !.status.state = "cleanup"] /\ Go("cleanup") /\ UNCHANGED world
       \/ Fault /\ disk' \in {disk, [disk EXCEPT !.units = Target]}
    /\ UNCHANGED svc

\* cleanup_old_releases: besides the current release the most recently modified one stays.
Kept == LET old == SelectSeq(disk.recent, LAMBDA v : v # disk.current /\ disk.files[v] # {})
        IN  {disk.current} \cup (IF old = <<>> THEN {} ELSE {old[Len(old)]})
Stale == {v \in Versions \ Kept : disk.files[v] # {}}
RemoveOld ==
    /\ At("cleanup") /\ Stale # {}
    /\ \E v \in Stale :
          \/ disk' = [disk EXCEPT !.files[v] = {}] /\ UNCHANGED <<proc, world>>
          \/ Fault /\ \E left \in Remnants(disk.files[v]) : disk' = [disk EXCEPT !.files[v] = left]
    /\ UNCHANGED svc
Cleaned ==
    /\ At("cleanup") /\ Stale = {}
    /\ disk' = [disk EXCEPT !.tmp = {}, !.status.state = "restarting"]
    /\ Go("exit") /\ UNCHANGED <<svc, world>>

\* finally: one best-effort exit from the update UI, one restart; then the verdict.
Restarted == [svc EXCEPT !.ui = FALSE, !.app = Runnable(disk.files[disk.current])]
\* Mutant of Verdict: a run that ended is complete.
VerdictComplete(good) == "complete"
Verdict(good) == IF good THEN "complete" ELSE "failed"
Exit ==
    /\ At("exit") /\ proc' = Idle
    /\ \/ /\ svc' = IF proc.touched THEN Restarted ELSE svc
          /\ Say(Verdict(proc.ok)) /\ UNCHANGED world
       \/ /\ proc.touched /\ world.faults < MaxFaults
          /\ world' = [world EXCEPT !.faults = @ + 1]
          /\ svc' = [svc EXCEPT !.ui = FALSE] /\ Say("failed")

UpdaterStep == \/ Check \/ Download \/ Unpack \/ RemoveStale \/ Rename \/ Validate \/ Run \/ MarkDone
               \/ Link \/ Stop \/ Activate \/ RefreshUnits \/ RemoveOld \/ Cleaned \/ Exit

-----------------------------------------------------------------------------
(* The watchdog and the world *)

\* What an interrupted step leaves behind: a removal may stop half way.
Interrupted ==
    CASE At("removing") -> {disk} \cup {[disk EXCEPT !.files[Target] = left] : left \in Remnants(disk.files[Target])}
      [] At("cleanup")  -> {disk} \cup UNION {{[disk EXCEPT !.files[v] = left] : left \in Remnants(disk.files[v])} :
                                               v \in Stale}
      [] At("run") /\ Mark[proc.step] \notin disk.files[Target]
                        -> {disk, Add(disk, Target, {proc.step})}
      [] OTHER          -> {disk}

\* A boot starts what is enabled, from the current release.
Boot(failures) == /\ proc' = Idle
                  /\ svc' = [app |-> Runnable(disk.files[disk.current]), ui |-> FALSE, failures |-> failures]

\* Mutant of Reboots: the threshold is never reached.
NeverReboots(failures) == failures > Threshold
\* run_check, every minute; the count is kept in a file.
Reboots(failures) == failures >= Threshold
Watchdog ==
    LET n == IF svc.failures < Threshold THEN svc.failures + 1 ELSE Threshold
    IN  /\ Runnable(disk.files[disk.current]) /\ UNCHANGED world
        /\ \/ svc.app /\ svc' = [svc EXCEPT !.failures = 0] /\ UNCHANGED <<disk, proc>>
           \/ ~svc.app /\ ~Reboots(n) /\ svc' = [svc EXCEPT !.failures = n] /\ UNCHANGED <<disk, proc>>
           \/ ~svc.app /\ Reboots(n) /\ Boot(n) /\ disk' \in Interrupted

Crashes == world.crashes < MaxCrashes /\ world' = [world EXCEPT !.crashes = @ + 1]

\* Power loss, the nightly reboot, a reboot after OS maintenance.
PowerLoss == Crashes /\ disk' \in Interrupted /\ Boot(svc.failures)
\* The process alone is killed: no finally block runs.
Kill == Crashes /\ ~At("idle") /\ disk' \in Interrupted /\ proc' = Idle /\ UNCHANGED svc

\* Another release is offered.
Publish(v) == /\ v # world.latest /\ (v > world.latest \/ Reoffered)
              /\ world' = [world EXCEPT !.latest = v]
              /\ UNCHANGED <<disk, proc, svc>>

-----------------------------------------------------------------------------

Init ==
    /\ disk = [current |-> First,
               files |-> [v \in Versions |-> IF v = First THEN Content \cup Marks ELSE {}],
               recent |-> <<First>>, tmp |-> {}, units |-> First,
               status |-> [state |-> "none", target |-> First]]
    /\ proc = Idle
    /\ svc = [app |-> TRUE, ui |-> FALSE, failures |-> 0]
    /\ world = [latest |-> First, crashes |-> 0, faults |-> 0]

Next == UpdaterStep \/ Watchdog \/ PowerLoss \/ Kill \/ \E v \in Versions : Publish(v)
Spec == Init /\ [][Next]_vars

\* systemd runs a started service on, and the watchdog's timer every minute.
FairSpec == Spec /\ WF_vars(UpdaterStep) /\ WF_vars(Watchdog)

-----------------------------------------------------------------------------
(* Properties *)

\* Every field has its type (run, UpdateStatus, load_failures).
TypeOK == disk \in Disks(disk.recent) /\ proc \in Procs /\ svc \in Services /\ world \in Worlds

\* Whatever is interrupted where, the active release is a completely installed one
\* (activate_release after install_python_dependencies, cleanup_old_releases).
CurrentRunnable == Runnable(disk.files[disk.current])

\* The status the update UI shows as complete is true of the disk (run).
CompleteIsTrue == disk.status.state = "complete" =>
                     disk.current = disk.status.target /\ disk.units = disk.current

\* Services the updater stopped come back, by its finally block or by the watchdog.
AppComesBack == ~svc.app ~> svc.app
=============================================================================
