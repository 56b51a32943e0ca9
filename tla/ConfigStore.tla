---------------------------- MODULE ConfigStore ----------------------------
(***************************************************************************)
(* The configuration file and the two processes that keep a copy of it     *)
(* (config.py, client_api.py, client_api_daemon.py, app.py).               *)
(*                                                                         *)
(* The daemon reads the file at the start of every request that changes    *)
(* it, in a thread per request, and advertises the pairing code by mDNS    *)
(* while nobody is paired.  The touch UI loads the file once, works on its *)
(* copy in two threads (the GUI and one worker) and saves the whole copy.  *)
(* All of them save through one temporary file.                            *)
(*                                                                         *)
(* Every input (request, slot, rejection) gets a number, and the tokens,   *)
(* codes and settings it brings along are told apart by that number.       *)
(***************************************************************************)
EXTENDS Integers, FiniteSets

CONSTANTS
    MaxThreads,    \* requests the daemon serves at a time
    MaxInputs,     \* bound on requests, slots and rejections
    MaxKills       \* bound on restarts of the daemon and of the UI

ASSUME StoreBounds == {MaxThreads, MaxInputs, MaxKills} \subseteq Nat /\ MaxThreads >= 1

VARIABLES
    disk,      \* what the file and the shared temporary file hold
    save,      \* the save_config call of every thread
    thread,    \* the daemon's requests
    copy,      \* the daemon's copy (ClientAPIState.cfg)
    advert,    \* the code the mDNS service was registered with (-1: not registered)
    ui,        \* the UI: its copy, and its worker
    event,     \* a "settings" command waits in command-event.json
    inputs,    \* inputs so far
    kills,     \* restarts so far
    disturbed, \* history: two accesses met, or a restart cut a request off before it told the UI
    dropped,   \* history: tokens and codes that the UI reset, once its save is stored
    owner      \* history: who changed the stored pairing last

vars == <<disk, save, thread, copy, advert, ui, event, inputs, kills, disturbed, dropped, owner>>

-----------------------------------------------------------------------------
(* The file *)

Ids      == 0..MaxInputs
Threads  == 1..MaxThreads
Gui      == MaxThreads + 1
Worker   == MaxThreads + 2
Savers   == Threads \cup {Gui, Worker}
Configs  == [token : Ids,      \* device_token, with paired and ha_url (0: unpaired)
             url   : BOOLEAN,  \* ha_url, which outlives a pairing
             code  : Ids,      \* pairing_code
             opt   : Ids,      \* the settings that _sync_config_from_disk compares
             fast  : Ids]      \* websocket_fast_path_enabled, which it does not compare
First    == [token |-> 0, url |-> FALSE, code |-> 0, opt |-> 0, fast |-> 0]

None     == [kind |-> "none"]
Empty    == [kind |-> "empty"]     \* created or truncated, not yet written
Torn     == [kind |-> "torn"]      \* the end of a longer text behind a shorter one
Whole(c) == [kind |-> "whole", cfg |-> c]
Contents == {None, Empty, Torn} \cup {Whole(c) : c \in Configs}
Readable == disk.file.kind = "whole"
Stored   == disk.file.cfg

Quiet(s) == save[s].step = "idle"
NoSave   == [step |-> "idle", cfg |-> First, at |-> "gone", drop |-> {}]
Begin(s, c, drop) == save' = [save EXCEPT ![s] = [step |-> "open", cfg |-> c, at |-> "gone", drop |-> drop]]

\* Everybody between a load and the end of the save that goes with it.
InWindow   == {r \in Threads : thread[r].step \notin {"idle", "load"}} \cup {s \in Savers : ~Quiet(s)}
Enter(s)   == disturbed' = (disturbed \/ InWindow \ {s} # {})

-----------------------------------------------------------------------------
(* save_config *)

Kinds    == {"start", "pair", "forget", "settings", "command"}
NoThread == [step |-> "idle", req |-> 0, kind |-> "start", code |-> 0, fast |-> FALSE, paired |-> FALSE]

\* Mutant of Temporary: the configuration is written in place.
InPlace(d, c)   == [d EXCEPT !.file = c]
Temporary(d, c) == [d EXCEPT !.tmp = c]

\* The UI's copy is serialized when the save opens the file; a request has its own copy.
Open(s) ==
    /\ save[s].step = "open"
    /\ disk' = Temporary(disk, Empty)
    /\ save' = [save EXCEPT ![s].step = "write", ![s].at = "tmp",
                            ![s].cfg = IF s \in Threads THEN @ ELSE ui.cfg]
    /\ UNCHANGED <<thread, copy, advert, ui, event, inputs, kills, disturbed, dropped, owner>>

\* The text goes to the file that was opened, wherever a rename has moved it.
Write(s) ==
    LET Over(old) == {Whole(save[s].cfg)} \cup (IF old = Empty THEN {} ELSE {Torn})
    IN  /\ save[s].step = "write" /\ save' = [save EXCEPT ![s].step = "replace"]
        /\ CASE save[s].at = "tmp"  -> \E c \in Over(disk.tmp) : disk' = Temporary(disk, c)
             [] save[s].at = "file" -> \E c \in Over(disk.file) : disk' = [disk EXCEPT !.file = c]
             [] OTHER               -> UNCHANGED disk
        /\ UNCHANGED <<thread, copy, advert, ui, event, inputs, kills, disturbed, dropped, owner>>

Pairing(c) == IF c.kind = "whole" THEN <<c.cfg.token, c.cfg.code>> ELSE <<>>
Party(s)   == IF s \in Threads THEN "daemon" ELSE "ui"

Moved(at)   == IF at = "tmp" THEN "file" ELSE "gone"

\* chmod and replace raise when another save has renamed the temporary file.
After(r)  == IF thread[r].kind = "settings" THEN "notify" ELSE "mdns"
Replace(s) ==
    LET done == disk.tmp # None
    IN  /\ save[s].step = "replace"
        /\ disk' = IF done THEN [file |-> disk.tmp, tmp |-> None] ELSE disk
        /\ save' = [t \in Savers |-> IF t = s THEN NoSave
                                     ELSE IF done THEN [save[t] EXCEPT !.at = Moved(@)] ELSE save[t]]
        /\ dropped' = IF done THEN dropped \cup (IF s \in Threads THEN {} ELSE save[s].drop) ELSE dropped
        /\ owner' = IF done /\ Pairing(disk.tmp) # Pairing(disk.file)
                    THEN Party(s) ELSE owner
        /\ thread' = IF s \in Threads
                     THEN [thread EXCEPT ![s] = IF done THEN [@ EXCEPT !.step = After(s)] ELSE NoThread]
                     ELSE thread
        /\ UNCHANGED <<copy, advert, ui, event, inputs, kills, disturbed>>

Saving == \E s \in Savers : Open(s) \/ Write(s) \/ Replace(s)

-----------------------------------------------------------------------------
(* The daemon *)

Codes    == {ui.cfg.code} \cup (IF advert >= 0 THEN {advert} ELSE {})
            \cup (IF Readable THEN {Stored.code} ELSE {})

\* Home Assistant pairs with a code somebody can see, the portal stores one setting or
\* another, and a command only wakes the UI's poll.
Arrive(r) ==
    /\ thread[r].step = "idle" /\ inputs < MaxInputs
    /\ \A q \in Threads : thread[q].step # "idle" => thread[q].kind # "start"
    /\ inputs' = inputs + 1
    /\ \E k \in Kinds \ {"start"}, c \in Codes, f \in BOOLEAN :
         /\ k # "pair" => c = ui.cfg.code
         /\ k # "settings" => ~f
         /\ thread' = [thread EXCEPT ![r] = [step |-> "load", req |-> inputs + 1, kind |-> k,
                                             code |-> c, fast |-> f, paired |-> FALSE]]
    /\ UNCHANGED <<disk, save, copy, advert, ui, event, kills, disturbed, dropped, owner>>

Forgotten(c, id)             == [c EXCEPT !.token = 0, !.code = id]
PairedAs(c, id)              == [c EXCEPT !.token = id, !.url = TRUE]
Stores(c, id, fast)          == IF fast THEN [c EXCEPT !.fast = id] ELSE [c EXCEPT !.opt = id]

\* Mutant of Reloaded: the request changes the daemon's copy as it is.
StaleCopy == copy
Reloaded  == Stored

\* A file that cannot be parsed ends the request, and so does the wrong code.  forget
\* works on a copy of its own; the others change the copy the threads share.
Change(r) ==
    LET t == thread[r]
        new == CASE t.kind = "start"    -> Reloaded
                 [] t.kind = "pair"     -> PairedAs(Reloaded, t.req)
                 [] t.kind = "forget"   -> Forgotten(Reloaded, t.req)
                 [] t.kind = "settings" -> Stores(Reloaded, t.req, t.fast)
    IN  /\ t.step = "load" /\ t.kind # "command"
        /\ IF Readable /\ (t.kind = "pair" => t.code = Reloaded.code)
           THEN /\ thread' = [thread EXCEPT ![r].step = "save"]
                /\ Begin(r, new, IF t.kind = "forget" THEN {Reloaded.token} \ {0} ELSE {}) /\ Enter(r)
                /\ copy' = IF t.kind = "forget" THEN copy ELSE new
           ELSE thread' = [thread EXCEPT ![r] = NoThread] /\ UNCHANGED <<save, copy, disturbed>>
        /\ UNCHANGED <<disk, advert, ui, event, inputs, kills, dropped, owner>>

\* A command is checked against the copy, and not against the file.
Command(r) ==
    /\ thread[r].step = "load" /\ thread[r].kind = "command"
    /\ thread' = [thread EXCEPT ![r] = IF copy.token # 0 THEN [@ EXCEPT !.step = "notify"] ELSE NoThread]
    /\ UNCHANGED <<disk, save, copy, advert, ui, event, inputs, kills, disturbed, dropped, owner>>

\* refresh_mdns: reload, then decide.
MdnsLoad(r) ==
    /\ thread[r].step = "mdns"
    /\ thread' = [thread EXCEPT ![r] = IF Readable THEN [@ EXCEPT !.step = "advert", !.paired = Stored.token # 0]
                                                  ELSE NoThread]
    /\ copy' = IF Readable THEN Stored ELSE copy
    /\ UNCHANGED <<disk, save, advert, ui, event, inputs, kills, disturbed, dropped, owner>>

\* Mutant of Advertised: a service that is registered stays.
NeverStopped(paired) == IF advert >= 0 THEN advert ELSE IF paired THEN -1 ELSE copy.code
Advertised(paired)   == IF paired THEN -1 ELSE IF advert >= 0 THEN advert ELSE copy.code

RefreshMdns(r) ==
    /\ thread[r].step = "advert"
    /\ advert' = Advertised(thread[r].paired)
    /\ thread' = [thread EXCEPT ![r] = NoThread]
    /\ UNCHANGED <<disk, save, copy, ui, event, inputs, kills, disturbed, dropped, owner>>

Notify(r) ==
    /\ thread[r].step = "notify"
    /\ event' = TRUE /\ thread' = [thread EXCEPT ![r] = NoThread]
    /\ UNCHANGED <<disk, save, copy, advert, ui, inputs, kills, disturbed, dropped, owner>>

Serve == \E r \in Threads : Change(r) \/ Command(r) \/ MdnsLoad(r) \/ RefreshMdns(r) \/ Notify(r)

-----------------------------------------------------------------------------
(* The touch UI *)

Paired  == ui.cfg.token # 0
Free    == Quiet(Gui)

\* Mutant of Adoptable: only a UI that never was paired looks.
AdoptableOnce == Readable /\ Stored.token # 0 /\ ~ui.cfg.url
Adoptable     == Readable /\ Stored.token # 0

\* The refresh timer.  Only an unpaired UI looks at the file.
Refresh ==
    /\ Free /\ ui.step = "idle"
    /\ Paired \/ (Readable /\ (Adoptable \/ ui.cfg.url))
    /\ IF ~Paired /\ Adoptable
       THEN ui' = [cfg |-> Stored, step |-> "call"] /\ Enter(Gui)
       ELSE ui' = [ui EXCEPT !.step = "call"] /\ UNCHANGED disturbed
    /\ UNCHANGED <<disk, save, thread, copy, advert, event, inputs, kills, dropped, owner>>

\* _persist_backend_summary after the answer.  A further exchange of the same refresh
\* (devices, status) is another call after the save.
Answered ==
    /\ ui.step = "call" /\ Quiet(Worker)
    /\ Begin(Worker, ui.cfg, {}) /\ Enter(Worker)
    /\ ui' = [ui EXCEPT !.step = "last"]
    /\ UNCHANGED <<disk, thread, copy, advert, event, inputs, kills, dropped, owner>>

CallFails ==
    /\ ui.step = "call" /\ Quiet(Worker) /\ ui' = [ui EXCEPT !.step = "idle"]
    /\ UNCHANGED <<disk, save, thread, copy, advert, event, inputs, kills, disturbed, dropped, owner>>

\* _forget_pairing, on the worker when Core rejects the token and on the GUI thread
\* when the user resets the pairing.
Forget(s) ==
    /\ inputs < MaxInputs /\ inputs' = inputs + 1
    /\ Begin(s, ui.cfg, {ui.cfg.token, ui.cfg.code} \ {0}) /\ Enter(s)
    /\ UNCHANGED <<disk, thread, copy, advert, event, kills, dropped, owner>>

Rejected ==
    /\ ui.step = "call" /\ Quiet(Worker)
    /\ IF Paired THEN ui' = [ui EXCEPT !.cfg = Forgotten(@, inputs + 1), !.step = "last"] /\ Forget(Worker)
       ELSE /\ ui' = [ui EXCEPT !.step = "idle"]
            /\ UNCHANGED <<disk, save, thread, copy, advert, event, inputs, kills, disturbed, dropped, owner>>

Finish ==
    /\ ui.step = "last" /\ Quiet(Worker) /\ ui' = [ui EXCEPT !.step = "idle"]
    /\ UNCHANGED <<disk, save, thread, copy, advert, event, inputs, kills, disturbed, dropped, owner>>

Reset == Free /\ ui' = [ui EXCEPT !.cfg = Forgotten(@, inputs + 1)] /\ Forget(Gui)

\* The setters of app.py: change the copy, save all of it.
SetLocal ==
    /\ Free /\ inputs < MaxInputs /\ inputs' = inputs + 1
    /\ \E fast \in BOOLEAN : ui' = [ui EXCEPT !.cfg = Stores(@, inputs + 1, fast)]
    /\ Begin(Gui, ui.cfg, {}) /\ Enter(Gui)
    /\ UNCHANGED <<disk, thread, copy, advert, event, kills, dropped, owner>>

\* Mutant of Differs: a changed setting does not count.
DiffersInPairing(c) == c.token # ui.cfg.token \/ c.url # ui.cfg.url
Differs(c) == c.token # ui.cfg.token \/ c.url # ui.cfg.url \/ c.opt # ui.cfg.opt

\* The event poll, which reads and unlinks the event first, and every slot that looks.
Sync ==
    /\ Free /\ event' \in {event, FALSE}
    /\ IF Readable /\ Differs(Stored) THEN ui' = [ui EXCEPT !.cfg = Stored] /\ Enter(Gui)
                                      ELSE UNCHANGED <<ui, disturbed>>
    /\ UNCHANGED <<disk, save, thread, copy, advert, inputs, kills, dropped, owner>>

Screen == Refresh \/ Answered \/ CallFails \/ Rejected \/ Finish \/ Reset \/ SetLocal \/ Sync

-----------------------------------------------------------------------------
(* Restarts: systemd repeats them until the file can be read *)

\* ClientAPI.start saves the port it got, then registers the service.
RestartDaemon ==
    /\ kills < MaxKills /\ kills' = kills + 1 /\ Readable /\ copy' = Stored
    /\ thread' = [r \in Threads |-> IF r = 1 THEN [NoThread EXCEPT !.step = "load"] ELSE NoThread]
    /\ save' = [s \in Savers |-> IF s \in Threads THEN NoSave ELSE save[s]]
    /\ advert' = -1
    /\ disturbed' = (disturbed \/ \E r \in Threads : thread[r].step = "notify")
    /\ UNCHANGED <<disk, ui, event, inputs, dropped, owner>>

RestartUi ==
    /\ kills < MaxKills /\ kills' = kills + 1 /\ Readable
    /\ ui' = [cfg |-> Stored, step |-> "idle"]
    /\ save' = [s \in Savers |-> IF s \in Threads THEN save[s] ELSE NoSave]
    /\ UNCHANGED <<disk, thread, copy, advert, event, inputs, disturbed, dropped, owner>>

-----------------------------------------------------------------------------

\* Both processes have started on a new configuration; the daemon advertises its code.
Init == /\ disk = [file |-> Whole(First), tmp |-> None]
        /\ save = [s \in Savers |-> NoSave] /\ thread = [r \in Threads |-> NoThread]
        /\ copy = First /\ advert = First.code
        /\ ui = [cfg |-> First, step |-> "idle"]
        /\ event = FALSE /\ inputs = 0 /\ kills = 0
        /\ disturbed = FALSE /\ dropped = {} /\ owner = "daemon"

Next == Saving \/ (\E r \in Threads : Arrive(r)) \/ Serve \/ Screen \/ RestartDaemon \/ RestartUi
Spec == Init /\ [][Next]_vars

\* Threads run, the refresh timer fires, and an exchange ends within its timeout.
FairSpec == /\ Spec /\ WF_vars(Refresh) /\ WF_vars(Answered \/ CallFails \/ Rejected \/ Finish)
            /\ \A s \in Savers : WF_vars(Open(s) \/ Write(s) \/ Replace(s))

-----------------------------------------------------------------------------
(* Properties *)

\* A restart of either process at any step of a save leaves a configuration that can be
\* read, unless two accesses met in the temporary file (save_config).
AlwaysReadable == ~disturbed => Readable

AtRest == InWindow = {} /\ ~event /\ \A r \in Threads : thread[r].step # "notify"

\* At rest, and as long as no two accesses met, the option the UI works with is the one a
\* restart would load, whoever changed it last (_sync_config_from_disk,
\* _persist_backend_summary, the setters).  Whose change survived it does not say.
SettingsAgree == AtRest /\ ~disturbed => ui.cfg.opt = Stored.opt

\* A pairing that the UI gave up stays given up: no request of the daemon brings its token
\* or its code back (_forget_pairing against reload_config).
ResetSticks == ~disturbed => {Stored.token, Stored.code} \cap dropped = {}

\* As long as the daemon changed the pairing last, none of its requests is under way and no
\* two accesses met, a service is advertised exactly while the device is unpaired
\* (refresh_mdns).  What it says, and what the UI changes, is another matter.
Discoverable ==
    (~disturbed /\ owner = "daemon" /\ \A r \in Threads : thread[r].step = "idle") =>
        ((advert >= 0) <=> (Stored.token = 0))

\* An unpaired UI takes over a pairing that stays in the file (refresh).
PairingNoticed == (Readable /\ Stored.token # 0 /\ ~Paired) ~> (Paired \/ ~(Readable /\ Stored.token # 0))
=============================================================================
