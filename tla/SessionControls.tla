--------------------------- MODULE SessionControls ---------------------------
(***************************************************************************)
(* What the Session screen can set in motion beside its own lanes:         *)
(* playback intents (session_playback_control.py) and the preparation of   *)
(* an image for the current moment (session_artwork_prepare.py).           *)
(*                                                                         *)
(* Each has a worker thread that asks Core again what is playing and sends *)
(* one write only if that is what the user was looking at.  The screen may *)
(* be hidden, re-read, ended or bound to another owner at any moment; every *)
(* check of the thread reads the fields the UI thread is changing.         *)
(*                                                                         *)
(* An item stands for a Session, its track, state and moment: whatever     *)
(* reference() and prepare_reference() compare.                            *)
(***************************************************************************)
EXTENDS Naturals

CONSTANTS
    Knobs,        \* of "volume", "favorite", "outputs": what can be observed and set
    MaxItems,     \* bound on what comes to be playing
    MaxMoves,     \* bound on moves of the binding
    MaxTurns,     \* bound on other clients turning a knob
    None          \* no request, no observation, nothing running

ASSUME ControlsBounds == {MaxItems, MaxMoves, MaxTurns} \subseteq Nat /\ MaxItems >= 1
ASSUME ControlsKnobs  == Knobs \subseteq {"volume", "favorite", "outputs"}
ASSUME NoneIsNothing  == None \notin {"read", "end", "changed", "failed", "denied", "withdraw"}

VARIABLES
    core,    \* Core: the item that is playing (0 none), the knob's position, items and turns so far
    owner,   \* SessionController: binding, item on screen, its lanes, panes, artwork on screen
    pc,      \* PlaybackControl: request, lease, blocked
    w,       \* its worker
    art,     \* ArtworkPreparation: request
    v,       \* its worker
    revoked, \* history: the intent of the last tap was taken back
    doubt    \* history: an uncertain result was shown and nothing read since

vars == <<core, owner, pc, w, art, v, revoked, doubt>>

-----------------------------------------------------------------------------

Turns    == {"read", "set"}
Requests == [verb : Turns \cup {"command"}, knob : Knobs \cup {None}, item : 1..MaxItems,
             binding : 0..MaxMoves, value : {0, 1}]
Leases   == [knob : Knobs, item : 1..MaxItems, binding : 0..MaxMoves, value : {0, 1}]
Running  == LET job(b) == IF b THEN 1 ELSE 0
            IN  job(w.step # "idle") + job(v.step # "idle") + job(owner.action = "read" \/ owner.asking)
Errors   == {None, "changed", "failed", "denied", "withdraw"}

Idle     == [step |-> "idle", req |-> None, got |-> 0, error |-> None]

\* PlaybackControl.valid, volume_valid, favorite_valid, outputs_valid
Holds(o, r)  == r # None /\ o.shown /\ o.action # "end" /\ r.binding = o.binding /\ r.item = o.item
\* ArtworkPreparation.valid: the pane and the image's own reference
Stands(o, r) == r # None /\ o.pane /\ o.action # "end" /\ r.binding = o.binding /\ r.item = o.item

\* PlaybackControl.sync, ArtworkPreparation.sync: both hear every change of the screen.
Synced(o, p) == [p EXCEPT !.req = IF Holds(o, @) THEN @ ELSE None, !.lease = IF Holds(o, @) THEN @ ELSE None]
Kept(o, r)   == IF Stands(o, r) THEN r ELSE None
Changed(o, p) ==
    /\ owner' = o /\ pc' = Synced(o, p) /\ art' = Kept(o, art)
    /\ revoked' = (revoked \/ pc'.req = None)

\* PlaybackControl.hide
Hidden(p) == [p EXCEPT !.req = None, !.lease = None]

\* SessionController.invalidate
Invalid(o) == [o EXCEPT !.item = 0, !.action = None, !.asking = FALSE, !.media = 0]
Invalidate == /\ owner' = Invalid(owner) /\ pc' = [Hidden(pc) EXCEPT !.blocked = FALSE] /\ art' = None
              /\ revoked' = TRUE /\ doubt' = FALSE

Busy == w.step # "idle" \/ v.step # "idle" \/ owner.action # None \/ owner.asking

-----------------------------------------------------------------------------
(* PlaybackControl *)

\* Mutants of Revocation: the intent waits for the next synchronisation; hiding unlocks.
RevokedLater(p)    == [p EXCEPT !.lease = None]
RevokedUnlocked(p) == [Hidden(p) EXCEPT !.blocked = FALSE]
Revocation(p)      == Hidden(p)

\* set_visible(False), cancelPlaybackIntent
Hide ==
    /\ owner.shown
    /\ owner' \in {[owner EXCEPT !.shown = FALSE], owner} /\ pc' = Revocation(pc)
    /\ revoked' = TRUE /\ UNCHANGED <<core, w, art, v, doubt>>

Show ==
    /\ ~owner.shown /\ owner' = [owner EXCEPT !.shown = TRUE]
    /\ UNCHANGED <<core, pc, w, art, v, revoked, doubt>>

\* _start: every intent consumes the observation that was on screen.
Start ==
    /\ owner.shown /\ owner.item # 0 /\ ~Busy /\ ~pc.blocked
    /\ \E r \in Requests :
         /\ r.item = owner.item /\ r.binding = owner.binding /\ (r.knob = None) = (r.verb = "command")
         /\ IF r.verb = "set"
            THEN Holds(owner, pc.lease) /\ pc.lease.knob = r.knob /\ r.value = pc.lease.value
            ELSE r.value = 0
         /\ pc' = [pc EXCEPT !.req = r, !.lease = None]
         /\ w' = [Idle EXCEPT !.step = "begin", !.req = r]
    /\ revoked' = FALSE /\ UNCHANGED <<core, owner, art, v, doubt>>

\* worker: is the request still the one on screen?
Valid   == Holds(owner, pc.req) /\ pc.req = w.req
Stop(e) == w' = [w EXCEPT !.step = "done", !.error = e]
Go(s)   == w' = [w EXCEPT !.step = s]

Begin == w.step = "begin" /\ IF Valid THEN Go("active") ELSE Stop("changed")

\* The owner's active Session; a definite answer that it is another one withdraws it.
Active ==
    /\ w.step = "active"
    /\ \/ IF ~Valid THEN Stop("changed")
          ELSE IF core.item = w.req.item THEN Go("status")
          ELSE \E e \in {"withdraw", "changed"} : Stop(e)
       \/ \E e \in {"failed", "denied"} : Stop(e)

Status ==
    /\ w.step = "status"
    /\ \/ IF ~Valid \/ core.item # w.req.item \/ (w.req.verb = "set" /\ core.value # w.req.value)
          THEN Stop("changed")
          ELSE w' = [w EXCEPT !.got = core.value,
                              !.step = CASE w.req.knob = "outputs" -> "inventory"
                                         [] w.req.verb = "read"    -> "done"
                                         [] OTHER                  -> "write"]
       \/ \E e \in {"failed", "denied"} : Stop(e)

\* playback_outputs: the inventory must agree with the status on the active output.
Agrees == core.value = w.got

Inventory ==
    /\ w.step = "inventory"
    /\ \/ IF ~Valid THEN Stop("changed")
          ELSE IF ~Agrees THEN Stop("failed")
          ELSE IF w.req.verb = "read" THEN Go("done") ELSE Go("write")
       \/ \E e \in {"failed", "denied"} : Stop(e)

\* The one POST.  It is carried out or not, whatever the answer says.
Write ==
    /\ w.step = "write"
    /\ \/ /\ core.item # 0
          /\ IF w.req.verb = "set" THEN core' = [core EXCEPT !.value = 1 - w.req.value]
             ELSE core.items < MaxItems /\ core' = [core EXCEPT !.item = core.items + 1, !.items = @ + 1]
          /\ \E e \in {None, "changed", "failed"} : Stop(e)
       \/ \E e \in {"changed", "failed", "denied"} : Stop(e) /\ UNCHANGED core

Granted == [knob |-> w.req.knob, item |-> w.req.item, binding |-> w.req.binding, value |-> w.got]

\* SessionController.refresh, as finish and refresh call it.
Read(o) == IF o.action = None /\ v.step = "idle" /\ ~o.asking
           THEN [o EXCEPT !.action = "read", !.read = o.binding] ELSE o

\* Mutant of Release: the job of a withdrawn request is not taken off the books.
ReleaseIfValid == IF Holds(owner, pc.req) THEN Idle ELSE w
Release        == Idle

Finish ==
    /\ w.step = "done" /\ w' = Release
    /\ LET still == Holds(owner, pc.req)
           reads == w.req.verb = "read"
       IN IF still /\ w.error \in {"denied", "withdraw"} THEN Invalidate
          ELSE /\ doubt' = (doubt \/ (still /\ ~reads /\ w.error # None))
               /\ CASE ~still -> Changed(owner, [pc EXCEPT !.req = None])
                    [] still /\ reads /\ w.error = None -> Changed(owner, [pc EXCEPT !.lease = Granted])
                    [] still /\ reads /\ w.error # None -> Changed(owner, pc)
                    [] still /\ ~reads /\ w.error # None -> Changed(owner, [pc EXCEPT !.blocked = TRUE])
                    [] still /\ ~reads /\ w.error = None -> Changed(Read(owner), pc)
    /\ UNCHANGED <<core, v>>

\* PlaybackControl.refresh: the lock opens once the owner is being read again.
Refresh ==
    /\ ~Busy
    /\ owner' = Read(owner) /\ pc' = [Hidden(pc) EXCEPT !.blocked = FALSE]
    /\ art' = Kept(owner', art) /\ doubt' = FALSE
    /\ UNCHANGED <<core, w, v, revoked>>

Worker == \/ (Begin \/ Active \/ Status \/ Inventory) /\ UNCHANGED <<core, owner, pc, art, v, revoked, doubt>>
          \/ Write /\ UNCHANGED <<owner, pc, art, v, revoked, doubt>>

-----------------------------------------------------------------------------
(* ArtworkPreparation *)

Prepare ==
    /\ owner.pane /\ owner.item # 0 /\ owner.media = 0 /\ ~Busy
    /\ art' = [item |-> owner.item, binding |-> owner.binding]
    /\ v' = [Idle EXCEPT !.step = "begin", !.req = art']
    /\ UNCHANGED <<core, owner, pc, w, revoked, doubt>>

Halt(e) == v' = [v EXCEPT !.step = "done", !.error = e]

\* check, POST session/media/prepare, check
Post ==
    /\ v.step = "begin"
    /\ \/ IF Stands(owner, art) THEN v' = [v EXCEPT !.step = "reread"] ELSE Halt("changed")
       \/ \E e \in {"failed", "denied"} : Halt(e)

\* What the POST answers is never shown: the media come from a read of their own.
Reread ==
    /\ v.step = "reread"
    /\ \/ IF ~Stands(owner, art) THEN Halt("changed")
          ELSE IF core.item # v.req.item THEN Halt("withdraw")
          ELSE v' = [v EXCEPT !.step = "done", !.got = core.item]
       \/ \E e \in {"failed", "denied"} : Halt(e)

\* Mutant of Fits: any media that arrive are merged into the Session on screen.
FitsAnything == v.error = None
Fits         == Stands(owner, art) /\ v.error = None

Merge ==
    /\ v.step = "done" /\ v' = Idle
    /\ IF ~Fits /\ Stands(owner, art) /\ v.error \in {"denied", "withdraw"} THEN Invalidate
       ELSE /\ owner' = IF Fits THEN [owner EXCEPT !.media = v.got] ELSE owner
            /\ art' = IF Fits THEN None ELSE Kept(owner, art)
            /\ pc' = Synced(owner, pc) /\ revoked' = (revoked \/ pc'.req = None)
            /\ UNCHANGED doubt
    /\ UNCHANGED <<core, w>>

\* setMomentArtworkVisible: hiding the pane takes the request back for good.
Pane ==
    /\ owner' = [owner EXCEPT !.pane = ~@] /\ art' = IF owner.pane THEN None ELSE art
    /\ UNCHANGED <<core, pc, w, v, revoked, doubt>>

Preparation == (Post \/ Reread) /\ UNCHANGED <<core, owner, pc, w, art, revoked, doubt>>

-----------------------------------------------------------------------------
(* SessionController *)

\* Mutant of Quiet: a read may start beside a playback intent.
QuietBeside == v.step = "idle"
Quiet       == w.step = "idle" /\ v.step = "idle"

\* _launch: a read of the owner and a question wait for the workers, End does not.
OwnerRead ==
    /\ Quiet /\ owner.action = None
    /\ Changed([owner EXCEPT !.action = "read", !.read = owner.binding], pc)
    /\ UNCHANGED <<core, w, v, doubt>>

Ask ==
    /\ Quiet /\ owner.action = None /\ ~owner.asking
    /\ Changed([owner EXCEPT !.asking = TRUE], pc) /\ UNCHANGED <<core, w, v, doubt>>

End ==
    /\ owner.item # 0 /\ owner.action # "end"
    /\ Changed([owner EXCEPT !.action = "end"], pc) /\ UNCHANGED <<core, w, v, doubt>>

Answered ==
    /\ \/ /\ owner.action = "read" /\ owner.read = owner.binding
          /\ \E i \in {core.item, owner.item} :
               Changed([owner EXCEPT !.action = None, !.item = i,
                                     !.media = IF i = owner.item THEN @ ELSE 0], pc)
          /\ UNCHANGED core
       \/ owner.action = "end" /\ Changed([owner EXCEPT !.action = None], pc) /\ UNCHANGED core
       \/ /\ owner.action = "end" /\ core' = [core EXCEPT !.item = 0]
          /\ Changed([owner EXCEPT !.action = None, !.item = 0, !.media = 0], pc)
       \/ owner.asking /\ Changed([owner EXCEPT !.asking = FALSE], pc) /\ UNCHANGED core
    /\ UNCHANGED <<w, v, doubt>>

\* Focus, pairing, a definite denial, an answer for another binding.
Withdraw == Invalidate /\ UNCHANGED <<core, w, v>>

\* The binding moves first; the screen hears of it later.
Move ==
    /\ owner.binding < MaxMoves /\ owner' = [owner EXCEPT !.binding = @ + 1]
    /\ core.items < MaxItems /\ core' = [core EXCEPT !.item = core.items + 1, !.items = @ + 1]
    /\ UNCHANGED <<pc, w, art, v, revoked, doubt>>
Heard == Changed(owner, pc) /\ UNCHANGED <<core, w, v, doubt>>

\* Other clients.
Foreign ==
    /\ \/ core.items < MaxItems /\ core' = [core EXCEPT !.item = core.items + 1, !.items = @ + 1]
       \/ core.item # 0 /\ core' = [core EXCEPT !.item = 0]
       \/ core.turns < MaxTurns /\ core' = [core EXCEPT !.value = 1 - @, !.turns = @ + 1]
    /\ UNCHANGED <<owner, pc, w, art, v, revoked, doubt>>

Controls == Hide \/ Show \/ Start \/ Finish \/ Refresh \/ Worker
Images   == Prepare \/ Merge \/ Pane \/ Preparation
Screen   == OwnerRead \/ Ask \/ End \/ Answered \/ Withdraw \/ Move \/ Heard

-----------------------------------------------------------------------------

Init == /\ core = [item |-> 1, value |-> 0, items |-> 1, turns |-> 0]
        /\ owner = [binding |-> 0, read |-> 0, item |-> 0, action |-> None, asking |-> FALSE,
                    shown |-> FALSE, pane |-> FALSE, media |-> 0]
        /\ pc = [req |-> None, lease |-> None, blocked |-> FALSE] /\ w = Idle
        /\ art = None /\ v = Idle /\ revoked = FALSE /\ doubt = FALSE

Next == Controls \/ Images \/ Screen \/ Foreign
Spec == Init /\ [][Next]_vars

\* The worker threads run, their exchanges end, and Qt delivers their results.
FairSpec == Spec /\ WF_vars(Worker) /\ WF_vars(Finish) /\ WF_vars(Preparation) /\ WF_vars(Merge)

-----------------------------------------------------------------------------
(* Properties *)

\* Intents, preparations, reads and questions are alternatives (snapshot, start, _launch),
\* and an unsettled write leaves nothing to set from (_start).
ControlsTypeOK ==
    /\ core \in [item : 0..MaxItems, value : {0, 1}, items : 1..MaxItems, turns : 0..MaxTurns]
    /\ owner \in [binding : 0..MaxMoves, read : 0..MaxMoves, item : 0..MaxItems, asking : BOOLEAN,
                  action : {None, "read", "end"}, shown : BOOLEAN, pane : BOOLEAN, media : 0..MaxItems]
    /\ pc \in [req : Requests \cup {None}, lease : Leases \cup {None}, blocked : BOOLEAN]
    /\ w.step \in {"idle", "begin", "active", "status", "inventory", "write", "done"}
    /\ v.step \in {"idle", "begin", "reread", "done"}
    /\ {w.req} \subseteq Requests \cup {None} /\ {w.error, v.error} \subseteq Errors
    /\ Running <= 1
    /\ pc.blocked => pc.lease = None

\* An intent that was taken back before the last check of its worker is never sent, even
\* if the controls are shown again meanwhile (hide, sync, valid).
RevokedNeverSent == [][w.step # "write" /\ w'.step = "write" => ~revoked]_vars

\* After a result that was taken for uncertain, its request being still valid, nothing more
\* is set in motion until the user has Core read again or the owner is invalidated, whatever
\* is hidden, shown or re-read meanwhile (finish, refresh).  A request that was hidden before
\* its result came is dropped without a lock.
LockedUntilRead == doubt => w.step = "idle"

\* The artwork listed on screen belongs to the moment on screen (ArtworkPreparation.finish).
MediaOfShown == owner.media \in {0, owner.item}

\* Both workers come to an end and free their control (finish).
JobsEnd == (w.step # "idle" ~> w.step = "idle") /\ (v.step # "idle" ~> v.step = "idle")
=============================================================================
