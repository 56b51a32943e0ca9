------------------------ MODULE SessionControlsProofs ------------------------
(***************************************************************************)
(* Proofs about SessionControls: for any knobs, items, moves and turns of  *)
(* other clients, intents, preparations and reads exclude each other, an   *)
(* intent that was taken back is not sent, nothing is set in motion after  *)
(* an uncertain result, and the artwork on screen is that of the moment.   *)
(*                                                                         *)
(* Below them, proofs about SessionImages: for any contents, artworks,     *)
(* revisions, deadlines and Sessions, pixels on display are those of the   *)
(* lease in force, what was withdrawn does not come back in its Session,   *)
(* and no read prolongs what is on screen.                                 *)
(***************************************************************************)
EXTENDS SessionControls, SessionImages, TLAPS

-----------------------------------------------------------------------------
(* The inductive invariant, part by part *)

Pictures == [item : 1..MaxItems, binding : 0..MaxMoves]

CoreTyped  == core \in [item : 0..MaxItems, value : {0, 1}, items : 1..MaxItems, turns : 0..MaxTurns]
Owners     == [binding : 0..MaxMoves, read : 0..MaxMoves, item : 0..MaxItems, asking : BOOLEAN,
               action : {None, "read", "end"}, shown : BOOLEAN, pane : BOOLEAN, media : 0..MaxItems]
OwnerTyped == owner \in Owners
Controlled == [req : Requests \cup {None}, lease : Leases \cup {None}, blocked : BOOLEAN]
PcTyped    == pc \in Controlled
WTyped     == w \in [step : {"idle", "begin", "active", "status", "inventory", "write", "done"},
                     req : Requests \cup {None}, got : {0, 1}, error : Errors]
VTyped     == v \in [step : {"idle", "begin", "reread", "done"}, req : Pictures \cup {None},
                     got : 0..MaxItems, error : Errors]
ArtTyped   == art \in Pictures \cup {None}
FlagsTyped == revoked \in BOOLEAN /\ doubt \in BOOLEAN
ControlsTyped == CoreTyped /\ OwnerTyped /\ PcTyped /\ WTyped /\ VTyped /\ ArtTyped /\ FlagsTyped

\* A worker that runs has a request, and a knob if it reads or sets one.
RequestInv ==
    /\ w.step # "idle" => w.req \in Requests /\ (w.req.verb \in Turns => w.req.knob \in Knobs)
    /\ v.step # "idle" => v.req \in Pictures

\* The two workers, and a read or a question of the owner, are alternatives.
Reading   == owner.action = "read" \/ owner.asking
Exclusive == /\ w.step = "idle" \/ v.step = "idle"
             /\ Reading => w.step = "idle" /\ v.step = "idle"

\* What was observed is consumed by the intent, and an unsettled write leaves neither a
\* worker nor an observation.
LockInv ==
    /\ w.step # "idle" => pc.lease = None /\ ~pc.blocked
    /\ pc.blocked => pc.lease = None
    /\ doubt => pc.blocked

\* An intent that was taken back is gone.
RevokedInv == revoked => pc.req = None

\* A preparation still wanted is the one whose worker runs, and it found its own image.
ImageInv ==
    /\ v.step # "idle" => art \in {None, v.req}
    /\ v.step = "done" /\ v.error = None => v.got = v.req.item

ControlsInv == /\ ControlsTyped /\ RequestInv /\ Exclusive /\ LockInv /\ RevokedInv /\ ImageInv
               /\ MediaOfShown

-----------------------------------------------------------------------------
(* The handlers the actions share *)

LEMMA NothingTyped == 0 \in 0..MaxItems /\ 0 \in {0, 1} /\ None \in Errors /\ None \in {None, "read", "end"}
BY ControlsBounds DEF Errors

\* What a change of the screen leaves of the two requests (sync of both components).
LEMMA ChangedStep ==
    ASSUME NEW o, NEW p \in Controlled, Changed(o, p)
    PROVE  /\ owner' = o
           /\ pc' \in Controlled /\ pc'.blocked = p.blocked
           /\ pc'.req \in {p.req, None} /\ pc'.lease \in {p.lease, None}
           /\ art' \in {art, None}
           /\ revoked' = (revoked \/ pc'.req = None)
BY DEF Controlled, Changed, Synced, Kept

LEMMA HiddenStep ==
    ASSUME NEW p \in Controlled
    PROVE  /\ Hidden(p) \in Controlled /\ Hidden(p).req = None /\ Hidden(p).lease = None
           /\ Hidden(p).blocked = p.blocked
           /\ [Hidden(p) EXCEPT !.blocked = FALSE] \in [req : {None}, lease : {None}, blocked : {FALSE}]
BY DEF Controlled, Hidden

LEMMA InvalidateStep ==
    ASSUME ControlsTyped, Invalidate
    PROVE  /\ OwnerTyped' /\ PcTyped' /\ ArtTyped' /\ FlagsTyped'
           /\ ~Reading' /\ MediaOfShown'
           /\ pc'.req = None /\ pc'.lease = None /\ ~pc'.blocked
           /\ art' = None /\ ~doubt'
<1>. USE DEF ControlsTyped
<1>1. pc' \in [req : {None}, lease : {None}, blocked : {FALSE}]
  BY HiddenStep DEF Invalidate, PcTyped
<1>2. owner' \in Owners /\ owner'.item = 0 /\ owner'.media = 0 /\ owner'.action = None /\ owner'.asking = FALSE
  <2>1. owner' = [owner EXCEPT !.item = 0, !.action = None, !.asking = FALSE, !.media = 0]
    BY DEF Invalidate, Invalid
  <2>. QED
    BY <2>1, NothingTyped DEF OwnerTyped, Owners
<1>3. ~Reading'
  BY <1>2, NoneIsNothing DEF Reading
<1>4. art' = None /\ revoked' = TRUE /\ doubt' = FALSE
  BY DEF Invalidate
<1>. QED
  BY <1>1, <1>2, <1>3, <1>4 DEF OwnerTyped, PcTyped, Controlled, ArtTyped, FlagsTyped, MediaOfShown

\* A change of the screen that starts no read beside a worker keeps the invariant.
LEMMA ScreenKeeps ==
    ASSUME ControlsInv, NEW o \in Owners, Changed(o, pc), CoreTyped', UNCHANGED <<w, v, doubt>>,
           (o.action = "read" \/ o.asking) => Reading \/ (w.step = "idle" /\ v.step = "idle"),
           o.media \in {0, o.item}
    PROVE  ControlsInv'
<1>. USE DEF ControlsInv, ControlsTyped
<1>1. /\ owner' = o
      /\ pc' \in Controlled /\ pc'.blocked = pc.blocked
      /\ pc'.req \in {pc.req, None} /\ pc'.lease \in {pc.lease, None}
      /\ art' \in {art, None}
      /\ revoked' = (revoked \/ pc'.req = None)
  BY ChangedStep DEF PcTyped
<1>2. ControlsTyped'
  BY <1>1 DEF OwnerTyped, PcTyped, WTyped, VTyped, ArtTyped, FlagsTyped
<1>3. RequestInv' /\ Exclusive' /\ MediaOfShown'
  BY <1>1 DEF RequestInv, Exclusive, Reading, MediaOfShown
<1>4. LockInv' /\ ImageInv'
  BY <1>1 DEF LockInv, ImageInv
<1>5. RevokedInv'
  BY <1>1 DEF RevokedInv
<1>. QED
  BY <1>2, <1>3, <1>4, <1>5

\* Withdrawing the screen keeps it too, whatever worker has just ended.
LEMMA WithdrawKeeps ==
    ASSUME ControlsInv, Invalidate, UNCHANGED core,
           WTyped', VTyped', RequestInv', w'.step = "idle" \/ v'.step = "idle",
           v'.step = "done" => v' = v
    PROVE  ControlsInv'
<1>. USE DEF ControlsInv, ControlsTyped
<1>1. /\ OwnerTyped' /\ PcTyped' /\ ArtTyped' /\ FlagsTyped'
      /\ ~Reading' /\ MediaOfShown'
      /\ pc'.req = None /\ pc'.lease = None /\ ~pc'.blocked
      /\ art' = None /\ ~doubt'
  BY InvalidateStep
<1>2. ControlsTyped'
  BY <1>1 DEF CoreTyped
<1>. QED
  BY <1>1, <1>2 DEF Exclusive, LockInv, RevokedInv, ImageInv

-----------------------------------------------------------------------------
(* One lemma for each group of actions *)

LEMMA ControlsInit == Init => ControlsInv
<1>. SUFFICES ASSUME Init PROVE ControlsInv
  OBVIOUS
<1>. USE DEF Init, Idle
<1>1. CoreTyped /\ OwnerTyped
  BY ControlsBounds DEF CoreTyped, OwnerTyped, Owners
<1>2. PcTyped /\ WTyped /\ VTyped /\ ArtTyped /\ FlagsTyped
  BY NothingTyped DEF PcTyped, Controlled, WTyped, VTyped, ArtTyped, FlagsTyped, Errors
<1>3. RequestInv /\ Exclusive /\ LockInv /\ RevokedInv /\ ImageInv /\ MediaOfShown
  BY NoneIsNothing DEF RequestInv, Exclusive, Reading, LockInv, RevokedInv, ImageInv, MediaOfShown
<1>. QED
  BY <1>1, <1>2, <1>3 DEF ControlsInv, ControlsTyped

LEMMA ScreenStep == ControlsInv /\ (OwnerRead \/ Ask \/ End \/ Answered \/ Withdraw \/ Heard) => ControlsInv'
<1>. SUFFICES ASSUME ControlsInv, OwnerRead \/ Ask \/ End \/ Answered \/ Withdraw \/ Heard PROVE ControlsInv'
  OBVIOUS
<1>0. owner \in Owners /\ owner.media \in {0, owner.item} /\ (UNCHANGED core => CoreTyped')
  BY DEF ControlsInv, ControlsTyped, OwnerTyped, MediaOfShown, CoreTyped
<1>1. CASE OwnerRead
  <2>. DEFINE o == [owner EXCEPT !.action = "read", !.read = owner.binding]
  <2>1. o \in Owners /\ o.media = owner.media /\ o.item = owner.item
    BY <1>0 DEF Owners
  <2>. QED
    BY <1>0, <1>1, <2>1, ScreenKeeps DEF OwnerRead, Quiet
<1>2. CASE Ask
  <2>. DEFINE o == [owner EXCEPT !.asking = TRUE]
  <2>1. o \in Owners /\ o.media = owner.media /\ o.item = owner.item
    BY <1>0 DEF Owners
  <2>. QED
    BY <1>0, <1>2, <2>1, ScreenKeeps DEF Ask, Quiet
<1>3. CASE End
  <2>. DEFINE o == [owner EXCEPT !.action = "end"]
  <2>1. o \in Owners /\ o.media = owner.media /\ o.item = owner.item /\ o.action = "end" /\ o.asking = owner.asking
    BY <1>0 DEF Owners
  <2>. HIDE DEF o
  <2>2. Changed(o, pc) /\ UNCHANGED <<core, w, v, doubt>>
    BY <1>3 DEF End, o
  <2>. QED
    BY <1>0, <2>1, <2>2, ScreenKeeps DEF Reading
<1>4. CASE Answered
  <2>. USE NoneIsNothing
  <2>0. UNCHANGED <<w, v, doubt>>
    BY <1>4 DEF Answered
  <2>1. ASSUME NEW i \in {core.item, owner.item}, UNCHANGED core,
               Changed([owner EXCEPT !.action = None, !.item = i,
                                     !.media = IF i = owner.item THEN @ ELSE 0], pc)
        PROVE  ControlsInv'
    <3>. DEFINE o == [owner EXCEPT !.action = None, !.item = i, !.media = IF i = owner.item THEN @ ELSE 0]
    <3>0. i \in 0..MaxItems
      BY <1>0 DEF ControlsInv, ControlsTyped, CoreTyped, Owners
    <3>1. o \in Owners /\ o.action = None /\ o.asking = owner.asking /\ o.media \in {0, o.item}
      BY <1>0, <3>0, NothingTyped DEF Owners
    <3>. HIDE DEF o
    <3>2. Changed(o, pc)
      BY <2>1 DEF o
    <3>. QED
      BY <1>0, <2>0, <2>1, <3>1, <3>2, ScreenKeeps DEF Reading
  <2>2. ASSUME UNCHANGED core, Changed([owner EXCEPT !.action = None], pc)
        PROVE  ControlsInv'
    <3>. DEFINE o == [owner EXCEPT !.action = None]
    <3>1. o \in Owners /\ o.action = None /\ o.asking = owner.asking /\ o.media \in {0, o.item}
      BY <1>0 DEF Owners
    <3>. HIDE DEF o
    <3>2. Changed(o, pc)
      BY <2>2 DEF o
    <3>. QED
      BY <1>0, <2>0, <2>2, <3>1, <3>2, ScreenKeeps DEF Reading
  <2>3. ASSUME core' = [core EXCEPT !.item = 0],
               Changed([owner EXCEPT !.action = None, !.item = 0, !.media = 0], pc)
        PROVE  ControlsInv'
    <3>. DEFINE o == [owner EXCEPT !.action = None, !.item = 0, !.media = 0]
    <3>1. o \in Owners /\ o.action = None /\ o.asking = owner.asking /\ o.media \in {0, o.item}
      BY <1>0, NothingTyped DEF Owners
    <3>. HIDE DEF o
    <3>2. Changed(o, pc)
      BY <2>3 DEF o
    <3>3. CoreTyped'
      BY <2>3, ControlsBounds DEF ControlsInv, ControlsTyped, CoreTyped
    <3>. QED
      BY <2>0, <3>1, <3>2, <3>3, ScreenKeeps DEF Reading
  <2>4. ASSUME UNCHANGED core, Changed([owner EXCEPT !.asking = FALSE], pc)
        PROVE  ControlsInv'
    <3>. DEFINE o == [owner EXCEPT !.asking = FALSE]
    <3>1. o \in Owners /\ o.action = owner.action /\ ~o.asking /\ o.media \in {0, o.item}
      BY <1>0 DEF Owners
    <3>. HIDE DEF o
    <3>2. Changed(o, pc)
      BY <2>4 DEF o
    <3>. QED
      BY <1>0, <2>0, <2>4, <3>1, <3>2, ScreenKeeps DEF Reading
  <2>. QED
    BY <1>4, <2>1, <2>2, <2>3, <2>4 DEF Answered
<1>5. CASE Withdraw
  BY <1>5, WithdrawKeeps DEF Withdraw, ControlsInv, ControlsTyped, WTyped, VTyped, RequestInv, Exclusive
<1>6. CASE Heard
  BY <1>0, <1>6, ScreenKeeps DEF Heard, Reading
<1>. QED
  BY <1>1, <1>2, <1>3, <1>4, <1>5, <1>6

LEMMA CoreSteps ==
    ASSUME CoreTyped,
           \/ core.items < MaxItems /\ core' = [core EXCEPT !.item = core.items + 1, !.items = @ + 1]
           \/ core' = [core EXCEPT !.item = 0]
           \/ core.turns < MaxTurns /\ core' = [core EXCEPT !.value = 1 - @, !.turns = @ + 1]
    PROVE  CoreTyped'
<1>. USE DEF CoreTyped
<1>1. CASE core.items < MaxItems /\ core' = [core EXCEPT !.item = core.items + 1, !.items = @ + 1]
  <2>1. core.items + 1 \in 1..MaxItems /\ core.items + 1 \in 0..MaxItems
    BY <1>1, ControlsBounds
  <2>. QED
    BY <1>1, <2>1
<1>2. CASE core' = [core EXCEPT !.item = 0]
  BY <1>2, NothingTyped
<1>3. CASE core.turns < MaxTurns /\ core' = [core EXCEPT !.value = 1 - @, !.turns = @ + 1]
  <2>1. core.turns + 1 \in 0..MaxTurns /\ 1 - core.value \in {0, 1}
    BY <1>3, ControlsBounds
  <2>. QED
    BY <1>3, <2>1
<1>. QED
  BY <1>1, <1>2, <1>3

\* Other clients, the binding, and the panes of the screen.
LEMMA OutsideStep == ControlsInv /\ (Foreign \/ Move \/ Show \/ Hide \/ Pane) => ControlsInv'
<1>. SUFFICES ASSUME ControlsInv, Foreign \/ Move \/ Show \/ Hide \/ Pane PROVE ControlsInv'
  OBVIOUS
<1>. USE DEF ControlsInv, ControlsTyped
<1>1. CASE Foreign
  <2>1. CoreTyped'
    BY <1>1, CoreSteps DEF Foreign
  <2>. QED
    BY <1>1, <2>1 DEF Foreign, OwnerTyped, PcTyped, WTyped, VTyped, ArtTyped, FlagsTyped,
                      RequestInv, Exclusive, Reading, LockInv, RevokedInv, ImageInv, MediaOfShown
<1>2. CASE Move
  <2>1. CoreTyped'
    BY <1>2, CoreSteps DEF Move
  <2>2. owner.binding + 1 \in 0..MaxMoves
    BY <1>2, ControlsBounds DEF Move, OwnerTyped, Owners
  <2>3. owner' = [owner EXCEPT !.binding = owner.binding + 1]
    BY <1>2 DEF Move
  <2>4. OwnerTyped' /\ UNCHANGED <<owner.action, owner.asking, owner.item, owner.media>>
    BY <2>2, <2>3 DEF OwnerTyped, Owners
  <2>. QED
    BY <1>2, <2>1, <2>4 DEF Move, PcTyped, WTyped, VTyped, ArtTyped, FlagsTyped,
                      RequestInv, Exclusive, Reading, LockInv, RevokedInv, ImageInv, MediaOfShown
<1>3. CASE Show \/ Pane
  <2>1. OwnerTyped' /\ UNCHANGED <<owner.action, owner.asking, owner.item, owner.media>>
    <3>1. \A b \in BOOLEAN : /\ [owner EXCEPT !.shown = b] \in Owners
                             /\ [owner EXCEPT !.pane = b] \in Owners
      BY DEF OwnerTyped, Owners
    <3>2. \E b \in BOOLEAN : owner' = [owner EXCEPT !.shown = b] \/ owner' = [owner EXCEPT !.pane = b]
      BY <1>3 DEF Show, Pane
    <3>. QED
      BY <3>1, <3>2 DEF OwnerTyped, Owners
  <2>2. art' \in {art, None} /\ UNCHANGED <<core, pc, w, v, revoked, doubt>>
    BY <1>3 DEF Show, Pane
  <2>3. CoreTyped' /\ PcTyped' /\ WTyped' /\ VTyped' /\ ArtTyped' /\ FlagsTyped'
    BY <2>2 DEF CoreTyped, PcTyped, WTyped, VTyped, ArtTyped, FlagsTyped
  <2>. QED
    BY <2>1, <2>2, <2>3 DEF RequestInv, Exclusive, Reading, LockInv, RevokedInv, ImageInv, MediaOfShown
<1>4. CASE Hide
  <2>1. OwnerTyped' /\ UNCHANGED <<owner.action, owner.asking, owner.item, owner.media>>
    <3>1. owner' = owner \/ owner' = [owner EXCEPT !.shown = FALSE]
      BY <1>4 DEF Hide
    <3>. QED
      BY <3>1 DEF OwnerTyped, Owners
  <2>2. /\ pc' \in Controlled /\ pc'.req = None /\ pc'.lease = None /\ pc'.blocked = pc.blocked
        /\ UNCHANGED <<core, w, art, v, doubt>> /\ revoked'
    BY <1>4, HiddenStep DEF Hide, Revocation, PcTyped
  <2>3. CoreTyped' /\ PcTyped' /\ WTyped' /\ VTyped' /\ ArtTyped' /\ FlagsTyped'
    BY <1>4, <2>2 DEF Hide, CoreTyped, PcTyped, WTyped, VTyped, ArtTyped, FlagsTyped
  <2>. QED
    BY <2>1, <2>2, <2>3 DEF RequestInv, Exclusive, Reading, LockInv, RevokedInv, ImageInv, MediaOfShown
<1>. QED
  BY <1>1, <1>2, <1>3, <1>4

\* _start, and the steps of the control's worker.
LEMMA StartStep == ControlsInv /\ Start => ControlsInv'
<1>. SUFFICES ASSUME ControlsInv, Start PROVE ControlsInv'
  OBVIOUS
<1>. USE DEF ControlsInv, ControlsTyped
<1>1. PICK r \in Requests :
        /\ (r.knob = None) = (r.verb = "command")
        /\ pc' = [pc EXCEPT !.req = r, !.lease = None]
        /\ w' = [Idle EXCEPT !.step = "begin", !.req = r]
  BY DEF Start
<1>2. ~Busy /\ ~pc.blocked /\ revoked' = FALSE /\ UNCHANGED <<core, owner, art, v, doubt>>
  BY DEF Start
<1>3. w'.step = "begin" /\ w'.req = r /\ WTyped'
  BY <1>1, NothingTyped DEF Idle, WTyped
<1>4. pc' \in Controlled /\ pc'.lease = None /\ pc'.blocked = pc.blocked
  BY <1>1 DEF PcTyped, Controlled
<1>5. r.verb \in Turns => r.knob \in Knobs
  BY <1>1 DEF Requests, Turns
<1>6. v.step = "idle" /\ ~Reading /\ w.step = "idle"
  BY <1>2, NoneIsNothing DEF Busy, Reading
<1>7. CoreTyped' /\ OwnerTyped' /\ PcTyped' /\ VTyped' /\ ArtTyped' /\ FlagsTyped'
  BY <1>2, <1>4 DEF CoreTyped, OwnerTyped, PcTyped, VTyped, ArtTyped, FlagsTyped
<1>8. RequestInv' /\ Exclusive'
  BY <1>2, <1>3, <1>5, <1>6 DEF RequestInv, Exclusive, Reading
<1>9. LockInv' /\ RevokedInv' /\ ImageInv' /\ MediaOfShown'
  BY <1>2, <1>4 DEF LockInv, RevokedInv, ImageInv, MediaOfShown
<1>. QED
  BY <1>3, <1>7, <1>8, <1>9

LEMMA WorkerStep == ControlsInv /\ Worker => ControlsInv'
<1>. SUFFICES ASSUME ControlsInv, Worker PROVE ControlsInv'
  OBVIOUS
<1>. USE DEF ControlsInv, ControlsTyped
<1>0. w.step # "idle" /\ UNCHANGED <<owner, pc, art, v, revoked, doubt>>
  BY DEF Worker, Begin, Active, Status, Inventory, Write
<1>1. CoreTyped'
  <2>1. CASE ~Write
    BY <2>1 DEF Worker, CoreTyped
  <2>2. CASE Write
    <3>1. w.req \in Requests
      BY <1>0 DEF RequestInv
    <3>2. 1 - w.req.value \in {0, 1}
      BY <3>1 DEF Requests
    <3>3. CASE core' = [core EXCEPT !.value = 1 - w.req.value]
      BY <3>2, <3>3 DEF CoreTyped
    <3>4. CASE core.items < MaxItems /\ core' = [core EXCEPT !.item = core.items + 1, !.items = @ + 1]
      BY <3>4, CoreSteps
    <3>5. CASE UNCHANGED core
      BY <3>5 DEF CoreTyped
    <3>. QED
      BY <2>2, <3>3, <3>4, <3>5 DEF Write
  <2>. QED
    BY <2>1, <2>2
<1>2. WTyped' /\ w'.req = w.req /\ w'.step # "idle"
  <2>. USE DEF WTyped
  <2>1. ASSUME NEW s \in {"active", "status", "inventory", "write", "done"}, Go(s)
        PROVE  WTyped' /\ w'.req = w.req /\ w'.step # "idle"
    BY <2>1 DEF Go
  <2>2. ASSUME NEW e \in Errors, Stop(e)
        PROVE  WTyped' /\ w'.req = w.req /\ w'.step # "idle"
    BY <2>2 DEF Stop
  <2>3. CASE Begin \/ Active \/ Inventory
    BY <2>1, <2>2, <2>3 DEF Begin, Active, Inventory, Errors
  <2>4. CASE Status
    <3>1. CASE \E e \in Errors : Stop(e)
      BY <2>2, <3>1
    <3>2. CASE w' = [w EXCEPT !.got = core.value,
                              !.step = CASE w.req.knob = "outputs" -> "inventory"
                                         [] w.req.verb = "read"    -> "done"
                                         [] OTHER                  -> "write"]
      <4>. DEFINE s == CASE w.req.knob = "outputs" -> "inventory"
                         [] w.req.verb = "read"    -> "done"
                         [] OTHER                  -> "write"
      <4>1. s \in {"inventory", "done", "write"}
        OBVIOUS
      <4>2. w' = [w EXCEPT !.got = core.value, !.step = s]
        BY <3>2
      <4>3. core.value \in {0, 1}
        BY DEF CoreTyped
      <4>. HIDE DEF s
      <4>. QED
        BY <4>1, <4>2, <4>3
    <3>. QED
      BY <2>4, <3>1, <3>2 DEF Status, Errors
  <2>5. CASE Write
    BY <2>2, <2>5 DEF Write, Errors
  <2>. QED
    BY <2>3, <2>4, <2>5 DEF Worker
<1>3. OwnerTyped' /\ PcTyped' /\ VTyped' /\ ArtTyped' /\ FlagsTyped'
  BY <1>0 DEF OwnerTyped, PcTyped, VTyped, ArtTyped, FlagsTyped
<1>4. RequestInv' /\ Exclusive'
  BY <1>0, <1>2 DEF RequestInv, Exclusive, Reading
<1>5. LockInv' /\ RevokedInv' /\ ImageInv' /\ MediaOfShown'
  BY <1>0 DEF LockInv, RevokedInv, ImageInv, MediaOfShown
<1>. QED
  BY <1>1, <1>2, <1>3, <1>4, <1>5

\* finish: what was observed, uncertain, withdrawn or done.
LEMMA FinishStep == ControlsInv /\ Finish => ControlsInv'
<1>. SUFFICES ASSUME ControlsInv, Finish PROVE ControlsInv'
  OBVIOUS
<1>. USE DEF ControlsInv, ControlsTyped
<1>. DEFINE still == Holds(owner, pc.req)
            reads == w.req.verb = "read"
<1>0. /\ w.step = "done" /\ w' = Idle /\ UNCHANGED <<core, v>>
      /\ v.step = "idle" /\ pc.lease = None /\ ~pc.blocked /\ ~doubt
  BY DEF Finish, Release, Exclusive, LockInv
<1>1. CoreTyped' /\ WTyped' /\ VTyped' /\ RequestInv'
  <2>1. CoreTyped' /\ VTyped'
    BY <1>0 DEF CoreTyped, VTyped
  <2>2. WTyped'
    BY <1>0, NothingTyped DEF Idle, WTyped
  <2>. QED
    BY <1>0, <2>1, <2>2 DEF RequestInv, Idle
<1>2. CASE Invalidate
  BY <1>0, <1>1, <1>2, WithdrawKeeps
<1>3. ASSUME NEW o \in Owners, NEW p \in Controlled, Changed(o, p), p.blocked => p.lease = None,
             o.media \in {0, o.item}, p.req \in {pc.req, None},
             doubt' \in BOOLEAN, doubt' => p.blocked
      PROVE  ControlsInv'
  <2>1. /\ owner' = o
        /\ pc' \in Controlled /\ pc'.blocked = p.blocked
        /\ pc'.req \in {p.req, None} /\ pc'.lease \in {p.lease, None}
        /\ art' \in {art, None}
        /\ revoked' = (revoked \/ pc'.req = None)
    BY <1>3, ChangedStep
  <2>2. OwnerTyped' /\ PcTyped' /\ ArtTyped' /\ FlagsTyped'
    BY <1>3, <2>1 DEF OwnerTyped, PcTyped, ArtTyped, FlagsTyped
  <2>3. Exclusive' /\ MediaOfShown' /\ ImageInv'
    BY <1>0, <1>3, <2>1 DEF Exclusive, Idle, MediaOfShown, ImageInv
  <2>4. LockInv'
    BY <1>0, <1>3, <2>1 DEF LockInv, Idle
  <2>5. RevokedInv'
    BY <1>3, <2>1 DEF RevokedInv
  <2>. QED
    BY <1>1, <2>2, <2>3, <2>4, <2>5
<1>4. owner \in Owners /\ owner.media \in {0, owner.item} /\ pc \in Controlled /\ WTyped /\ RequestInv
  BY DEF OwnerTyped, PcTyped, MediaOfShown
<1>5. CASE ~Invalidate
  <2>. HIDE DEF ControlsInv, ControlsTyped
  <2>0. /\ doubt' = (doubt \/ (still /\ ~reads /\ w.error # None))
        /\ CASE ~still -> Changed(owner, [pc EXCEPT !.req = None])
              [] still /\ reads /\ w.error = None -> Changed(owner, [pc EXCEPT !.lease = Granted])
              [] still /\ reads /\ w.error # None -> Changed(owner, pc)
              [] still /\ ~reads /\ w.error # None -> Changed(owner, [pc EXCEPT !.blocked = TRUE])
              [] still /\ ~reads /\ w.error = None -> Changed(Read(owner), pc)
    BY <1>5 DEF Finish, ControlsInv
  <2>00. doubt' \in BOOLEAN
    BY <2>0 DEF ControlsInv, ControlsTyped, FlagsTyped
  <2>. HIDE DEF still, reads
  <2>1. CASE ~still
    <3>. DEFINE p == [pc EXCEPT !.req = None]
    <3>1. p \in Controlled /\ p.req = None /\ p.lease = pc.lease /\ p.blocked = pc.blocked
      BY <1>4 DEF Controlled
    <3>2. Changed(owner, p) /\ ~doubt'
      BY <1>0, <2>0, <2>1
    <3>. HIDE DEF p
    <3>3. (p.blocked => p.lease = None) /\ doubt' \in BOOLEAN /\ (doubt' => p.blocked)
      BY <1>0, <2>00, <3>1, <3>2
    <3>. QED
      BY <1>3, <1>4, <3>1, <3>2, <3>3
  <2>2. CASE still /\ reads /\ w.error = None
    <3>. DEFINE p == [pc EXCEPT !.lease = Granted]
    <3>1. Granted \in Leases
      BY <1>0, <1>4, <2>2 DEF Granted, Leases, RequestInv, Requests, Turns, WTyped, reads
    <3>2. p \in Controlled /\ p.req = pc.req /\ p.blocked = pc.blocked
      BY <1>4, <3>1 DEF Controlled
    <3>3. Changed(owner, p) /\ ~doubt'
      BY <1>0, <2>0, <2>2
    <3>. HIDE DEF p
    <3>4. (p.blocked => p.lease = None) /\ doubt' \in BOOLEAN /\ (doubt' => p.blocked)
      BY <1>0, <2>00, <3>2, <3>3
    <3>. QED
      BY <1>3, <1>4, <3>2, <3>3, <3>4
  <2>3. CASE still /\ reads /\ w.error # None
    <3>1. Changed(owner, pc) /\ ~doubt'
      BY <1>0, <2>0, <2>3
    <3>2. (pc.blocked => pc.lease = None) /\ doubt' \in BOOLEAN /\ (doubt' => pc.blocked)
      BY <1>0, <2>00, <3>1
    <3>. QED
      BY <1>3, <1>4, <3>1, <3>2
  <2>4. CASE still /\ ~reads /\ w.error # None
    <3>. DEFINE p == [pc EXCEPT !.blocked = TRUE]
    <3>1. p \in Controlled /\ p.req = pc.req /\ p.lease = pc.lease /\ p.blocked
      BY <1>4 DEF Controlled
    <3>2. Changed(owner, p)
      BY <2>0, <2>4
    <3>. HIDE DEF p
    <3>3. (p.blocked => p.lease = None) /\ doubt' \in BOOLEAN /\ (doubt' => p.blocked)
      BY <1>0, <2>00, <3>1
    <3>. QED
      BY <1>3, <1>4, <3>1, <3>2, <3>3
  <2>5. CASE still /\ ~reads /\ w.error = None
    <3>1. Read(owner) \in Owners /\ Read(owner).media = owner.media /\ Read(owner).item = owner.item
      BY <1>4 DEF Read, Owners
    <3>2. Changed(Read(owner), pc) /\ ~doubt'
      BY <1>0, <2>0, <2>5
    <3>3. (pc.blocked => pc.lease = None) /\ doubt' \in BOOLEAN /\ (doubt' => pc.blocked)
      BY <1>0, <2>00, <3>2
    <3>. QED
      BY <1>3, <1>4, <3>1, <3>2, <3>3
  <2>. QED
    BY <2>1, <2>2, <2>3, <2>4, <2>5
<1>. QED
  BY <1>2, <1>5

LEMMA RefreshStep == ControlsInv /\ Refresh => ControlsInv'
<1>. SUFFICES ASSUME ControlsInv, Refresh PROVE ControlsInv'
  OBVIOUS
<1>. USE DEF ControlsInv, ControlsTyped
<1>1. ~Busy /\ UNCHANGED <<core, w, v, revoked>> /\ doubt' = FALSE
  BY DEF Refresh
<1>2. w.step = "idle" /\ v.step = "idle"
  BY <1>1 DEF Busy
<1>3. pc' \in [req : {None}, lease : {None}, blocked : {FALSE}]
  BY HiddenStep DEF Refresh, PcTyped
<1>4. owner' \in Owners /\ owner'.media = owner.media /\ owner'.item = owner.item
  BY DEF Refresh, Read, OwnerTyped, Owners
<1>5. art' \in {art, None}
  BY DEF Refresh, Kept
<1>6. CoreTyped' /\ OwnerTyped' /\ WTyped' /\ VTyped' /\ ArtTyped'
  BY <1>1, <1>4, <1>5 DEF CoreTyped, OwnerTyped, WTyped, VTyped, ArtTyped
<1>7. PcTyped' /\ FlagsTyped' /\ pc'.req = None /\ pc'.lease = None /\ pc'.blocked = FALSE
  BY <1>1, <1>3 DEF PcTyped, Controlled, FlagsTyped
<1>8. RequestInv' /\ Exclusive' /\ ImageInv' /\ MediaOfShown'
  BY <1>1, <1>2, <1>4 DEF RequestInv, Exclusive, ImageInv, MediaOfShown
<1>9. LockInv' /\ RevokedInv'
  BY <1>1, <1>7 DEF LockInv, RevokedInv
<1>. QED
  BY <1>6, <1>7, <1>8, <1>9

\* The preparation of an image, and what its worker brings.
LEMMA ImagesStep == ControlsInv /\ (Prepare \/ Preparation \/ Merge) => ControlsInv'
<1>. SUFFICES ASSUME ControlsInv, Prepare \/ Preparation \/ Merge PROVE ControlsInv'
  OBVIOUS
<1>. USE DEF ControlsInv, ControlsTyped
<1>1. CASE Prepare
  <2>1. /\ ~Busy /\ owner.item # 0 /\ art' = [item |-> owner.item, binding |-> owner.binding]
        /\ v' = [Idle EXCEPT !.step = "begin", !.req = art'] /\ UNCHANGED <<core, owner, pc, w, revoked, doubt>>
    BY <1>1 DEF Prepare
  <2>2. art' \in Pictures
    BY <2>1, ControlsBounds DEF OwnerTyped, Owners, Pictures
  <2>3. v'.step = "begin" /\ v'.req = art' /\ VTyped'
    BY <2>1, <2>2, NothingTyped DEF Idle, VTyped
  <2>4. w.step = "idle" /\ ~Reading
    BY <2>1, NoneIsNothing DEF Busy, Reading
  <2>5. CoreTyped' /\ OwnerTyped' /\ PcTyped' /\ WTyped' /\ ArtTyped' /\ FlagsTyped'
    BY <2>1, <2>2 DEF CoreTyped, OwnerTyped, PcTyped, WTyped, ArtTyped, FlagsTyped
  <2>6. RequestInv' /\ Exclusive' /\ ImageInv'
    BY <2>1, <2>2, <2>3, <2>4 DEF RequestInv, Exclusive, Reading, ImageInv
  <2>. QED
    BY <2>1, <2>3, <2>5, <2>6 DEF LockInv, RevokedInv, MediaOfShown
<1>2. CASE Preparation
  <2>1. v.step # "idle" /\ UNCHANGED <<core, owner, pc, w, art, revoked, doubt>>
    BY <1>2 DEF Preparation, Post, Reread
  <2>2. /\ VTyped' /\ v'.step # "idle" /\ v'.req = v.req
        /\ v'.step = "done" /\ v'.error = None => v'.got = v'.req.item
    <3>. USE DEF VTyped
    <3>1. ASSUME NEW e \in {"changed", "withdraw", "failed", "denied"}, Halt(e)
          PROVE  /\ VTyped' /\ v'.step # "idle" /\ v'.req = v.req
                 /\ v'.step = "done" /\ v'.error = None => v'.got = v'.req.item
      BY <3>1, NoneIsNothing DEF Halt, Errors
    <3>2. CASE v' = [v EXCEPT !.step = "reread"]
      BY <3>2
    <3>3. CASE core.item = v.req.item /\ v' = [v EXCEPT !.step = "done", !.got = core.item]
      <4>1. core.item \in 0..MaxItems
        BY DEF CoreTyped
      <4>. QED
        BY <3>3, <4>1
    <3>. QED
      BY <1>2, <3>1, <3>2, <3>3 DEF Preparation, Post, Reread
  <2>3. CoreTyped' /\ OwnerTyped' /\ PcTyped' /\ WTyped' /\ ArtTyped' /\ FlagsTyped'
    BY <2>1 DEF CoreTyped, OwnerTyped, PcTyped, WTyped, ArtTyped, FlagsTyped
  <2>4. RequestInv' /\ Exclusive' /\ ImageInv'
    BY <2>1, <2>2 DEF RequestInv, Exclusive, Reading, ImageInv
  <2>. QED
    BY <2>1, <2>2, <2>3, <2>4 DEF LockInv, RevokedInv, MediaOfShown
<1>3. CASE Merge
  <2>1. v.step = "done" /\ v' = Idle /\ w.step = "idle" /\ UNCHANGED <<core, w>>
    BY <1>3 DEF Merge, Exclusive
  <2>2. CoreTyped' /\ WTyped' /\ VTyped' /\ RequestInv'
    <3>1. VTyped'
      BY <2>1, NothingTyped DEF Idle, VTyped
    <3>. QED
      BY <2>1, <3>1 DEF CoreTyped, WTyped, RequestInv, Idle
  <2>3. CASE Invalidate
    BY <2>1, <2>2, <2>3, WithdrawKeeps DEF Idle
  <2>4. CASE ~Invalidate
    <3>1. /\ owner' = IF Fits THEN [owner EXCEPT !.media = v.got] ELSE owner
          /\ art' = IF Fits THEN None ELSE Kept(owner, art)
          /\ pc' = Synced(owner, pc) /\ revoked' = (revoked \/ pc'.req = None)
          /\ UNCHANGED doubt
      BY <1>3, <2>4 DEF Merge
    <3>2. /\ pc' \in Controlled /\ pc'.blocked = pc.blocked
          /\ pc'.req \in {pc.req, None} /\ pc'.lease \in {pc.lease, None}
      BY <3>1 DEF PcTyped, Controlled, Synced
    <3>3. Fits => v.got = owner.item
      BY <2>1 DEF Fits, Stands, ImageInv
    <3>4. owner' \in Owners /\ owner'.media \in {0, owner'.item}
      BY <3>1, <3>3 DEF OwnerTyped, Owners, MediaOfShown, VTyped
    <3>5. art' \in {art, None}
      BY <3>1 DEF Kept
    <3>6. OwnerTyped' /\ PcTyped' /\ ArtTyped' /\ FlagsTyped'
      BY <3>1, <3>2, <3>4, <3>5 DEF OwnerTyped, PcTyped, ArtTyped, FlagsTyped
    <3>7. Exclusive' /\ ImageInv' /\ MediaOfShown'
      BY <2>1, <3>4 DEF Exclusive, ImageInv, MediaOfShown, Idle
    <3>8. LockInv'
      BY <2>1, <3>1, <3>2 DEF LockInv
    <3>9. RevokedInv'
      BY <3>1, <3>2 DEF RevokedInv
    <3>. QED
      BY <2>2, <3>6, <3>7, <3>8, <3>9
  <2>. QED
    BY <2>3, <2>4
<1>. QED
  BY <1>1, <1>2, <1>3

-----------------------------------------------------------------------------

\* The inductive invariant of the controls: it holds at the start and every step keeps it.
THEOREM ControlsInvariant == Spec => []ControlsInv
<1>1. Init => ControlsInv
  BY ControlsInit
<1>2. ControlsInv /\ [Next]_vars => ControlsInv'
  <2>. SUFFICES ASSUME ControlsInv, [Next]_vars PROVE ControlsInv'
    OBVIOUS
  <2>1. CASE Controls
    BY <2>1, StartStep, WorkerStep, FinishStep, RefreshStep, OutsideStep DEF Controls
  <2>2. CASE Images
    BY <2>2, ImagesStep, OutsideStep DEF Images
  <2>3. CASE Screen
    BY <2>3, ScreenStep, OutsideStep DEF Screen
  <2>4. CASE Foreign
    BY <2>4, OutsideStep
  <2>5. CASE UNCHANGED vars
    BY <2>5 DEF vars, ControlsInv, ControlsTyped, CoreTyped, OwnerTyped, PcTyped, WTyped, VTyped, ArtTyped,
                FlagsTyped, RequestInv, Exclusive, Reading, LockInv, RevokedInv, ImageInv, MediaOfShown
  <2>. QED
    BY <2>1, <2>2, <2>3, <2>4, <2>5 DEF Next
<1>. QED
  BY <1>1, <1>2, PTL DEF Spec

\* Intents, preparations, reads and questions are alternatives (snapshot, start, _launch),
\* and an unsettled write leaves nothing to set from (_start).
THEOREM ControlsAreAlternatives == Spec => []ControlsTypeOK
<1>1. ControlsInv => ControlsTypeOK
  <2>. SUFFICES ASSUME ControlsInv PROVE ControlsTypeOK
    OBVIOUS
  <2>. USE DEF ControlsInv, ControlsTyped
  <2>1. Running <= 1
    BY DEF Exclusive, Reading, Running
  <2>2. w.step \in {"idle", "begin", "active", "status", "inventory", "write", "done"}
        /\ v.step \in {"idle", "begin", "reread", "done"}
        /\ w.req \in Requests \cup {None} /\ w.error \in Errors /\ v.error \in Errors
    BY DEF WTyped, VTyped
  <2>3. pc.blocked => pc.lease = None
    BY DEF LockInv
  <2>. QED
    BY <2>1, <2>2, <2>3 DEF ControlsTypeOK, CoreTyped, OwnerTyped, Owners, PcTyped, Controlled
<1>. QED
  BY <1>1, ControlsInvariant, PTL

\* After a result taken for uncertain, its request being still valid, no worker runs until
\* the user has Core read again or the owner is invalidated (finish sets the lock, refresh
\* and invalidate alone open it).  A request hidden in flight sets none.
THEOREM UncertainLocks == Spec => []LockedUntilRead
<1>1. ControlsInv => LockedUntilRead
  BY DEF ControlsInv, LockInv, LockedUntilRead
<1>. QED
  BY <1>1, ControlsInvariant, PTL

\* Artwork merged into the screen was read for the Session and moment shown there
\* (ArtworkPreparation.finish).
THEOREM ArtworkOfTheMoment == Spec => []MediaOfShown
<1>1. ControlsInv => MediaOfShown
  BY DEF ControlsInv
<1>. QED
  BY <1>1, ControlsInvariant, PTL

\* The worker goes on to the POST only with the intent that is still the screen's: one that
\* was hidden, re-read away or invalidated is never sent (hide, sync, valid).
THEOREM RevokedIntentsStay == Spec => RevokedNeverSent
<1>1. ControlsInv /\ [Next]_vars => (w.step # "write" /\ w'.step = "write" => ~revoked)
  <2>. SUFFICES ASSUME ControlsInv, [Next]_vars, w.step # "write", w'.step = "write" PROVE ~revoked
    OBVIOUS
  <2>. USE DEF ControlsInv, ControlsTyped
  <2>1. CASE Worker
    <3>1. ASSUME NEW e, Stop(e) PROVE FALSE
      BY <3>1 DEF Stop, WTyped
    <3>2. ASSUME NEW s \in {"active", "status", "inventory", "done"}, Go(s) PROVE FALSE
      BY <3>2 DEF Go, WTyped
    <3>3. ~Begin /\ ~Active
      BY <3>1, <3>2 DEF Begin, Active
    <3>4. ~Write
      BY <3>1 DEF Write
    <3>5. Status => Valid
      BY <3>1 DEF Status
    <3>6. Inventory => Valid
      BY <3>1 DEF Inventory
    <3>7. Valid
      BY <2>1, <3>3, <3>4, <3>5, <3>6 DEF Worker
    <3>. QED
      BY <3>7 DEF Valid, Holds, RevokedInv
  <2>2. CASE ~Worker
    <3>1. CASE Start
      <4>1. w'.step = "begin"
        BY <3>1 DEF Start, Idle
      <4>. QED
        BY <4>1
    <3>2. CASE Finish
      <4>1. w'.step = "idle"
        BY <3>2 DEF Finish, Release, Idle
      <4>. QED
        BY <4>1
    <3>3. CASE ~Start /\ ~Finish
      <4>1. Controls => UNCHANGED w
        BY <2>2, <3>3 DEF Controls, Hide, Show, Refresh
      <4>2. Images => UNCHANGED w
        BY DEF Images, Prepare, Merge, Pane, Preparation
      <4>3. Screen \/ Foreign => UNCHANGED w
        BY DEF Screen, OwnerRead, Ask, End, Answered, Withdraw, Move, Heard, Foreign
      <4>. QED
        BY <4>1, <4>2, <4>3 DEF Next, vars
    <3>. QED
      BY <3>1, <3>2, <3>3
  <2>. QED
    BY <2>1, <2>2
<1>. QED
  BY <1>1, ControlsInvariant, PTL DEF Spec, RevokedNeverSent

-----------------------------------------------------------------------------
(* SessionImages: the inductive invariant, part by part *)

Offered == ImageLeases \cup {Nothing}
Texts   == [rev : 0..MaxRev, term : 0..MaxRev, until : 0..MaxTime, val : Shown \cup {Nothing}, sig : Bodies \cup {Nothing}]
Ctxs    == {Other} \cup 0..MaxSessions
Gates   == [ctx : Ctxs, rev : 0..MaxRev, term : 0..MaxRev, sig : Offered, floors : [Bodies -> 0..MaxTime]]
Latches == [ctx : Ctxs, prev : Keys \cup {Nothing}, seen : [Keys -> 0..MaxTime], revoked : SUBSET Keys,
            floor : 0..MaxTime]
Imageries == {f \in [rev : Revs, path : Bodies \cup {Nothing}, exp : {0} \cup Times] : f.exp # 0 => f.path \in Bodies}
Screens == [sid : 0..MaxSessions, last : 0..MaxSessions, imagery : Imageries \cup {Nothing}, art : Artworks \cup {Nothing}]
Views   == [visible : BOOLEAN, own : BOOLEAN, desired : Offered, public : Offered, tried : Offered]
Work    == [lease : Offered, live : BOOLEAN, got : BOOLEAN \cup {Nothing}]

ImagesTyped ==
    /\ clock \in 0..MaxTime
    /\ screen \in Screens
    /\ text \in Texts
    /\ gate \in Gates
    /\ latch \in Latches
    /\ pane \in [Panes -> Views]
    /\ job \in [Panes -> Work \cup {Nothing}]

\* A text is on screen exactly while its revision is above what was ended.
TextHolds(r) ==
    /\ r.val # Nothing => r.val = [rev |-> r.rev, until |-> r.until, body |-> r.sig] /\ r.rev > r.term
    /\ r.val = Nothing => r.rev <= r.term

\* The lease a gate has admitted is made of what the gate remembers.
GateHolds(g, sid, lease) ==
    lease # Nothing =>
        /\ g.ctx = sid /\ g.sig \in ImageLeases /\ g.sig.id = g.rev /\ g.sig.path \in Bodies /\ g.rev > g.term
        /\ lease = [g.sig EXCEPT !.deadline = Least(g.sig.deadline, g.floors[g.sig.path])]
LatchHolds(g, sid, lease) ==
    lease # Nothing =>
        /\ g.ctx = sid /\ g.prev = lease.id /\ lease.id \in Keys \ g.revoked
        /\ g.seen[lease.id] = lease.exp /\ lease.deadline = Least(lease.exp, g.floor)

\* Of what a pane goes on with, the gate answers for what has the present binding.
Held(p) == IF p.own THEN p.desired ELSE Nothing

HoldInv == /\ TextHolds(text)
           /\ GateHolds(gate, screen.sid, Held(pane["forecast"]))
           /\ LatchHolds(latch, screen.sid, Held(pane["moment"]))

\* What was withdrawn is below what the receiver or the gate ended or moved on to, or revoked.
Past(r) == {x \in 0..MaxRev : x <= r.term \/ x < r.rev}
OverInv == over["text"] \subseteq Past(text) /\ over["forecast"] \subseteq Past(gate) /\ over["moment"] \subseteq latch.revoked

WorkInv(p, j) == /\ j # Nothing /\ j.live => j.lease = p.desired
                 /\ p.public \in {Nothing, p.desired}

\* Between two Sessions the receiver is a new one.
AwayInv == screen.sid = 0 => text = NoText

\* A pane with a lease of another binding has a gate that begins anew.
OwnInv == /\ ~pane["forecast"].own => gate.ctx = Other /\ over["forecast"] = {}
          /\ ~pane["moment"].own => latch.ctx = Other /\ over["moment"] = {}

ImagesInv == ImagesTyped /\ HoldInv /\ OverInv /\ AwayInv /\ OwnInv /\ \A k \in Panes : WorkInv(pane[k], job[k])
-----------------------------------------------------------------------------
(* SessionImages: the receiver *)

LEMMA LeastMost ==
    ASSUME NEW a \in Int, NEW b \in Int
    PROVE  /\ Least(a, b) \in {a, b} /\ Least(a, b) <= a /\ Least(a, b) <= b
           /\ Most(a, b) \in {a, b} /\ Most(a, b) >= a /\ Most(a, b) >= b
BY DEF Least, Most

LEMMA ForecastFields ==
    ASSUME NEW f \in Forecasts
    PROVE  /\ f.rev \in Revs /\ f.state \in {"ready", "ended", "bad"}
           /\ f.state = "ready" => f.until \in Times /\ f.body \in Bodies /\ f.exp \in {0, f.until}
BY DEF Forecasts, Ready

\* What a read or the clock may do to the text of a Session.
TextStep(r, n) ==
    /\ n \in Texts /\ TextHolds(n) /\ Past(r) \subseteq Past(n)
    /\ r.val # Nothing /\ (n.val = Nothing \/ n.val.rev # r.val.rev) => r.val.rev \in Past(n)
    /\ r.val # Nothing /\ n.val # Nothing /\ n.val.rev = r.val.rev => n.val.until <= r.val.until

LEMMA TextGone ==
    ASSUME ImagesBounds, NEW r \in Texts, TextHolds(r), NEW n \in Texts, n.val = Nothing,
           n.rev >= r.rev, n.term >= n.rev, n.term >= r.term
    PROVE  TextStep(r, n)
<1>1. /\ r.rev \in 0..MaxRev /\ r.term \in 0..MaxRev /\ n.rev \in 0..MaxRev /\ n.term \in 0..MaxRev
      /\ MaxRev \in Nat
  BY DEF Texts, ImagesBounds
<1>2. TextHolds(n)
  BY <1>1 DEF TextHolds
<1>3. Past(r) \subseteq Past(n)
  BY <1>1 DEF Past
<1>4. r.val # Nothing => r.val.rev = r.rev
  BY DEF TextHolds
<1>5. r.val # Nothing => r.val.rev \in Past(n)
  BY <1>1, <1>4 DEF Past
<1> QED
  BY <1>2, <1>3, <1>5 DEF TextStep

LEMMA TextComes ==
    ASSUME ImagesBounds, NothingIsApart, NEW r \in Texts, TextHolds(r), NEW n \in Texts,
           n.val = [rev |-> n.rev, until |-> n.until, body |-> n.sig], n.val # Nothing,
           n.rev >= r.rev, n.term = r.term, n.rev > n.term, n.rev = r.rev => n.until <= r.until
    PROVE  TextStep(r, n)
<1>1. /\ r.rev \in 0..MaxRev /\ r.term \in 0..MaxRev /\ n.rev \in 0..MaxRev /\ MaxRev \in Nat
      /\ r.until \in 0..MaxTime /\ n.until \in 0..MaxTime /\ MaxTime \in Nat
  BY DEF Texts, ImagesBounds
<1>2. TextHolds(n)
  BY DEF TextHolds
<1>3. Past(r) \subseteq Past(n)
  BY <1>1 DEF Past
<1>4. r.val # Nothing => r.val.rev = r.rev /\ r.val.until = r.until
  BY DEF TextHolds
<1>5. n.val.rev = n.rev /\ n.val.until = n.until
  OBVIOUS
<1>6. r.val # Nothing /\ n.val.rev # r.val.rev => r.val.rev \in Past(n)
  BY <1>1, <1>4, <1>5 DEF Past
<1> QED
  BY <1>2, <1>3, <1>4, <1>5, <1>6 DEF TextStep

LEMMA WithdrawnFields ==
    ASSUME ImagesBounds, NEW r \in Texts
    PROVE  /\ Withdrawn(r) \in Texts /\ Withdrawn(r).val = Nothing
           /\ Withdrawn(r).rev = r.rev /\ Withdrawn(r).term = r.term
<1>1. 0 \in 0..MaxTime
  BY DEF ImagesBounds
<1>2. [r EXCEPT !.val = Nothing, !.sig = Nothing, !.until = 0] \in Texts
  BY <1>1 DEF Texts
<1>3. Withdrawn(r) = [r EXCEPT !.val = Nothing, !.sig = Nothing, !.until = 0]
  BY DEF Withdrawn
<1> QED
  BY <1>2, <1>3 DEF Texts

\* Withdrawing what is there, whatever revision is ended with it.
LEMMA TextWithdrawn ==
    ASSUME ImagesBounds, NEW r \in Texts, TextHolds(r), NEW u \in 0..MaxRev, NEW t \in 0..MaxRev,
           u >= r.rev, t >= u, t >= r.term
    PROVE  TextStep(r, Withdrawn([r EXCEPT !.rev = u, !.term = t]))
<1> DEFINE m == [r EXCEPT !.rev = u, !.term = t]
<1>1. m \in Texts /\ m.rev = u /\ m.term = t
  BY DEF Texts
<1> HIDE DEF m
<1>2. TextStep(r, Withdrawn(m))
  BY <1>1, WithdrawnFields, TextGone
<1> QED
  BY <1>2 DEF m

LEMMA TextEnded ==
    ASSUME ImagesBounds, NEW r \in Texts, TextHolds(r), NEW t \in 0..MaxRev, t >= r.rev, t >= r.term
    PROVE  TextStep(r, Withdrawn([r EXCEPT !.term = t]))
<1> DEFINE m == [r EXCEPT !.term = t]
<1>1. m \in Texts /\ m.rev = r.rev /\ m.term = t /\ r.rev \in 0..MaxRev
  BY DEF Texts
<1> HIDE DEF m
<1>2. r.rev >= r.rev
  BY <1>1, ImagesBounds DEF ImagesBounds
<1>3. TextStep(r, Withdrawn(m))
  BY <1>1, <1>2, WithdrawnFields, TextGone
<1> QED
  BY <1>3 DEF m

LEMMA TextExpires ==
    ASSUME ImagesBounds, NEW r \in Texts, TextHolds(r)
    PROVE  TextStep(r, Expired(r))
<1>1. r.rev \in 0..MaxRev /\ r.term \in 0..MaxRev /\ MaxRev \in Nat /\ r.val \in Shown \cup {Nothing}
  BY DEF Texts, ImagesBounds
<1>2. Most(r.term, r.rev) \in 0..MaxRev /\ Most(r.term, r.rev) >= r.rev /\ Most(r.term, r.rev) >= r.term
  BY <1>1, LeastMost
<1>3. TextStep(r, Withdrawn([r EXCEPT !.term = Most(r.term, r.rev)]))
  BY <1>2, TextEnded
<1>4. TextStep(r, r)
  <2>1. r.val # Nothing => r.val.until \in Int
    BY <1>1 DEF Shown, Times
  <2> QED
    BY <2>1 DEF TextStep
<1> QED
  BY <1>3, <1>4 DEF Expired

LEMMA TextReceived ==
    ASSUME ImagesBounds, NothingIsApart, NEW r \in Texts, TextHolds(r), NEW f \in Forecasts, clock \in 0..MaxTime
    PROVE  TextStep(r, Received(r, f))
<1> DEFINE ended == f.state = "ended" \/ (f.state = "ready" /\ f.until <= Now)
<1>1. /\ r.rev \in 0..MaxRev /\ r.term \in 0..MaxRev /\ MaxRev \in Nat /\ f.rev \in 0..MaxRev /\ f.rev \in Revs
      /\ r.until \in 0..MaxTime /\ MaxTime \in Nat
  BY ForecastFields DEF Texts, ImagesBounds, Revs
<1>2. CASE f.state = "bad"
  <2>1. /\ Most(Most(r.term, r.rev), f.rev) \in 0..MaxRev /\ Most(Most(r.term, r.rev), f.rev) >= r.rev
        /\ Most(Most(r.term, r.rev), f.rev) >= r.term
    BY <1>1, LeastMost DEF Most
  <2>2. Received(r, f) = Withdrawn([r EXCEPT !.term = Most(Most(r.term, r.rev), f.rev)])
    BY <1>2 DEF Received
  <2> QED
    BY <2>1, <2>2, TextEnded
<1>3. CASE f.state # "bad" /\ (f.rev < r.rev \/ f.rev < r.term \/ (f.rev = r.term /\ ~ended))
  <2>1. Most(r.term, r.rev) \in 0..MaxRev /\ Most(r.term, r.rev) >= r.rev /\ Most(r.term, r.rev) >= r.term
    BY <1>1, LeastMost
  <2>2. Received(r, f) = Withdrawn([r EXCEPT !.term = Most(r.term, r.rev)])
    BY <1>3 DEF Received
  <2> QED
    BY <2>1, <2>2, TextEnded
<1>4. CASE f.state # "bad" /\ ~(f.rev < r.rev \/ f.rev < r.term \/ (f.rev = r.term /\ ~ended))
  <2>1. f.rev >= r.rev /\ Most(r.term, f.rev) \in 0..MaxRev /\ Most(r.term, f.rev) >= f.rev /\ Most(r.term, f.rev) >= r.term
    BY <1>1, <1>4, LeastMost
  <2>2. CASE ended
    <3>1. Received(r, f) = Withdrawn([r EXCEPT !.rev = f.rev, !.term = Most(r.term, f.rev)])
      BY <1>4, <2>2 DEF Received
    <3> QED
      BY <1>1, <2>1, <3>1, TextWithdrawn
  <2>3. CASE ~ended /\ f.rev = r.rev /\ f.body # r.sig
    <3>1. Received(r, f) = Withdrawn([r EXCEPT !.term = Most(r.term, f.rev)])
      BY <1>4, <2>3 DEF Received
    <3> QED
      BY <1>1, <2>1, <2>3, <3>1, TextEnded
  <2>4. CASE ~ended /\ ~(f.rev = r.rev /\ f.body # r.sig)
    <3> DEFINE u == Shortened(r, f)
               c == [rev |-> f.rev, until |-> u, body |-> f.body]
               n == [r EXCEPT !.rev = f.rev, !.until = u, !.sig = f.body, !.val = c]
    <3>1. f.state = "ready" /\ f.until \in Times /\ f.body \in Bodies /\ f.rev > r.term
      BY <1>1, <1>4, <2>4, ForecastFields
    <3>2. f.rev = r.rev => r.until \in Times
      <4>1. f.rev = r.rev => r.val # Nothing
        BY <1>1, <3>1 DEF TextHolds
      <4>2. r.val # Nothing => r.val \in Shown /\ r.val.until = r.until
        BY DEF Texts, TextHolds
      <4> QED
        BY <4>1, <4>2 DEF Shown
    <3>3. u \in Times /\ (f.rev = r.rev => u <= r.until)
      BY <1>1, <3>1, <3>2 DEF Shortened, Least, Times
    <3>4. Received(r, f) = Expired(n)
      BY <1>4, <2>4 DEF Received
    <3> HIDE DEF u
    <3>5. c \in Shown /\ c # Nothing
      BY <1>1, <3>1, <3>3 DEF Shown, NothingIsApart
    <3>6. u \in 0..MaxTime
      BY <1>1, <3>3 DEF Times
    <3>7. n \in Texts /\ n.rev = f.rev /\ n.term = r.term /\ n.until = u /\ n.sig = f.body /\ n.val = c
      <4> HIDE DEF c
      <4> QED
        BY <1>1, <3>1, <3>5, <3>6 DEF Texts
    <3>8. n.val = [rev |-> n.rev, until |-> n.until, body |-> n.sig] /\ n.val # Nothing
      <4>1. n.val = c /\ c = [rev |-> n.rev, until |-> n.until, body |-> n.sig]
        <5> HIDE DEF n
        <5> QED
          BY <3>7
      <4> QED
        BY <3>5, <4>1
    <3> HIDE DEF n, c
    <3>9. TextStep(r, n)
      BY <1>1, <2>1, <3>1, <3>3, <3>7, <3>8, TextComes
    <3>10. Most(n.term, n.rev) \in 0..MaxRev /\ Most(n.term, n.rev) >= n.rev /\ Most(n.term, n.rev) >= r.term
      BY <2>1, <3>7
    <3> DEFINE m == [n EXCEPT !.term = Most(n.term, n.rev)]
    <3>11. m \in Texts /\ m.rev = n.rev /\ m.term = Most(n.term, n.rev)
      BY <3>7, <3>10 DEF Texts
    <3>12. Expired(n) \in {n, Withdrawn(m)}
      BY DEF Expired
    <3> HIDE DEF m
    <3>13. TextStep(r, Withdrawn(m))
      BY <2>1, <3>7, <3>10, <3>11, WithdrawnFields, TextGone
    <3> QED
      BY <3>4, <3>9, <3>12, <3>13
  <2> QED
    BY <2>2, <2>3, <2>4
<1> QED
  BY <1>2, <1>3, <1>4
-----------------------------------------------------------------------------
(* SessionImages: the gates *)

\* The state of a gate for the Session sid: what it was, or a new one.
GateOf(g, sid)  == IF g.ctx = sid THEN g ELSE NoGate(sid)
LatchOf(g, sid) == IF g.ctx = sid THEN g ELSE NoLatch(sid)

\* What an admission by ImageGate does: to what is past, and to the lease it goes on with.
GateStep(g, sid, a) ==
    /\ a.gate \in Gates /\ a.lease \in Offered /\ a.gate.ctx = sid
    /\ GateHolds(a.gate, sid, a.lease)
    /\ Past(g) \subseteq Past(a.gate)
    /\ a.lease = Nothing => g.rev <= a.gate.term
    /\ a.lease # Nothing => /\ a.gate.rev >= g.rev
                            /\ a.gate.rev = g.rev => /\ a.gate.sig = g.sig
                                                     /\ \A b \in Bodies : a.gate.floors[b] <= g.floors[b]

LEMMA LeaseFields ==
    ASSUME NEW l \in ImageLeases
    PROVE  l.id \in Revs \cup Keys /\ l.path \in Bodies \cup {Nothing} /\ l.exp \in Times /\ l.deadline \in Times
BY DEF ImageLeases

LEMMA GateFields ==
    ASSUME ImagesBounds, NEW g \in Gates
    PROVE  /\ g.ctx \in Ctxs /\ g.rev \in 0..MaxRev /\ g.term \in 0..MaxRev /\ g.sig \in Offered
           /\ g.floors \in [Bodies -> 0..MaxTime] /\ MaxRev \in Nat /\ MaxTime \in Nat /\ MaxSessions \in Nat
BY DEF Gates, ImagesBounds

LEMMA ScreenFields ==
    ASSUME NEW s \in Screens
    PROVE  /\ s.sid \in 0..MaxSessions /\ s.imagery \in Imageries \cup {Nothing} /\ s.art \in Artworks \cup {Nothing}
BY DEF Screens

LEMMA NewGate ==
    ASSUME ImagesBounds, NEW g \in Gates, NEW sid \in 0..MaxSessions
    PROVE  GateOf(g, sid) \in Gates /\ GateOf(g, sid).ctx = sid
<1>1. NoGate(sid) \in Gates /\ NoGate(sid).ctx = sid
  BY DEF NoGate, Gates, Ctxs, Offered, ImagesBounds
<1> QED
  BY <1>1 DEF GateOf

\* image_lease: the image of the revision on screen.
LEMMA ImageFields ==
    ASSUME ImagesBounds, NEW s \in Screens, NEW r \in Texts, Image(s, r) # Nothing
    PROVE  /\ Image(s, r) \in ImageLeases /\ Image(s, r).path \in Bodies
           /\ s.imagery # Nothing /\ Image(s, r).id = s.imagery.rev
<1> DEFINE f == s.imagery
           d == Least(f.exp, r.val.until)
           l == [id |-> f.rev, path |-> f.path, exp |-> f.exp, deadline |-> d]
<1>1. /\ f # Nothing /\ r.val # Nothing /\ f.exp # 0 /\ Image(s, r) = l
  BY DEF Image
<1>2. f \in Imageries /\ r.val \in Shown
  BY <1>1 DEF Screens, Texts
<1>3. f.rev \in Revs /\ f.path \in Bodies /\ f.exp \in Times /\ r.val.until \in Times
  BY <1>1, <1>2 DEF Imageries, Shown
<1>4. d \in Times
  BY <1>3 DEF Least
<1> HIDE DEF d
<1>5. l \in ImageLeases /\ l.path \in Bodies /\ l.id = f.rev
  BY <1>3, <1>4 DEF ImageLeases
<1> QED
  BY <1>1, <1>5

\* ImageGate.admit
LEMMA ImageAdmitted ==
    ASSUME ImagesBounds, NothingIsApart, NEW g0 \in Gates, NEW s \in Screens, NEW r \in Texts, clock \in 0..MaxTime
    PROVE  GateStep(GateOf(g0, s.sid), s.sid, AdmitImage(g0, s, r))
<1> DEFINE g     == GateOf(g0, s.sid)
           lease == Image(s, r)
           rev   == IF s.imagery = Nothing THEN 0 ELSE s.imagery.rev
           floor == Least(g.floors[lease.path], lease.exp)
           kept  == [g EXCEPT !.rev = rev, !.sig = lease, !.floors[lease.path] = floor]
           due   == Least(lease.deadline, floor)
           t     == Most(Most(g.term, g.rev), rev)
           a     == AdmitImage(g0, s, r)
<1>1. g \in Gates /\ g.ctx = s.sid
  BY NewGate, ScreenFields
<1>2. /\ g.rev \in 0..MaxRev /\ g.term \in 0..MaxRev /\ g.sig \in Offered /\ g.floors \in [Bodies -> 0..MaxTime]
      /\ MaxRev \in Nat /\ MaxTime \in Nat
  BY <1>1, GateFields
<1>3. a = IF s.imagery = Nothing THEN Denied([g EXCEPT !.term = Most(g.term, g.rev), !.sig = Nothing])
          ELSE IF lease = Nothing \/ rev < g.rev \/ rev <= g.term \/ (rev = g.rev /\ lease # g.sig)
               THEN Denied([g EXCEPT !.term = t, !.rev = Most(g.rev, rev), !.sig = Nothing])
          ELSE IF due <= Now THEN Denied([kept EXCEPT !.term = Most(kept.term, rev), !.sig = Nothing])
          ELSE [gate |-> kept, lease |-> [lease EXCEPT !.deadline = due]]
  BY DEF AdmitImage, GateOf
<1>4. rev \in 0..MaxRev /\ (s.imagery # Nothing => rev = s.imagery.rev)
  BY <1>2, ScreenFields DEF Imageries, Revs
<1>5. lease # Nothing => /\ lease \in ImageLeases /\ lease.path \in Bodies /\ lease.id = rev /\ s.imagery # Nothing
                         /\ lease.exp \in Times /\ lease.deadline \in Times
  BY <1>4, ImageFields, LeaseFields
<1> SUFFICES GateStep(g, s.sid, a)
  OBVIOUS
<1> HIDE DEF g, lease, rev, a
\* A refusal that keeps the revision v and ends t.
<1>6. ASSUME NEW h \in Gates, h.ctx = s.sid, h.rev >= g.rev, h.term >= h.rev, h.term >= g.term, a = Denied(h)
      PROVE  GateStep(g, s.sid, a)
  <2>1. a.gate = h /\ a.lease = Nothing
    BY <1>6 DEF Denied
  <2>2. h.rev \in 0..MaxRev /\ h.term \in 0..MaxRev
    BY GateFields
  <2>3. Past(g) \subseteq Past(h) /\ g.rev <= h.term
    BY <1>2, <1>6, <2>2 DEF Past
  <2> QED
    BY <1>6, <2>1, <2>3 DEF GateStep, GateHolds, Offered
<1>7. CASE s.imagery = Nothing
  <2> DEFINE h == [g EXCEPT !.term = Most(g.term, g.rev), !.sig = Nothing]
  <2>1. Most(g.term, g.rev) \in 0..MaxRev /\ Most(g.term, g.rev) >= g.rev /\ Most(g.term, g.rev) >= g.term
    BY <1>2, LeastMost
  <2>2. h \in Gates /\ h.ctx = s.sid /\ h.rev = g.rev /\ h.term = Most(g.term, g.rev)
    BY <1>1, <2>1 DEF Gates, Offered
  <2>3. a = Denied(h)
    BY <1>3, <1>7
  <2> HIDE DEF h
  <2> QED
    BY <1>2, <1>6, <2>1, <2>2, <2>3
<1>8. CASE /\ s.imagery # Nothing
           /\ lease = Nothing \/ rev < g.rev \/ rev <= g.term \/ (rev = g.rev /\ lease # g.sig)
  <2> DEFINE h == [g EXCEPT !.term = t, !.rev = Most(g.rev, rev), !.sig = Nothing]
  <2>1. t \in 0..MaxRev /\ t >= g.term /\ t >= Most(g.rev, rev) /\ Most(g.rev, rev) \in 0..MaxRev /\ Most(g.rev, rev) >= g.rev
    BY <1>2, <1>4 DEF Most
  <2>2. a = Denied(h)
    BY <1>3, <1>8
  <2> HIDE DEF t
  <2>3. h \in Gates /\ h.ctx = s.sid /\ h.rev = Most(g.rev, rev) /\ h.term = t
    BY <1>1, <2>1 DEF Gates, Offered
  <2> HIDE DEF h
  <2> QED
    BY <1>6, <2>1, <2>2, <2>3
<1>9. CASE /\ s.imagery # Nothing
           /\ ~(lease = Nothing \/ rev < g.rev \/ rev <= g.term \/ (rev = g.rev /\ lease # g.sig))
  <2>1. /\ lease \in ImageLeases /\ lease.path \in Bodies /\ lease.id = rev /\ lease # Nothing
        /\ lease.exp \in Times /\ lease.deadline \in Times
        /\ rev >= g.rev /\ rev > g.term /\ (rev = g.rev => lease = g.sig)
    BY <1>2, <1>4, <1>5, <1>9
  <2>2. g.floors[lease.path] \in 0..MaxTime
    BY <1>2, <2>1
  <2>3. floor \in 0..MaxTime /\ floor <= g.floors[lease.path] /\ floor <= lease.exp
    BY <1>2, <2>1, <2>2 DEF Least, Times
  <2> HIDE DEF floor
  <2>4. /\ kept \in Gates /\ kept.ctx = s.sid /\ kept.rev = rev /\ kept.term = g.term /\ kept.sig = lease
        /\ kept.floors = [g.floors EXCEPT ![lease.path] = floor]
    <3> DEFINE fl == [g.floors EXCEPT ![lease.path] = floor]
    <3>1. fl \in [Bodies -> 0..MaxTime] /\ kept = [g EXCEPT !.rev = rev, !.sig = lease, !.floors = fl]
      BY <1>2, <2>1, <2>3
    <3> HIDE DEF fl, kept
    <3>2. /\ kept \in Gates /\ kept.ctx = s.sid /\ kept.rev = rev /\ kept.term = g.term /\ kept.sig = lease
          /\ kept.floors = fl
      BY <1>1, <1>4, <2>1, <3>1 DEF Gates, Offered
    <3> QED
      BY <3>2 DEF fl
  <2>5. kept.floors[lease.path] = floor /\ \A b \in Bodies : kept.floors[b] <= g.floors[b]
    BY <1>2, <2>1, <2>3, <2>4
  <2> HIDE DEF kept
  <2>6. CASE due <= Now
    <3> DEFINE h == [kept EXCEPT !.term = Most(kept.term, rev), !.sig = Nothing]
    <3>1. Most(kept.term, rev) \in 0..MaxRev /\ Most(kept.term, rev) >= rev /\ Most(kept.term, rev) >= g.term
      BY <1>2, <1>4, <2>4, LeastMost
    <3>2. a = Denied(h)
      BY <1>3, <1>9, <2>6
    <3>3. h \in Gates /\ h.ctx = s.sid /\ h.rev = rev /\ h.term = Most(kept.term, rev)
      BY <2>4, <3>1 DEF Gates, Offered
    <3> HIDE DEF h
    <3> QED
      BY <1>6, <2>1, <3>1, <3>2, <3>3
  <2>7. CASE ~(due <= Now)
    <3> DEFINE l == [lease EXCEPT !.deadline = due]
    <3>1. a = [gate |-> kept, lease |-> l]
      BY <1>3, <1>9, <2>7
    <3>2. due \in Times
      <4>1. due \in 0..MaxTime /\ due > 0
        BY <1>2, <2>1, <2>3, <2>7 DEF Least, Times, Now
      <4> QED
        BY <1>2, <4>1 DEF Times
    <3>3. l \in ImageLeases
      <4> HIDE DEF due
      <4> QED
        BY <2>1, <3>2 DEF ImageLeases
    <3>4. a.gate = kept /\ a.lease = l
      <4> HIDE DEF l
      <4> QED
        BY <3>1
    <3>5. GateHolds(kept, s.sid, l)
      BY <2>1, <2>4, <2>5 DEF GateHolds
    <3>6. Past(g) \subseteq Past(kept)
      BY <1>2, <1>4, <2>1, <2>4 DEF Past
    <3> HIDE DEF l
    <3>7. l # Nothing /\ l \in Offered
      BY <3>3 DEF NothingIsApart, Offered
    <3> QED
      BY <2>1, <2>4, <2>5, <3>4, <3>5, <3>6, <3>7 DEF GateStep
  <2> QED
    BY <2>6, <2>7
<1> QED
  BY <1>7, <1>8, <1>9

\* What an admission by ArtworkGate does: to what is revoked, and to the artwork before.
LatchStep(g, sid, a) ==
    /\ a.gate \in Latches /\ a.lease \in Offered /\ a.gate.ctx = sid
    /\ LatchHolds(a.gate, sid, a.lease)
    /\ g.revoked \subseteq a.gate.revoked
    /\ g.prev \in Keys \ g.revoked =>
         /\ a.lease = Nothing \/ a.lease.id # g.prev => g.prev \in a.gate.revoked
         /\ a.lease # Nothing /\ a.lease.id = g.prev /\ g.seen[g.prev] # 0
              => a.lease.exp = g.seen[g.prev] /\ a.gate.floor <= g.floor

LEMMA LatchFields ==
    ASSUME ImagesBounds, NEW g \in Latches
    PROVE  /\ g.ctx \in Ctxs /\ g.prev \in Keys \cup {Nothing} /\ g.seen \in [Keys -> 0..MaxTime]
           /\ g.revoked \in SUBSET Keys /\ g.floor \in 0..MaxTime /\ MaxTime \in Nat
BY DEF Latches, ImagesBounds

LEMMA NewLatch ==
    ASSUME ImagesBounds, NEW g \in Latches, NEW sid \in 0..MaxSessions
    PROVE  LatchOf(g, sid) \in Latches /\ LatchOf(g, sid).ctx = sid
<1>1. NoLatch(sid) \in Latches /\ NoLatch(sid).ctx = sid
  BY DEF NoLatch, Latches, Ctxs, ImagesBounds
<1> QED
  BY <1>1 DEF LatchOf

\* artwork_lease
LEMMA ArtworkFields ==
    ASSUME ImagesBounds, NEW s \in Screens, Artwork(s) # Nothing
    PROVE  /\ Artwork(s) \in ImageLeases /\ Artwork(s).id \in Keys /\ Artwork(s).exp \in Times
           /\ Artwork(s).deadline = Artwork(s).exp
<1>1. s.art \in Artworks
  BY DEF Artwork, Screens
<1>2. s.art.key \in Keys /\ s.art.exp \in Times
  BY <1>1 DEF Artworks
<1>3. Artwork(s) = [id |-> s.art.key, path |-> Nothing, exp |-> s.art.exp, deadline |-> s.art.exp]
  BY DEF Artwork
<1> QED
  BY <1>2, <1>3 DEF ImageLeases

LEMMA ReplacedFields ==
    ASSUME NothingIsApart, NEW g \in Latches, NEW key \in Keys \cup {Nothing}
    PROVE  /\ Replaced(g, key) \in Latches /\ Replaced(g, key).ctx = g.ctx
           /\ Replaced(g, key).seen = g.seen /\ Replaced(g, key).floor = g.floor
           /\ g.revoked \subseteq Replaced(g, key).revoked
           /\ g.prev \in Keys /\ g.prev # key => g.prev \in Replaced(g, key).revoked
           /\ g.prev = key => Replaced(g, key) = g
<1>1. CASE g.prev # Nothing /\ key # g.prev
  <2> DEFINE h == [g EXCEPT !.revoked = g.revoked \cup {g.prev}, !.prev = Nothing]
  <2>1. Replaced(g, key) = h
    BY <1>1 DEF Replaced
  <2>2. /\ h \in Latches /\ h.ctx = g.ctx /\ h.seen = g.seen /\ h.floor = g.floor
        /\ h.revoked = g.revoked \cup {g.prev}
    BY <1>1 DEF Latches
  <2> HIDE DEF h
  <2> QED
    BY <1>1, <2>1, <2>2
<1>2. CASE ~(g.prev # Nothing /\ key # g.prev)
  BY <1>2 DEF Replaced, NothingIsApart
<1> QED
  BY <1>1, <1>2

\* ArtworkGate.admit
LEMMA ArtworkAdmitted ==
    ASSUME ImagesBounds, NothingIsApart, NEW g0 \in Latches, NEW s \in Screens, clock \in 0..MaxTime
    PROVE  LatchStep(LatchOf(g0, s.sid), s.sid, AdmitArtwork(g0, s))
<1> DEFINE o     == LatchOf(g0, s.sid)
           lease == Artwork(s)
           key   == IF lease = Nothing THEN Nothing ELSE lease.id
           g     == Replaced(o, key)
           floor == Least(g.floor, lease.exp)
           kept  == [g EXCEPT !.prev = key, !.seen[key] = lease.exp, !.floor = floor]
           due   == Least(lease.deadline, floor)
           a     == AdmitArtwork(g0, s)
<1>1. o \in Latches /\ o.ctx = s.sid
  BY NewLatch, ScreenFields
<1>2. a = IF lease = Nothing \/ key \in g.revoked THEN Denied(g)
          ELSE IF g.seen[key] \notin {0, lease.exp} THEN Denied([g EXCEPT !.revoked = g.revoked \cup {key}])
          ELSE IF due <= Now THEN Denied([kept EXCEPT !.revoked = kept.revoked \cup {key}])
          ELSE [gate |-> kept, lease |-> [lease EXCEPT !.deadline = due]]
  BY DEF AdmitArtwork, LatchOf
<1>3. lease # Nothing => /\ lease \in ImageLeases /\ lease.id \in Keys /\ lease.exp \in Times
                         /\ lease.deadline = lease.exp
  BY ArtworkFields
<1>4. key \in Keys \cup {Nothing} /\ (lease # Nothing => key = lease.id /\ key \in Keys) /\ (lease = Nothing => key = Nothing)
  BY <1>3
<1> SUFFICES LatchStep(o, s.sid, a)
  OBVIOUS
<1> HIDE DEF o, lease, key, a
<1>5. /\ g \in Latches /\ g.ctx = s.sid /\ g.seen = o.seen /\ g.floor = o.floor
      /\ o.revoked \subseteq g.revoked
      /\ o.prev \in Keys /\ o.prev # key => o.prev \in g.revoked
      /\ o.prev = key => g = o
  BY <1>1, <1>4, ReplacedFields
<1>6. /\ g.seen \in [Keys -> 0..MaxTime] /\ g.revoked \in SUBSET Keys /\ g.floor \in 0..MaxTime /\ MaxTime \in Nat
  BY <1>5, LatchFields
<1> HIDE DEF g
<1>7. ASSUME NEW h \in Latches, h.ctx = s.sid, o.revoked \subseteq h.revoked,
             o.prev \in Keys \ o.revoked => o.prev \in h.revoked, a = Denied(h)
      PROVE  LatchStep(o, s.sid, a)
  <2>1. a.gate = h /\ a.lease = Nothing
    BY <1>7 DEF Denied
  <2> QED
    BY <1>7, <2>1 DEF LatchStep, LatchHolds, Offered
<1>8. CASE lease = Nothing \/ key \in g.revoked
  <2>1. a = Denied(g)
    BY <1>2, <1>8
  <2>2. o.prev \in Keys \ o.revoked => o.prev \in g.revoked
    BY <1>4, <1>5, <1>8 DEF NothingIsApart
  <2> QED
    BY <1>5, <1>7, <2>1, <2>2
<1>9. CASE ~(lease = Nothing \/ key \in g.revoked)
  <2>1. /\ lease \in ImageLeases /\ key = lease.id /\ key \in Keys \ g.revoked
        /\ lease.exp \in Times /\ lease.deadline = lease.exp
    BY <1>3, <1>4, <1>9
  <2>2. lease.exp \in 0..MaxTime /\ lease.exp > 0 /\ g.seen[key] \in 0..MaxTime
    BY <1>6, <2>1 DEF Times
  <2>3. floor \in 0..MaxTime /\ floor <= g.floor
    BY <1>6, <2>2 DEF Least
  <2> HIDE DEF floor
  <2>4. CASE g.seen[key] \notin {0, lease.exp}
    <3> DEFINE h == [g EXCEPT !.revoked = g.revoked \cup {key}]
    <3>1. a = Denied(h)
      BY <1>2, <1>9, <2>4
    <3>2. h \in Latches /\ h.ctx = s.sid /\ h.revoked = g.revoked \cup {key}
      BY <1>5, <2>1 DEF Latches
    <3> HIDE DEF h
    <3> QED
      BY <1>5, <1>7, <3>1, <3>2
  <2>5. CASE g.seen[key] \in {0, lease.exp}
    <3>1. /\ kept \in Latches /\ kept.ctx = s.sid /\ kept.prev = key /\ kept.revoked = g.revoked
          /\ kept.floor = floor /\ kept.seen[key] = lease.exp
      <4> DEFINE sn == [g.seen EXCEPT ![key] = lease.exp]
      <4>1. sn \in [Keys -> 0..MaxTime] /\ kept = [g EXCEPT !.prev = key, !.seen = sn, !.floor = floor] /\ sn[key] = lease.exp
        BY <1>6, <2>1, <2>2
      <4> HIDE DEF sn, kept
      <4> QED
        BY <1>5, <2>1, <2>3, <4>1 DEF Latches
    <3> HIDE DEF kept
    <3>2. CASE due <= Now
      <4> DEFINE h == [kept EXCEPT !.revoked = kept.revoked \cup {key}]
      <4>1. a = Denied(h)
        BY <1>2, <1>9, <2>5, <3>2
      <4>2. h \in Latches /\ h.ctx = s.sid /\ h.revoked = g.revoked \cup {key}
        BY <2>1, <3>1 DEF Latches
      <4> HIDE DEF h
      <4> QED
        BY <1>5, <1>7, <4>1, <4>2
    <3>3. CASE ~(due <= Now)
      <4> DEFINE l == [lease EXCEPT !.deadline = due]
      <4>1. a = [gate |-> kept, lease |-> l]
        BY <1>2, <1>9, <2>5, <3>3
      <4>2. due \in Times
        <5>1. due \in 0..MaxTime /\ due > 0
          BY <1>6, <2>1, <2>2, <2>3, <3>3 DEF Least, Now
        <5> QED
          BY <1>6, <5>1 DEF Times
      <4>3. due = Least(lease.exp, floor)
        BY <2>1
      <4> HIDE DEF due
      <4>4. l \in ImageLeases /\ l.id = key /\ l.exp = lease.exp /\ l.deadline = due
        BY <2>1, <4>2 DEF ImageLeases
      <4> HIDE DEF l
      <4>5. a.gate = kept /\ a.lease = l /\ l # Nothing /\ l \in Offered
        BY <4>1, <4>4 DEF NothingIsApart, Offered
      <4>6. LatchHolds(kept, s.sid, l)
        BY <2>1, <3>1, <4>3, <4>4 DEF LatchHolds
      <4>7. o.prev = key /\ o.seen[o.prev] # 0 => l.exp = o.seen[o.prev] /\ kept.floor <= o.floor
        BY <1>5, <2>3, <2>5, <3>1, <4>4
      <4> QED
        BY <1>5, <3>1, <4>4, <4>5, <4>6, <4>7 DEF LatchStep
    <3> QED
      BY <3>2, <3>3
  <2> QED
    BY <2>4, <2>5
<1> QED
  BY <1>8, <1>9
-----------------------------------------------------------------------------
(* SessionImages: the panes *)

\* _set_lease, then _start.
PaneNext(p, lease, j) == Tried(Given(p, lease), Superseded(p, lease, j))
JobNext(p, lease, j)  == Job(Given(p, lease), Superseded(p, lease, j))

LEMMA PaneFields ==
    ASSUME NEW p \in Views
    PROVE  p.visible \in BOOLEAN /\ p.own \in BOOLEAN /\ p.desired \in Offered /\ p.public \in Offered /\ p.tried \in Offered
BY DEF Views

LEMMA PaneGiven ==
    ASSUME NothingIsApart, NEW p \in Views, NEW j \in Work \cup {Nothing}, NEW lease \in Offered, WorkInv(p, j)
    PROVE  /\ PaneNext(p, lease, j) \in Views /\ PaneNext(p, lease, j).desired = lease /\ PaneNext(p, lease, j).own
           /\ JobNext(p, lease, j) \in Work \cup {Nothing}
           /\ WorkInv(PaneNext(p, lease, j), JobNext(p, lease, j))
<1> DEFINE g == Given(p, lease)
           i == Superseded(p, lease, j)
<1>1. g \in Views /\ g.desired = lease /\ g.own /\ g.public \in {Nothing, lease}
  <2>1. CASE Same(p, lease)
    BY <2>1 DEF Given, Same, WorkInv
  <2>2. CASE ~Same(p, lease)
    <3> DEFINE h == [p EXCEPT !.own = TRUE, !.desired = lease, !.public = Nothing, !.tried = Nothing]
    <3>1. g = h
      BY <2>2 DEF Given
    <3>2. h \in Views /\ h.desired = lease /\ h.own /\ h.public = Nothing
      BY DEF Views, Offered
    <3> QED
      BY <3>1, <3>2
  <2> QED
    BY <2>1, <2>2
<1>2. i \in Work \cup {Nothing} /\ (i # Nothing /\ i.live => i.lease = lease)
  <2>1. CASE Same(p, lease) \/ j = Nothing
    BY <2>1 DEF Superseded, Same, Stale, WorkInv
  <2>2. CASE ~Same(p, lease) /\ j # Nothing
    <3> DEFINE h == [j EXCEPT !.live = FALSE, !.lease = Nothing]
    <3>1. i = h
      BY <2>2 DEF Superseded, Stale
    <3>2. h \in Work /\ h.live = FALSE
      BY <2>2 DEF Work, Offered
    <3> QED
      BY <3>1, <3>2
  <2> QED
    BY <2>1, <2>2
<1> HIDE DEF g, i
<1> SUFFICES /\ Tried(g, i) \in Views /\ Tried(g, i).desired = lease /\ Tried(g, i).own /\ Job(g, i) \in Work \cup {Nothing}
             /\ WorkInv(Tried(g, i), Job(g, i))
  BY DEF PaneNext, JobNext, g, i
<1>3. Tried(g, i) \in Views /\ Tried(g, i).desired = lease /\ Tried(g, i).own /\ Tried(g, i).public = g.public
  <2> DEFINE h == [g EXCEPT !.tried = g.desired]
  <2>1. h \in Views /\ h.desired = lease /\ h.own /\ h.public = g.public
    BY <1>1, PaneFields DEF Views
  <2>2. Tried(g, i) \in {g, h}
    BY DEF Tried
  <2> HIDE DEF h
  <2> QED
    BY <1>1, <2>1, <2>2
<1>4. Job(g, i) \in Work \cup {Nothing} /\ (Job(g, i) # Nothing /\ Job(g, i).live => Job(g, i).lease = lease)
  <2>1. NewJob(g) \in Work /\ NewJob(g).lease = lease
    BY <1>1, PaneFields DEF NewJob, Work
  <2>2. Job(g, i) \in {NewJob(g), i}
    BY DEF Job
  <2> QED
    BY <1>2, <2>1, <2>2
<1> QED
  BY <1>1, <1>3, <1>4 DEF WorkInv

-----------------------------------------------------------------------------
(* SessionImages: an admission against what was on screen *)

LEMMA AdmittedId ==
    ASSUME NEW g \in Gates, NEW sid, NEW d, GateHolds(g, sid, d), d # Nothing
    PROVE  /\ g.sig \in ImageLeases /\ g.sig.path \in Bodies /\ d.id = g.rev
           /\ d.deadline = Least(g.sig.deadline, g.floors[g.sig.path])
<1> DEFINE f == Least(g.sig.deadline, g.floors[g.sig.path])
           y == [g.sig EXCEPT !.deadline = f]
<1>1. g.sig \in ImageLeases /\ g.sig.path \in Bodies /\ g.sig.id = g.rev /\ d = y
  BY DEF GateHolds
<1> HIDE DEF f
<1>2. y.id = g.sig.id /\ y.deadline = f
  BY <1>1 DEF ImageLeases
<1> HIDE DEF y
<1> QED
  BY <1>1, <1>2 DEF f

\* d was on screen in the Session sid; the gate n admits lease for the Session to.
LEMMA ImageReplaced ==
    ASSUME ImagesBounds, NothingIsApart, NEW g \in Gates, NEW sid, NEW d \in Offered, GateHolds(g, sid, d),
           NEW to, NEW a, GateStep(GateOf(g, to), to, a)
    PROVE  /\ g.ctx = to => Past(g) \subseteq Past(a.gate)
           /\ g.ctx = to /\ d # Nothing /\ (a.lease = Nothing \/ a.lease.id # d.id) => d.id \in Past(a.gate)
           /\ sid = to /\ d # Nothing /\ a.lease # Nothing /\ a.lease.id = d.id => a.lease.deadline <= d.deadline
<1> SUFFICES ASSUME g.ctx = to \/ (sid = to /\ d # Nothing)
             PROVE  /\ Past(g) \subseteq Past(a.gate)
                    /\ d # Nothing /\ (a.lease = Nothing \/ a.lease.id # d.id) => d.id \in Past(a.gate)
                    /\ d # Nothing /\ a.lease # Nothing /\ a.lease.id = d.id => a.lease.deadline <= d.deadline
  OBVIOUS
<1>1. GateStep(g, to, a)
  BY DEF GateOf, GateHolds
<1> DEFINE n == a.gate
           l == a.lease
<1>2. n \in Gates /\ l \in Offered /\ GateHolds(n, to, l)
  BY <1>1 DEF GateStep
<1>3. /\ g.rev \in 0..MaxRev /\ n.rev \in 0..MaxRev /\ n.term \in 0..MaxRev /\ MaxRev \in Nat /\ MaxTime \in Nat
      /\ g.floors \in [Bodies -> 0..MaxTime] /\ n.floors \in [Bodies -> 0..MaxTime]
  BY <1>2, GateFields
<1>4. /\ l = Nothing => g.rev <= n.term
      /\ l # Nothing => /\ n.rev >= g.rev
                        /\ n.rev = g.rev => n.sig = g.sig /\ \A b \in Bodies : n.floors[b] <= g.floors[b]
  BY <1>1 DEF GateStep
<1> HIDE DEF n, l
<1>5. d # Nothing => /\ g.sig \in ImageLeases /\ g.sig.path \in Bodies /\ d.id = g.rev
                     /\ d.deadline = Least(g.sig.deadline, g.floors[g.sig.path])
  BY AdmittedId
<1>6. l # Nothing => /\ n.sig \in ImageLeases /\ n.sig.path \in Bodies /\ l.id = n.rev
                     /\ l.deadline = Least(n.sig.deadline, n.floors[n.sig.path])
  BY <1>2, AdmittedId
<1>7. d # Nothing /\ (l = Nothing \/ l.id # d.id) => d.id \in Past(n)
  BY <1>3, <1>4, <1>5, <1>6 DEF Past
<1>8. d # Nothing /\ l # Nothing /\ l.id = d.id => l.deadline <= d.deadline
  <2> SUFFICES ASSUME d # Nothing, l # Nothing, l.id = d.id
               PROVE  l.deadline <= d.deadline
    OBVIOUS
  <2> DEFINE b == g.sig.path
  <2>1. n.sig = g.sig /\ n.floors[b] <= g.floors[b] /\ b \in Bodies
    BY <1>3, <1>4, <1>5, <1>6
  <2>2. g.sig.deadline \in Times /\ g.floors[b] \in 0..MaxTime /\ n.floors[b] \in 0..MaxTime
    BY <1>3, <1>5, <2>1, LeaseFields
  <2> HIDE DEF b
  <2>3. Least(g.sig.deadline, n.floors[b]) <= Least(g.sig.deadline, g.floors[b])
    BY <1>3, <2>1, <2>2 DEF Least, Times
  <2> QED
    BY <1>5, <1>6, <2>1, <2>3 DEF b
<1> QED
  BY <1>1, <1>7, <1>8 DEF GateStep, n, l

LEMMA ArtworkReplaced ==
    ASSUME ImagesBounds, NothingIsApart, NEW g \in Latches, NEW sid, NEW d \in Offered, LatchHolds(g, sid, d),
           NEW to, NEW a, LatchStep(LatchOf(g, to), to, a)
    PROVE  /\ g.ctx = to => g.revoked \subseteq a.gate.revoked
           /\ g.ctx = to /\ d # Nothing /\ (a.lease = Nothing \/ a.lease.id # d.id) => d.id \in a.gate.revoked
           /\ sid = to /\ d # Nothing /\ a.lease # Nothing /\ a.lease.id = d.id => a.lease.deadline <= d.deadline
<1> SUFFICES ASSUME g.ctx = to \/ (sid = to /\ d # Nothing)
             PROVE  /\ g.revoked \subseteq a.gate.revoked
                    /\ d # Nothing /\ (a.lease = Nothing \/ a.lease.id # d.id) => d.id \in a.gate.revoked
                    /\ d # Nothing /\ a.lease # Nothing /\ a.lease.id = d.id => a.lease.deadline <= d.deadline
  OBVIOUS
<1>1. LatchStep(g, to, a)
  BY DEF LatchOf, LatchHolds
<1>2. d # Nothing => /\ g.prev = d.id /\ g.prev \in Keys \ g.revoked /\ g.seen[g.prev] = d.exp
                     /\ d.deadline = Least(d.exp, g.floor) /\ d.exp \in Times
  BY LeaseFields DEF LatchHolds, Offered
<1>3. d # Nothing => g.seen[g.prev] # 0
  BY <1>2 DEF Times, ImagesBounds
<1>4. d # Nothing /\ (a.lease = Nothing \/ a.lease.id # d.id) => d.id \in a.gate.revoked
  BY <1>1, <1>2 DEF LatchStep
<1>5. d # Nothing /\ a.lease # Nothing /\ a.lease.id = d.id => a.lease.deadline <= d.deadline
  <2> SUFFICES ASSUME d # Nothing, a.lease # Nothing, a.lease.id = d.id
               PROVE  a.lease.deadline <= d.deadline
    OBVIOUS
  <2>1. a.lease.exp = d.exp /\ a.gate.floor <= g.floor /\ a.gate \in Latches
    BY <1>1, <1>2, <1>3 DEF LatchStep
  <2>2. a.lease.deadline = Least(a.lease.exp, a.gate.floor)
    BY <1>1 DEF LatchStep, LatchHolds
  <2>3. a.gate.floor \in 0..MaxTime /\ g.floor \in 0..MaxTime /\ MaxTime \in Nat
    BY <2>1, LatchFields
  <2> QED
    BY <1>2, <2>1, <2>2, <2>3 DEF Least, Times
<1> QED
  BY <1>1, <1>4, <1>5 DEF LatchStep
-----------------------------------------------------------------------------
(* SessionImages: every step *)

NotLonger(d, l) == d # Nothing /\ l # Nothing /\ l.id = d.id => l.deadline <= d.deadline

\* sync: what the gates admit, what the panes and their workers make of it.
LEMMA SyncStep ==
    ASSUME ImagesBounds, NothingIsApart, ImagesInv, NEW s \in Screens, NEW r \in Texts,
           s.sid = screen.sid => TextStep(text, r),
           NEW panes \in [Panes -> Views],
           \A k \in Panes : panes[k].desired = pane[k].desired /\ panes[k].public = pane[k].public,
           Sync(s, r, panes)
    PROVE  /\ gate' \in Gates /\ latch' \in Latches
           /\ pane' \in [Panes -> Views] /\ job' \in [Panes -> Work \cup {Nothing}]
           /\ GateHolds(gate', s.sid, pane'["forecast"].desired)
           /\ LatchHolds(latch', s.sid, pane'["moment"].desired)
           /\ over'["text"] \subseteq Past(r)
           /\ over'["forecast"] \subseteq Past(gate') /\ over'["moment"] \subseteq latch'.revoked
           /\ \A k \in Panes : WorkInv(pane'[k], job'[k]) /\ pane'[k].own
           /\ s.sid = screen.sid => \A k \in Panes : pane[k].own => NotLonger(pane[k].desired, pane'[k].desired)
<1> DEFINE a == AdmitImage(gate, s, r)
           b == AdmitArtwork(latch, s)
           on(k)  == panes[k].visible
           lf == IF on("forecast") THEN a.lease ELSE Nothing
           lm == IF on("moment") THEN b.lease ELSE Nothing
           adm(k) == IF k = "forecast" THEN lf ELSE lm
           f == pane["forecast"].desired
           m == pane["moment"].desired
           fo == pane["forecast"].own
           mo == pane["moment"].own
<1>1. /\ clock \in 0..MaxTime /\ gate \in Gates /\ latch \in Latches
      /\ pane \in [Panes -> Views] /\ job \in [Panes -> Work \cup {Nothing}]
      /\ f \in Offered /\ m \in Offered /\ fo \in BOOLEAN /\ mo \in BOOLEAN
  BY PaneFields DEF ImagesInv, ImagesTyped, Panes
<1>2. /\ fo => GateHolds(gate, screen.sid, f)
      /\ mo => LatchHolds(latch, screen.sid, m)
      /\ gate.ctx = s.sid => fo
      /\ latch.ctx = s.sid => mo
  <2>1. s.sid # Other
    BY ScreenFields DEF Other, ImagesBounds
  <2> QED
    BY <2>1 DEF ImagesInv, HoldInv, OwnInv, Held
<1>3. over["text"] \subseteq Past(text) /\ over["forecast"] \subseteq Past(gate) /\ over["moment"] \subseteq latch.revoked
  BY DEF ImagesInv, OverInv
<1>4. GateStep(GateOf(gate, s.sid), s.sid, a) /\ LatchStep(LatchOf(latch, s.sid), s.sid, b)
  BY <1>1, ImageAdmitted, ArtworkAdmitted
<1>5. /\ gate.ctx = s.sid => Past(gate) \subseteq Past(a.gate)
      /\ gate.ctx = s.sid /\ f # Nothing /\ (a.lease = Nothing \/ a.lease.id # f.id) => f.id \in Past(a.gate)
      /\ screen.sid = s.sid /\ fo => NotLonger(f, a.lease)
  <2> HIDE DEF a, b, f, m, fo, mo
  <2>1. CASE fo
    BY <1>1, <1>2, <1>4, <2>1, ImageReplaced DEF NotLonger
  <2>2. CASE ~fo
    BY <1>2, <2>2
  <2> QED
    BY <2>1, <2>2
<1>6. /\ latch.ctx = s.sid => latch.revoked \subseteq b.gate.revoked
      /\ latch.ctx = s.sid /\ m # Nothing /\ (b.lease = Nothing \/ b.lease.id # m.id) => m.id \in b.gate.revoked
      /\ screen.sid = s.sid /\ mo => NotLonger(m, b.lease)
  <2> HIDE DEF a, b, f, m, fo, mo
  <2>1. CASE mo
    BY <1>1, <1>2, <1>4, <2>1, ArtworkReplaced DEF NotLonger
  <2>2. CASE ~mo
    BY <1>2, <2>2
  <2> QED
    BY <2>1, <2>2
<1>7. /\ a.gate \in Gates /\ a.lease \in Offered /\ GateHolds(a.gate, s.sid, a.lease)
      /\ b.gate \in Latches /\ b.lease \in Offered /\ LatchHolds(b.gate, s.sid, b.lease)
  BY <1>4 DEF GateStep, LatchStep
<1>8. /\ gate'  = (IF on("forecast") THEN a.gate ELSE gate)
      /\ latch' = (IF on("moment") THEN b.gate ELSE latch)
      /\ pane'  = [k \in Panes |-> PaneNext(panes[k], adm(k), job[k])]
      /\ job'   = [k \in Panes |-> JobNext(panes[k], adm(k), job[k])]
  BY DEF Sync, PaneNext, JobNext, Panes
<1>9. over'["text"] = IF s.sid # screen.sid THEN {}
                      ELSE IF text.val # Nothing /\ (r.val = Nothing \/ r.val.rev # text.val.rev)
                           THEN over["text"] \cup {text.val.rev} ELSE over["text"]
  BY DEF Sync, Panes
<1>10. over'["forecast"] = IF ~on("forecast") THEN over["forecast"]
                           ELSE IF gate.ctx # s.sid THEN {}
                           ELSE IF f # Nothing /\ (lf = Nothing \/ lf.id # f.id)
                                THEN over["forecast"] \cup {f.id} ELSE over["forecast"]
  BY DEF Sync, Panes
<1>11. over'["moment"] = IF ~on("moment") THEN over["moment"]
                         ELSE IF latch.ctx # s.sid THEN {}
                         ELSE IF m # Nothing /\ (lm = Nothing \/ lm.id # m.id)
                              THEN over["moment"] \cup {m.id} ELSE over["moment"]
  BY DEF Sync, Panes
<1>12. lf \in Offered /\ lm \in Offered
  BY <1>7 DEF Offered
<1> HIDE DEF a, b
<1>13. \A k \in Panes : /\ pane'[k] \in Views /\ pane'[k].desired = adm(k) /\ pane'[k].own
                        /\ job'[k] \in Work \cup {Nothing} /\ WorkInv(pane'[k], job'[k])
  <2> TAKE k \in Panes
  <2>1. adm(k) \in Offered
    BY <1>12
  <2>2. WorkInv(pane[k], job[k])
    BY DEF ImagesInv
  <2>3. WorkInv(panes[k], job[k])
    BY <2>2 DEF WorkInv
  <2>4. panes[k] \in Views /\ job[k] \in Work \cup {Nothing}
    BY <1>1
  <2> HIDE DEF adm
  <2>5. /\ PaneNext(panes[k], adm(k), job[k]) \in Views /\ PaneNext(panes[k], adm(k), job[k]).desired = adm(k)
        /\ PaneNext(panes[k], adm(k), job[k]).own
        /\ JobNext(panes[k], adm(k), job[k]) \in Work \cup {Nothing}
        /\ WorkInv(PaneNext(panes[k], adm(k), job[k]), JobNext(panes[k], adm(k), job[k]))
    BY <2>1, <2>3, <2>4, PaneGiven
  <2> QED
    BY <1>8, <2>5
<1>14. pane'["forecast"].desired = lf /\ pane'["moment"].desired = lm
  BY <1>13 DEF Panes
<1>15. pane' \in [Panes -> Views] /\ job' \in [Panes -> Work \cup {Nothing}]
  <2> HIDE DEF adm
  <2> QED
    BY <1>8, <1>13
<1> HIDE DEF f, m, fo, mo, on
<1>16. over'["text"] \subseteq Past(r)
  BY <1>3, <1>9 DEF TextStep
<1>17. over'["forecast"] \subseteq Past(gate')
  BY <1>3, <1>5, <1>8, <1>10
<1>18. over'["moment"] \subseteq latch'.revoked
  BY <1>3, <1>6, <1>8, <1>11
<1>19. gate' \in Gates /\ latch' \in Latches
  BY <1>1, <1>7, <1>8
<1>20. GateHolds(gate', s.sid, lf) /\ LatchHolds(latch', s.sid, lm)
  BY <1>7, <1>8 DEF GateHolds, LatchHolds
<1>21. s.sid = screen.sid => (fo => NotLonger(f, lf)) /\ (mo => NotLonger(m, lm))
  BY <1>5, <1>6 DEF NotLonger
<1>22. s.sid = screen.sid => \A k \in Panes : pane[k].own => NotLonger(pane[k].desired, pane'[k].desired)
  BY <1>14, <1>21 DEF Panes, f, m, fo, mo
<1> QED
  BY <1>13, <1>14, <1>15, <1>16, <1>17, <1>18, <1>19, <1>20, <1>22

\* What no step does to the text and the leases on screen.
NotProlonged ==
    screen'.sid = screen.sid =>
        /\ text.val # Nothing /\ text'.val # Nothing /\ text'.val.rev = text.val.rev
             => text'.val.until <= text.val.until
        /\ \A k \in Panes : pane[k].own => NotLonger(pane[k].desired, pane'[k].desired)

LEMMA SyncedStep ==
    ASSUME ImagesBounds, NothingIsApart, ImagesInv, screen' \in Screens, text' \in Texts, TextHolds(text'),
           screen'.sid = screen.sid => TextStep(text, text'), screen'.sid = 0 => text' = NoText,
           NEW panes \in [Panes -> Views],
           \A k \in Panes : panes[k].desired = pane[k].desired /\ panes[k].public = pane[k].public,
           Sync(screen', text', panes), clock' = clock
    PROVE  ImagesInv' /\ NotProlonged
<1>1. /\ gate' \in Gates /\ latch' \in Latches
      /\ pane' \in [Panes -> Views] /\ job' \in [Panes -> Work \cup {Nothing}]
      /\ GateHolds(gate', screen'.sid, pane'["forecast"].desired)
      /\ LatchHolds(latch', screen'.sid, pane'["moment"].desired)
      /\ over'["text"] \subseteq Past(text')
      /\ over'["forecast"] \subseteq Past(gate') /\ over'["moment"] \subseteq latch'.revoked
      /\ \A k \in Panes : WorkInv(pane'[k], job'[k]) /\ pane'[k].own
      /\ screen'.sid = screen.sid => \A k \in Panes : pane[k].own => NotLonger(pane[k].desired, pane'[k].desired)
  BY SyncStep
<1>2. clock' \in 0..MaxTime
  BY DEF ImagesInv, ImagesTyped
<1>3. ImagesInv'
  <2>1. Held(pane["forecast"])' = pane'["forecast"].desired /\ Held(pane["moment"])' = pane'["moment"].desired
    BY <1>1 DEF Held, Panes
  <2>2. HoldInv' /\ OwnInv'
    BY <1>1, <2>1 DEF HoldInv, OwnInv, Panes
  <2> QED
    BY <1>1, <1>2, <2>2 DEF ImagesInv, ImagesTyped, OverInv, AwayInv
<1>4. NotProlonged
  BY <1>1 DEF NotProlonged, TextStep
<1> QED
  BY <1>3, <1>4

LEMMA NoTextHolds == ASSUME ImagesBounds, NothingIsApart PROVE NoText \in Texts /\ TextHolds(NoText) /\ NoText.val = Nothing
BY DEF NoText, Texts, TextHolds, ImagesBounds

LEMMA TextStays == ASSUME NEW r \in Texts, TextHolds(r), ImagesBounds PROVE TextStep(r, r)
<1>1. r.val # Nothing => r.val.until \in Int
  BY DEF Texts, Shown, Times
<1> QED
  BY <1>1 DEF TextStep

LEMMA ImageryFields == ASSUME NEW f \in Forecasts \cup {Nothing} PROVE Imagery(f) \in Imageries \cup {Nothing}
<1>1. CASE f = Nothing
  BY <1>1 DEF Imagery
<1>2. CASE f \in Forecasts /\ f.state = "ready" /\ f.exp # 0
  BY <1>2, ForecastFields DEF Imagery, Imageries
<1>3. CASE f \in Forecasts /\ ~(f.state = "ready" /\ f.exp # 0)
  BY <1>3, ForecastFields DEF Imagery, Imageries
<1> QED
  BY <1>1, <1>2, <1>3

LEMMA Applied == ASSUME ImagesBounds, NothingIsApart, ImagesInv, Apply PROVE ImagesInv' /\ NotProlonged
<1>1. PICK sid \in {screen.last, screen.last + 1} \ {0}, f \in Forecasts \cup {Nothing}, a \in Artworks \cup {Nothing} :
        LET r == IF sid = screen.sid THEN text ELSE NoText
        IN  /\ sid <= MaxSessions
            /\ screen' = [screen EXCEPT !.sid = sid, !.last = sid, !.imagery = Imagery(f), !.art = a]
            /\ text' = IF f = Nothing THEN Withdrawn([r EXCEPT !.term = Most(@, r.rev)]) ELSE Received(r, f)
  BY DEF Apply
<1>2. Sync(screen', text', pane) /\ clock' = clock
  BY DEF Apply
<1> DEFINE r == IF sid = screen.sid THEN text ELSE NoText
<1>3. screen \in Screens /\ text \in Texts /\ TextHolds(text) /\ clock \in 0..MaxTime /\ pane \in [Panes -> Views]
  BY DEF ImagesInv, ImagesTyped, HoldInv
<1>4. r \in Texts /\ TextHolds(r)
  BY <1>3, NoTextHolds
<1>5. /\ text' = IF f = Nothing THEN Withdrawn([r EXCEPT !.term = Most(r.term, r.rev)]) ELSE Received(r, f)
      /\ sid = screen.sid => r = text
  BY <1>1
<1> HIDE DEF r
<1>6. TextStep(r, text')
  <2>1. CASE f = Nothing
    <3>1. r.rev \in 0..MaxRev /\ r.term \in 0..MaxRev
      BY <1>4 DEF Texts
    <3>2. Most(r.term, r.rev) \in 0..MaxRev /\ Most(r.term, r.rev) >= r.rev /\ Most(r.term, r.rev) >= r.term
      BY <3>1, LeastMost
    <3> QED
      BY <1>4, <1>5, <2>1, <3>2, TextEnded
  <2>2. CASE f # Nothing
    BY <1>3, <1>4, <1>5, <2>2, TextReceived
  <2> QED
    BY <2>1, <2>2
<1>7. screen' \in Screens /\ screen'.sid = sid /\ sid # 0
  <2>1. sid \in 0..MaxSessions /\ sid # 0
    BY <1>1, <1>3 DEF Screens, ImagesBounds
  <2> DEFINE i == Imagery(f)
             n == [screen EXCEPT !.sid = sid, !.last = sid, !.imagery = i, !.art = a]
  <2>2. i \in Imageries \cup {Nothing}
    BY ImageryFields
  <2>3. screen' = n
    BY <1>1
  <2> HIDE DEF i
  <2>4. n \in Screens /\ n.sid = sid
    BY <1>3, <2>1, <2>2 DEF Screens
  <2> QED
    BY <2>1, <2>3, <2>4
<1>8. text' \in Texts /\ TextHolds(text')
  BY <1>6 DEF TextStep
<1> QED
  BY <1>2, <1>3, <1>5, <1>6, <1>7, <1>8, SyncedStep

LEMMA Invalidated == ASSUME ImagesBounds, NothingIsApart, ImagesInv, InvalidateScreen PROVE ImagesInv' /\ NotProlonged
<1>1. screen \in Screens /\ pane \in [Panes -> Views]
  BY DEF ImagesInv, ImagesTyped
<1>2. screen' = [screen EXCEPT !.sid = 0, !.imagery = Nothing, !.art = Nothing] /\ text' = NoText
      /\ Sync(screen', text', pane) /\ clock' = clock
  BY DEF InvalidateScreen
<1>3. screen' \in Screens /\ screen'.sid = 0
  <2> DEFINE n == [screen EXCEPT !.sid = 0, !.imagery = Nothing, !.art = Nothing]
  <2>1. 0 \in 0..MaxSessions
    BY DEF ImagesBounds
  <2>2. n \in Screens /\ n.sid = 0
    BY <1>1, <2>1 DEF Screens
  <2> QED
    BY <1>2, <2>2
<1>4. screen'.sid = screen.sid => text = NoText
  BY <1>3 DEF ImagesInv, AwayInv
<1>5. text' \in Texts /\ TextHolds(text') /\ TextStep(NoText, NoText)
  BY <1>2, NoTextHolds, TextStays
<1> QED
  BY <1>1, <1>2, <1>3, <1>4, <1>5, SyncedStep

LEMMA TimedOut == ASSUME ImagesBounds, NothingIsApart, ImagesInv, Expire PROVE ImagesInv' /\ NotProlonged
<1>1. screen \in Screens /\ text \in Texts /\ TextHolds(text) /\ pane \in [Panes -> Views]
  BY DEF ImagesInv, ImagesTyped, HoldInv
<1>2. screen' = screen /\ text' = Expired(text) /\ Sync(screen', text', pane) /\ clock' = clock
  BY DEF Expire
<1>3. TextStep(text, text') /\ text' \in Texts /\ TextHolds(text')
  BY <1>1, <1>2, TextExpires DEF TextStep
<1>4. screen'.sid = 0 => text' = NoText
  BY <1>2, NoTextHolds DEF ImagesInv, AwayInv, Expired
<1> QED
  BY <1>1, <1>2, <1>3, <1>4, SyncedStep

LEMMA Toggled ==
    ASSUME ImagesBounds, NothingIsApart, ImagesInv, NEW k \in Panes, Toggle(k)
    PROVE  ImagesInv' /\ NotProlonged
<1> DEFINE p == [pane[k] EXCEPT !.visible = ~@, !.tried = Nothing]
           panes == [pane EXCEPT ![k] = p]
<1>1. screen \in Screens /\ text \in Texts /\ TextHolds(text) /\ pane \in [Panes -> Views]
  BY DEF ImagesInv, ImagesTyped, HoldInv
<1>2. screen' = screen /\ text' = text /\ clock' = clock /\ Sync(screen', text', panes)
  BY <1>1 DEF Toggle
<1>3. p \in Views /\ p.desired = pane[k].desired /\ p.public = pane[k].public
  <2>1. pane[k] \in Views
    BY <1>1
  <2> QED
    BY <2>1 DEF Views, Offered
<1> HIDE DEF p
<1>4. panes \in [Panes -> Views]
      /\ \A i \in Panes : panes[i].desired = pane[i].desired /\ panes[i].public = pane[i].public
  BY <1>1, <1>3
<1>5. TextStep(text, text')
  BY <1>1, <1>2, TextStays
<1>6. screen'.sid = 0 => text' = NoText
  BY <1>2 DEF ImagesInv, AwayInv
<1> HIDE DEF panes
<1> QED
  BY <1>1, <1>2, <1>4, <1>5, <1>6, SyncedStep

\* A lease that stays is not prolonged.
LEMMA SameDeadline == ASSUME ImagesBounds, NEW d \in Offered PROVE NotLonger(d, d)
BY LeaseFields DEF NotLonger, Offered, Times

\* The workers and the view leave the receiver, the gates and the leases as they are.
LEMMA WorkersStep ==
    ASSUME ImagesBounds, ImagesInv, UNCHANGED <<screen, text, gate, latch, over>>, clock' \in 0..MaxTime,
           pane' \in [Panes -> Views], job' \in [Panes -> Work \cup {Nothing}],
           \A i \in Panes : /\ pane'[i].desired = pane[i].desired /\ pane'[i].own = pane[i].own
                           /\ WorkInv(pane'[i], job'[i])
    PROVE  ImagesInv' /\ NotProlonged
<1>1. ImagesInv'
  BY DEF ImagesInv, ImagesTyped, HoldInv, Held, OverInv, AwayInv, OwnInv, Panes
<1>2. ASSUME NEW i \in Panes
      PROVE  NotLonger(pane[i].desired, pane'[i].desired)
  <2>1. pane[i].desired \in Offered
    BY PaneFields DEF ImagesInv, ImagesTyped
  <2> QED
    BY <2>1, SameDeadline
<1>3. text.val # Nothing => text.val.until \in Int
  BY DEF ImagesInv, ImagesTyped, Texts, Shown, Times
<1> QED
  BY <1>1, <1>2, <1>3 DEF NotProlonged

LEMMA UntouchedStep ==
    ASSUME ImagesBounds, ImagesInv, UNCHANGED <<screen, text, gate, latch, pane, job, over>>, clock' \in 0..MaxTime
    PROVE  ImagesInv' /\ NotProlonged
BY WorkersStep DEF ImagesInv, ImagesTyped

LEMMA Passed == ASSUME ImagesBounds, ImagesInv, Pass PROVE ImagesInv' /\ NotProlonged
<1>1. clock' \in 0..MaxTime
  BY DEF Pass, ImagesInv, ImagesTyped, ImagesBounds
<1> QED
  BY <1>1, UntouchedStep DEF Pass

LEMMA Fetched == ASSUME ImagesBounds, ImagesInv, NEW k \in Panes, Fetch(k) PROVE ImagesInv' /\ NotProlonged
<1>1. PICK ok \in BOOLEAN : job' = [job EXCEPT ![k].got = ok]
  BY DEF Fetch
<1> DEFINE n == [job[k] EXCEPT !.got = ok]
<1>2. job \in [Panes -> Work \cup {Nothing}] /\ job[k] \in Work
  BY DEF Fetch, ImagesInv, ImagesTyped
<1>3. n \in Work /\ n.lease = job[k].lease /\ n.live = job[k].live
  BY <1>2 DEF Work
<1>4. job' = [job EXCEPT ![k] = n]
  BY <1>1
<1> HIDE DEF n
<1>5. job' \in [Panes -> Work \cup {Nothing}]
  BY <1>2, <1>3, <1>4
<1>6. \A i \in Panes : WorkInv(pane[i], job'[i])
  BY <1>2, <1>3, <1>4 DEF ImagesInv, WorkInv, Fetch
<1> QED
  BY <1>5, <1>6, WorkersStep DEF Fetch, ImagesInv, ImagesTyped

LEMMA FetchFinished ==
    ASSUME ImagesBounds, NothingIsApart, ImagesInv, NEW k \in Panes, FinishFetch(k) PROVE ImagesInv' /\ NotProlonged
<1> DEFINE got == job[k].live /\ ValidPane(pane[k]) /\ job[k].got
           q == [pane[k] EXCEPT !.public = job[k].lease]
           p == IF got THEN q ELSE pane[k]
           t == [p EXCEPT !.tried = p.desired]
           pn == IF Again(p) THEN t ELSE p
           jn == IF Again(p) THEN NewJob(p) ELSE Nothing
<1>1. /\ pane \in [Panes -> Views] /\ job \in [Panes -> Work \cup {Nothing}]
      /\ pane[k] \in Views /\ job[k] \in Work /\ WorkInv(pane[k], job[k])
  BY DEF FinishFetch, ImagesInv, ImagesTyped
<1>2. job[k].lease \in Offered /\ (job[k].live => job[k].lease = pane[k].desired)
  BY <1>1 DEF Work, WorkInv, FinishFetch
<1>3. q \in Views /\ q.desired = pane[k].desired /\ q.own = pane[k].own /\ q.public = job[k].lease
  BY <1>1, <1>2 DEF Views
<1>4. pane' = [pane EXCEPT ![k] = pn] /\ job' = [job EXCEPT ![k] = jn]
  BY DEF FinishFetch
<1> HIDE DEF q
<1>5. p \in Views /\ p.desired = pane[k].desired /\ p.own = pane[k].own /\ p.public \in {Nothing, p.desired}
  BY <1>1, <1>2, <1>3 DEF WorkInv
<1> HIDE DEF p
<1>6. t \in Views /\ t.desired = p.desired /\ t.own = p.own /\ t.public = p.public
  BY <1>5, PaneFields DEF Views
<1>7. NewJob(p) \in Work /\ NewJob(p).lease = p.desired
  BY <1>5, PaneFields DEF NewJob, Work
<1> HIDE DEF t
<1>8. pn \in Views /\ pn.desired = pane[k].desired /\ pn.own = pane[k].own /\ jn \in Work \cup {Nothing} /\ WorkInv(pn, jn)
  BY <1>5, <1>6, <1>7 DEF WorkInv
<1> HIDE DEF pn, jn
<1>9. pane' \in [Panes -> Views] /\ job' \in [Panes -> Work \cup {Nothing}]
  BY <1>1, <1>4, <1>8
<1>10. \A i \in Panes : pane'[i].desired = pane[i].desired /\ pane'[i].own = pane[i].own /\ WorkInv(pane'[i], job'[i])
  BY <1>1, <1>4, <1>8 DEF ImagesInv
<1>11. UNCHANGED <<screen, text, gate, latch, over>> /\ clock' \in 0..MaxTime
  BY DEF FinishFetch, ImagesInv, ImagesTyped
<1> QED
  BY <1>9, <1>10, <1>11, WorkersStep

LEMMA Ticked == ASSUME ImagesBounds, ImagesInv, NEW k \in Panes, Tick(k) PROVE ImagesInv' /\ NotProlonged
<1> DEFINE p == [pane[k] EXCEPT !.public = Nothing]
<1>1. pane \in [Panes -> Views] /\ pane[k] \in Views
  BY DEF ImagesInv, ImagesTyped
<1>2. p \in Views /\ p.desired = pane[k].desired /\ p.own = pane[k].own /\ p.public = Nothing
  BY <1>1 DEF Views, Offered
<1>3. pane' = [pane EXCEPT ![k] = p]
  BY DEF Tick
<1> HIDE DEF p
<1>4. pane' \in [Panes -> Views]
  BY <1>1, <1>2, <1>3
<1>5. \A i \in Panes : pane'[i].desired = pane[i].desired /\ pane'[i].own = pane[i].own /\ WorkInv(pane'[i], job'[i])
  BY <1>1, <1>2, <1>3 DEF ImagesInv, WorkInv, Tick
<1> QED
  BY <1>4, <1>5, WorkersStep DEF Tick, ImagesInv, ImagesTyped

LEMMA Rebound == ASSUME ImagesBounds, NothingIsApart, ImagesInv, Rebind PROVE ImagesInv' /\ NotProlonged
<1> DEFINE own(k) == pane[k].own /\ pane[k].desired = Nothing
           q(k)   == [pane[k] EXCEPT !.own = own(k)]
<1>1. /\ gate' = NoGate(Other) /\ latch' = NoLatch(Other) /\ pane' = [k \in Panes |-> q(k)]
      /\ UNCHANGED <<clock, screen, text, job>>
      /\ over'["text"] = over["text"] /\ over'["forecast"] = {} /\ over'["moment"] = {}
  BY DEF Rebind, Panes
<1>2. /\ ImagesTyped /\ TextHolds(text) /\ over["text"] \subseteq Past(text) /\ AwayInv
      /\ \A k \in Panes : WorkInv(pane[k], job[k]) /\ pane[k] \in Views
  BY DEF ImagesInv, ImagesTyped, HoldInv, OverInv
<1>3. NoGate(Other) \in Gates /\ NoLatch(Other) \in Latches
  BY DEF NoGate, NoLatch, Gates, Latches, Ctxs, Offered, ImagesBounds
<1>4. ASSUME NEW k \in Panes
      PROVE  /\ q(k) \in Views /\ q(k).own = own(k) /\ q(k).desired = pane[k].desired
             /\ q(k).public = pane[k].public
  <2>1. pane[k] \in Views /\ own(k) \in BOOLEAN
    BY <1>2, PaneFields
  <2> HIDE DEF own
  <2> QED
    BY <2>1 DEF Views
<1> HIDE DEF q
<1>5. pane' \in [Panes -> Views] /\ \A k \in Panes : Held(q(k)) = Nothing /\ pane'[k] = q(k)
  BY <1>1, <1>4 DEF Held
<1>6. ImagesTyped'
  BY <1>1, <1>2, <1>3, <1>5 DEF ImagesTyped
<1>7. HoldInv'
  BY <1>1, <1>2, <1>5 DEF HoldInv, GateHolds, LatchHolds, Panes
<1>8. OverInv' /\ OwnInv' /\ AwayInv'
  BY <1>1, <1>2 DEF OverInv, OwnInv, AwayInv, NoGate, NoLatch
<1>9. \A k \in Panes : WorkInv(pane'[k], job'[k])
  BY <1>1, <1>2, <1>4, <1>5 DEF WorkInv
<1>10. NotProlonged
  <2>1. ASSUME NEW k \in Panes
        PROVE  NotLonger(pane[k].desired, pane'[k].desired)
    BY <1>2, <1>4, <1>5, PaneFields, SameDeadline
  <2>2. text.val # Nothing => text.val.until \in Int
    BY <1>2 DEF ImagesTyped, Texts, Shown, Times
  <2> QED
    BY <1>1, <2>1, <2>2 DEF NotProlonged
<1> QED
  BY <1>6, <1>7, <1>8, <1>9, <1>10 DEF ImagesInv

LEMMA ImagesStarted == ASSUME ImagesBounds, NothingIsApart, ImagesInit PROVE ImagesInv
<1>1. text = NoText /\ gate = NoGate(0) /\ latch = NoLatch(0) /\ clock = 0
      /\ screen = [sid |-> 0, last |-> 0, imagery |-> Nothing, art |-> Nothing]
      /\ pane = [k \in Panes |-> [visible |-> FALSE, own |-> TRUE, desired |-> Nothing, public |-> Nothing, tried |-> Nothing]]
      /\ job = [k \in Panes |-> Nothing] /\ over = [k \in Panes \cup {"text"} |-> {}]
  BY DEF ImagesInit
<1>2. 0 \in 0..MaxSessions /\ 0 \in 0..MaxTime
  BY DEF ImagesBounds
<1>3. gate \in Gates /\ latch \in Latches
  BY <1>1, <1>2 DEF NoGate, NoLatch, Gates, Latches, Ctxs, Offered, ImagesBounds
<1>4. screen \in Screens
  BY <1>1, <1>2 DEF Screens
<1>5. pane \in [Panes -> Views] /\ \A k \in Panes : pane[k].own /\ pane[k].desired = Nothing /\ pane[k].public = Nothing
  BY <1>1 DEF Views, Offered
<1>6. ImagesTyped
  BY <1>1, <1>2, <1>3, <1>4, <1>5, NoTextHolds DEF ImagesTyped
<1>7. HoldInv
  BY <1>1, <1>5, NoTextHolds DEF HoldInv, Held, GateHolds, LatchHolds, Panes
<1>8. OverInv /\ AwayInv /\ OwnInv
  BY <1>1, <1>5 DEF OverInv, AwayInv, OwnInv, Panes
<1>9. \A k \in Panes : WorkInv(pane[k], job[k])
  BY <1>1, <1>5 DEF WorkInv
<1> QED
  BY <1>6, <1>7, <1>8, <1>9 DEF ImagesInv

LEMMA ImagesStepped == ASSUME ImagesBounds, NothingIsApart, ImagesInv, [ImagesNext]_images PROVE ImagesInv' /\ NotProlonged
<1>1. CASE UNCHANGED images
  BY <1>1, UntouchedStep DEF images, ImagesInv, ImagesTyped
<1>2. CASE Apply \/ InvalidateScreen \/ Rebind \/ Expire \/ Pass
  BY <1>2, Applied, Invalidated, Rebound, TimedOut, Passed
<1>3. ASSUME NEW k \in Panes, Toggle(k) \/ Fetcher(k) \/ Tick(k)
      PROVE  ImagesInv' /\ NotProlonged
  BY <1>3, Toggled, Fetched, FetchFinished, Ticked DEF Fetcher
<1> QED
  BY <1>1, <1>2, <1>3 DEF ImagesNext

\* What the receiver and the gates remember always covers what they withdrew, and every
\* lease on screen is made of what its gate remembers (receive, admit, _set_lease).
THEOREM ImagesInvariant == ImagesSpec => []ImagesInv
<1>1. ImagesInit => ImagesInv
  BY ImagesBounds, NothingIsApart, ImagesStarted
<1>2. ImagesInv /\ [ImagesNext]_images => ImagesInv'
  BY ImagesBounds, NothingIsApart, ImagesStepped
<1> QED
  BY <1>1, <1>2, PTL DEF ImagesSpec

\* At every moment a job that counts is for the lease in force, and the pixels on display
\* are those fetched for it (_set_lease, _start, _finish).
THEOREM ImagesTypeCorrect == ImagesSpec => []ImagesTypeOK
<1>1. ImagesInv => ImagesTypeOK
  <2> SUFFICES ASSUME ImagesInv
               PROVE  ImagesTypeOK
    OBVIOUS
  <2>1. /\ clock \in 0..MaxTime /\ screen.sid \in 0..MaxSessions
        /\ {gate.ctx, latch.ctx} \subseteq {Other} \cup 0..MaxSessions
    BY ScreenFields DEF ImagesInv, ImagesTyped, Gates, Latches, Ctxs
  <2>2. text.val # Nothing => text.val.rev = text.rev /\ text.rev > text.term
    BY DEF ImagesInv, HoldInv, TextHolds
  <2>3. ASSUME NEW k \in Panes
        PROVE  /\ {pane[k].desired, pane[k].public, pane[k].tried} \subseteq ImageLeases \cup {Nothing}
               /\ job[k] # Nothing /\ job[k].live => job[k].lease = pane[k].desired
               /\ pane[k].public \in {Nothing, pane[k].desired}
    <3>1. pane[k] \in Views /\ WorkInv(pane[k], job[k])
      BY DEF ImagesInv, ImagesTyped
    <3> QED
      BY <3>1, PaneFields DEF WorkInv, Offered
  <2> QED
    BY <2>1, <2>2, <2>3 DEF ImagesTypeOK
<1> QED
  BY <1>1, ImagesInvariant, PTL

\* What was on screen and was withdrawn, replaced or expired does not come back while the
\* Session stays, however many reads, revisions and Sessions there are (receive, admit).
THEOREM WithdrawnStaysWithdrawn == ImagesSpec => []GoneStaysGone
<1>1. ImagesInv => GoneStaysGone
  <2> SUFFICES ASSUME ImagesInv
               PROVE  GoneStaysGone
    OBVIOUS
  <2>1. text \in Texts /\ TextHolds(text) /\ over["text"] \subseteq Past(text)
        /\ over["forecast"] \subseteq Past(gate) /\ over["moment"] \subseteq latch.revoked
    BY DEF ImagesInv, ImagesTyped, HoldInv, OverInv
  <2>2. gate \in Gates /\ GateHolds(gate, screen.sid, Held(pane["forecast"]))
        /\ LatchHolds(latch, screen.sid, Held(pane["moment"])) /\ pane["forecast"].desired \in Offered
    BY PaneFields DEF ImagesInv, ImagesTyped, HoldInv, Panes
  <2>3. text.val # Nothing => text.val.rev \notin over["text"]
    <3>1. text.val # Nothing => text.val.rev = text.rev /\ text.rev > text.term
      BY <2>1 DEF TextHolds
    <3>2. text.rev \in 0..MaxRev /\ text.term \in 0..MaxRev
      BY <2>1 DEF Texts
    <3> QED
      BY <2>1, <3>1, <3>2, ImagesBounds DEF Past, ImagesBounds
  <2>4. pane["forecast"].desired # Nothing => pane["forecast"].desired.id \notin over["forecast"]
    <3> DEFINE d == pane["forecast"].desired
    <3>1. d # Nothing /\ pane["forecast"].own => d.id = gate.rev /\ gate.rev > gate.term
      BY <2>2, AdmittedId DEF GateHolds, Held
    <3>3. ~pane["forecast"].own => over["forecast"] = {}
      BY DEF ImagesInv, OwnInv
    <3>2. gate.rev \in 0..MaxRev /\ gate.term \in 0..MaxRev /\ MaxRev \in Nat
      BY <2>2, ImagesBounds, GateFields
    <3> HIDE DEF d
    <3> QED
      BY <2>1, <3>1, <3>2, <3>3 DEF Past, d
  <2>5. pane["moment"].desired # Nothing => pane["moment"].desired.id \notin over["moment"]
    BY <2>1, <2>2 DEF LatchHolds, Held, ImagesInv, OwnInv
  <2> QED
    BY <2>3, <2>4, <2>5 DEF GoneStaysGone, Panes
<1> QED
  BY <1>1, ImagesInvariant, PTL

\* No read, early or late, prolongs the text or a lease that is on screen already: in no
\* step does a deadline of the same Session grow (valid_until, floors).
THEOREM NothingProlonged == ImagesSpec => NeverProlonged
<1>1. ImagesInv /\ [ImagesNext]_images => NotProlonged
  BY ImagesBounds, NothingIsApart, ImagesStepped
<1>2. NotProlonged => /\ text.val # Nothing /\ text'.val # Nothing /\ text'.val.rev = text.val.rev /\ screen'.sid = screen.sid
                           => text'.val.until <= text.val.until
                      /\ \A k \in Panes :
                           pane[k].desired # Nothing /\ pane'[k].desired # Nothing /\ pane'[k].desired.id = pane[k].desired.id
                           /\ screen'.sid = screen.sid /\ pane[k].own => pane'[k].desired.deadline <= pane[k].desired.deadline
  BY DEF NotProlonged, NotLonger
<1> QED
  BY <1>1, <1>2, ImagesInvariant, PTL DEF ImagesSpec, NeverProlonged
=============================================================================
