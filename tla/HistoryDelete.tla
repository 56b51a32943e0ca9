--------------------------- MODULE HistoryDelete ---------------------------
(***************************************************************************)
(* Confirmed erasure of saved Sessions (session_history_delete_control.py, *)
(* session_history_delete.py), next to the fields of its owner, the        *)
(* SessionController, that decide whether a ticket is still valid.         *)
(*                                                                         *)
(* GUI thread: `own`, the owner's fields, and `ctl`, the control's.  One   *)
(* worker thread: `job`, one HTTP exchange or unguarded line per step.     *)
(* `done` is the queued signal ready.  Every slot of the owner ends in     *)
(* changed.emit, which runs the control's sync in the same step.  The      *)
(* binding changes under both, without a signal.                           *)
(***************************************************************************)
EXTENDS Naturals, FiniteSets

CONSTANTS
    Sids,          \* Session ids, positive
    Bindings,      \* device pairings and Profiles the UI may be bound to
    NoBinding,     \* not paired: SessionTransport.binding raises
    MaxOps,        \* bound on confirmations
    MaxSerial,     \* bound on launches of the control
    MaxEpoch,      \* bound on the owner's view epoch
    MaxNow         \* bound on the clock, in lifetimes of a view or a snapshot

ASSUME SidsAssumption == Sids \subseteq Nat \ {0}
ASSUME BindingAssumption == NoBinding \notin Bindings
ASSUME DeleteBounds == {MaxOps, MaxSerial, MaxEpoch, MaxNow} \subseteq Nat

VARIABLES own, ctl, job, done, core

vars == <<own, ctl, job, done, core>>

-----------------------------------------------------------------------------
(* Values *)

Kinds    == {"single", "bulk", "status"}
NoBasis  == [binding |-> NoBinding, epoch |-> 0, session |-> 0, sid |-> 0, until |-> 0]
Bases    == [binding : Bindings \cup {NoBinding}, epoch : Nat, session : Sids \cup {0},
             sid : Sids \cup {0}, until : Nat]

\* A launch: `serial` is its identity, `targets` what its confirmation covers, `until`
\* the deadline of what it read, `op` the operation it sends or asks about.
Requests == [serial : Nat, kind : Kinds, basis : Bases, send : BOOLEAN,
             op : Nat, targets : SUBSET Sids, until : Nat]
NoRequest == [serial |-> 0, kind |-> "single", basis |-> NoBasis, send |-> FALSE,
              op |-> 0, targets |-> {}, until |-> 0]

Attempts == [op : Nat, binding : Bindings \cup {NoBinding}, posted : BOOLEAN, until : Nat]
NoAttempt == [op |-> 0, binding |-> NoBinding, posted |-> FALSE, until |-> 0]

Steps    == {"none", "fresh", "ask", "claim", "mark", "post", "wait"}
Outcomes == {"none", "read", "deleted", "completed", "pending", "unknown", "denied",
             "context_changed", "uncertain", "refused"}
Jobs     == [req : Requests, step : Steps, posted : BOOLEAN]
Idle     == [req |-> NoRequest, step |-> "none", posted |-> FALSE]
Results  == [req : Requests, posted : BOOLEAN, outcome : Outcomes]
NoResult == [req |-> NoRequest, posted |-> FALSE, outcome |-> "none"]

Acts     == {"none", "list", "detail", "refresh", "end"}
NoLane   == [act |-> "none", epoch |-> 0, sid |-> 0, got |-> {}, answered |-> FALSE]
Lanes    == [act : Acts, epoch : Nat, sid : Sids \cup {0}, got : SUBSET Sids, answered : BOOLEAN]
NoDetail == [sid |-> 0, until |-> 0]

Owner    == [binding : Bindings \cup {NoBinding}, foreground : BOOLEAN, supported : BOOLEAN,
             epoch : Nat, session : Sids \cup {0}, list : SUBSET Sids,
             detail : [sid : Sids \cup {0}, until : Nat], lane : Lanes, now : Nat]

\* The control's fields.  The last five are history: operations confirmed so far, those
\* handed to the network, those whose removal the screen announced, how often the owner's
\* authority was withdrawn, and that number at the last confirmation.
Control  == [visible : BOOLEAN, request : Requests, confirmation : Requests, pending : Attempts,
             running : BOOLEAN, blocked : BOOLEAN, serial : Nat,
             recovery : Bases, last : Nat, sent : SUBSET Nat, reported : SUBSET Nat,
             withdrawals : Nat, grantedAt : Nat]

-----------------------------------------------------------------------------
(* Authority: basis, valid, sync, hide *)

\* The authority a ticket of this kind rests on now; NoBasis when there is none.
Base(o) == [NoBasis EXCEPT !.binding = o.binding, !.epoch = o.epoch, !.session = o.session]
Basis(c, o, kind) ==
    IF ~(c.visible /\ o.foreground /\ o.supported /\ o.binding # NoBinding /\ o.lane.act # "end")
    THEN NoBasis
    ELSE CASE kind = "status" -> IF c.pending.posted /\ c.pending.binding = o.binding
                                 THEN Base(o) ELSE NoBasis
           [] kind = "bulk"   -> IF o.detail.sid = 0 THEN Base(o) ELSE NoBasis
           [] kind = "single" -> IF /\ o.detail.sid \notin {0, o.session}
                                    /\ o.now < o.detail.until
                                 THEN [Base(o) EXCEPT !.sid = o.detail.sid, !.until = o.detail.until]
                                 ELSE NoBasis

Valid(c, o, r) ==
    /\ r.serial = c.request.serial /\ r.serial # 0
    /\ r.basis = Basis(c, o, r.kind) /\ r.basis # NoBasis
    /\ r.kind = "status" => r.op = c.pending.op
    /\ r.kind = "bulk" /\ r.until # 0 => o.now < r.until

Hide(c) == [c EXCEPT !.request = NoRequest, !.confirmation = NoRequest]

\* hide(reset=True)
Reset(c) == [Hide(c) EXCEPT !.pending = NoAttempt, !.blocked = FALSE, !.recovery = NoBasis,
                            !.withdrawals = @ + 1]

Sync(c, o) ==
    LET d == IF c.pending.op # 0 /\ (c.pending.binding # o.binding \/ o.binding = NoBinding)
             THEN Reset(c) ELSE c
    IN  IF d.request.serial # 0 /\ ~Valid(d, o, d.request) THEN Hide(d) ELSE d

IdleOwner(c, o) == ~c.running /\ o.lane.act = "none"

-----------------------------------------------------------------------------
(* What the owner does to its own fields *)

\* Mutant of InvalidateArchive: the detail survives the receipt.
InvalidateListOnly(o) == [o EXCEPT !.epoch = @ + 1, !.list = {}]
\* invalidateArchive: no cursor, detail, search or queued read survives a receipt.
InvalidateArchive(o) == [o EXCEPT !.epoch = @ + 1, !.list = {}, !.detail = NoDetail]

\* SessionController.invalidate
InvalidateOwner(o) == [InvalidateArchive(o) EXCEPT !.session = 0, !.supported = FALSE,
                                                   !.lane = NoLane]

\* _launch: nothing but End while the control's worker runs.
LaunchRead(c, o, act, sid) ==
    IF o.lane.act # "none" \/ c.running \/ ~o.foreground \/ o.binding = NoBinding THEN o
    ELSE [o EXCEPT !.lane = [NoLane EXCEPT !.act = act, !.epoch = o.epoch, !.sid = sid]]

-----------------------------------------------------------------------------
(* Slots of the control *)

Fresh == ctl.serial < MaxSerial

Start(c, r) ==
    /\ ctl' = [c EXCEPT !.serial = @ + 1, !.request = r, !.confirmation = NoRequest, !.running = TRUE]
    /\ job' = [Idle EXCEPT !.req = r, !.step = "fresh"]
    /\ UNCHANGED <<own, done, core>>

\* read, read_bulk: check what may be erased, before the user is asked to confirm.
BeginRead(kind) ==
    LET b == Basis(ctl, own, kind)
    IN  /\ Fresh /\ kind \in {"single", "bulk"}
        /\ b # NoBasis /\ IdleOwner(ctl, own) /\ ~ctl.blocked
        /\ Start(ctl, [NoRequest EXCEPT !.serial = ctl.serial + 1, !.kind = kind, !.basis = b])

\* confirm: one operation identity, one send ticket, and the gate is closed.
Confirm ==
    LET r == ctl.confirmation
        n == ctl.last + 1
    IN  /\ Fresh /\ n <= MaxOps
        /\ r.serial # 0 /\ IdleOwner(ctl, own) /\ ~ctl.blocked /\ Valid(ctl, own, r)
        /\ IF r.targets = {} THEN ctl' = Sync(Hide(ctl), own) /\ UNCHANGED <<own, job, done, core>>
           ELSE Start([ctl EXCEPT !.blocked = TRUE, !.last = n, !.grantedAt = ctl.withdrawals,
                                  !.pending = [op |-> n, binding |-> r.basis.binding,
                                               posted |-> FALSE, until |-> own.now + 1]],
                      [r EXCEPT !.serial = ctl.serial + 1, !.send = TRUE, !.op = n])

\* read_status: asks about the original operation only.
ReadStatus ==
    LET b == Basis(ctl, own, "status")
    IN  /\ Fresh /\ b # NoBasis /\ IdleOwner(ctl, own) /\ ctl.blocked
        /\ Start(ctl, [NoRequest EXCEPT !.serial = ctl.serial + 1, !.kind = "status",
                                        !.basis = b, !.op = ctl.pending.op])

\* Mutant of Recovered: an independent reload of the archive settles the old operation.
RecoveredSettled(c) == [Hide(c) EXCEPT !.pending = NoAttempt, !.blocked = FALSE]
\* recover: an independent archive reload cannot settle an ambiguous old POST.
Recovered(c) == [Hide(c) EXCEPT !.pending = IF c.pending.posted THEN @ ELSE NoAttempt,
                                !.blocked = c.pending.posted]
Recover ==
    LET o == InvalidateArchive(own)
    IN  /\ own.epoch < MaxEpoch
        /\ ctl.visible /\ own.foreground /\ IdleOwner(ctl, own) /\ own.binding # NoBinding
        /\ ctl.recovery = NoBasis
        /\ own' = o
        /\ ctl' = [Sync(Recovered(ctl), o) EXCEPT !.recovery = [Base(own) EXCEPT !.epoch = 0]]
        /\ UNCHANGED <<job, done, core>>

\* The zero-delay timer's single read of the archive.
ReadRecovery ==
    LET c == [ctl EXCEPT !.recovery = NoBasis]
        o == IF /\ ctl.recovery.binding = own.binding /\ ctl.visible /\ own.foreground
                /\ IdleOwner(ctl, own) /\ own.detail = NoDetail /\ ctl.recovery.session = own.session
             THEN LaunchRead(c, own, "list", 0) ELSE own
    IN  /\ ctl.recovery # NoBasis
        /\ own' = o /\ ctl' = Sync(c, o) /\ UNCHANGED <<job, done, core>>

\* cancelHistoryDelete and setArchiveDeleteVisible; changed follows later, as a ReadState.
Cancel == ctl' = Hide(ctl) /\ UNCHANGED <<own, job, done, core>>
SetVisible ==
    LET c == [ctl EXCEPT !.visible = ~@]
    IN  /\ ctl' = IF c.visible THEN c ELSE [Hide(c) EXCEPT !.recovery = NoBasis]
        /\ UNCHANGED <<own, job, done, core>>

\* snapshot, whenever QML reads the state, and the zero-delay notification of changed
ReadState == ctl' = Sync(ctl, own) /\ UNCHANGED <<own, job, done, core>>

-----------------------------------------------------------------------------
(* The worker *)

\* Mutant of Publish: an ambiguous outcome is not delivered.
PublishCertain(outcome) ==
    /\ job' = Idle
    /\ done' = IF outcome = "uncertain" THEN done
               ELSE [req |-> job.req, posted |-> job.posted, outcome |-> outcome]
\* _publish
Publish(outcome) ==
    /\ job' = Idle
    /\ done' = [req |-> job.req, posted |-> job.posted, outcome |-> outcome]
Step(s) == job' = [job EXCEPT !.step = s] /\ UNCHANGED done
StillValid == Valid(ctl, own, job.req)

\* _fresh: the active Session, the capabilities and the target are read again, each
\* under the ticket; taken here at one instant.
FreshRead ==
    LET r == job.req
    IN  /\ job.step = "fresh"
        /\ \/ ~StillValid /\ Publish("context_changed")
           \/ StillValid /\ \E e \in {"refused", "denied"} : Publish(e)
           \/ StillValid /\ core.live # r.basis.session /\ Publish("context_changed")
           \/ StillValid /\ core.live = r.basis.session
              /\ CASE r.kind = "status" -> Step("ask")
                   [] r.kind = "single" /\ r.basis.sid \notin core.saved -> Publish("refused")
                   [] OTHER ->
                      IF r.send THEN Step("claim")
                      ELSE /\ job' = Idle
                           /\ done' = [req |-> [r EXCEPT
                                         !.targets = IF r.kind = "bulk" THEN core.saved ELSE {r.basis.sid},
                                         !.until = IF r.kind = "bulk" THEN own.now + 1 ELSE r.basis.until],
                                       posted |-> FALSE, outcome |-> "read"]
        /\ UNCHANGED <<own, ctl, core>>

\* history_delete_status, admitted only within the operation's own lifetime.
AskStatus ==
    LET state == core.op[job.req.op]
    IN  /\ job.step = "ask"
        /\ \/ \E e \in {"uncertain", "denied"} : Publish(e)
           \/ ~StillValid /\ Publish("context_changed")
           \/ StillValid /\ state = "done"
              /\ Publish(IF own.now < ctl.pending.until THEN "completed" ELSE "uncertain")
           \/ StillValid /\ state # "done" /\ \E s \in {"pending", "unknown"} : Publish(s)
        /\ UNCHANGED <<own, ctl, core>>

\* claim burns the send ticket; the mark follows with nothing in between but another
\* thread, and started HTTP is never recalled.
Claim ==
    /\ job.step = "claim"
    /\ \/ ~StillValid /\ Publish("context_changed")
       \/ StillValid /\ own.now >= job.req.until /\ Publish("refused")
       \/ StillValid /\ own.now < job.req.until /\ Step("mark")
    /\ UNCHANGED <<own, ctl, core>>
Mark ==
    /\ job.step = "mark"
    /\ job' = [job EXCEPT !.step = "post", !.posted = TRUE]
    /\ ctl' = [ctl EXCEPT !.pending.posted = @ \/ ctl.pending.op = job.req.op,
                          !.sent = @ \cup {job.req.op}]
    /\ UNCHANGED <<own, done, core>>

\* delete_history, delete_all_history: fenced by the binding before and after.
Bound == job.req.basis.binding = own.binding
Post ==
    /\ job.step = "post"
    /\ \/ ~Bound /\ Publish("context_changed") /\ UNCHANGED core
       \/ Bound /\ Step("wait")
          /\ core' = [core EXCEPT !.op[job.req.op] = "sent", !.target[job.req.op] = job.req.targets]
    /\ UNCHANGED <<own, ctl>>
Receive ==
    LET state == core.op[job.req.op]
    IN  /\ job.step = "wait"
        /\ \/ ~Bound /\ Publish("context_changed")
           \/ Bound /\ Publish("uncertain")
           \/ Bound /\ state = "refused" /\ \E e \in {"refused", "denied"} : Publish(e)
           \/ Bound /\ state = "done" /\ Publish(IF StillValid THEN "deleted" ELSE "context_changed")
        /\ UNCHANGED <<own, ctl, core>>

Work == FreshRead \/ AskStatus \/ Claim \/ Mark \/ Post \/ Receive

-----------------------------------------------------------------------------
(* finish: the queued result on the GUI thread *)

Failing(c, r) ==
    LET b == r.posted /\ r.outcome \in {"uncertain", "context_changed"}
    IN  [c EXCEPT !.request = NoRequest, !.confirmation = NoRequest, !.blocked = b,
                  !.pending = IF b THEN @ ELSE NoAttempt]

\* [own, ctl]: owner and control after a result.
Finished(o, c0, r) ==
    LET c == [c0 EXCEPT !.running = FALSE]
        erased == InvalidateArchive(o)
        withdrawn == InvalidateOwner(o)
        keep(d) == [own |-> o, ctl |-> d]
    IN  CASE ~Valid(c, o, r.req) ->
               keep(IF r.posted /\ r.req.basis.binding = o.binding THEN [c EXCEPT !.blocked = TRUE] ELSE c)
          [] Valid(c, o, r.req) /\ r.outcome = "denied" -> [own |-> withdrawn, ctl |-> Reset(c)]
          [] OTHER ->
             IF r.req.kind = "status" /\ r.outcome # "completed"
             THEN keep([Hide(c) EXCEPT !.blocked = TRUE])
             ELSE IF r.outcome \in {"deleted", "completed"}
             THEN [own |-> LaunchRead(c, erased, "refresh", 0),
                   ctl |-> [Hide(c) EXCEPT !.blocked = FALSE, !.pending = NoAttempt,
                                           !.reported = @ \cup {r.req.op}]]
             ELSE IF r.outcome # "read" THEN keep(Failing(c, r))
             ELSE keep([c EXCEPT !.request = r.req, !.confirmation = r.req])

Finish ==
    LET F == Finished(own, ctl, done)
    IN  /\ done # NoResult
        /\ done' = NoResult
        /\ own' = F.own /\ ctl' = Sync(F.ctl, F.own)
        /\ UNCHANGED <<job, core>>

-----------------------------------------------------------------------------
(* The owner's slots, each ending in changed.emit, and the world *)

Show(o) == own' = o /\ ctl' = Sync(ctl, o) /\ UNCHANGED <<job, done, core>>
NextView(o) == [o EXCEPT !.epoch = @ + 1]
Viewable == own.epoch < MaxEpoch

LoadList == own.supported /\ Show(LaunchRead(ctl, own, "list", 0))
Refresh  == Show(LaunchRead(ctl, own, "refresh", 0))
OpenSaved(sid) == /\ Viewable /\ sid \in own.list /\ own.supported /\ own.lane.act = "none"
                  /\ Show(LaunchRead(ctl, NextView(own), "detail", sid))
CloseSaved == Viewable /\ Show([NextView(own) EXCEPT !.detail = NoDetail])
End == /\ own.session # 0 /\ own.lane.act # "end" /\ own.foreground /\ own.binding # NoBinding
       /\ Show([own EXCEPT !.lane = [NoLane EXCEPT !.act = "end", !.epoch = own.epoch]])
SetForeground ==
    LET o == [InvalidateOwner(own) EXCEPT !.foreground = ~@]
        f == LaunchRead(ctl, o, "refresh", 0)
    IN  /\ Viewable
        /\ own' = f /\ ctl' = Sync(Reset(ctl), f) /\ UNCHANGED <<job, done, core>>

\* The owner's Session worker: one exchange, answered as Core is at that moment ...
Answer ==
    LET ended == [core EXCEPT !.saved = @ \cup {core.live}, !.live = 0]
    IN  /\ own.lane.act # "none" /\ ~own.lane.answered
        /\ core' = IF own.lane.act = "end" /\ core.live # 0 THEN ended ELSE core
        /\ own' = [own EXCEPT !.lane.answered = TRUE,
                              !.lane.got = IF own.lane.act = "list" THEN core.saved
                                           ELSE IF own.lane.act = "detail" THEN core.saved \cap {own.lane.sid}
                                           ELSE {core'.live} \ {0}]
        /\ UNCHANGED <<ctl, job, done>>
\* ... and applied to the view it was asked for.
Deliver ==
    LET l == own.lane
        o == [own EXCEPT !.lane = NoLane]
        newer == l.epoch = own.epoch
    IN  /\ l.answered
        /\ Show(CASE l.act = "list"   -> IF newer THEN [o EXCEPT !.list = l.got] ELSE o
                  [] l.act = "detail" -> IF newer /\ l.got # {}
                                         THEN [o EXCEPT !.detail = [sid |-> l.sid, until |-> own.now + 1]]
                                         ELSE o
                  [] OTHER -> [o EXCEPT !.supported = TRUE,
                                        !.session = IF l.got = {} THEN 0 ELSE CHOOSE s \in l.got : TRUE])

\* The deadline timer drops a detail that expired; the clock runs.
Expire == /\ own.detail.sid # 0 /\ own.now >= own.detail.until
          /\ Show([own EXCEPT !.detail = NoDetail])
Tick == own.now < MaxNow /\ own' = [own EXCEPT !.now = @ + 1] /\ UNCHANGED <<ctl, job, done, core>>

\* A worker resolves another Profile, or a pairing is read from disk: no signal.
Rebind(b) == b # own.binding /\ own' = [own EXCEPT !.binding = b] /\ UNCHANGED <<ctl, job, done, core>>

\* Core, in its own time.
Execute(o) == /\ core.op[o] = "sent"
              /\ core' = [core EXCEPT !.op[o] = "done", !.saved = @ \ core.target[o]]
              /\ UNCHANGED <<own, ctl, job, done>>
Refuse(o)  == /\ core.op[o] = "sent"
              /\ core' = [core EXCEPT !.op[o] = "refused"]
              /\ UNCHANGED <<own, ctl, job, done>>

-----------------------------------------------------------------------------

Init ==
    /\ \E b \in Bindings :
          own = [binding |-> b, foreground |-> TRUE, supported |-> FALSE, epoch |-> 0, session |-> 0,
                 list |-> {}, detail |-> NoDetail, lane |-> NoLane, now |-> 0]
    /\ ctl = [visible |-> FALSE, request |-> NoRequest, confirmation |-> NoRequest,
              pending |-> NoAttempt, running |-> FALSE, blocked |-> FALSE, serial |-> 0,
              recovery |-> NoBasis, last |-> 0, sent |-> {}, reported |-> {}, withdrawals |-> 0, grantedAt |-> 0]
    /\ job = Idle /\ done = NoResult
    /\ \E live \in Sids \cup {0} :
          core = [live |-> live, saved |-> Sids \ {live}, op |-> [o \in 1..MaxOps |-> "none"],
                  target |-> [o \in 1..MaxOps |-> {}]]

Slot == \/ BeginRead("single") \/ BeginRead("bulk") \/ Confirm \/ ReadStatus \/ Recover
        \/ ReadRecovery \/ Cancel \/ SetVisible \/ ReadState
OwnerSlot == \/ LoadList \/ Refresh \/ (\E s \in Sids : OpenSaved(s)) \/ CloseSaved \/ End
             \/ SetForeground \/ Answer \/ Deliver \/ Expire \/ Tick
             \/ \E b \in Bindings \cup {NoBinding} : Rebind(b)
Next == Slot \/ Finish \/ Work \/ OwnerSlot \/ \E o \in 1..MaxOps : Execute(o) \/ Refuse(o)

Spec == Init /\ [][Next]_vars

-----------------------------------------------------------------------------
(* Properties *)

\* Every field has its type, and the control is running exactly while a launch of it is
\* with the worker or in the queue (_launch, _publish, finish).
TypeOK == /\ own \in Owner /\ ctl \in Control /\ job \in Jobs /\ done \in Results
          /\ core.live \in Sids \cup {0} /\ core.saved \subseteq Sids
          /\ (job # Idle \/ done # NoResult) = ctl.running

\* Confirmed erasure keeps its promise: the gate is held while an operation is
\* unresolved or its worker is still at it (confirm, finish, recover, hide).
Ops == 1..MaxOps
Sending(o) == \/ job.req.op = o /\ job.req.send
              \/ done.req.op = o /\ done.req.send
Promise == INSTANCE ErasurePromise WITH
    last        <- ctl.last,
    sent        <- ctl.sent,
    erased      <- {o \in Ops : core.op[o] = "done"},
    void        <- {o \in Ops : \/ core.op[o] = "refused"
                                \/ o <= ctl.last /\ o \notin ctl.sent /\ ~(job.req.op = o /\ job.req.send)},
    reported    <- ctl.reported,
    held        <- ctl.blocked \/ \E o \in Ops : Sending(o),
    withdrawals <- ctl.withdrawals,
    grantedAt   <- ctl.grantedAt
KeepsPromise == Promise!PromiseSpec

\* After the screen announced an erasure, nothing erased is listed or opened again:
\* no page read before it comes back (finish, invalidateArchive).
ErasedNotShown == \A o \in ctl.reported :
                     core.target[o] \cap (own.list \cup {own.detail.sid}) = {}
=============================================================================
