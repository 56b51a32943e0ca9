------------------------- MODULE HistoryDeleteProofs -------------------------
(***************************************************************************)
(* Proofs about HistoryDelete: for any Sessions, bindings and bounds, the  *)
(* control keeps the promise of ErasurePromise, runs exactly while a       *)
(* launch of it is under way, and never shows again what it reported as    *)
(* erased.                                                                 *)
(***************************************************************************)
EXTENDS HistoryDelete, TLAPS

-----------------------------------------------------------------------------
(* The inductive invariant, part by part *)

States    == {"none", "sent", "done", "refused"}
Cores     == [live : Sids \cup {0}, saved : SUBSET Sids, op : [Ops -> States], target : [Ops -> SUBSET Sids]]
Typed     == own \in Owner /\ ctl \in Control /\ job \in Jobs /\ done \in Results /\ core \in Cores

\* At most one launch is under way, with the worker or in the queue, and `running` says so.
FlightInv ==
    /\ job.step = "none" => job = Idle
    /\ done.outcome = "none" => done = NoResult
    /\ job.step = "none" \/ done.outcome = "none"
    /\ ctl.running => job.step # "none" \/ done.outcome # "none"
    /\ job.step # "none" \/ done.outcome # "none" => ctl.running

\* A launch that sends is the last operation granted, and unless the authority was
\* withdrawn since, the control still waits for it.
Sends(r) == r.send => /\ r.op = ctl.last /\ r.op \in Ops /\ r.kind # "status"
                      /\ ctl.withdrawals = ctl.grantedAt => ctl.pending.op = ctl.last
StakeInv == /\ Sends(job.req) /\ Sends(done.req) /\ ctl.confirmation.kind # "status"
            /\ job.step # "none" /\ ~job.req.send /\ job.req.kind # "status" => ~ctl.blocked
            /\ done.outcome # "none" /\ ~done.req.send /\ done.req.kind # "status" => ~ctl.blocked

\* The attempt the control waits for is the last one, keeps the gate closed, and is known
\* to be posted exactly if it was sent.
Attempt(c) ==
    /\ c.last \in 0..MaxOps /\ c.sent \subseteq 1..c.last /\ c.grantedAt <= c.withdrawals
    /\ c.pending.op # 0 => /\ c.pending.op = c.last /\ c.blocked
                           /\ c.pending.posted => c.last \in c.sent
                           /\ c.last \in c.sent => c.pending.posted
    /\ c.pending.op = 0 => ~c.pending.posted
    /\ c.blocked /\ c.pending.op = 0 => c.withdrawals # c.grantedAt
AttemptInv == Attempt(ctl)

\* Where the worker is tells what it sent.
WorkerInv ==
    /\ job.step \in {"claim", "mark", "post", "wait"} => job.req.send
    /\ job.step \in {"post", "wait"} => ctl.last \in ctl.sent /\ job.posted
    /\ job.step \notin {"post", "wait"} => (job.req.send => ctl.last \notin ctl.sent) /\ ~job.posted
    /\ job.step = "ask" => job.req.kind = "status"
    /\ job.step = "post" => core.op[ctl.last] = "none"
    /\ job.req.kind = "status" => job.req.op \in Ops /\ ~job.req.send

\* What a result may say, given what was sent and what Core did.
ResultInv ==
    /\ done.posted => done.req.send /\ ctl.last \in ctl.sent
    /\ done.req.send /\ ~done.posted => ctl.last \notin ctl.sent
    /\ done.req.send => done.outcome \in {"deleted", "denied", "context_changed", "uncertain", "refused"}
    /\ done.req.kind # "status" => done.outcome \notin {"completed", "pending", "unknown"}
    /\ done.outcome = "read" => done.req.kind # "status"
    /\ done.outcome = "deleted" => done.req.send /\ core.op[ctl.last] = "done"
    /\ done.outcome = "completed" => done.req.op \in Ops /\ core.op[done.req.op] = "done"
    /\ done.outcome = "refused" /\ done.posted => core.op[ctl.last] = "refused"

\* Core knows only what was sent, and what was reported it did.
CoreInv == /\ \A o \in Ops : o \notin ctl.sent => core.op[o] = "none"
           /\ ctl.reported \subseteq {o \in Ops : core.op[o] = "done"}

\* A Session that is live was never among what may be erased, what was erased is not saved,
\* and an answer that may still be shown was given after every erasure reported.
Erasable(s) == \/ s \in core.saved \/ s \in job.req.targets \/ s \in done.req.targets
               \/ s \in ctl.confirmation.targets \/ \E o \in Ops : s \in core.target[o]
Screen(o, reported, target) ==
    /\ o.lane.epoch <= o.epoch
    /\ o.lane.answered /\ o.lane.act = "detail" => o.lane.got \subseteq {o.lane.sid}
    /\ o.lane.answered /\ o.lane.epoch = o.epoch /\ o.lane.act \in {"list", "detail"} =>
          \A p \in reported : target[p] \cap o.lane.got = {}
    /\ \A p \in reported : target[p] \cap (o.list \cup {o.detail.sid}) = {}
GoneInv ==
    /\ ~Erasable(core.live)
    /\ \A o \in Ops : core.op[o] = "done" => core.target[o] \cap core.saved = {}
    /\ Screen(own, ctl.reported, core.target)

ControlInv == Typed /\ FlightInv /\ StakeInv /\ AttemptInv /\ WorkerInv /\ ResultInv /\ CoreInv

-----------------------------------------------------------------------------
(* Values, and what the shared handlers return *)

LEMMA NothingTyped ==
    /\ NoBasis \in Bases /\ NoRequest \in Requests /\ NoAttempt \in Attempts /\ Idle \in Jobs
    /\ NoResult \in Results /\ NoLane \in Lanes
    /\ ~NoRequest.send /\ NoRequest.kind = "single" /\ NoRequest.targets = {} /\ NoRequest.op = 0
<1>1. NoBasis \in Bases
  BY DEF NoBasis, Bases
<1>2. NoRequest \in Requests
  BY <1>1 DEF NoRequest, Requests, Kinds
<1>3. NoAttempt \in Attempts /\ NoLane \in Lanes
  BY DEF NoAttempt, Attempts, NoLane, Lanes, Acts
<1>4. Idle \in Jobs /\ NoResult \in Results
  BY <1>2 DEF Idle, Jobs, NoResult, Results, Steps, Outcomes
<1>5. ~NoRequest.send /\ NoRequest.kind = "single" /\ NoRequest.targets = {} /\ NoRequest.op = 0
  BY DEF NoRequest
<1>. QED
  BY <1>1, <1>2, <1>3, <1>4, <1>5

LEMMA BasisTyped ==
    ASSUME NEW c \in Control, NEW o \in Owner, NEW kind \in Kinds
    PROVE  /\ Basis(c, o, kind) \in Bases
           /\ kind = "status" /\ Basis(c, o, kind) # NoBasis =>
                 c.pending.posted /\ c.pending.binding = o.binding /\ o.binding # NoBinding
<1>1. Base(o) \in Bases
  BY DEF Base, NoBasis, Bases, Owner
<1>2. [Base(o) EXCEPT !.sid = o.detail.sid, !.until = o.detail.until] \in Bases
  BY <1>1 DEF Bases, Owner
<1>3. kind \in {"single", "bulk", "status"}
  BY DEF Kinds
<1>4. Basis(c, o, kind) \in Bases
  BY <1>1, <1>2, <1>3, NothingTyped DEF Basis
<1>5. CASE kind = "status"
  BY <1>4, <1>5 DEF Basis
<1>. QED
  BY <1>4, <1>5

LEMMA HideFacts ==
    ASSUME NEW c \in Control
    PROVE  /\ Hide(c) \in Control
           /\ Hide(c).request = NoRequest /\ Hide(c).confirmation = NoRequest
           /\ Hide(c).pending = c.pending /\ Hide(c).blocked = c.blocked /\ Hide(c).running = c.running
           /\ Hide(c).last = c.last /\ Hide(c).sent = c.sent /\ Hide(c).reported = c.reported
           /\ Hide(c).withdrawals = c.withdrawals /\ Hide(c).grantedAt = c.grantedAt
BY NothingTyped DEF Hide, Control

\* What hiding, resetting and synchronising leave of the control.
Quieter(c, d) ==
    /\ d \in Control
    /\ d.last = c.last /\ d.sent = c.sent /\ d.reported = c.reported /\ d.grantedAt = c.grantedAt
    /\ d.running = c.running /\ d.confirmation \in {c.confirmation, NoRequest}
    /\ \/ d.blocked = c.blocked /\ d.pending = c.pending /\ d.withdrawals = c.withdrawals
       \/ d.blocked = FALSE /\ d.pending = NoAttempt /\ d.withdrawals = c.withdrawals + 1

LEMMA ResetFacts ==
    ASSUME NEW c \in Control
    PROVE  /\ Quieter(c, Reset(c)) /\ Reset(c).blocked = FALSE /\ Reset(c).pending = NoAttempt
           /\ Reset(c).withdrawals = c.withdrawals + 1
<1>. DEFINE h == Hide(c)
<1>1. h \in Control /\ c.withdrawals + 1 \in Nat /\ h.withdrawals = c.withdrawals
  BY HideFacts DEF Control
<1>2. Reset(c) = [h EXCEPT !.pending = NoAttempt, !.blocked = FALSE, !.recovery = NoBasis,
                           !.withdrawals = h.withdrawals + 1]
  BY DEF Reset
<1>3. /\ h.confirmation = NoRequest /\ h.running = c.running /\ h.last = c.last /\ h.sent = c.sent
      /\ h.reported = c.reported /\ h.grantedAt = c.grantedAt
  BY HideFacts
<1>. HIDE DEF h
<1>4. Reset(c) \in Control
  <2>1. NoAttempt \in Attempts /\ NoBasis \in Bases /\ FALSE \in BOOLEAN /\ h.withdrawals + 1 \in Nat
    BY <1>1, NothingTyped
  <2>. QED
    BY <1>1, <1>2, <2>1, Zenon DEF Control
<1>5. /\ Reset(c).confirmation = h.confirmation /\ Reset(c).running = h.running /\ Reset(c).last = h.last
      /\ Reset(c).sent = h.sent /\ Reset(c).reported = h.reported /\ Reset(c).grantedAt = h.grantedAt
      /\ Reset(c).blocked = FALSE /\ Reset(c).pending = NoAttempt
      /\ Reset(c).withdrawals = h.withdrawals + 1
  BY <1>1, <1>2 DEF Control
<1>. QED
  BY <1>1, <1>3, <1>4, <1>5 DEF Quieter

LEMMA SyncFacts ==
    ASSUME NEW c \in Control, NEW o
    PROVE  /\ Quieter(c, Sync(c, o))
           /\ c.pending.op = 0 \/ (c.pending.binding = o.binding /\ o.binding # NoBinding) =>
                 /\ Sync(c, o).blocked = c.blocked /\ Sync(c, o).pending = c.pending
                 /\ Sync(c, o).withdrawals = c.withdrawals
<1>. DEFINE lost == c.pending.op # 0 /\ (c.pending.binding # o.binding \/ o.binding = NoBinding)
            d == IF lost THEN Reset(c) ELSE c
<1>1. Quieter(c, d) /\ (~lost => d = c)
  BY ResetFacts DEF Quieter
<1>2. Sync(c, o) \in {d, Hide(d)}
  BY DEF Sync
<1>. HIDE DEF d, lost
<1>3. d \in Control
  BY <1>1 DEF Quieter
<1>4. Quieter(c, Sync(c, o))
  BY <1>1, <1>2, <1>3, HideFacts DEF Quieter
<1>5. ~lost => /\ Sync(c, o).blocked = c.blocked /\ Sync(c, o).pending = c.pending
               /\ Sync(c, o).withdrawals = c.withdrawals
  BY <1>1, <1>2, <1>3, HideFacts
<1>. QED
  BY <1>4, <1>5 DEF lost

\* What the owner's own steps return.
LEMMA OwnerFacts ==
    ASSUME NEW o \in Owner
    PROVE  /\ InvalidateArchive(o) \in Owner /\ InvalidateArchive(o).list = {}
           /\ InvalidateArchive(o).detail = NoDetail /\ InvalidateArchive(o).epoch = o.epoch + 1
           /\ InvalidateArchive(o).lane = o.lane /\ InvalidateArchive(o).binding = o.binding
           /\ InvalidateOwner(o) \in Owner /\ InvalidateOwner(o).list = {}
           /\ InvalidateOwner(o).detail = NoDetail /\ InvalidateOwner(o).epoch = o.epoch + 1
           /\ InvalidateOwner(o).lane = NoLane
<1>1. o.epoch + 1 \in Nat /\ NoDetail \in [sid : Sids \cup {0}, until : Nat]
  BY DEF Owner, NoDetail
<1>2. /\ InvalidateArchive(o) \in Owner /\ InvalidateArchive(o).list = {}
      /\ InvalidateArchive(o).detail = NoDetail /\ InvalidateArchive(o).epoch = o.epoch + 1
      /\ InvalidateArchive(o).lane = o.lane /\ InvalidateArchive(o).binding = o.binding
  BY <1>1 DEF InvalidateArchive, Owner
<1>. QED
  BY <1>2, NothingTyped DEF InvalidateOwner, Owner

LEMMA LaunchFacts ==
    ASSUME NEW c, NEW o \in Owner, NEW act \in Acts, NEW sid \in Sids \cup {0}
    PROVE  LET l == LaunchRead(c, o, act, sid)
           IN  /\ l \in Owner /\ l.list = o.list /\ l.detail = o.detail /\ l.epoch = o.epoch
               /\ l.lane = o.lane \/ (l.lane.answered = FALSE /\ l.lane.epoch = o.epoch)
<1>. DEFINE n == [NoLane EXCEPT !.act = act, !.epoch = o.epoch, !.sid = sid]
<1>1. n \in Lanes /\ n.answered = FALSE /\ n.epoch = o.epoch
  BY NothingTyped DEF NoLane, Lanes, Owner
<1>2. LaunchRead(c, o, act, sid) \in {o, [o EXCEPT !.lane = n]}
  BY DEF LaunchRead
<1>. HIDE DEF n
<1>. QED
  BY <1>1, <1>2 DEF Owner

-----------------------------------------------------------------------------
(* Every step keeps the invariant of the control *)

LEMMA ControlInit == Init => ControlInv
<1>. SUFFICES ASSUME Init PROVE ControlInv
  OBVIOUS
<1>1. own \in Owner
  BY NothingTyped DEF Init, Owner, NoDetail
<1>2. ctl \in Control
  <2>1. FALSE \in BOOLEAN /\ 0 \in Nat /\ {} \in SUBSET Nat
    OBVIOUS
  <2>. QED
    BY <2>1, NothingTyped, Zenon DEF Init, Control
<1>3. job \in Jobs /\ done \in Results
  BY NothingTyped DEF Init
<1>4. core \in Cores
  BY DEF Init, Cores, States, Ops
<1>5. FlightInv /\ StakeInv
  BY NothingTyped DEF Init, FlightInv, StakeInv, Sends, Idle, NoResult
<1>6. AttemptInv
  BY DeleteBounds DEF Init, AttemptInv, Attempt, NoAttempt
<1>7. WorkerInv /\ ResultInv
  BY NothingTyped DEF Init, WorkerInv, ResultInv, Idle, NoResult
<1>8. CoreInv
  BY DEF Init, CoreInv, Ops
<1>. QED
  BY <1>1, <1>2, <1>3, <1>4, <1>5, <1>6, <1>7, <1>8 DEF ControlInv, Typed

LEMMA AttemptQuiet ==
    ASSUME NEW c \in Control, NEW d, Quieter(c, d), Attempt(c)
    PROVE  Attempt(d)
<1>1. c.withdrawals \in Nat /\ c.grantedAt \in Nat /\ c.grantedAt <= c.withdrawals
  BY DEF Attempt, Control
<1>2. CASE d.blocked = c.blocked /\ d.pending = c.pending /\ d.withdrawals = c.withdrawals
  BY <1>2 DEF Attempt, Quieter
<1>3. CASE d.blocked = FALSE /\ d.pending = NoAttempt /\ d.withdrawals = c.withdrawals + 1
  BY <1>1, <1>3 DEF Attempt, Quieter, NoAttempt
<1>. QED
  BY <1>2, <1>3 DEF Quieter

\* A step that at most hides or resets the control.
LEMMA QuietKeeps ==
    ASSUME ControlInv, own' \in Owner, core' \in Cores, core'.op = core.op,
           UNCHANGED <<job, done>>, Quieter(ctl, ctl')
    PROVE  ControlInv'
<1>1. /\ ctl' \in Control
      /\ ctl'.last = ctl.last /\ ctl'.sent = ctl.sent /\ ctl'.reported = ctl.reported
      /\ ctl'.grantedAt = ctl.grantedAt /\ ctl'.running = ctl.running
      /\ ctl'.confirmation \in {ctl.confirmation, NoRequest}
  BY DEF Quieter
<1>2. \/ ctl'.blocked = ctl.blocked /\ ctl'.pending = ctl.pending /\ ctl'.withdrawals = ctl.withdrawals
      \/ ctl'.blocked = FALSE /\ ctl'.pending = NoAttempt /\ ctl'.withdrawals = ctl.withdrawals + 1
  BY DEF Quieter
<1>3. ctl.withdrawals \in Nat /\ ctl.grantedAt \in Nat /\ ctl.grantedAt <= ctl.withdrawals
  BY DEF ControlInv, Typed, Control, AttemptInv, Attempt
<1>4. Typed' /\ FlightInv'
  BY <1>1 DEF ControlInv, Typed, FlightInv
<1>5. ctl'.withdrawals = ctl'.grantedAt =>
          ctl'.blocked = ctl.blocked /\ ctl'.pending = ctl.pending /\ ctl'.withdrawals = ctl.withdrawals
  BY <1>1, <1>2, <1>3
<1>6. ctl'.blocked => ctl.blocked
  BY <1>2
<1>7. StakeInv'
  BY <1>1, <1>5, <1>6, NothingTyped DEF ControlInv, StakeInv, Sends
<1>8. AttemptInv'
  BY AttemptQuiet DEF ControlInv, Typed, AttemptInv
<1>9. WorkerInv' /\ ResultInv'
  BY <1>1 DEF ControlInv, WorkerInv, ResultInv
<1>10. CoreInv'
  BY <1>1 DEF ControlInv, CoreInv
<1>. QED
  BY <1>4, <1>7, <1>8, <1>9, <1>10 DEF ControlInv

LEMMA QuieterSelf == \A c \in Control : Quieter(c, c)
BY DEF Quieter

\* A control that was neither reset nor waiting can be quietened twice.
LEMMA QuieterChain ==
    ASSUME NEW c, NEW d, NEW e, Quieter(c, d), Quieter(d, e),
           \/ d.blocked = c.blocked /\ d.pending = c.pending /\ d.withdrawals = c.withdrawals
           \/ e.blocked = d.blocked /\ e.pending = d.pending /\ e.withdrawals = d.withdrawals
    PROVE  Quieter(c, e)
BY DEF Quieter

\* The slots that at most hide or reset the control.
Quiet == \/ Cancel \/ SetVisible \/ ReadState \/ ReadRecovery \/ OwnerSlot
LEMMA QuietFacts ==
    ASSUME ControlInv, Quiet
    PROVE  /\ own' \in Owner /\ core' \in Cores /\ core'.op = core.op
           /\ UNCHANGED <<job, done>> /\ Quieter(ctl, ctl')
<1>. USE DEF ControlInv, Typed
<1>0. Quieter(ctl, ctl)
  BY QuieterSelf
<1>1. CASE Cancel \/ ReadState
  <2>1. Quieter(ctl, Hide(ctl))
    BY HideFacts DEF Quieter
  <2>. QED
    BY <1>1, <2>1, SyncFacts DEF Cancel, ReadState
<1>2. CASE SetVisible
  <2>. DEFINE c == [ctl EXCEPT !.visible = ~@]
              h == Hide(c)
  <2>0. c \in Control
    <3>. DEFINE v == ~ctl.visible
    <3>1. v \in BOOLEAN /\ c = [ctl EXCEPT !.visible = v]
      OBVIOUS
    <3>. HIDE DEF v, c
    <3>. QED
      BY <3>1, Zenon DEF Control
  <2>1. c \in Control /\ Quieter(ctl, c)
    BY <2>0 DEF Control, Quieter
  <2>2. h \in Control /\ Quieter(ctl, h)
    BY <2>1, HideFacts DEF Quieter
  <2>3. ctl' = c \/ ctl' = [h EXCEPT !.recovery = NoBasis]
    BY <1>2 DEF SetVisible
  <2>. HIDE DEF c, h
  <2>4. [h EXCEPT !.recovery = NoBasis] \in Control /\ Quieter(ctl, [h EXCEPT !.recovery = NoBasis])
    BY <2>2, NothingTyped DEF Control, Quieter
  <2>. QED
    BY <1>2, <2>1, <2>3, <2>4 DEF SetVisible
<1>3. CASE ReadRecovery
  <2>. DEFINE c == [ctl EXCEPT !.recovery = NoBasis]
  <2>0. c \in Control
    BY NothingTyped, Zenon DEF Control
  <2>1. /\ c \in Control /\ Quieter(ctl, c)
        /\ c.blocked = ctl.blocked /\ c.pending = ctl.pending /\ c.withdrawals = ctl.withdrawals
    <3>1. /\ c.last = ctl.last /\ c.sent = ctl.sent /\ c.reported = ctl.reported /\ c.running = ctl.running
          /\ c.grantedAt = ctl.grantedAt /\ c.confirmation = ctl.confirmation /\ c.blocked = ctl.blocked
          /\ c.pending = ctl.pending /\ c.withdrawals = ctl.withdrawals
      BY DEF Control
    <3>. HIDE DEF c
    <3>. QED
      BY <2>0, <3>1 DEF Quieter
  <2>3. own' \in Owner /\ \E o : ctl' = Sync(c, o)
    BY <1>3, LaunchFacts DEF ReadRecovery, Acts
  <2>. HIDE DEF c
  <2>2. ASSUME NEW o PROVE Quieter(ctl, Sync(c, o))
    <3>1. Quieter(c, Sync(c, o))
      BY <2>1, SyncFacts
    <3>. QED
      BY <2>1, <3>1, QuieterChain
  <2>. QED
    BY <1>3, <2>2, <2>3 DEF ReadRecovery
<1>4. CASE OwnerSlot
  <2>0. \A o \in Owner : Show(o) => own' \in Owner /\ UNCHANGED <<job, done, core>> /\ Quieter(ctl, ctl')
    BY SyncFacts DEF Show
  <2>1. CASE LoadList \/ Refresh
    BY <2>0, <2>1, LaunchFacts DEF LoadList, Refresh, Acts
  <2>2. CASE \E sid \in Sids : OpenSaved(sid)
    <3>1. NextView(own) \in Owner
      BY DEF NextView, Owner
    <3>. QED
      BY <2>0, <2>2, <3>1, LaunchFacts DEF OpenSaved, Acts
  <2>3. CASE CloseSaved \/ End \/ Deliver \/ Expire
    <3>. DEFINE o == [own EXCEPT !.lane = NoLane]
    <3>1. NoDetail \in [sid : Sids \cup {0}, until : Nat] /\ own.epoch + 1 \in Nat /\ own.now + 1 \in Nat
      BY DEF NoDetail, Owner
    <3>2. CASE CloseSaved \/ Expire
      BY <2>0, <3>1, <3>2 DEF CloseSaved, NextView, Expire, Owner
    <3>3. CASE End
      <4>. DEFINE l == [NoLane EXCEPT !.act = "end", !.epoch = own.epoch]
      <4>1. l \in Lanes
        BY NothingTyped DEF NoLane, Lanes, Acts, Owner
      <4>. HIDE DEF l
      <4>2. [own EXCEPT !.lane = l] \in Owner
        BY <4>1, Zenon DEF Owner
      <4>3. Show([own EXCEPT !.lane = l])
        BY <3>3 DEF End, l
      <4>. QED
        BY <2>0, <4>2, <4>3
    <3>4. CASE Deliver
      <4>1. o \in Owner /\ own.lane \in Lanes
        BY NothingTyped DEF Owner
      <4>2. [o EXCEPT !.list = own.lane.got] \in Owner
        BY <4>1 DEF Owner, Lanes
      <4>3. [o EXCEPT !.detail = [sid |-> own.lane.sid, until |-> own.now + 1]] \in Owner
        <5>1. [sid |-> own.lane.sid, until |-> own.now + 1] \in [sid : Sids \cup {0}, until : Nat]
          BY <3>1, <4>1 DEF Lanes
        <5>. QED
          BY <4>1, <5>1, Zenon DEF Owner
      <4>4. (IF own.lane.got = {} THEN 0 ELSE CHOOSE x \in own.lane.got : TRUE) \in Sids \cup {0}
        BY <4>1 DEF Lanes
      <4>5. [o EXCEPT !.supported = TRUE,
                      !.session = IF own.lane.got = {} THEN 0 ELSE CHOOSE x \in own.lane.got : TRUE] \in Owner
        <5>. DEFINE live == IF own.lane.got = {} THEN 0 ELSE CHOOSE x \in own.lane.got : TRUE
        <5>1. TRUE \in BOOLEAN /\ live \in Sids \cup {0}
          BY <4>4
        <5>. HIDE DEF live, o
        <5>2. [o EXCEPT !.supported = TRUE, !.session = live] \in Owner
          BY <4>1, <5>1, Zenon DEF Owner
        <5>. QED
          BY <5>2 DEF live
      <4>. HIDE DEF o
      <4>6. \E n \in Owner : Show(n)
        BY <3>4, <4>1, <4>2, <4>3, <4>5 DEF Deliver, o
      <4>. QED
        BY <2>0, <4>6
    <3>. QED
      BY <2>3, <3>2, <3>3, <3>4
  <2>4. CASE SetForeground
    <3>. DEFINE o == [InvalidateOwner(own) EXCEPT !.foreground = ~@]
    <3>1. o \in Owner
      <4>. DEFINE w == InvalidateOwner(own)
                  f == ~w.foreground
      <4>1. w \in Owner
        BY OwnerFacts
      <4>2. f \in BOOLEAN /\ o = [w EXCEPT !.foreground = f]
        OBVIOUS
      <4>. HIDE DEF w, f, o
      <4>. QED
        BY <4>1, <4>2, Zenon DEF Owner
    <3>. HIDE DEF o
    <3>2. own' = LaunchRead(ctl, o, "refresh", 0) /\ ctl' = Sync(Reset(ctl), own') /\ UNCHANGED <<job, done, core>>
      BY <2>4 DEF SetForeground, o
    <3>3. Reset(ctl).pending = NoAttempt /\ Quieter(ctl, Reset(ctl))
      BY ResetFacts
    <3>4. Quieter(ctl, Sync(Reset(ctl), own'))
      <4>. DEFINE d == Reset(ctl)
                  e == Sync(d, own')
      <4>1. d.pending.op = 0 /\ d \in Control /\ Quieter(ctl, d)
        BY <3>3 DEF NoAttempt, Quieter
      <4>2. Quieter(d, e) /\ e.blocked = d.blocked /\ e.pending = d.pending /\ e.withdrawals = d.withdrawals
        BY <4>1, SyncFacts
      <4>. HIDE DEF d, e
      <4>3. Quieter(ctl, e)
        BY <4>1, <4>2 DEF Quieter
      <4>. QED
        BY <4>3 DEF d, e
    <3>. QED
      BY <3>1, <3>2, <3>4, LaunchFacts DEF Acts
  <2>5. CASE Answer
    <3>1. /\ UNCHANGED <<ctl, job, done>>
          /\ core' \in {core, [core EXCEPT !.saved = @ \cup {core.live}, !.live = 0]}
          /\ core.live # 0 \/ core' = core
      BY <2>5 DEF Answer
    <3>2. core' \in Cores /\ core'.op = core.op
      BY ZenonT(40), <3>1 DEF Cores
    <3>. DEFINE got == IF own.lane.act = "list" THEN core.saved
                       ELSE IF own.lane.act = "detail" THEN core.saved \cap {own.lane.sid}
                       ELSE {core'.live} \ {0}
                l == [own.lane EXCEPT !.answered = TRUE, !.got = got]
    <3>3. got \in SUBSET Sids
      BY <3>2 DEF Cores
    <3>4. own' = [own EXCEPT !.lane = l]
      <4>1. own' = [own EXCEPT !.lane.answered = TRUE, !.lane.got = got]
        BY <2>5 DEF Answer
      <4>. HIDE DEF got
      <4>. QED
        BY <4>1 DEF Owner, Lanes
    <3>. HIDE DEF got
    <3>5. l \in Lanes
      BY <3>3 DEF Owner, Lanes
    <3>. HIDE DEF l
    <3>. QED
      BY <1>0, <3>1, <3>2, <3>4, <3>5 DEF Owner
  <2>6. CASE Tick \/ \E b \in Bindings \cup {NoBinding} : Rebind(b)
    BY <1>0, <2>6 DEF Tick, Rebind, Owner
  <2>. QED
    BY <1>4, <2>1, <2>2, <2>3, <2>4, <2>5, <2>6 DEF OwnerSlot
<1>. QED
  BY <1>1, <1>2, <1>3, <1>4 DEF Quiet

-----------------------------------------------------------------------------
(* The launches: read, read_bulk, confirm, read_status *)

\* With nothing under way.
LEMMA AtRest ==
    ASSUME ControlInv, ~ctl.running
    PROVE  /\ job = Idle /\ done = NoResult /\ job.step = "none" /\ done.outcome = "none"
           /\ ~job.req.send /\ ~done.req.send
<1>1. job.step = "none" /\ done.outcome = "none"
  BY DEF ControlInv, FlightInv
<1>. QED
  BY <1>1, NothingTyped DEF ControlInv, FlightInv, Idle, NoResult

LEMMA RestKeeps ==
    ASSUME ControlInv, own' \in Owner, ctl' \in Control, core' = core, job' = Idle, done' = NoResult,
           ~ctl'.running, ctl'.confirmation.kind # "status", Attempt(ctl'), ctl'.sent = ctl.sent,
           ctl'.reported \subseteq {o \in Ops : core.op[o] = "done"}
    PROVE  ControlInv'
<1>1. Typed' /\ FlightInv'
  BY NothingTyped DEF ControlInv, Typed, FlightInv, Idle, NoResult
<1>2. StakeInv'
  BY NothingTyped DEF StakeInv, Sends, Idle, NoResult
<1>3. WorkerInv' /\ ResultInv'
  BY NothingTyped DEF WorkerInv, ResultInv, Idle, NoResult
<1>4. CoreInv'
  BY DEF ControlInv, CoreInv
<1>. QED
  BY <1>1, <1>2, <1>3, <1>4 DEF ControlInv, AttemptInv

LEMMA StartFacts ==
    ASSUME NEW c \in Control, NEW r \in Requests, Start(c, r)
    PROVE  /\ ctl' \in Control /\ ctl'.running /\ ctl'.confirmation = NoRequest
           /\ ctl'.pending = c.pending /\ ctl'.blocked = c.blocked /\ ctl'.last = c.last
           /\ ctl'.sent = c.sent /\ ctl'.reported = c.reported
           /\ ctl'.withdrawals = c.withdrawals /\ ctl'.grantedAt = c.grantedAt
           /\ job' \in Jobs /\ job'.req = r /\ job'.step = "fresh" /\ ~job'.posted
           /\ UNCHANGED <<own, done, core>>
<1>1. ctl' = [c EXCEPT !.serial = c.serial + 1, !.request = r, !.confirmation = NoRequest, !.running = TRUE]
  BY DEF Start
<1>2. c.serial + 1 \in Nat /\ NoRequest \in Requests /\ TRUE \in BOOLEAN
  BY NothingTyped DEF Control
<1>3. ctl' \in Control
  BY <1>1, <1>2, Zenon DEF Control
<1>4. /\ ctl'.running /\ ctl'.confirmation = NoRequest
      /\ ctl'.pending = c.pending /\ ctl'.blocked = c.blocked /\ ctl'.last = c.last
      /\ ctl'.sent = c.sent /\ ctl'.reported = c.reported
      /\ ctl'.withdrawals = c.withdrawals /\ ctl'.grantedAt = c.grantedAt
  BY <1>1 DEF Control
<1>5. job' = [req |-> r, step |-> "fresh", posted |-> FALSE] /\ UNCHANGED <<own, done, core>>
  BY DEF Start, Idle
<1>. QED
  BY <1>3, <1>4, <1>5 DEF Jobs, Steps

\* A launch that reads.
LEMMA ReadKeeps ==
    ASSUME ControlInv, ~ctl.running, NEW r \in Requests, Start(ctl, r), ~r.send,
           r.kind = "status" => r.op \in Ops, r.kind # "status" => ~ctl.blocked
    PROVE  ControlInv'
<1>1. done = NoResult /\ done.outcome = "none" /\ ~done.req.send
  BY AtRest
<1>2. Typed' /\ FlightInv'
  BY <1>1, StartFacts DEF ControlInv, Typed, FlightInv
<1>3. StakeInv'
  BY <1>1, StartFacts, NothingTyped DEF ControlInv, Typed, StakeInv, Sends
<1>4. AttemptInv'
  BY StartFacts DEF ControlInv, Typed, AttemptInv, Attempt
<1>5. WorkerInv' /\ ResultInv'
  BY <1>1, StartFacts DEF ControlInv, Typed, WorkerInv, ResultInv
<1>6. CoreInv'
  BY StartFacts DEF ControlInv, Typed, CoreInv
<1>. QED
  BY <1>2, <1>3, <1>4, <1>5, <1>6 DEF ControlInv

\* What a read or a status question starts with.
LEMMA BeginFacts ==
    ASSUME ControlInv, BeginRead("single") \/ BeginRead("bulk") \/ ReadStatus
    PROVE  \E r \in Requests : /\ Start(ctl, r) /\ ~ctl.running /\ ~r.send /\ r.targets = {}
                               /\ r.kind = "status" => r.op \in Ops
                               /\ r.kind # "status" => ~ctl.blocked
<1>1. ctl \in Control /\ own \in Owner /\ ctl.serial + 1 \in Nat /\ ctl.pending.op \in Nat
  BY DEF ControlInv, Typed, Control, Attempts
<1>2. CASE BeginRead("single") \/ BeginRead("bulk")
  <2>1. PICK kind \in {"single", "bulk"} : BeginRead(kind)
    BY <1>2
  <2>. DEFINE b == Basis(ctl, own, kind)
              n == ctl.serial + 1
              r == [NoRequest EXCEPT !.serial = n, !.kind = kind, !.basis = b]
  <2>2. Start(ctl, r) /\ ~ctl.running /\ ~ctl.blocked
    BY <2>1 DEF BeginRead, IdleOwner
  <2>3. kind \in Kinds /\ kind # "status" /\ n \in Nat /\ b \in Bases
    BY <1>1, BasisTyped DEF Kinds
  <2>. HIDE DEF b, n
  <2>4. r \in Requests
    BY <2>3, NothingTyped, Zenon DEF Requests
  <2>5. ~r.send /\ r.targets = {} /\ r.kind = kind
    BY NothingTyped DEF Requests
  <2>. QED
    BY <2>2, <2>3, <2>4, <2>5
<1>3. CASE ReadStatus
  <2>. DEFINE b == Basis(ctl, own, "status")
              n == ctl.serial + 1
              r == [NoRequest EXCEPT !.serial = n, !.kind = "status", !.basis = b, !.op = ctl.pending.op]
  <2>1. Start(ctl, r) /\ ~ctl.running /\ b # NoBasis
    BY <1>3 DEF ReadStatus, IdleOwner
  <2>2. "status" \in Kinds /\ n \in Nat /\ b \in Bases /\ ctl.pending.posted
    BY <1>1, <2>1, BasisTyped DEF Kinds
  <2>3. ctl.pending.op \in Ops
    <3>1. ctl.pending.op # 0 /\ ctl.pending.op = ctl.last /\ ctl.last \in 0..MaxOps
      BY <2>2 DEF ControlInv, AttemptInv, Attempt
    <3>. QED
      BY <3>1, DeleteBounds DEF Ops
  <2>. HIDE DEF b, n
  <2>4. r \in Requests
    BY <1>1, <2>2, NothingTyped, Zenon DEF Requests
  <2>5. ~r.send /\ r.targets = {} /\ r.kind = "status" /\ r.op = ctl.pending.op
    BY NothingTyped DEF Requests
  <2>. QED
    BY <2>1, <2>3, <2>4, <2>5
<1>. QED
  BY <1>2, <1>3

\* confirm either hides an empty confirmation, or grants the next operation and sends.
LEMMA ConfirmFacts ==
    ASSUME ControlInv, Confirm
    PROVE  /\ ~ctl.running /\ ~ctl.blocked
           /\ \/ Quieter(ctl, ctl') /\ UNCHANGED <<own, job, done, core>>
              \/ \E c \in Control, r \in Requests :
                    /\ Start(c, r) /\ r.send /\ r.op = ctl.last + 1 /\ r.kind # "status"
                    /\ r.targets = ctl.confirmation.targets
                    /\ c.last = ctl.last + 1 /\ c.last \in 1..MaxOps /\ c.blocked
                    /\ c.grantedAt = ctl.withdrawals /\ c.withdrawals = ctl.withdrawals
                    /\ c.sent = ctl.sent /\ c.reported = ctl.reported
                    /\ c.pending.op = ctl.last + 1 /\ ~c.pending.posted
<1>. DEFINE o == ctl.confirmation
            n == ctl.last + 1
            s == ctl.serial + 1
            p == [op |-> n, binding |-> o.basis.binding, posted |-> FALSE, until |-> own.now + 1]
            c == [ctl EXCEPT !.blocked = TRUE, !.last = n, !.grantedAt = ctl.withdrawals, !.pending = p]
            r == [o EXCEPT !.serial = s, !.send = TRUE, !.op = n]
<1>1. /\ ctl \in Control /\ o \in Requests /\ n \in Nat /\ s \in Nat /\ own.now + 1 \in Nat
      /\ o.basis.binding \in Bindings \cup {NoBinding} /\ ctl.withdrawals \in Nat
  BY DEF ControlInv, Typed, Control, Owner, Requests, Bases
<1>2. n <= MaxOps /\ ~ctl.running /\ ~ctl.blocked
  BY DEF Confirm, IdleOwner
<1>3. CASE o.targets = {}
  <2>1. Quieter(ctl, Hide(ctl)) /\ Hide(ctl) \in Control /\ Hide(ctl).pending = ctl.pending
        /\ Hide(ctl).blocked = ctl.blocked /\ Hide(ctl).withdrawals = ctl.withdrawals
    BY <1>1, HideFacts DEF Quieter
  <2>2. Quieter(Hide(ctl), Sync(Hide(ctl), own))
    BY <2>1, SyncFacts
  <2>3. Quieter(ctl, Sync(Hide(ctl), own))
    BY <2>1, <2>2, QuieterChain
  <2>. QED
    BY <1>2, <1>3, <2>3 DEF Confirm
<1>4. CASE o.targets # {}
  <2>1. Start(c, r)
    BY <1>4 DEF Confirm
  <2>2. p \in Attempts /\ p.op = n /\ ~p.posted
    BY <1>1 DEF Attempts
  <2>3. n \in 1..MaxOps
    <3>1. ctl.last \in Nat
      BY <1>1 DEF Control
    <3>. QED
      BY <1>2, <3>1, DeleteBounds
  <2>. HIDE DEF p, n, s
  <2>4. c \in Control
    <3>1. TRUE \in BOOLEAN
      OBVIOUS
    <3>. QED
      BY <1>1, <2>2, <3>1, Zenon DEF Control
  <2>5. /\ c.last = n /\ c.blocked /\ c.grantedAt = ctl.withdrawals /\ c.withdrawals = ctl.withdrawals
        /\ c.sent = ctl.sent /\ c.reported = ctl.reported /\ c.pending = p
    BY <1>1 DEF Control
  <2>6. r \in Requests
    <3>1. TRUE \in BOOLEAN
      OBVIOUS
    <3>. QED
      BY <1>1, <3>1, Zenon DEF Requests
  <2>7. r.send /\ r.op = n /\ r.kind = o.kind /\ r.targets = o.targets
    BY <1>1 DEF Requests
  <2>8. o.kind # "status"
    BY DEF ControlInv, StakeInv
  <2>. HIDE DEF c, r, o
  <2>9. n = ctl.last + 1 /\ o = ctl.confirmation
    BY DEF n, o
  <2>. QED
    BY <1>2, <2>1, <2>2, <2>3, <2>4, <2>5, <2>6, <2>7, <2>8, <2>9
<1>. QED
  BY <1>3, <1>4

LEMMA ConfirmKeeps ==
    ASSUME ControlInv, Confirm
    PROVE  ControlInv'
<1>0. Typed /\ core \in Cores /\ own \in Owner /\ ctl \in Control
  BY DEF ControlInv, Typed
<1>1. CASE Quieter(ctl, ctl') /\ UNCHANGED <<own, job, done, core>>
  BY <1>0, <1>1, QuietKeeps
<1>2. ASSUME NEW c \in Control, NEW r \in Requests,
             Start(c, r), r.send, r.op = ctl.last + 1, r.kind # "status",
             c.last = ctl.last + 1, c.last \in 1..MaxOps, c.blocked,
             c.grantedAt = ctl.withdrawals, c.withdrawals = ctl.withdrawals,
             c.sent = ctl.sent, c.reported = ctl.reported,
             c.pending.op = ctl.last + 1, ~c.pending.posted
      PROVE  ControlInv'
  <2>1. done = NoResult /\ done.outcome = "none" /\ ~done.req.send
    BY AtRest, ConfirmFacts
  <2>2. ctl.last \in Nat /\ ctl.withdrawals \in Nat /\ ctl.sent \subseteq 1..ctl.last /\ MaxOps \in Nat
    BY <1>0, DeleteBounds DEF Control, ControlInv, AttemptInv, Attempt
  <2>3. ctl.last + 1 \notin ctl.sent /\ ctl.sent \subseteq 1..ctl.last + 1 /\ ctl.last + 1 # 0
    BY <2>2
  <2>4. Typed' /\ FlightInv'
    BY <1>0, <1>2, <2>1, StartFacts DEF Typed, FlightInv
  <2>5. StakeInv'
    BY <1>2, <2>1, StartFacts, NothingTyped DEF StakeInv, Sends, Ops
  <2>6. AttemptInv'
    BY <1>2, <2>2, <2>3, StartFacts DEF AttemptInv, Attempt
  <2>7. WorkerInv' /\ ResultInv'
    <3>1. ctl'.last = ctl.last + 1 /\ ctl'.sent = ctl.sent /\ job'.req = r /\ job'.step = "fresh" /\ ~job'.posted
          /\ done' = done
      BY <1>2, StartFacts
    <3>2. WorkerInv'
      BY <1>2, <2>3, <3>1 DEF WorkerInv
    <3>3. ResultInv'
      BY <2>1, <3>1, NothingTyped DEF ResultInv, NoResult
    <3>. QED
      BY <3>2, <3>3
  <2>8. CoreInv'
    BY <1>2, StartFacts DEF ControlInv, CoreInv
  <2>. QED
    BY <2>4, <2>5, <2>6, <2>7, <2>8 DEF ControlInv
<1>. QED
  BY <1>1, <1>2, ConfirmFacts

\* recover
LEMMA RecoverFacts ==
    ASSUME ControlInv, Recover
    PROVE  /\ ~ctl.running /\ own' = InvalidateArchive(own) /\ UNCHANGED <<job, done, core>>
           /\ \E c \in Control :
                 /\ c.last = ctl.last /\ c.sent = ctl.sent /\ c.reported = ctl.reported /\ c.running = ctl.running
                 /\ c.withdrawals = ctl.withdrawals /\ c.grantedAt = ctl.grantedAt /\ c.confirmation = NoRequest
                 /\ c.blocked = ctl.pending.posted
                 /\ c.pending = IF ctl.pending.posted THEN ctl.pending ELSE NoAttempt
                 /\ Quieter(c, ctl')
<1>. DEFINE h == Hide(ctl)
            p == IF h.pending.posted THEN h.pending ELSE NoAttempt
            f == h.pending.posted
            c == [h EXCEPT !.pending = p, !.blocked = f]
            d == Sync(c, InvalidateArchive(own))
            b == [Base(own) EXCEPT !.epoch = 0]
<1>0. ctl \in Control /\ own \in Owner
  BY DEF ControlInv, Typed
<1>1. /\ h \in Control /\ h.confirmation = NoRequest /\ h.pending = ctl.pending /\ h.running = ctl.running
      /\ h.last = ctl.last /\ h.sent = ctl.sent /\ h.reported = ctl.reported
      /\ h.withdrawals = ctl.withdrawals /\ h.grantedAt = ctl.grantedAt
  BY <1>0, HideFacts
<1>2. f \in BOOLEAN /\ p \in Attempts
  BY <1>1, NothingTyped DEF Control, Attempts
<1>3. Recovered(ctl) = [h EXCEPT !.pending = p, !.blocked = f]
  BY <1>1 DEF Recovered
<1>4. b \in Bases
  BY <1>0 DEF Base, NoBasis, Bases, Owner
<1>5. /\ ctl' = [d EXCEPT !.recovery = b] /\ ~ctl.running /\ own' = InvalidateArchive(own)
      /\ UNCHANGED <<job, done, core>>
  BY <1>3 DEF Recover, IdleOwner
<1>6. f = ctl.pending.posted /\ p = IF ctl.pending.posted THEN ctl.pending ELSE NoAttempt
  BY <1>1
<1>. HIDE DEF h, p, f, b
<1>7. c \in Control
  BY <1>1, <1>2, Zenon DEF Control
<1>8. /\ c.confirmation = h.confirmation /\ c.running = h.running /\ c.last = h.last /\ c.sent = h.sent
      /\ c.reported = h.reported /\ c.withdrawals = h.withdrawals /\ c.grantedAt = h.grantedAt
      /\ c.blocked = f /\ c.pending = p
  BY <1>1 DEF Control
<1>. HIDE DEF c
<1>9. Quieter(c, d) /\ d \in Control
  BY <1>7, SyncFacts DEF Quieter
<1>. HIDE DEF d
<1>10. [d EXCEPT !.recovery = b] \in Control
  BY <1>4, <1>9, Zenon DEF Control
<1>11. Quieter(d, [d EXCEPT !.recovery = b])
       /\ [d EXCEPT !.recovery = b].blocked = d.blocked /\ [d EXCEPT !.recovery = b].pending = d.pending
       /\ [d EXCEPT !.recovery = b].withdrawals = d.withdrawals
  BY <1>9, <1>10 DEF Quieter, Control
<1>12. Quieter(c, ctl')
  BY <1>5, <1>9, <1>11, QuieterChain
<1>. QED
  BY <1>1, <1>5, <1>6, <1>7, <1>8, <1>12

LEMMA RecoverKeeps ==
    ASSUME ControlInv, Recover
    PROVE  ControlInv'
<1>0. own \in Owner /\ core \in Cores /\ Attempt(ctl) /\ ctl.confirmation.kind # "status"
  BY DEF ControlInv, Typed, AttemptInv, StakeInv
<1>1. PICK c \in Control :
         /\ c.last = ctl.last /\ c.sent = ctl.sent /\ c.reported = ctl.reported /\ c.running = ctl.running
         /\ c.withdrawals = ctl.withdrawals /\ c.grantedAt = ctl.grantedAt /\ c.confirmation = NoRequest
         /\ c.blocked = ctl.pending.posted
         /\ c.pending = IF ctl.pending.posted THEN ctl.pending ELSE NoAttempt
         /\ Quieter(c, ctl')
  BY RecoverFacts
<1>2. Attempt(c)
  BY <1>0, <1>1 DEF Attempt, NoAttempt
<1>3. Attempt(ctl')
  BY <1>1, <1>2, AttemptQuiet
<1>4. ~ctl.running /\ own' \in Owner /\ UNCHANGED <<job, done, core>>
  BY <1>0, RecoverFacts, OwnerFacts
<1>5. /\ ctl' \in Control /\ ~ctl'.running /\ ctl'.sent = ctl.sent /\ ctl'.reported = ctl.reported
      /\ ctl'.confirmation = NoRequest
  BY <1>1, <1>4 DEF Quieter
<1>6. job' = Idle /\ done' = NoResult
  BY <1>4, AtRest
<1>7. ctl'.reported \subseteq {o \in Ops : core.op[o] = "done"}
  BY <1>5 DEF ControlInv, CoreInv
<1>. QED
  BY <1>3, <1>4, <1>5, <1>6, <1>7, RestKeeps, NothingTyped

-----------------------------------------------------------------------------
(* The worker *)

\* What a worker may publish about a launch.
Publishable(e) ==
    /\ e \in Outcomes \ {"none", "read"}
    /\ job.req.send => e \in {"deleted", "denied", "context_changed", "uncertain", "refused"}
    /\ job.req.kind # "status" => e \notin {"completed", "pending", "unknown"}
    /\ e = "deleted" => job.req.send /\ core.op[ctl.last] = "done"
    /\ e = "completed" => job.req.op \in Ops /\ core.op[job.req.op] = "done"
    /\ e = "refused" /\ job.posted => core.op[ctl.last] = "refused"

LEMMA PublishKeeps ==
    ASSUME ControlInv, job.step # "none", UNCHANGED <<own, ctl, core>>,
           NEW e, Publishable(e), Publish(e)
    PROVE  ControlInv'
<1>1. /\ job' = Idle /\ done' = [req |-> job.req, posted |-> job.posted, outcome |-> e]
      /\ e \in Outcomes /\ e # "none"
  BY DEF Publish, Publishable
<1>2. done' \in Results /\ done'.req = job.req /\ done'.posted = job.posted /\ done'.outcome = e
  BY <1>1 DEF ControlInv, Typed, Jobs, Results
<1>3. job'.step = "none" /\ ~job'.posted /\ job'.req = NoRequest
  BY <1>1 DEF Idle
<1>4. Typed' /\ FlightInv'
  BY <1>1, <1>2, <1>3, NothingTyped DEF ControlInv, Typed, FlightInv
<1>5. StakeInv' /\ AttemptInv'
  BY <1>2, <1>3, NothingTyped DEF ControlInv, StakeInv, Sends, AttemptInv
<1>6. WorkerInv'
  BY <1>3, NothingTyped DEF WorkerInv
<1>7. ResultInv'
  <2>1. job.posted => job.req.send /\ ctl.last \in ctl.sent
    BY DEF ControlInv, WorkerInv
  <2>2. job.req.send /\ ~job.posted => ctl.last \notin ctl.sent
    BY DEF ControlInv, WorkerInv
  <2>. QED
    BY <1>2, <2>1, <2>2 DEF ResultInv, Publishable
<1>8. CoreInv'
  BY DEF ControlInv, CoreInv
<1>. QED
  BY <1>4, <1>5, <1>6, <1>7, <1>8 DEF ControlInv

LEMMA StepKeeps ==
    ASSUME ControlInv, UNCHANGED <<own, ctl, core, done>>, NEW s \in {"ask", "claim", "mark"},
           job' = [job EXCEPT !.step = s], job.step \in {"fresh", "claim"},
           s \in {"claim", "mark"} => job.req.send, s = "ask" => job.req.kind = "status"
    PROVE  ControlInv'
<1>1. job' \in Jobs /\ job'.req = job.req /\ job'.posted = job.posted /\ job'.step = s
  BY DEF ControlInv, Typed, Jobs, Steps
<1>2. Typed' /\ FlightInv'
  BY <1>1 DEF ControlInv, Typed, FlightInv
<1>3. StakeInv' /\ AttemptInv'
  BY <1>1 DEF ControlInv, StakeInv, Sends, AttemptInv
<1>4. WorkerInv'
  BY <1>1 DEF ControlInv, WorkerInv
<1>5. ResultInv' /\ CoreInv'
  BY <1>1 DEF ControlInv, ResultInv, CoreInv
<1>. QED
  BY <1>2, <1>3, <1>4, <1>5 DEF ControlInv

\* What a confirmation-to-be returns: the targets it was read for.
ReadResult ==
    LET r == job.req
    IN  [req |-> [r EXCEPT
                    !.targets = IF r.kind = "bulk" THEN core.saved ELSE {r.basis.sid},
                    !.until = IF r.kind = "bulk" THEN own.now + 1 ELSE r.basis.until],
         posted |-> FALSE, outcome |-> "read"]

LEMMA FreshCases ==
    ASSUME ControlInv, FreshRead
    PROVE  /\ job.step = "fresh" /\ UNCHANGED <<own, ctl, core>>
           /\ \/ \E e \in {"context_changed", "refused", "denied"} : Publish(e)
              \/ Step("ask") /\ job.req.kind = "status"
              \/ Step("claim") /\ job.req.send
              \/ /\ ~job.req.send /\ job.req.kind # "status" /\ job' = Idle /\ done' = ReadResult
                 /\ job.req.kind # "single" \/ job.req.basis.sid \in core.saved
<1>1. job.req.kind \in {"single", "bulk", "status"}
  BY DEF ControlInv, Typed, Jobs, Requests, Kinds
<1>2. job.step = "fresh" /\ UNCHANGED <<own, ctl, core>>
  BY DEF FreshRead
<1>3. \/ ~StillValid /\ Publish("context_changed")
      \/ StillValid /\ \E e \in {"refused", "denied"} : Publish(e)
      \/ StillValid /\ core.live # job.req.basis.session /\ Publish("context_changed")
      \/ CASE job.req.kind = "status" -> Step("ask")
           [] job.req.kind = "single" /\ job.req.basis.sid \notin core.saved -> Publish("refused")
           [] OTHER -> IF job.req.send THEN Step("claim") ELSE job' = Idle /\ done' = ReadResult
  BY DEF FreshRead, ReadResult
<1>. QED
  BY <1>1, <1>2, <1>3

LEMMA ReadResultFacts ==
    ASSUME ControlInv, job.req.kind # "status", job.req.kind # "single" \/ job.req.basis.sid \in core.saved
    PROVE  /\ ReadResult \in Results /\ ReadResult.outcome = "read" /\ ~ReadResult.posted
           /\ ReadResult.req.send = job.req.send /\ ReadResult.req.kind = job.req.kind
           /\ ReadResult.req.targets \subseteq core.saved
<1>. DEFINE r == job.req
            t == IF r.kind = "bulk" THEN core.saved ELSE {r.basis.sid}
            u == IF r.kind = "bulk" THEN own.now + 1 ELSE r.basis.until
            q == [r EXCEPT !.targets = t, !.until = u]
<1>1. r \in Requests /\ core.saved \subseteq Sids /\ own.now + 1 \in Nat /\ r.basis.until \in Nat
  BY DEF ControlInv, Typed, Jobs, Requests, Bases, Cores, Owner
<1>2. r.kind \in {"single", "bulk", "status"}
  BY <1>1 DEF Requests, Kinds
<1>3. t \subseteq core.saved /\ t \in SUBSET Sids /\ u \in Nat
  BY <1>1, <1>2
<1>4. ReadResult = [req |-> q, posted |-> FALSE, outcome |-> "read"]
  BY DEF ReadResult
<1>. HIDE DEF r, t, u
<1>5. q \in Requests
  BY <1>1, <1>3, Zenon DEF Requests
<1>6. q.send = r.send /\ q.kind = r.kind /\ q.targets = t
  BY <1>1 DEF Requests
<1>. HIDE DEF q
<1>7. /\ ReadResult \in Results /\ ReadResult.outcome = "read" /\ ~ReadResult.posted
      /\ ReadResult.req = q
  BY <1>4, <1>5 DEF Results, Outcomes
<1>. QED
  BY <1>3, <1>6, <1>7 DEF r

LEMMA FreshKeeps ==
    ASSUME ControlInv, FreshRead
    PROVE  ControlInv'
<1>1. job.step = "fresh" /\ UNCHANGED <<own, ctl, core>> /\ ~job.posted
  BY FreshCases DEF ControlInv, WorkerInv
<1>2. ASSUME NEW e \in {"context_changed", "refused", "denied"}, Publish(e) PROVE ControlInv'
  <2>1. Publishable(e)
    BY <1>1, <1>2 DEF Publishable, Outcomes
  <2>. QED
    BY <1>1, <1>2, <2>1, PublishKeeps
<1>3. CASE Step("ask") /\ job.req.kind = "status"
  BY <1>1, <1>3, StepKeeps DEF Step
<1>4. CASE Step("claim") /\ job.req.send
  BY <1>1, <1>4, StepKeeps DEF Step
<1>5. CASE /\ ~job.req.send /\ job.req.kind # "status" /\ job' = Idle /\ done' = ReadResult
           /\ job.req.kind # "single" \/ job.req.basis.sid \in core.saved
  <2>. DEFINE d == ReadResult
  <2>1. d \in Results /\ d.outcome = "read" /\ ~d.posted /\ ~d.req.send /\ d.req.kind # "status"
    BY <1>5, ReadResultFacts
  <2>2. job' = Idle /\ done' = d /\ ~ctl.blocked
    BY <1>1, <1>5 DEF ControlInv, StakeInv
  <2>. HIDE DEF d
  <2>3. job'.step = "none" /\ ~job'.posted /\ job'.req = NoRequest
    BY <2>2 DEF Idle
  <2>4. Typed' /\ FlightInv'
    BY <1>1, <2>1, <2>2, <2>3, NothingTyped DEF ControlInv, Typed, FlightInv
  <2>5. StakeInv' /\ AttemptInv'
    BY <1>1, <2>1, <2>2, <2>3, NothingTyped DEF ControlInv, StakeInv, Sends, AttemptInv
  <2>6. WorkerInv'
    BY <2>3, NothingTyped DEF WorkerInv
  <2>7. ResultInv'
    BY <2>1, <2>2 DEF ResultInv
  <2>8. CoreInv'
    BY <1>1 DEF ControlInv, CoreInv
  <2>. QED
    BY <2>4, <2>5, <2>6, <2>7, <2>8 DEF ControlInv
<1>. QED
  BY <1>2, <1>3, <1>4, <1>5, FreshCases

LEMMA AskCases ==
    ASSUME ControlInv, AskStatus
    PROVE  /\ job.step = "ask" /\ ~job.req.send /\ UNCHANGED <<own, ctl, core>>
           /\ \E e : Publishable(e) /\ Publish(e)
<1>1. /\ job.step = "ask" /\ job.req.kind = "status" /\ ~job.req.send /\ ~job.posted /\ job.req.op \in Ops
      /\ UNCHANGED <<own, ctl, core>>
  BY DEF AskStatus, ControlInv, WorkerInv
<1>2. \/ \E e \in {"uncertain", "denied", "context_changed", "pending", "unknown"} : Publish(e)
      \/ Publish("completed") /\ core.op[job.req.op] = "done"
  BY DEF AskStatus
<1>3. \A e \in {"uncertain", "denied", "context_changed", "pending", "unknown"} : Publishable(e)
  BY <1>1 DEF Publishable, Outcomes
<1>4. core.op[job.req.op] = "done" => Publishable("completed")
  BY <1>1 DEF Publishable, Outcomes
<1>. QED
  BY <1>1, <1>2, <1>3, <1>4

LEMMA ClaimCases ==
    ASSUME ControlInv, Claim
    PROVE  /\ job.step = "claim" /\ job.req.send /\ UNCHANGED <<own, ctl, core>>
           /\ Step("mark") \/ \E e : Publishable(e) /\ Publish(e)
<1>1. job.step = "claim" /\ job.req.send /\ ~job.posted /\ job.req.kind # "status"
      /\ UNCHANGED <<own, ctl, core>>
  BY DEF Claim, ControlInv, WorkerInv, StakeInv, Sends
<1>2. Step("mark") \/ Publish("context_changed") \/ Publish("refused")
  BY DEF Claim
<1>3. \A e \in {"context_changed", "refused"} : Publishable(e)
  BY <1>1 DEF Publishable, Outcomes
<1>. QED
  BY <1>1, <1>2, <1>3

LEMMA MarkFacts ==
    ASSUME ControlInv, Mark
    PROVE  /\ job.step = "mark" /\ job.req.send /\ job.req.op = ctl.last /\ ctl.last \in Ops
           /\ ctl.last \notin ctl.sent /\ UNCHANGED <<own, done, core>>
           /\ job' \in Jobs /\ job'.req = job.req /\ job'.step = "post" /\ job'.posted
           /\ ctl' \in Control /\ ctl'.sent = ctl.sent \cup {ctl.last}
           /\ ctl'.last = ctl.last /\ ctl'.reported = ctl.reported /\ ctl'.running = ctl.running
           /\ ctl'.withdrawals = ctl.withdrawals /\ ctl'.grantedAt = ctl.grantedAt
           /\ ctl'.confirmation = ctl.confirmation /\ ctl'.blocked = ctl.blocked
           /\ ctl'.pending.op = ctl.pending.op
           /\ ctl'.pending.posted = (ctl.pending.posted \/ ctl.pending.op = ctl.last)
<1>1. /\ job.step = "mark" /\ job.req.send /\ job.req.op = ctl.last /\ ctl.last \in Ops
      /\ ctl.last \notin ctl.sent /\ UNCHANGED <<own, done, core>>
  BY DEF Mark, ControlInv, WorkerInv, StakeInv, Sends
<1>2. job' \in Jobs /\ job'.req = job.req /\ job'.step = "post" /\ job'.posted
  BY DEF Mark, ControlInv, Typed, Jobs, Steps
<1>3. ctl \in Control /\ ctl.pending \in Attempts /\ ctl.last \in Nat
  BY DEF ControlInv, Typed, Control
<1>. DEFINE f == ctl.pending.posted \/ ctl.pending.op = ctl.last
            p == [ctl.pending EXCEPT !.posted = f]
            s == ctl.sent \cup {ctl.last}
<1>4. ctl' = [ctl EXCEPT !.pending = p, !.sent = s]
  <2>1. ctl' = [ctl EXCEPT !.pending = [ctl.pending EXCEPT
                                          !.posted = ctl.pending.posted \/ ctl.pending.op = job.req.op],
                           !.sent = ctl.sent \cup {job.req.op}]
    BY DEF Mark
  <2>. QED
    BY <1>1, <2>1
<1>5. f \in BOOLEAN /\ s \in SUBSET Nat
  BY <1>3 DEF Control
<1>. HIDE DEF f
<1>6. p \in Attempts /\ p.op = ctl.pending.op /\ p.posted = f
  BY <1>3, <1>5 DEF Attempts
<1>. HIDE DEF p, s
<1>7. ctl' \in Control
  BY <1>3, <1>4, <1>5, <1>6, Zenon DEF Control
<1>8. /\ ctl'.pending = p /\ ctl'.sent = s
      /\ ctl'.last = ctl.last /\ ctl'.reported = ctl.reported /\ ctl'.running = ctl.running
      /\ ctl'.withdrawals = ctl.withdrawals /\ ctl'.grantedAt = ctl.grantedAt
      /\ ctl'.confirmation = ctl.confirmation /\ ctl'.blocked = ctl.blocked
  BY <1>3, <1>4 DEF Control
<1>. QED
  BY <1>1, <1>2, <1>6, <1>7, <1>8 DEF f, s

LEMMA MarkKeeps ==
    ASSUME ControlInv, Mark
    PROVE  ControlInv'
<1>1. done = NoResult /\ ~done.req.send /\ done.req.kind = "single" /\ done.outcome = "none" /\ ~done.posted
  BY MarkFacts, NothingTyped DEF ControlInv, FlightInv, NoResult
<1>2. Typed' /\ FlightInv'
  BY MarkFacts DEF ControlInv, Typed, FlightInv
<1>3. StakeInv'
  BY MarkFacts DEF ControlInv, StakeInv, Sends
<1>4. AttemptInv'
  <2>1. ctl.last \in 1..MaxOps /\ ctl.sent \subseteq 1..ctl.last /\ MaxOps \in Nat
    BY MarkFacts, DeleteBounds DEF ControlInv, AttemptInv, Attempt, Ops
  <2>2. ctl.sent \cup {ctl.last} \subseteq 1..ctl.last /\ ctl.last # 0
    BY <2>1
  <2>. QED
    BY <2>1, <2>2, MarkFacts DEF ControlInv, AttemptInv, Attempt
<1>5. WorkerInv'
  <2>1. core.op[ctl.last] = "none"
    BY MarkFacts DEF ControlInv, CoreInv
  <2>. QED
    BY <2>1, MarkFacts DEF ControlInv, WorkerInv
<1>6. ResultInv'
  BY <1>1, MarkFacts DEF ResultInv
<1>7. CoreInv'
  BY MarkFacts DEF ControlInv, CoreInv
<1>. QED
  BY <1>2, <1>3, <1>4, <1>5, <1>6, <1>7 DEF ControlInv

LEMMA PostCases ==
    ASSUME ControlInv, Post
    PROVE  /\ job.step = "post" /\ job.req.send /\ job.posted /\ job.req.op = ctl.last /\ ctl.last \in Ops
           /\ ctl.last \in ctl.sent /\ core.op[ctl.last] = "none" /\ UNCHANGED <<own, ctl>>
           /\ Publishable("context_changed")
           /\ \/ Publish("context_changed") /\ UNCHANGED core
              \/ Step("wait") /\ core' = [core EXCEPT !.op = [core.op EXCEPT ![ctl.last] = "sent"],
                                                    !.target = [core.target EXCEPT ![ctl.last] = job.req.targets]]
<1>1. /\ job.step = "post" /\ job.req.send /\ job.posted /\ job.req.op = ctl.last /\ ctl.last \in Ops
      /\ ctl.last \in ctl.sent /\ core.op[ctl.last] = "none" /\ UNCHANGED <<own, ctl>>
      /\ job.req.kind # "status"
  BY DEF Post, ControlInv, WorkerInv, StakeInv, Sends
<1>2. Publishable("context_changed")
  BY <1>1 DEF Publishable, Outcomes
<1>. QED
  BY <1>1, <1>2 DEF Post

LEMMA PostKeeps ==
    ASSUME ControlInv, Post
    PROVE  ControlInv'
<1>1. CASE Publish("context_changed") /\ UNCHANGED core
  BY <1>1, PostCases, PublishKeeps
<1>2. CASE /\ Step("wait")
           /\ core' = [core EXCEPT !.op = [core.op EXCEPT ![ctl.last] = "sent"],
                                   !.target = [core.target EXCEPT ![ctl.last] = job.req.targets]]
  <2>. DEFINE ops == [core.op EXCEPT ![ctl.last] = "sent"]
              ts  == [core.target EXCEPT ![ctl.last] = job.req.targets]
  <2>1. /\ job.step = "post" /\ job.req.send /\ job.posted /\ job.req.op = ctl.last /\ ctl.last \in Ops
        /\ ctl.last \in ctl.sent /\ core.op[ctl.last] = "none" /\ UNCHANGED <<own, ctl, done>>
    BY <1>2, PostCases DEF Step
  <2>2. job' \in Jobs /\ job'.req = job.req /\ job'.posted /\ job'.step = "wait"
    BY <1>2, <2>1 DEF Step, ControlInv, Typed, Jobs, Steps
  <2>3. core.op \in [Ops -> States] /\ core.target \in [Ops -> SUBSET Sids] /\ job.req.targets \in SUBSET Sids
    BY DEF ControlInv, Typed, Cores, Jobs, Requests
  <2>4. ops \in [Ops -> States] /\ ops[ctl.last] = "sent"
        /\ \A o \in Ops : o # ctl.last => ops[o] = core.op[o]
    BY <2>1, <2>3 DEF States
  <2>5. ts \in [Ops -> SUBSET Sids]
    BY <2>1, <2>3
  <2>6. core' = [core EXCEPT !.op = ops, !.target = ts]
    BY <1>2
  <2>. HIDE DEF ops, ts
  <2>7. core' \in Cores /\ core'.op = ops
    BY <2>4, <2>5, <2>6 DEF ControlInv, Typed, Cores
  <2>8. done = NoResult /\ ~done.req.send /\ done.outcome = "none" /\ ~done.posted /\ done.req.kind = "single"
    BY <2>1, NothingTyped DEF ControlInv, FlightInv, NoResult
  <2>9. Typed' /\ FlightInv'
    BY <2>1, <2>2, <2>7 DEF ControlInv, Typed, FlightInv
  <2>10. StakeInv' /\ AttemptInv'
    BY <2>1, <2>2 DEF ControlInv, StakeInv, Sends, AttemptInv
  <2>11. WorkerInv' /\ ResultInv'
    BY <2>1, <2>2, <2>8 DEF ControlInv, WorkerInv, ResultInv
  <2>12. CoreInv'
    BY <2>1, <2>4, <2>7 DEF ControlInv, CoreInv
  <2>. QED
    BY <2>9, <2>10, <2>11, <2>12 DEF ControlInv
<1>. QED
  BY <1>1, <1>2, PostCases

LEMMA ReceiveCases ==
    ASSUME ControlInv, Receive
    PROVE  /\ job.step = "wait" /\ job.req.send /\ UNCHANGED <<own, ctl, core>>
           /\ \E e : Publishable(e) /\ Publish(e)
<1>1. /\ job.step = "wait" /\ job.req.send /\ job.posted /\ job.req.op = ctl.last /\ job.req.kind # "status"
      /\ UNCHANGED <<own, ctl, core>>
  BY DEF Receive, ControlInv, WorkerInv, StakeInv, Sends
<1>2. \/ \E e \in {"context_changed", "uncertain"} : Publish(e)
      \/ core.op[ctl.last] = "refused" /\ \E e \in {"refused", "denied"} : Publish(e)
      \/ core.op[ctl.last] = "done" /\ Publish("deleted")
  BY <1>1 DEF Receive
<1>3. \A e \in {"context_changed", "uncertain", "denied"} : Publishable(e)
  BY <1>1 DEF Publishable, Outcomes
<1>4. (core.op[ctl.last] = "refused" => Publishable("refused"))
      /\ (core.op[ctl.last] = "done" => Publishable("deleted"))
  BY <1>1 DEF Publishable, Outcomes
<1>. QED
  BY <1>1, <1>2, <1>3, <1>4

LEMMA WorkKeeps ==
    ASSUME ControlInv, Work
    PROVE  ControlInv'
<1>1. CASE AskStatus
  BY <1>1, AskCases, PublishKeeps
<1>2. CASE Claim
  <2>1. CASE Step("mark")
    BY <1>2, <2>1, ClaimCases, StepKeeps DEF Step
  <2>2. ASSUME NEW e, Publishable(e), Publish(e) PROVE ControlInv'
    BY <1>2, <2>2, ClaimCases, PublishKeeps
  <2>. QED
    BY <1>2, <2>1, <2>2, ClaimCases
<1>3. CASE Receive
  BY <1>3, ReceiveCases, PublishKeeps
<1>. QED
  BY <1>1, <1>2, <1>3, FreshKeeps, MarkKeeps, PostKeeps DEF Work

-----------------------------------------------------------------------------
(* finish *)

\* The six ways a result ends, before the control is synchronised: c is the control then.
Same(c)  == c.pending = ctl.pending /\ c.withdrawals = ctl.withdrawals /\ c.reported = ctl.reported
Late(c)  == /\ Same(c) /\ c.confirmation = ctl.confirmation
            /\ c.blocked = (ctl.blocked \/ (done.posted /\ done.req.basis.binding = own.binding))
            /\ own' = own
Denied(c) == /\ c.blocked = FALSE /\ c.pending = NoAttempt /\ c.withdrawals = ctl.withdrawals + 1
             /\ c.reported = ctl.reported /\ c.confirmation = NoRequest /\ own' = InvalidateOwner(own)
Asked(c) == /\ Same(c) /\ c.blocked /\ done.req.kind = "status" /\ ctl.pending.posted
            /\ c.confirmation = NoRequest /\ own' = own
Erased(c) == /\ done.outcome \in {"deleted", "completed"} /\ c.blocked = FALSE /\ c.pending = NoAttempt
             /\ done.req.kind = "status" => done.req.op = ctl.pending.op /\ ctl.pending.posted
             /\ c.withdrawals = ctl.withdrawals /\ c.reported = ctl.reported \cup {done.req.op}
             /\ c.confirmation = NoRequest
             /\ \E d : own' = LaunchRead(d, InvalidateArchive(own), "refresh", 0)
Failed(c) == /\ done.req.kind # "status" /\ done.outcome \notin {"deleted", "completed", "denied", "read"}
             /\ c.confirmation = NoRequest
             /\ c.withdrawals = ctl.withdrawals /\ c.reported = ctl.reported /\ own' = own
             /\ \/ done.posted /\ c.blocked /\ c.pending = ctl.pending
                \/ /\ done.posted => done.outcome \notin {"uncertain", "context_changed"}
                   /\ c.blocked = FALSE /\ c.pending = NoAttempt
ReadDone(c) == /\ done.outcome = "read" /\ Same(c) /\ c.blocked = ctl.blocked /\ c.confirmation = done.req
               /\ own' = own

LEMMA FinishFacts ==
    ASSUME ControlInv, Finish
    PROVE  /\ done.outcome # "none" /\ job = Idle /\ job' = Idle /\ done' = NoResult /\ core' = core
           /\ \E c \in Control :
                 /\ c.last = ctl.last /\ c.sent = ctl.sent /\ c.grantedAt = ctl.grantedAt /\ ~c.running
                 /\ Quieter(c, ctl')
                 /\ c.pending.op = 0 => ctl'.blocked = c.blocked /\ ctl'.withdrawals = c.withdrawals
                 /\ Late(c) \/ Denied(c) \/ Asked(c) \/ Erased(c) \/ Failed(c) \/ ReadDone(c)
<1>. DEFINE c0 == [ctl EXCEPT !.running = FALSE]
            r  == done
            F  == Finished(own, ctl, done)
            v  == Valid(c0, own, r.req)
<1>1. ctl \in Control /\ own \in Owner /\ done \in Results /\ r.req \in Requests
  BY DEF ControlInv, Typed, Results
<1>2. done.outcome # "none" /\ job = Idle /\ job' = Idle /\ done' = NoResult /\ core' = core
  BY DEF Finish, ControlInv, FlightInv
<1>3. c0 \in Control
  <2>1. FALSE \in BOOLEAN
    OBVIOUS
  <2>. QED
    BY <1>1, <2>1, Zenon DEF Control
<1>4. /\ c0.running = FALSE /\ c0.last = ctl.last /\ c0.sent = ctl.sent /\ c0.grantedAt = ctl.grantedAt
      /\ c0.pending = ctl.pending /\ c0.withdrawals = ctl.withdrawals /\ c0.reported = ctl.reported
      /\ c0.blocked = ctl.blocked /\ c0.confirmation = ctl.confirmation
  BY <1>1 DEF Control
<1>5. own' = F.own /\ ctl' = Sync(F.ctl, F.own)
  BY DEF Finish
<1>. DEFINE blk == [c0 EXCEPT !.blocked = TRUE]
            hid == Hide(c0)
            ask == [hid EXCEPT !.blocked = TRUE]
            era == [hid EXCEPT !.blocked = FALSE, !.pending = NoAttempt, !.reported = @ \cup {r.req.op}]
            red == [c0 EXCEPT !.request = r.req, !.confirmation = r.req]
            late == r.posted /\ r.req.basis.binding = own.binding
<1>6. \/ ~v /\ F.own = own /\ F.ctl = IF late THEN blk ELSE c0
      \/ v /\ r.outcome = "denied" /\ F.own = InvalidateOwner(own) /\ F.ctl = Reset(c0)
      \/ v /\ r.outcome # "denied" /\ r.req.kind = "status" /\ r.outcome # "completed"
         /\ F.own = own /\ F.ctl = ask
      \/ v /\ r.outcome \in {"deleted", "completed"}
         /\ F.own = LaunchRead(c0, InvalidateArchive(own), "refresh", 0) /\ F.ctl = era
      \/ v /\ r.req.kind # "status" /\ r.outcome \notin {"deleted", "completed", "denied", "read"}
         /\ F.own = own /\ F.ctl = Failing(c0, r)
      \/ v /\ r.outcome = "read" /\ F.own = own /\ F.ctl = red
  BY Zenon DEF Finished
<1>7. v /\ r.req.kind = "status" => /\ r.req.op = ctl.pending.op /\ ctl.pending.posted
  <2>. SUFFICES ASSUME v, r.req.kind = "status" PROVE r.req.op = ctl.pending.op /\ ctl.pending.posted
    OBVIOUS
  <2>1. r.req.basis = Basis(c0, own, "status") /\ r.req.basis # NoBasis /\ r.req.op = c0.pending.op
    BY DEF Valid
  <2>2. "status" \in Kinds
    BY DEF Kinds
  <2>. HIDE DEF c0
  <2>3. c0.pending.posted
    BY <1>1, <1>3, <2>1, <2>2, BasisTyped
  <2>. QED
    BY <1>4, <2>1, <2>3
<1>. HIDE DEF F, v, c0
<1>8. /\ hid \in Control /\ hid.confirmation = NoRequest /\ hid.pending = ctl.pending /\ hid.blocked = ctl.blocked
      /\ hid.running = FALSE /\ hid.last = ctl.last /\ hid.sent = ctl.sent /\ hid.reported = ctl.reported
      /\ hid.withdrawals = ctl.withdrawals /\ hid.grantedAt = ctl.grantedAt
  BY <1>3, <1>4, HideFacts
<1>. HIDE DEF hid
<1>. DEFINE Kept(c) == /\ c \in Control /\ c.last = ctl.last /\ c.sent = ctl.sent
                       /\ c.grantedAt = ctl.grantedAt /\ ~c.running
            Ended(c) == Late(c) \/ Denied(c) \/ Asked(c) \/ Erased(c) \/ Failed(c) \/ ReadDone(c)
<1>. SUFFICES Kept(F.ctl) /\ Ended(F.ctl)
  <2>. SUFFICES ASSUME Kept(F.ctl), Ended(F.ctl)
                PROVE  /\ F.ctl \in Control
                       /\ F.ctl.last = ctl.last /\ F.ctl.sent = ctl.sent /\ F.ctl.grantedAt = ctl.grantedAt
                       /\ ~F.ctl.running /\ Quieter(F.ctl, ctl')
                       /\ F.ctl.pending.op = 0 => /\ ctl'.blocked = F.ctl.blocked
                                                  /\ ctl'.withdrawals = F.ctl.withdrawals
    BY <1>2
  <2>. QED
    BY <1>5, SyncFacts
<1>9. TRUE \in BOOLEAN /\ FALSE \in BOOLEAN /\ NoAttempt \in Attempts /\ NoRequest \in Requests
  BY NothingTyped
<1>10. CASE ~v
  <2>1. own' = own /\ F.ctl = IF late THEN blk ELSE c0
    BY <1>5, <1>6, <1>10
  <2>2. Kept(c0) /\ (~late => Late(c0))
    <3>1. Kept(c0)
      BY <1>3, <1>4
    <3>2. ASSUME ~late PROVE Late(c0)
      <4>1. ctl.blocked \in BOOLEAN
        BY <1>1 DEF Control
      <4>2. c0.blocked = (ctl.blocked \/ (done.posted /\ done.req.basis.binding = own.binding))
        BY <1>4, <3>2, <4>1
      <4>. QED
        BY <1>4, <2>1, <4>2 DEF Late, Same
    <3>. QED
      BY <3>1, <3>2
  <2>3. blk \in Control
    BY <1>3, <1>9, Zenon DEF Control
  <2>4. Kept(blk) /\ (late => Late(blk))
    BY <1>3, <1>4, <2>1, <2>3 DEF Late, Same, Control
  <2>. QED
    BY <2>1, <2>2, <2>4
<1>11. CASE v /\ r.outcome = "denied"
  <2>1. own' = InvalidateOwner(own) /\ F.ctl = Reset(c0)
    BY <1>5, <1>6, <1>11
  <2>2. Reset(c0) \in Control /\ Reset(c0).confirmation = NoRequest
    <3>1. Quieter(c0, Reset(c0))
      BY <1>3, ResetFacts
    <3>2. Reset(c0).confirmation = Hide(c0).confirmation
      <4>. DEFINE h == Hide(c0)
      <4>1. h \in Control
        BY <1>3, HideFacts
      <4>. HIDE DEF h
      <4>2. [h EXCEPT !.pending = NoAttempt, !.blocked = FALSE, !.recovery = NoBasis,
                      !.withdrawals = h.withdrawals + 1].confirmation = h.confirmation
        BY <4>1 DEF Control
      <4>. QED
        BY <4>2 DEF Reset, h
    <3>. QED
      BY <1>3, <3>1, <3>2, HideFacts DEF Quieter
  <2>3. Kept(Reset(c0)) /\ Denied(Reset(c0))
    BY <1>3, <1>4, <2>1, <2>2, ResetFacts DEF Denied, Quieter
  <2>. QED
    BY <2>1, <2>3
<1>12. CASE v /\ r.outcome # "denied" /\ r.req.kind = "status" /\ r.outcome # "completed" /\ F.own = own /\ F.ctl = ask
  <2>1. ask \in Control
    BY <1>8, <1>9, Zenon DEF Control
  <2>2. /\ ask.confirmation = hid.confirmation /\ ask.pending = hid.pending /\ ask.blocked
        /\ ask.running = hid.running /\ ask.last = hid.last /\ ask.sent = hid.sent /\ ask.reported = hid.reported
        /\ ask.withdrawals = hid.withdrawals /\ ask.grantedAt = hid.grantedAt
    BY <1>8 DEF Control
  <2>3. own' = own /\ F.ctl = ask /\ r.req.kind = "status" /\ ctl.pending.posted
    BY <1>5, <1>7, <1>12
  <2>. HIDE DEF ask
  <2>4. Kept(ask) /\ Asked(ask)
    BY <1>8, <2>1, <2>2, <2>3 DEF Asked, Same
  <2>. QED
    BY <2>3, <2>4
<1>13. CASE /\ v /\ r.outcome \in {"deleted", "completed"}
            /\ F.own = LaunchRead(c0, InvalidateArchive(own), "refresh", 0) /\ F.ctl = era
  <2>. DEFINE rep == hid.reported \cup {r.req.op}
  <2>1. era = [hid EXCEPT !.blocked = FALSE, !.pending = NoAttempt, !.reported = rep]
    OBVIOUS
  <2>2. rep \in SUBSET Nat
    BY <1>1, <1>8 DEF Control, Requests
  <2>. HIDE DEF rep, era
  <2>3. era \in Control
    BY <1>8, <1>9, <2>1, <2>2, Zenon DEF Control
  <2>4. /\ era.confirmation = hid.confirmation /\ era.pending = NoAttempt /\ era.blocked = FALSE
        /\ era.running = hid.running /\ era.last = hid.last /\ era.sent = hid.sent /\ era.reported = rep
        /\ era.withdrawals = hid.withdrawals /\ era.grantedAt = hid.grantedAt
    BY <1>8, <2>1 DEF Control
  <2>5. own' = LaunchRead(c0, InvalidateArchive(own), "refresh", 0) /\ F.ctl = era
    BY <1>5, <1>13
  <2>6. Kept(era)
    BY <1>8, <2>3, <2>4
  <2>7. Erased(era)
    BY <1>7, <1>8, <1>13, <2>4, <2>5 DEF Erased, rep
  <2>. QED
    BY <2>5, <2>6, <2>7
<1>14. CASE /\ v /\ r.req.kind # "status" /\ r.outcome \notin {"deleted", "completed", "denied", "read"}
            /\ F.own = own /\ F.ctl = Failing(c0, r)
  <2>. DEFINE b == r.posted /\ r.outcome \in {"uncertain", "context_changed"}
              p == IF b THEN c0.pending ELSE NoAttempt
              f == [c0 EXCEPT !.request = NoRequest, !.confirmation = NoRequest, !.blocked = b, !.pending = p]
  <2>1. b \in BOOLEAN /\ p \in Attempts
    BY <1>3, <1>9 DEF Control
  <2>2. F.ctl = f /\ own' = own
    BY <1>5, <1>14 DEF Failing
  <2>. HIDE DEF b, p
  <2>3. f \in Control
    BY <1>3, <1>9, <2>1, Zenon DEF Control
  <2>4. /\ f.confirmation = NoRequest /\ f.pending = p /\ f.blocked = b
        /\ f.running = c0.running /\ f.last = c0.last /\ f.sent = c0.sent /\ f.reported = c0.reported
        /\ f.withdrawals = c0.withdrawals /\ f.grantedAt = c0.grantedAt
    BY <1>3 DEF Control
  <2>. HIDE DEF f
  <2>5. Kept(f)
    BY <1>4, <2>3, <2>4
  <2>6. Failed(f)
    BY <1>4, <1>14, <2>2, <2>4 DEF Failed, b, p
  <2>. QED
    BY <2>2, <2>5, <2>6
<1>15. CASE v /\ r.outcome = "read" /\ F.own = own /\ F.ctl = red
  <2>1. red \in Control
    BY <1>1, <1>3, Zenon DEF Control
  <2>2. /\ red.confirmation = r.req /\ red.pending = c0.pending /\ red.blocked = c0.blocked
        /\ red.running = c0.running /\ red.last = c0.last /\ red.sent = c0.sent /\ red.reported = c0.reported
        /\ red.withdrawals = c0.withdrawals /\ red.grantedAt = c0.grantedAt
    BY <1>3 DEF Control
  <2>3. own' = own /\ F.ctl = red /\ r.outcome = "read"
    BY <1>5, <1>15
  <2>. HIDE DEF red
  <2>4. Kept(red) /\ ReadDone(red)
    BY <1>4, <2>1, <2>2, <2>3 DEF ReadDone, Same
  <2>. QED
    BY <2>3, <2>4
<1>. HIDE DEF Kept, Ended, late, blk, ask, era, red
<1>. QED
  BY <1>6, <1>10, <1>11, <1>12, <1>13, <1>14, <1>15

LEMMA FinishOwner ==
    ASSUME ControlInv, Finish
    PROVE  own' \in Owner
<1>1. own \in Owner
  BY DEF ControlInv, Typed
<1>2. /\ InvalidateOwner(own) \in Owner /\ InvalidateArchive(own) \in Owner
  BY <1>1, OwnerFacts
<1>3. \A d : LaunchRead(d, InvalidateArchive(own), "refresh", 0) \in Owner
  BY <1>2, LaunchFacts DEF Acts
<1>. QED
  BY <1>1, <1>2, <1>3, FinishFacts DEF Late, Denied, Asked, Erased, Failed, ReadDone

LEMMA FinishKeeps ==
    ASSUME ControlInv, Finish
    PROVE  ControlInv'
<1>1. PICK c \in Control :
         /\ c.last = ctl.last /\ c.sent = ctl.sent /\ c.grantedAt = ctl.grantedAt /\ ~c.running
         /\ Quieter(c, ctl')
         /\ Late(c) \/ Denied(c) \/ Asked(c) \/ Erased(c) \/ Failed(c) \/ ReadDone(c)
  BY FinishFacts
<1>2. done.outcome # "none" /\ job' = Idle /\ done' = NoResult /\ core' = core
  BY FinishFacts
<1>3. Attempt(ctl) /\ ctl.withdrawals \in Nat /\ ctl.grantedAt \in Nat /\ ctl.last \in Nat
  BY DEF ControlInv, AttemptInv, Typed, Control
<1>4. done.posted => (ctl.withdrawals = ctl.grantedAt => ctl.pending.op = ctl.last /\ ctl.last # 0)
  BY DEF ControlInv, ResultInv, StakeInv, Sends, Ops
<1>5. Attempt(c)
  <2>1. CASE Late(c)
    BY <1>1, <1>3, <1>4, <2>1 DEF Late, Same, Attempt
  <2>2. CASE Denied(c)
    BY <1>1, <1>3, <2>2 DEF Denied, Attempt, NoAttempt
  <2>3. CASE Asked(c)
    BY <1>1, <1>3, <2>3 DEF Asked, Same, Attempt
  <2>4. CASE Erased(c)
    BY <1>1, <1>3, <2>4 DEF Erased, Attempt, NoAttempt
  <2>5. CASE Failed(c)
    BY <1>1, <1>3, <1>4, <2>5 DEF Failed, Attempt, NoAttempt
  <2>6. CASE ReadDone(c)
    BY <1>1, <1>3, <2>6 DEF ReadDone, Same, Attempt
  <2>. QED
    BY <1>1, <2>1, <2>2, <2>3, <2>4, <2>5, <2>6
<1>6. Attempt(ctl')
  BY <1>1, <1>5, AttemptQuiet
<1>7. c.confirmation.kind # "status"
  BY <1>1, NothingTyped DEF ControlInv, StakeInv, ResultInv, Late, Denied, Asked, Erased, Failed, ReadDone
<1>8. c.reported \subseteq {o \in Ops : core.op[o] = "done"}
  <2>1. ctl.reported \subseteq {o \in Ops : core.op[o] = "done"}
    BY DEF ControlInv, CoreInv
  <2>2. done.outcome \in {"deleted", "completed"} => done.req.op \in Ops /\ core.op[done.req.op] = "done"
    BY DEF ControlInv, ResultInv, StakeInv, Sends
  <2>. QED
    BY <1>1, <2>1, <2>2 DEF Late, Same, Denied, Asked, Erased, Failed, ReadDone
<1>9. /\ ctl' \in Control /\ ~ctl'.running /\ ctl'.sent = ctl.sent /\ ctl'.reported = c.reported
      /\ ctl'.confirmation.kind # "status"
  BY <1>1, <1>7, NothingTyped DEF Quieter
<1>. QED
  BY <1>2, <1>6, <1>8, <1>9, FinishOwner, RestKeeps

-----------------------------------------------------------------------------
(* Core, and the whole next-state relation *)

LEMMA CoreFacts ==
    ASSUME ControlInv, NEW o \in Ops, Execute(o) \/ Refuse(o)
    PROVE  /\ UNCHANGED <<own, ctl, job, done>> /\ core' \in Cores /\ core.op[o] = "sent" /\ o \in ctl.sent
           /\ core'.op[o] = (IF Execute(o) THEN "done" ELSE "refused")
           /\ \A p \in Ops : p # o => core'.op[p] = core.op[p]
           /\ core'.target = core.target /\ core'.live = core.live
           /\ core'.saved = IF Execute(o) THEN core.saved \ core.target[o] ELSE core.saved
<1>1. core \in Cores /\ core.op \in [Ops -> States]
  BY DEF ControlInv, Typed, Cores
<1>2. core.op[o] = "sent" /\ UNCHANGED <<own, ctl, job, done>>
  BY DEF Execute, Refuse
<1>3. o \in ctl.sent
  BY <1>2 DEF ControlInv, CoreInv
<1>. DEFINE ops(s) == [core.op EXCEPT ![o] = s]
            saved == core.saved \ core.target[o]
<1>4. ASSUME NEW s \in {"done", "refused"}
      PROVE  ops(s) \in [Ops -> States] /\ ops(s)[o] = s /\ \A p \in Ops : p # o => ops(s)[p] = core.op[p]
  BY <1>1 DEF States
<1>5. CASE Execute(o)
  <2>1. core' = [core EXCEPT !.op = ops("done"), !.saved = saved] /\ saved \in SUBSET Sids
    BY <1>1, <1>5 DEF Execute, Cores
  <2>2. ops("done") \in [Ops -> States]
    BY <1>4
  <2>. DEFINE f == ops("done")
  <2>3. f[o] = "done" /\ \A p \in Ops : p # o => f[p] = core.op[p]
    BY <1>4
  <2>. HIDE DEF f, saved, ops
  <2>4. /\ core' \in Cores /\ core'.op = f /\ core'.target = core.target /\ core'.live = core.live
        /\ core'.saved = saved
    BY <1>1, <2>1, <2>2 DEF Cores, f
  <2>. QED
    BY <1>2, <1>3, <1>5, <2>3, <2>4 DEF saved
<1>6. CASE ~Execute(o)
  <2>1. core' = [core EXCEPT !.op = ops("refused")]
    BY <1>6 DEF Refuse
  <2>2. ops("refused") \in [Ops -> States]
    BY <1>4
  <2>. DEFINE f == ops("refused")
  <2>3. f[o] = "refused" /\ \A p \in Ops : p # o => f[p] = core.op[p]
    BY <1>4
  <2>. HIDE DEF f, ops
  <2>4. /\ core' \in Cores /\ core'.op = f /\ core'.target = core.target /\ core'.live = core.live
        /\ core'.saved = core.saved
    BY <1>1, <2>1, <2>2 DEF Cores, f
  <2>. QED
    BY <1>2, <1>3, <1>6, <2>3, <2>4
<1>. QED
  BY <1>5, <1>6

LEMMA CoreKeeps ==
    ASSUME ControlInv, NEW o \in Ops, Execute(o) \/ Refuse(o)
    PROVE  ControlInv'
<1>1. /\ UNCHANGED <<own, ctl, job, done>> /\ core' \in Cores /\ core.op[o] = "sent" /\ o \in ctl.sent
      /\ \A p \in Ops : core.op[p] # "sent" => core'.op[p] = core.op[p]
  BY CoreFacts
<1>2. Typed' /\ FlightInv' /\ StakeInv' /\ AttemptInv'
  BY <1>1 DEF ControlInv, Typed, FlightInv, StakeInv, Sends, AttemptInv
<1>3. job.step = "post" \/ done.req.send => ctl.last \in Ops
  BY DEF ControlInv, WorkerInv, StakeInv, Sends
<1>4. WorkerInv'
  BY <1>1, <1>3 DEF ControlInv, WorkerInv
<1>5. ResultInv'
  BY <1>1, <1>3 DEF ControlInv, ResultInv
<1>6. CoreInv'
  BY <1>1 DEF ControlInv, CoreInv
<1>. QED
  BY <1>2, <1>4, <1>5, <1>6 DEF ControlInv

LEMMA ControlStep == ControlInv /\ [Next]_vars => ControlInv'
<1>. SUFFICES ASSUME ControlInv, [Next]_vars PROVE ControlInv'
  OBVIOUS
<1>1. CASE Quiet
  BY <1>1, QuietFacts, QuietKeeps
<1>2. CASE BeginRead("single") \/ BeginRead("bulk") \/ ReadStatus
  BY <1>2, BeginFacts, ReadKeeps
<1>3. CASE \E o \in Ops : Execute(o) \/ Refuse(o)
  BY <1>3, CoreKeeps
<1>4. CASE UNCHANGED vars
  BY <1>4 DEF vars, ControlInv, Typed, FlightInv, StakeInv, Sends, AttemptInv, WorkerInv, ResultInv, CoreInv
<1>. QED
  BY <1>1, <1>2, <1>3, <1>4, ConfirmKeeps, RecoverKeeps, FinishKeeps, WorkKeeps
     DEF Next, Slot, Quiet, Ops

\* Whatever the user, the owner, the worker and Core do in whatever order, every field
\* keeps its type, and the control says it is running exactly while a launch of it is with
\* the worker or in the queue (_launch, _publish, finish).
THEOREM ControlTyped == Spec => []TypeOK
<1>1. Init => ControlInv
  BY ControlInit
<1>2. ControlInv /\ [Next]_vars => ControlInv'
  BY ControlStep
<1>3. ControlInv => TypeOK
  <2>. SUFFICES ASSUME ControlInv PROVE TypeOK
    OBVIOUS
  <2>1. job.step # "none" => job # Idle
    BY DEF Idle
  <2>2. done.outcome # "none" => done # NoResult
    BY DEF NoResult
  <2>3. (job # Idle \/ done # NoResult) <=> ctl.running
    BY <2>1, <2>2 DEF ControlInv, FlightInv
  <2>4. ctl.running \in BOOLEAN
    BY DEF ControlInv, Typed, Control
  <2>5. (job # Idle \/ done # NoResult) = ctl.running
    BY <2>3, <2>4
  <2>. QED
    BY <2>5 DEF TypeOK, ControlInv, Typed, Cores
<1>. QED
  BY <1>1, <1>2, <1>3, PTL DEF Spec

-----------------------------------------------------------------------------
(* What was reported as erased is gone from the screen *)

\* A screen without pages, whose running read belongs to an older view or is unanswered.
LEMMA EmptyScreen ==
    ASSUME NEW o, NEW reported \in SUBSET Ops, NEW target \in [Ops -> SUBSET Sids],
           o.list = {}, o.detail = NoDetail, o.lane.epoch \in Nat, o.epoch \in Nat,
           o.lane.epoch <= o.epoch,
           o.lane.answered /\ o.lane.act = "detail" => o.lane.got \subseteq {o.lane.sid},
           o.lane.epoch < o.epoch \/ ~o.lane.answered
    PROVE  Screen(o, reported, target)
<1>1. o.detail.sid = 0 /\ 0 \notin Sids
  BY SidsAssumption DEF NoDetail
<1>2. \A p \in reported : target[p] \subseteq Sids
  OBVIOUS
<1>. QED
  BY <1>1, <1>2 DEF Screen

LEMMA LaunchScreen ==
    ASSUME NEW c, NEW o \in Owner, NEW act \in Acts, NEW sid \in Sids \cup {0},
           NEW reported, NEW target, Screen(o, reported, target)
    PROVE  Screen(LaunchRead(c, o, act, sid), reported, target)
<1>. DEFINE l == LaunchRead(c, o, act, sid)
<1>1. /\ l \in Owner /\ l.list = o.list /\ l.detail = o.detail /\ l.epoch = o.epoch
      /\ l.lane = o.lane \/ (l.lane.answered = FALSE /\ l.lane.epoch = o.epoch)
  BY LaunchFacts
<1>2. o.epoch \in Nat
  BY DEF Owner
<1>. HIDE DEF l
<1>3. Screen(l, reported, target)
  BY <1>1, <1>2 DEF Screen
<1>. QED
  BY <1>3 DEF l

\* What a step does to the screen when Core, the requests and the reports stay.
LEMMA ScreenKeeps ==
    ASSUME ControlInv, GoneInv, UNCHANGED <<job, done, core>>, ctl'.reported = ctl.reported,
           ctl'.confirmation \in {ctl.confirmation, NoRequest}, Screen(own', ctl.reported, core.target)
    PROVE  GoneInv'
<1>1. ~Erasable(core.live)'
  BY NothingTyped DEF GoneInv, Erasable
<1>2. (\A o \in Ops : core.op[o] = "done" => core.target[o] \cap core.saved = {})'
  BY DEF GoneInv
<1>3. Screen(own, ctl.reported, core.target)'
  OBVIOUS
<1>. QED
  BY <1>1, <1>2, <1>3 DEF GoneInv

\* The owner's screen under the slots that only quieten the control.
LEMMA ShownScreen ==
    ASSUME ControlInv, GoneInv, Quiet, ~Answer
    PROVE  UNCHANGED core /\ Screen(own', ctl.reported, core.target)
<1>1. /\ own \in Owner /\ own.epoch \in Nat /\ own.lane \in Lanes /\ own.lane.epoch \in Nat
      /\ core.target \in [Ops -> SUBSET Sids] /\ ctl.reported \in SUBSET Ops
      /\ Screen(own, ctl.reported, core.target)
  BY DEF ControlInv, Typed, Owner, Lanes, Cores, CoreInv, GoneInv
<1>2. 0 \notin Sids /\ \A p \in ctl.reported : core.target[p] \subseteq Sids
  BY <1>1, SidsAssumption
<1>. DEFINE S(o) == Screen(o, ctl.reported, core.target)
<1>3. CASE Cancel \/ SetVisible \/ ReadState
  BY <1>1, <1>3 DEF Cancel, SetVisible, ReadState
<1>4. CASE ReadRecovery
  BY <1>1, <1>4, LaunchScreen DEF ReadRecovery, Acts
<1>5. CASE OwnerSlot
  <2>0. \A o : Show(o) => own' = o /\ UNCHANGED core
    BY DEF Show
  <2>1. CASE LoadList \/ Refresh
    BY <1>1, <2>0, <2>1, LaunchScreen DEF LoadList, Refresh, Acts
  <2>2. CASE \E sid \in Sids : OpenSaved(sid)
    <3>1. NextView(own) \in Owner /\ S(NextView(own))
      <4>1. NextView(own) \in Owner
        BY <1>1 DEF NextView, Owner
      <4>2. /\ NextView(own).epoch = own.epoch + 1 /\ NextView(own).lane = own.lane
            /\ NextView(own).list = own.list /\ NextView(own).detail = own.detail
        BY <1>1 DEF NextView, Owner
      <4>. HIDE DEF S
      <4>3. S(NextView(own))
        BY <1>1, <4>2 DEF Screen, S
      <4>. QED
        BY <4>1, <4>3
    <3>2. PICK sid \in Sids : OpenSaved(sid)
      BY <2>2
    <3>3. S(LaunchRead(ctl, NextView(own), "detail", sid))
      BY <3>1, LaunchScreen DEF Acts
    <3>. QED
      BY <2>0, <3>2, <3>3 DEF OpenSaved
  <2>3. CASE CloseSaved
    <3>1. /\ own'.epoch = own.epoch + 1 /\ own'.lane = own.lane /\ own'.list = own.list /\ own'.detail = NoDetail
          /\ UNCHANGED core
      <4>. DEFINE e == own.epoch + 1
                  n == [own EXCEPT !.epoch = e]
      <4>1. own' = [n EXCEPT !.detail = NoDetail] /\ UNCHANGED core
        BY <2>0, <2>3 DEF CloseSaved, NextView
      <4>2. e \in Nat
        BY <1>1
      <4>. HIDE DEF e
      <4>3. n \in Owner /\ n.epoch = e /\ n.lane = own.lane /\ n.list = own.list
        BY <1>1, <4>2 DEF Owner
      <4>. HIDE DEF n
      <4>4. own'.epoch = n.epoch /\ own'.lane = n.lane /\ own'.list = n.list /\ own'.detail = NoDetail
        BY <4>1, <4>3 DEF Owner
      <4>. QED
        BY <4>1, <4>3, <4>4 DEF e
    <3>. QED
      BY <1>1, <1>2, <3>1 DEF Screen, NoDetail
  <2>4. CASE Expire
    <3>1. /\ own'.epoch = own.epoch /\ own'.lane = own.lane /\ own'.list = own.list /\ own'.detail = NoDetail
          /\ UNCHANGED core
      BY <1>1, <2>0, <2>4 DEF Expire, Owner
    <3>. QED
      BY <1>1, <1>2, <3>1 DEF Screen, NoDetail
  <2>5. CASE End
    <3>. DEFINE l == [NoLane EXCEPT !.act = "end", !.epoch = own.epoch]
    <3>1. l.epoch = own.epoch /\ l.answered = FALSE
      BY DEF NoLane
    <3>2. own' = [own EXCEPT !.lane = l] /\ UNCHANGED core
      BY <2>0, <2>5 DEF End
    <3>. HIDE DEF l
    <3>3. own'.epoch = own.epoch /\ own'.lane = l /\ own'.list = own.list /\ own'.detail = own.detail
      BY <1>1, <3>2 DEF Owner
    <3>. QED
      BY <1>1, <3>1, <3>2, <3>3 DEF Screen
  <2>6. CASE SetForeground
    <3>. DEFINE w == InvalidateOwner(own)
                f == ~w.foreground
                o == [w EXCEPT !.foreground = f]
    <3>1. w \in Owner /\ w.list = {} /\ w.detail = NoDetail /\ w.epoch = own.epoch + 1 /\ w.lane = NoLane
      BY <1>1, OwnerFacts
    <3>2. own' = LaunchRead(ctl, o, "refresh", 0) /\ UNCHANGED core /\ f \in BOOLEAN
      BY <2>6 DEF SetForeground
    <3>. HIDE DEF w, f
    <3>3. o \in Owner
      BY <3>1, <3>2, Zenon DEF Owner
    <3>4. o.list = {} /\ o.detail = NoDetail /\ o.epoch = own.epoch + 1 /\ o.lane = NoLane
      BY <3>1 DEF Owner
    <3>. HIDE DEF o
    <3>5. S(o)
      BY <1>1, <3>4, EmptyScreen DEF NoLane
    <3>6. S(LaunchRead(ctl, o, "refresh", 0))
      BY <3>3, <3>5, LaunchScreen DEF Acts
    <3>. QED
      BY <3>2, <3>6
  <2>7. CASE Deliver
    <3>. DEFINE o == [own EXCEPT !.lane = NoLane]
    <3>1. /\ o \in Owner /\ o.lane = NoLane /\ o.epoch = own.epoch /\ o.list = own.list /\ o.detail = own.detail
      BY <1>1, NothingTyped DEF Owner
    <3>2. own.lane.answered
      BY <2>7 DEF Deliver
    <3>. HIDE DEF o
    <3>3. \/ own' = o
          \/ own' = [o EXCEPT !.list = own.lane.got] /\ own.lane.act = "list" /\ own.lane.epoch = own.epoch
          \/ /\ own' = [o EXCEPT !.detail = [sid |-> own.lane.sid, until |-> own.now + 1]]
             /\ own.lane.act = "detail" /\ own.lane.epoch = own.epoch /\ own.lane.got # {}
          \/ own' = [o EXCEPT !.supported = TRUE,
                              !.session = IF own.lane.got = {} THEN 0 ELSE CHOOSE x \in own.lane.got : TRUE]
      BY <2>0, <2>7 DEF Deliver, o
    <3>4. own'.lane = NoLane /\ own'.epoch = own.epoch
      BY <3>1, <3>3 DEF Owner
    <3>5. \/ own'.list = own.list /\ own'.detail = own.detail
          \/ /\ own'.list = own.lane.got /\ own'.detail = own.detail
             /\ own.lane.act = "list" /\ own.lane.epoch = own.epoch
          \/ /\ own'.list = own.list /\ own'.detail.sid = own.lane.sid
             /\ own.lane.act = "detail" /\ own.lane.epoch = own.epoch /\ own.lane.got # {}
      <4>1. [o EXCEPT !.list = own.lane.got].list = own.lane.got
            /\ [o EXCEPT !.list = own.lane.got].detail = o.detail
        BY <3>1 DEF Owner
      <4>2. \A d : [o EXCEPT !.detail = d].list = o.list /\ [o EXCEPT !.detail = d].detail = d
        BY <3>1 DEF Owner
      <4>. DEFINE d == [sid |-> own.lane.sid, until |-> own.now + 1]
                  y == IF own.lane.got = {} THEN 0 ELSE CHOOSE x \in own.lane.got : TRUE
      <4>4. d.sid = own.lane.sid
        OBVIOUS
      <4>5. \/ own' = o
            \/ own' = [o EXCEPT !.list = own.lane.got] /\ own.lane.act = "list" /\ own.lane.epoch = own.epoch
            \/ /\ own' = [o EXCEPT !.detail = d]
               /\ own.lane.act = "detail" /\ own.lane.epoch = own.epoch /\ own.lane.got # {}
            \/ own' = [o EXCEPT !.supported = TRUE, !.session = y]
        BY <3>3
      <4>. HIDE DEF d, y
      <4>6. CASE own' = o
        BY <3>1, <4>6
      <4>7. CASE own' = [o EXCEPT !.list = own.lane.got] /\ own.lane.act = "list" /\ own.lane.epoch = own.epoch
        BY <3>1, <4>1, <4>7
      <4>8. CASE /\ own' = [o EXCEPT !.detail = d]
                 /\ own.lane.act = "detail" /\ own.lane.epoch = own.epoch /\ own.lane.got # {}
        <5>1. own'.list = o.list /\ own'.detail = d
          BY <4>2, <4>8
        <5>. QED
          BY <3>1, <4>4, <4>8, <5>1
      <4>9. CASE own' = [o EXCEPT !.supported = TRUE, !.session = y]
        <5>1. own'.list = o.list /\ own'.detail = o.detail
          BY <3>1, <4>9 DEF Owner
        <5>. QED
          BY <3>1, <5>1
      <4>. QED
        BY <4>5, <4>6, <4>7, <4>8, <4>9
    <3>6. NoLane.epoch = 0 /\ ~NoLane.answered
      BY DEF NoLane
    <3>. QED
      BY <1>1, <2>0, <2>7, <3>2, <3>4, <3>5, <3>6 DEF Deliver, Screen
  <2>8. CASE Tick \/ \E b \in Bindings \cup {NoBinding} : Rebind(b)
    <3>1. /\ UNCHANGED core /\ own'.lane = own.lane /\ own'.epoch = own.epoch
          /\ own'.list = own.list /\ own'.detail = own.detail
      BY <1>1, <2>8 DEF Tick, Rebind, Owner
    <3>. QED
      BY <1>1, <3>1 DEF Screen
  <2>. QED
    BY <1>5, <2>1, <2>2, <2>3, <2>4, <2>5, <2>6, <2>7, <2>8 DEF OwnerSlot
<1>. QED
  BY <1>3, <1>4, <1>5 DEF Quiet

LEMMA AnswerGone ==
    ASSUME ControlInv, GoneInv, Answer
    PROVE  GoneInv'
<1>1. /\ own \in Owner /\ own.lane \in Lanes /\ core \in Cores /\ core.target \in [Ops -> SUBSET Sids]
      /\ job.req.targets \subseteq Sids /\ done.req.targets \subseteq Sids
      /\ ctl.confirmation.targets \subseteq Sids /\ core.saved \subseteq Sids
      /\ ctl.reported \subseteq {o \in Ops : core.op[o] = "done"} /\ 0 \notin Sids
  BY SidsAssumption DEF ControlInv, Typed, Owner, Cores, Jobs, Results, Requests, Control, CoreInv
<1>. DEFINE got == IF own.lane.act = "list" THEN core.saved
                   ELSE IF own.lane.act = "detail" THEN core.saved \cap {own.lane.sid}
                   ELSE {core'.live} \ {0}
            l == [own.lane EXCEPT !.answered = TRUE, !.got = got]
<1>2. own' = [own EXCEPT !.lane = l] /\ UNCHANGED <<ctl, job, done>>
  <2>1. own' = [own EXCEPT !.lane.answered = TRUE, !.lane.got = got] /\ UNCHANGED <<ctl, job, done>>
    BY DEF Answer
  <2>. HIDE DEF got
  <2>. QED
    BY <1>1, <2>1 DEF Owner, Lanes
<1>3. /\ core'.op = core.op /\ core'.target = core.target
      /\ \/ core' = core
         \/ /\ core'.saved = core.saved \cup {core.live} /\ core'.live = 0 /\ core.live # 0
            /\ own.lane.act = "end"
  <2>1. \/ core' = core
        \/ /\ core' = [core EXCEPT !.saved = @ \cup {core.live}, !.live = 0] /\ core.live # 0
           /\ own.lane.act = "end"
    BY DEF Answer
  <2>. QED
    BY <1>1, <2>1 DEF Cores
<1>4. /\ own.lane.act = "list" => got = core.saved
      /\ own.lane.act = "detail" => got = core.saved \cap {own.lane.sid}
  OBVIOUS
<1>. HIDE DEF got
<1>5. l.act = own.lane.act /\ l.epoch = own.lane.epoch /\ l.sid = own.lane.sid /\ l.got = got
  BY <1>1 DEF Lanes
<1>. HIDE DEF l
<1>6. own'.lane = l /\ own'.epoch = own.epoch /\ own'.list = own.list /\ own'.detail = own.detail
  BY <1>1, <1>2 DEF Owner
<1>7. Screen(own', ctl.reported, core.target)
  <2>1. \A o \in ctl.reported : core.target[o] \cap core.saved = {}
    BY <1>1 DEF GoneInv
  <2>2. own.lane.act \in {"list", "detail"} => \A o \in ctl.reported : core.target[o] \cap got = {}
    BY <1>4, <2>1
  <2>. QED
    BY <1>4, <1>5, <1>6, <2>2 DEF GoneInv, Screen
<1>8. ~Erasable(core.live)'
  BY <1>1, <1>2, <1>3 DEF GoneInv, Erasable
<1>9. \A o \in Ops : core'.op[o] = "done" => core'.target[o] \cap core'.saved = {}
  BY <1>1, <1>3 DEF GoneInv, Erasable
<1>10. Screen(own, ctl.reported, core.target)'
  BY <1>2, <1>3, <1>7
<1>. QED
  BY <1>8, <1>9, <1>10 DEF GoneInv

\* The steps of the worker and the launches leave the screen as it is: what may be erased
\* does not grow by anything that is live.
LEMMA TargetsGone ==
    ASSUME ControlInv, GoneInv, own' = own, core'.live = core.live, ctl'.reported = ctl.reported,
           \A s : Erasable(s)' => Erasable(s),
           \A o \in Ops : core'.op[o] = "done" => core'.target[o] \cap core'.saved = {},
           \A o \in ctl.reported : core'.target[o] = core.target[o]
    PROVE  GoneInv'
<1>1. Screen(own, ctl.reported, core.target)'
  BY DEF GoneInv, Screen
<1>2. ~Erasable(core.live)'
  BY DEF GoneInv
<1>. QED
  BY <1>1, <1>2 DEF GoneInv

LEMMA PublishGone ==
    ASSUME ControlInv, GoneInv, UNCHANGED <<own, ctl, core>>, NEW e, Publish(e)
    PROVE  GoneInv'
<1>1. job'.req = NoRequest /\ done'.req = job.req
  BY DEF Publish, Idle
<1>2. \A s : Erasable(s)' => Erasable(s)
  BY <1>1, NothingTyped DEF Erasable
<1>. QED
  BY <1>2, TargetsGone DEF GoneInv

LEMMA SameGone ==
    ASSUME ControlInv, GoneInv, UNCHANGED <<own, core, done>>, job'.req = job.req,
           ctl'.reported = ctl.reported, ctl'.confirmation = ctl.confirmation
    PROVE  GoneInv'
<1>1. \A s : Erasable(s)' => Erasable(s)
  BY DEF Erasable
<1>. QED
  BY <1>1, TargetsGone DEF GoneInv

LEMMA WorkGone ==
    ASSUME ControlInv, GoneInv, Work
    PROVE  GoneInv'
<1>0. \A s : job' = [job EXCEPT !.step = s] => job'.req = job.req
  BY DEF ControlInv, Typed, Jobs
<1>1. CASE FreshRead
  <2>1. UNCHANGED <<own, ctl, core>>
    BY <1>1, FreshCases
  <2>2. ASSUME NEW e, Publish(e) PROVE GoneInv'
    BY <2>1, <2>2, PublishGone
  <2>3. ASSUME NEW s, Step(s) PROVE GoneInv'
    BY <1>0, <2>1, <2>3, SameGone DEF Step
  <2>4. CASE /\ job' = Idle /\ done' = ReadResult /\ job.req.kind # "status"
             /\ job.req.kind # "single" \/ job.req.basis.sid \in core.saved
    <3>1. job'.req = NoRequest /\ done'.req.targets \subseteq core.saved
      BY <2>4, ReadResultFacts DEF Idle
    <3>2. \A s : Erasable(s)' => Erasable(s)
      BY <2>1, <3>1, NothingTyped DEF Erasable
    <3>. QED
      BY <2>1, <3>2, TargetsGone DEF GoneInv
  <2>. QED
    BY <1>1, <2>2, <2>3, <2>4, FreshCases
<1>2. CASE AskStatus
  BY <1>2, AskCases, PublishGone
<1>3. CASE Claim
  <2>1. CASE Step("mark")
    BY <1>0, <1>3, <2>1, ClaimCases, SameGone DEF Step
  <2>2. ASSUME NEW e, Publish(e) PROVE GoneInv'
    BY <1>3, <2>2, ClaimCases, PublishGone
  <2>. QED
    BY <1>3, <2>1, <2>2, ClaimCases
<1>4. CASE Mark
  BY <1>4, MarkFacts, SameGone
<1>5. CASE Post
  <2>1. CASE Publish("context_changed") /\ UNCHANGED core
    BY <1>5, <2>1, PostCases, PublishGone
  <2>2. CASE /\ Step("wait")
             /\ core' = [core EXCEPT !.op = [core.op EXCEPT ![ctl.last] = "sent"],
                                     !.target = [core.target EXCEPT ![ctl.last] = job.req.targets]]
    <3>. DEFINE ops == [core.op EXCEPT ![ctl.last] = "sent"]
                ts  == [core.target EXCEPT ![ctl.last] = job.req.targets]
    <3>1. /\ ctl.last \in Ops /\ core.op[ctl.last] = "none" /\ UNCHANGED <<own, ctl, done>>
          /\ job'.req = job.req
      BY <1>0, <1>5, <2>2, PostCases DEF Step
    <3>2. core.op \in [Ops -> States] /\ core.target \in [Ops -> SUBSET Sids] /\ core \in Cores
      BY DEF ControlInv, Typed, Cores
    <3>3. /\ ops[ctl.last] = "sent" /\ ts[ctl.last] = job.req.targets
          /\ \A o \in Ops : o # ctl.last => ops[o] = core.op[o] /\ ts[o] = core.target[o]
      BY <3>1, <3>2
    <3>4. core' = [core EXCEPT !.op = ops, !.target = ts]
      BY <2>2
    <3>. HIDE DEF ops, ts
    <3>5. core'.op = ops /\ core'.target = ts /\ core'.live = core.live /\ core'.saved = core.saved
      BY <3>2, <3>4 DEF Cores
    <3>6. \A s : Erasable(s)' => Erasable(s)
      BY <3>1, <3>3, <3>5 DEF Erasable
    <3>7. \A o \in ctl.reported : o \in Ops /\ core.op[o] = "done"
      BY DEF ControlInv, CoreInv
    <3>8. \A o \in ctl.reported : core'.target[o] = core.target[o]
      BY <3>1, <3>3, <3>5, <3>7
    <3>9. \A o \in Ops : core'.op[o] = "done" => core'.target[o] \cap core'.saved = {}
      BY <3>1, <3>3, <3>5 DEF GoneInv
    <3>. QED
      BY <3>1, <3>5, <3>6, <3>8, <3>9, TargetsGone
  <2>. QED
    BY <1>5, <2>1, <2>2, PostCases
<1>6. CASE Receive
  BY <1>6, ReceiveCases, PublishGone
<1>. QED
  BY <1>1, <1>2, <1>3, <1>4, <1>5, <1>6 DEF Work

LEMMA StartGone ==
    ASSUME ControlInv, GoneInv, NEW c \in Control, NEW r \in Requests, Start(c, r),
           c.reported = ctl.reported, \A s \in r.targets : Erasable(s)
    PROVE  GoneInv'
<1>1. \A s : Erasable(s)' => Erasable(s)
  BY StartFacts, NothingTyped DEF Erasable
<1>. QED
  BY <1>1, StartFacts, TargetsGone DEF GoneInv

LEMMA FinishGone ==
    ASSUME ControlInv, GoneInv, Finish
    PROVE  GoneInv'
<1>1. PICK c \in Control :
         /\ c.last = ctl.last /\ c.sent = ctl.sent /\ c.grantedAt = ctl.grantedAt /\ ~c.running
         /\ Quieter(c, ctl')
         /\ Late(c) \/ Denied(c) \/ Asked(c) \/ Erased(c) \/ Failed(c) \/ ReadDone(c)
  BY FinishFacts
<1>2. job' = Idle /\ job'.req = NoRequest /\ done'.req = NoRequest /\ core' = core
  BY FinishFacts DEF Idle, NoResult
<1>3. ctl'.reported = c.reported /\ ctl'.confirmation \in {c.confirmation, NoRequest}
  BY <1>1 DEF Quieter
<1>4. c.confirmation \in {ctl.confirmation, NoRequest, done.req}
  BY <1>1 DEF Late, Denied, Asked, Erased, Failed, ReadDone
<1>5. \A s : Erasable(s)' => Erasable(s)
  BY <1>2, <1>3, <1>4, NothingTyped DEF Erasable
<1>6. /\ own \in Owner /\ own.epoch \in Nat /\ own.lane.epoch \in Nat /\ core.target \in [Ops -> SUBSET Sids]
      /\ Screen(own, ctl.reported, core.target)
  BY DEF ControlInv, Typed, Owner, Lanes, Cores, GoneInv
<1>7. ctl'.reported \in SUBSET Ops
  BY FinishKeeps DEF ControlInv, CoreInv
<1>8. /\ InvalidateArchive(own) \in Owner /\ Screen(InvalidateArchive(own), ctl'.reported, core.target)
      /\ Screen(InvalidateOwner(own), ctl'.reported, core.target)
  <2>. DEFINE a == InvalidateArchive(own)
              w == InvalidateOwner(own)
  <2>1. /\ a \in Owner /\ a.list = {} /\ a.detail = NoDetail /\ a.epoch = own.epoch + 1 /\ a.lane = own.lane
        /\ w.list = {} /\ w.detail = NoDetail /\ w.epoch = own.epoch + 1 /\ w.lane = NoLane
    BY <1>6, OwnerFacts
  <2>2. own.lane.epoch <= own.epoch
        /\ (own.lane.answered /\ own.lane.act = "detail" => own.lane.got \subseteq {own.lane.sid})
    BY <1>6 DEF Screen
  <2>3. NoLane.epoch = 0 /\ ~NoLane.answered
    BY DEF NoLane
  <2>. HIDE DEF a, w
  <2>4. Screen(a, ctl'.reported, core.target)
    BY <1>6, <1>7, <2>1, <2>2, EmptyScreen
  <2>5. Screen(w, ctl'.reported, core.target)
    BY <1>6, <1>7, <2>1, <2>3, EmptyScreen
  <2>. QED
    BY <2>1, <2>4, <2>5 DEF a, w
<1>9. \A d : Screen(LaunchRead(d, InvalidateArchive(own), "refresh", 0), ctl'.reported, core.target)
  BY <1>8, LaunchScreen DEF Acts
<1>10. Screen(own', ctl'.reported, core.target)
  <2>1. CASE own' = own /\ c.reported = ctl.reported
    BY <1>3, <1>6, <2>1
  <2>2. CASE Denied(c) \/ Erased(c)
    BY <1>8, <1>9, <2>2 DEF Denied, Erased
  <2>. QED
    BY <1>1, <2>1, <2>2 DEF Late, Asked, Failed, ReadDone, Same
<1>11. ~Erasable(core.live)'
  BY <1>2, <1>5 DEF GoneInv
<1>12. Screen(own, ctl.reported, core.target)'
  BY <1>2, <1>10
<1>. QED
  BY <1>2, <1>11, <1>12 DEF GoneInv

LEMMA GoneStep == ControlInv /\ GoneInv /\ [Next]_vars => GoneInv'
<1>. SUFFICES ASSUME ControlInv, GoneInv, [Next]_vars PROVE GoneInv'
  OBVIOUS
<1>1. CASE Quiet
  <2>1. CASE Answer
    BY <2>1, AnswerGone
  <2>2. CASE ~Answer
    BY <1>1, <2>2, ShownScreen, QuietFacts, ScreenKeeps DEF Quieter
  <2>. QED
    BY <2>1, <2>2
<1>2. CASE BeginRead("single") \/ BeginRead("bulk") \/ ReadStatus
  <2>1. PICK r \in Requests : Start(ctl, r) /\ r.targets = {}
    BY <1>2, BeginFacts
  <2>2. ctl \in Control
    BY DEF ControlInv, Typed
  <2>. QED
    BY <2>1, <2>2, StartGone
<1>3. CASE Confirm
  <2>1. CASE Quieter(ctl, ctl') /\ UNCHANGED <<own, job, done, core>>
    BY <2>1, ScreenKeeps DEF Quieter, GoneInv
  <2>2. ASSUME NEW c \in Control, NEW r \in Requests, Start(c, r),
               r.targets = ctl.confirmation.targets, c.reported = ctl.reported
        PROVE  GoneInv'
    BY <2>2, StartGone DEF Erasable
  <2>. QED
    BY <1>3, <2>1, <2>2, ConfirmFacts
<1>4. CASE Recover
  <2>1. /\ own \in Owner /\ own.epoch \in Nat /\ own.lane.epoch \in Nat /\ core.target \in [Ops -> SUBSET Sids]
        /\ ctl.reported \in SUBSET Ops /\ Screen(own, ctl.reported, core.target)
    BY DEF ControlInv, Typed, Owner, Lanes, Cores, CoreInv, GoneInv
  <2>2. own' = InvalidateArchive(own) /\ UNCHANGED <<job, done, core>>
        /\ ctl'.reported = ctl.reported /\ ctl'.confirmation = NoRequest
    BY <1>4, RecoverFacts DEF Quieter
  <2>3. /\ own'.list = {} /\ own'.detail = NoDetail /\ own'.epoch = own.epoch + 1 /\ own'.lane = own.lane
    BY <2>1, <2>2, OwnerFacts
  <2>4. Screen(own', ctl.reported, core.target)
    <3>1. own.lane.epoch <= own.epoch
          /\ (own.lane.answered /\ own.lane.act = "detail" => own.lane.got \subseteq {own.lane.sid})
      BY <2>1 DEF Screen
    <3>. QED
      BY <2>1, <2>3, <3>1, EmptyScreen
  <2>. QED
    BY <2>2, <2>4, ScreenKeeps
<1>5. CASE \E o \in Ops : Execute(o) \/ Refuse(o)
  <2>1. PICK o \in Ops : Execute(o) \/ Refuse(o)
    BY <1>5
  <2>2. \A s : Erasable(s)' => Erasable(s)
    BY <2>1, CoreFacts DEF Erasable
  <2>3. \A p \in Ops : core'.op[p] = "done" => core'.target[p] \cap core'.saved = {}
    <3>1. \A p \in Ops : core.op[p] = "done" => core.target[p] \cap core.saved = {}
      BY DEF GoneInv
    <3>2. /\ core'.target = core.target /\ \A p \in Ops : p # o => core'.op[p] = core.op[p]
          /\ core'.saved = IF Execute(o) THEN core.saved \ core.target[o] ELSE core.saved
          /\ core'.op[o] = IF Execute(o) THEN "done" ELSE "refused"
      BY <2>1, CoreFacts
    <3>3. core'.op[o] = "done" => core'.target[o] \cap core'.saved = {}
      BY <3>2
    <3>4. core'.saved \subseteq core.saved
      BY <3>2
    <3>. QED
      BY <3>1, <3>2, <3>3, <3>4
  <2>4. own' = own /\ ctl' = ctl /\ core'.target = core.target /\ core'.live = core.live
    BY <2>1, CoreFacts
  <2>. QED
    BY <2>2, <2>3, <2>4, TargetsGone
<1>6. CASE UNCHANGED vars
  BY <1>6 DEF vars, GoneInv, Erasable
<1>. QED
  BY <1>1, <1>2, <1>3, <1>4, <1>5, <1>6, FinishGone, WorkGone DEF Next, Slot, Quiet, Ops

LEMMA GoneInit == Init => GoneInv
<1>. SUFFICES ASSUME Init PROVE GoneInv
  OBVIOUS
<1>1. PICK live \in Sids \cup {0} :
         core = [live |-> live, saved |-> Sids \ {live}, op |-> [o \in 1..MaxOps |-> "none"],
                 target |-> [o \in 1..MaxOps |-> {}]]
  BY DEF Init
<1>2. job.req = NoRequest /\ done.req = NoRequest /\ ctl.confirmation = NoRequest /\ ctl.reported = {}
  BY DEF Init, Idle, NoResult
<1>3. ~Erasable(core.live)
  BY <1>1, <1>2, NothingTyped DEF Erasable, Ops
<1>4. Screen(own, ctl.reported, core.target)
  BY <1>2 DEF Init, Screen, NoLane
<1>. QED
  BY <1>1, <1>3, <1>4 DEF GoneInv, Ops

\* Once the screen reported an erasure, nothing it erased is listed or opened again, whatever
\* page was read before it, and whichever Session was live, ended or erased meanwhile
\* (finish, invalidateArchive, the view epoch of _deliver).
THEOREM ErasedStaysGone == Spec => []ErasedNotShown
<1>1. Init => ControlInv /\ GoneInv
  BY ControlInit, GoneInit
<1>2. ControlInv /\ GoneInv /\ [Next]_vars => (ControlInv /\ GoneInv)'
  BY ControlStep, GoneStep
<1>3. ControlInv /\ GoneInv => ErasedNotShown
  BY DEF GoneInv, Screen, ErasedNotShown
<1>. QED
  BY <1>1, <1>2, <1>3, PTL DEF Spec

-----------------------------------------------------------------------------
(* The control implements ErasurePromise *)

\* The mapped state, by name.
Held    == ctl.blocked \/ \E o \in Ops : Sending(o)
Carried == {o \in Ops : core.op[o] = "done"}
Voids   == {o \in Ops : \/ core.op[o] = "refused"
                        \/ o <= ctl.last /\ o \notin ctl.sent /\ ~(job.req.op = o /\ job.req.send)}
Ledger(last, sent, reported, withdrawals, grantedAt) ==
    /\ ctl'.last = last /\ ctl'.sent = sent /\ ctl'.reported = reported
    /\ ctl'.withdrawals = withdrawals /\ ctl'.grantedAt = grantedAt
Unspoken == Ledger(ctl.last, ctl.sent, ctl.reported, ctl.withdrawals, ctl.grantedAt)
Abstract == [Promise!PromiseNext]_(Promise!promise)

LEMMA HeldIs ==
    ControlInv => Held = (ctl.blocked \/ job.req.send \/ done.req.send) /\ Held \in BOOLEAN
<1>. SUFFICES ASSUME ControlInv
              PROVE  Held = (ctl.blocked \/ job.req.send \/ done.req.send) /\ Held \in BOOLEAN
  OBVIOUS
<1>1. (job.req.send => job.req.op \in Ops) /\ (done.req.send => done.req.op \in Ops)
  BY DEF ControlInv, StakeInv, Sends
<1>2. (\E o \in Ops : Sending(o)) <=> job.req.send \/ done.req.send
  BY <1>1 DEF Sending
<1>. QED
  BY <1>2 DEF Held

LEMMA HeldThen ==
    ASSUME ControlInv'
    PROVE  Held' = (ctl'.blocked \/ job'.req.send \/ done'.req.send) /\ Held' \in BOOLEAN
<1>1. (job'.req.send => job'.req.op \in Ops) /\ (done'.req.send => done'.req.op \in Ops)
  BY DEF ControlInv, StakeInv, Sends
<1>2. (\E o \in Ops : Sending(o))' <=> job'.req.send \/ done'.req.send
  BY <1>1 DEF Sending
<1>. QED
  BY <1>2 DEF Held

\* What Core did and what became void are unchanged when nothing they rest on changed.
LEMMA VoidsStay ==
    ASSUME core'.op = core.op, ctl'.last = ctl.last, ctl'.sent = ctl.sent,
           job'.req = job.req \/ (~job'.req.send /\ ~job.req.send)
    PROVE  Carried' = Carried /\ Voids' = Voids
BY DEF Carried, Voids

LEMMA Stutters ==
    ASSUME Unspoken, Held' = Held, Carried' = Carried, Voids' = Voids
    PROVE  Abstract
BY DEF Abstract, Promise!promise, Unspoken, Ledger, Held, Carried, Voids

LEMMA Withdraws ==
    ASSUME Ledger(ctl.last, ctl.sent, ctl.reported, ctl.withdrawals + 1, ctl.grantedAt),
           Held' \in {Held, FALSE}, Carried' = Carried, Voids' = Voids
    PROVE  Abstract
BY DEF Abstract, Promise!PromiseNext, Promise!Withdraw, Ledger, Held, Carried, Voids

LEMMA Forgets ==
    ASSUME Unspoken, Held, Held' = FALSE, ctl.withdrawals # ctl.grantedAt, Carried' = Carried, Voids' = Voids
    PROVE  Abstract
BY DEF Abstract, Promise!PromiseNext, Promise!Forget, Unspoken, Ledger, Held, Carried, Voids

LEMMA Settles ==
    ASSUME Unspoken, Held, Held' = FALSE, ctl.last \in Voids, Carried' = Carried, Voids' = Voids
    PROVE  Abstract
BY DEF Abstract, Promise!PromiseNext, Promise!Settle, Unspoken, Ledger, Held, Carried, Voids

LEMMA Reports ==
    ASSUME Ledger(ctl.last, ctl.sent, ctl.reported \cup {ctl.last}, ctl.withdrawals, ctl.grantedAt),
           Held, Held' = FALSE, ctl.last \in Carried, Carried' = Carried, Voids' = Voids
    PROVE  Abstract
BY DEF Abstract, Promise!PromiseNext, Promise!Report, Ledger, Held, Carried, Voids

LEMMA Grants ==
    ASSUME Ledger(ctl.last + 1, ctl.sent, ctl.reported, ctl.withdrawals, ctl.withdrawals),
           ~Held, Held' = TRUE, ctl.last < MaxOps, Carried' = Carried, Voids' = Voids
    PROVE  Abstract
BY DEF Abstract, Promise!PromiseNext, Promise!Grant, Ledger, Held, Carried, Voids

LEMMA SendsOff ==
    ASSUME Ledger(ctl.last, ctl.sent \cup {ctl.last}, ctl.reported, ctl.withdrawals, ctl.grantedAt),
           Held, Held' = Held, ctl.last # 0, ctl.last \notin ctl.sent \cup Voids,
           Carried' = Carried, Voids' = Voids
    PROVE  Abstract
BY DEF Abstract, Promise!PromiseNext, Promise!Send, Ledger, Held, Carried, Voids

LEMMA CarriesOut ==
    ASSUME Unspoken, Held' = Held, NEW o \in Ops, o \in ctl.sent \ (Carried \cup Voids),
           Carried' = Carried \cup {o}, Voids' = Voids
    PROVE  Abstract
<1>1. Promise!Execute(o) /\ o \in 1..MaxOps
  BY DEF Promise!Execute, Unspoken, Ledger, Held, Carried, Voids, Ops
<1>. QED
  BY <1>1 DEF Abstract, Promise!PromiseNext

LEMMA Refuses ==
    ASSUME Unspoken, Held' = Held, NEW o \in Ops, o \in ctl.sent \cup ({ctl.last} \ {0}),
           o \notin Carried \cup Voids, Voids' = Voids \cup {o}, Carried' = Carried
    PROVE  Abstract
<1>1. Promise!Refuse(o) /\ o \in 1..MaxOps
  BY DEF Promise!Refuse, Unspoken, Ledger, Held, Carried, Voids, Ops
<1>. QED
  BY <1>1 DEF Abstract, Promise!PromiseNext

\* Hiding, resetting and synchronising: nothing, or the authority is withdrawn.
LEMMA QuietMaps ==
    ASSUME ControlInv, ControlInv', Quieter(ctl, ctl'), core'.op = core.op, UNCHANGED <<job, done>>
    PROVE  Abstract
<1>1. Carried' = Carried /\ Voids' = Voids
  BY VoidsStay DEF Quieter
<1>2. Held = (ctl.blocked \/ job.req.send \/ done.req.send) /\ Held \in BOOLEAN
  BY HeldIs
<1>3. Held' = (ctl'.blocked \/ job.req.send \/ done.req.send) /\ Held' \in BOOLEAN
  BY HeldThen
<1>4. CASE ctl'.blocked = ctl.blocked /\ ctl'.withdrawals = ctl.withdrawals
  BY <1>1, <1>2, <1>3, <1>4, Stutters DEF Unspoken, Ledger, Quieter
<1>5. CASE ctl'.blocked = FALSE /\ ctl'.withdrawals = ctl.withdrawals + 1
  <2>1. Held' \in {Held, FALSE}
    BY <1>2, <1>3, <1>5
  <2>. QED
    BY <1>1, <1>5, <2>1, Withdraws DEF Ledger, Quieter
<1>. QED
  BY <1>4, <1>5 DEF Quieter

LEMMA BeginMaps ==
    ASSUME ControlInv, ControlInv', BeginRead("single") \/ BeginRead("bulk") \/ ReadStatus
    PROVE  Abstract
<1>1. PICK r \in Requests : Start(ctl, r) /\ ~ctl.running /\ ~r.send
  BY BeginFacts
<1>2. ctl \in Control /\ ~job.req.send /\ ~done.req.send
  BY <1>1, AtRest DEF ControlInv, Typed
<1>3. /\ Unspoken /\ ctl'.blocked = ctl.blocked /\ job'.req = r /\ UNCHANGED <<core, done>>
  BY <1>1, <1>2, StartFacts DEF Unspoken, Ledger
<1>4. Carried' = Carried /\ Voids' = Voids
  <2>1. ~job'.req.send /\ core'.op = core.op /\ ctl'.last = ctl.last /\ ctl'.sent = ctl.sent
    BY <1>1, <1>3 DEF Unspoken, Ledger
  <2>. QED
    BY <1>2, <2>1, VoidsStay
<1>5. Held' = Held
  BY <1>1, <1>2, <1>3, HeldIs, HeldThen
<1>. QED
  BY <1>3, <1>4, <1>5, Stutters

\* confirm grants.
LEMMA ConfirmMaps ==
    ASSUME ControlInv, ControlInv', Confirm
    PROVE  Abstract
<1>1. CASE Quieter(ctl, ctl') /\ UNCHANGED <<own, job, done, core>>
  BY <1>1, QuietMaps
<1>2. ASSUME NEW c \in Control, NEW r \in Requests,
             Start(c, r), r.send, r.op = ctl.last + 1,
             c.last = ctl.last + 1, c.last \in 1..MaxOps, c.blocked,
             c.grantedAt = ctl.withdrawals, c.withdrawals = ctl.withdrawals,
             c.sent = ctl.sent, c.reported = ctl.reported
      PROVE  Abstract
  <2>1. ~job.req.send /\ ~done.req.send /\ ~ctl.blocked /\ ctl.last \in Nat /\ MaxOps \in Nat
        /\ ctl.sent \subseteq 1..ctl.last
    BY AtRest, ConfirmFacts, DeleteBounds DEF ControlInv, Typed, Control, AttemptInv, Attempt
  <2>2. /\ Ledger(ctl.last + 1, ctl.sent, ctl.reported, ctl.withdrawals, ctl.withdrawals)
        /\ ctl'.blocked /\ job'.req = r /\ UNCHANGED <<core, done>>
    BY <1>2, StartFacts DEF Ledger
  <2>3. ~Held /\ Held' = TRUE
    BY <2>1, <2>2, HeldIs, HeldThen
  <2>4. Carried' = Carried
    BY <2>2 DEF Carried
  <2>5. Voids' = Voids
    <3>1. core.op[ctl.last + 1] = "none" /\ ctl.last + 1 \in Ops
      BY <1>2, <2>1 DEF ControlInv, CoreInv, Ops
    <3>2. ASSUME NEW o \in Ops
          PROVE  (\/ core.op[o] = "refused"
                  \/ o <= ctl.last /\ o \notin ctl.sent /\ ~(job.req.op = o /\ job.req.send))
                 <=> (\/ core'.op[o] = "refused"
                      \/ o <= ctl'.last /\ o \notin ctl'.sent /\ ~(job'.req.op = o /\ job'.req.send))
      <4>1. o \in Nat
        BY DEF Ops
      <4>2. o <= ctl'.last /\ ~(job'.req.op = o /\ job'.req.send) <=> o <= ctl.last
        BY <1>2, <2>1, <2>2, <4>1 DEF Ledger
      <4>. QED
        BY <2>1, <2>2, <4>2 DEF Ledger
    <3>. QED
      BY <3>2 DEF Voids
  <2>6. ctl.last < MaxOps
    BY <1>2, <2>1
  <2>. QED
    BY <2>2, <2>3, <2>4, <2>5, <2>6, Grants
<1>. QED
  BY <1>1, <1>2, ConfirmFacts

\* recover settles what was never posted, forgets what the authority no longer covers.
LEMMA RecoverMaps ==
    ASSUME ControlInv, ControlInv', Recover
    PROVE  Abstract
<1>1. PICK c \in Control :
         /\ c.last = ctl.last /\ c.sent = ctl.sent /\ c.reported = ctl.reported /\ c.running = ctl.running
         /\ c.withdrawals = ctl.withdrawals /\ c.grantedAt = ctl.grantedAt
         /\ c.blocked = ctl.pending.posted
         /\ Quieter(c, ctl')
  BY RecoverFacts
<1>2. /\ UNCHANGED <<job, done, core>> /\ ~job.req.send /\ ~done.req.send
      /\ Attempt(ctl) /\ ctl.pending.posted \in BOOLEAN
  BY RecoverFacts, AtRest DEF ControlInv, AttemptInv, Typed, Control, Attempts
<1>3. Carried' = Carried /\ Voids' = Voids
  BY <1>1, <1>2, VoidsStay DEF Quieter
<1>4. Held = ctl.blocked /\ Held' = ctl'.blocked /\ Held \in BOOLEAN /\ Held' \in BOOLEAN
  <2>1. ctl.blocked \in BOOLEAN /\ ctl'.blocked \in BOOLEAN
    BY DEF ControlInv, Typed, Control
  <2>. QED
    BY <1>2, <2>1, HeldIs, HeldThen
<1>5. CASE ctl'.blocked = FALSE /\ ctl'.withdrawals = c.withdrawals + 1
  BY <1>1, <1>3, <1>4, <1>5, Withdraws DEF Ledger, Quieter
<1>6. CASE ctl'.blocked = c.blocked /\ ctl'.withdrawals = c.withdrawals
  <2>1. Unspoken
    BY <1>1, <1>6 DEF Unspoken, Ledger, Quieter
  <2>2. CASE Held' = Held
    BY <1>3, <2>1, <2>2, Stutters
  <2>3. CASE Held' # Held
    <3>1. ~ctl.pending.posted /\ Held /\ Held' = FALSE
      BY <1>1, <1>2, <1>4, <1>6, <2>3 DEF Attempt
    <3>2. CASE ctl.pending.op = 0
      <4>1. ctl.withdrawals # ctl.grantedAt
        BY <1>2, <1>4, <3>1, <3>2 DEF Attempt
      <4>. QED
        BY <1>3, <2>1, <3>1, <4>1, Forgets
    <3>3. CASE ctl.pending.op # 0
      <4>1. ctl.last \notin ctl.sent /\ ctl.last \in 0..MaxOps /\ ctl.last # 0 /\ MaxOps \in Nat
        BY <1>2, <3>1, <3>3, DeleteBounds DEF Attempt
      <4>2. ctl.last \in Voids
        BY <1>2, <4>1 DEF Voids, Ops
      <4>. QED
        BY <1>3, <2>1, <3>1, <4>2, Settles
    <3>. QED
      BY <3>2, <3>3
  <2>. QED
    BY <2>2, <2>3
<1>. QED
  BY <1>1, <1>5, <1>6 DEF Quieter

\* A worker that publishes before it sent gives the operation up.
LEMMA PublishMaps ==
    ASSUME ControlInv, ControlInv', UNCHANGED <<own, ctl, core>>, job.step # "none",
           job' = Idle, done'.req.send = job.req.send
    PROVE  Abstract
<1>1. /\ ~done.req.send /\ ~job'.req.send /\ Unspoken
  BY NothingTyped DEF ControlInv, FlightInv, NoResult, Idle, Unspoken, Ledger
<1>2. Held' = Held
  BY <1>1, HeldIs, HeldThen
<1>3. Carried' = Carried
  BY DEF Carried
<1>4. CASE ~job.req.send \/ ctl.last \in ctl.sent
  <2>1. job.req.send => job.req.op = ctl.last
    BY DEF ControlInv, StakeInv, Sends
  <2>2. Voids' = Voids
    BY <1>1, <1>4, <2>1 DEF Voids
  <2>. QED
    BY <1>1, <1>2, <1>3, <2>2, Stutters
<1>5. CASE job.req.send /\ ctl.last \notin ctl.sent
  <2>1. job.req.op = ctl.last /\ ctl.last \in Ops /\ core.op[ctl.last] = "none" /\ ctl.last # 0
        /\ ctl.last <= ctl.last
    BY <1>5 DEF ControlInv, StakeInv, Sends, CoreInv, Ops
  <2>2. ctl.last \notin Carried \cup Voids
    BY <1>5, <2>1 DEF Carried, Voids
  <2>3. Voids' = Voids \cup {ctl.last}
    BY <1>1, <1>5, <2>1 DEF Voids
  <2>. QED
    BY <1>1, <1>2, <1>3, <2>1, <2>2, <2>3, Refuses
<1>. QED
  BY <1>4, <1>5

LEMMA StepMaps ==
    ASSUME ControlInv, ControlInv', UNCHANGED <<own, ctl, core, done>>, job'.req = job.req
    PROVE  Abstract
<1>1. Carried' = Carried /\ Voids' = Voids
  BY VoidsStay
<1>2. Unspoken
  BY DEF Unspoken, Ledger
<1>3. Held' = Held
  BY HeldIs, HeldThen
<1>. QED
  BY <1>1, <1>2, <1>3, Stutters

LEMMA WorkMaps ==
    ASSUME ControlInv, ControlInv', Work
    PROVE  Abstract
<1>0. /\ \A s : job' = [job EXCEPT !.step = s] => job'.req = job.req
      /\ \A e : Publish(e) => job' = Idle /\ done'.req.send = job.req.send
  BY DEF ControlInv, Typed, Jobs, Publish
<1>1. CASE FreshRead
  <2>1. UNCHANGED <<own, ctl, core>> /\ job.step # "none"
    BY <1>1, FreshCases
  <2>2. CASE \E e : Publish(e)
    BY <1>0, <2>1, <2>2, PublishMaps
  <2>3. CASE \E s : Step(s)
    BY <1>0, <2>1, <2>3, StepMaps DEF Step
  <2>4. CASE /\ ~job.req.send /\ job.req.kind # "status" /\ job' = Idle /\ done' = ReadResult
             /\ job.req.kind # "single" \/ job.req.basis.sid \in core.saved
    <3>1. done'.req.send = job.req.send
      BY <2>4, ReadResultFacts
    <3>. QED
      BY <2>1, <2>4, <3>1, PublishMaps
  <2>. QED
    BY <1>1, <2>2, <2>3, <2>4, FreshCases
<1>2. CASE AskStatus
  BY <1>0, <1>2, AskCases, PublishMaps
<1>3. CASE Claim
  <2>1. CASE Step("mark")
    BY <1>0, <1>3, <2>1, ClaimCases, StepMaps DEF Step
  <2>2. CASE \E e : Publish(e)
    BY <1>0, <1>3, <2>2, ClaimCases, PublishMaps
  <2>. QED
    BY <1>3, <2>1, <2>2, ClaimCases
<1>4. CASE Mark
  <2>1. /\ job.req.send /\ job.req.op = ctl.last /\ ctl.last \in Ops /\ ctl.last # 0 /\ ctl.last \notin ctl.sent
        /\ core.op[ctl.last] = "none" /\ UNCHANGED <<done, core>> /\ job'.req = job.req
        /\ Ledger(ctl.last, ctl.sent \cup {ctl.last}, ctl.reported, ctl.withdrawals, ctl.grantedAt)
        /\ ctl'.blocked = ctl.blocked
    BY <1>4, MarkFacts DEF Ledger, ControlInv, CoreInv, Ops
  <2>2. Held /\ Held' = Held
    BY <2>1, HeldIs, HeldThen
  <2>3. Carried' = Carried /\ Voids' = Voids /\ ctl.last \notin Voids
    BY <2>1 DEF Carried, Voids, Ledger
  <2>. QED
    BY <2>1, <2>2, <2>3, SendsOff
<1>5. CASE Post
  <2>1. CASE Publish("context_changed") /\ UNCHANGED core
    BY <1>0, <1>5, <2>1, PostCases, PublishMaps
  <2>2. CASE /\ Step("wait")
             /\ core' = [core EXCEPT !.op = [core.op EXCEPT ![ctl.last] = "sent"],
                                     !.target = [core.target EXCEPT ![ctl.last] = job.req.targets]]
    <3>. DEFINE ops == [core.op EXCEPT ![ctl.last] = "sent"]
                ts  == [core.target EXCEPT ![ctl.last] = job.req.targets]
    <3>1. /\ ctl.last \in Ops /\ core.op[ctl.last] = "none" /\ ctl.last \in ctl.sent /\ UNCHANGED <<own, ctl, done>>
          /\ job'.req = job.req
      BY <1>0, <1>5, <2>2, PostCases DEF Step
    <3>2. core.op \in [Ops -> States] /\ core \in Cores
      BY DEF ControlInv, Typed, Cores
    <3>3. ops[ctl.last] = "sent" /\ \A o \in Ops : o # ctl.last => ops[o] = core.op[o]
      BY <3>1, <3>2
    <3>4. core' = [core EXCEPT !.op = ops, !.target = ts]
      BY <2>2
    <3>. HIDE DEF ops, ts
    <3>5. core'.op = ops
      BY <3>2, <3>4 DEF Cores
    <3>6. Carried' = Carried /\ Voids' = Voids
      BY <3>1, <3>3, <3>5 DEF Carried, Voids
    <3>7. Unspoken /\ Held' = Held
      BY <3>1, HeldIs, HeldThen DEF Unspoken, Ledger
    <3>. QED
      BY <3>6, <3>7, Stutters
  <2>. QED
    BY <1>5, <2>1, <2>2, PostCases
<1>6. CASE Receive
  BY <1>0, <1>6, ReceiveCases, PublishMaps
<1>. QED
  BY <1>1, <1>2, <1>3, <1>4, <1>5, <1>6 DEF Work

\* finish reports, settles, forgets or withdraws.
LEMMA FinishMaps ==
    ASSUME ControlInv, ControlInv', Finish
    PROVE  Abstract
<1>1. PICK c \in Control :
         /\ c.last = ctl.last /\ c.sent = ctl.sent /\ c.grantedAt = ctl.grantedAt
         /\ Quieter(c, ctl')
         /\ c.pending.op = 0 => ctl'.blocked = c.blocked /\ ctl'.withdrawals = c.withdrawals
         /\ Late(c) \/ Denied(c) \/ Asked(c) \/ Erased(c) \/ Failed(c) \/ ReadDone(c)
  BY FinishFacts
<1>2. /\ core' = core /\ ~job.req.send /\ ~job'.req.send /\ ~done'.req.send /\ done.outcome # "none"
      /\ Attempt(ctl) /\ Attempt(ctl') /\ MaxOps \in Nat /\ ctl.withdrawals \in Nat
      /\ ctl.blocked \in BOOLEAN /\ ctl'.blocked \in BOOLEAN /\ done.req.send \in BOOLEAN
  BY FinishFacts, NothingTyped, DeleteBounds
     DEF ControlInv, AttemptInv, Idle, NoResult, Typed, Control, Results, Requests
<1>3. Carried' = Carried /\ Voids' = Voids
  BY <1>1, <1>2, VoidsStay DEF Quieter
<1>4. Held = (ctl.blocked \/ done.req.send) /\ Held' = ctl'.blocked /\ Held \in BOOLEAN /\ Held' \in BOOLEAN
  BY <1>2, HeldIs, HeldThen
<1>5. done.req.send => /\ done.req.op = ctl.last /\ ctl.last \in Ops /\ done.req.kind # "status"
                       /\ ctl.withdrawals = ctl.grantedAt => ctl.pending.op = ctl.last
  BY DEF ControlInv, StakeInv, Sends
<1>6. done.posted => done.req.send
  BY DEF ControlInv, ResultInv
\* Synchronising afterwards adds at most a withdrawal.
<1>7. CASE ctl'.blocked = FALSE /\ ctl'.withdrawals = c.withdrawals + 1 /\ c.withdrawals = ctl.withdrawals
           /\ c.reported = ctl.reported
  BY <1>1, <1>3, <1>4, <1>7, Withdraws DEF Ledger, Quieter
<1>8. ASSUME ctl'.blocked = c.blocked, ctl'.withdrawals = c.withdrawals, c.withdrawals = ctl.withdrawals,
             c.reported = ctl.reported
      PROVE  Unspoken /\ Held' = c.blocked
  BY <1>1, <1>4, <1>8 DEF Unspoken, Ledger, Quieter
<1>9. CASE Late(c)
  <2>1. CASE ctl'.blocked = c.blocked /\ ctl'.withdrawals = c.withdrawals
    <3>1. Unspoken /\ Held' = c.blocked
      BY <1>8, <1>9, <2>1 DEF Late, Same
    <3>2. CASE Held' = Held
      BY <1>3, <3>1, <3>2, Stutters
    <3>3. CASE Held' # Held
      <4>1. Held /\ Held' = FALSE /\ done.req.send /\ ~ctl.blocked
        BY <1>2, <1>4, <1>6, <1>9, <3>1, <3>3 DEF Late
      <4>2. ctl.pending.op = 0 /\ ctl.last # 0
        BY <1>2, <1>5, <4>1 DEF Attempt, Ops
      <4>3. ctl.withdrawals # ctl.grantedAt
        BY <1>5, <4>1, <4>2
      <4>. QED
        BY <1>3, <3>1, <4>1, <4>3, Forgets
    <3>. QED
      BY <3>2, <3>3
  <2>. QED
    BY <1>1, <1>7, <1>9, <2>1 DEF Quieter, Late, Same
<1>10. CASE Denied(c)
  <2>1. ctl'.blocked = FALSE /\ ctl'.withdrawals = ctl.withdrawals + 1
    BY <1>1, <1>10 DEF Denied, NoAttempt
  <2>2. Held' \in {Held, FALSE}
    BY <1>4, <2>1
  <2>. QED
    BY <1>1, <1>3, <1>10, <2>1, <2>2, Withdraws DEF Denied, Ledger, Quieter
<1>11. CASE Asked(c)
  <2>1. Held /\ c.blocked
    BY <1>2, <1>4, <1>11 DEF Asked, Attempt
  <2>2. CASE ctl'.blocked = c.blocked /\ ctl'.withdrawals = c.withdrawals
    <3>1. Unspoken /\ Held' = c.blocked
      BY <1>8, <1>11, <2>2 DEF Asked, Same
    <3>2. Held' = Held
      BY <1>2, <1>4, <2>1, <2>2
    <3>. QED
      BY <1>3, <3>1, <3>2, Stutters
  <2>. QED
    BY <1>1, <1>7, <1>11, <2>2 DEF Quieter, Asked, Same
<1>12. CASE Erased(c)
  <2>1. done.req.op = ctl.last /\ Held
    <3>1. CASE done.req.kind = "status"
      BY <1>2, <1>4, <1>12, <3>1 DEF Erased, Attempt
    <3>2. CASE done.req.kind # "status"
      <4>1. done.req.send
        BY <1>12, <3>2 DEF Erased, ControlInv, ResultInv
      <4>. QED
        BY <1>4, <1>5, <4>1
    <3>. QED
      BY <3>1, <3>2
  <2>2. ctl.last \in Carried
    BY <1>5, <1>12, <2>1 DEF Erased, ControlInv, ResultInv, Carried
  <2>. QED
    <3>1. ctl'.blocked = FALSE /\ ctl'.withdrawals = ctl.withdrawals
      BY <1>1, <1>12 DEF Erased, NoAttempt
    <3>2. Held' = FALSE
      BY <1>4, <3>1
    <3>3. Ledger(ctl.last, ctl.sent, ctl.reported \cup {ctl.last}, ctl.withdrawals, ctl.grantedAt)
      BY <1>1, <1>12, <2>1, <3>1 DEF Erased, Ledger, Quieter
    <3>. QED
      BY <1>3, <2>1, <2>2, <3>2, <3>3, Reports
<1>13. CASE Failed(c)
  <2>1. CASE done.posted /\ c.blocked /\ c.pending = ctl.pending
    <3>1. Held
      BY <1>4, <1>6, <2>1
    <3>2. CASE ctl'.blocked = c.blocked /\ ctl'.withdrawals = c.withdrawals
      <4>1. Unspoken /\ Held' = c.blocked
        BY <1>8, <1>13, <3>2 DEF Failed
      <4>2. Held' = Held
        BY <1>4, <2>1, <3>1, <3>2
      <4>. QED
        BY <1>3, <4>1, <4>2, Stutters
    <3>. QED
      BY <1>1, <1>7, <1>13, <3>2 DEF Quieter, Failed
  <2>2. CASE /\ done.posted => done.outcome \notin {"uncertain", "context_changed"}
             /\ c.blocked = FALSE
    <3>1. CASE ctl'.blocked = c.blocked /\ ctl'.withdrawals = c.withdrawals
      <4>1. Unspoken /\ Held' = FALSE
        BY <1>8, <1>13, <2>2, <3>1 DEF Failed
      <4>2. CASE done.req.send
        <5>1. done.outcome \in {"context_changed", "uncertain", "refused"}
          BY <1>13, <4>2 DEF Failed, ControlInv, ResultInv
        <5>2. ctl.last \in Ops /\ ctl.last <= ctl.last
          BY <1>5, <4>2 DEF Ops
        <5>3. ctl.last \in Voids
          <6>1. CASE done.posted
            BY <2>2, <5>1, <5>2, <6>1 DEF Voids, ControlInv, ResultInv
          <6>2. CASE ~done.posted
            BY <1>2, <4>2, <5>2, <6>2 DEF Voids, ControlInv, ResultInv
          <6>. QED
            BY <6>1, <6>2
        <5>. QED
          BY <1>3, <1>4, <4>1, <4>2, <5>3, Settles
      <4>3. CASE ~done.req.send
        <5>1. ~ctl.blocked
          BY <1>2, <1>13, <4>3 DEF Failed, ControlInv, StakeInv
        <5>2. Held' = Held
          BY <1>4, <4>1, <4>3, <5>1
        <5>. QED
          BY <1>3, <4>1, <5>2, Stutters
      <4>. QED
        BY <4>2, <4>3
    <3>. QED
      BY <1>1, <1>7, <1>13, <3>1 DEF Quieter, Failed
  <2>. QED
    BY <1>13, <2>1, <2>2 DEF Failed
<1>14. CASE ReadDone(c)
  <2>1. ~done.req.send /\ ~ctl.blocked
    BY <1>2, <1>14 DEF ReadDone, ControlInv, ResultInv, StakeInv
  <2>2. CASE ctl'.blocked = c.blocked /\ ctl'.withdrawals = c.withdrawals
    <3>1. Unspoken /\ Held' = c.blocked
      BY <1>8, <1>14, <2>2 DEF ReadDone, Same
    <3>2. Held' = Held
      BY <1>4, <1>14, <2>1, <3>1 DEF ReadDone
    <3>. QED
      BY <1>3, <3>1, <3>2, Stutters
  <2>. QED
    BY <1>1, <1>7, <1>14, <2>2 DEF Quieter, ReadDone, Same
<1>. QED
  BY <1>1, <1>9, <1>10, <1>11, <1>12, <1>13, <1>14

LEMMA CoreMaps ==
    ASSUME ControlInv, ControlInv', NEW o \in Ops, Execute(o) \/ Refuse(o)
    PROVE  Abstract
<1>1. /\ UNCHANGED <<own, ctl, job, done>> /\ core.op[o] = "sent" /\ o \in ctl.sent
      /\ core'.op[o] = (IF Execute(o) THEN "done" ELSE "refused")
      /\ \A p \in Ops : p # o => core'.op[p] = core.op[p]
  BY CoreFacts
<1>2. Unspoken /\ Held' = Held
  BY <1>1, HeldIs, HeldThen DEF Unspoken, Ledger
<1>3. o \notin Carried \cup Voids
  BY <1>1 DEF Carried, Voids
<1>4. CASE Execute(o)
  <2>1. Carried' = Carried \cup {o} /\ Voids' = Voids
    BY <1>1, <1>4 DEF Carried, Voids
  <2>. QED
    BY <1>1, <1>2, <1>3, <2>1, CarriesOut
<1>5. CASE ~Execute(o)
  <2>1. Voids' = Voids \cup {o} /\ Carried' = Carried
    BY <1>1, <1>5 DEF Carried, Voids
  <2>. QED
    BY <1>1, <1>2, <1>3, <2>1, Refuses
<1>. QED
  BY <1>4, <1>5

LEMMA MapsStep ==
    ASSUME ControlInv, ControlInv', [Next]_vars
    PROVE  Abstract
<1>1. CASE Quiet
  BY <1>1, QuietFacts, QuietMaps
<1>2. CASE BeginRead("single") \/ BeginRead("bulk") \/ ReadStatus
  BY <1>2, BeginMaps
<1>3. CASE \E o \in Ops : Execute(o) \/ Refuse(o)
  BY <1>3, CoreMaps
<1>4. CASE UNCHANGED vars
  BY <1>4, StepMaps DEF vars
<1>. QED
  BY <1>1, <1>2, <1>3, <1>4, ConfirmMaps, RecoverMaps, FinishMaps, WorkMaps DEF Next, Slot, Quiet, Ops

LEMMA MapsInit == Init => Promise!PromiseInit
<1>. SUFFICES ASSUME Init PROVE Promise!PromiseInit
  OBVIOUS
<1>1. /\ ctl.last = 0 /\ ctl.sent = {} /\ ctl.reported = {} /\ ctl.blocked = FALSE /\ ctl.withdrawals = 0
      /\ ctl.grantedAt = 0 /\ ~job.req.send /\ ~done.req.send
      /\ \A o \in Ops : core.op[o] = "none"
  BY NothingTyped DEF Init, Idle, NoResult, Ops
<1>2. {o \in Ops : core.op[o] = "done"} = {}
  BY <1>1
<1>3. {o \in Ops : \/ core.op[o] = "refused"
                   \/ o <= ctl.last /\ o \notin ctl.sent /\ ~(job.req.op = o /\ job.req.send)} = {}
  BY <1>1 DEF Ops
<1>4. (ctl.blocked \/ \E o \in Ops : Sending(o)) = FALSE
  BY <1>1 DEF Sending
<1>. QED
  BY <1>1, <1>2, <1>3, <1>4 DEF Promise!PromiseInit

\* The control with its worker, its tickets and its screens does what ErasurePromise says:
\* every grant is one confirmation, sent at most once; reported means carried out; and no
\* other is granted while the last is unsettled, unless the authority was withdrawn.
THEOREM ControlKeepsPromise == Spec => KeepsPromise
<1>1. Init => ControlInv /\ Promise!PromiseInit
  BY ControlInit, MapsInit
<1>2. ControlInv /\ [Next]_vars => ControlInv'
  BY ControlStep
<1>3. ControlInv /\ ControlInv' /\ [Next]_vars => [Promise!PromiseNext]_(Promise!promise)
  BY MapsStep DEF Abstract
<1>. QED
  BY <1>1, <1>2, <1>3, PTL DEF Spec, KeepsPromise, Promise!PromiseSpec

\* So the control inherits what ErasurePromiseProofs shows of every implementation: under the
\* authority an erasure was granted by, the next one is granted only after it was reported as
\* done or settled as not done, and nothing is reported that Core did not do (confirm, finish,
\* recover, hide).
Inherited == INSTANCE ErasurePromiseProofs WITH
    last        <- ctl.last,
    sent        <- ctl.sent,
    erased      <- Carried,
    void        <- Voids,
    reported    <- ctl.reported,
    held        <- Held,
    withdrawals <- ctl.withdrawals,
    grantedAt   <- ctl.grantedAt
THEOREM ControlIsHonest == Spec => []Promise!PromiseInv
<1>. USE DEF Promise!PromiseInv, Promise!PromiseType, Promise!Settled, Promise!Honest,
             Inherited!PromiseInv, Inherited!PromiseType, Inherited!Settled, Inherited!Honest,
             Carried, Voids, Held
<1>1. Promise!PromiseInit => Promise!PromiseInv
  BY Inherited!PromiseInitial DEF Promise!PromiseInit, Inherited!PromiseInit
<1>2. Promise!PromiseInv /\ [Promise!PromiseNext]_(Promise!promise) => Promise!PromiseInv'
  BY Inherited!PromiseStep
     DEF Promise!PromiseNext, Promise!Grant, Promise!Send, Promise!Execute, Promise!Refuse,
         Promise!Report, Promise!Settle, Promise!Withdraw, Promise!Forget, Promise!promise,
         Inherited!PromiseNext, Inherited!Grant, Inherited!Send, Inherited!Execute, Inherited!Refuse,
         Inherited!Report, Inherited!Settle, Inherited!Withdraw, Inherited!Forget, Inherited!promise
<1>. HIDE DEF Promise!PromiseInv
<1>. QED
  BY <1>1, <1>2, ControlKeepsPromise, PTL DEF KeepsPromise, Promise!PromiseSpec

=============================================================================
