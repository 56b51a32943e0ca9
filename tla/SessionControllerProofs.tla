---------------------- MODULE SessionControllerProofs ----------------------
(***************************************************************************)
(* Theorems of SessionController, for every set of Profiles and tokens and *)
(* every bound.  Each operator on the controller's fields has one lemma:   *)
(* it keeps the type, keeps Coherent, and relates the question epoch       *)
(* before and after (Later).  An operator that leaves the fields Coherent  *)
(* speaks of alone has its proof by its fields.                            *)
(*                                                                         *)
(* The second half is about whose data is on screen (ScreenInv): there     *)
(* each operator either takes away from the screen only (Narrow), or       *)
(* brings only what belongs to the owner, the view and the order of reads  *)
(* (Arrives).                                                              *)
(***************************************************************************)
EXTENDS SessionController, TLAPS

\* Between two states of the controller the question epoch only grows, and the
\* Session on screen is replaced only together with a new epoch.
Later(u, v) == /\ u.qEpoch <= v.qEpoch
               /\ v.qEpoch = u.qEpoch => v.session.sid = u.session.sid

\* What every operator on a coherent controller does.
Step(u, v) == v \in Ui /\ Coherent(v) /\ Later(u, v)

\* The fields Coherent and Later speak of.
SameScreen(u, v) == /\ v.session = u.session /\ v.conv = u.conv /\ v.qEpoch = u.qEpoch
                    /\ v.pending = u.pending /\ v.receipt = u.receipt /\ v.reply = u.reply

Selected == [src : Sources, sid : Nat]
Scopes   == [binding : Bindings, owner : Owners, private : BOOLEAN]

-----------------------------------------------------------------------------
(* Values *)

LEMMA Values == /\ NoBinding \in Bindings /\ Nothing \in Content /\ ~Shown(Nothing)
                /\ Nothing.sid = 0 /\ NoSelection \in Selected /\ NoScope \in Scopes
                /\ NoResult \in Results
  BY DEF NoBinding, Bindings, Nothing, Content, Shown, NoSelection, Selected, Sources, Owners,
         NoScope, Scopes, NoResult, Results, Errors

\* Later and Step are reflexive and transitive.
LEMMA LaterRefl == ASSUME NEW u \in Ui PROVE Later(u, u)
  BY DEF Ui, UiType, Later

LEMMA StepTrans == ASSUME NEW u \in Ui, NEW v, NEW w, Step(u, v), Step(v, w) PROVE Step(u, w)
  <1>1. u.qEpoch \in Nat /\ v.qEpoch \in Nat /\ w.qEpoch \in Nat
    BY DEF Step, Ui, UiType
  <1> QED BY <1>1 DEF Step, Later

\* A step that leaves the fields of Coherent and Later alone.
LEMMA SameScreenStep ==
    ASSUME NEW u \in Ui, Coherent(u), NEW v \in Ui, SameScreen(u, v) PROVE Step(u, v)
  BY DEF Ui, UiType, Step, Later, Coherent, SameScreen

-----------------------------------------------------------------------------
(* Bindings *)

LEMMA CaptureType == ASSUME NEW u \in UiType PROVE Capture(u) \in Bindings
  BY DEF UiType, Configs, Capture, SessionProfile, Bindings, Owners

LEMMA BindingType == ASSUME NEW u \in UiType PROVE Binding(u) \in Bindings
  <1>1. /\ u.scope.owner \in Owners /\ u.scope.private \in BOOLEAN /\ u.ownerEpoch \in Nat
    BY DEF UiType
  <1>2. Capture(u) \in Bindings
    BY CaptureType
  <1>3. [Capture(u) EXCEPT !.profile = u.scope.owner, !.resolved = u.scope.owner,
                           !.private = u.scope.private, !.epoch = u.ownerEpoch] \in Bindings
    BY <1>1, <1>2 DEF Bindings
  <1> QED BY <1>2, <1>3 DEF Binding

-----------------------------------------------------------------------------
(* The controller's own fields *)

LEMMA WithdrawType == ASSUME NEW u \in UiType
    PROVE /\ Withdraw(u) \in UiType
          /\ Withdraw(u).qEpoch = u.qEpoch + 1
          /\ Withdraw(u).pending = 0 /\ Withdraw(u).receipt = 0 /\ Withdraw(u).reply = 0
          /\ Withdraw(u).session = u.session /\ Withdraw(u).conv = u.conv
          /\ Withdraw(u).serial = u.serial /\ Withdraw(u).running = u.running
          /\ Withdraw(u).act = u.act /\ Withdraw(u).qRunning = u.qRunning
          /\ Withdraw(u).lastRead = u.lastRead /\ Withdraw(u).caps = u.caps
          /\ Withdraw(u).scope = u.scope /\ Withdraw(u).cfg = u.cfg
          /\ Withdraw(u).foreground = u.foreground
  <1>1. ASSUME NEW n \in Nat
        PROVE [u EXCEPT !.pending = 0, !.pendingBinding = NoBinding, !.reply = 0,
                        !.replyBinding = NoBinding, !.qEpoch = n, !.receipt = 0,
                        !.selection = NoSelection, !.reconcile = FALSE] \in UiType
    BY ZenonT(40), Values DEF UiType, Selected
  <1>2. u.qEpoch + 1 \in Nat
    BY DEF UiType
  <1>3. Withdraw(u) \in UiType
    BY <1>1, <1>2 DEF Withdraw
  <1> QED BY <1>3 DEF UiType, Withdraw

LEMMA WithdrawStep == ASSUME NEW u \in Ui, Coherent(u) PROVE Step(u, Withdraw(u))
  <1>1. u \in UiType /\ u.qEpoch \in Nat
    BY DEF Ui, UiType
  <1>2. Withdraw(u) \in Ui
    BY <1>1, WithdrawType DEF Ui, Lanes
  <1> QED BY <1>1, <1>2, WithdrawType DEF Step, Later, Coherent

LEMMA ClearHistoryType == ASSUME NEW u \in UiType
    PROVE /\ ClearHistory(u) \in UiType /\ SameScreen(u, ClearHistory(u))
          /\ Lanes(u) => Lanes(ClearHistory(u))
  BY Values DEF UiType, ClearHistory, SameScreen, Lanes

LEMMA ClearArchiveStep == ASSUME NEW u \in Ui, Coherent(u) PROVE Step(u, ClearArchive(u))
  <1>1. /\ ClearHistory(u) \in UiType /\ SameScreen(u, ClearHistory(u)) /\ Lanes(ClearHistory(u))
    BY ClearHistoryType DEF Ui
  <1>2. ASSUME NEW v \in UiType, Lanes(v), NEW n \in Nat
        PROVE [v EXCEPT !.viewEpoch = n] \in Ui /\ SameScreen(v, [v EXCEPT !.viewEpoch = n])
    BY <1>2 DEF Ui, UiType, Lanes, SameScreen
  <1>3. ClearHistory(u).viewEpoch + 1 \in Nat
    BY <1>1 DEF UiType
  <1>4. ClearArchive(u) \in Ui /\ SameScreen(u, ClearArchive(u))
    BY <1>1, <1>2, <1>3 DEF ClearArchive, SameScreen
  <1> QED BY <1>4, SameScreenStep

LEMMA ClearPanelsType == ASSUME NEW u \in UiType
    PROVE /\ ClearPanels(u) \in UiType
          /\ ClearPanels(u).session = Nothing /\ ClearPanels(u).conv = Nothing
          /\ ClearPanels(u).qEpoch = u.qEpoch /\ ClearPanels(u).pending = u.pending
          /\ ClearPanels(u).receipt = u.receipt /\ ClearPanels(u).reply = u.reply
          /\ Lanes(u) => Lanes(ClearPanels(u))
          /\ ClearPanels(u).serial = u.serial
  BY Values DEF UiType, ClearPanels, ClearHistory, Lanes

\* Withdraw followed by ClearPanels and any change of the other fields is a step.
LEMMA WipeStep ==
    ASSUME NEW u \in UiType, NEW v \in Ui, SameScreen(ClearPanels(Withdraw(u)), v)
    PROVE /\ Coherent(v) /\ u.qEpoch < v.qEpoch
          /\ Later(u, v)
  <1>1. Withdraw(u) \in UiType /\ u.qEpoch \in Nat
    BY WithdrawType DEF UiType
  <1>2. /\ v.session = Nothing /\ v.conv = Nothing /\ v.qEpoch = u.qEpoch + 1
        /\ v.pending = 0 /\ v.receipt = 0 /\ v.reply = 0
    BY <1>1, ClearPanelsType, WithdrawType DEF SameScreen
  <1> QED BY <1>1, <1>2, Values DEF Coherent, Known, Later

LEMMA InvalidateStep == ASSUME NEW u \in Ui
    PROVE /\ Invalidate(u) \in Ui /\ Coherent(Invalidate(u)) /\ Later(u, Invalidate(u))
          /\ Invalidate(u).cfg = u.cfg /\ Invalidate(u).foreground = u.foreground
          /\ Invalidate(u).session = Nothing /\ Invalidate(u).running = 0
  <1> DEFINE w == ClearPanels(Withdraw(u))
             r == Invalidate(u)
             i == u.ownerEpoch + 1
             k == u.serial + 1
             n == u.viewEpoch + 1
  <1>1. /\ w \in UiType /\ w.lastRead = u.lastRead /\ w.serial = u.serial
        /\ w.cfg = u.cfg /\ w.foreground = u.foreground /\ w.session = Nothing
    <2>1. Withdraw(u) \in UiType
      BY WithdrawType DEF Ui
    <2>2. ASSUME NEW v \in UiType
          PROVE /\ ClearPanels(v).lastRead = v.lastRead /\ ClearPanels(v).cfg = v.cfg
                /\ ClearPanels(v).foreground = v.foreground
      BY DEF UiType, ClearPanels, ClearHistory
    <2> QED BY <2>1, <2>2, WithdrawType, ClearPanelsType DEF Ui
  <1>2. i \in Nat /\ k \in Nat /\ n \in Nat
    BY DEF Ui, UiType
  <1>8. u.serial \in Nat /\ u.lastRead \in 0..u.serial /\ k = u.serial + 1
    BY DEF Ui, UiType, Lanes
  <1>3. r = [w EXCEPT !.ownerEpoch = i, !.scope = NoScope, !.serial = k, !.running = 0,
                      !.act = "none", !.qRunning = 0, !.caps = {}, !.viewEpoch = n]
    BY DEF Invalidate
  <1> HIDE DEF w, r, i, k, n
  <1>4. r \in UiType
    <2>1. w \in UiType
      BY <1>1
    <2>2. NoScope \in [binding : Bindings, owner : Owners, private : BOOLEAN]
      BY Values DEF Scopes
    <2> QED BY <2>1, <2>2, <1>2, <1>3 DEF UiType
  <1>5. /\ SameScreen(w, r) /\ r.cfg = w.cfg /\ r.foreground = w.foreground
        /\ r.running = 0 /\ r.act = "none" /\ r.qRunning = 0 /\ r.serial = k
        /\ r.lastRead = w.lastRead
    BY <1>1, <1>3 DEF UiType, SameScreen
  <1>6. r \in Ui
    BY <1>1, <1>2, <1>4, <1>5, <1>8 DEF Ui, Lanes
  <1>7. Coherent(r) /\ Later(u, r)
    BY <1>5, <1>6, WipeStep DEF Ui, w
  <1> QED BY <1>1, <1>5, <1>6, <1>7 DEF SameScreen, r

LEMMA ClearAllStep == ASSUME NEW u \in Ui
    PROVE ClearAll(u) \in Ui /\ Coherent(ClearAll(u)) /\ Later(u, ClearAll(u))
  <1> DEFINE w == ClearPanels(Withdraw(u))
             r == ClearAll(u)
             i == w.ownerEpoch + 1
  <1>1. w \in UiType /\ Lanes(w)
    <2>1. Withdraw(u) \in UiType /\ Lanes(Withdraw(u))
      BY WithdrawType DEF Ui, Lanes
    <2> QED BY <2>1, ClearPanelsType
  <1>2. i \in Nat
    BY <1>1 DEF UiType
  <1>3. r = [w EXCEPT !.ownerEpoch = i, !.scope = NoScope]
    BY DEF ClearAll
  <1>4. NoScope \in [binding : Bindings, owner : Owners, private : BOOLEAN]
    BY Values DEF Scopes
  <1> HIDE DEF w, r, i
  <1>5. r \in UiType
    BY <1>1, <1>2, <1>3, <1>4 DEF UiType
  <1>6. SameScreen(w, r)
    BY <1>1, <1>3 DEF UiType, SameScreen
  <1>7. /\ r.running = w.running /\ r.act = w.act /\ r.qRunning = w.qRunning
        /\ r.lastRead = w.lastRead /\ r.serial = w.serial
    BY <1>1, <1>3 DEF UiType
  <1>8. Lanes(r)
    BY <1>1, <1>7 DEF Lanes
  <1> QED BY <1>5, <1>6, <1>8, WipeStep DEF Ui, w, r

LEMMA DropReplyStep == ASSUME NEW u \in Ui, Coherent(u) PROVE Step(u, DropReply(u))
  <1> DEFINE v == [u EXCEPT !.reply = 0, !.replyBinding = NoBinding]
  <1>1. v \in UiType
    BY Values DEF Ui, UiType
  <1>2. /\ v.session = u.session /\ v.conv = u.conv /\ v.qEpoch = u.qEpoch
        /\ v.pending = u.pending /\ v.receipt = u.receipt /\ v.reply = 0
        /\ u.qEpoch \in Nat
    BY DEF Ui, UiType
  <1>3. Lanes(v)
    BY DEF Ui, UiType, Lanes
  <1>4. DropReply(u) \in {u, v}
    BY DEF DropReply
  <1> HIDE DEF v
  <1>5. Step(u, v)
    BY <1>1, <1>2, <1>3 DEF Ui, Step, Later, Coherent
  <1> QED BY <1>4, <1>5, LaterRefl DEF Step

LEMMA DropExpiredStep == ASSUME NEW u \in Ui, Coherent(u), NEW gone PROVE Step(u, DropExpired(u, gone))
  <1> DEFINE v == DropExpired(u, gone)
  <1>1. v \in UiType
    BY ZenonT(40), Values DEF Ui, UiType, DropExpired
  <1>2. /\ v.session = u.session /\ v.conv \in {u.conv, Nothing} /\ v.qEpoch = u.qEpoch
        /\ v.pending = u.pending /\ v.receipt = u.receipt /\ v.reply = u.reply
    BY DEF Ui, UiType, DropExpired
  <1>3. Lanes(v)
    BY DEF Ui, UiType, DropExpired, Lanes
  <1>4. u.qEpoch \in Nat
    BY DEF Ui, UiType
  <1> HIDE DEF v
  <1> QED BY <1>1, <1>2, <1>3, <1>4, Values DEF Ui, Step, Later, Coherent, v

LEMMA ExpireStep == ASSUME NEW u \in Ui, Coherent(u), NEW gone PROVE Step(u, Expire(u, gone))
  <1> DEFINE v == DropExpired(u, gone)
             w == IF (v.pending # 0 /\ ~PendingValid(v)) \/ ~SelectionValid(v)
                  THEN Withdraw(v) ELSE v
  <1>1. Step(u, v)
    BY DropExpiredStep
  <1>2. Step(v, w)
    BY <1>1, WithdrawStep, LaterRefl DEF Step
  <1>3. Step(w, DropReply(w))
    BY <1>2, DropReplyStep DEF Step
  <1>4. Expire(u, gone) = DropReply(w)
    BY DEF Expire
  <1> HIDE DEF v, w
  <1>5. Step(u, w)
    BY <1>1, <1>2, StepTrans
  <1> QED BY <1>3, <1>4, <1>5, StepTrans

LEMMA ReadStep == ASSUME NEW u \in Ui, Coherent(u) PROVE Step(u, Read(u))
  <1> DEFINE w == IF u.pending # 0 /\ ~PendingValid(u) THEN Withdraw(u) ELSE u
  <1>1. Step(u, w)
    BY WithdrawStep, LaterRefl DEF Step
  <1>2. Step(w, DropReply(w))
    BY <1>1, DropReplyStep DEF Step
  <1>3. Read(u) = DropReply(w)
    BY DEF Read
  <1> HIDE DEF w
  <1> QED BY <1>1, <1>2, <1>3, StepTrans

-----------------------------------------------------------------------------
(* _launch *)

\* A question is asked about the Session on screen.
Askable(u, a, sid) == /\ sid \in Nat
                      /\ a = "question" => Shown(u.session) /\ sid = u.session.sid

LEMMA TakeTicketStep ==
    ASSUME NEW u \in Ui, Coherent(u), NEW a \in Actions, NEW sid, Askable(u, a, sid)
    PROVE Step(u, TakeTicket(u, a, sid))
          /\ (a = "question" => TakeTicket(u, a, sid).session = u.session)
  <1> DEFINE n == u.serial + 1
             v == [u EXCEPT !.serial = n, !.lastRead = IF a \in CurrentReads THEN n ELSE @]
             q == [v EXCEPT !.qRunning = n, !.pending = sid, !.pendingBinding = Binding(u),
                            !.reply = 0, !.replyBinding = NoBinding, !.receipt = 0]
             w == [v EXCEPT !.running = n, !.act = a]
  <1>1. n \in Nat /\ u.serial \in Nat /\ n = u.serial + 1 /\ n # 0
    BY DEF Ui, UiType
  <1>2. Binding(u) \in Bindings
    BY BindingType DEF Ui
  <1>3. v \in UiType /\ v.serial = n /\ v.lastRead \in {n, u.lastRead} /\ v.running = u.running
        /\ v.act = u.act /\ v.qRunning = u.qRunning /\ SameScreen(u, v)
    <2> HIDE DEF n
    <2>1. n \in Nat
      BY <1>1
    <2> QED BY <2>1 DEF Ui, UiType, SameScreen
  <1>4. TakeTicket(u, a, sid) = IF a = "question" THEN q ELSE IF a = "end" THEN Withdraw(w) ELSE w
    BY DEF TakeTicket
  <1> HIDE DEF n, v
  <1>5. CASE a = "question"
    <2>1. sid \in Nat /\ sid = u.session.sid
      BY <1>5 DEF Askable
    <2>2. q \in UiType
      <3>1. v \in UiType /\ n \in Nat
        BY <1>1, <1>3
      <3> QED BY <3>1, <2>1, <1>2, Values DEF UiType
    <2>3. /\ q.serial = v.serial /\ q.lastRead = v.lastRead /\ q.running = v.running
          /\ q.act = v.act /\ q.qRunning = n /\ q.pending = sid /\ q.reply = 0 /\ q.receipt = 0
          /\ q.session = v.session /\ q.conv = v.conv /\ q.qEpoch = v.qEpoch
      BY <1>3 DEF UiType
    <2>4. Lanes(q)
      BY <1>1, <1>3, <2>3 DEF Ui, UiType, Lanes
    <2>5. u.qEpoch \in Nat
      BY DEF Ui, UiType
    <2> HIDE DEF q
    <2>6. Step(u, q)
      BY <1>3, <2>1, <2>2, <2>3, <2>4, <2>5 DEF Ui, SameScreen, Step, Coherent, Later
    <2> QED BY <1>3, <1>4, <1>5, <2>3, <2>6 DEF SameScreen
  <1>6. CASE a # "question"
    <2>1. w \in UiType
      <3>1. v \in UiType /\ n \in Nat
        BY <1>1, <1>3
      <3> QED BY <3>1 DEF UiType
    <2>2. /\ w.serial = v.serial /\ w.lastRead = v.lastRead /\ w.running = n
          /\ w.act = a /\ w.qRunning = v.qRunning /\ SameScreen(v, w)
      BY <1>3 DEF UiType, SameScreen
    <2>3. a # "none"
      BY DEF Actions, CurrentReads, LifecycleWrites, ArchiveReads, HistoryReads, SearchReads,
             TimelineReads
    <2>4. Lanes(w)
      BY <1>1, <1>3, <2>2, <2>3 DEF Ui, UiType, Lanes
    <2> HIDE DEF w
    <2>5. Step(u, w)
      BY <1>3, <2>1, <2>2, <2>4, SameScreenStep DEF Ui, SameScreen
    <2>6. Step(w, Withdraw(w))
      BY <2>5, WithdrawStep DEF Step
    <2> QED BY <1>4, <1>6, <2>5, <2>6, StepTrans
  <1> QED BY <1>5, <1>6

LEMMA NewJobType ==
    ASSUME NEW u \in Ui, NEW v \in Ui, NEW a \in Actions, NEW sid \in Nat, NEW b \in Bindings
    PROVE /\ NewJob(u, v, a, sid, b) \in Jobs
          /\ NewJob(u, v, a, sid, b).res = NoResult /\ NewJob(u, v, a, sid, b).act = a
          /\ NewJob(u, v, a, sid, b).sid = sid /\ NewJob(u, v, a, sid, b).qe = v.qEpoch
  <1>1. /\ v.serial \in Nat /\ u.viewEpoch \in Nat /\ v.qEpoch \in Nat
        /\ u.selection \in [src : Sources, sid : Nat]
    BY DEF Ui, UiType
  <1>2. Capture(u) \in Bindings /\ NoResult \in Results
    BY CaptureType, Values DEF Ui
  <1>3. FirstStep(a, Bootstrapping(u, a)) \in Steps /\ Bootstrapping(u, a) \in BOOLEAN
    BY DEF FirstStep, Steps, Bootstrapping, Unmapped
  <1> QED BY <1>1, <1>2, <1>3 DEF NewJob, Jobs

\* A launch is a step of the controller, and its job is coherent with it.
Launched(u, L) == /\ Step(u, L.ui) /\ L.new \subseteq Jobs
                  /\ \A j \in L.new : JobCoherent(L.ui, j)

LEMMA LaunchStep ==
    ASSUME NEW u \in Ui, Coherent(u), NEW a \in Actions, NEW sid, Askable(u, a, sid)
    PROVE Launched(u, Launch(u, a, sid))
  <1> DEFINE stale == Bootstrapping(u, a) /\ u.scope.binding # Capture(u)
             v == IF stale THEN Invalidate(u) ELSE u
             w == TakeTicket(v, a, sid)
             j == NewJob(v, w, a, sid, Binding(u))
  <1>1. Step(u, u) /\ Step(u, Invalidate(u))
    BY LaterRefl, InvalidateStep DEF Step
  <1>2. Step(u, v) /\ Askable(v, a, sid)
    BY <1>1 DEF Bootstrapping, Askable
  <1>3. Step(v, w) /\ (a = "question" => w.session = v.session)
    BY <1>2, TakeTicketStep DEF Step
  <1>4. Step(u, w)
    BY <1>2, <1>3, StepTrans
  <1>5. j \in Jobs /\ JobCoherent(w, j)
    <2>1. /\ j \in Jobs /\ j.res = NoResult /\ j.act = a /\ j.sid = sid /\ j.qe = w.qEpoch
      <3>1. sid \in Nat /\ v \in Ui /\ w \in Ui /\ Binding(u) \in Bindings
        BY <1>2, <1>3, BindingType DEF Askable, Step, Ui
      <3> QED BY <3>1, NewJobType
    <2>2. w.qEpoch \in Nat
      BY <1>4 DEF Step, Ui, UiType
    <2>3. NoResult.session = Nothing /\ NoResult.conv = Nothing
      BY DEF NoResult
    <2>4. a = "question" => sid # 0 /\ sid = w.session.sid
      BY <1>2, <1>3 DEF Step, Coherent, Known, Askable
    <2> HIDE DEF j, w, v
    <2> QED BY <2>1, <2>2, <2>3, <2>4, Values DEF JobCoherent, Known
  <1>6. Launch(u, a, sid) \in { [ui |-> u, new |-> {}], [ui |-> Invalidate(u), new |-> {}],
                                [ui |-> v, new |-> {}], [ui |-> w, new |-> {j}] }
    BY DEF Launch
  <1> HIDE DEF v, w, j
  <1> QED BY <1>1, <1>2, <1>4, <1>5, <1>6 DEF Launched

-----------------------------------------------------------------------------
(* _apply *)

\* The operators of a current read, which replace Session and Flow one after the
\* other, keep what is left of Coherent in between: the question's part.
Asked(u)      == Known(u.session) /\ {u.pending, u.receipt, u.reply} \subseteq {0, u.session.sid}
StepTo(u, v)  == v \in Ui /\ Asked(v) /\ Later(u, v)

LEMMA WithdrawTo == ASSUME NEW u \in Ui, Known(u.session) PROVE StepTo(u, Withdraw(u))
  <1>1. u \in UiType /\ u.qEpoch \in Nat
    BY DEF Ui, UiType
  <1>2. Withdraw(u) \in Ui
    BY <1>1, WithdrawType DEF Ui, Lanes
  <1> QED BY <1>1, <1>2, WithdrawType DEF StepTo, Later, Asked

LEMMA StepToTrans == ASSUME NEW u \in Ui, NEW v, NEW w, StepTo(u, v), StepTo(v, w) PROVE StepTo(u, w)
  <1>1. u.qEpoch \in Nat /\ v.qEpoch \in Nat /\ w.qEpoch \in Nat
    BY DEF StepTo, Ui, UiType
  <1> QED BY <1>1 DEF StepTo, Later

LEMMA InstallScopeStep ==
    ASSUME NEW u \in Ui, Asked(u), NEW r \in Jobs PROVE StepTo(u, InstallScope(u, r))
  <1> DEFINE new == IF r.res.owner # NoProfile
                    THEN [binding |-> r.raw, owner |-> r.res.owner, private |-> r.res.private]
                    ELSE NoScope
             v == [u EXCEPT !.scope = new]
             c == ClearArchive(v)
             d == Withdraw(c)
             i == d.ownerEpoch + 1
             e == [d EXCEPT !.ownerEpoch = i, !.timeline = Nothing, !.search = Nothing]
  <1>1. new \in [binding : Bindings, owner : Owners, private : BOOLEAN]
    BY Values DEF Jobs, Results, Scopes
  <1>2. v \in Ui /\ SameScreen(u, v)
    <2> HIDE DEF new
    <2> QED BY <1>1 DEF Ui, UiType, Lanes, SameScreen
  <1> HIDE DEF new, v
  <1>3. c \in Ui /\ SameScreen(v, c)
    <2>1. /\ ClearHistory(v) \in UiType /\ SameScreen(v, ClearHistory(v)) /\ Lanes(ClearHistory(v))
      BY <1>2, ClearHistoryType DEF Ui
    <2>2. ASSUME NEW x \in UiType, Lanes(x), NEW n \in Nat
          PROVE [x EXCEPT !.viewEpoch = n] \in Ui /\ SameScreen(x, [x EXCEPT !.viewEpoch = n])
      BY <2>2 DEF Ui, UiType, Lanes, SameScreen
    <2>3. ClearHistory(v).viewEpoch + 1 \in Nat
      BY <2>1 DEF UiType
    <2> QED BY <2>1, <2>2, <2>3 DEF ClearArchive, SameScreen
  <1> HIDE DEF c
  <1>4. StepTo(u, u) /\ StepTo(u, v) /\ StepTo(u, c)
    BY <1>2, <1>3, LaterRefl DEF StepTo, SameScreen, Later, Asked, Ui, UiType
  <1>5. StepTo(c, d)
    BY <1>4, WithdrawTo DEF StepTo, Asked
  <1> HIDE DEF d
  <1>6. StepTo(d, e)
    <2>1. d \in UiType /\ i \in Nat
      BY <1>5 DEF StepTo, Ui, UiType
    <2> HIDE DEF i
    <2>2. e \in UiType
      BY <2>1, Values DEF UiType
    <2>3. SameScreen(d, e)
      BY <2>1 DEF UiType, SameScreen
    <2>4. e.running = d.running /\ e.act = d.act /\ e.qRunning = d.qRunning
          /\ e.lastRead = d.lastRead /\ e.serial = d.serial
      BY <2>1 DEF UiType
    <2>5. Lanes(e) /\ d.qEpoch \in Nat
      BY <1>5, <2>4 DEF Lanes, StepTo, Ui, UiType
    <2> HIDE DEF e
    <2> QED BY <1>5, <2>2, <2>3, <2>5 DEF StepTo, Ui, SameScreen, Later, Asked
  <1>7. InstallScope(u, r) \in {v, e}
    BY DEF InstallScope, new, v, c, d
  <1> HIDE DEF e
  <1> QED BY <1>4, <1>5, <1>6, <1>7, StepToTrans

LEMMA InstallSessionStep ==
    ASSUME NEW u \in Ui, Asked(u), NEW r \in Jobs, Known(r.res.session)
    PROVE StepTo(u, InstallSession(u, r)) /\ InstallSession(u, r).session = r.res.session
  <1> DEFINE v == IF u.session.sid # r.res.session.sid THEN Withdraw(u) ELSE u
             w == [v EXCEPT !.session = r.res.session, !.caps = r.res.caps]
  <1>1. StepTo(u, v) /\ v.session = u.session
        /\ (u.session.sid # r.res.session.sid => v.qEpoch = u.qEpoch + 1 /\ v.pending = 0
                                                 /\ v.receipt = 0 /\ v.reply = 0)
    BY LaterRefl, WithdrawTo, WithdrawType DEF StepTo, Asked, Ui
  <1>2. r.res.session \in Content /\ r.res.caps \in SUBSET {"history", "dialogue", "search"}
    BY DEF Jobs, Results
  <1>3. v \in UiType /\ v.qEpoch \in Nat /\ u.qEpoch \in Nat
    BY <1>1 DEF StepTo, Ui, UiType
  <1>4. w \in UiType
    <2> HIDE DEF v
    <2> QED BY <1>2, <1>3 DEF UiType
  <1>5. /\ w.session = r.res.session /\ w.qEpoch = v.qEpoch
        /\ w.pending = v.pending /\ w.receipt = v.receipt /\ w.reply = v.reply
        /\ w.running = v.running /\ w.act = v.act /\ w.qRunning = v.qRunning
        /\ w.lastRead = v.lastRead /\ w.serial = v.serial
    <2> HIDE DEF v
    <2> QED BY <1>3 DEF UiType
  <1>6. v = u \/ u.session.sid # r.res.session.sid
    OBVIOUS
  <1>7. InstallSession(u, r) \in {w, Withdraw(w)}
    BY DEF InstallSession
  <1> HIDE DEF v, w
  <1>8. StepTo(u, w)
    BY <1>1, <1>3, <1>4, <1>5, <1>6 DEF StepTo, Ui, Lanes, Asked, Later
  <1>9. StepTo(w, Withdraw(w)) /\ Withdraw(w).session = w.session
    BY <1>8, WithdrawTo, WithdrawType DEF StepTo, Asked, Ui
  <1> QED BY <1>5, <1>7, <1>8, <1>9, StepToTrans

LEMMA InstallCurrentStep ==
    ASSUME NEW u \in Ui, Coherent(u), NEW r \in Jobs, JobCoherent(u, r)
    PROVE Step(u, InstallCurrent(u, r))
  <1> DEFINE v == InstallSession(InstallScope(u, r), r)
             off == [ClearHistory(v) EXCEPT !.conv = Nothing, !.timeline = Nothing, !.search = Nothing]
             on == [v EXCEPT !.conv = r.res.conv, !.search = IF SearchSupported(v) THEN @ ELSE Nothing]
  <1>1. StepTo(u, InstallScope(u, r))
    BY InstallScopeStep DEF Coherent, Asked
  <1>2. StepTo(InstallScope(u, r), v) /\ v.session = r.res.session
    BY <1>1, InstallSessionStep DEF StepTo, JobCoherent
  <1>3. StepTo(u, v) /\ v.session = r.res.session
    BY <1>1, <1>2, StepToTrans
  <1> HIDE DEF v
  <1>4. v \in UiType /\ v.qEpoch \in Nat
    BY <1>3 DEF StepTo, Ui, UiType
  <1>5. r.res.conv \in Content
    BY DEF Jobs, Results
  <1>6. on \in UiType
    BY <1>4, <1>5, Values DEF UiType
  <1>7. /\ on.session = v.session /\ on.conv = r.res.conv /\ on.qEpoch = v.qEpoch
        /\ on.pending = v.pending /\ on.receipt = v.receipt /\ on.reply = v.reply
        /\ on.running = v.running /\ on.act = v.act /\ on.qRunning = v.qRunning
        /\ on.lastRead = v.lastRead /\ on.serial = v.serial
    BY <1>4 DEF UiType
  <1>8. Step(u, on)
    <2> HIDE DEF on
    <2> QED BY <1>3, <1>6, <1>7 DEF StepTo, Asked, Ui, Lanes, Step, Later, Coherent, JobCoherent
  <1>9. /\ ClearHistory(v) \in UiType /\ SameScreen(v, ClearHistory(v)) /\ Lanes(ClearHistory(v))
    BY <1>3, ClearHistoryType DEF StepTo, Ui
  <1>10. off \in UiType
    BY <1>9, Values DEF UiType
  <1>11. /\ off.session = v.session /\ off.conv = Nothing /\ off.qEpoch = v.qEpoch
         /\ off.pending = v.pending /\ off.receipt = v.receipt /\ off.reply = v.reply
    BY <1>9 DEF UiType, SameScreen
  <1>12. LET h == ClearHistory(v)
         IN  /\ off.running = h.running /\ off.act = h.act /\ off.qRunning = h.qRunning
             /\ off.lastRead = h.lastRead /\ off.serial = h.serial
    BY <1>9 DEF UiType
  <1>13. Lanes(off)
    BY <1>9, <1>12 DEF Lanes
  <1>14. Step(u, off)
    <2> HIDE DEF off
    <2> QED BY <1>3, <1>10, <1>11, <1>13, Values DEF StepTo, Asked, Ui, Step, Later, Coherent
  <1>15. InstallCurrent(u, r) \in {on, off}
    BY DEF InstallCurrent, InstallFlow, v
  <1> HIDE DEF on, off
  <1> QED BY <1>8, <1>14, <1>15

LEMMA InstallArchiveStep ==
    ASSUME NEW u \in Ui, Coherent(u), NEW r \in Jobs PROVE Step(u, InstallArchive(u, r))
  <1>1. r.res.panel \in Content
    BY DEF Jobs, Results
  <1>2. InstallArchive(u, r) \in Ui /\ SameScreen(u, InstallArchive(u, r))
    <2> DEFINE a == [u EXCEPT !.archive = r.res.panel, !.historyLoaded = TRUE]
               b == [u EXCEPT !.search = r.res.panel]
               c == [u EXCEPT !.timeline = r.res.panel]
               d == [u EXCEPT !.timeline = r.res.panel, !.search = Nothing]
    <2>1. a \in Ui /\ SameScreen(u, a)
      BY <1>1 DEF Ui, UiType, Lanes, SameScreen
    <2>2. b \in Ui /\ SameScreen(u, b)
      BY <1>1 DEF Ui, UiType, Lanes, SameScreen
    <2>3. ASSUME NEW n \in {u.search, Nothing}
          PROVE /\ [u EXCEPT !.timeline = r.res.panel, !.search = n] \in Ui
                /\ SameScreen(u, [u EXCEPT !.timeline = r.res.panel, !.search = n])
      <3>1. n \in Content
        BY Values DEF Ui, UiType
      <3> QED BY <1>1, <3>1 DEF Ui, UiType, Lanes, SameScreen
    <2>4. [u EXCEPT !.timeline = r.res.panel].search = u.search
      BY DEF Ui, UiType
    <2>5. CASE r.act \in HistoryReads
      BY <2>1, <2>5 DEF InstallArchive, HistoryReads, SearchReads
    <2>6. CASE r.act \notin HistoryReads /\ r.act \in SearchReads
      BY <2>2, <2>6 DEF InstallArchive
    <2>7. CASE r.act \notin HistoryReads /\ r.act \notin SearchReads
      BY <2>3, <2>4, <2>7 DEF InstallArchive
    <2> QED BY <2>5, <2>6, <2>7
  <1> QED BY <1>2, SameScreenStep

LEMMA ApplyReadStep ==
    ASSUME NEW u0 \in Ui, Coherent(u0), NEW r \in Jobs, JobCoherent(u0, r), NEW gone
    PROVE Step(u0, ApplyRead(u0, r, gone).ui)
  <1> DEFINE u == [u0 EXCEPT !.running = 0, !.act = "none"]
             x == [u EXCEPT !.archive = Nothing]
             v == IF r.act \in HistoryReads /\ Failed(r) THEN x ELSE u
             y == [v EXCEPT !.search = Nothing, !.timeline = Nothing]
  <1>1. Step(u0, u) /\ SameScreen(u0, u)
    <2>1. u \in UiType /\ SameScreen(u0, u)
      BY DEF Ui, UiType, SameScreen
    <2>2. u.running = 0 /\ u.act = "none" /\ u.qRunning = u0.qRunning
          /\ u.lastRead = u0.lastRead /\ u.serial = u0.serial /\ u0.serial \in Nat
      BY DEF Ui, UiType
    <2> HIDE DEF u
    <2>3. Lanes(u)
      BY <2>2 DEF Ui, Lanes
    <2> QED BY <2>1, <2>3, SameScreenStep DEF Ui
  <1> HIDE DEF u
  <1>2. u \in UiType /\ Lanes(u)
    BY <1>1 DEF Step, Ui
  <1>3. Step(u, u) /\ Step(u, x) /\ SameScreen(u, x)
    <2>1. x \in UiType /\ SameScreen(u, x) /\ SameScreen(u, u)
      BY <1>2, Values DEF UiType, SameScreen
    <2>2. Lanes(x)
      BY <1>2 DEF UiType, Lanes
    <2> QED BY <1>1, <2>1, <2>2, SameScreenStep DEF Ui, Step
  <1>4. Step(u, v) /\ SameScreen(u0, v)
    BY <1>1, <1>3 DEF SameScreen
  <1> HIDE DEF v
  <1>5. v \in UiType /\ Lanes(v)
    BY <1>4 DEF Step, Ui
  <1>6. Step(v, y)
    <2>1. y \in UiType
      BY <1>5, Values DEF UiType
    <2>2. SameScreen(v, y)
      BY <1>5 DEF UiType, SameScreen
    <2>3. Lanes(y)
      BY <1>5 DEF UiType, Lanes
    <2> QED BY <1>4, <2>1, <2>2, <2>3, SameScreenStep DEF Ui, Step
  <1>7. JobCoherent(v, r)
    BY <1>4 DEF JobCoherent, SameScreen
  <1>8. /\ Step(v, ClearAll(v)) /\ Step(v, InstallCurrent(v, r)) /\ Step(v, InstallArchive(v, r))
        /\ Step(u, Invalidate(u))
    BY <1>1, <1>4, <1>7, ClearAllStep, InstallCurrentStep, InstallArchiveStep, InvalidateStep DEF Step
  <1>9. ASSUME NEW w, Step(v, w) PROVE Step(v, Expire(w, gone))
    BY <1>4, <1>9, ExpireStep, StepTrans DEF Step
  <1>10. ApplyRead(u0, r, gone).ui \in
           {Invalidate(u), u, y, Expire(ClearAll(v), gone),
            Expire(InstallCurrent(v, r), gone), Expire(InstallArchive(v, r), gone)}
    <2>1. CASE ~StillBound(u, r)
      BY <2>1 DEF ApplyRead, u
    <2>2. CASE StillBound(u, r) /\ r.act \in ArchiveReads /\ ~SameView(u, r)
      BY <2>2 DEF ApplyRead, u
    <2>3. CASE StillBound(u, r) /\ ~(r.act \in ArchiveReads /\ ~SameView(u, r))
      BY <2>3 DEF ApplyRead, u, v
    <2> QED BY <2>1, <2>2, <2>3
  <1> HIDE DEF y
  <1>11. \/ ApplyRead(u0, r, gone).ui \in {Invalidate(u), u}
         \/ Step(v, ApplyRead(u0, r, gone).ui)
    BY <1>6, <1>8, <1>9, <1>10
  <1>12. Step(u, ApplyRead(u0, r, gone).ui)
    BY <1>3, <1>4, <1>8, <1>11, <1>1, StepTrans DEF Step
  <1> QED BY <1>1, <1>12, StepTrans

LEMMA ReconcileStep ==
    ASSUME NEW u \in Ui, Coherent(u), NEW blocked \in BOOLEAN
    PROVE Launched(u, Reconcile(u, blocked))
  <1> DEFINE v == [u EXCEPT !.reconcile = FALSE]
  <1>1. v \in Ui /\ SameScreen(u, v)
    BY DEF Ui, UiType, Lanes, SameScreen
  <1>2. Step(u, u) /\ Step(u, v)
    BY <1>1, LaterRefl, SameScreenStep DEF Step
  <1> HIDE DEF v
  <1>3. Launched(v, Launch(v, "refresh", 0))
    <2>1. "refresh" \in Actions /\ Askable(v, "refresh", 0)
      BY DEF Actions, CurrentReads, Askable
    <2> QED BY <1>2, <2>1, LaunchStep DEF Step
  <1>4. Launched(u, Launch(v, "refresh", 0))
    BY <1>2, <1>3, StepTrans DEF Launched
  <1>5. Reconcile(u, blocked) \in { [ui |-> u, new |-> {}], [ui |-> v, new |-> {}],
                                    Launch(v, "refresh", 0) }
    BY DEF Reconcile, v
  <1> QED BY <1>2, <1>4, <1>5 DEF Launched

\* A step that moves only the question's own fields to 0 or to the Session on screen,
\* and the Flow to one that belongs to it.
LEMMA QuestionFieldsStep ==
    ASSUME NEW u \in Ui, Coherent(u), NEW v \in UiType,
           v.session = u.session, v.qEpoch = u.qEpoch,
           {v.pending, v.receipt, v.reply} \subseteq {0, u.session.sid},
           Shown(v.conv) => Shown(u.session) /\ v.conv.sid = u.session.sid,
           v.running = u.running, v.act = u.act, v.serial = u.serial, v.lastRead = u.lastRead,
           v.qRunning \in {0, u.qRunning}
    PROVE Step(u, v)
  <1>1. u.serial \in Nat /\ u.qEpoch \in Nat
    BY DEF Ui, UiType
  <1>2. Lanes(v)
    BY <1>1 DEF Ui, Lanes
  <1> QED BY <1>1, <1>2 DEF Ui, Step, Later, Coherent

LEMMA ApplyQuestionStep ==
    ASSUME NEW u0 \in Ui, Coherent(u0), NEW r \in Jobs, JobCoherent(u0, r), r.act = "question", NEW gone
    PROVE Step(u0, ApplyQuestion(u0, r, gone).ui)
  <1> DEFINE u == [u0 EXCEPT !.qRunning = 0, !.pending = 0, !.pendingBinding = NoBinding]
             n == IF r.res.accepted THEN r.sid ELSE 0
             v == [u EXCEPT !.receipt = n]
             w == [v EXCEPT !.selection = NoSelection]
             answer == [w EXCEPT !.receipt = 0, !.reply = r.sid, !.replyBinding = r.binding]
             later == [w EXCEPT !.reconcile = TRUE]
             flow == [w EXCEPT !.conv = r.res.conv]
             none == [w EXCEPT !.conv = Nothing]
             new == ApplyQuestion(u0, r, gone).ui
  <1>1. /\ r.sid \in Nat /\ r.binding \in Bindings /\ r.res.conv \in Content
        /\ n \in Nat /\ n \in {0, r.sid}
    BY DEF Jobs, Results
  <1>2. u \in UiType
    BY Values DEF Ui, UiType
  <1>3. /\ u.session = u0.session /\ u.conv = u0.conv /\ u.qEpoch = u0.qEpoch /\ u.qRunning = 0
        /\ u.pending = 0 /\ u.receipt = u0.receipt /\ u.reply = u0.reply
        /\ u.running = u0.running /\ u.act = u0.act /\ u.serial = u0.serial /\ u.lastRead = u0.lastRead
    BY DEF Ui, UiType
  <1> HIDE DEF u
  <1>4. Step(u0, u)
    BY <1>2, <1>3, QuestionFieldsStep DEF Coherent
  <1>5. Step(u, Invalidate(u))
    BY <1>4, InvalidateStep DEF Step
  <1>6. CASE ~SameQuestion(u, r)
    BY <1>4, <1>6 DEF ApplyQuestion, u
  <1>7. CASE SameQuestion(u, r) /\ (~StillBound(u, r) \/ r.res.error = "denied")
    <2>1. new = Invalidate(u)
      BY <1>7 DEF ApplyQuestion, u
    <2> QED BY <2>1, <1>4, <1>5, StepTrans
  <1>8. CASE SameQuestion(u, r) /\ ~(~StillBound(u, r) \/ r.res.error = "denied")
    <2>1. r.sid # 0 /\ r.sid = u.session.sid /\ Shown(u.session)
      BY <1>3, <1>4, <1>8 DEF SameQuestion, JobCoherent, Step, Coherent, Known
    <2> HIDE DEF n
    <2>2. v \in UiType /\ v.receipt = n /\ v.session = u.session /\ v.conv = u.conv
          /\ v.qEpoch = u.qEpoch /\ v.pending = u.pending /\ v.reply = u.reply /\ v.serial = u.serial
          /\ v.running = u.running /\ v.act = u.act /\ v.lastRead = u.lastRead /\ v.qRunning = u.qRunning
      BY <1>1, <1>2 DEF UiType
    <2> HIDE DEF v
    <2>3. w \in UiType /\ w.receipt = n /\ w.session = u.session /\ w.conv = u.conv
          /\ w.qEpoch = u.qEpoch /\ w.pending = u.pending /\ w.reply = u.reply /\ w.serial = u.serial
          /\ w.running = u.running /\ w.act = u.act /\ w.lastRead = u.lastRead /\ w.qRunning = u.qRunning
      BY <2>2, Values DEF UiType, Selected
    <2> HIDE DEF w
    <2>4. Step(u, w)
      BY <1>1, <1>4, <2>1, <2>3, QuestionFieldsStep DEF Step, Coherent
    <2>5. w \in Ui /\ Coherent(w) /\ w.qRunning = 0
      BY <1>3, <2>3, <2>4 DEF Step
    <2>6. Step(w, answer)
      <3>1. answer \in UiType
        BY <1>1, <2>3 DEF UiType
      <3>2. /\ answer.receipt = 0 /\ answer.reply = r.sid /\ answer.session = w.session
            /\ answer.conv = w.conv /\ answer.qEpoch = w.qEpoch /\ answer.pending = w.pending
            /\ answer.serial = w.serial /\ answer.running = w.running /\ answer.act = w.act
            /\ answer.lastRead = w.lastRead /\ answer.qRunning = w.qRunning
        BY <2>3 DEF UiType
      <3> HIDE DEF answer
      <3> QED BY <2>1, <2>3, <2>5, <3>1, <3>2, QuestionFieldsStep DEF Coherent
    <2>7. Step(w, later)
      <3>1. later \in UiType /\ SameScreen(w, later)
        BY <2>3 DEF UiType, SameScreen
      <3>2. Lanes(later)
        BY <2>5 DEF Ui, UiType, Lanes
      <3> QED BY <2>5, <3>1, <3>2, SameScreenStep DEF Ui
    <2>8. Step(w, flow) /\ Step(w, none)
      <3>1. flow \in UiType /\ none \in UiType
        BY <1>1, <2>3, Values DEF UiType
      <3>2. /\ flow.receipt = w.receipt /\ flow.reply = w.reply /\ flow.session = w.session
            /\ flow.conv = r.res.conv /\ flow.qEpoch = w.qEpoch /\ flow.pending = w.pending
            /\ flow.serial = w.serial /\ flow.running = w.running /\ flow.act = w.act
            /\ flow.lastRead = w.lastRead /\ flow.qRunning = w.qRunning
        BY <2>3 DEF UiType
      <3>3. /\ none.receipt = w.receipt /\ none.reply = w.reply /\ none.session = w.session
            /\ none.conv = Nothing /\ none.qEpoch = w.qEpoch /\ none.pending = w.pending
            /\ none.serial = w.serial /\ none.running = w.running /\ none.act = w.act
            /\ none.lastRead = w.lastRead /\ none.qRunning = w.qRunning
        BY <2>3 DEF UiType
      <3>4. Shown(r.res.conv) => r.res.conv.sid = r.sid
        BY DEF JobCoherent
      <3> HIDE DEF flow, none
      <3>5. Step(w, flow)
        BY <2>1, <2>3, <2>5, <3>1, <3>2, <3>4, QuestionFieldsStep DEF Coherent
      <3>6. Step(w, none)
        BY <2>5, <3>1, <3>3, Values, QuestionFieldsStep DEF Coherent
      <3> QED BY <3>5, <3>6
    <2>9. Step(w, DropReply(answer))
      BY <2>5, <2>6, DropReplyStep, StepTrans DEF Step
    <2>10. Step(w, Expire(flow, gone))
      BY <2>5, <2>8, ExpireStep, StepTrans DEF Step
    <2>11. Step(w, Expire(ClearAll(w), gone))
      <3>1. Step(w, ClearAll(w))
        BY <2>5, ClearAllStep DEF Step
      <3> QED BY <2>5, <3>1, ExpireStep, StepTrans DEF Step
    <2>12. new \in {DropReply(answer), later, Expire(flow, gone), Expire(ClearAll(w), gone), none}
      BY <1>8 DEF ApplyQuestion, u, v, w, n
    <2> HIDE DEF answer, later, flow, none, new
    <2>13. Step(w, new)
      BY <2>7, <2>8, <2>9, <2>10, <2>11, <2>12
    <2> QED BY <1>4, <2>4, <2>13, StepTrans DEF new
  <1> QED BY <1>6, <1>7, <1>8

-----------------------------------------------------------------------------
(* The GUI thread *)

\* The in-flight jobs stay coherent while the controller moves on.
LEMMA JobLater ==
    ASSUME NEW u \in Ui, NEW v \in Ui, Later(u, v), NEW j \in Jobs, JobCoherent(u, j)
    PROVE JobCoherent(v, j)
  <1>1. u.qEpoch \in Nat /\ v.qEpoch \in Nat /\ j.qe \in Nat
    BY DEF Ui, UiType, Jobs
  <1> QED BY <1>1 DEF JobCoherent, Later

LEMMA GuiStep ==
    ASSUME SessionInv, NEW L, Launched(ui, L), ui' = L.ui, jobs' = jobs \cup L.new,
           ready' = ready \/ (ready # <<>> /\ ready' = Tail(ready)), core' = core
    PROVE SessionInv'
  <1>1. ui \in Ui /\ ui' \in Ui /\ Coherent(ui)' /\ Later(ui, ui')
    BY DEF SessionInv, TypeOK, Launched, Step, Coherent, Known, Shown
  <1>2. jobs' \subseteq Jobs /\ ready' \in Seq(Jobs) /\ core' \in CoreType
    BY DEF SessionInv, TypeOK, Launched
  <1>3. TypeOK'
    BY <1>1, <1>2 DEF TypeOK
  <1>4. \A i \in DOMAIN ready' : \E k \in DOMAIN ready : ready'[i] = ready[k]
    <2>1. CASE ready' = ready
      BY <2>1
    <2>2. CASE ready # <<>> /\ ready' = Tail(ready)
      <3>1. ready \in Seq(Jobs)
        BY DEF SessionInv, TypeOK
      <3>2. ASSUME NEW i \in DOMAIN ready'
            PROVE i + 1 \in DOMAIN ready /\ ready'[i] = ready[i + 1]
        BY <2>2, <3>1, <3>2
      <3> QED BY <3>2
    <2> QED BY <2>1, <2>2
  <1>5. ASSUME NEW j \in InFlight' PROVE JobCoherent(ui', j)
    <2>1. j \in L.new \/ j \in InFlight
      BY <1>4 DEF InFlight
    <2>2. CASE j \in L.new
      BY <2>2 DEF Launched
    <2>3. CASE j \in InFlight
      <3>1. j \in Jobs /\ JobCoherent(ui, j)
        BY <2>3 DEF SessionInv, TypeOK, InFlight
      <3> QED BY <1>1, <3>1, JobLater
    <2> QED BY <2>1, <2>2, <2>3
  <1>6. \A j \in InFlight' : JobCoherent(ui, j)'
    BY <1>5 DEF JobCoherent, Known, Shown
  <1> QED BY <1>1, <1>3, <1>6 DEF SessionInv

\* A slot that only moves the controller, and one that moves it and then launches.
LEMMA ShowStep ==
    ASSUME SessionInv, NEW v, Step(ui, v), Show(v) PROVE SessionInv'
  <1> DEFINE L == [ui |-> v, new |-> {}]
  <1>1. Launched(ui, L)
    BY DEF Launched
  <1>2. ui' = L.ui /\ jobs' = jobs \cup L.new /\ ready' = ready /\ core' = core
    BY DEF Show
  <1> HIDE DEF L
  <1> QED BY <1>1, <1>2, GuiStep

LEMMA CallStep ==
    ASSUME SessionInv, NEW v, Step(ui, v), NEW a \in Actions, NEW sid, Askable(v, a, sid),
           Call(Launch(v, a, sid))
    PROVE SessionInv'
  <1> DEFINE L == Launch(v, a, sid)
  <1>1. Launched(v, L)
    BY LaunchStep DEF Step
  <1>2. ui \in Ui
    BY DEF SessionInv, TypeOK
  <1>3. Launched(ui, L)
    BY <1>1, <1>2, StepTrans DEF Launched
  <1>4. ui' = L.ui /\ jobs' = jobs \cup L.new /\ ready' = ready /\ core' = core
    BY DEF Call
  <1> HIDE DEF L
  <1> QED BY <1>3, <1>4, GuiStep

\* Updates a slot makes before it launches or instead of launching.
LEMMA SlotUpdates ==
    ASSUME NEW u \in Ui, Coherent(u)
    PROVE /\ \A sel \in Selected : Step(u, [u EXCEPT !.selection = sel])
          /\ \A n \in Nat : /\ Step(u, [u EXCEPT !.viewEpoch = n])
                            /\ Step(u, [u EXCEPT !.viewEpoch = n, !.search = Nothing])
                            /\ Step(u, [u EXCEPT !.viewEpoch = n, !.timeline = Nothing, !.search = Nothing])
          /\ \A b \in BOOLEAN : Step(u, [u EXCEPT !.foreground = b])
          /\ \A c \in Configs : Step(u, [u EXCEPT !.cfg = c])
  <1>1. ASSUME NEW sel \in Selected PROVE Step(u, [u EXCEPT !.selection = sel])
    <2>1. [u EXCEPT !.selection = sel] \in Ui /\ SameScreen(u, [u EXCEPT !.selection = sel])
      BY DEF Ui, UiType, Lanes, SameScreen, Selected
    <2> QED BY <2>1, SameScreenStep
  <1>2. ASSUME NEW n \in Nat
        PROVE /\ Step(u, [u EXCEPT !.viewEpoch = n])
              /\ Step(u, [u EXCEPT !.viewEpoch = n, !.search = Nothing])
              /\ Step(u, [u EXCEPT !.viewEpoch = n, !.timeline = Nothing, !.search = Nothing])
    <2>1. LET v == [u EXCEPT !.viewEpoch = n] IN v \in Ui /\ SameScreen(u, v)
      BY DEF Ui, UiType, Lanes, SameScreen
    <2>2. LET v == [u EXCEPT !.viewEpoch = n, !.search = Nothing] IN v \in Ui /\ SameScreen(u, v)
      BY Values DEF Ui, UiType, Lanes, SameScreen
    <2>3. LET v == [u EXCEPT !.viewEpoch = n, !.timeline = Nothing, !.search = Nothing]
          IN  v \in Ui /\ SameScreen(u, v)
      BY Values DEF Ui, UiType, Lanes, SameScreen
    <2> QED BY <2>1, <2>2, <2>3, SameScreenStep
  <1>3. ASSUME NEW b \in BOOLEAN PROVE Step(u, [u EXCEPT !.foreground = b])
    <2>1. LET v == [u EXCEPT !.foreground = b] IN v \in Ui /\ SameScreen(u, v)
      BY DEF Ui, UiType, Lanes, SameScreen
    <2> QED BY <2>1, SameScreenStep
  <1>4. ASSUME NEW c \in Configs PROVE Step(u, [u EXCEPT !.cfg = c])
    <2>1. LET v == [u EXCEPT !.cfg = c] IN v \in Ui /\ SameScreen(u, v)
      BY DEF Ui, UiType, Lanes, SameScreen
    <2> QED BY <2>1, SameScreenStep
  <1> QED BY <1>1, <1>2, <1>3, <1>4

LEMMA ActionNames == CurrentReads \subseteq Actions /\ ArchiveReads \subseteq Actions
                     /\ "question" \in Actions /\ "question" \notin CurrentReads \cup ArchiveReads
  BY DEF Actions, CurrentReads, LifecycleWrites, ArchiveReads, HistoryReads, SearchReads, TimelineReads

LEMMA SlotStep == ASSUME SessionInv, Slot PROVE SessionInv'
  <1>1. ui \in Ui /\ Coherent(ui) /\ Step(ui, ui)
    BY LaterRefl DEF SessionInv, TypeOK, Step
  <1>2. /\ ui.session.sid \in Nat /\ ui.timeline.sid \in Nat /\ ui.search.sid \in Nat
        /\ ui.viewEpoch + 1 \in Nat /\ ui.cfg \in Configs /\ ui.foreground \in BOOLEAN
    BY <1>1 DEF Ui, UiType, Content
  <1>3. CASE Refresh
    BY <1>1, <1>3, CallStep, ActionNames DEF Refresh, Askable, CurrentReads
  <1>4. CASE Start
    BY <1>1, <1>4, CallStep, ActionNames DEF Start, Askable, CurrentReads, LifecycleWrites
  <1>5. CASE End
    BY <1>1, <1>2, <1>5, CallStep, ActionNames DEF End, Askable, CurrentReads, LifecycleWrites
  <1>6. CASE SendQuestion
    <2>1. CASE SelectionValid(ui)
      BY <1>1, <1>2, <1>6, <2>1, CallStep, ActionNames DEF SendQuestion, Askable, ComposerSupported
    <2>2. CASE ~SelectionValid(ui)
      BY <1>1, <1>6, <2>2, ShowStep, SlotUpdates, Values DEF SendQuestion
    <2> QED BY <2>1, <2>2
  <1>7. ASSUME NEW a \in HistoryReads, LoadHistory(a) PROVE SessionInv'
    BY <1>1, <1>7, CallStep, ActionNames DEF LoadHistory, Askable, ArchiveReads
  <1>8. ASSUME NEW a \in TimelineReads \cup SearchReads, NEW sid \in 1..MaxRev, OpenView(a, sid)
        PROVE SessionInv'
    <2>1. a \in Actions /\ a # "question"
      BY ActionNames DEF ArchiveReads
    <2>2. Askable(NewView(a), a, sid)
      BY <2>1, BoundsAssumption DEF Askable
    <2>3. Step(ui, NewView(a))
      BY <1>1, <1>2, SlotUpdates DEF NewView
    <2> QED BY <1>8, <2>1, <2>2, <2>3, CallStep DEF OpenView
  <1>9. ASSUME NEW a \in TimelineReads \cup SearchReads, PageTimeline(a) \/ PageSearch(a)
        PROVE SessionInv'
    <2>1. a \in Actions /\ a # "question"
      BY ActionNames DEF ArchiveReads
    <2>2. Askable(ui, a, ui.timeline.sid) /\ Askable(ui, a, ui.search.sid)
      BY <1>2, <2>1 DEF Askable
    <2> QED BY <1>1, <1>9, <2>1, <2>2, CallStep DEF PageTimeline, PageSearch
  <1>10. CASE CloseSaved \/ ClearSearch
    BY <1>1, <1>2, <1>10, ShowStep, SlotUpdates DEF CloseSaved, ClearSearch
  <1>11. CASE CloseArchive
    BY <1>1, <1>11, ShowStep, ClearArchiveStep DEF CloseArchive
  <1>12. ASSUME NEW sel \in Selections, Select(sel) PROVE SessionInv'
    <2>1. sel \in Selected
      BY <1>2, Values DEF Selections, Selected, Sources
    <2>2. /\ Step(ui, [ui EXCEPT !.selection = sel])
          /\ Step(ui, [[ui EXCEPT !.selection = sel] EXCEPT !.selection = NoSelection])
      <3>1. Step(ui, [ui EXCEPT !.selection = sel])
        BY <1>1, <2>1, SlotUpdates
      <3>2. Step([ui EXCEPT !.selection = sel],
                 [[ui EXCEPT !.selection = sel] EXCEPT !.selection = NoSelection])
        BY <3>1, SlotUpdates, Values DEF Step
      <3> QED BY <1>1, <3>1, <3>2, StepTrans
    <2> QED BY <1>12, <2>2, ShowStep DEF Select
  <1>13. CASE SetForeground
    <2> DEFINE v == [Invalidate(ui) EXCEPT !.foreground = ~ui.foreground]
    <2>1. Step(ui, Invalidate(ui))
      BY <1>1, InvalidateStep DEF Step
    <2>2. Step(Invalidate(ui), v)
      BY <1>2, <2>1, SlotUpdates DEF Step
    <2>3. Step(ui, v)
      BY <1>1, <2>1, <2>2, StepTrans
    <2>4. Askable(v, "refresh", 0) /\ "refresh" \in Actions
      BY ActionNames DEF Askable, CurrentReads
    <2>5. Call(Launch(v, "refresh", 0)) \/ Show(v)
      BY <1>13 DEF SetForeground
    <2> HIDE DEF v
    <2> QED BY <2>3, <2>4, <2>5, CallStep, ShowStep
  <1>14. CASE ConfirmProfile
    <2> DEFINE v == [ui EXCEPT !.cfg.explicit = ui.cfg.active]
    <2>1. Step(ui, v)
      <3>1. [ui.cfg EXCEPT !.explicit = ui.cfg.active] \in Configs
        BY <1>2 DEF Configs
      <3>2. v = [ui EXCEPT !.cfg = [ui.cfg EXCEPT !.explicit = ui.cfg.active]]
        OBVIOUS
      <3> HIDE DEF v
      <3> QED BY <1>1, <3>1, <3>2, SlotUpdates
    <2> HIDE DEF v
    <2>2. Step(v, Invalidate(v))
      BY <2>1, InvalidateStep DEF Step
    <2>3. Step(ui, Invalidate(v))
      BY <1>1, <2>1, <2>2, StepTrans
    <2>4. Askable(Invalidate(v), "refresh", 0) /\ "refresh" \in Actions
      BY ActionNames DEF Askable, CurrentReads
    <2>5. Call(Launch(Invalidate(v), "refresh", 0))
      BY <1>14 DEF ConfirmProfile, v
    <2> QED BY <2>3, <2>4, <2>5, CallStep
  <1>15. CASE Tick
    BY <1>1, <1>15, ShowStep, ExpireStep DEF Tick
  <1>16. CASE ReadState
    BY <1>1, <1>16, ShowStep, ReadStep DEF ReadState
  <1> QED BY <1>3, <1>4, <1>5, <1>6, <1>7, <1>8, <1>9, <1>10, <1>11, <1>12, <1>13, <1>14, <1>15, <1>16
          DEF Slot

LEMMA ApplyStep == ASSUME SessionInv, Apply PROVE SessionInv'
  <1> DEFINE r == Head(ready)
  <1>1. ready # <<>> /\ ready' = Tail(ready) /\ core' = core
    BY DEF Apply
  <1>2. r \in Jobs /\ JobCoherent(ui, r)
    <2>1. ready \in Seq(Jobs) /\ 1 \in DOMAIN ready /\ r = ready[1]
      BY <1>1 DEF SessionInv, TypeOK
    <2> QED BY <2>1 DEF SessionInv, InFlight
  <1>3. ui \in Ui /\ Coherent(ui)
    BY DEF SessionInv, TypeOK
  <1>4. CASE ~TicketMatches(ui, r)
    <2> DEFINE L == [ui |-> ui, new |-> {}]
    <2>1. ui' = L.ui /\ jobs' = jobs \cup L.new
      BY <1>4 DEF Apply
    <2>2. Launched(ui, L)
      BY <1>3, LaterRefl DEF Launched, Step
    <2> HIDE DEF L
    <2> QED BY <1>1, <2>1, <2>2, GuiStep
  <1>5. CASE TicketMatches(ui, r)
    <2>1. PICK gone \in SUBSET Expirable, blocked \in BOOLEAN :
            Deliver(IF r.act = "question" THEN ApplyQuestion(ui, r, gone)
                                          ELSE ApplyRead(ui, r, gone), blocked)
      BY <1>5 DEF Apply
    <2> DEFINE A == IF r.act = "question" THEN ApplyQuestion(ui, r, gone)
                                          ELSE ApplyRead(ui, r, gone)
               L == IF A.again THEN Reconcile(A.ui, blocked) ELSE [ui |-> A.ui, new |-> {}]
    <2>2. Step(ui, A.ui)
      BY <1>2, <1>3, ApplyQuestionStep, ApplyReadStep
    <2>3. ui' = L.ui /\ jobs' = jobs \cup L.new
      BY <2>1 DEF Deliver
    <2> HIDE DEF A
    <2>4. Launched(A.ui, Reconcile(A.ui, blocked))
      BY <2>2, ReconcileStep DEF Step
    <2>5. Launched(A.ui, [ui |-> A.ui, new |-> {}])
      BY <2>2, LaterRefl DEF Launched, Step
    <2>6. Launched(A.ui, L)
      BY <2>4, <2>5
    <2> HIDE DEF L
    <2>7. Launched(ui, L)
      BY <1>3, <2>2, <2>6, StepTrans DEF Launched
    <2> QED BY <1>1, <2>3, <2>7, GuiStep
  <1> QED BY <1>4, <1>5

-----------------------------------------------------------------------------
(* Workers *)

\* A job advanced or posted with a result that stays coherent.
LEMMA ProgressStep ==
    ASSUME SessionInv, NEW j \in jobs, NEW step \in Steps, NEW res \in Results,
           Advance(j, step, res) \/ (step = "done" /\ Post(j, res)),
           ui' = ui, core' \in CoreType,
           Known(res.session),
           step # "done" => ~Shown(res.conv),
           Shown(res.conv) => Shown(res.session) /\ res.conv.sid = res.session.sid,
           j.act = "question" /\ Shown(res.session) => res.session.sid = j.sid
    PROVE SessionInv'
  <1> DEFINE k == [j EXCEPT !.step = step, !.res = res]
  <1>1. j \in Jobs /\ JobCoherent(ui, j) /\ ready \in Seq(Jobs)
    BY DEF SessionInv, TypeOK, InFlight
  <1>2. k \in Jobs
    BY <1>1 DEF Jobs
  <1>3. k.act = j.act /\ k.sid = j.sid /\ k.qe = j.qe /\ k.res = res /\ k.step = step
    BY <1>1 DEF Jobs
  <1>4. \/ jobs' = (jobs \ {j}) \cup {k} /\ ready' = ready
        \/ jobs' = jobs \ {j} /\ ready' = Append(ready, k)
    BY DEF Advance, Post
  <1> HIDE DEF k
  <1>5. JobCoherent(ui, k)
    BY <1>1, <1>3 DEF JobCoherent
  <1>6. jobs' \subseteq Jobs /\ ready' \in Seq(Jobs)
    BY <1>1, <1>2, <1>4 DEF SessionInv, TypeOK
  <1>7. \A x \in InFlight' : x = k \/ x \in InFlight
    <2>1. ASSUME NEW i \in DOMAIN ready'
          PROVE ready'[i] = k \/ (i \in DOMAIN ready /\ ready'[i] = ready[i])
      BY <1>1, <1>2, <1>4, <2>1
    <2> QED BY <1>4, <2>1 DEF InFlight
  <1>8. \A x \in InFlight' : JobCoherent(ui, x)
    BY <1>5, <1>7 DEF SessionInv
  <1>9. TypeOK' /\ Coherent(ui)'
    BY <1>6 DEF SessionInv, TypeOK, Coherent, Known, Shown
  <1>10. \A x \in InFlight' : JobCoherent(ui, x)'
    BY <1>8 DEF JobCoherent, Known, Shown
  <1> QED BY <1>9, <1>10 DEF SessionInv

\* A job that ends in an error keeps the rest of its result.
LEMMA FailStep ==
    ASSUME SessionInv, NEW j \in jobs, NEW e \in Errors, Fail(j, e), ui' = ui, core' \in CoreType
    PROVE SessionInv'
  <1> DEFINE res == [j.res EXCEPT !.error = e]
  <1>1. j \in Jobs /\ JobCoherent(ui, j) /\ j.res \in Results
    BY DEF SessionInv, TypeOK, InFlight, Jobs
  <1>2. res \in Results /\ res.session = j.res.session /\ res.conv = j.res.conv
    BY <1>1 DEF Results
  <1>3. Post(j, res)
    BY DEF Fail
  <1> HIDE DEF res
  <1>4. Known(res.session)
    BY <1>1, <1>2 DEF JobCoherent
  <1>5. Shown(res.conv) => Shown(res.session) /\ res.conv.sid = res.session.sid
    BY <1>1, <1>2 DEF JobCoherent
  <1>6. j.act = "question" /\ Shown(res.session) => res.session.sid = j.sid
    BY <1>1, <1>2 DEF JobCoherent
  <1> QED BY <1>2, <1>3, <1>4, <1>5, <1>6, ProgressStep DEF Steps

\* The Session Core serves has an id exactly when there is one.
LEMMA ActiveSessionType ==
    ASSUME core \in CoreType PROVE ActiveSession \in Content /\ Known(ActiveSession)
  <1>1. core.mapped \in Profiles /\ core.live[core.mapped] \in Nat /\ core.rev \in Nat
    BY BoundsAssumption DEF CoreType
  <1>2. CASE core.live[core.mapped] = 0
    BY <1>2, Values DEF ActiveSession, Known
  <1>3. CASE core.live[core.mapped] # 0
    BY <1>1, <1>3, ProfilesAssumption DEF ActiveSession, Known, Shown, Content, Owners
  <1> QED BY <1>2, <1>3

\* What is known of the job of a worker step.
LEMMA JobFacts ==
    ASSUME SessionInv, NEW j \in jobs
    PROVE /\ j \in Jobs /\ j.res \in Results /\ JobCoherent(ui, j) /\ core \in CoreType
          /\ Known(j.res.session)
          /\ j.step # "done" => ~Shown(j.res.conv)
          /\ j.act = "question" /\ Shown(j.res.session) => j.res.session.sid = j.sid
  BY DEF SessionInv, TypeOK, InFlight, Jobs, JobCoherent

\* A step that leaves Session and Flow of the result alone.
LEMMA KeepStep ==
    ASSUME SessionInv, NEW j \in jobs, j.step # "done", NEW step \in Steps, NEW res \in Results,
           res.session = j.res.session, res.conv = j.res.conv,
           Advance(j, step, res) \/ (step = "done" /\ Post(j, res)), ui' = ui, core' \in CoreType
    PROVE SessionInv'
  BY JobFacts, ProgressStep

LEMMA WriteStep == ASSUME SessionInv, NEW j \in jobs, Write(j), ui' = ui PROVE SessionInv'
  <1>1. core \in CoreType /\ j.res \in Results /\ j \in Jobs
    BY JobFacts
  <1>2. ASSUME Accepts(j), Commit(j) PROVE core' \in CoreType
    <2>1. core.rev + 1 \in 1..MaxRev /\ core.rev + 1 \in 0..MaxRev /\ core.mapped \in Profiles
          /\ core.rev + 1 \in Nat
      BY <1>1, <1>2, BoundsAssumption DEF Accepts, CoreType
    <2> DEFINE n == core.rev + 1
    <2> HIDE DEF n
    <2>2. n \in 1..MaxRev /\ n \in 0..MaxRev /\ n \in Nat
      BY <2>1 DEF n
    <2>3. [core EXCEPT !.rev = n, !.by[n] = core.mapped, !.live[core.mapped] = n] \in CoreType
      BY <1>1, <2>1, <2>2 DEF CoreType, Owners
    <2>4. [core EXCEPT !.rev = n, !.live[core.mapped] = 0] \in CoreType
      BY <1>1, <2>1, <2>2 DEF CoreType, Owners
    <2>5. [core EXCEPT !.rev = n] \in CoreType
      BY <1>1, <2>1, <2>2 DEF CoreType, Owners
    <2> QED BY <1>2, <2>3, <2>4, <2>5 DEF Commit, n
  <1>3. UNCHANGED core => core' \in CoreType
    BY <1>1
  <1>4. \A e \in Faults \cup {"context_changed", "uncertain"} : e \in Errors
    BY AnswersAssumption DEF Errors
  <1>5. CASE \E e \in Faults \cup {"context_changed", "uncertain"} : Fail(j, e)
    BY <1>2, <1>3, <1>4, <1>5, FailStep DEF Write
  <1>6. CASE Accepts(j) /\ Commit(j) /\ Advance(j, "active", [j.res EXCEPT !.accepted = TRUE])
    <2> DEFINE res == [j.res EXCEPT !.accepted = TRUE]
    <2>1. res \in Results /\ res.session = j.res.session /\ res.conv = j.res.conv
      BY <1>1 DEF Results
    <2>2. Advance(j, "active", res) /\ j.step # "done"
      BY <1>6 DEF Write
    <2> HIDE DEF res
    <2> QED BY <1>2, <1>6, <2>1, <2>2, KeepStep DEF Steps
  <1> QED BY <1>5, <1>6 DEF Write

LEMMA ReadActiveStep == ASSUME SessionInv, NEW j \in jobs, ReadActive(j), ui' = ui PROVE SessionInv'
  <1> DEFINE res == [j.res EXCEPT !.session = ActiveSession]
             rep == [res EXCEPT !.reply = TRUE]
             nextStep == IF j.boot THEN "private" ELSE "caps"
  <1>1. /\ core' \in CoreType /\ j.res \in Results /\ j.step = "active" /\ ~Shown(j.res.conv)
        /\ ActiveSession \in Content /\ Known(ActiveSession)
    BY JobFacts, ActiveSessionType DEF ReadActive
  <1>2. /\ res \in Results /\ res.session = ActiveSession /\ res.conv = j.res.conv
        /\ rep \in Results /\ rep.session = ActiveSession /\ rep.conv = j.res.conv
    BY <1>1 DEF Results
  <1> HIDE DEF res
  <1> HIDE DEF rep
  <1>3. \/ \E e \in Faults \cup {"context_changed", "unavailable"} : Fail(j, e)
        \/ j.act # "question" /\ Advance(j, nextStep, res)
        \/ ActiveSession.sid = j.sid /\ (Advance(j, "conv", res) \/ Post(j, rep))
    BY DEF ReadActive, res, rep
  <1>4. nextStep \in Steps /\ "conv" \in Steps /\ "done" \in Steps
    BY DEF Steps
  <1> HIDE DEF nextStep
  <1>5. CASE \E e \in Faults \cup {"context_changed", "unavailable"} : Fail(j, e)
    BY <1>1, <1>5, FailStep, AnswersAssumption DEF Errors
  <1>6. CASE j.act # "question" /\ Advance(j, nextStep, res)
    BY <1>1, <1>2, <1>4, <1>6, ProgressStep
  <1>7. CASE ActiveSession.sid = j.sid /\ Advance(j, "conv", res)
    BY <1>1, <1>2, <1>4, <1>7, ProgressStep
  <1>8. CASE ActiveSession.sid = j.sid /\ Post(j, rep)
    BY <1>1, <1>2, <1>4, <1>8, ProgressStep
  <1> QED BY <1>3, <1>5, <1>6, <1>7, <1>8

LEMMA ProbeStep == ASSUME SessionInv, NEW j \in jobs, Probe(j), ui' = ui PROVE SessionInv'
  <1>1. core' \in CoreType /\ j.res \in Results /\ j.step = "private" /\ core \in CoreType
    BY JobFacts DEF Probe
  <1>2. CASE \E e \in Faults \cup {"context_changed", "unavailable", "profile_required"} : Fail(j, e)
    BY <1>1, <1>2, FailStep, AnswersAssumption DEF Errors
  <1>3. ASSUME NEW personal \in BOOLEAN, NEW owner \in Owners,
               Advance(j, "caps", [j.res EXCEPT !.owner = owner, !.private = personal])
        PROVE SessionInv'
    <2> DEFINE res == [j.res EXCEPT !.owner = owner, !.private = personal]
    <2>1. res \in Results /\ res.session = j.res.session /\ res.conv = j.res.conv
      BY <1>1 DEF Results
    <2>2. Advance(j, "caps", res) /\ "caps" \in Steps /\ j.step # "done"
      BY <1>1, <1>3 DEF Steps
    <2> HIDE DEF res
    <2> QED BY <1>1, <2>1, <2>2, KeepStep
  <1>4. core.mapped \in Owners /\ j.res.session.owner \in Owners
    BY <1>1 DEF CoreType, Owners, Results, Content
  <1>5. \/ \E e \in Faults \cup {"context_changed", "unavailable", "profile_required"} : Fail(j, e)
        \/ \E personal \in BOOLEAN, owner \in Owners :
             Advance(j, "caps", [j.res EXCEPT !.owner = owner, !.private = personal])
    <2> DEFINE personal == Admits(j) /\ core.mapped \in Personal
               owner == IF personal THEN core.mapped ELSE j.res.session.owner
    <2>1. personal \in BOOLEAN /\ owner \in Owners
      BY <1>4
    <2>2. \/ \E e \in Faults \cup {"context_changed", "unavailable", "profile_required"} : Fail(j, e)
          \/ Advance(j, "caps", [j.res EXCEPT !.owner = owner, !.private = personal])
      BY DEF Probe
    <2> HIDE DEF personal, owner
    <2> QED BY <2>1, <2>2
  <1> QED BY <1>2, <1>3, <1>5

LEMMA ReadCapsStep == ASSUME SessionInv, NEW j \in jobs, ReadCaps(j), ui' = ui PROVE SessionInv'
  <1>1. core' \in CoreType /\ j.res \in Results /\ j.step = "caps"
    BY JobFacts DEF ReadCaps
  <1>2. CASE \E e \in {"context_changed", "denied"} : Fail(j, e)
    BY <1>1, <1>2, FailStep DEF Errors
  <1>3. CASE Post(j, j.res)
    BY <1>1, <1>3, KeepStep DEF Steps
  <1>4. ASSUME NEW caps \in CapsAnswers,
               \/ Advance(j, "conv", [j.res EXCEPT !.caps = caps])
               \/ Post(j, [j.res EXCEPT !.caps = caps])
        PROVE SessionInv'
    <2> DEFINE res == [j.res EXCEPT !.caps = caps]
    <2>1. res \in Results /\ res.session = j.res.session /\ res.conv = j.res.conv
      BY <1>1, AnswersAssumption DEF Results
    <2>2. (Advance(j, "conv", res) \/ Post(j, res)) /\ {"conv", "done"} \subseteq Steps /\ j.step # "done"
      BY <1>1, <1>4 DEF Steps
    <2> HIDE DEF res
    <2> QED BY <1>1, <2>1, <2>2, KeepStep
  <1> QED BY <1>2, <1>3, <1>4 DEF ReadCaps

LEMMA ReadFlowStep == ASSUME SessionInv, NEW j \in jobs, ReadFlow(j), ui' = ui PROVE SessionInv'
  <1> DEFINE c == [owner |-> core.mapped, sid |-> j.res.session.sid, rev |-> core.rev, view |-> 0]
             res == [j.res EXCEPT !.conv = c]
  <1>1. core' \in CoreType /\ j.res \in Results /\ j.step = "conv" /\ core \in CoreType
    BY JobFacts DEF ReadFlow
  <1>2. CASE \E e \in {"context_changed", "denied", "unavailable"} : Fail(j, e)
    BY <1>1, <1>2, FailStep DEF Errors
  <1>3. CASE Post(j, j.res)
    BY <1>1, <1>3, KeepStep DEF Steps
  <1>4. CASE Saved(j.res.session.sid) /\ Post(j, res)
    <2>1. c \in Content /\ c.sid = j.res.session.sid
      BY SMTT(20), <1>1, BoundsAssumption DEF CoreType, Content, Owners, Results
    <2>2. res \in Results /\ res.session = j.res.session /\ res.conv = c
      <3> HIDE DEF c
      <3> QED BY <1>1, <2>1 DEF Results
    <2>3. j.res.session.sid # 0
      BY <1>1, <1>4, BoundsAssumption DEF Saved, CoreType
    <2>4. Known(j.res.session) /\ Shown(j.res.session)
      BY <2>3, JobFacts DEF Known
    <2> HIDE DEF res
    <2> HIDE DEF c
    <2> QED BY <1>1, <1>4, <2>1, <2>2, <2>4, JobFacts, ProgressStep DEF Steps
  <1> QED BY <1>2, <1>3, <1>4 DEF ReadFlow

LEMMA ReadArchiveStep == ASSUME SessionInv, NEW j \in jobs, ReadArchive(j), ui' = ui PROVE SessionInv'
  <1> DEFINE c == [owner |-> core.mapped, sid |-> j.sid, rev |-> core.rev, view |-> j.view]
             res == [j.res EXCEPT !.panel = c]
  <1>1. core' \in CoreType /\ j.res \in Results /\ j.step = "read" /\ core \in CoreType /\ j \in Jobs
    BY JobFacts DEF ReadArchive
  <1>2. CASE \E e \in Faults \cup {"context_changed", "unavailable"} : Fail(j, e)
    BY <1>1, <1>2, FailStep, AnswersAssumption DEF Errors
  <1>3. CASE Post(j, res)
    <2>1. c \in Content
      BY <1>1, BoundsAssumption DEF CoreType, Content, Owners, Jobs
    <2>2. res \in Results /\ res.session = j.res.session /\ res.conv = j.res.conv
      <3> HIDE DEF c
      <3> QED BY <1>1, <2>1 DEF Results
    <2> HIDE DEF res
    <2> QED BY <1>1, <1>3, <2>2, KeepStep DEF Steps
  <1> QED BY <1>2, <1>3 DEF ReadArchive

LEMMA EnvironmentStep == ASSUME SessionInv, Environment PROVE SessionInv'
  <1>1. ui \in Ui /\ Coherent(ui) /\ core \in CoreType
    BY DEF SessionInv, TypeOK
  <1>2. ui.cfg \in Configs /\ core.mapped \in Owners
    BY <1>1 DEF Ui, UiType, CoreType, Owners
  <1>3. ASSUME NEW v, Step(ui, v), ui' = v, Elsewhere PROVE SessionInv'
    <2>1. Show(v)
      BY <1>3 DEF Elsewhere, Show
    <2> QED BY <1>3, <2>1, ShowStep
  <1>4. CASE ResolveProfile
    <2> DEFINE c == [ui.cfg EXCEPT !.active = core.mapped]
    <2>1. c \in Configs
      BY <1>2 DEF Configs
    <2>2. ui' = [ui EXCEPT !.cfg = c]
      BY <1>4 DEF ResolveProfile
    <2> HIDE DEF c
    <2>3. Step(ui, [ui EXCEPT !.cfg = c])
      BY <1>1, <2>1, SlotUpdates
    <2> QED BY <1>3, <1>4, <2>2, <2>3 DEF ResolveProfile
  <1>5. ASSUME NEW t \in Tokens \cup {NoToken}, SyncConfig(t) PROVE SessionInv'
    <2> DEFINE c == [ui.cfg EXCEPT !.token = t]
    <2>1. c \in Configs
      BY <1>2 DEF Configs
    <2>2. ui' = [ui EXCEPT !.cfg = c]
      BY <1>5 DEF SyncConfig
    <2> HIDE DEF c
    <2>3. Step(ui, [ui EXCEPT !.cfg = c])
      BY <1>1, <2>1, SlotUpdates
    <2> QED BY <1>3, <1>5, <2>2, <2>3 DEF SyncConfig
  <1>6. CASE ForgetPairing
    <2> DEFINE c == [token |-> NoToken, active |-> NoProfile, explicit |-> NoProfile]
               v == [ui EXCEPT !.cfg = c]
    <2>1. c \in Configs
      BY DEF Configs, Owners
    <2>2. ui' = Invalidate(v)
      BY <1>6 DEF ForgetPairing
    <2> HIDE DEF c
    <2>3. Step(ui, v)
      BY <1>1, <2>1, SlotUpdates
    <2> HIDE DEF v
    <2>4. Step(v, Invalidate(v))
      BY <2>3, InvalidateStep DEF Step
    <2>5. Step(ui, Invalidate(v))
      BY <1>1, <2>3, <2>4, StepTrans
    <2> QED BY <1>3, <1>6, <2>2, <2>5 DEF ForgetPairing
  <1>7. ASSUME ui' = ui, jobs' = jobs, ready' = ready, core' \in CoreType PROVE SessionInv'
    BY <1>7 DEF SessionInv, TypeOK, Coherent, JobCoherent, Known, Shown, InFlight
  <1>8. ASSUME NEW p \in Profiles, Remap(p) PROVE SessionInv'
    <2>1. core' \in CoreType
      BY <1>1, <1>8 DEF Remap, CoreType
    <2> QED BY <1>7, <1>8, <2>1 DEF Remap
  <1>9. ASSUME NEW p \in Profiles, Other(p) PROVE SessionInv'
    <2> DEFINE n == core.rev + 1
    <2>1. n \in 1..MaxRev /\ n \in 0..MaxRev /\ n \in Nat /\ p \in Owners
      BY <1>1, <1>9, BoundsAssumption DEF Other, CoreType, Owners
    <2>2. core' = [core EXCEPT !.rev = n, !.by[n] = p, !.live[p] = n]
          \/ core' = [core EXCEPT !.rev = n, !.live[p] = 0]
      BY <1>9 DEF Other
    <2> HIDE DEF n
    <2>3. [core EXCEPT !.rev = n, !.by[n] = p, !.live[p] = n] \in CoreType
      BY <1>1, <2>1 DEF CoreType, Owners
    <2>4. [core EXCEPT !.rev = n, !.live[p] = 0] \in CoreType
      BY <1>1, <2>1 DEF CoreType, Owners
    <2> QED BY <1>7, <1>9, <2>2, <2>3, <2>4 DEF Other
  <1> QED BY <1>4, <1>5, <1>6, <1>8, <1>9 DEF Environment

-----------------------------------------------------------------------------
(* Theorems *)

LEMMA InitSession == Init => SessionInv
  <1> SUFFICES ASSUME Init PROVE SessionInv
    OBVIOUS
  <1>1. PICK t \in Tokens, p \in Owners :
          ui = FreshUi([token |-> t, active |-> p, explicit |-> NoProfile])
    BY DEF Init
  <1> DEFINE c == [token |-> t, active |-> p, explicit |-> NoProfile]
  <1>2. c \in Configs
    BY DEF Configs, Owners
  <1> HIDE DEF c
  <1>3. FreshUi(c) \in UiType
    BY <1>2, Values DEF FreshUi, UiType, Scopes, Selected
  <1>4. Lanes(FreshUi(c)) /\ Coherent(FreshUi(c))
    BY Values DEF FreshUi, Lanes, Coherent, Known
  <1>5. core \in CoreType
    BY BoundsAssumption DEF Init, CoreType, Owners
  <1>6. jobs = {} /\ ready = <<>> /\ ready \in Seq(Jobs) /\ InFlight = {}
    BY DEF Init, InFlight
  <1> QED BY <1>1, <1>3, <1>4, <1>5, <1>6 DEF SessionInv, TypeOK, Ui, c

LEMMA NextSession == SessionInv /\ [Next]_vars => SessionInv'
  <1> SUFFICES ASSUME SessionInv, [Next]_vars PROVE SessionInv'
    OBVIOUS
  <1>1. CASE Slot
    BY <1>1, SlotStep
  <1>2. CASE Apply
    BY <1>2, ApplyStep
  <1>3. ASSUME NEW j \in jobs, Work(j) PROVE SessionInv'
    BY <1>3, WriteStep, ReadActiveStep, ProbeStep, ReadCapsStep, ReadFlowStep, ReadArchiveStep DEF Work
  <1>4. CASE Environment
    BY <1>4, EnvironmentStep
  <1>5. CASE UNCHANGED vars
    BY <1>5 DEF vars, SessionInv, TypeOK, Coherent, JobCoherent, Known, Shown, InFlight
  <1> QED BY <1>1, <1>2, <1>3, <1>4, <1>5 DEF Next

\* Every reachable state satisfies the inductive invariant.
THEOREM SessionInvariant == Spec => []SessionInv
  BY InitSession, NextSession, PTL DEF Spec

\* Every field of the controller, of its jobs and results and of Core keeps its type,
\* and a lane is busy exactly while it names an action (_launch, _apply, invalidate).
THEOREM TypeCorrect == Spec => []TypeOK
  <1>1. SessionInv => TypeOK
    BY DEF SessionInv
  <1> QED BY <1>1, SessionInvariant, PTL

\* The Flow on screen is always the Flow of the Session on screen (_apply).
THEOREM FlowBelongsToSession == Spec => []FlowOfSession
  <1>1. SessionInv => FlowOfSession
    BY DEF SessionInv, Coherent, FlowOfSession
  <1> QED BY <1>1, SessionInvariant, PTL

\* A pending question, a receipt and a current reply belong to the Session on screen.
THEOREM QuestionBelongsToSession == Spec => []QuestionOfSession
  <1>1. SessionInv => QuestionOfSession
    BY DEF SessionInv, Coherent, QuestionOfSession
  <1> QED BY <1>1, SessionInvariant, PTL

-----------------------------------------------------------------------------
(* What a step takes from the screen *)

\* The lanes hold what they held, nothing, or a ticket handed out since.
Lane2(u, v) == /\ u.serial <= v.serial
               /\ v.running \in {0, u.running} \/ u.serial < v.running
               /\ v.qRunning \in {0, u.qRunning} \/ u.serial < v.qRunning

\* The panels are those of before or empty, and the owner scope is the one of before,
\* or it is gone with all of them.
Fewer(u, v) == /\ v.session \in {u.session, Nothing} /\ v.conv \in {u.conv, Nothing}
               /\ v.archive \in {u.archive, Nothing} /\ v.timeline \in {u.timeline, Nothing}
               /\ v.search \in {u.search, Nothing}
Empty(v)    == /\ v.session = Nothing /\ v.conv = Nothing /\ v.archive = Nothing
               /\ v.timeline = Nothing /\ v.search = Nothing
Narrow(u, v) == /\ v.cfg = u.cfg /\ u.ownerEpoch <= v.ownerEpoch /\ Lane2(u, v) /\ Fewer(u, v)
                /\ v.scope = u.scope \/ (v.scope = NoScope /\ Empty(v))

\* The fields Narrow speaks of.
SameView2(u, v) == /\ v.cfg = u.cfg /\ v.ownerEpoch = u.ownerEpoch /\ v.scope = u.scope
                   /\ v.serial = u.serial /\ v.running = u.running /\ v.qRunning = u.qRunning
                   /\ v.session = u.session /\ v.conv = u.conv /\ v.archive = u.archive
                   /\ v.timeline = u.timeline /\ v.search = u.search

LEMMA UiNumbers == ASSUME NEW u \in UiType
    PROVE u.serial \in Nat /\ u.ownerEpoch \in Nat /\ u.running \in Nat /\ u.qRunning \in Nat
  BY DEF UiType

LEMMA NarrowSame == ASSUME NEW u \in UiType, NEW v, SameView2(u, v) PROVE Narrow(u, v)
  BY UiNumbers DEF SameView2, Narrow, Lane2, Fewer

LEMMA NarrowRefl == ASSUME NEW u \in UiType PROVE Narrow(u, u)
  BY NarrowSame DEF SameView2

LEMMA NarrowTrans ==
    ASSUME NEW u \in UiType, NEW v \in UiType, NEW w \in UiType, Narrow(u, v), Narrow(v, w)
    PROVE Narrow(u, w)
  <1>1. Lane2(u, w) /\ u.ownerEpoch <= w.ownerEpoch
    BY UiNumbers DEF Narrow, Lane2
  <1>2. Fewer(u, w) /\ (Empty(v) => Empty(w))
    BY DEF Narrow, Fewer, Empty
  <1> QED BY <1>1, <1>2 DEF Narrow

LEMMA WithdrawNarrow == ASSUME NEW u \in UiType PROVE Narrow(u, Withdraw(u))
  <1>1. SameView2(u, Withdraw(u))
    BY DEF UiType, Withdraw, SameView2
  <1> QED BY <1>1, NarrowSame

LEMMA ClearHistoryNarrow == ASSUME NEW u \in UiType
    PROVE /\ Narrow(u, ClearHistory(u)) /\ ClearHistory(u).archive = Nothing
          /\ Narrow(u, ClearArchive(u)) /\ ClearArchive(u).archive = Nothing
          /\ ClearArchive(u).timeline = u.timeline /\ ClearArchive(u).search = u.search
          /\ ClearArchive(u).scope = u.scope /\ ClearArchive(u).conv = u.conv
          /\ ClearArchive(u).session = u.session
  BY UiNumbers DEF UiType, ClearHistory, ClearArchive, Narrow, Lane2, Fewer

LEMMA ClearPanelsNarrow == ASSUME NEW u \in UiType
    PROVE Narrow(u, ClearPanels(u)) /\ Empty(ClearPanels(u)) /\ ClearPanels(u).scope = u.scope
  BY UiNumbers DEF UiType, ClearHistory, ClearPanels, Narrow, Lane2, Fewer, Empty

LEMMA WipeNarrow == ASSUME NEW u \in UiType
    PROVE LET w == ClearPanels(Withdraw(u))
          IN  w \in UiType /\ Narrow(u, w) /\ Empty(w) /\ w.ownerEpoch = u.ownerEpoch
              /\ w.serial = u.serial
  <1>1. Withdraw(u) \in UiType /\ Narrow(u, Withdraw(u)) /\ Withdraw(u).ownerEpoch = u.ownerEpoch
        /\ Withdraw(u).serial = u.serial
    BY WithdrawType, WithdrawNarrow DEF UiType, Withdraw
  <1>2. ASSUME NEW v \in UiType
        PROVE ClearPanels(v).ownerEpoch = v.ownerEpoch /\ ClearPanels(v).serial = v.serial
    BY DEF UiType, ClearPanels, ClearHistory
  <1> QED BY <1>1, <1>2, ClearPanelsType, ClearPanelsNarrow, NarrowTrans

LEMMA InvalidateNarrow == ASSUME NEW u \in Ui
    PROVE /\ Narrow(u, Invalidate(u)) /\ Empty(Invalidate(u)) /\ Invalidate(u).scope = NoScope
          /\ Invalidate(u).running = 0 /\ Invalidate(u).qRunning = 0
  <1> DEFINE w == ClearPanels(Withdraw(u))
             r == Invalidate(u)
             i == u.ownerEpoch + 1
             k == u.serial + 1
             n == u.viewEpoch + 1
  <1>1. w \in UiType /\ Narrow(u, w) /\ Empty(w) /\ u \in UiType
    BY WipeNarrow DEF Ui
  <1>2. u.ownerEpoch <= i /\ u.serial <= k
    BY UiNumbers DEF Ui
  <1>3. r = [w EXCEPT !.ownerEpoch = i, !.scope = NoScope, !.serial = k, !.running = 0,
                      !.act = "none", !.qRunning = 0, !.caps = {}, !.viewEpoch = n]
    BY DEF Invalidate
  <1> HIDE DEF w, r, i, k, n
  <1>4. /\ r.cfg = w.cfg /\ r.ownerEpoch = i /\ r.scope = NoScope /\ r.serial = k
        /\ r.running = 0 /\ r.qRunning = 0 /\ r.session = w.session /\ r.conv = w.conv
        /\ r.archive = w.archive /\ r.timeline = w.timeline /\ r.search = w.search
    BY <1>1, <1>3 DEF UiType
  <1>5. Narrow(u, r) /\ Empty(r) /\ r.scope = NoScope /\ r.running = 0 /\ r.qRunning = 0
    BY <1>1, <1>2, <1>4 DEF Narrow, Lane2, Fewer, Empty
  <1> QED BY <1>5 DEF r

LEMMA ClearAllNarrow == ASSUME NEW u \in Ui PROVE Narrow(u, ClearAll(u))
  <1> DEFINE w == ClearPanels(Withdraw(u))
             r == ClearAll(u)
             i == w.ownerEpoch + 1
  <1>1. w \in UiType /\ Narrow(u, w) /\ Empty(w) /\ u \in UiType /\ w.ownerEpoch = u.ownerEpoch
    BY WipeNarrow DEF Ui
  <1>2. u.ownerEpoch <= i
    BY <1>1, UiNumbers
  <1>3. r = [w EXCEPT !.ownerEpoch = i, !.scope = NoScope]
    BY DEF ClearAll
  <1> HIDE DEF w, r, i
  <1>4. /\ r.cfg = w.cfg /\ r.ownerEpoch = i /\ r.scope = NoScope /\ r.serial = w.serial
        /\ r.running = w.running /\ r.qRunning = w.qRunning /\ r.session = w.session
        /\ r.conv = w.conv /\ r.archive = w.archive /\ r.timeline = w.timeline
        /\ r.search = w.search
    BY <1>1, <1>3 DEF UiType
  <1>5. Narrow(u, r)
    BY <1>1, <1>2, <1>4 DEF Narrow, Lane2, Fewer, Empty
  <1> QED BY <1>5 DEF r

LEMMA DropReplyNarrow == ASSUME NEW u \in UiType
    PROVE Narrow(u, DropReply(u)) /\ DropReply(u) \in UiType
  <1>1. SameView2(u, DropReply(u)) /\ DropReply(u) \in UiType
    BY Values DEF UiType, DropReply, SameView2
  <1> QED BY <1>1, NarrowSame

LEMMA DropExpiredNarrow == ASSUME NEW u \in UiType, NEW gone
    PROVE Narrow(u, DropExpired(u, gone)) /\ DropExpired(u, gone) \in UiType
  <1>1. DropExpired(u, gone) \in UiType
    BY ZenonT(40), Values DEF UiType, DropExpired
  <1>2. Narrow(u, DropExpired(u, gone))
    BY UiNumbers DEF UiType, DropExpired, Narrow, Lane2, Fewer
  <1> QED BY <1>1, <1>2

LEMMA ExpireNarrow == ASSUME NEW u \in UiType, NEW gone
    PROVE Narrow(u, Expire(u, gone)) /\ Expire(u, gone) \in UiType
  <1> DEFINE v == DropExpired(u, gone)
             w == IF (v.pending # 0 /\ ~PendingValid(v)) \/ ~SelectionValid(v)
                  THEN Withdraw(v) ELSE v
  <1>1. v \in UiType /\ Narrow(u, v)
    BY DropExpiredNarrow
  <1>2. w \in UiType /\ Narrow(v, w)
    BY <1>1, WithdrawType, WithdrawNarrow, NarrowRefl
  <1>3. Expire(u, gone) = DropReply(w)
    BY DEF Expire
  <1> HIDE DEF v, w
  <1>4. Narrow(w, DropReply(w)) /\ DropReply(w) \in UiType
    BY <1>2, DropReplyNarrow
  <1>5. Narrow(u, w)
    BY <1>1, <1>2, NarrowTrans
  <1> QED BY <1>2, <1>3, <1>4, <1>5, NarrowTrans

LEMMA ReadNarrow == ASSUME NEW u \in UiType PROVE Narrow(u, Read(u)) /\ Read(u) \in UiType
  <1> DEFINE w == IF u.pending # 0 /\ ~PendingValid(u) THEN Withdraw(u) ELSE u
  <1>1. w \in UiType /\ Narrow(u, w)
    BY WithdrawType, WithdrawNarrow, NarrowRefl
  <1>2. Read(u) = DropReply(w)
    BY DEF Read
  <1> HIDE DEF w
  <1>3. Narrow(w, DropReply(w)) /\ DropReply(w) \in UiType
    BY <1>1, DropReplyNarrow
  <1> QED BY <1>1, <1>2, <1>3, NarrowTrans

\* Updates a slot makes before it launches or instead of launching.
LEMMA SlotNarrow ==
    ASSUME NEW u \in Ui
    PROVE /\ \A sel \in Selected : Narrow(u, [u EXCEPT !.selection = sel])
          /\ \A n \in Nat : /\ Narrow(u, [u EXCEPT !.viewEpoch = n])
                            /\ Narrow(u, [u EXCEPT !.viewEpoch = n, !.search = Nothing])
                            /\ Narrow(u, [u EXCEPT !.viewEpoch = n, !.timeline = Nothing,
                                                   !.search = Nothing])
          /\ \A b \in BOOLEAN : Narrow(u, [u EXCEPT !.foreground = b])
          /\ Narrow(u, [u EXCEPT !.reconcile = FALSE])
  BY UiNumbers DEF Ui, UiType, Narrow, Lane2, Fewer

LEMMA TakeTicketNarrow ==
    ASSUME NEW u \in Ui, Coherent(u), NEW a \in Actions, NEW sid, Askable(u, a, sid)
    PROVE Narrow(u, TakeTicket(u, a, sid)) /\ TakeTicket(u, a, sid).serial = u.serial + 1
          /\ TakeTicket(u, a, sid).scope = u.scope /\ TakeTicket(u, a, sid).session = u.session
  <1> DEFINE n == u.serial + 1
             v == [u EXCEPT !.serial = n, !.lastRead = IF a \in CurrentReads THEN n ELSE @]
             q == [v EXCEPT !.qRunning = n, !.pending = sid, !.pendingBinding = Binding(u),
                            !.reply = 0, !.replyBinding = NoBinding, !.receipt = 0]
             w == [v EXCEPT !.running = n, !.act = a]
  <1>1. n \in Nat /\ u.serial < n /\ u.serial <= n /\ u \in UiType
    BY UiNumbers DEF Ui
  <1>2. v \in UiType /\ v.serial = n /\ v.running = u.running /\ v.qRunning = u.qRunning
        /\ SameView2([u EXCEPT !.serial = n], v)
    <2> HIDE DEF n
    <2> QED BY <1>1 DEF UiType, SameView2
  <1>3. TakeTicket(u, a, sid) = IF a = "question" THEN q ELSE IF a = "end" THEN Withdraw(w) ELSE w
    BY DEF TakeTicket
  <1> HIDE DEF n
  <1>4. [u EXCEPT !.serial = n].scope = u.scope /\ Narrow(u, [u EXCEPT !.serial = n])
        /\ [u EXCEPT !.serial = n].session = u.session
    BY <1>1 DEF UiType, Narrow, Lane2, Fewer
  <1> HIDE DEF v
  <1>5. Narrow(u, v) /\ v.scope = u.scope /\ v.session = u.session
    BY <1>2, <1>4 DEF Narrow, Lane2, Fewer, SameView2, Empty
  <1>6. /\ q.cfg = v.cfg /\ q.ownerEpoch = v.ownerEpoch /\ q.scope = v.scope
        /\ q.serial = v.serial /\ q.running = v.running /\ q.qRunning = n
        /\ q.session = v.session /\ q.conv = v.conv /\ q.archive = v.archive
        /\ q.timeline = v.timeline /\ q.search = v.search
    BY <1>2 DEF UiType
  <1>7. /\ w.cfg = v.cfg /\ w.ownerEpoch = v.ownerEpoch /\ w.scope = v.scope
        /\ w.serial = v.serial /\ w.running = n /\ w.qRunning = v.qRunning
        /\ w.session = v.session /\ w.conv = v.conv /\ w.archive = v.archive
        /\ w.timeline = v.timeline /\ w.search = v.search /\ w \in UiType
    BY <1>1, <1>2 DEF UiType
  <1> HIDE DEF q, w
  <1>8. Narrow(u, q) /\ q.scope = u.scope /\ q.serial = n /\ q.session = u.session
    BY <1>1, <1>2, <1>5, <1>6 DEF Narrow, Lane2, Fewer, Empty
  <1>9. Narrow(u, w) /\ w.scope = u.scope /\ w.serial = n /\ w.session = u.session
    BY <1>1, <1>2, <1>5, <1>7 DEF Narrow, Lane2, Fewer, Empty
  <1>10. Narrow(w, Withdraw(w)) /\ Withdraw(w) \in UiType /\ Withdraw(w).scope = w.scope
         /\ Withdraw(w).serial = w.serial /\ Withdraw(w).session = w.session
    BY <1>7, WithdrawNarrow, WithdrawType
  <1> QED BY <1>1, <1>3, <1>7, <1>8, <1>9, <1>10, NarrowTrans DEF n

-----------------------------------------------------------------------------
(* Whose data the screen shows *)

\* A disclosed owner scope was disclosed to an unmapped device, and while the device is
\* unmapped everything on screen belongs to that owner.
OwnUi(u) ==
    /\ Shown(u.scope) => /\ u.scope.binding.resolved = NoProfile
                         /\ u.scope.binding.selection = NoProfile /\ u.ownerEpoch # 0
    /\ Shown(u.scope) /\ Unmapped(u) =>
         \A c \in Panels(u) : Shown(c) => c.owner = u.scope.owner

\* The job still holds its lane, and was launched for a Profile the device is bound to
\* without a scope: then no scope is disclosed before the lane is free again.
Unscoped(u, j) == /\ TicketMatches(u, j) /\ j.act \in ArchiveReads \cup {"question"}
                  /\ j.binding.epoch = 0
\* What the ticket of a job in flight says: a bootstrap is a refresh of an unmapped device,
\* every other job knows the Profile it was launched for.
OwnTicket(u, j) ==
    /\ j.serial \in 1..u.serial
    /\ j.boot => /\ j.act = "refresh" /\ j.raw.resolved = NoProfile /\ j.raw.selection = NoProfile
                 /\ j.binding.epoch = 0 => /\ j.binding.resolved = NoProfile
                                           /\ j.binding.selection = NoProfile
    /\ ~j.boot => j.binding.profile # NoProfile
    /\ j.binding.private => j.binding.profile # NoProfile
    /\ Unscoped(u, j) => ~Unmapped(u) /\ ~Shown(u.scope)

\* What its result says: everything in it belongs to the Profile of the ticket, or in a
\* bootstrap to the owner the result discloses.
OwnResult(j, step, res) ==
    /\ step = "read" => j.act \in ArchiveReads
    /\ step = "private" => j.boot
    /\ step \in {"write", "active", "private"} => res.owner = NoProfile
    /\ ~j.boot => res.owner = NoProfile
    /\ j.boot => /\ res.private /\ j.binding.private => j.binding.profile = res.owner
                 /\ step = "conv" => res.private /\ j.binding.private
                 /\ step \in {"caps", "conv", "done"} /\ res.error = "none" => res.owner # NoProfile
    /\ Shown(res.panel) => res.panel.owner = j.binding.profile /\ res.panel.view = j.view
    /\ Shown(res.session) => IF j.boot THEN res.owner \in {NoProfile, res.session.owner}
                                       ELSE res.session.owner = j.binding.profile
    /\ Shown(res.conv) => res.conv.owner = IF j.boot THEN res.owner ELSE j.binding.profile

\* No Session is newer than Core, and the one a read in the lane carries is not older than
\* the one on screen.
OwnRev(u, n, j) ==
    /\ j.res.session.rev <= n
    /\ j.act # "question" /\ TicketMatches(u, j) /\ Shown(j.res.session) =>
         u.session.rev <= j.res.session.rev

OwnJob(u, n, j) == OwnTicket(u, j) /\ OwnResult(j, j.step, j.res) /\ OwnRev(u, n, j)
ScreenInv == /\ OwnUi(ui) /\ ui.session.rev <= core.rev
             /\ \A i \in DOMAIN ready : ready[i].step = "done"
             /\ \A j \in InFlight : OwnJob(ui, core.rev, j)

LEMMA BindingCases ==
    ASSUME NEW u \in UiType, OwnUi(u)
    PROVE \/ /\ Unmapped(u) /\ ScopeCurrent(u) /\ Shown(u.scope)
             /\ Binding(u).profile = u.scope.owner /\ Binding(u).epoch # 0
             /\ Binding(u).private = u.scope.private
          \/ /\ ~(Unmapped(u) /\ ScopeCurrent(u)) /\ Binding(u) = Capture(u)
             /\ Binding(u).epoch = 0 /\ Binding(u).resolved = u.cfg.active
             /\ Binding(u).selection = u.cfg.explicit /\ ~Binding(u).private
  <1>1. CASE Unmapped(u) /\ ScopeCurrent(u)
    <2>1. Shown(u.scope) /\ u.ownerEpoch # 0 /\ Capture(u) \in Bindings
      BY <1>1, CaptureType DEF ScopeCurrent, OwnUi
    <2>2. Binding(u) = [Capture(u) EXCEPT !.profile = u.scope.owner, !.resolved = u.scope.owner,
                                          !.private = u.scope.private, !.epoch = u.ownerEpoch]
      BY <1>1 DEF Binding
    <2>3. /\ Binding(u).profile = u.scope.owner /\ Binding(u).epoch = u.ownerEpoch
          /\ Binding(u).private = u.scope.private
      BY <2>1, <2>2 DEF Bindings
    <2> QED BY <1>1, <2>1, <2>3
  <1>2. CASE ~(Unmapped(u) /\ ScopeCurrent(u))
    <2>1. Binding(u) = Capture(u)
      BY <1>2 DEF Binding
    <2> QED BY <1>2, <2>1 DEF Capture
  <1> QED BY <1>1, <1>2

\* A scope that is in force was disclosed to a device that is still unmapped.
LEMMA CurrentIsUnmapped == ASSUME NEW u \in UiType, OwnUi(u), ScopeCurrent(u) PROVE Unmapped(u)
  BY DEF ScopeCurrent, OwnUi, Capture, Unmapped

\* What a narrowed screen keeps.
LEMMA NarrowOwn ==
    ASSUME NEW u \in UiType, NEW v \in UiType, OwnUi(u), Narrow(u, v) PROVE OwnUi(v)
  <1>1. v.scope = u.scope \/ ~Shown(v.scope)
    BY DEF Narrow, NoScope, Shown
  <1>2. Unmapped(v) = Unmapped(u) /\ u.ownerEpoch <= v.ownerEpoch
    BY DEF Narrow, Unmapped
  <1>3. ASSUME NEW c \in Panels(v), Shown(c) PROVE c \in Panels(u)
    BY <1>3, Values DEF Narrow, Fewer, Panels
  <1>4. CASE ~Shown(v.scope)
    BY <1>4 DEF OwnUi
  <1>5. CASE Shown(v.scope) /\ v.scope = u.scope
    <2>1. v.ownerEpoch # 0
      BY <1>2, <1>5, UiNumbers DEF OwnUi
    <2> QED BY <1>2, <1>3, <1>5, <2>1 DEF OwnUi
  <1> QED BY <1>1, <1>4, <1>5

LEMMA LiveBefore ==
    ASSUME NEW u \in UiType, NEW v \in UiType, Lane2(u, v), NEW j \in Jobs,
           j.serial \in 1..u.serial, TicketMatches(v, j)
    PROVE TicketMatches(u, j)
  BY UiNumbers DEF Lane2, TicketMatches, Jobs

LEMMA ProfileKnownBinds ==
    ASSUME NEW u \in UiType, OwnUi(u), NEW a, ProfileKnown(u, a), ~Bootstrapping(u, a)
    PROVE Binding(u).profile # NoProfile /\ (Binding(u).epoch = 0 => ~Unmapped(u))
  <1>1. CASE SessionProfile(u) # NoProfile
    <2>1. ~Unmapped(u)
      BY <1>1 DEF SessionProfile, Unmapped
    <2>2. Binding(u) = Capture(u)
      BY <2>1, BindingCases
    <2> QED BY <1>1, <2>1, <2>2 DEF Capture
  <1>2. CASE ScopeCurrent(u)
    <2>1. Unmapped(u)
      BY <1>2, CurrentIsUnmapped
    <2> QED BY <1>2, <2>1, BindingCases DEF Shown
  <1> QED BY <1>1, <1>2 DEF ProfileKnown

\* A job as it leaves _launch.
FreshJob(j) == j.res = NoResult /\ j.step \in {"write", "active", "read"}
               /\ (j.step = "read" => j.act \in ArchiveReads)

LEMMA LaunchOwn ==
    ASSUME NEW u \in Ui, Coherent(u), OwnUi(u), NEW a \in Actions, NEW sid, Askable(u, a, sid)
    PROVE LET L == Launch(u, a, sid)
          IN  Narrow(u, L.ui) /\ \A j \in L.new : OwnTicket(L.ui, j) /\ FreshJob(j)
  <1> DEFINE stale == Bootstrapping(u, a) /\ u.scope.binding # Capture(u)
             v == IF stale THEN Invalidate(u) ELSE u
             w == TakeTicket(v, a, sid)
             j == NewJob(v, w, a, sid, Binding(u))
             L == Launch(u, a, sid)
  <1>0. u \in UiType
    BY DEF Ui
  <1>1. /\ Narrow(u, u) /\ Narrow(u, Invalidate(u)) /\ Invalidate(u) \in Ui
        /\ Coherent(Invalidate(u)) /\ Invalidate(u).cfg = u.cfg
    BY <1>0, NarrowRefl, InvalidateNarrow, InvalidateStep
  <1>2. /\ v \in Ui /\ v \in UiType /\ Coherent(v) /\ Narrow(u, v) /\ v.cfg = u.cfg
        /\ Askable(v, a, sid) /\ (a # "refresh" => v = u)
    BY <1>1 DEF Bootstrapping, Askable, Ui
  <1>3. /\ Narrow(v, w) /\ w.serial = v.serial + 1 /\ w.scope = v.scope
        /\ w \in UiType /\ w.cfg = v.cfg
    <2>1. Narrow(v, w) /\ w.serial = v.serial + 1 /\ w.scope = v.scope
      BY <1>2, TakeTicketNarrow
    <2>2. w \in UiType
      BY <1>2, TakeTicketStep DEF Step, Ui
    <2> QED BY <2>1, <2>2 DEF Narrow
  <1>4. Narrow(u, w)
    BY <1>0, <1>2, <1>3, NarrowTrans
  <1>5. ASSUME ProfileKnown(u, a), Supported(v, a) PROVE OwnTicket(w, j) /\ FreshJob(j)
    <2>1. /\ j.serial = w.serial /\ j.act = a /\ j.boot = Bootstrapping(u, a) /\ j.raw = Capture(v)
          /\ j.binding = Binding(u) /\ j.step = FirstStep(a, j.boot) /\ j.res = NoResult
      BY <1>2 DEF NewJob, Bootstrapping, Unmapped
    <2>2. j.serial \in 1..w.serial
      BY <1>2, <1>3, <2>1, UiNumbers
    <2>3. j.step \in {"write", "active", "read"} /\ (j.step = "read" => a \in ArchiveReads)
      BY <2>1 DEF FirstStep, Actions, CurrentReads
    <2>5. j.boot => /\ a = "refresh" /\ j.raw.resolved = NoProfile /\ j.raw.selection = NoProfile
                    /\ j.binding.epoch = 0 => /\ j.binding.resolved = NoProfile
                                              /\ j.binding.selection = NoProfile
      <3> SUFFICES ASSUME j.boot
                   PROVE /\ a = "refresh" /\ j.raw.resolved = NoProfile /\ j.raw.selection = NoProfile
                         /\ j.binding.epoch = 0 => /\ j.binding.resolved = NoProfile
                                                   /\ j.binding.selection = NoProfile
        OBVIOUS
      <3>1. a = "refresh" /\ u.cfg.active = NoProfile /\ u.cfg.explicit = NoProfile
        BY <2>1 DEF Bootstrapping, Unmapped
      <3>2. j.raw.resolved = NoProfile /\ j.raw.selection = NoProfile
        BY <1>2, <2>1, <3>1 DEF Capture
      <3>3. Binding(u).epoch = 0 => Binding(u).resolved = NoProfile /\ Binding(u).selection = NoProfile
        BY <1>0, <3>1, BindingCases
      <3> QED BY <2>1, <3>1, <3>2, <3>3
    <2>6. ~j.boot => j.binding.profile # NoProfile
      BY <1>0, <1>5, <2>1, ProfileKnownBinds
    <2>7. j.binding.private => j.binding.profile # NoProfile
      BY <1>0, <2>1, BindingCases DEF Shown
    <2>8. Unscoped(w, j) => ~Unmapped(w) /\ ~Shown(w.scope)
      <3> SUFFICES ASSUME Unscoped(w, j) PROVE ~Unmapped(w) /\ ~Shown(w.scope)
        OBVIOUS
      <3>1. a \in ArchiveReads \cup {"question"} /\ Binding(u).epoch = 0 /\ a # "refresh"
        BY <2>1 DEF Unscoped, ArchiveReads, HistoryReads, SearchReads, TimelineReads
      <3>2. v = u /\ HistorySupported(u) /\ ~Bootstrapping(u, a)
        BY <1>2, <1>5, <3>1 DEF Supported, ComposerSupported, Bootstrapping
      <3>3. ~Unmapped(u)
        BY <1>0, <1>5, <3>1, <3>2, ProfileKnownBinds
      <3>4. ~Shown(u.scope)
        BY <1>0, <3>2, <3>3, CurrentIsUnmapped DEF HistorySupported, PrivateAllowed
      <3> QED BY <1>3, <3>2, <3>3, <3>4 DEF Unmapped
    <2> HIDE DEF j
    <2> QED BY <2>1, <2>2, <2>3, <2>5, <2>6, <2>7, <2>8 DEF OwnTicket, FreshJob
  <1>6. \/ L \in { [ui |-> u, new |-> {}], [ui |-> Invalidate(u), new |-> {}], [ui |-> v, new |-> {}] }
        \/ L = [ui |-> w, new |-> {j}] /\ ProfileKnown(u, a) /\ Supported(v, a)
    BY DEF Launch
  <1> HIDE DEF v, w, j, L
  <1>7. Narrow(u, L.ui) /\ \A k \in L.new : OwnTicket(L.ui, k) /\ FreshJob(k)
    BY <1>1, <1>2, <1>4, <1>5, <1>6
  <1> QED BY <1>7 DEF L

LEMMA FreshOwn ==
    ASSUME NEW u \in UiType, NEW n \in Nat, NEW j \in Jobs, OwnTicket(u, j), FreshJob(j)
    PROVE OwnJob(u, n, j)
  <1>1. /\ NoResult.owner = NoProfile /\ ~NoResult.private /\ ~Shown(NoResult.panel)
        /\ ~Shown(NoResult.session) /\ ~Shown(NoResult.conv) /\ NoResult.session.rev = 0
    BY Values DEF NoResult, Nothing
  <1>2. OwnResult(j, j.step, j.res)
    BY <1>1 DEF FreshJob, OwnResult
  <1>3. OwnRev(u, n, j)
    BY <1>1 DEF FreshJob, OwnRev
  <1> QED BY <1>2, <1>3 DEF OwnJob

-----------------------------------------------------------------------------
(* What a step brings to the screen *)

\* No job that was in flight holds a lane of v.
Vacant(u, v) == v.running \notin 1..u.serial /\ v.qRunning \notin 1..u.serial

\* What every step of the GUI thread keeps of the tickets of jobs in flight.
Keeps(u, v) == /\ Lane2(u, v)
               /\ Shown(v.scope) => Shown(u.scope) \/ Unmapped(u)
               /\ (Unmapped(v) => Unmapped(u)) \/ Vacant(u, v)
               /\ v.session \in {u.session, Nothing} \/ v.running \notin 1..u.serial

\* What it may put on screen.
Brings(u, v) ==
    /\ \A c \in Panels(v) \ Panels(u) : Shown(c) => c.owner = OwnerOnArrival(u, v)
    /\ \A c \in {v.archive, v.timeline, v.search} \ Panels(u) : Shown(c) => c.view = u.viewEpoch
    /\ Shown(u.session) /\ Shown(v.session) => v.session.rev >= u.session.rev
Arrives(u, v, n) == Keeps(u, v) /\ Brings(u, v) /\ OwnUi(v) /\ v.session.rev <= n

LEMMA KeepsJob ==
    ASSUME NEW u \in UiType, NEW v \in UiType, Keeps(u, v), NEW n \in Nat, NEW m \in Nat, n <= m,
           NEW j \in Jobs, OwnJob(u, n, j)
    PROVE OwnJob(v, m, j)
  <1>1. j.serial \in 1..u.serial /\ Lane2(u, v)
    BY DEF OwnJob, OwnTicket, Keeps
  <1>2. TicketMatches(v, j) => TicketMatches(u, j)
    BY <1>1, LiveBefore
  <1>3. j.serial \in 1..v.serial
    BY <1>1, UiNumbers DEF Lane2
  <1>4. TicketMatches(v, j) => ~Vacant(u, v)
    BY <1>1 DEF TicketMatches, Vacant
  <1>5. OwnTicket(v, j)
    <2>1. Unscoped(v, j) => ~Unmapped(v) /\ ~Shown(v.scope)
      BY <1>2, <1>4 DEF Unscoped, Keeps, OwnJob, OwnTicket
    <2> QED BY <1>3, <2>1 DEF OwnJob, OwnTicket
  <1>6. OwnRev(v, m, j)
    <2>1. j.res.session.rev \in Nat /\ u.session.rev \in Nat /\ Nothing.rev = 0
      BY DEF Jobs, Results, Content, UiType, Nothing
    <2>2. j.res.session.rev <= m
      BY <2>1 DEF OwnJob, OwnRev
    <2>3. ASSUME j.act # "question", TicketMatches(v, j), Shown(j.res.session)
          PROVE v.session.rev <= j.res.session.rev
      <3>1. u.session.rev <= j.res.session.rev
        BY <1>2, <2>3 DEF OwnJob, OwnRev
      <3>2. v.session \in {u.session, Nothing}
        BY <1>1, <2>3 DEF TicketMatches, Keeps
      <3> QED BY <2>1, <3>1, <3>2
    <2> QED BY <2>2, <2>3 DEF OwnRev
  <1> QED BY <1>5, <1>6 DEF OwnJob

LEMMA NarrowArrives ==
    ASSUME NEW u \in UiType, NEW v \in UiType, OwnUi(u), Narrow(u, v), NEW n \in Nat,
           u.session.rev <= n
    PROVE Arrives(u, v, n)
  <1>1. Keeps(u, v)
    BY DEF Narrow, Keeps, Fewer, Unmapped, NoScope, Shown
  <1>2. Nothing.rev = 0 /\ u.session.rev \in Nat
    BY DEF UiType, Content, Nothing
  <1>3. Brings(u, v)
    BY <1>2, Values DEF Narrow, Fewer, Brings, Panels
  <1>4. v.session.rev <= n
    BY <1>2 DEF Narrow, Fewer
  <1> QED BY <1>1, <1>3, <1>4, NarrowOwn DEF Arrives

LEMMA ArrivesNarrow ==
    ASSUME NEW u \in UiType, NEW v \in UiType, NEW w \in UiType, NEW n \in Nat,
           Arrives(u, v, n), Narrow(v, w)
    PROVE Arrives(u, w, n)
  <1>1. Nothing.rev = 0 /\ v.session.rev \in Nat /\ u.session.rev \in Nat
    BY DEF UiType, Content, Nothing
  <1>2. Keeps(u, w)
    <2>1. Lane2(u, w)
      BY UiNumbers DEF Arrives, Keeps, Narrow, Lane2
    <2>2. Shown(w.scope) => Shown(u.scope) \/ Unmapped(u)
      BY DEF Arrives, Keeps, Narrow, NoScope, Shown
    <2>3. (Unmapped(w) => Unmapped(u)) \/ Vacant(u, w)
      BY UiNumbers DEF Arrives, Keeps, Narrow, Lane2, Vacant, Unmapped
    <2>4. w.session \in {u.session, Nothing} \/ w.running \notin 1..u.serial
      BY UiNumbers DEF Arrives, Keeps, Narrow, Lane2, Fewer
    <2> QED BY <2>1, <2>2, <2>3, <2>4 DEF Keeps
  <1>3. \A c \in Panels(w) : Shown(c) => c \in Panels(v)
    BY Values DEF Narrow, Fewer, Panels
  <1>4. \A c \in Panels(w) : Shown(c) => OwnerOnArrival(u, w) = OwnerOnArrival(u, v)
    BY Values DEF Narrow, Empty, Panels, OwnerOnArrival
  <1>5. \A c \in {w.archive, w.timeline, w.search} : Shown(c) => c \in {v.archive, v.timeline, v.search}
    BY Values DEF Narrow, Fewer
  <1>6. Shown(w.session) => w.session = v.session
    BY Values DEF Narrow, Fewer
  <1>7. Brings(u, w)
    BY <1>3, <1>4, <1>5, <1>6 DEF Arrives, Brings
  <1>8. OwnUi(w)
    BY NarrowOwn DEF Arrives
  <1>9. w.session.rev <= n
    BY <1>1 DEF Narrow, Fewer, Arrives
  <1> QED BY <1>2, <1>7, <1>8, <1>9 DEF Arrives

\* A page or a Flow put beside the Session on screen by a job that holds its lane.
LEMMA InstallOwn ==
    ASSUME NEW u \in UiType, NEW v \in UiType, OwnUi(u), NEW n \in Nat, u.session.rev <= n,
           NEW r \in Jobs, OwnJob(u, n, r), TicketMatches(u, r), r.binding = Binding(u),
           r.act \in ArchiveReads \cup {"question"},
           v.cfg = u.cfg, v.scope = u.scope, v.ownerEpoch = u.ownerEpoch, Lane2(u, v),
           v.session = u.session,
           NEW c, Shown(c) => c.owner = r.binding.profile,
           \A d \in Panels(v) : d \in Panels(u) \/ ~Shown(d) \/ d = c,
           \A d \in {v.archive, v.timeline, v.search} :
             d \in Panels(u) \/ ~Shown(d) \/ d.view = u.viewEpoch
    PROVE Arrives(u, v, n)
  <1>1. Unmapped(v) = Unmapped(u)
    BY DEF Unmapped
  <1>2. Shown(u.scope) => Binding(u).profile = u.scope.owner
    <2>1. Shown(u.scope) => ~Unscoped(u, r)
      BY DEF OwnJob, OwnTicket
    <2>2. Shown(u.scope) => Binding(u).epoch # 0
      BY <2>1 DEF Unscoped
    <2> QED BY <2>2, BindingCases
  <1>3. OwnUi(v)
    <2>1. ASSUME Shown(v.scope), Unmapped(v), NEW d \in Panels(v), Shown(d)
          PROVE d.owner = v.scope.owner
      <3>1. CASE d \in Panels(u)
        BY <1>1, <2>1, <3>1 DEF OwnUi
      <3>2. CASE d = c
        BY <1>2, <2>1, <3>2
      <3> QED BY <2>1, <3>1, <3>2
    <2> QED BY <2>1 DEF OwnUi
  <1>4. Keeps(u, v)
    BY <1>1 DEF Keeps
  <1>5. Brings(u, v)
    <2>1. ASSUME NEW d \in Panels(v) \ Panels(u), Shown(d) PROVE d.owner = OwnerOnArrival(u, v)
      BY <1>2, <2>1 DEF OwnerOnArrival
    <2>2. ASSUME NEW d \in {v.archive, v.timeline, v.search} \ Panels(u), Shown(d)
          PROVE d.view = u.viewEpoch
      BY <2>2
    <2>3. u.session.rev \in Nat
      BY DEF UiType, Content
    <2> QED BY <2>1, <2>2, <2>3 DEF Brings
  <1> QED BY <1>3, <1>4, <1>5 DEF Arrives

\* The lane of a read that ends is free.
LEMMA LaneEnds ==
    ASSUME NEW u \in UiType
    PROVE LET v == [u EXCEPT !.running = 0, !.act = "none"]
          IN  /\ Narrow(u, v) /\ v \in UiType /\ v.running = 0 /\ Binding(v) = Binding(u)
              /\ v.scope = u.scope /\ v.ownerEpoch = u.ownerEpoch /\ Unmapped(v) = Unmapped(u)
              /\ v.archive = u.archive /\ v.timeline = u.timeline /\ v.search = u.search
              /\ v.session = u.session /\ v.conv = u.conv /\ v.cfg = u.cfg
              /\ v.viewEpoch = u.viewEpoch
              /\ v.foreground = u.foreground /\ v.serial = u.serial /\ v.qRunning = u.qRunning
  <1> DEFINE v == [u EXCEPT !.running = 0, !.act = "none"]
  <1>1. v \in UiType
    BY DEF UiType
  <1>2. /\ v.running = 0 /\ v.scope = u.scope /\ v.ownerEpoch = u.ownerEpoch /\ v.cfg = u.cfg
        /\ v.archive = u.archive /\ v.timeline = u.timeline /\ v.search = u.search
        /\ v.session = u.session /\ v.conv = u.conv /\ v.viewEpoch = u.viewEpoch
        /\ v.foreground = u.foreground /\ v.serial = u.serial /\ v.qRunning = u.qRunning
    BY DEF UiType
  <1> HIDE DEF v
  <1>3. Capture(v) = Capture(u) /\ Unmapped(v) = Unmapped(u)
    BY <1>2 DEF Capture, SessionProfile, Unmapped
  <1>4. ScopeCurrent(v) = ScopeCurrent(u)
    BY <1>2, <1>3 DEF ScopeCurrent, Paired
  <1>5. Binding(v) = Binding(u)
    BY <1>2, <1>3, <1>4 DEF Binding
  <1>6. Narrow(u, v)
    BY <1>2, UiNumbers DEF Narrow, Lane2, Fewer
  <1> QED BY <1>1, <1>2, <1>3, <1>5, <1>6 DEF v

\* A bootstrap is applied only while the device is still unmapped.
LEMMA BootUnmapped ==
    ASSUME NEW u \in UiType, OwnUi(u), NEW r \in Jobs, OwnTicket(u, r), r.boot, r.binding = Binding(u)
    PROVE Unmapped(u)
  BY BindingCases DEF OwnTicket, Unmapped

\* The fields a current read leaves behind.
NewScope(r) == IF r.res.owner # NoProfile
               THEN [binding |-> r.raw, owner |-> r.res.owner, private |-> r.res.private]
               ELSE NoScope
SameOwner(u, r) == u.scope.owner = NewScope(r).owner /\ u.scope.private = NewScope(r).private

LEMMA InstallScopeFields ==
    ASSUME NEW u \in UiType, NEW r \in Jobs
    PROVE LET v == InstallScope(u, r)
          IN  /\ v \in UiType /\ v.scope = NewScope(r) /\ v.cfg = u.cfg /\ v.serial = u.serial
              /\ v.running = u.running /\ v.qRunning = u.qRunning
              /\ v.session = u.session /\ v.conv = u.conv
              /\ \/ /\ SameOwner(u, r) /\ v.ownerEpoch = u.ownerEpoch /\ v.archive = u.archive
                    /\ v.timeline = u.timeline /\ v.search = u.search
                 \/ /\ v.ownerEpoch = u.ownerEpoch + 1 /\ v.archive = Nothing
                    /\ v.timeline = Nothing /\ v.search = Nothing
  <1> DEFINE new == NewScope(r)
             v == [u EXCEPT !.scope = new]
             c == ClearArchive(v)
             d == Withdraw(c)
             i == d.ownerEpoch + 1
             e == [d EXCEPT !.ownerEpoch = i, !.timeline = Nothing, !.search = Nothing]
  <1>1. new \in [binding : Bindings, owner : Owners, private : BOOLEAN]
    BY Values DEF Jobs, Results, Scopes, NewScope
  <1>2. InstallScope(u, r) = IF SameOwner(u, r) THEN v ELSE e
    BY DEF InstallScope, SameOwner, NewScope
  <1> HIDE DEF new
  <1>3. /\ v \in UiType /\ v.scope = new /\ v.cfg = u.cfg /\ v.serial = u.serial
        /\ v.running = u.running /\ v.qRunning = u.qRunning /\ v.session = u.session
        /\ v.conv = u.conv /\ v.ownerEpoch = u.ownerEpoch /\ v.archive = u.archive
        /\ v.timeline = u.timeline /\ v.search = u.search
    BY <1>1 DEF UiType
  <1> HIDE DEF v
  <1>4. /\ c \in UiType /\ c.scope = new /\ c.cfg = u.cfg /\ c.serial = u.serial
        /\ c.running = u.running /\ c.qRunning = u.qRunning /\ c.session = u.session
        /\ c.conv = u.conv /\ c.ownerEpoch = u.ownerEpoch /\ c.archive = Nothing
    <2>1. v.viewEpoch + 1 \in Nat
      BY <1>3 DEF UiType
    <2>2. ASSUME NEW n \in Nat PROVE
          LET x == [v EXCEPT !.archive = Nothing, !.historyLoaded = FALSE, !.viewEpoch = n]
          IN  /\ x \in UiType /\ x.scope = v.scope /\ x.cfg = v.cfg /\ x.serial = v.serial
              /\ x.running = v.running /\ x.qRunning = v.qRunning /\ x.session = v.session
              /\ x.conv = v.conv /\ x.ownerEpoch = v.ownerEpoch /\ x.archive = Nothing
      BY <1>3, Values DEF UiType
    <2>3. ClearHistory(v).viewEpoch = v.viewEpoch
      BY <1>3 DEF UiType, ClearHistory
    <2>4. c = [v EXCEPT !.archive = Nothing, !.historyLoaded = FALSE, !.viewEpoch = v.viewEpoch + 1]
      BY <2>3 DEF ClearArchive, ClearHistory
    <2> QED BY <1>3, <2>1, <2>2, <2>4
  <1> HIDE DEF c
  <1>5. /\ d \in UiType /\ d.scope = new /\ d.cfg = u.cfg /\ d.serial = u.serial
        /\ d.running = u.running /\ d.qRunning = u.qRunning /\ d.session = u.session
        /\ d.conv = u.conv /\ d.ownerEpoch = u.ownerEpoch /\ d.archive = Nothing
    <2>1. d.ownerEpoch = c.ownerEpoch /\ d.archive = c.archive
      BY <1>4 DEF UiType, Withdraw
    <2> QED BY <1>4, <2>1, WithdrawType
  <1> HIDE DEF d
  <1>6. i \in Nat /\ i = u.ownerEpoch + 1
    BY <1>5 DEF UiType
  <1> HIDE DEF i
  <1>7. /\ e \in UiType /\ e.scope = new /\ e.cfg = u.cfg /\ e.serial = u.serial
        /\ e.running = u.running /\ e.qRunning = u.qRunning /\ e.session = u.session
        /\ e.conv = u.conv /\ e.ownerEpoch = i /\ e.archive = Nothing
        /\ e.timeline = Nothing /\ e.search = Nothing
    <2>1. d \in UiType /\ i \in Nat
      BY <1>5, <1>6
    <2>2. e \in UiType
      BY <2>1, Values DEF UiType
    <2>3. /\ e.scope = d.scope /\ e.cfg = d.cfg /\ e.serial = d.serial
          /\ e.running = d.running /\ e.qRunning = d.qRunning /\ e.session = d.session
          /\ e.conv = d.conv /\ e.ownerEpoch = i /\ e.archive = d.archive
          /\ e.timeline = Nothing /\ e.search = Nothing
      BY <2>1 DEF UiType
    <2> QED BY <1>5, <2>2, <2>3
  <1> HIDE DEF e
  <1> QED BY <1>2, <1>3, <1>6, <1>7 DEF new

LEMMA InstallSessionFields ==
    ASSUME NEW u \in UiType, NEW r \in Jobs
    PROVE LET v == InstallSession(u, r)
          IN  /\ v \in UiType /\ v.session = r.res.session
              /\ v.scope = u.scope /\ v.cfg = u.cfg /\ v.serial = u.serial
              /\ v.running = u.running /\ v.qRunning = u.qRunning /\ v.conv = u.conv
              /\ v.ownerEpoch = u.ownerEpoch /\ v.archive = u.archive
              /\ v.timeline = u.timeline /\ v.search = u.search
  <1> DEFINE Kept(x, y) == /\ y \in UiType /\ y.scope = x.scope /\ y.cfg = x.cfg
                           /\ y.serial = x.serial /\ y.running = x.running
                           /\ y.qRunning = x.qRunning /\ y.conv = x.conv
                           /\ y.ownerEpoch = x.ownerEpoch /\ y.archive = x.archive
                           /\ y.timeline = x.timeline /\ y.search = x.search
             v == IF u.session.sid # r.res.session.sid THEN Withdraw(u) ELSE u
             w == [v EXCEPT !.session = r.res.session, !.caps = r.res.caps]
  <1>1. ASSUME NEW x \in UiType PROVE Kept(x, Withdraw(x)) /\ Withdraw(x).session = x.session
    <2>1. /\ Withdraw(x).ownerEpoch = x.ownerEpoch /\ Withdraw(x).archive = x.archive
          /\ Withdraw(x).timeline = x.timeline /\ Withdraw(x).search = x.search
      BY DEF UiType, Withdraw
    <2> QED BY <2>1, WithdrawType
  <1>2. Kept(u, v)
    BY <1>1
  <1>3. r.res.session \in Content /\ r.res.caps \in SUBSET {"history", "dialogue", "search"}
    BY DEF Jobs, Results
  <1>4. InstallSession(u, r) \in {w, Withdraw(w)}
    BY DEF InstallSession
  <1> HIDE DEF v
  <1>5. Kept(v, w) /\ w.session = r.res.session
    BY <1>2, <1>3 DEF UiType
  <1> HIDE DEF w
  <1>6. Kept(w, Withdraw(w)) /\ Withdraw(w).session = w.session
    BY <1>1, <1>5
  <1> QED BY <1>2, <1>4, <1>5, <1>6

LEMMA InstallFlowFields ==
    ASSUME NEW u \in UiType, NEW r \in Jobs
    PROVE LET v == InstallFlow(u, r)
          IN  /\ v \in UiType /\ v.session = u.session /\ v.scope = u.scope /\ v.cfg = u.cfg
              /\ v.serial = u.serial /\ v.running = u.running /\ v.qRunning = u.qRunning
              /\ v.ownerEpoch = u.ownerEpoch /\ v.conv \in {r.res.conv, Nothing}
              /\ v.archive \in {u.archive, Nothing} /\ v.timeline \in {u.timeline, Nothing}
              /\ v.search \in {u.search, Nothing}
  <1> DEFINE off == [ClearHistory(u) EXCEPT !.conv = Nothing, !.timeline = Nothing, !.search = Nothing]
             on == [u EXCEPT !.conv = r.res.conv, !.search = IF SearchSupported(u) THEN @ ELSE Nothing]
  <1>1. r.res.conv \in Content
    BY DEF Jobs, Results
  <1>2. /\ off \in UiType /\ off.session = u.session /\ off.scope = u.scope /\ off.cfg = u.cfg
        /\ off.serial = u.serial /\ off.running = u.running /\ off.qRunning = u.qRunning
        /\ off.ownerEpoch = u.ownerEpoch /\ off.conv = Nothing /\ off.archive = Nothing
        /\ off.timeline = Nothing /\ off.search = Nothing
    BY Values DEF UiType, ClearHistory
  <1>3. /\ on \in UiType /\ on.session = u.session /\ on.scope = u.scope /\ on.cfg = u.cfg
        /\ on.serial = u.serial /\ on.running = u.running /\ on.qRunning = u.qRunning
        /\ on.ownerEpoch = u.ownerEpoch /\ on.conv = r.res.conv /\ on.archive = u.archive
        /\ on.timeline = u.timeline /\ on.search \in {u.search, Nothing}
    BY <1>1, Values DEF UiType
  <1>4. InstallFlow(u, r) \in {on, off}
    BY DEF InstallFlow
  <1> HIDE DEF on, off
  <1> QED BY <1>2, <1>3, <1>4

LEMMA InstallCurrentOwn ==
    ASSUME NEW u \in UiType, OwnUi(u), NEW n \in Nat, NEW r \in Jobs, OwnJob(u, n, r),
           TicketMatches(u, r), r.act \in CurrentReads, r.binding = Binding(u),
           r.step = "done", r.res.error = "none"
    PROVE LET v == [u EXCEPT !.running = 0, !.act = "none"]
          IN  Arrives(u, InstallCurrent(v, r), n) /\ InstallCurrent(v, r) \in UiType
  <1> DEFINE v == [u EXCEPT !.running = 0, !.act = "none"]
             s == InstallScope(v, r)
             t == InstallSession(s, r)
             z == InstallFlow(t, r)
             scope == NewScope(r)
             same == u.scope.owner = scope.owner
  <1>1. /\ z \in UiType /\ z.cfg = u.cfg /\ z.scope = scope /\ z.serial = u.serial
        /\ z.running = 0 /\ z.qRunning = u.qRunning /\ z.session = r.res.session
        /\ z.conv \in {r.res.conv, Nothing}
        /\ z.ownerEpoch = u.ownerEpoch + 1 \/ (same /\ z.ownerEpoch = u.ownerEpoch)
        /\ ~same => z.archive = Nothing /\ z.timeline = Nothing /\ z.search = Nothing
        /\ z.archive \in {u.archive, Nothing} /\ z.timeline \in {u.timeline, Nothing}
        /\ z.search \in {u.search, Nothing}
    <2>1. /\ v \in UiType /\ v.running = 0 /\ v.ownerEpoch = u.ownerEpoch /\ v.scope = u.scope
          /\ v.archive = u.archive /\ v.timeline = u.timeline /\ v.search = u.search
          /\ v.cfg = u.cfg /\ v.serial = u.serial /\ v.qRunning = u.qRunning
      BY LaneEnds
    <2> HIDE DEF v
    <2>2. /\ s \in UiType /\ s.scope = scope /\ s.cfg = u.cfg /\ s.serial = u.serial
          /\ s.running = 0 /\ s.qRunning = u.qRunning
          /\ \/ /\ same /\ s.ownerEpoch = u.ownerEpoch /\ s.archive = u.archive
                /\ s.timeline = u.timeline /\ s.search = u.search
             \/ /\ s.ownerEpoch = u.ownerEpoch + 1 /\ s.archive = Nothing
                /\ s.timeline = Nothing /\ s.search = Nothing
      BY <2>1, InstallScopeFields DEF SameOwner
    <2> HIDE DEF s, scope, same
    <2>3. /\ t \in UiType /\ t.session = r.res.session /\ t.scope = s.scope /\ t.cfg = s.cfg
          /\ t.serial = s.serial /\ t.running = s.running /\ t.qRunning = s.qRunning
          /\ t.ownerEpoch = s.ownerEpoch /\ t.archive = s.archive
          /\ t.timeline = s.timeline /\ t.search = s.search
      BY <2>2, InstallSessionFields
    <2> HIDE DEF t
    <2>4. /\ z \in UiType /\ z.session = t.session /\ z.scope = t.scope /\ z.cfg = t.cfg
          /\ z.serial = t.serial /\ z.running = t.running /\ z.qRunning = t.qRunning
          /\ z.ownerEpoch = t.ownerEpoch /\ z.conv \in {r.res.conv, Nothing}
          /\ z.archive \in {t.archive, Nothing} /\ z.timeline \in {t.timeline, Nothing}
          /\ z.search \in {t.search, Nothing}
      BY <2>3, InstallFlowFields
    <2> HIDE DEF z
    <2> QED BY <2>2, <2>3, <2>4
  <1>2. InstallCurrent(v, r) = z
    BY DEF InstallCurrent
  <1> HIDE DEF v, s, t, z
  <1>3. Lane2(u, z) /\ z.running \notin 1..u.serial
    BY <1>1, UiNumbers DEF Lane2
  <1>4. Unmapped(z) = Unmapped(u) /\ Nothing.rev = 0 /\ u.session.rev \in Nat
    BY <1>1 DEF Unmapped, UiType, Content, Nothing
  <1>5. r.res.session.rev <= n /\ (Shown(r.res.session) => u.session.rev <= r.res.session.rev)
    BY ActionNames DEF OwnJob, OwnRev
  <1>6. r.res.session.rev \in Nat
    BY DEF Jobs, Results, Content
  <1>7. ASSUME r.boot PROVE Arrives(u, z, n)
    <2>1. Unmapped(u)
      BY <1>7, BootUnmapped DEF OwnJob
    <2>2. /\ r.res.owner # NoProfile /\ r.raw.resolved = NoProfile /\ r.raw.selection = NoProfile
          /\ Shown(r.res.session) => r.res.session.owner = r.res.owner
          /\ Shown(r.res.conv) => r.res.conv.owner = r.res.owner
      BY <1>7 DEF OwnJob, OwnTicket, OwnResult
    <2>3. scope = [binding |-> r.raw, owner |-> r.res.owner, private |-> r.res.private]
      BY <2>2 DEF NewScope
    <2>4. /\ Shown(scope) /\ scope.owner = r.res.owner /\ scope.binding.resolved = NoProfile
          /\ scope.binding.selection = NoProfile
      BY <2>2, <2>3 DEF Shown
    <2> HIDE DEF scope
    <2>5. z.ownerEpoch # 0
      <3>1. CASE z.ownerEpoch = u.ownerEpoch + 1
        BY <3>1, UiNumbers
      <3>2. CASE same /\ z.ownerEpoch = u.ownerEpoch
        BY <2>4, <3>2 DEF OwnUi, Shown
      <3> QED BY <1>1, <3>1, <3>2
    <2>6. \A c \in {z.archive, z.timeline, z.search} : Shown(c) => same /\ c \in Panels(u)
      BY <1>1, Values DEF Panels
    <2>7. same => Shown(u.scope)
      BY <2>4 DEF Shown
    <2>8. \A c \in Panels(z) : Shown(c) => c.owner = r.res.owner
      <3>1. \A c \in {z.archive, z.timeline, z.search} : Shown(c) => c.owner = u.scope.owner /\ same
        BY <2>1, <2>6, <2>7 DEF OwnUi
      <3>2. \A c \in {z.archive, z.timeline, z.search} : Shown(c) => c.owner = r.res.owner
        BY <2>4, <3>1
      <3> QED BY <1>1, <2>2, <3>2, Values DEF Panels
    <2>9. OwnUi(z)
      BY <1>1, <2>4, <2>5, <2>8 DEF OwnUi
    <2>10. Keeps(u, z)
      BY <1>3, <1>4, <2>1 DEF Keeps
    <2>11. Brings(u, z)
      BY <1>1, <1>5, <1>6, <1>4, <2>4, <2>6, <2>8 DEF Brings, OwnerOnArrival
    <2> QED BY <1>1, <1>5, <2>9, <2>10, <2>11 DEF Arrives
  <1>8. ASSUME ~r.boot PROVE Arrives(u, z, n)
    <2>1. /\ r.res.owner = NoProfile
          /\ Shown(r.res.session) => r.res.session.owner = Binding(u).profile
          /\ Shown(r.res.conv) => r.res.conv.owner = Binding(u).profile
      BY <1>8 DEF OwnJob, OwnTicket, OwnResult
    <2>2. ~Shown(z.scope)
      BY <1>1, <2>1 DEF NewScope, NoScope, Shown
    <2>3. \A c \in {z.archive, z.timeline, z.search} : Shown(c) => c \in Panels(u)
      BY <1>1, Values DEF Panels
    <2>4. OwnUi(z)
      BY <2>2 DEF OwnUi
    <2>5. Keeps(u, z)
      BY <1>3, <1>4, <2>2 DEF Keeps
    <2>6. \A c \in Panels(z) \ Panels(u) : Shown(c) => c.owner = Binding(u).profile
      BY <1>1, <2>1, <2>3, Values DEF Panels
    <2>7. Brings(u, z)
      BY <1>1, <1>5, <1>6, <1>4, <2>2, <2>3, <2>6 DEF Brings, OwnerOnArrival
    <2> QED BY <1>1, <1>5, <2>4, <2>5, <2>7 DEF Arrives
  <1> QED BY <1>1, <1>2, <1>7, <1>8 DEF v

\* An archive page on the screen it was asked for.
LEMMA InstallArchiveOwn ==
    ASSUME NEW u \in UiType, OwnUi(u), NEW n \in Nat, u.session.rev <= n,
           NEW r \in Jobs, OwnJob(u, n, r), TicketMatches(u, r), r.act \in ArchiveReads,
           r.binding = Binding(u), r.view = u.viewEpoch
    PROVE LET v == [u EXCEPT !.running = 0, !.act = "none"]
          IN  Arrives(u, InstallArchive(v, r), n) /\ InstallArchive(v, r) \in UiType
  <1> DEFINE v == [u EXCEPT !.running = 0, !.act = "none"]
             z == InstallArchive(v, r)
             c == r.res.panel
             a == [v EXCEPT !.archive = c, !.historyLoaded = TRUE]
             b == [v EXCEPT !.search = c]
             d == [v EXCEPT !.timeline = c]
             e == [v EXCEPT !.timeline = c, !.search = Nothing]
             f == [v EXCEPT !.timeline = c, !.search = v.search]
  <1>1. /\ v \in UiType /\ v.running = 0 /\ v.ownerEpoch = u.ownerEpoch /\ v.scope = u.scope
        /\ v.archive = u.archive /\ v.timeline = u.timeline /\ v.search = u.search
        /\ v.cfg = u.cfg /\ v.serial = u.serial /\ v.qRunning = u.qRunning
        /\ v.session = u.session /\ v.conv = u.conv
    BY LaneEnds
  <1>2. c \in Content
    BY DEF Jobs, Results
  <1>3. z \in {a, b, e, f}
    BY DEF InstallArchive
  <1> HIDE DEF v, c
  <1> DEFINE Kept(x) == /\ x \in UiType /\ x.cfg = v.cfg /\ x.scope = v.scope
                        /\ x.ownerEpoch = v.ownerEpoch
                        /\ x.serial = v.serial /\ x.running = v.running /\ x.qRunning = v.qRunning
                        /\ x.session = v.session /\ x.conv = v.conv
                        /\ x.archive \in {v.archive, c} /\ x.timeline \in {v.timeline, c}
                        /\ x.search \in {v.search, c, Nothing}
  <1>4. Kept(a)
    BY <1>1, <1>2 DEF UiType
  <1>5. Kept(b)
    BY <1>1, <1>2 DEF UiType
  <1>6. Kept(e) /\ Kept(f)
    BY <1>1, <1>2, Values DEF UiType
  <1> HIDE DEF a, b, e, f, z
  <1>7. Kept(z)
    BY <1>3, <1>4, <1>5, <1>6
  <1>8. Shown(c) => c.owner = r.binding.profile /\ c.view = u.viewEpoch
    BY DEF OwnJob, OwnResult, c
  <1>9. Lane2(u, z)
    BY <1>1, <1>7, UiNumbers DEF Lane2
  <1>10. /\ \A x \in Panels(z) : x \in Panels(u) \/ ~Shown(x) \/ x = c
         /\ \A x \in {z.archive, z.timeline, z.search} :
               x \in Panels(u) \/ ~Shown(x) \/ x.view = u.viewEpoch
    BY <1>1, <1>7, <1>8, Values DEF Panels
  <1>11. /\ z \in UiType /\ z.cfg = u.cfg /\ z.scope = u.scope /\ z.ownerEpoch = u.ownerEpoch
         /\ z.session = u.session
    BY <1>1, <1>7
  <1>12. Arrives(u, z, n)
    BY <1>8, <1>9, <1>10, <1>11, InstallOwn
  <1> QED BY <1>11, <1>12 DEF z, v

\* What is known of a result that is applied.
Applied(u, n, r) == r \in Jobs /\ OwnJob(u, n, r) /\ TicketMatches(u, r) /\ r.step = "done"

LEMMA ApplyReadOwn ==
    ASSUME NEW u0 \in Ui, OwnUi(u0), NEW n \in Nat, u0.session.rev <= n,
           NEW r, Applied(u0, n, r), r.act # "question", NEW gone
    PROVE Arrives(u0, ApplyRead(u0, r, gone).ui, n) /\ ApplyRead(u0, r, gone).ui \in UiType
  <1> DEFINE u == [u0 EXCEPT !.running = 0, !.act = "none"]
             x == [u EXCEPT !.archive = Nothing]
             v == IF r.act \in HistoryReads /\ Failed(r) THEN x ELSE u
             y == [v EXCEPT !.search = Nothing, !.timeline = Nothing]
             new == ApplyRead(u0, r, gone).ui
  <1>1. /\ u0 \in UiType /\ u \in UiType /\ Narrow(u0, u) /\ Binding(u) = Binding(u0)
        /\ u.viewEpoch = u0.viewEpoch
    BY LaneEnds DEF Ui
  <1>2. Lanes(u)
    BY DEF Ui, UiType, Lanes
  <1>3. r \in Jobs /\ r.act \in CurrentReads \cup ArchiveReads
    BY DEF Applied, Jobs, Actions
  <1>4. \/ ~StillBound(u, r) /\ new = Invalidate(u)
        \/ new = u
        \/ StillBound(u, r) /\ Failed(r) /\ new \in {y, Expire(ClearAll(v), gone)}
        \/ /\ StillBound(u, r) /\ ~Failed(r) /\ r.act \in CurrentReads
           /\ new = Expire(InstallCurrent(u, r), gone)
        \/ /\ StillBound(u, r) /\ ~Failed(r) /\ r.act \in ArchiveReads /\ SameView(u, r)
           /\ new = Expire(InstallArchive(u, r), gone)
    <2>1. CASE ~StillBound(u, r)
      BY <2>1 DEF ApplyRead
    <2>2. CASE StillBound(u, r) /\ r.act \in ArchiveReads /\ ~SameView(u, r)
      BY <2>2 DEF ApplyRead
    <2>3. CASE StillBound(u, r) /\ ~(r.act \in ArchiveReads /\ ~SameView(u, r))
      <3>1. CASE Failed(r)
        BY <2>3, <3>1 DEF ApplyRead
      <3>2. CASE ~Failed(r) /\ r.act \in CurrentReads
        BY <2>3, <3>2 DEF ApplyRead
      <3>3. CASE ~Failed(r) /\ r.act \notin CurrentReads
        BY <1>3, <2>3, <3>3 DEF ApplyRead
      <3> QED BY <3>1, <3>2, <3>3
    <2> QED BY <2>1, <2>2, <2>3
  <1> HIDE DEF new, u
  <1>5. x \in UiType /\ Narrow(u, x) /\ Lanes(x)
    <2>1. x \in UiType /\ Narrow(u, x)
      BY <1>1, Values, UiNumbers DEF UiType, Narrow, Lane2, Fewer
    <2>2. Lanes(x)
      BY <1>1, <1>2 DEF UiType, Lanes
    <2> QED BY <2>1, <2>2
  <1>6. v \in Ui /\ v \in UiType /\ Narrow(u, v)
    BY <1>1, <1>2, <1>5, NarrowRefl DEF Ui
  <1>7. Narrow(u0, v)
    <2> HIDE DEF v
    <2> QED BY <1>1, <1>6, NarrowTrans
  <1>8. ASSUME NEW w \in UiType, NEW z \in UiType, Narrow(u0, w), Narrow(w, z), new = z
        PROVE Arrives(u0, new, n) /\ new \in UiType
    <2>1. Narrow(u0, z)
      BY <1>1, <1>8, NarrowTrans
    <2> QED BY <1>1, <1>8, <2>1, NarrowArrives
  <1>9. ASSUME new = u
        PROVE Arrives(u0, new, n) /\ new \in UiType
    BY <1>1, <1>9, NarrowArrives
  <1>10. ASSUME new = Invalidate(u)
         PROVE Arrives(u0, new, n) /\ new \in UiType
    <2>1. Invalidate(u) \in UiType /\ Narrow(u, Invalidate(u))
      BY <1>1, <1>2, InvalidateStep, InvalidateNarrow DEF Ui
    <2> QED BY <1>1, <1>8, <1>10, <2>1
  <1> HIDE DEF v
  <1>11. ASSUME new = y
         PROVE Arrives(u0, new, n) /\ new \in UiType
    <2>1. y \in UiType
      BY <1>6, Values DEF UiType
    <2>2. Narrow(v, y)
      BY <1>6, UiNumbers DEF UiType, Narrow, Lane2, Fewer
    <2> HIDE DEF y
    <2> QED BY <1>6, <1>7, <1>8, <1>11, <2>1, <2>2
  <1>12. ASSUME new = Expire(ClearAll(v), gone)
         PROVE Arrives(u0, new, n) /\ new \in UiType
    <2>1. ClearAll(v) \in UiType /\ Narrow(v, ClearAll(v))
      BY <1>6, ClearAllStep, ClearAllNarrow DEF Ui
    <2>2. /\ Expire(ClearAll(v), gone) \in UiType /\ Narrow(ClearAll(v), Expire(ClearAll(v), gone))
      BY <2>1, ExpireNarrow
    <2>3. Narrow(u0, ClearAll(v))
      BY <1>1, <1>6, <1>7, <2>1, NarrowTrans
    <2> QED BY <1>8, <1>12, <2>1, <2>2, <2>3
  <1>13. ASSUME NEW w \in UiType, Arrives(u0, w, n), new = Expire(w, gone)
         PROVE Arrives(u0, new, n) /\ new \in UiType
    <2>1. /\ Expire(w, gone) \in UiType /\ Narrow(w, Expire(w, gone))
      BY ExpireNarrow
    <2> QED BY <1>1, <1>13, <2>1, ArrivesNarrow
  <1>14. ASSUME /\ StillBound(u, r) /\ ~Failed(r) /\ r.act \in CurrentReads
                /\ new = Expire(InstallCurrent(u, r), gone)
         PROVE Arrives(u0, new, n) /\ new \in UiType
    <2>1. r.binding = Binding(u0) /\ r.res.error = "none"
      BY <1>1, <1>14 DEF StillBound, Failed
    <2>2. Arrives(u0, InstallCurrent(u, r), n) /\ InstallCurrent(u, r) \in UiType
      BY <1>1, <1>3, <1>14, <2>1, InstallCurrentOwn DEF Applied, u
    <2> QED BY <1>13, <1>14, <2>2
  <1>15. ASSUME /\ StillBound(u, r) /\ r.act \in ArchiveReads /\ SameView(u, r)
                /\ new = Expire(InstallArchive(u, r), gone)
         PROVE Arrives(u0, new, n) /\ new \in UiType
    <2>1. r.binding = Binding(u0) /\ r.view = u0.viewEpoch
      BY <1>1, <1>15 DEF StillBound, SameView
    <2>2. Arrives(u0, InstallArchive(u, r), n) /\ InstallArchive(u, r) \in UiType
      BY <1>1, <1>3, <1>15, <2>1, InstallArchiveOwn DEF Applied, u
    <2> QED BY <1>13, <1>15, <2>2
  <1> HIDE DEF y
  <1>16. Arrives(u0, new, n) /\ new \in UiType
    BY <1>4, <1>9, <1>10, <1>11, <1>12, <1>14, <1>15
  <1> QED BY <1>16 DEF new

LEMMA ApplyQuestionOwn ==
    ASSUME NEW u0 \in Ui, OwnUi(u0), NEW n \in Nat, u0.session.rev <= n,
           NEW r, Applied(u0, n, r), r.act = "question", NEW gone
    PROVE Arrives(u0, ApplyQuestion(u0, r, gone).ui, n) /\ ApplyQuestion(u0, r, gone).ui \in UiType
  <1> DEFINE u == [u0 EXCEPT !.qRunning = 0, !.pending = 0, !.pendingBinding = NoBinding]
             k == IF r.res.accepted THEN r.sid ELSE 0
             v == [u EXCEPT !.receipt = k]
             w == [v EXCEPT !.selection = NoSelection]
             answer == [w EXCEPT !.receipt = 0, !.reply = r.sid, !.replyBinding = r.binding]
             later == [w EXCEPT !.reconcile = TRUE]
             flow == [w EXCEPT !.conv = r.res.conv]
             none == [w EXCEPT !.conv = Nothing]
             new == ApplyQuestion(u0, r, gone).ui
             Like(a, b) == /\ a.scope = b.scope /\ a.cfg = b.cfg
                           /\ a.serial = b.serial /\ a.running = b.running
                           /\ a.qRunning = b.qRunning /\ a.ownerEpoch = b.ownerEpoch
                           /\ a.archive = b.archive /\ a.timeline = b.timeline
                           /\ a.search = b.search /\ a.session = b.session
  <1>1. /\ r \in Jobs /\ r.sid \in Nat /\ r.binding \in Bindings /\ r.res.conv \in Content
        /\ k \in Nat /\ u0 \in UiType
    BY DEF Jobs, Results, Applied, Ui
  <1>2. u \in UiType
    BY Values DEF Ui, UiType
  <1>3. /\ u.scope = u0.scope /\ u.cfg = u0.cfg /\ u.serial = u0.serial /\ u.running = u0.running
        /\ u.qRunning = 0 /\ u.ownerEpoch = u0.ownerEpoch /\ u.foreground = u0.foreground
        /\ u.archive = u0.archive /\ u.timeline = u0.timeline /\ u.search = u0.search
        /\ u.session = u0.session /\ u.conv = u0.conv /\ u.act = u0.act
        /\ u.lastRead = u0.lastRead
    BY DEF Ui, UiType
  <1>4. ~SameQuestion(u, r) => new = u
    BY DEF ApplyQuestion
  <1>26. SameQuestion(u, r) /\ (~StillBound(u, r) \/ r.res.error = "denied") => new = Invalidate(u)
    BY DEF ApplyQuestion
  <1>27. SameQuestion(u, r) /\ ~(~StillBound(u, r) \/ r.res.error = "denied") =>
           new \in {DropReply(answer), later, Expire(flow, gone), Expire(ClearAll(w), gone), none}
    BY DEF ApplyQuestion
  <1> HIDE DEF u, k, new
  <1>5. Binding(u) = Binding(u0)
    <2>1. Capture(u) = Capture(u0) /\ Unmapped(u) = Unmapped(u0)
      BY <1>3 DEF Capture, SessionProfile, Unmapped
    <2>2. ScopeCurrent(u) = ScopeCurrent(u0)
      BY <1>3, <2>1 DEF ScopeCurrent, Paired
    <2> QED BY <1>3, <2>1, <2>2 DEF Binding
  <1>6. v \in UiType /\ Like(v, u) /\ v.conv = u.conv /\ v.act = u.act /\ v.lastRead = u.lastRead
    BY <1>1, <1>2 DEF UiType
  <1> HIDE DEF v
  <1>7. w \in UiType /\ Like(w, v) /\ w.conv = v.conv /\ w.act = v.act /\ w.lastRead = v.lastRead
    <2>1. v \in UiType
      BY <1>6
    <2> QED BY <2>1, Values DEF UiType, Selected
  <1> HIDE DEF w
  <1>8. w \in UiType
    BY <1>7
  <1>9. answer \in UiType /\ Like(answer, w) /\ answer.conv = w.conv
    <2>1. answer \in UiType
      BY <1>1, <1>8 DEF UiType
    <2>2. Like(answer, w) /\ answer.conv = w.conv
      BY <1>8 DEF UiType
    <2> QED BY <2>1, <2>2
  <1>10. later \in UiType /\ Like(later, w) /\ later.conv = w.conv
    BY <1>8 DEF UiType
  <1>11. flow \in UiType /\ Like(flow, w) /\ flow.conv = r.res.conv
    BY <1>1, <1>8 DEF UiType
  <1>12. none \in UiType /\ Like(none, w) /\ none.conv = Nothing
    BY <1>8, Values DEF UiType
  <1> HIDE DEF answer, later, flow, none
  <1>13. Like(w, u) /\ w.conv = u.conv
    BY <1>6, <1>7
  <1>14. ASSUME NEW a, Like(a, w), a.conv \in {w.conv, Nothing} PROVE Narrow(u0, a)
    BY <1>1, <1>3, <1>13, <1>14, UiNumbers DEF Narrow, Lane2, Fewer
  <1>15. Narrow(u0, u) /\ Narrow(u0, w) /\ Narrow(u0, answer) /\ Narrow(u0, later) /\ Narrow(u0, none)
    <2>1. Narrow(u0, u)
      BY <1>1, <1>3, UiNumbers DEF Narrow, Lane2, Fewer
    <2>2. Like(w, w)
      OBVIOUS
    <2>3. Narrow(u0, w)
      BY <1>14, <2>2
    <2>4. Narrow(u0, answer) /\ Narrow(u0, later) /\ Narrow(u0, none)
      BY <1>9, <1>10, <1>12, <1>14
    <2> QED BY <2>1, <2>3, <2>4
  <1>16. u \in Ui /\ w \in Ui
    <2>1. u0.serial \in Nat
      BY <1>1, UiNumbers
    <2>2. Lanes(u) /\ Lanes(w)
      BY <1>3, <1>6, <1>7, <2>1 DEF Ui, Lanes
    <2> QED BY <1>2, <1>7, <2>2 DEF Ui
  <1>17. ASSUME NEW a \in UiType, NEW z \in UiType, Narrow(u0, a), Narrow(a, z), new = z
         PROVE Arrives(u0, new, n) /\ new \in UiType
    <2>1. Narrow(u0, z)
      BY <1>1, <1>17, NarrowTrans
    <2> QED BY <1>1, <1>17, <2>1, NarrowArrives
  <1>18. ASSUME new \in {u, later, none}
         PROVE Arrives(u0, new, n) /\ new \in UiType
    BY <1>1, <1>2, <1>10, <1>12, <1>15, <1>18, NarrowArrives
  <1>19. ASSUME new = Invalidate(u)
         PROVE Arrives(u0, new, n) /\ new \in UiType
    <2>1. Invalidate(u) \in UiType /\ Narrow(u, Invalidate(u))
      BY <1>16, InvalidateStep, InvalidateNarrow DEF Ui
    <2> QED BY <1>2, <1>15, <1>17, <1>19, <2>1
  <1>20. ASSUME new = DropReply(answer)
         PROVE Arrives(u0, new, n) /\ new \in UiType
    BY <1>9, <1>15, <1>17, <1>20, DropReplyNarrow
  <1>21. ASSUME new = Expire(ClearAll(w), gone)
         PROVE Arrives(u0, new, n) /\ new \in UiType
    <2>1. ClearAll(w) \in UiType /\ Narrow(w, ClearAll(w))
      BY <1>16, ClearAllStep, ClearAllNarrow DEF Ui
    <2>2. Narrow(u0, ClearAll(w))
      BY <1>1, <1>8, <1>15, <2>1, NarrowTrans
    <2> QED BY <1>17, <1>21, <2>1, <2>2, ExpireNarrow
  <1>22. ASSUME StillBound(u, r) /\ new = Expire(flow, gone)
         PROVE Arrives(u0, new, n) /\ new \in UiType
    <2>1. r.binding = Binding(u0)
      BY <1>5, <1>22 DEF StillBound
    <2>2. Shown(r.res.conv) => r.res.conv.owner = r.binding.profile
      BY DEF Applied, OwnJob, OwnTicket, OwnResult
    <2>3. /\ flow.cfg = u0.cfg /\ flow.scope = u0.scope /\ flow.ownerEpoch = u0.ownerEpoch
          /\ flow.session = u0.session /\ flow.archive = u0.archive /\ flow.serial = u0.serial
          /\ flow.timeline = u0.timeline /\ flow.search = u0.search
          /\ flow.running = u0.running /\ flow.qRunning = 0
      BY <1>3, <1>11, <1>13
    <2>4. Lane2(u0, flow)
      BY <1>1, <2>3, UiNumbers DEF Lane2
    <2>5. /\ \A d \in Panels(flow) : d \in Panels(u0) \/ ~Shown(d) \/ d = r.res.conv
          /\ \A d \in {flow.archive, flow.timeline, flow.search} :
               d \in Panels(u0) \/ ~Shown(d) \/ d.view = u0.viewEpoch
      BY <1>11, <2>3 DEF Panels
    <2>6. OwnJob(u0, n, r) /\ TicketMatches(u0, r) /\ r.act \in ArchiveReads \cup {"question"}
      BY DEF Applied
    <2>7. Arrives(u0, flow, n)
      BY <1>1, <1>11, <2>1, <2>2, <2>3, <2>4, <2>5, <2>6, InstallOwn
    <2>8. Expire(flow, gone) \in UiType /\ Narrow(flow, Expire(flow, gone))
      BY <1>11, ExpireNarrow
    <2> QED BY <1>1, <1>11, <1>22, <2>7, <2>8, ArrivesNarrow
  <1>23. Arrives(u0, new, n) /\ new \in UiType
    BY <1>4, <1>26, <1>27, <1>18, <1>19, <1>20, <1>21, <1>22
  <1> QED BY <1>23 DEF new

-----------------------------------------------------------------------------
(* The GUI thread *)

LEMMA LaunchArrives ==
    ASSUME NEW u \in UiType, NEW v \in Ui, Coherent(v), NEW n \in Nat, Arrives(u, v, n),
           NEW a \in Actions, NEW sid, Askable(v, a, sid)
    PROVE LET L == Launch(v, a, sid)
          IN  Arrives(u, L.ui, n) /\ \A j \in L.new : OwnTicket(L.ui, j) /\ FreshJob(j)
  <1> DEFINE L == Launch(v, a, sid)
  <1>1. OwnUi(v) /\ v \in UiType
    BY DEF Arrives, Ui
  <1>2. Narrow(v, L.ui) /\ \A j \in L.new : OwnTicket(L.ui, j) /\ FreshJob(j)
    BY <1>1, LaunchOwn
  <1>3. L.ui \in UiType
    BY LaunchStep DEF Launched, Step, Ui
  <1> HIDE DEF L
  <1>4. Arrives(u, L.ui, n)
    BY <1>1, <1>2, <1>3, ArrivesNarrow
  <1> QED BY <1>2, <1>4 DEF L

LEMMA ReconcileArrives ==
    ASSUME NEW u \in UiType, NEW v \in Ui, Coherent(v), NEW n \in Nat, Arrives(u, v, n),
           NEW blocked \in BOOLEAN
    PROVE LET L == Reconcile(v, blocked)
          IN  Arrives(u, L.ui, n) /\ \A j \in L.new : OwnTicket(L.ui, j) /\ FreshJob(j)
  <1> DEFINE w == [v EXCEPT !.reconcile = FALSE]
             L == Reconcile(v, blocked)
  <1>1. w \in Ui /\ SameScreen(v, w) /\ Narrow(v, w) /\ v \in UiType
    BY SlotNarrow DEF Ui, UiType, Lanes, SameScreen
  <1>2. Coherent(w) /\ w \in UiType
    BY <1>1, SameScreenStep DEF Step, Ui
  <1> HIDE DEF w
  <1>3. Arrives(u, w, n)
    BY <1>1, <1>2, ArrivesNarrow
  <1>4. "refresh" \in Actions /\ Askable(w, "refresh", 0)
    BY DEF Actions, CurrentReads, Askable
  <1>5. Reconcile(v, blocked) \in { [ui |-> v, new |-> {}], [ui |-> w, new |-> {}],
                                    Launch(w, "refresh", 0) }
    BY DEF Reconcile, w
  <1>6. LET K == Launch(w, "refresh", 0)
        IN  Arrives(u, K.ui, n) /\ \A j \in K.new : OwnTicket(K.ui, j) /\ FreshJob(j)
    BY <1>1, <1>2, <1>3, <1>4, LaunchArrives
  <1> QED BY <1>3, <1>5, <1>6

\* The invariant after a step, and what the step put on screen.
Screened == ScreenInv' /\ Brings(ui, ui')

LEMMA ScreenFacts ==
    ASSUME SessionInv, ScreenInv
    PROVE /\ ui \in UiType /\ ui \in Ui /\ OwnUi(ui) /\ core.rev \in Nat /\ ui.session.rev <= core.rev
          /\ InFlight \subseteq Jobs /\ Arrives(ui, ui, core.rev) /\ Coherent(ui)
  <1>1. /\ ui \in UiType /\ ui \in Ui /\ OwnUi(ui) /\ core.rev \in Nat /\ ui.session.rev <= core.rev
        /\ Coherent(ui)
    BY BoundsAssumption DEF SessionInv, TypeOK, Ui, ScreenInv, CoreType
  <1>2. InFlight \subseteq Jobs
    BY DEF SessionInv, TypeOK, InFlight
  <1> QED BY <1>1, <1>2, NarrowRefl, NarrowArrives

LEMMA GuiOwn ==
    ASSUME SessionInv, ScreenInv, NEW L, L.ui \in UiType, Arrives(ui, L.ui, core.rev),
           L.new \subseteq Jobs, \A j \in L.new : OwnTicket(L.ui, j) /\ FreshJob(j),
           ui' = L.ui, jobs' = jobs \cup L.new,
           ready' = ready \/ (ready # <<>> /\ ready' = Tail(ready)),
           core'.rev \in Nat, core.rev <= core'.rev
    PROVE Screened
  <1>1. /\ ui \in UiType /\ core.rev \in Nat /\ InFlight \subseteq Jobs
        /\ ui' \in UiType /\ Arrives(ui, ui', core.rev)
    BY ScreenFacts
  <1>2. \A i \in DOMAIN ready' : \E k \in DOMAIN ready : ready'[i] = ready[k]
    <2>1. CASE ready' = ready
      BY <2>1
    <2>2. CASE ready # <<>> /\ ready' = Tail(ready)
      <3>1. ready \in Seq(Jobs)
        BY DEF SessionInv, TypeOK
      <3>2. ASSUME NEW i \in DOMAIN ready'
            PROVE i + 1 \in DOMAIN ready /\ ready'[i] = ready[i + 1]
        BY <2>2, <3>1, <3>2
      <3> QED BY <3>2
    <2> QED BY <2>1, <2>2
  <1>3. \A i \in DOMAIN ready' : ready'[i].step = "done"
    BY <1>2 DEF ScreenInv
  <1>4. ASSUME NEW j \in InFlight' PROVE OwnJob(ui', core'.rev, j)
    <2>1. j \in L.new \/ j \in InFlight
      BY <1>2 DEF InFlight
    <2>2. CASE j \in L.new
      BY <1>1, <2>2, FreshOwn
    <2>3. CASE j \in InFlight
      <3>1. j \in Jobs /\ OwnJob(ui, core.rev, j) /\ Keeps(ui, ui')
        BY <1>1, <2>3 DEF ScreenInv, Arrives
      <3> QED BY <1>1, <3>1, KeepsJob
    <2> QED BY <2>1, <2>2, <2>3
  <1>5. OwnUi(ui') /\ ui'.session.rev <= core'.rev /\ Brings(ui, ui')
    <2>1. ui'.session.rev \in Nat
      BY <1>1 DEF UiType, Content
    <2> QED BY <1>1, <2>1 DEF Arrives
  <1>6. OwnUi(ui)' /\ \A j \in InFlight' : OwnJob(ui, core.rev, j)'
    BY <1>4, <1>5 DEF OwnUi, Unmapped, Panels, Shown, OwnJob, OwnTicket, OwnResult, OwnRev, Unscoped,
                      TicketMatches
  <1> QED BY <1>3, <1>5, <1>6 DEF ScreenInv, Screened

LEMMA ShowOwn ==
    ASSUME SessionInv, ScreenInv, NEW v \in UiType, Narrow(ui, v), Show(v) PROVE Screened
  <1> DEFINE L == [ui |-> v, new |-> {}]
  <1>1. Arrives(ui, v, core.rev) /\ core.rev \in Nat /\ core.rev <= core.rev
    BY ScreenFacts, NarrowArrives
  <1>2. L.ui = v /\ L.new = {} /\ ui' = v /\ jobs' = jobs /\ ready' = ready /\ core' = core
    BY DEF Show
  <1> HIDE DEF L
  <1> QED BY <1>1, <1>2, GuiOwn

LEMMA CallOwn ==
    ASSUME SessionInv, ScreenInv, NEW v \in Ui, Coherent(v), Arrives(ui, v, core.rev),
           NEW a \in Actions, NEW sid, Askable(v, a, sid), Call(Launch(v, a, sid))
    PROVE Screened
  <1> DEFINE L == Launch(v, a, sid)
  <1>1. ui \in UiType /\ core.rev \in Nat /\ core.rev <= core.rev
    BY ScreenFacts
  <1>2. Arrives(ui, L.ui, core.rev) /\ \A j \in L.new : OwnTicket(L.ui, j) /\ FreshJob(j)
    BY <1>1, LaunchArrives
  <1>3. L.ui \in UiType /\ L.new \subseteq Jobs
    BY LaunchStep DEF Launched, Step, Ui
  <1>4. ui' = L.ui /\ jobs' = jobs \cup L.new /\ ready' = ready /\ core' = core
    BY DEF Call
  <1> HIDE DEF L
  <1> QED BY <1>1, <1>2, <1>3, <1>4, GuiOwn

LEMMA ApplyOwn == ASSUME SessionInv, ScreenInv, Apply PROVE Screened
  <1> DEFINE r == Head(ready)
  <1>1. ready # <<>> /\ ready' = Tail(ready) /\ core' = core
    BY DEF Apply
  <1>2. r \in Jobs /\ JobCoherent(ui, r) /\ OwnJob(ui, core.rev, r) /\ r.step = "done"
    <2>1. ready \in Seq(Jobs) /\ 1 \in DOMAIN ready /\ r = ready[1]
      BY <1>1 DEF SessionInv, TypeOK
    <2> QED BY <2>1 DEF SessionInv, ScreenInv, InFlight
  <1>3. /\ ui \in Ui /\ ui \in UiType /\ OwnUi(ui) /\ Coherent(ui) /\ core.rev \in Nat
        /\ core.rev <= core.rev /\ ui.session.rev <= core.rev /\ Arrives(ui, ui, core.rev)
    BY ScreenFacts
  <1>4. CASE ~TicketMatches(ui, r)
    <2> DEFINE L == [ui |-> ui, new |-> {}]
    <2>1. L.ui = ui /\ L.new = {} /\ ui' = ui /\ jobs' = jobs
      BY <1>4 DEF Apply
    <2> HIDE DEF L
    <2> QED BY <1>1, <1>3, <2>1, GuiOwn
  <1>5. CASE TicketMatches(ui, r)
    <2>1. PICK gone \in SUBSET Expirable, blocked \in BOOLEAN :
            Deliver(IF r.act = "question" THEN ApplyQuestion(ui, r, gone)
                                          ELSE ApplyRead(ui, r, gone), blocked)
      BY <1>5 DEF Apply
    <2> DEFINE A == IF r.act = "question" THEN ApplyQuestion(ui, r, gone)
                                          ELSE ApplyRead(ui, r, gone)
               L == IF A.again THEN Reconcile(A.ui, blocked) ELSE [ui |-> A.ui, new |-> {}]
    <2>2. A.ui \in Ui /\ Coherent(A.ui)
      BY <1>2, <1>3, ApplyQuestionStep, ApplyReadStep DEF Step
    <2>3. Applied(ui, core.rev, r)
      BY <1>2, <1>5 DEF Applied
    <2>4. Arrives(ui, A.ui, core.rev)
      BY <1>3, <2>3, ApplyQuestionOwn, ApplyReadOwn
    <2>5. ui' = L.ui /\ jobs' = jobs \cup L.new
      BY <2>1 DEF Deliver
    <2> HIDE DEF A
    <2>6. LET R == Reconcile(A.ui, blocked)
          IN  /\ Arrives(ui, R.ui, core.rev) /\ \A j \in R.new : OwnTicket(R.ui, j) /\ FreshJob(j)
              /\ R.ui \in UiType /\ R.new \subseteq Jobs
      BY <1>3, <2>2, <2>4, ReconcileArrives, ReconcileStep DEF Launched, Step, Ui
    <2>7. /\ Arrives(ui, L.ui, core.rev) /\ \A j \in L.new : OwnTicket(L.ui, j) /\ FreshJob(j)
          /\ L.ui \in UiType /\ L.new \subseteq Jobs
      BY <2>2, <2>4, <2>6 DEF Ui
    <2> HIDE DEF L
    <2> QED BY <1>1, <1>3, <2>5, <2>7, GuiOwn
  <1> QED BY <1>4, <1>5

\* The configuration changes, and the device is not unmapped by it.
LEMMA ConfigOwn ==
    ASSUME NEW u \in UiType, OwnUi(u), NEW n \in Nat, u.session.rev <= n,
           NEW c \in Configs, Unmapped([u EXCEPT !.cfg = c]) => Unmapped(u)
    PROVE Arrives(u, [u EXCEPT !.cfg = c], n)
  <1> DEFINE v == [u EXCEPT !.cfg = c]
  <1>1. /\ v.scope = u.scope /\ v.ownerEpoch = u.ownerEpoch /\ v.serial = u.serial
        /\ v.running = u.running /\ v.qRunning = u.qRunning /\ v.session = u.session
        /\ v.conv = u.conv /\ v.archive = u.archive /\ v.timeline = u.timeline
        /\ v.search = u.search
    BY DEF UiType
  <1>2. Unmapped(v) => Unmapped(u)
    OBVIOUS
  <1> HIDE DEF v
  <1>3. Panels(v) = Panels(u)
    BY <1>1 DEF Panels
  <1>4. Lane2(u, v) /\ u.session.rev \in Nat
    BY <1>1, UiNumbers DEF Lane2, UiType, Content
  <1>5. OwnUi(v)
    BY <1>1, <1>2, <1>3 DEF OwnUi
  <1>6. Keeps(u, v)
    BY <1>1, <1>2, <1>4 DEF Keeps
  <1>7. Brings(u, v)
    BY <1>1, <1>3, <1>4 DEF Brings, Panels
  <1> QED BY <1>1, <1>5, <1>6, <1>7 DEF Arrives, v

\* A slot that only takes from the screen, and one that then launches.
LEMMA TakesOwn ==
    ASSUME SessionInv, ScreenInv, NEW v, Step(ui, v), Narrow(ui, v)
    PROVE /\ Show(v) => Screened
          /\ \A a \in Actions : \A sid : Askable(v, a, sid) /\ Call(Launch(v, a, sid)) => Screened
  <1>1. v \in Ui /\ v \in UiType /\ Coherent(v)
    BY DEF Step, Ui
  <1>2. Arrives(ui, v, core.rev)
    BY <1>1, ScreenFacts, NarrowArrives
  <1>3. Show(v) => Screened
    BY <1>1, ShowOwn
  <1>4. ASSUME NEW a \in Actions, NEW sid, Askable(v, a, sid), Call(Launch(v, a, sid)) PROVE Screened
    BY <1>1, <1>2, <1>4, CallOwn
  <1> QED BY <1>3, <1>4

LEMMA SlotOwn == ASSUME SessionInv, ScreenInv, Slot PROVE Screened
  <1>1. ui \in Ui /\ ui \in UiType /\ Coherent(ui) /\ Step(ui, ui) /\ Narrow(ui, ui)
    BY ScreenFacts, LaterRefl, NarrowRefl DEF Step
  <1>2. /\ ui.session.sid \in Nat /\ ui.timeline.sid \in Nat /\ ui.search.sid \in Nat
        /\ ui.viewEpoch + 1 \in Nat /\ ui.cfg \in Configs /\ ui.foreground \in BOOLEAN
    BY <1>1 DEF UiType, Content
  <1>3. CASE Refresh
    BY <1>1, <1>3, TakesOwn, ActionNames DEF Refresh, Askable, CurrentReads
  <1>4. CASE Start
    BY <1>1, <1>4, TakesOwn, ActionNames DEF Start, Askable, CurrentReads, LifecycleWrites
  <1>5. CASE End
    BY <1>1, <1>2, <1>5, TakesOwn, ActionNames DEF End, Askable, CurrentReads, LifecycleWrites
  <1>6. CASE SendQuestion
    <2>1. CASE SelectionValid(ui)
      BY <1>1, <1>2, <1>6, <2>1, TakesOwn, ActionNames DEF SendQuestion, Askable, ComposerSupported
    <2>2. CASE ~SelectionValid(ui)
      BY <1>1, <1>6, <2>2, TakesOwn, SlotUpdates, SlotNarrow, Values DEF SendQuestion
    <2> QED BY <2>1, <2>2
  <1>7. ASSUME NEW a \in HistoryReads, LoadHistory(a) PROVE Screened
    BY <1>1, <1>7, TakesOwn, ActionNames DEF LoadHistory, Askable, ArchiveReads
  <1>8. ASSUME NEW a \in TimelineReads \cup SearchReads, NEW sid \in 1..MaxRev, OpenView(a, sid)
        PROVE Screened
    <2>1. a \in Actions /\ a # "question"
      BY ActionNames DEF ArchiveReads
    <2>2. Askable(NewView(a), a, sid)
      BY <2>1, BoundsAssumption DEF Askable
    <2>3. Step(ui, NewView(a)) /\ Narrow(ui, NewView(a))
      BY <1>1, <1>2, SlotUpdates, SlotNarrow DEF NewView
    <2> QED BY <1>8, <2>1, <2>2, <2>3, TakesOwn DEF OpenView
  <1>9. ASSUME NEW a \in TimelineReads \cup SearchReads, PageTimeline(a) \/ PageSearch(a)
        PROVE Screened
    <2>1. a \in Actions /\ a # "question"
      BY ActionNames DEF ArchiveReads
    <2>2. Askable(ui, a, ui.timeline.sid) /\ Askable(ui, a, ui.search.sid)
      BY <1>2, <2>1 DEF Askable
    <2> QED BY <1>1, <1>9, <2>1, <2>2, TakesOwn DEF PageTimeline, PageSearch
  <1>10. CASE CloseSaved \/ ClearSearch
    BY <1>1, <1>2, <1>10, TakesOwn, SlotUpdates, SlotNarrow DEF CloseSaved, ClearSearch
  <1>11. CASE CloseArchive
    BY <1>1, <1>11, TakesOwn, ClearArchiveStep, ClearHistoryNarrow DEF CloseArchive
  <1>12. ASSUME NEW sel \in Selections, Select(sel) PROVE Screened
    <2> DEFINE x == [ui EXCEPT !.selection = sel]
               y == [x EXCEPT !.selection = NoSelection]
    <2>1. sel \in Selected
      BY <1>2, Values DEF Selections, Selected, Sources
    <2>2. Step(ui, x) /\ Narrow(ui, x)
      BY <1>1, <2>1, SlotUpdates, SlotNarrow
    <2>3. x \in Ui /\ x \in UiType /\ Coherent(x)
      BY <2>2 DEF Step, Ui
    <2>4. Show(x) \/ Show(y)
      BY <1>12 DEF Select
    <2> HIDE DEF x
    <2>5. Step(x, y) /\ Narrow(x, y)
      BY <2>3, SlotUpdates, SlotNarrow, Values
    <2> HIDE DEF y
    <2>6. y \in UiType
      BY <2>5 DEF Step, Ui
    <2>7. Step(ui, y) /\ Narrow(ui, y)
      BY <1>1, <2>2, <2>3, <2>5, <2>6, StepTrans, NarrowTrans
    <2> QED BY <2>2, <2>4, <2>7, TakesOwn
  <1>13. CASE SetForeground
    <2> DEFINE i == Invalidate(ui)
               v == [i EXCEPT !.foreground = ~ui.foreground]
    <2>1. Step(ui, i) /\ Narrow(ui, i)
      BY <1>1, InvalidateStep, InvalidateNarrow DEF Step
    <2>2. i \in Ui /\ i \in UiType /\ Coherent(i)
      BY <2>1 DEF Step, Ui
    <2>3. Call(Launch(v, "refresh", 0)) \/ Show(v)
      BY <1>13 DEF SetForeground
    <2> HIDE DEF i
    <2>4. Step(i, v) /\ Narrow(i, v)
      BY <1>2, <2>2, SlotUpdates, SlotNarrow
    <2> HIDE DEF v
    <2>5. v \in UiType
      BY <2>4 DEF Step, Ui
    <2>6. Step(ui, v) /\ Narrow(ui, v)
      BY <1>1, <2>1, <2>2, <2>4, <2>5, StepTrans, NarrowTrans
    <2>7. Askable(v, "refresh", 0) /\ "refresh" \in Actions
      BY ActionNames DEF Askable, CurrentReads
    <2> QED BY <2>3, <2>6, <2>7, TakesOwn
  <1>14. CASE ConfirmProfile
    <2> DEFINE c == [ui.cfg EXCEPT !.explicit = ui.cfg.active]
               v == [ui EXCEPT !.cfg = c]
    <2>1. c \in Configs /\ c.active # NoProfile
      BY <1>2, <1>14 DEF Configs, ConfirmProfile
    <2>2. Call(Launch(Invalidate(v), "refresh", 0))
      BY <1>14 DEF ConfirmProfile
    <2> HIDE DEF c
    <2>3. Step(ui, v) /\ v.cfg = c
      BY <1>1, <2>1, SlotUpdates DEF UiType
    <2>4. ~Unmapped(v)
      BY <2>1, <2>3 DEF Unmapped
    <2>5. Arrives(ui, v, core.rev)
      BY <1>1, <2>1, <2>4, ConfigOwn, ScreenFacts
    <2> HIDE DEF v
    <2>6. v \in Ui /\ v \in UiType
      BY <2>3 DEF Step, Ui
    <2>7. Invalidate(v) \in Ui /\ Invalidate(v) \in UiType /\ Coherent(Invalidate(v))
          /\ Narrow(v, Invalidate(v))
      BY <2>6, InvalidateStep, InvalidateNarrow DEF Ui
    <2>8. Arrives(ui, Invalidate(v), core.rev)
      BY <1>1, <2>5, <2>6, <2>7, ArrivesNarrow, ScreenFacts
    <2>9. Askable(Invalidate(v), "refresh", 0) /\ "refresh" \in Actions
      BY ActionNames DEF Askable, CurrentReads
    <2> QED BY <2>2, <2>7, <2>8, <2>9, CallOwn
  <1>15. CASE Tick
    BY <1>1, <1>15, TakesOwn, ExpireStep, ExpireNarrow DEF Tick
  <1>16. CASE ReadState
    BY <1>1, <1>16, TakesOwn, ReadStep, ReadNarrow DEF ReadState
  <1> QED BY <1>3, <1>4, <1>5, <1>6, <1>7, <1>8, <1>9, <1>10, <1>11, <1>12, <1>13, <1>14, <1>15, <1>16
          DEF Slot

LEMMA EnvironmentOwn == ASSUME SessionInv, ScreenInv, Environment PROVE Screened
  <1>1. /\ ui \in Ui /\ ui \in UiType /\ OwnUi(ui) /\ core \in CoreType /\ core.rev \in Nat
        /\ ui.session.rev <= core.rev /\ core.rev <= core.rev /\ Arrives(ui, ui, core.rev)
    BY ScreenFacts DEF SessionInv, TypeOK
  <1>2. ui.cfg \in Configs /\ core.mapped \in Profiles /\ core.mapped \in Owners
    BY <1>1 DEF UiType, CoreType, Owners
  <1>3. ASSUME NEW v \in UiType, Arrives(ui, v, core.rev), ui' = v, jobs' = jobs, ready' = ready,
               core'.rev \in Nat, core.rev <= core'.rev
        PROVE Screened
    <2> DEFINE L == [ui |-> v, new |-> {}]
    <2>1. L.ui = v /\ L.new = {}
      OBVIOUS
    <2> HIDE DEF L
    <2> QED BY <1>3, <2>1, GuiOwn
  <1>4. ASSUME NEW c \in Configs, Unmapped([ui EXCEPT !.cfg = c]) => Unmapped(ui),
               ui' = [ui EXCEPT !.cfg = c], Elsewhere
        PROVE Screened
    <2>1. [ui EXCEPT !.cfg = c] \in UiType
      BY <1>1 DEF UiType
    <2>2. Arrives(ui, [ui EXCEPT !.cfg = c], core.rev)
      BY <1>1, <1>4, ConfigOwn
    <2> QED BY <1>1, <1>3, <1>4, <2>1, <2>2 DEF Elsewhere
  <1>5. CASE ResolveProfile
    <2> DEFINE c == [ui.cfg EXCEPT !.active = core.mapped]
    <2>1. c \in Configs /\ c.active # NoProfile
      BY <1>2, ProfilesAssumption DEF Configs
    <2>2. ui' = [ui EXCEPT !.cfg = c]
      BY <1>5 DEF ResolveProfile
    <2> HIDE DEF c
    <2>3. ~Unmapped([ui EXCEPT !.cfg = c])
      BY <1>1, <2>1 DEF Unmapped, UiType
    <2> QED BY <1>4, <1>5, <2>1, <2>2, <2>3 DEF ResolveProfile
  <1>6. ASSUME NEW t \in Tokens \cup {NoToken}, SyncConfig(t) PROVE Screened
    <2> DEFINE c == [ui.cfg EXCEPT !.token = t]
    <2>1. c \in Configs /\ c.active = ui.cfg.active /\ c.explicit = ui.cfg.explicit
      BY <1>2 DEF Configs
    <2>2. ui' = [ui EXCEPT !.cfg = c]
      BY <1>6 DEF SyncConfig
    <2> HIDE DEF c
    <2>3. Unmapped([ui EXCEPT !.cfg = c]) => Unmapped(ui)
      BY <1>1, <2>1 DEF Unmapped, UiType
    <2> QED BY <1>4, <1>6, <2>1, <2>2, <2>3 DEF SyncConfig
  <1>7. CASE ForgetPairing
    <2> DEFINE c == [token |-> NoToken, active |-> NoProfile, explicit |-> NoProfile]
               v == [ui EXCEPT !.cfg = c]
    <2>1. c \in Configs
      BY DEF Configs, Owners
    <2>2. ui' = Invalidate(v) /\ Elsewhere
      BY <1>7 DEF ForgetPairing
    <2> HIDE DEF c
    <2>3. v \in Ui /\ v \in UiType /\ v.serial = ui.serial
      BY <1>1, <2>1 DEF Ui, UiType, Lanes
    <2> HIDE DEF v
    <2>4. /\ Invalidate(v) \in UiType /\ Narrow(v, Invalidate(v)) /\ Empty(Invalidate(v))
          /\ Invalidate(v).scope = NoScope /\ Invalidate(v).running = 0 /\ Invalidate(v).qRunning = 0
      BY <2>3, InvalidateStep, InvalidateNarrow DEF Ui
    <2> DEFINE i == Invalidate(v)
    <2> HIDE DEF i
    <2>5. /\ i \in UiType /\ ui.serial <= i.serial /\ Empty(i) /\ i.scope = NoScope
          /\ i.running = 0 /\ i.qRunning = 0
      BY <2>3, <2>4 DEF i, Narrow, Lane2
    <2>6. ~Shown(i.scope) /\ \A d \in Panels(i) : ~Shown(d)
      BY <2>5, Values DEF NoScope, Shown, Empty, Panels
    <2>7. Nothing.rev = 0 /\ i.session = Nothing
      BY <2>5 DEF Nothing, Empty
    <2>8. Keeps(ui, i)
      BY <1>1, <2>5, <2>6, <2>7, UiNumbers DEF Keeps, Lane2, Vacant
    <2>9. Brings(ui, i)
      BY <2>6 DEF Brings, Panels
    <2>10. OwnUi(i)
      BY <2>6 DEF OwnUi
    <2>11. Arrives(ui, i, core.rev)
      BY <1>1, <2>7, <2>8, <2>9, <2>10 DEF Arrives
    <2> QED BY <1>1, <1>3, <2>2, <2>5, <2>11 DEF Elsewhere, i
  <1>8. ASSUME NEW p \in Profiles, Remap(p) PROVE Screened
    <2>1. core'.rev = core.rev
      BY <1>1, <1>8 DEF Remap, CoreType
    <2> QED BY <1>1, <1>3, <1>8, <2>1 DEF Remap
  <1>9. ASSUME NEW p \in Profiles, Other(p) PROVE Screened
    <2>1. core'.rev = core.rev + 1
      BY <1>1, <1>9 DEF Other, CoreType
    <2> QED BY <1>1, <1>3, <1>9, <2>1 DEF Other
  <1> QED BY <1>5, <1>6, <1>7, <1>8, <1>9 DEF Environment

-----------------------------------------------------------------------------
(* Workers: what a read brings back is the Profile's it asked for *)

LEMMA StayOwn == ASSUME NEW u \in UiType PROVE Brings(u, u)
  <1>1. u.session.rev \in Nat
    BY DEF UiType, Content
  <1> QED BY <1>1 DEF Brings, Panels

\* Core's clock does not run backwards.
Newer == core'.rev \in Nat /\ core.rev <= core'.rev

LEMMA ProgressOwn ==
    ASSUME SessionInv, ScreenInv, NEW j \in jobs, NEW step \in Steps, NEW res \in Results,
           Advance(j, step, res) \/ (step = "done" /\ Post(j, res)), ui' = ui, Newer,
           OwnResult(j, step, res), res.session.rev <= core'.rev,
           j.act # "question" /\ TicketMatches(ui, j) /\ Shown(res.session) =>
             ui.session.rev <= res.session.rev
    PROVE Screened
  <1> DEFINE k == [j EXCEPT !.step = step, !.res = res]
  <1>1. /\ j \in InFlight /\ j \in Jobs /\ ready \in Seq(Jobs) /\ InFlight \subseteq Jobs
        /\ OwnJob(ui, core.rev, j) /\ OwnUi(ui) /\ ui.session.rev <= core.rev
        /\ \A i \in DOMAIN ready : ready[i].step = "done"
    BY DEF SessionInv, TypeOK, ScreenInv, InFlight
  <1>2. /\ k \in Jobs /\ k.act = j.act /\ k.serial = j.serial /\ k.boot = j.boot /\ k.raw = j.raw
        /\ k.binding = j.binding /\ k.view = j.view /\ k.res = res /\ k.step = step
    BY <1>1 DEF Jobs
  <1>3. \/ jobs' = (jobs \ {j}) \cup {k} /\ ready' = ready
        \/ jobs' = jobs \ {j} /\ ready' = Append(ready, k) /\ step = "done"
    BY DEF Advance, Post
  <1> HIDE DEF k
  <1>4. OwnJob(ui, core'.rev, k)
    <2>1. OwnTicket(ui, k)
      BY <1>1, <1>2 DEF OwnJob, OwnTicket, Unscoped, TicketMatches
    <2>2. OwnResult(k, k.step, k.res)
      BY <1>2 DEF OwnResult
    <2>3. OwnRev(ui, core'.rev, k)
      BY <1>2 DEF OwnRev, TicketMatches
    <2> QED BY <2>1, <2>2, <2>3 DEF OwnJob
  <1>5. ASSUME NEW i \in DOMAIN ready'
        PROVE (ready'[i] = k /\ step = "done") \/ (i \in DOMAIN ready /\ ready'[i] = ready[i])
    BY <1>1, <1>2, <1>3, <1>5
  <1>6. ASSUME NEW x \in InFlight' PROVE OwnJob(ui, core'.rev, x)
    <2>1. x = k \/ x \in InFlight
      BY <1>3, <1>5 DEF InFlight
    <2>2. ui \in UiType /\ core.rev \in Nat /\ Keeps(ui, ui)
      BY ScreenFacts DEF Arrives
    <2>3. CASE x \in InFlight
      BY <1>1, <2>2, <2>3, KeepsJob DEF ScreenInv, Newer
    <2> QED BY <1>4, <2>1, <2>3
  <1>7. \A i \in DOMAIN ready' : ready'[i].step = "done"
    BY <1>1, <1>2, <1>5
  <1>8. ui'.session.rev <= core'.rev
    <2>1. ui.session.rev \in Nat /\ core.rev \in Nat
      BY ScreenFacts DEF UiType, Content
    <2> QED BY <1>1, <2>1 DEF Newer
  <1>9. OwnUi(ui)' /\ \A x \in InFlight' : OwnJob(ui, core.rev, x)'
    BY <1>1, <1>6 DEF OwnUi, Unmapped, Panels, Shown, OwnJob, OwnTicket, OwnResult, OwnRev, Unscoped,
                      TicketMatches
  <1>10. Brings(ui, ui')
    BY ScreenFacts, StayOwn
  <1> QED BY <1>7, <1>8, <1>9, <1>10 DEF ScreenInv, Screened

\* What is known of the job of a worker step.
LEMMA JobOwn ==
    ASSUME SessionInv, ScreenInv, NEW j \in jobs
    PROVE /\ OwnTicket(ui, j) /\ OwnResult(j, j.step, j.res) /\ OwnRev(ui, core.rev, j)
          /\ core.rev \in Nat /\ j.res.session.rev \in Nat /\ ui.session.rev <= core.rev
          /\ core.mapped \in Profiles /\ core.mapped # NoProfile
  <1>1. j \in InFlight
    BY DEF InFlight
  <1>2. core.mapped \in Profiles
    BY JobFacts DEF CoreType
  <1>3. j.res.session.rev \in Nat
    BY JobFacts DEF Results, Content
  <1> QED BY <1>1, <1>2, <1>3, ScreenFacts, ProfilesAssumption DEF ScreenInv, OwnJob

\* A step that leaves the Session of the result alone.
LEMMA KeepOwn ==
    ASSUME SessionInv, ScreenInv, NEW j \in jobs, NEW step \in Steps, NEW res \in Results,
           Advance(j, step, res) \/ (step = "done" /\ Post(j, res)), ui' = ui, Newer,
           res.session = j.res.session, OwnResult(j, step, res)
    PROVE Screened
  <1>1. res.session.rev <= core'.rev
    BY JobOwn DEF OwnRev, Newer
  <1>2. j.act # "question" /\ TicketMatches(ui, j) /\ Shown(res.session) =>
          ui.session.rev <= res.session.rev
    BY JobOwn DEF OwnRev
  <1> QED BY <1>1, <1>2, ProgressOwn

LEMMA FailOwn ==
    ASSUME SessionInv, ScreenInv, NEW j \in jobs, j.step # "done", NEW e \in Errors, e # "none",
           Fail(j, e), ui' = ui, Newer
    PROVE Screened
  <1> DEFINE res == [j.res EXCEPT !.error = e]
  <1>1. j.res \in Results /\ ~Shown(j.res.conv)
    BY JobFacts
  <1>2. /\ res \in Results /\ res.session = j.res.session /\ res.conv = j.res.conv /\ res.error = e
        /\ res.panel = j.res.panel /\ res.owner = j.res.owner /\ res.private = j.res.private
    BY <1>1 DEF Results
  <1>3. Post(j, res)
    BY DEF Fail
  <1> HIDE DEF res
  <1>4. OwnResult(j, j.step, j.res)
    BY JobOwn
  <1>5. OwnResult(j, "done", res)
    BY <1>1, <1>2, <1>4 DEF OwnResult
  <1> QED BY <1>2, <1>3, <1>5, KeepOwn DEF Steps

LEMMA CoreStays == ASSUME SessionInv, ScreenInv, core' = core PROVE Newer
  BY ScreenFacts DEF Newer

LEMMA WriteOwn == ASSUME SessionInv, ScreenInv, NEW j \in jobs, Write(j), ui' = ui PROVE Screened
  <1>1. core \in CoreType /\ j.res \in Results /\ ~Shown(j.res.conv) /\ j.step = "write" /\ core.rev \in Nat
    BY JobFacts, ScreenFacts DEF Write
  <1>2. Commit(j) => Newer
    <2>1. Commit(j) => core'.rev = core.rev + 1
      BY <1>1 DEF Commit, CoreType
    <2> QED BY <1>1, <2>1 DEF Newer
  <1>3. UNCHANGED core => Newer
    BY CoreStays
  <1>4. \A e \in Faults \cup {"context_changed", "uncertain"} : e \in Errors /\ e # "none"
    BY AnswersAssumption DEF Errors
  <1>5. ASSUME NEW e \in Faults \cup {"context_changed", "uncertain"}, Fail(j, e), Newer PROVE Screened
    BY <1>1, <1>4, <1>5, FailOwn
  <1>6. CASE Commit(j) /\ Advance(j, "active", [j.res EXCEPT !.accepted = TRUE])
    <2> DEFINE res == [j.res EXCEPT !.accepted = TRUE]
    <2>1. /\ res \in Results /\ res.session = j.res.session /\ res.conv = j.res.conv
          /\ res.error = j.res.error /\ res.panel = j.res.panel /\ res.owner = j.res.owner
          /\ res.private = j.res.private
      BY <1>1 DEF Results
    <2>2. Advance(j, "active", res)
      BY <1>6
    <2> HIDE DEF res
    <2>3. OwnResult(j, "active", res)
      BY <1>1, <2>1, JobOwn DEF OwnResult
    <2> QED BY <1>2, <1>6, <2>1, <2>2, <2>3, KeepOwn DEF Steps
  <1> QED BY <1>2, <1>3, <1>5, <1>6 DEF Write

LEMMA ReadActiveOwn ==
    ASSUME SessionInv, ScreenInv, NEW j \in jobs, ReadActive(j), ui' = ui PROVE Screened
  <1> DEFINE res == [j.res EXCEPT !.session = ActiveSession]
             rep == [res EXCEPT !.reply = TRUE]
             nextStep == IF j.boot THEN "private" ELSE "caps"
  <1>1. /\ Newer /\ j.res \in Results /\ j.step = "active" /\ ~Shown(j.res.conv)
        /\ ActiveSession \in Content /\ core' = core
    BY JobFacts, ActiveSessionType, CoreStays DEF ReadActive
  <1>2. /\ res \in Results /\ res.session = ActiveSession /\ res.conv = j.res.conv
        /\ res.error = j.res.error /\ res.panel = j.res.panel /\ res.owner = j.res.owner
        /\ res.private = j.res.private
    BY <1>1 DEF Results
  <1> HIDE DEF res
  <1>3. /\ rep \in Results /\ rep.session = ActiveSession /\ rep.conv = j.res.conv
        /\ rep.error = j.res.error /\ rep.panel = j.res.panel /\ rep.owner = j.res.owner
        /\ rep.private = j.res.private
    BY <1>2 DEF Results
  <1> HIDE DEF rep
  <1>4. \/ \E e \in Faults \cup {"context_changed", "unavailable"} : Fail(j, e)
        \/ (Admits(j) \/ j.boot) /\ j.act # "question" /\ Advance(j, nextStep, res)
        \/ (Admits(j) \/ j.boot) /\ j.act = "question" /\ (Advance(j, "conv", res) \/ Post(j, rep))
    BY DEF ReadActive, res, rep
  <1>5. nextStep \in Steps /\ "conv" \in Steps /\ "done" \in Steps
    BY DEF Steps
  <1>6. CASE \E e \in Faults \cup {"context_changed", "unavailable"} : Fail(j, e)
    <2>1. \A e \in Faults \cup {"context_changed", "unavailable"} : e \in Errors /\ e # "none"
      BY AnswersAssumption DEF Errors
    <2> QED BY <1>1, <1>6, <2>1, FailOwn
  <1>7. /\ ActiveSession.rev <= core'.rev
        /\ Shown(ActiveSession) => /\ ui.session.rev <= ActiveSession.rev
                                   /\ ActiveSession.owner = core.mapped
    BY <1>1, JobOwn, Values DEF ActiveSession, Nothing
  <1>8. ~j.boot /\ (Admits(j) \/ j.boot) => j.binding.profile = core.mapped
    BY JobOwn DEF Admits, OwnTicket
  <1>9. j.boot => j.act = "refresh"
    BY JobOwn DEF OwnTicket
  <1>10. OwnResult(j, "active", j.res)
    BY <1>1, JobOwn
  <1>11. CASE (Admits(j) \/ j.boot) /\ j.act # "question" /\ Advance(j, nextStep, res)
    <2>1. OwnResult(j, nextStep, res)
      BY <1>1, <1>2, <1>7, <1>8, <1>10, <1>11 DEF OwnResult
    <2> HIDE DEF nextStep
    <2> QED BY <1>1, <1>2, <1>5, <1>7, <1>11, <2>1, ProgressOwn
  <1>12. CASE (Admits(j) \/ j.boot) /\ j.act = "question" /\ (Advance(j, "conv", res) \/ Post(j, rep))
    <2>1. OwnResult(j, "conv", res) /\ OwnResult(j, "done", rep)
      BY <1>1, <1>2, <1>3, <1>7, <1>8, <1>9, <1>10, <1>12 DEF OwnResult
    <2> QED BY <1>1, <1>2, <1>3, <1>5, <1>7, <1>12, <2>1, ProgressOwn
  <1> QED BY <1>4, <1>6, <1>11, <1>12

LEMMA ProbeOwn == ASSUME SessionInv, ScreenInv, NEW j \in jobs, Probe(j), ui' = ui PROVE Screened
  <1>1. Newer /\ j.res \in Results /\ j.step = "private" /\ ~Shown(j.res.conv)
    BY JobFacts, CoreStays DEF Probe
  <1>2. OwnResult(j, "private", j.res) /\ OwnTicket(ui, j)
    BY <1>1, JobOwn
  <1>3. CASE \E e \in Faults \cup {"context_changed", "unavailable", "profile_required"} : Fail(j, e)
    <2>1. \A e \in Faults \cup {"context_changed", "unavailable", "profile_required"} :
            e \in Errors /\ e # "none"
      BY AnswersAssumption DEF Errors
    <2> QED BY <1>1, <1>3, <2>1, FailOwn
  <1>4. ASSUME NEW personal \in BOOLEAN, NEW owner \in Owners, owner # NoProfile,
               personal => /\ Admits(j) /\ owner = core.mapped
                           /\ Shown(j.res.session) => j.res.session.owner = core.mapped,
               ~personal => owner = j.res.session.owner,
               Advance(j, "caps", [j.res EXCEPT !.owner = owner, !.private = personal])
        PROVE Screened
    <2> DEFINE res == [j.res EXCEPT !.owner = owner, !.private = personal]
    <2>1. /\ res \in Results /\ res.session = j.res.session /\ res.conv = j.res.conv
          /\ res.panel = j.res.panel
      BY <1>1 DEF Results
    <2>2. res.owner = owner /\ res.private = personal
      BY <1>1 DEF Results
    <2>3. Advance(j, "caps", res)
      BY <1>4
    <2> HIDE DEF res
    <2>4. OwnResult(j, "caps", res)
      <3>1. personal /\ j.binding.private => j.binding.profile = owner
        BY <1>2, <1>4 DEF OwnTicket, Admits
      <3>2. Shown(res.session) => res.owner \in {NoProfile, res.session.owner}
        BY <1>4, <2>1, <2>2
      <3> QED BY <1>1, <1>2, <1>4, <2>1, <2>2, <3>1, <3>2 DEF OwnResult
    <2> QED BY <1>1, <2>1, <2>3, <2>4, KeepOwn DEF Steps
  <1>5. core.mapped \in Owners /\ j.res.session.owner \in Owners /\ core.mapped # NoProfile
    BY <1>1, JobOwn DEF Owners, Results, Content
  <1>6. \/ \E e \in Faults \cup {"context_changed", "unavailable", "profile_required"} : Fail(j, e)
        \/ \E personal \in BOOLEAN, owner \in Owners :
             /\ owner # NoProfile
             /\ personal => /\ Admits(j) /\ owner = core.mapped
                            /\ Shown(j.res.session) => j.res.session.owner = core.mapped
             /\ ~personal => owner = j.res.session.owner
             /\ Advance(j, "caps", [j.res EXCEPT !.owner = owner, !.private = personal])
    <2> DEFINE personal == Admits(j) /\ core.mapped \in Personal
               owner == IF personal THEN core.mapped ELSE j.res.session.owner
    <2>1. personal \in BOOLEAN /\ owner \in Owners
      BY <1>5
    <2>2. /\ personal => Admits(j) /\ owner = core.mapped
          /\ ~personal => owner = j.res.session.owner
      OBVIOUS
    <2>3. \/ \E e \in Faults \cup {"context_changed", "unavailable", "profile_required"} : Fail(j, e)
          \/ /\ owner # NoProfile /\ ~Clash(j, personal)
             /\ Advance(j, "caps", [j.res EXCEPT !.owner = owner, !.private = personal])
      BY DEF Probe
    <2> HIDE DEF personal, owner
    <2>4. ~Clash(j, personal) => (personal /\ Shown(j.res.session) => j.res.session.owner = core.mapped)
      BY DEF Clash
    <2> QED BY <2>1, <2>2, <2>3, <2>4
  <1> QED BY <1>3, <1>4, <1>6

LEMMA ReadCapsOwn == ASSUME SessionInv, ScreenInv, NEW j \in jobs, ReadCaps(j), ui' = ui PROVE Screened
  <1>1. Newer /\ j.res \in Results /\ j.step = "caps" /\ ~Shown(j.res.conv)
    BY JobFacts, CoreStays DEF ReadCaps
  <1>2. OwnResult(j, "caps", j.res)
    BY <1>1, JobOwn
  <1>3. CASE \E e \in {"context_changed", "denied"} : Fail(j, e)
    BY <1>1, <1>3, FailOwn DEF Errors
  <1>4. OwnResult(j, "done", j.res)
    BY <1>1, <1>2 DEF OwnResult
  <1>5. CASE Post(j, j.res)
    BY <1>1, <1>4, <1>5, KeepOwn DEF Steps
  <1>6. ASSUME NEW caps \in CapsAnswers,
               \/ WantsFlow(j, caps) /\ Advance(j, "conv", [j.res EXCEPT !.caps = caps])
               \/ Post(j, [j.res EXCEPT !.caps = caps])
        PROVE Screened
    <2> DEFINE res == [j.res EXCEPT !.caps = caps]
    <2>1. /\ res \in Results /\ res.session = j.res.session /\ res.conv = j.res.conv
          /\ res.error = j.res.error /\ res.panel = j.res.panel /\ res.owner = j.res.owner
          /\ res.private = j.res.private
      BY <1>1, AnswersAssumption DEF Results
    <2>2. (WantsFlow(j, caps) /\ Advance(j, "conv", res)) \/ Post(j, res)
      BY <1>6
    <2> HIDE DEF res
    <2>3. OwnResult(j, "done", res)
      BY <2>1, <1>4 DEF OwnResult
    <2>4. WantsFlow(j, caps) => OwnResult(j, "conv", res)
      BY <2>1, <1>1, <1>2 DEF OwnResult, WantsFlow
    <2> QED BY <1>1, <2>1, <2>2, <2>3, <2>4, KeepOwn DEF Steps
  <1> QED BY <1>3, <1>5, <1>6 DEF ReadCaps

LEMMA ReadFlowOwn == ASSUME SessionInv, ScreenInv, NEW j \in jobs, ReadFlow(j), ui' = ui PROVE Screened
  <1> DEFINE c == [owner |-> core.mapped, sid |-> j.res.session.sid, rev |-> core.rev, view |-> 0]
             res == [j.res EXCEPT !.conv = c]
  <1>1. /\ Newer /\ j.res \in Results /\ j.step = "conv" /\ ~Shown(j.res.conv) /\ core \in CoreType
        /\ j.res.session \in Content
    BY JobFacts, CoreStays DEF ReadFlow, Results
  <1>2. OwnResult(j, "conv", j.res) /\ OwnTicket(ui, j)
    BY <1>1, JobOwn
  <1>3. CASE \E e \in {"context_changed", "denied", "unavailable"} : Fail(j, e)
    BY <1>1, <1>3, FailOwn DEF Errors
  <1>4. CASE Post(j, j.res)
    <2>1. OwnResult(j, "done", j.res)
      BY <1>1, <1>2 DEF OwnResult
    <2> QED BY <1>1, <1>4, <2>1, KeepOwn DEF Steps
  <1>5. CASE Admits(j) /\ Post(j, res)
    <2>1. c \in Content /\ c.owner = core.mapped
      BY <1>1, BoundsAssumption DEF CoreType, Content, Owners
    <2> HIDE DEF c
    <2>2. /\ res \in Results /\ res.session = j.res.session /\ res.conv = c
          /\ res.error = j.res.error /\ res.panel = j.res.panel /\ res.owner = j.res.owner
          /\ res.private = j.res.private
      BY <1>1, <2>1 DEF Results
    <2> HIDE DEF res
    <2>3. j.boot => j.res.private /\ j.binding.private /\ j.binding.profile = j.res.owner
      BY <1>2 DEF OwnResult
    <2>4. j.binding.profile = core.mapped
      BY <1>2, <1>5, <2>3 DEF Admits, OwnTicket
    <2>5. OwnResult(j, "done", res)
      BY <1>1, <1>2, <2>1, <2>2, <2>3, <2>4 DEF OwnResult
    <2> QED BY <1>1, <1>5, <2>2, <2>5, KeepOwn DEF Steps
  <1> QED BY <1>3, <1>4, <1>5 DEF ReadFlow

LEMMA ReadArchiveOwn ==
    ASSUME SessionInv, ScreenInv, NEW j \in jobs, ReadArchive(j), ui' = ui PROVE Screened
  <1> DEFINE c == [owner |-> core.mapped, sid |-> j.sid, rev |-> core.rev, view |-> j.view]
             res == [j.res EXCEPT !.panel = c]
  <1>1. /\ Newer /\ j.res \in Results /\ j.step = "read" /\ ~Shown(j.res.conv) /\ core \in CoreType
        /\ j \in Jobs
    BY JobFacts, CoreStays DEF ReadArchive
  <1>2. OwnResult(j, "read", j.res) /\ OwnTicket(ui, j)
    BY <1>1, JobOwn
  <1>3. CASE \E e \in Faults \cup {"context_changed", "unavailable"} : Fail(j, e)
    <2>1. \A e \in Faults \cup {"context_changed", "unavailable"} : e \in Errors /\ e # "none"
      BY AnswersAssumption DEF Errors
    <2> QED BY <1>1, <1>3, <2>1, FailOwn
  <1>4. CASE Admits(j) /\ Post(j, res)
    <2>1. c \in Content /\ c.owner = core.mapped /\ c.view = j.view
      BY <1>1, BoundsAssumption DEF CoreType, Content, Owners, Jobs
    <2> HIDE DEF c
    <2>2. /\ res \in Results /\ res.session = j.res.session /\ res.panel = c
          /\ res.error = j.res.error /\ res.conv = j.res.conv /\ res.owner = j.res.owner
          /\ res.private = j.res.private
      BY <1>1, <2>1 DEF Results
    <2> HIDE DEF res
    <2>3. ~j.boot
      BY <1>2, ActionNames DEF OwnTicket, OwnResult, ArchiveReads, HistoryReads, SearchReads,
                               TimelineReads
    <2>4. j.binding.profile = core.mapped
      BY <1>2, <1>4, <2>3 DEF Admits, OwnTicket
    <2>5. OwnResult(j, "done", res)
      BY <1>1, <1>2, <2>1, <2>2, <2>3, <2>4 DEF OwnResult
    <2> QED BY <1>1, <1>4, <2>2, <2>5, KeepOwn DEF Steps
  <1> QED BY <1>3, <1>4 DEF ReadArchive

LEMMA InitOwn == Init => ScreenInv
  <1> SUFFICES ASSUME Init PROVE ScreenInv
    OBVIOUS
  <1>1. PICK c : ui = FreshUi(c)
    BY DEF Init
  <1>2. ui.scope = NoScope /\ ui.session = Nothing
    BY <1>1 DEF FreshUi
  <1>3. OwnUi(ui)
    BY <1>2 DEF OwnUi, NoScope, Shown
  <1>4. InFlight = {} /\ ready = <<>> /\ core.rev = 0
    BY DEF Init, InFlight
  <1> QED BY <1>2, <1>3, <1>4 DEF ScreenInv, Nothing

LEMMA NextOwn == SessionInv /\ ScreenInv /\ [Next]_vars => Screened
  <1> SUFFICES ASSUME SessionInv, ScreenInv, [Next]_vars PROVE Screened
    OBVIOUS
  <1>1. CASE Slot
    BY <1>1, SlotOwn
  <1>2. CASE Apply
    BY <1>2, ApplyOwn
  <1>3. ASSUME NEW j \in jobs, Work(j) PROVE Screened
    BY <1>3, WriteOwn, ReadActiveOwn, ProbeOwn, ReadCapsOwn, ReadFlowOwn, ReadArchiveOwn DEF Work
  <1>4. CASE Environment
    BY <1>4, EnvironmentOwn
  <1>5. CASE UNCHANGED vars
    <2> DEFINE L == [ui |-> ui, new |-> {}]
    <2>1. ui' = ui /\ jobs' = jobs /\ ready' = ready /\ core' = core
      BY <1>5 DEF vars
    <2>2. L.ui = ui /\ L.new = {} /\ core.rev <= core.rev
      BY ScreenFacts
    <2> HIDE DEF L
    <2> QED BY <2>1, <2>2, ScreenFacts, GuiOwn
  <1> QED BY <1>1, <1>2, <1>3, <1>4, <1>5 DEF Next

-----------------------------------------------------------------------------
(* Theorems about the screen *)

\* Every reachable state satisfies the invariant of the screen.
THEOREM ScreenInvariant == Spec => []ScreenInv
  <1>1. SessionInv /\ ScreenInv /\ [Next]_vars => ScreenInv'
    BY NextOwn DEF Screened
  <1> QED BY <1>1, InitOwn, SessionInvariant, PTL DEF Spec

\* What every step puts on screen.
LEMMA EveryStepBrings == Spec => [][Brings(ui, ui')]_vars
  <1>1. SessionInv /\ ScreenInv /\ [Next]_vars => [Brings(ui, ui')]_vars
    BY NextOwn DEF Screened
  <1> QED BY <1>1, ScreenInvariant, SessionInvariant, PTL DEF Spec

\* While the owner scope Core disclosed to an unmapped device is in force, every panel the
\* state property hands to QML is that owner's (_apply, _owner_scope_current, invalidate).
THEOREM ScreenBelongsToScope == Spec => []ScopeOwnsScreen
  <1>1. SessionInv /\ ScreenInv => ScopeOwnsScreen
    <2> SUFFICES ASSUME SessionInv, ScreenInv, ScopeCurrent(ui), NEW c \in Panels(ui), Shown(c)
                 PROVE c.owner = ui.scope.owner
      BY DEF ScopeOwnsScreen
    <2>1. Unmapped(ui) /\ Shown(ui.scope)
      BY ScreenFacts, CurrentIsUnmapped DEF ScopeCurrent
    <2> QED BY <2>1, ScreenFacts DEF OwnUi
  <1> QED BY <1>1, ScreenInvariant, SessionInvariant, PTL

\* Whatever a result installs belongs to the owner it discloses, or to the Profile the
\* device was bound to when it arrived (_apply's comparison of the bindings).
THEOREM ResultsOfTheCurrentOwner == Spec => InstalledForCurrentOwner
  <1>1. [Brings(ui, ui')]_vars =>
          [\A c \in Panels(ui') \ Panels(ui) : Shown(c) => c.owner = OwnerOnArrival(ui, ui')]_vars
    BY DEF Brings
  <1> QED BY <1>1, EveryStepBrings, PTL DEF InstalledForCurrentOwner

\* A page asked for before the user left a view is never put on screen in the next one
\* (_apply's comparison of the view epochs).
THEOREM DismissedViewsStayDismissed == Spec => DismissedStaysDismissed
  <1>1. [Brings(ui, ui')]_vars =>
          [\A c \in {ui'.archive, ui'.timeline, ui'.search} \ Panels(ui) :
             Shown(c) => c.view = ui.viewEpoch]_vars
    BY DEF Brings
  <1> QED BY <1>1, EveryStepBrings, PTL DEF DismissedStaysDismissed

\* The Session on screen is never replaced by one Core read out earlier, although End
\* overtakes reads that are still on their way (_apply's comparison of the tickets).
THEOREM SessionsNeverGoBack == Spec => NeverAnOlderSession
  <1>1. [Brings(ui, ui')]_vars =>
          [Shown(ui.session) /\ Shown(ui'.session) => ui'.session.rev >= ui.session.rev]_vars
    BY DEF Brings
  <1> QED BY <1>1, EveryStepBrings, PTL DEF NeverAnOlderSession
=============================================================================
