------------------------- MODULE SessionController -------------------------
(***************************************************************************)
(* The DJ Session controller of the touch UI (session_controller.py) with  *)
(* the transport's binding fence (session_transport.py) and as much of     *)
(* Home Assistant Core as the controller can observe.                      *)
(*                                                                         *)
(* The GUI thread owns `ui`, one record holding the controller's fields.   *)
(* Every slot of the controller is one step of the GUI thread; a slot that *)
(* launches work adds a job to `jobs`.  Workers (two for Session reads and *)
(* lifecycle writes, one for questions) advance jobs one HTTP exchange at  *)
(* a time and post finished jobs to `ready`, the queued Qt signal _ready,  *)
(* which the GUI thread takes in order (_apply).  The configuration object *)
(* ui.cfg is shared by both and may change between any two of these steps. *)
(***************************************************************************)
EXTENDS Naturals, Sequences, FiniteSets

CONSTANTS
    Profiles,      \* DJConnect Profiles Core may map this device to
    NoProfile,     \* the empty profile id
    Personal,      \* Profiles of type personal with privacy mode private
    Tokens,        \* device tokens issued by successive pairings
    NoToken,       \* the device is not paired
    Intents,       \* the slots the user and the timers invoke in this instance
    CapsAnswers,   \* capability sets Core may advertise
    Faults,        \* ways an exchange may fail: "denied", "unavailable"
    MaxSerial,     \* bound on tickets handed out
    MaxView,       \* bound on view epochs reached by user navigation
    MaxRev         \* bound on state changes inside Core

ASSUME ProfilesAssumption == NoProfile \notin Profiles /\ Personal \subseteq Profiles
ASSUME TokensAssumption == NoToken \notin Tokens
ASSUME BoundsAssumption == MaxSerial \in Nat /\ MaxView \in Nat /\ MaxRev \in Nat
ASSUME AnswersAssumption == /\ CapsAnswers \subseteq SUBSET {"history", "dialogue", "search"}
                            /\ Faults \subseteq {"denied", "unavailable"}

VARIABLES
    ui,      \* the UI process: the controller's fields, and backend.cfg in ui.cfg
    jobs,    \* work submitted to the executors and not yet posted
    ready,   \* results posted to the GUI thread and not yet applied
    core     \* Home Assistant Core: device mapping and Sessions

vars == <<ui, jobs, ready, core>>

-----------------------------------------------------------------------------
(* Values *)

LifecycleWrites == {"start", "end"}
CurrentReads    == {"refresh"} \cup LifecycleWrites
HistoryReads    == {"history", "history_more", "history_refresh"}
SearchReads     == {"search", "search_more", "search_refresh"}
TimelineReads   == {"timeline", "timeline_page", "timeline_previous", "open_entry",
                    "timeline_refresh", "timeline_extend"}
ArchiveReads    == HistoryReads \cup SearchReads \cup TimelineReads
Actions         == CurrentReads \cup ArchiveReads \cup {"question"}

Owners    == Profiles \cup {NoProfile}
\* What a panel shows: whose data, of which Session, as Core had it at which
\* revision, asked for under which view epoch.
Content   == [owner : Owners, sid : Nat, rev : Nat, view : Nat]
Nothing   == [owner |-> NoProfile, sid |-> 0, rev |-> 0, view |-> 0]
Shown(c)  == c.owner # NoProfile

Bindings  == [token : Tokens \cup {NoToken}, profile : Owners, resolved : Owners,
              selection : Owners, private : BOOLEAN, epoch : Nat]
Configs   == [token : Tokens \cup {NoToken}, active : Owners, explicit : Owners]
NoBinding == [token |-> NoToken, profile |-> NoProfile, resolved |-> NoProfile,
              selection |-> NoProfile, private |-> FALSE, epoch |-> 0]
NoScope   == [binding |-> NoBinding, owner |-> NoProfile, private |-> FALSE]
Sources   == {"none", "moment", "flow", "timeline"}
NoSelection == [src |-> "none", sid |-> 0]

Errors == {"none", "denied", "unavailable", "uncertain", "context_changed", "profile_required"}
Results == [error : Errors, session : Content, caps : SUBSET {"history", "dialogue", "search"},
            conv : Content, panel : Content, owner : Owners, private : BOOLEAN,
            accepted : BOOLEAN, reply : BOOLEAN]
NoResult == [error |-> "none", session |-> Nothing, caps |-> {}, conv |-> Nothing,
             panel |-> Nothing, owner |-> NoProfile, private |-> FALSE,
             accepted |-> FALSE, reply |-> FALSE]
Steps == {"write", "active", "private", "caps", "conv", "read", "done"}
Jobs == [serial : Nat, act : Actions, boot : BOOLEAN, binding : Bindings, raw : Bindings,
         view : Nat, qe : Nat, sid : Nat, sel : [src : Sources, sid : Nat],
         step : Steps, res : Results]

-----------------------------------------------------------------------------
(* Bindings and scopes: session_transport.py *)

Paired(u) == u.cfg.token # NoToken

\* session_profile_id: the server-resolved mapping, unless an explicit choice disagrees.
SessionProfile(u) == IF u.cfg.explicit \in {NoProfile, u.cfg.active} THEN u.cfg.active
                                                                   ELSE NoProfile

\* SessionBinding.capture
Capture(u) == [token |-> u.cfg.token, resolved |-> u.cfg.active, selection |-> u.cfg.explicit,
               profile |-> IF u.cfg.explicit # NoProfile THEN u.cfg.explicit
                                                        ELSE SessionProfile(u),
               private |-> FALSE, epoch |-> 0]

\* The owner scope Core disclosed to an unmapped client still belongs to this binding.
ScopeCurrent(u) == u.foreground /\ Shown(u.scope) /\ Paired(u) /\ u.scope.binding = Capture(u)

\* SessionTransport.binding: an owner scope stands in for a missing profile id.
Unmapped(u) == u.cfg.active = NoProfile /\ u.cfg.explicit = NoProfile
Binding(u) ==
    IF Unmapped(u) /\ ScopeCurrent(u)
    THEN [Capture(u) EXCEPT !.profile = u.scope.owner, !.resolved = u.scope.owner,
                            !.private = u.scope.private, !.epoch = u.ownerEpoch]
    ELSE Capture(u)

\* private_scope_allowed
PrivateAllowed(u) == IF Shown(u.scope) THEN ScopeCurrent(u) /\ u.scope.private
                                       ELSE SessionProfile(u) \in Personal

HistorySupported(u)  == (Shown(u.scope) => PrivateAllowed(u)) /\ "history" \in u.caps
SearchSupported(u)   == HistorySupported(u) /\ "search" \in u.caps
ComposerSupported(u) == /\ HistorySupported(u) /\ "dialogue" \in u.caps
                        /\ Shown(u.session) /\ PrivateAllowed(u)

-----------------------------------------------------------------------------
(* What the GUI thread does to its own fields *)

UiType == [cfg : Configs, foreground : BOOLEAN, serial : Nat, running : Nat, act : Actions \cup {"none"},
           qRunning : Nat, qEpoch : Nat, viewEpoch : Nat, ownerEpoch : Nat, lastRead : Nat,
           scope : [binding : Bindings, owner : Owners, private : BOOLEAN],
           session : Content, caps : SUBSET {"history", "dialogue", "search"}, conv : Content,
           archive : Content, timeline : Content, search : Content, historyLoaded : BOOLEAN,
           pending : Nat, pendingBinding : Bindings, reply : Nat, replyBinding : Bindings,
           receipt : Nat, selection : [src : Sources, sid : Nat], reconcile : BOOLEAN]

\* The shape of the lanes: one is busy exactly while it names an action, and never with
\* a ticket that was not handed out.
Lanes(u) == /\ (u.running = 0) = (u.act = "none")
            /\ {u.running, u.qRunning, u.lastRead} \subseteq 0..u.serial
Ui == {u \in UiType : Lanes(u)}

FreshUi(c) == [cfg |-> c, foreground |-> TRUE, serial |-> 0, running |-> 0, act |-> "none",
           qRunning |-> 0, qEpoch |-> 0, viewEpoch |-> 0, ownerEpoch |-> 0, lastRead |-> 0,
           scope |-> NoScope, session |-> Nothing, caps |-> {}, conv |-> Nothing,
           archive |-> Nothing, timeline |-> Nothing, search |-> Nothing, historyLoaded |-> FALSE,
           pending |-> 0, pendingBinding |-> NoBinding, reply |-> 0, replyBinding |-> NoBinding,
           receipt |-> 0, selection |-> NoSelection, reconcile |-> FALSE]

\* Mutant of Withdraw: the question's own epoch is not advanced.
WithdrawSameEpoch(u) == [u EXCEPT !.pending = 0, !.pendingBinding = NoBinding, !.reply = 0,
                                  !.replyBinding = NoBinding, !.receipt = 0,
                                  !.selection = NoSelection, !.reconcile = FALSE]
\* _withdraw_question: revoke display authority; an in-flight POST is not cancelled.
Withdraw(u) == [u EXCEPT !.pending = 0, !.pendingBinding = NoBinding, !.reply = 0,
                         !.replyBinding = NoBinding, !.qEpoch = @ + 1, !.receipt = 0,
                         !.selection = NoSelection, !.reconcile = FALSE]

ClearHistory(u) == [u EXCEPT !.archive = Nothing, !.historyLoaded = FALSE]

ClearArchive(u) == [ClearHistory(u) EXCEPT !.viewEpoch = @ + 1]

\* Mutant of ClearPanels: the Flow survives the Session it belongs to.
ClearPanelsButFlow(u) == [ClearHistory(u) EXCEPT !.session = Nothing, !.timeline = Nothing,
                                                 !.search = Nothing]
ClearPanels(u) == [ClearHistory(u) EXCEPT !.session = Nothing, !.conv = Nothing,
                                          !.timeline = Nothing, !.search = Nothing]

\* invalidate: every ticket, scope, panel and question loses its authority.
Invalidate(u) == [ClearPanels(Withdraw(u)) EXCEPT
                    !.ownerEpoch = u.ownerEpoch + 1, !.scope = NoScope, !.serial = u.serial + 1,
                    !.running = 0, !.act = "none", !.qRunning = 0, !.caps = {},
                    !.viewEpoch = u.viewEpoch + 1]

SelectionValid(u) ==
    CASE u.selection.src = "none"     -> TRUE
      [] u.selection.src = "moment"   -> Shown(u.session) /\ u.selection.sid = u.session.sid
      [] u.selection.src = "flow"     -> /\ Shown(u.session) /\ Shown(u.conv)
                                         /\ u.selection.sid = u.session.sid
                                         /\ u.selection.sid = u.conv.sid
      [] u.selection.src = "timeline" -> Shown(u.timeline) /\ u.selection.sid = u.timeline.sid

PendingValid(u) == /\ u.qRunning # 0 /\ u.foreground /\ ComposerSupported(u) /\ Paired(u)
                   /\ u.pendingBinding = Binding(u) /\ u.pending = u.session.sid
                   /\ SelectionValid(u)

ReplyValid(u) == /\ ComposerSupported(u) /\ u.foreground /\ Paired(u)
                 /\ u.replyBinding = Binding(u) /\ u.reply = u.session.sid

DropReply(u) == IF u.reply # 0 /\ ~ReplyValid(u)
                THEN [u EXCEPT !.reply = 0, !.replyBinding = NoBinding] ELSE u

\* Retained rows whose deadline passed leave the screen, each panel on its own.
DropExpired(u, gone) ==
    [u EXCEPT !.archive  = IF "archive" \in gone THEN Nothing ELSE @,
              !.timeline = IF "timeline" \in gone THEN Nothing ELSE @,
              !.search   = IF "search" \in gone THEN Nothing ELSE @,
              !.conv     = IF "conv" \in gone THEN Nothing ELSE @]

\* _expire, the one-second deadline timer and the end of every applied result.
Expire(u, gone) ==
    LET v == DropExpired(u, gone)
    IN  DropReply(IF (v.pending # 0 /\ ~PendingValid(v)) \/ ~SelectionValid(v)
                  THEN Withdraw(v) ELSE v)

\* The state property re-validates before it hands a snapshot to QML.
Read(u) == DropReply(IF u.pending # 0 /\ ~PendingValid(u) THEN Withdraw(u) ELSE u)

-----------------------------------------------------------------------------
(* _launch *)

\* End supersedes reads, but never another lifecycle write.
LaneFree(u, a) == u.running = 0 \/ (a = "end" /\ u.act \notin LifecycleWrites)

Bootstrapping(u, a) == a = "refresh" /\ Unmapped(u)

ProfileKnown(u, a) == \/ SessionProfile(u) # NoProfile
                      \/ ScopeCurrent(u) /\ u.scope.private
                      \/ Bootstrapping(u, a)

Supported(u, a) == /\ a \in ArchiveReads => HistorySupported(u)
                   /\ a \in SearchReads  => SearchSupported(u)
                   /\ a = "question"     => ComposerSupported(u)

FirstStep(a, boot) == CASE a \in LifecycleWrites -> "write"
                        [] a = "refresh"         -> "active"
                        [] a = "question"        -> "write"
                        [] OTHER                 -> "read"

\* The controller after it took a ticket, and the job it submitted.
TakeTicket(u, a, sid) ==
    LET n == u.serial + 1
        v == [u EXCEPT !.serial = n,
                       !.lastRead = IF a \in CurrentReads THEN n ELSE @]
    IN  IF a = "question"
        THEN [v EXCEPT !.qRunning = n, !.pending = sid, !.pendingBinding = Binding(u),
                       !.reply = 0, !.replyBinding = NoBinding, !.receipt = 0]
        ELSE LET w == [v EXCEPT !.running = n, !.act = a]
             IN  IF a = "end" THEN Withdraw(w) ELSE w

NewJob(u, v, a, sid, binding) ==
    [serial |-> v.serial, act |-> a, boot |-> Bootstrapping(u, a), binding |-> binding,
     raw |-> Capture(u), view |-> u.viewEpoch, qe |-> v.qEpoch, sid |-> sid,
     sel |-> u.selection, step |-> FirstStep(a, Bootstrapping(u, a)), res |-> NoResult]

\* [ui, new]: the controller after _launch and the set of jobs it submitted.  The
\* early returns come in the order of the code.
Launch(u, a, sid) ==
    LET scopeStale == Bootstrapping(u, a) /\ u.scope.binding # Capture(u)
        v == IF scopeStale THEN Invalidate(u) ELSE u
        w == TakeTicket(v, a, sid)
    IN  IF \/ ~u.foreground
           \/ ~LaneFree(u, a)
           \/ a = "question" /\ u.qRunning # 0
           \/ ~ProfileKnown(u, a)
        THEN [ui |-> u, new |-> {}]
        ELSE IF ~Paired(u) THEN [ui |-> Invalidate(u), new |-> {}]
        ELSE IF ~Supported(v, a) THEN [ui |-> v, new |-> {}]
        ELSE [ui |-> w, new |-> {NewJob(v, w, a, sid, Binding(u))}]

-----------------------------------------------------------------------------
(* _apply *)

\* Mutants of the three checks below: any ticket, any binding, any view will do.
AnyTicket(u, r)  == r.serial # 0
AnyBinding(u, r) == Paired(u)
AnyView(u, r)    == r.view <= u.viewEpoch

\* A result counts only for the lane ticket it was launched under ...
TicketMatches(u, r) == r.serial = IF r.act = "question" THEN u.qRunning ELSE u.running

\* ... a question's only while its display authority was not withdrawn ...
SameQuestion(u, r) == r.qe = u.qEpoch

\* ... any result only while the device is bound as it was at launch ...
StillBound(u, r) == Paired(u) /\ r.binding = Binding(u)

\* ... and an archive page only for the view it was requested from.
SameView(u, r) == r.view = u.viewEpoch

Failed(r) == r.res.error # "none"
Fatal(r)  == r.res.error \in {"denied", "context_changed"}

\* The error branch shared by both lanes: nothing the old authority showed survives.
ClearAll(u) == [ClearPanels(Withdraw(u)) EXCEPT !.ownerEpoch = @ + 1, !.scope = NoScope]

\* A new current read: scope first, then Session, then what capabilities allow.
InstallScope(u, r) ==
    LET new == IF r.res.owner # NoProfile
               THEN [binding |-> r.raw, owner |-> r.res.owner, private |-> r.res.private]
               ELSE NoScope
        v   == [u EXCEPT !.scope = new]
    IN  IF <<u.scope.owner, u.scope.private>> = <<new.owner, new.private>> THEN v
        ELSE [Withdraw(ClearArchive(v)) EXCEPT !.ownerEpoch = @ + 1, !.timeline = Nothing,
                                               !.search = Nothing]

InstallSession(u, r) ==
    LET v == IF u.session.sid # r.res.session.sid THEN Withdraw(u) ELSE u
        w == [v EXCEPT !.session = r.res.session, !.caps = r.res.caps]
    IN  IF ComposerSupported(w) THEN w ELSE Withdraw(w)

InstallFlow(u, r) ==
    IF ~HistorySupported(u)
    THEN [ClearHistory(u) EXCEPT !.conv = Nothing, !.timeline = Nothing, !.search = Nothing]
    ELSE [u EXCEPT !.conv = r.res.conv, !.search = IF SearchSupported(u) THEN @ ELSE Nothing]

InstallCurrent(u, r) == InstallFlow(InstallSession(InstallScope(u, r), r), r)

\* An archive page replaces its panel; a new detail closes the search unless it is
\* a background check of the very revision the search shows.
InstallArchive(u, r) ==
    CASE r.act \in HistoryReads -> [u EXCEPT !.archive = r.res.panel, !.historyLoaded = TRUE]
      [] r.act \in SearchReads  -> [u EXCEPT !.search = r.res.panel]
      [] OTHER -> [u EXCEPT !.timeline = r.res.panel,
                            !.search = IF /\ r.act \in {"timeline_refresh", "timeline_extend"}
                                          /\ @.sid = r.res.panel.sid /\ @.rev = r.res.panel.rev
                                       THEN @ ELSE Nothing]

\* [ui, again]: the controller after a read result, and whether the handler reaches
\* its trailing _reconcile_if_idle.
ApplyRead(u0, r, gone) ==
    LET u == [u0 EXCEPT !.running = 0, !.act = "none"]
        v == IF r.act \in HistoryReads /\ Failed(r) THEN [u EXCEPT !.archive = Nothing] ELSE u
        done(w) == [ui |-> Expire(w, gone), again |-> TRUE]
    IN  CASE ~StillBound(u, r) -> [ui |-> Invalidate(u), again |-> FALSE]
          [] StillBound(u, r) /\ r.act \in ArchiveReads /\ ~SameView(u, r)
             -> [ui |-> u, again |-> FALSE]
          [] OTHER ->
             IF Failed(r) /\ ~Fatal(r) /\ r.act \in ArchiveReads
             THEN [ui |-> [v EXCEPT !.search = Nothing, !.timeline = Nothing], again |-> FALSE]
             ELSE IF Failed(r) THEN done(ClearAll(v))
             ELSE IF r.act \in CurrentReads THEN done(InstallCurrent(v, r))
             ELSE done(InstallArchive(v, r))

\* The same for a question's answer.  A concurrent current read owns the Session
\* snapshot: the older answer asks for a new read instead of overwriting it.
ApplyQuestion(u0, r, gone) ==
    LET u == [u0 EXCEPT !.qRunning = 0, !.pending = 0, !.pendingBinding = NoBinding]
        v == [u EXCEPT !.receipt = IF r.res.accepted THEN r.sid ELSE 0]
        w == [v EXCEPT !.selection = NoSelection]
        answer == [w EXCEPT !.receipt = 0, !.reply = r.sid, !.replyBinding = r.binding]
        stay(x) == [ui |-> x, again |-> FALSE]
    IN  CASE ~SameQuestion(u, r) -> stay(u)
          [] SameQuestion(u, r) /\ (~StillBound(u, r) \/ r.res.error = "denied")
             -> stay(Invalidate(u))
          [] OTHER ->
             IF r.res.reply /\ ~Failed(r) THEN stay(DropReply(answer))
             ELSE IF u.lastRead > r.serial THEN [ui |-> [w EXCEPT !.reconcile = TRUE], again |-> TRUE]
             ELSE IF ~Failed(r) THEN stay(Expire([w EXCEPT !.conv = r.res.conv], gone))
             ELSE IF Fatal(r) THEN [ui |-> Expire(ClearAll(w), gone), again |-> TRUE]
             ELSE stay([w EXCEPT !.conv = Nothing])

\* _reconcile_if_idle: a refresh, unless a sibling control holds the lane (`blocked`),
\* in which case refresh() returns at once and the flag is spent.
Reconcile(u, blocked) ==
    LET v == [u EXCEPT !.reconcile = FALSE]
    IN  IF ~(u.reconcile /\ u.running = 0 /\ ComposerSupported(u)) THEN [ui |-> u, new |-> {}]
        ELSE IF blocked THEN [ui |-> v, new |-> {}]
        ELSE Launch(v, "refresh", 0)

-----------------------------------------------------------------------------
(* Slots: steps of the GUI thread *)

\* Tickets left in this instance.
Budget == ui.serial < MaxSerial
Navigable == ui.viewEpoch < MaxView

Call(L) == ui' = L.ui /\ jobs' = jobs \cup L.new /\ UNCHANGED <<ready, core>>
Show(u) == ui' = u /\ UNCHANGED <<jobs, ready, core>>

Refresh == "refresh" \in Intents /\ Budget /\ Call(Launch(ui, "refresh", 0))
Start   == "start" \in Intents /\ Budget /\ Call(Launch(ui, "start", 0))
End     == "end" \in Intents /\ Budget /\ Shown(ui.session)
           /\ Call(Launch(ui, "end", ui.session.sid))

SendQuestion ==
    /\ "question" \in Intents /\ Budget
    /\ ui.running = 0 /\ ui.qRunning = 0 /\ ui.foreground /\ ComposerSupported(ui)
    /\ IF SelectionValid(ui) THEN Call(Launch(ui, "question", ui.session.sid))
                             ELSE Show([ui EXCEPT !.selection = NoSelection])

\* loadHistory, moreHistory / olderSessions / newerSessions, refreshArchive
LoadHistory(a) ==
    /\ a \in Intents \cap HistoryReads /\ Budget
    /\ a = "history_more"    => Shown(ui.archive)
    /\ a = "history_refresh" => ui.historyLoaded /\ ~Shown(ui.timeline)
    /\ Call(Launch(ui, a, 0))

\* Saved Sessions the archive on screen lists.
Rows == {s \in DOMAIN core.by : Shown(ui.archive) /\ core.by[s] = ui.archive.owner}

\* openSaved, readCurrentHistory, openEntry, search: a new view, then the read.
NewView(a) == IF a = "open_entry" THEN [ui EXCEPT !.viewEpoch = @ + 1]
              ELSE [ui EXCEPT !.viewEpoch = @ + 1, !.search = Nothing]
OpenView(a, sid) ==
    /\ a \in Intents \cap {"timeline", "timeline_page", "open_entry", "search"}
    /\ Budget /\ Navigable /\ ui.running = 0
    /\ IF a = "timeline_page" THEN Shown(ui.session) /\ sid = ui.session.sid ELSE sid \in Rows
    /\ Call(Launch(NewView(a), a, sid))

\* refreshSaved, extendEntries, firstEntries / nextEntries, previousEntries
PageTimeline(a) ==
    /\ a \in Intents \cap {"timeline_refresh", "timeline_extend", "timeline_page", "timeline_previous"}
    /\ Budget /\ Shown(ui.timeline)
    /\ Call(Launch(ui, a, ui.timeline.sid))

\* moreSearch, refreshSearch
PageSearch(a) ==
    /\ a \in Intents \cap {"search_more", "search_refresh"}
    /\ Budget /\ Shown(ui.search)
    /\ Call(Launch(ui, a, ui.search.sid))

CloseSaved  == "close" \in Intents /\ Navigable
               /\ Show([ui EXCEPT !.viewEpoch = @ + 1, !.timeline = Nothing, !.search = Nothing])
ClearSearch == "close" \in Intents /\ Navigable
               /\ Show([ui EXCEPT !.viewEpoch = @ + 1, !.search = Nothing])
CloseArchive == "close" \in Intents /\ Navigable /\ Show(ClearArchive(ui))

\* selectMoment, selectEntry, selectFlowEntry, clearSelection
Select(sel) ==
    LET v == [ui EXCEPT !.selection = sel]
    IN  /\ "select" \in Intents
        /\ sel.src = "flow" => ui.foreground /\ ui.running = 0 /\ ui.qRunning = 0
                               /\ ComposerSupported(ui) /\ SelectionValid(v)
        /\ Show(IF SelectionValid(v) THEN v ELSE [v EXCEPT !.selection = NoSelection])
Selections == {NoSelection} \cup [src : {"moment", "flow"}, sid : {ui.session.sid}]
                           \cup [src : {"timeline"}, sid : {ui.timeline.sid}]

\* Unfocused or in the background the application loses its display authority.
SetForeground ==
    LET v == [Invalidate(ui) EXCEPT !.foreground = ~ui.foreground]
    IN  /\ "foreground" \in Intents /\ Budget
        /\ IF v.foreground THEN Call(Launch(v, "refresh", 0)) ELSE Show(v)

ConfirmProfile ==
    LET v == [ui EXCEPT !.cfg.explicit = ui.cfg.active]
    IN  /\ "confirm" \in Intents /\ Budget /\ Paired(ui) /\ ui.cfg.active # NoProfile
        /\ Call(Launch(Invalidate(v), "refresh", 0))

Expirable == Intents \cap {"archive", "timeline", "search", "conv"}
Tick == \E gone \in SUBSET Expirable : Show(Expire(ui, gone))
ReadState == Show(Read(ui))

\* The queued _ready signal; `blocked` is a sibling control holding the lane.
Deliver(A, blocked) ==
    LET R == IF A.again THEN Reconcile(A.ui, blocked) ELSE [ui |-> A.ui, new |-> {}]
    IN  ui' = R.ui /\ jobs' = jobs \cup R.new
Apply ==
    /\ ready # <<>>
    /\ ready' = Tail(ready)
    /\ LET r == Head(ready)
       IN  IF ~TicketMatches(ui, r) THEN UNCHANGED <<ui, jobs>>
           ELSE \E gone \in SUBSET Expirable, blocked \in BOOLEAN :
                  Deliver(IF r.act = "question" THEN ApplyQuestion(ui, r, gone)
                                                ELSE ApplyRead(ui, r, gone), blocked)
    /\ UNCHANGED core

-----------------------------------------------------------------------------
(* Workers: one HTTP exchange per step, each behind the binding fence of    *)
(* SessionTransport._request.  The fence after a response and the one       *)
(* before the next request coincide here: nothing happens between them.     *)

CoreType == [mapped : Profiles, live : [Profiles -> Nat], by : [1..MaxRev -> Owners], rev : 0..MaxRev]

BindingHolds(j) == StillBound(ui, j)

\* check_conversation_read
TicketLive(j) == /\ ui.foreground /\ TicketMatches(ui, j) /\ BindingHolds(j)
                 /\ j.act = "question" => SameQuestion(ui, j)

\* The question is still the one on screen, and its selected entry is still retained.
QuestionLive(j) == /\ TicketLive(j) /\ PendingValid(ui) /\ ui.pending = j.sid
                   /\ j.sel.src \in {"flow", "timeline"} => SelectionValid([ui EXCEPT !.selection = j.sel])

\* Two threads serve the Session executor, one the question executor, in order.
Runs(j) == Cardinality({k \in jobs : /\ (k.act = "question") = (j.act = "question")
                                     /\ k.serial < j.serial})
           < (IF j.act = "question" THEN 1 ELSE 2)

Advance(j, step, res) ==
    /\ jobs' = (jobs \ {j}) \cup {[j EXCEPT !.step = step, !.res = res]}
    /\ UNCHANGED ready
\* Mutant of Post: a failed job ends without a result.
PostSuccess(j, res) ==
    /\ jobs' = jobs \ {j}
    /\ ready' = IF res.error = "none" THEN Append(ready, [j EXCEPT !.step = "done", !.res = res])
                                      ELSE ready
Post(j, res) ==
    /\ jobs' = jobs \ {j}
    /\ ready' = Append(ready, [j EXCEPT !.step = "done", !.res = res])
Fail(j, e) == Post(j, [j.res EXCEPT !.error = e])

\* Core answers for the Profile the device is mapped to and refuses any other.
Admits(j) == j.binding.profile \in {NoProfile, core.mapped}
ActiveSession ==
    IF core.live[core.mapped] = 0 THEN Nothing
    ELSE [owner |-> core.mapped, sid |-> core.live[core.mapped], rev |-> core.rev, view |-> 0]
Saved(sid) == sid \in DOMAIN core.by /\ core.by[sid] = core.mapped

\* start, end and the question's POST: what Core commits when it accepts one.
Accepts(j) ==
    /\ core.rev < MaxRev /\ Admits(j)
    /\ IF j.act = "start" THEN core.live[core.mapped] = 0
                          ELSE core.live[core.mapped] = j.sid /\ j.sid # 0
Commit(j) ==
    LET n == core.rev + 1
    IN  core' = CASE j.act = "start" -> [core EXCEPT !.rev = n, !.by[n] = core.mapped,
                                                     !.live[core.mapped] = n]
                  [] j.act = "end"   -> [core EXCEPT !.rev = n, !.live[core.mapped] = 0]
                  [] OTHER           -> [core EXCEPT !.rev = n]

Fence(j) == IF j.act = "question" THEN QuestionLive(j) ELSE BindingHolds(j)
Write(j) ==
    /\ j.step = "write"
    /\ \/ ~Fence(j) /\ Fail(j, "context_changed") /\ UNCHANGED core
       \/ Fence(j) /\ Accepts(j) /\ Commit(j)
          /\ Advance(j, "active", [j.res EXCEPT !.accepted = TRUE])
       \/ Fence(j) /\ Accepts(j) /\ Commit(j) /\ "unavailable" \in Faults /\ Fail(j, "uncertain")
       \/ Fence(j) /\ ~Accepts(j) /\ Fail(j, "uncertain") /\ UNCHANGED core
       \/ Fence(j) /\ (\E f \in Faults : Fail(j, f)) /\ UNCHANGED core

\* A pure current read, never a write replay or an optimistic local Session.
ReadFence(j) == IF j.boot \/ j.act = "question" THEN TicketLive(j) ELSE BindingHolds(j)
ReadActive(j) ==
    /\ j.step = "active"
    /\ \/ ~ReadFence(j) /\ Fail(j, "context_changed")
       \/ ReadFence(j) /\ \E f \in Faults : Fail(j, f)
       \/ ReadFence(j) /\ ~Admits(j) /\ ~j.boot /\ Fail(j, "unavailable")
       \/ /\ ReadFence(j) /\ (Admits(j) \/ j.boot)
          /\ LET res == [j.res EXCEPT !.session = ActiveSession]
             IN  IF j.act # "question" THEN Advance(j, IF j.boot THEN "private" ELSE "caps", res)
                 ELSE IF ActiveSession.sid # j.sid THEN Fail(j, "context_changed")
                 ELSE Advance(j, "conv", res) \/ Post(j, [res EXCEPT !.reply = TRUE])
    /\ UNCHANGED core

\* Mutant of Clash: the two owners are not compared.
NoClash(j, personal) == personal /\ j.step # "private"
Clash(j, personal) == personal /\ Shown(j.res.session) /\ j.res.session.owner # core.mapped

\* Bootstrap only: the personal-read probe and the owner it discloses must agree
\* with the owner of the Session just read.  A 403 only says "not personal".
Probe(j) ==
    /\ j.step = "private"
    /\ \/ ~TicketLive(j) /\ Fail(j, "context_changed")
       \/ TicketLive(j) /\ \E f \in Faults \cup (IF Admits(j) THEN {} ELSE {"unavailable"}) : Fail(j, f)
       \/ /\ TicketLive(j)
          /\ LET personal == Admits(j) /\ core.mapped \in Personal
                 owner    == IF personal THEN core.mapped ELSE j.res.session.owner
             IN  IF Clash(j, personal) THEN Fail(j, "context_changed")
                 ELSE IF owner = NoProfile THEN Fail(j, "profile_required")
                 ELSE Advance(j, "caps", [j.res EXCEPT !.owner = owner, !.private = personal])
    /\ UNCHANGED core

\* A failed capability read only narrows what is supported; in a bootstrap a denial counts.
WantsFlow(j, caps) == /\ Shown(j.res.session) /\ "history" \in caps
                      /\ j.boot => j.res.private /\ j.binding.private
ReadCaps(j) ==
    /\ j.step = "caps"
    /\ \/ j.boot /\ ~TicketLive(j) /\ Fail(j, "context_changed")
       \/ j.boot /\ "denied" \in Faults /\ Fail(j, "denied")
       \/ (~BindingHolds(j) \/ Faults # {}) /\ ~j.boot /\ Post(j, j.res)
       \/ j.boot /\ "unavailable" \in Faults /\ Post(j, j.res)
       \/ /\ IF j.boot THEN TicketLive(j) ELSE BindingHolds(j)
          /\ \E caps \in CapsAnswers :
               LET res == [j.res EXCEPT !.caps = caps]
               IN  IF WantsFlow(j, caps) THEN Advance(j, "conv", res) ELSE Post(j, res)
    /\ UNCHANGED core

\* _read_conversation: the newest retained page of the Session just read.
ReadFlow(j) ==
    LET c == [owner |-> core.mapped, sid |-> j.res.session.sid, rev |-> core.rev, view |-> 0]
        lost == IF j.boot \/ j.act = "question" THEN Fail(j, "unavailable") ELSE Post(j, j.res)
        served == Admits(j) /\ Saved(j.res.session.sid)
    IN  /\ j.step = "conv"
        /\ \/ ~TicketLive(j) /\ Fail(j, "context_changed")
           \/ TicketLive(j) /\ "denied" \in Faults /\ Fail(j, "denied")
           \/ TicketLive(j) /\ (~served \/ "unavailable" \in Faults) /\ lost
           \/ TicketLive(j) /\ served /\ Post(j, [j.res EXCEPT !.conv = c])
        /\ UNCHANGED core

\* History list, one saved Session's timeline, or a search in it.
ArchiveFence(j) ==
    /\ BindingHolds(j)
    /\ j.act \in HistoryReads \cup SearchReads \cup {"timeline_extend"} =>
         ui.foreground /\ SameView(ui, j)
    /\ j.act = "timeline_extend" => TicketMatches(ui, j)
ReadArchive(j) ==
    LET c == [owner |-> core.mapped, sid |-> j.sid, rev |-> core.rev, view |-> j.view]
        served == Admits(j) /\ (j.act \in HistoryReads \/ Saved(j.sid))
    IN  /\ j.step = "read"
        /\ \/ ~ArchiveFence(j) /\ Fail(j, "context_changed")
           \/ ArchiveFence(j) /\ ~served /\ Fail(j, "unavailable")
           \/ ArchiveFence(j) /\ \E f \in Faults : Fail(j, f)
           \/ ArchiveFence(j) /\ served /\ Post(j, [j.res EXCEPT !.panel = c])
        /\ UNCHANGED core

Work(j) == /\ Runs(j)
           /\ \/ Write(j) \/ ReadActive(j) \/ Probe(j) \/ ReadCaps(j) \/ ReadFlow(j) \/ ReadArchive(j)
           /\ UNCHANGED ui

-----------------------------------------------------------------------------
(* The rest of the UI process and of the world *)

Elsewhere == UNCHANGED <<jobs, ready, core>>

\* HAClient.apply_profile_context, on a worker thread: the Profile Core resolved for
\* the device replaces the one in the shared configuration, and nothing else moves.
ResolveProfile == /\ "resolve" \in Intents /\ Paired(ui) /\ ui.cfg.active # core.mapped
                  /\ ui' = [ui EXCEPT !.cfg.active = core.mapped] /\ Elsewhere

\* _sync_config_from_disk: a pairing stored (or removed) by the Client API daemon.
SyncConfig(t) == /\ "pair" \in Intents /\ t # ui.cfg.token
                 /\ ui' = [ui EXCEPT !.cfg.token = t] /\ Elsewhere

\* _forget_pairing
ForgetPairing ==
    /\ "pair" \in Intents /\ Budget /\ Paired(ui)
    /\ ui' = Invalidate([ui EXCEPT !.cfg = [token |-> NoToken, active |-> NoProfile,
                                            explicit |-> NoProfile]])
    /\ Elsewhere

\* Core maps the device to another Profile.
Remap(p) == /\ "remap" \in Intents /\ p # core.mapped
            /\ core' = [core EXCEPT !.mapped = p] /\ UNCHANGED <<ui, jobs, ready>>

\* Another client of Core starts or ends a Session.
Other(p) ==
    LET n == core.rev + 1
    IN  /\ "other" \in Intents /\ core.rev < MaxRev
        /\ core' = IF core.live[p] = 0
                   THEN [core EXCEPT !.rev = n, !.by[n] = p, !.live[p] = n]
                   ELSE [core EXCEPT !.rev = n, !.live[p] = 0]
        /\ UNCHANGED <<ui, jobs, ready>>

-----------------------------------------------------------------------------

Init == /\ \E t \in Tokens, p \in Owners :
             ui = FreshUi([token |-> t, active |-> p, explicit |-> NoProfile])
        /\ jobs = {} /\ ready = <<>>
        /\ core \in [mapped : Profiles, live : {[p \in Profiles |-> 0]},
                     by : {[n \in 1..MaxRev |-> NoProfile]}, rev : {0}]

Slot == \/ Refresh \/ Start \/ End \/ SendQuestion
        \/ \E a \in HistoryReads : LoadHistory(a)
        \/ \E a \in TimelineReads \cup SearchReads :
              \/ \E sid \in 1..MaxRev : OpenView(a, sid)
              \/ PageTimeline(a) \/ PageSearch(a)
        \/ CloseSaved \/ ClearSearch \/ CloseArchive
        \/ \E sel \in Selections : Select(sel)
        \/ SetForeground \/ ConfirmProfile \/ Tick \/ ReadState
Environment == \/ ResolveProfile \/ ForgetPairing
               \/ \E t \in Tokens \cup {NoToken} : SyncConfig(t)
               \/ \E p \in Profiles : Remap(p) \/ Other(p)
Next == Slot \/ Apply \/ (\E j \in jobs : Work(j)) \/ Environment

Spec == Init /\ [][Next]_vars

\* Threads and the event loop are fair: each executor keeps taking exchanges, the GUI
\* thread keeps delivering posted results.
Lane(question) == \E j \in jobs : (j.act = "question") = question /\ Work(j)
Fairness == WF_vars(Apply) /\ WF_vars(Lane(TRUE)) /\ WF_vars(Lane(FALSE))
FairSpec == Spec /\ Fairness

-----------------------------------------------------------------------------
(* Properties *)

\* Every field has its type, and the lanes their shape (_launch, _apply).
TypeOK == ui \in Ui /\ jobs \subseteq Jobs /\ ready \in Seq(Jobs) /\ core \in CoreType

Panels(u) == {u.session, u.conv, u.archive, u.timeline, u.search}

\* While Core's disclosed owner scope is in force, every panel the state property
\* hands to QML belongs to that owner: no panel outlives a change of owner.
ScopeOwnsScreen ==
    ScopeCurrent(ui) => \A c \in Panels(ui) : Shown(c) => c.owner = ui.scope.owner

\* The Flow on screen is always the Flow of the Session on screen, although the
\* two are written by results of different lanes (_apply).
FlowOfSession == Shown(ui.conv) => Shown(ui.session) /\ ui.conv.sid = ui.session.sid

\* A pending question, a receipt and a current reply belong to the Session on
\* screen, whichever of end, refresh or the answer is applied first (_withdraw_question).
QuestionOfSession == \A s \in {ui.pending, ui.receipt, ui.reply} : s # 0 => s = ui.session.sid

\* Why the two hold: a Session id belongs to a shown Session, a job carries only the
\* Flow of the Session it read, and a question that still has its display authority
\* was asked about the Session on screen.
Known(c)      == Shown(c) <=> c.sid # 0
Coherent(u)   == /\ Known(u.session)
                 /\ Shown(u.conv) => Shown(u.session) /\ u.conv.sid = u.session.sid
                 /\ {u.pending, u.receipt, u.reply} \subseteq {0, u.session.sid}
JobCoherent(u, j) ==
    /\ Known(j.res.session)
    /\ j.step # "done" => ~Shown(j.res.conv)
    /\ Shown(j.res.conv) => Shown(j.res.session) /\ j.res.conv.sid = j.res.session.sid
    /\ j.act = "question" => /\ j.sid # 0 /\ j.qe <= u.qEpoch
                             /\ j.qe = u.qEpoch => j.sid = u.session.sid
                             /\ Shown(j.res.session) => j.res.session.sid = j.sid
InFlight      == jobs \cup {ready[i] : i \in DOMAIN ready}
SessionInv    == TypeOK /\ Coherent(ui) /\ \A j \in InFlight : JobCoherent(ui, j)

\* Whatever a result installs belongs to the owner the result itself discloses, or else
\* to the one the device was bound to when it arrived, however long it waited (_apply's
\* binding check).  A lifecycle write's own result takes a disclosed scope away.
OwnerOnArrival(u, v) == IF Shown(v.scope) THEN v.scope.owner ELSE Binding(u).profile
InstalledForCurrentOwner ==
    [][\A c \in Panels(ui') \ Panels(ui) : Shown(c) => c.owner = OwnerOnArrival(ui, ui')]_vars

\* A displayed Session snapshot is never replaced by one that Core read out earlier:
\* End may overtake a read, the overtaken read may not come back (_apply's ticket check).
NeverAnOlderSession ==
    [][Shown(ui.session) /\ Shown(ui'.session) => ui'.session.rev >= ui.session.rev]_vars

\* A page asked for before the user left a view never appears in the next one.
DismissedStaysDismissed ==
    [][\A c \in {ui'.archive, ui'.timeline, ui'.search} \ Panels(ui) :
         Shown(c) => c.view = ui.viewEpoch]_vars

\* Every ticket comes back: no lane stays busy for good.
TicketReturns ==
    \A n \in 1..(2 * MaxSerial + 1) : /\ (ui.running = n) ~> (ui.running # n)
                                      /\ (ui.qRunning = n) ~> (ui.qRunning # n)
=============================================================================
