---------------------------- MODULE ProfilePages ----------------------------
(***************************************************************************)
(* The pages that show what a Profile owns: Ask DJ, Music DNA, Discover    *)
(* and Track Insight, beside the playback commands (app.py, ha.py).        *)
(*                                                                         *)
(* The GUI puts jobs in the queue of one worker thread.  A job notes the   *)
(* context it starts in, sends its request (FastPath), and posts what came *)
(* back to the GUI, which drops results of another context.  Core resolves *)
(* the Profile; the client writes the Profile of every answer into the     *)
(* configuration, which the GUI also replaces by the copy on disk.         *)
(***************************************************************************)
EXTENDS FastPath

CONSTANTS
    Profiles, NoProfile,
    Kinds,       \* kinds of job the user and the timers start
    HistoryLimit,\* messages of a Profile that Core keeps
    MaxRev,      \* bound on the messages of a Profile
    MaxJobs,     \* bound on jobs
    MaxTokens,   \* bound on pairings
    MaxMoves     \* bound on changes of the resolved Profile, the owner, and clears elsewhere

ASSUME PageBounds == {MaxRev, MaxJobs, MaxTokens, MaxMoves} \subseteq Nat
ASSUME PageLimit  == HistoryLimit \in Nat \ {0}
ASSUME PageKinds  == Kinds \subseteq 
    {"poll", "load", "clear", "action", "insight", "dna", "settings", "feed", "accept", "pick", "feedback",
     "status", "control", "media", "queue", "save"}
ASSUME PageProfiles == Profiles # {} /\ NoProfile \notin Profiles

VARIABLES
    core,      \* Core: resolved Profile; per Profile messages, those no longer kept, clear revision
    cfg,       \* the configuration in memory: token (0: not paired), Profile
    disk,      \* the configuration file
    epoch,     \* the Session screen's owner epoch
    queue,     \* jobs the worker has not begun
    job,       \* each thread's job
    mail,      \* results posted to the GUI
    lanes,     \* busy flags: poll in flight, Ask DJ, Music DNA, Discover, queue, favorite, any task
    ask,       \* Ask DJ: messages, history revision, clear revision, backoff;
               \* history: messages that have been on screen since the revisions were last reset
    page,      \* the Profile whose content a page shows
    count,     \* bounds: jobs started, moves; history: has the Profile or the owner moved
    cleared    \* history: messages whose clearing was shown


vars == <<transport, core, cfg, disk, epoch, queue, job, mail, lanes, ask, page, count, cleared>>

-----------------------------------------------------------------------------

Messages == Profiles \X (1..MaxRev)
Configs  == [token : 0..MaxTokens, profile : Profiles \cup {NoProfile}]
Lanes    == {"polling", "ask", "dna", "discover", "queue", "favorite", "task"}
Pages    == {"dna", "discover", "insight"}
NoAsk    == [shown |-> {}, rev |-> 0, clear |-> 0, backoff |-> FALSE, met |-> {}]
NoData   == [kind |-> "poll", profile |-> NoProfile, new |-> {}, rev |-> 0, clear |-> 0, floor |-> 0,
             cleared |-> FALSE, full |-> FALSE]
NoJob    == [step |-> "idle", kind |-> "poll", left |-> <<>>, ticket |-> <<>>, since |-> 0, data |-> NoData]

\* The requests of a job.  Accepting Discover's terms enables Music DNA and reads
\* the feed; playing one of its items and feedback on one read the feed again.
\* Playing an item of a list reads the queue again.
Requests(kind) == CASE kind = "accept"   -> <<"settings", "feed">>
                    [] kind = "pick"     -> <<"play", "feed">>
                    [] kind = "feedback" -> <<"feedback", "feed">>
                    [] kind = "media"    -> <<"command", "queue">>
                    [] kind \in {"control", "save"} -> <<"command">>
                    [] OTHER             -> <<kind>>

Lane(kind) == CASE kind = "poll" -> "polling"
                [] kind \in {"load", "clear", "action", "insight"} -> "ask"
                [] kind \in {"dna", "settings"} -> "dna"
                [] kind \in {"feed", "accept", "pick", "feedback"} -> "discover"
                [] kind = "queue" -> "queue"
                [] kind = "save"  -> "favorite"
                [] OTHER -> "task"
\* The playback controls queue a command whatever is under way.
Controls == {"control", "media"}
\* The flags a job puts up; playing an item of Discover leaves the page usable.
Raised(kind) == (IF kind = "pick" THEN {} ELSE {Lane(kind)}) \cup (IF kind = "poll" THEN {} ELSE {"task"})
Page(kind) == CASE kind \in {"dna", "settings"} -> "dna" [] kind = "feed" -> "discover" [] kind = "insight" -> "insight"
HasPage(kind) == kind \in {"dna", "settings", "feed", "insight"}

\* playback_from_status: answers that say what is playing.
Playback(kind) == kind \in {"status", "command"}
\* Answers that say what is playing, and lists, are posted without a ticket.
Ticketless(kind) == Playback(kind) \/ kind = "queue"

\* _private_read_context: what a result must still agree with.
Context == <<cfg.token, cfg.profile, epoch>>

-----------------------------------------------------------------------------
(* Caches *)

\* Mutant of AskCleared: the revisions are not reset with the messages.
AskKeepingRev == [NoAsk EXCEPT !.rev = ask.rev]
\* _clear_ask_dj_cache
AskCleared == NoAsk

\* _clear_profile_scoped_caches: the pages, the Ask DJ cursors, the poll's flag
\* and, with it, the Session screen's epoch.
ClearPages ==
    /\ ask' = AskCleared
    /\ lanes' = lanes \ {"polling"}
    /\ page' = [p \in Pages |-> NoProfile]
    /\ epoch' = epoch + 1

\* HAClient.apply_profile_context: the Profile of the answer, when it names one.
Adopted(p) == IF p = NoProfile THEN cfg ELSE [cfg EXCEPT !.profile = p]

-----------------------------------------------------------------------------
(* Slots and timers in the GUI thread *)

\* _sync_config_from_disk: the file wins over memory.
Synced == disk

\* refresh() looks for a pairing stored by the daemon only while not paired; the
\* playback controls never look.
Wants(kind) == IF kind \in Controls \/ (kind = "status" /\ cfg.token # 0) THEN cfg ELSE Synced

\* A second job of a lane waits for its flag; the lists load one at a time.
Free(kind) == kind \in Controls \/ Lane(kind) \notin lanes

Start(kind) ==
    /\ count.jobs < MaxJobs
    /\ cfg' = Wants(kind)
    /\ cfg'.token # 0
    /\ Free(kind)
    /\ kind = "poll" => "ask" \notin lanes /\ ~ask.backoff
    /\ lanes' = lanes \cup Raised(kind)
    /\ queue' = Append(queue, kind)
    /\ count' = [count EXCEPT !.jobs = @ + 1]
    /\ UNCHANGED <<transport, core, disk, epoch, job, mail, ask, page, cleared>>

\* The backoff of a failed poll is over.
Retry ==
    /\ ask.backoff
    /\ ask' = [ask EXCEPT !.backoff = FALSE]
    /\ UNCHANGED <<transport, core, cfg, disk, epoch, queue, job, mail, lanes, page, count, cleared>>

\* _session_owner_changed: the Session screen found another owner.
OwnerChanged ==
    /\ count.moves < MaxMoves
    /\ count' = [count EXCEPT !.moves = @ + 1, !.moved = TRUE]
    /\ ClearPages
    /\ UNCHANGED <<transport, core, cfg, disk, queue, job, mail, cleared>>

-----------------------------------------------------------------------------
(* Core *)

\* The messages of an answer: those a read of the history has not had, or the
\* exchange an action wrote (Say), of what Core has not cleared or trimmed.
Fresh(c, kind, since) ==
    LET p == c.profile IN
    {<<p, n>> : n \in {n \in (c.floor[p] + 1)..c.rev[p] : IF kind = "action" THEN n = c.rev[p] ELSE n > since}}

\* What Core says.  An answer about Ask DJ may say success with its clear revision
\* (full), and says which messages Core no longer keeps (floor).
AboutAskDj(kind) == kind \in {"poll", "load", "action", "clear"}
Served(c, kind, since, full) ==
    LET p == c.profile
        all == [NoData EXCEPT !.kind = kind, !.profile = p] IN
    IF AboutAskDj(kind)
    THEN [all EXCEPT !.new = Fresh(c, kind, since), !.rev = c.rev[p], !.clear = c.clear[p], !.floor = c.floor[p],
                     !.cleared = (kind = "clear"), !.full = full]
    ELSE all

Wiped == [core EXCEPT !.floor[core.profile] = core.rev[core.profile], !.clear[core.profile] = @ + 1]

\* A message is written; the oldest one that does not fit is trimmed.
Said == LET p == core.profile
            kept == core.rev[p] - core.floor[p] IN
        [core EXCEPT !.rev[p] = @ + 1, !.floor[p] = IF kept < HistoryLimit THEN @ ELSE @ + 1]

Say ==
    /\ core.rev[core.profile] < MaxRev
    /\ core' = Said
    /\ UNCHANGED <<transport, cfg, disk, epoch, queue, job, mail, lanes, ask, page, count, cleared>>

\* Another device clears the history; the device or the room is mapped to another Profile.
Elsewhere ==
    /\ count.moves < MaxMoves
    /\ \/ core' = Wiped /\ count' = [count EXCEPT !.moves = @ + 1]
       \/ \E p \in Profiles \ {core.profile} :
             /\ core' = [core EXCEPT !.profile = p]
             /\ count' = [count EXCEPT !.moves = @ + 1, !.moved = TRUE]
    /\ UNCHANGED <<transport, cfg, disk, epoch, queue, job, mail, lanes, ask, page, cleared>>

\* The daemon stores a new pairing.
Pair ==
    /\ disk.token = 0 /\ count.tokens < MaxTokens
    /\ count' = [count EXCEPT !.tokens = @ + 1]
    /\ disk' = [disk EXCEPT !.token = count.tokens + 1]
    /\ UNCHANGED <<transport, core, cfg, epoch, queue, job, mail, lanes, ask, page, cleared>>

-----------------------------------------------------------------------------
(* The worker *)

Begin(w) ==
    /\ job[w].step = "idle" /\ queue # <<>>
    /\ LET requests == Requests(Head(queue)) IN
       /\ job' = [job EXCEPT ![w] = [NoJob EXCEPT !.step = "call", !.kind = Head(queue), !.left = Tail(requests),
                                     !.ticket = Context, !.since = ask.rev]]
       /\ Open(w, Head(requests))
    /\ queue' = Tail(queue)
    /\ UNCHANGED <<routes, core, cfg, disk, epoch, mail, lanes, ask, page, count, cleared>>

\* One attempt; Core answers at the moment it carries the request out.
Send(w) ==
    /\ Travel(w)
    /\ core' = IF call[w].kind = "clear" /\ call'[w].ran > call[w].ran THEN Wiped ELSE core
    /\ \E full \in BOOLEAN :
          job' = IF call'[w].stage = "answered"
                 THEN [job EXCEPT ![w].data = Served(core', call[w].kind, job[w].since, full)] ELSE job
    /\ UNCHANGED <<cfg, disk, epoch, queue, mail, lanes, ask, page, count, cleared>>

\* The client writes the answer's Profile into the configuration before the
\* backend sees the answer; clearing the history does not.  Of some answers the
\* backend does not ask whose they are.
Unasked(kind) == kind \in {"clear", "feedback"} \/ Ticketless(kind)

Land(w) ==
    /\ job[w].step = "call" /\ call[w].stage = "answered"
    /\ cfg' = IF call[w].kind = "clear" THEN cfg ELSE Adopted(job[w].data.profile)
    /\ call' = [call EXCEPT ![w] = NoCall]
    /\ job' = [job EXCEPT ![w].step = IF Unasked(call[w].kind) THEN "post" ELSE "check"]
    /\ UNCHANGED <<routes, link, core, disk, epoch, queue, mail, lanes, ask, page, count, cleared>>

\* Mutant of Dropped: the poll's flag is left up when its answer is dropped.
DroppedBusy(kind) == IF kind = "poll" THEN {} ELSE Raised(kind)
\* The flags a job takes down when it ends, whatever came of it.
Dropped(kind) == Raised(kind)

End(w) ==
    /\ job' = [job EXCEPT ![w] = NoJob]
    /\ lanes' = lanes \ Dropped(job[w].kind)

\* _profile_read_result
Post(data, ticket) == mail' = Append(mail, [ticket |-> ticket, data |-> data])

\* ticket != _private_read_context(): the answer belongs to another context.
\* Otherwise its Profile is applied, and a change of Profile clears the pages.
Check(w) ==
    /\ job[w].step = "check"
    /\ \/ /\ job[w].ticket # Context
          /\ End(w)
          /\ UNCHANGED <<cfg, disk, epoch, ask, page>>
       \/ /\ job[w].ticket = Context
          /\ job' = [job EXCEPT ![w].step = "post"]
          /\ cfg' = Adopted(job[w].data.profile)
          /\ IF cfg' # cfg THEN ClearPages /\ disk' = cfg' ELSE UNCHANGED <<disk, epoch, lanes, ask, page>>
    /\ UNCHANGED <<transport, core, queue, mail, count, cleared>>

\* A new ticket where the first one was compared.
Ticket(w) == IF Ticketless(job[w].data.kind) THEN <<>>
             ELSE IF job[w].data.kind \in {"clear", "feedback"} THEN job[w].ticket ELSE Context

\* The configuration saved, and the next request of the job.
Proceed(w) ==
    /\ job[w].step = "post" /\ job[w].left # <<>>
    /\ disk' = cfg
    /\ IF job[w].kind \in {"accept", "media"} THEN Post(job[w].data, Ticket(w)) ELSE UNCHANGED mail
    /\ job' = [job EXCEPT ![w].step = "call", ![w].left = Tail(@), ![w].ticket = Ticket(w)]
    /\ Open(w, Head(job[w].left))
    /\ UNCHANGED <<routes, core, cfg, epoch, queue, lanes, ask, page, count, cleared>>

\* The answer to playing an item of Discover may say what is playing; it is
\* posted beside the feed.
Playing == [ticket |-> <<>>, data |-> [NoData EXCEPT !.kind = "command"]]
PostPlayed(data, ticket) == mail' = Append(Append(mail, Playing), [ticket |-> ticket, data |-> data])

\* The configuration saved, the last result posted.
Finish(w) ==
    /\ job[w].step = "post" /\ job[w].left = <<>>
    /\ disk' = cfg
    /\ \/ Post(job[w].data, Ticket(w))
       \/ job[w].kind = "pick" /\ PostPlayed(job[w].data, Ticket(w))
    /\ End(w)
    /\ ask' = IF job[w].kind = "poll" THEN [ask EXCEPT !.backoff = FALSE] ELSE ask
    /\ UNCHANGED <<transport, core, cfg, epoch, queue, page, count, cleared>>

\* _forget_pairing: only an HTTP refusal gets here, and of some jobs it is
\* reported as an unreachable backend instead.
Forgets(kind) == kind \in {"clear", "action", "insight", "dna", "settings", "status", "control", "media", "queue", "save"}

Forget(w) ==
    /\ job[w].step = "call" /\ call[w].stage = "refused" /\ Forgets(job[w].kind) /\ cfg.token # 0
    /\ cfg' = [token |-> 0, profile |-> NoProfile]
    /\ disk' = cfg'
    /\ ask' = AskCleared
    /\ page' = [p \in Pages |-> NoProfile]
    /\ epoch' = epoch + 1
    /\ job' = [job EXCEPT ![w] = NoJob]
    /\ lanes' = lanes \ (Dropped(job[w].kind) \cup {"polling"})
    /\ call' = [call EXCEPT ![w] = NoCall]
    /\ UNCHANGED <<routes, link, core, queue, mail, count, cleared>>

\* Every other failure: a poll backs off; a Music DNA or Track Insight job posts
\* an error for its page.
Fail(w) ==
    /\ job[w].step = "call"
    /\ \/ call[w].stage \in {"lost", "uncertain"}
       \/ call[w].stage = "refused" /\ (~Forgets(job[w].kind) \/ cfg.token = 0)
    /\ End(w)
    /\ ask' = IF job[w].kind = "poll" THEN [ask EXCEPT !.backoff = TRUE] ELSE ask
    /\ IF job[w].kind \in {"dna", "settings", "insight"} /\ call[w].stage # "refused"
       THEN Post([NoData EXCEPT !.kind = job[w].kind], job[w].ticket) ELSE UNCHANGED mail
    /\ call' = [call EXCEPT ![w] = NoCall]
    /\ UNCHANGED <<routes, link, core, cfg, disk, epoch, queue, page, count, cleared>>

Work(w) == Begin(w) \/ Send(w) \/ Land(w) \/ Check(w) \/ Proceed(w) \/ Finish(w) \/ Forget(w) \/ Fail(w)

-----------------------------------------------------------------------------
(* Results in the GUI thread *)

\* _profile_result_current
ResultCurrent(m) == m.ticket = Context

\* clear_ack: an acknowledged clear, or success with a clear revision and no
\* messages, whatever was asked.
ClearAck(d) == d.cleared \/ (d.full /\ d.new = {})
\* The answer empties the screen: _clear_ask_dj_cache(reset_revisions=False).
Wipes(a, d) == ClearAck(d) \/ d.clear > a.clear

\* History: what has been on screen, and what the answer of an action let the
\* history revision step over (the messages it does not carry).
Met(a, shown, d) == a.met \cup shown \cup (IF d.kind = "action" THEN {d.profile} \X (1..d.rev) ELSE {})

\* _apply_ask_dj_data on what the screen holds: an acknowledged clear leaves
\* nothing; otherwise a newer clear revision empties it, messages that Core no
\* longer keeps go, and the answer's are merged in.
Merged(a, d) ==
    LET kept  == IF Wipes(a, d) THEN {} ELSE {m \in a.shown : m[2] > d.floor}
        shown == IF ClearAck(d) THEN {} ELSE kept \cup d.new IN
    [a EXCEPT !.shown = shown,
              !.clear = IF d.clear > @ THEN d.clear ELSE @,
              !.rev   = IF d.rev > @ THEN d.rev ELSE @,
              !.backoff = IF Wipes(a, d) THEN FALSE ELSE @,
              !.met   = Met(a, shown, d)]

\* _apply_playback: another track takes the insight of the former one away.
Played(kind, same, pages) == IF Playback(kind) /\ ~same THEN [pages EXCEPT !["insight"] = NoProfile] ELSE pages

Deliver ==
    /\ mail # <<>>
    /\ mail' = Tail(mail)
    /\ LET m == Head(mail)
           apply == ~Ticketless(m.data.kind) /\ ResultCurrent(m)
           paged == apply /\ HasPage(m.data.kind)
           asked == apply /\ ~HasPage(m.data.kind)
           changed == apply /\ Adopted(m.data.profile) # cfg
           wiped == asked /\ Wipes(ask, m.data)
           forgotten == asked /\ (m.data.cleared \/ m.data.clear > ask.clear)
           now == IF changed THEN AskCleared ELSE ask
           there == IF changed THEN [p \in Pages |-> NoProfile] ELSE page IN
       /\ \E same \in BOOLEAN : page' =
             IF paged THEN [there EXCEPT ![Page(m.data.kind)] = m.data.profile] ELSE Played(m.data.kind, same, there)
       /\ cfg' = IF apply THEN Adopted(m.data.profile) ELSE cfg
       /\ disk' = IF changed THEN cfg' ELSE disk
       /\ epoch' = IF changed THEN epoch + 1 ELSE epoch
       /\ ask' = IF asked THEN Merged(now, m.data) ELSE now
       /\ lanes' = IF changed \/ wiped THEN lanes \ {"polling"} ELSE lanes
       /\ cleared' = cleared \cup (IF forgotten THEN {m.data.profile} \X (1..m.data.floor) ELSE {})
    /\ UNCHANGED <<transport, core, queue, job, count>>

-----------------------------------------------------------------------------

Init ==
    /\ TransportInit
    /\ LET p == CHOOSE p \in Profiles : TRUE IN
          /\ core = [profile |-> p, rev |-> [q \in Profiles |-> 0], floor |-> [q \in Profiles |-> 0], clear |-> [q \in Profiles |-> 0]]
          /\ cfg = [token |-> 1, profile |-> p]
    /\ disk = cfg /\ epoch = 0
    /\ queue = <<>> /\ mail = <<>>
    /\ job = [w \in Workers |-> NoJob]
    /\ lanes = {} /\ ask = NoAsk
    /\ page = [p \in Pages |-> NoProfile]
    /\ count = [jobs |-> 0, moves |-> 0, tokens |-> 1, moved |-> FALSE]
    /\ cleared = {}

Link == (Heal \/ Rollback) /\ UNCHANGED <<core, cfg, disk, epoch, queue, job, mail, lanes, ask, page, count, cleared>>
Gui  == (\E kind \in Kinds : Start(kind)) \/ Retry \/ OwnerChanged \/ Deliver

Next == Gui \/ (\E w \in Workers : Work(w)) \/ Link \/ Say \/ Elsewhere \/ Pair

Spec == Init /\ [][Next]_vars

-----------------------------------------------------------------------------

\* ClearedStaysCleared: a message whose clearing was shown never comes back, whatever
\* reads were under way when it was cleared (_apply_ask_dj_data, one worker thread).
ClearedStaysCleared == ask.shown \cap cleared = {}

\* NoGap: while Core resolved one Profile and the Session's owner stayed, every message up
\* to the history revision that Core still keeps has been on screen since the revisions
\* were last reset, but for those the answer of an action stepped over: no poll, load,
\* clear, trim, empty answer, forgotten pairing, late answer or retry makes the cursor
\* of the polls pass a message unseen (_apply_ask_dj_data, _clear_ask_dj_cache).
NoGap == ~count.moved =>
    \A p \in Profiles, n \in 1..MaxRev :
        p = core.profile /\ core.floor[p] < n /\ n <= ask.rev => <<p, n>> \in ask.met

\* LanesHeld: a busy flag is up only while a job of its lane waits or runs, so it comes
\* down when the worker gets there, also when the answer is dropped, refused or lost
\* (_run, _poll_ask_dj_history_worker): no page is left busy for good.
LanesHeld == \A l \in lanes : \E kind \in {queue[i] : i \in DOMAIN queue} \cup {job[w].kind : w \in {w \in Workers : job[w].step # "idle"}} :
    IF l = "task" THEN kind # "poll" ELSE l = Lane(kind)

\* OneProfileShown: what the pages show belongs to one Profile.  README.md: "When the
\* backend-resolved profile changes, Ask DJ history, Music DNA, Discover and Track
\* Insight view state are cleared before rendering the new profile's data."
OneProfileShown == \A p, q \in {m[1] : m \in ask.shown} \cup {page[g] : g \in Pages} : p # q => NoProfile \in {p, q}
=============================================================================
