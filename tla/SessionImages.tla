---------------------------- MODULE SessionImages ----------------------------
(***************************************************************************)
(* What may be shown of a Session only for a while: the Forecast text      *)
(* (session_forecast.py), the artist image that comes with it              *)
(* (session_forecast_image.py) and the artwork of the current moment       *)
(* (session_artwork.py), under a clock that never goes back.               *)
(*                                                                         *)
(* Each read of the owner may renew, shorten, replace, end or garble what  *)
(* is granted, in any order of revisions.  Receiver and gates latch what   *)
(* was withdrawn; a worker per pane fetches pixels for the latest lease.   *)
(***************************************************************************)
EXTENDS Integers, FiniteSets

CONSTANTS
    Nothing,     \* nothing granted, nothing shown, no job
    MaxRev,      \* Forecast revisions are 1..MaxRev
    Bodies,      \* Forecast contents, each with an image of its own
    Keys,        \* prepared artworks of moments; all are the same asset
    MaxTime,     \* bound on the time that passes
    MaxSessions  \* bound on Sessions

ASSUME ImagesBounds == {MaxRev, MaxTime, MaxSessions} \subseteq Nat

VARIABLES
    clock,     \* ExpiryClock.now, which never goes back
    screen,    \* SessionController: Session number and snapshot
    text,      \* ForecastReceiver
    gate,      \* ImageGate
    latch,     \* ArtworkGate
    pane,      \* ForecastImages and MomentImages: visible, desired, public, attempted, and
               \* whether its binding is still the transport's (own)
    job,       \* their workers
    over,      \* history: what was on screen and was withdrawn
    only       \* bound: the pane Core grants something for in this behaviour

images == <<clock, screen, text, gate, latch, pane, job, over, only>>

-----------------------------------------------------------------------------

Panes  == {"forecast", "moment"}
Revs   == 1..MaxRev
Times  == 1..MaxTime
Least(a, b) == IF a < b THEN a ELSE b
Most(a, b)  == IF a < b THEN b ELSE a

\* What a read says of the Forecast.  exp is the image's own expiry, 0 without image; as a
\* bound, an image lasts as long as the text it comes with.
Ready     == {f \in [state : {"ready"}, rev : Revs, until : Times, body : Bodies, exp : {0} \cup Times] :
                f.exp \in {0, f.until}}
Forecasts == Ready \cup [state : {"ended", "bad"}, rev : Revs]
Artworks  == [key : Keys, exp : Times]
ImageLeases == [id : Revs \cup Keys, path : Bodies \cup {Nothing}, exp : Times, deadline : Times]
Shown     == [rev : Revs, until : Times, body : Bodies]
NoText    == [rev |-> 0, term |-> 0, until |-> 0, val |-> Nothing, sig |-> Nothing]
\* A gate's context is binding and Session: the number of the Session while the binding
\* is the one the transport has now, and Other once it is not.
Other     == -1
NoGate(c) == [ctx |-> c, rev |-> 0, term |-> 0, sig |-> Nothing, floors |-> [b \in Bodies |-> MaxTime]]
NoLatch(c) == [ctx |-> c, prev |-> Nothing, seen |-> [k \in Keys |-> 0], revoked |-> {}, floor |-> MaxTime]

Now     == clock

ASSUME NothingIsApart == Nothing \notin Keys /\ Nothing \notin ImageLeases /\ Nothing \notin Shown

-----------------------------------------------------------------------------
(* ForecastReceiver *)

\* The deadline of what is withdrawn decides nothing any more.
Withdrawn(r) == [r EXCEPT !.val = Nothing, !.sig = Nothing, !.until = 0]

\* expire
Expired(r) == IF r.val # Nothing /\ Now >= r.until THEN Withdrawn([r EXCEPT !.term = Most(@, r.rev)]) ELSE r

\* Mutant of Shortened: the deadline that came last counts.
Renewed(r, f)   == f.until
Shortened(r, f) == IF f.rev = r.rev THEN Least(r.until, f.until) ELSE f.until

\* receive; projection takes a passed deadline for an end.
Received(r, f) ==
    LET ended == f.state = "ended" \/ (f.state = "ready" /\ f.until <= Now)
    IN  IF f.state = "bad" THEN Withdrawn([r EXCEPT !.term = Most(Most(@, r.rev), f.rev)])
        ELSE IF f.rev < r.rev \/ f.rev < r.term \/ (f.rev = r.term /\ ~ended)
             THEN Withdrawn([r EXCEPT !.term = Most(@, r.rev)])
        ELSE IF ended THEN Withdrawn([r EXCEPT !.rev = f.rev, !.term = Most(@, f.rev)])
        ELSE IF f.rev = r.rev /\ f.body # r.sig THEN Withdrawn([r EXCEPT !.term = Most(@, f.rev)])
        ELSE LET until == Shortened(r, f)
             IN  Expired([r EXCEPT !.rev = f.rev, !.until = until, !.sig = f.body,
                                   !.val = [rev |-> f.rev, until |-> until, body |-> f.body]])

-----------------------------------------------------------------------------
(* The gates.  Each returns its new state and the lease it admits. *)

Denied(g) == [gate |-> g, lease |-> Nothing]

\* image_lease, of the part of the snapshot that it reads.
Imagery(f)  == IF f = Nothing THEN Nothing
               ELSE IF f.state = "ready" /\ f.exp # 0 THEN [rev |-> f.rev, path |-> f.body, exp |-> f.exp]
               ELSE [rev |-> f.rev, path |-> Nothing, exp |-> 0]
Image(s, r) ==
    LET f == s.imagery
    IN  IF f # Nothing /\ r.val # Nothing /\ f.rev = r.val.rev /\ f.exp # 0
        THEN [id |-> f.rev, path |-> f.path, exp |-> f.exp, deadline |-> Least(f.exp, r.val.until)]
        ELSE Nothing

\* ImageGate.admit.  The signature of a revision that is latched is never looked at again.
AdmitImage(g0, s, r) ==
    LET g     == IF g0.ctx = s.sid THEN g0 ELSE NoGate(s.sid)
        lease == Image(s, r)
        rev   == IF s.imagery = Nothing THEN 0 ELSE s.imagery.rev
        floor == Least(g.floors[lease.path], lease.exp)
        kept  == [g EXCEPT !.rev = rev, !.sig = lease, !.floors[lease.path] = floor]
        due   == Least(lease.deadline, floor)
    IN  IF s.imagery = Nothing THEN Denied([g EXCEPT !.term = Most(@, g.rev), !.sig = Nothing])
        ELSE IF lease = Nothing \/ rev < g.rev \/ rev <= g.term \/ (rev = g.rev /\ lease # g.sig)
             THEN Denied([g EXCEPT !.term = Most(Most(@, g.rev), rev), !.rev = Most(@, rev), !.sig = Nothing])
        ELSE IF due <= Now THEN Denied([kept EXCEPT !.term = Most(@, rev), !.sig = Nothing])
        ELSE [gate |-> kept, lease |-> [lease EXCEPT !.deadline = due]]

\* artwork_lease
Artwork(s) ==
    IF s.art = Nothing THEN Nothing
    ELSE IF Now >= s.art.exp THEN Nothing
    ELSE [id |-> s.art.key, path |-> Nothing, exp |-> s.art.exp, deadline |-> s.art.exp]

\* Mutant of Replaced: an artwork that gave way to another one may come back.
ReplacedKept(g, key) == g
\* An artwork that is no longer the current one is revoked for good.
Replaced(g, key)     ==
    IF g.prev # Nothing /\ key # g.prev THEN [g EXCEPT !.revoked = @ \cup {g.prev}, !.prev = Nothing]
    ELSE g

\* ArtworkGate.admit
AdmitArtwork(g0, s) ==
    LET lease == Artwork(s)
        key   == IF lease = Nothing THEN Nothing ELSE lease.id
        g     == Replaced(IF g0.ctx = s.sid THEN g0 ELSE NoLatch(s.sid), key)
        floor == Least(g.floor, lease.exp)
        kept  == [g EXCEPT !.prev = key, !.seen[key] = lease.exp, !.floor = floor]
        due   == Least(lease.deadline, floor)
    IN  IF lease = Nothing \/ key \in g.revoked THEN Denied(g)
        ELSE IF g.seen[key] \notin {0, lease.exp} THEN Denied([g EXCEPT !.revoked = @ \cup {key}])
        ELSE IF due <= Now THEN Denied([kept EXCEPT !.revoked = @ \cup {key}])
        ELSE [gate |-> kept, lease |-> [lease EXCEPT !.deadline = due]]

-----------------------------------------------------------------------------
(* ForecastImages, MomentImages *)

\* _valid
ValidPane(p) == p.visible /\ p.desired # Nothing /\ Now < p.desired.deadline /\ p.own

\* _start: one job at a time, and one attempt for each lease.
Due(p)        == ValidPane(p) /\ p.desired # p.tried
Started(p, j) == j = Nothing /\ Due(p)
Tried(p, j)   == IF Started(p, j) THEN [p EXCEPT !.tried = p.desired] ELSE p
NewJob(p)     == [lease |-> p.desired, live |-> TRUE, got |-> Nothing]
Job(p, j)     == IF Started(p, j) THEN NewJob(p) ELSE j

\* Mutant of Stale: a job that is under way keeps its claim when the lease changes.
StaleNever(j) == j
Stale(j)      == IF j = Nothing THEN Nothing ELSE [j EXCEPT !.live = FALSE, !.lease = Nothing]

\* _set_lease, of a lease under the present binding.
Same(p, lease)     == p.own /\ p.desired = lease
Given(p, lease)    == IF Same(p, lease) THEN p
                      ELSE [p EXCEPT !.own = TRUE, !.desired = lease, !.public = Nothing, !.tried = Nothing]
Superseded(p, lease, j) == IF Same(p, lease) THEN j ELSE Stale(j)

\* sync of both panes, after the snapshot s and the receiver r.
Sync(s, r, panes) ==
    LET stays(k) == [gate |-> IF k = "forecast" THEN gate ELSE latch, lease |-> Nothing]
        verdict  == [k \in Panes |-> IF ~panes[k].visible THEN stays(k)
                                     ELSE IF k = "forecast" THEN AdmitImage(gate, s, r) ELSE AdmitArtwork(latch, s)]
        admitted == [k \in Panes |-> verdict[k].lease]
        given    == [k \in Panes |-> Given(panes[k], admitted[k])]
        jobs     == [k \in Panes |-> Superseded(panes[k], admitted[k], job[k])]
    IN  /\ gate'  = verdict["forecast"].gate
        /\ latch' = verdict["moment"].gate
        /\ pane'  = [k \in Panes |-> Tried(given[k], jobs[k])]
        /\ job'   = [k \in Panes |-> Job(given[k], jobs[k])]
        /\ over'  = [k \in Panes \cup {"text"} |->
             IF k = "text" THEN
                IF s.sid # screen.sid THEN {}
                ELSE IF text.val # Nothing /\ (r.val = Nothing \/ r.val.rev # text.val.rev)
                     THEN over[k] \cup {text.val.rev} ELSE over[k]
             ELSE IF ~panes[k].visible THEN over[k]
             ELSE IF stays(k).gate.ctx # s.sid THEN {}
             ELSE IF pane[k].desired # Nothing /\ (admitted[k] = Nothing \/ admitted[k].id # pane[k].desired.id)
                  THEN over[k] \cup {pane[k].desired.id} ELSE over[k]]

\* SessionController._apply: a read, then everything that hears of the change.
Apply ==
    /\ \E sid \in {screen.last, screen.last + 1} \ {0} :
         LET r == IF sid = screen.sid THEN text ELSE NoText
         IN  /\ sid <= MaxSessions
             /\ \E f \in Forecasts \cup {Nothing}, a \in Artworks \cup {Nothing} :
                  /\ f # Nothing => only = "forecast"
                  /\ a # Nothing => only = "moment"
                  /\ screen' = [screen EXCEPT !.sid = sid, !.last = sid, !.imagery = Imagery(f), !.art = a]
                  /\ text' = IF f = Nothing THEN Withdrawn([r EXCEPT !.term = Most(@, r.rev)]) ELSE Received(r, f)
    /\ Sync(screen', text', pane) /\ UNCHANGED <<clock, only>>

\* invalidate: loss and return of the focus, an error, a result under another binding.
InvalidateScreen ==
    /\ screen' = [screen EXCEPT !.sid = 0, !.imagery = Nothing, !.art = Nothing]
    /\ text' = NoText /\ Sync(screen', text', pane) /\ UNCHANGED <<clock, only>>

\* The language or the Profile changes.  The panes hear of it with the next `changed`, when
\* their gates begin anew.
Rebind ==
    /\ gate' = NoGate(Other) /\ latch' = NoLatch(Other)
    /\ pane' = [k \in Panes |-> [pane[k] EXCEPT !.own = (@ /\ pane[k].desired = Nothing)]]
    /\ over' = [k \in Panes \cup {"text"} |-> IF k = "text" THEN over[k] ELSE {}]
    /\ UNCHANGED <<clock, screen, text, job, only>>

\* The timer and every read of the state expire the text; `changed` follows.
Expire ==
    /\ text' = Expired(text) /\ Sync(screen, text', pane) /\ UNCHANGED <<clock, screen, only>>

\* set_visible
Toggle(k) ==
    /\ k = only /\ UNCHANGED <<clock, screen, text, only>>
    /\ Sync(screen, text, [pane EXCEPT ![k].visible = ~@, ![k].tried = Nothing])

-----------------------------------------------------------------------------
(* The workers *)

\* fetch_pixels, fetch_artwork: every chunk is checked against the lease that started it.
Fetch(k) ==
    /\ job[k] # Nothing /\ job[k].got = Nothing
    /\ \E ok \in BOOLEAN : /\ ok => job[k].live /\ ValidPane(pane[k])
                           /\ job' = [job EXCEPT ![k].got = ok]
    /\ UNCHANGED <<clock, screen, text, gate, latch, pane, over, only>>

\* Mutant of Again: a worker that ends does not look for a newer lease.
NotAgain(p) == FALSE
Again(p)    == Due(p)

\* _finish
FinishFetch(k) ==
    LET p == IF job[k].live /\ ValidPane(pane[k]) /\ job[k].got
             THEN [pane[k] EXCEPT !.public = job[k].lease] ELSE pane[k]
    IN  /\ job[k] # Nothing /\ job[k].got # Nothing
        /\ pane' = [pane EXCEPT ![k] = IF Again(p) THEN [p EXCEPT !.tried = p.desired] ELSE p]
        /\ job' = [job EXCEPT ![k] = IF Again(p) THEN NewJob(p) ELSE Nothing]
        /\ UNCHANGED <<clock, screen, text, gate, latch, over, only>>

\* snapshot: nothing invalid is handed to the view.
Tick(k) ==
    /\ pane[k].public # Nothing /\ ~ValidPane(pane[k])
    /\ pane' = [pane EXCEPT ![k].public = Nothing]
    /\ UNCHANGED <<clock, screen, text, gate, latch, job, over, only>>

Pass ==
    /\ clock < MaxTime /\ clock' = clock + 1
    /\ UNCHANGED <<screen, text, gate, latch, pane, job, over, only>>

Fetcher(k) == Fetch(k) \/ FinishFetch(k)

-----------------------------------------------------------------------------

ImagesInit ==
    /\ clock = 0 /\ only \in Panes
    /\ screen = [sid |-> 0, last |-> 0, imagery |-> Nothing, art |-> Nothing]
    /\ text = NoText /\ gate = NoGate(0) /\ latch = NoLatch(0)
    /\ pane = [k \in Panes |-> [visible |-> FALSE, own |-> TRUE, desired |-> Nothing, public |-> Nothing, tried |-> Nothing]]
    /\ job = [k \in Panes |-> Nothing] /\ over = [k \in Panes \cup {"text"} |-> {}]

ImagesNext ==
    \/ Apply \/ InvalidateScreen \/ Rebind \/ Expire \/ Pass
    \/ \E k \in Panes : Toggle(k) \/ Fetcher(k) \/ Tick(k)
ImagesSpec == ImagesInit /\ [][ImagesNext]_images

\* The worker threads run, an exchange ends, Qt delivers the result.
FairImagesSpec == ImagesSpec /\ \A k \in Panes : WF_images(Fetcher(k))

-----------------------------------------------------------------------------
(* Properties *)

\* A job that still counts is a job for the lease in force (_set_lease, _start), and the
\* pixels on display are those fetched for it (_finish).
ImagesTypeOK ==
    /\ clock \in 0..MaxTime /\ screen.sid \in 0..MaxSessions /\ {gate.ctx, latch.ctx} \subseteq {Other} \cup 0..MaxSessions
    /\ text.val # Nothing => text.val.rev = text.rev /\ text.rev > text.term
    /\ \A k \in Panes :
         /\ {pane[k].desired, pane[k].public, pane[k].tried} \subseteq ImageLeases \cup {Nothing}
         /\ job[k] # Nothing /\ job[k].live => job[k].lease = pane[k].desired
         /\ pane[k].public \in {Nothing, pane[k].desired}

\* What was on screen and was withdrawn, replaced or expired does not come back while the
\* Session stays: a Forecast revision, its image, a moment's artwork (receive, admit).
GoneStaysGone ==
    /\ text.val # Nothing => text.val.rev \notin over["text"]
    /\ \A k \in Panes : pane[k].desired # Nothing => pane[k].desired.id \notin over[k]

\* No read, early or late, prolongs what is on screen already under the same binding
\* (valid_until, floors).
NeverProlonged ==
    [][/\ text.val # Nothing /\ text'.val # Nothing /\ text'.val.rev = text.val.rev /\ screen'.sid = screen.sid
            => text'.val.until <= text.val.until
       /\ \A k \in Panes :
            pane[k].desired # Nothing /\ pane'[k].desired # Nothing /\ pane'[k].desired.id = pane[k].desired.id
            /\ screen'.sid = screen.sid /\ pane[k].own
            => pane'[k].desired.deadline <= pane[k].desired.deadline]_images

\* The latest lease is not forgotten behind a job for an older one (_finish, _start).
LatestIsTried ==
    \A k \in Panes : Due(pane[k]) ~> ~Due(pane[k])
=============================================================================
