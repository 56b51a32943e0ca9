--------------------------- MODULE SharedSettings ---------------------------
(***************************************************************************)
(* The settings a Profile shares with its other clients                    *)
(* (shared_settings.py, app.py).                                           *)
(*                                                                         *)
(* SharedSettingsClient keeps a snapshot and at most one undecided change. *)
(* It runs in the backend's single worker; the backend keeps what is on    *)
(* screen and drops results of another epoch or context.  Core accepts a   *)
(* change only on the revision it was made for, may carry it out after the *)
(* client gave up waiting, and answers what became of it for a while.      *)
(***************************************************************************)
EXTENDS Naturals, FiniteSets

CONSTANTS
    Contexts,      \* address, token, Profile and owner witness, taken together
    MaxOps,        \* bound on changes the user saves
    MaxForeign,    \* bound on changes made by other clients
    MaxMoves       \* bound on moves to another context and on cleared caches

ASSUME SettingsBounds == {MaxOps, MaxForeign, MaxMoves} \subseteq Nat
ASSUME SettingsContexts == Contexts # {}

VARIABLES
    core,      \* Core: the revision per context, changes under way, changes it knows about
    client,    \* SharedSettingsClient
    job,       \* the worker's job
    screen,    \* sharedSettings on screen, the epoch, the editor's draft
    world,     \* the context now, and how often it moved
    back       \* history: a context was left and returned to unnoticed

vars == <<core, client, job, screen, world, back>>

-----------------------------------------------------------------------------

Ops      == 1..MaxOps
Revs     == 0..(MaxOps + MaxForeign)
Snaps    == Contexts \X Revs      \* the snapshot, its revision and edit token in one
NoSnap   == <<>>
Changes  == [op : Ops, ctx : Contexts, rev : Revs, seen : Snaps, visit : 0..MaxMoves]
Views    == [snap : Snaps, pending : BOOLEAN, unknown : BOOLEAN]
NoView   == [snap |-> NoSnap, pending |-> FALSE, unknown |-> FALSE]

Phases   == {"idle", "begin", "recover", "get", "update", "patch", "wait", "resolve", "done"}
NoJob    == [step |-> "idle", kind |-> "read", seen |-> NoSnap, op |-> 0, epoch |-> 0,
             ctx |-> CHOOSE c \in Contexts : TRUE, view |-> NoView, error |-> "none"]

Sent(op) == op \in core.accepted \cup core.refused \cup {o.op : o \in core.net}
Step(s)  == job' = [job EXCEPT !.step = s]
Fail(e)  == job' = [job EXCEPT !.step = "done", !.error = e, !.view = NoView]
Forgot   == client' = [client EXCEPT !.snap = NoSnap]

\* _request refuses when the context is not the one the client works for.
InContext == client.ctx = world.ctx

-----------------------------------------------------------------------------
(* SharedSettingsClient.read *)

Rebound == [ctx |-> world.ctx, snap |-> NoSnap, pending |-> 0, unknown |-> FALSE]

Begin ==
    /\ job.step = "begin"
    /\ client' = IF InContext THEN client ELSE Rebound
    /\ Step(IF client'.pending # 0 THEN "recover" ELSE "get")
    /\ UNCHANGED <<core, screen, world, back>>

\* _recover_pending: what Core says of the change.  Not accepted so far is not a decision.
Resolved(op, phase) ==
    [client EXCEPT !.pending = IF phase = "not_accepted" THEN @ ELSE 0,
                   !.unknown = IF phase = "unknown" THEN TRUE ELSE @]

Phase(op) == IF op \in core.expired THEN "unknown"
             ELSE IF op \in core.accepted THEN "accepted" ELSE "not_accepted"

Recover ==
    /\ job.step = "recover"
    /\ \/ InContext /\ client' = Resolved(client.pending, Phase(client.pending)) /\ Step("get")
       \/ Forgot /\ Fail("offline")
    /\ UNCHANGED <<core, screen, world, back>>

View(c) == [snap |-> c.snap, pending |-> c.pending # 0, unknown |-> c.unknown]

\* The answer, checked once more against the context.
Get ==
    /\ job.step = "get"
    /\ \/ /\ InContext
          /\ client' = [client EXCEPT !.snap = <<world.ctx, core.rev[world.ctx]>>]
          /\ job' = [job EXCEPT !.step = "done", !.error = "none", !.view = View(client')]
       \/ Forgot /\ \E e \in {"offline", "denied"} : Fail(e)
    /\ UNCHANGED <<core, screen, world, back>>

-----------------------------------------------------------------------------
(* SharedSettingsClient.update *)

\* Mutant of SameEdit: any draft will do.
AnyEdit(seen)  == TRUE
SameEdit(seen) == seen = client.snap

\* Mutant of Undecided: an undecided change is no reason to wait.
NothingUndecided == FALSE
Undecided        == client.pending # 0

Update ==
    LET op == Cardinality({o \in Ops : Sent(o)}) + 1
    IN  /\ job.step = "update"
        /\ IF Undecided THEN Fail("uncertain") /\ UNCHANGED client
           ELSE IF client.snap = NoSnap \/ ~InContext THEN Fail("reload") /\ UNCHANGED client
           ELSE IF ~SameEdit(job.seen) THEN Fail("conflict") /\ UNCHANGED client
           ELSE \/ Fail("rejected") /\ UNCHANGED client          \* selection, writable_fields
                \/ /\ op \in Ops
                   /\ client' = [client EXCEPT !.pending = op, !.unknown = FALSE]
                   /\ job' = [job EXCEPT !.step = "patch", !.op = op]
        /\ UNCHANGED <<core, screen, world, back>>

Patch ==
    /\ job.step = "patch"
    /\ IF InContext
       THEN /\ core' = [core EXCEPT !.net = @ \cup {[op |-> job.op, ctx |-> client.ctx, rev |-> client.snap[2],
                                                   seen |-> job.seen, visit |-> world.moves]}]
            /\ Step("wait") /\ UNCHANGED client
       ELSE /\ client' = [client EXCEPT !.pending = 0, !.snap = NoSnap]
            /\ Fail("reload") /\ UNCHANGED core
    /\ UNCHANGED <<screen, world, back>>

\* The answer; a closed refusal decides the change, silence and 5xx do not.
Answer ==
    /\ job.step = "wait"
    /\ \/ /\ job.op \in core.accepted
          /\ client' = [client EXCEPT !.pending = 0] /\ Step("begin")
       \/ /\ job.op \in core.refused
          /\ client' = [client EXCEPT !.pending = 0, !.snap = NoSnap]
          /\ \E e \in {"conflict", "denied"} : Fail(e)
       \/ Step("resolve") /\ UNCHANGED client
    /\ UNCHANGED <<core, screen, world, back>>

\* Mutant of Confirmed: only a change that is still pending is uncertain.
ConfirmedIfGone(c) == c.pending = 0
Confirmed(c)       == c.pending = 0 /\ ~c.unknown

\* The receipt is read once; the change itself is never sent again.
Resolve ==
    LET told == {client} \cup (IF InContext THEN {Resolved(job.op, Phase(job.op))} ELSE {})
    IN  /\ job.step = "resolve"
        /\ \E c \in told :
             IF Confirmed(c) THEN client' = c /\ Step("begin")
             ELSE client' = [c EXCEPT !.snap = NoSnap] /\ Fail("uncertain")
        /\ UNCHANGED <<core, screen, world, back>>

Work == Begin \/ Recover \/ Get \/ Update \/ Patch \/ Answer \/ Resolve

-----------------------------------------------------------------------------
(* The backend *)

Cleared == [screen EXCEPT !.epoch = @ + 1, !.view = NoView, !.available = FALSE]

\* Mutant of Witnessed: the settings stay on screen.
WitnessedKept == [screen EXCEPT !.witness = world.ctx]
\* _invalidate_shared_settings_if_context_changed
Witnessed     == IF screen.witness = world.ctx THEN screen ELSE [Cleared EXCEPT !.witness = world.ctx]

Invalidate ==
    /\ screen.witness # world.ctx /\ screen' = Witnessed
    /\ UNCHANGED <<core, client, job, world, back>>

\* _clear_profile_scoped_caches, _forget_pairing
Clear ==
    /\ world.moves < MaxMoves /\ world' = [world EXCEPT !.moves = @ + 1]
    /\ screen' = Cleared /\ UNCHANGED <<core, client, job, back>>

\* _start_shared_settings
Start(kind, seen, s) ==
    /\ job.step = "idle"
    /\ job' = [NoJob EXCEPT !.step = IF kind = "read" THEN "begin" ELSE "update", !.kind = kind,
                            !.seen = seen, !.epoch = s.epoch, !.ctx = world.ctx]

Poll ==
    /\ screen' = Witnessed /\ Start("read", NoSnap, Witnessed)
    /\ UNCHANGED <<core, client, world, back>>

\* The editor keeps the edit token of the settings it was opened with.
Edit ==
    /\ screen.view.snap # NoSnap /\ screen.draft # screen.view.snap
    /\ screen' = [screen EXCEPT !.draft = screen.view.snap]
    /\ UNCHANGED <<core, client, job, world, back>>

\* The panel sends its draft's edit token; the mood slider has none and gets the one on screen.
Save ==
    /\ \E seen \in {screen.draft, screen.view.snap} : Start("update", seen, screen)
    /\ UNCHANGED <<core, client, screen, world, back>>

Current == job.epoch = screen.epoch /\ job.ctx = world.ctx

\* Mutant of Free: a stale result is dropped before the lane is released.
FreeIfCurrent == IF Current THEN NoJob ELSE job
Free          == NoJob

Apply ==
    /\ job.step = "done" /\ job' = Free
    /\ screen' = IF ~Current THEN screen
                 ELSE IF job.error = "none" THEN [screen EXCEPT !.view = job.view, !.available = TRUE]
                 ELSE [screen EXCEPT !.view = IF job.error = "denied" THEN NoView ELSE @, !.available = FALSE]
    /\ UNCHANGED <<core, client, world, back>>

Backend == Invalidate \/ Clear \/ Poll \/ Edit \/ Save \/ Apply

-----------------------------------------------------------------------------
(* Core, and the context *)

Execute ==
    \E o \in core.net :
        core' = IF o.rev = core.rev[o.ctx]
                THEN [core EXCEPT !.net = @ \ {o}, !.accepted = @ \cup {o.op}, !.rev[o.ctx] = @ + 1]
                ELSE [core EXCEPT !.net = @ \ {o}, !.refused = @ \cup {o.op}]

\* Lost on the way, or refused for another reason than its revision.
Lose   == \E o \in core.net : core' = [core EXCEPT !.net = @ \ {o}, !.refused = @ \cup {o.op}]
\* Only the receipt of the pending change is ever asked for.
Expire ==
    /\ client.pending \in (core.accepted \cup core.refused) \ core.expired
    /\ core' = [core EXCEPT !.expired = @ \cup {client.pending}]
Foreign ==
    /\ core.foreign < MaxForeign
    /\ core' = [core EXCEPT !.foreign = @ + 1, !.rev[world.ctx] = @ + 1]

CoreStep == (Execute \/ Lose \/ Expire \/ Foreign) /\ UNCHANGED <<client, job, screen, world, back>>

Move ==
    /\ world.moves < MaxMoves
    /\ \E c \in Contexts \ {world.ctx} :
         /\ world' = [ctx |-> c, moves |-> world.moves + 1]
         /\ back' = (back \/ c = screen.witness \/ (job.step # "idle" /\ job.ctx = c))
    /\ UNCHANGED <<core, client, job, screen>>

-----------------------------------------------------------------------------

Init == /\ world = [ctx |-> NoJob.ctx, moves |-> 0] /\ back = FALSE
        /\ core = [rev |-> [c \in Contexts |-> 0], net |-> {}, accepted |-> {}, refused |-> {},
                   expired |-> {}, foreign |-> 0]
        /\ client = [ctx |-> NoJob.ctx, snap |-> NoSnap, pending |-> 0, unknown |-> FALSE]
        /\ job = NoJob
        /\ screen = [view |-> NoView, available |-> FALSE, epoch |-> 0, witness |-> NoJob.ctx, draft |-> NoSnap]

Next == Work \/ Backend \/ CoreStep \/ Move
Spec == Init /\ [][Next]_vars

\* The worker runs, an exchange ends within its timeout, and Qt delivers the result.
FairSpec == Spec /\ WF_vars(Work) /\ WF_vars(Apply)

-----------------------------------------------------------------------------
(* Properties *)

\* A change replaces exactly what its author was looking at: neither a change of another
\* client nor one of another context is overwritten unseen (edit_token, expected revision).
ReplacesWhatWasSeen ==
    \A o \in core.net : o.rev = core.rev[o.ctx] => o.seen = <<o.ctx, core.rev[o.ctx]>>

\* Within one context there is never a second change on its way while an earlier one may
\* still be carried out (update, _recover_pending).
OneUndecided ==
    \A o, p \in core.net : o.visit = p.visit => o = p

\* A save that is reported as done was carried out, however the answer was lost.
SavedMeansAccepted ==
    (job.step = "done" /\ job.kind = "update" /\ job.error = "none" /\ ~job.view.pending /\ ~job.view.unknown)
        => job.op \in core.accepted

\* Once the backend has noticed a context, the settings on screen are those of that
\* context, unless a context was left and returned to between two looks of the backend or
\* under a running job (_invalidate_shared_settings_if_context_changed,
\* _apply_shared_settings): both compare with the context now, not with its history.
ShownForContext ==
    (~back /\ screen.witness = world.ctx /\ screen.view # NoView) => screen.view.snap[1] = world.ctx

\* The lane of the settings is always released (_apply_shared_settings).
LaneReleased == (job.step # "idle") ~> (job.step = "idle")
=============================================================================
