------------------------ MODULE SharedSettingsProofs ------------------------
(***************************************************************************)
(* Proofs about the two ways Home Assistant reaches the touch UI.          *)
(*                                                                         *)
(* SharedSettings: for any number of contexts, changes, foreign changes    *)
(* and moves, a change replaces only what its author saw, one context has  *)
(* at most one undecided change on its way, a save that is reported as     *)
(* done was carried out, and the settings on screen are those of the       *)
(* context the backend has noticed.                                        *)
(*                                                                         *)
(* CommandQueue: for any number of commands, threads and restarts and any  *)
(* cap, the two file names stay apart, and while no two accesses overlap   *)
(* the command file is a queue.                                            *)
(***************************************************************************)
EXTENDS SharedSettings, CommandQueue, FiniteSetTheorems, SequenceTheorems, TLAPS

-----------------------------------------------------------------------------
(* SharedSettings: the inductive invariant, part by part *)

AnySnap   == (Contexts \X Nat) \cup {NoSnap}
AnyView   == [snap : AnySnap, pending : BOOLEAN, unknown : BOOLEAN]
AnyChange == [op : Ops, ctx : Contexts, rev : Nat, seen : AnySnap, visit : Nat]
Errors    == {"none", "offline", "denied", "uncertain", "reload", "conflict", "rejected"}

CoreTyped   == core \in [rev : [Contexts -> Nat], net : SUBSET AnyChange, accepted : SUBSET Ops,
                         refused : SUBSET Ops, expired : SUBSET Ops, foreign : Nat]
ClientTyped == client \in [ctx : Contexts, snap : AnySnap, pending : Ops \cup {0}, unknown : BOOLEAN]
JobTyped    == job \in [step : Phases, kind : {"read", "update"}, seen : AnySnap, op : Ops \cup {0},
                        epoch : Nat, ctx : Contexts, view : AnyView, error : Errors]
ScreenTyped == screen \in [view : AnyView, available : BOOLEAN, epoch : Nat, witness : Contexts,
                           draft : AnySnap]
WorldTyped  == world \in [ctx : Contexts, moves : Nat] /\ back \in BOOLEAN
SettingsTyped == CoreTyped /\ ClientTyped /\ JobTyped /\ ScreenTyped /\ WorldTyped

\* The snapshot is of the client's context, and a change on its way was made on it.
SeenInv ==
    /\ client.snap # NoSnap => client.snap[1] = client.ctx
    /\ job.step = "patch" => client.snap # NoSnap /\ job.seen = client.snap
    /\ \A o \in core.net : o.seen = <<o.ctx, o.rev>>

\* Changes are numbered in the order they were sent, and no number is used twice.
SentOps == {o \in Ops : Sent(o)}
Count   == Cardinality(SentOps)
NumberedInv ==
    /\ Count \in Nat /\ SentOps = 1..Count
    /\ job.step = "patch" => job.op = Count + 1
    /\ \A o \in core.net : o.op \notin core.accepted \cup core.refused
    /\ \A o, p \in core.net : o.op = p.op => o = p
    /\ core.expired \subseteq core.accepted \cup core.refused

\* While the context has not moved since a change was sent, the client waits for that change.
PendingInv ==
    /\ job.step \in {"patch", "wait", "resolve"} => client.pending = job.op /\ job.op # 0
    /\ \A o \in core.net : o.visit <= world.moves
    /\ \A o \in core.net : o.visit = world.moves => client.ctx = world.ctx /\ client.pending = o.op
    /\ OneUndecided

\* A save goes on to read the settings again only once it was accepted.
SavedInv ==
    /\ job.kind = "update" /\ job.step \in {"begin", "recover", "get"} => job.op \in core.accepted
    /\ job.kind = "update" /\ job.step = "done" /\ job.error = "none" => job.op \in core.accepted

\* A result that is still wanted is of the context now.
ShownInv ==
    ~back =>
      /\ screen.witness = world.ctx /\ screen.view # NoView => screen.view.snap[1] = world.ctx
      /\ job.step = "done" /\ job.error = "none" /\ job.ctx = world.ctx => job.view.snap[1] = world.ctx

SettingsInv == SettingsTyped /\ SeenInv /\ NumberedInv /\ PendingInv /\ SavedInv /\ ShownInv

-----------------------------------------------------------------------------

LEMMA NoViewTyped == NoSnap \in AnySnap /\ NoView \in AnyView
BY DEF AnySnap, AnyView, NoView

LEMMA NoJobTyped ==
    NoJob \in [step : Phases, kind : {"read", "update"}, seen : AnySnap, op : Ops \cup {0},
               epoch : Nat, ctx : Contexts, view : AnyView, error : Errors]
<1>1. (CHOOSE c \in Contexts : TRUE) \in Contexts
  BY SettingsContexts
<1>. QED
  BY <1>1, NoViewTyped DEF NoJob, Phases, Errors

LEMMA TypedInit == Init => SettingsTyped
<1>. SUFFICES ASSUME Init PROVE SettingsTyped
  OBVIOUS
<1>. USE DEF Init
<1>1. NoJob.ctx \in Contexts
  BY SettingsContexts DEF NoJob
<1>2. CoreTyped
  BY DEF CoreTyped
<1>3. ClientTyped /\ ScreenTyped /\ WorldTyped
  BY <1>1, NoViewTyped DEF ClientTyped, ScreenTyped, WorldTyped
<1>4. JobTyped
  BY NoJobTyped DEF JobTyped
<1>. QED
  BY <1>2, <1>3, <1>4 DEF SettingsTyped

\* A step of the worker, the backend or Core keeps every component in its type.
LEMMA TypedWork == SettingsTyped /\ SeenInv /\ PendingInv /\ Work => SettingsTyped'
<1>. SUFFICES ASSUME SettingsTyped, SeenInv, PendingInv, Work PROVE SettingsTyped'
  OBVIOUS
<1>. USE DEF SettingsTyped, CoreTyped, ClientTyped, JobTyped, ScreenTyped, WorldTyped
<1>0. (\A s \in Phases : [job EXCEPT !.step = s] \in
          [step : Phases, kind : {"read", "update"}, seen : AnySnap, op : Ops \cup {0},
           epoch : Nat, ctx : Contexts, view : AnyView, error : Errors])
  OBVIOUS
<1>00. \A e \in Errors : Fail(e) => JobTyped'
  <2>. SUFFICES ASSUME NEW e \in Errors, Fail(e) PROVE JobTyped'
    OBVIOUS
  <2>1. "done" \in Phases /\ NoView \in AnyView
    BY NoViewTyped DEF Phases
  <2>2. job' = [job EXCEPT !.step = "done", !.error = e, !.view = NoView]
    BY DEF Fail
  <2>. HIDE DEF SettingsTyped, CoreTyped, ClientTyped, ScreenTyped, WorldTyped
  <2>3. JobTyped
    BY DEF SettingsTyped
  <2>. QED
    BY <2>1, <2>2, <2>3
<1>1. CASE Begin
  <2>1. ClientTyped'
    BY <1>1, NoViewTyped DEF Begin, Rebound
  <2>2. JobTyped'
    <3>. DEFINE next == IF client'.pending # 0 THEN "recover" ELSE "get"
    <3>1. next \in Phases /\ job' = [job EXCEPT !.step = next]
      BY <1>1 DEF Begin, Step, Phases
    <3>. HIDE DEF next
    <3>. QED
      BY <1>0, <3>1
  <2>. QED
    BY <1>1, <2>1, <2>2 DEF Begin
<1>2. CASE Recover
  <2>1. ClientTyped'
    <3>1. CASE Forgot
      BY <3>1, NoViewTyped DEF Forgot
    <3>2. CASE client' = Resolved(client.pending, Phase(client.pending))
      <4>. DEFINE p == IF Phase(client.pending) = "not_accepted" THEN client.pending ELSE 0
                  u == IF Phase(client.pending) = "unknown" THEN TRUE ELSE client.unknown
      <4>1. client' = [client EXCEPT !.pending = p, !.unknown = u]
        BY <3>2 DEF Resolved
      <4>2. p \in Ops \cup {0} /\ u \in BOOLEAN
        OBVIOUS
      <4>. HIDE DEF p, u
      <4>. QED
        BY <4>1, <4>2
    <3>. QED
      BY <1>2, <3>1, <3>2 DEF Recover
  <2>2. JobTyped'
    BY <1>2, <1>0, <1>00 DEF Recover, Step, Phases, Errors
  <2>. QED
    BY <1>2, <2>1, <2>2 DEF Recover
<1>3. CASE Get
  <2>1. CASE InContext /\ client' = [client EXCEPT !.snap = <<world.ctx, core.rev[world.ctx]>>]
             /\ job' = [job EXCEPT !.step = "done", !.error = "none", !.view = View(client')]
    <3>1. ClientTyped'
      BY <2>1 DEF AnySnap
    <3>2. View(client') \in AnyView
      BY <3>1 DEF View, AnyView
    <3>. QED
      BY <1>3, <2>1, <3>1, <3>2 DEF Get, Phases, Errors
  <2>2. CASE Forgot /\ \E e \in {"offline", "denied"} : Fail(e)
    BY <1>3, <1>00, <2>2, NoViewTyped DEF Get, Forgot, Errors
  <2>. QED
    BY <1>3, <2>1, <2>2 DEF Get
<1>4. CASE Update
  <2>. DEFINE op == Cardinality({o \in Ops : Sent(o)}) + 1
  <2>1. UNCHANGED <<core, screen, world, back>>
    BY <1>4 DEF Update
  <2>2. CASE (\E e \in Errors : Fail(e)) /\ UNCHANGED client
    BY <2>1, <2>2, <1>00
  <2>3. CASE /\ op \in Ops
             /\ client' = [client EXCEPT !.pending = op, !.unknown = FALSE]
             /\ job' = [job EXCEPT !.step = "patch", !.op = op]
    <3>. HIDE DEF op
    <3>. QED
      BY <2>1, <2>3 DEF Phases
  <2>. QED
    BY <1>4, <2>2, <2>3 DEF Update, Errors
<1>5. CASE Patch
  <2>1. CASE InContext
    <3>1. [op |-> job.op, ctx |-> client.ctx, rev |-> client.snap[2], seen |-> job.seen,
           visit |-> world.moves] \in AnyChange
      BY <1>5, <2>1 DEF AnyChange, SeenInv, PendingInv, AnySnap, Patch
    <3>. QED
      BY <1>5, <2>1, <3>1, <1>0 DEF Patch, Step, Phases
  <2>2. CASE ~InContext
    BY <1>5, <2>2, <1>00, NoViewTyped DEF Patch, Errors
  <2>. QED
    BY <2>1, <2>2
<1>6. CASE Answer
  <2>1. ClientTyped'
    BY <1>6, NoViewTyped DEF Answer
  <2>2. JobTyped'
    BY <1>6, <1>0, <1>00 DEF Answer, Step, Phases, Errors
  <2>. QED
    BY <1>6, <2>1, <2>2 DEF Answer
<1>7. CASE Resolve
  <2>1. PICK c \in {client} \cup {Resolved(job.op, Phase(job.op))} :
             IF Confirmed(c) THEN client' = c /\ Step("begin")
             ELSE client' = [c EXCEPT !.snap = NoSnap] /\ Fail("uncertain")
    BY <1>7 DEF Resolve
  <2>2. c \in [ctx : Contexts, snap : AnySnap, pending : Ops \cup {0}, unknown : BOOLEAN]
    BY DEF Resolved
  <2>3. ClientTyped'
    BY <2>1, <2>2, NoViewTyped
  <2>4. JobTyped'
    BY <2>1, <1>0, <1>00 DEF Step, Phases, Errors
  <2>. QED
    BY <1>7, <2>3, <2>4 DEF Resolve
<1>. QED
  BY <1>1, <1>2, <1>3, <1>4, <1>5, <1>6, <1>7 DEF Work

LEMMA TypedBackend == SettingsTyped /\ Backend => SettingsTyped'
<1>. SUFFICES ASSUME SettingsTyped, Backend PROVE SettingsTyped'
  OBVIOUS
<1>. DEFINE Screens == [view : AnyView, available : BOOLEAN, epoch : Nat, witness : Contexts, draft : AnySnap]
<1>0. Cleared \in Screens /\ Witnessed \in Screens
  <2>1. Cleared \in Screens
    <3>1. screen.epoch + 1 \in Nat
      BY DEF SettingsTyped, ScreenTyped
    <3>. QED
      BY <3>1, NoViewTyped, Zenon DEF SettingsTyped, ScreenTyped, Cleared
  <2>. QED
    BY <2>1 DEF SettingsTyped, ScreenTyped, WorldTyped, Witnessed
<1>00. ASSUME NEW kind \in {"read", "update"}, NEW seen \in AnySnap, NEW s \in Screens, Start(kind, seen, s)
       PROVE  JobTyped'
  BY <1>00, NoJobTyped DEF SettingsTyped, WorldTyped, Start, JobTyped, Phases
<1>1. CASE Invalidate \/ Clear
  <2>1. screen' \in Screens /\ UNCHANGED <<core, client, job, back>>
    BY <1>0, <1>1 DEF Invalidate, Clear
  <2>2. WorldTyped'
    BY <1>1 DEF SettingsTyped, WorldTyped, Invalidate, Clear
  <2>. QED
    BY <2>1, <2>2 DEF SettingsTyped, CoreTyped, ClientTyped, JobTyped, ScreenTyped
<1>2. CASE Poll
  <2>1. JobTyped'
    BY <1>0, <1>00, <1>2, NoViewTyped DEF Poll
  <2>. QED
    BY <1>0, <1>2, <2>1 DEF SettingsTyped, CoreTyped, ClientTyped, ScreenTyped, WorldTyped, Poll
<1>3. CASE Edit
  BY <1>3 DEF SettingsTyped, CoreTyped, ClientTyped, JobTyped, ScreenTyped, WorldTyped, Edit, AnyView
<1>4. CASE Save
  <2>1. screen.draft \in AnySnap /\ screen.view.snap \in AnySnap /\ screen \in Screens
    BY DEF SettingsTyped, ScreenTyped, AnyView
  <2>2. JobTyped'
    BY <1>00, <1>4, <2>1 DEF Save
  <2>. QED
    BY <1>4, <2>2 DEF SettingsTyped, CoreTyped, ClientTyped, ScreenTyped, WorldTyped, Save
<1>5. CASE Apply
  <2>1. JobTyped'
    BY <1>5, NoJobTyped DEF Apply, Free, JobTyped
  <2>2. ScreenTyped'
    BY <1>5, NoViewTyped DEF SettingsTyped, JobTyped, ScreenTyped, Apply
  <2>. QED
    BY <1>5, <2>1, <2>2 DEF SettingsTyped, CoreTyped, ClientTyped, WorldTyped, Apply
<1>. QED
  BY <1>1, <1>2, <1>3, <1>4, <1>5 DEF Backend

LEMMA TypedCore == SettingsTyped /\ (CoreStep \/ Move) => SettingsTyped'
<1>. SUFFICES ASSUME SettingsTyped, CoreStep \/ Move PROVE SettingsTyped'
  OBVIOUS
<1>1. CASE Move
  BY <1>1 DEF SettingsTyped, CoreTyped, ClientTyped, JobTyped, ScreenTyped, WorldTyped, Move
<1>2. CASE CoreStep
  <2>. USE DEF SettingsTyped, CoreTyped
  <2>1. ASSUME Execute PROVE CoreTyped'
    <3>1. PICK o \in core.net :
            core' = IF o.rev = core.rev[o.ctx]
                    THEN [core EXCEPT !.net = @ \ {o}, !.accepted = @ \cup {o.op}, !.rev[o.ctx] = @ + 1]
                    ELSE [core EXCEPT !.net = @ \ {o}, !.refused = @ \cup {o.op}]
      BY <2>1 DEF Execute
    <3>2. o.op \in Ops /\ o.ctx \in Contexts
      BY DEF AnyChange
    <3>3. [core.rev EXCEPT ![o.ctx] = @ + 1] \in [Contexts -> Nat]
      BY <3>2
    <3>4. CASE o.rev = core.rev[o.ctx]
      BY <3>1, <3>2, <3>3, <3>4
    <3>5. CASE o.rev # core.rev[o.ctx]
      BY <3>1, <3>2, <3>5
    <3>. QED
      BY <3>4, <3>5
  <2>2. ASSUME Lose PROVE CoreTyped'
    <3>1. PICK o \in core.net : core' = [core EXCEPT !.net = @ \ {o}, !.refused = @ \cup {o.op}]
      BY <2>2 DEF Lose
    <3>2. o.op \in Ops
      BY DEF AnyChange
    <3>. QED
      BY <3>1, <3>2
  <2>3. ASSUME Expire PROVE CoreTyped'
    BY <2>3 DEF Expire
  <2>4. ASSUME Foreign PROVE CoreTyped'
    <3>1. [core.rev EXCEPT ![world.ctx] = @ + 1] \in [Contexts -> Nat]
      BY DEF WorldTyped
    <3>2. core' = [core EXCEPT !.foreign = @ + 1, !.rev = [core.rev EXCEPT ![world.ctx] = @ + 1]]
      BY <2>4 DEF Foreign
    <3>3. core.foreign + 1 \in Nat
      OBVIOUS
    <3>. QED
      BY <3>1, <3>2, <3>3
  <2>. QED
    BY <1>2, <2>1, <2>2, <2>3, <2>4 DEF CoreStep, ClientTyped, JobTyped, ScreenTyped, WorldTyped
<1>. QED
  BY <1>1, <1>2

-----------------------------------------------------------------------------

\* Moving the worker on, and ending its job with an error.
LEMMA JobMoves ==
    ASSUME SettingsTyped
    PROVE  /\ \A s : Step(s) => /\ job'.step = s
                               /\ <<job'.kind, job'.op, job'.seen, job'.ctx, job'.error, job'.view>>
                                    = <<job.kind, job.op, job.seen, job.ctx, job.error, job.view>>
           /\ \A e : Fail(e) => job'.step = "done" /\ job'.error = e /\ job'.ctx = job.ctx /\ job'.kind = job.kind
BY DEF SettingsTyped, JobTyped, Step, Fail

\* Update either sends a change or ends with an error.
LEMMA UpdateEnds ==
    ASSUME SettingsTyped, Update
    PROVE  job'.step = "patch" \/ (job'.step = "done" /\ job'.error # "none")
<1>. DEFINE op == Cardinality({o \in Ops : Sent(o)}) + 1
<1>1. CASE \E e \in {"uncertain", "reload", "conflict", "rejected"} : Fail(e)
  BY <1>1, JobMoves
<1>2. CASE job' = [job EXCEPT !.step = "patch", !.op = op]
  <2>. HIDE DEF op
  <2>. QED
    BY <1>2 DEF SettingsTyped, JobTyped
<1>. QED
  BY <1>1, <1>2 DEF Update

\* The two ends of Resolve: the client as it is, or as the receipt tells.
LEMMA ResolveEnds ==
    ASSUME SettingsTyped, Resolve
    PROVE  \E c \in {client, Resolved(job.op, Phase(job.op))} :
             /\ c = client \/ InContext
             /\ c \in [ctx : {client.ctx}, snap : {client.snap}, pending : {client.pending, 0}, unknown : BOOLEAN]
             /\ \/ Confirmed(c) /\ client' = c /\ Step("begin")
                \/ ~Confirmed(c) /\ client' = [c EXCEPT !.snap = NoSnap] /\ Fail("uncertain")
<1>1. PICK c \in {client} \cup (IF InContext THEN {Resolved(job.op, Phase(job.op))} ELSE {}) :
           IF Confirmed(c) THEN client' = c /\ Step("begin")
           ELSE client' = [c EXCEPT !.snap = NoSnap] /\ Fail("uncertain")
  BY DEF Resolve
<1>2. c \in [ctx : {client.ctx}, snap : {client.snap}, pending : {client.pending, 0}, unknown : BOOLEAN]
  BY DEF Resolved, SettingsTyped, ClientTyped
<1>. QED
  BY <1>1, <1>2

\* What the worker's job and client look like after a step of the backend.
LEMMA BackendJob ==
    ASSUME SettingsTyped, Backend
    PROVE  /\ UNCHANGED <<core, client, back>> /\ world'.ctx = world.ctx /\ world'.moves >= world.moves
           /\ job' = job \/ job'.step \in {"idle", "begin", "update"}
           /\ job' = job \/ (job'.step = "begin" => job'.kind = "read")
<1>1. CASE Invalidate \/ Clear \/ Edit
  BY <1>1 DEF Invalidate, Clear, Edit, SettingsTyped, WorldTyped
<1>2. CASE Poll
  BY <1>2 DEF Poll, Start, NoJob, SettingsTyped, WorldTyped
<1>3. CASE Save
  <2>1. PICK seen \in {screen.draft, screen.view.snap} : Start("update", seen, screen)
    BY <1>3 DEF Save
  <2>2. job'.step = "update"
    BY <2>1 DEF Start, NoJob
  <2>. QED
    BY <1>3, <2>2 DEF Save, SettingsTyped, WorldTyped
<1>4. CASE Apply
  BY <1>4 DEF Apply, Free, NoJob, SettingsTyped, WorldTyped
<1>. QED
  BY <1>1, <1>2, <1>3, <1>4 DEF Backend

\* The net only loses changes when Core acts.
LEMMA CoreFrame ==
    ASSUME SettingsTyped, CoreStep
    PROVE  /\ UNCHANGED <<client, job, screen, world, back>>
           /\ core'.net \subseteq core.net
           /\ core.accepted \subseteq core'.accepted
<1>. USE DEF SettingsTyped, CoreTyped
<1>1. CASE Execute
  <2>1. PICK o \in core.net :
           core' = IF o.rev = core.rev[o.ctx]
                   THEN [core EXCEPT !.net = @ \ {o}, !.accepted = @ \cup {o.op}, !.rev[o.ctx] = @ + 1]
                   ELSE [core EXCEPT !.net = @ \ {o}, !.refused = @ \cup {o.op}]
    BY <1>1 DEF Execute
  <2>2. core'.net = core.net \ {o} /\ core.accepted \subseteq core'.accepted
    BY <2>1
  <2>. QED
    BY <2>2 DEF CoreStep
<1>2. CASE Lose
  BY <1>2 DEF CoreStep, Lose
<1>3. CASE Expire
  BY <1>3 DEF CoreStep, Expire
<1>4. CASE Foreign
  BY <1>4 DEF CoreStep, Foreign
<1>. QED
  BY <1>1, <1>2, <1>3, <1>4 DEF CoreStep

LEMMA SeenStep == SettingsTyped /\ SeenInv /\ [Next]_vars => SeenInv'
<1>. SUFFICES ASSUME SettingsTyped, SeenInv, [Next]_vars PROVE SeenInv'
  OBVIOUS
<1>1. CASE Begin
  BY <1>1 DEF SettingsTyped, ClientTyped, JobTyped, SeenInv, Begin, Rebound, Step
<1>2. CASE Recover
  BY <1>2 DEF SettingsTyped, ClientTyped, JobTyped, SeenInv, Recover, Resolved, Forgot, Step, Fail
<1>3. CASE Get
  <2>1. client'.snap = NoSnap \/ (client'.snap[1] = client'.ctx)
    BY <1>3 DEF SettingsTyped, ClientTyped, WorldTyped, Get, Forgot, InContext
  <2>2. job'.step = "done"
    BY <1>3 DEF SettingsTyped, JobTyped, Get, Fail
  <2>. QED
    BY <1>3, <2>1, <2>2 DEF SeenInv, Get
<1>4. CASE Update
  BY <1>4 DEF SettingsTyped, ClientTyped, JobTyped, SeenInv, Update, Fail, SameEdit
<1>5. CASE Patch
  <2>1. CASE InContext
    <3>. DEFINE o == [op |-> job.op, ctx |-> client.ctx, rev |-> client.snap[2], seen |-> job.seen,
                      visit |-> world.moves]
    <3>1. core'.net = core.net \cup {o} /\ Step("wait") /\ UNCHANGED client
      BY <1>5, <2>1 DEF Patch, SettingsTyped, CoreTyped
    <3>2. o.seen = <<o.ctx, o.rev>>
      BY <1>5 DEF SettingsTyped, ClientTyped, AnySnap, SeenInv, Patch
    <3>. QED
      BY <3>1, <3>2, JobMoves DEF SeenInv
  <2>2. CASE ~InContext
    BY <1>5, <2>2, JobMoves DEF SettingsTyped, ClientTyped, SeenInv, Patch
  <2>. QED
    BY <2>1, <2>2
<1>6. CASE Answer
  BY <1>6 DEF SettingsTyped, ClientTyped, JobTyped, SeenInv, Answer, Step, Fail
<1>7. CASE Resolve
  BY <1>7, ResolveEnds, JobMoves DEF SeenInv, Resolve
<1>8. CASE Backend
  BY <1>8, BackendJob DEF SeenInv
<1>9. CASE CoreStep
  BY <1>9, CoreFrame DEF SeenInv
<1>10. CASE Move
  BY <1>10 DEF Move, SeenInv
<1>11. CASE UNCHANGED vars
  BY <1>11 DEF vars, SeenInv
<1>. QED
  BY <1>1, <1>2, <1>3, <1>4, <1>5, <1>6, <1>7, <1>8, <1>9, <1>10, <1>11 DEF Next, Work

LEMMA NumberedStep == SettingsTyped /\ SeenInv /\ NumberedInv /\ PendingInv /\ [Next]_vars => NumberedInv'
<1>. SUFFICES ASSUME SettingsTyped, SeenInv, NumberedInv, PendingInv, [Next]_vars PROVE NumberedInv'
  OBVIOUS
<1>0. ASSUME UNCHANGED core, job'.step # "patch" \/ (job'.op = Count + 1)
      PROVE  NumberedInv'
  <2>1. SentOps' = SentOps
    BY <1>0 DEF SentOps, Sent
  <2>2. Count' = Count
    BY <2>1 DEF Count
  <2>. QED
    BY <1>0, <2>1, <2>2 DEF NumberedInv
<1>1. CASE Begin \/ Recover \/ Get \/ Answer \/ Resolve
  <2>1. UNCHANGED core
    BY <1>1 DEF Begin, Recover, Get, Answer, Resolve
  <2>2. \E s \in {"recover", "get", "begin", "resolve", "done"} : job'.step = s
    BY <1>1, JobMoves DEF Begin, Recover, Get, Answer, Resolve, SettingsTyped, JobTyped
  <2>. QED
    BY <1>0, <2>1, <2>2
<1>2. CASE Update
  <2>1. UNCHANGED core
    BY <1>2 DEF Update
  <2>2. job'.step = "done" \/ (job' = [job EXCEPT !.step = "patch", !.op = Count + 1])
    BY <1>2, JobMoves DEF Update, Count, SentOps
  <2>3. job'.step = "done" \/ job'.op = Count + 1
    BY <2>2 DEF SettingsTyped, JobTyped
  <2>. QED
    BY <1>0, <2>1, <2>3
<1>3. CASE Patch
  <2>1. CASE ~InContext
    BY <1>0, <1>3, <2>1, JobMoves DEF Patch
  <2>2. CASE InContext
    <3>. DEFINE o == [op |-> job.op, ctx |-> client.ctx, rev |-> client.snap[2], seen |-> job.seen,
                      visit |-> world.moves]
    <3>0. /\ job.op = Count + 1 /\ job.op \in Ops /\ Count \in Nat /\ SentOps = 1..Count
      BY <1>3 DEF Patch, NumberedInv, PendingInv, SettingsTyped, JobTyped
    <3>1. /\ core' = [core EXCEPT !.net = @ \cup {o}] /\ job'.step = "wait"
          /\ job.op = Count + 1 /\ job.op \in Ops /\ Count \in Nat /\ SentOps = 1..Count /\ job.op \notin SentOps
      BY <1>3, <2>2, <3>0, JobMoves DEF Patch
    <3>2. /\ core'.net = core.net \cup {o} /\ o.op = job.op
          /\ UNCHANGED <<core.accepted, core.refused, core.expired>>
      BY <3>1 DEF SettingsTyped, CoreTyped
    <3>. HIDE DEF o
    <3>3. SentOps' = SentOps \cup {job.op}
      BY <3>1, <3>2 DEF SentOps, Sent
    <3>4. SentOps' = 1..(Count + 1)
      BY <3>1, <3>3
    <3>5. Count' = Count + 1
      <4>1. Cardinality(1..(Count + 1)) = Count + 1
        BY <3>0, FS_Interval
      <4>. QED
        BY <3>4, <4>1 DEF Count
    <3>6. job.op \notin core.accepted \cup core.refused /\ \A p \in core.net : p.op # job.op
      <4>1. job.op \in Ops /\ job.op \notin SentOps
        BY <3>1
      <4>2. ~Sent(job.op)
        BY <4>1 DEF SentOps
      <4>. QED
        BY <4>2 DEF Sent
    <3>7. Count' \in Nat /\ SentOps' = 1..Count'
      BY <3>1, <3>4, <3>5
    <3>8. \A p \in core'.net : p.op \notin core'.accepted \cup core'.refused
      BY <3>2, <3>6 DEF NumberedInv
    <3>9. \A p, q \in core'.net : p.op = q.op => p = q
      BY <3>2, <3>6 DEF NumberedInv
    <3>. QED
      BY <3>1, <3>2, <3>7, <3>8, <3>9 DEF NumberedInv
  <2>. QED
    BY <2>1, <2>2
<1>4. CASE Backend
  BY <1>0, <1>4, BackendJob DEF NumberedInv
<1>5. CASE CoreStep
  <2>. USE DEF SettingsTyped, CoreTyped
  <2>0. ASSUME SentOps' = SentOps,
               \A o \in core'.net : o.op \notin core'.accepted \cup core'.refused,
               core'.expired \subseteq core'.accepted \cup core'.refused
        PROVE  NumberedInv'
    <3>1. Count' = Count
      BY <2>0 DEF Count
    <3>. QED
      BY <1>5, <2>0, <3>1, CoreFrame DEF NumberedInv
  <2>1. ASSUME NEW o \in core.net,
               core'.net = core.net \ {o}, core'.expired = core.expired,
               core'.accepted \cup core'.refused = core.accepted \cup core.refused \cup {o.op}
        PROVE  NumberedInv'
    <3>1. o.op \in Ops
      BY DEF AnyChange
    <3>2. SentOps' = SentOps
      BY <2>1, <3>1 DEF SentOps, Sent
    <3>. QED
      BY <2>0, <2>1, <3>2 DEF NumberedInv
  <2>2. CASE Execute
    <3>1. PICK o \in core.net :
            core' = IF o.rev = core.rev[o.ctx]
                    THEN [core EXCEPT !.net = @ \ {o}, !.accepted = @ \cup {o.op}, !.rev[o.ctx] = @ + 1]
                    ELSE [core EXCEPT !.net = @ \ {o}, !.refused = @ \cup {o.op}]
      BY <2>2 DEF Execute
    <3>2. /\ core'.net = core.net \ {o} /\ core'.expired = core.expired
          /\ core'.accepted \cup core'.refused = core.accepted \cup core.refused \cup {o.op}
      BY <3>1
    <3>. QED
      BY <2>1, <3>2
  <2>3. CASE Lose
    <3>1. PICK o \in core.net : core' = [core EXCEPT !.net = @ \ {o}, !.refused = @ \cup {o.op}]
      BY <2>3 DEF Lose
    <3>2. /\ core'.net = core.net \ {o} /\ core'.expired = core.expired
          /\ core'.accepted \cup core'.refused = core.accepted \cup core.refused \cup {o.op}
      BY <3>1
    <3>. QED
      BY <2>1, <3>2
  <2>4. CASE Expire \/ Foreign
    <3>1. UNCHANGED <<core.net, core.accepted, core.refused>>
      BY <2>4 DEF Expire, Foreign
    <3>2. core'.expired \subseteq core.accepted \cup core.refused
      <4>1. core.expired \subseteq core.accepted \cup core.refused
        BY DEF NumberedInv
      <4>2. CASE Expire
        <5>1. core' = [core EXCEPT !.expired = core.expired \cup {client.pending}]
          BY <4>2 DEF Expire
        <5>2. core'.expired = core.expired \cup {client.pending}
          BY <5>1
        <5>3. client.pending \in core.accepted \cup core.refused
          BY <4>2 DEF Expire
        <5>. QED
          BY <4>1, <5>2, <5>3
      <4>3. CASE Foreign
        <5>1. core'.expired = core.expired
          BY <4>3 DEF Foreign
        <5>. QED
          BY <4>1, <5>1
      <4>. QED
        BY <2>4, <4>2, <4>3
    <3>3. SentOps' = SentOps
      BY <3>1 DEF SentOps, Sent
    <3>. QED
      BY <2>0, <3>1, <3>2, <3>3 DEF NumberedInv
  <2>. QED
    BY <1>5, <2>2, <2>3, <2>4 DEF CoreStep
<1>6. CASE Move
  BY <1>0, <1>6 DEF Move, NumberedInv
<1>7. CASE UNCHANGED vars
  BY <1>0, <1>7 DEF vars, NumberedInv
<1>. QED
  BY <1>1, <1>2, <1>3, <1>4, <1>5, <1>6, <1>7 DEF Next, Work

LEMMA PendingStep == SettingsTyped /\ NumberedInv /\ PendingInv /\ [Next]_vars => PendingInv'
<1>. SUFFICES ASSUME SettingsTyped, NumberedInv, PendingInv, [Next]_vars PROVE PendingInv'
  OBVIOUS
<1>. DEFINE Waits == job'.step \in {"patch", "wait", "resolve"} => client'.pending = job'.op /\ job'.op # 0
<1>0. ASSUME UNCHANGED <<core, world>>, Waits,
             \A o \in core.net : o.visit = world.moves => client'.ctx = client.ctx /\ client'.pending = client.pending
      PROVE  PendingInv'
  BY <1>0 DEF PendingInv, OneUndecided
<1>1. CASE Begin
  <2>1. \E s \in {"recover", "get"} : job'.step = s
    BY <1>1, JobMoves DEF Begin
  <2>2. InContext => client' = client
    BY <1>1 DEF Begin
  <2>. QED
    BY <1>0, <1>1, <2>1, <2>2 DEF Begin, InContext, PendingInv
<1>2. CASE Recover
  <2>1. \E s \in {"get", "done"} : job'.step = s
    BY <1>2, JobMoves DEF Recover
  <2>2. \A o \in core.net : o.visit = world.moves => client'.ctx = client.ctx /\ client'.pending = client.pending
    <3>. SUFFICES ASSUME NEW o \in core.net, o.visit = world.moves
                  PROVE  client'.ctx = client.ctx /\ client'.pending = client.pending
      OBVIOUS
    <3>1. client.pending = o.op /\ o.op \notin core.accepted \cup core.expired
      BY DEF PendingInv, NumberedInv
    <3>2. Phase(client.pending) = "not_accepted"
      BY <3>1 DEF Phase
    <3>. QED
      BY <1>2, <3>2 DEF Recover, Resolved, Forgot, SettingsTyped, ClientTyped
  <2>. QED
    BY <1>0, <1>2, <2>1, <2>2 DEF Recover
<1>3. CASE Get
  <2>1. job'.step = "done"
    BY <1>3, JobMoves DEF Get, SettingsTyped, JobTyped
  <2>2. client'.ctx = client.ctx /\ client'.pending = client.pending
    BY <1>3 DEF Get, Forgot, SettingsTyped, ClientTyped
  <2>. QED
    BY <1>0, <1>3, <2>1, <2>2 DEF Get
<1>4. CASE Update
  <2>1. CASE UNCHANGED client /\ job'.step = "done"
    BY <1>0, <1>4, <2>1 DEF Update
  <2>2. CASE ~(UNCHANGED client /\ job'.step = "done")
    <3>. DEFINE op == Cardinality({o \in Ops : Sent(o)}) + 1
    <3>1. /\ client.pending = 0 /\ op \in Ops
          /\ client' = [client EXCEPT !.pending = op, !.unknown = FALSE]
          /\ job' = [job EXCEPT !.step = "patch", !.op = op]
      BY <1>4, <2>2, JobMoves DEF Update, Undecided
    <3>. HIDE DEF op
    <3>2. client'.pending = op /\ job'.op = op /\ op # 0
      BY <3>1 DEF SettingsTyped, ClientTyped, JobTyped, Ops
    <3>3. \A o \in core.net : o.visit # world.moves
      BY <3>1 DEF PendingInv, SettingsTyped, CoreTyped, AnyChange, Ops
    <3>. QED
      BY <1>0, <1>4, <3>2, <3>3 DEF Update
  <2>. QED
    BY <2>1, <2>2
<1>5. CASE Patch
  <2>1. CASE ~InContext
    <3>1. job'.step = "done" /\ UNCHANGED <<core, world>>
      BY <1>5, <2>1, JobMoves DEF Patch
    <3>. QED
      BY <1>0, <2>1, <3>1 DEF InContext, PendingInv
  <2>2. CASE InContext
    <3>. DEFINE o == [op |-> job.op, ctx |-> client.ctx, rev |-> client.snap[2], seen |-> job.seen,
                      visit |-> world.moves]
    <3>1. /\ core'.net = core.net \cup {o} /\ UNCHANGED <<client, world>>
          /\ job'.step = "wait" /\ job'.op = job.op
      BY <1>5, <2>2, JobMoves DEF Patch, SettingsTyped, CoreTyped
    <3>2. o.op = job.op /\ o.visit = world.moves /\ client.pending = job.op /\ client.ctx = world.ctx /\ job.op # 0
      BY <1>5, <2>2 DEF Patch, PendingInv, InContext
    <3>3. job.op \in Ops /\ job.op \notin SentOps
      BY <1>5 DEF Patch, NumberedInv, PendingInv, SettingsTyped, JobTyped
    <3>4. ~Sent(job.op)
      BY <3>3 DEF SentOps
    <3>5. \A p \in core.net : p.op # job.op
      BY <3>4 DEF Sent
    <3>6. \A p \in core.net : p.visit # world.moves
      BY <3>2, <3>5 DEF PendingInv
    <3>7. world.moves \in Nat
      BY DEF SettingsTyped, WorldTyped
    <3>. HIDE DEF o
    <3>8. OneUndecided'
      BY <3>1, <3>2, <3>6 DEF PendingInv, OneUndecided
    <3>. QED
      BY <3>1, <3>2, <3>7, <3>8 DEF PendingInv
  <2>. QED
    BY <2>1, <2>2
<1>6. CASE Answer
  <2>1. CASE UNCHANGED client /\ Step("resolve")
    BY <1>0, <1>6, <2>1, JobMoves DEF Answer, PendingInv
  <2>2. CASE job.op \in core.accepted \cup core.refused /\ job'.step \in {"begin", "done"}
    <3>1. \A o \in core.net : o.visit # world.moves
      BY <1>6, <2>2 DEF Answer, PendingInv, NumberedInv
    <3>. QED
      BY <1>0, <1>6, <2>2, <3>1 DEF Answer
  <2>. QED
    BY <1>6, <2>1, <2>2, JobMoves DEF Answer
<1>7. CASE Resolve
  <2>1. PICK c \in {client, Resolved(job.op, Phase(job.op))} :
             /\ c = client \/ InContext
             /\ c \in [ctx : {client.ctx}, snap : {client.snap}, pending : {client.pending, 0}, unknown : BOOLEAN]
             /\ \/ Confirmed(c) /\ client' = c /\ Step("begin")
                \/ ~Confirmed(c) /\ client' = [c EXCEPT !.snap = NoSnap] /\ Fail("uncertain")
    BY <1>7, ResolveEnds
  <2>2. job'.step \in {"begin", "done"}
    BY <2>1, JobMoves
  <2>3. client'.ctx = client.ctx /\ client'.pending = c.pending
    BY <2>1
  <2>4. ASSUME NEW o \in core.net, o.visit = world.moves PROVE c.pending = client.pending
    <3>1. job.op = o.op /\ o.op \notin core.accepted \cup core.expired
      BY <1>7, <2>4 DEF Resolve, PendingInv, NumberedInv
    <3>2. Phase(job.op) = "not_accepted"
      BY <3>1 DEF Phase
    <3>. QED
      BY <2>1, <3>2 DEF Resolved, SettingsTyped, ClientTyped
  <2>. QED
    BY <1>0, <1>7, <2>2, <2>3, <2>4 DEF Resolve
<1>8. CASE Backend
  <2>1. Waits
    BY <1>8, BackendJob DEF PendingInv
  <2>2. UNCHANGED <<core, client>> /\ world'.ctx = world.ctx /\ world'.moves >= world.moves
    BY <1>8, BackendJob
  <2>3. world.moves \in Nat /\ world'.moves \in Nat /\ \A o \in core.net : o.visit \in Nat
    BY <1>8, TypedBackend DEF SettingsTyped, CoreTyped, WorldTyped, AnyChange
  <2>. HIDE DEF Waits
  <2>4. \A o \in core'.net : o.visit <= world'.moves
    BY <2>2, <2>3 DEF PendingInv
  <2>5. \A o \in core'.net : o.visit = world'.moves => client'.ctx = world'.ctx /\ client'.pending = o.op
    BY <2>2, <2>3 DEF PendingInv
  <2>. QED
    BY <2>1, <2>2, <2>4, <2>5 DEF PendingInv, OneUndecided, Waits
<1>9. CASE CoreStep
  BY <1>9, CoreFrame DEF PendingInv, OneUndecided
<1>10. CASE Move
  <2>1. UNCHANGED <<core, client, job>> /\ world'.moves = world.moves + 1
    BY <1>10 DEF Move
  <2>2. world.moves \in Nat /\ \A o \in core.net : o.visit \in Nat
    BY DEF SettingsTyped, CoreTyped, WorldTyped, AnyChange
  <2>. QED
    BY <2>1, <2>2 DEF PendingInv, OneUndecided
<1>11. CASE UNCHANGED vars
  BY <1>11 DEF vars, PendingInv, OneUndecided
<1>. QED
  BY <1>1, <1>2, <1>3, <1>4, <1>5, <1>6, <1>7, <1>8, <1>9, <1>10, <1>11 DEF Next, Work

LEMMA SavedStep == SettingsTyped /\ PendingInv /\ SavedInv /\ [Next]_vars => SavedInv'
<1>. SUFFICES ASSUME SettingsTyped, PendingInv, SavedInv, [Next]_vars PROVE SavedInv'
  OBVIOUS
<1>1. CASE Begin
  BY <1>1, JobMoves DEF Begin, SavedInv
<1>2. CASE Recover
  BY <1>2, JobMoves DEF Recover, SavedInv
<1>3. CASE Get
  BY <1>3, JobMoves DEF Get, SavedInv, SettingsTyped, JobTyped
<1>4. CASE Update
  <2>1. job'.step = "patch" \/ (job'.step = "done" /\ job'.error # "none")
    BY <1>4, UpdateEnds
  <2>. QED
    BY <2>1 DEF SavedInv
<1>5. CASE Patch
  BY <1>5, JobMoves DEF Patch, SavedInv
<1>6. CASE Answer
  BY <1>6, JobMoves DEF Answer, SavedInv
<1>7. CASE Resolve
  <2>1. PICK c \in {client, Resolved(job.op, Phase(job.op))} :
             /\ c = client \/ InContext
             /\ c \in [ctx : {client.ctx}, snap : {client.snap}, pending : {client.pending, 0}, unknown : BOOLEAN]
             /\ \/ Confirmed(c) /\ client' = c /\ Step("begin")
                \/ ~Confirmed(c) /\ client' = [c EXCEPT !.snap = NoSnap] /\ Fail("uncertain")
    BY <1>7, ResolveEnds
  <2>2. CASE Fail("uncertain")
    BY <1>7, <2>2, JobMoves DEF SavedInv, Resolve
  <2>3. CASE Confirmed(c) /\ Step("begin")
    <3>1. c # client
      BY <1>7, <2>3 DEF Resolve, PendingInv, Confirmed
    <3>2. Phase(job.op) \notin {"not_accepted", "unknown"}
      BY <1>7, <2>1, <2>3, <3>1 DEF Resolve, PendingInv, Confirmed, Resolved, SettingsTyped, ClientTyped
    <3>3. job.op \in core.accepted
      BY <3>2 DEF Phase
    <3>. QED
      BY <1>7, <2>3, <3>3, JobMoves DEF Resolve, SavedInv
  <2>. QED
    BY <2>1, <2>2, <2>3
<1>8. CASE Backend
  BY <1>8, BackendJob DEF SavedInv
<1>9. CASE CoreStep
  BY <1>9, CoreFrame DEF SavedInv
<1>10. CASE Move
  BY <1>10 DEF Move, SavedInv
<1>11. CASE UNCHANGED vars
  BY <1>11 DEF vars, SavedInv
<1>. QED
  BY <1>1, <1>2, <1>3, <1>4, <1>5, <1>6, <1>7, <1>8, <1>9, <1>10, <1>11 DEF Next, Work

LEMMA ShownStep == SettingsTyped /\ ShownInv /\ [Next]_vars => ShownInv'
<1>. SUFFICES ASSUME SettingsTyped, ShownInv, [Next]_vars, ~back' PROVE ShownInv'
  BY DEF ShownInv
<1>0. ASSUME UNCHANGED <<screen, world, back>>, job'.step # "done" \/ job'.error # "none"
      PROVE  ShownInv'
  BY <1>0 DEF ShownInv
<1>1. CASE Begin \/ Recover \/ Update \/ Patch \/ Answer \/ Resolve
  <2>1. UNCHANGED <<screen, world, back>>
    BY <1>1 DEF Begin, Recover, Update, Patch, Answer, Resolve
  <2>2. CASE Update
    <3>1. job'.step = "patch" \/ (job'.step = "done" /\ job'.error # "none")
      BY <2>2, UpdateEnds
    <3>. QED
      BY <1>0, <2>1, <3>1
  <2>3. CASE ~Update
    <3>1. (job'.step = "done" => job'.error # "none")
      BY <1>1, <2>3, JobMoves DEF Begin, Recover, Patch, Answer, Resolve
    <3>. QED
      BY <1>0, <2>1, <3>1
  <2>. QED
    BY <2>2, <2>3
<1>2. CASE Get
  <2>1. UNCHANGED <<screen, world, back>>
    BY <1>2 DEF Get
  <2>2. CASE job'.error # "none"
    BY <1>0, <2>1, <2>2
  <2>3. CASE job'.error = "none"
    <3>1. /\ client' = [client EXCEPT !.snap = <<world.ctx, core.rev[world.ctx]>>]
          /\ job' = [job EXCEPT !.step = "done", !.error = "none", !.view = View(client')]
      BY <1>2, <2>3, JobMoves DEF Get
    <3>2. job'.view.snap = <<world.ctx, core.rev[world.ctx]>>
      BY <3>1 DEF View, SettingsTyped, ClientTyped, JobTyped
    <3>. QED
      BY <2>1, <3>2 DEF ShownInv
  <2>. QED
    BY <2>2, <2>3
<1>3. CASE Backend
  <2>. USE DEF SettingsTyped, ScreenTyped, JobTyped, WorldTyped
  <2>0. ~back
    BY <1>3, BackendJob
  <2>1. CASE Invalidate \/ Clear
    <3>1. screen'.view = NoView /\ UNCHANGED job /\ world'.ctx = world.ctx
      BY <2>1 DEF Invalidate, Clear, Witnessed, Cleared
    <3>. QED
      BY <2>0, <3>1 DEF ShownInv
  <2>2. CASE Poll
    <3>1. UNCHANGED <<world, back>> /\ job'.step = "begin"
      BY <2>2 DEF Poll, Start, NoJob
    <3>2. UNCHANGED screen \/ screen'.view = NoView
      BY <2>2 DEF Poll, Witnessed, Cleared
    <3>. QED
      BY <2>0, <3>1, <3>2 DEF ShownInv
  <2>3. CASE Edit
    BY <2>0, <2>3 DEF Edit, ShownInv
  <2>4. CASE Save
    <3>1. PICK seen \in {screen.draft, screen.view.snap} : Start("update", seen, screen)
      BY <2>4 DEF Save
    <3>2. job'.step = "update"
      BY <3>1 DEF Start, NoJob
    <3>. QED
      BY <1>0, <2>4, <3>2 DEF Save
  <2>5. CASE Apply
    <3>1. job'.step = "idle" /\ UNCHANGED <<world, back>>
      BY <2>5 DEF Apply, Free, NoJob
    <3>2. screen'.witness = screen.witness
      BY <2>5 DEF Apply
    <3>3. CASE Current /\ job.error = "none"
      <4>1. job.view.snap[1] = world.ctx
        BY <2>0, <2>5, <3>3 DEF ShownInv, Current, Apply
      <4>2. screen'.view = job.view
        BY <2>5, <3>3 DEF Apply
      <4>. QED
        BY <3>1, <4>1, <4>2 DEF ShownInv
    <3>4. CASE ~(Current /\ job.error = "none")
      <4>1. screen'.view \in {screen.view, NoView}
        BY <2>5, <3>4 DEF Apply
      <4>. QED
        BY <2>0, <3>1, <3>2, <4>1 DEF ShownInv
    <3>. QED
      BY <3>3, <3>4
  <2>. QED
    BY <1>3, <2>1, <2>2, <2>3, <2>4, <2>5 DEF Backend
<1>4. CASE CoreStep
  BY <1>4, CoreFrame DEF ShownInv
<1>5. CASE Move
  <2>1. PICK c \in Contexts : world'.ctx = c /\ back' = (back \/ c = screen.witness \/ (job.step # "idle" /\ job.ctx = c))
    BY <1>5 DEF Move
  <2>2. screen.witness # c /\ (job.step = "done" => job.ctx # c)
    BY <2>1
  <2>. QED
    BY <1>5, <2>1, <2>2 DEF ShownInv, Move
<1>6. CASE UNCHANGED vars
  BY <1>6 DEF vars, ShownInv
<1>. QED
  BY <1>1, <1>2, <1>3, <1>4, <1>5, <1>6 DEF Next, Work

-----------------------------------------------------------------------------

\* The inductive invariant of the shared settings: it holds at the start and every step keeps it.
THEOREM SettingsInvariant == Spec => []SettingsInv
<1>1. Init => SettingsInv
  <2>. SUFFICES ASSUME Init PROVE SettingsInv
    OBVIOUS
  <2>1. SettingsTyped
    BY TypedInit
  <2>2. SeenInv /\ PendingInv /\ SavedInv /\ ShownInv
    BY DEF Init, NoJob, SeenInv, PendingInv, OneUndecided, SavedInv, ShownInv
  <2>3. SentOps = {}
    BY DEF Init, SentOps, Sent
  <2>4. Count = 0 /\ 1..0 = {}
    BY <2>3, FS_EmptySet DEF Count
  <2>5. NumberedInv
    BY <2>3, <2>4 DEF Init, NoJob, NumberedInv
  <2>. QED
    BY <2>1, <2>2, <2>5 DEF SettingsInv
<1>2. SettingsInv /\ [Next]_vars => SettingsInv'
  <2>. SUFFICES ASSUME SettingsInv, [Next]_vars PROVE SettingsInv'
    OBVIOUS
  <2>1. SettingsTyped'
    <3>1. CASE UNCHANGED vars
      BY <3>1 DEF SettingsInv, SettingsTyped, CoreTyped, ClientTyped, JobTyped, ScreenTyped, WorldTyped, vars
    <3>. QED
      BY <3>1, TypedWork, TypedBackend, TypedCore DEF SettingsInv, Next
  <2>. QED
    BY <2>1, SeenStep, NumberedStep, PendingStep, SavedStep, ShownStep DEF SettingsInv
<1>. QED
  BY <1>1, <1>2, PTL DEF Spec

\* A change that Core would carry out was made on exactly the revision, of the context it
\* is for, that its author had on screen (edit_token, expected_defaults_revision).
THEOREM ChangesReplaceWhatWasSeen == Spec => []ReplacesWhatWasSeen
<1>1. SettingsInv => ReplacesWhatWasSeen
  BY DEF SettingsInv, SeenInv, ReplacesWhatWasSeen
<1>. QED
  BY <1>1, SettingsInvariant, PTL

\* update refuses while a change is undecided and _recover_pending gives one up only once
\* Core decided it: one context never has two changes on their way.
THEOREM NeverTwoUndecided == Spec => []OneUndecided
<1>1. SettingsInv => OneUndecided
  BY DEF SettingsInv, PendingInv
<1>. QED
  BY <1>1, SettingsInvariant, PTL

\* A save that update reports as done was accepted by Core, also when the answer was lost
\* and only the receipt told so.
THEOREM ReportedSavesWereAccepted == Spec => []SavedMeansAccepted
<1>1. SettingsInv => SavedMeansAccepted
  BY DEF SettingsInv, SavedInv, SavedMeansAccepted
<1>. QED
  BY <1>1, SettingsInvariant, PTL

\* The settings on screen are of the context the backend has noticed, for any number of
\* moves, saves and clears, unless a context came back unnoticed (_apply_shared_settings).
THEOREM SettingsOfTheNoticedContext == Spec => []ShownForContext
<1>1. SettingsInv => ShownForContext
  BY DEF SettingsInv, ShownInv, ShownForContext
<1>. QED
  BY <1>1, SettingsInvariant, PTL

-----------------------------------------------------------------------------
(* CommandQueue: sequences of commands *)

\* The commands of line are those of g without the ones in D, in the order of g.
Follows(line, g, D) ==
    /\ Range(line) = Range(g) \ D
    /\ \A i, j \in DOMAIN line : i < j => line[i] # line[j] /\ Before(g, line[i], line[j])

LEMMA KeptIsEnd ==
    ASSUME NEW S, NEW s \in Seq(S), QueueBounds
    PROVE  /\ Kept(s) \in Seq(S)
           /\ Len(Kept(s)) \in Nat /\ Len(s) \in Nat /\ Len(Kept(s)) <= Len(s)
           /\ Len(Kept(s)) = IF Len(s) <= Cap THEN Len(s) ELSE Cap
           /\ \A i \in 1..Len(Kept(s)) : Kept(s)[i] = s[i + (Len(s) - Len(Kept(s)))]
           /\ s # <<>> => Kept(s) # <<>>
<1>0. Cap \in Nat \ {0}
  BY DEF QueueBounds
<1>1. Len(s) \in Nat /\ DOMAIN s = 1..Len(s) /\ \A i \in 1..Len(s) : s[i] \in S
  BY LenProperties, ElementOfSeq
<1>2. CASE Len(s) <= Cap
  <2>1. Kept(s) = s
    BY <1>2 DEF Kept
  <2> QED
    BY <2>1, <1>1, <1>2
<1>3. CASE ~(Len(s) <= Cap)
  <2> DEFINE m == Len(s) - Cap + 1
  <2>1. Kept(s) = SubSeq(s, m, Len(s))
    BY <1>3 DEF Kept
  <2>2. m \in Int /\ Len(s) \in Int /\ m <= Len(s) /\ m >= 1 /\ Len(s) - m + 1 = Cap
    BY <1>0, <1>1, <1>3
  <2>3. \A i \in m..Len(s) : s[i] \in S
    BY <1>1, <2>2
  <2> HIDE DEF m
  <2>4. /\ Kept(s) \in Seq(S) /\ Len(Kept(s)) = Cap
        /\ \A i \in 1..Cap : Kept(s)[i] = s[m + i - 1]
    BY <2>1, <2>2, <2>3, SubSeqProperties
  <2>5. \A i \in 1..Cap : m + i - 1 = i + (Len(s) - Cap)
    BY <1>0, <1>1 DEF m
  <2>6. Kept(s) # <<>>
    BY <1>0, <2>4, EmptySeq
  <2> QED
    BY <1>0, <1>1, <1>3, <2>4, <2>5, <2>6
<1> QED
  BY <1>2, <1>3

LEMMA FollowsAppend ==
    ASSUME NEW S, NEW line \in Seq(S), NEW g \in Seq(S), NEW c \in S, NEW D,
           Follows(line, g, D), c \notin Range(g), D \subseteq Range(g)
    PROVE  Follows(Append(line, c), Append(g, c), D)
<1> DEFINE L == Append(line, c)
           G == Append(g, c)
<1>1. /\ Len(line) \in Nat /\ DOMAIN line = 1..Len(line)
      /\ Len(g) \in Nat /\ DOMAIN g = 1..Len(g)
  BY LenProperties
<1>2. /\ Len(L) = Len(line) + 1 /\ DOMAIN L = 1..(Len(line) + 1) /\ L[Len(line) + 1] = c
      /\ \A i \in 1..Len(line) : L[i] = line[i]
  BY <1>1, AppendProperties, LenProperties
<1>3. /\ Len(G) = Len(g) + 1 /\ DOMAIN G = 1..(Len(g) + 1) /\ G[Len(g) + 1] = c
      /\ \A i \in 1..Len(g) : G[i] = g[i]
  BY <1>1, AppendProperties, LenProperties
<1> HIDE DEF L, G
<1>4. Range(L) = Range(line) \cup {c}
  BY <1>1, <1>2 DEF Range
<1>5. Range(G) = Range(g) \cup {c}
  BY <1>1, <1>3 DEF Range
<1>6. Range(line) = Range(g) \ D
  BY DEF Follows
<1>7. Range(L) = Range(G) \ D
  BY <1>4, <1>5, <1>6
<1>8. ASSUME NEW i \in DOMAIN L, NEW j \in DOMAIN L, i < j
      PROVE  L[i] # L[j] /\ Before(G, L[i], L[j])
  <2>0. i \in 1..Len(line) /\ L[i] = line[i] /\ line[i] \in Range(g)
    BY <1>1, <1>2, <1>6, <1>8 DEF Range
  <2>1. CASE j = Len(line) + 1
    <3>1. PICK n \in DOMAIN g : g[n] = line[i]
      BY <2>0 DEF Range
    <3>2. n < Len(g) + 1 /\ n \in DOMAIN G /\ G[n] = L[i] /\ Len(g) + 1 \in DOMAIN G
      BY <1>1, <1>3, <2>0, <3>1
    <3>3. L[j] = c /\ L[i] # c
      BY <1>2, <2>0, <2>1
    <3> QED
      BY <1>3, <3>2, <3>3 DEF Before
  <2>2. CASE j \in 1..Len(line)
    <3>1. L[j] = line[j] /\ line[i] # line[j] /\ Before(g, line[i], line[j])
      BY <1>1, <1>2, <1>8, <2>0, <2>2 DEF Follows
    <3>2. PICK n, k \in DOMAIN g : n < k /\ g[n] = line[i] /\ g[k] = line[j]
      BY <3>1 DEF Before
    <3>3. n \in DOMAIN G /\ k \in DOMAIN G /\ G[n] = L[i] /\ G[k] = L[j]
      BY <1>1, <1>3, <2>0, <3>1, <3>2
    <3> QED
      BY <2>0, <3>1, <3>2, <3>3 DEF Before
  <2> QED
    BY <1>1, <1>2, <2>1, <2>2
<1>9. Follows(L, G, D)
  BY <1>7, <1>8 DEF Follows
<1> QED
  BY <1>9 DEF L, G

\* What the cap pushes out of the end of a line leaves the rest of it as it is.
LEMMA FollowsCut ==
    ASSUME NEW S, NEW a \in Seq(S), NEW e \in Seq(S), NEW g, NEW D, QueueBounds,
           Follows(a \o e, g, D)
    PROVE  Follows(a \o Kept(e), g, D \cup Overflow(e))
<1> DEFINE L == a \o e
           k == Kept(e)
           K == a \o k
           o == Len(e) - Len(k)
           pos(i) == IF i <= Len(a) THEN i ELSE i + o
<1>1. /\ k \in Seq(S) /\ Len(k) \in Nat /\ Len(e) \in Nat /\ o \in Nat
      /\ Len(k) = IF Len(e) <= Cap THEN Len(e) ELSE Cap
      /\ Len(e) = Len(k) + o
      /\ \A i \in 1..Len(k) : k[i] = e[i + o]
  <2>1. o \in Nat /\ Len(e) = Len(k) + o
    BY KeptIsEnd
  <2> QED
    BY <2>1, KeptIsEnd
<1> HIDE DEF k, o
<1>2. Cap \in Nat \ {0}
  BY DEF QueueBounds
<1>3. /\ Len(a) \in Nat /\ DOMAIN a = 1..Len(a) /\ DOMAIN e = 1..Len(e)
  BY LenProperties
<1>4. /\ L \in Seq(S) /\ Len(L) = Len(a) + Len(e) /\ DOMAIN L = 1..(Len(a) + Len(e))
      /\ \A i \in 1..(Len(a) + Len(e)) : L[i] = IF i <= Len(a) THEN a[i] ELSE e[i - Len(a)]
  BY ConcatProperties, LenProperties
<1>5. /\ DOMAIN K = 1..(Len(a) + Len(k))
      /\ \A i \in 1..(Len(a) + Len(k)) : K[i] = IF i <= Len(a) THEN a[i] ELSE k[i - Len(a)]
  <2>1. k \in Seq(S) /\ a \in Seq(S)
    BY <1>1
  <2>2. /\ K \in Seq(S) /\ Len(K) = Len(a) + Len(k)
        /\ \A i \in 1..(Len(a) + Len(k)) : K[i] = IF i <= Len(a) THEN a[i] ELSE k[i - Len(a)]
    BY <2>1, ConcatProperties
  <2>3. DOMAIN K = 1..Len(K)
    BY <2>2, LenProperties
  <2> QED
    BY <2>2, <2>3
<1> HIDE DEF L, K
<1>6. ASSUME NEW i \in DOMAIN K
      PROVE  pos(i) \in DOMAIN L /\ K[i] = L[pos(i)] /\ pos(i) \notin (Len(a) + 1)..(Len(a) + o)
  <2>1. CASE i <= Len(a)
    BY <1>1, <1>3, <1>4, <1>5, <2>1
  <2>2. CASE ~(i <= Len(a))
    <3>0. i \in Int /\ i > Len(a) /\ i <= Len(a) + Len(k)
      BY <1>1, <1>3, <1>5, <2>2
    <3>1. i - Len(a) \in 1..Len(k) /\ i + o \in 1..(Len(a) + Len(e)) /\ ~(i + o <= Len(a))
      <4>1. Len(a) \in Nat /\ Len(k) \in Nat /\ Len(e) \in Nat /\ o \in Nat /\ Len(e) = Len(k) + o
        BY <1>1, <1>3
      <4> QED
        BY <3>0, <4>1
    <3>2. K[i] = k[i - Len(a)] /\ k[i - Len(a)] = e[(i - Len(a)) + o]
      BY <1>1, <1>5, <2>2, <3>1
    <3>3. (i - Len(a)) + o = (i + o) - Len(a)
      BY <1>1, <1>3, <1>5
    <3>4. L[i + o] = e[(i + o) - Len(a)]
      BY <1>4, <3>1
    <3>5. i + o \notin (Len(a) + 1)..(Len(a) + o)
      BY <1>1, <1>3, <1>5, <2>2
    <3> QED
      BY <1>4, <2>2, <3>1, <3>2, <3>3, <3>4, <3>5
  <2> QED
    BY <2>1, <2>2
<1>7. ASSUME NEW n \in DOMAIN L, n \notin (Len(a) + 1)..(Len(a) + o)
      PROVE  \E i \in DOMAIN K : pos(i) = n
  <2>1. CASE n <= Len(a)
    <3>1. n \in DOMAIN K /\ pos(n) = n
      BY <1>1, <1>3, <1>4, <1>5, <2>1
    <3> QED
      BY <3>1
  <2>2. CASE ~(n <= Len(a))
    <3>1. n - o \in DOMAIN K /\ ~(n - o <= Len(a)) /\ (n - o) + o = n
      <4>1. Len(a) \in Nat /\ Len(k) \in Nat /\ Len(e) \in Nat /\ o \in Nat /\ Len(e) = Len(k) + o
        BY <1>1, <1>3
      <4>2. n \in Int /\ n > Len(a) /\ n <= Len(a) + Len(e)
        BY <1>4, <2>2, <4>1
      <4>3. n > Len(a) + o
        BY <1>7, <4>1, <4>2
      <4>4. n - o \in 1..(Len(a) + Len(k)) /\ ~(n - o <= Len(a)) /\ (n - o) + o = n
        BY <4>1, <4>2, <4>3
      <4> QED
        BY <1>5, <4>4
    <3>2. pos(n - o) = n
      BY <3>1
    <3> QED
      BY <3>1, <3>2
  <2> QED
    BY <2>1, <2>2
<1>8. \A i, j \in DOMAIN K : i < j => pos(i) < pos(j)
  BY <1>1, <1>3, <1>5
<1>9. \A i, j \in DOMAIN L : i < j => L[i] # L[j] /\ Before(g, L[i], L[j])
  BY DEF Follows, L
<1>10. \A n, p \in DOMAIN L : L[n] = L[p] => n = p
  BY <1>3, <1>4, <1>1, <1>9
<1>11. Overflow(e) = {L[n] : n \in (Len(a) + 1)..(Len(a) + o)}
  <2>1. {n \in DOMAIN e : n + Cap <= Len(e)} = 1..o
    BY <1>1, <1>2, <1>3
  <2>2. Overflow(e) = {e[n] : n \in 1..o}
    BY <2>1 DEF Overflow
  <2>3. \A n \in 1..o : Len(a) + n \in (Len(a) + 1)..(Len(a) + o) /\ L[Len(a) + n] = e[n]
    <3> TAKE n \in 1..o
    <3>1. Len(a) + n \in 1..(Len(a) + Len(e)) /\ ~(Len(a) + n <= Len(a)) /\ (Len(a) + n) - Len(a) = n
      BY <1>1, <1>3
    <3>2. L[Len(a) + n] = e[(Len(a) + n) - Len(a)]
      BY <1>4, <3>1
    <3> QED
      BY <1>1, <1>3, <3>1, <3>2
  <2>4. \A n \in (Len(a) + 1)..(Len(a) + o) : n - Len(a) \in 1..o /\ L[n] = e[n - Len(a)]
    BY <1>1, <1>3, <1>4
  <2> QED
    BY <2>2, <2>3, <2>4
<1>12. Range(K) = Range(L) \ Overflow(e)
  <2>1. ASSUME NEW i \in DOMAIN K
        PROVE  K[i] \in Range(L) \ Overflow(e)
    <3>1. \A n \in (Len(a) + 1)..(Len(a) + o) : n \in DOMAIN L
      BY <1>1, <1>3, <1>4
    <3> QED
      BY <1>6, <1>10, <1>11, <3>1 DEF Range
  <2>2. ASSUME NEW x \in Range(L) \ Overflow(e)
        PROVE  x \in Range(K)
    <3>1. PICK n \in DOMAIN L : L[n] = x
      BY DEF Range
    <3>2. n \notin (Len(a) + 1)..(Len(a) + o)
      BY <1>11, <3>1
    <3>3. PICK i \in DOMAIN K : pos(i) = n
      BY <1>7, <3>2
    <3> QED
      BY <1>6, <3>1, <3>3 DEF Range
  <2> QED
    BY <2>1, <2>2 DEF Range
<1>13. Range(K) = Range(g) \ (D \cup Overflow(e))
  BY <1>12 DEF Follows, L
<1>14. ASSUME NEW i \in DOMAIN K, NEW j \in DOMAIN K, i < j
       PROVE  K[i] # K[j] /\ Before(g, K[i], K[j])
  <2>1. pos(i) < pos(j) /\ pos(i) \in DOMAIN L /\ pos(j) \in DOMAIN L /\ K[i] = L[pos(i)] /\ K[j] = L[pos(j)]
    BY <1>6, <1>8, <1>14
  <2> HIDE DEF pos
  <2> QED
    BY <2>1, <1>9
<1>15. Follows(K, g, D \cup Overflow(e))
  BY <1>13, <1>14 DEF Follows
<1> QED
  BY <1>15 DEF K, k

-----------------------------------------------------------------------------
(* The inductive invariant of CommandQueue *)

Handlers == [step : Steps, events : Seq(Cmds), fd : 0..Requests]

\* A file holds commands, or is torn.
BodyInv == \A f \in Cmds : disk.body[f] \in Seq(Cmds) \/ disk.body[f] = Torn

\* A file is named after the thread that created it, which has opened it.
Opened(th, c) == th[c].step \notin {"unborn", "open"}
FreshInv ==
    /\ \A c \in Cmds : disk.event = c \/ disk.tmp = c => Opened(thread, c)
    /\ \A d \in Cmds : thread[d].fd # 0 => Opened(thread, d) /\ Opened(thread, thread[d].fd)

\* A command is renamed into place at most once; while nothing overlapped, only commands that
\* were can be pushed out.
LogInv ==
    /\ \A i \in DOMAIN log : thread[log[i]].step \in {"secure", "done", "dead"}
    /\ hit = {} => dropped \subseteq Range(log)

\* While nothing overlapped, one thread has the temporary file to itself, and the file it
\* extends, or the UI is about to unlink, is still the one that was read.
Held(c) ==
    /\ thread[c].events = Append(Queued, c)
    /\ thread[c].step # "open" => thread[c].fd = disk.tmp
    /\ thread[c].step = "write" => disk.body[disk.tmp] = Empty
    /\ thread[c].step \in {"chmod", "replace"} => disk.body[disk.tmp] = Kept(thread[c].events)
Alone ==
    /\ \A c, d \in Busy : c = d
    /\ Busy # {} => ~Polling
    /\ Polling => poll.got = Queued
    /\ \A c \in Busy : Held(c)
AloneInv == hit = {} => Alone

QueueInv == QueueTypeOK /\ BodyInv /\ FreshInv /\ LogInv /\ AloneInv /\ Fifo

LEMMA TornIsNoCommand == QueueBounds => Torn \notin Seq(Cmds) /\ Torn \in Seq(0..Requests) /\ Empty \in Seq(Cmds)
<1> SUFFICES ASSUME QueueBounds PROVE Torn \notin Seq(Cmds) /\ Torn \in Seq(0..Requests) /\ Empty \in Seq(Cmds)
  OBVIOUS
<1>1. Torn[1] = 0 /\ Len(Torn) = 1
  BY DEF Torn
<1>2. Torn \notin Seq(Cmds)
  <2> SUFFICES ASSUME Torn \in Seq(Cmds) PROVE FALSE
    OBVIOUS
  <2>1. Torn[1] \in Cmds
    BY <1>1, ElementOfSeq
  <2> QED
    BY <1>1, <2>1 DEF Cmds, QueueBounds
<1>3. Torn \in Seq(0..Requests)
  BY DEF Torn, QueueBounds
<1>4. Empty \in Seq(Cmds)
  BY EmptySeq DEF Empty
<1> QED
  BY <1>2, <1>3, <1>4

\* The typing of the variables, field by field.
LEMMA QueueFields ==
    ASSUME QueueBounds, QueueTypeOK
    PROVE  /\ disk.event \in 0..Requests /\ disk.tmp \in 0..Requests
           /\ disk.body \in [Cmds -> Seq(0..Requests)]
           /\ disk = [event |-> disk.event, tmp |-> disk.tmp, body |-> disk.body]
           /\ \A c \in Cmds : /\ thread[c] \in Handlers
                              /\ thread[c].step \in Steps /\ thread[c].events \in Seq(Cmds) /\ thread[c].fd \in 0..Requests
           /\ DOMAIN thread = Cmds /\ thread \in [Cmds -> Handlers]
           /\ poll.step \in {"idle", "unlink", "run"} /\ poll.got \in Seq(Cmds)
           /\ poll = [step |-> poll.step, got |-> poll.got]
           /\ ran \in Seq(Cmds) /\ log \in Seq(Cmds) /\ dropped \subseteq Cmds /\ hit \subseteq Cmds
           /\ \A n \in 0..Requests : n # 0 => n \in Cmds
<1>1. /\ disk \in [event : 0..Requests, tmp : 0..Requests, body : [Cmds -> Seq(0..Requests)]]
      /\ thread \in [Cmds -> Handlers] /\ poll \in [step : {"idle", "unlink", "run"}, got : Seq(Cmds)]
      /\ ran \in Seq(Cmds) /\ log \in Seq(Cmds) /\ dropped \subseteq Cmds /\ hit \subseteq Cmds
  BY DEF QueueTypeOK, Handlers
<1>2. \A n \in 0..Requests : n # 0 => n \in Cmds
  BY DEF Cmds, QueueBounds
<1>3. \A c \in Cmds : thread[c] \in Handlers
  BY <1>1
<1>4. \A t \in Handlers : t.step \in Steps /\ t.events \in Seq(Cmds) /\ t.fd \in 0..Requests
  BY DEF Handlers
<1> QED
  BY <1>1, <1>2, <1>3, <1>4

LEMMA QueuedSeq == QueueBounds /\ QueueTypeOK /\ BodyInv => Queued \in Seq(Cmds) /\ Range(Queued) \subseteq Cmds
<1> SUFFICES ASSUME QueueBounds, QueueTypeOK, BodyInv PROVE Queued \in Seq(Cmds) /\ Range(Queued) \subseteq Cmds
  OBVIOUS
<1>1. disk.event # 0 => disk.event \in Cmds
  BY QueueFields
<1>2. <<>> \in Seq(Cmds)
  BY EmptySeq
<1>3. Queued \in Seq(Cmds)
  BY <1>1, <1>2 DEF Queued, BodyInv, Readable
<1> QED
  BY <1>3, RangeOfSeq

LEMMA QueueInitial == QueueBounds /\ QueueInit => QueueInv
<1> SUFFICES ASSUME QueueBounds, QueueInit PROVE QueueInv
  OBVIOUS
<1>0. <<>> \in Seq(Cmds) /\ <<>> \in Seq(0..Requests) /\ DOMAIN <<>> = {} /\ Range(<<>>) = {} /\ <<>> \o <<>> = <<>>
  <2>1. <<>> \in Seq(Cmds) /\ <<>> \in Seq(0..Requests) /\ Len(<<>>) = 0
    BY EmptySeq
  <2>2. DOMAIN <<>> = {}
    BY <2>1, LenProperties
  <2> QED
    BY <2>1, <2>2, ConcatEmptySeq DEF Range
<1>1. /\ disk.event = 0 /\ disk.tmp = 0 /\ \A c \in Cmds : disk.body[c] = <<>>
      /\ \A c \in Cmds : thread[c] = Unborn
      /\ poll.step = "idle" /\ poll.got = <<>> /\ Queued = <<>> /\ ran = <<>> /\ log = <<>>
      /\ dropped = {} /\ hit = {}
  BY DEF QueueInit, Empty, NoPoll, Queued
<1>2. QueueTypeOK
  <2>1. 0 \in 0..Requests /\ 0 \in 0..MaxKills
    BY DEF QueueBounds
  <2>2. disk \in [event : 0..Requests, tmp : 0..Requests, body : [Cmds -> Seq(0..Requests)]]
    BY <1>0, <2>1 DEF QueueInit, Empty
  <2>3. thread \in [Cmds -> [step : Steps, events : Seq(Cmds), fd : 0..Requests]]
    BY <1>0, <2>1 DEF QueueInit, Unborn, Steps
  <2>4. poll \in [step : {"idle", "unlink", "run"}, got : Seq(Cmds)]
    BY <1>0 DEF QueueInit, NoPoll
  <2> QED
    BY <1>0, <1>1, <2>1, <2>2, <2>3, <2>4 DEF QueueInit, QueueTypeOK, Active, Window, Unborn
<1>3. BodyInv
  BY <1>0, <1>1 DEF BodyInv
<1>4. FreshInv
  BY <1>1 DEF FreshInv, Opened, Unborn, Cmds
<1>5. LogInv
  BY <1>0, <1>1 DEF LogInv
<1>6. AloneInv
  <2>1. Busy = {} /\ ~Polling
    BY <1>1 DEF Busy, Window, Unborn, Polling
  <2> QED
    BY <2>1 DEF AloneInv, Alone
<1>7. Fifo
  <2>1. Line = <<>>
    BY <1>0, <1>1 DEF Line
  <2> QED
    BY <1>0, <1>1, <2>1 DEF Fifo
<1> QED
  BY <1>2, <1>3, <1>4, <1>5, <1>6, <1>7 DEF QueueInv

-----------------------------------------------------------------------------
(* One lemma per step *)

LEMMA FifoKept ==
    ASSUME Fifo, log' = log, dropped' = dropped, hit' = {} => hit = {} /\ Line' = Line
    PROVE  Fifo'
BY DEF Fifo, Before

LEMMA LineKept ==
    ASSUME disk' = disk, poll' = poll, ran' = ran
    PROVE  Queued' = Queued /\ Polling' = Polling /\ Line' = Line
<1>1. Queued' = Queued
  BY DEF Queued
<1>2. Polling' = Polling
  BY DEF Polling
<1> QED
  BY <1>1, <1>2 DEF Line

LEMMA ToStep ==
    ASSUME NEW c \in Cmds, NEW s \in Steps, thread \in [Cmds -> Handlers], To(c, s)
    PROVE  /\ thread' \in [Cmds -> Handlers]
           /\ thread'[c].step = s /\ thread'[c].events = thread[c].events /\ thread'[c].fd = thread[c].fd
           /\ \A d \in Cmds : d # c => thread'[d] = thread[d]
<1>1. thread' = [thread EXCEPT ![c] = [thread[c] EXCEPT !.step = s]]
  BY DEF To
<1>2. thread[c] \in Handlers
  OBVIOUS
<1>3. /\ [thread[c] EXCEPT !.step = s] \in Handlers
      /\ [thread[c] EXCEPT !.step = s].step = s
      /\ [thread[c] EXCEPT !.step = s].events = thread[c].events
      /\ [thread[c] EXCEPT !.step = s].fd = thread[c].fd
  BY <1>2 DEF Handlers
<1>4. /\ thread' \in [Cmds -> Handlers] /\ thread'[c] = [thread[c] EXCEPT !.step = s]
      /\ \A d \in Cmds : d # c => thread'[d] = thread[d]
  BY <1>1, <1>3
<1> QED
  BY <1>3, <1>4

\* The steps of a thread that has looked and does not touch the files in place.
LEMMA QuietStep ==
    ASSUME QueueBounds, QueueInv, NEW c \in Cmds, NEW s \in {"replace", "dead", "done"}, To(c, s),
           thread[c].step \in {"chmod", "replace", "secure"},
           s = "replace" => thread[c].step = "chmod", s = "done" => thread[c].step = "secure",
           UNCHANGED <<disk, poll, ran, log, dropped, hit, kills>>
    PROVE  QueueInv'
<1> USE DEF QueueInv
<1>1. thread \in [Cmds -> Handlers] /\ s \in Steps
  BY QueueFields DEF Steps
<1>2. /\ thread' \in [Cmds -> Handlers]
      /\ thread'[c].step = s /\ thread'[c].events = thread[c].events /\ thread'[c].fd = thread[c].fd
      /\ \A d \in Cmds : d # c => thread'[d] = thread[d]
  BY <1>1, ToStep
<1>3. Queued' = Queued /\ Polling' = Polling /\ Line' = Line
  BY LineKept
<1>4. QueueTypeOK'
  BY <1>2 DEF QueueTypeOK, Handlers, Active, Window
<1>5. BodyInv'
  BY DEF BodyInv
<1>6. FreshInv'
  <2>1. \A d \in Cmds : Opened(thread, d) => Opened(thread', d)
    BY <1>2 DEF Opened
  <2>2. \A d \in Cmds : thread'[d].fd = thread[d].fd
    BY <1>2
  <2>3. \A d \in Cmds : thread[d].fd # 0 => thread[d].fd \in Cmds
    BY QueueFields
  <2> QED
    BY <2>1, <2>2, <2>3 DEF FreshInv
<1>7. LogInv'
  <2>1. \A i \in DOMAIN log : log[i] \in Cmds
    BY QueueFields, LenProperties, ElementOfSeq
  <2>2. \A i \in DOMAIN log : thread'[log[i]].step \in {"secure", "done", "dead"}
    BY <1>2, <2>1 DEF LogInv
  <2> QED
    BY <2>2 DEF LogInv
<1>8. AloneInv'
  <2>1. \A d \in Cmds : d \in Busy' => d \in Busy
    BY <1>2 DEF Busy, Window
  <2>2. \A d \in Busy' : d \in Cmds
    BY DEF Busy
  <2>3. c \in Busy' => thread[c].step = "chmod" /\ s = "replace"
    BY <1>2 DEF Busy, Window
  <2>4. \A d \in Busy' : /\ thread'[d].events = thread[d].events /\ thread'[d].fd = thread[d].fd
                         /\ d # c => thread'[d].step = thread[d].step
    BY <1>2, <2>2
  <2>5. \A d \in Busy' : Kept(thread'[d].events) = Kept(thread[d].events)
    BY <2>4
  <2> SUFFICES ASSUME hit = {} PROVE Alone'
    BY DEF AloneInv
  <2>6. Alone
    BY DEF AloneInv
  <2>7. (\A d, e \in Busy : d = e)' /\ (Busy # {} => ~Polling)' /\ (Polling => poll.got = Queued)'
    BY <1>3, <2>1, <2>2, <2>6 DEF Alone
  <2>8. ASSUME NEW d \in Busy' PROVE Held(d)'
    <3>1. d \in Busy /\ d \in Cmds /\ disk' = disk /\ Held(d)
      BY <2>1, <2>2, <2>6, <2>8 DEF Alone
    <3>2. CASE d = c
      BY <1>2, <1>3, <2>3, <2>4, <2>5, <2>8, <3>1, <3>2 DEF Held
    <3>3. CASE d # c
      BY <1>3, <2>4, <2>5, <2>8, <3>1, <3>3 DEF Held
    <3> QED
      BY <3>2, <3>3
  <2> QED
    BY <2>7, <2>8 DEF Alone
<1>9. Fifo'
  BY <1>3, FifoKept
<1> QED
  BY <1>4, <1>5, <1>6, <1>7, <1>8, <1>9

LEMMA ChmodStep == ASSUME QueueBounds, QueueInv, NEW c \in Cmds, Chmod(c) PROVE QueueInv'
<1>1. (IF disk.tmp = 0 THEN "dead" ELSE "replace") \in {"replace", "dead", "done"}
  OBVIOUS
<1> QED
  BY <1>1, QuietStep DEF Chmod

LEMMA SecureStep == ASSUME QueueBounds, QueueInv, NEW c \in Cmds, Secure(c) PROVE QueueInv'
<1>1. (IF disk.event = 0 THEN "dead" ELSE "done") \in {"replace", "dead", "done"}
  OBVIOUS
<1> QED
  BY <1>1, QuietStep DEF Secure

LEMMA LookStep == ASSUME QueueBounds, QueueInv, NEW c \in Cmds, Look(c) PROVE QueueInv'
<1> USE DEF QueueInv
<1> DEFINE t == [thread[c] EXCEPT !.step = "open", !.events = Append(Queued, c)]
<1>1. /\ thread \in [Cmds -> Handlers] /\ thread[c] \in Handlers /\ thread[c].step = "unborn"
      /\ thread[c].fd = 0 /\ Queued \in Seq(Cmds) /\ Append(Queued, c) \in Seq(Cmds)
  <2>1. Queued \in Seq(Cmds)
    BY QueuedSeq
  <2>2. Append(Queued, c) \in Seq(Cmds)
    BY <2>1, AppendProperties
  <2> QED
    BY <2>1, <2>2, QueueFields DEF Look, FreshInv, Opened
<1>2. /\ t \in Handlers /\ t.step = "open" /\ t.events = Append(Queued, c) /\ t.fd = 0
  BY <1>1 DEF Handlers, Steps
<1>3. thread' = [thread EXCEPT ![c] = t]
  BY DEF Look
<1> HIDE DEF t
<1>4. /\ thread' \in [Cmds -> Handlers] /\ thread'[c] = t
      /\ \A d \in Cmds : d # c => thread'[d] = thread[d]
  BY <1>1, <1>2, <1>3
<1>5. /\ UNCHANGED <<disk, poll, ran, log, dropped, kills>>
      /\ hit' = IF Busy # {} \/ Polling THEN hit \cup InPlay \cup {c} ELSE hit
  BY DEF Look
<1>6. Queued' = Queued /\ Polling' = Polling /\ Line' = Line
  BY <1>5, LineKept
<1>7. QueueTypeOK'
  <2>1. InPlay \subseteq Cmds
    <3>1. Range(Queued) \subseteq Cmds /\ Range(poll.got) \subseteq Cmds
      BY QueuedSeq, QueueFields, RangeOfSeq
    <3> QED
      BY <3>1 DEF InPlay, Busy
  <2>2. hit' \subseteq Cmds
    BY <1>5, <2>1, QueueFields
  <2>3. thread' \in [Cmds -> [step : Steps, events : Seq(Cmds), fd : 0..Requests]]
    BY <1>4 DEF Handlers
  <2>4. \A d \in Cmds : thread'[d].step \in Active \ {"open"} => thread'[d].fd # 0
    BY <1>2, <1>4 DEF QueueTypeOK
  <2> QED
    BY <1>5, <2>2, <2>3, <2>4 DEF QueueTypeOK
<1>8. BodyInv'
  BY <1>5 DEF BodyInv
<1>9. FreshInv'
  <2>1. \A d \in Cmds : Opened(thread, d) => Opened(thread', d)
    BY <1>1, <1>4 DEF Opened
  <2>2. \A d \in Cmds : thread'[d].fd = thread[d].fd
    BY <1>1, <1>2, <1>4
  <2>3. \A d \in Cmds : thread[d].fd # 0 => thread[d].fd \in Cmds
    BY QueueFields
  <2> QED
    BY <1>5, <2>1, <2>2, <2>3 DEF FreshInv
<1>10. LogInv'
  <2>1. \A i \in DOMAIN log : log[i] \in Cmds
    BY QueueFields, LenProperties, ElementOfSeq
  <2>2. \A i \in DOMAIN log : thread'[log[i]].step \in {"secure", "done", "dead"}
    BY <1>1, <1>4, <2>1 DEF LogInv
  <2> QED
    BY <1>5, <2>2 DEF LogInv
<1>11. hit' = {} => hit = {} /\ Busy = {} /\ ~Polling
  BY <1>5
<1>12. AloneInv'
  <2> SUFFICES ASSUME hit' = {} PROVE Alone'
    BY DEF AloneInv
  <2>1. Busy = {} /\ ~Polling
    BY <1>11
  <2>2. \A d \in Cmds : d \in Busy' => d = c
    BY <1>4, <2>1 DEF Busy
  <2>3. \A d \in Busy' : d \in Cmds
    BY DEF Busy
  <2>4. Held(c)'
    BY <1>2, <1>4, <1>6 DEF Held
  <2> QED
    BY <1>6, <2>1, <2>2, <2>3, <2>4 DEF Alone
<1>13. Fifo'
  BY <1>5, <1>6, <1>11, FifoKept
<1> QED
  BY <1>7, <1>8, <1>9, <1>10, <1>12, <1>13

LEMMA OpenStep == ASSUME QueueBounds, QueueInv, NEW c \in Cmds, Open(c) PROVE QueueInv'
<1> USE DEF QueueInv
<1> DEFINE f == IF disk.tmp = 0 THEN c ELSE disk.tmp
           t == [thread[c] EXCEPT !.step = "write", !.fd = f]
<1>1. /\ thread \in [Cmds -> Handlers] /\ thread[c] \in Handlers /\ thread[c].step = "open"
      /\ f \in Cmds /\ f # disk.event
  BY QueueFields DEF Open, FreshInv, Opened, QueueTypeOK
<1>2. /\ t \in Handlers /\ t.step = "write" /\ t.events = thread[c].events /\ t.fd = f
  <2>1. f \in 0..Requests
    BY <1>1 DEF Cmds, QueueBounds
  <2> QED
    BY <1>1, <2>1 DEF Handlers, Steps
<1>3. thread' = [thread EXCEPT ![c] = t] /\ disk' = [disk EXCEPT !.tmp = f, !.body[f] = Empty]
  BY DEF Open, Truncated
<1>4. UNCHANGED <<poll, ran, log, dropped, hit, kills>>
  BY DEF Open
<1> HIDE DEF t
<1>5. /\ thread' \in [Cmds -> Handlers] /\ thread'[c] = t
      /\ \A d \in Cmds : d # c => thread'[d] = thread[d]
  BY <1>1, <1>2, <1>3
<1>f. disk.tmp # 0 => f = disk.tmp
  OBVIOUS
<1>g. disk.tmp = 0 => f = c
  OBVIOUS
<1> HIDE DEF f
<1>6. /\ disk'.event = disk.event /\ disk'.tmp = f /\ disk'.body = [disk.body EXCEPT ![f] = Empty]
      /\ disk' = [event |-> disk'.event, tmp |-> disk'.tmp, body |-> disk'.body]
  <2>1. disk = [event |-> disk.event, tmp |-> disk.tmp, body |-> disk.body]
    BY QueueFields
  <2> QED
    BY <1>3, <2>1
<1>7. /\ DOMAIN disk.body = Cmds /\ disk'.body[f] = Empty
      /\ \A n \in Cmds : n # f => disk'.body[n] = disk.body[n]
  BY <1>1, <1>6, QueueFields
<1>8. Polling' = Polling /\ Queued' = Queued
  <2>1. disk.event # 0 => disk.event \in Cmds /\ disk'.body[disk.event] = disk.body[disk.event]
    BY <1>1, <1>7, QueueFields
  <2> QED
    BY <1>4, <1>6, <2>1 DEF Polling, Queued
<1>9. Line' = Line
  BY <1>4, <1>8 DEF Line
<1>10. QueueTypeOK'
  <2>1. disk'.body \in [Cmds -> Seq(0..Requests)]
    <3>1. Empty \in Seq(0..Requests)
      BY EmptySeq DEF Empty
    <3> QED
      BY <1>1, <1>6, <3>1, QueueFields
  <2>2. disk' \in [event : 0..Requests, tmp : 0..Requests, body : [Cmds -> Seq(0..Requests)]]
    <3>1. f \in 0..Requests
      BY <1>1 DEF Cmds, QueueBounds
    <3> QED
      BY <1>6, <2>1, <3>1, QueueFields
  <2>3. disk'.event # 0 => disk'.event # disk'.tmp
    BY <1>1, <1>6
  <2>4. \A d \in Cmds : thread'[d].step \in Active \ {"open"} => thread'[d].fd # 0
    <3>1. f # 0
      BY <1>1 DEF Cmds, QueueBounds
    <3> QED
      BY <1>1, <1>2, <1>5, <3>1 DEF QueueTypeOK, Active, Window
  <2> QED
    BY <1>4, <1>5, <2>2, <2>3, <2>4 DEF QueueTypeOK, Handlers
<1>11. BodyInv'
  <2>1. Empty \in Seq(Cmds)
    BY EmptySeq DEF Empty
  <2> QED
    BY <1>7, <2>1 DEF BodyInv
<1>12. Opened(thread', c) /\ \A d \in Cmds : Opened(thread, d) => Opened(thread', d)
  BY <1>2, <1>5 DEF Opened
<1>13. Opened(thread', f)
  BY <1>1, <1>12, <1>f, <1>g DEF FreshInv
<1>14. FreshInv'
  <2>1. \A d \in Cmds : disk'.event = d \/ disk'.tmp = d => Opened(thread', d)
    BY <1>6, <1>12, <1>13 DEF FreshInv
  <2>2. ASSUME NEW d \in Cmds, thread'[d].fd # 0
        PROVE  Opened(thread', d) /\ Opened(thread', thread'[d].fd)
    <3>1. CASE d = c
      BY <1>2, <1>5, <1>12, <1>13, <3>1
    <3>2. CASE d # c
      <4>1. thread'[d].fd = thread[d].fd /\ thread[d].fd \in Cmds
        BY <1>5, <2>2, <3>2, QueueFields
      <4> QED
        BY <1>12, <2>2, <4>1 DEF FreshInv
    <3> QED
      BY <3>1, <3>2
  <2> QED
    BY <2>1, <2>2 DEF FreshInv
<1>15. LogInv'
  <2>1. \A i \in DOMAIN log : log[i] \in Cmds
    BY QueueFields, LenProperties, ElementOfSeq
  <2>2. \A i \in DOMAIN log : thread'[log[i]].step \in {"secure", "done", "dead"}
    BY <1>1, <1>5, <2>1 DEF LogInv
  <2> QED
    BY <1>4, <2>2 DEF LogInv
<1>16. AloneInv'
  <2> SUFFICES ASSUME hit = {} PROVE Alone'
    BY <1>4 DEF AloneInv
  <2>1. Alone
    BY DEF AloneInv
  <2>2. \A d \in Busy' : d \in Busy /\ d \in Cmds
    BY <1>1, <1>2, <1>5 DEF Busy, Window
  <2>3. c \in Busy
    BY <1>1 DEF Busy, Window
  <2>4. Held(c)'
    BY <1>2, <1>5, <1>6, <1>7, <1>8, <2>1, <2>3 DEF Held, Alone
  <2>5. (\A d, e \in Busy : d = e)' /\ (Busy # {} => ~Polling)' /\ (Polling => poll.got = Queued)'
    BY <1>4, <1>8, <2>1, <2>2 DEF Alone
  <2>6. \A d \in Busy' : d = c
    BY <2>1, <2>2, <2>3 DEF Alone
  <2> QED
    BY <2>4, <2>5, <2>6 DEF Alone
<1>17. Fifo'
  BY <1>4, <1>9, FifoKept
<1> QED
  BY <1>10, <1>11, <1>14, <1>15, <1>16, <1>17

LEMMA WriteStep == ASSUME QueueBounds, QueueInv, NEW c \in Cmds, Write(c) PROVE QueueInv'
<1> USE DEF QueueInv
<1> DEFINE f == thread[c].fd
<1>1. /\ thread \in [Cmds -> Handlers] /\ thread[c].step = "write" /\ "chmod" \in Steps
      /\ To(c, "chmod") /\ f \in Cmds /\ thread[c].events \in Seq(Cmds)
  BY QueueFields DEF Write, QueueTypeOK, Active, Window, Steps
<1>2. PICK b \in {Kept(thread[c].events)} \cup (IF disk.body[f] = Empty THEN {} ELSE {Torn}) :
         disk' = [disk EXCEPT !.body[f] = b]
  BY DEF Write
<1>3. UNCHANGED <<poll, ran, log, dropped, hit, kills>>
  BY DEF Write
<1>4. /\ thread' \in [Cmds -> Handlers]
      /\ thread'[c].step = "chmod" /\ thread'[c].events = thread[c].events /\ thread'[c].fd = f
      /\ \A d \in Cmds : d # c => thread'[d] = thread[d]
  BY <1>1, ToStep
<1>5. b \in Seq(Cmds) \/ b = Torn
  BY <1>1, <1>2, KeptIsEnd
<1>6. /\ disk'.event = disk.event /\ disk'.tmp = disk.tmp /\ disk'.body = [disk.body EXCEPT ![f] = b]
      /\ disk' = [event |-> disk'.event, tmp |-> disk'.tmp, body |-> disk'.body]
  <2>1. disk = [event |-> disk.event, tmp |-> disk.tmp, body |-> disk.body]
    BY QueueFields
  <2> QED
    BY <1>2, <2>1
<1>7. /\ disk'.body[f] = b /\ \A n \in Cmds : n # f => disk'.body[n] = disk.body[n]
  BY <1>1, <1>6, QueueFields
<1>8. QueueTypeOK'
  <2>1. b \in Seq(0..Requests)
    <3>1. Cmds \subseteq 0..Requests
      BY DEF Cmds, QueueBounds
    <3> QED
      BY <1>5, <3>1, SeqMonotonic, TornIsNoCommand
  <2>2. disk'.body \in [Cmds -> Seq(0..Requests)]
    BY <1>1, <1>6, <2>1, QueueFields
  <2>3. disk' \in [event : 0..Requests, tmp : 0..Requests, body : [Cmds -> Seq(0..Requests)]]
    BY <1>6, <2>2, QueueFields
  <2>4. \A d \in Cmds : thread'[d].step \in Active \ {"open"} => thread'[d].fd # 0
    BY <1>1, <1>4 DEF QueueTypeOK, Active, Window
  <2> QED
    BY <1>3, <1>4, <1>6, <2>3, <2>4 DEF QueueTypeOK, Handlers
<1>9. BodyInv'
  BY <1>5, <1>7 DEF BodyInv
<1>10. FreshInv'
  <2>1. \A d \in Cmds : Opened(thread, d) => Opened(thread', d)
    BY <1>4 DEF Opened
  <2>2. \A d \in Cmds : thread'[d].fd = thread[d].fd
    BY <1>4
  <2>3. \A d \in Cmds : thread[d].fd # 0 => thread[d].fd \in Cmds
    BY QueueFields
  <2> QED
    BY <1>6, <2>1, <2>2, <2>3 DEF FreshInv
<1>11. LogInv'
  <2>1. \A i \in DOMAIN log : log[i] \in Cmds
    BY QueueFields, LenProperties, ElementOfSeq
  <2>2. \A i \in DOMAIN log : thread'[log[i]].step \in {"secure", "done", "dead"}
    BY <1>1, <1>4, <2>1 DEF LogInv
  <2> QED
    BY <1>3, <2>2 DEF LogInv
<1>12. ASSUME hit = {}
       PROVE  /\ Alone /\ c \in Busy /\ \A d \in Busy : d = c
              /\ f = disk.tmp /\ b = Kept(thread[c].events) /\ f # disk.event
              /\ Queued' = Queued /\ Polling' = Polling /\ Line' = Line
  <2>1. Alone
    BY <1>12 DEF AloneInv
  <2>2. c \in Busy /\ \A d \in Busy : d = c
    BY <1>1, <2>1 DEF Busy, Window, Alone
  <2>3. f = disk.tmp /\ disk.body[f] = Empty
    BY <1>1, <2>1, <2>2 DEF Alone, Held
  <2>4. b = Kept(thread[c].events) /\ f # disk.event
    BY <1>1, <1>2, <2>3 DEF QueueTypeOK, Cmds
  <2>5. disk.event # 0 => disk.event \in Cmds /\ disk'.body[disk.event] = disk.body[disk.event]
    BY <1>7, <2>4, QueueFields
  <2>6. Polling' = Polling /\ Queued' = Queued
    BY <1>3, <1>6, <2>5 DEF Polling, Queued
  <2>7. Line' = Line
    BY <1>3, <2>6 DEF Line
  <2> QED
    BY <2>1, <2>2, <2>3, <2>4, <2>6, <2>7
<1>13. AloneInv'
  <2> SUFFICES ASSUME hit = {} PROVE Alone'
    BY <1>3 DEF AloneInv
  <2>1. \A d \in Busy' : d \in Busy /\ d \in Cmds
    BY <1>1, <1>4 DEF Busy, Window
  <2>2. Held(c)'
    BY <1>4, <1>6, <1>7, <1>12 DEF Held, Alone
  <2>3. (\A d, e \in Busy : d = e)' /\ (Busy # {} => ~Polling)' /\ (Polling => poll.got = Queued)'
    BY <1>3, <1>12, <2>1 DEF Alone
  <2> QED
    BY <1>12, <2>1, <2>2, <2>3 DEF Alone
<1>14. Fifo'
  BY <1>3, <1>12, FifoKept
<1> QED
  BY <1>8, <1>9, <1>10, <1>11, <1>13, <1>14

LEMMA ReplaceStep == ASSUME QueueBounds, QueueInv, NEW c \in Cmds, Replace(c) PROVE QueueInv'
<1> USE DEF QueueInv
<1>1. CASE disk.tmp = 0
  BY <1>1, QuietStep DEF Replace
<1>2. CASE disk.tmp # 0
  <2> DEFINE e == thread[c].events
  <2>1. /\ thread \in [Cmds -> Handlers] /\ thread[c].step = "replace" /\ "secure" \in Steps
        /\ To(c, "secure") /\ e \in Seq(Cmds) /\ disk.tmp \in Cmds
        /\ disk' = [disk EXCEPT !.event = disk.tmp, !.tmp = 0]
        /\ log' = Append(log, c) /\ dropped' = dropped \cup Overflow(e)
        /\ UNCHANGED <<poll, ran, hit, kills>>
    BY <1>2, QueueFields DEF Replace, Renamed, Steps
  <2>2. /\ thread' \in [Cmds -> Handlers]
        /\ thread'[c].step = "secure" /\ thread'[c].events = thread[c].events /\ thread'[c].fd = thread[c].fd
        /\ \A d \in Cmds : d # c => thread'[d] = thread[d]
    BY <2>1, ToStep
  <2>3. disk' = [event |-> disk.tmp, tmp |-> 0, body |-> disk.body]
    <3>1. disk = [event |-> disk.event, tmp |-> disk.tmp, body |-> disk.body]
      BY QueueFields
    <3> QED
      BY <2>1, <3>1
  <2>4. /\ log \in Seq(Cmds) /\ log' \in Seq(Cmds) /\ DOMAIN log = 1..Len(log) /\ Len(log) \in Nat
        /\ DOMAIN log' = 1..(Len(log) + 1) /\ log'[Len(log) + 1] = c
        /\ \A i \in 1..Len(log) : log'[i] = log[i] /\ log[i] \in Cmds
    <3>1. log \in Seq(Cmds)
      BY QueueFields
    <3>2. log' \in Seq(Cmds) /\ Len(log') = Len(log) + 1
      BY <2>1, <3>1, AppendProperties
    <3>3. DOMAIN log' = 1..Len(log')
      BY <3>2, LenProperties
    <3> QED
      BY <2>1, <3>1, <3>2, <3>3, AppendProperties, LenProperties, ElementOfSeq
  <2>5. Overflow(e) \subseteq Range(e) /\ Range(e) \subseteq Cmds
    BY <2>1, RangeOfSeq DEF Overflow, Range
  <2>6. QueueTypeOK'
    <3>1. disk' \in [event : 0..Requests, tmp : 0..Requests, body : [Cmds -> Seq(0..Requests)]]
      BY <2>3, QueueFields DEF QueueBounds
    <3>2. disk'.event # 0 => disk'.event # disk'.tmp
      BY <2>3
    <3>3. \A d \in Cmds : thread'[d].step \in Active \ {"open"} => thread'[d].fd # 0
      BY <2>1, <2>2 DEF QueueTypeOK, Active, Window
    <3>4. dropped' \cup hit' \subseteq Cmds
      BY <2>1, <2>5, QueueFields
    <3>5. thread' \in [Cmds -> [step : Steps, events : Seq(Cmds), fd : 0..Requests]]
      BY <2>2 DEF Handlers
    <3>6. /\ poll' \in [step : {"idle", "unlink", "run"}, got : Seq(Cmds)]
          /\ (poll'.step = "idle") = (poll'.got = <<>>) /\ ran' \in Seq(Cmds) /\ kills' \in 0..MaxKills
      BY <2>1 DEF QueueTypeOK
    <3> QED
      BY <2>4, <3>1, <3>2, <3>3, <3>4, <3>5, <3>6 DEF QueueTypeOK
  <2>7. BodyInv'
    BY <2>3 DEF BodyInv
  <2>8. FreshInv'
    <3>1. \A d \in Cmds : Opened(thread, d) => Opened(thread', d)
      BY <2>2 DEF Opened
    <3>2. \A d \in Cmds : thread'[d].fd = thread[d].fd
      BY <2>2
    <3>3. \A d \in Cmds : thread[d].fd # 0 => thread[d].fd \in Cmds
      BY QueueFields
    <3>4. 0 \notin Cmds
      BY DEF Cmds
    <3> QED
      BY <2>3, <3>1, <3>2, <3>3, <3>4 DEF FreshInv
  <2>9. c \notin Range(log) /\ Range(log') = Range(log) \cup {c}
    <3>1. c \notin Range(log)
      BY <2>1 DEF LogInv, Range
    <3> QED
      BY <2>4, <3>1 DEF Range
  <2>10. ASSUME hit = {}
         PROVE  /\ Alone /\ Busy = {c} /\ ~Polling /\ ~Polling'
                /\ e = Append(Queued, c) /\ Queued' = Kept(e) /\ Queued \in Seq(Cmds)
    <3>1. Alone
      BY <2>10 DEF AloneInv
    <3>2. Busy = {c} /\ ~Polling /\ Held(c)
      BY <2>1, <3>1 DEF Alone, Busy, Window
    <3>3. e = Append(Queued, c) /\ disk.body[disk.tmp] = Kept(e) /\ Queued \in Seq(Cmds)
      BY <2>1, <3>2, QueuedSeq DEF Held
    <3>4. Kept(e) \in Seq(Cmds) /\ Kept(e) # <<>>
      <4>1. e # <<>> /\ e \in Seq(Cmds)
        BY <2>1, <3>3, AppendProperties
      <4> HIDE DEF e
      <4> QED
        BY <4>1, KeptIsEnd
    <3>5. Readable(Kept(e))
      BY <3>4, TornIsNoCommand DEF Readable, Empty
    <3>6. Queued' = Kept(e)
      BY <1>2, <2>3, <3>3, <3>5 DEF Queued
    <3>7. ~Polling'
      BY <2>1, <3>2 DEF Polling
    <3> QED
      BY <3>1, <3>2, <3>3, <3>6, <3>7
  <2>11. Fifo' /\ (hit' = {} => dropped' \subseteq Range(log'))
    <3> SUFFICES ASSUME hit = {} PROVE Follows(Line', log', dropped') /\ dropped' \subseteq Range(log')
      BY <2>1 DEF Fifo, Follows, Before
    <3> DEFINE a == ran \o poll.got
    <3>1. Queued \in Seq(Cmds) /\ a \in Seq(Cmds) /\ Line = a \o Queued /\ Line' = a \o Kept(e)
      <4>1. ran \in Seq(Cmds) /\ poll.got \in Seq(Cmds) /\ Queued \in Seq(Cmds)
        BY <2>10, QueueFields
      <4>2. a \in Seq(Cmds)
        BY <4>1, ConcatProperties
      <4> QED
        BY <2>1, <2>10, <4>1, <4>2 DEF Line
    <3> HIDE DEF a
    <3>2. Follows(Line, log, dropped) /\ dropped \subseteq Range(log)
      BY DEF Fifo, Follows, LogInv
    <3>3. Line \in Seq(Cmds)
      BY <3>1, ConcatProperties
    <3>4. Follows(Append(Line, c), log', dropped)
      BY <2>1, <2>4, <2>9, <3>2, <3>3, FollowsAppend
    <3>5. Append(Line, c) = a \o e
      <4>1. <<c>> \in Seq(Cmds)
        OBVIOUS
      <4>2. Append(Line, c) = (a \o Queued) \o <<c>>
        BY <3>1, <3>3, AppendIsConcat
      <4>3. (a \o Queued) \o <<c>> = a \o (Queued \o <<c>>)
        BY <3>1, <4>1, ConcatAssociative
      <4>4. Queued \o <<c>> = Append(Queued, c)
        BY <3>1, AppendIsConcat
      <4> QED
        BY <2>10, <4>2, <4>3, <4>4
    <3>6. Follows(a \o Kept(e), log', dropped \cup Overflow(e))
      <4>1. Follows(a \o e, log', dropped)
        BY <3>4, <3>5
      <4> HIDE DEF e
      <4> QED
        BY <2>1, <3>1, <4>1, FollowsCut
    <3>7. Overflow(e) \subseteq Range(log) \cup {c}
      <4>1. Range(Line) \subseteq Range(log)
        BY <3>2 DEF Follows
      <4>2. Range(Line) = Range(a) \cup Range(Queued)
        BY <3>1, RangeConcatenation
      <4>3. Range(e) = Range(Queued) \cup {c}
        <5>1. /\ Len(Queued) \in Nat /\ DOMAIN Queued = 1..Len(Queued)
              /\ DOMAIN e = 1..(Len(Queued) + 1) /\ e[Len(Queued) + 1] = c
              /\ \A i \in 1..Len(Queued) : e[i] = Queued[i]
          BY <2>1, <2>10, AppendProperties, LenProperties
        <5> HIDE DEF e
        <5> QED
          BY <5>1 DEF Range
      <4> QED
        BY <2>5, <4>1, <4>2, <4>3
    <3> QED
      BY <2>1, <2>9, <3>1, <3>2, <3>6, <3>7
  <2>12. LogInv'
    <3>1. \A i \in 1..Len(log) : thread'[log[i]].step \in {"secure", "done", "dead"}
      BY <2>1, <2>2, <2>4 DEF LogInv
    <3>2. \A i \in DOMAIN log' : thread'[log'[i]].step \in {"secure", "done", "dead"}
      BY <2>2, <2>4, <3>1
    <3> QED
      BY <2>11, <3>2 DEF LogInv
  <2>13. AloneInv'
    <3> SUFFICES ASSUME hit = {} PROVE Alone'
      BY <2>1 DEF AloneInv
    <3>1. \A d \in Cmds : d \in Busy' => d \in Busy /\ d # c
      BY <2>1, <2>2 DEF Busy, Window
    <3>2. Busy' = {}
      BY <2>10, <3>1 DEF Busy
    <3> QED
      BY <2>10, <3>2 DEF Alone
  <2> QED
    BY <2>6, <2>7, <2>8, <2>11, <2>12, <2>13
<1> QED
  BY <1>1, <1>2

LEMMA PollReadStep == ASSUME QueueBounds, QueueInv, PollRead PROVE QueueInv'
<1> USE DEF QueueInv
<1>1. /\ poll.step = "idle" /\ poll.got = <<>> /\ Queued # <<>> /\ Queued \in Seq(Cmds) /\ Range(Queued) \subseteq Cmds
      /\ poll'.step = "unlink" /\ poll'.got = Queued /\ poll' = [step |-> "unlink", got |-> Queued]
      /\ UNCHANGED <<disk, thread, ran, log, dropped, kills>>
      /\ hit' = IF Busy # {} THEN hit \cup InPlay ELSE hit
  BY QueuedSeq DEF PollRead, QueueTypeOK
<1>2. Queued' = Queued /\ ~Polling /\ Polling' /\ Busy' = Busy
  BY <1>1 DEF Queued, Polling, Busy
<1>3. Line' = Line
  BY <1>1, <1>2 DEF Line
<1>4. QueueTypeOK'
  <2>1. InPlay \subseteq Cmds
    BY <1>1 DEF InPlay, Busy, Range
  <2>2. hit' \subseteq Cmds
    BY <1>1, <2>1, QueueFields
  <2> QED
    BY <1>1, <2>2 DEF QueueTypeOK
<1>5. hit' = {} => hit = {} /\ Busy = {}
  BY <1>1 DEF InPlay
<1>6. BodyInv' /\ FreshInv' /\ LogInv'
  BY <1>1, <1>5 DEF BodyInv, FreshInv, LogInv
<1>7. AloneInv'
  BY <1>1, <1>2, <1>5 DEF AloneInv, Alone
<1>8. Fifo'
  BY <1>1, <1>3, <1>5, FifoKept
<1> QED
  BY <1>4, <1>6, <1>7, <1>8

LEMMA UnlinkStep == ASSUME QueueBounds, QueueInv, Unlink PROVE QueueInv'
<1> USE DEF QueueInv
<1>1. /\ poll.step = "unlink" /\ disk' = [disk EXCEPT !.event = 0] /\ poll' = [poll EXCEPT !.step = "run"]
      /\ UNCHANGED <<thread, ran, log, dropped, hit, kills>>
  BY DEF Unlink
<1>2. /\ disk' = [event |-> 0, tmp |-> disk.tmp, body |-> disk.body]
      /\ poll' = [step |-> "run", got |-> poll.got] /\ poll.got \in Seq(Cmds) /\ poll.got # <<>>
  <2>1. /\ disk = [event |-> disk.event, tmp |-> disk.tmp, body |-> disk.body]
        /\ poll = [step |-> poll.step, got |-> poll.got] /\ poll.got \in Seq(Cmds)
    BY QueueFields
  <2>2. poll.got # <<>>
    BY <1>1 DEF QueueTypeOK
  <2> QED
    BY <1>1, <2>1, <2>2
<1>3. Queued' = <<>> /\ Polling /\ ~Polling' /\ Busy' = Busy
  BY <1>1, <1>2 DEF Queued, Polling, Busy
<1>4. QueueTypeOK'
  <2>1. disk' \in [event : 0..Requests, tmp : 0..Requests, body : [Cmds -> Seq(0..Requests)]]
    BY <1>2, QueueFields DEF QueueBounds
  <2> QED
    BY <1>1, <1>2, <2>1 DEF QueueTypeOK
<1>5. 0 \notin Cmds
  BY DEF Cmds
<1>6. BodyInv' /\ FreshInv' /\ LogInv'
  BY <1>1, <1>2, <1>5 DEF BodyInv, FreshInv, LogInv
<1>7. hit = {} => Busy = {} /\ poll.got = Queued
  BY <1>3 DEF AloneInv, Alone
<1>8. AloneInv'
  BY <1>1, <1>3, <1>7 DEF AloneInv, Alone
<1>9. hit = {} => Line' = Line
  <2>1. ran \in Seq(Cmds) /\ poll.got \in Seq(Cmds) /\ ran \o poll.got \in Seq(Cmds)
    BY QueueFields, ConcatProperties
  <2>2. Line' = (ran \o poll.got) \o <<>>
    BY <1>1, <1>2, <1>3 DEF Line
  <2>3. Line = (ran \o <<>>) \o Queued
    BY <1>3 DEF Line
  <2>4. (ran \o poll.got) \o <<>> = ran \o poll.got /\ ran \o <<>> = ran
    BY <2>1, ConcatEmptySeq
  <2> QED
    BY <1>7, <2>2, <2>3, <2>4
<1>10. Fifo'
  BY <1>1, <1>9, FifoKept
<1> QED
  BY <1>4, <1>6, <1>8, <1>10

LEMMA RunStep == ASSUME QueueBounds, QueueInv, Run PROVE QueueInv'
<1> USE DEF QueueInv
<1> DEFINE g == poll.got
<1>1. /\ poll.step = "run" /\ g \in Seq(Cmds) /\ g # <<>> /\ ran \in Seq(Cmds)
      /\ ran' = Append(ran, Head(g))
      /\ UNCHANGED <<disk, thread, log, dropped, hit, kills>>
  BY QueueFields DEF Run, QueueTypeOK
<1>2. /\ Head(g) \in Cmds /\ Tail(g) \in Seq(Cmds) /\ Len(Tail(g)) = Len(g) - 1 /\ Len(g) \in Nat \ {0}
      /\ \A i \in 1..Len(Tail(g)) : Tail(g)[i] = g[i + 1]
      /\ Head(g) = g[1]
  BY <1>1, HeadTailProperties, EmptySeq
<1>3. poll'.got = Tail(g) /\ poll' \in [step : {"idle", "unlink", "run"}, got : Seq(Cmds)]
      /\ (poll'.step = "idle") = (poll'.got = <<>>) /\ poll'.step # "unlink"
  <2>1. CASE Len(g) = 1
    <3>1. Len(Tail(g)) = 0
      BY <1>2, <2>1
    <3>2. Tail(g) = <<>>
      BY <1>2, <3>1, EmptySeq
    <3>3. poll' = NoPoll
      BY <2>1 DEF Run
    <3> QED
      BY <1>2, <3>2, <3>3 DEF NoPoll
  <2>2. CASE Len(g) # 1
    <3>1. Tail(g) # <<>>
      <4>1. Len(Tail(g)) # 0
        BY <1>2, <2>2
      <4>2. Len(<<>>) = 0
        BY EmptySeq
      <4> QED
        BY <4>1, <4>2
    <3>2. poll' = [step |-> "run", got |-> Tail(g)]
      <4>1. poll = [step |-> poll.step, got |-> g]
        BY QueueFields
      <4>2. poll' = [poll EXCEPT !.got = Tail(poll.got)]
        BY <2>2 DEF Run
      <4> QED
        BY <1>1, <4>1, <4>2
    <3> QED
      BY <1>2, <3>1, <3>2
  <2> QED
    BY <2>1, <2>2
<1> HIDE DEF g
<1>4. Queued' = Queued /\ ~Polling /\ ~Polling' /\ Busy' = Busy
  BY <1>1, <1>3 DEF Queued, Polling, Busy
<1>5. ran' \in Seq(Cmds) /\ Len(ran') = Len(ran) + 1 /\ Len(ran) \in Nat
      /\ ran'[Len(ran) + 1] = Head(g) /\ \A i \in 1..Len(ran) : ran'[i] = ran[i]
  BY <1>1, <1>2, AppendProperties, LenProperties
<1>6. ran' \o Tail(g) = ran \o g
  <2>1. /\ ran' \o Tail(g) \in Seq(Cmds) /\ Len(ran' \o Tail(g)) = Len(ran') + Len(Tail(g))
        /\ \A i \in 1..(Len(ran') + Len(Tail(g))) :
             (ran' \o Tail(g))[i] = IF i <= Len(ran') THEN ran'[i] ELSE Tail(g)[i - Len(ran')]
    BY <1>2, <1>5, ConcatProperties
  <2>2. /\ ran \o g \in Seq(Cmds) /\ Len(ran \o g) = Len(ran) + Len(g)
        /\ \A i \in 1..(Len(ran) + Len(g)) : (ran \o g)[i] = IF i <= Len(ran) THEN ran[i] ELSE g[i - Len(ran)]
    BY <1>1, ConcatProperties
  <2>3. Len(ran') + Len(Tail(g)) = Len(ran) + Len(g)
    BY <1>2, <1>5
  <2>4. ASSUME NEW i \in 1..(Len(ran) + Len(g))
        PROVE  (ran' \o Tail(g))[i] = (ran \o g)[i]
    <3>1. CASE i <= Len(ran)
      BY <1>5, <2>1, <2>2, <2>3, <3>1
    <3>2. CASE i = Len(ran) + 1
      <4>1. (ran' \o Tail(g))[i] = ran'[Len(ran) + 1]
        BY <1>5, <2>1, <2>3, <3>2
      <4>2. ~(i <= Len(ran)) /\ i - Len(ran) = 1
        BY <1>5, <3>2
      <4>3. (ran \o g)[i] = g[1]
        BY <2>2, <4>2
      <4> QED
        BY <1>2, <1>5, <4>1, <4>3
    <3>3. CASE i > Len(ran) + 1
      <4>1. ~(i <= Len(ran)) /\ ~(i <= Len(ran')) /\ i - Len(ran') \in 1..Len(Tail(g)) /\ (i - Len(ran')) + 1 = i - Len(ran)
        BY <1>2, <1>5, <3>3
      <4>2. (ran' \o Tail(g))[i] = Tail(g)[i - Len(ran')]
        BY <2>1, <2>3, <4>1
      <4>3. Tail(g)[i - Len(ran')] = g[(i - Len(ran')) + 1]
        BY <1>2, <4>1
      <4>4. (ran \o g)[i] = g[i - Len(ran)]
        BY <2>2, <4>1
      <4> QED
        BY <4>1, <4>2, <4>3, <4>4
    <3> QED
      BY <1>5, <3>1, <3>2, <3>3
  <2> QED
    BY <2>1, <2>2, <2>3, <2>4, SeqEqual
<1>7. Line' = Line
  BY <1>3, <1>4, <1>6 DEF Line, g
<1>8. QueueTypeOK'
  BY <1>1, <1>3, <1>5 DEF QueueTypeOK
<1>9. BodyInv' /\ FreshInv' /\ LogInv'
  BY <1>1 DEF BodyInv, FreshInv, LogInv
<1>10. AloneInv'
  <2> SUFFICES ASSUME hit = {} PROVE Alone'
    BY <1>1 DEF AloneInv
  <2>1. Alone
    BY DEF AloneInv
  <2>2. \A c \in Busy' : Held(c)'
    BY <1>1, <1>4, <2>1 DEF Alone, Held
  <2> QED
    BY <1>4, <2>1, <2>2 DEF Alone
<1>11. Fifo'
  BY <1>1, <1>7, FifoKept
<1> QED
  BY <1>8, <1>9, <1>10, <1>11

LEMMA KillDaemonStep == ASSUME QueueBounds, QueueInv, KillDaemon PROVE QueueInv'
<1> USE DEF QueueInv
<1>1. /\ kills \in Nat /\ kills < MaxKills /\ kills' = kills + 1 /\ MaxKills \in Nat
      /\ UNCHANGED <<disk, poll, ran, log, dropped, hit>>
      /\ thread' = [c \in Cmds |-> IF thread[c].step \in Active THEN [thread[c] EXCEPT !.step = "dead"] ELSE thread[c]]
  BY DEF KillDaemon, QueueTypeOK, QueueBounds
<1>2. ASSUME NEW c \in Cmds
      PROVE  /\ thread'[c] \in Handlers /\ thread'[c].fd = thread[c].fd
             /\ thread'[c].step = IF thread[c].step \in Active THEN "dead" ELSE thread[c].step
  <2>1. thread[c] \in Handlers
    BY QueueFields
  <2>2. /\ [thread[c] EXCEPT !.step = "dead"] \in Handlers
        /\ [thread[c] EXCEPT !.step = "dead"].step = "dead"
        /\ [thread[c] EXCEPT !.step = "dead"].fd = thread[c].fd
    BY <2>1 DEF Handlers, Steps
  <2>3. thread'[c] = IF thread[c].step \in Active THEN [thread[c] EXCEPT !.step = "dead"] ELSE thread[c]
    BY <1>1
  <2> QED
    BY <2>1, <2>2, <2>3
<1>3. thread' \in [Cmds -> Handlers]
  BY <1>1, <1>2
<1>4. Queued' = Queued /\ Polling' = Polling /\ Line' = Line
  BY <1>1, LineKept
<1>5. QueueTypeOK'
  <2>1. \A c \in Cmds : thread'[c].step \notin Active
    BY <1>2 DEF Active, Window
  <2>2. kills' \in 0..MaxKills
    BY <1>1
  <2>3. thread' \in [Cmds -> [step : Steps, events : Seq(Cmds), fd : 0..Requests]]
    BY <1>3 DEF Handlers
  <2> QED
    BY <1>1, <2>1, <2>2, <2>3 DEF QueueTypeOK
<1>6. BodyInv'
  BY <1>1 DEF BodyInv
<1>7. FreshInv'
  <2>1. \A d \in Cmds : Opened(thread, d) => Opened(thread', d)
    BY <1>2 DEF Opened
  <2>2. \A d \in Cmds : thread[d].fd # 0 => thread[d].fd \in Cmds
    BY QueueFields
  <2> QED
    BY <1>1, <1>2, <2>1, <2>2 DEF FreshInv
<1>8. LogInv'
  <2>1. \A i \in DOMAIN log : log[i] \in Cmds
    BY QueueFields, LenProperties, ElementOfSeq
  <2>2. \A i \in DOMAIN log : thread'[log[i]].step \in {"secure", "done", "dead"}
    BY <1>2, <2>1 DEF LogInv
  <2> QED
    BY <1>1, <2>2 DEF LogInv
<1>9. AloneInv'
  <2>1. Busy' = {}
    BY <1>2 DEF Busy, Active, Window
  <2> QED
    BY <1>1, <1>4, <2>1 DEF AloneInv, Alone
<1>10. Fifo'
  BY <1>1, <1>4, FifoKept
<1> QED
  BY <1>5, <1>6, <1>7, <1>8, <1>9, <1>10

LEMMA KillUiStep == ASSUME QueueBounds, QueueInv, KillUi PROVE QueueInv'
<1> USE DEF QueueInv
<1>1. /\ kills \in Nat /\ kills < MaxKills /\ kills' = kills + 1 /\ MaxKills \in Nat
      /\ UNCHANGED <<disk, thread, ran, log, dropped>> /\ poll'.step = "idle" /\ poll'.got = <<>> /\ poll' = NoPoll
      /\ hit' = IF poll.step = "run" THEN hit \cup Range(poll.got) ELSE hit
  BY DEF KillUi, QueueTypeOK, QueueBounds, NoPoll
<1>2. poll.got \in Seq(Cmds) /\ Range(poll.got) \subseteq Cmds /\ poll.step \in {"idle", "unlink", "run"}
  BY QueueFields, RangeOfSeq
<1>3. poll.step = "run" => Range(poll.got) # {}
  <2>1. poll.step = "run" => poll.got # <<>>
    BY DEF QueueTypeOK
  <2>2. poll.got # <<>> => 1 \in DOMAIN poll.got
    BY <1>2, EmptySeq, LenProperties
  <2> QED
    BY <2>1, <2>2 DEF Range
<1>4. hit' = {} => hit = {} /\ poll.step # "run"
  BY <1>1, <1>3
<1>5. Queued' = Queued /\ ~Polling' /\ Busy' = Busy
  BY <1>1 DEF Queued, Polling, Busy
<1>6. poll.step # "run" => Line' = Line
  BY <1>1, <1>2, <1>5 DEF Line, Polling, QueueTypeOK
<1>7. QueueTypeOK'
  <2>1. hit' \subseteq Cmds
    BY <1>1, <1>2, QueueFields
  <2>2. kills' \in 0..MaxKills
    BY <1>1
  <2>3. poll' \in [step : {"idle", "unlink", "run"}, got : Seq(Cmds)]
    BY <1>1, EmptySeq DEF NoPoll
  <2> QED
    BY <1>1, <2>1, <2>2, <2>3 DEF QueueTypeOK
<1>8. BodyInv' /\ FreshInv' /\ LogInv'
  BY <1>1, <1>4 DEF BodyInv, FreshInv, LogInv
<1>9. AloneInv'
  <2> SUFFICES ASSUME hit' = {} PROVE Alone'
    BY DEF AloneInv
  <2>1. Alone
    BY <1>4 DEF AloneInv
  <2>2. \A c \in Busy' : Held(c)'
    BY <1>1, <1>5, <2>1 DEF Alone, Held
  <2> QED
    BY <1>5, <2>1, <2>2 DEF Alone
<1>10. Fifo'
  BY <1>1, <1>4, <1>6, FifoKept
<1> QED
  BY <1>7, <1>8, <1>9, <1>10

LEMMA QueueStep == ASSUME QueueBounds, QueueInv, [QueueNext]_queue PROVE QueueInv'
<1>1. CASE \E c \in Cmds : Handle(c)
  BY <1>1, LookStep, OpenStep, WriteStep, ChmodStep, ReplaceStep, SecureStep DEF Handle
<1>2. CASE PollCommands
  BY <1>2, PollReadStep, UnlinkStep, RunStep DEF PollCommands
<1>3. CASE KillDaemon
  BY <1>3, KillDaemonStep
<1>4. CASE KillUi
  BY <1>4, KillUiStep
<1>5. CASE UNCHANGED queue
  <2>1. UNCHANGED <<disk, thread, poll, ran, log, dropped, hit, kills>>
    BY <1>5 DEF queue
  <2>2. Queued' = Queued /\ Polling' = Polling /\ Line' = Line
    BY <2>1, LineKept
  <2>3. Busy' = Busy
    BY <2>1 DEF Busy
  <2>4. Fifo'
    BY <2>1, <2>2, FifoKept DEF QueueInv
  <2>5. AloneInv'
    <3>1. \A c \in Busy : Held(c) => Held(c)'
      BY <2>1, <2>2 DEF Held
    <3> QED
      BY <2>1, <2>2, <2>3, <3>1 DEF QueueInv, AloneInv, Alone
  <2>6. QueueTypeOK' /\ BodyInv' /\ FreshInv' /\ LogInv'
    BY <2>1 DEF QueueInv, QueueTypeOK, BodyInv, FreshInv, LogInv
  <2> QED
    BY <2>4, <2>5, <2>6 DEF QueueInv
<1> QED
  BY <1>1, <1>2, <1>3, <1>4, <1>5 DEF QueueNext

\* Whatever the threads, the UI and restarts do to the two names, they never stand for the
\* same file, and every thread writes to a file it opened (_write_event_file, _poll_command_event).
THEOREM QueueTypeCorrect == QueueSpec => []QueueTypeOK
<1>1. QueueInit => QueueInv
  BY QueueInitial, QueueBounds
<1>2. QueueInv /\ [QueueNext]_queue => QueueInv'
  BY QueueStep, QueueBounds
<1>3. QueueInv => QueueTypeOK
  BY DEF QueueInv
<1> QED
  BY <1>1, <1>2, <1>3, PTL DEF QueueSpec

\* As long as no two accesses overlapped, every command that was renamed into place has run,
\* is being run or is in the file, once and in order, unless the cap pushed it out.
THEOREM QueueIsFifo == QueueSpec => []Fifo
<1>1. QueueInit => QueueInv
  BY QueueInitial, QueueBounds
<1>2. QueueInv /\ [QueueNext]_queue => QueueInv'
  BY QueueStep, QueueBounds
<1>3. QueueInv => Fifo
  BY DEF QueueInv
<1> QED
  BY <1>1, <1>2, <1>3, PTL DEF QueueSpec
=============================================================================
