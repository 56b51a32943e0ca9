------------------------- MODULE ProfilePagesProofs -------------------------
(* Theorems of ProfilePages and the requests it sends, for every kind of    *)
(* job, every set of Profiles and every bound: what Core carries out, which *)
(* flags stay up, that cleared messages do not return, and that the cursor  *)
(* of the polls passes no message Core keeps but behind an action's answer. *)
EXTENDS ProfilePages, TLAPS

\* What a request may have done in Core before it is answered.
Careful(stage, kind, ran) ==
    /\ stage \in Stages /\ ran \in {0, 1}
    /\ kind \notin Writes => ran = 0
    /\ stage \in {"none", "websocket", "http"} => ran = 0
    /\ stage = "answered" /\ kind \in Writes => ran = 1

CallInv == /\ call = [w \in Workers |-> call[w]]
           /\ \A w \in Workers : /\ call[w] \in [stage : Stages, kind : {call[w].kind}, ran : {0, 1}]
                                /\ Careful(call[w].stage, call[w].kind, call[w].ran)

-----------------------------------------------------------------------------
(* Writes *)

\* No request that may be repeated over HTTP changes anything in Core.
LEMMA ReplayIsRead == \A kind : ReplaySafe(kind) => kind \notin Writes
  BY DEF ReplaySafe, Writes

LEMMA RanCareful ==
    ASSUME CallInv, NEW w \in Workers, call[w].stage \in {"websocket", "http"}
    PROVE  call[w].ran = 0 /\ Ran(call[w]) = IF call[w].kind \in Writes THEN 1 ELSE 0
  BY DEF CallInv, Careful, Ran

\* One request takes a step, the others stay as they are.
LEMMA GoCareful ==
    ASSUME CallInv, NEW w \in Workers, NEW stage, NEW ran, Go(w, stage, ran),
           Careful(stage, call[w].kind, ran)
    PROVE  CallInv'
  <1> DEFINE c == call[w]
             d == [c EXCEPT !.stage = stage, !.ran = ran]
  <1>1. c \in [stage : Stages, kind : {c.kind}, ran : {0, 1}]
    BY DEF CallInv
  <1>2. call' = [x \in Workers |-> IF x = w THEN d ELSE call[x]]
    BY DEF CallInv, Go
  <1>3. d.stage = stage /\ d.kind = c.kind /\ d.ran = ran
        /\ d \in [stage : Stages, kind : {c.kind}, ran : {0, 1}]
    BY <1>1 DEF Careful
  <1> HIDE DEF d
  <1> QED BY <1>2, <1>3 DEF CallInv

LEMMA OpenCareful == ASSUME CallInv, NEW w \in Workers, NEW kind, Open(w, kind) PROVE CallInv'
  <1>1. PICK stage \in {"websocket", "http"} : call' = [call EXCEPT ![w] = Request(kind, stage)]
    BY DEF Open
  <1>2. call' = [x \in Workers |-> IF x = w THEN Request(kind, stage) ELSE call[x]]
    BY <1>1 DEF CallInv
  <1> QED BY <1>2 DEF CallInv, Careful, Request, Stages

LEMMA CloseCareful == ASSUME CallInv, NEW w \in Workers, call' = [call EXCEPT ![w] = NoCall] PROVE CallInv'
  <1>1. call' = [x \in Workers |-> IF x = w THEN NoCall ELSE call[x]]
    BY DEF CallInv
  <1> QED BY <1>1 DEF CallInv, Careful, NoCall, Request, Stages

LEMMA TravelCareful == ASSUME CallInv, NEW w \in Workers, Travel(w) PROVE CallInv'
  <1> DEFINE c == call[w]
  <1>1. CASE NotSent(w)
    <2>1. Careful("http", c.kind, c.ran)
      BY <1>1, RanCareful DEF NotSent, Careful, Stages
    <2> QED BY <1>1, <2>1, GoCareful DEF NotSent
  <1>2. CASE Unconfirmed(w)
    <2>1. PICK ran \in {c.ran, Ran(c)} : Go(w, IF ReplaySafe(c.kind) THEN "http" ELSE "uncertain", ran)
      BY <1>2 DEF Unconfirmed
    <2>2. c.ran = 0 /\ Ran(c) = IF c.kind \in Writes THEN 1 ELSE 0
      BY <1>2, RanCareful DEF Unconfirmed
    <2>3. CASE ReplaySafe(c.kind)
      <3>1. Careful("http", c.kind, ran)
        BY <2>2, <2>3, ReplayIsRead DEF Careful, Stages
      <3> QED BY <2>1, <2>3, <3>1, GoCareful
    <2>4. CASE ~ReplaySafe(c.kind)
      <3>1. Careful("uncertain", c.kind, ran)
        BY <2>2 DEF Careful, Stages
      <3> QED BY <2>1, <2>4, <3>1, GoCareful
    <2> QED BY <2>3, <2>4
  <1>3. CASE Acknowledged(w)
    <2>1. Careful("answered", c.kind, Ran(c))
      BY <1>3, RanCareful DEF Acknowledged, Careful, Stages
    <2> QED BY <1>3, <2>1, GoCareful DEF Acknowledged
  <1>4. CASE Http(w)
    <2>1. c.ran = 0 /\ Ran(c) = IF c.kind \in Writes THEN 1 ELSE 0
      BY <1>4, RanCareful DEF Http
    <2>2. /\ Careful("answered", c.kind, Ran(c)) /\ Careful("refused", c.kind, c.ran)
          /\ Careful("lost", c.kind, c.ran) /\ Careful("lost", c.kind, Ran(c))
      BY <2>1 DEF Careful, Stages
    <2> QED BY <1>4, <2>2, GoCareful DEF Http
  <1> QED BY <1>1, <1>2, <1>3, <1>4 DEF Travel

LEMMA InitCall == Init => CallInv
  BY DEF Init, TransportInit, CallInv, Careful, NoCall, Request, Stages

LEMMA NextCall == CallInv /\ [Next]_vars => CallInv'
  <1> SUFFICES ASSUME CallInv, [Next]_vars PROVE CallInv'
    OBVIOUS
  <1>0. call' = call => CallInv'
    BY DEF CallInv
  <1>1. CASE Gui
    BY <1>0, <1>1 DEF Gui, Start, Retry, OwnerChanged, Deliver, transport
  <1>2. ASSUME NEW w \in Workers, Work(w) PROVE CallInv'
    <2>1. CASE Begin(w)
      BY <2>1, OpenCareful DEF Begin
    <2>2. CASE Send(w)
      BY <2>2, TravelCareful DEF Send
    <2>3. CASE Land(w)
      BY <2>3, CloseCareful DEF Land
    <2>4. CASE Check(w)
      BY <1>0, <2>4 DEF Check, transport
    <2>5. CASE Proceed(w)
      BY <2>5, OpenCareful DEF Proceed
    <2>6. CASE Finish(w)
      BY <1>0, <2>6 DEF Finish, transport
    <2>7. CASE Forget(w)
      BY <2>7, CloseCareful DEF Forget
    <2>8. CASE Fail(w)
      BY <2>8, CloseCareful DEF Fail
    <2> QED BY <1>2, <2>1, <2>2, <2>3, <2>4, <2>5, <2>6, <2>7, <2>8 DEF Work
  <1>3. CASE Link
    BY <1>0, <1>3 DEF Link, Heal, Rollback
  <1>4. CASE Say \/ Elsewhere \/ Pair
    BY <1>0, <1>4 DEF Say, Elsewhere, Pair, transport
  <1>5. CASE UNCHANGED vars
    BY <1>0, <1>5 DEF vars, transport
  <1> QED BY <1>1, <1>2, <1>3, <1>4, <1>5 DEF Next

\* A write is carried out at most once, and once when it is reported as done, whatever it
\* asks for, whichever path it takes and wherever the path breaks (_try_websocket,
\* _exchange, _replay_safe).
THEOREM EveryWriteOnce == Spec => []WrittenOnce
  <1>1. CallInv => WrittenOnce
    BY DEF CallInv, Careful, WrittenOnce
  <1> QED BY <1>1, InitCall, NextCall, PTL DEF Spec

-----------------------------------------------------------------------------
(* Busy flags *)

Steps == {"idle", "call", "check", "post"}
Shaped(j) == j \in [step : Steps, kind : Kinds \cup {"poll"}, left : {j.left}, ticket : {j.ticket},
                    since : {j.since}, data : {j.data}]
JobShape == job = [w \in Workers |-> job[w]] /\ \A w \in Workers : Shaped(job[w])

Waiting  == {queue[i] : i \in DOMAIN queue}
UnderWay == {job[w].kind : w \in {w \in Workers : job[w].step # "idle"}}

\* A flag is up only for a job that will take it down: its own kind raised it.
FlagsOwed == \A l \in lanes : \E kind \in Waiting \cup UnderWay : l \in Raised(kind)
LaneInv   == queue \in Seq(Kinds) /\ JobShape /\ FlagsOwed

LEMMA OwedIsHeld == FlagsOwed => LanesHeld
  <1> SUFFICES ASSUME FlagsOwed, NEW l \in lanes
               PROVE  \E kind \in Waiting \cup UnderWay : IF l = "task" THEN kind # "poll" ELSE l = Lane(kind)
    BY DEF LanesHeld, Waiting, UnderWay
  <1>1. PICK kind \in Waiting \cup UnderWay : l \in Raised(kind)
    BY DEF FlagsOwed
  <1>2. Lane(kind) # "task" \/ kind # "poll"
    BY DEF Lane
  <1> QED BY <1>1, <1>2 DEF Raised

\* A job takes a step, the others stay as they are.
LEMMA JobStep ==
    ASSUME JobShape, NEW w \in Workers, NEW j, Shaped(j), job' = [job EXCEPT ![w] = j]
    PROVE  /\ JobShape'
           /\ job'[w] = j
           /\ \A x \in Workers : x # w => job'[x] = job[x]
  <1>1. job' = [x \in Workers |-> IF x = w THEN j ELSE job[x]]
    BY DEF JobShape
  <1> QED BY <1>1 DEF JobShape

\* Flags come down or stay, jobs go on: nothing is owed anew.
LEMMA StillOwed ==
    ASSUME LaneInv, lanes' \subseteq lanes, UNCHANGED queue, JobShape',
           \A x \in Workers : job[x].step # "idle" => job'[x].step # "idle" /\ job'[x].kind = job[x].kind
    PROVE  LaneInv'
  <1>1. Waiting' = Waiting
    BY DEF Waiting
  <1>2. UnderWay \subseteq UnderWay'
    BY DEF UnderWay
  <1> QED BY <1>1, <1>2 DEF LaneInv, FlagsOwed

\* A job that ends takes down every flag it raised, so what stays up is owed by others.
LEMMA EndedOwed ==
    ASSUME LaneInv, NEW w \in Workers, job' = [job EXCEPT ![w] = NoJob],
           lanes' \subseteq lanes \ Raised(job[w].kind), UNCHANGED queue
    PROVE  LaneInv'
  <1>1. Shaped(NoJob)
    BY DEF Shaped, NoJob, Steps
  <1>2. JobShape' /\ \A x \in Workers : x # w => job'[x] = job[x]
    BY <1>1, JobStep DEF LaneInv
  <1>3. ASSUME NEW l \in lanes' PROVE \E kind \in (Waiting \cup UnderWay)' : l \in Raised(kind)
    <2>1. PICK kind \in Waiting \cup UnderWay : l \in Raised(kind)
      BY <1>3 DEF LaneInv, FlagsOwed
    <2>2. kind # job[w].kind
      BY <1>3, <2>1
    <2>3. kind \in Waiting => kind \in Waiting'
      BY DEF Waiting
    <2>4. kind \in UnderWay => kind \in UnderWay'
      BY <1>2, <2>2 DEF UnderWay
    <2> QED BY <2>1, <2>3, <2>4
  <1> QED BY <1>2, <1>3 DEF LaneInv, FlagsOwed

LEMMA StartOwed == ASSUME LaneInv, NEW kind \in Kinds, Start(kind) PROVE LaneInv'
  <1>1. queue' = Append(queue, kind) /\ UNCHANGED job /\ lanes' = lanes \cup Raised(kind)
    BY DEF Start
  <1>2. queue' \in Seq(Kinds) /\ JobShape' /\ UnderWay' = UnderWay
    BY <1>1 DEF LaneInv, JobShape, Shaped, UnderWay
  <1>3. Waiting' = Waiting \cup {kind}
    <2>1. /\ DOMAIN queue' = DOMAIN queue \cup {Len(queue) + 1}
          /\ queue'[Len(queue) + 1] = kind
          /\ \A i \in DOMAIN queue : queue'[i] = queue[i]
      BY <1>1 DEF LaneInv
    <2> QED BY <2>1 DEF Waiting
  <1> QED BY <1>1, <1>2, <1>3 DEF LaneInv, FlagsOwed

LEMMA BeginOwed == ASSUME LaneInv, NEW w \in Workers, Begin(w) PROVE LaneInv'
  <1> DEFINE head == Head(queue)
             j == [NoJob EXCEPT !.step = "call", !.kind = head, !.left = Tail(Requests(head)),
                                !.ticket = Context, !.since = ask.rev]
  <1>1. job' = [job EXCEPT ![w] = j] /\ queue' = Tail(queue) /\ UNCHANGED lanes
        /\ queue # <<>> /\ job[w].step = "idle"
    BY DEF Begin
  <1>2. head \in Kinds /\ queue' \in Seq(Kinds) /\ Waiting \subseteq Waiting' \cup {head}
    <2>1. /\ head = queue[1] /\ head \in Kinds /\ queue' \in Seq(Kinds)
          /\ \A i \in DOMAIN queue : i # 1 => i - 1 \in DOMAIN queue' /\ queue'[i - 1] = queue[i]
      BY <1>1 DEF LaneInv
    <2> QED BY <2>1 DEF Waiting
  <1>3. j.step = "call" /\ j.kind = head /\ Shaped(j)
    BY <1>2 DEF NoJob, Shaped, Steps
  <1> HIDE DEF j
  <1>4. /\ JobShape'
        /\ job'[w] = j
        /\ \A x \in Workers : x # w => job'[x] = job[x]
    BY <1>1, <1>3, JobStep DEF LaneInv
  <1>5. UnderWay \cup {head} \subseteq UnderWay'
    BY <1>1, <1>3, <1>4 DEF UnderWay
  <1> QED BY <1>1, <1>2, <1>4, <1>5 DEF LaneInv, FlagsOwed

\* A job on its way: its step, ticket, requests or data change, its kind does not.
LEMMA OnItsWay ==
    ASSUME LaneInv, NEW w \in Workers, NEW j, Shaped(j), j.kind = job[w].kind,
           j.step # "idle" \/ job[w].step = "idle",
           job' = [job EXCEPT ![w] = j], lanes' \subseteq lanes, UNCHANGED queue
    PROVE  LaneInv'
  <1>1. JobShape' /\ \A x \in Workers : job[x].step # "idle" => job'[x].step # "idle" /\ job'[x].kind = job[x].kind
    BY JobStep DEF LaneInv
  <1> QED BY <1>1, StillOwed

LEMMA InitLanes == Init => LaneInv
  <1> SUFFICES ASSUME Init PROVE LaneInv
    OBVIOUS
  <1>1. queue = <<>> /\ lanes = {} /\ job = [w \in Workers |-> NoJob] /\ Shaped(NoJob)
    BY DEF Init, Shaped, NoJob, Steps
  <1> QED BY <1>1 DEF LaneInv, JobShape, FlagsOwed

LEMMA WorkOwed == ASSUME LaneInv, NEW w \in Workers, Work(w) PROVE LaneInv'
  <1> DEFINE c == job[w]
  <1>0. Shaped(c)
    BY DEF LaneInv, JobShape
  <1>1. CASE Begin(w)
    BY <1>1, BeginOwed
  <1>2. CASE Send(w)
    <2>1. UNCHANGED <<queue, lanes>>
      BY <1>2 DEF Send
    <2>2. CASE UNCHANGED job
      <3>1. JobShape'
        BY <2>2 DEF LaneInv, JobShape, Shaped
      <3> QED BY <2>1, <2>2, <3>1, StillOwed
    <2>3. CASE ~UNCHANGED job
      <3>0. PICK full \in BOOLEAN : job' = [job EXCEPT ![w].data = Served(core', call[w].kind, c.since, full)]
        BY <1>2, <2>3 DEF Send
      <3> DEFINE d == Served(core', call[w].kind, c.since, full)
                 j == [c EXCEPT !.data = d]
      <3>1. job' = [job EXCEPT ![w] = j]
        BY <3>0
      <3>2. Shaped(j) /\ j.kind = c.kind /\ j.step = c.step
        BY <1>0 DEF Shaped
      <3> HIDE DEF j
      <3> QED BY <2>1, <3>1, <3>2, OnItsWay
    <2> QED BY <2>2, <2>3
  <1>3. CASE Land(w)
    <2>1. PICK step \in {"post", "check"} : job' = [job EXCEPT ![w] = [c EXCEPT !.step = step]]
      BY <1>3 DEF Land
    <2> DEFINE j == [c EXCEPT !.step = step]
    <2>2. Shaped(j) /\ j.kind = c.kind /\ j.step # "idle"
      BY <1>0 DEF Shaped, Steps
    <2>3. UNCHANGED <<queue, lanes>>
      BY <1>3 DEF Land
    <2> HIDE DEF j
    <2> QED BY <2>1, <2>2, <2>3, OnItsWay DEF j
  <1>4. CASE Check(w)
    <2>1. CASE End(w)
      BY <1>4, <2>1, EndedOwed DEF Check, End, Dropped
    <2>2. CASE ~End(w)
      <3> DEFINE j == [c EXCEPT !.step = "post"]
      <3>1. job' = [job EXCEPT ![w] = j] /\ lanes' \subseteq lanes /\ UNCHANGED queue
        BY <1>4, <2>2 DEF Check, ClearPages
      <3>2. Shaped(j) /\ j.kind = c.kind /\ j.step # "idle"
        BY <1>0 DEF Shaped, Steps
      <3> HIDE DEF j
      <3> QED BY <3>1, <3>2, OnItsWay
    <2> QED BY <2>1, <2>2
  <1>5. CASE Proceed(w)
    <2> DEFINE j == [c EXCEPT !.step = "call", !.left = Tail(c.left), !.ticket = Ticket(w)]
    <2>1. job' = [job EXCEPT ![w] = j] /\ UNCHANGED <<queue, lanes>>
      BY <1>5 DEF Proceed
    <2>2. Shaped(j) /\ j.kind = c.kind /\ j.step # "idle"
      BY <1>0 DEF Shaped, Steps
    <2> HIDE DEF j
    <2> QED BY <2>1, <2>2, OnItsWay
  <1>6. CASE Finish(w)
    BY <1>6, EndedOwed DEF Finish, End, Dropped
  <1>7. CASE Forget(w)
    BY <1>7, EndedOwed DEF Forget, Dropped
  <1>8. CASE Fail(w)
    BY <1>8, EndedOwed DEF Fail, End, Dropped
  <1> QED BY <1>1, <1>2, <1>3, <1>4, <1>5, <1>6, <1>7, <1>8 DEF Work

LEMMA NextLanes == LaneInv /\ [Next]_vars => LaneInv'
  <1> SUFFICES ASSUME LaneInv, [Next]_vars PROVE LaneInv'
    OBVIOUS
  <1>0. lanes' \subseteq lanes /\ UNCHANGED <<queue, job>> => LaneInv'
    <2> SUFFICES ASSUME lanes' \subseteq lanes, UNCHANGED <<queue, job>> PROVE LaneInv'
      OBVIOUS
    <2>1. JobShape'
      BY DEF LaneInv, JobShape, Shaped
    <2> QED BY <2>1, StillOwed
  <1>1. ASSUME NEW kind \in Kinds, Start(kind) PROVE LaneInv'
    BY <1>1, StartOwed
  <1>2. CASE Retry \/ OwnerChanged \/ Deliver
    BY <1>0, <1>2 DEF Retry, OwnerChanged, ClearPages, Deliver
  <1>3. ASSUME NEW w \in Workers, Work(w) PROVE LaneInv'
    BY <1>3, WorkOwed
  <1>4. CASE Link \/ Say \/ Elsewhere \/ Pair
    BY <1>0, <1>4 DEF Link, Say, Elsewhere, Pair
  <1>5. CASE UNCHANGED vars
    BY <1>0, <1>5 DEF vars
  <1> QED BY <1>1, <1>2, <1>3, <1>4, <1>5 DEF Next, Gui

\* A busy flag is up only while a job that will take it down waits or runs, for every
\* kind of job and any number of them (_run, whose finally block calls done and drops the
\* task flag, and _poll_ask_dj_history_worker).
THEOREM NoPageBusyForGood == Spec => []LanesHeld
  <1>1. LaneInv => LanesHeld
    BY OwedIsHeld DEF LaneInv
  <1> QED BY <1>1, InitLanes, NextLanes, PTL DEF Spec

-----------------------------------------------------------------------------
(* Messages that were cleared, and messages that are missing *)

Owners  == Profiles \cup {NoProfile}
History == {"poll", "load"}
Asked   == History \cup Writes \cup {"dna", "feed", "status", "queue"}
Tells   == History \cup {"action"}
Answers == [kind : Asked, profile : Owners, new : SUBSET Messages, rev : Nat, clear : Nat,
            floor : Nat, cleared : BOOLEAN, full : BOOLEAN]
Views   == [shown : SUBSET Messages, rev : Nat, clear : Nat, backoff : BOOLEAN, met : SUBSET (Owners \X Nat)]
Cores   == [profile : Profiles, rev : [Profiles -> 0..MaxRev], floor : [Profiles -> Nat], clear : [Profiles -> Nat]]
Tickets == {<<>>} \cup (Nat \X Owners \X Nat)
Tasks   == [step : Steps, kind : Kinds \cup {"poll"}, left : Seq({"feed", "queue"}),
            ticket : Tickets, since : Nat, data : Answers]
Letters == [ticket : Tickets, data : Answers]
Counts  == [jobs : Nat, moves : Nat, tokens : Nat, moved : BOOLEAN]

PagesTyped ==
    /\ core \in Cores
    /\ cfg \in [token : Nat, profile : Owners] /\ disk \in [token : Nat, profile : Owners]
    /\ epoch \in Nat /\ queue \in Seq(Kinds) /\ mail \in Seq(Letters)
    /\ job \in [Workers -> Tasks]
    /\ ask \in Views
    /\ count \in Counts
    /\ cleared \in SUBSET (Owners \X Nat)

\* A job asks Core while it is at "call", and then holds the answer to what it asked.
Calling ==
    \A w \in Workers :
      /\ job[w].step = "idle" => job[w] = NoJob
      /\ job[w].step # "call" => call[w] = NoCall
      /\ call[w].kind \in Asked
      /\ call[w].stage = "answered" => job[w].data.kind = call[w].kind

\* No ticket names an owner epoch that is still to come.
Recent(t, e) == t # <<>> /\ t[3] = e
Dated(t, e)  == t # <<>> => t[3] <= e
Posted == {mail[i] : i \in DOMAIN mail}
Jobs   == {job[w] : w \in Workers}

TypeInv == /\ PagesTyped /\ Calling
           /\ \A m \in Posted : Dated(m.ticket, epoch)
           /\ \A j \in Jobs : Dated(j.ticket, epoch)

-----------------------------------------------------------------------------

LEMMA OneWorker == Workers = {1}
  BY DEF Workers, WorkerCount

LEMMA NothingYet ==
    /\ NoData \in Answers /\ NoJob \in Tasks /\ NoCall.kind \in Asked /\ NoCall.stage = "none"
    /\ NoJob.step = "idle" /\ NoJob.ticket = <<>> /\ NoJob.data = NoData
  <1>1. NoData \in Answers
    BY DEF NoData, Answers, Asked, History, Owners
  <1>2. NoJob \in Tasks
    BY <1>1 DEF NoJob, Tasks, Steps, Tickets
  <1> QED BY <1>1, <1>2 DEF NoCall, Request, Asked, History, NoJob

LEMMA RequestsAsked ==
    ASSUME NEW kind \in Kinds
    PROVE  /\ Requests(kind) # <<>> /\ Head(Requests(kind)) \in Asked
           /\ Tail(Requests(kind)) \in Seq({"feed", "queue"})
  <1>1. \A a, b : /\ Head(<<a, b>>) = a /\ Tail(<<a, b>>) = <<b>> /\ <<a, b>> # <<>>
                 /\ Head(<<a>>) = a /\ Tail(<<a>>) = <<>> /\ <<a>> # <<>>
    OBVIOUS
  <1>2. \/ Requests(kind) \in {<<"settings", "feed">>, <<"play", "feed">>, <<"feedback", "feed">>, <<"command", "queue">>}
        \/ Requests(kind) = <<"command">>
        \/ Requests(kind) = <<kind>> /\ kind \in Asked
    BY PageKinds DEF Requests, Asked, History, Writes
  <1>3. /\ {"settings", "play", "feedback", "command"} \subseteq Asked
        /\ {<<>>, <<"feed">>, <<"queue">>} \subseteq Seq({"feed", "queue"})
    BY DEF Asked, Writes
  <1>4. CASE Requests(kind) \in {<<"settings", "feed">>, <<"play", "feed">>, <<"feedback", "feed">>, <<"command", "queue">>}
    <2>1. PICK a \in {"settings", "play", "feedback", "command"}, b \in {"feed", "queue"} : Requests(kind) = <<a, b>>
      BY <1>4
    <2> QED BY <1>1, <1>3, <2>1
  <1>5. CASE Requests(kind) = <<"command">>
    BY <1>1, <1>3, <1>5
  <1>6. CASE Requests(kind) = <<kind>> /\ kind \in Asked
    BY <1>1, <1>3, <1>6
  <1> QED BY <1>2, <1>4, <1>5, <1>6

LEMMA ContextTicket ==
    ASSUME PagesTyped
    PROVE  Context \in Tickets /\ Context # <<>> /\ Context[2] = cfg.profile /\ Context[3] = epoch
  BY DEF PagesTyped, Context, Tickets

LEMMA TicketTyped ==
    ASSUME PagesTyped, NEW w \in Workers
    PROVE  Ticket(w) \in Tickets
  <1>1. job[w].ticket \in Tickets /\ <<>> \in Tickets
    BY DEF PagesTyped, Tasks, Tickets
  <1> QED BY <1>1, ContextTicket DEF Ticket

LEMMA TicketDated ==
    ASSUME TypeInv, NEW w \in Workers
    PROVE  Dated(Ticket(w), epoch)
  BY ContextTicket DEF Ticket, TypeInv, Jobs, Dated, PagesTyped

LEMMA AdoptedTyped ==
    ASSUME PagesTyped, NEW p \in Owners
    PROVE  /\ Adopted(p) \in [token : Nat, profile : Owners] /\ Adopted(p).token = cfg.token
           /\ Adopted(p).profile = IF p = NoProfile THEN cfg.profile ELSE p
  BY DEF PagesTyped, Adopted

\* The request of a worker that has one goes on; no other is made.
LEMMA TravelShape ==
    ASSUME CallInv, NEW w \in Workers, Travel(w)
    PROVE  /\ call[w].stage \in {"websocket", "http"} /\ call'[w].kind = call[w].kind /\ call'[w].stage # "none"
           /\ call'[w].stage = "answered" /\ call[w].kind \in Writes => call'[w].ran > call[w].ran
  <1> DEFINE c == call[w]
  <1>1. PICK stage, ran : Go(w, stage, ran) /\ (stage = "answered" => ran = Ran(c)) /\ stage # "none"
    BY DEF Travel, NotSent, Unconfirmed, Acknowledged, Http
  <1>2. c.stage \in {"websocket", "http"}
    BY DEF Travel, NotSent, Unconfirmed, Acknowledged, Http
  <1>3. c \in [stage : Stages, kind : {c.kind}, ran : {0, 1}]
    BY DEF CallInv
  <1>4. call'[w] = [c EXCEPT !.stage = stage, !.ran = ran]
    BY <1>1 DEF CallInv, Go
  <1>5. call'[w].kind = c.kind /\ call'[w].stage = stage /\ call'[w].ran = ran
    BY <1>3, <1>4
  <1> QED BY <1>1, <1>2, <1>3, <1>5 DEF Ran

LEMMA OpenShape ==
    ASSUME CallInv, NEW w \in Workers, NEW kind, Open(w, kind)
    PROVE  call'[w].kind = kind /\ call'[w].stage \in {"websocket", "http"}
  BY DEF CallInv, Open, Request

LEMMA CloseShape ==
    ASSUME CallInv, NEW w \in Workers, call' = [call EXCEPT ![w] = NoCall]
    PROVE  call'[w] = NoCall
  BY DEF CallInv

\* What Core says.
LEMMA FreshShape ==
    ASSUME NEW c \in Cores, NEW kind, NEW since \in Nat
    PROVE  LET p == c.profile IN
           /\ Fresh(c, kind, since) \in SUBSET Messages
           /\ \A m \in Fresh(c, kind, since) : m[1] = p /\ m[2] > c.floor[p] /\ m[2] <= c.rev[p]
           /\ kind # "action" => \A n \in (c.floor[p] + 1)..c.rev[p] : n > since => <<p, n>> \in Fresh(c, kind, since)
  <1> DEFINE p == c.profile
             in(n) == IF kind = "action" THEN n = c.rev[p] ELSE n > since
             ns == {n \in (c.floor[p] + 1)..c.rev[p] : in(n)}
  <1>1. p \in Profiles /\ c.rev[p] \in 0..MaxRev /\ c.floor[p] \in Nat /\ MaxRev \in Nat
    BY PageBounds DEF Cores
  <1>2. \A n \in ns : n \in 1..MaxRev /\ n > c.floor[p] /\ n <= c.rev[p]
    BY <1>1
  <1>3. kind # "action" => \A n \in (c.floor[p] + 1)..c.rev[p] : n > since => n \in ns
    OBVIOUS
  <1>4. Fresh(c, kind, since) = {<<p, n>> : n \in ns}
    BY DEF Fresh
  <1> HIDE DEF ns, p
  <1>5. \A m \in {<<p, n>> : n \in ns} : m \in Messages /\ m[1] = p /\ m[2] \in ns
    BY <1>1, <1>2 DEF Messages
  <1> QED BY <1>2, <1>3, <1>4, <1>5 DEF p

LEMMA ServedShape ==
    ASSUME NEW c \in Cores, NEW kind \in Asked, NEW since \in Nat, NEW full \in BOOLEAN
    PROVE  LET d == Served(c, kind, since, full)
               p == c.profile IN
           /\ d \in Answers /\ d.kind = kind /\ d.profile = p
           /\ AboutAskDj(kind) =>
                /\ d.rev = c.rev[p] /\ d.clear = c.clear[p] /\ d.floor = c.floor[p]
                /\ d.new = Fresh(c, kind, since) /\ (d.cleared <=> kind = "clear")
           /\ ~AboutAskDj(kind) => d.rev = 0 /\ d.clear = 0 /\ d.floor = 0 /\ ~d.cleared /\ d.new = {}
  <1> DEFINE p == c.profile
             all == [NoData EXCEPT !.kind = kind, !.profile = p]
             new == Fresh(c, kind, since)
             told == [all EXCEPT !.new = new, !.rev = c.rev[p], !.clear = c.clear[p], !.floor = c.floor[p],
                                 !.cleared = (kind = "clear"), !.full = full]
  <1>1. p \in Profiles /\ p \in Owners /\ c.rev[p] \in Nat /\ c.floor[p] \in Nat /\ c.clear[p] \in Nat
    BY PageBounds DEF Cores, Owners
  <1>2. new \in SUBSET Messages
    BY FreshShape
  <1>3. all \in Answers /\ all.kind = kind /\ all.profile = p /\ all.new = {} /\ all.rev = 0 /\ all.clear = 0
        /\ all.floor = 0 /\ ~all.cleared
    <2>1. NoData \in Answers
      BY NothingYet
    <2>2. all \in Answers
      BY <1>1, <2>1 DEF Answers
    <2>3. all.kind = kind /\ all.profile = p /\ all.new = {} /\ all.rev = 0 /\ all.clear = 0
          /\ all.floor = 0 /\ ~all.cleared
      BY DEF NoData
    <2> QED BY <2>2, <2>3
  <1> HIDE DEF all, new
  <1>4. told \in Answers /\ told.kind = kind /\ told.profile = p
    <2>1. told \in Answers
      BY <1>1, <1>2, <1>3 DEF Answers
    <2>2. told.kind = all.kind /\ told.profile = all.profile
      BY <1>3 DEF Answers
    <2> QED BY <1>3, <2>1, <2>2
  <1>5. told.rev = c.rev[p] /\ told.clear = c.clear[p] /\ told.floor = c.floor[p] /\ told.new = new
        /\ told.cleared = (kind = "clear")
    BY <1>3 DEF Answers
  <1>6. Served(c, kind, since, full) = IF AboutAskDj(kind) THEN told ELSE all
    BY DEF Served, all, new
  <1> HIDE DEF told
  <1>7. CASE AboutAskDj(kind)
    BY <1>4, <1>5, <1>6, <1>7 DEF new
  <1>8. CASE ~AboutAskDj(kind)
    BY <1>3, <1>6, <1>8
  <1> QED BY <1>7, <1>8

LEMMA WipedTyped ==
    ASSUME PagesTyped
    PROVE  /\ Wiped.profile = core.profile /\ Wiped.rev = core.rev
           /\ Wiped.floor = [core.floor EXCEPT ![core.profile] = core.rev[core.profile]]
           /\ Wiped.clear = [core.clear EXCEPT ![core.profile] = core.clear[core.profile] + 1]
           /\ Wiped \in Cores
  <1> DEFINE p == core.profile
             f == [core.floor EXCEPT ![p] = core.rev[p]]
             c == [core.clear EXCEPT ![p] = core.clear[p] + 1]
  <1>1. f \in [Profiles -> Nat] /\ c \in [Profiles -> Nat]
    BY PageBounds DEF PagesTyped, Cores
  <1>2. Wiped = [core EXCEPT !.floor = f, !.clear = c]
    BY DEF Wiped, PagesTyped, Cores
  <1> HIDE DEF f, c
  <1>3. Wiped.profile = p /\ Wiped.rev = core.rev /\ Wiped.floor = f /\ Wiped.clear = c
    BY <1>2 DEF PagesTyped, Cores
  <1>4. Wiped \in Cores
    BY <1>1, <1>2 DEF PagesTyped, Cores
  <1> QED BY <1>3, <1>4 DEF f, c

\* A message is written, and the oldest one goes when there are too many.
LEMMA SaidTyped ==
    ASSUME PagesTyped, Say
    PROVE  LET p == core.profile IN
           /\ core' \in Cores /\ core'.profile = p /\ core'.clear = core.clear
           /\ core'.rev = [core.rev EXCEPT ![p] = core.rev[p] + 1]
           /\ \E g \in {core.floor[p], core.floor[p] + 1} :
                core'.floor = [core.floor EXCEPT ![p] = g] /\ (core.floor[p] <= core.rev[p] => g <= core.rev[p])
  <1> DEFINE p == core.profile
             kept == core.rev[p] - core.floor[p]
             g == IF kept < HistoryLimit THEN core.floor[p] ELSE core.floor[p] + 1
             r == [core.rev EXCEPT ![p] = core.rev[p] + 1]
             f == [core.floor EXCEPT ![p] = g]
  <1>1. p \in Profiles /\ core.rev[p] \in 0..MaxRev /\ core.rev[p] < MaxRev /\ MaxRev \in Nat
        /\ core.floor[p] \in Nat /\ HistoryLimit \in Nat /\ HistoryLimit >= 1
    BY PageBounds, PageLimit DEF Say, PagesTyped, Cores
  <1>2. r \in [Profiles -> 0..MaxRev] /\ f \in [Profiles -> Nat]
    BY <1>1 DEF PagesTyped, Cores
  <1>3. core' = [core EXCEPT !.rev = r, !.floor = f]
    <2>1. core' = Said /\ core \in [profile : Profiles, rev : [Profiles -> 0..MaxRev], floor : [Profiles -> Nat], clear : [Profiles -> Nat]]
      BY DEF Say, PagesTyped, Cores
    <2> QED BY <2>1 DEF Said
  <1>4. g \in {core.floor[p], core.floor[p] + 1} /\ (core.floor[p] <= core.rev[p] => g <= core.rev[p])
    BY <1>1
  <1>5. core \in [profile : Profiles, rev : [Profiles -> 0..MaxRev], floor : [Profiles -> Nat], clear : [Profiles -> Nat]]
    BY DEF PagesTyped, Cores
  <1>6. core'.profile = p /\ core'.clear = core.clear /\ core'.rev = r /\ core'.floor = f /\ core' \in Cores
    <2> HIDE DEF r, f, p, g, kept
    <2>1. core'.profile = core.profile /\ core'.clear = core.clear /\ core'.rev = r /\ core'.floor = f
      BY <1>3, <1>5
    <2>2. core' \in Cores
      BY <1>2, <1>3, <1>5 DEF Cores
    <2> QED BY <2>1, <2>2 DEF p
  <1> HIDE DEF g
  <1> QED BY <1>4, <1>6

-----------------------------------------------------------------------------
(* What a worker's steps do to its job, its request and the mail *)

LEMMA JobsStep ==
    ASSUME PagesTyped, NEW w \in Workers, NEW j \in Tasks, job' = [job EXCEPT ![w] = j]
    PROVE  job' \in [Workers -> Tasks] /\ job'[w] = j /\ Jobs' = {j} /\ Jobs = {job[w]}
  BY OneWorker DEF PagesTyped, Jobs

LEMMA PostedTyped ==
    ASSUME PagesTyped
    PROVE  Posted \subseteq Letters /\ \A m \in Posted : m.ticket \in Tickets /\ m.data \in Answers
  <1>1. mail \in Seq(Letters)
    BY DEF PagesTyped
  <1>2. \A i \in DOMAIN mail : mail[i] \in Letters
    BY <1>1
  <1> QED BY <1>2 DEF Posted, Letters

LEMMA PostStep ==
    ASSUME PagesTyped, NEW m \in Letters, mail' = Append(mail, m)
    PROVE  mail' \in Seq(Letters) /\ Posted' = Posted \cup {m}
  <1>1. mail \in Seq(Letters) /\ mail' \in Seq(Letters)
    BY DEF PagesTyped
  <1>2. /\ DOMAIN mail' = DOMAIN mail \cup {Len(mail) + 1} /\ mail'[Len(mail) + 1] = m
        /\ \A i \in DOMAIN mail : mail'[i] = mail[i]
    BY <1>1
  <1> QED BY <1>1, <1>2 DEF Posted

LEMMA PostTwoStep ==
    ASSUME PagesTyped, NEW x \in Letters, NEW m \in Letters, mail' = Append(Append(mail, x), m)
    PROVE  /\ mail' \in Seq(Letters) /\ Posted' = Posted \cup {x, m}
           /\ mail \in Seq(Letters) /\ DOMAIN mail' = 1..(Len(mail) + 2) /\ \A i \in DOMAIN mail : mail'[i] = mail[i]
           /\ mail'[Len(mail) + 1] = x /\ mail'[Len(mail) + 2] = m
  <1>1. mail \in Seq(Letters) /\ mail' \in Seq(Letters) /\ DOMAIN mail = 1..Len(mail) /\ Len(mail) \in Nat
    BY DEF PagesTyped
  <1>2. /\ DOMAIN mail' = 1..(Len(mail) + 2) /\ mail'[Len(mail) + 1] = x /\ mail'[Len(mail) + 2] = m
        /\ \A i \in DOMAIN mail : mail'[i] = mail[i]
    BY <1>1
  <1>3. Posted' = Posted \cup {x, m}
    BY <1>1, <1>2 DEF Posted
  <1> QED BY <1>1, <1>2, <1>3

LEMMA TakeStep ==
    ASSUME PagesTyped, mail # <<>>, mail' = Tail(mail)
    PROVE  mail' \in Seq(Letters) /\ Posted' \subseteq Posted /\ Head(mail) \in Posted \cap Letters
  <1>1. mail \in Seq(Letters) /\ mail' \in Seq(Letters)
    BY DEF PagesTyped
  <1>2. \A i \in DOMAIN mail' : i + 1 \in DOMAIN mail /\ mail'[i] = mail[i + 1]
    BY <1>1
  <1>3. 1 \in DOMAIN mail /\ Head(mail) = mail[1] /\ Head(mail) \in Letters
    BY <1>1
  <1> QED BY <1>1, <1>2, <1>3 DEF Posted

LEMMA BeginShape ==
    ASSUME TypeInv, CallInv, NEW w \in Workers, Begin(w)
    PROVE  /\ \E j \in Tasks : /\ job' = [job EXCEPT ![w] = j]
                               /\ j.step = "call" /\ j.ticket = Context /\ j.since = ask.rev /\ j.data = NoData
           /\ call'[w].stage \in {"websocket", "http"} /\ call'[w].kind \in Asked
           /\ queue' \in Seq(Kinds)
  <1> DEFINE head == Head(queue)
             j == [NoJob EXCEPT !.step = "call", !.kind = head, !.left = Tail(Requests(head)),
                                !.ticket = Context, !.since = ask.rev]
  <1>1. /\ job' = [job EXCEPT ![w] = j] /\ queue' = Tail(queue) /\ queue # <<>>
        /\ Open(w, Head(Requests(head)))
    BY DEF Begin
  <1>2. queue \in Seq(Kinds)
    BY DEF TypeInv, PagesTyped
  <1>3. head \in Kinds /\ queue' \in Seq(Kinds)
    BY <1>1, <1>2
  <1>4. Tail(Requests(head)) \in Seq({"feed", "queue"}) /\ Head(Requests(head)) \in Asked
    BY <1>3, RequestsAsked
  <1>5. Context \in Tickets /\ ask.rev \in Nat
    BY ContextTicket DEF TypeInv, PagesTyped, Views
  <1>6. /\ j.step = "call" /\ j.ticket = Context /\ j.since = ask.rev /\ j.data = NoData
        /\ j.kind = head /\ j.left = Tail(Requests(head))
    BY DEF NoJob
  <1>7. j \in Tasks
    BY <1>3, <1>4, <1>5, NothingYet DEF NoJob, Tasks, Steps
  <1>8. call'[w].stage \in {"websocket", "http"} /\ call'[w].kind \in Asked
    BY <1>1, <1>4, OpenShape
  <1> HIDE DEF j
  <1> QED BY <1>1, <1>3, <1>6, <1>7, <1>8

LEMMA SendShape ==
    ASSUME TypeInv, CallInv, NEW w \in Workers, Send(w)
    PROVE  /\ job[w].step = "call" /\ call[w].kind \in Asked
           /\ call'[w].kind = call[w].kind /\ call'[w].stage # "none"
           /\ \E j \in Tasks :
                /\ job' = [job EXCEPT ![w] = j] /\ j.step = "call"
                /\ j.ticket = job[w].ticket /\ j.since = job[w].since
                /\ core' \in {core, Wiped}
                /\ \/ call'[w].stage # "answered" /\ j.data = job[w].data
                   \/ /\ \E full \in BOOLEAN : j.data = Served(core', call[w].kind, job[w].since, full)
                      /\ j.data.kind = call[w].kind
                      /\ call[w].kind = "clear" => core' = Wiped
  <1> DEFINE c == job[w]
  <1>1. c \in Tasks /\ call[w].kind \in Asked
    BY DEF TypeInv, PagesTyped, Calling
  <1>2. /\ call[w].stage \in {"websocket", "http"} /\ call'[w].kind = call[w].kind /\ call'[w].stage # "none"
        /\ call'[w].stage = "answered" /\ call[w].kind \in Writes => call'[w].ran > call[w].ran
    BY TravelShape DEF Send
  <1>3. c.step = "call"
    BY <1>2, NothingYet DEF TypeInv, Calling
  <1>5. CASE call'[w].stage = "answered"
    <2>0. PICK full \in BOOLEAN : job' = [job EXCEPT ![w].data = Served(core', call[w].kind, c.since, full)]
      BY <1>5 DEF Send
    <2> DEFINE d == Served(core', call[w].kind, c.since, full)
               j == [c EXCEPT !.data = d]
    <2>1. c.since \in Nat
      BY <1>1 DEF Tasks
    <2>4. core' = IF call[w].kind = "clear" THEN Wiped ELSE core
      BY <1>2, <1>5 DEF Send, Writes
    <2>a. core' \in Cores
      BY <2>4, WipedTyped DEF TypeInv, PagesTyped
    <2>2. d \in Answers /\ d.kind = call[w].kind
      BY <1>1, <2>1, <2>a, ServedShape
    <2>3. job' = [job EXCEPT ![w] = j]
      BY <2>0
    <2> HIDE DEF d
    <2>5. j \in Tasks /\ j.step = "call" /\ j.ticket = c.ticket /\ j.since = c.since /\ j.data = d
      BY <1>1, <1>3, <2>2 DEF Tasks
    <2> HIDE DEF j
    <2>6. \E x \in BOOLEAN : j.data = Served(core', call[w].kind, c.since, x)
      BY <2>5 DEF d
    <2> QED BY <1>1, <1>2, <1>3, <2>2, <2>3, <2>4, <2>5, <2>6
  <1>6. CASE call'[w].stage # "answered"
    <2>1. job' = [job EXCEPT ![w] = c] /\ core' \in {core, Wiped}
      BY <1>6 DEF Send, TypeInv, PagesTyped
    <2> QED BY <1>1, <1>2, <1>3, <1>6, <2>1
  <1> QED BY <1>5, <1>6

LEMMA LandShape ==
    ASSUME TypeInv, CallInv, NEW w \in Workers, Land(w)
    PROVE  /\ job[w].step = "call" /\ call[w].stage = "answered" /\ job[w].data.kind = call[w].kind
           /\ call'[w] = NoCall
           /\ \E j \in Tasks :
                /\ job' = [job EXCEPT ![w] = j] /\ j.step = IF Unasked(call[w].kind) THEN "post" ELSE "check"
                /\ j.ticket = job[w].ticket /\ j.since = job[w].since /\ j.data = job[w].data
  <1> DEFINE c == job[w]
             step == IF Unasked(call[w].kind) THEN "post" ELSE "check"
             j == [c EXCEPT !.step = step]
  <1>1. c \in Tasks
    BY DEF TypeInv, PagesTyped
  <1>2. c.step = "call" /\ call[w].stage = "answered" /\ c.data.kind = call[w].kind
    BY DEF Land, TypeInv, Calling
  <1>3. job' = [job EXCEPT ![w] = j]
    BY DEF Land
  <1>4. call'[w] = NoCall
    BY CloseShape DEF Land
  <1>5. j \in Tasks /\ j.step = step /\ j.ticket = c.ticket /\ j.since = c.since /\ j.data = c.data
    BY <1>1 DEF Tasks, Steps
  <1> HIDE DEF j
  <1> QED BY <1>2, <1>3, <1>4, <1>5

LEMMA CheckShape ==
    ASSUME TypeInv, NEW w \in Workers, Check(w), job[w].ticket = Context
    PROVE  \E j \in Tasks :
             /\ job' = [job EXCEPT ![w] = j] /\ j.step = "post"
             /\ j.ticket = job[w].ticket /\ j.since = job[w].since /\ j.data = job[w].data
  <1> DEFINE c == job[w]
             j == [c EXCEPT !.step = "post"]
  <1>1. c \in Tasks
    BY DEF TypeInv, PagesTyped
  <1>2. job' = [job EXCEPT ![w] = j]
    BY DEF Check
  <1>3. j \in Tasks /\ j.step = "post" /\ j.ticket = c.ticket /\ j.since = c.since /\ j.data = c.data
    BY <1>1 DEF Tasks, Steps
  <1> HIDE DEF j
  <1> QED BY <1>2, <1>3

LEMMA ProceedShape ==
    ASSUME TypeInv, CallInv, NEW w \in Workers, Proceed(w)
    PROVE  /\ job[w].step = "post"
           /\ call'[w].stage \in {"websocket", "http"} /\ call'[w].kind \in {"feed", "queue"}
           /\ \E j \in Tasks :
                /\ job' = [job EXCEPT ![w] = j] /\ j.step = "call" /\ j.ticket = Ticket(w)
                /\ j.since = job[w].since /\ j.data = job[w].data
           /\ UNCHANGED mail \/ Post(job[w].data, Ticket(w))
  <1> DEFINE c == job[w]
             t == Ticket(w)
             j == [c EXCEPT !.step = "call", !.left = Tail(c.left), !.ticket = t]
  <1>1. c \in Tasks /\ t \in Tickets
    BY TicketTyped DEF TypeInv, PagesTyped
  <1>2. job' = [job EXCEPT ![w] = j] /\ c.left # <<>> /\ c.step = "post" /\ Open(w, Head(c.left))
        /\ (UNCHANGED mail \/ Post(c.data, t))
    BY DEF Proceed
  <1>3. c.left \in Seq({"feed", "queue"})
    BY <1>1 DEF Tasks
  <1>4. Tail(c.left) \in Seq({"feed", "queue"}) /\ Head(c.left) \in {"feed", "queue"}
    BY <1>2, <1>3
  <1>5. call'[w].stage \in {"websocket", "http"} /\ call'[w].kind \in {"feed", "queue"}
    BY <1>2, <1>4, OpenShape
  <1> HIDE DEF t
  <1>6. j \in Tasks /\ j.step = "call" /\ j.ticket = t /\ j.since = c.since /\ j.data = c.data
    BY <1>1, <1>4 DEF Tasks, Steps
  <1> HIDE DEF j
  <1> QED BY <1>2, <1>5, <1>6 DEF t

\* A job that ends, and what it posts.
LEMMA EndShape ==
    ASSUME TypeInv, NEW w \in Workers, job' = [job EXCEPT ![w] = NoJob]
    PROVE  /\ NoJob \in Tasks /\ NoJob.step = "idle" /\ NoJob.ticket = <<>> /\ NoJob.data = NoData
           /\ job'[w] = NoJob /\ Jobs' = {NoJob}
  BY NothingYet, JobsStep DEF TypeInv

LEMMA LetterTyped ==
    ASSUME NEW t \in Tickets, NEW d \in Answers
    PROVE  /\ [ticket |-> t, data |-> d] \in Letters
           /\ [ticket |-> t, data |-> d].ticket = t /\ [ticket |-> t, data |-> d].data = d
  BY DEF Letters

LEMMA PlayingShape ==
    /\ Playing \in Letters /\ Playing.ticket = <<>> /\ Playing.data \in Answers /\ Playing.data.profile = NoProfile
    /\ Playing.data.new = {} /\ Playing.data.rev = 0 /\ Playing.data.floor = 0 /\ Playing.data.clear = 0
    /\ ~Playing.data.cleared
  <1> DEFINE d == [NoData EXCEPT !.kind = "command"]
  <1>1. d \in Answers
    BY NothingYet DEF Answers, Asked, Writes
  <1>2. d.profile = NoProfile /\ d.new = {} /\ d.rev = 0 /\ d.floor = 0 /\ d.clear = 0 /\ ~d.cleared
    BY DEF NoData
  <1> HIDE DEF d
  <1>3. Playing = [ticket |-> <<>>, data |-> d] /\ <<>> \in Tickets
    BY DEF Playing, d, Tickets
  <1> QED BY <1>1, <1>2, <1>3, LetterTyped

\* What the last step of a job posts.
Posts(d, t) == Post(d, t) \/ PostPlayed(d, t)

LEMMA PostsStep ==
    ASSUME PagesTyped, NEW t \in Tickets, NEW d \in Answers, Posts(d, t)
    PROVE  mail' \in Seq(Letters) /\ Posted' \subseteq Posted \cup {[ticket |-> t, data |-> d], Playing}
  <1> DEFINE m == [ticket |-> t, data |-> d]
  <1>1. m \in Letters /\ Playing \in Letters
    BY LetterTyped, PlayingShape
  <1>2. mail' = Append(mail, m) \/ mail' = Append(Append(mail, Playing), m)
    BY DEF Posts, Post, PostPlayed
  <1> HIDE DEF m
  <1>3. mail' \in Seq(Letters) /\ Posted' \subseteq Posted \cup {m, Playing}
    BY <1>1, <1>2, PostStep, PostTwoStep
  <1> QED BY <1>3 DEF m

\* A page's excuse when its job failed.
Excuse(kind) == [NoData EXCEPT !.kind = kind]
LEMMA ExcuseShape ==
    ASSUME NEW kind \in {"dna", "settings", "insight"}
    PROVE  /\ Excuse(kind) \in Answers /\ Excuse(kind).profile = NoProfile /\ Excuse(kind).new = {}
           /\ Excuse(kind).rev = 0 /\ Excuse(kind).floor = 0 /\ Excuse(kind).clear = 0 /\ ~Excuse(kind).cleared
           /\ Excuse(kind).kind = kind
  BY DEF Excuse, NoData, Answers, Asked, Writes, Owners

-----------------------------------------------------------------------------
(* Types *)

\* The mail's tickets, and those of the jobs, are still from now or before.
LEMMA DatedStays ==
    ASSUME TypeInv, epoch' \in Nat, epoch' >= epoch, NEW t \in Tickets, Dated(t, epoch)
    PROVE  Dated(t, epoch')
  BY DEF TypeInv, PagesTyped, Dated, Tickets

LEMMA QuietType ==
    ASSUME TypeInv, PagesTyped', UNCHANGED <<call, job>>, epoch' >= epoch, Posted' \subseteq Posted
    PROVE  TypeInv'
  <1>1. Calling' /\ Jobs' = Jobs
    BY DEF TypeInv, Calling, Jobs
  <1>2. \A m \in Posted : m.ticket \in Tickets
    BY PostedTyped DEF TypeInv
  <1>3. \A j \in Jobs : j.ticket \in Tickets
    BY DEF TypeInv, PagesTyped, Jobs, Tasks
  <1>4. (\A m \in Posted : Dated(m.ticket, epoch))'
    BY <1>2, DatedStays DEF TypeInv, PagesTyped
  <1>5. (\A j \in Jobs : Dated(j.ticket, epoch))'
    BY <1>1, <1>3, DatedStays DEF TypeInv, PagesTyped
  <1> QED BY <1>1, <1>4, <1>5 DEF TypeInv

\* A worker's job becomes j, its request and its letters fit.
Turn(w, j) ==
    /\ job' = [job EXCEPT ![w] = j]
    /\ Dated(j.ticket, epoch') /\ epoch' >= epoch
    /\ \A m \in Posted' : m \in Posted \/ Dated(m.ticket, epoch')
    /\ j.step = "idle" => j = NoJob
    /\ j.step # "call" => call'[w] = NoCall
    /\ call'[w].kind \in Asked
    /\ call'[w].stage = "answered" => j.data.kind = call'[w].kind

LEMMA WorkType ==
    ASSUME TypeInv, PagesTyped', NEW w \in Workers, NEW j \in Tasks, Turn(w, j)
    PROVE  TypeInv'
  <1>1. job'[w] = j /\ Jobs' = {j}
    BY JobsStep DEF TypeInv, Turn
  <1>2. \A x \in Workers : x = w
    BY OneWorker
  <1>3. Calling'
    BY <1>1, <1>2 DEF Calling, Turn
  <1>4. \A m \in Posted : m.ticket \in Tickets
    BY PostedTyped DEF TypeInv
  <1>5. (\A m \in Posted : Dated(m.ticket, epoch))'
    BY <1>4, DatedStays DEF TypeInv, PagesTyped, Turn
  <1> QED BY <1>1, <1>3, <1>5 DEF TypeInv, Turn

LEMMA ClearedPagesTyped ==
    ASSUME PagesTyped, ClearPages
    PROVE  ask' \in Views /\ epoch' \in Nat /\ epoch' >= epoch
           /\ ask'.shown = {} /\ ask'.rev = 0 /\ ask'.clear = 0 /\ epoch' = epoch + 1
  BY DEF PagesTyped, ClearPages, AskCleared, NoAsk, Views

LEMMA CountUp ==
    ASSUME NEW c \in Counts
    PROVE  /\ [c EXCEPT !.jobs = @ + 1] \in Counts /\ [c EXCEPT !.jobs = @ + 1].moved = c.moved
           /\ [c EXCEPT !.tokens = @ + 1] \in Counts /\ [c EXCEPT !.tokens = @ + 1].moved = c.moved
           /\ [c EXCEPT !.moves = @ + 1] \in Counts /\ [c EXCEPT !.moves = @ + 1].moved = c.moved
           /\ [c EXCEPT !.moves = @ + 1, !.moved = TRUE] \in Counts /\ [c EXCEPT !.moves = @ + 1, !.moved = TRUE].moved
  <1>1. c.jobs + 1 \in Nat /\ c.moves + 1 \in Nat /\ c.tokens + 1 \in Nat
    BY DEF Counts
  <1> QED BY <1>1 DEF Counts

LEMMA StartTyped == ASSUME PagesTyped, NEW kind \in Kinds, Start(kind) PROVE PagesTyped'
  <1>1. queue' \in Seq(Kinds)
    BY DEF PagesTyped, Start
  <1>2. cfg' \in [token : Nat, profile : Owners]
    BY DEF PagesTyped, Start, Wants, Synced
  <1>3. count' \in Counts
    BY CountUp DEF PagesTyped, Start
  <1> QED BY <1>1, <1>2, <1>3 DEF PagesTyped, Start

LEMMA RetryTyped == ASSUME PagesTyped, Retry PROVE PagesTyped'
  BY DEF PagesTyped, Retry, Views

LEMMA OwnerChangedTyped == ASSUME PagesTyped, OwnerChanged PROVE PagesTyped'
  <1>1. count' \in Counts
    BY CountUp DEF PagesTyped, OwnerChanged
  <1> QED BY <1>1, ClearedPagesTyped DEF PagesTyped, OwnerChanged

LEMMA CoreTyped == ASSUME PagesTyped, Say \/ Elsewhere PROVE PagesTyped'
  <1>1. CASE Say
    BY <1>1, SaidTyped DEF Say, PagesTyped
  <1>2. CASE Elsewhere
    <2>1. core' \in Cores
      BY <1>2, WipedTyped DEF Elsewhere, PagesTyped, Cores
    <2>2. count' \in Counts
      BY <1>2, CountUp DEF Elsewhere, PagesTyped
    <2> QED BY <1>2, <2>1, <2>2 DEF Elsewhere, PagesTyped
  <1> QED BY <1>1, <1>2

LEMMA PairTyped == ASSUME PagesTyped, Pair PROVE PagesTyped'
  <1>1. count' \in Counts
    BY CountUp DEF PagesTyped, Pair
  <1>2. disk' \in [token : Nat, profile : Owners]
    <2>1. count.tokens + 1 \in Nat
      BY DEF PagesTyped, Counts
    <2> QED BY <2>1 DEF PagesTyped, Pair
  <1> QED BY <1>1, <1>2 DEF PagesTyped, Pair

\* A result merged into what is on screen.
LEMMA MergedShape ==
    ASSUME NEW a \in Views, NEW d \in Answers
    PROVE  LET b == Merged(a, d) IN
           /\ b \in Views
           /\ \A m \in b.shown : m \in d.new \/ (~Wipes(a, d) /\ m \in a.shown)
           /\ ClearAck(d) => b.shown = {}
           /\ b.clear = IF d.clear > a.clear THEN d.clear ELSE a.clear
           /\ b.rev = IF d.rev > a.rev THEN d.rev ELSE a.rev
           /\ a.met \subseteq b.met /\ (~ClearAck(d) => d.new \subseteq b.met)
           /\ d.kind = "action" => {d.profile} \X (1..d.rev) \subseteq b.met
  <1> DEFINE kept == IF Wipes(a, d) THEN {} ELSE {m \in a.shown : m[2] > d.floor}
             s == IF ClearAck(d) THEN {} ELSE kept \cup d.new
             c == IF d.clear > a.clear THEN d.clear ELSE a.clear
             r == IF d.rev > a.rev THEN d.rev ELSE a.rev
             f == IF Wipes(a, d) THEN FALSE ELSE a.backoff
             t == Met(a, s, d)
             b == [a EXCEPT !.shown = s, !.clear = c, !.rev = r, !.backoff = f, !.met = t]
  <1>1. Merged(a, d) = b
    BY DEF Merged
  <1>2. s \in SUBSET Messages /\ c \in Nat /\ r \in Nat /\ f \in BOOLEAN
    BY DEF Answers, Views
  <1>3. /\ \A m \in s : m \in d.new \/ (~Wipes(a, d) /\ m \in a.shown)
        /\ ClearAck(d) => s = {}
        /\ ~ClearAck(d) => d.new \subseteq s
    OBVIOUS
  <1> HIDE DEF s
  <1>4. /\ t \in SUBSET (Owners \X Nat) /\ a.met \subseteq t /\ s \subseteq t
        /\ d.kind = "action" => {d.profile} \X (1..d.rev) \subseteq t
    <2>1. d.profile \in Owners /\ d.rev \in Nat /\ MaxRev \in Nat /\ a.met \subseteq Owners \X Nat
      BY PageBounds DEF Answers, Views
    <2>2. s \subseteq Owners \X Nat
      BY <1>2, <2>1 DEF Messages, Owners
    <2>3. {d.profile} \X (1..d.rev) \subseteq Owners \X Nat
      BY <2>1
    <2> QED BY <2>1, <2>2, <2>3 DEF Met
  <1> HIDE DEF c, r, f, t
  <1>5. b \in Views /\ b.shown = s /\ b.clear = c /\ b.rev = r /\ b.met = t
    BY <1>2, <1>4 DEF Views
  <1> HIDE DEF b
  <1>6. c = (IF d.clear > a.clear THEN d.clear ELSE a.clear) /\ r = (IF d.rev > a.rev THEN d.rev ELSE a.rev)
    BY DEF c, r
  <1> QED BY <1>1, <1>3, <1>4, <1>5, <1>6

\* What a delivery does to the screen, the configuration and the histories.
Applied(m)   == ~Ticketless(m.data.kind) /\ ResultCurrent(m)
Renames(m)   == Applied(m) /\ Adopted(m.data.profile) # cfg
Fills(m)     == Applied(m) /\ ~HasPage(m.data.kind)
Empties(m)   == Fills(m) /\ (m.data.cleared \/ m.data.clear > ask.clear)
Before(m)    == IF Renames(m) THEN NoAsk ELSE ask

LEMMA DeliverShape ==
    ASSUME PagesTyped, Deliver
    PROVE  LET m == Head(mail) IN
           /\ mail # <<>> /\ mail' = Tail(mail) /\ m \in Posted \cap Letters
           /\ cfg' = (IF Applied(m) THEN Adopted(m.data.profile) ELSE cfg)
           /\ disk' = (IF Renames(m) THEN cfg' ELSE disk)
           /\ epoch' = (IF Renames(m) THEN epoch + 1 ELSE epoch)
           /\ ask' = (IF Fills(m) THEN Merged(Before(m), m.data) ELSE Before(m))
           /\ cleared' = cleared \cup (IF Empties(m) THEN {m.data.profile} \X (1..m.data.floor) ELSE {})
           /\ UNCHANGED <<transport, core, queue, job, count>>
  BY TakeStep DEF Deliver, Applied, Renames, Fills, Empties, Before, AskCleared

LEMMA DeliverTyped == ASSUME PagesTyped, Deliver PROVE PagesTyped' /\ epoch' >= epoch
  <1> DEFINE m == Head(mail)
  <1> HIDE DEF m
  <1>1. /\ mail' = Tail(mail) /\ mail # <<>> /\ m \in Posted \cap Letters
        /\ cfg' = (IF Applied(m) THEN Adopted(m.data.profile) ELSE cfg)
        /\ disk' = (IF Renames(m) THEN cfg' ELSE disk)
        /\ epoch' = (IF Renames(m) THEN epoch + 1 ELSE epoch)
        /\ ask' = (IF Fills(m) THEN Merged(Before(m), m.data) ELSE Before(m))
        /\ cleared' = cleared \cup (IF Empties(m) THEN {m.data.profile} \X (1..m.data.floor) ELSE {})
        /\ UNCHANGED <<transport, core, queue, job, count>>
    BY DeliverShape DEF m
  <1>2. m.data \in Answers /\ m.data.profile \in Owners /\ mail' \in Seq(Letters)
    BY <1>1, PostedTyped, TakeStep DEF Answers
  <1>3. cfg' \in [token : Nat, profile : Owners] /\ disk' \in [token : Nat, profile : Owners]
    BY <1>1, <1>2, AdoptedTyped DEF PagesTyped
  <1>4. Before(m) \in Views
    BY DEF Before, NoAsk, Views, PagesTyped
  <1>5. ask' \in Views
    BY <1>1, <1>2, <1>4, MergedShape
  <1>6. cleared' \in SUBSET (Owners \X Nat)
    <2>1. CASE Empties(m)
      <3>1. {m.data.profile} \X (1..m.data.floor) \subseteq Owners \X Nat
        BY <1>2 DEF Answers
      <3> QED BY <1>1, <2>1, <3>1 DEF PagesTyped
    <2>2. CASE ~Empties(m)
      BY <1>1, <2>2 DEF PagesTyped
    <2> QED BY <2>1, <2>2
  <1>7. epoch' \in Nat /\ epoch' >= epoch
    BY <1>1 DEF PagesTyped
  <1> QED BY <1>1, <1>2, <1>3, <1>5, <1>6, <1>7 DEF PagesTyped

LEMMA InitType == Init => TypeInv
  <1> SUFFICES ASSUME Init PROVE TypeInv
    OBVIOUS
  <1> DEFINE p == CHOOSE p \in Profiles : TRUE
  <1>0. p \in Profiles
    BY PageProfiles
  <1> HIDE DEF p
  <1>1. /\ core = [profile |-> p, rev |-> [q \in Profiles |-> 0], floor |-> [q \in Profiles |-> 0], clear |-> [q \in Profiles |-> 0]]
        /\ cfg = [token |-> 1, profile |-> p] /\ disk = cfg /\ epoch = 0 /\ queue = <<>> /\ mail = <<>>
        /\ job = [w \in Workers |-> NoJob] /\ ask = NoAsk /\ call = [w \in Workers |-> NoCall]
        /\ count = [jobs |-> 0, moves |-> 0, tokens |-> 1, moved |-> FALSE] /\ cleared = {}
    BY DEF Init, TransportInit, p
  <1>2. core \in Cores
    BY <1>0, <1>1, PageBounds DEF Cores
  <1>3. cfg \in [token : Nat, profile : Owners] /\ disk \in [token : Nat, profile : Owners]
    BY <1>0, <1>1 DEF Owners
  <1>4. epoch \in Nat /\ queue \in Seq(Kinds) /\ mail \in Seq(Letters) /\ cleared \in SUBSET (Owners \X Nat)
    BY <1>1
  <1>5. job \in [Workers -> Tasks]
    BY <1>1, NothingYet
  <1>6. ask \in Views /\ count \in Counts
    BY <1>1 DEF NoAsk, Counts, Views
  <1>7. PagesTyped
    BY <1>2, <1>3, <1>4, <1>5, <1>6 DEF PagesTyped
  <1>8. Calling
    BY <1>1, NothingYet DEF Calling
  <1>9. Posted = {} /\ \A j \in Jobs : j = NoJob
    BY <1>1 DEF Posted, Jobs
  <1> QED BY <1>7, <1>8, <1>9, NothingYet DEF TypeInv, Dated

LEMMA NextType == TypeInv /\ CallInv /\ [Next]_vars => TypeInv'
  <1> SUFFICES ASSUME TypeInv, CallInv, [Next]_vars PROVE TypeInv'
    OBVIOUS
  <1>0. PagesTyped
    BY DEF TypeInv
  <1>1. ASSUME NEW kind \in Kinds, Start(kind) PROVE TypeInv'
    <2>1. PagesTyped' /\ UNCHANGED <<call, job, epoch, mail>>
      BY <1>0, <1>1, StartTyped DEF Start, transport
    <2>2. epoch' >= epoch /\ Posted' \subseteq Posted
      BY <1>0, <2>1 DEF Posted, PagesTyped
    <2> QED BY <2>1, <2>2, QuietType
  <1>2. CASE Retry
    <2>1. PagesTyped' /\ UNCHANGED <<call, job, epoch, mail>>
      BY <1>0, <1>2, RetryTyped DEF Retry, transport
    <2>2. epoch' >= epoch /\ Posted' \subseteq Posted
      BY <1>0, <2>1 DEF Posted, PagesTyped
    <2> QED BY <2>1, <2>2, QuietType
  <1>3. CASE OwnerChanged
    <2>1. PagesTyped' /\ UNCHANGED <<call, job, mail>> /\ epoch' >= epoch
      BY <1>0, <1>3, OwnerChangedTyped, ClearedPagesTyped DEF OwnerChanged, transport
    <2> QED BY <1>0, <2>1, QuietType DEF Posted
  <1>4. CASE Deliver
    <2>1. PagesTyped' /\ epoch' >= epoch
      BY <1>0, <1>4, DeliverTyped
    <2>2. UNCHANGED <<call, job>> /\ Posted' \subseteq Posted
      BY <1>0, <1>4, TakeStep DEF Deliver, transport
    <2> QED BY <2>1, <2>2, QuietType
  <1>5. CASE Link
    <2>1. /\ UNCHANGED <<core, cfg, disk, epoch, queue, job, mail, ask, count, cleared, call>>
      BY <1>5 DEF Link, Heal, Rollback
    <2>2. PagesTyped'
      BY <1>0, <2>1 DEF PagesTyped
    <2>3. epoch' >= epoch /\ Posted' \subseteq Posted
      BY <1>0, <2>1 DEF Posted, PagesTyped
    <2> QED BY <2>1, <2>2, <2>3, QuietType
  <1>6. CASE Say \/ Elsewhere
    <2>1. PagesTyped' /\ UNCHANGED <<call, job, epoch, mail>>
      BY <1>0, <1>6, CoreTyped DEF Say, Elsewhere, transport
    <2>2. epoch' >= epoch /\ Posted' \subseteq Posted
      BY <1>0, <2>1 DEF Posted, PagesTyped
    <2> QED BY <2>1, <2>2, QuietType
  <1>7. CASE Pair
    <2>1. PagesTyped' /\ UNCHANGED <<call, job, epoch, mail>>
      BY <1>0, <1>7, PairTyped DEF Pair, transport
    <2>2. epoch' >= epoch /\ Posted' \subseteq Posted
      BY <1>0, <2>1 DEF Posted, PagesTyped
    <2> QED BY <2>1, <2>2, QuietType
  <1>8. CASE UNCHANGED vars
    <2>1. /\ UNCHANGED <<core, cfg, disk, epoch, queue, job, mail, ask, count, cleared, call>>
      BY <1>8 DEF vars, transport
    <2>2. PagesTyped'
      BY <1>0, <2>1 DEF PagesTyped
    <2>3. epoch' >= epoch /\ Posted' \subseteq Posted
      BY <1>0, <2>1 DEF Posted, PagesTyped
    <2> QED BY <2>1, <2>2, <2>3, QuietType
  <1>9. ASSUME NEW w \in Workers, Work(w) PROVE TypeInv'
    <2>0. job[w] \in Tasks /\ job[w].ticket \in Tickets /\ job[w].data \in Answers /\ Dated(job[w].ticket, epoch) /\ epoch \in Nat
      BY DEF TypeInv, PagesTyped, Tasks, Jobs
    <2>a. \A kind \in {"websocket", "http"} : kind # "answered"
      OBVIOUS
    <2>1. CASE Begin(w)
      <3>1. PICK j \in Tasks : job' = [job EXCEPT ![w] = j] /\ j.step = "call" /\ j.ticket = Context
        BY <2>1, BeginShape
      <3>2. call'[w].stage \in {"websocket", "http"} /\ call'[w].kind \in Asked /\ queue' \in Seq(Kinds)
        BY <2>1, BeginShape
      <3>3. UNCHANGED <<core, cfg, disk, epoch, mail, ask, count, cleared>>
        BY <2>1 DEF Begin
      <3>4. PagesTyped'
        BY <1>0, <3>1, <3>2, <3>3, JobsStep DEF PagesTyped
      <3>5. Dated(j.ticket, epoch') /\ Posted' = Posted
        BY <1>0, <3>1, <3>3, ContextTicket DEF Dated, Posted, PagesTyped
      <3>9. Turn(w, j)
        BY <2>0, <3>1, <3>2, <3>3, <3>4, <3>5 DEF Turn
      <3> QED BY <3>4, <3>9, NothingYet, WorkType
    <2>2. CASE Send(w)
      <3>1. PICK j \in Tasks : /\ job' = [job EXCEPT ![w] = j] /\ j.step = "call" /\ j.ticket = job[w].ticket
                               /\ call'[w].stage = "answered" => j.data.kind = call[w].kind
                               /\ core' \in {core, Wiped}
        BY <2>2, SendShape
      <3>2. call'[w].kind = call[w].kind /\ call[w].kind \in Asked
        BY <2>2, SendShape
      <3>3. UNCHANGED <<cfg, disk, epoch, queue, mail, ask, count, cleared>>
        BY <2>2 DEF Send
      <3>4. PagesTyped'
        BY <1>0, <3>1, <3>3, JobsStep, WipedTyped DEF PagesTyped
      <3>5. Dated(j.ticket, epoch') /\ Posted' = Posted
        BY <2>0, <3>1, <3>3 DEF Dated, Posted
      <3>9. Turn(w, j)
        BY <2>0, <3>1, <3>2, <3>3, <3>4, <3>5 DEF Turn
      <3> QED BY <3>4, <3>9, NothingYet, WorkType
    <2>3. CASE Land(w)
      <3>1. PICK j \in Tasks : /\ job' = [job EXCEPT ![w] = j] /\ j.step \in {"post", "check"} /\ j.ticket = job[w].ticket
        BY <2>3, LandShape
      <3>2. call'[w] = NoCall
        BY <2>3, LandShape
      <3>3. UNCHANGED <<core, disk, epoch, queue, mail, ask, count, cleared>>
        BY <2>3 DEF Land
      <3>4. cfg' \in [token : Nat, profile : Owners]
        BY <1>0, <2>0, <2>3, AdoptedTyped DEF Land, PagesTyped, Answers
      <3>5. PagesTyped'
        BY <1>0, <3>1, <3>3, <3>4, JobsStep DEF PagesTyped
      <3>6. Dated(j.ticket, epoch') /\ Posted' = Posted
        BY <2>0, <3>1, <3>3 DEF Dated, Posted
      <3>9. Turn(w, j)
        BY <2>0, <3>1, <3>2, <3>3, <3>5, <3>6, NothingYet DEF Turn
      <3> QED BY <3>5, <3>9, NothingYet, WorkType
    <2>4. CASE Check(w)
      <3>0. call[w] = NoCall /\ UNCHANGED call
        BY <2>4 DEF Check, TypeInv, Calling, transport
      <3>1. CASE job[w].ticket = Context
        <4>1. PICK j \in Tasks : /\ job' = [job EXCEPT ![w] = j] /\ j.step = "post" /\ j.ticket = job[w].ticket
          BY <2>4, <3>1, CheckShape
        <4>2. cfg' = Adopted(job[w].data.profile) /\ disk' \in {disk, cfg'} /\ (ClearPages \/ UNCHANGED <<epoch, ask>>)
              /\ UNCHANGED <<core, queue, mail, count, cleared>>
          BY <2>4, <3>1 DEF Check
        <4>3. cfg' \in [token : Nat, profile : Owners]
          BY <1>0, <2>0, <4>2, AdoptedTyped DEF Answers
        <4>4. /\ ask' \in Views
              /\ epoch' \in Nat /\ epoch' >= epoch
          BY <1>0, <4>2, ClearedPagesTyped DEF PagesTyped
        <4>5. PagesTyped'
          BY <1>0, <4>1, <4>2, <4>3, <4>4, JobsStep DEF PagesTyped
        <4>6. Dated(j.ticket, epoch') /\ Posted' = Posted
          BY <2>0, <4>1, <4>2, <4>4, DatedStays DEF Posted
        <4>9. Turn(w, j)
          BY <2>0, <3>0, <4>1, <4>4, <4>5, <4>6, NothingYet DEF Turn
        <4> QED BY <4>5, <4>9, NothingYet, WorkType
      <3>2. CASE job[w].ticket # Context
        <4>1. job' = [job EXCEPT ![w] = NoJob] /\ UNCHANGED <<core, cfg, disk, epoch, queue, mail, ask, count, cleared>>
          BY <2>4, <3>2 DEF Check, End
        <4>2. PagesTyped'
          BY <1>0, <4>1, EndShape, NothingYet, JobsStep DEF PagesTyped
        <4>9. Turn(w, NoJob)
          BY <2>0, <3>0, <4>1, <4>2, NothingYet DEF Dated, Posted, Turn
        <4> QED BY <4>2, <4>9, NothingYet, WorkType
      <3> QED BY <3>1, <3>2
    <2>5. CASE Proceed(w)
      <3>1. PICK j \in Tasks : job' = [job EXCEPT ![w] = j] /\ j.step = "call" /\ j.ticket = Ticket(w)
        BY <2>5, ProceedShape
      <3>2. call'[w].stage \in {"websocket", "http"} /\ call'[w].kind \in {"feed", "queue"}
        BY <2>5, ProceedShape
      <3>3. disk' = cfg /\ UNCHANGED <<core, cfg, epoch, queue, ask, count, cleared>>
        BY <2>5 DEF Proceed
      <3>4. Ticket(w) \in Tickets /\ Dated(Ticket(w), epoch)
        BY <1>0, TicketTyped, TicketDated
      <3>5. mail' \in Seq(Letters) /\ (\A m \in Posted' : m \in Posted \/ Dated(m.ticket, epoch'))
        <4>1. CASE UNCHANGED mail
          BY <1>0, <4>1 DEF Posted, PagesTyped
        <4>2. CASE Post(job[w].data, Ticket(w))
          <5> DEFINE m == [ticket |-> Ticket(w), data |-> job[w].data]
          <5>1. m \in Letters /\ m.ticket = Ticket(w) /\ mail' = Append(mail, m)
            BY <2>0, <3>4, <4>2, LetterTyped DEF Post
          <5> HIDE DEF m
          <5>2. mail' \in Seq(Letters) /\ Posted' = Posted \cup {m}
            BY <1>0, <5>1, PostStep
          <5>3. Dated(m.ticket, epoch')
            BY <2>0, <3>3, <3>4, <5>1, DatedStays
          <5> QED BY <5>2, <5>3
        <4> QED BY <2>5, <4>1, <4>2, ProceedShape
      <3>6. PagesTyped'
        BY <1>0, <3>1, <3>3, <3>5, JobsStep DEF PagesTyped
      <3>7. Dated(j.ticket, epoch')
        BY <2>0, <3>1, <3>3, <3>4, DatedStays
      <3>8. call'[w].kind \in Asked /\ call'[w].stage # "answered"
        BY <3>2 DEF Asked
      <3>9. Turn(w, j)
        BY <2>0, <3>1, <3>3, <3>5, <3>6, <3>7, <3>8 DEF Turn
      <3> QED BY <3>6, <3>9, NothingYet, WorkType
    <2>6. CASE Finish(w)
      <3>0. call[w] = NoCall /\ UNCHANGED call
        BY <2>6 DEF Finish, TypeInv, Calling, transport
      <3>1. /\ job' = [job EXCEPT ![w] = NoJob] /\ disk' = cfg /\ UNCHANGED <<core, cfg, epoch, queue, count, cleared>>
            /\ Posts(job[w].data, Ticket(w)) /\ ask' \in {ask, [ask EXCEPT !.backoff = FALSE]}
        BY <2>6 DEF Finish, End, Posts
      <3> DEFINE m == [ticket |-> Ticket(w), data |-> job[w].data]
      <3>2. m \in Letters /\ m.ticket = Ticket(w) /\ Ticket(w) \in Tickets /\ Dated(Ticket(w), epoch)
        BY <1>0, <2>0, LetterTyped, TicketTyped, TicketDated
      <3> HIDE DEF m
      <3>3. mail' \in Seq(Letters) /\ Posted' \subseteq Posted \cup {m, Playing}
        BY <1>0, <2>0, <3>1, <3>2, PostsStep DEF m
      <3>4. Dated(m.ticket, epoch') /\ Dated(Playing.ticket, epoch')
        BY <2>0, <3>1, <3>2, DatedStays, PlayingShape DEF Dated
      <3>5. PagesTyped'
        <4>1. ask' \in Views
          BY <1>0, <3>1 DEF PagesTyped, Views
        <4>2. job' \in [Workers -> Tasks]
          BY <1>0, <3>1, EndShape, NothingYet, JobsStep
        <4> QED BY <1>0, <3>1, <3>3, <4>1, <4>2 DEF PagesTyped
      <3>9. Turn(w, NoJob)
        BY <2>0, <3>0, <3>1, <3>3, <3>4, <3>5, NothingYet DEF Dated, Turn
      <3> QED BY <3>5, <3>9, NothingYet, WorkType
    <2>7. CASE Forget(w)
      <3>1. /\ job' = [job EXCEPT ![w] = NoJob] /\ cfg' = [token |-> 0, profile |-> NoProfile] /\ disk' = cfg'
            /\ ask' = NoAsk /\ epoch' = epoch + 1 /\ UNCHANGED <<core, queue, mail, count, cleared>>
        BY <2>7 DEF Forget, AskCleared
      <3>2. call'[w] = NoCall
        BY <2>7, CloseShape DEF Forget
      <3>3. cfg' \in [token : Nat, profile : Owners]
        BY <3>1 DEF Owners
      <3>4. ask' \in Views
        BY <3>1 DEF NoAsk, Views
      <3>5. PagesTyped'
        BY SMTT(20), <1>0, <3>1, <3>3, <3>4, EndShape, NothingYet, JobsStep DEF PagesTyped
      <3>9. Turn(w, NoJob)
        BY <2>0, <3>1, <3>2, <3>5, NothingYet DEF Dated, Posted, Turn
      <3> QED BY <3>5, <3>9, NothingYet, WorkType
    <2>8. CASE Fail(w)
      <3>1. /\ job' = [job EXCEPT ![w] = NoJob] /\ ask' \in {ask, [ask EXCEPT !.backoff = TRUE]}
            /\ UNCHANGED <<core, cfg, disk, epoch, queue, count, cleared>>
            /\ \/ UNCHANGED mail
               \/ /\ job[w].kind \in {"dna", "settings", "insight"}
                  /\ mail' = Append(mail, [ticket |-> job[w].ticket, data |-> Excuse(job[w].kind)])
        BY <2>8 DEF Fail, End, Post, Excuse
      <3>2. call'[w] = NoCall
        BY <2>8, CloseShape DEF Fail
      <3>3. mail' \in Seq(Letters) /\ (\A m \in Posted' : m \in Posted \/ Dated(m.ticket, epoch'))
        <4>1. CASE UNCHANGED mail
          BY <1>0, <4>1 DEF Posted, PagesTyped
        <4>2. CASE ~UNCHANGED mail
          <5> DEFINE m == [ticket |-> job[w].ticket, data |-> Excuse(job[w].kind)]
          <5>1. m \in Letters /\ m.ticket = job[w].ticket /\ mail' = Append(mail, m)
            BY <2>0, <3>1, <4>2, LetterTyped, ExcuseShape
          <5> HIDE DEF m
          <5>2. mail' \in Seq(Letters) /\ Posted' = Posted \cup {m}
            BY <1>0, <5>1, PostStep
          <5>3. Dated(m.ticket, epoch')
            BY <2>0, <3>1, <5>1, DatedStays
          <5> QED BY <5>2, <5>3
        <4> QED BY <4>1, <4>2
      <3>4. PagesTyped'
        <4>1. ask' \in Views
          BY <1>0, <3>1 DEF PagesTyped, Views
        <4>2. job' \in [Workers -> Tasks]
          BY <1>0, <3>1, EndShape, NothingYet, JobsStep
        <4> QED BY <1>0, <3>1, <3>3, <4>1, <4>2 DEF PagesTyped
      <3>9. Turn(w, NoJob)
        BY <2>0, <3>1, <3>2, <3>3, <3>4, NothingYet DEF Dated, Turn
      <3> QED BY <3>4, <3>9, NothingYet, WorkType
    <2> QED BY <1>9, <2>1, <2>2, <2>3, <2>4, <2>5, <2>6, <2>7, <2>8 DEF Work
  <1> QED BY <1>1, <1>2, <1>3, <1>4, <1>5, <1>6, <1>7, <1>8, <1>9 DEF Next, Gui

-----------------------------------------------------------------------------
(* A cleared message does not return *)

\* What an answer says was true of Core at some earlier moment.
Sound(k, d) ==
    /\ d.profile = NoProfile => d.rev = 0 /\ d.clear = 0 /\ ~d.cleared
    /\ d.profile # NoProfile => d.floor <= k.floor[d.profile] /\ d.rev <= k.rev[d.profile]
    /\ \A m \in d.new : m[1] = d.profile /\ m[2] > d.floor
    /\ d.kind \notin Tells => d.rev <= d.floor
    /\ d.cleared => d.new = {}

\* A later answer brings nothing that was gone when an earlier one was given.
After(d, e) == \A m \in e.new : m[1] = d.profile => m[2] > d.floor

OnTheWay == {m.data : m \in Posted} \cup {j.data : j \in Jobs}

ClearInv ==
    /\ \A p \in Profiles : core.floor[p] <= core.rev[p]
    /\ \A c \in cleared : c[1] \in Profiles /\ c[2] <= core.floor[c[1]]
    /\ \A d \in OnTheWay : Sound(core, d) /\ d.new \cap cleared = {}
    /\ \A i, j \in DOMAIN mail : i < j => After(mail[i].data, mail[j].data)
    /\ \A m \in Posted, j \in Jobs : After(m.data, j.data)
    /\ ClearedStaysCleared

-----------------------------------------------------------------------------

\* Core's messages only grow, and so do those that it no longer keeps.
Grows(k, l) == \A p \in Profiles :
    k.floor[p] <= l.floor[p] /\ k.rev[p] <= l.rev[p] /\ l.floor[p] <= l.rev[p]

LEMMA SoundStays ==
    ASSUME NEW k \in Cores, NEW l \in Cores, Grows(k, l), NEW d \in Answers, Sound(k, d)
    PROVE  Sound(l, d)
  <1>1. CASE d.profile = NoProfile
    BY <1>1 DEF Sound
  <1>2. CASE d.profile # NoProfile
    <2> DEFINE p == d.profile
    <2>1. p \in Profiles /\ d.floor \in Nat /\ d.rev \in Nat
      BY <1>2 DEF Answers, Owners
    <2>2. k.floor[p] \in Nat /\ l.floor[p] \in Nat /\ k.rev[p] \in Nat /\ l.rev[p] \in Nat
      BY <2>1, PageBounds DEF Cores
    <2>3. k.floor[p] <= l.floor[p] /\ k.rev[p] <= l.rev[p]
      BY <2>1 DEF Grows
    <2>4. d.floor <= k.floor[p] /\ d.rev <= k.rev[p]
      BY <1>2 DEF Sound
    <2>5. d.floor <= l.floor[p] /\ d.rev <= l.rev[p]
      BY <2>1, <2>2, <2>3, <2>4
    <2> QED BY <1>2, <2>5 DEF Sound
  <1> QED BY <1>1, <1>2

LEMMA CoreStays ==
    ASSUME PagesTyped, \A p \in Profiles : core.floor[p] <= core.rev[p]
    PROVE  Grows(core, core)
  BY PageBounds DEF PagesTyped, Cores, Grows

LEMMA WipedGrows ==
    ASSUME PagesTyped, \A p \in Profiles : core.floor[p] <= core.rev[p]
    PROVE  Grows(core, Wiped) /\ Wiped \in Cores
  <1>1. /\ core.rev \in [Profiles -> 0..MaxRev] /\ core.floor \in [Profiles -> Nat]
        /\ core.profile \in Profiles /\ MaxRev \in Nat
    BY PageBounds DEF PagesTyped, Cores
  <1> QED BY <1>1, WipedTyped DEF Grows

LEMMA CoreMoves ==
    ASSUME PagesTyped, Say \/ Elsewhere, \A p \in Profiles : core.floor[p] <= core.rev[p]
    PROVE  Grows(core, core')
  <1>1. CASE Say
    <2> DEFINE p == core.profile
    <2>1. PICK g \in {core.floor[p], core.floor[p] + 1} :
               core'.floor = [core.floor EXCEPT ![p] = g] /\ (core.floor[p] <= core.rev[p] => g <= core.rev[p])
      BY <1>1, SaidTyped
    <2>2. core'.rev = [core.rev EXCEPT ![p] = core.rev[p] + 1]
      BY <1>1, SaidTyped
    <2>3. /\ core.rev \in [Profiles -> 0..MaxRev] /\ core.floor \in [Profiles -> Nat]
          /\ p \in Profiles /\ MaxRev \in Nat /\ core.rev[p] \in Nat /\ core.floor[p] \in Nat
      BY PageBounds DEF PagesTyped, Cores
    <2>4. core'.floor[p] = g /\ core'.rev[p] = core.rev[p] + 1 /\ g <= core.rev[p] /\ core.floor[p] <= g
      BY <2>1, <2>2, <2>3
    <2>5. \A q \in Profiles : q # p => core'.floor[q] = core.floor[q] /\ core'.rev[q] = core.rev[q]
      BY <2>1, <2>2, <2>3
    <2> HIDE DEF p
    <2>6. ASSUME NEW q \in Profiles
          PROVE  core.floor[q] <= core'.floor[q] /\ core.rev[q] <= core'.rev[q] /\ core'.floor[q] <= core'.rev[q]
      <3>1. CASE q = p
        BY <2>1, <2>3, <2>4, <3>1
      <3>2. CASE q # p
        <4>1. core.floor[q] \in Nat /\ core.rev[q] \in 0..MaxRev /\ core.floor[q] <= core.rev[q]
          BY <2>3
        <4> QED BY <2>3, <2>5, <3>2, <4>1
      <3> QED BY <3>1, <3>2
    <2> QED BY <2>6 DEF Grows
  <1>2. CASE Elsewhere
    <2>1. CASE core' = Wiped
      BY <2>1, WipedGrows
    <2>2. CASE \E p \in Profiles : core' = [core EXCEPT !.profile = p]
      <3>1. core'.rev = core.rev /\ core'.floor = core.floor
        BY <2>2 DEF PagesTyped, Cores
      <3> QED BY <3>1, CoreStays DEF Grows
    <2> QED BY <1>2, <2>1, <2>2 DEF Elsewhere
  <1> QED BY <1>1, <1>2

\* An answer that says nothing.
Empty(d) == d.profile = NoProfile /\ d.new = {} /\ d.rev = 0 /\ d.clear = 0 /\ d.floor = 0 /\ ~d.cleared

LEMMA EmptyFits ==
    ASSUME NEW d \in Answers, Empty(d)
    PROVE  /\ \A k : Sound(k, d)
           /\ \A e \in Answers : After(e, d)
           /\ \A e \in Answers : After(d, e)
  <1>1. \A k : Sound(k, d)
    BY DEF Empty, Sound
  <1>2. \A e \in Answers : After(e, d)
    BY DEF Empty, After
  <1>3. ASSUME NEW e \in Answers PROVE After(d, e)
    <2>1. \A m \in e.new : m[2] > 0
      BY PageBounds DEF Answers, Messages
    <2>2. e.floor >= 0
      BY DEF Answers
    <2> QED BY <2>1, <2>2 DEF Empty, After
  <1> QED BY <1>1, <1>2, <1>3

LEMMA PlayingEmpty == Playing.data \in Answers /\ Empty(Playing.data)
  BY PlayingShape DEF Empty

LEMMA NoDataEmpty == NoData \in Answers /\ Empty(NoData)
  BY NothingYet DEF NoData, Empty

LEMMA ExcuseEmpty == \A kind \in {"dna", "settings", "insight"} : Excuse(kind) \in Answers /\ Empty(Excuse(kind))
  BY ExcuseShape DEF Empty

LEMMA AfterItself ==
    ASSUME NEW k, NEW d \in Answers, Sound(k, d)
    PROVE  After(d, d)
  BY DEF Sound, After

-----------------------------------------------------------------------------

\* The mail lies still; Core, one job and the screen change.
LEMMA ClearStill ==
    ASSUME PagesTyped, ClearInv, PagesTyped', Grows(core, core'), UNCHANGED <<mail, cleared>>,
           ask'.shown \subseteq ask.shown,
           \A j \in Jobs' : /\ Sound(core', j.data) /\ j.data.new \cap cleared = {}
                            /\ \A m \in Posted : After(m.data, j.data)
    PROVE  ClearInv'
  <1>1. Posted' = Posted
    BY DEF Posted
  <1>2. core \in Cores /\ core' \in Cores
    BY DEF PagesTyped, Cores
  <1>3. \A d \in {m.data : m \in Posted} : d \in Answers /\ Sound(core, d) /\ d.new \cap cleared = {}
    BY PostedTyped DEF ClearInv, OnTheWay
  <1>4. \A d \in OnTheWay' : Sound(core', d) /\ d.new \cap cleared' = {}
    BY <1>1, <1>2, <1>3, SoundStays DEF OnTheWay
  <1>5. \A p \in Profiles : core'.floor[p] <= core'.rev[p]
    BY DEF Grows
  <1>6. \A c \in cleared' : c[1] \in Profiles /\ c[2] <= core'.floor[c[1]]
    <2> SUFFICES ASSUME NEW c \in cleared PROVE c[1] \in Profiles /\ c[2] <= core'.floor[c[1]]
      OBVIOUS
    <2>1. c[1] \in Profiles /\ c[2] \in Nat /\ c[2] <= core.floor[c[1]]
      BY DEF ClearInv, PagesTyped
    <2>2. core.floor[c[1]] <= core'.floor[c[1]] /\ core.floor[c[1]] \in Nat /\ core'.floor[c[1]] \in Nat
      BY <1>2, <2>1 DEF Grows, Cores
    <2> QED BY <2>1, <2>2
  <1>7. \A i, j \in DOMAIN mail' : i < j => After(mail'[i].data, mail'[j].data)
    BY DEF ClearInv
  <1>8. ClearedStaysCleared'
    BY DEF ClearInv, ClearedStaysCleared
  <1> QED BY <1>1, <1>4, <1>5, <1>6, <1>7, <1>8 DEF ClearInv

\* A letter is added.
LEMMA ClearPost ==
    ASSUME PagesTyped, ClearInv, PagesTyped', UNCHANGED <<core, cleared>>, ask'.shown \subseteq ask.shown,
           NEW m \in Letters, mail' = Append(mail, m),
           Sound(core, m.data), m.data.new \cap cleared = {}, \A x \in Posted : After(x.data, m.data),
           \A j \in Jobs' : /\ Sound(core, j.data) /\ j.data.new \cap cleared = {}
                            /\ \A x \in Posted : After(x.data, j.data)
                            /\ After(m.data, j.data)
    PROVE  ClearInv'
  <1>1. Posted' = Posted \cup {m} /\ mail \in Seq(Letters)
    BY PostStep DEF PagesTyped
  <1>2. \A d \in OnTheWay' : Sound(core', d) /\ d.new \cap cleared' = {}
    BY <1>1 DEF OnTheWay, ClearInv
  <1>3. \A x \in Posted', j \in Jobs' : After(x.data, j.data)
    BY <1>1
  <1>4. ASSUME NEW i \in DOMAIN mail', NEW j \in DOMAIN mail', i < j PROVE After(mail'[i].data, mail'[j].data)
    <2>1. /\ DOMAIN mail' = 1..(Len(mail) + 1) /\ DOMAIN mail = 1..Len(mail) /\ Len(mail) \in Nat
          /\ mail'[Len(mail) + 1] = m /\ \A n \in DOMAIN mail : mail'[n] = mail[n]
      BY <1>1
    <2>2. i \in DOMAIN mail
      BY <1>4, <2>1
    <2>3. CASE j = Len(mail) + 1
      BY <2>1, <2>2, <2>3 DEF Posted
    <2>4. CASE j # Len(mail) + 1
      <3>1. j \in DOMAIN mail
        BY <2>1, <2>4
      <3> QED BY <1>4, <2>1, <2>2, <3>1 DEF ClearInv
    <2> QED BY <2>3, <2>4
  <1>5. ClearedStaysCleared'
    BY DEF ClearInv, ClearedStaysCleared
  <1> QED BY <1>2, <1>3, <1>4, <1>5 DEF ClearInv

\* Beside the last letter, what is playing.
LEMMA ClearPostTwo ==
    ASSUME PagesTyped, ClearInv, PagesTyped', UNCHANGED <<core, cleared>>, ask'.shown \subseteq ask.shown,
           NEW m \in Letters, mail' = Append(Append(mail, Playing), m),
           Sound(core, m.data), m.data.new \cap cleared = {}, \A x \in Posted : After(x.data, m.data),
           \A j \in Jobs' : j.data \in Answers /\ Empty(j.data)
    PROVE  ClearInv'
  <1>1. /\ Posted' = Posted \cup {Playing, m} /\ mail \in Seq(Letters)
        /\ DOMAIN mail' = 1..(Len(mail) + 2) /\ (\A i \in DOMAIN mail : mail'[i] = mail[i])
        /\ mail'[Len(mail) + 1] = Playing /\ mail'[Len(mail) + 2] = m
    BY PlayingShape, PostTwoStep
  <1>2. /\ \A x \in Posted : x.data \in Answers
        /\ m.data \in Answers /\ Playing.data \in Answers /\ Empty(Playing.data)
    BY PostedTyped, PlayingEmpty DEF Letters
  <1>3. \A d \in OnTheWay' : Sound(core', d) /\ d.new \cap cleared' = {}
    <2>1. \A d \in Answers : Empty(d) => Sound(core, d) /\ d.new = {}
      BY EmptyFits DEF Empty
    <2> QED BY <1>1, <1>2, <2>1 DEF OnTheWay, ClearInv
  <1>4. \A x \in Posted', j \in Jobs' : After(x.data, j.data)
    BY <1>1, <1>2, EmptyFits
  <1>5. ASSUME NEW i \in DOMAIN mail', NEW j \in DOMAIN mail', i < j PROVE After(mail'[i].data, mail'[j].data)
    <2>0. DOMAIN mail = 1..Len(mail) /\ Len(mail) \in Nat
      BY <1>1
    <2>1. CASE j = Len(mail) + 1 \/ i = Len(mail) + 1
      <3>1. mail'[i].data \in Answers /\ mail'[j].data \in Answers
        BY <1>1, <1>2 DEF Posted
      <3> QED BY <1>1, <1>2, <2>1, <3>1, EmptyFits
    <2>2. CASE i # Len(mail) + 1 /\ j = Len(mail) + 2
      <3>1. i \in DOMAIN mail
        BY <1>1, <1>5, <2>0, <2>2
      <3> QED BY <1>1, <2>2, <3>1 DEF Posted
    <2>3. CASE j # Len(mail) + 1 /\ j # Len(mail) + 2
      <3>1. i \in DOMAIN mail /\ j \in DOMAIN mail
        BY <1>1, <1>5, <2>0, <2>3
      <3> QED BY <1>1, <1>5, <3>1 DEF ClearInv
    <2> QED BY <2>1, <2>2, <2>3
  <1>6. ClearedStaysCleared'
    BY DEF ClearInv, ClearedStaysCleared
  <1> QED BY <1>3, <1>4, <1>5, <1>6 DEF ClearInv

\* An answer is given now: it comes after every answer that is on its way.
LEMMA ServedFresh ==
    ASSUME PagesTyped, ClearInv, NEW kind \in Asked, NEW since \in Nat, NEW full \in BOOLEAN,
           core' \in {core, Wiped}, kind = "clear" => core' = Wiped
    PROVE  LET d == Served(core', kind, since, full) IN
           /\ Sound(core', d) /\ d.new \cap cleared = {}
           /\ \A m \in Posted : After(m.data, d)
  <1> DEFINE p == core.profile
             d == Served(core', kind, since, full)
             new == Fresh(core', kind, since)
             f == core'.floor[p]
  <1>0. core \in Cores /\ p \in Profiles /\ Grows(core, core) /\ Grows(core, Wiped) /\ Wiped \in Cores
    BY CoreStays, WipedGrows DEF ClearInv, PagesTyped, Cores
  <1>1. /\ core' \in Cores /\ core'.profile = p /\ Grows(core, core')
        /\ kind = "clear" => core'.floor[p] = core'.rev[p]
    <2>1. core.floor \in [Profiles -> Nat]
      BY <1>0 DEF Cores
    <2>2. Wiped.profile = p /\ Wiped.floor[p] = Wiped.rev[p]
      BY <1>0, <2>1, WipedTyped
    <2> QED BY <1>0, <2>2
  <1> HIDE DEF p, d, new, f
  <1>2. /\ p \in Profiles /\ p # NoProfile /\ MaxRev \in Nat
        /\ core.rev[p] \in Nat /\ core.floor[p] \in Nat /\ core'.rev[p] \in Nat /\ f \in Nat
        /\ core.floor[p] <= f
    <2>1. p \in Profiles
      BY <1>0 DEF p
    <2>2. core.rev[p] \in Nat /\ core.floor[p] \in Nat /\ core'.rev[p] \in Nat /\ core'.floor[p] \in Nat /\ MaxRev \in Nat
      BY <1>0, <1>1, <2>1, PageBounds DEF Cores
    <2> QED BY <1>1, <2>1, <2>2, PageProfiles DEF f, Grows
  <1>3. /\ d \in Answers /\ d.kind = kind /\ d.profile = p
        /\ AboutAskDj(kind) => d.rev = core'.rev[p] /\ d.floor = f /\ d.new = new /\ (d.cleared <=> kind = "clear")
        /\ ~AboutAskDj(kind) => d.rev = 0 /\ d.floor = 0 /\ ~d.cleared /\ d.new = {}
    BY <1>1, ServedShape DEF d, f, new
  <1>4. \A m \in d.new : m \in Messages /\ m[1] = p /\ m[2] > f /\ m[2] <= core'.rev[p] /\ d.floor = f
    BY <1>1, <1>3, FreshShape DEF new, f
  <1>5. kind = "clear" => d.new = {}
    BY <1>1, <1>2, <1>4, PageBounds DEF Messages, f
  <1>6. Sound(core', d)
    <2>1. kind \notin Tells => d.rev <= d.floor
      BY <1>1, <1>2, <1>3 DEF AboutAskDj, Tells, History, f
    <2>2. d.floor <= core'.floor[p] /\ d.rev <= core'.rev[p]
      BY <1>2, <1>3 DEF f
    <2> QED BY <1>2, <1>3, <1>4, <1>5, <2>1, <2>2 DEF Sound
  <1>7. d.new \cap cleared = {}
    <2> SUFFICES ASSUME NEW m \in d.new, m \in cleared PROVE FALSE
      OBVIOUS
    <2>1. m[1] = p /\ m[2] > f /\ m[2] <= core.floor[p] /\ m[2] \in Nat
      BY <1>4 DEF ClearInv, PagesTyped
    <2> QED BY <1>2, <2>1
  <1>8. ASSUME NEW m \in Posted PROVE After(m.data, d)
    <2> DEFINE e == m.data
    <2>1. e \in Answers /\ Sound(core, e)
      BY PostedTyped DEF ClearInv, OnTheWay
    <2>2. e.floor \in Nat
      BY <2>1 DEF Answers
    <2>3. e.profile = p => e.floor <= core.floor[p]
      BY <1>2, <2>1 DEF Sound
    <2> HIDE DEF e
    <2>4. ASSUME NEW n \in d.new, n[1] = e.profile PROVE n[2] > e.floor
      <3>1. n[1] = p /\ n[2] > f /\ n[2] \in Nat
        BY <1>4, PageBounds DEF Messages
      <3> QED BY <1>2, <2>2, <2>3, <2>4, <3>1
    <2> QED BY <2>4 DEF After, e
  <1> QED BY <1>6, <1>7, <1>8 DEF d

LEMMA ClearDeliver == ASSUME TypeInv, ClearInv, Deliver PROVE ClearInv'
  <1> DEFINE m == Head(mail)
             d == m.data
  <1> HIDE DEF m, d
  <1>0. PagesTyped /\ PagesTyped'
    BY DeliverTyped DEF TypeInv
  <1>1. /\ mail # <<>> /\ mail' = Tail(mail) /\ m \in Posted \cap Letters
        /\ ask' = (IF Fills(m) THEN Merged(Before(m), d) ELSE Before(m))
        /\ cleared' = cleared \cup (IF Empties(m) THEN {d.profile} \X (1..d.floor) ELSE {})
        /\ UNCHANGED <<core, job>>
    BY <1>0, DeliverShape DEF m, d
  <1>2. /\ d \in Answers /\ Sound(core, d) /\ d.new \cap cleared = {}
        /\ Posted' \subseteq Posted /\ Jobs' = Jobs
    BY <1>0, <1>1, PostedTyped, TakeStep DEF ClearInv, OnTheWay, Jobs, d
  <1>3. \A e \in OnTheWay' : e \in OnTheWay /\ e \in Answers /\ After(d, e)
    <2>1. \A j \in Jobs : j.data \in Answers /\ After(d, j.data)
      BY <1>0, <1>1 DEF ClearInv, d, Jobs, PagesTyped, Tasks
    <2>2. ASSUME NEW x \in Posted' PROVE After(d, x.data)
      <3>1. mail \in Seq(Letters)
        BY <1>0 DEF PagesTyped
      <3>2. m = mail[1] /\ \A i \in DOMAIN mail' : 1 \in DOMAIN mail /\ i + 1 \in DOMAIN mail /\ mail'[i] = mail[i + 1] /\ 1 < i + 1
        BY <1>1, <3>1 DEF m
      <3>3. PICK i \in DOMAIN mail' : x = mail'[i]
        BY DEF Posted
      <3>4. After(mail[1].data, mail[i + 1].data)
        BY <3>2, <3>3 DEF ClearInv
      <3> QED BY <3>2, <3>3, <3>4 DEF d
    <2> QED BY <1>0, <1>2, <2>1, <2>2, PostedTyped DEF OnTheWay
  <1>4. Empties(m) => /\ d.profile \in Profiles /\ d.floor <= core.floor[d.profile] /\ d.floor \in Nat
                      /\ core.floor[d.profile] \in Nat
    <2> SUFFICES ASSUME Empties(m) PROVE d.profile \in Profiles /\ d.floor <= core.floor[d.profile] /\ d.floor \in Nat
                                         /\ core.floor[d.profile] \in Nat
      OBVIOUS
    <2>1. (d.cleared \/ d.clear > ask.clear) /\ ask.clear \in Nat
      BY <1>0 DEF Empties, d, PagesTyped, Views
    <2>2. d.profile # NoProfile
      BY <1>2, <2>1 DEF Sound
    <2> QED BY <1>0, <1>2, <2>2 DEF Sound, Answers, Owners, PagesTyped, Cores
  <1>5. ASSUME NEW c \in cleared' PROVE c[1] \in Profiles /\ c[2] <= core'.floor[c[1]]
    <2>1. CASE c \in cleared
      BY <1>1, <2>1 DEF ClearInv
    <2>2. CASE Empties(m) /\ c \in {d.profile} \X (1..d.floor)
      <3>1. c[1] = d.profile /\ c[2] \in 1..d.floor
        BY <2>2
      <3> QED BY <1>1, <1>4, <2>2, <3>1
    <2> QED BY <1>1, <1>5, <2>1, <2>2
  <1>6. ASSUME NEW e \in OnTheWay' PROVE Sound(core', e) /\ e.new \cap cleared' = {}
    <2>1. Sound(core, e) /\ e.new \cap cleared = {} /\ e \in Answers /\ After(d, e)
      BY <1>3, <1>6 DEF ClearInv
    <2>2. ASSUME Empties(m), NEW c \in e.new PROVE c \notin {d.profile} \X (1..d.floor)
      <3>1. c[1] = d.profile => c[2] > d.floor
        BY <2>1, <2>2 DEF After
      <3> QED BY <1>4, <2>2, <3>1
    <2> QED BY <1>1, <2>1, <2>2
  <1>7. \A i, j \in DOMAIN mail' : i < j => After(mail'[i].data, mail'[j].data)
    <2> SUFFICES ASSUME NEW i \in DOMAIN mail', NEW j \in DOMAIN mail', i < j
                 PROVE  After(mail'[i].data, mail'[j].data)
      OBVIOUS
    <2>1. mail \in Seq(Letters)
      BY <1>0 DEF PagesTyped
    <2>2. /\ j + 1 \in DOMAIN mail /\ mail'[j] = mail[j + 1] /\ i + 1 < j + 1
          /\ i + 1 \in DOMAIN mail /\ mail'[i] = mail[i + 1]
      BY <1>1, <2>1
    <2>3. After(mail[i + 1].data, mail[j + 1].data)
      BY <2>2 DEF ClearInv
    <2> QED BY <2>2, <2>3
  <1>8. \A x \in Posted', j \in Jobs' : After(x.data, j.data)
    BY <1>2 DEF ClearInv
  <1>9. ask'.shown \cap cleared' = {}
    <2>1. Before(m) \in Views
      BY <1>0 DEF Before, NoAsk, Views, PagesTyped
    <2>2. Before(m).shown \cap cleared = {}
      BY DEF Before, NoAsk, ClearInv, ClearedStaysCleared
    <2>3. CASE ~Fills(m)
      BY <1>1, <2>2, <2>3 DEF Empties
    <2>4. CASE Fills(m)
      <3>1. \A c \in ask'.shown : c \in d.new \/ (~Wipes(Before(m), d) /\ c \in Before(m).shown)
        BY <1>1, <1>2, <2>1, <2>4, MergedShape
      <3>2. CASE ~Empties(m)
        BY <1>1, <1>2, <2>2, <3>1, <3>2
      <3>3. CASE Empties(m)
        <4>0. (d.cleared \/ d.clear > ask.clear) /\ ask.clear \in Nat /\ d.clear \in Nat
          BY <1>0, <1>2, <3>3 DEF Empties, d, PagesTyped, Views, Answers
        <4>1. Wipes(Before(m), d)
          BY <4>0 DEF Before, NoAsk, Wipes, ClearAck
        <4>2. \A c \in d.new : c[2] > d.floor
          BY <1>2 DEF Sound
        <4> QED BY <1>1, <1>2, <1>4, <3>1, <3>3, <4>1, <4>2
      <3> QED BY <3>2, <3>3
    <2> QED BY <2>3, <2>4
  <1>10. \A p \in Profiles : core'.floor[p] <= core'.rev[p]
    BY <1>1 DEF ClearInv
  <1> QED BY <1>5, <1>6, <1>7, <1>8, <1>9, <1>10 DEF ClearInv, ClearedStaysCleared

LEMMA InitClear == Init => ClearInv
  <1> SUFFICES ASSUME Init PROVE ClearInv
    OBVIOUS
  <1>1. Posted = {} /\ mail = <<>> /\ cleared = {} /\ ask.shown = {} /\ \A j \in Jobs : j = NoJob
    BY DEF Init, Posted, Jobs, NoAsk
  <1>2. \A p \in Profiles : core.floor[p] = 0 /\ core.rev[p] = 0
    BY DEF Init
  <1>3. \A d \in OnTheWay : d = NoData
    BY <1>1, NothingYet DEF OnTheWay
  <1>4. Sound(core, NoData)
    BY NoDataEmpty, EmptyFits
  <1> QED BY <1>1, <1>2, <1>3, <1>4 DEF ClearInv, ClearedStaysCleared

\* A worker's step that posts nothing.
LEMMA ClearTurn ==
    ASSUME TypeInv, ClearInv, PagesTyped', Grows(core, core'), UNCHANGED <<mail, cleared>>,
           ask'.shown \subseteq ask.shown, NEW w \in Workers, NEW j \in Tasks, job' = [job EXCEPT ![w] = j],
           \/ j.data = NoData
           \/ j.data = job[w].data
           \/ Sound(core', j.data) /\ j.data.new \cap cleared = {} /\ \A m \in Posted : After(m.data, j.data)
    PROVE  ClearInv'
  <1>0. PagesTyped /\ Jobs' = {j} /\ job[w] \in Jobs /\ job[w].data \in Answers
    BY JobsStep DEF TypeInv, Jobs, PagesTyped, Tasks
  <1>1. \A m \in Posted : m.data \in Answers
    BY <1>0, PostedTyped
  <1>2. core \in Cores /\ core' \in Cores
    BY DEF TypeInv, PagesTyped, Cores
  <1>3. Sound(core', j.data) /\ j.data.new \cap cleared = {} /\ \A m \in Posted : After(m.data, j.data)
    <2>1. CASE j.data = NoData
      BY <1>1, <2>1, NoDataEmpty, EmptyFits DEF Empty
    <2>2. CASE j.data = job[w].data
      <3>1. Sound(core, job[w].data) /\ job[w].data.new \cap cleared = {} /\ \A m \in Posted : After(m.data, job[w].data)
        BY <1>0 DEF ClearInv, OnTheWay
      <3> QED BY <1>0, <1>2, <2>2, <3>1, SoundStays
    <2> QED BY <2>1, <2>2
  <1> QED BY <1>0, <1>3, ClearStill

\* A worker's step that posts its answer, or one that says nothing.
LEMMA ClearLetter ==
    ASSUME TypeInv, ClearInv, PagesTyped', UNCHANGED <<core, cleared>>, ask'.shown \subseteq ask.shown,
           NEW w \in Workers, NEW j \in Tasks, job' = [job EXCEPT ![w] = j], j.data \in {NoData, job[w].data},
           NEW m \in Letters, mail' = Append(mail, m),
           m.data = job[w].data \/ Empty(m.data)
    PROVE  ClearInv'
  <1>0. PagesTyped /\ Jobs' = {j} /\ job[w] \in Jobs /\ job[w].data \in Answers /\ m.data \in Answers
    BY JobsStep DEF TypeInv, Jobs, PagesTyped, Tasks, Letters
  <1>1. \A x \in Posted : x.data \in Answers
    BY <1>0, PostedTyped
  <1>2. /\ Sound(core, job[w].data) /\ job[w].data.new \cap cleared = {}
        /\ \A x \in Posted : After(x.data, job[w].data)
    BY <1>0 DEF ClearInv, OnTheWay
  <1>3. /\ Sound(core, NoData) /\ NoData.new \cap cleared = {} /\ NoData \in Answers
        /\ \A x \in Posted : After(x.data, NoData)
    BY <1>1, NoDataEmpty, EmptyFits DEF Empty
  <1>4. Sound(core, j.data) /\ j.data.new \cap cleared = {} /\ j.data \in Answers /\ \A x \in Posted : After(x.data, j.data)
    BY <1>0, <1>2, <1>3
  <1>5. Sound(core, m.data) /\ m.data.new \cap cleared = {} /\ \A x \in Posted : After(x.data, m.data)
    <2>1. CASE Empty(m.data)
      BY <1>0, <1>1, <2>1, EmptyFits DEF Empty
    <2> QED BY <1>2, <2>1
  <1>6. After(m.data, j.data)
    <2>1. CASE Empty(m.data)
      BY <1>0, <1>4, <2>1, EmptyFits
    <2>2. CASE m.data = job[w].data /\ j.data = NoData
      BY <1>0, <2>2, NoDataEmpty, EmptyFits
    <2>3. CASE m.data = job[w].data /\ j.data = job[w].data
      BY <1>0, <1>2, <2>3, AfterItself
    <2> QED BY <2>1, <2>2, <2>3
  <1> QED BY <1>0, <1>4, <1>5, <1>6, ClearPost

LEMMA ClearQuiet ==
    ASSUME TypeInv, ClearInv, PagesTyped', Grows(core, core'), UNCHANGED <<mail, job, cleared>>,
           ask'.shown \subseteq ask.shown
    PROVE  ClearInv'
  <1>1. Jobs' = Jobs /\ PagesTyped /\ core \in Cores /\ core' \in Cores
    <2>1. Jobs' = Jobs
      BY DEF Jobs
    <2>2. core \in Cores /\ core' \in Cores
      BY DEF TypeInv, PagesTyped, Cores
    <2> QED BY <2>1, <2>2 DEF TypeInv
  <1>2. ASSUME NEW j \in Jobs
        PROVE  Sound(core', j.data) /\ j.data.new \cap cleared = {} /\ \A m \in Posted : After(m.data, j.data)
    <2>1. j.data \in Answers /\ Sound(core, j.data) /\ j.data.new \cap cleared = {}
      BY <1>1 DEF ClearInv, OnTheWay, Jobs, PagesTyped, Tasks
    <2> QED BY <1>1, <2>1, SoundStays DEF ClearInv
  <1> QED BY <1>1, <1>2, ClearStill

LEMMA WorkClear == ASSUME TypeInv, TypeInv', CallInv, ClearInv, NEW w \in Workers, Work(w) PROVE ClearInv'
  <1>0. PagesTyped /\ PagesTyped' /\ NoJob \in Tasks /\ NoJob.data = NoData
    BY NothingYet DEF TypeInv
  <1>1. Grows(core, core)
    BY <1>0, CoreStays DEF ClearInv
  <1>2. CASE Begin(w)
    <2>1. PICK j \in Tasks : job' = [job EXCEPT ![w] = j] /\ j.data = NoData
      BY <1>2, BeginShape
    <2>2. UNCHANGED <<core, mail, cleared, ask>>
      BY <1>2 DEF Begin
    <2> QED BY <1>0, <1>1, <2>1, <2>2, ClearTurn
  <1>3. CASE Send(w)
    <2>1. PICK j \in Tasks : /\ job' = [job EXCEPT ![w] = j] /\ core' \in {core, Wiped}
                             /\ \/ j.data = job[w].data
                                \/ /\ \E full \in BOOLEAN : j.data = Served(core', call[w].kind, job[w].since, full)
                                   /\ call[w].kind = "clear" => core' = Wiped
      BY <1>3, SendShape
    <2>2. call[w].kind \in Asked /\ job[w].since \in Nat
      BY <1>0, <1>3, SendShape DEF PagesTyped, Tasks
    <2>3. UNCHANGED <<mail, cleared, ask>>
      BY <1>3 DEF Send
    <2>4. Grows(core, core')
      BY <1>0, <1>1, <2>1, WipedGrows DEF ClearInv
    <2>5. CASE j.data = job[w].data
      BY <1>0, <2>1, <2>3, <2>4, <2>5, ClearTurn
    <2>6. CASE j.data # job[w].data
      <3>1. PICK full \in BOOLEAN : j.data = Served(core', call[w].kind, job[w].since, full)
        BY <2>1, <2>6
      <3>0. call[w].kind = "clear" => core' = Wiped
        BY <2>1, <2>6
      <3>2. Sound(core', j.data) /\ j.data.new \cap cleared = {} /\ \A m \in Posted : After(m.data, j.data)
        BY <1>0, <2>1, <2>2, <3>0, <3>1, ServedFresh
      <3> QED BY <1>0, <2>1, <2>3, <2>4, <3>2, ClearTurn
    <2> QED BY <2>5, <2>6
  <1>4. CASE Land(w)
    <2>1. PICK j \in Tasks : job' = [job EXCEPT ![w] = j] /\ j.data = job[w].data
      BY <1>4, LandShape
    <2>2. UNCHANGED <<core, mail, cleared, ask>>
      BY <1>4 DEF Land
    <2> QED BY <1>0, <1>1, <2>1, <2>2, ClearTurn
  <1>5. CASE Check(w)
    <2>0. UNCHANGED <<core, mail, cleared>>
      BY <1>5 DEF Check
    <2>1. CASE job[w].ticket = Context
      <3>1. PICK j \in Tasks : job' = [job EXCEPT ![w] = j] /\ j.data = job[w].data
        BY <1>5, <2>1, CheckShape
      <3>2. ask'.shown \subseteq ask.shown
        BY <1>0, <1>5, <2>1, ClearedPagesTyped DEF Check
      <3> QED BY <1>0, <1>1, <2>0, <3>1, <3>2, ClearTurn
    <2>2. CASE job[w].ticket # Context
      <3>1. job' = [job EXCEPT ![w] = NoJob] /\ UNCHANGED ask
        BY <1>5, <2>2 DEF Check, End
      <3> QED BY <1>0, <1>1, <2>0, <3>1, ClearTurn
    <2> QED BY <2>1, <2>2
  <1>6. CASE Proceed(w)
    <2>1. PICK j \in Tasks : job' = [job EXCEPT ![w] = j] /\ j.data = job[w].data
      BY <1>6, ProceedShape
    <2>2. UNCHANGED <<core, cleared, ask>>
      BY <1>6 DEF Proceed
    <2>3. CASE UNCHANGED mail
      BY <1>0, <1>1, <2>1, <2>2, <2>3, ClearTurn
    <2>4. CASE Post(job[w].data, Ticket(w))
      <3> DEFINE m == [ticket |-> Ticket(w), data |-> job[w].data]
      <3>1. m \in Letters /\ m.data = job[w].data /\ mail' = Append(mail, m)
        BY <1>0, <2>4, LetterTyped, TicketTyped DEF Post, PagesTyped, Tasks
      <3> HIDE DEF m
      <3> QED BY <1>0, <2>1, <2>2, <3>1, ClearLetter
    <2> QED BY <1>6, <2>3, <2>4, ProceedShape
  <1>7. CASE Finish(w)
    <2>1. job' = [job EXCEPT ![w] = NoJob] /\ UNCHANGED <<core, cleared>>
          /\ (Post(job[w].data, Ticket(w)) \/ PostPlayed(job[w].data, Ticket(w)))
      BY <1>7 DEF Finish, End
    <2>2. ask'.shown = ask.shown
      BY <1>0, <1>7 DEF Finish, PagesTyped, Views
    <2> DEFINE m == [ticket |-> Ticket(w), data |-> job[w].data]
    <2>3. /\ m \in Letters /\ m.data = job[w].data
          /\ mail' = Append(mail, m) \/ mail' = Append(Append(mail, Playing), m)
      BY <1>0, <2>1, LetterTyped, TicketTyped DEF Post, PostPlayed, PagesTyped, Tasks
    <2> HIDE DEF m
    <2>4. CASE mail' = Append(mail, m)
      BY <1>0, <2>1, <2>2, <2>3, <2>4, ClearLetter
    <2>5. CASE mail' = Append(Append(mail, Playing), m)
      <3>1. Jobs' = {NoJob} /\ job[w] \in Jobs
        BY <1>0, <2>1, JobsStep DEF Jobs
      <3>2. \A j \in Jobs' : j.data \in Answers /\ Empty(j.data)
        BY <1>0, <3>1, NoDataEmpty
      <3>3. Sound(core, m.data) /\ m.data.new \cap cleared = {} /\ \A x \in Posted : After(x.data, m.data)
        BY <2>3, <3>1 DEF ClearInv, OnTheWay
      <3> QED BY <1>0, <2>1, <2>2, <2>3, <2>5, <3>2, <3>3, ClearPostTwo
    <2> QED BY <2>3, <2>4, <2>5
  <1>8. CASE Forget(w)
    <2>1. job' = [job EXCEPT ![w] = NoJob] /\ UNCHANGED <<core, mail, cleared>> /\ ask'.shown = {}
      BY <1>8 DEF Forget, AskCleared, NoAsk
    <2> QED BY <1>0, <1>1, <2>1, ClearTurn
  <1>9. CASE Fail(w)
    <2>1. /\ job' = [job EXCEPT ![w] = NoJob] /\ UNCHANGED <<core, cleared>>
          /\ \/ UNCHANGED mail
             \/ /\ job[w].kind \in {"dna", "settings", "insight"}
                /\ mail' = Append(mail, [ticket |-> job[w].ticket, data |-> Excuse(job[w].kind)])
      BY <1>9 DEF Fail, End, Post, Excuse
    <2>2. ask'.shown = ask.shown
      BY <1>0, <1>9 DEF Fail, PagesTyped, Views
    <2>3. CASE UNCHANGED mail
      BY <1>0, <1>1, <2>1, <2>2, <2>3, ClearTurn
    <2>4. CASE ~UNCHANGED mail
      <3> DEFINE m == [ticket |-> job[w].ticket, data |-> Excuse(job[w].kind)]
      <3>0. job[w].ticket \in Tickets
        BY <1>0 DEF PagesTyped, Tasks
      <3>1. m \in Letters /\ Empty(m.data) /\ mail' = Append(mail, m)
        BY <2>1, <2>4, <3>0, LetterTyped, ExcuseEmpty
      <3> HIDE DEF m
      <3> QED BY <1>0, <2>1, <2>2, <3>1, ClearLetter
    <2> QED BY <2>3, <2>4
  <1> QED BY <1>2, <1>3, <1>4, <1>5, <1>6, <1>7, <1>8, <1>9 DEF Work

LEMMA NextClear == TypeInv /\ TypeInv' /\ CallInv /\ ClearInv /\ [Next]_vars => ClearInv'
  <1> SUFFICES ASSUME TypeInv, TypeInv', CallInv, ClearInv, [Next]_vars PROVE ClearInv'
    OBVIOUS
  <1>0. PagesTyped /\ PagesTyped' /\ Grows(core, core)
    BY CoreStays DEF TypeInv, ClearInv
  <1>1. ASSUME NEW kind \in Kinds, Start(kind) PROVE ClearInv'
    <2>1. UNCHANGED <<core, mail, job, cleared, ask>>
      BY <1>1 DEF Start
    <2> QED BY <1>0, <2>1, ClearQuiet
  <1>2. CASE Retry \/ OwnerChanged
    <2>1. UNCHANGED <<core, mail, job, cleared>>
      BY <1>2 DEF Retry, OwnerChanged
    <2>2. ask'.shown \subseteq ask.shown
      BY <1>0, <1>2, ClearedPagesTyped DEF Retry, OwnerChanged, PagesTyped, Views
    <2> QED BY <1>0, <2>1, <2>2, ClearQuiet
  <1>3. CASE Deliver
    BY <1>3, ClearDeliver
  <1>4. CASE Say \/ Elsewhere
    <2>1. UNCHANGED <<mail, job, cleared, ask>> /\ Grows(core, core')
      BY <1>0, <1>4, CoreMoves DEF Say, Elsewhere, ClearInv
    <2> QED BY <1>0, <2>1, ClearQuiet
  <1>5. CASE Link \/ Pair \/ UNCHANGED vars
    <2>1. UNCHANGED <<core, mail, job, cleared, ask>>
      BY <1>5 DEF Link, Heal, Rollback, Pair, vars
    <2> QED BY <1>0, <2>1, ClearQuiet
  <1>6. ASSUME NEW w \in Workers, Work(w) PROVE ClearInv'
    BY <1>6, WorkClear
  <1> QED BY <1>1, <1>2, <1>3, <1>4, <1>5, <1>6 DEF Next, Gui

\* A message whose clearing was shown does not come back, whatever polls and loads were
\* under way when it was cleared, for any number of clears on any device, Profiles and
\* pairings (_apply_ask_dj_data; answers are shown in the order they were given because
\* one thread asks for them).
THEOREM ClearedMessagesStayCleared == Spec => []ClearedStaysCleared
  <1>1. Init => CallInv /\ TypeInv /\ ClearInv
    BY InitCall, InitType, InitClear
  <1>2. CallInv /\ TypeInv /\ ClearInv /\ [Next]_vars => (CallInv /\ TypeInv /\ ClearInv)'
    BY NextCall, NextType, NextClear
  <1>3. ClearInv => ClearedStaysCleared
    BY DEF ClearInv
  <1> QED BY <1>1, <1>2, <1>3, PTL DEF Spec

-----------------------------------------------------------------------------
(* No message is skipped *)

\* Memory and file agree on the Profile that Core resolves.
Settled == cfg.profile = core.profile /\ disk.profile = core.profile

\* An answer is complete, or what it leaves out was on screen before.  Of an action's
\* answer nothing is asked: the cursor steps over what it does not carry (Met).
Whole(p, d)     == d.kind = "action" \/ \A n \in (d.floor + 1)..d.rev : <<p, n>> \in d.new
Partly(p, a, d) == \A n \in (d.floor + 1)..d.rev : n > a.rev => <<p, n>> \in d.new
Covers(d)       == Whole(core.profile, d) \/ (Settled /\ Partly(core.profile, ask, d))

\* A cursor that stands without a Profile is behind what Core keeps.
Reached(rev) == ~Settled => rev <= core.floor[core.profile]

GapNames  == /\ cfg.profile \in {core.profile, NoProfile} /\ disk.profile \in {core.profile, NoProfile}
             /\ \A d \in OnTheWay : d.profile \in {core.profile, NoProfile}
GapScreen == /\ ask.rev <= core.rev[core.profile] /\ Reached(ask.rev)
             /\ \A n \in (core.floor[core.profile] + 1)..ask.rev : <<core.profile, n>> \in ask.met
GapMail   == \A m \in Posted : Recent(m.ticket, epoch) =>
                /\ Covers(m.data)
                /\ m.ticket[2] = core.profile /\ ~Settled => m.data.rev <= m.data.floor
GapJobs   == \A j \in Jobs : j.step = "post" \/ Recent(j.ticket, epoch) => Covers(j.data)
GapReads  == \A w \in Workers :
                job[w].step = "call" /\ Recent(job[w].ticket, epoch) /\ call[w].kind \in History =>
                  job[w].since <= ask.rev /\ Reached(job[w].since)

GapInv == GapNames /\ GapScreen /\ GapMail /\ GapJobs /\ GapReads

-----------------------------------------------------------------------------

\* Core, the configuration and the cursors go on; the screen's owner stays.
Calm == /\ core'.profile = core.profile /\ Grows(core, core') /\ epoch' = epoch
        /\ (Settled => Settled') /\ ask.rev <= ask'.rev

LEMMA GapTypes ==
    ASSUME PagesTyped
    PROVE  /\ core.profile \in Profiles /\ core.profile # NoProfile
           /\ core.rev[core.profile] \in Nat /\ core.floor[core.profile] \in Nat /\ ask.rev \in Nat
  BY PageProfiles, PageBounds DEF PagesTyped, Cores, Views

LEMMA CalmCovers ==
    ASSUME PagesTyped, PagesTyped', Calm, NEW d \in Answers, Covers(d)
    PROVE  Covers(d)'
  <1>1. core'.profile = core.profile
    BY DEF Calm
  <1>2. CASE Whole(core.profile, d)
    BY <1>1, <1>2 DEF Covers, Whole
  <1>3. CASE Settled /\ Partly(core.profile, ask, d)
    <2>1. d.floor \in Nat /\ d.rev \in Nat /\ ask.rev \in Nat /\ ask'.rev \in Nat /\ ask.rev <= ask'.rev
      BY DEF Answers, PagesTyped, Views, Calm
    <2>5. ASSUME NEW n \in (d.floor + 1)..d.rev, n > ask'.rev PROVE <<core.profile, n>> \in d.new
      <3>1. n > ask.rev
        BY <2>1, <2>5
      <3> QED BY <1>3, <3>1 DEF Partly
    <2>6. Partly(core'.profile, ask', d)
      BY <1>1, <2>5 DEF Partly
    <2> QED BY <1>3, <2>6 DEF Covers, Calm
  <1> QED BY <1>2, <1>3 DEF Covers

LEMMA CalmCore ==
    ASSUME PagesTyped, PagesTyped', Calm
    PROVE  LET p == core.profile IN
           /\ core'.profile = p /\ core.floor[p] <= core'.floor[p] /\ core.rev[p] <= core'.rev[p]
           /\ core'.floor[p] \in Nat /\ core'.rev[p] \in Nat
  <1>1. core.profile \in Profiles /\ core'.profile = core.profile
    BY DEF Calm, PagesTyped, Cores
  <1>2. core'.floor[core.profile] \in Nat /\ core'.rev[core.profile] \in Nat
    BY <1>1, PageBounds DEF PagesTyped, Cores
  <1> QED BY <1>1, <1>2 DEF Calm, Grows

LEMMA CalmReached ==
    ASSUME PagesTyped, PagesTyped', Calm, NEW rev \in Nat, Reached(rev)
    PROVE  Reached(rev)'
  <1>1. LET p == core.profile IN
        core'.profile = p /\ core.floor[p] <= core'.floor[p] /\ core.floor[p] \in Nat /\ core'.floor[p] \in Nat
    BY CalmCore, GapTypes
  <1>2. Settled => Settled'
    BY DEF Calm
  <1> QED BY <1>1, <1>2 DEF Reached

\* Nothing changes on the screen.
Frozen == ask'.rev = ask.rev /\ ask'.met = ask.met

LEMMA FrozenScreen ==
    ASSUME PagesTyped, PagesTyped', GapInv, Calm, Frozen
    PROVE  GapScreen'
  <1> DEFINE p == core.profile
  <1>1. /\ ask.rev \in Nat /\ ask.rev <= core.rev[p] /\ Reached(ask.rev)
        /\ \A n \in (core.floor[p] + 1)..ask.rev : <<p, n>> \in ask.met
        /\ core.rev[p] \in Nat /\ core.floor[p] \in Nat
    BY GapTypes DEF GapInv, GapScreen
  <1>2. Reached(ask.rev)'
    <2>1. \A rev \in Nat : Reached(rev) => Reached(rev)'
      BY CalmReached
    <2>2. Reached(ask.rev) /\ ask'.rev = ask.rev
      BY <1>1 DEF Frozen
    <2> QED BY <1>1, <2>1, <2>2 DEF Reached
  <1>3. /\ core'.profile = p /\ core.floor[p] <= core'.floor[p] /\ core.rev[p] <= core'.rev[p]
        /\ core'.floor[p] \in Nat /\ core'.rev[p] \in Nat
    BY CalmCore
  <1>4. ask'.rev = ask.rev /\ ask'.met = ask.met
    BY DEF Frozen
  <1>5. ask'.rev <= core'.rev[p]
    BY <1>1, <1>3, <1>4
  <1>6. \A n \in (core'.floor[p] + 1)..ask'.rev : <<p, n>> \in ask'.met
    BY <1>1, <1>3, <1>4
  <1> QED BY <1>2, <1>3, <1>5, <1>6 DEF GapScreen

\* Memory and file name the Profile that Core resolves, or none.
Names == {cfg'.profile, disk'.profile} \subseteq {core.profile, NoProfile}

LEMMA CalmNames ==
    ASSUME PagesTyped, Calm, GapInv, Names, \A d \in OnTheWay' : d.profile \in {core.profile, NoProfile}
    PROVE  GapNames'
  <1>1. core'.profile = core.profile
    BY DEF Calm
  <1> QED BY <1>1 DEF GapNames, Names

\* A result in the mail, or about to be, that may be shown when its turn comes.
GapLetter(m) ==
    /\ m.data.profile \in {core.profile, NoProfile}
    /\ Recent(m.ticket, epoch) => Covers(m.data) /\ (m.ticket[2] = core.profile /\ ~Settled' => m.data.rev <= m.data.floor)

LEMMA PostedLetter ==
    ASSUME PagesTyped, Calm, GapInv, NEW m \in Posted
    PROVE  GapLetter(m) /\ m \in Letters
  <1>1. m.data \in OnTheWay /\ m \in Letters
    BY PostedTyped DEF OnTheWay
  <1> QED BY <1>1 DEF GapInv, GapNames, GapMail, GapLetter, Calm

LEMMA CalmMail ==
    ASSUME PagesTyped, PagesTyped', Calm, GapInv, \A m \in Posted' : m \in Letters /\ GapLetter(m)
    PROVE  GapMail'
  <1>1. epoch' = epoch /\ core'.profile = core.profile
    BY DEF Calm
  <1>2. ASSUME NEW m \in Posted', Recent(m.ticket, epoch')
        PROVE  Covers(m.data)' /\ (m.ticket[2] = core'.profile /\ ~Settled' => m.data.rev <= m.data.floor)
    <2>1. m.data \in Answers /\ GapLetter(m) /\ Recent(m.ticket, epoch)
      BY <1>1, <1>2 DEF Letters
    <2>2. Covers(m.data) /\ (m.ticket[2] = core.profile /\ ~Settled' => m.data.rev <= m.data.floor)
      BY <2>1 DEF GapLetter
    <2>3. \A d \in Answers : Covers(d) => Covers(d)'
      BY CalmCovers
    <2> QED BY <1>1, <2>1, <2>2, <2>3
  <1> QED BY <1>2 DEF GapMail

\* The worker waits: what it holds is as good as before.
LEMMA CalmJobs ==
    ASSUME PagesTyped, PagesTyped', Calm, GapInv, UNCHANGED <<job, call>>
    PROVE  GapJobs' /\ GapReads'
  <1>1. epoch' = epoch /\ Jobs' = Jobs /\ ask.rev <= ask'.rev
    BY DEF Calm, Jobs
  <1>2. GapJobs'
    <2>1. \A d \in Answers : Covers(d) => Covers(d)'
      BY CalmCovers
    <2>2. \A j \in Jobs : j.data \in Answers
      BY DEF PagesTyped, Jobs, Tasks
    <2>3. \A j \in Jobs : j.step = "post" \/ Recent(j.ticket, epoch) => Covers(j.data)
      BY DEF GapInv, GapJobs
    <2>4. \A j \in Jobs : j.step = "post" \/ Recent(j.ticket, epoch) => Covers(j.data)'
      BY <2>1, <2>2, <2>3
    <2> QED BY <1>1, <2>4 DEF GapJobs
  <1>3. GapReads'
    <2> SUFFICES ASSUME NEW w \in Workers, job[w].step = "call", Recent(job[w].ticket, epoch), call[w].kind \in History
                 PROVE  job[w].since <= ask'.rev /\ (\A s \in {job[w].since} : Reached(s)')
      BY <1>1 DEF GapReads
    <2> DEFINE s == job[w].since
    <2>1. s <= ask.rev /\ Reached(s)
      BY DEF GapInv, GapReads
    <2>2. s \in Nat /\ ask.rev \in Nat /\ ask'.rev \in Nat
      BY GapTypes DEF PagesTyped, Tasks, Views
    <2>3. s <= ask'.rev
      BY <1>1, <2>1, <2>2
    <2>4. \A rev \in Nat : Reached(rev) => Reached(rev)'
      BY CalmReached
    <2> QED BY <2>1, <2>2, <2>3, <2>4
  <1> QED BY <1>2, <1>3

LEMMA CalmQuiet ==
    ASSUME PagesTyped, PagesTyped', Calm, Frozen, GapInv, UNCHANGED <<job, call, mail>>, Names
    PROVE  GapInv'
  <1>1. Posted' = Posted /\ OnTheWay' = OnTheWay
    BY DEF Posted, OnTheWay, Jobs
  <1>2. GapNames'
    BY <1>1, CalmNames DEF GapInv, GapNames
  <1>4. GapMail'
    BY <1>1, CalmMail, PostedLetter
  <1> QED BY <1>2, <1>4, CalmJobs, FrozenScreen DEF GapInv

\* A step of a worker whose context stands: its job becomes j.
GapTurn(w, j) ==
    /\ job' = [job EXCEPT ![w] = j]
    /\ j.data.profile \in {core.profile, NoProfile}
    /\ j.step = "post" \/ Recent(j.ticket, epoch) => Covers(j.data)'
    /\ j.step = "call" /\ Recent(j.ticket, epoch) /\ call'[w].kind \in History => j.since <= ask.rev /\ Reached(j.since)'
    /\ \A m \in Posted' : m \in Posted \/ (m \in Letters /\ GapLetter(m))

LEMMA CalmTurn ==
    ASSUME PagesTyped, PagesTyped', Calm, Frozen, GapInv, Names, NEW w \in Workers, NEW j \in Tasks, GapTurn(w, j)
    PROVE  GapInv'
  <1>1. Jobs' = {j} /\ job'[w] = j /\ \A x \in Workers : x = w
    BY JobsStep, OneWorker DEF GapTurn
  <1>2. \A m \in Posted' : m \in Letters /\ GapLetter(m)
    BY PostedLetter DEF GapTurn
  <1>3. \A d \in OnTheWay' : d.profile \in {core.profile, NoProfile}
    BY <1>1, <1>2 DEF OnTheWay, GapTurn, GapLetter
  <1>4. GapNames'
    BY <1>3, CalmNames
  <1>6. GapMail'
    BY <1>2, CalmMail
  <1>7. GapJobs'
    BY <1>1 DEF GapJobs, GapTurn, Calm
  <1>8. GapReads'
    BY <1>1 DEF GapReads, GapTurn, Calm, Frozen
  <1> QED BY <1>4, <1>6, <1>7, <1>8, FrozenScreen DEF GapInv

\* The context changed: no ticket given before is good any more.
LEMMA OldTickets ==
    ASSUME TypeInv, epoch' = epoch + 1, NEW t \in Tickets, Dated(t, epoch)
    PROVE  ~Recent(t, epoch')
  BY DEF TypeInv, PagesTyped, Tickets, Dated, Recent

LEMMA Reset ==
    ASSUME TypeInv, PagesTyped', GapInv, Names, core' = core, mail' = mail, epoch' = epoch + 1,
           ask'.rev = 0, NEW w \in Workers, NEW j \in Tasks,
           job' = [job EXCEPT ![w] = j], Dated(j.ticket, epoch),
           j.data.profile \in {core.profile, NoProfile},
           j.step = "post" => Whole(core.profile, j.data)
    PROVE  GapInv'
  <1>0. PagesTyped
    BY DEF TypeInv
  <1>1. Jobs' = {j} /\ job'[w] = j /\ (\A x \in Workers : x = w) /\ Posted' = Posted /\ OnTheWay' \subseteq OnTheWay \cup {j.data}
    <2>1. Jobs' = {j} /\ job'[w] = j /\ \A x \in Workers : x = w
      BY <1>0, JobsStep, OneWorker
    <2>2. Posted' = Posted
      BY DEF Posted
    <2> QED BY <2>1, <2>2 DEF OnTheWay
  <1>2. \A m \in Posted : m.ticket \in Tickets /\ Dated(m.ticket, epoch) /\ m.data \in Answers
    BY <1>0, PostedTyped DEF TypeInv
  <1>3. \A m \in Posted : ~Recent(m.ticket, epoch')
    BY <1>2, OldTickets
  <1>4. ~Recent(j.ticket, epoch') /\ j.data \in Answers
    BY OldTickets DEF Tasks
  <1>5. GapNames'
    BY <1>1 DEF GapInv, GapNames, Names
  <1>7. GapScreen'
    <2>1. core.rev[core.profile] \in Nat /\ core.floor[core.profile] \in Nat
      BY <1>0, GapTypes
    <2> QED BY <2>1 DEF GapScreen, Reached
  <1>8. GapMail'
    BY <1>1, <1>3 DEF GapMail
  <1>9. GapJobs'
    BY <1>1, <1>4 DEF GapJobs, Covers
  <1>10. GapReads'
    BY <1>1, <1>4 DEF GapReads
  <1> QED BY <1>5, <1>7, <1>8, <1>9, <1>10 DEF GapInv

\* What is no history leaves nothing out.
LEMMA ToldWhole ==
    ASSUME NEW d \in Answers, NEW p, d.rev <= d.floor
    PROVE  Whole(p, d)
  BY DEF Answers, Whole

LEMMA ServedCovers ==
    ASSUME PagesTyped, PagesTyped', ClearInv, GapInv, Calm, Frozen,
           NEW kind \in Asked, NEW since \in Nat, NEW full \in BOOLEAN,
           kind \in History => since <= ask.rev /\ Reached(since)',
           kind = "clear" => core' = Wiped,
           NEW d \in Answers, d = Served(core', kind, since, full)
    PROVE  Covers(d)'
  <1> DEFINE p == core.profile
             new == Fresh(core', kind, since)
             f == core'.floor[p]
  <1>0. core' \in Cores /\ core'.profile = p /\ f \in Nat /\ core'.rev[p] \in Nat /\ ask.rev \in Nat /\ ask'.rev = ask.rev
    BY CalmCore, GapTypes DEF PagesTyped, Calm, Frozen
  <1>1. /\ d.kind = kind
        /\ AboutAskDj(kind) => d.rev = core'.rev[p] /\ d.floor = f /\ d.new = new
        /\ ~AboutAskDj(kind) => d.rev = 0 /\ d.floor = 0
    BY <1>0, ServedShape
  <1>2. kind # "action" => \A n \in (f + 1)..core'.rev[p] : n > since => <<p, n>> \in new
    BY <1>0, FreshShape
  <1> HIDE DEF new, f
  <1>3. CASE kind = "action"
    BY <1>0, <1>1, <1>3 DEF Covers, Whole
  <1>4. CASE kind \notin Tells
    <2>1. kind = "clear" => f = core'.rev[p]
      <3>1. core.floor \in [Profiles -> Nat] /\ p \in Profiles
        BY DEF PagesTyped, Cores
      <3> QED BY <3>1, WipedTyped DEF f
    <2>2. d.rev <= d.floor
      BY <1>0, <1>1, <1>4, <2>1 DEF AboutAskDj, Tells, History
    <2> QED BY <1>0, <1>1, <2>2, ToldWhole DEF Covers
  <1>5. CASE kind \in History
    <2>0. kind # "action" /\ AboutAskDj(kind)
      BY <1>5 DEF History, AboutAskDj
    <2>1. \A n \in (d.floor + 1)..d.rev : n > since => <<p, n>> \in d.new
      BY <1>1, <1>2, <2>0
    <2>2. CASE since <= f
      <3>1. \A n \in (d.floor + 1)..d.rev : n > since
        BY <1>0, <1>1, <2>0, <2>2
      <3> QED BY <1>0, <2>1, <3>1 DEF Whole, Covers
    <2>3. CASE ~(since <= f)
      <3>1. Settled'
        BY <1>0, <1>5, <2>3 DEF Reached, f
      <3>2. \A n \in (d.floor + 1)..d.rev : n > ask'.rev => n > since
        BY <1>0, <1>1, <1>5, <2>0
      <3>3. Partly(p, ask', d)
        BY <2>1, <3>2 DEF Partly
      <3> QED BY <1>0, <3>1, <3>3 DEF Covers
    <2> QED BY <2>2, <2>3
  <1> QED BY <1>3, <1>4, <1>5 DEF Tells

\* Core, the context and the cursors stand.
LEMMA CalmStill ==
    ASSUME PagesTyped, ClearInv, core' = core, epoch' = epoch, Settled => Settled',
           ask'.rev = ask.rev, ask'.met = ask.met
    PROVE  Calm /\ Frozen
  BY CoreStays DEF PagesTyped, Views, ClearInv, Calm, Frozen

LEMMA JobKnown ==
    ASSUME TypeInv, ClearInv, GapInv, NEW w \in Workers
    PROVE  LET j == job[w] IN
           /\ j \in Tasks /\ j.data \in Answers /\ j.ticket \in Tickets /\ Dated(j.ticket, epoch) /\ j.since \in Nat
           /\ Sound(core, j.data) /\ j.data.profile \in {core.profile, NoProfile}
           /\ j.step = "post" \/ Recent(j.ticket, epoch) => Covers(j.data)
           /\ j.data.kind \notin Tells => Whole(core.profile, j.data) /\ j.data.rev <= j.data.floor
  <1>1. job[w] \in Tasks /\ job[w].data \in Answers /\ job[w].ticket \in Tickets /\ job[w].since \in Nat
    BY DEF TypeInv, PagesTyped, Tasks
  <1>2. job[w] \in Jobs /\ job[w].data \in OnTheWay
    BY DEF Jobs, OnTheWay
  <1>3. Sound(core, job[w].data)
    BY <1>2 DEF ClearInv
  <1>4. job[w].data.kind \notin Tells => job[w].data.rev <= job[w].data.floor
    BY <1>3 DEF Sound
  <1> QED BY <1>1, <1>2, <1>3, <1>4, ToldWhole DEF TypeInv, GapInv, GapNames, GapJobs

LEMMA BeginGap == ASSUME TypeInv, TypeInv', CallInv, ClearInv, GapInv, NEW w \in Workers, Begin(w) PROVE GapInv'
  <1>0. PagesTyped /\ PagesTyped'
    BY DEF TypeInv
  <1>1. UNCHANGED <<core, cfg, disk, epoch, ask, mail>>
    BY DEF Begin
  <1>2. PICK j \in Tasks : /\ job' = [job EXCEPT ![w] = j]
                           /\ j.step = "call" /\ j.ticket = Context /\ j.since = ask.rev /\ j.data = NoData
    BY BeginShape
  <1>3. Calm /\ Frozen /\ Names
    BY <1>0, <1>1, CalmStill DEF Settled, Names, GapInv, GapNames
  <1>4. Covers(NoData)' /\ NoData.profile = NoProfile
    <2>1. NoData \in Answers /\ NoData.profile = NoProfile /\ NoData.rev <= NoData.floor
      BY NoDataEmpty DEF Empty
    <2>2. \A p : Whole(p, NoData)
      BY <2>1, ToldWhole
    <2> QED BY <2>1, <2>2 DEF Covers
  <1>5. j.since <= ask.rev /\ Reached(j.since)'
    BY <1>0, <1>1, <1>2 DEF GapInv, GapScreen, Reached, Settled, PagesTyped, Views
  <1>6. \A m \in Posted' : m \in Posted
    BY <1>1 DEF Posted
  <1>7. GapTurn(w, j)
    BY <1>2, <1>4, <1>5, <1>6 DEF GapTurn
  <1> QED BY <1>0, <1>3, <1>7, CalmTurn

LEMMA SendGap == ASSUME TypeInv, TypeInv', CallInv, ClearInv, GapInv, NEW w \in Workers, Send(w) PROVE GapInv'
  <1>0. PagesTyped /\ PagesTyped'
    BY DEF TypeInv
  <1>1. UNCHANGED <<cfg, disk, epoch, ask, mail>>
    BY DEF Send
  <1>2. job[w].step = "call" /\ call[w].kind \in Asked /\ call'[w].kind = call[w].kind
    BY SendShape
  <1>3. PICK j \in Tasks :
          /\ job' = [job EXCEPT ![w] = j] /\ j.step = "call"
          /\ j.ticket = job[w].ticket /\ j.since = job[w].since
          /\ core' \in {core, Wiped}
          /\ \/ j.data = job[w].data
             \/ /\ \E full \in BOOLEAN : j.data = Served(core', call[w].kind, job[w].since, full)
                /\ call[w].kind = "clear" => core' = Wiped
    BY SendShape
  <1>4. core' \in {core, Wiped}
    BY <1>3
  <1>5. Calm /\ Frozen /\ Names
    <2>1. Grows(core, core') /\ core'.profile = core.profile
      BY <1>0, <1>4, CoreStays, WipedGrows, WipedTyped DEF ClearInv
    <2> QED BY <1>0, <1>1, <2>1 DEF Calm, Frozen, Settled, Names, GapInv, GapNames, PagesTyped, Views
  <1>6. job[w].since \in Nat /\ job[w].data \in Answers /\ j.data \in Answers
    BY JobKnown DEF Tasks
  <1>7. Recent(j.ticket, epoch) /\ call[w].kind \in History => job[w].since <= ask.rev /\ Reached(job[w].since)
    BY <1>2, <1>3 DEF GapInv, GapReads
  <1>8. ASSUME Recent(j.ticket, epoch), call[w].kind \in History
        PROVE  job[w].since <= ask.rev /\ (\A s \in {job[w].since} : Reached(s)')
    <2>1. \A rev \in Nat : Reached(rev) => Reached(rev)'
      BY <1>0, <1>5, CalmReached
    <2> QED BY <1>6, <1>7, <1>8, <2>1
  <1>9. /\ j.data.profile \in {core.profile, NoProfile}
        /\ Recent(j.ticket, epoch) => Covers(j.data)'
    <2>1. CASE j.data = job[w].data
      <3>1. j.data.profile \in {core.profile, NoProfile} /\ (Recent(j.ticket, epoch) => Covers(j.data))
        BY <1>3, <2>1, JobKnown
      <3> QED BY <1>0, <1>5, <1>6, <3>1, CalmCovers
    <2>2. CASE j.data # job[w].data
      <3>1. PICK full \in BOOLEAN : j.data = Served(core', call[w].kind, job[w].since, full)
        BY <1>3, <2>2
      <3>2. j.data.profile = core.profile
        <4>1. core' \in Cores /\ core'.profile = core.profile
          BY <1>0, <1>5 DEF PagesTyped, Calm
        <4> QED BY <1>2, <1>6, <3>1, <4>1, ServedShape
      <3>3. ASSUME Recent(j.ticket, epoch) PROVE Covers(j.data)'
        <4>1. call[w].kind = "clear" => core' = Wiped
          BY <1>3, <2>2
        <4>2. call[w].kind \in History => job[w].since <= ask.rev /\ (\A s \in {job[w].since} : Reached(s)')
          BY <1>8, <3>3
        <4> QED BY <1>0, <1>2, <1>5, <1>6, <3>1, <4>1, <4>2, ServedCovers
      <3> QED BY <3>2, <3>3
    <2> QED BY <2>1, <2>2
  <1>11. \A m \in Posted' : m \in Posted
    BY <1>1 DEF Posted
  <1>12. j.step # "post"
    BY <1>3
  <1>13. GapTurn(w, j)
    BY <1>2, <1>3, <1>8, <1>9, <1>11, <1>12 DEF GapTurn, Reached
  <1> QED BY <1>0, <1>5, <1>13, CalmTurn

LEMMA LandGap == ASSUME TypeInv, TypeInv', CallInv, ClearInv, GapInv, NEW w \in Workers, Land(w) PROVE GapInv'
  <1> DEFINE d == job[w].data
  <1> HIDE DEF d
  <1>0. PagesTyped /\ PagesTyped'
    BY DEF TypeInv
  <1>1. UNCHANGED <<core, disk, epoch, ask, mail>> /\ cfg' \in {cfg, Adopted(d.profile)}
    BY DEF Land, d
  <1>2. job[w].step = "call" /\ d.kind = call[w].kind /\ call'[w] = NoCall
    BY LandShape DEF d
  <1>3. PICK j \in Tasks :
          /\ job' = [job EXCEPT ![w] = j] /\ j.step = (IF Unasked(call[w].kind) THEN "post" ELSE "check")
          /\ j.ticket = job[w].ticket /\ j.data = d
    BY LandShape DEF d
  <1>4. /\ d \in Answers /\ d.profile \in {core.profile, NoProfile}
        /\ Recent(job[w].ticket, epoch) => Covers(d)
        /\ d.kind \notin Tells => Whole(core.profile, d)
    BY JobKnown DEF d
  <1>5. cfg'.profile \in {core.profile, cfg.profile} /\ core.profile # NoProfile
    <2>1. Adopted(d.profile).profile \in {core.profile, cfg.profile}
      <3>1. d.profile \in Owners
        BY <1>4 DEF Answers
      <3> QED BY <1>0, <1>4, <3>1, AdoptedTyped
    <2> QED BY <1>0, <1>1, <2>1, GapTypes
  <1>6. Calm /\ Frozen /\ Names
    <2>1. (Settled => Settled') /\ Names
      BY <1>1, <1>5 DEF Settled, Names, GapInv, GapNames
    <2> QED BY <1>0, <1>1, <2>1, CalmStill
  <1>7. ASSUME j.step = "post" \/ Recent(j.ticket, epoch) PROVE Covers(j.data)'
    <2>1. CASE Recent(j.ticket, epoch)
      BY <1>0, <1>3, <1>4, <1>6, <2>1, CalmCovers
    <2>2. CASE j.step = "post"
      <3>1. d.kind \notin Tells
        BY <1>2, <1>3, <2>2 DEF Unasked, Ticketless, Playback, History, Tells
      <3> QED BY <1>3, <1>4, <1>6, <3>1 DEF Covers, Calm
    <2> QED BY <1>7, <2>1, <2>2
  <1>8. j.step # "call" /\ \A m \in Posted' : m \in Posted
    BY <1>1, <1>3 DEF Posted
  <1>9. GapTurn(w, j)
    BY <1>3, <1>4, <1>7, <1>8 DEF GapTurn
  <1> QED BY <1>0, <1>6, <1>9, CalmTurn

\* A job that ends.
LEMMA EndTurn ==
    ASSUME TypeInv, NEW w \in Workers, job' = [job EXCEPT ![w] = NoJob],
           \A m \in Posted' : m \in Posted \/ (m \in Letters /\ GapLetter(m))
    PROVE  GapTurn(w, NoJob) /\ NoJob \in Tasks
  BY EndShape, NoDataEmpty DEF GapTurn, Empty, Recent

LEMMA CheckGap == ASSUME TypeInv, TypeInv', CallInv, ClearInv, GapInv, NEW w \in Workers, Check(w) PROVE GapInv'
  <1> DEFINE d == job[w].data
  <1> HIDE DEF d
  <1>0. PagesTyped /\ PagesTyped'
    BY DEF TypeInv
  <1>1. UNCHANGED <<core, mail>> /\ \A m \in Posted' : m \in Posted
    <2>1. UNCHANGED <<core, mail>>
      BY DEF Check
    <2> QED BY <2>1 DEF Posted
  <1>2. /\ d \in Answers /\ d.profile \in {core.profile, NoProfile}
        /\ Recent(job[w].ticket, epoch) => Covers(d)
        /\ Dated(job[w].ticket, epoch)
    BY JobKnown DEF d
  <1>3. CASE job[w].ticket # Context
    <2>1. UNCHANGED <<cfg, disk, epoch, ask>> /\ job' = [job EXCEPT ![w] = NoJob]
      BY <1>3 DEF Check, End
    <2>2. Calm /\ Frozen /\ Names
      BY <1>0, <1>1, <2>1, CalmStill DEF Settled, Names, GapInv, GapNames
    <2> QED BY <1>0, <1>1, <2>1, <2>2, EndTurn, CalmTurn
  <1>4. CASE job[w].ticket = Context
    <2>1. PICK j \in Tasks : job' = [job EXCEPT ![w] = j] /\ j.step = "post" /\ j.ticket = job[w].ticket /\ j.data = d
      BY <1>4, CheckShape DEF d
    <2>2. Covers(d)
      BY <1>0, <1>2, <1>4, ContextTicket DEF Recent
    <2>3. /\ cfg' = Adopted(d.profile)
          /\ IF cfg' # cfg THEN ClearPages /\ disk' = cfg' ELSE UNCHANGED <<disk, epoch, ask>>
      BY <1>4 DEF Check, d
    <2>4. Adopted(d.profile) # cfg => d.profile = core.profile /\ cfg.profile # core.profile /\ Adopted(d.profile).profile = core.profile
      BY <1>0, <1>2 DEF Adopted, PagesTyped
    <2>5. CASE cfg' = cfg
      <3>1. UNCHANGED <<cfg, disk, epoch, ask>>
        BY <2>3, <2>5
      <3>2. Calm /\ Frozen /\ Names
        BY <1>0, <1>1, <3>1, CalmStill DEF Settled, Names, GapInv, GapNames
      <3>3. Covers(j.data)'
        BY <1>0, <1>2, <2>1, <2>2, <3>2, CalmCovers
      <3>4. GapTurn(w, j)
        BY <1>1, <1>2, <2>1, <3>3 DEF GapTurn
      <3> QED BY <1>0, <3>2, <3>4, CalmTurn
    <2>6. CASE cfg' # cfg
      <3>1. Whole(core.profile, d)
        BY <2>2, <2>3, <2>4, <2>6 DEF Covers, Settled
      <3>2. Names
        BY <2>3, <2>4, <2>6 DEF Names
      <3>3. epoch' = epoch + 1 /\ ask'.rev = 0
        BY <1>0, <2>3, <2>6, ClearedPagesTyped
      <3> QED BY <1>0, <1>1, <1>2, <2>1, <3>1, <3>2, <3>3, Reset
    <2> QED BY <2>5, <2>6
  <1> QED BY <1>3, <1>4

\* What a job posts when it is done, under the ticket it has or a new one.
LEMMA ResultLetter ==
    ASSUME TypeInv, ClearInv, GapInv, NEW w \in Workers, job[w].step = "post",
           core' = core, cfg' = cfg, disk' = cfg
    PROVE  LET m == [ticket |-> Ticket(w), data |-> job[w].data] IN m \in Letters /\ GapLetter(m)
  <1> DEFINE t == Ticket(w)
             d == job[w].data
             m == [ticket |-> t, data |-> d]
  <1>0. PagesTyped
    BY DEF TypeInv
  <1>1. /\ d \in Answers /\ d.profile \in {core.profile, NoProfile}
        /\ Covers(d)
        /\ d.kind \notin Tells => d.rev <= d.floor
    BY JobKnown
  <1>2. ASSUME t # <<>>, t[2] = core.profile, ~Settled' PROVE d.rev <= d.floor
    <2>1. CASE d.kind \in {"clear", "feedback"}
      BY <1>1, <2>1 DEF Tells, History
    <2>2. CASE d.kind \notin {"clear", "feedback"}
      <3>1. Settled'
        <4>1. t = Context
          BY <1>2, <2>2 DEF Ticket
        <4>2. cfg.profile = core.profile
          BY <1>0, <1>2, <4>1, ContextTicket
        <4> QED BY <4>2 DEF Settled
      <3> QED BY <1>1, <1>2, <3>1
    <2> QED BY <2>1, <2>2
  <1>3. m \in Letters /\ m.ticket = t /\ m.data = d
    BY <1>0, <1>1, TicketTyped, LetterTyped
  <1> HIDE DEF t, d, m
  <1>4. GapLetter(m)
    BY <1>1, <1>2, <1>3 DEF GapLetter, Recent
  <1> QED BY <1>3, <1>4 DEF m, t, d

LEMMA ProceedGap == ASSUME TypeInv, TypeInv', CallInv, ClearInv, GapInv, NEW w \in Workers, Proceed(w) PROVE GapInv'
  <1> DEFINE d == job[w].data
             m == [ticket |-> Ticket(w), data |-> d]
  <1> HIDE DEF d, m
  <1>0. PagesTyped /\ PagesTyped'
    BY DEF TypeInv
  <1>1. UNCHANGED <<core, cfg, epoch, ask>> /\ disk' = cfg
    BY DEF Proceed
  <1>2. job[w].step = "post" /\ call'[w].kind \notin History /\ (mail' = mail \/ mail' = Append(mail, m))
    BY ProceedShape DEF History, Post, m, d
  <1>3. PICK j \in Tasks : job' = [job EXCEPT ![w] = j] /\ j.step = "call" /\ j.data = d
    BY ProceedShape DEF d
  <1>4. d \in Answers /\ d.profile \in {core.profile, NoProfile} /\ Covers(d)
    BY <1>2, JobKnown DEF d
  <1>5. Calm /\ Frozen /\ Names
    BY <1>0, <1>1, CalmStill DEF Settled, Names, GapInv, GapNames
  <1>6. Covers(j.data)'
    BY <1>0, <1>3, <1>4, <1>5, CalmCovers
  <1>7. m \in Letters /\ GapLetter(m)
    BY <1>1, <1>2, ResultLetter DEF m, d
  <1>8. \A x \in Posted' : x \in Posted \/ (x \in Letters /\ GapLetter(x))
    <2>1. CASE mail' = mail
      BY <2>1 DEF Posted
    <2>2. CASE mail' = Append(mail, m)
      <3>1. Posted' = Posted \cup {m}
        BY <1>0, <1>7, <2>2, PostStep
      <3> QED BY <1>7, <3>1
    <2> QED BY <1>2, <2>1, <2>2
  <1>9. GapTurn(w, j)
    BY <1>2, <1>3, <1>4, <1>6, <1>8 DEF GapTurn
  <1> QED BY <1>0, <1>5, <1>9, CalmTurn

LEMMA FinishGap == ASSUME TypeInv, TypeInv', CallInv, ClearInv, GapInv, NEW w \in Workers, Finish(w) PROVE GapInv'
  <1> DEFINE m == [ticket |-> Ticket(w), data |-> job[w].data]
  <1> HIDE DEF m
  <1>0. PagesTyped /\ PagesTyped'
    BY DEF TypeInv
  <1>1. /\ UNCHANGED <<core, cfg, epoch>> /\ disk' = cfg /\ job[w].step = "post"
        /\ Posts(job[w].data, Ticket(w)) /\ job' = [job EXCEPT ![w] = NoJob]
    BY DEF Finish, Posts, End
  <1>2. ask'.rev = ask.rev /\ ask'.met = ask.met
    BY <1>0 DEF Finish, PagesTyped, Views
  <1>3. Calm /\ Frozen /\ Names
    <2>1. (Settled => Settled') /\ Names
      BY <1>1 DEF Settled, Names, GapInv, GapNames
    <2> QED BY <1>0, <1>1, <1>2, <2>1, CalmStill
  <1>4. m \in Letters /\ GapLetter(m)
    BY <1>1, ResultLetter DEF m
  <1>5. \A x \in Posted' : x \in Posted \/ (x \in Letters /\ GapLetter(x))
    <2>1. Posted' \subseteq Posted \cup {m, Playing}
      <3>1. Ticket(w) \in Tickets /\ job[w].data \in Answers
        BY <1>0, TicketTyped, JobKnown
      <3> QED BY <1>0, <1>1, <3>1, PostsStep DEF m
    <2>2. Playing \in Letters /\ GapLetter(Playing)
      BY PlayingShape DEF GapLetter, Recent
    <2> QED BY <1>4, <2>1, <2>2
  <1> QED BY <1>0, <1>1, <1>3, <1>5, EndTurn, CalmTurn

LEMMA ForgetGap == ASSUME TypeInv, TypeInv', CallInv, ClearInv, GapInv, NEW w \in Workers, Forget(w) PROVE GapInv'
  <1>0. PagesTyped' /\ NoJob \in Tasks /\ NoJob.ticket = <<>> /\ NoJob.step = "idle" /\ NoJob.data.profile = NoProfile
    BY NothingYet, NoDataEmpty DEF TypeInv, Empty
  <1>1. /\ UNCHANGED <<core, mail>> /\ epoch' = epoch + 1 /\ job' = [job EXCEPT ![w] = NoJob]
        /\ ask'.rev = 0 /\ cfg'.profile = NoProfile /\ disk'.profile = NoProfile
    BY DEF Forget, AskCleared, NoAsk
  <1> QED BY <1>0, <1>1, Reset DEF Names, Dated

LEMMA FailGap == ASSUME TypeInv, TypeInv', CallInv, ClearInv, GapInv, NEW w \in Workers, Fail(w) PROVE GapInv'
  <1> DEFINE m == [ticket |-> job[w].ticket, data |-> Excuse(job[w].kind)]
  <1> HIDE DEF m
  <1>0. PagesTyped /\ PagesTyped'
    BY DEF TypeInv
  <1>1. /\ UNCHANGED <<core, cfg, disk, epoch>> /\ job' = [job EXCEPT ![w] = NoJob]
        /\ mail' = mail \/ (job[w].kind \in {"dna", "settings", "insight"} /\ mail' = Append(mail, m))
    BY DEF Fail, End, Post, Excuse, m
  <1>2. ask'.rev = ask.rev /\ ask'.met = ask.met
    BY <1>0 DEF Fail, PagesTyped, Views
  <1>3. Calm /\ Frozen /\ Names
    <2>1. (Settled => Settled') /\ Names
      BY <1>1 DEF Settled, Names, GapInv, GapNames
    <2> QED BY <1>0, <1>1, <1>2, <2>1, CalmStill
  <1>4. ASSUME job[w].kind \in {"dna", "settings", "insight"} PROVE m \in Letters /\ GapLetter(m)
    <2> DEFINE e == Excuse(job[w].kind)
    <2>1. e \in Answers /\ e.profile = NoProfile /\ e.rev = 0 /\ e.floor = 0
      BY <1>4, ExcuseShape
    <2> HIDE DEF e
    <2>2. m \in Letters /\ m.data = e
      BY <2>1, JobKnown, LetterTyped DEF m, e
    <2>3. Covers(e)
      BY <2>1, ToldWhole DEF Covers
    <2> QED BY <2>1, <2>2, <2>3 DEF GapLetter
  <1>5. \A x \in Posted' : x \in Posted \/ (x \in Letters /\ GapLetter(x))
    <2>1. CASE mail' = mail
      BY <2>1 DEF Posted
    <2>2. CASE mail' # mail
      <3>1. Posted' = Posted \cup {m} /\ m \in Letters /\ GapLetter(m)
        BY <1>0, <1>1, <1>4, <2>2, PostStep
      <3> QED BY <3>1
    <2> QED BY <2>1, <2>2
  <1> QED BY <1>0, <1>1, <1>3, <1>5, EndTurn, CalmTurn

LEMMA WorkGap == ASSUME TypeInv, TypeInv', CallInv, ClearInv, GapInv, NEW w \in Workers, Work(w) PROVE GapInv'
  BY BeginGap, SendGap, LandGap, CheckGap, ProceedGap, FinishGap, ForgetGap, FailGap DEF Work

\* What is delivered, and what stays on its way.
LEMMA HeadKnown ==
    ASSUME TypeInv, ClearInv, GapInv, Deliver
    PROVE  LET m == Head(mail)
               d == m.data
               p == core.profile IN
           /\ m \in Letters /\ m.ticket \in Tickets /\ d \in Answers /\ d.rev \in Nat /\ d.floor \in Nat
           /\ d.profile \in {p, NoProfile} /\ (d.profile = NoProfile => d.rev = 0) /\ (d.cleared => d.new = {})
           /\ d.floor <= core.floor[p] \/ d.profile = NoProfile
           /\ d.rev <= core.rev[p]
           /\ Recent(m.ticket, epoch) => Covers(d) /\ (m.ticket[2] = p /\ ~Settled => d.rev <= d.floor)
           /\ OnTheWay' \subseteq OnTheWay /\ Posted' \subseteq Posted
  <1> DEFINE m == Head(mail)
             d == m.data
             p == core.profile
  <1>0. PagesTyped /\ mail # <<>> /\ mail' = Tail(mail) /\ job' = job
    BY DEF Deliver, TypeInv
  <1>1. /\ m \in Posted /\ m \in Letters /\ m.ticket \in Tickets /\ d \in Answers /\ d \in OnTheWay
        /\ Posted' \subseteq Posted
    BY <1>0, TakeStep, PostedTyped DEF OnTheWay
  <1> HIDE DEF m
  <1>2. d.profile \in {p, NoProfile} /\ Sound(core, d)
    BY <1>1 DEF ClearInv, GapInv, GapNames
  <1>3. core.rev[p] \in Nat /\ core.floor[p] \in Nat
    BY <1>0, GapTypes
  <1>4. /\ d.profile = NoProfile => d.rev = 0
        /\ d.floor <= core.floor[p] \/ d.profile = NoProfile
        /\ d.rev <= core.rev[p] /\ (d.cleared => d.new = {})
    BY <1>2, <1>3 DEF Sound
  <1>5. Recent(m.ticket, epoch) => Covers(d) /\ (m.ticket[2] = p /\ ~Settled => d.rev <= d.floor)
    BY <1>1 DEF GapInv, GapMail
  <1>6. OnTheWay' \subseteq OnTheWay /\ d.rev \in Nat /\ d.floor \in Nat
    BY <1>0, <1>1 DEF OnTheWay, Jobs, Answers
  <1> QED BY <1>1, <1>2, <1>4, <1>5, <1>6 DEF m

\* A message that an answer brings, or that an action's answer steps over, is met.
LEMMA MetAnswer ==
    ASSUME NEW a \in Views, NEW d \in Answers, NEW p,
           d.profile \in {p, NoProfile}, d.profile = NoProfile => d.rev = 0, d.cleared => d.new = {},
           NEW n \in (d.floor + 1)..d.rev, Whole(p, d) \/ <<p, n>> \in d.new
    PROVE  <<p, n>> \in Merged(a, d).met
  <1>1. n \in 1..d.rev
    BY DEF Answers
  <1>2. CASE d.kind = "action"
    <2>1. d.profile = p
      BY <1>1
    <2>2. <<p, n>> \in {d.profile} \X (1..d.rev)
      BY <1>1, <2>1
    <2> QED BY <1>2, <2>2, MergedShape
  <1>3. CASE <<p, n>> \in d.new
    <2>1. ~ClearAck(d)
      BY <1>3 DEF ClearAck
    <2> QED BY <1>3, <2>1, MergedShape
  <1> QED BY <1>2, <1>3 DEF Whole

\* The answer names another Profile: the pages start anew with it.
LEMMA RenameGap ==
    ASSUME TypeInv, TypeInv', ClearInv, GapInv, Deliver, Renames(Head(mail))
    PROVE  GapInv'
  <1> DEFINE m == Head(mail)
             d == m.data
             p == core.profile
             f == core.floor[p]
  <1>1. /\ m \in Letters /\ m.ticket \in Tickets /\ d \in Answers /\ d.rev \in Nat /\ d.floor \in Nat
        /\ d.profile \in {p, NoProfile} /\ (d.profile = NoProfile => d.rev = 0) /\ (d.cleared => d.new = {})
        /\ d.floor <= f \/ d.profile = NoProfile
        /\ d.rev <= core.rev[p]
        /\ Recent(m.ticket, epoch) => Covers(d)
        /\ OnTheWay' \subseteq OnTheWay /\ Posted' \subseteq Posted
    BY HeadKnown
  <1>2. /\ cfg' = (IF Applied(m) THEN Adopted(d.profile) ELSE cfg)
        /\ disk' = (IF Renames(m) THEN cfg' ELSE disk) /\ epoch' = (IF Renames(m) THEN epoch + 1 ELSE epoch)
        /\ ask' = (IF Fills(m) THEN Merged(Before(m), d) ELSE Before(m))
        /\ UNCHANGED <<core, job>> /\ Before(m) = NoAsk
    BY DeliverShape DEF TypeInv, Before
  <1> HIDE DEF m, f
  <1>0. PagesTyped /\ PagesTyped' /\ Renames(m)
    BY DEF TypeInv, m
  <1>3. Adopted(d.profile) # cfg /\ m.ticket = Context /\ Applied(m)
    BY <1>0 DEF Renames, Applied, ResultCurrent
  <1>4. d.profile = p /\ cfg.profile # p /\ p # NoProfile /\ Adopted(d.profile).profile = p
    <2>1. d.profile # NoProfile /\ p # NoProfile
      BY <1>0, <1>3, GapTypes DEF Adopted
    <2> QED BY <1>0, <1>1, <1>3, <2>1 DEF Adopted, PagesTyped
  <1>5. Whole(p, d) /\ d.floor <= f
    <2>1. Recent(m.ticket, epoch)
      BY <1>0, <1>3, ContextTicket DEF Recent
    <2> QED BY <1>1, <1>4, <2>1 DEF Covers, Settled
  <1>6. cfg' = Adopted(d.profile) /\ disk' = cfg' /\ epoch' = epoch + 1
    BY <1>0, <1>2, <1>3
  <1>7. core'.profile = p /\ Settled' /\ Jobs' = Jobs
    BY <1>2, <1>4, <1>6 DEF Settled, Jobs
  <1>8. \/ ask'.rev = 0
        \/ ask'.rev = d.rev /\ \A n \in (d.floor + 1)..d.rev : <<p, n>> \in ask'.met
    <2>1. NoAsk \in Views /\ NoAsk.rev = 0
      BY DEF NoAsk, Views
    <2>2. CASE Fills(m)
      <3>1. ask'.rev = d.rev
        BY <1>1, <1>2, <2>1, <2>2, MergedShape
      <3>2. \A n \in (d.floor + 1)..d.rev : <<p, n>> \in Merged(NoAsk, d).met
        BY <1>1, <1>5, <2>1, MetAnswer
      <3> QED BY <1>2, <2>2, <3>1, <3>2
    <2> QED BY <1>2, <2>1, <2>2
  <1>9. f \in Nat /\ core.rev[p] \in Nat
    BY <1>0, GapTypes DEF f
  <1>10. GapNames'
    BY <1>1, <1>4, <1>6, <1>7 DEF GapInv, GapNames
  <1>12. GapScreen'
    <2>1. ask'.rev <= core.rev[p]
      BY <1>1, <1>8, <1>9
    <2>3. \A n \in (f + 1)..ask'.rev : <<p, n>> \in ask'.met
      <3>1. CASE ask'.rev = 0
        BY <1>9, <3>1
      <3>2. CASE ask'.rev = d.rev /\ \A n \in (d.floor + 1)..d.rev : <<p, n>> \in ask'.met
        <4>1. \A n \in (f + 1)..d.rev : n \in (d.floor + 1)..d.rev
          BY <1>1, <1>5, <1>9
        <4> QED BY <3>2, <4>1
      <3> QED BY <1>8, <3>1, <3>2
    <2> QED BY <1>2, <1>7, <2>1, <2>3 DEF GapScreen, Reached, f
  <1>13. GapMail'
    <2>2. \A x \in Posted : ~Recent(x.ticket, epoch')
      BY <1>0, <1>6, PostedTyped, OldTickets DEF TypeInv
    <2> QED BY <1>1, <2>2 DEF GapMail
  <1>14. GapJobs' /\ GapReads'
    <2>1. \A j \in Jobs : ~Recent(j.ticket, epoch')
      BY <1>0, <1>6, OldTickets DEF TypeInv, PagesTyped, Jobs, Tasks
    <2>2. \A j \in Jobs : j.step = "post" => Whole(p, j.data)
      BY <1>4 DEF GapInv, GapJobs, Covers, Settled
    <2>3. \A w \in Workers : job[w] \in Jobs
      BY DEF Jobs
    <2> QED BY <1>2, <1>7, <2>1, <2>2, <2>3 DEF GapJobs, GapReads, Covers
  <1> QED BY <1>10, <1>12, <1>13, <1>14 DEF GapInv

\* The answer is of the context on screen: it is merged in, or shows nothing of Ask DJ.
LEMMA MergeGap ==
    ASSUME TypeInv, TypeInv', ClearInv, GapInv, Deliver, ~Renames(Head(mail))
    PROVE  GapInv'
  <1> DEFINE m == Head(mail)
             d == m.data
             p == core.profile
             f == core.floor[p]
  <1>1. /\ m \in Letters /\ d \in Answers /\ d.rev \in Nat /\ d.floor \in Nat
        /\ d.profile \in {p, NoProfile} /\ (d.profile = NoProfile => d.rev = 0) /\ (d.cleared => d.new = {})
        /\ d.floor <= f \/ d.profile = NoProfile
        /\ d.rev <= core.rev[p]
        /\ Recent(m.ticket, epoch) => Covers(d) /\ (m.ticket[2] = p /\ ~Settled => d.rev <= d.floor)
        /\ OnTheWay' \subseteq OnTheWay /\ Posted' \subseteq Posted
    BY HeadKnown
  <1>2. /\ cfg' = (IF Applied(m) THEN Adopted(d.profile) ELSE cfg)
        /\ disk' = (IF Renames(m) THEN cfg' ELSE disk) /\ epoch' = (IF Renames(m) THEN epoch + 1 ELSE epoch)
        /\ ask' = (IF Fills(m) THEN Merged(Before(m), d) ELSE Before(m))
        /\ UNCHANGED <<transport, core, job>> /\ Before(m) = ask
    BY DeliverShape DEF TypeInv, Before
  <1> HIDE DEF m, f
  <1>0. PagesTyped /\ PagesTyped' /\ ~Renames(m)
    BY DEF TypeInv, m
  <1>3. UNCHANGED <<cfg, disk, epoch, core, job, call>>
    BY <1>0, <1>2 DEF Renames, transport
  <1>4. f \in Nat /\ core.rev[p] \in Nat /\ ask.rev \in Nat /\ p # NoProfile /\ ask \in Views
    BY <1>0, GapTypes DEF f, PagesTyped
  <1>5. Fills(m) => /\ ask'.rev = (IF d.rev > ask.rev THEN d.rev ELSE ask.rev)
                    /\ ask.met \subseteq ask'.met
    BY <1>1, <1>2, <1>4, MergedShape
  <1>6. ~Fills(m) => ask' = ask
    BY <1>2
  <1>7. ask.rev <= ask'.rev
    BY <1>1, <1>4, <1>5, <1>6
  <1>8. Calm /\ Names
    BY <1>0, <1>3, <1>7, CoreStays DEF Calm, Names, Settled, GapInv, GapNames, ClearInv
  <1>9. GapNames'
    <2>1. \A e \in OnTheWay' : e.profile \in {p, NoProfile}
      BY <1>1 DEF GapInv, GapNames
    <2> QED BY <1>0, <1>8, <2>1, CalmNames
  <1>11. GapMail'
    BY <1>0, <1>1, <1>8, PostedLetter, CalmMail
  <1>12. GapJobs' /\ GapReads'
    BY <1>0, <1>3, <1>8, CalmJobs
  <1>13. CASE ~Fills(m)
    BY <1>0, <1>6, <1>8, <1>9, <1>11, <1>12, <1>13, FrozenScreen DEF GapInv, Frozen
  <1>14. CASE Fills(m)
    <2>1. /\ ask.rev <= core.rev[p] /\ (~Settled => ask.rev <= f)
          /\ \A n \in (f + 1)..ask.rev : <<p, n>> \in ask.met
      BY DEF GapInv, GapScreen, Reached, f
    <2>2. m.ticket = Context /\ Recent(m.ticket, epoch) /\ m.ticket[2] = cfg.profile
      <3>1. m.ticket = Context
        BY <1>14 DEF Fills, Applied, ResultCurrent
      <3> QED BY <1>0, <3>1, ContextTicket DEF Recent
    <2>3. Covers(d)
      BY <1>1, <2>2
    <2>4. ~Settled => d.rev <= f
      <3>1. CASE cfg.profile = p
        BY <1>1, <1>4, <2>2, <3>1
      <3>2. CASE cfg.profile # p
        <4>1. Adopted(d.profile) = cfg
          BY <1>0, <1>14 DEF Renames, Fills
        <4>2. d.profile = NoProfile
          BY <1>0, <1>1, <1>4, <3>2, <4>1 DEF Adopted, PagesTyped
        <4> QED BY <1>1, <1>4, <4>2
      <3> QED BY <3>1, <3>2
    <2>5. ~Settled => ask'.rev <= f
      BY <1>1, <1>4, <1>5, <1>14, <2>1, <2>4
    <2>6. ASSUME NEW n \in (f + 1)..ask'.rev PROVE <<p, n>> \in ask'.met
      <3>1. n \in Nat /\ n > f /\ (n <= ask.rev \/ (n > ask.rev /\ n <= d.rev))
        BY <1>1, <1>4, <1>5, <1>14, <2>6
      <3>2. CASE n <= ask.rev
        <4>1. n \in (f + 1)..ask.rev
          BY <1>4, <3>1, <3>2
        <4> QED BY <1>5, <1>14, <2>1, <4>1
      <3>3. CASE n > ask.rev /\ n <= d.rev
        <4>1. n \in (d.floor + 1)..d.rev
          BY <1>1, <1>4, <3>1, <3>3
        <4>2. Whole(p, d) \/ <<p, n>> \in d.new
          BY <2>3, <3>3, <4>1 DEF Covers, Partly
        <4>3. <<p, n>> \in Merged(ask, d).met
          BY <1>1, <1>4, <4>1, <4>2, MetAnswer
        <4> QED BY <1>2, <1>14, <4>3
      <3> QED BY <3>1, <3>2, <3>3
    <2>7. ask'.rev <= core.rev[p]
      BY <1>1, <1>5, <1>14, <2>1
    <2>8. core' = core /\ (Settled' <=> Settled)
      BY <1>3 DEF Settled
    <2>9. GapScreen'
      BY <2>5, <2>6, <2>7, <2>8 DEF GapScreen, Reached, f
    <2> QED BY <1>9, <1>11, <1>12, <2>9 DEF GapInv
  <1> QED BY <1>13, <1>14

LEMMA InitGap == Init => GapInv
  <1> SUFFICES ASSUME Init PROVE GapInv
    OBVIOUS
  <1>0. TypeInv
    BY InitType
  <1>1. /\ Posted = {} /\ mail = <<>> /\ ask = NoAsk /\ disk = cfg /\ cfg.profile = core.profile
        /\ \A j \in Jobs : j = NoJob
    BY DEF Init, Posted, Jobs
  <1>2. \A d \in OnTheWay : d = NoData
    BY <1>1, NothingYet DEF OnTheWay
  <1>3. NoData.profile = NoProfile
    BY NoDataEmpty DEF Empty
  <1>4. ask.rev = 0
    BY <1>1 DEF NoAsk
  <1>5. core.rev[core.profile] \in Nat /\ core.floor[core.profile] \in Nat
    BY <1>0, GapTypes DEF TypeInv
  <1>6. GapNames
    BY <1>1, <1>2, <1>3 DEF GapNames
  <1>7. GapScreen
    BY <1>4, <1>5 DEF GapScreen, Reached
  <1>8. GapMail /\ GapJobs /\ GapReads
    <2>1. \A w \in Workers : job[w] \in Jobs
      BY DEF Jobs
    <2>2. NoJob.step = "idle" /\ NoJob.ticket = <<>>
      BY NothingYet
    <2> QED BY <1>1, <2>1, <2>2 DEF GapMail, GapJobs, GapReads, Recent
  <1> QED BY <1>6, <1>7, <1>8 DEF GapInv

LEMMA NextGap ==
    ASSUME TypeInv, TypeInv', CallInv, ClearInv, ~count.moved => GapInv, [Next]_vars
    PROVE  ~count'.moved => GapInv'
  <1> SUFFICES ASSUME ~count'.moved PROVE GapInv'
    OBVIOUS
  <1>0. PagesTyped /\ PagesTyped' /\ count \in Counts
    BY DEF TypeInv, PagesTyped
  <1>1. ASSUME ~count.moved, UNCHANGED <<cfg, disk, epoch, ask, job, call, mail>>,
               Grows(core, core'), core'.profile = core.profile
        PROVE  GapInv'
    <2>1. GapInv
      BY <1>1
    <2>2. Calm /\ Frozen /\ Names
      BY <1>0, <1>1, <2>1 DEF Calm, Frozen, Settled, Names, GapInv, GapNames, PagesTyped, Views
    <2> QED BY <1>0, <1>1, <2>1, <2>2, CalmQuiet
  <1>2. ASSUME NEW kind \in Kinds, Start(kind) PROVE GapInv'
    <2>1. ~count.moved /\ GapInv
      BY <1>0, <1>2, CountUp DEF Start
    <2>2. UNCHANGED <<core, disk, epoch, ask, job, call, mail>> /\ cfg' \in {cfg, disk}
      BY <1>2 DEF Start, Wants, Synced, transport
    <2>3. (Settled => Settled') /\ Names
      BY <2>1, <2>2 DEF Settled, Names, GapInv, GapNames
    <2>4. Calm /\ Frozen
      BY <1>0, <2>2, <2>3, CalmStill
    <2> QED BY <1>0, <2>1, <2>2, <2>3, <2>4, CalmQuiet
  <1>3. CASE Retry
    <2>1. UNCHANGED <<core, cfg, disk, epoch, job, call, mail, count>>
      BY <1>3 DEF Retry, transport
    <2>2. ask'.rev = ask.rev /\ ask'.met = ask.met
      BY <1>0, <1>3 DEF Retry, PagesTyped, Views
    <2>3. GapInv
      BY <2>1
    <2>4. Calm /\ Frozen /\ Names
      BY <1>0, <2>1, <2>2, <2>3, CalmStill DEF Settled, Names, GapInv, GapNames
    <2> QED BY <1>0, <2>1, <2>3, <2>4, CalmQuiet
  <1>4. CASE OwnerChanged
    BY <1>0, <1>4, CountUp DEF OwnerChanged
  <1>5. CASE Deliver
    <2>1. GapInv
      BY <1>5 DEF Deliver
    <2> QED BY <1>5, <2>1, RenameGap, MergeGap
  <1>6. CASE Say
    <2>1. /\ UNCHANGED <<cfg, disk, epoch, ask, job, call, mail, count>> /\ Grows(core, core')
          /\ core'.profile = core.profile
      BY <1>0, <1>6, CoreMoves, SaidTyped DEF Say, ClearInv, transport
    <2> QED BY <1>1, <2>1
  <1>7. CASE Elsewhere
    <2>1. UNCHANGED <<cfg, disk, epoch, ask, job, call, mail>> /\ Grows(core, core')
      BY <1>0, <1>7, CoreMoves DEF Elsewhere, ClearInv, transport
    <2>2. core' = Wiped /\ ~count.moved
      BY <1>0, <1>7, CountUp DEF Elsewhere
    <2>3. core'.profile = core.profile
      BY <1>0, <2>2, WipedTyped
    <2> QED BY <1>1, <2>1, <2>2, <2>3
  <1>8. CASE Pair
    <2>1. UNCHANGED <<core, cfg, epoch, ask, job, call, mail>> /\ disk'.profile = disk.profile
      BY <1>0, <1>8 DEF Pair, transport, PagesTyped
    <2>2. GapInv
      BY <1>0, <1>8, CountUp DEF Pair
    <2>3. Calm /\ Frozen /\ Names
      BY <1>0, <2>1, <2>2, CalmStill DEF Settled, Names, GapInv, GapNames
    <2> QED BY <1>0, <2>1, <2>2, <2>3, CalmQuiet
  <1>9. CASE Link \/ UNCHANGED vars
    <2>1. UNCHANGED <<core, cfg, disk, epoch, ask, job, call, mail, count>>
      BY <1>9 DEF Link, Heal, Rollback, vars, transport
    <2>2. Grows(core, core')
      BY <1>0, <2>1, CoreStays DEF ClearInv
    <2> QED BY <1>1, <2>1, <2>2
  <1>10. ASSUME NEW w \in Workers, Work(w) PROVE GapInv'
    <2>1. GapInv
      BY <1>10 DEF Work, Begin, Send, Land, Check, Proceed, Finish, Forget, Fail
    <2> QED BY <1>10, <2>1, WorkGap
  <1> QED BY <1>2, <1>3, <1>4, <1>5, <1>6, <1>7, <1>8, <1>9, <1>10 DEF Next, Gui

\* While Core resolved one Profile and the Session's owner stayed, every message up to the
\* history revision that Core still keeps has been on screen since the revisions were last
\* reset, but for those the answer of an action stepped over: no poll, load, clear, trim,
\* empty answer, failure or pairing makes the cursor of the polls pass a message, for any
\* number of jobs (_apply_ask_dj_data, _clear_ask_dj_cache, _profile_read_result).
THEOREM NoMessageSkipped == Spec => []NoGap
  <1>1. Init => CallInv /\ TypeInv /\ ClearInv /\ (~count.moved => GapInv)
    BY InitCall, InitType, InitClear, InitGap
  <1>2. CallInv /\ TypeInv /\ ClearInv /\ (~count.moved => GapInv) /\ [Next]_vars
          => (CallInv /\ TypeInv /\ ClearInv /\ (~count.moved => GapInv))'
    <2>1. CallInv /\ TypeInv /\ ClearInv /\ [Next]_vars => (CallInv /\ TypeInv /\ ClearInv)'
      BY NextCall, NextType, NextClear
    <2> QED BY <2>1, NextGap
  <1>3. TypeInv /\ (~count.moved => GapInv) => NoGap
    <2> SUFFICES ASSUME TypeInv, GapInv PROVE NoGap
      BY DEF NoGap
    <2>1. \A n \in (core.floor[core.profile] + 1)..ask.rev : <<core.profile, n>> \in ask.met
      BY DEF GapInv, GapScreen
    <2>2. core.floor[core.profile] \in Nat /\ ask.rev \in Nat /\ MaxRev \in Nat
      BY GapTypes, PageBounds DEF TypeInv
    <2> QED BY <2>1, <2>2 DEF NoGap
  <1> QED BY <1>1, <1>2, <1>3, PTL DEF Spec
=============================================================================
