------------------------------ MODULE FastPath ------------------------------
(***************************************************************************)
(* How a request of the backend travels (ha.py, ha_websocket.py).          *)
(*                                                                         *)
(* HAClient tries its WebSocket fast path for a route that has one and     *)
(* falls back to HTTP.  A write that may have left the WebSocket is never  *)
(* sent again: the caller is told that the outcome is unknown.             *)
(***************************************************************************)
EXTENDS Naturals, Sequences

\* Mutant of WorkerCount: the pool has a second thread.
TwoWorkers  == 2
\* UI_WORKER_COUNT: every request of the backend is made by one thread.
WorkerCount == 1
Workers     == 1..WorkerCount

VARIABLES
    routes,    \* Core: are the djconnect/* WebSocket routes there now
    link,      \* WebSocketFastPath: cached commands or none, and whether it rests
    call       \* each thread's request: how far it is, how often Core carried it out

transport == <<routes, link, call>>

Stages == {"none", "websocket", "http", "answered", "uncertain", "lost", "refused"}

\* Requests that have a WebSocket route; history reads have only HTTP.
Routed(kind) == kind \notin {"poll", "load"}
Writes == {"clear", "action", "settings", "insight", "play", "feedback", "command"}
\* Mutant of ReplaySafe: clearing the history counts as a read.
ReplaySafeClear(kind) == kind \in {"poll", "load", "status", "queue", "dna", "feed", "clear"}
\* _replay_safe: reads; a second copy of one does no harm.
ReplaySafe(kind) == kind \in {"poll", "load", "status", "queue", "dna", "feed"}

\* Core carries out a request; how often matters for writes only.
Ran(c) == IF c.kind \in Writes THEN c.ran + 1 ELSE c.ran
\* What goes out for one request: device, Profile, language and token are the configuration's.
Request(kind, stage) == [stage |-> stage, kind |-> kind, ran |-> 0]
NoCall == Request("poll", "none")
Go(w, stage, ran) == call' = [call EXCEPT ![w].stage = stage, ![w].ran = ran]

\* _mark_unhealthy: a WebSocket failure rests the fast path for 30 seconds.
Unhealthy == link' = [link EXCEPT !.healthy = FALSE]

-----------------------------------------------------------------------------

\* can_handle: no commands yet means a session and the capabilities first; once
\* advertised they stay cached.
Open(w, kind) ==
    \/ /\ Routed(kind) /\ link.healthy
       /\ link.commands \/ routes
       /\ link' = [link EXCEPT !.commands = TRUE]
       /\ call' = [call EXCEPT ![w] = Request(kind, "websocket")]
    \/ /\ link' = IF Routed(kind) /\ link.healthy THEN [link EXCEPT !.healthy = FALSE] ELSE link
       /\ Routed(kind) /\ link.healthy => ~link.commands
       /\ call' = [call EXCEPT ![w] = Request(kind, "http")]

\* Before the message is sent nothing is at stake: session, connection, auth.
NotSent(w) ==
    /\ call[w].stage = "websocket"
    /\ Unhealthy
    /\ Go(w, "http", call[w].ran)

\* Sent, and no usable acknowledgement: nothing came back, it could not be read,
\* it said no, or Core no longer has the route.
Unconfirmed(w) ==
    /\ call[w].stage = "websocket"
    /\ \E ran \in {call[w].ran} \cup (IF routes THEN {Ran(call[w])} ELSE {}) :
          Go(w, IF ReplaySafe(call[w].kind) THEN "http" ELSE "uncertain", ran)
    /\ Unhealthy

Acknowledged(w) ==
    /\ call[w].stage = "websocket" /\ routes
    /\ Go(w, "answered", Ran(call[w]))
    /\ UNCHANGED link

\* The HTTP request: answered, refused as unauthenticated, or failed in any other
\* way, in which case Core may have carried it out.
Http(w) ==
    /\ call[w].stage = "http"
    /\ \/ Go(w, "answered", Ran(call[w]))
       \/ Go(w, "refused", call[w].ran)
       \/ \E ran \in {call[w].ran, Ran(call[w])} : Go(w, "lost", ran)
    /\ UNCHANGED link

Travel(w) == (NotSent(w) \/ Unconfirmed(w) \/ Acknowledged(w) \/ Http(w)) /\ UNCHANGED routes

\* The 30 seconds are over.
Heal   == ~link.healthy /\ link' = [link EXCEPT !.healthy = TRUE] /\ UNCHANGED <<routes, call>>
\* Core is rolled back to a release without the routes.
Rollback == routes /\ routes' = FALSE /\ UNCHANGED <<link, call>>

TransportInit ==
    /\ routes = TRUE
    /\ link = [commands |-> FALSE, healthy |-> TRUE]
    /\ call = [w \in Workers |-> NoCall]

\* WrittenOnce: a write is carried out by Core at most once however it travels
\* (session bootstrap, WebSocket, HTTP), and a write reported as done was done.
\* HAClient._try_websocket, WebSocketFastPath._exchange.
WrittenOnce == \A w \in Workers :
    /\ call[w].ran <= 1
    /\ call[w].stage = "answered" /\ call[w].kind \in Writes => call[w].ran = 1
=============================================================================
