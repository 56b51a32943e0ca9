---------------------------- MODULE CommandQueue ----------------------------
(***************************************************************************)
(* Commands on their way from Home Assistant to the touch UI, through      *)
(* command-event.json (client_api_daemon.py, app.py).                      *)
(*                                                                         *)
(* The daemon serves every request in a thread of its own; the thread      *)
(* reads the event file, writes the extended list to a temporary file that *)
(* all threads share, and renames it into place.  The UI process polls:    *)
(* it reads the file, unlinks it and runs what it read.  Each file system  *)
(* call is one step.  Files are told apart from their names, because a     *)
(* thread goes on writing to the file it opened after another renamed it.  *)
(***************************************************************************)
EXTENDS Naturals, Sequences, FiniteSets, Functions

CONSTANTS
    Requests,      \* number of command requests, numbered as they arrive
    MaxThreads,    \* requests Home Assistant has outstanding at a time
    Cap,           \* commands the file keeps (events[-20:])
    MaxKills       \* bound on restarts of the daemon and of the UI

ASSUME QueueBounds == Requests \in Nat /\ MaxThreads \in Nat /\ Cap \in Nat \ {0} /\ MaxKills \in Nat

VARIABLES
    disk,      \* event, tmp: the file each name stands for (0: none); body: what files hold
    thread,    \* one request each: its step, the list it will write, the file it opened
    poll,      \* the UI's poll: its step and the commands it read
    ran,       \* commands the UI executed
    log,       \* history: requests in the order their rename took effect
    dropped,   \* history: commands pushed out of the file by later ones
    hit,       \* history: commands that were in play while two accesses overlapped
    kills      \* restarts so far

queue == <<disk, thread, poll, ran, log, dropped, hit, kills>>

-----------------------------------------------------------------------------

Cmds     == 1..Requests
Empty    == <<>>          \* created or truncated, not yet written
Torn     == <<0>>         \* the end of a longer text behind a shorter one
Readable(b) == b # Empty /\ b # Torn

Steps    == {"unborn", "open", "write", "chmod", "replace", "secure", "done", "dead"}
Window   == {"open", "write", "chmod", "replace"}
Active   == Window \cup {"secure"}
Unborn   == [step |-> "unborn", events |-> <<>>, fd |-> 0]
NoPoll   == [step |-> "idle", got |-> <<>>]

Queued   == IF disk.event # 0 /\ Readable(disk.body[disk.event]) THEN disk.body[disk.event] ELSE <<>>
Busy     == {c \in Cmds : thread[c].step \in Window}
Polling  == poll.step = "unlink"
InPlay   == Busy \cup Range(Queued) \cup Range(poll.got)

\* Mutant of Kept: the oldest commands stay and the newest is dropped.
KeptOldest(s) == IF Len(s) <= Cap THEN s ELSE SubSeq(s, 1, Cap)
\* events[-20:]
Kept(s)  == IF Len(s) <= Cap THEN s ELSE SubSeq(s, Len(s) - Cap + 1, Len(s))

Overflow(s) == {s[i] : i \in {n \in DOMAIN s : n + Cap <= Len(s)}}

To(c, step) == thread' = [thread EXCEPT ![c].step = step]

-----------------------------------------------------------------------------
(* _write_command_event, _write_event_file: one request *)

\* What the file holds is read once; a missing or unreadable file counts as empty.
Look(c) ==
    /\ thread[c].step = "unborn" /\ \A d \in 1..(c - 1) : thread[d].step # "unborn"
    /\ Cardinality({d \in Cmds : thread[d].step \in Active}) < MaxThreads
    /\ thread' = [thread EXCEPT ![c].step = "open", ![c].events = Append(Queued, c)]
    /\ hit' = IF Busy # {} \/ Polling THEN hit \cup InPlay \cup {c} ELSE hit
    /\ UNCHANGED <<disk, poll, ran, log, dropped, kills>>

\* Mutant of Truncated: a temporary file left behind is not emptied.
Untruncated(b) == b
Truncated(b)   == Empty

\* The temporary file is created, or the one that is there is truncated.
Open(c) ==
    LET f == IF disk.tmp = 0 THEN c ELSE disk.tmp
    IN  /\ thread[c].step = "open"
        /\ disk' = [disk EXCEPT !.tmp = f, !.body[f] = Truncated(disk.body[f])]
        /\ thread' = [thread EXCEPT ![c].step = "write", ![c].fd = f]
        /\ UNCHANGED <<poll, ran, log, dropped, hit, kills>>

\* Written from the start of the file: what another thread wrote there may show behind it.
Write(c) ==
    LET f == thread[c].fd
    IN  /\ thread[c].step = "write" /\ To(c, "chmod")
        /\ \E b \in {Kept(thread[c].events)} \cup (IF disk.body[f] = Empty THEN {} ELSE {Torn}) :
             disk' = [disk EXCEPT !.body[f] = b]
        /\ UNCHANGED <<poll, ran, log, dropped, hit, kills>>

\* chmod of a name another thread renamed away raises, and the request gets no answer.
Chmod(c) ==
    /\ thread[c].step = "chmod" /\ To(c, IF disk.tmp = 0 THEN "dead" ELSE "replace")
    /\ UNCHANGED <<disk, poll, ran, log, dropped, hit, kills>>

\* Mutant of Renamed: the temporary name is kept.
LinkedOnly(d) == [d EXCEPT !.event = d.tmp]
Renamed(d)    == [d EXCEPT !.event = d.tmp, !.tmp = 0]

Replace(c) ==
    /\ thread[c].step = "replace"
    /\ IF disk.tmp = 0 THEN To(c, "dead") /\ UNCHANGED <<disk, log, dropped>>
       ELSE /\ To(c, "secure")
            /\ disk' = Renamed(disk)
            /\ log' = Append(log, c)
            /\ dropped' = dropped \cup Overflow(thread[c].events)
    /\ UNCHANGED <<poll, ran, hit, kills>>

\* The last chmod raises as well when the UI was faster; otherwise success, queued.
Secure(c) ==
    /\ thread[c].step = "secure" /\ To(c, IF disk.event = 0 THEN "dead" ELSE "done")
    /\ UNCHANGED <<disk, poll, ran, log, dropped, hit, kills>>

Handle(c) == Look(c) \/ Open(c) \/ Write(c) \/ Chmod(c) \/ Replace(c) \/ Secure(c)

-----------------------------------------------------------------------------
(* _poll_command_event *)

\* A file that cannot be parsed stays where it is.
PollRead ==
    /\ poll.step = "idle" /\ Queued # <<>>
    /\ poll' = [step |-> "unlink", got |-> Queued]
    /\ hit' = IF Busy # {} THEN hit \cup InPlay ELSE hit
    /\ UNCHANGED <<disk, thread, ran, log, dropped, kills>>

\* Whatever the name stands for by now goes.
Unlink ==
    /\ poll.step = "unlink"
    /\ disk' = [disk EXCEPT !.event = 0] /\ poll' = [poll EXCEPT !.step = "run"]
    /\ UNCHANGED <<thread, ran, log, dropped, hit, kills>>

Run ==
    /\ poll.step = "run"
    /\ ran' = Append(ran, Head(poll.got))
    /\ poll' = IF Len(poll.got) = 1 THEN NoPoll ELSE [poll EXCEPT !.got = Tail(@)]
    /\ UNCHANGED <<disk, thread, log, dropped, hit, kills>>

PollCommands == PollRead \/ Unlink \/ Run

-----------------------------------------------------------------------------
(* Restarts: systemd, the updater, a crash *)

KillDaemon ==
    /\ kills < MaxKills /\ kills' = kills + 1
    /\ thread' = [c \in Cmds |-> IF thread[c].step \in Active THEN [thread[c] EXCEPT !.step = "dead"]
                                                              ELSE thread[c]]
    /\ UNCHANGED <<disk, poll, ran, log, dropped, hit>>

KillUi ==
    /\ kills < MaxKills /\ kills' = kills + 1
    /\ poll' = NoPoll
    /\ hit' = IF poll.step = "run" THEN hit \cup Range(poll.got) ELSE hit
    /\ UNCHANGED <<disk, thread, ran, log, dropped>>

-----------------------------------------------------------------------------

QueueInit ==
    /\ disk = [event |-> 0, tmp |-> 0, body |-> [c \in Cmds |-> Empty]]
    /\ thread = [c \in Cmds |-> Unborn]
    /\ poll = NoPoll /\ ran = <<>> /\ log = <<>> /\ dropped = {} /\ hit = {} /\ kills = 0

QueueNext == (\E c \in Cmds : Handle(c)) \/ PollCommands \/ KillDaemon \/ KillUi
QueueSpec == QueueInit /\ [][QueueNext]_queue

\* The event timer of the UI keeps firing and a running thread keeps running.
FairQueueSpec ==
    /\ QueueSpec /\ WF_queue(PollCommands)
    /\ \A c \in Cmds : WF_queue(thread[c].step # "unborn" /\ Handle(c))

-----------------------------------------------------------------------------
(* Properties *)

\* The two names never stand for the same file, a thread writes only to a file it opened,
\* and the UI never runs an empty list (_write_event_file, _poll_command_event).
QueueTypeOK ==
    /\ disk \in [event : 0..Requests, tmp : 0..Requests,
                 body : [Cmds -> Seq(0..Requests)]]
    /\ disk.event # 0 => disk.event # disk.tmp
    /\ thread \in [Cmds -> [step : Steps, events : Seq(Cmds), fd : 0..Requests]]
    /\ \A c \in Cmds : thread[c].step \in Active \ {"open"} => thread[c].fd # 0
    /\ poll \in [step : {"idle", "unlink", "run"}, got : Seq(Cmds)]
    /\ (poll.step = "idle") = (poll.got = <<>>)
    /\ {ran, log} \subseteq Seq(Cmds) /\ dropped \cup hit \subseteq Cmds /\ kills \in 0..MaxKills

\* While no two accesses overlapped, the file is a queue: what was renamed into place and
\* not pushed out by the cap has run, is being run or is in the file, once and in order.
Line == ran \o (IF Polling THEN <<>> ELSE poll.got) \o Queued
Before(s, c, d) == \E i, j \in DOMAIN s : i < j /\ s[i] = c /\ s[j] = d
Fifo ==
    hit = {} =>
        /\ Range(Line) = Range(log) \ dropped
        /\ \A i, j \in DOMAIN Line : i < j => Line[i] # Line[j] /\ Before(log, Line[i], Line[j])

\* Whatever an earlier overlap or restart left behind, a command whose own way through
\* the file was not disturbed is run.
Delivered == \A c \in Cmds : (c \in Range(log)) ~> (c \in Range(ran) \cup dropped \cup hit)
=============================================================================
