# DJConnect Pi: specifications, model checking and proofs

DJConnect Pi is the touch client of DJConnect on a Raspberry Pi: a Qt/QML screen, a
local HTTP daemon that Home Assistant talks to, an updater, a watchdog and a nightly
maintenance job, all in Python under `src/src/djconnect_pi` (called `P/` below).  This
directory holds TLA+ models of the parts where the order of events matters, TLC
configurations for small instances, and proofs checked by TLAPS.  Every definition names
the lines it was written from in `PROJECT.json` (`map`).

Contents: [1 inventory](#1-inventory), [2 plan](#2-plan), [3 what is
modelled](#3-the-modules-and-the-code), [4 runs](#4-the-runs), [5 fairness](#5-fairness), [6
proofs](#6-proofs), [7 disagreements](#7-where-code-and-text-disagree), [8 not
modelled](#8-not-modelled).

## 1 Inventory

Processes, from the units in `systemd/`:

| process | program | state it keeps |
|---|---|---|
| `djconnect-client` | `P/app.py` + QML | everything on screen; writes `config.json`, reads the event files |
| `djconnect-api` | `P/client_api_daemon.py`, `P/client_api.py`, `P/web_portal.py` | pairing; writes `config.json`, `command-event.json`, `dj-response.json` |
| `djconnect-updater` (oneshot, timer) | `P/updater.py` | `/opt/djconnect/releases/*`, `current`, `updater-status.json` |
| `djconnect-watchdog` (oneshot, timer) | `P/health_watchdog.py` | a failure count on disk |
| `djconnect-maintenance` (oneshot, timer) | `P/maintenance.py` | none |
| `djconnect-update-ui` | `P/update_ui.py` | none; shows `updater-status.json` |

Inside the client the GUI thread runs the Qt event loop; executors run the HTTP work:
`_session_executor` (2 threads), `_question_executor` (1), the general pool, and one
thread per erasure, playback and artwork control.  Results come back as queued signals.

### Components, their state, operations and what makes them correct

* **Session screen** (`P/session_controller.py`, `P/session_transport.py`).  State: the
  ticket of each lane (`_running`, `_question_running`), `_serial`, `_view_epoch`,
  `_question_epoch`, `_owner_epoch`, the disclosed owner scope (`_bootstrap_*`), the
  panels (Session, Flow, archive, timeline, search), the pending question, its receipt and
  reply, the selection.  Operations: refresh, start, end, ask, load/page the archive, open
  and search a saved Session, select, focus, confirm a Profile, expire, apply a result.
  It shares the configuration object with the backend and with workers that write to it.
  *Hard*: results of two lanes in any order; End overtaking reads; views closed under a
  read; the binding changing at any moment, without a signal.  *Correct when*: what is on
  screen belongs to one owner and one Session, never goes back, and no lane stays busy.
* **Confirmed archive erasure** (`P/session_history_delete_control.py`,
  `P/session_history_delete.py`).  State: request, confirmation, pending attempt, block,
  recovery timer, the claim in the intent.  *Hard*: the POST can be lost, answered late or
  overtaken by a change of view; recovery reloads while it is unresolved.  *Correct when*:
  one explicit confirmation sends at most one POST; success is reported only when Core did
  it; no new erasure while the last one is unresolved under the same authority.
* **Updater** (`P/updater.py`) and **watchdog** (`P/health_watchdog.py`).  State: release
  directories with step marks, `current`, the status file, running services, the failure
  count.  *Hard*: power loss and failing commands anywhere; services down while a candidate
  is activated.  *Correct when*: `current` always runs, "complete" is true, the app returns.
* **Client API daemon and event files** (`P/client_api_daemon.py`, `P/app.py`).  The
  daemon acknowledges commands and appends them to `command-event.json`; the UI polls and
  unlinks.  *Hard*: handler threads and another process read, replace and unlink one file.
  *Correct when*: an acknowledged command is executed exactly once, or known to be dropped.
* **Configuration store** (`P/config.py`, saved by daemon, web portal and UI).  State: the
  file, the copies in the daemon, the GUI thread and its worker, the mDNS advertisement.
  *Hard*: whole-file saves from memory in two processes through one temporary file.
  *Correct when*: the file can always be read, both processes agree once all is quiet, a
  pairing that was given up stays given up, a new one is noticed, and the device is
  advertised exactly while it is unpaired.
* **Playback control** (`P/session_playback_control.py`) and **artwork preparation**
  (`P/session_artwork_prepare.py`).  State: request, lease of what was observed, block, a
  worker thread each.  *Hard*: the screen is hidden, shown again, re-read, ended or bound
  anew between two steps of a worker.  *Correct when*: an intent that was taken back is not
  sent, an uncertain one locks the controls until Core was read, and no worker stays.
* **Forecast and moment images** (`P/session_forecast.py`, `P/session_forecast_image.py`,
  `P/session_artwork.py`, `P/expiry_clock.py`).  State: the receiver's revisions, the
  gates' latches and floors, each pane's lease and worker.  *Hard*: grants arrive in any
  order and expire while pixels are fetched.  *Correct when*: what went away stays away,
  nothing lives longer than first granted, and the latest lease is not forgotten.
* **Shared settings** (`P/shared_settings.py`, shown by `P/app.py`).  State: the snapshot,
  one undecided change, the editor's draft.  *Hard*: other clients change the same
  settings, answers are lost, changes are carried out late, the Profile moves.  *Correct
  when*: nothing unseen is overwritten, nothing is sent twice, a reported save happened.
* **Backend pages and requests** (`P/app.py`, `P/ha.py`, `P/ha_websocket.py`).  State: one
  worker with its queue, busy flags, the Ask DJ cursors and messages, the pages of a
  Profile, the WebSocket's cached commands and health.  *Hard*: two paths per request, lost
  acknowledgements, results delivered after the Profile, the pairing or the history changed.
  *Correct when*: a write is carried out once, a cleared message stays cleared, no message
  is skipped, no page stays busy, and pages of two Profiles never meet.
* **Content deletion** (`P/session_content_delete.py`): builds delete intents; nothing calls it.
* **Read projections** (`P/session_projection.py`, `P/session_history_view.py`,
  `P/session_current_reply.py`, `P/artwork_palette.py`): pure validation and colours.
* **Touch UI** (QML), **games**, **texts**, **web portal pages**, **maintenance**,
  **installation scripts**, **delivery tooling**: see section 8.

Who calls whom: QML calls slots and reads `state`; slots launch workers; a worker calls
`SessionTransport`, which checks the binding before and after each exchange; results
return through `_ready`/`ready`; the backend's other workers (`P/ha.py`) write the Profile
Core resolved into the configuration that the binding is computed from; the daemon's saves
reach the UI through `_sync_config_from_disk`; the updater stops and starts the services
and the watchdog reboots.

The hazards, each at its line, with the property that covers it or the reason none does, are
`hazards` in `PROJECT.json`.

## 2 Plan

| # | module | composes / refines | state |
|---|---|---|---|
| 1 | `SessionController`, `SessionControllerProofs` | UI, workers and Core in one module: the fence reads the UI's fields | done |
| 2 | `HistoryDelete`, `HistoryDeleteProofs` | implements `ErasurePromise` (`ErasurePromiseProofs`) | done, refinement checked by TLC and proved |
| 3 | `Updater`, `UpdaterProofs` | updater, disk, services, watchdog | done |
| 4 | `CommandQueue`, proofs in `SharedSettingsProofs` | daemon threads, the command file, the UI's poll | done |
| 5 | `ConfigStore`, `ConfigStoreProofs` | daemon, GUI thread and worker over one file, mDNS | done |
| 6 | `SharedSettings`, `SharedSettingsProofs` | client, worker, backend, Core | done |
| 7 | `SessionControls`, `SessionControlsProofs` | playback control, artwork preparation, the owner they exclude | done |
| 8 | `SessionImages`, proofs in `SessionControlsProofs` | receiver, gates, panes, workers, the clock | done |
| 9 | `FastPath`, `ProfilePages`, `ProfilePagesProofs` | `ProfilePages` extends `FastPath`: every job sends its requests through it | done |
| 10 | Ask DJ ordering, paging windows, status classification | pure operators against reference definitions | not begun |

Every invariant and every action property that a passing run checks, and the refinement, is
also a theorem, `CurrentRunnable` under a hypothesis (section 6); what is left to TLC is
liveness.  `CommandQueue` and `SessionImages` have names of their own (`QueueSpec`,
`ImagesSpec`, `QueueTypeOK`, `ControlsTypeOK`, `ImagesTypeOK`, ...), since one module of
proofs extends them together with another component.

## 3 The modules and the code

### SessionController

| variable | code |
|---|---|
| `ui` | the fields of `SessionController`, one record component each (`running` = `_running`, `act` = `_running_action`, `qRunning`, `qEpoch`, `viewEpoch`, `ownerEpoch`, `lastRead` = `_last_current_read`, `scope` = `_bootstrap_binding/_owner/_private`, ...), and `backend.cfg` as `ui.cfg` |
| `jobs` | workers submitted and unfinished; `step` is the next HTTP exchange |
| `ready` | the queued signal `_ready` |
| `core` | Home Assistant Core: which Profile the device is mapped to, each Profile's live Session, who owns each Session |

`Launch`, `TakeTicket`, `NewJob` are `_launch`; `Launch` takes its early returns in the
order of the code.  `ApplyRead` and `ApplyQuestion` are `_apply` with its checks as named
operators (`TicketMatches`, `SameQuestion`, `StillBound`, `SameView`) and its branches as
`ClearAll`, `InstallCurrent`, `InstallArchive`.  `Expire` runs at the end of an applied
result, as in the code.  `Invalidate`, `Withdraw`, `ClearArchive` are the methods of those
names.  A worker (`Write`, `ReadActive`, `Probe`, `ReadCaps`, `ReadFlow`, `ReadArchive`)
makes one exchange per step, so anything may happen between two exchanges; the fence after
an answer and the one before the next request are one, since nothing lies between.
`Write` may commit in Core and still fail, which is a lost answer.

A panel's content is `[owner, sid, rev, view]`: whose data, of which Session, as of which
change in Core, asked under which view.  The last two are what the ordering and view
properties compare; the program does not compute with them.

Abstractions.  Demo mode is left out.  The busy flags of the three sibling controls are a
free choice where they matter (`blocked` in `Reconcile`).  Deadlines are a free choice:
any panel in `Expirable` may be gone when `_expire` runs.  A shown Session counts as
active.  The `confirmed` marker of a receipt and `receipt_update` are left out: they
decide a wording.  The re-validation of archive rows at apply time is part of expiry.
`denied` and `unpaired` are one outcome.  Page cursors, trails and reading positions are
left out; that a page needs a cursor is not a guard here, so more reads happen than in the
program.

### HistoryDelete, ErasurePromise

`ctl` is `HistoryDeleteControl`, `own` the owner's fields its `basis` and `valid` read,
`job` its one worker, `done` its signal, `core` Core's archive and operations.  The worker
takes `_fresh`, `claim`, the mark `posted`, the POST and its answer as separate steps, so
the GUI thread may withdraw the authority between the last `valid` and the mark.  Every
owner action that ends in `changed` runs `sync` in the same step; slots that do not emit
(`cancelHistoryDelete`, `set_visible`) leave the sync to `ReadState`.  `recover` is two
steps, the slot and the timer callback.

`ErasurePromise` says what the control owes its user: one grant, at most one POST, honest
reports, and no second grant while the first is unsettled unless the owner's authority was
withdrawn in between.  The last clause is not a nicety: losing focus calls
`hide(reset=True)`, which forgets the attempt.  The promise takes that for a withdrawal, so
it permits what the code does there (confirming the next erasure while the forgotten one is
unresolved) and no property catches it.
`KeepsPromise` is the refinement, with the mapping in `HistoryDelete`.

Abstractions.  `serial` identifies launches.  The two reads of `_fresh` see Core at one
instant.  Revision conflicts are refusals.  A lifetime (view deadline, snapshot expiry,
the journal window of an operation) is one tick of a bounded clock.  Of `status` only
"deleted" is kept, as `reported`.  Owner reads always answer.  `shutdown` is left out.

### Updater

`disk` is what survives power loss: release directories as sets of parts (`Parts`), step
marks, `current`, modification order, the status and the watchdog's count.  `proc` is the
updater's process with its phase; `world` is what runs and what is published.  `Crashes`
loses power or kills the updater at any step; an unpack cut short leaves any subset; a
removal (`Remnants`) takes entries in any order, but empties one directory before it goes on
to the next, as `shutil.rmtree` does; `Fault` is a command that raises, with the `finally`
block and the `except` clause that follow.  `Boot` starts the services enabled in `current`;
the watchdog counts failures and reboots at `Threshold`.  `RunOnce` runs a command whose
mark is missing and then writes the mark; the pair is two steps.

Abstractions.  Download and checksum are one step.  The services the updater stops and
starts are one, `app`.  The failure count stops at `Threshold`, after which it decides
nothing.

### CommandQueue

| variable | code |
|---|---|
| `disk` | the files behind `command-event.json` (`event`) and its `.tmp` (`tmp`), and what each file holds |
| `thread` | the daemon's handler threads, one request each: the next call, the list it built, the file it has open |
| `poll` | the UI's poll: read but not yet unlinked, or running what it read |
| `ran`, `log`, `dropped`, `hit` | histories: executed commands, renames in order, commands pushed out by the cap, commands in play when two accesses overlapped |

`Look` to `Secure` are the file system calls of `_write_command_event` and
`_write_event_file` in their order, one step each; `PollRead`, `Unlink`, `Run` are those of
`_poll_command_event`.  A file is not its name: a thread that opened the temporary file
goes on writing to it after another thread renamed it, and writing a shorter text over a
longer one leaves the end of the longer (`Torn`).  A `chmod` or a rename of a name that is
gone raises and the request gets no answer (`dead`), even when its command is already in
place: Home Assistant may then see a failure for a command that runs.

`hit` marks what an overlap of two accesses can disturb.  `Fifo` says that the file is a
queue until the first overlap, at every file system call and across restarts of either
process: what was renamed into place (`log`) and not pushed out by the cap (`dropped`) is
in `Line`, that is, has run, is being run or is in the file, each once and in the order of
the renames (`Before`).  `Delivered` says the same of every single command that no overlap
touched, whatever an earlier overlap or restart left on disk; what happens inside an
overlap is section 7's.

Abstractions.  Reading a small file is one step.  A thread serves one request and requests
are numbered in the order their threads read the file.  A list is a sequence of commands;
what a command does in the UI, and an exception while it does it, are left out.  The DJ
response file and the screenshot handshake, which use the same writer, are left out.

### ConfigStore

| variable | code |
|---|---|
| `disk` | `config.json` and its `.tmp`, each a whole configuration, empty, torn or absent |
| `save` | the `save_config` call of every thread: open, write, replace, one step each |
| `thread`, `copy`, `advert` | the daemon's requests, `ClientAPIState.cfg`, the mDNS registration |
| `ui` | `backend.cfg` and the worker's exchange |
| `event` | a settings command waiting in `command-event.json` |
| `disturbed`, `dropped`, `owner` | histories: two accesses met; tokens and codes the UI gave up; who changed the pairing last |

`Arrive`, `Change`, `Command`, `MdnsLoad`, `RefreshMdns`, `Notify` are a request of the
daemon with the reloads it makes; `Refresh` to `SetLocal` and `Sync` are the UI's timer, the
ends of its exchange, `_forget_pairing`, the setters and `_sync_config_from_disk`, which
many slots and the poll timer call, so that `Sync` may happen at any time. `RestartDaemon`
and `RestartUi` fall between any two file system calls.

Abstractions.  A value is the number of the input that brought it.  A failing write (full
disk) is left out.  `pair` and `setHaUrl` of the backend are not called by the QML and are
left out.  The status and devices exchanges of one refresh are two `Refresh`es.  A daemon
killed after its save and before its event leaves the UI untold, which counts as a
disturbance.  `MaxThreads` is 1 in the run: requests of the daemon follow one another, and
meet the two savers of the UI.

### SharedSettings

`client` is `SharedSettingsClient`, `job` the worker's call step by step (`Begin`,
`Recover`, `Get`, `Update`, `Patch`, `Answer`, `Resolve`), `screen` what the backend holds
(settings, epoch, draft and the context it noticed last), `core` the revisions and what
became of every change.  A change leaves with the revision the user saw; Core may carry it
out any time later, or lose it, and forgets its fate after a while (`Expire`).

Abstractions.  A snapshot is its revision and edit token in one value, the contexts are
address, token, Profile and owner witness taken together, patches are not validated.  How
Core executes and forgets is external.  A context that is left and comes back while a read
is queued is not noticed, and `saveSharedSettings` (`P/app.py:330`) starts a job without
looking whether the context moved, so the result of a save may be of a context the screen
has not noticed yet: `back` records both, and `ShownForContext` speaks of the rest.

### SessionControls

`pc` and `w` are `PlaybackControl` and its worker, `art` and `v` are `ArtworkPreparation`
and its worker, `owner` is what both read of `SessionController`, `core` what is playing.
An item stands for Session, track, state and moment, which is what `reference()` and
`prepare_reference()` compare.  Each exchange of a worker is a step, so the screen can
hide, show, re-read, end or move to another binding between the last check and the write.
`Heard` is a `changed` signal of the owner; actions of the owner that emit run `sync` in
the same step.

Abstractions.  The knobs differ as far as their reads do (the outputs need an inventory)
and two positions are enough to tell a changed observation.  Rate limits, labels, volume
steps and shutdown are left out.

### SessionImages

`text` is `ForecastReceiver`, `gate` `ImageGate`, `latch` `ArtworkGate`, `pane` and `job`
the two panes with their workers.  `Apply` is one result applied by the owner with the
`sync` that follows it: receiver, gates and panes change in one step as in the code.  A
read renews, shortens, replaces, ends or garbles a grant; time passes in between; `Fetch`
and `FinishFetch` are a worker's exchange and its delivery.  `InvalidateScreen` resets the
receiver and takes the Session off the screen, after which a read may bring the same Session
again or the next one.  `Rebind` is a change of the language or the Profile: a gate compares
binding and Session, so its context is no longer the present one (`Other`), and a pane still
holds the lease of the former binding (`own`) until the next `changed`.  `over` is the
history `GoneStaysGone` needs: what was on screen and was withdrawn, for the text and for
each pane since its receiver or gate last began anew.

Abstractions.  The eight seconds a fetch may take, byte and size checks, the caps of 32
keys and attempts, eligibility by lifecycle and private scope, and jumps of the wall clock
are left out; a Start or End under way makes a pane ineligible as hiding it does.  Losing
the focus and getting it back is one step.  A binding is the transport's present one or
another: a change of the language and back before the next `changed` counts as another,
while the code, which compares values, would not notice it.  `only` names the one pane Core
grants something for in a behaviour: the panes share the clock and the Session, not their
gates.

### FastPath, ProfilePages

| variable | code |
|---|---|
| `routes`, `link` | Core's WebSocket routes; cached commands and health of `WebSocketFastPath` |
| `call` | each worker's request: how far it is, how often Core carried it out |
| `cfg`, `disk` | the configuration the backend shares with `HAClient`, and the file |
| `queue`, `job`, `mail` | the executor's queue, the job with its ticket, the queued signals |
| `lanes`, `ask`, `page`, `epoch` | busy flags, Ask DJ cursors and messages, whose content each page shows, the owner epoch |
| `count.moved`, `cleared` | histories: Profile or owner moved; messages whose clearing was shown |
| `ask.met` | history: messages that have been on screen since the revisions were last reset, or that an action's answer stepped over |

`Open` and `Travel` are `_try_websocket` and the HTTP request: a failure before anything
was sent falls back, an unconfirmed write ends as uncertain, an unconfirmed read is sent
again over HTTP.  `Start` is a slot or a timer with its guards; `Begin` to `Fail` are the
worker (`_run` and the methods it calls): `Land` writes the answer's Profile into the
shared configuration, `Check` compares the ticket, `Post` emits, `Forget` is
`_forget_pairing`; `Deliver` is the GUI's side with `_profile_result_current` and
`_apply_ask_dj_data`.  The 16 kinds of job differ in their requests, their flags and where
their result goes (`Requests`, `Lane`, `Raised`, `Ticketless`, `Unasked`, `Forgets`).

An answer about Ask DJ carries the messages it brings, both revisions and what Core no
longer keeps (`Served`).  `Merged` is what `_apply_ask_dj_data` makes of it: a clear that
was acknowledged, or any answer that says success with a clear revision and brings no
messages (`ClearAck`), empties the screen and ends there; a newer clear revision empties it
and goes on; messages that Core trimmed go; the answer's are merged in; the revisions only
grow.  Whether an answer says success with its clear revision is a free choice (`full`).

Abstractions.  The pool has one thread (`UI_WORKER_COUNT`).  `_busyReady` is part of the end
of a job.  The three reads of a status refresh are one.  Contents of the queue, the lists
and playback and optimistic values are left out, and so are session tokens, the disabled
switch, the version mismatch (426), demo mode, an explicit Profile, an unexpected exception
in the poll's worker (`P/app.py:2068`), and commands sent while unpaired.  A trim says which
messages Core no longer keeps; that the code may be told a number instead, and then counts
on its own list, decides only what stays on screen, not what `NoGap` speaks of.
`playMediaItem`'s second read stands for the context read too.  `NoGap` speaks of the time
while Profile and owner stay, and of what has been on screen, not of what is (section 7):
after a move a poll's answer is dropped until a job of another kind has saved the new
Profile.

## 4 The runs

| run | asks | instance |
|---|---|---|
| `session_owner` | `ScopeOwnsScreen`, `InstalledForCurrentOwner`, `DismissedStaysDismissed` | 2 Profiles, one pairing, remap and resolve at any time, Start, End and every kind of archive read, 3 tickets, 2 view epochs, 2 changes in Core: a read launched for one owner or view can be delivered after two changes of either |
| `session_question` | `FlowOfSession`, `QuestionOfSession`, `SessionInv`, `NeverAnOlderSession` | 4 tickets: a read, a question, End over both and a refresh, or a search of the archive paged on; a foreign client ends and restarts |
| `session_tickets` | `TicketReturns` | 2 tokens, both failures, 2 launches: enough for a lane to be taken, invalidated and taken again while the first job is still out |
| `history_delete` | `TypeOK`, `ErasedNotShown`, `KeepsPromise` | 2 confirmations, 5 launches, 2 view epochs, one pairing that may be lost and return, one saved Session |
| `updater` | `CurrentRunnable`, `CompleteIsTrue`, `AppComesBack` | 3 releases offered in order, 2 crashes, 1 failing command, watchdog threshold 2 |
| `command_queue` | `QueueTypeOK`, `Fifo`, `Delivered` | 3 commands, 2 threads, the cap lowered from 20 to 2, 1 restart of either process: a replace can fall between the UI's read and its unlink, two threads can share the temporary file, and the third command meets the cap |
| `config_store` | `AlwaysReadable`, `SettingsAgree`, `ResetSticks`, `Discoverable`, `PairingNoticed` | 3 inputs of any kind (pair, reset and pair again; or settings from both sides), 1 restart at any file system call |
| `shared_settings` | `ReplacesWhatWasSeen`, `OneUndecided`, `SavedMeansAccepted`, `ShownForContext`, `LaneReleased` | 2 contexts, 2 changes of the user, 1 of another client, 2 moves: a change can be lost, executed late, forgotten by Core, or left behind in another context; deadlock is checked |
| `session_controls` | `ControlsTypeOK`, `LockedUntilRead`, `MediaOfShown`, `RevokedNeverSent`, `JobsEnd` | volume and outputs, 3 items, 1 move of the binding, 1 turn by another client |
| `session_images` | `ImagesTypeOK`, `GoneStaysGone`, `NeverProlonged`, `LatestIsTried` | 2 revisions with 2 contents, 2 artworks, 2 ticks of the clock, one Session that may be lost and read again under a binding that may change; the theorems cover the change to another Session |
| `profile_pages` | `WrittenOnce`, `ClearedStaysCleared`, `NoGap`, `LanesHeld` | 2 Profiles, 2 jobs among a poll, a clear, an Ask DJ action, a Discover item, a status refresh and playback of an item, 3 messages each of which Core keeps 2, 2 pairings, 1 move: a read before a clear or a trim, an answer that brings nothing, a pairing forgotten and made again |
| `profile_pages_finding` | `OneProfileShown`, section 7 | 4 jobs among polls, status and Music DNA |

All bounds are constants used only in guards (`MaxSerial`, `MaxView`, `MaxRev`,
`MaxCrashes`, `MaxInputs`, `MaxJobs`, ...).  The session runs split the slots between them
because the product of all slots is out of reach; each slot and each branch of `_apply`
fires in at least one.  Deadlock checking is off where the bounds end the behaviours; in
`shared_settings` polls never end and it is on.  `profile_pages` uses six kinds of job,
which between them take every action; all 16 are covered by its four theorems (section 6).

What some of the properties mean for a user.  `InstalledForCurrentOwner`: a result shows up
only for the owner the device has when it arrives, which is the disclosed scope if there is
one after the result was applied; a Start or End result drops the scope it was launched
under (`P/session_controller.py:1354`) and then counts for the Profile bound now.
`NeverAnOlderSession`: ending a Session cannot be undone on screen by the read it overtook.
`DismissedStaysDismissed`: a page asked for in a view that was left never shows up in the
next.  `KeepsPromise`: an erasure whose answer was lost cannot be confirmed again before its
fate is known, under the same authority.  `CurrentRunnable`: wherever the power fails, the
device boots into a release that has everything it needs.  `ResetSticks`: who disconnects
the device on its screen does not find it connected again because the daemon had an older
copy.  `ReplacesWhatWasSeen`: saving a form never overwrites what another client changed
since it was opened.  `LockedUntilRead`: once the user is told that a write is uncertain,
nothing is sent before Core was read.  `RevokedNeverSent`: leaving the screen before the tap
was checked takes the tap back.  `GoneStaysGone`: a withdrawn Forecast or picture does not
return with a late read.  `WrittenOnce`: a tap is one command, whichever way the network
breaks.

`Fifo` and `Delivered` speak of commands no overlap disturbed, and so do the properties of
`ConfigStore` (`disturbed`): the code has no lock there, and inside an overlap the files may
be torn, a save lost or an exception raised.  `SettingsAgree` compares one option, in the UI
and in the file; the daemon reads the file again for each request.  What holds is that an
overlap leaves nothing behind that hurts later commands (`Delivered`), and that a kill at
any point of a single save does no harm (`AlwaysReadable`).

Each property of a passing run has a mutant (`mutants` in `PROJECT.json`): a definition
next to the real one that makes a plausible mistake, under which TLC finds the property
violated.  Mutants are commented as such where they stand.

## 5 Fairness

Weak fairness only, of program steps; nothing is assumed of the user or of Core, and
crashes, lost answers and moves are bounded and not fair.

* `SessionController!FairSpec`: the GUI thread keeps delivering posted results and each
  executor keeps advancing some job.  Exchanges have a timeout (`SessionTransport.timeout`,
  8 s), so a request ends in an answer or an error; the executors are ordinary thread
  pools; `_ready` is a queued signal of a running event loop.
* `CommandQueue!FairQueueSpec`: the UI's event timer keeps firing and a handler thread that has
  started keeps running.
* `Updater!FairSpec`: the updater's process proceeds while it runs, and the
  watchdog's timer keeps firing.
* `ConfigStore!FairSpec`: the UI's refresh timer keeps firing, its exchange ends within its
  timeout, and a thread inside `save_config` goes on.
* `SharedSettings!FairSpec`, `SessionControls!FairSpec`, `SessionImages!FairImagesSpec`: the
  worker threads run, their exchanges end, and Qt delivers their results.  The UI's own
  timers and slots are not fair.

`HistoryDelete` and `ProfilePages` state no fairness: their properties are about safety.

## 6 Proofs

| theorem | statement | module |
|---|---|---|
| `SessionInvariant` | `Spec => []SessionInv` | `SessionControllerProofs` |
| `ScreenInvariant` | `Spec => []ScreenInv` | `SessionControllerProofs` |
| `ScreenBelongsToScope`, `ResultsOfTheCurrentOwner` | `Spec => []ScopeOwnsScreen`, `InstalledForCurrentOwner` | `SessionControllerProofs` |
| `DismissedViewsStayDismissed`, `SessionsNeverGoBack` | `Spec => DismissedStaysDismissed`, `NeverAnOlderSession` | `SessionControllerProofs` |
| `TypeCorrect`, `FlowBelongsToSession`, `QuestionBelongsToSession` | `Spec => []TypeOK`, `[]FlowOfSession`, `[]QuestionOfSession` | `SessionControllerProofs` |
| `PromiseInvariant` | `PromiseSpec => []PromiseInv` | `ErasurePromiseProofs` |
| `ControlTyped`, `ErasedStaysGone` | `Spec => []TypeOK`, `[]ErasedNotShown` | `HistoryDeleteProofs` |
| `ControlKeepsPromise` | `Spec => KeepsPromise`: the refinement of `ErasurePromise` | `HistoryDeleteProofs` |
| `ControlIsHonest` | `Spec => []Promise!PromiseInv`, the two above put together | `HistoryDeleteProofs` |
| `UpdaterTypeCorrect`, `CompleteStatusIsTrue` | `Spec => []TypeOK`, `[]CompleteIsTrue` | `UpdaterProofs` |
| `ActiveReleaseIsWhole` | `~Reoffered => (Spec => []CurrentRunnable)` | `UpdaterProofs` |
| `StoreInvariant` | `Spec => []StoreInv` | `ConfigStoreProofs` |
| `RestartsFindAConfiguration`, `SettingsAgreeAtRest` | `Spec => []AlwaysReadable`, `[]SettingsAgree` | `ConfigStoreProofs` |
| `ResetPairingStaysGone`, `DaemonAdvertisesUnpaired` | `Spec => []ResetSticks`, `[]Discoverable` | `ConfigStoreProofs` |
| `SettingsInvariant`, `ChangesReplaceWhatWasSeen` | `Spec => []SettingsInv`, `[]ReplacesWhatWasSeen` | `SharedSettingsProofs` |
| `NeverTwoUndecided`, `ReportedSavesWereAccepted`, `SettingsOfTheNoticedContext` | `Spec => []OneUndecided`, `[]SavedMeansAccepted`, `[]ShownForContext` | `SharedSettingsProofs` |
| `QueueTypeCorrect`, `QueueIsFifo` | `QueueSpec => []QueueTypeOK`, `[]Fifo` | `SharedSettingsProofs` |
| `ControlsInvariant`, `ControlsAreAlternatives` | `Spec => []ControlsInv`, `[]ControlsTypeOK` | `SessionControlsProofs` |
| `UncertainLocks`, `ArtworkOfTheMoment`, `RevokedIntentsStay` | `Spec => []LockedUntilRead`, `[]MediaOfShown`, `RevokedNeverSent` | `SessionControlsProofs` |
| `ImagesInvariant`, `ImagesTypeCorrect` | `ImagesSpec => []ImagesInv`, `[]ImagesTypeOK` | `SessionControlsProofs` |
| `WithdrawnStaysWithdrawn`, `NothingProlonged` | `ImagesSpec => []GoneStaysGone`, `NeverProlonged` | `SessionControlsProofs` |
| `EveryWriteOnce`, `NoPageBusyForGood` | `Spec => []WrittenOnce`, `[]LanesHeld` | `ProfilePagesProofs` |
| `ClearedMessagesStayCleared`, `NoMessageSkipped` | `Spec => []ClearedStaysCleared`, `[]NoGap` | `ProfilePagesProofs` |

They hold for any Profiles, tokens, Intents, versions, kinds of job, faults and bounds that
satisfy the named assumptions: the empty Profile id is not a Profile, the empty token not a
token, the bounds are natural numbers, versions are natural numbers with a first one
installed, and the kinds, answers and faults are the ones the code distinguishes.  Besides,
`None` is neither an item nor an intent and there is at least one item (`SessionControls`),
the daemon has at least one thread (`ConfigStore`), there is a Profile (`ProfilePages`),
the cap of the command file is at least 1 (`CommandQueue`), and `Nothing` is not an artwork,
a lease or a text (`SessionImages`).

**Session.**  `FlowOfSession` and `QuestionOfSession` are not inductive: a result that is
still in flight could install a Flow, or reject a question, that does not fit.
`SessionInv` adds what makes them so.  `Coherent(ui)`: the shown Flow is of the shown
Session, and pending question, receipt and reply are 0 or the shown Session's id.
`JobCoherent(ui, j)`, for every job in flight: before its last step it carries no Flow; a
Flow it carries is of the Session it read; and a question whose epoch is still the
controller's was asked about the Session on screen.  The last clause is the heart of it:
whatever replaces the Session calls `_withdraw_question`, which advances the epoch, so that
the question's result is dropped before it can write the receipt or the Flow.  The proof
has one lemma per helper and one step per action.  `session_question` checks `SessionInv`.

**Whose data is on screen.**  `ScreenInv` adds, for every job in flight, what its ticket and
its result say.  `OwnTicket`: the binding it was launched under, and that a job launched
without a scope finds none disclosed while it still holds its lane (whatever discloses one
takes the lane).  `OwnResult`: how far the worker is decides which owner its result can
name, and a panel it carries is of the ticket's Profile and view.  `OwnRev`: a read that
still holds its lane was not answered before the Session on screen was.  With `OwnUi` (a
scope is disclosed only to an unmapped device, and while it is unmapped every panel is that
owner's) these are inductive.  Each operator on the screen is shown either to take away only
(`Narrow`) or to bring only what belongs (`Arrives`); `Brings` then yields the three action
properties at once.

**Updater.**  That the active release is whole does not follow from the step that activates
it, since the candidate may have been prepared by an earlier run that died.  `ReleaseInv`
adds three parts.  `Candidate`: how much of the candidate is there when each phase begins.
`Trusted`: in a directory newer than the active release that `unpack_release` would take
as unpacked, no mark stands without its work.  `Ordered`: nothing on the disk is newer than
the candidate of the run, and the candidate is newer than the active release, so that
`cleanup_old_releases`, whose interrupted removals are what breaks `Trusted`, only ever
touches older directories.  `Ordered` needs the hypothesis `~Reoffered`: releases are
offered in order of publication.  Without it the statement is false (section 7).
`StatusInv` ties the status file to the run in progress: until the run has ended it speaks
of the candidate and does not say "complete", and from activation on `current` is the
candidate.  Both were model-checked with more crashes and faults than the run has.

**Erasure.**  `ControlInv` says what control, worker, result and Core know of the attempt in
flight: it was posted exactly if the worker passed the mark, keeps the gate closed until it
is settled, and Core carried it out at most once.  It suffices for the refinement: each
action is a step of `ErasurePromise` or a stutter (one lemma per action).  `GoneInv` adds
that a late page which may still be shown was read after every erasure reported.
`ControlIsHonest` instantiates the two steps of `PromiseInvariant` with the mapping of the
refinement.

**Configuration store.**  `StoreInv` is `Typed`, and `Steady /\ Calm` as long as no two
accesses met (`~disturbed`).  `Calm` says there is at most one holder of the file (`Alone`),
what is in the two files while it saves (`Files`), where the value it is about to store
comes from (`Drafts`), and what copies, events and the advertisement still have to follow
(`Fresh`, `Told`, `Announced`).  `Drops` is the reason a reset sticks: no copy that a thread
could still save holds what was given up.

**Shared settings.**  `SettingsInv` ties four things together: every change on its way
carries the revision its author saw (`SeenInv`), changes are numbered without reuse and
decided once (`NumberedInv`), a change the current context may still carry out is the one
the client waits for (`PendingInv`), and a save goes on to its closing read only once it was
accepted (`SavedInv`).  `ShownInv` is about the context the backend noticed.

**Controls.**  `ControlsInv`: the two workers and a read of the owner exclude each other, a
worker under way holds no lease, an uncertain result blocks until a read, an intent taken
back is forgotten, and a preparation still wanted is the one whose worker runs.

**Command queue.**  `Fifo` has to survive steps that write a file nobody reads yet, so
`QueueInv` says what each thread has in hand.  `FreshInv`: a file is named after the thread
that created it, so a file that is created now stands behind neither name and is nobody
else's, and the two names never stand for the same file.  `Alone`, as long as nothing
overlapped: one thread at most is between its read and its rename, the UI is not then
between its own read and its unlink, the temporary file is that thread's and holds what it
has written so far, and the list it extends is still the queue (`Held`).  So the rename
replaces the queue by itself with one command at the end, less what the cap pushes out at
the front; that this keeps `Fifo` is a lemma about sequences (`Follows`: same elements, none
twice, same order), proved once for growing at the end and once for what the cap drops.
`Fifo` states order by positions and not by `SelectSeq`, which is recursive.

**Images.** `TextHolds`, `GateHolds` and `LatchHolds` tie what is on screen to what its
receiver or gate remembers: a text is there only while its revision is above everything
ended, a lease of the Forecast gate has the gate's own revision and signature, one of the
artwork gate is its last key and not revoked, and either ends at the smaller of its own
deadline and the gate's floor.  `Past` is what a receiver or gate has behind it.  Each
verdict (`Received`, `AdmitImage`, `AdmitArtwork`: one lemma each, with a case for every
branch) only ever adds to `Past`, adds what it displaces, and does not raise a floor of what
it lets stay (`TextStep`, `GateStep`, `LatchStep`).  Then `OverInv`, that what was withdrawn
is in `Past` or revoked, is inductive, and with it a late read cannot bring anything back.
That no deadline grows falls out of the same steps.  `WorkInv` is about the workers: a job
that still counts is for the lease in force.  `OwnInv`: a pane whose lease is of a former
binding has a gate that begins anew, with nothing behind it.  TLC checked `ImagesInv` on the
run's instance, and in part on one with two Sessions.

**Requests.**  `Careful` bounds what a request may have done by how far it is: nothing while
it can still be sent or repeated, and exactly once when it is reported as done.  It is kept
because `ReplayIsRead`: what may be repeated over HTTP changes nothing in Core.

**Busy flags.**  `FlagsOwed` strengthens `LanesHeld`: a flag that is up was raised by the
kind of a job that waits or runs.  A job that ends takes down all flags of its kind, so a
flag that stays up is owed by a job of another kind, which is still there.

**Messages that were cleared.**  `ClearInv` speaks of every answer on its way, in the mail
or held by the worker.  `Sound`: what the answer says was true of Core at some moment, and
if Core has cleared since, everything up to the answer's revision is gone.  `After`: of two
answers the later brings nothing the earlier one has cleared.  One thread asks and the GUI
takes its results in order, so answers are shown in the order Core gave them; that is why
the screen can add messages without asking when they were read.

**Messages that were skipped.**  `GapInv` holds while the Profile and the owner stayed
(`~count.moved`).  An answer under a ticket that is still good is `Whole` (it brings every
message Core kept up to its revision, or is an action's), or what it leaves out was on
screen when it was asked for (`Partly`); the latter only while memory and file both name the
Profile (`Settled`), since otherwise applying the answer resets the revisions (`Covers`).
The revision of the polls is where messages could be lost: `Reached` says that a revision
which stands while a Profile is missing is behind what Core still keeps.  A job past its
comparison posts under a new ticket: what it holds must fit the context it finds then
(`GapJobs`), which it does because a context that changed was unsettled before.  `GapScreen`
is the property itself, said of `ask.met`: what an answer brings was on screen once it is
merged in, also if the next one takes it away again.

`PromiseInvariant` is what any implementation of `ErasurePromise` inherits: once a grant is
made it is settled before the gate opens again under the same authority, a report is never
false, and what was given up is never carried out later.

**What the proofs changed.**  Three properties passed in their runs and were not true in
general; the attempts to prove them failed for a reason.  `ShownForContext` missed that a
save takes its result without a look at the context (section 3); the run had too few moves.
`InstalledForCurrentOwner` compared with the scope before the result was applied; a Start or
End result drops that scope first.  Both now say what holds, and `session_owner` has Start
and End among its intents.  `GoneStaysGone` kept the text's withdrawn revisions when one
Session followed another directly, although the receiver begins anew and a new Session may
use the same revisions again: the property speaks of one Session, and `over` now ends with
it (two Sessions show it; the run has one).

Only model-checked: liveness (`TicketReturns`, `AppComesBack`, `Delivered`,
`PairingNoticed`, `LaneReleased`, `JobsEnd`, `LatestIsTried`), which is out of the prover's
reach.

## 7 Where code and text disagree

Checked by a run: `profile_pages_finding` (`OneProfileShown`).  `docs/ARCHITECTURE.md:281`:
"When the resolved profile changes, the UI process clears every profile-scoped view cache
before displaying new data".  `HAClient` applies the resolved Profile to the shared
configuration first; the backend then compares the configuration with itself and clears
nothing.  Messages of one Profile stay beside a page of another.  On the Session screen the
same cause leaves a Session of one Profile beside an archive of another; with a disclosed
owner scope in force this cannot happen there (`ScopeOwnsScreen` passes).

What the properties permit, because the code does it and no text of the repository
contradicts it:

* An Ask DJ answer that says success with a clear revision and brings no messages counts as
  a clear (`P/app.py:2289`), also when a poll asked: the screen is emptied and the revision
  stays, so no later poll brings those messages back.  Whether Core words the answer to an
  idle poll in this way is not in the repository.
* The answer of an Ask DJ action brings its own exchange and its revision is taken over
  (`P/app.py:2316`): messages of other devices in between are not read any more.  `NoGap`
  says that nothing else steps over a message.
* A playback or favourite write that is hidden while it is under way ends without a lock
  (`P/session_playback_control.py:424`), and losing the focus takes a lock away
  (`P/session_controller.py:388`).  `LockedUntilRead` speaks of the result the user was shown.
* The UI's summary writes its whole copy over a change of the daemon it has not read
  (`P/app.py:2641`).  Both sides then agree on the older value, and `SettingsAgree`, which
  compares the UI's option with the file's, holds.  `Discoverable` speaks of pairings and
  resets through the daemon only: nothing tells mDNS of what the UI changes.
* Settings read before the device moved to another Profile and back (section 3).

Seen in instances of the models that are not among the runs:

* `docs/ARCHITECTURE.md:157`: retention is "the active ... release plus one previous
  rollback release".  Retention goes by modification time (`P/updater.py:422`): an
  abandoned, newer candidate is kept and the release that last ran is deleted.
* The comment at `P/updater.py:522`: "Only the verified candidate reaches stop."  A
  directory with `VERSION` and `wheels` is taken as it is (`:214`) and marked steps are
  skipped; a removal that was cut short can leave exactly these.  It takes a version that
  is offered again after its removal had begun, which happens when the channel or
  `--release-version` goes back (`Reoffered` TRUE).
* `docs/ARCHITECTURE.md:119`: the daemon queues "HA initiated playback commands for the UI
  process through a local command-event file", and answers `queued`.  The UI reads the file
  and then unlinks its name (`P/app.py:2719`); a command renamed into place in between is
  unlinked unread, although Home Assistant was told that it is queued.
* `HANDOFF.md:59`: "local API forget/reset clears the token, marks the device unpaired".
  Nothing tells the UI (`ConfigStore!After`): its next summary (`P/app.py:2641`) saves the
  copy it holds, and the token is back in the file.

Read in the code while modelling, not checked: `docs/ARCHITECTURE.md:142` has the services
stopped before download, the code stops them after the candidate is prepared; `:147` calls
the installation resumable, but a crash between the creation of the virtual environment and
its mark leaves a directory every later run refuses; a crash after activation leaves old
unit files and the status "activating", since the next run finds the version installed;
`:251` has the portal's WebSocket switch take effect, which `_sync_config_from_disk`
(`P/app.py:1003`) does not compare; `:263` has the WebSocket fall back "exactly once to the
existing HTTP flow", while a write that was sent and not confirmed never does; a second
reset while unpaired rotates the stored code and leaves the advertised one
(`P/client_api.py:447`); the capability refresh compares `time.monotonic` with `time.time`
(`P/ha_websocket.py:128`, `:158`), so cached commands never age.

## 8 Not modelled

Listed with reasons in `PROJECT.json` (`components`).  In short: layout and bindings of the
touch UI, whose calls are the actions of the Python modules; pure projections, whose
verdict is an input of `SessionController`; texts, branding, logging and portal pages,
which keep no state other parts rely on; the games; the nightly maintenance, which is a
`PowerLoss` of `Updater`; content deletion, which nothing calls; installation scripts and
the maintainers' delivery tools, which do not run as part of the program.  Inside modelled
components: the DJ response file and the screenshot handshake, the contents of lists and
their artwork, optimistic playback values, demo mode, and the confirmation of receipts.
