-------------------------- MODULE ConfigStoreProofs --------------------------
(***************************************************************************)
(* What TLAPS proves about ConfigStore, for any number of request threads, *)
(* inputs and restarts.                                                    *)
(*                                                                         *)
(* The hard part is what the history `disturbed` leaves open.  A request   *)
(* holds the file from its load to its last look at it, the UI while it    *)
(* saves.  Until two of them meet there is one holder, whose temporary     *)
(* file is the one it opened, and what it is about to store follows from   *)
(* the file (a request) or from the UI's copy (the UI).                    *)
(***************************************************************************)
EXTENDS ConfigStore, TLAPS

-----------------------------------------------------------------------------
(* The inductive invariant *)

Screens == {Gui, Worker}
Stages  == {"idle", "open", "write", "replace"}
Steps   == {"idle", "load", "save", "mdns", "advert", "notify"}
Saves   == [step : Stages, cfg : Configs, at : {"tmp", "file", "gone"}, drop : SUBSET Ids]
Requests == [step : Steps, req : Ids, kind : Kinds, code : Ids, fast : BOOLEAN, paired : BOOLEAN]

Typed ==
    /\ disk \in [file : Contents, tmp : Contents]
    /\ save \in [Savers -> Saves]
    /\ thread \in [Threads -> Requests]
    /\ copy \in Configs
    /\ advert \in Ids \cup {-1}
    /\ ui \in [cfg : Configs, step : {"idle", "call", "last"}]
    /\ inputs \in Ids
    /\ disturbed \in BOOLEAN
    /\ dropped \in SUBSET Ids

\* A request saves exactly while it is at that step; what it announces is a setting or a command.
Steady ==
    \A r \in Threads : /\ thread[r].step = "save" <=> ~Quiet(r)
                       /\ thread[r].step = "notify" => thread[r].kind \in {"settings", "command"}

\* Who holds the file.
Holds(r) == thread[r].step \in {"save", "mdns", "advert"}
Holders  == {r \in Threads : Holds(r)} \cup {s \in Screens : ~Quiet(s)}
Alone    == \A s, t \in Holders : s = t

\* The temporary file belongs to the save that opened it.
Files ==
    /\ Readable
    /\ \A s \in Savers :
         /\ save[s].step \in {"write", "replace"} => save[s].at = "tmp"
         /\ save[s].step = "write" => disk.tmp = Empty
         /\ save[s].step = "replace" => disk.tmp = Whole(save[s].cfg)

\* What a save is about to store: the UI's copy, or the file with what the request changes.
Drafts ==
    /\ \A s \in Screens : save[s].step \in {"write", "replace"} => save[s].cfg = ui.cfg
    /\ \A r \in Threads : thread[r].step = "save" =>
         /\ thread[r].kind # "settings" => save[r].cfg.opt = Stored.opt
         /\ thread[r].kind \in {"start", "settings"} =>
              save[r].cfg.token = Stored.token /\ save[r].cfg.code = Stored.code

\* The tokens and codes in use, which no reset has dropped.
Names(c) == {c.token, c.code}
InUse    == Names(Stored) \cup Names(ui.cfg) \cup UNION {Names(save[r].cfg) : r \in {r \in Threads : ~Quiet(r)}}
Leaving  == UNION {save[s].drop : s \in {s \in Screens : ~Quiet(s)}}
Drops ==
    /\ InUse \cap dropped = {} /\ 0 \notin dropped \cup Leaving
    /\ Names(ui.cfg) \cap Leaving = {}

\* The number of a request that has not looked at the file is in nobody's hands.
Pending == {r \in Threads : thread[r].step = "load" /\ thread[r].kind # "start"}
Fresh ==
    /\ InUse \cup dropped \cup Leaving \subseteq 0..inputs
    /\ \A r \in Pending : thread[r].req \in 1..inputs /\ thread[r].req \notin InUse \cup dropped \cup Leaving
    /\ \A q, r \in Pending : thread[q].req = thread[r].req => q = r

\* A setting that the UI has not heard of is about to be announced or overwritten.
Told == \/ ui.cfg.opt = Stored.opt
        \/ event
        \/ \E r \in Threads : thread[r].step = "notify"
        \/ \E s \in Screens : ~Quiet(s)

\* The service follows the pairing the daemon stored, as soon as a request under way is done.
Follows == (advert >= 0) <=> (Stored.token = 0)
Announced ==
    owner = "daemon" =>
      /\ Follows \/ \E r \in Threads : \/ thread[r].kind = "start" /\ thread[r].step # "idle"
                                       \/ thread[r].step \in {"mdns", "advert"}
      /\ \A r \in Threads : thread[r].step = "advert" => thread[r].paired = (Stored.token # 0)

Calm     == Alone /\ Files /\ Drafts /\ Drops /\ Fresh /\ Told /\ Announced
StoreInv == Typed /\ (~disturbed => Steady /\ Calm)

-----------------------------------------------------------------------------
(* What the values are *)

LEMMA Parties == /\ Savers = Threads \cup Screens /\ Threads \cap Screens = {} /\ Gui # Worker
                 /\ Gui \in Savers /\ Worker \in Savers /\ 1..MaxThreads = Threads
BY StoreBounds DEF Savers, Threads, Screens, Gui, Worker

LEMMA Texts == /\ {None, Empty, Torn} \subseteq Contents /\ \A c \in Configs : Whole(c) \in Contents
               /\ \A c : Whole(c).kind = "whole" /\ Whole(c).cfg = c
               /\ None # Empty /\ \A c : Whole(c) # None /\ Whole(c) # Empty
               /\ None.kind # "whole" /\ Empty.kind # "whole" /\ Torn.kind # "whole"
BY DEF Contents, None, Empty, Torn, Whole

LEMMA StoredTyped == ASSUME Typed, Readable PROVE Stored \in Configs /\ disk.file = Whole(Stored)
<1>1. disk.file \in Contents
  BY DEF Typed
<1>2. PICK c \in Configs : disk.file = Whole(c)
  BY <1>1, Texts DEF Contents, Readable
<1>. QED
  BY <1>2, Texts DEF Stored

LEMMA FirstTyped == First \in Configs /\ 0 \in Ids
<1>1. 0 \in Ids /\ FALSE \in BOOLEAN
  BY StoreBounds DEF Ids
<1>. QED
  BY <1>1, Zenon DEF First, Configs

\* What a change makes of a configuration.
LEMMA Changed ==
    ASSUME NEW c \in Configs, NEW id \in Ids, NEW fast \in BOOLEAN
    PROVE  /\ Forgotten(c, id) \in Configs /\ PairedAs(c, id) \in Configs /\ Stores(c, id, fast) \in Configs
           /\ Names(Forgotten(c, id)) = {0, id} /\ Forgotten(c, id).opt = c.opt
           /\ Names(PairedAs(c, id)) = {id, c.code} /\ PairedAs(c, id).opt = c.opt
           /\ Stores(c, id, fast).token = c.token /\ Stores(c, id, fast).code = c.code
           /\ Names(c) \subseteq Ids
<1>1. 0 \in Ids
  BY FirstTyped
<1>. QED
  BY <1>1 DEF Configs, Forgotten, PairedAs, Stores, Names

LEMMA Moves ==
    ASSUME NEW t \in Requests, NEW s \in Steps
    PROVE  /\ [t EXCEPT !.step = s] \in Requests
           /\ [t EXCEPT !.step = s].step = s /\ [t EXCEPT !.step = s].kind = t.kind
           /\ [t EXCEPT !.step = s].req = t.req /\ [t EXCEPT !.step = s].paired = t.paired
BY DEF Requests

LEMMA Nobody == /\ NoThread \in Requests /\ NoThread.step = "idle" /\ NoThread.kind = "start"
                /\ NoSave \in Saves /\ NoSave.step = "idle"
<1>1. 0 \in Ids /\ FALSE \in BOOLEAN /\ "idle" \in Steps /\ "start" \in Kinds
  BY FirstTyped DEF Steps, Kinds
<1>2. NoThread \in Requests
  BY <1>1, Zenon DEF NoThread, Requests
<1>. QED
  BY <1>2, FirstTyped DEF NoThread, NoSave, Saves, Stages

-----------------------------------------------------------------------------
(* What each step does, and that it keeps every variable in its type *)

LEMMA ThreadGoes ==
    ASSUME thread \in [Threads -> Requests], NEW r \in Threads, NEW t \in Requests,
           thread' = [thread EXCEPT ![r] = t]
    PROVE  thread' \in [Threads -> Requests] /\ thread'[r] = t /\ \A q \in Threads : q # r => thread'[q] = thread[q]
OBVIOUS

LEMMA SaveGoes ==
    ASSUME save \in [Savers -> Saves], NEW s \in Savers, NEW v \in Saves,
           save' = [save EXCEPT ![s] = v]
    PROVE  save' \in [Savers -> Saves] /\ save'[s] = v /\ \A q \in Savers : q # s => save'[q] = save[q]
OBVIOUS

LEMMA OpenDoes ==
    ASSUME Typed, NEW s \in Savers, Open(s)
    PROVE  /\ Typed' /\ UNCHANGED <<thread, copy, advert, ui, event, inputs, disturbed, dropped, owner>>
           /\ save[s].step = "open" /\ save'[s].step = "write" /\ save'[s].at = "tmp"
           /\ save'[s].cfg = (IF s \in Threads THEN save[s].cfg ELSE ui.cfg)
           /\ save'[s].drop = save[s].drop /\ \A t \in Savers : t # s => save'[t] = save[t]
           /\ disk'.file = disk.file /\ disk'.tmp = Empty
<1>. DEFINE cfg == IF s \in Threads THEN save[s].cfg ELSE ui.cfg
            v == [save[s] EXCEPT !.step = "write", !.at = "tmp", !.cfg = cfg]
<1>1. save[s] \in Saves /\ cfg \in Configs
  BY DEF Typed, Saves
<1>2. save' = [save EXCEPT ![s] = v]
  BY <1>1 DEF Typed, Open
<1>. HIDE DEF cfg
<1>3. /\ v \in Saves /\ v.step = "write" /\ v.at = "tmp" /\ v.cfg = cfg /\ v.drop = save[s].drop
  BY <1>1 DEF Saves, Stages
<1>. HIDE DEF v
<1>4. /\ save' \in [Savers -> Saves] /\ save'[s] = v /\ \A t \in Savers : t # s => save'[t] = save[t]
  BY <1>2, <1>3, SaveGoes DEF Typed
<1>5. disk' \in [file : Contents, tmp : Contents] /\ disk'.file = disk.file /\ disk'.tmp = Empty
  BY Texts DEF Typed, Open, Temporary
<1>6. UNCHANGED <<thread, copy, advert, ui, event, inputs, disturbed, dropped, owner>> /\ save[s].step = "open"
  BY DEF Open
<1>7. Typed'
  BY <1>4, <1>5, <1>6 DEF Typed
<1>. QED
  BY <1>3, <1>4, <1>5, <1>6, <1>7 DEF cfg

LEMMA WriteDoes ==
    ASSUME Typed, NEW s \in Savers, Write(s)
    PROVE  /\ Typed' /\ UNCHANGED <<thread, copy, advert, ui, event, inputs, disturbed, dropped, owner>>
           /\ save[s].step = "write" /\ save'[s].step = "replace" /\ save'[s].at = save[s].at
           /\ save'[s].cfg = save[s].cfg /\ save'[s].drop = save[s].drop
           /\ \A t \in Savers : t # s => save'[t] = save[t]
           /\ save[s].at = "tmp" => disk'.file = disk.file
           /\ save[s].at = "tmp" /\ disk.tmp = Empty => disk'.tmp = Whole(save[s].cfg)
<1>. DEFINE v == [save[s] EXCEPT !.step = "replace"]
<1>1. save[s] \in Saves
  BY DEF Typed
<1>2. save' = [save EXCEPT ![s] = v]
  BY DEF Typed, Write
<1>3. /\ v \in Saves /\ v.step = "replace" /\ v.at = save[s].at /\ v.cfg = save[s].cfg /\ v.drop = save[s].drop
  BY <1>1 DEF Saves, Stages
<1>. HIDE DEF v
<1>4. /\ save' \in [Savers -> Saves] /\ save'[s] = v /\ \A t \in Savers : t # s => save'[t] = save[t]
  BY <1>2, <1>3, SaveGoes DEF Typed
<1>. DEFINE Over(old) == {Whole(save[s].cfg)} \cup (IF old = Empty THEN {} ELSE {Torn})
<1>5. \A old : Over(old) \subseteq Contents
  BY <1>1, Texts DEF Saves
<1>6. CASE save[s].at = "tmp"
  <2>1. PICK c \in Over(disk.tmp) : disk' = Temporary(disk, c)
    BY <1>6 DEF Write
  <2>2. disk' \in [file : Contents, tmp : Contents] /\ disk'.file = disk.file /\ disk'.tmp = c
    BY <2>1, <1>5 DEF Typed, Temporary
  <2>3. disk.tmp = Empty => c = Whole(save[s].cfg)
    BY <2>1
  <2>4. UNCHANGED <<thread, copy, advert, ui, event, inputs, disturbed, dropped, owner>> /\ save[s].step = "write"
    BY DEF Write
  <2>5. Typed'
    BY <1>4, <2>2, <2>4 DEF Typed
  <2>. QED
    BY <1>3, <1>4, <2>2, <2>3, <2>4, <2>5
<1>7. CASE save[s].at # "tmp"
  <2>1. disk' = disk \/ \E c \in Over(disk.file) : disk' = [disk EXCEPT !.file = c]
    BY <1>7 DEF Write
  <2>2. disk' \in [file : Contents, tmp : Contents]
    BY <2>1, <1>5 DEF Typed
  <2>3. UNCHANGED <<thread, copy, advert, ui, event, inputs, disturbed, dropped, owner>> /\ save[s].step = "write"
    BY DEF Write
  <2>4. Typed'
    BY <1>4, <2>2, <2>3 DEF Typed
  <2>. QED
    BY <1>3, <1>4, <1>7, <2>3, <2>4
<1>. QED
  BY <1>6, <1>7

LEMMA ReplaceDoes ==
    ASSUME Typed, NEW s \in Savers, Replace(s)
    PROVE  /\ Typed' /\ UNCHANGED <<copy, advert, ui, event, inputs, disturbed>>
           /\ save[s].step = "replace" /\ save'[s] = NoSave
           /\ \A t \in Savers : t # s => /\ save'[t].step = save[t].step /\ save'[t].cfg = save[t].cfg
                                         /\ save'[t].drop = save[t].drop
           /\ s \notin Threads => thread' = thread
           /\ s \in Threads => \A q \in Threads : q # s => thread'[q] = thread[q]
           /\ s \in Threads => thread'[s].step # "save" /\ (thread'[s].step = "notify" => thread'[s].kind = "settings")
           /\ disk.tmp # None =>
                /\ disk'.file = disk.tmp
                /\ s \in Threads => thread'[s].step = After(s) /\ thread'[s].kind = thread[s].kind /\ dropped' = dropped
                /\ s \notin Threads => dropped' = dropped \cup save[s].drop
                /\ owner' = IF Pairing(disk.tmp) # Pairing(disk.file) THEN Party(s) ELSE owner
<1>. DEFINE done == disk.tmp # None
            Rest(t) == IF done THEN [save[t] EXCEPT !.at = Moved(@)] ELSE save[t]
<1>1. \A t \in Savers : save[t] \in Saves
  BY DEF Typed
<1>2. \A t \in Savers : /\ Rest(t) \in Saves /\ Rest(t).step = save[t].step /\ Rest(t).cfg = save[t].cfg
                        /\ Rest(t).drop = save[t].drop
  <2>. TAKE t \in Savers
  <2>1. save[t] \in Saves /\ Moved(save[t].at) \in {"tmp", "file", "gone"}
    BY <1>1 DEF Moved
  <2>. QED
    BY <2>1 DEF Saves
<1>3. save' = [t \in Savers |-> IF t = s THEN NoSave ELSE Rest(t)]
  BY DEF Replace
<1>. HIDE DEF Rest
<1>4. /\ save' \in [Savers -> Saves] /\ save'[s] = NoSave
      /\ \A t \in Savers : t # s => save'[t] = Rest(t)
  BY <1>2, <1>3, Nobody
<1>5. disk' \in [file : Contents, tmp : Contents] /\ (done => disk'.file = disk.tmp)
  BY Texts DEF Typed, Replace
<1>6. dropped' \in SUBSET Ids
  BY <1>1 DEF Typed, Replace, Saves
<1>7. CASE s \notin Threads
  <2>1. thread' = thread /\ UNCHANGED <<copy, advert, ui, event, inputs, disturbed>> /\ save[s].step = "replace"
    BY <1>7 DEF Replace
  <2>2. Typed'
    BY <1>4, <1>5, <1>6, <2>1 DEF Typed
  <2>3. done => /\ dropped' = dropped \cup save[s].drop
                /\ owner' = IF Pairing(disk.tmp) # Pairing(disk.file) THEN Party(s) ELSE owner
    BY <1>7 DEF Replace
  <2>. QED
    BY <1>2, <1>4, <1>5, <1>7, <2>1, <2>2, <2>3
<1>8. CASE s \in Threads
  <2>. DEFINE t == IF done THEN [thread[s] EXCEPT !.step = After(s)] ELSE NoThread
  <2>1. After(s) \in Steps /\ thread[s] \in Requests
    BY <1>8 DEF After, Steps, Typed
  <2>2. /\ t \in Requests
        /\ done => t.step = After(s) /\ t.kind = thread[s].kind
        /\ ~done => t = NoThread
    BY <2>1, Moves, Nobody
  <2>3. thread' = [thread EXCEPT ![s] = t]
    BY <1>8 DEF Replace, Typed
  <2>. HIDE DEF t
  <2>4. thread' \in [Threads -> Requests] /\ thread'[s] = t /\ \A q \in Threads : q # s => thread'[q] = thread[q]
    BY <1>8, <2>2, <2>3, ThreadGoes DEF Typed
  <2>5. UNCHANGED <<copy, advert, ui, event, inputs, disturbed>> /\ save[s].step = "replace"
    BY DEF Replace
  <2>6. Typed'
    BY <1>4, <1>5, <1>6, <2>4, <2>5 DEF Typed
  <2>7. done => dropped' = dropped /\ owner' = IF Pairing(disk.tmp) # Pairing(disk.file) THEN Party(s) ELSE owner
    BY <1>8 DEF Replace
  <2>8. t.step # "save" /\ (t.step = "notify" => t.kind = "settings")
    BY <2>2, Nobody DEF After
  <2>. QED
    BY <1>2, <1>4, <1>5, <1>8, <2>2, <2>4, <2>5, <2>6, <2>7, <2>8
<1>. QED
  BY <1>7, <1>8

LEMMA ArriveDoes ==
    ASSUME Typed, NEW r \in Threads, Arrive(r)
    PROVE  /\ Typed' /\ UNCHANGED <<disk, save, copy, advert, ui, event, disturbed, dropped, owner>>
           /\ inputs' = inputs + 1 /\ thread[r].step = "idle"
           /\ thread'[r].step = "load" /\ thread'[r].kind # "start" /\ thread'[r].req = inputs + 1
           /\ \A q \in Threads : q # r => thread'[q] = thread[q]
<1>1. UNCHANGED <<disk, save, copy, advert, ui, event, disturbed, dropped, owner>> /\ inputs' = inputs + 1
      /\ thread[r].step = "idle" /\ inputs' \in Ids
  BY StoreBounds DEF Arrive, Typed, Ids
<1>2. PICK k \in Kinds \ {"start"}, c \in Codes, f \in BOOLEAN :
         thread' = [thread EXCEPT ![r] = [step |-> "load", req |-> inputs + 1, kind |-> k,
                                          code |-> c, fast |-> f, paired |-> FALSE]]
  BY DEF Arrive
<1>3. ui.cfg.code \in Ids /\ (advert >= 0 => advert \in Ids) /\ (Readable => Stored.code \in Ids)
  BY StoredTyped DEF Typed, Configs
<1>4. c \in Ids /\ "load" \in Steps /\ inputs + 1 \in Ids /\ k \in Kinds /\ FALSE \in BOOLEAN
  BY <1>1, <1>3 DEF Codes, Steps
<1>. DEFINE t == [step |-> "load", req |-> inputs + 1, kind |-> k, code |-> c, fast |-> f, paired |-> FALSE]
<1>5. t \in Requests
  BY <1>4, Zenon DEF Requests
<1>6. t.step = "load" /\ t.kind = k /\ t.req = inputs + 1
  OBVIOUS
<1>7. thread' = [thread EXCEPT ![r] = t]
  BY <1>2
<1>. HIDE DEF t
<1>8. thread' \in [Threads -> Requests] /\ thread'[r] = t /\ \A q \in Threads : q # r => thread'[q] = thread[q]
  BY <1>5, <1>7, ThreadGoes DEF Typed
<1>9. Typed'
  BY <1>1, <1>8 DEF Typed
<1>. QED
  BY <1>1, <1>6, <1>8, <1>9

\* A request that gives up, and one that goes a step on, without a save.
LEMMA GoesOn ==
    ASSUME Typed, NEW r \in Threads, NEW t \in Requests, thread' = [thread EXCEPT ![r] = t],
           UNCHANGED <<disk, save, ui, inputs, disturbed, dropped>>,
           copy' \in Configs, advert' \in Ids \cup {-1}
    PROVE  Typed' /\ thread'[r] = t /\ \A q \in Threads : q # r => thread'[q] = thread[q]
<1>1. thread' \in [Threads -> Requests] /\ thread'[r] = t /\ \A q \in Threads : q # r => thread'[q] = thread[q]
  BY ThreadGoes DEF Typed
<1>. QED
  BY <1>1 DEF Typed

LEMMA CommandDoes ==
    ASSUME Typed, NEW r \in Threads, Command(r)
    PROVE  /\ Typed' /\ UNCHANGED <<disk, save, copy, advert, ui, event, inputs, disturbed, dropped, owner>>
           /\ thread[r].step = "load" /\ thread[r].kind = "command"
           /\ \/ thread'[r].step = "notify" /\ thread'[r].kind = "command"
              \/ thread'[r] = NoThread
           /\ \A q \in Threads : q # r => thread'[q] = thread[q]
<1>. DEFINE t == IF copy.token # 0 THEN [thread[r] EXCEPT !.step = "notify"] ELSE NoThread
<1>1. thread[r] \in Requests /\ "notify" \in Steps
  BY DEF Typed, Steps
<1>2. t \in Requests /\ (t = NoThread \/ (t.step = "notify" /\ t.kind = thread[r].kind))
  BY <1>1, Moves, Nobody
<1>3. /\ thread' = [thread EXCEPT ![r] = t] /\ copy' \in Configs /\ advert' \in Ids \cup {-1}
      /\ thread[r].step = "load" /\ thread[r].kind = "command"
      /\ UNCHANGED <<disk, save, copy, advert, ui, event, inputs, disturbed, dropped, owner>>
  BY DEF Command, Typed
<1>. HIDE DEF t
<1>4. Typed' /\ thread'[r] = t /\ \A q \in Threads : q # r => thread'[q] = thread[q]
  BY <1>2, <1>3, GoesOn
<1>. QED
  BY <1>2, <1>3, <1>4

LEMMA MdnsLoadDoes ==
    ASSUME Typed, NEW r \in Threads, MdnsLoad(r)
    PROVE  /\ Typed' /\ UNCHANGED <<disk, save, advert, ui, event, inputs, disturbed, dropped, owner>>
           /\ thread[r].step = "mdns"
           /\ Readable => /\ thread'[r].step = "advert" /\ thread'[r].kind = thread[r].kind
                          /\ thread'[r].paired = (Stored.token # 0)
           /\ ~Readable => thread'[r] = NoThread
           /\ \A q \in Threads : q # r => thread'[q] = thread[q]
<1>. DEFINE p == Stored.token # 0
            u == [thread[r] EXCEPT !.step = "advert", !.paired = p]
            t == IF Readable THEN u ELSE NoThread
<1>1. thread[r] \in Requests /\ "advert" \in Steps /\ p \in BOOLEAN
  BY DEF Typed, Steps
<1>2. /\ thread' = [thread EXCEPT ![r] = t] /\ advert' \in Ids \cup {-1}
      /\ thread[r].step = "mdns" /\ copy' \in Configs
      /\ UNCHANGED <<disk, save, advert, ui, event, inputs, disturbed, dropped, owner>>
  BY StoredTyped DEF MdnsLoad, Typed
<1>. HIDE DEF p
<1>3. u \in Requests
  BY <1>1, Zenon DEF Requests
<1>4. u.step = "advert" /\ u.kind = thread[r].kind /\ u.paired = p
  BY <1>1, Zenon DEF Requests
<1>. HIDE DEF u
<1>5. t \in Requests
  BY <1>3, Nobody
<1>6. (Readable => t = u) /\ (~Readable => t = NoThread)
  OBVIOUS
<1>. HIDE DEF t
<1>7. Typed' /\ thread'[r] = t /\ \A q \in Threads : q # r => thread'[q] = thread[q]
  BY <1>2, <1>5, GoesOn
<1>8. thread'[r].paired = t.paired
  BY <1>7
<1>9. Readable => thread'[r].step = "advert" /\ thread'[r].kind = thread[r].kind
  BY <1>4, <1>6, <1>7
<1>10. Readable => thread'[r].paired = p
  BY <1>4, <1>6, <1>8, Zenon
<1>. QED
  BY <1>2, <1>6, <1>7, <1>9, <1>10, Zenon DEF p

LEMMA RefreshMdnsDoes ==
    ASSUME Typed, NEW r \in Threads, RefreshMdns(r)
    PROVE  /\ Typed' /\ UNCHANGED <<disk, save, copy, ui, event, inputs, disturbed, dropped, owner>>
           /\ thread[r].step = "advert" /\ thread'[r] = NoThread
           /\ (advert' >= 0) <=> ~thread[r].paired
           /\ \A q \in Threads : q # r => thread'[q] = thread[q]
<1>1. copy.code \in Ids
  BY DEF Typed, Configs
<1>2. /\ thread' = [thread EXCEPT ![r] = NoThread] /\ copy' \in Configs /\ advert' = Advertised(thread[r].paired)
      /\ thread[r].step = "advert"
      /\ UNCHANGED <<disk, save, copy, ui, event, inputs, disturbed, dropped, owner>>
  BY DEF RefreshMdns, Typed
<1>3. advert' \in Ids \cup {-1} /\ ((advert' >= 0) <=> ~thread[r].paired)
  BY <1>1, <1>2 DEF Advertised, Typed, Ids
<1>4. Typed' /\ thread'[r] = NoThread /\ \A q \in Threads : q # r => thread'[q] = thread[q]
  BY <1>2, <1>3, Nobody, GoesOn
<1>. QED
  BY <1>2, <1>3, <1>4

LEMMA NotifyDoes ==
    ASSUME Typed, NEW r \in Threads, Notify(r)
    PROVE  /\ Typed' /\ UNCHANGED <<disk, save, copy, advert, ui, inputs, disturbed, dropped, owner>>
           /\ thread[r].step = "notify" /\ thread'[r] = NoThread /\ event'
           /\ \A q \in Threads : q # r => thread'[q] = thread[q]
<1>1. /\ thread' = [thread EXCEPT ![r] = NoThread] /\ copy' \in Configs /\ advert' \in Ids \cup {-1}
      /\ thread[r].step = "notify" /\ event'
      /\ UNCHANGED <<disk, save, copy, advert, ui, inputs, disturbed, dropped, owner>>
  BY DEF Notify, Typed
<1>2. Typed' /\ thread'[r] = NoThread /\ \A q \in Threads : q # r => thread'[q] = thread[q]
  BY <1>1, Nobody, GoesOn
<1>. QED
  BY <1>1, <1>2

\* A request looks at the file and begins to save.
ChangeBegins(r) ==
    /\ Readable
    /\ thread'[r].step = "save" /\ thread'[r].kind = thread[r].kind
    /\ save'[r].step = "open" /\ \A t \in Savers : t # r => save'[t] = save[t]
    /\ Names(save'[r].cfg) \subseteq Names(Stored) \cup {0} \cup (IF thread[r].kind = "start" THEN {} ELSE {thread[r].req})
    /\ thread[r].kind # "settings" => save'[r].cfg.opt = Stored.opt
    /\ thread[r].kind \in {"start", "settings"} =>
         save'[r].cfg.token = Stored.token /\ save'[r].cfg.code = Stored.code
    /\ Enter(r)

LEMMA BeginType ==
    ASSUME Typed, NEW s \in Savers, NEW c \in Configs, NEW d \in SUBSET Ids, Begin(s, c, d)
    PROVE  /\ save' \in [Savers -> Saves] /\ save'[s].step = "open" /\ save'[s].cfg = c /\ save'[s].drop = d
           /\ \A t \in Savers : t # s => save'[t] = save[t]
<1>. DEFINE v == [step |-> "open", cfg |-> c, at |-> "gone", drop |-> d]
<1>1. v \in Saves
  BY DEF Saves, Stages
<1>2. save' \in [Savers -> Saves] /\ save'[s] = v /\ \A q \in Savers : q # s => save'[q] = save[q]
  BY <1>1, SaveGoes DEF Typed, Begin
<1>. QED
  BY <1>2

LEMMA ChangeDoes ==
    ASSUME Typed, NEW r \in Threads, Change(r)
    PROVE  /\ Typed' /\ UNCHANGED <<disk, advert, ui, event, inputs, dropped, owner>>
           /\ thread[r].step = "load" /\ thread[r].kind # "command"
           /\ \/ ChangeBegins(r)
              \/ /\ thread'[r] = NoThread /\ UNCHANGED <<save, copy, disturbed>>
                 /\ Readable => thread[r].kind # "start"
           /\ \A q \in Threads : q # r => thread'[q] = thread[q]
<1>. DEFINE t == thread[r]
            new == CASE t.kind = "start"    -> Reloaded
                     [] t.kind = "pair"     -> PairedAs(Reloaded, t.req)
                     [] t.kind = "forget"   -> Forgotten(Reloaded, t.req)
                     [] t.kind = "settings" -> Stores(Reloaded, t.req, t.fast)
            drop == IF t.kind = "forget" THEN {Reloaded.token} \ {0} ELSE {}
            ok   == Readable /\ (t.kind = "pair" => t.code = Reloaded.code)
<1>1. UNCHANGED <<disk, advert, ui, event, inputs, dropped, owner>> /\ t.step = "load" /\ t.kind # "command"
  BY DEF Change
<1>2. /\ t \in Requests /\ t.req \in Ids /\ t.kind \in {"start", "pair", "forget", "settings"}
      /\ "save" \in Steps /\ r \in Savers
  BY <1>1, Parties DEF Typed, Requests, Kinds, Steps
<1>20. t.fast \in BOOLEAN
  BY <1>2, Zenon DEF Requests
<1>3. CASE ok
  <2>1. /\ thread' = [thread EXCEPT ![r] = [t EXCEPT !.step = "save"]]
        /\ Begin(r, new, drop) /\ Enter(r) /\ copy' = IF t.kind = "forget" THEN copy ELSE new
    BY <1>3, <1>2 DEF Change, Typed
  <2>2. Stored \in Configs /\ Readable
    BY <1>3, StoredTyped
  <2>9. /\ new \in Configs
        /\ Names(new) \subseteq Names(Stored) \cup {0} \cup (IF t.kind = "start" THEN {} ELSE {t.req})
        /\ t.kind # "settings" => new.opt = Stored.opt
        /\ t.kind \in {"start", "settings"} => new.token = Stored.token /\ new.code = Stored.code
    <3>1. CASE t.kind = "start"
      BY <2>2, <3>1 DEF Reloaded
    <3>2. CASE t.kind = "pair"
      <4>1. new = PairedAs(Stored, t.req)
        BY <3>2 DEF Reloaded
      <4>. HIDE DEF new, t
      <4>2. new \in Configs /\ Names(new) = {t.req, Stored.code} /\ new.opt = Stored.opt
        BY <4>1, <2>2, <1>2, <1>20, Changed
      <4>3. Stored.code \in Names(Stored)
        BY DEF Names
      <4>. QED
        BY <3>2, <4>2, <4>3
    <3>3. CASE t.kind = "forget"
      <4>1. new = Forgotten(Stored, t.req)
        BY <3>3 DEF Reloaded
      <4>. QED
        BY <4>1, <3>3, <2>2, <1>2, <1>20, Changed
    <3>4. CASE t.kind = "settings"
      <4>1. new = Stores(Stored, t.req, t.fast)
        BY <3>4 DEF Reloaded
      <4>. HIDE DEF new
      <4>. QED
        BY <4>1, <3>4, <2>2, <1>2, <1>20, Changed DEF Names
    <3>. QED
      BY <1>2, <3>1, <3>2, <3>3, <3>4
  <2>4. drop \in SUBSET Ids
    BY <2>2 DEF Reloaded, Configs
  <2>. HIDE DEF new, drop, ok
  <2>5. /\ save' \in [Savers -> Saves] /\ save'[r].step = "open" /\ save'[r].cfg = new
        /\ \A q \in Savers : q # r => save'[q] = save[q]
    BY <1>2, <2>1, <2>4, <2>9, BeginType
  <2>6. [t EXCEPT !.step = "save"] \in Requests /\ [t EXCEPT !.step = "save"].step = "save"
        /\ [t EXCEPT !.step = "save"].kind = t.kind
    BY <1>2, Moves
  <2>7. /\ thread' \in [Threads -> Requests] /\ thread'[r].step = "save" /\ thread'[r].kind = t.kind
        /\ \A q \in Threads : q # r => thread'[q] = thread[q]
    BY <2>1, <2>6, ThreadGoes DEF Typed
  <2>8. copy' \in Configs /\ disturbed' \in BOOLEAN
    BY <2>1, <2>9 DEF Typed, Enter
  <2>10. Typed'
    BY <1>1, <2>5, <2>7, <2>8 DEF Typed
  <2>11. ChangeBegins(r)
    BY <2>1, <2>2, <2>5, <2>7, <2>8, <2>9 DEF ChangeBegins
  <2>. QED
    BY <1>1, <2>7, <2>10, <2>11
<1>4. CASE ~ok
  <2>1. thread' = [thread EXCEPT ![r] = NoThread] /\ UNCHANGED <<save, copy, disturbed>>
    BY <1>4 DEF Change
  <2>2. Readable => t.kind = "pair"
    BY <1>4
  <2>3. Typed' /\ thread'[r] = NoThread /\ \A q \in Threads : q # r => thread'[q] = thread[q]
    BY <1>1, <2>1, Nobody, GoesOn DEF Typed
  <2>. QED
    BY <1>1, <2>1, <2>2, <2>3
<1>. QED
  BY <1>3, <1>4

\* The three things a step of the touch UI comes to: it begins to save its copy, it takes
\* the file for its copy, or neither.
ScreenSaves(s) ==
    /\ Quiet(s) /\ save'[s].step = "open" /\ \A t \in Savers : t # s => save'[t] = save[t]
    /\ Enter(s) /\ event' = event
    /\ \/ /\ Names(ui'.cfg) = Names(ui.cfg) /\ save'[s].drop = {}
          /\ inputs' \in {inputs, inputs + 1}
       \/ /\ Names(ui'.cfg) = {0, inputs + 1} /\ save'[s].drop = Names(ui.cfg) \ {0}
          /\ inputs' = inputs + 1
ScreenAdopts ==
    /\ Readable /\ ui'.cfg = Stored /\ Quiet(Gui) /\ Enter(Gui)
    /\ UNCHANGED <<save, inputs>>
ScreenStays ==
    /\ ui'.cfg = ui.cfg /\ UNCHANGED <<save, inputs, disturbed>>
    /\ event' = event \/ (Readable => ui.cfg.opt = Stored.opt)

LEMMA ScreenSavesType ==
    ASSUME Typed, NEW s \in Screens, NEW c \in Configs, NEW d \in SUBSET Ids, Begin(s, c, d),
           ui' \in [cfg : Configs, step : {"idle", "call", "last"}], inputs' \in Ids, Enter(s),
           UNCHANGED <<disk, thread, copy, advert, dropped>>
    PROVE  Typed' /\ save'[s].step = "open" /\ save'[s].drop = d /\ \A t \in Savers : t # s => save'[t] = save[t]
<1>1. s \in Savers /\ disturbed' \in BOOLEAN
  BY Parties DEF Typed, Enter
<1>2. /\ save' \in [Savers -> Saves] /\ save'[s].step = "open" /\ save'[s].drop = d
      /\ \A t \in Savers : t # s => save'[t] = save[t]
  BY <1>1, BeginType
<1>. QED
  BY <1>1, <1>2 DEF Typed

LEMMA ForgetDoes ==
    ASSUME Typed, NEW s \in Screens, Forget(s), Quiet(s), NEW step \in {"idle", "call", "last"},
           ui' = [cfg |-> Forgotten(ui.cfg, inputs + 1), step |-> step]
    PROVE  /\ Typed' /\ UNCHANGED <<disk, thread, copy, advert, dropped, owner>> /\ ScreenSaves(s)
<1>. DEFINE d == {ui.cfg.token, ui.cfg.code} \ {0}
<1>1. ui.cfg \in Configs /\ inputs + 1 \in Ids /\ inputs' = inputs + 1
  BY StoreBounds DEF Typed, Forget, Ids
<1>2. Names(ui.cfg) \subseteq Ids /\ Forgotten(ui.cfg, inputs + 1) \in Configs
      /\ Names(Forgotten(ui.cfg, inputs + 1)) = {0, inputs + 1}
  BY <1>1, Changed, FALSE \in BOOLEAN
<1>3. /\ d \in SUBSET Ids /\ d = Names(ui.cfg) \ {0}
  BY <1>2 DEF Names
<1>4. /\ Begin(s, ui.cfg, d) /\ Enter(s) /\ UNCHANGED <<disk, thread, copy, advert, event, dropped, owner>>
  BY DEF Forget
<1>5. ui' \in [cfg : Configs, step : {"idle", "call", "last"}] /\ Names(ui'.cfg) = {0, inputs + 1}
  BY <1>2
<1>. HIDE DEF d
<1>6. Typed' /\ save'[s].step = "open" /\ save'[s].drop = d /\ \A t \in Savers : t # s => save'[t] = save[t]
  BY <1>1, <1>3, <1>4, <1>5, ScreenSavesType
<1>. QED
  BY <1>1, <1>3, <1>4, <1>5, <1>6 DEF ScreenSaves

LEMMA ScreenDoes ==
    ASSUME Typed, Screen
    PROVE  /\ Typed' /\ UNCHANGED <<disk, thread, copy, advert, dropped, owner>>
           /\ (\E s \in Screens : ScreenSaves(s)) \/ ScreenAdopts \/ ScreenStays
<1>0. /\ ui.cfg \in Configs /\ ui.step \in {"idle", "call", "last"} /\ inputs \in Ids
      /\ ui = [cfg |-> ui.cfg, step |-> ui.step] /\ Gui \in Screens /\ Worker \in Screens
  BY DEF Typed, Screens
<1>1. CASE Refresh
  <2>1. CASE ~Paired /\ Adoptable
    <3>1. Readable /\ Stored \in Configs
      BY <2>1, StoredTyped DEF Adoptable
    <3>2. /\ ui' = [cfg |-> Stored, step |-> "call"] /\ Enter(Gui) /\ Quiet(Gui)
          /\ UNCHANGED <<disk, save, thread, copy, advert, event, inputs, dropped, owner>>
      BY <1>1, <2>1 DEF Refresh, Free
    <3>3. Typed'
      BY <3>1, <3>2 DEF Typed, Enter
    <3>. QED
      BY <3>1, <3>2, <3>3 DEF ScreenAdopts
  <2>2. CASE ~(~Paired /\ Adoptable)
    <3>1. /\ ui' = [ui EXCEPT !.step = "call"]
          /\ UNCHANGED <<disk, save, thread, copy, advert, event, inputs, disturbed, dropped, owner>>
      BY <1>1, <2>2 DEF Refresh
    <3>2. Typed' /\ ui'.cfg = ui.cfg
      BY <3>1 DEF Typed
    <3>. QED
      BY <3>1, <3>2 DEF ScreenStays
  <2>. QED
    BY <2>1, <2>2
<1>2. CASE Answered
  <2>1. /\ Begin(Worker, ui.cfg, {}) /\ Enter(Worker) /\ Quiet(Worker) /\ ui' = [ui EXCEPT !.step = "last"]
        /\ UNCHANGED <<disk, thread, copy, advert, event, inputs, dropped, owner>>
    BY <1>2 DEF Answered
  <2>2. ui' \in [cfg : Configs, step : {"idle", "call", "last"}] /\ ui'.cfg = ui.cfg /\ inputs' \in Ids
    BY <1>0, <2>1
  <2>3. Typed' /\ save'[Worker].step = "open" /\ save'[Worker].drop = {}
        /\ \A t \in Savers : t # Worker => save'[t] = save[t]
    BY <1>0, <2>1, <2>2, ScreenSavesType
  <2>4. ScreenSaves(Worker)
    BY <2>1, <2>2, <2>3 DEF ScreenSaves
  <2>. QED
    BY <1>0, <2>1, <2>3, <2>4
<1>3. CASE CallFails \/ Finish \/ (Rejected /\ ~Paired)
  <2>1. /\ ui' = [ui EXCEPT !.step = "idle"]
        /\ UNCHANGED <<disk, save, thread, copy, advert, event, inputs, disturbed, dropped, owner>>
    BY <1>3 DEF CallFails, Finish, Rejected
  <2>2. Typed' /\ ui'.cfg = ui.cfg
    BY <2>1 DEF Typed
  <2>. QED
    BY <2>1, <2>2 DEF ScreenStays
<1>4. CASE Rejected /\ Paired
  <2>1. Forget(Worker) /\ Quiet(Worker) /\ ui' = [ui EXCEPT !.cfg = Forgotten(@, inputs + 1), !.step = "last"]
    BY <1>4 DEF Rejected
  <2>2. ui' = [cfg |-> Forgotten(ui.cfg, inputs + 1), step |-> "last"]
    BY <1>0, <2>1
  <2>. QED
    BY <1>0, <2>1, <2>2, ForgetDoes
<1>5. CASE Reset
  <2>1. Forget(Gui) /\ Quiet(Gui) /\ ui' = [ui EXCEPT !.cfg = Forgotten(@, inputs + 1)]
    BY <1>5 DEF Reset, Free
  <2>2. ui' = [cfg |-> Forgotten(ui.cfg, inputs + 1), step |-> ui.step]
    BY <1>0, <2>1
  <2>. QED
    BY <1>0, <2>1, <2>2, ForgetDoes
<1>6. CASE SetLocal
  <2>1. /\ Begin(Gui, ui.cfg, {}) /\ Enter(Gui) /\ Quiet(Gui) /\ inputs' = inputs + 1 /\ inputs' \in Ids
        /\ UNCHANGED <<disk, thread, copy, advert, event, dropped, owner>>
    BY <1>0, <1>6, StoreBounds DEF SetLocal, Free, Ids
  <2>2. PICK fast \in BOOLEAN : ui' = [ui EXCEPT !.cfg = Stores(@, inputs + 1, fast)]
    BY <1>6 DEF SetLocal
  <2>. DEFINE id == inputs + 1  c == Stores(ui.cfg, id, fast)
  <2>7. id \in Ids
    BY <2>1
  <2>. HIDE DEF id
  <2>8. c \in Configs /\ c.token = ui.cfg.token /\ c.code = ui.cfg.code
    BY <1>0, <2>7, Changed
  <2>3. c \in Configs /\ Names(c) = Names(ui.cfg)
    BY <2>8 DEF Names
  <2>9. ui' = [ui EXCEPT !.cfg = c]
    BY <1>0, <2>2 DEF id
  <2>. HIDE DEF c
  <2>4. ui' \in [cfg : Configs, step : {"idle", "call", "last"}] /\ Names(ui'.cfg) = Names(ui.cfg)
    BY <1>0, <2>3, <2>9
  <2>5. Typed' /\ save'[Gui].step = "open" /\ save'[Gui].drop = {}
        /\ \A t \in Savers : t # Gui => save'[t] = save[t]
    BY <1>0, <2>1, <2>4, ScreenSavesType
  <2>6. ScreenSaves(Gui)
    BY <2>1, <2>4, <2>5 DEF ScreenSaves
  <2>. QED
    BY <1>0, <2>1, <2>5, <2>6
<1>7. CASE Sync
  <2>1. CASE Readable /\ Differs(Stored)
    <3>1. /\ ui' = [ui EXCEPT !.cfg = Stored] /\ Enter(Gui) /\ Quiet(Gui)
          /\ UNCHANGED <<disk, save, thread, copy, advert, inputs, dropped, owner>>
      BY <1>7, <2>1 DEF Sync, Free
    <3>2. Typed' /\ ui'.cfg = Stored
      BY <2>1, <3>1, StoredTyped DEF Typed, Enter
    <3>. QED
      BY <2>1, <3>1, <3>2 DEF ScreenAdopts
  <2>2. CASE ~(Readable /\ Differs(Stored))
    <3>1. UNCHANGED <<disk, save, thread, copy, advert, ui, inputs, disturbed, dropped, owner>>
      BY <1>7, <2>2 DEF Sync
    <3>2. Typed' /\ (Readable => ui.cfg.opt = Stored.opt)
      BY <2>2, <3>1 DEF Typed, Differs
    <3>. QED
      BY <3>1, <3>2 DEF ScreenStays
  <2>. QED
    BY <2>1, <2>2
<1>. QED
  BY <1>1, <1>2, <1>3, <1>4, <1>5, <1>6, <1>7 DEF Screen

LEMMA RestartDaemonDoes ==
    ASSUME Typed, RestartDaemon
    PROVE  /\ Typed' /\ UNCHANGED <<disk, ui, event, inputs, dropped, owner>> /\ Readable
           /\ \A s \in Screens : save'[s] = save[s]
           /\ \A r \in Threads : save'[r] = NoSave /\ thread'[r].kind = "start" /\ thread'[r].step \in {"idle", "load"}
           /\ \E r \in Threads : thread'[r].step = "load"
           /\ advert' = -1
           /\ disturbed' = (disturbed \/ \E r \in Threads : thread[r].step = "notify")
<1>. DEFINE t == [NoThread EXCEPT !.step = "load"]
<1>1. t \in Requests /\ t.step = "load" /\ t.kind = "start"
  BY Moves, Nobody DEF Steps
<1>2. thread' = [r \in Threads |-> IF r = 1 THEN t ELSE NoThread]
  BY DEF RestartDaemon
<1>. HIDE DEF t
<1>3. /\ thread' \in [Threads -> Requests]
      /\ \A r \in Threads : thread'[r].kind = "start" /\ thread'[r].step \in {"idle", "load"}
      /\ 1 \in Threads => thread'[1].step = "load"
  BY <1>1, <1>2, Nobody
<1>4. 1 \in Threads
  BY StoreBounds DEF Threads
<1>5. save' = [s \in Savers |-> IF s \in Threads THEN NoSave ELSE save[s]]
  BY DEF RestartDaemon
<1>6. /\ save' \in [Savers -> Saves] /\ \A r \in Threads : save'[r] = NoSave
      /\ \A s \in Screens : save'[s] = save[s]
  BY <1>5, Nobody, Parties DEF Typed
<1>7. /\ UNCHANGED <<disk, ui, event, inputs, dropped, owner>> /\ Readable /\ advert' = -1 /\ copy' = Stored
      /\ disturbed' = (disturbed \/ \E r \in Threads : thread[r].step = "notify")
  BY DEF RestartDaemon
<1>8. Typed'
  BY <1>3, <1>6, <1>7, StoredTyped DEF Typed
<1>. QED
  BY <1>3, <1>4, <1>6, <1>7, <1>8

LEMMA RestartUiDoes ==
    ASSUME Typed, RestartUi
    PROVE  /\ Typed' /\ UNCHANGED <<disk, thread, copy, advert, event, inputs, disturbed, dropped, owner>> /\ Readable
           /\ ui'.cfg = Stored
           /\ \A s \in Screens : save'[s] = NoSave
           /\ \A r \in Threads : save'[r] = save[r]
<1>1. /\ UNCHANGED <<disk, thread, copy, advert, event, inputs, disturbed, dropped, owner>> /\ Readable
      /\ ui' = [cfg |-> Stored, step |-> "idle"]
      /\ save' = [s \in Savers |-> IF s \in Threads THEN save[s] ELSE NoSave]
  BY DEF RestartUi
<1>2. /\ save' \in [Savers -> Saves] /\ \A s \in Screens : save'[s] = NoSave
      /\ \A r \in Threads : save'[r] = save[r]
  BY <1>1, Nobody, Parties DEF Typed
<1>3. Typed'
  BY <1>1, <1>2, StoredTyped DEF Typed
<1>. QED
  BY <1>1, <1>2, <1>3

-----------------------------------------------------------------------------
(* What follows for the holder, the file, the drafts and the names in use *)

\* The names in use and the names that are leaving, one by one.
Uses(n)   == \/ n \in Names(Stored) \/ n \in Names(ui.cfg)
             \/ \E r \in Threads : ~Quiet(r) /\ n \in Names(save[r].cfg)
Leaves(n) == \E s \in Screens : ~Quiet(s) /\ n \in save[s].drop

LEMMA OneByOne ==
    /\ \A n : (n \in InUse <=> Uses(n)) /\ (n \in Leaving <=> Leaves(n))
    /\ (\A n : (n \in InUse <=> Uses(n)) /\ (n \in Leaving <=> Leaves(n)))'
BY DEF InUse, Leaving, Uses, Leaves

LEMMA OnlyHolder ==
    ASSUME Typed, Steady, Alone, NEW s \in Savers, ~Quiet(s)
    PROVE  /\ \A t \in Savers : t # s => Quiet(t)
           /\ \A r \in Threads : Holds(r) => r = s
           /\ s \in Threads => thread[s].step = "save"
BY Parties DEF Steady, Alone, Holders, Holds

\* Names that nobody takes up are as free as before.
LEMMA NamesKept ==
    ASSUME Drops, Fresh, inputs \in Ids,
           \A n : Uses(n)' => Uses(n), \A n : Leaves(n)' => Leaves(n),
           UNCHANGED <<dropped, inputs>>,
           \A n \in Names(ui'.cfg) : ~Leaves(n)',
           \A r \in Threads : r \in Pending' => r \in Pending /\ thread'[r].req = thread[r].req
    PROVE  Drops' /\ Fresh'
<1>1. InUse' \subseteq InUse /\ Leaving' \subseteq Leaving /\ Names(ui'.cfg) \cap Leaving' = {}
  BY OneByOne
<1>2. Drops'
  BY <1>1 DEF Drops
<1>3. \A r \in Pending' : r \in Pending /\ thread'[r].req = thread[r].req
  BY DEF Pending
<1>4. Fresh'
  BY <1>1, <1>3 DEF Fresh
<1>. QED
  BY <1>2, <1>4

\* A save that goes a step on, with the same draft, disturbs nothing but the temporary file.
LEMMA SaveGoesOn ==
    ASSUME Typed, Typed', Steady, Calm, NEW s \in Savers,
           UNCHANGED <<thread, copy, advert, ui, event, inputs, disturbed, dropped, owner>>,
           ~Quiet(s), save'[s].step # "idle", save'[s].drop = save[s].drop,
           s \in Threads => save'[s].cfg = save[s].cfg,
           \A t \in Savers : t # s => save'[t] = save[t],
           disk'.file = disk.file
    PROVE  Steady' /\ Alone' /\ Drops' /\ Fresh' /\ Told' /\ Announced'
<1>1. \A t \in Savers : Quiet(t)' <=> Quiet(t)
  BY DEF Quiet
<1>2. Steady' /\ Alone'
  BY <1>1, Parties DEF Calm, Steady, Alone, Holders, Holds
<1>3. Stored' = Stored /\ (Follows' <=> Follows)
  BY DEF Stored, Follows
<1>4. \A n : (Uses(n)' => Uses(n)) /\ (Leaves(n)' => Leaves(n))
  BY <1>1, <1>3, Parties DEF Uses, Leaves
<1>5. Drops' /\ Fresh'
  <2>1. \A n \in Names(ui'.cfg) : ~Leaves(n)'
    BY <1>4, OneByOne DEF Calm, Drops
  <2>. QED
    BY <1>4, <2>1, NamesKept DEF Calm, Typed, Pending
<1>6. Told'
  BY <1>1, <1>3, Parties DEF Calm, Told
<1>7. Announced'
  BY <1>3 DEF Calm, Announced
<1>. QED
  BY <1>2, <1>5, <1>6, <1>7

LEMMA OpenCalm == ASSUME Typed, Steady, Calm, NEW s \in Savers, Open(s) PROVE Steady' /\ Calm'
<1>1. /\ Typed' /\ UNCHANGED <<thread, copy, advert, ui, event, inputs, disturbed, dropped, owner>>
      /\ save[s].step = "open" /\ save'[s].step = "write" /\ save'[s].at = "tmp"
      /\ save'[s].cfg = (IF s \in Threads THEN save[s].cfg ELSE ui.cfg)
      /\ save'[s].drop = save[s].drop /\ \A t \in Savers : t # s => save'[t] = save[t]
      /\ disk'.file = disk.file /\ disk'.tmp = Empty
  BY OpenDoes
<1>2. ~Quiet(s) /\ save'[s].step # "idle"
  BY <1>1 DEF Quiet
<1>3. Steady' /\ Alone' /\ Drops' /\ Fresh' /\ Told' /\ Announced'
  BY <1>1, <1>2, SaveGoesOn
<1>4. \A t \in Savers : t # s => Quiet(t)
  BY <1>2, OnlyHolder DEF Calm
<1>5. Files'
  BY <1>1, <1>4 DEF Calm, Files, Readable, Quiet
<1>6. Drafts'
  BY <1>1, <1>4, Parties DEF Calm, Drafts, Quiet, Stored
<1>. QED
  BY <1>3, <1>5, <1>6 DEF Calm

LEMMA WriteCalm == ASSUME Typed, Steady, Calm, NEW s \in Savers, Write(s) PROVE Steady' /\ Calm'
<1>0. save[s].step = "write"
  BY WriteDoes
<1>1. save[s].at = "tmp" /\ disk.tmp = Empty
  BY <1>0 DEF Calm, Files
<1>2. /\ Typed' /\ UNCHANGED <<thread, copy, advert, ui, event, inputs, disturbed, dropped, owner>>
      /\ save'[s].step = "replace" /\ save'[s].at = "tmp"
      /\ save'[s].cfg = save[s].cfg /\ save'[s].drop = save[s].drop
      /\ \A t \in Savers : t # s => save'[t] = save[t]
      /\ disk'.file = disk.file /\ disk'.tmp = Whole(save[s].cfg)
  BY <1>1, WriteDoes
<1>3. ~Quiet(s) /\ save'[s].step # "idle"
  BY <1>0, <1>2 DEF Quiet
<1>4. Steady' /\ Alone' /\ Drops' /\ Fresh' /\ Told' /\ Announced'
  BY <1>2, <1>3, SaveGoesOn
<1>5. \A t \in Savers : t # s => Quiet(t)
  BY <1>3, OnlyHolder DEF Calm
<1>6. Files'
  BY <1>2, <1>5 DEF Calm, Files, Readable, Quiet
<1>7. Drafts'
  BY <1>0, <1>2, <1>5, Parties DEF Calm, Drafts, Quiet, Stored
<1>. QED
  BY <1>4, <1>6, <1>7 DEF Calm

LEMMA SamePairing ==
    ASSUME NEW c \in Configs, NEW d \in Configs
    PROVE  /\ Pairing(Whole(c)) = <<c.token, c.code>>
           /\ Pairing(Whole(c)) = Pairing(Whole(d)) <=> (c.token = d.token /\ c.code = d.code)
BY Texts DEF Pairing

LEMMA ReplaceCalm == ASSUME Typed, Steady, Calm, NEW s \in Savers, Replace(s) PROVE Steady' /\ Calm'
<1>0. save[s].step = "replace" /\ save[s] \in Saves
  BY ReplaceDoes DEF Typed
<1>1. disk.tmp = Whole(save[s].cfg) /\ disk.tmp # None /\ save[s].cfg \in Configs /\ Readable /\ ~Quiet(s)
  BY <1>0, Texts DEF Calm, Files, Quiet, Saves
<1>2. /\ Typed' /\ UNCHANGED <<copy, advert, ui, event, inputs, disturbed>> /\ save'[s] = NoSave
      /\ \A t \in Savers : t # s => /\ save'[t].step = save[t].step /\ save'[t].cfg = save[t].cfg
                                    /\ save'[t].drop = save[t].drop
      /\ s \notin Threads => thread' = thread /\ dropped' = dropped \cup save[s].drop
      /\ s \in Threads => /\ thread'[s].step = After(s) /\ thread'[s].kind = thread[s].kind /\ dropped' = dropped
                          /\ \A q \in Threads : q # s => thread'[q] = thread[q]
      /\ disk'.file = disk.tmp
      /\ owner' = IF Pairing(disk.tmp) # Pairing(disk.file) THEN Party(s) ELSE owner
  BY <1>1, ReplaceDoes
<1>3. /\ \A t \in Savers : t # s => Quiet(t)
      /\ \A r \in Threads : Holds(r) => r = s
      /\ s \in Threads => thread[s].step = "save"
  BY <1>1, OnlyHolder DEF Calm
<1>4. \A t \in Savers : Quiet(t)'
  BY <1>2, <1>3, Nobody DEF Quiet
<1>5. Readable' /\ Stored' = save[s].cfg /\ Stored \in Configs /\ disk.file = Whole(Stored)
  BY <1>1, <1>2, Texts, StoredTyped DEF Readable, Stored
<1>6. Pairing(disk.tmp) = Pairing(disk.file) => Stored'.token = Stored.token
  BY <1>1, <1>5, SamePairing
<1>7. Files'
  BY <1>4, <1>5 DEF Files, Quiet
<1>8. s \in Threads => thread'[s].step \in {"mdns", "notify"} /\ (thread'[s].step = "notify" <=> thread[s].kind = "settings")
  BY <1>2 DEF After
<1>9. Steady'
  BY Parties, <1>2, <1>3, <1>4, <1>8 DEF Steady, Quiet
<1>10. Alone'
  <2>1. \A r \in Threads : Holds(r)' => r = s
    BY <1>2, <1>3 DEF Holds
  <2>. QED
    BY <1>4, <2>1, Parties DEF Alone, Holders
<1>11. Drafts'
  BY <1>4, <1>9, Parties DEF Drafts, Quiet, Steady
<1>12. \A r \in Threads : r \in Pending' => r \in Pending /\ thread'[r] = thread[r]
  BY <1>2, <1>8 DEF Pending
<1>13. \A n : ~Leaves(n)'
  BY <1>4, Parties DEF Leaves
<1>20. CASE s \in Threads
  <2>1. \A n : Uses(n)' => Uses(n)
    BY <1>1, <1>2, <1>4, <1>5, <1>20, Parties DEF Uses
  <2>2. Drops' /\ Fresh'
    BY <1>2, <1>12, <1>13, <1>20, <2>1, NamesKept DEF Calm, Typed
  <2>3. Told'
    <3>1. CASE thread[s].kind = "settings"
      BY <1>8, <1>20, <3>1 DEF Told
    <3>2. CASE thread[s].kind # "settings"
      <4>1. Stored'.opt = Stored.opt
        BY <1>3, <1>5, <1>20, <3>2 DEF Calm, Drafts
      <4>2. \A t \in Screens : Quiet(t)
        BY <1>3, <1>20, Parties
      <4>. QED
        BY <1>2, <1>3, <1>20, <4>1, <4>2 DEF Calm, Told
    <3>. QED
      BY <3>1, <3>2
  <2>4. Announced'
    <3>1. \A r \in Threads : thread'[r].step # "advert"
      BY <1>2, <1>3, <1>8, <1>20 DEF Holds
    <3>2. CASE thread[s].kind # "settings"
      BY <1>8, <1>20, <3>1, <3>2 DEF Announced
    <3>3. CASE thread[s].kind = "settings"
      <4>1. Stored'.token = Stored.token /\ Stored'.code = Stored.code
        BY <1>3, <1>5, <1>20, <3>3 DEF Calm, Drafts
      <4>2. owner' = owner
        BY <1>1, <1>2, <1>5, <4>1, SamePairing
      <4>3. Follows' <=> Follows
        BY <1>2, <4>1 DEF Follows
      <4>4. \A r \in Threads : thread[r].kind = "start" \/ thread[r].step \in {"mdns", "advert"} => r # s
        BY <1>3, <1>20, <3>3
      <4>. QED
        BY <1>2, <1>20, <3>1, <4>2, <4>3, <4>4 DEF Calm, Announced
    <3>. QED
      BY <3>2, <3>3
  <2>. QED
    BY <1>7, <1>9, <1>10, <1>11, <2>2, <2>3, <2>4 DEF Calm
<1>21. CASE s \notin Threads
  <2>0. s \in Screens
    BY <1>21, Parties
  <2>1. Stored' = ui.cfg
    BY <1>0, <1>5, <2>0 DEF Calm, Drafts
  <2>2. \A n : Uses(n)' => n \in Names(ui.cfg)
    BY <1>2, <1>4, <2>1, Parties DEF Uses
  <2>3. /\ InUse' \subseteq Names(ui.cfg) /\ Names(ui.cfg) \subseteq InUse /\ Leaving' = {}
        /\ save[s].drop \subseteq Leaving
    BY <1>1, <1>13, <2>0, <2>2, OneByOne DEF Uses, Leaves
  <2>4. Drops'
    BY <1>2, <1>21, <2>3 DEF Calm, Drops
  <2>5. Fresh'
    <3>1. InUse' \cup dropped' \cup Leaving' \subseteq InUse \cup dropped \cup Leaving
      BY <1>2, <1>21, <2>3
    <3>2. \A r \in Pending' : r \in Threads
      BY DEF Pending
    <3>. QED
      BY <1>2, <1>12, <3>1, <3>2 DEF Calm, Fresh
  <2>6. Told'
    BY <1>2, <2>1 DEF Told
  <2>7. Announced'
    <3>1. owner' = "daemon" => owner = "daemon" /\ Stored'.token = Stored.token
      BY <1>2, <1>6, <1>21 DEF Party
    <3>2. Stored'.token = Stored.token => (Follows' <=> Follows)
      BY <1>2 DEF Follows
    <3>. QED
      BY <1>2, <1>21, <3>1, <3>2 DEF Calm, Announced
  <2>. QED
    BY <1>7, <1>9, <1>10, <1>11, <2>4, <2>5, <2>6, <2>7 DEF Calm
<1>. QED
  BY <1>20, <1>21

\* A request that goes a step on without a save.
LEMMA RequestGoesOn ==
    ASSUME Typed, Steady, Calm, NEW r \in Threads, UNCHANGED <<disk, save, ui, dropped, owner>>,
           \A q \in Threads : q # r => thread'[q] = thread[q],
           thread[r].step # "save", thread'[r].step # "save", Holds(r)' => Holds(r),
           thread'[r].step = "notify" => thread'[r].kind \in {"settings", "command"}
    PROVE  /\ Steady' /\ Alone' /\ Files' /\ Drafts' /\ Stored' = Stored /\ (\A s \in Savers : Quiet(s)' <=> Quiet(s))
           /\ \A n : (Uses(n)' <=> Uses(n)) /\ (Leaves(n)' <=> Leaves(n))
           /\ \A n \in Names(ui'.cfg) : ~Leaves(n)'
<1>1. \A s \in Savers : Quiet(s)' <=> Quiet(s)
  BY DEF Quiet
<1>2. Stored' = Stored
  BY DEF Stored
<1>3. Steady'
  BY <1>1, Parties DEF Steady
<1>4. Alone'
  BY <1>1, Parties DEF Calm, Alone, Holders, Holds
<1>5. Files' /\ Drafts'
  BY <1>2, Parties DEF Calm, Files, Readable, Drafts
<1>6. \A n : (Uses(n)' <=> Uses(n)) /\ (Leaves(n)' <=> Leaves(n))
  BY <1>1, <1>2, Parties DEF Uses, Leaves
<1>7. \A n \in Names(ui'.cfg) : ~Leaves(n)'
  BY <1>6, OneByOne DEF Calm, Drops
<1>. QED
  BY <1>1, <1>2, <1>3, <1>4, <1>5, <1>6, <1>7

LEMMA ArriveCalm == ASSUME Typed, Steady, Calm, NEW r \in Threads, Arrive(r) PROVE Steady' /\ Calm'
<1>1. /\ Typed' /\ UNCHANGED <<disk, save, copy, advert, ui, event, disturbed, dropped, owner>>
      /\ inputs' = inputs + 1 /\ thread[r].step = "idle"
      /\ thread'[r].step = "load" /\ thread'[r].kind # "start" /\ thread'[r].req = inputs + 1
      /\ \A q \in Threads : q # r => thread'[q] = thread[q]
  BY ArriveDoes
<1>2. ~Holds(r)'
  BY <1>1 DEF Holds
<1>3. /\ Steady' /\ Alone' /\ Files' /\ Drafts' /\ Stored' = Stored /\ (\A s \in Savers : Quiet(s)' <=> Quiet(s))
      /\ \A n : (Uses(n)' <=> Uses(n)) /\ (Leaves(n)' <=> Leaves(n))
      /\ \A n \in Names(ui'.cfg) : ~Leaves(n)'
  BY <1>1, <1>2, RequestGoesOn
<1>4. InUse' \subseteq InUse /\ Leaving' \subseteq Leaving /\ Names(ui'.cfg) \cap Leaving' = {}
  BY <1>3, OneByOne
<1>5. Drops'
  BY <1>1, <1>4 DEF Calm, Drops
<1>6. Fresh'
  <2>. DEFINE all == InUse \cup dropped \cup Leaving  all2 == InUse' \cup dropped' \cup Leaving'
  <2>1. all2 \subseteq all
    BY <1>1, <1>4
  <2>2. inputs \in Nat /\ all \subseteq 0..inputs
    BY StoreBounds DEF Calm, Fresh, Typed, Ids
  <2>3. \A q \in Pending' : q = r \/ (q \in Pending /\ thread'[q].req = thread[q].req)
    BY <1>1 DEF Pending
  <2>4. \A q \in Pending : thread[q].req \in 1..inputs /\ thread[q].req \notin all
    BY DEF Calm, Fresh
  <2>5. \A p, q \in Pending : thread[p].req = thread[q].req => p = q
    BY DEF Calm, Fresh
  <2>. HIDE DEF all, all2
  <2>6. all2 \subseteq 0..inputs' /\ \A q \in Pending' : thread'[q].req \in 1..inputs' /\ thread'[q].req \notin all2
    BY <1>1, <2>1, <2>2, <2>3, <2>4
  <2>7. \A p, q \in Pending' : thread'[p].req = thread'[q].req => p = q
    BY <1>1, <2>2, <2>3, <2>4, <2>5
  <2>. QED
    BY <2>6, <2>7 DEF Fresh, all2
<1>7. Told'
  BY <1>1, <1>3, Parties DEF Calm, Told
<1>8. Announced'
  <2>1. Follows' <=> Follows
    BY <1>1, <1>3 DEF Follows
  <2>. QED
    BY <1>1, <1>3, <2>1 DEF Calm, Announced
<1>. QED
  BY <1>3, <1>5, <1>6, <1>7, <1>8 DEF Calm

\* A request that ends or goes on takes up no name.
LEMMA RequestKeepsNames ==
    ASSUME Typed, Steady, Calm, NEW r \in Threads, UNCHANGED <<disk, save, ui, inputs, dropped, owner>>,
           \A q \in Threads : q # r => thread'[q] = thread[q],
           thread[r].step # "save", thread'[r].step \notin {"save", "load"}, Holds(r)' => Holds(r),
           thread'[r].step = "notify" => thread'[r].kind \in {"settings", "command"}
    PROVE  /\ Steady' /\ Alone' /\ Files' /\ Drafts' /\ Drops' /\ Fresh' /\ Stored' = Stored
           /\ \A s \in Savers : Quiet(s)' <=> Quiet(s)
<1>3. /\ Steady' /\ Alone' /\ Files' /\ Drafts' /\ Stored' = Stored /\ (\A s \in Savers : Quiet(s)' <=> Quiet(s))
      /\ \A n : (Uses(n)' <=> Uses(n)) /\ (Leaves(n)' <=> Leaves(n))
      /\ \A n \in Names(ui'.cfg) : ~Leaves(n)'
  BY RequestGoesOn
<1>4. \A q \in Threads : q \in Pending' => q \in Pending /\ thread'[q].req = thread[q].req
  BY DEF Pending
<1>5. Drops' /\ Fresh'
  BY <1>3, <1>4, NamesKept DEF Calm, Typed
<1>. QED
  BY <1>3, <1>5

LEMMA CommandCalm == ASSUME Typed, Steady, Calm, NEW r \in Threads, Command(r) PROVE Steady' /\ Calm'
<1>1. /\ Typed' /\ UNCHANGED <<disk, save, copy, advert, ui, event, inputs, disturbed, dropped, owner>>
      /\ thread[r].step = "load" /\ thread[r].kind = "command"
      /\ \/ thread'[r].step = "notify" /\ thread'[r].kind = "command"
         \/ thread'[r] = NoThread
      /\ \A q \in Threads : q # r => thread'[q] = thread[q]
  BY CommandDoes
<1>2. thread'[r].step \in {"idle", "notify"} /\ (thread'[r].step = "notify" => thread'[r].kind = "command")
  BY <1>1, Nobody
<1>3. ~Holds(r)'
  BY <1>2 DEF Holds
<1>4. /\ Steady' /\ Alone' /\ Files' /\ Drafts' /\ Drops' /\ Fresh' /\ Stored' = Stored
      /\ \A s \in Savers : Quiet(s)' <=> Quiet(s)
  BY <1>1, <1>2, <1>3, RequestKeepsNames
<1>5. Told'
  BY <1>1, <1>4, Parties DEF Calm, Told
<1>6. Announced'
  <2>1. Follows' <=> Follows
    BY <1>1, <1>4 DEF Follows
  <2>. QED
    BY <1>1, <1>2, <1>4, <2>1 DEF Calm, Announced
<1>. QED
  BY <1>4, <1>5, <1>6 DEF Calm

LEMMA MdnsLoadCalm == ASSUME Typed, Steady, Calm, NEW r \in Threads, MdnsLoad(r) PROVE Steady' /\ Calm'
<1>0. Readable
  BY DEF Calm, Files
<1>1. /\ Typed' /\ UNCHANGED <<disk, save, advert, ui, event, inputs, disturbed, dropped, owner>>
      /\ thread[r].step = "mdns" /\ thread'[r].step = "advert" /\ thread'[r].kind = thread[r].kind
      /\ thread'[r].paired = (Stored.token # 0)
      /\ \A q \in Threads : q # r => thread'[q] = thread[q]
  BY <1>0, MdnsLoadDoes
<1>3. Holds(r)
  BY <1>1 DEF Holds
<1>4. /\ Steady' /\ Alone' /\ Files' /\ Drafts' /\ Drops' /\ Fresh' /\ Stored' = Stored
      /\ \A s \in Savers : Quiet(s)' <=> Quiet(s)
  BY <1>1, <1>3, RequestKeepsNames
<1>5. Told'
  BY <1>1, <1>4, Parties DEF Calm, Told
<1>6. Announced'
  <2>1. \A q \in Threads : q # r /\ Holds(q) => FALSE
    BY <1>3 DEF Calm, Alone, Holders
  <2>2. \A q \in Threads : thread'[q].step = "advert" => q = r
    BY <1>1, <2>1 DEF Holds
  <2>. QED
    BY <1>1, <1>4, <2>2 DEF Announced
<1>. QED
  BY <1>4, <1>5, <1>6 DEF Calm

LEMMA RefreshMdnsCalm == ASSUME Typed, Steady, Calm, NEW r \in Threads, RefreshMdns(r) PROVE Steady' /\ Calm'
<1>1. /\ Typed' /\ UNCHANGED <<disk, save, copy, ui, event, inputs, disturbed, dropped, owner>>
      /\ thread[r].step = "advert" /\ thread'[r] = NoThread
      /\ (advert' >= 0) <=> ~thread[r].paired
      /\ \A q \in Threads : q # r => thread'[q] = thread[q]
  BY RefreshMdnsDoes
<1>2. thread'[r].step = "idle"
  BY <1>1, Nobody
<1>3. Holds(r)
  BY <1>1 DEF Holds
<1>4. /\ Steady' /\ Alone' /\ Files' /\ Drafts' /\ Drops' /\ Fresh' /\ Stored' = Stored
      /\ \A s \in Savers : Quiet(s)' <=> Quiet(s)
  BY <1>1, <1>2, <1>3, RequestKeepsNames
<1>5. Told'
  BY <1>1, <1>4, Parties DEF Calm, Told
<1>6. Announced'
  <2>1. owner = "daemon" => thread[r].paired = (Stored.token # 0)
    BY <1>1 DEF Calm, Announced
  <2>2. owner = "daemon" => Follows'
    BY <1>1, <1>4, <2>1 DEF Follows
  <2>3. \A q \in Threads : q # r => ~Holds(q)
    BY <1>3 DEF Calm, Alone, Holders
  <2>4. \A q \in Threads : thread'[q].step # "advert"
    BY <1>1, <1>2, <2>3 DEF Holds
  <2>. QED
    BY <1>1, <2>2, <2>4 DEF Announced
<1>. QED
  BY <1>4, <1>5, <1>6 DEF Calm

LEMMA NotifyCalm == ASSUME Typed, Steady, Calm, NEW r \in Threads, Notify(r) PROVE Steady' /\ Calm'
<1>1. /\ Typed' /\ UNCHANGED <<disk, save, copy, advert, ui, inputs, disturbed, dropped, owner>>
      /\ thread[r].step = "notify" /\ thread'[r] = NoThread /\ event'
      /\ \A q \in Threads : q # r => thread'[q] = thread[q]
  BY NotifyDoes
<1>2. thread'[r].step = "idle" /\ thread[r].kind \in {"settings", "command"}
  BY <1>1, Nobody DEF Steady
<1>3. ~Holds(r)'
  BY <1>2 DEF Holds
<1>4. /\ Steady' /\ Alone' /\ Files' /\ Drafts' /\ Drops' /\ Fresh' /\ Stored' = Stored
      /\ \A s \in Savers : Quiet(s)' <=> Quiet(s)
  BY <1>1, <1>2, <1>3, RequestKeepsNames
<1>5. Told'
  BY <1>1 DEF Told
<1>6. Announced'
  <2>1. Follows' <=> Follows
    BY <1>1, <1>4 DEF Follows
  <2>. QED
    BY <1>1, <1>2, <1>4, <2>1 DEF Calm, Announced
<1>. QED
  BY <1>4, <1>5, <1>6 DEF Calm

\* Who enters the file while nobody is in it is alone there.
LEMMA EnterAlone ==
    ASSUME Typed, NEW s \in Savers, Enter(s), ~disturbed', Quiet(s)
    PROVE  /\ ~disturbed /\ \A t \in Savers : Quiet(t)
           /\ \A q \in Threads : q # s => thread[q].step \in {"idle", "load"}
BY DEF Enter, InWindow

LEMMA ChangeCalm ==
    ASSUME Typed, ~disturbed => Steady /\ Calm, NEW r \in Threads, Change(r), ~disturbed'
    PROVE  Steady' /\ Calm'
<1>1. /\ Typed' /\ UNCHANGED <<disk, advert, ui, event, inputs, dropped, owner>>
      /\ thread[r].step = "load" /\ thread[r].kind # "command"
      /\ \/ ChangeBegins(r)
         \/ /\ thread'[r] = NoThread /\ UNCHANGED <<save, copy, disturbed>>
            /\ Readable => thread[r].kind # "start"
      /\ \A q \in Threads : q # r => thread'[q] = thread[q]
  BY ChangeDoes
<1>2. CASE thread'[r] = NoThread /\ UNCHANGED <<save, copy, disturbed>> /\ (Readable => thread[r].kind # "start")
  <2>1. Steady /\ Calm /\ thread[r].kind # "start"
    BY <1>2 DEF Calm, Files
  <2>2. thread'[r].step = "idle"
    BY <1>2, Nobody
  <2>3. ~Holds(r)'
    BY <2>2 DEF Holds
  <2>4. /\ Steady' /\ Alone' /\ Files' /\ Drafts' /\ Drops' /\ Fresh' /\ Stored' = Stored
        /\ \A s \in Savers : Quiet(s)' <=> Quiet(s)
    BY <1>1, <1>2, <2>1, <2>2, <2>3, RequestKeepsNames
  <2>5. Told'
    BY <1>1, <2>1, <2>4, Parties DEF Calm, Told
  <2>6. Announced'
    <3>1. Follows' <=> Follows
      BY <1>1, <2>4 DEF Follows
    <3>. QED
      BY <1>1, <2>1, <2>2, <2>4, <3>1 DEF Calm, Announced
  <2>. QED
    BY <2>4, <2>5, <2>6 DEF Calm
<1>3. CASE ChangeBegins(r)
  <2>. USE <1>3 DEF ChangeBegins
  <2>0. ~disturbed /\ r \in Savers
    BY Parties DEF Enter
  <2>1. Steady /\ Calm /\ Quiet(r)
    BY <1>1, <2>0 DEF Steady
  <2>2. /\ \A t \in Savers : Quiet(t)
        /\ \A q \in Threads : q # r => thread[q].step \in {"idle", "load"}
    BY <2>0, <2>1, EnterAlone
  <2>3. /\ ~Quiet(r)' /\ \A t \in Savers : t # r => Quiet(t)'
        /\ \A q \in Threads : Holds(q)' => q = r
    BY <1>1, <2>2 DEF Quiet, Holds
  <2>4. Steady'
    BY <1>1, <2>2, <2>3, Parties DEF Steady
  <2>5. Alone'
    BY <2>3, Parties DEF Alone, Holders
  <2>6. Files'
    BY <1>1, <2>1, <2>3 DEF Calm, Files, Readable, Quiet
  <2>7. Stored' = Stored
    BY <1>1 DEF Stored
  <2>8. Drafts'
    BY <1>1, <2>3, <2>7, Parties DEF Drafts, Quiet, Holds
  <2>. DEFINE new == {0} \cup (IF thread[r].kind = "start" THEN {} ELSE {thread[r].req})
  <2>9. InUse' \subseteq InUse \cup new /\ Leaving' = {}
    <3>1. \A n : Uses(n)' => Uses(n) \/ n \in new
      BY <1>1, <2>3, <2>7, Parties DEF Uses
    <3>2. \A n : ~Leaves(n)'
      BY <2>3, Parties DEF Leaves
    <3>. QED
      BY <3>1, <3>2, OneByOne
  <2>. HIDE <1>3 DEF ChangeBegins
  <2>10. thread[r].kind # "start" => r \in Pending
    BY <1>1 DEF Pending
  <2>11. new \cap dropped = {} /\ new \subseteq 0..inputs
    BY <2>1, <2>10, StoreBounds DEF Calm, Fresh, Drops, Typed, Ids
  <2>12. Drops'
    BY <1>1, <2>1, <2>9, <2>11 DEF Calm, Drops
  <2>13. Fresh'
    <3>1. \A q \in Pending' : q \in Pending /\ q # r /\ thread'[q].req = thread[q].req
      BY <1>1, <1>3 DEF Pending, ChangeBegins
    <3>2. \A q \in Pending : thread[q].req \in 1..inputs /\ thread[q].req \notin InUse \cup dropped \cup Leaving
      BY <2>1 DEF Calm, Fresh
    <3>3. \A p, q \in Pending : thread[p].req = thread[q].req => p = q
      BY <2>1 DEF Calm, Fresh
    <3>4. \A q \in Pending' : thread'[q].req \notin new
      BY <2>10, <3>1, <3>2, <3>3
    <3>5. InUse' \cup dropped' \cup Leaving' \subseteq InUse \cup dropped \cup new
      BY <1>1, <2>9
    <3>6. InUse \cup dropped \subseteq 0..inputs
      BY <2>1 DEF Calm, Fresh
    <3>. QED
      BY <1>1, <2>11, <3>1, <3>2, <3>3, <3>4, <3>5, <3>6 DEF Fresh
  <2>14. Told'
    <3>1. \A q \in Threads : thread[q].step = "notify" => q # r
      BY <1>1
    <3>. QED
      BY <1>1, <2>1, <2>2, <2>7, <3>1, Parties DEF Calm, Told
  <2>15. Announced'
    <3>2. thread'[r].step = "save" /\ thread'[r].kind = thread[r].kind
      BY <1>3 DEF ChangeBegins
    <3>3. thread'[r].step # "advert"
      BY <3>2
    <3>4. \A q \in Threads : thread'[q].step # "advert"
      BY <1>1, <2>2, <3>3
    <3>5. Follows' <=> Follows
      BY <1>1, <2>7 DEF Follows
    <3>. QED
      BY <1>1, <2>1, <3>2, <3>4, <3>5 DEF Calm, Announced
  <2>. QED
    BY <2>4, <2>5, <2>6, <2>8, <2>12, <2>13, <2>14, <2>15 DEF Calm
<1>. QED
  BY <1>1, <1>2, <1>3

\* What a save of the UI leaves alone, whatever it saves.
LEMMA ScreenEnters ==
    ASSUME Typed, Typed', Steady, Calm, NEW s \in Screens, ScreenSaves(s), ~disturbed',
           UNCHANGED <<disk, thread, copy, advert, dropped, owner>>
    PROVE  /\ Steady' /\ Alone' /\ Files' /\ Drafts' /\ Told' /\ Announced' /\ Stored' = Stored
           /\ \A t \in Savers : t # s => Quiet(t)'
<1>1. s \in Savers /\ s \notin Threads /\ Enter(s) /\ Quiet(s)
  BY Parties DEF ScreenSaves
<1>2. /\ \A t \in Savers : Quiet(t)
      /\ \A q \in Threads : thread[q].step \in {"idle", "load"}
  BY <1>1, EnterAlone
<1>3. ~Quiet(s)' /\ save'[s].step = "open" /\ \A t \in Savers : t # s => Quiet(t)'
  BY <1>2 DEF ScreenSaves, Quiet
<1>4. Steady'
  BY <1>1, <1>2, <1>3, Parties DEF Steady
<1>5. Alone'
  BY <1>1, <1>2, <1>3, Parties DEF Alone, Holders, Holds
<1>6. Stored' = Stored
  BY DEF Stored
<1>7. Files'
  BY <1>3 DEF Calm, Files, Readable, Quiet
<1>8. Drafts'
  BY <1>2, <1>3, Parties DEF Drafts, Quiet
<1>9. Told'
  BY <1>3 DEF Told
<1>10. Announced'
  <2>1. Follows' <=> Follows
    BY <1>6 DEF Follows
  <2>. QED
    BY <1>6, <2>1 DEF Calm, Announced
<1>. QED
  BY <1>3, <1>4, <1>5, <1>6, <1>7, <1>8, <1>9, <1>10

LEMMA ScreenCalm ==
    ASSUME Typed, ~disturbed => Steady /\ Calm, Screen, ~disturbed'
    PROVE  Steady' /\ Calm'
<1>1. /\ Typed' /\ UNCHANGED <<disk, thread, copy, advert, dropped, owner>>
      /\ (\E s \in Screens : ScreenSaves(s)) \/ ScreenAdopts \/ ScreenStays
  BY ScreenDoes
<1>2. ~disturbed
  BY <1>1 DEF ScreenSaves, ScreenAdopts, ScreenStays, Enter
<1>3. Steady /\ Calm /\ inputs \in Nat
  BY <1>2, StoreBounds DEF Typed, Ids
<1>4. Stored' = Stored
  BY <1>1 DEF Stored
<1>5. \A q \in Threads : q \in Pending' <=> q \in Pending
  BY <1>1 DEF Pending
<1>10. CASE \E s \in Screens : ScreenSaves(s)
  <2>1. PICK s \in Screens : ScreenSaves(s)
    BY <1>10
  <2>2. /\ Steady' /\ Alone' /\ Files' /\ Drafts' /\ Told' /\ Announced'
        /\ \A t \in Savers : t # s => Quiet(t)'
    BY <1>1, <1>3, <2>1, ScreenEnters
  <2>3. \A n : Uses(n)' => n \in Names(Stored) \/ n \in Names(ui'.cfg)
    BY <1>4, <2>2, Parties DEF Uses
  <2>4. \A n : Leaves(n)' => n \in save'[s].drop
    BY <2>2, Parties DEF Leaves
  <2>5. InUse' \subseteq Names(Stored) \cup Names(ui'.cfg) /\ Leaving' \subseteq save'[s].drop
    BY <2>3, <2>4, OneByOne
  <2>6. Names(Stored) \cup Names(ui.cfg) \subseteq InUse
    BY OneByOne DEF Uses
  <2>. DEFINE all == InUse \cup dropped \cup Leaving  all2 == InUse' \cup dropped' \cup Leaving'
  <2>7. /\ all \subseteq 0..inputs /\ dropped \subseteq all /\ InUse \subseteq all
        /\ \A q \in Pending : thread[q].req \in 1..inputs /\ thread[q].req \notin all
        /\ \A p, q \in Pending : thread[p].req = thread[q].req => p = q
    BY <1>3 DEF Calm, Fresh
  <2>8. InUse \cap dropped = {} /\ 0 \notin dropped
    BY <1>3 DEF Calm, Drops
  <2>9. \A q \in Pending' : q \in Pending /\ thread'[q].req = thread[q].req
    BY <1>1, <1>5 DEF Pending
  <2>11. CASE /\ Names(ui'.cfg) = Names(ui.cfg) /\ save'[s].drop = {}
              /\ inputs' \in {inputs, inputs + 1}
    <3>1. InUse' \subseteq InUse /\ Leaving' = {}
      BY <2>5, <2>6, <2>11
    <3>2. Drops'
      BY <1>1, <2>8, <3>1 DEF Drops
    <3>3. all2 \subseteq all
      BY <1>1, <3>1
    <3>. HIDE DEF all, all2
    <3>4. all2 \subseteq 0..inputs' /\ \A q \in Pending' : thread'[q].req \in 1..inputs' /\ thread'[q].req \notin all2
      BY <1>3, <2>7, <2>9, <2>11, <3>3
    <3>5. \A p, q \in Pending' : thread'[p].req = thread'[q].req => p = q
      BY <2>7, <2>9
    <3>6. Fresh'
      BY <3>4, <3>5 DEF Fresh, all2
    <3>. QED
      BY <2>2, <3>2, <3>6 DEF Calm
  <2>12. CASE /\ Names(ui'.cfg) = {0, inputs + 1} /\ save'[s].drop = Names(ui.cfg) \ {0}
              /\ inputs' = inputs + 1
    <3>1. InUse' \subseteq InUse \cup {0, inputs + 1} /\ Leaving' \subseteq InUse \ {0}
      BY <2>5, <2>6, <2>12
    <3>2. inputs + 1 \notin all /\ dropped \subseteq all /\ InUse \subseteq all
      BY <1>3, <2>7
    <3>3. Drops'
      BY <1>1, <2>8, <2>12, <3>1, <3>2 DEF Drops
    <3>4. all2 \subseteq all \cup {0, inputs + 1}
      BY <1>1, <3>1
    <3>. HIDE DEF all, all2
    <3>5. all2 \subseteq 0..inputs' /\ \A q \in Pending' : thread'[q].req \in 1..inputs' /\ thread'[q].req \notin all2
      BY <1>3, <2>7, <2>9, <2>12, <3>4
    <3>6. \A p, q \in Pending' : thread'[p].req = thread'[q].req => p = q
      BY <2>7, <2>9
    <3>7. Fresh'
      BY <3>5, <3>6 DEF Fresh, all2
    <3>. QED
      BY <2>2, <3>3, <3>7 DEF Calm
  <2>. QED
    BY <2>1, <2>11, <2>12 DEF ScreenSaves
<1>11. CASE ScreenAdopts
  <2>1. /\ UNCHANGED <<save, inputs>> /\ ui'.cfg = Stored /\ Quiet(Gui) /\ Enter(Gui) /\ Gui \in Savers
    BY <1>11, Parties DEF ScreenAdopts
  <2>2. /\ \A t \in Savers : Quiet(t) /\ Quiet(t)'
        /\ \A q \in Threads : q # Gui => thread[q].step \in {"idle", "load"}
    BY <2>1, EnterAlone DEF Quiet
  <2>3. Steady' /\ Alone'
    BY <1>1, <1>3, <2>1, <2>2, Parties DEF Calm, Steady, Alone, Holders, Holds
  <2>4. Files' /\ Drafts'
    BY <1>1, <1>3, <2>2, Parties DEF Calm, Files, Drafts, Readable, Quiet, Steady
  <2>5. Drops' /\ Fresh'
    <3>1. \A n : (Uses(n)' => Uses(n)) /\ ~Leaves(n)'
      BY <1>4, <2>1, <2>2, Parties DEF Uses, Leaves
    <3>. QED
      BY <1>1, <1>3, <1>5, <2>1, <3>1, NamesKept DEF Calm, Typed
  <2>6. Told'
    BY <1>4, <2>1 DEF Told
  <2>7. Announced'
    <3>1. Follows' <=> Follows
      BY <1>1, <1>4 DEF Follows
    <3>. QED
      BY <1>1, <1>3, <1>4, <3>1 DEF Calm, Announced
  <2>. QED
    BY <2>3, <2>4, <2>5, <2>6, <2>7 DEF Calm
<1>12. CASE ScreenStays
  <2>1. ui'.cfg = ui.cfg /\ UNCHANGED <<save, inputs>>
    BY <1>12 DEF ScreenStays
  <2>2. \A t \in Savers : Quiet(t)' <=> Quiet(t)
    BY <2>1 DEF Quiet
  <2>3. Steady' /\ Alone'
    BY <1>1, <1>3, <2>1, <2>2, Parties DEF Calm, Steady, Alone, Holders, Holds
  <2>4. Files' /\ Drafts'
    BY <1>1, <1>3, <1>4, <2>1, Parties DEF Calm, Files, Drafts, Readable
  <2>5. Drops' /\ Fresh'
    <3>1. \A n : (Uses(n)' => Uses(n)) /\ (Leaves(n)' => Leaves(n))
      BY <1>1, <1>4, <2>1, <2>2, Parties DEF Uses, Leaves
    <3>2. \A n \in Names(ui'.cfg) : ~Leaves(n)'
      BY <1>3, <2>1, <3>1, OneByOne DEF Calm, Drops
    <3>. QED
      BY <1>1, <1>3, <1>5, <2>1, <3>1, <3>2, NamesKept DEF Calm, Typed
  <2>6. Told'
    <3>1. event' = event \/ ui.cfg.opt = Stored.opt
      BY <1>3, <1>12 DEF ScreenStays, Calm, Files
    <3>. QED
      BY <1>1, <1>3, <1>4, <2>1, <2>2, <3>1, Parties DEF Calm, Told
  <2>7. Announced'
    <3>1. Follows' <=> Follows
      BY <1>1, <1>4 DEF Follows
    <3>. QED
      BY <1>1, <1>3, <1>4, <3>1 DEF Calm, Announced
  <2>. QED
    BY <2>3, <2>4, <2>5, <2>6, <2>7 DEF Calm
<1>. QED
  BY <1>1, <1>10, <1>11, <1>12

LEMMA RestartDaemonCalm ==
    ASSUME Typed, ~disturbed => Steady /\ Calm, RestartDaemon, ~disturbed'
    PROVE  Steady' /\ Calm'
<1>1. /\ Typed' /\ UNCHANGED <<disk, ui, event, inputs, dropped, owner>> /\ Readable
      /\ \A s \in Screens : save'[s] = save[s]
      /\ \A r \in Threads : save'[r] = NoSave /\ thread'[r].kind = "start" /\ thread'[r].step \in {"idle", "load"}
      /\ \E r \in Threads : thread'[r].step = "load"
      /\ advert' = -1
      /\ disturbed' = (disturbed \/ \E r \in Threads : thread[r].step = "notify")
  BY RestartDaemonDoes
<1>2. Steady /\ Calm /\ \A r \in Threads : thread[r].step # "notify"
  BY <1>1
<1>3. /\ \A s \in Screens : Quiet(s)' <=> Quiet(s)
      /\ \A r \in Threads : Quiet(r)'
  BY <1>1, Nobody DEF Quiet
<1>4. Stored' = Stored
  BY <1>1 DEF Stored
<1>5. Steady' /\ Alone'
  BY <1>1, <1>2, <1>3 DEF Calm, Steady, Alone, Holders, Holds
<1>6. Files' /\ Drafts'
  BY <1>1, <1>2, <1>3, <1>4, Parties DEF Calm, Files, Drafts, Readable, Quiet, Steady
<1>7. Drops' /\ Fresh'
  <2>1. \A n : (Uses(n)' => Uses(n)) /\ (Leaves(n)' => Leaves(n))
    BY <1>1, <1>3, <1>4 DEF Uses, Leaves
  <2>2. \A n \in Names(ui'.cfg) : ~Leaves(n)'
    BY <1>1, <1>2, <2>1, OneByOne DEF Calm, Drops
  <2>3. \A r \in Threads : r \notin Pending'
    BY <1>1 DEF Pending
  <2>. QED
    BY <1>1, <1>2, <2>1, <2>2, <2>3, NamesKept DEF Calm, Typed
<1>8. Told'
  BY <1>1, <1>2, <1>3, <1>4 DEF Calm, Told
<1>9. Announced'
  BY <1>1 DEF Announced
<1>. QED
  BY <1>5, <1>6, <1>7, <1>8, <1>9 DEF Calm

LEMMA RestartUiCalm == ASSUME Typed, Steady, Calm, RestartUi PROVE Steady' /\ Calm'
<1>1. /\ Typed' /\ UNCHANGED <<disk, thread, copy, advert, event, inputs, disturbed, dropped, owner>> /\ Readable
      /\ ui'.cfg = Stored
      /\ \A s \in Screens : save'[s] = NoSave
      /\ \A r \in Threads : save'[r] = save[r]
  BY RestartUiDoes
<1>3. /\ \A s \in Screens : Quiet(s)'
      /\ \A r \in Threads : Quiet(r)' <=> Quiet(r)
  BY <1>1, Nobody DEF Quiet
<1>4. Stored' = Stored
  BY <1>1 DEF Stored
<1>5. Steady' /\ Alone'
  BY <1>1, <1>3 DEF Calm, Steady, Alone, Holders, Holds
<1>6. Files' /\ Drafts'
  BY <1>1, <1>3, <1>4, Parties DEF Calm, Files, Drafts, Readable, Quiet
<1>7. Drops' /\ Fresh'
  <2>1. \A n : (Uses(n)' => Uses(n)) /\ ~Leaves(n)'
    BY <1>1, <1>3, <1>4 DEF Uses, Leaves
  <2>2. \A r \in Threads : r \in Pending' => r \in Pending
    BY <1>1 DEF Pending
  <2>. QED
    BY <1>1, <2>1, <2>2, NamesKept DEF Calm, Typed
<1>8. Told'
  BY <1>1, <1>4 DEF Told
<1>9. Announced'
  <2>1. Follows' <=> Follows
    BY <1>1, <1>4 DEF Follows
  <2>. QED
    BY <1>1, <1>4, <2>1 DEF Calm, Announced
<1>. QED
  BY <1>5, <1>6, <1>7, <1>8, <1>9 DEF Calm

-----------------------------------------------------------------------------
(* The invariant, and what it says *)

LEMMA InitStore == Init => StoreInv
<1>. SUFFICES ASSUME Init PROVE StoreInv
  OBVIOUS
<1>1. /\ \A s \in Savers : Quiet(s) /\ save[s] = NoSave
      /\ \A r \in Threads : thread[r].step = "idle"
      /\ disk.file = Whole(First) /\ Readable /\ Stored = First /\ ui.cfg = First
  BY Nobody, Texts DEF Init, Quiet, Readable, Stored
<1>2. Typed
  <2>1. disk \in [file : Contents, tmp : Contents]
    BY FirstTyped, Texts DEF Init
  <2>2. advert \in Ids /\ inputs \in Ids
    BY FirstTyped DEF Init, First
  <2>. QED
    BY <2>1, <2>2, FirstTyped, Nobody DEF Init, Typed
<1>3. Steady /\ Alone /\ Files /\ Drafts
  BY <1>1, Nobody, Parties DEF Steady, Alone, Holders, Holds, Files, Drafts, Quiet
<1>4. Drops /\ Fresh
  <2>1. \A n : (Uses(n) => n = 0) /\ ~Leaves(n)
    BY <1>1, Parties DEF Uses, Leaves, Names, First
  <2>2. InUse \subseteq {0} /\ Leaving = {} /\ dropped = {} /\ inputs = 0
    BY <2>1, OneByOne DEF Init
  <2>3. Pending = {}
    BY <1>1 DEF Pending
  <2>. QED
    BY <2>2, <2>3 DEF Drops, Fresh
<1>5. Told
  BY <1>1 DEF Told
<1>6. Follows
  BY <1>1 DEF Follows, Init, First
<1>7. Announced
  BY <1>1, <1>6 DEF Announced
<1>. QED
  BY <1>2, <1>3, <1>4, <1>5, <1>7 DEF StoreInv, Calm

LEMMA NextStore == StoreInv /\ [Next]_vars => StoreInv'
<1>. SUFFICES ASSUME StoreInv, [Next]_vars PROVE StoreInv'
  OBVIOUS
<1>0. Typed /\ (~disturbed => Steady /\ Calm)
  BY DEF StoreInv
<1>1. ASSUME NEW s \in Savers, Open(s) \/ Write(s) \/ Replace(s) PROVE StoreInv'
  <2>1. Typed' /\ disturbed' = disturbed
    BY <1>0, <1>1, OpenDoes, WriteDoes, ReplaceDoes
  <2>2. ~disturbed => Steady' /\ Calm'
    BY <1>0, <1>1, OpenCalm, WriteCalm, ReplaceCalm
  <2>. QED
    BY <2>1, <2>2 DEF StoreInv
<1>2. ASSUME NEW r \in Threads, Arrive(r) \/ Command(r) \/ MdnsLoad(r) \/ RefreshMdns(r) \/ Notify(r)
      PROVE  StoreInv'
  <2>1. Typed' /\ disturbed' = disturbed
    BY <1>0, <1>2, ArriveDoes, CommandDoes, MdnsLoadDoes, RefreshMdnsDoes, NotifyDoes
  <2>2. ~disturbed => Steady' /\ Calm'
    BY <1>0, <1>2, ArriveCalm, CommandCalm, MdnsLoadCalm, RefreshMdnsCalm, NotifyCalm
  <2>. QED
    BY <2>1, <2>2 DEF StoreInv
<1>3. ASSUME NEW r \in Threads, Change(r) PROVE StoreInv'
  BY <1>0, <1>3, ChangeDoes, ChangeCalm DEF StoreInv
<1>4. CASE Screen
  BY <1>0, <1>4, ScreenDoes, ScreenCalm DEF StoreInv
<1>5. CASE RestartDaemon
  BY <1>0, <1>5, RestartDaemonDoes, RestartDaemonCalm DEF StoreInv
<1>6. CASE RestartUi
  BY <1>0, <1>6, RestartUiDoes, RestartUiCalm DEF StoreInv
<1>7. CASE UNCHANGED vars
  BY <1>7 DEF StoreInv, vars, Typed, Steady, Calm, Quiet, Alone, Holders, Holds, Files, Readable, Drafts, Stored,
              Drops, Fresh, InUse, Leaving, Pending, Told, Announced, Follows
<1>. QED
  BY <1>1, <1>2, <1>3, <1>4, <1>5, <1>6, <1>7 DEF Next, Saving, Serve

THEOREM StoreInvariant == Spec => []StoreInv
BY InitStore, NextStore, PTL DEF Spec

\* At whatever step of a save either process is restarted, the file holds a whole
\* configuration, as long as no two accesses met in the temporary file (save_config).
THEOREM RestartsFindAConfiguration == Spec => []AlwaysReadable
<1>1. StoreInv => AlwaysReadable
  BY DEF StoreInv, Calm, Files, AlwaysReadable
<1>. QED
  BY <1>1, StoreInvariant, PTL

\* Once nothing is under way, and as long as no two accesses met, the UI works with the
\* option that is stored, whichever process changed it last (_sync_config_from_disk, the
\* setters of app.py).
THEOREM SettingsAgreeAtRest == Spec => []SettingsAgree
<1>1. StoreInv => SettingsAgree
  <2>. SUFFICES ASSUME StoreInv, AtRest, ~disturbed PROVE ui.cfg.opt = Stored.opt
    BY DEF SettingsAgree
  <2>1. \A s \in Screens : Quiet(s)
    BY Parties DEF AtRest, InWindow
  <2>. QED
    BY <2>1 DEF StoreInv, Calm, Told, AtRest
<1>. QED
  BY <1>1, StoreInvariant, PTL

\* No request of the daemon brings back the token or the code of a pairing that the UI
\* gave up (_forget_pairing against reload_config).
THEOREM ResetPairingStaysGone == Spec => []ResetSticks
<1>1. StoreInv => ResetSticks
  <2>. SUFFICES ASSUME StoreInv, ~disturbed PROVE {Stored.token, Stored.code} \cap dropped = {}
    BY DEF ResetSticks
  <2>1. {Stored.token, Stored.code} \subseteq InUse
    BY OneByOne DEF Uses, Names
  <2>. QED
    BY <2>1 DEF StoreInv, Calm, Drops
<1>. QED
  BY <1>1, StoreInvariant, PTL

\* While the daemon changed the pairing last, no request of it is under way and no two
\* accesses met, a service is registered exactly when the device is unpaired (refresh_mdns).
THEOREM DaemonAdvertisesUnpaired == Spec => []Discoverable
<1>1. StoreInv => Discoverable
  BY DEF StoreInv, Calm, Announced, Follows, Discoverable
<1>. QED
  BY <1>1, StoreInvariant, PTL
=============================================================================
