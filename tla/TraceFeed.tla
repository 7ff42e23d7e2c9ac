------------------------------ MODULE TraceFeed ------------------------------
(***************************************************************************)
(* The updates of one trace and the streams that follow them: trace/trace.go *)
(* (the registry of loaded managers), trace/manager.go and trace/state.go  *)
(* (the log of a manager), trace/subscription.go with event/sub.go (the    *)
(* subscription of a stream), the part of agent/context/context.go that    *)
(* opens and ends a trace and the part of openapi/trace that streams it.   *)
(*                                                                         *)
(* An update is saved in the storage, appended to the log of the manager   *)
(* and only then pushed to the subscribers: three steps that other         *)
(* contexts and streams interleave with.  A stream registers for live      *)
(* events, takes a snapshot of the log, replays it and drops the live      *)
(* events whose key (type, node, millisecond) the snapshot holds.          *)
(*                                                                         *)
(* A manager is a member of Managers, taken into use when NewManager       *)
(* returns it; nodes, spaces and the payload of an update are left out:    *)
(* Tags stands for the (type, node) pairs of the updates a context makes.  *)
(***************************************************************************)
EXTENDS Naturals, Sequences, FiniteSets, Functions

CONSTANTS
    Contexts,     \* the request contexts that write to the trace
    Root,         \* the one that owns it: the others are forks of it
    Readers,      \* the stream requests
    Managers,     \* the manager objects that may be created for the trace
    NoManager,
    Tags,         \* Tags[c]: (type, node) of the updates context c adds
    LiveSize,     \* capacity of a subscriber's channel (1000 in the code)
    OutSize,      \* capacity of a stream's output channel (1000 in the code)
    MaxUpdates,   \* bound on the updates of the trace
    MaxClock      \* bound on the milliseconds that pass

ASSUME RootAssumption == Root \in Contexts
ASSUME NoManagerAssumption == NoManager \notin Managers
ASSUME SizeAssumption == LiveSize \in Nat \ {0} /\ OutSize \in Nat \ {0}
ASSUME BoundAssumption == MaxUpdates \in Nat /\ MaxClock \in Nat

VARIABLES
    clock,        \* time.Now().UnixMilli()
    registry,     \* the manager the registry holds for this trace
    storedInfo,   \* the trace info of the storage
    stored,       \* the updates of the storage
    rooted,       \* the storage holds a root node
    issued,       \* every update made so far, to number them
    pushed,       \* the updates whose Push has reached the subscribers
    log,          \* log[m]: the updates manager m keeps in memory
    made,         \* the managers created so far
    completed,    \* the managers marked completed
    cpc,          \* cpc[c]: what context c is doing
    trace,        \* trace[c]: the manager context c caches
    upd,          \* upd[c]: the update c adds, or the last it added
    then,         \* then[c]: what c does once the update is pushed
    hpc,          \* hpc[r]: what the request handler of stream r is doing
    gpc,          \* gpc[r]: the goroutine of its subscription
    mgr,          \* mgr[r]: the manager it reads
    temp,         \* temp[r]: the handler loaded it and is to release it
    entry,        \* entry[r]: the subscription is registered
    live,         \* live[r]: its channel of live updates
    shut,         \* shut[r]: that channel is closed
    hist,         \* hist[r]: the snapshot still to be replayed
    seen,         \* seen[r]: the keys of the snapshot not yet matched
    sent,         \* sent[r]: everything written to its output channel
    taken,        \* taken[r]: how many of them the handler has read
    dropped       \* dropped[r]: live updates skipped: the channel was full

storage == <<storedInfo, stored, rooted>>
managers == <<log, made, completed>>
contexts == <<cpc, trace, upd, then>>
streams == <<hpc, gpc, mgr, temp, entry, live, shut, hist, seen, sent, taken,
             dropped>>
vars == <<clock, registry, storage, issued, pushed, managers, contexts,
          streams>>

Stages == {"init", "complete"} \cup UNION {Tags[c] : c \in Contexts}
Update == [id : Nat, by : Contexts, tag : Stages, at : Nat]
NoUpdate == [id |-> 0, by |-> Root, tag |-> "init", at |-> 0]

\* dedupKey: type, node and millisecond.
Key(u) == <<u.tag, u.at>>

\* The update that ends a stream.
Endless(u) == FALSE
Ends(u) == u.tag = "complete"

CtxSteps == {"idle", "new", "exists", "load", "register", "info", "save",
             "log", "push", "cancel", "cancelled", "release", "done"}
ReqSteps == {"none", "loaded", "stored", "register", "subscribe", "snapshot",
             "read", "leave", "release", "end"}

Init ==
    /\ clock = 0 /\ registry = NoManager
    /\ storedInfo = "none" /\ stored = <<>> /\ rooted = FALSE
    /\ issued = {} /\ pushed = {}
    /\ log = [m \in Managers |-> <<>>] /\ made = {} /\ completed = {}
    /\ cpc = [c \in Contexts |-> "idle"]
    /\ trace = [c \in Contexts |-> NoManager]
    /\ upd = [c \in Contexts |-> NoUpdate]
    /\ then = [c \in Contexts |-> "idle"]
    /\ hpc = [r \in Readers |-> "none"]
    /\ gpc = [r \in Readers |-> "off"]
    /\ mgr = [r \in Readers |-> NoManager]
    /\ temp = [r \in Readers |-> FALSE]
    /\ entry = [r \in Readers |-> FALSE]
    /\ live = [r \in Readers |-> <<>>]
    /\ shut = [r \in Readers |-> FALSE]
    /\ hist = [r \in Readers |-> <<>>]
    /\ seen = [r \in Readers |-> {}]
    /\ sent = [r \in Readers |-> <<>>]
    /\ taken = [r \in Readers |-> 0]
    /\ dropped = [r \in Readers |-> {}]

-----------------------------------------------------------------------------
(***************************************************************************)
(* Helpers.                                                                *)
(***************************************************************************)

Loaded == registry # NoManager

\* The manager NewManager returns: any unused one, they are all alike.
Fresh == CHOOSE m \in Managers : m \notin made

\* NewManager over a storage that holds updates: the log is what was saved,
\* completed if one of them ends the trace.
LoadManager ==
    /\ made # Managers
    /\ made' = made \cup {Fresh}
    /\ log' = [log EXCEPT ![Fresh] = stored]
    /\ completed' = IF \E i \in DOMAIN stored : stored[i].tag = "complete"
                    THEN completed \cup {Fresh} ELSE completed

\* time.Now().UnixMilli(): time passes only where it is read.
Now(at) == at \in clock..MaxClock /\ clock' = at

\* addUpdateAndBroadcast(tag) begins; k is what context c does after it.
Begin(c, tag, at, k) ==
    LET u == [id |-> Cardinality(issued) + 1, by |-> c, tag |-> tag, at |-> at]
    IN  /\ upd' = [upd EXCEPT ![c] = u]
        /\ issued' = issued \cup {u}
        /\ cpc' = [cpc EXCEPT ![c] = "save"]
        /\ then' = [then EXCEPT ![c] = k]

\* The root context opens the trace when it starts, before it forks, and waits
\* for its forks before it ends (Orchestrator.All, Any and Race all do).
Ending == \/ cpc[Root] \in {"cancelled", "release", "done"}
          \/ then[Root] \in {"cancelled", "release"}
Working(c) == /\ cpc[c] = "idle" /\ ~Ending
              /\ c = Root \/ trace[Root] # NoManager
Joined == \A c \in Contexts : cpc[c] = "idle"

Goto(c, k) == cpc' = [cpc EXCEPT ![c] = k]
ReqGoto(r, k) == hpc' = [hpc EXCEPT ![r] = k]

\* Unsubscribe: the entry is deleted and the channel it holds closed, once.
UnsubscribeOnly(r) ==
    /\ entry' = [entry EXCEPT ![r] = FALSE]
    /\ UNCHANGED shut
Unsubscribe(r) ==
    /\ entry' = [entry EXCEPT ![r] = FALSE]
    /\ shut' = [shut EXCEPT ![r] = shut[r] \/ entry[r]]

-----------------------------------------------------------------------------
(***************************************************************************)
(* A context opens the trace: Context.Trace, trace.New, LoadFromStorage.   *)
(***************************************************************************)

\* Context.Trace: the cached manager, else the one of the registry.
Open(c) ==
    /\ Working(c) /\ trace[c] = NoManager
    /\ IF Loaded THEN /\ trace' = [trace EXCEPT ![c] = registry]
                      /\ UNCHANGED cpc
       ELSE Goto(c, "new") /\ UNCHANGED trace
    /\ UNCHANGED <<clock, registry, storage, issued, pushed, managers, upd,
                   then, streams>>

\* trace.New refuses an id that is loaded by now.
New(c) ==
    /\ cpc[c] = "new"
    /\ Goto(c, IF Loaded THEN "idle" ELSE "exists")
    /\ UNCHANGED <<clock, registry, storage, issued, pushed, managers,
                   trace, upd, then, streams>>

\* It loads a trace that exists, and creates one that does not.
Exists(c) ==
    /\ cpc[c] = "exists"
    /\ \/ /\ Loaded \/ storedInfo # "none"
          /\ Goto(c, "load")
          /\ UNCHANGED <<clock, issued, managers, trace, upd, then>>
       \/ /\ ~Loaded /\ storedInfo = "none" /\ made # Managers
          /\ trace' = [trace EXCEPT ![c] = Fresh]
          /\ IF stored # <<>>
             THEN /\ LoadManager
                  /\ Goto(c, "register")
                  /\ then' = [then EXCEPT ![c] = "info"]
                  /\ UNCHANGED <<clock, issued, upd>>
             ELSE /\ made' = made \cup {Fresh}
                  /\ \E at \in 0..MaxClock :
                         Now(at) /\ Begin(c, "init", at, "register")
                  /\ UNCHANGED <<log, completed>>
    /\ UNCHANGED <<registry, storage, pushed, streams>>

\* LoadFromStorage, up to the manager it makes.
LoadFromStorage(c) ==
    /\ cpc[c] = "load"
    /\ \/ /\ Loaded
          /\ trace' = [trace EXCEPT ![c] = registry]
          /\ Goto(c, "idle")
          /\ UNCHANGED <<managers, then>>
       \/ /\ ~Loaded /\ storedInfo # "none"
          /\ LoadManager
          /\ trace' = [trace EXCEPT ![c] = Fresh]
          /\ Goto(c, "register")
          /\ then' = [then EXCEPT ![c] = "idle"]
       \/ /\ ~Loaded /\ storedInfo = "none"
          /\ Goto(c, "idle")
          /\ UNCHANGED <<managers, trace, then>>
    /\ UNCHANGED <<clock, registry, storage, issued, pushed, upd, streams>>

\* The registry takes the manager, whatever it holds by now.
Register(c) ==
    /\ cpc[c] = "register"
    /\ registry' = trace[c]
    /\ Goto(c, IF then[c] = "register" THEN "info" ELSE then[c])
    /\ then' = [then EXCEPT ![c] = "idle"]
    /\ UNCHANGED <<clock, storage, issued, pushed, managers, trace, upd,
                   streams>>

\* New: SaveTraceInfo of a trace that was created.
SaveInfo(c) ==
    /\ cpc[c] = "info"
    /\ storedInfo' = "pending"
    /\ Goto(c, "idle")
    /\ UNCHANGED <<clock, registry, stored, rooted, issued, pushed,
                   managers, trace, upd, then, streams>>

-----------------------------------------------------------------------------
(***************************************************************************)
(* A context adds updates and ends the trace.                              *)
(***************************************************************************)

\* Add, Info, SetOutput, ...: an update of the trace the context caches.  A
\* node is saved before the update that starts it.
Emit(c, tag) ==
    /\ Working(c) /\ trace[c] # NoManager
    /\ Cardinality(issued) < MaxUpdates
    /\ rooted' = TRUE
    /\ \E at \in 0..MaxClock : Now(at) /\ Begin(c, tag, at, "idle")
    /\ UNCHANGED <<registry, storedInfo, stored, pushed, managers,
                   trace, streams>>

\* addUpdateAndBroadcast: save in the storage, ...
Save(c) ==
    /\ cpc[c] = "save"
    /\ stored' = Append(stored, upd[c])
    /\ Goto(c, "log")
    /\ UNCHANGED <<clock, registry, storedInfo, rooted, issued, pushed,
                   managers, trace, upd, then, streams>>

\* ... append to the log of the manager, ...
Log(c) ==
    /\ cpc[c] = "log"
    /\ log' = [log EXCEPT ![trace[c]] = Append(@, upd[c])]
    /\ Goto(c, "push")
    /\ UNCHANGED <<clock, registry, storage, issued, pushed, made,
                   completed, trace, upd, then, streams>>

\* subManager.notify: a subscriber whose channel is full misses the update.
AcceptsAfterReplay(r) == entry[r] /\ Len(live[r]) < LiveSize
                            /\ gpc[r] = "on" /\ hist[r] = <<>>
Accepts(r) == entry[r] /\ Len(live[r]) < LiveSize
Full(r) == entry[r] /\ Len(live[r]) >= LiveSize

\* ... and push to the subscribers.
Push(c) ==
    /\ cpc[c] = "push"
    /\ pushed' = pushed \cup {upd[c]}
    /\ live' = [r \in Readers |->
                  IF Accepts(r) THEN Append(live[r], upd[c]) ELSE live[r]]
    /\ dropped' = [r \in Readers |->
                     IF Full(r) THEN dropped[r] \cup {upd[c]} ELSE dropped[r]]
    /\ Goto(c, then[c])
    /\ UNCHANGED <<clock, registry, storage, issued, managers, trace, upd, then,
                   hpc, gpc, mgr, temp, entry, shut, hist, seen, sent, taken>>

\* MarkComplete on the cached manager, which k follows: the flag is tested
\* and set under the lock, and the update added by the one that set it.
MarkComplete(c, k) ==
    /\ Working(c) /\ trace[c] # NoManager
    /\ IF trace[c] \in completed
       THEN Goto(c, k) /\ UNCHANGED <<clock, completed, issued, upd, then>>
       ELSE /\ completed' = completed \cup {trace[c]}
            /\ \E at \in 0..MaxClock : Now(at) /\ Begin(c, "complete", at, k)
    /\ UNCHANGED <<registry, storage, pushed, log, made, trace,
                   streams>>

\* MarkCancelled works on the manager of the registry and the stored tree; it
\* gives up when either is missing.  The nodes that still run are failed: at
\* most one here.
MarkCancelled(c) ==
    /\ Working(c) /\ trace[c] # NoManager
    /\ IF Loaded /\ rooted
       THEN /\ trace' = [trace EXCEPT ![c] = registry]
            /\ \E at \in 0..MaxClock :
                   /\ Now(at)
                   /\ \/ /\ Goto(c, "cancelled")
                         /\ upd' = [upd EXCEPT ![c].at = at]
                         /\ UNCHANGED <<issued, then>>
                      \/ \E tag \in Tags[c] : Begin(c, tag, at, "cancelled")
       ELSE /\ Goto(c, "release")
            /\ UNCHANGED <<clock, trace, issued, upd, then>>
    /\ UNCHANGED <<registry, storage, pushed, managers, streams>>

\* It then saves the status and marks the trace completed, which it may be
\* already, and adds the update that ends it.  A trace whose info is not
\* saved yet ends the request in a nil dereference.
MarkCancelledEnds(c) ==
    /\ cpc[c] = "cancelled"
    /\ IF storedInfo # "none"
       THEN /\ storedInfo' = "cancelled"
            /\ completed' = completed \cup {trace[c]}
            /\ Begin(c, "complete", upd[c].at, "release")
       ELSE /\ Goto(c, "done")
            /\ UNCHANGED <<storedInfo, completed, issued, upd, then>>
    /\ UNCHANGED <<clock, registry, stored, rooted, pushed, log, made,
                   trace, streams>>

\* trace.Release removes whatever manager the registry holds.
ReleaseTrace(c) ==
    /\ cpc[c] = "release"
    /\ registry' = NoManager
    /\ trace' = [trace EXCEPT ![c] = NoManager]
    /\ Goto(c, "done")
    /\ then' = [then EXCEPT ![c] = "idle"]
    /\ UNCHANGED <<clock, storage, issued, pushed, managers, upd, streams>>

Finish == Joined /\ MarkComplete(Root, "release")

-----------------------------------------------------------------------------
(***************************************************************************)
(* A stream request: loadTraceManager, Subscribe, handleStreamMode.        *)
(***************************************************************************)

Request(r) ==
    /\ hpc[r] = "none"
    /\ Loaded \/ storedInfo # "none"
    /\ ReqGoto(r, IF Loaded THEN "loaded" ELSE "stored")
    /\ UNCHANGED <<clock, registry, storage, issued, pushed, managers,
                   contexts, gpc, mgr, temp, entry, live, shut, hist, seen,
                   sent, taken, dropped>>

\* Load: the manager may have left the registry since.
ReqLoad(r) ==
    /\ hpc[r] = "loaded"
    /\ ReqGoto(r, IF Loaded THEN "subscribe" ELSE "end")
    /\ mgr' = [mgr EXCEPT ![r] = registry]
    /\ UNCHANGED <<clock, registry, storage, issued, pushed, managers,
                   contexts, gpc, temp, entry, live, shut, hist, seen, sent,
                   taken, dropped>>

\* LoadFromStorage: a manager another has registered meanwhile is taken, and
\* released in the end as if this request had loaded it.
ReqLoadStored(r) ==
    /\ hpc[r] = "stored"
    /\ temp' = [temp EXCEPT ![r] = TRUE]
    /\ IF Loaded
       THEN /\ mgr' = [mgr EXCEPT ![r] = registry]
            /\ ReqGoto(r, "subscribe")
            /\ UNCHANGED managers
       ELSE /\ LoadManager
            /\ mgr' = [mgr EXCEPT ![r] = Fresh]
            /\ ReqGoto(r, "register")
    /\ UNCHANGED <<clock, registry, storage, issued, pushed, contexts, gpc,
                   entry, live, shut, hist, seen, sent, taken, dropped>>

ReqRegister(r) ==
    /\ hpc[r] = "register"
    /\ registry' = mgr[r]
    /\ ReqGoto(r, "subscribe")
    /\ UNCHANGED <<clock, storage, issued, pushed, managers, contexts, gpc,
                   mgr, temp, entry, live, shut, hist, seen, sent, taken,
                   dropped>>

\* subscribe: the channel is registered first, ...
Subscribe(r) ==
    /\ hpc[r] = "subscribe"
    /\ entry' = [entry EXCEPT ![r] = TRUE]
    /\ ReqGoto(r, "snapshot")
    /\ UNCHANGED <<clock, registry, storage, issued, pushed, managers,
                   contexts, gpc, mgr, temp, live, shut, hist, seen, sent,
                   taken, dropped>>

\* ... then the log is copied and the goroutine started.
Snapshot(r) ==
    /\ hpc[r] = "snapshot"
    /\ hist' = [hist EXCEPT ![r] = log[mgr[r]]]
    /\ seen' = [seen EXCEPT ![r] = {Key(log[mgr[r]][i]) :
                                      i \in DOMAIN log[mgr[r]]}]
    /\ gpc' = [gpc EXCEPT ![r] = "on"]
    /\ ReqGoto(r, "read")
    /\ UNCHANGED <<clock, registry, storage, issued, pushed, managers,
                   contexts, mgr, temp, entry, live, shut, sent, taken, dropped>>

\* The goroutine turns to the live updates when the snapshot is written.
ReplayedOrLive(r) == gpc[r] = "on" /\ live[r] # <<>>
Following(r) == gpc[r] = "on" /\ hist[r] = <<>> /\ live[r] # <<>>

NeverSeen(r) == FALSE
Duplicate(r) == Key(Head(live[r])) \in seen[r]

HasRoom(r) == Len(sent[r]) - taken[r] < OutSize

\* The goroutine writes the snapshot, ...
Replay(r) ==
    /\ gpc[r] = "on" /\ hist[r] # <<>> /\ HasRoom(r)
    /\ sent' = [sent EXCEPT ![r] = Append(@, Head(hist[r]))]
    /\ hist' = [hist EXCEPT ![r] = Tail(@)]
    /\ UNCHANGED <<clock, registry, storage, issued, pushed, managers,
                   contexts, hpc, gpc, mgr, temp, entry, live, shut, seen,
                   taken, dropped>>

\* ... skips a live update whose key the snapshot held, once per key, ...
Skip(r) ==
    /\ Following(r) /\ Duplicate(r)
    /\ live' = [live EXCEPT ![r] = Tail(@)]
    /\ seen' = [seen EXCEPT ![r] = @ \ {Key(Head(live[r]))}]
    /\ UNCHANGED <<clock, registry, storage, issued, pushed, managers,
                   contexts, hpc, gpc, mgr, temp, entry, shut, hist, sent,
                   taken, dropped>>

\* ... and writes the others, the last of which ends it.
Forward(r) ==
    /\ Following(r) /\ ~Duplicate(r) /\ HasRoom(r)
    /\ live' = [live EXCEPT ![r] = Tail(@)]
    /\ sent' = [sent EXCEPT ![r] = Append(@, Head(live[r]))]
    /\ IF Ends(Head(live[r]))
       THEN gpc' = [gpc EXCEPT ![r] = "done"] /\ Unsubscribe(r)
       ELSE UNCHANGED <<gpc, entry, shut>>
    /\ UNCHANGED <<clock, registry, storage, issued, pushed, managers,
                   contexts, hpc, mgr, temp, hist, seen, taken, dropped>>

\* Its channel is closed and empty: it closes the output channel.
Drained(r) ==
    /\ gpc[r] = "on" /\ hist[r] = <<>> /\ live[r] = <<>> /\ shut[r]
    /\ gpc' = [gpc EXCEPT ![r] = "done"]
    /\ UNCHANGED <<clock, registry, storage, issued, pushed, managers,
                   contexts, hpc, mgr, temp, entry, live, shut, hist, seen,
                   sent, taken, dropped>>

\* The handler writes an update to the client; the last one ends the stream.
Take(r) ==
    /\ hpc[r] = "read" /\ taken[r] < Len(sent[r])
    /\ taken' = [taken EXCEPT ![r] = @ + 1]
    /\ IF Ends(sent[r][taken[r] + 1])
       THEN ReqGoto(r, "leave") ELSE UNCHANGED hpc
    /\ UNCHANGED <<clock, registry, storage, issued, pushed, managers,
                   contexts, gpc, mgr, temp, entry, live, shut, hist, seen,
                   sent, dropped>>

\* The client is gone.  The handler never sees the output channel closed: the
\* update that ends its subscription has ended the handler before.
ClientGone(r) ==
    /\ hpc[r] = "read"
    /\ ReqGoto(r, "leave")
    /\ UNCHANGED <<clock, registry, storage, issued, pushed, managers,
                   contexts, gpc, mgr, temp, entry, live, shut, hist, seen,
                   sent, taken, dropped>>

\* The deferred cancel, and then the deferred release.
Cancel(r) ==
    /\ hpc[r] = "leave"
    /\ Unsubscribe(r)
    /\ ReqGoto(r, IF temp[r] THEN "release" ELSE "end")
    /\ UNCHANGED <<clock, registry, storage, issued, pushed, managers,
                   contexts, gpc, mgr, temp, live, hist, seen, sent, taken,
                   dropped>>

ReqRelease(r) ==
    /\ hpc[r] = "release"
    /\ registry' = NoManager
    /\ ReqGoto(r, "end")
    /\ UNCHANGED <<clock, storage, issued, pushed, managers, contexts, gpc,
                   mgr, temp, entry, live, shut, hist, seen, sent, taken,
                   dropped>>

-----------------------------------------------------------------------------
OpenStep(c) == \/ Open(c) \/ New(c) \/ Exists(c) \/ LoadFromStorage(c)
               \/ Register(c) \/ SaveInfo(c)
UpdateStep(c) == Save(c) \/ Log(c) \/ Push(c)
EndStep(c) == MarkCancelledEnds(c) \/ ReleaseTrace(c)
\* A script of the request may complete the trace before the request ends.
ScriptComplete == Cardinality(issued) < MaxUpdates /\ MarkComplete(Root, "idle")

RequestStep(r) == \/ ReqLoad(r) \/ ReqLoadStored(r) \/ ReqRegister(r)
                  \/ Subscribe(r) \/ Snapshot(r) \/ Take(r)
                  \/ Cancel(r) \/ ReqRelease(r)
FeedStep(r) == Replay(r) \/ Skip(r) \/ Forward(r) \/ Drained(r)

Next ==
    \/ \E c \in Contexts : \/ OpenStep(c) \/ UpdateStep(c) \/ EndStep(c)
                           \/ \E tag \in Tags[c] : Emit(c, tag)
    \/ ScriptComplete \/ Finish \/ (Joined /\ MarkCancelled(Root))
    \/ \E r \in Readers : Request(r) \/ RequestStep(r) \/ FeedStep(r)
                          \/ ClientGone(r)

\* A handler and a subscription's goroutine are running code: neither waits for
\* anything but the channels its guard names.  Contexts may stop at any time.
Fairness == \A r \in Readers : WF_vars(RequestStep(r)) /\ WF_vars(FeedStep(r))

Spec == Init /\ [][Next]_vars
FairSpec == Spec /\ Fairness

-----------------------------------------------------------------------------
(***************************************************************************)
(* Properties.                                                             *)
(***************************************************************************)

\* The state of the feed has values of its kinds; what was seen are keys, a
\* type and a time.
TypeOK ==
    /\ clock \in Nat
    /\ registry \in Managers \cup {NoManager}
    /\ storedInfo \in {"none", "pending", "cancelled"}
    /\ stored \in Seq(Update) /\ rooted \in BOOLEAN
    /\ issued \in SUBSET Update /\ pushed \in SUBSET Update
    /\ log \in [Managers -> Seq(Update)]
    /\ made \subseteq Managers /\ completed \subseteq Managers
    /\ cpc \in [Contexts -> CtxSteps]
    /\ trace \in [Contexts -> Managers \cup {NoManager}]
    /\ upd \in [Contexts -> Update]
    /\ then \in [Contexts -> CtxSteps]
    /\ hpc \in [Readers -> ReqSteps]
    /\ gpc \in [Readers -> {"off", "on", "done"}]
    /\ mgr \in [Readers -> Managers \cup {NoManager}]
    /\ temp \in [Readers -> BOOLEAN]
    /\ entry \in [Readers -> BOOLEAN] /\ shut \in [Readers -> BOOLEAN]
    /\ live \in [Readers -> Seq(Update)] /\ hist \in [Readers -> Seq(Update)]
    /\ seen \in [Readers -> SUBSET (Stages \X Nat)]
    /\ sent \in [Readers -> Seq(Update)] /\ taken \in [Readers -> Nat]
    /\ dropped \in [Readers -> SUBSET Update]

\* No other update of the trace has the same type, node and millisecond.
Unshared(u) == \A v \in issued : Key(v) = Key(u) => v = u

Where(r) == Range(sent[r]) \cup Range(hist[r]) \cup Range(live[r])
                \cup dropped[r]

\* While a subscription is registered, a pushed update of the manager it reads has been
\* written to the client's channel, is on its way there, or was skipped for
\* want of room - unless another update has its key (subscription.go:31-32
\* registers before it copies the log so that nothing falls in between).
NoUpdateLost ==
    \A r \in Readers : gpc[r] = "on" /\ entry[r] =>
        \A u \in pushed \cap Range(log[mgr[r]]) : Unshared(u) => u \in Where(r)

\* The same without the condition: what the comment promises.
NoEventMissed ==
    \A r \in Readers : gpc[r] = "on" /\ entry[r] =>
        (pushed \cap Range(log[mgr[r]])) \subseteq Where(r)

\* The deduplication: no update is written to a client twice, unless another
\* one shares its key.
NoneTwice ==
    \A r \in Readers : \A i, j \in DOMAIN sent[r] :
        i # j /\ sent[r][i] = sent[r][j] => ~Unshared(sent[r][i])

\* The updates a context makes reach a client in the order it made them, across
\* the seam between the replayed log and the live events.
InContextOrder ==
    \A r \in Readers : \A i, j \in DOMAIN sent[r] :
        /\ i < j /\ sent[r][i].by = sent[r][j].by
        /\ {sent[r][i], sent[r][j]} \subseteq Range(log[mgr[r]])
        /\ Unshared(sent[r][i]) /\ Unshared(sent[r][j])
        => sent[r][i].id < sent[r][j].id

\* A stream that has the last update of the trace on its way ends, and gives
\* back what its request holds.
StreamEnds ==
    \A r \in Readers :
        (\E u \in Range(hist[r]) \cup Range(live[r]) :
             u.tag = "complete" /\ hpc[r] = "read") ~> hpc[r] = "end"

\* What a subscription still has to write fits in its output channel.
Fits(r) == Len(sent[r]) - taken[r] + Len(hist[r]) + Len(live[r]) <= OutSize

\* A cancelled subscription whose backlog fits in the output channel gives its
\* goroutine back, although nobody reads the channel any more.
GoroutineReleased ==
    \A r \in Readers :
        (hpc[r] \in {"release", "end"} /\ gpc[r] = "on" /\ Fits(r))
            ~> gpc[r] = "done"

\* The same whatever the backlog: what subscription.go:34-35 promises.
CancelStopsGoroutine ==
    \A r \in Readers :
        (hpc[r] \in {"release", "end"} /\ gpc[r] = "on") ~> gpc[r] = "done"

\* A request that is over has ended its trace: Context.Release promises to
\* "complete and release trace if exists" (context.go:74).
EndedTraceIsCompleted ==
    cpc[Root] = "done" => \E i \in DOMAIN stored : stored[i].tag = "complete"
=============================================================================
