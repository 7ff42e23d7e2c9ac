------------------------------- MODULE EventBus -------------------------------
(***************************************************************************)
(* The in-process event bus of event/: Push and Call, serial queues and    *)
(* their consumer goroutines, the two-tier worker pool, and Start/Stop.    *)
(*                                                                         *)
(* One handler prefix is modelled: prefixes share nothing but the queue    *)
(* map, whose keys carry no prefix.  Each element of Events is one         *)
(* invocation of Push or Call, each element of Queues one eventQueue that  *)
(* QueueCreate may make.  A step is what one goroutine does between two    *)
(* points where another can be observed: a critical section, a channel     *)
(* operation, or one deferred call of a worker.  The delivery of copies to *)
(* listeners and subscribers is left out.                                  *)
(***************************************************************************)
EXTENDS Integers, Sequences, FiniteSets

CONSTANTS Pushes,          \* invocations of Push
          Calls,           \* invocations of Call
          Queues,          \* queue instances
          QueueIds,        \* the identifiers a queue can be created under
          MaxWorkers,      \* HandlerEntry.MaxWorkers
          ReservedWorkers, \* HandlerEntry.ReservedWorkers
          QueueSize,       \* HandlerEntry.QueueSize
          MaxStarts,       \* bound on the number of Start calls
          None

Events == Pushes \cup Calls

ASSUME EventAssumption ==
  /\ Pushes \cap Calls = {}
  /\ IsFiniteSet(Events)
  /\ None \notin Events \cup Queues \cup QueueIds

ASSUME LimitAssumption ==
  /\ MaxWorkers \in Nat \ {0}
  /\ ReservedWorkers \in Nat
  /\ QueueSize \in Nat \ {0}
  /\ MaxStarts \in Nat \ {0}

VARIABLES
  started,   \* service.started
  gen,       \* which worker pool svc.pools holds (Start makes a new one)
  stopPc,    \* how far Stop has come
  stopQs,    \* the queues Stop's abortAll took out of the map
  queues,    \* queueManager.queues: id -> instance, or None
  qId,       \* the id a queue instance was asked for under
  qPool,     \* the pool its consumer was given
  ch,        \* eventQueue.ch: the buffered channel
  qReleased, \* eventQueue.released, which also tells that ch is closed
  qAborted,  \* eventQueue.aborted
  qOp,       \* release()/abort() decided under queueManager.mu, not yet run
  cPc,       \* the consumer goroutine (and, before it, QueueCreate)
  cItem,     \* the item the consumer took from ch
  evPc,      \* how far an invocation and its event have come
  evKey,     \* the queue id it names, or None
  evPool,    \* the pool getHandler returned, then the one it is dispatched on
  evQ,       \* the queue instance found for it
  semTotal,  \* slots taken in workerPool.semTotal, per pool
  semPush,   \* slots taken in workerPool.semPush, per pool
  wg,        \* workerPool.wg, per pool
  resp,      \* the response channel of a Call (capacity 1)
  ret,       \* what a Call has returned, "none" before and "waiting" in select
  ctxDone    \* the caller's context of a Call is done

lifeVars == <<started, gen, stopPc, stopQs>>
queueVars == <<queues, qId, qPool, ch, qReleased, qAborted, qOp, cPc, cItem>>
poolVars == <<semTotal, semPush, wg>>
evVars == <<evPc, evKey, evPool, evQ>>
callVars == <<resp, ret, ctxDone>>
vars == <<lifeVars, queueVars, poolVars, evVars, callVars>>

Gens == 0 .. MaxStarts

\* what newWorkerPool would give Push without the reservation, or the clamp
AllSlots == MaxWorkers
UnclampedSlots == MaxWorkers - ReservedWorkers

\* newWorkerPool: the size of semPush
PushSlots == IF MaxWorkers - ReservedWorkers < 1
             THEN 1 ELSE MaxWorkers - ReservedWorkers

EvStates == {"idle", "admitted", "found", "queued", "taken", "acqPush", "acqTotal",
             "handling", "relPush", "relTotal", "wgDone", "done",
             "discarded", "failed", "refused"}
ConsumerStates == {"none", "creating", "rejected", "recv", "check", "await", "exited"}

TypeOK ==
  /\ started \in BOOLEAN
  /\ gen \in Gens
  /\ stopPc \in {"idle", "abortAll", "awaitQueues", "awaitPool", "returned"}
  /\ stopQs \subseteq Queues
  /\ queues \in [QueueIds -> Queues \cup {None}]
  /\ qId \in [Queues -> QueueIds \cup {None}]
  /\ qPool \in [Queues -> Gens]
  /\ ch \in [Queues -> Seq(Events)]
  /\ qReleased \in [Queues -> BOOLEAN]
  /\ qAborted \in [Queues -> BOOLEAN]
  /\ qOp \in [Queues -> {"none", "release", "abort"}]
  /\ cPc \in [Queues -> ConsumerStates]
  /\ cItem \in [Queues -> Events \cup {None}]
  /\ evPc \in [Events -> EvStates]
  /\ evKey \in [Events -> QueueIds \cup {None}]
  /\ evPool \in [Events -> Gens]
  /\ evQ \in [Events -> Queues \cup {None}]
  /\ semTotal \in [Gens -> Nat]
  /\ semPush \in [Gens -> Nat]
  /\ wg \in [Gens -> Nat]
  /\ resp \in [Events -> {"empty", "ok", "panic", "err"}]
  /\ ret \in [Events -> {"none", "waiting", "ok", "panic", "err", "ctx", "unavailable"}]
  /\ ctxDone \in [Events -> BOOLEAN]

Init ==
  /\ started = FALSE
  /\ gen = 0
  /\ stopPc = "idle"
  /\ stopQs = {}
  /\ queues = [k \in QueueIds |-> None]
  /\ qId = [q \in Queues |-> None]
  /\ qPool = [q \in Queues |-> 0]
  /\ ch = [q \in Queues |-> <<>>]
  /\ qReleased = [q \in Queues |-> FALSE]
  /\ qAborted = [q \in Queues |-> FALSE]
  /\ qOp = [q \in Queues |-> "none"]
  /\ cPc = [q \in Queues |-> "none"]
  /\ cItem = [q \in Queues |-> None]
  /\ evPc = [e \in Events |-> "idle"]
  /\ evKey = [e \in Events |-> None]
  /\ evPool = [e \in Events |-> 0]
  /\ evQ = [e \in Events |-> None]
  /\ semTotal = [g \in Gens |-> 0]
  /\ semPush = [g \in Gens |-> 0]
  /\ wg = [g \in Gens |-> 0]
  /\ resp = [e \in Events |-> "empty"]
  /\ ret = [e \in Events |-> "none"]
  /\ ctxDone = [e \in Events |-> FALSE]

-----------------------------------------------------------------------------
(***************************************************************************)
(* Start and Stop                                                          *)
(***************************************************************************)

\* engine/load.go starts the bus and stops it in turn: Start does not overlap
\* a Stop that is still waiting.
Start ==
  /\ ~started
  /\ stopPc \in {"idle", "returned"}
  /\ gen < MaxStarts
  /\ started' = TRUE
  /\ gen' = gen + 1
  /\ stopPc' = "idle"
  /\ stopQs' = {}
  /\ UNCHANGED <<queueVars, poolVars, evVars, callVars>>

\* Stop, up to svc.mu.Unlock
StopBegin ==
  /\ started
  /\ started' = FALSE
  /\ stopPc' = "abortAll"
  /\ UNCHANGED <<gen, stopQs, queueVars, poolVars, evVars, callVars>>

\* abortAll under queueManager.mu; the abort() calls that follow are ApplyAbort
StopAbortAll ==
  LET live == {queues[k] : k \in {i \in QueueIds : queues[i] # None}} IN
  /\ stopPc = "abortAll"
  /\ stopPc' = "awaitQueues"
  /\ stopQs' = live
  /\ queues' = [k \in QueueIds |-> None]
  /\ qOp' = [q \in Queues |-> IF q \in live THEN "abort" ELSE qOp[q]]
  /\ UNCHANGED <<started, gen, qId, qPool, ch, qReleased, qAborted, cPc, cItem,
                 poolVars, evVars, callVars>>

\* an abortAll that does not wait
NoWaitForQueues == TRUE

\* abortAll's <-q.done for every queue it aborted
QueuesDone == \A q \in stopQs : cPc[q] = "exited"

StopAwaitQueues ==
  /\ stopPc = "awaitQueues"
  /\ QueuesDone
  /\ stopPc' = "awaitPool"
  /\ UNCHANGED <<started, gen, stopQs, queueVars, poolVars, evVars, callVars>>

\* pool.wait(), then Shutdown of the handlers and the listeners
StopShutdown ==
  /\ stopPc = "awaitPool"
  /\ wg[gen] = 0
  /\ stopPc' = "returned"
  /\ UNCHANGED <<started, gen, stopQs, queueVars, poolVars, evVars, callVars>>

-----------------------------------------------------------------------------
(***************************************************************************)
(* Queue lifecycle                                                         *)
(***************************************************************************)

\* QueueCreate's getHandler: the service is started; the pool is remembered
QueueCreateCheck(q, k) ==
  /\ cPc[q] = "none"
  /\ started
  /\ cPc' = [cPc EXCEPT ![q] = "creating"]
  /\ qId' = [qId EXCEPT ![q] = k]
  /\ qPool' = [qPool EXCEPT ![q] = gen]
  /\ UNCHANGED <<lifeVars, queues, ch, qReleased, qAborted, qOp, cItem,
                 poolVars, evVars, callVars>>

\* queueManager.create: ErrQueueExists, or the new queue and its consumer
QueueCreate(q) ==
  /\ cPc[q] = "creating"
  /\ \/ /\ queues[qId[q]] # None
        /\ cPc' = [cPc EXCEPT ![q] = "rejected"]
        /\ UNCHANGED queues
     \/ /\ queues[qId[q]] = None
        /\ cPc' = [cPc EXCEPT ![q] = "recv"]
        /\ queues' = [queues EXCEPT ![qId[q]] = q]
  /\ UNCHANGED <<lifeVars, qId, qPool, ch, qReleased, qAborted, qOp, cItem,
                 poolVars, evVars, callVars>>

\* a release that leaves the queue in the map
KeptInMap(k) == queues

\* delete(qm.queues, queueID)
DeletedFromMap(k) == [queues EXCEPT ![k] = None]

\* queueManager.release and abortOne under queueManager.mu
Detach(k, op) ==
  /\ queues[k] # None
  /\ queues' = DeletedFromMap(k)
  /\ qOp' = [qOp EXCEPT ![queues[k]] = op]
  /\ UNCHANGED <<lifeVars, qId, qPool, ch, qReleased, qAborted, cPc, cItem,
                 poolVars, evVars, callVars>>

QueueRelease(k) == Detach(k, "release")
QueueAbort(k) == Detach(k, "abort")

\* eventQueue.release under eventQueue.mu
ApplyRelease(q) ==
  /\ qOp[q] = "release"
  /\ qOp' = [qOp EXCEPT ![q] = "none"]
  /\ qReleased' = [qReleased EXCEPT ![q] = TRUE]
  /\ UNCHANGED <<lifeVars, queues, qId, qPool, ch, qAborted, cPc, cItem,
                 poolVars, evVars, callVars>>

\* an abort that sets the flag and leaves the channel open
AbortWithoutClose(q) ==
  /\ qOp[q] = "abort"
  /\ qOp' = [qOp EXCEPT ![q] = "none"]
  /\ qAborted' = [qAborted EXCEPT ![q] = TRUE]
  /\ UNCHANGED <<lifeVars, queues, qId, qPool, ch, qReleased, cPc, cItem,
                 poolVars, evVars, callVars>>

\* eventQueue.abort under eventQueue.mu
ApplyAbort(q) ==
  /\ qOp[q] = "abort"
  /\ qOp' = [qOp EXCEPT ![q] = "none"]
  /\ qReleased' = [qReleased EXCEPT ![q] = TRUE]
  /\ qAborted' = [qAborted EXCEPT ![q] = TRUE]
  /\ UNCHANGED <<lifeVars, queues, qId, qPool, ch, cPc, cItem,
                 poolVars, evVars, callVars>>

-----------------------------------------------------------------------------
(***************************************************************************)
(* Push and Call, up to the queue or the dispatch                          *)
(***************************************************************************)

\* a dispatch that takes no slot of semPush
NoPushSlot(e) == "acqTotal"

\* the first thing dispatch waits for
FirstSlot(e) == IF e \in Pushes THEN "acqPush" ELSE "acqTotal"

\* getHandler: an event naming queue k (or none) is admitted, or ErrNotStarted
Admit(e, k) ==
  /\ evPc[e] = "idle"
  /\ started
  /\ evPc' = [evPc EXCEPT ![e] = "admitted"]
  /\ evKey' = [evKey EXCEPT ![e] = k]
  /\ evPool' = [evPool EXCEPT ![e] = gen]
  /\ UNCHANGED <<lifeVars, queueVars, poolVars, evQ, callVars>>

NotStarted(e) ==
  /\ evPc[e] = "idle"
  /\ ~started
  /\ evPc' = [evPc EXCEPT ![e] = "refused"]
  /\ UNCHANGED <<lifeVars, queueVars, poolVars, evKey, evPool, evQ, callVars>>

\* queueManager.get: the instance, or ErrQueueReleased / ErrQueueNotFound (the
\* released set only tells these two apart)
FindQueue(e) ==
  /\ evPc[e] = "admitted"
  /\ evKey[e] # None
  /\ LET q == queues[evKey[e]] IN
     /\ evPc' = [evPc EXCEPT ![e] = IF q = None THEN "refused" ELSE "found"]
     /\ evQ' = [evQ EXCEPT ![e] = q]
  /\ UNCHANGED <<lifeVars, queueVars, poolVars, evKey, evPool, callVars>>

\* an enqueue that looks at the capacity alone
AcceptsIfRoom(q) == Len(ch[q]) < QueueSize

\* eventQueue.enqueue under eventQueue.mu: accepted, ErrQueueReleased or ErrQueueFull
Accepts(q) == ~qReleased[q] /\ Len(ch[q]) < QueueSize

Enqueue(e) ==
  LET q == evQ[e] IN
  /\ evPc[e] = "found"
  /\ \/ /\ Accepts(q)
        /\ ch' = [ch EXCEPT ![q] = Append(@, e)]
        /\ evPc' = [evPc EXCEPT ![e] = "queued"]
        /\ ret' = IF e \in Calls THEN [ret EXCEPT ![e] = "waiting"] ELSE ret
     \/ /\ ~Accepts(q)
        /\ evPc' = [evPc EXCEPT ![e] = "refused"]
        /\ UNCHANGED <<ch, ret>>
  /\ UNCHANGED <<lifeVars, queues, qId, qPool, qReleased, qAborted, qOp,
                 cPc, cItem, poolVars, evKey, evPool, evQ, resp, ctxDone>>

DispatchDirect(e) ==
  /\ evPc[e] = "admitted"
  /\ evKey[e] = None
  /\ evPc' = [evPc EXCEPT ![e] = FirstSlot(e)]
  /\ UNCHANGED <<lifeVars, queueVars, poolVars, evKey, evPool, evQ, callVars>>

\* the end of Call: the result or the end of the caller's context
CallReturns(e) ==
  /\ ret[e] = "waiting"
  /\ \/ /\ resp[e] # "empty"
        /\ ret' = [ret EXCEPT ![e] = resp[e]]
     \/ /\ ctxDone[e]
        /\ ret' = [ret EXCEPT ![e] = "ctx"]
  /\ UNCHANGED <<lifeVars, queueVars, poolVars, evVars, resp, ctxDone>>

\* the caller's deadline passes or its context is cancelled; earlier than the
\* two places that look at it, nobody can tell
ContextEnds(e) ==
  /\ e \in Calls
  /\ ret[e] = "waiting" \/ evPc[e] = "acqTotal"
  /\ ~ctxDone[e]
  /\ ctxDone' = [ctxDone EXCEPT ![e] = TRUE]
  /\ UNCHANGED <<lifeVars, queueVars, poolVars, evVars, resp, ret>>

-----------------------------------------------------------------------------
(***************************************************************************)
(* The consumer goroutine of a queue                                       *)
(***************************************************************************)

Receive(q) ==
  /\ cPc[q] = "recv"
  /\ ch[q] # <<>>
  /\ cItem' = [cItem EXCEPT ![q] = Head(ch[q])]
  /\ ch' = [ch EXCEPT ![q] = Tail(@)]
  /\ cPc' = [cPc EXCEPT ![q] = "check"]
  /\ evPc' = [evPc EXCEPT ![Head(ch[q])] = "taken"]
  /\ UNCHANGED <<lifeVars, queues, qId, qPool, qReleased, qAborted, qOp,
                 poolVars, evKey, evPool, evQ, callVars>>

\* the range loop ends once the closed channel is empty; done is closed
ConsumerExit(q) ==
  /\ cPc[q] = "recv"
  /\ ch[q] = <<>>
  /\ qReleased[q]
  /\ cPc' = [cPc EXCEPT ![q] = "exited"]
  /\ UNCHANGED <<lifeVars, queues, qId, qPool, ch, qReleased, qAborted, qOp,
                 cItem, poolVars, evVars, callVars>>

\* the aborted flag is read under eventQueue.mu and acted on after the unlock
CheckAborted(q) ==
  LET e == cItem[q] IN
  /\ cPc[q] = "check"
  /\ IF qAborted[q]
     THEN /\ cPc' = [cPc EXCEPT ![q] = "recv"]
          /\ cItem' = [cItem EXCEPT ![q] = None]
          /\ evPc' = [evPc EXCEPT ![e] = "discarded"]
          /\ UNCHANGED evPool
     ELSE /\ cPc' = [cPc EXCEPT ![q] = "await"]
          /\ evPc' = [evPc EXCEPT ![e] = FirstSlot(e)]
          /\ evPool' = [evPool EXCEPT ![e] = qPool[q]]
          /\ UNCHANGED cItem
  /\ UNCHANGED <<lifeVars, queues, qId, qPool, ch, qReleased, qAborted, qOp,
                 poolVars, evKey, evQ, callVars>>

\* a consumer that goes on as soon as the event is dispatched
NoWaitForItem(q) == evPc[cItem[q]] \notin {"acqPush", "acqTotal"}

\* <-done, after a dispatch that succeeded
ItemDone(q) == evPc[cItem[q]] = "done"

ConsumerNext(q) ==
  /\ cPc[q] = "await"
  /\ ItemDone(q)
  /\ cPc' = [cPc EXCEPT ![q] = "recv"]
  /\ cItem' = [cItem EXCEPT ![q] = None]
  /\ UNCHANGED <<lifeVars, queues, qId, qPool, ch, qReleased, qAborted, qOp,
                 poolVars, evVars, callVars>>

-----------------------------------------------------------------------------
(***************************************************************************)
(* workerPool.dispatch and the worker goroutine                            *)
(***************************************************************************)

\* room in semTotal
TotalFree(g) == semTotal[g] < MaxWorkers

AcquirePush(e) ==
  /\ evPc[e] = "acqPush"
  /\ semPush[evPool[e]] < PushSlots
  /\ semPush' = [semPush EXCEPT ![evPool[e]] = @ + 1]
  /\ evPc' = [evPc EXCEPT ![e] = "acqTotal"]
  /\ UNCHANGED <<lifeVars, queueVars, semTotal, wg, evKey, evPool, evQ, callVars>>

\* the total slot, wg.Add(1) and the worker (Stop, the only one to look at wg,
\* cannot tell a slot taken before Add from one not taken); a direct Call goes
\* on to wait
AcquireTotal(e) ==
  /\ evPc[e] = "acqTotal"
  /\ TotalFree(evPool[e])
  /\ semTotal' = [semTotal EXCEPT ![evPool[e]] = @ + 1]
  /\ wg' = [wg EXCEPT ![evPool[e]] = @ + 1]
  /\ evPc' = [evPc EXCEPT ![e] = "handling"]
  /\ ret' = IF e \in Calls /\ evQ[e] = None THEN [ret EXCEPT ![e] = "waiting"] ELSE ret
  /\ UNCHANGED <<lifeVars, queueVars, semPush, evKey, evPool, evQ, resp, ctxDone>>

\* ctx.Done while a Call waits for its slot (a Push runs under WithoutCancel):
\* Call returns the error, or the consumer puts it in resp and goes on
DispatchCancelled(e) ==
  /\ evPc[e] = "acqTotal"
  /\ e \in Calls
  /\ ctxDone[e]
  /\ evPc' = [evPc EXCEPT ![e] = "failed"]
  /\ \/ /\ evQ[e] = None
        /\ ret' = [ret EXCEPT ![e] = "unavailable"]
        /\ UNCHANGED <<resp, cPc, cItem>>
     \/ /\ evQ[e] # None
        /\ resp' = [resp EXCEPT ![e] = "err"]
        /\ cPc' = [cPc EXCEPT ![evQ[e]] = "recv"]
        /\ cItem' = [cItem EXCEPT ![evQ[e]] = None]
        /\ UNCHANGED ret
  /\ UNCHANGED <<lifeVars, queues, qId, qPool, ch, qReleased, qAborted, qOp,
                 poolVars, evKey, evPool, evQ, ctxDone>>

\* deferred calls that forget isPush
NoPushDefer(e) == "relTotal"

\* the deferred releases: semPush for a Push only, then semTotal
FirstRelease(e) == IF e \in Pushes THEN "relPush" ELSE "relTotal"

\* a recoverPanic that only logs
NoPanicReply == "empty"

\* recoverPanic: Result{Err: ErrHandlerPanic}
PanicReply == "panic"

\* Handle answers a Call once, as types.Handler asks, or panics; what a Push
\* writes goes to a discard channel
HandlerEnds(e) ==
  /\ evPc[e] = "handling"
  /\ evPc' = [evPc EXCEPT ![e] = FirstRelease(e)]
  /\ \/ /\ e \in Calls
        /\ \E r \in {"ok", PanicReply} : resp' = [resp EXCEPT ![e] = r]
     \/ /\ e \in Pushes
        /\ UNCHANGED resp
  /\ UNCHANGED <<lifeVars, queueVars, poolVars, evKey, evPool, evQ, ret, ctxDone>>

\* the deferred calls of the worker, last one first
ReleasePush(e) ==
  /\ evPc[e] = "relPush"
  /\ semPush' = [semPush EXCEPT ![evPool[e]] = @ - 1]
  /\ evPc' = [evPc EXCEPT ![e] = "relTotal"]
  /\ UNCHANGED <<lifeVars, queueVars, semTotal, wg, evKey, evPool, evQ, callVars>>

ReleaseTotal(e) ==
  /\ evPc[e] = "relTotal"
  /\ semTotal' = [semTotal EXCEPT ![evPool[e]] = @ - 1]
  /\ evPc' = [evPc EXCEPT ![e] = "wgDone"]
  /\ UNCHANGED <<lifeVars, queueVars, semPush, wg, evKey, evPool, evQ, callVars>>

\* wg.Done and close(ch): only a consumer waits for ch, and it can be late
WorkerDone(e) ==
  /\ evPc[e] = "wgDone"
  /\ wg' = [wg EXCEPT ![evPool[e]] = @ - 1]
  /\ evPc' = [evPc EXCEPT ![e] = "done"]
  /\ UNCHANGED <<lifeVars, queueVars, semTotal, semPush, evKey, evPool, evQ, callVars>>

-----------------------------------------------------------------------------

Lifecycle ==
  Start \/ StopBegin \/ StopAbortAll \/ StopAwaitQueues \/ StopShutdown

QueueAdmin ==
  \/ \E q \in Queues, k \in QueueIds : QueueCreateCheck(q, k)
  \/ \E q \in Queues : QueueCreate(q) \/ ApplyRelease(q) \/ ApplyAbort(q)
  \/ \E k \in QueueIds : QueueRelease(k) \/ QueueAbort(k)

Caller(e) ==
  \/ \E k \in QueueIds \cup {None} : Admit(e, k)
  \/ NotStarted(e) \/ FindQueue(e) \/ Enqueue(e) \/ DispatchDirect(e)
  \/ CallReturns(e)

Consumer(q) == Receive(q) \/ ConsumerExit(q) \/ CheckAborted(q) \/ ConsumerNext(q)

Dispatch(e) == AcquirePush(e) \/ AcquireTotal(e) \/ DispatchCancelled(e)

Worker(e) ==
  HandlerEnds(e) \/ ReleasePush(e) \/ ReleaseTotal(e) \/ WorkerDone(e)

Next ==
  \/ Lifecycle
  \/ QueueAdmin
  \/ \E e \in Events : Caller(e) \/ ContextEnds(e) \/ Dispatch(e) \/ Worker(e)
  \/ \E q \in Queues : Consumer(q)

Spec == Init /\ [][Next]_vars

(***************************************************************************)
(* Goroutines that can run do run, and handlers return.  Nobody is obliged *)
(* to call Push, Call, QueueCreate, QueueRelease, QueueAbort, Start or     *)
(* Stop, nor does a context have to end.                                   *)
(***************************************************************************)
Fairness ==
  /\ WF_vars(StopAbortAll) /\ WF_vars(StopAwaitQueues) /\ WF_vars(StopShutdown)
  /\ \A q \in Queues :
       WF_vars(QueueCreate(q)) /\ WF_vars(ApplyRelease(q) \/ ApplyAbort(q))
       /\ WF_vars(Consumer(q))
  /\ \A e \in Events :
       /\ WF_vars(FindQueue(e) \/ Enqueue(e) \/ DispatchDirect(e))
       /\ WF_vars(CallReturns(e))
       /\ WF_vars(Dispatch(e))
       /\ WF_vars(Worker(e))

FairSpec == Spec /\ Fairness

(***************************************************************************)
(* The same, when the handler may hang on a Push but still serves Calls.   *)
(***************************************************************************)
HangingPushSpec ==
  /\ Spec
  /\ \A e \in Events :
       WF_vars(ReleasePush(e) \/ ReleaseTotal(e)) /\ WF_vars(Dispatch(e))
  /\ \A e \in Calls : WF_vars(Worker(e))

-----------------------------------------------------------------------------
(***************************************************************************)
(* Safety                                                                  *)
(***************************************************************************)

HasTotal == {"handling", "relPush", "relTotal"}
HasPush == {"acqTotal", "handling", "relPush"}
HasWg == HasTotal \cup {"wgDone"}

TotalHolders(g) == {e \in Events : evPool[e] = g /\ evPc[e] \in HasTotal}
PushHolders(g) == {e \in Pushes : evPool[e] = g /\ evPc[e] \in HasPush}
WgHolders(g) == {e \in Events : evPool[e] = g /\ evPc[e] \in HasWg}

\* No slot leaks and none is given back twice, whatever way a worker ends:
\* the semaphores and the wait group of a pool (dispatch and the deferred
\* calls of its worker) count exactly the events that hold them.
SlotAccounting ==
  \A g \in Gens :
    /\ semTotal[g] = Cardinality(TotalHolders(g))
    /\ semPush[g] = Cardinality(PushHolders(g))
    /\ wg[g] = Cardinality(WgHolders(g))

\* What MaxWorkers and ReservedWorkers promise (worker.go, workerPool): a pool
\* never runs more handlers than MaxWorkers, nor more for Push than its share.
WorkerBound ==
  \A g \in Gens :
    LET running == {e \in Events : evPool[e] = g /\ evPc[e] = "handling"} IN
    /\ Cardinality(running) <= MaxWorkers
    /\ Cardinality(running \cap Pushes) <= PushSlots

\* "Push cannot starve them" (worker.go, ReservedWorkers): when a pool is full
\* although fewer than ReservedWorkers Calls are in it, the slot a Call waits
\* for belongs to a worker whose handler is over and that only has to give it
\* back.  (It may be a Push worker: semPush is released before semTotal, so the
\* next Push can have taken a total slot already.)
CallReservation ==
  ReservedWorkers < MaxWorkers =>
    \A g \in Gens :
      (/\ semTotal[g] = MaxWorkers
       /\ Cardinality(TotalHolders(g) \cap Calls) < ReservedWorkers)
      => \E e \in TotalHolders(g) : evPc[e] = "relTotal"

\* enqueue and release/abort share eventQueue.mu, so no event is sent on a
\* closed channel and none is left behind in the channel of a consumer that
\* has gone: an exited queue holds no event at all.
ExitedQueueIsEmpty ==
  \A q \in Queues : cPc[q] = "exited" =>
    /\ ch[q] = <<>>
    /\ \A e \in Events : evQ[e] = q =>
         evPc[e] \in {"found", "done", "discarded", "failed", "refused"}

\* A queue that get can find is open, is known under one id only and has a
\* consumer, across releases, re-creations under the same id, and restarts
\* (queue.go, queueManager): a later enqueue fails only for want of room, or
\* because a release came in between.
MapHoldsOpenQueues ==
  \A k \in QueueIds : queues[k] # None =>
    /\ qId[queues[k]] = k
    /\ ~qReleased[queues[k]] /\ ~qAborted[queues[k]]
    /\ qOp[queues[k]] = "none"
    /\ cPc[queues[k]] \in {"recv", "check", "await"}

\* What abortAll waits for (service.go, Stop): when Stop goes on to wait for
\* the pools, no event of a queue it aborted is waiting, starting or running.
StoppedQueuesQuiet ==
  stopPc \in {"awaitPool", "returned"} =>
    \A e \in Events : evQ[e] \in stopQs =>
      evPc[e] \in {"found", "done", "discarded", "failed", "refused"}

\* a queue of the bus, seen as one of SerialQueue
StageOf(e) ==
  IF evPc[e] \in {"acqPush", "acqTotal"} THEN "ready"
  ELSE IF evPc[e] = "handling" THEN "handling" ELSE "over"

ModeView == [q \in Queues |-> IF qAborted[q] THEN "aborted"
                              ELSE IF qReleased[q] THEN "draining" ELSE "open"]
PendingView == [q \in Queues |-> IF cPc[q] = "check" THEN <<cItem[q]>> \o ch[q] ELSE ch[q]]
ActiveView == [q \in Queues |-> IF cPc[q] = "await" THEN cItem[q] ELSE None]
StageView == [q \in Queues |-> IF cPc[q] = "await" THEN StageOf(cItem[q]) ELSE "none"]

Promise == INSTANCE SerialQueue WITH
  Nobody <- None, mode <- ModeView, pending <- PendingView,
  active <- ActiveView, stage <- StageView

\* The queues of the bus keep the promise of SerialQueue: one event at a time,
\* in the order of acceptance, released queues drain, aborted ones drop.
KeepsPromise == Promise!Spec

-----------------------------------------------------------------------------
(***************************************************************************)
(* Liveness                                                                *)
(***************************************************************************)

\* An accepted event is not forgotten (queue.go, consumer): it is handled,
\* dropped by an abort, or given up because its caller did.
QueuedSettles ==
  \A e \in Events : evPc[e] = "queued" ~> evPc[e] \in {"done", "discarded", "failed"}

\* A Call returns (bus.go, Call), whether the handler answers or panics.  The
\* exception is a queued Call that an abort drops: nobody writes to resp then,
\* and only the end of its own context gets it out.
CallAnswered ==
  \A e \in Calls : ret[e] = "waiting" ~> (ret[e] # "waiting" \/ evPc[e] = "discarded")

\* Stop comes to an end (service.go, Stop): the consumers it waits for exit
\* and the pool drains, although workers and callers keep running meanwhile.
StopReturns == stopPc = "abortAll" ~> stopPc = "returned"

\* ReservedWorkers against starvation (worker.go): a Call gets a worker or is
\* cancelled even when the handler never returns from a Push.
CallsNotStarved == \A e \in Calls : evPc[e] = "acqTotal" ~> evPc[e] # "acqTotal"

-----------------------------------------------------------------------------
(***************************************************************************)
(* What the documentation says and the code does not do                    *)
(***************************************************************************)

\* event/README.md: "Events in same queue never run concurrently", the queue
\* being what event.Queue(id) names.
SameQueueNeverConcurrent ==
  \A e, f \in Events :
    (e # f /\ evKey[e] = evKey[f] /\ evKey[e] # None) =>
      ~(evPc[e] = "handling" /\ evPc[f] = "handling")

\* service.go, Stop: "Waits for in-flight events to finish, discards pending
\* queue items": what is queued when Stop begins is no longer queued when it
\* returns.
StopDiscardsPending ==
  \A e \in Events :
    [](evPc[e] = "queued" /\ stopPc = "abortAll"
         => [](stopPc = "returned" => evPc[e] # "queued"))

\* service.go, Stop: "From here on, started=false prevents any new
\* Push/Call/QueueCreate."
NoQueueCreatedAfterStop ==
  stopPc = "returned" => \A k \in QueueIds : queues[k] = None

\* service.go, Stop: "Waits for in-flight events to finish [...] and calls
\* Shutdown on all handlers": no handler runs once Stop has returned.
NoHandlerAfterStop ==
  stopPc = "returned" => \A e \in Events : evPc[e] # "handling"

\* event/README.md: "Async fire-and-forget delivery. Returns event ID
\* immediately": a Push without a queue returns whatever the handler does with
\* the earlier ones (dispatch starts the worker in the caller's goroutine).
PushReturns ==
  \A e \in Pushes : (evPc[e] = "acqPush" /\ evQ[e] = None) ~> evPc[e] = "handling"

=============================================================================
