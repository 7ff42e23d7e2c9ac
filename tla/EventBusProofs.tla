--------------------------- MODULE EventBusProofs ---------------------------
(***************************************************************************)
(* Proofs about EventBus, for any number of events, queues, workers and    *)
(* restarts.                                                               *)
(***************************************************************************)
EXTENDS EventBus, FiniteSetTheorems, TLAPS

-----------------------------------------------------------------------------
(***************************************************************************)
(* The inductive invariant                                                 *)
(***************************************************************************)

\* what an event does between the consumer's check (or a direct dispatch) and
\* the end of its worker
InDispatch == {"acqPush", "acqTotal", "handling", "relPush", "relTotal", "wgDone"}

\* only Pushes touch semPush, an event gets its queue before its worker, and
\* a queued event is in the channel of its queue
Stages ==
  \A e \in Events :
    /\ evPc[e] \in {"acqPush", "relPush"} => e \in Pushes
    /\ evPc[e] \in {"idle", "admitted"} => evQ[e] = None
    /\ evPc[e] \in {"found", "queued", "taken", "discarded"} => evQ[e] \in Queues
    /\ evPc[e] = "queued" => \E i \in 1 .. Len(ch[evQ[e]]) : ch[evQ[e]][i] = e

\* a channel holds each queued event of its queue once
Channels ==
  \A q \in Queues : \A i \in 1 .. Len(ch[q]) :
    /\ evPc[ch[q][i]] = "queued"
    /\ evQ[ch[q][i]] = q
    /\ \A j \in 1 .. Len(ch[q]) : ch[q][i] = ch[q][j] => i = j

\* a consumer and the event it holds agree on where they are
Consumers ==
  \A q \in Queues :
    /\ cPc[q] = "check" => /\ cItem[q] \in Events
                           /\ evPc[cItem[q]] = "taken"
                           /\ evQ[cItem[q]] = q
    /\ cPc[q] = "await" => /\ cItem[q] \in Events
                           /\ evPc[cItem[q]] \in InDispatch \cup {"done"}
                           /\ evQ[cItem[q]] = q

\* an event of a queue is dispatched by that queue's consumer, which waits
Dispatched ==
  \A e \in Events :
    /\ evPc[e] \in InDispatch /\ evQ[e] # None =>
         cPc[evQ[e]] = "await" /\ cItem[evQ[e]] = e
    /\ evPc[e] = "taken" => cPc[evQ[e]] = "check" /\ cItem[evQ[e]] = e

\* the life of a queue instance: untouched until its consumer runs, closed
\* once, and left by the consumer when closed and empty
Lives ==
  \A q \in Queues :
    /\ cPc[q] \in {"none", "creating", "rejected"} =>
         ~qReleased[q] /\ ~qAborted[q] /\ qOp[q] = "none"
    /\ qOp[q] # "none" => ~qReleased[q]
    /\ qAborted[q] => qReleased[q]
    /\ cPc[q] = "exited" => qReleased[q] /\ ch[q] = <<>>

\* Stop goes on when the consumers it waits for have exited
Awaited ==
  stopPc \in {"awaitPool", "returned"} => \A q \in stopQs : cPc[q] = "exited"

IInv ==
  /\ TypeOK
  /\ Stages
  /\ Channels
  /\ Consumers
  /\ Dispatched
  /\ Lives
  /\ MapHoldsOpenQueues
  /\ Awaited
  /\ SlotAccounting

-----------------------------------------------------------------------------

LEMMA HoldersFinite ==
  ASSUME NEW g
  PROVE  /\ IsFiniteSet(TotalHolders(g)) /\ Cardinality(TotalHolders(g)) \in Nat
         /\ IsFiniteSet(PushHolders(g)) /\ Cardinality(PushHolders(g)) \in Nat
         /\ IsFiniteSet(WgHolders(g)) /\ Cardinality(WgHolders(g)) \in Nat
<1>1. IsFiniteSet(Events)
  BY EventAssumption
<1>2. /\ TotalHolders(g) \subseteq Events
      /\ PushHolders(g) \subseteq Events
      /\ WgHolders(g) \subseteq Events
  BY DEF TotalHolders, PushHolders, WgHolders, Events
<1> QED
  BY <1>1, <1>2, FS_Subset, FS_CardinalityType

\* what an event holds has been counted
LEMMA HolderTakesSlot ==
  ASSUME IInv, NEW e \in Events
  PROVE  /\ evPc[e] \in HasTotal => semTotal[evPool[e]] \in Nat \ {0}
         /\ evPc[e] = "relPush" => semPush[evPool[e]] \in Nat \ {0}
         /\ evPc[e] \in HasWg => wg[evPool[e]] \in Nat \ {0}
<1> DEFINE g == evPool[e]
<1>1. g \in Gens /\ semTotal[g] \in Nat /\ semPush[g] \in Nat /\ wg[g] \in Nat
  BY DEF IInv, TypeOK
<1>2. /\ evPc[e] \in HasTotal => TotalHolders(g) # {}
      /\ evPc[e] = "relPush" => PushHolders(g) # {}
      /\ evPc[e] \in HasWg => WgHolders(g) # {}
  BY DEF TotalHolders, PushHolders, WgHolders, HasPush, IInv, Stages
<1>3. /\ semTotal[g] = Cardinality(TotalHolders(g))
      /\ semPush[g] = Cardinality(PushHolders(g))
      /\ wg[g] = Cardinality(WgHolders(g))
  BY <1>1 DEF IInv, SlotAccounting
<1> QED
  BY <1>1, <1>2, <1>3, HoldersFinite, FS_EmptySet

LEMMA InitIInv == Init => IInv
<1> SUFFICES ASSUME Init PROVE IInv
  OBVIOUS
<1>0. 0 \in Gens /\ <<>> \in Seq(Events)
  BY LimitAssumption DEF Gens
<1>1. TypeOK
  BY <1>0 DEF Init, TypeOK, EvStates, ConsumerStates
<1>2. \A g \in Gens : TotalHolders(g) = {} /\ PushHolders(g) = {} /\ WgHolders(g) = {}
  BY DEF Init, TotalHolders, PushHolders, WgHolders, HasTotal, HasPush, HasWg, Events
<1>3. SlotAccounting
  BY <1>2, FS_EmptySet DEF Init, SlotAccounting
<1>4. Stages /\ Channels /\ Consumers /\ Dispatched
  BY DEF Init, Stages, Channels, Consumers, Dispatched, InDispatch
<1>5. Lives /\ MapHoldsOpenQueues /\ Awaited
  BY DEF Init, Lives, MapHoldsOpenQueues, Awaited
<1> QED
  BY <1>1, <1>3, <1>4, <1>5 DEF IInv

-----------------------------------------------------------------------------
(***************************************************************************)
(* Preservation of the type invariant                                      *)
(***************************************************************************)

LEMMA TypePreserved == IInv /\ [Next]_vars => TypeOK'
<1> SUFFICES ASSUME IInv, [Next]_vars PROVE TypeOK'
  OBVIOUS
<1>t. TypeOK
  BY DEF IInv
<1> USE <1>t DEF TypeOK, lifeVars, queueVars, poolVars, evVars, callVars
<1>g. gen \in Nat /\ MaxStarts \in Nat /\ (gen < MaxStarts => gen + 1 \in Gens)
  BY LimitAssumption DEF Gens
<1>1. CASE Start
  BY <1>1, <1>g DEF Start
<1>2. CASE StopBegin
  BY <1>2 DEF StopBegin
<1>3. CASE StopAbortAll
  BY <1>3 DEF StopAbortAll
<1>4. CASE StopAwaitQueues
  BY <1>4 DEF StopAwaitQueues
<1>5. CASE StopShutdown
  BY <1>5 DEF StopShutdown
<1>6. ASSUME NEW q \in Queues, NEW k \in QueueIds, QueueCreateCheck(q, k) PROVE TypeOK'
  BY <1>6 DEF QueueCreateCheck, ConsumerStates
<1>7. ASSUME NEW q \in Queues, QueueCreate(q) PROVE TypeOK'
  <2>1. /\ cPc' \in {[cPc EXCEPT ![q] = "rejected"], [cPc EXCEPT ![q] = "recv"]}
        /\ queues' \in {queues, [queues EXCEPT ![qId[q]] = q]}
        /\ UNCHANGED <<lifeVars, qId, qPool, ch, qReleased, qAborted, qOp, cItem,
                       poolVars, evVars, callVars>>
    BY <1>7 DEF QueueCreate
  <2>2. cPc' \in [Queues -> ConsumerStates]
    BY <2>1 DEF ConsumerStates
  <2>3. queues' \in [QueueIds -> Queues \cup {None}]
    BY <2>1
  <2> QED
    BY <2>1, <2>2, <2>3
<1>8. ASSUME NEW q \in Queues, ApplyRelease(q) PROVE TypeOK'
  BY <1>8 DEF ApplyRelease
<1>9. ASSUME NEW q \in Queues, ApplyAbort(q) PROVE TypeOK'
  BY <1>9 DEF ApplyAbort
<1>10. ASSUME NEW k \in QueueIds, QueueRelease(k) \/ QueueAbort(k) PROVE TypeOK'
  BY <1>10 DEF QueueRelease, QueueAbort, Detach, DeletedFromMap
<1>11. ASSUME NEW e \in Events, NEW k \in QueueIds \cup {None}, Admit(e, k) PROVE TypeOK'
  BY <1>11 DEF Admit, EvStates
<1>12. ASSUME NEW e \in Events, NotStarted(e) PROVE TypeOK'
  BY <1>12 DEF NotStarted, EvStates
<1>13. ASSUME NEW e \in Events, FindQueue(e) PROVE TypeOK'
  BY <1>13 DEF FindQueue, EvStates
<1>14. ASSUME NEW e \in Events, Enqueue(e) PROVE TypeOK'
  <2>1. evQ[e] \in Queues
    <3>1. Stages /\ evPc[e] = "found"
      BY <1>14 DEF Enqueue, IInv
    <3> QED
      BY <3>1 DEF Stages
  <2>2. Append(ch[evQ[e]], e) \in Seq(Events)
    BY <2>1
  <2>3. /\ ch' \in {ch, [ch EXCEPT ![evQ[e]] = Append(@, e)]}
        /\ evPc' \in {[evPc EXCEPT ![e] = "queued"], [evPc EXCEPT ![e] = "refused"]}
        /\ ret' \in {ret, [ret EXCEPT ![e] = "waiting"]}
        /\ UNCHANGED <<lifeVars, queues, qId, qPool, qReleased, qAborted, qOp,
                       cPc, cItem, poolVars, evKey, evPool, evQ, resp, ctxDone>>
    BY <1>14 DEF Enqueue
  <2>4. ch' \in [Queues -> Seq(Events)]
    BY <2>1, <2>2, <2>3
  <2>5. evPc' \in [Events -> EvStates]
    BY <2>3 DEF EvStates
  <2>6. ret' \in [Events -> {"none", "waiting", "ok", "panic", "err", "ctx", "unavailable"}]
    BY <2>3
  <2> QED
    BY <2>3, <2>4, <2>5, <2>6
<1>15. ASSUME NEW e \in Events, DispatchDirect(e) PROVE TypeOK'
  BY <1>15 DEF DispatchDirect, FirstSlot, EvStates
<1>16. ASSUME NEW e \in Events, CallReturns(e) PROVE TypeOK'
  <2>1. /\ ret[e] = "waiting"
        /\ \/ resp[e] # "empty" /\ ret' = [ret EXCEPT ![e] = resp[e]]
           \/ ret' = [ret EXCEPT ![e] = "ctx"]
        /\ UNCHANGED <<lifeVars, queueVars, poolVars, evVars, resp, ctxDone>>
    BY <1>16 DEF CallReturns
  <2>2. resp[e] \in {"empty", "ok", "panic", "err"}
    OBVIOUS
  <2>3. ret' \in [Events -> {"none", "waiting", "ok", "panic", "err", "ctx", "unavailable"}]
    BY <2>1, <2>2
  <2> QED
    BY <2>1, <2>3
<1>17. ASSUME NEW e \in Events, ContextEnds(e) PROVE TypeOK'
  BY <1>17 DEF ContextEnds
<1>18. ASSUME NEW q \in Queues, Receive(q) PROVE TypeOK'
  <2>1. Head(ch[q]) \in Events /\ Tail(ch[q]) \in Seq(Events)
    BY <1>18 DEF Receive
  <2> QED
    BY <1>18, <2>1 DEF Receive, EvStates, ConsumerStates
<1>19. ASSUME NEW q \in Queues, ConsumerExit(q) PROVE TypeOK'
  BY <1>19 DEF ConsumerExit, ConsumerStates
<1>20. ASSUME NEW q \in Queues, CheckAborted(q) PROVE TypeOK'
  <2>1. cItem[q] \in Events
    <3>1. Consumers /\ cPc[q] = "check"
      BY <1>20 DEF CheckAborted, IInv
    <3> QED
      BY <3>1 DEF Consumers
  <2>2. CASE qAborted[q]
    <3>1. /\ evPc' = [evPc EXCEPT ![cItem[q]] = "discarded"]
          /\ cPc' = [cPc EXCEPT ![q] = "recv"] /\ cItem' = [cItem EXCEPT ![q] = None]
          /\ UNCHANGED evPool
      BY <1>20, <2>2 DEF CheckAborted
    <3>2. "discarded" \in EvStates /\ "recv" \in ConsumerStates
      BY DEF EvStates, ConsumerStates
    <3> QED
      BY <1>20, <2>1, <3>1, <3>2 DEF CheckAborted
  <2>3. CASE ~qAborted[q]
    <3>1. /\ evPc' = [evPc EXCEPT ![cItem[q]] = FirstSlot(cItem[q])]
          /\ evPool' = [evPool EXCEPT ![cItem[q]] = qPool[q]]
          /\ cPc' = [cPc EXCEPT ![q] = "await"]
          /\ UNCHANGED cItem
      BY <1>20, <2>3 DEF CheckAborted
    <3>2. FirstSlot(cItem[q]) \in EvStates /\ qPool[q] \in Gens
      BY DEF FirstSlot, EvStates
    <3> QED
      BY <1>20, <2>1, <3>1, <3>2 DEF CheckAborted, ConsumerStates
  <2> QED
    BY <2>2, <2>3
<1>21. ASSUME NEW q \in Queues, ConsumerNext(q) PROVE TypeOK'
  BY <1>21 DEF ConsumerNext, ConsumerStates
<1>22. ASSUME NEW e \in Events, AcquirePush(e) PROVE TypeOK'
  BY <1>22 DEF AcquirePush, EvStates
<1>23. ASSUME NEW e \in Events, AcquireTotal(e) PROVE TypeOK'
  BY <1>23 DEF AcquireTotal, EvStates
<1>24. ASSUME NEW e \in Events, DispatchCancelled(e) PROVE TypeOK'
  BY <1>24 DEF DispatchCancelled, EvStates, ConsumerStates
<1>25. ASSUME NEW e \in Events, HandlerEnds(e) PROVE TypeOK'
  <2>1. /\ evPc' = [evPc EXCEPT ![e] = FirstRelease(e)]
        /\ \/ UNCHANGED resp
           \/ \E r \in {"ok", PanicReply} : resp' = [resp EXCEPT ![e] = r]
        /\ UNCHANGED <<lifeVars, queueVars, poolVars, evKey, evPool, evQ, ret, ctxDone>>
    BY <1>25 DEF HandlerEnds
  <2>2. evPc' \in [Events -> EvStates]
    BY <2>1 DEF FirstRelease, EvStates
  <2>3. resp' \in [Events -> {"empty", "ok", "panic", "err"}]
    BY <2>1 DEF PanicReply
  <2> QED
    BY <2>1, <2>2, <2>3
<1>26. ASSUME NEW e \in Events, ReleasePush(e) PROVE TypeOK'
  <2>1. semPush[evPool[e]] \in Nat \ {0}
    BY <1>26, HolderTakesSlot DEF ReleasePush
  <2> QED
    BY <1>26, <2>1 DEF ReleasePush, EvStates
<1>27. ASSUME NEW e \in Events, ReleaseTotal(e) PROVE TypeOK'
  <2>1. semTotal[evPool[e]] \in Nat \ {0}
    BY <1>27, HolderTakesSlot DEF ReleaseTotal, HasTotal
  <2> QED
    BY <1>27, <2>1 DEF ReleaseTotal, EvStates
<1>28. ASSUME NEW e \in Events, WorkerDone(e) PROVE TypeOK'
  <2>1. wg[evPool[e]] \in Nat \ {0}
    BY <1>28, HolderTakesSlot DEF WorkerDone, HasTotal, HasWg
  <2> QED
    BY <1>28, <2>1 DEF WorkerDone, EvStates
<1>29. CASE UNCHANGED vars
  BY <1>29 DEF vars
<1> QED
  BY <1>1, <1>2, <1>3, <1>4, <1>5, <1>6, <1>7, <1>8, <1>9, <1>10, <1>11, <1>12,
     <1>13, <1>14, <1>15, <1>16, <1>17, <1>18, <1>19, <1>20, <1>21, <1>22, <1>23,
     <1>24, <1>25, <1>26, <1>27, <1>28, <1>29
     DEF Next, Lifecycle, QueueAdmin, Caller, Consumer, Dispatch, Worker

-----------------------------------------------------------------------------
(***************************************************************************)
(* Preservation of the slot accounting                                     *)
(***************************************************************************)

\* what one event's move does to the number of holders of a pool
LEMMA Recount ==
  ASSUME NEW e \in Events, NEW g,
         \A f \in Events \ {e} : evPc'[f] = evPc[f] /\ evPool'[f] = evPool[f]
  PROVE
    LET Count(H, J) ==
          /\ (e \in H <=> e \in J) => Cardinality(J) = Cardinality(H)
          /\ (e \notin H /\ e \in J) => Cardinality(J) = Cardinality(H) + 1
          /\ (e \in H /\ e \notin J) => Cardinality(J) = Cardinality(H) - 1
    IN /\ Count(TotalHolders(g), TotalHolders(g)')
       /\ Count(PushHolders(g), PushHolders(g)')
       /\ Count(WgHolders(g), WgHolders(g)')
<1>1. ASSUME NEW H, NEW J, IsFiniteSet(H), H \ {e} = J \ {e}
      PROVE  /\ (e \in H <=> e \in J) => Cardinality(J) = Cardinality(H)
             /\ (e \notin H /\ e \in J) => Cardinality(J) = Cardinality(H) + 1
             /\ (e \in H /\ e \notin J) => Cardinality(J) = Cardinality(H) - 1
  <2>1. (e \in H <=> e \in J) => J = H
    BY <1>1
  <2>2. (e \notin H /\ e \in J) => J = H \cup {e}
    BY <1>1
  <2>3. (e \in H /\ e \notin J) => J = H \ {e}
    BY <1>1
  <2> QED
    BY <1>1, <2>1, <2>2, <2>3, FS_AddElement, FS_RemoveElement
<1>2. /\ TotalHolders(g) \ {e} = TotalHolders(g)' \ {e}
      /\ PushHolders(g) \ {e} = PushHolders(g)' \ {e}
      /\ WgHolders(g) \ {e} = WgHolders(g)' \ {e}
  BY DEF TotalHolders, PushHolders, WgHolders, Events
<1> QED
  BY <1>1, <1>2, HoldersFinite

\* the steps that leave the holders alone
LEMMA SlotsFrame ==
  ASSUME IInv, UNCHANGED <<evPc, evPool, semTotal, semPush, wg>>
  PROVE  SlotAccounting'
BY DEF IInv, SlotAccounting, TotalHolders, PushHolders, WgHolders

\* an event that waits for a first slot, or is past its worker, holds nothing
Free(e) == evPc[e] \notin HasWg /\ (e \in Pushes => evPc[e] # "acqTotal")

LEMMA SlotsStay ==
  ASSUME IInv, NEW e \in Events, Free(e), Free(e)',
         \A f \in Events \ {e} : evPc'[f] = evPc[f] /\ evPool'[f] = evPool[f],
         UNCHANGED <<semTotal, semPush, wg>>
  PROVE  SlotAccounting'
<1>1. \A g : /\ e \notin TotalHolders(g) /\ e \notin TotalHolders(g)'
             /\ e \notin PushHolders(g) /\ e \notin PushHolders(g)'
             /\ e \notin WgHolders(g) /\ e \notin WgHolders(g)'
  BY DEF Free, TotalHolders, PushHolders, WgHolders, HasTotal, HasPush, HasWg
<1> QED
  BY <1>1, Recount DEF IInv, SlotAccounting

LEMMA SlotsPreserved == IInv /\ [Next]_vars => SlotAccounting'
<1> SUFFICES ASSUME IInv, [Next]_vars PROVE SlotAccounting'
  OBVIOUS
<1> USE DEF lifeVars, queueVars, poolVars, evVars, callVars
<1>t. TypeOK /\ Stages /\ Pushes \cap Calls = {}
  BY EventAssumption DEF IInv
<1>1. CASE Lifecycle
  BY <1>1, SlotsFrame
     DEF Lifecycle, Start, StopBegin, StopAbortAll, StopAwaitQueues, StopShutdown
<1>2. CASE QueueAdmin
  BY <1>2, SlotsFrame
     DEF QueueAdmin, QueueCreateCheck, QueueCreate, ApplyRelease, ApplyAbort,
         QueueRelease, QueueAbort, Detach
<1>3. ASSUME NEW e \in Events, Caller(e) PROVE SlotAccounting'
  <2>1. ASSUME NEW k, Admit(e, k) PROVE SlotAccounting'
    BY <1>t, <2>1, SlotsStay DEF Admit, Free, HasWg, HasTotal, TypeOK
  <2>2. CASE NotStarted(e)
    BY <1>t, <2>2, SlotsStay DEF NotStarted, Free, HasWg, HasTotal, TypeOK
  <2>3. CASE FindQueue(e)
    BY <1>t, <2>3, SlotsStay DEF FindQueue, Free, HasWg, HasTotal, TypeOK
  <2>4. CASE Enqueue(e)
    BY <1>t, <2>4, SlotsStay DEF Enqueue, Free, HasWg, HasTotal, TypeOK
  <2>5. CASE DispatchDirect(e)
    BY <1>t, <2>5, SlotsStay DEF DispatchDirect, FirstSlot, Free, HasWg, HasTotal, TypeOK
  <2>6. CASE CallReturns(e)
    BY <2>6, SlotsFrame DEF CallReturns
  <2> QED
    BY <1>3, <2>1, <2>2, <2>3, <2>4, <2>5, <2>6 DEF Caller
<1>4. ASSUME NEW e \in Events, ContextEnds(e) PROVE SlotAccounting'
  BY <1>4, SlotsFrame DEF ContextEnds
<1>5. ASSUME NEW q \in Queues, Consumer(q) PROVE SlotAccounting'
  <2>1. CASE Receive(q)
    <3>1. Head(ch[q]) \in Events /\ evPc[Head(ch[q])] = "queued"
      BY <2>1 DEF Receive, IInv, TypeOK, Channels
    <3> QED
      BY <1>t, <2>1, <3>1, SlotsStay DEF Receive, Free, HasWg, HasTotal, TypeOK
  <2>2. CASE ConsumerExit(q)
    BY <2>2, SlotsFrame DEF ConsumerExit
  <2>3. CASE CheckAborted(q)
    <3>1. cItem[q] \in Events /\ evPc[cItem[q]] = "taken"
      BY <2>3 DEF CheckAborted, IInv, Consumers
    <3>2. CASE qAborted[q]
      BY <1>t, <2>3, <3>1, <3>2, SlotsStay
         DEF CheckAborted, Free, HasWg, HasTotal, TypeOK
    <3>3. CASE ~qAborted[q]
      <4>1. /\ evPc' = [evPc EXCEPT ![cItem[q]] = FirstSlot(cItem[q])]
            /\ evPool' = [evPool EXCEPT ![cItem[q]] = qPool[q]]
            /\ UNCHANGED <<semTotal, semPush, wg>>
        BY <2>3, <3>3 DEF CheckAborted
      <4> QED
        BY <1>t, <3>1, <4>1, SlotsStay DEF FirstSlot, Free, HasWg, HasTotal, TypeOK
    <3> QED
      BY <3>2, <3>3
  <2>4. CASE ConsumerNext(q)
    BY <2>4, SlotsFrame DEF ConsumerNext
  <2> QED
    BY <1>5, <2>1, <2>2, <2>3, <2>4 DEF Consumer
<1>6. ASSUME NEW e \in Events, Dispatch(e) \/ Worker(e) PROVE SlotAccounting'
  <2> DEFINE moved == \A f \in Events \ {e} : evPc'[f] = evPc[f] /\ evPool'[f] = evPool[f]
  <2>m. moved
    BY <1>t, <1>6
       DEF TypeOK, Dispatch, AcquirePush, AcquireTotal, DispatchCancelled, Worker,
           HandlerEnds, ReleasePush, ReleaseTotal, WorkerDone
  <2> SUFFICES ASSUME NEW g \in Gens
               PROVE  /\ semTotal'[g] = Cardinality(TotalHolders(g)')
                      /\ semPush'[g] = Cardinality(PushHolders(g)')
                      /\ wg'[g] = Cardinality(WgHolders(g)')
    BY DEF SlotAccounting
  <2> USE DEF HasTotal, HasPush, HasWg
  <2>h. /\ semTotal[g] = Cardinality(TotalHolders(g)) /\ semTotal[g] \in Nat
        /\ semPush[g] = Cardinality(PushHolders(g)) /\ semPush[g] \in Nat
        /\ wg[g] = Cardinality(WgHolders(g)) /\ wg[g] \in Nat
    BY <1>t DEF IInv, SlotAccounting, TypeOK
  <2>r. /\ (e \in TotalHolders(g) <=> e \in TotalHolders(g)')
             => Cardinality(TotalHolders(g)') = Cardinality(TotalHolders(g))
        /\ (e \notin TotalHolders(g) /\ e \in TotalHolders(g)')
             => Cardinality(TotalHolders(g)') = Cardinality(TotalHolders(g)) + 1
        /\ (e \in TotalHolders(g) /\ e \notin TotalHolders(g)')
             => Cardinality(TotalHolders(g)') = Cardinality(TotalHolders(g)) - 1
        /\ (e \in PushHolders(g) <=> e \in PushHolders(g)')
             => Cardinality(PushHolders(g)') = Cardinality(PushHolders(g))
        /\ (e \notin PushHolders(g) /\ e \in PushHolders(g)')
             => Cardinality(PushHolders(g)') = Cardinality(PushHolders(g)) + 1
        /\ (e \in PushHolders(g) /\ e \notin PushHolders(g)')
             => Cardinality(PushHolders(g)') = Cardinality(PushHolders(g)) - 1
        /\ (e \in WgHolders(g) <=> e \in WgHolders(g)')
             => Cardinality(WgHolders(g)') = Cardinality(WgHolders(g))
        /\ (e \notin WgHolders(g) /\ e \in WgHolders(g)')
             => Cardinality(WgHolders(g)') = Cardinality(WgHolders(g)) + 1
        /\ (e \in WgHolders(g) /\ e \notin WgHolders(g)')
             => Cardinality(WgHolders(g)') = Cardinality(WgHolders(g)) - 1
    BY <2>m, Recount
  <2>s. /\ e \in TotalHolders(g) <=> evPool[e] = g /\ evPc[e] \in HasTotal
        /\ e \in PushHolders(g) <=> e \in Pushes /\ evPool[e] = g /\ evPc[e] \in HasPush
        /\ e \in WgHolders(g) <=> evPool[e] = g /\ evPc[e] \in HasWg
        /\ e \in TotalHolders(g)' <=> evPool'[e] = g /\ evPc'[e] \in HasTotal
        /\ e \in PushHolders(g)' <=> e \in Pushes /\ evPool'[e] = g /\ evPc'[e] \in HasPush
        /\ e \in WgHolders(g)' <=> evPool'[e] = g /\ evPc'[e] \in HasWg
    BY DEF TotalHolders, PushHolders, WgHolders
  <2>1. CASE AcquirePush(e)
    BY <1>t, <2>h, <2>r, <2>s, <2>1 DEF AcquirePush, TypeOK, Stages
  <2>2. CASE AcquireTotal(e)
    BY <1>t, <2>h, <2>r, <2>s, <2>2 DEF AcquireTotal, TypeOK, Stages
  <2>3. CASE DispatchCancelled(e)
    BY <1>t, <2>h, <2>r, <2>s, <2>3 DEF DispatchCancelled, TypeOK, Stages
  <2>4. CASE HandlerEnds(e)
    BY <1>t, <2>h, <2>r, <2>s, <2>4 DEF HandlerEnds, FirstRelease, TypeOK, Stages
  <2>5. CASE ReleasePush(e)
    BY <1>t, <2>h, <2>r, <2>s, <2>5 DEF ReleasePush, TypeOK, Stages
  <2>6. CASE ReleaseTotal(e)
    BY <1>t, <2>h, <2>r, <2>s, <2>6 DEF ReleaseTotal, TypeOK, Stages
  <2>7. CASE WorkerDone(e)
    BY <1>t, <2>h, <2>r, <2>s, <2>7 DEF WorkerDone, TypeOK, Stages
  <2> QED
    BY <1>6, <2>1, <2>2, <2>3, <2>4, <2>5, <2>6, <2>7 DEF Dispatch, Worker
<1>7. CASE UNCHANGED vars
  BY <1>7, SlotsFrame DEF vars
<1> QED
  BY <1>1, <1>2, <1>3, <1>4, <1>5, <1>6, <1>7 DEF Next

-----------------------------------------------------------------------------
(***************************************************************************)
(* Preservation of the life of queues                                      *)
(***************************************************************************)

\* a consumer that moves on within its loop
LEMMA LivesMove ==
  ASSUME IInv, NEW q \in Queues, NEW s \in {"recv", "check", "await"},
         cPc[q] \in {"recv", "check", "await"}, cPc' = [cPc EXCEPT ![q] = s],
         UNCHANGED <<queues, qId, ch, qReleased, qAborted, qOp, stopPc, stopQs>>
  PROVE  Lives' /\ MapHoldsOpenQueues' /\ Awaited'
<1>1. cPc \in [Queues -> ConsumerStates] /\ queues \in [QueueIds -> Queues \cup {None}]
      /\ stopQs \subseteq Queues
  BY DEF IInv, TypeOK
<1>2. Lives' /\ Awaited'
  BY <1>1 DEF IInv, Lives, Awaited
<1>3. MapHoldsOpenQueues'
  BY <1>1 DEF IInv, MapHoldsOpenQueues
<1> QED
  BY <1>2, <1>3

\* a queue that leaves the map
LEMMA LivesDetach ==
  ASSUME IInv, NEW k \in QueueIds, NEW op \in {"release", "abort"}, Detach(k, op)
  PROVE  Lives' /\ MapHoldsOpenQueues' /\ Awaited'
<1> DEFINE q == queues[k]
<1>1. /\ queues \in [QueueIds -> Queues \cup {None}] /\ qOp \in [Queues -> {"none", "release", "abort"}]
      /\ q \in Queues /\ ~qReleased[q] /\ cPc[q] \in {"recv", "check", "await"}
      /\ qId[q] = k
  BY DEF Detach, IInv, MapHoldsOpenQueues, TypeOK
<1>2. /\ queues' = [queues EXCEPT ![k] = None] /\ qOp' = [qOp EXCEPT ![q] = op]
      /\ UNCHANGED <<qId, ch, qReleased, qAborted, cPc, stopPc, stopQs>>
  BY DEF Detach, DeletedFromMap, lifeVars
<1>3. Lives' /\ Awaited'
  BY <1>1, <1>2 DEF IInv, Lives, Awaited
<1>4. MapHoldsOpenQueues'
  <2> SUFFICES ASSUME NEW j \in QueueIds, queues'[j] # None
               PROVE  /\ qId'[queues'[j]] = j
                      /\ ~qReleased'[queues'[j]] /\ ~qAborted'[queues'[j]]
                      /\ qOp'[queues'[j]] = "none"
                      /\ cPc'[queues'[j]] \in {"recv", "check", "await"}
    BY DEF MapHoldsOpenQueues
  <2>1. j # k /\ queues'[j] = queues[j] /\ queues[j] # None
    BY <1>1, <1>2
  <2>2. qId[queues[j]] = j /\ queues[j] \in Queues
    BY <1>1, <2>1 DEF IInv, MapHoldsOpenQueues
  <2>3. queues[j] # q
    BY <1>1, <2>1, <2>2
  <2> QED
    BY <1>1, <1>2, <2>1, <2>2, <2>3 DEF IInv, MapHoldsOpenQueues
<1> QED
  BY <1>3, <1>4

LEMMA LivesPreserved == IInv /\ [Next]_vars => Lives' /\ MapHoldsOpenQueues' /\ Awaited'
<1> SUFFICES ASSUME IInv, [Next]_vars PROVE Lives' /\ MapHoldsOpenQueues' /\ Awaited'
  OBVIOUS
<1> USE DEF Lives, MapHoldsOpenQueues, Awaited, lifeVars, queueVars, poolVars, evVars, callVars
<1>t. TypeOK /\ Lives /\ MapHoldsOpenQueues /\ Awaited
  BY DEF IInv
<1>n. None \notin Queues
  BY EventAssumption
<1>1. CASE Start
  BY <1>t, <1>1 DEF Start
<1>2. CASE StopBegin
  BY <1>t, <1>2 DEF StopBegin
<1>3. CASE StopAbortAll
  BY <1>t, <1>3 DEF StopAbortAll
<1>4. CASE StopAwaitQueues
  BY <1>t, <1>4 DEF StopAwaitQueues, QueuesDone
<1>5. CASE StopShutdown
  BY <1>t, <1>5 DEF StopShutdown
<1>6. ASSUME NEW q \in Queues, NEW k \in QueueIds, QueueCreateCheck(q, k) PROVE Lives' /\ MapHoldsOpenQueues' /\ Awaited'
  BY <1>t, <1>6 DEF QueueCreateCheck
<1>7. ASSUME NEW q \in Queues, QueueCreate(q) PROVE Lives' /\ MapHoldsOpenQueues' /\ Awaited'
  <2>1. CASE queues[qId[q]] # None
    <3>1. /\ cPc[q] = "creating" /\ cPc' = [cPc EXCEPT ![q] = "rejected"]
          /\ UNCHANGED <<queues, qId, ch, qReleased, qAborted, qOp, stopPc, stopQs>>
      BY <1>7, <2>1 DEF QueueCreate
    <3>2. /\ cPc \in [Queues -> ConsumerStates]
          /\ queues \in [QueueIds -> Queues \cup {None}]
      BY DEF IInv, TypeOK
    <3>3. Lives' /\ Awaited'
      BY <1>t, <3>1, <3>2
    <3>4. MapHoldsOpenQueues'
      BY <1>t, <1>n, <3>1, <3>2
    <3> QED
      BY <3>3, <3>4
  <2>2. CASE queues[qId[q]] = None
    <3>1. /\ cPc[q] = "creating" /\ cPc' = [cPc EXCEPT ![q] = "recv"]
          /\ queues' = [queues EXCEPT ![qId[q]] = q]
          /\ UNCHANGED <<qId, ch, qReleased, qAborted, qOp, stopPc, stopQs>>
      BY <1>7, <2>2 DEF QueueCreate
    <3>2. /\ cPc \in [Queues -> ConsumerStates]
          /\ queues \in [QueueIds -> Queues \cup {None}]
      BY DEF IInv, TypeOK
    <3>3. Lives' /\ Awaited'
      BY <1>t, <3>1, <3>2
    <3>4. MapHoldsOpenQueues'
      BY <1>t, <1>n, <3>1, <3>2
    <3> QED
      BY <3>3, <3>4
  <2> QED
    BY <2>1, <2>2
<1>8. ASSUME NEW q \in Queues, ApplyRelease(q) PROVE Lives' /\ MapHoldsOpenQueues' /\ Awaited'
  BY <1>t, <1>n, <1>8 DEF ApplyRelease, TypeOK
<1>9. ASSUME NEW q \in Queues, ApplyAbort(q) PROVE Lives' /\ MapHoldsOpenQueues' /\ Awaited'
  BY <1>t, <1>n, <1>9 DEF ApplyAbort, TypeOK
<1>10. ASSUME NEW k \in QueueIds, QueueRelease(k) PROVE Lives' /\ MapHoldsOpenQueues' /\ Awaited'
  BY <1>10, LivesDetach DEF QueueRelease
<1>11. ASSUME NEW k \in QueueIds, QueueAbort(k) PROVE Lives' /\ MapHoldsOpenQueues' /\ Awaited'
  BY <1>11, LivesDetach DEF QueueAbort
<1>12. ASSUME NEW e \in Events, NEW k \in QueueIds \cup {None}, Admit(e, k) PROVE Lives' /\ MapHoldsOpenQueues' /\ Awaited'
  BY <1>t, <1>12 DEF Admit
<1>13. ASSUME NEW e \in Events, NotStarted(e) PROVE Lives' /\ MapHoldsOpenQueues' /\ Awaited'
  BY <1>t, <1>13 DEF NotStarted
<1>14. ASSUME NEW e \in Events, FindQueue(e) PROVE Lives' /\ MapHoldsOpenQueues' /\ Awaited'
  BY <1>t, <1>14 DEF FindQueue
<1>15. ASSUME NEW e \in Events, Enqueue(e) PROVE Lives' /\ MapHoldsOpenQueues' /\ Awaited'
  <2>1. evQ[e] \in Queues
    BY <1>15 DEF Enqueue, IInv, Stages
  <2> QED
    BY <1>t, <1>15, <2>1 DEF Enqueue, Accepts, TypeOK
<1>16. ASSUME NEW e \in Events, DispatchDirect(e) PROVE Lives' /\ MapHoldsOpenQueues' /\ Awaited'
  BY <1>t, <1>16 DEF DispatchDirect, FirstSlot
<1>17. ASSUME NEW e \in Events, CallReturns(e) PROVE Lives' /\ MapHoldsOpenQueues' /\ Awaited'
  BY <1>t, <1>17 DEF CallReturns
<1>18. ASSUME NEW e \in Events, ContextEnds(e) PROVE Lives' /\ MapHoldsOpenQueues' /\ Awaited'
  BY <1>t, <1>18 DEF ContextEnds
<1>19. ASSUME NEW q \in Queues, Receive(q) PROVE Lives' /\ MapHoldsOpenQueues' /\ Awaited'
  BY <1>t, <1>19 DEF Receive
<1>20. ASSUME NEW q \in Queues, ConsumerExit(q) PROVE Lives' /\ MapHoldsOpenQueues' /\ Awaited'
  BY <1>t, <1>20 DEF ConsumerExit
<1>21. ASSUME NEW q \in Queues, CheckAborted(q) PROVE Lives' /\ MapHoldsOpenQueues' /\ Awaited'
  BY <1>21, LivesMove DEF CheckAborted
<1>22. ASSUME NEW q \in Queues, ConsumerNext(q) PROVE Lives' /\ MapHoldsOpenQueues' /\ Awaited'
  BY <1>t, <1>22 DEF ConsumerNext, ItemDone
<1>23. ASSUME NEW e \in Events, AcquirePush(e) PROVE Lives' /\ MapHoldsOpenQueues' /\ Awaited'
  BY <1>t, <1>23 DEF AcquirePush
<1>24. ASSUME NEW e \in Events, AcquireTotal(e) PROVE Lives' /\ MapHoldsOpenQueues' /\ Awaited'
  BY <1>t, <1>24 DEF AcquireTotal
<1>25. ASSUME NEW e \in Events, DispatchCancelled(e) PROVE Lives' /\ MapHoldsOpenQueues' /\ Awaited'
  <2>1. CASE evQ[e] = None
    BY <1>t, <1>25, <2>1 DEF DispatchCancelled
  <2>2. CASE evQ[e] # None
    <3>1. evQ[e] \in Queues /\ cPc[evQ[e]] = "await"
      BY <1>t, <1>25, <2>2 DEF DispatchCancelled, IInv, Dispatched, InDispatch, TypeOK
    <3> QED
      BY <1>25, <2>2, <3>1, LivesMove DEF DispatchCancelled
  <2> QED
    BY <2>1, <2>2
<1>26. ASSUME NEW e \in Events, HandlerEnds(e) PROVE Lives' /\ MapHoldsOpenQueues' /\ Awaited'
  BY <1>t, <1>26 DEF HandlerEnds, FirstRelease
<1>27. ASSUME NEW e \in Events, ReleasePush(e) PROVE Lives' /\ MapHoldsOpenQueues' /\ Awaited'
  BY <1>t, <1>27 DEF ReleasePush
<1>28. ASSUME NEW e \in Events, ReleaseTotal(e) PROVE Lives' /\ MapHoldsOpenQueues' /\ Awaited'
  BY <1>t, <1>28 DEF ReleaseTotal
<1>29. ASSUME NEW e \in Events, WorkerDone(e) PROVE Lives' /\ MapHoldsOpenQueues' /\ Awaited'
  BY <1>t, <1>29 DEF WorkerDone
<1>30. CASE UNCHANGED vars
  BY <1>t, <1>30 DEF vars
<1> QED
  BY <1>1, <1>2, <1>3, <1>4, <1>5, <1>6, <1>7, <1>8, <1>9, <1>10, <1>11, <1>12, <1>13, <1>14, <1>15, <1>16, <1>17, <1>18, <1>19, <1>20, <1>21, <1>22, <1>23, <1>24, <1>25, <1>26, <1>27, <1>28, <1>29, <1>30
     DEF Next, Lifecycle, QueueAdmin, Caller, Consumer, Dispatch, Worker

-----------------------------------------------------------------------------
(***************************************************************************)
(* Preservation of the places of events                                    *)
(***************************************************************************)

Places == Stages /\ Channels /\ Consumers /\ Dispatched

PlaceTypes ==
  /\ evPc \in [Events -> EvStates] /\ evQ \in [Events -> Queues \cup {None}]
  /\ ch \in [Queues -> Seq(Events)]
  /\ cPc \in [Queues -> ConsumerStates] /\ cItem \in [Queues -> Events \cup {None}]
  /\ None \notin Queues /\ None \notin Events
  /\ Pushes \subseteq Events

LEMMA PlacesHere == IInv => Places /\ PlaceTypes
BY EventAssumption DEF IInv, TypeOK, Places, PlaceTypes, Events

LEMMA PlacesFrame ==
  ASSUME IInv, UNCHANGED <<evPc, evQ, ch, cPc, cItem>>
  PROVE  Places'
BY DEF IInv, Places, Stages, Channels, Consumers, Dispatched

\* an event that is in no queue yet moves, possibly to a queue it has found
LEMMA CallerMoves ==
  ASSUME IInv, NEW e \in Events, evPc[e] \in {"idle", "admitted"},
         NEW s \in EvStates \ {"queued", "taken", "discarded", "relPush"},
         s = "acqPush" => e \in Pushes,
         NEW q \in Queues \cup {None}, s \in {"idle", "admitted"} => q = None,
         q # None => s = "found", s = "found" => q # None,
         evPc' = [evPc EXCEPT ![e] = s], evQ' = [evQ EXCEPT ![e] = q],
         UNCHANGED <<ch, cPc, cItem>>
  PROVE  Places'
<1>1. Places /\ PlaceTypes
  BY PlacesHere
<1> USE <1>1 DEF PlaceTypes, Places
<1>2. Stages'
  BY DEF Stages
<1>3. Channels'
  <2>1. \A p \in Queues : \A i \in 1 .. Len(ch[p]) : ch[p][i] \in Events /\ ch[p][i] # e
    BY DEF Channels
  <2> QED
    BY <2>1 DEF Channels
<1>4. Consumers'
  BY DEF Consumers, InDispatch
<1>5. Dispatched'
  BY DEF Dispatched, InDispatch
<1> QED
  BY <1>2, <1>3, <1>4, <1>5

\* an event moves through dispatch and its worker
LEMMA WorkerMoves ==
  ASSUME IInv, NEW e \in Events, evPc[e] \in InDispatch,
         NEW s \in InDispatch \cup {"done"}, s \in {"acqPush", "relPush"} => e \in Pushes,
         evPc' = [evPc EXCEPT ![e] = s],
         UNCHANGED <<evQ, ch, cPc, cItem>>
  PROVE  Places'
<1>1. Places /\ PlaceTypes
  BY PlacesHere
<1> USE <1>1 DEF PlaceTypes, Places, InDispatch
<1>2. Stages'
  BY DEF Stages
<1>3. Channels'
  <2>1. \A p \in Queues : \A i \in 1 .. Len(ch[p]) : ch[p][i] \in Events /\ ch[p][i] # e
    BY DEF Channels
  <2> QED
    BY <2>1 DEF Channels
<1>4. Consumers'
  BY DEF Consumers
<1>5. Dispatched'
  BY DEF Dispatched
<1> QED
  BY <1>2, <1>3, <1>4, <1>5

\* a consumer that holds no event moves
LEMMA IdleConsumerMoves ==
  ASSUME IInv, NEW q \in Queues, cPc[q] \notin {"check", "await"},
         NEW s \in ConsumerStates \ {"check", "await"},
         cPc' = [cPc EXCEPT ![q] = s], UNCHANGED <<evPc, evQ, ch, cItem>>
  PROVE  Places'
<1>1. Places /\ PlaceTypes
  BY PlacesHere
<1> USE <1>1 DEF PlaceTypes, Places
<1>2. Stages' /\ Channels'
  BY DEF Stages, Channels
<1>3. Consumers'
  BY DEF Consumers
<1>4. Dispatched'
  BY DEF Dispatched
<1> QED
  BY <1>2, <1>3, <1>4

LEMMA EnqueuePlaces ==
  ASSUME IInv, NEW e \in Events, Enqueue(e)
  PROVE  Places'
<1>1. Places /\ PlaceTypes
  BY PlacesHere
<1> USE <1>1 DEF PlaceTypes, Places
<1> DEFINE q == evQ[e]
<1>2. q \in Queues /\ evPc[e] = "found"
  BY DEF Enqueue, Stages
<1>3. \A p \in Queues : \A i \in 1 .. Len(ch[p]) : ch[p][i] \in Events /\ ch[p][i] # e
  BY <1>2 DEF Channels
<1>4. CASE Accepts(q)
  <2>1. /\ evPc' = [evPc EXCEPT ![e] = "queued"]
        /\ ch' = [ch EXCEPT ![q] = Append(ch[q], e)]
        /\ UNCHANGED <<evQ, cPc, cItem>>
    BY <1>4 DEF Enqueue
  <2>2. /\ Len(ch'[q]) = Len(ch[q]) + 1 /\ ch'[q][Len(ch[q]) + 1] = e
        /\ Len(ch[q]) \in Nat
        /\ \A i \in 1 .. Len(ch[q]) : ch'[q][i] = ch[q][i]
        /\ \A p \in Queues \ {q} : ch'[p] = ch[p]
    BY <1>2, <2>1
  <2>3. Stages'
    <3> SUFFICES ASSUME NEW f \in Events, evPc'[f] = "queued"
                 PROVE  \E i \in 1 .. Len(ch'[evQ[f]]) : ch'[evQ[f]][i] = f
      BY <1>2, <2>1 DEF Stages
    <3>1. CASE f = e
      BY <2>2, <3>1
    <3>2. CASE f # e
      <4>1. evPc[f] = "queued"
        BY <2>1, <3>2
      <4>2. PICK i \in 1 .. Len(ch[evQ[f]]) : ch[evQ[f]][i] = f
        BY <4>1 DEF Stages
      <4>3. evQ[f] \in Queues
        BY <4>1 DEF Stages
      <4>4. i \in 1 .. Len(ch'[evQ[f]]) /\ ch'[evQ[f]][i] = f
        <5>1. CASE evQ[f] = q
          BY <2>2, <4>2, <5>1
        <5>2. CASE evQ[f] # q
          BY <2>2, <4>2, <4>3, <5>2
        <5> QED
          BY <5>1, <5>2
      <4> QED
        BY <2>1, <4>4
    <3> QED
      BY <3>1, <3>2
  <2>4. Channels'
    <3> SUFFICES ASSUME NEW p \in Queues, NEW i \in 1 .. Len(ch'[p])
                 PROVE  /\ evPc'[ch'[p][i]] = "queued"
                        /\ evQ'[ch'[p][i]] = p
                        /\ \A j \in 1 .. Len(ch'[p]) : ch'[p][i] = ch'[p][j] => i = j
      BY DEF Channels
    <3>1. CASE p # q
      BY <1>3, <2>1, <2>2, <3>1 DEF Channels
    <3>2. CASE p = q /\ i # Len(ch[q]) + 1
      BY <1>3, <2>1, <2>2, <3>2 DEF Channels
    <3>3. CASE p = q /\ i = Len(ch[q]) + 1
      BY <1>3, <2>1, <2>2, <3>3 DEF Channels
    <3> QED
      BY <3>1, <3>2, <3>3
  <2>5. Consumers'
    BY <1>2, <2>1 DEF Consumers, InDispatch
  <2>6. Dispatched'
    BY <1>2, <2>1 DEF Dispatched, InDispatch
  <2> QED
    BY <2>3, <2>4, <2>5, <2>6
<1>5. CASE ~Accepts(q)
  <2>1. /\ evPc' = [evPc EXCEPT ![e] = "refused"] /\ UNCHANGED <<evQ, ch, cPc, cItem>>
    BY <1>5 DEF Enqueue
  <2>2. Stages'
    BY <1>2, <2>1 DEF Stages
  <2>3. Channels'
    <3> SUFFICES ASSUME NEW p \in Queues, NEW i \in 1 .. Len(ch[p])
                 PROVE  /\ evPc'[ch[p][i]] = "queued"
                        /\ evQ[ch[p][i]] = p
                        /\ \A j \in 1 .. Len(ch[p]) : ch[p][i] = ch[p][j] => i = j
      BY <2>1 DEF Channels
    <3>1. /\ evPc[ch[p][i]] = "queued" /\ evQ[ch[p][i]] = p
          /\ \A j \in 1 .. Len(ch[p]) : ch[p][i] = ch[p][j] => i = j
      BY DEF Channels
    <3>2. ch[p][i] # e
      BY <1>2, <3>1
    <3> QED
      BY <1>3, <2>1, <3>1, <3>2
  <2>4. Consumers' /\ Dispatched'
    BY <1>2, <2>1 DEF Consumers, Dispatched, InDispatch
  <2> QED
    BY <2>2, <2>3, <2>4
<1> QED
  BY <1>4, <1>5

LEMMA ReceivePlaces ==
  ASSUME IInv, NEW q \in Queues, Receive(q)
  PROVE  Places'
<1>1. Places /\ PlaceTypes
  BY PlacesHere
<1> USE <1>1 DEF PlaceTypes, Places
<1> DEFINE e == Head(ch[q])
<1>2. /\ cPc[q] = "recv" /\ cItem' = [cItem EXCEPT ![q] = e]
      /\ ch' = [ch EXCEPT ![q] = Tail(ch[q])]
      /\ cPc' = [cPc EXCEPT ![q] = "check"]
      /\ evPc' = [evPc EXCEPT ![e] = "taken"]
      /\ UNCHANGED evQ
  BY DEF Receive
<1>3. /\ ch[q] # <<>> /\ Len(ch[q]) \in Nat \ {0} /\ e = ch[q][1]
  BY DEF Receive
<1>4. /\ e \in Events /\ evPc[e] = "queued" /\ evQ[e] = q
  BY <1>3 DEF Channels
<1>5. /\ Len(ch'[q]) = Len(ch[q]) - 1
      /\ \A i \in 1 .. Len(ch'[q]) : i + 1 \in 1 .. Len(ch[q]) /\ ch'[q][i] = ch[q][i + 1]
      /\ \A p \in Queues \ {q} : ch'[p] = ch[p]
  BY <1>2, <1>3
<1>6. /\ \A p \in Queues \ {q} : \A i \in 1 .. Len(ch[p]) : ch[p][i] \in Events \ {e}
      /\ \A i \in 1 .. Len(ch'[q]) : ch'[q][i] \in Events \ {e}
  <2>1. ASSUME NEW p \in Queues \ {q}, NEW i \in 1 .. Len(ch[p])
        PROVE  ch[p][i] \in Events \ {e}
    BY <1>4 DEF Channels
  <2>2. ASSUME NEW i \in 1 .. Len(ch'[q]) PROVE ch'[q][i] \in Events \ {e}
    <3>1. i + 1 \in 1 .. Len(ch[q]) /\ i + 1 # 1 /\ 1 \in 1 .. Len(ch[q])
      BY <1>3, <1>5, <2>2
    <3>2. ch[q][i + 1] # ch[q][1] /\ ch[q][i + 1] \in Events
      BY <3>1 DEF Channels
    <3> QED
      BY <1>3, <1>5, <2>2, <3>2
  <2> QED
    BY <2>1, <2>2
<1>7. Stages'
  <2>1. ASSUME NEW f \in Events, evPc'[f] = "queued"
        PROVE  \E i \in 1 .. Len(ch'[evQ[f]]) : ch'[evQ[f]][i] = f
    <3>1. f # e /\ evPc[f] = "queued" /\ evQ[f] \in Queues
      BY <1>2, <1>4, <2>1 DEF Stages
    <3>2. PICK i \in 1 .. Len(ch[evQ[f]]) : ch[evQ[f]][i] = f
      BY <3>1 DEF Stages
    <3>3. CASE evQ[f] = q
      <4>1. i # 1 /\ i - 1 \in 1 .. Len(ch'[q]) /\ (i - 1) + 1 = i
        BY <1>3, <1>5, <3>1, <3>2, <3>3
      <4>2. ch'[q][i - 1] = f
        BY <1>5, <3>2, <3>3, <4>1
      <4> QED
        BY <3>3, <4>1, <4>2
    <3>4. CASE evQ[f] # q
      BY <1>5, <3>1, <3>2, <3>4
    <3> QED
      BY <3>3, <3>4
  <2>2. ASSUME NEW f \in Events
        PROVE  /\ evPc'[f] \in {"acqPush", "relPush"} => f \in Pushes
               /\ evPc'[f] \in {"idle", "admitted"} => evQ'[f] = None
               /\ evPc'[f] \in {"found", "queued", "taken", "discarded"} => evQ'[f] \in Queues
    BY <1>2, <1>4 DEF Stages
  <2>3. evQ' = evQ
    BY <1>2
  <2> QED
    BY <2>1, <2>2, <2>3 DEF Stages
<1>8. Channels'
  <2> SUFFICES ASSUME NEW p \in Queues, NEW i \in 1 .. Len(ch'[p])
               PROVE  /\ evPc'[ch'[p][i]] = "queued"
                      /\ evQ'[ch'[p][i]] = p
                      /\ \A j \in 1 .. Len(ch'[p]) : ch'[p][i] = ch'[p][j] => i = j
    BY DEF Channels
  <2>1. CASE p # q
    BY <1>2, <1>5, <1>6, <2>1 DEF Channels
  <2>2. CASE p = q
    <3>1. evPc'[ch'[q][i]] = "queued" /\ evQ'[ch'[q][i]] = q
      BY <1>2, <1>5, <1>6, <2>2 DEF Channels
    <3>2. ASSUME NEW j \in 1 .. Len(ch'[q]), ch'[q][i] = ch'[q][j] PROVE i = j
      <4>1. /\ i + 1 \in 1 .. Len(ch[q]) /\ j + 1 \in 1 .. Len(ch[q])
            /\ ch[q][i + 1] = ch[q][j + 1]
        BY <1>5, <2>2, <3>2
      <4>2. i + 1 = j + 1
        BY <4>1 DEF Channels
      <4> QED
        BY <1>3, <1>5, <2>2, <4>2
    <3> QED
      BY <2>2, <3>1, <3>2
  <2> QED
    BY <2>1, <2>2
<1>9. Consumers'
  BY <1>2, <1>4 DEF Consumers, InDispatch
<1>10. Dispatched'
  BY <1>2, <1>4 DEF Dispatched, InDispatch
<1> QED
  BY <1>7, <1>8, <1>9, <1>10

\* a consumer lets go of its event, or takes it to dispatch
LEMMA ConsumerMoves ==
  ASSUME IInv, NEW q \in Queues, NEW t, NEW s \in EvStates, NEW i \in {cItem[q], None},
         \/ /\ cPc[q] = "check" /\ t = "recv" /\ i = None /\ s = "discarded"
         \/ /\ cPc[q] = "check" /\ t = "await" /\ i = cItem[q]
            /\ s = FirstSlot(cItem[q])
         \/ /\ cPc[q] = "await" /\ t = "recv" /\ i = None
            /\ s \in {"done", "failed"}
            /\ evPc[cItem[q]] # "done" => s = "failed"
            /\ evPc[cItem[q]] = "done" => s = "done",
         cPc' = [cPc EXCEPT ![q] = t], cItem' = [cItem EXCEPT ![q] = i],
         evPc' = [evPc EXCEPT ![cItem[q]] = s],
         UNCHANGED <<ch, evQ>>
  PROVE  Places'
<1>1. Places /\ PlaceTypes
  BY PlacesHere
<1> USE <1>1 DEF PlaceTypes, Places
<1> DEFINE e == cItem[q]
<1>2. e \in Events /\ evQ[e] = q /\ evPc[e] \in InDispatch \cup {"taken", "done"}
  BY DEF Consumers
<1>3. \A p \in Queues : \A j \in 1 .. Len(ch[p]) : ch[p][j] \in Events \ {e}
  BY <1>2 DEF Channels, InDispatch
<1>4. Stages'
  BY <1>2 DEF Stages, FirstSlot
<1>5. Channels'
  BY <1>2, <1>3 DEF Channels
<1>6. Consumers'
  BY <1>2 DEF Consumers, FirstSlot, InDispatch
<1>7. Dispatched'
  BY <1>2 DEF Dispatched, FirstSlot, InDispatch
<1> QED
  BY <1>4, <1>5, <1>6, <1>7

LEMMA PlacesPreserved == IInv /\ [Next]_vars => Places'
<1> SUFFICES ASSUME IInv, [Next]_vars PROVE Places'
  OBVIOUS
<1>t. Places /\ PlaceTypes
  BY PlacesHere
<1> USE DEF lifeVars, queueVars, poolVars, evVars, callVars
<1>1. CASE Lifecycle
  BY <1>1, PlacesFrame
     DEF Lifecycle, Start, StopBegin, StopAbortAll, StopAwaitQueues, StopShutdown
<1>2. CASE QueueAdmin
  <2>1. ASSUME NEW q \in Queues, NEW k, QueueCreateCheck(q, k) PROVE Places'
    BY <2>1, IdleConsumerMoves DEF QueueCreateCheck, ConsumerStates
  <2>2. ASSUME NEW q \in Queues, QueueCreate(q) PROVE Places'
    BY <2>2, IdleConsumerMoves DEF QueueCreate, ConsumerStates
  <2>3. ASSUME NEW q \in Queues, ApplyRelease(q) \/ ApplyAbort(q) PROVE Places'
    BY <2>3, PlacesFrame DEF ApplyRelease, ApplyAbort
  <2>4. ASSUME NEW k, QueueRelease(k) \/ QueueAbort(k) PROVE Places'
    BY <2>4, PlacesFrame DEF QueueRelease, QueueAbort, Detach
  <2> QED
    BY <1>2, <2>1, <2>2, <2>3, <2>4 DEF QueueAdmin
<1>3. ASSUME NEW e \in Events, Caller(e) PROVE Places'
  <2>q. evPc[e] \in {"idle", "admitted"} => evQ[e] = None /\ evQ = [evQ EXCEPT ![e] = None]
    BY <1>t DEF PlaceTypes, Places, Stages
  <2>1. ASSUME NEW k, Admit(e, k) PROVE Places'
    BY <2>1, <2>q, CallerMoves DEF Admit, EvStates
  <2>2. CASE NotStarted(e)
    BY <2>2, <2>q, CallerMoves DEF NotStarted, EvStates
  <2>3. CASE FindQueue(e)
    <3>1. evPc[e] = "admitted" /\ queues[evKey[e]] \in Queues \cup {None}
      BY <2>3 DEF FindQueue, IInv, TypeOK
    <3>2. CASE queues[evKey[e]] = None
      BY <2>3, <3>1, <3>2, CallerMoves DEF FindQueue, EvStates
    <3>3. CASE queues[evKey[e]] # None
      BY <2>3, <3>1, <3>3, CallerMoves DEF FindQueue, EvStates
    <3> QED
      BY <3>2, <3>3
  <2>4. CASE Enqueue(e)
    BY <2>4, EnqueuePlaces
  <2>5. CASE DispatchDirect(e)
    BY <2>5, <2>q, CallerMoves DEF DispatchDirect, FirstSlot, EvStates
  <2>6. CASE CallReturns(e)
    BY <2>6, PlacesFrame DEF CallReturns
  <2> QED
    BY <1>3, <2>1, <2>2, <2>3, <2>4, <2>5, <2>6 DEF Caller
<1>4. ASSUME NEW e \in Events, ContextEnds(e) PROVE Places'
  BY <1>4, PlacesFrame DEF ContextEnds
<1>5. ASSUME NEW q \in Queues, Consumer(q) PROVE Places'
  <2>1. CASE Receive(q)
    BY <2>1, ReceivePlaces
  <2>2. CASE ConsumerExit(q)
    BY <2>2, IdleConsumerMoves DEF ConsumerExit, ConsumerStates
  <2>3. CASE CheckAborted(q)
    <3>1. CASE qAborted[q]
      BY <2>3, <3>1, ConsumerMoves DEF CheckAborted, EvStates
    <3>2. CASE ~qAborted[q]
      <4>1. /\ cPc[q] = "check" /\ cPc' = [cPc EXCEPT ![q] = "await"]
            /\ cItem' = [cItem EXCEPT ![q] = cItem[q]]
            /\ evPc' = [evPc EXCEPT ![cItem[q]] = FirstSlot(cItem[q])]
            /\ UNCHANGED <<ch, evQ>>
        BY <1>t, <2>3, <3>2 DEF CheckAborted, PlaceTypes
      <4>2. FirstSlot(cItem[q]) \in EvStates
        BY DEF FirstSlot, EvStates
      <4> QED
        BY <4>1, <4>2, ConsumerMoves
    <3> QED
      BY <3>1, <3>2
  <2>4. CASE ConsumerNext(q)
    <3>1. cPc[q] = "await" /\ evPc[cItem[q]] = "done"
      BY <2>4 DEF ConsumerNext, ItemDone
    <3>2. evPc' = [evPc EXCEPT ![cItem[q]] = "done"]
      BY <1>t, <2>4, <3>1 DEF ConsumerNext, PlaceTypes, Places, Consumers
    <3> QED
      BY <2>4, <3>1, <3>2, ConsumerMoves DEF ConsumerNext, EvStates
  <2> QED
    BY <1>5, <2>1, <2>2, <2>3, <2>4 DEF Consumer
<1>6. ASSUME NEW e \in Events, Dispatch(e) \/ Worker(e) PROVE Places'
  <2>1. CASE DispatchCancelled(e)
    <3>1. CASE evQ[e] = None
      <4>1. /\ evPc[e] = "acqTotal" /\ evPc' = [evPc EXCEPT ![e] = "failed"]
            /\ UNCHANGED <<evQ, ch, cPc, cItem>>
        BY <2>1, <3>1 DEF DispatchCancelled
      <4>2. \A p \in Queues : \A j \in 1 .. Len(ch[p]) : ch[p][j] \in Events \ {e}
        BY <1>t, <4>1 DEF Places, PlaceTypes, Channels
      <4>3. Stages' /\ Channels'
        BY <1>t, <4>1, <4>2 DEF Places, PlaceTypes, Stages, Channels
      <4>4. Consumers' /\ Dispatched'
        BY <1>t, <3>1, <4>1 DEF Places, PlaceTypes, Consumers, Dispatched, InDispatch
      <4> QED
        BY <4>3, <4>4 DEF Places
    <3>2. CASE evQ[e] # None
      <4>1. /\ evPc[e] = "acqTotal" /\ evPc' = [evPc EXCEPT ![e] = "failed"]
            /\ cPc' = [cPc EXCEPT ![evQ[e]] = "recv"]
            /\ cItem' = [cItem EXCEPT ![evQ[e]] = None]
            /\ UNCHANGED <<evQ, ch>>
        BY <2>1, <3>2 DEF DispatchCancelled
      <4>2. evQ[e] \in Queues /\ cPc[evQ[e]] = "await" /\ cItem[evQ[e]] = e
        BY <1>t, <3>2, <4>1 DEF Places, PlaceTypes, Dispatched, InDispatch
      <4> QED
        BY <4>1, <4>2, ConsumerMoves DEF EvStates
    <3> QED
      BY <3>1, <3>2
  <2>2. CASE AcquirePush(e)
    BY <2>2, WorkerMoves DEF AcquirePush, InDispatch
  <2>3. CASE AcquireTotal(e)
    BY <2>3, WorkerMoves DEF AcquireTotal, InDispatch
  <2>4. CASE HandlerEnds(e)
    BY <2>4, WorkerMoves DEF HandlerEnds, FirstRelease, InDispatch
  <2>5. CASE ReleasePush(e)
    BY <2>5, WorkerMoves DEF ReleasePush, InDispatch
  <2>6. CASE ReleaseTotal(e)
    BY <2>6, WorkerMoves DEF ReleaseTotal, InDispatch
  <2>7. CASE WorkerDone(e)
    BY <2>7, WorkerMoves DEF WorkerDone, InDispatch
  <2> QED
    BY <1>6, <2>1, <2>2, <2>3, <2>4, <2>5, <2>6, <2>7 DEF Dispatch, Worker
<1>7. CASE UNCHANGED vars
  BY <1>7, PlacesFrame DEF vars
<1> QED
  BY <1>1, <1>2, <1>3, <1>4, <1>5, <1>6, <1>7 DEF Next

-----------------------------------------------------------------------------
(***************************************************************************)
(* The theorems                                                            *)
(***************************************************************************)

\* The invariant holds in every state of the bus.
THEOREM Invariance == Spec => []IInv
<1>1. IInv /\ [Next]_vars => IInv'
  BY TypePreserved, PlacesPreserved, LivesPreserved, SlotsPreserved DEF IInv, Places
<1> QED
  BY InitIInv, <1>1, PTL DEF Spec

\* Every variable keeps its type; that the semaphores and wait groups never go
\* below zero is the part that needs the invariant (worker.go, dispatch).
THEOREM TypeCorrect == Spec => []TypeOK
BY Invariance, PTL DEF IInv

\* Slots are counted exactly, however workers end (worker.go, dispatch).
THEOREM SlotsCorrect == Spec => []SlotAccounting
BY Invariance, PTL DEF IInv

\* The map holds only open queues with a consumer (queue.go, queueManager).
THEOREM MapCorrect == Spec => []MapHoldsOpenQueues
BY Invariance, PTL DEF IInv

\* No event is left behind in a queue whose consumer has gone (queue.go,
\* enqueue and release share eventQueue.mu).
THEOREM ExitedQueuesEmpty == Spec => []ExitedQueueIsEmpty
<1>1. IInv => ExitedQueueIsEmpty
  <2> SUFFICES ASSUME IInv, NEW q \in Queues, cPc[q] = "exited"
               PROVE  /\ ch[q] = <<>>
                      /\ \A e \in Events : evQ[e] = q =>
                           evPc[e] \in {"found", "done", "discarded", "failed", "refused"}
    BY DEF ExitedQueueIsEmpty
  <2>1. Places /\ PlaceTypes
    BY PlacesHere
  <2>2. ch[q] = <<>>
    BY DEF IInv, Lives
  <2>3. ASSUME NEW e \in Events, evQ[e] = q
        PROVE  evPc[e] \notin {"idle", "admitted", "queued", "taken"} \cup InDispatch
    <3>1. evPc[e] \notin {"idle", "admitted"}
      BY <2>1, <2>3 DEF Places, PlaceTypes, Stages
    <3>2. evPc[e] # "queued"
      BY <2>1, <2>2, <2>3 DEF Places, Stages
    <3>3. evPc[e] \notin {"taken"} \cup InDispatch
      BY <2>1, <2>3 DEF Places, PlaceTypes, Dispatched
    <3> QED
      BY <3>1, <3>2, <3>3
  <2> QED
    BY <2>1, <2>2, <2>3 DEF PlaceTypes, EvStates, InDispatch
<1> QED
  BY <1>1, Invariance, PTL

\* When Stop goes on to the pools, the queues it aborted are quiet (service.go,
\* Stop; queue.go, abortAll).
THEOREM StoppedQuiet == Spec => []StoppedQueuesQuiet
<1>1. IInv /\ ExitedQueueIsEmpty => StoppedQueuesQuiet
  BY DEF IInv, TypeOK, Awaited, ExitedQueueIsEmpty, StoppedQueuesQuiet
<1> QED
  BY <1>1, Invariance, ExitedQueuesEmpty, PTL

\* the semaphores are no larger than newWorkerPool made them
Limits == \A g \in Gens : semTotal[g] <= MaxWorkers /\ semPush[g] <= PushSlots

LEMMA LimitsInvariant == Spec => []Limits
<1>0. MaxWorkers \in Nat \ {0} /\ ReservedWorkers \in Nat
  BY LimitAssumption
<1>s. PushSlots \in Nat \ {0} /\ PushSlots <= MaxWorkers
  BY <1>0 DEF PushSlots
<1>1. Init => Limits
  BY <1>0, <1>s DEF Init, Limits
<1>2. Limits /\ IInv /\ IInv' /\ [Next]_vars => Limits'
  <2> SUFFICES ASSUME Limits, IInv, IInv', [Next]_vars PROVE Limits'
    OBVIOUS
  <2>t. /\ semTotal \in [Gens -> Nat] /\ semPush \in [Gens -> Nat]
        /\ evPool \in [Events -> Gens] /\ semTotal' \in [Gens -> Nat]
        /\ semPush' \in [Gens -> Nat]
    BY DEF IInv, TypeOK
  <2> USE DEF lifeVars, queueVars, poolVars, evVars, callVars, Limits
  <2>1. CASE UNCHANGED <<semTotal, semPush>>
    BY <2>1
  <2>2. ASSUME NEW e \in Events, AcquirePush(e) PROVE Limits'
    BY <1>s, <2>t, <2>2 DEF AcquirePush
  <2>3. ASSUME NEW e \in Events, AcquireTotal(e) PROVE Limits'
    BY <1>0, <2>t, <2>3 DEF AcquireTotal, TotalFree
  <2>4. ASSUME NEW e \in Events, ReleasePush(e) PROVE Limits'
    BY <1>s, <2>t, <2>4 DEF ReleasePush
  <2>5. ASSUME NEW e \in Events, ReleaseTotal(e) PROVE Limits'
    BY <1>0, <2>t, <2>5 DEF ReleaseTotal
  <2>6. CASE Lifecycle \/ QueueAdmin
    BY <2>1, <2>6
       DEF Lifecycle, Start, StopBegin, StopAbortAll, StopAwaitQueues, StopShutdown,
           QueueAdmin, QueueCreateCheck, QueueCreate, ApplyRelease, ApplyAbort,
           QueueRelease, QueueAbort, Detach
  <2>7. ASSUME NEW e \in Events, Caller(e) \/ ContextEnds(e) PROVE Limits'
    BY <2>1, <2>7
       DEF Caller, Admit, NotStarted, FindQueue, Enqueue, DispatchDirect,
           CallReturns, ContextEnds
  <2>8. ASSUME NEW q \in Queues, Consumer(q) PROVE Limits'
    BY <2>1, <2>8 DEF Consumer, Receive, ConsumerExit, CheckAborted, ConsumerNext
  <2>9. ASSUME NEW e \in Events, DispatchCancelled(e) \/ HandlerEnds(e) \/ WorkerDone(e)
        PROVE  Limits'
    BY <2>1, <2>9 DEF DispatchCancelled, HandlerEnds, WorkerDone
  <2>10. CASE UNCHANGED vars
    BY <2>1, <2>10 DEF vars
  <2> QED
    BY <2>2, <2>3, <2>4, <2>5, <2>6, <2>7, <2>8, <2>9, <2>10
       DEF Next, Dispatch, Worker
<1> QED
  BY <1>1, <1>2, Invariance, PTL DEF Spec

\* A pool never runs more handlers than MaxWorkers, nor more for Push than its
\* share (worker.go, workerPool).
THEOREM WorkersBounded == Spec => []WorkerBound
<1>1. IInv /\ Limits => WorkerBound
  <2> SUFFICES ASSUME IInv, Limits, NEW g \in Gens
      PROVE LET running == {e \in Events : evPool[e] = g /\ evPc[e] = "handling"} IN
            /\ Cardinality(running) <= MaxWorkers
            /\ Cardinality(running \cap Pushes) <= PushSlots
    BY DEF WorkerBound
  <2> DEFINE running == {e \in Events : evPool[e] = g /\ evPc[e] = "handling"}
  <2>1. running \subseteq TotalHolders(g) /\ running \cap Pushes \subseteq PushHolders(g)
    BY DEF TotalHolders, PushHolders, HasTotal, HasPush
  <2>2. /\ Cardinality(running) <= Cardinality(TotalHolders(g))
        /\ Cardinality(running \cap Pushes) <= Cardinality(PushHolders(g))
        /\ Cardinality(running) \in Nat /\ Cardinality(running \cap Pushes) \in Nat
    BY <2>1, HoldersFinite, FS_Subset, FS_CardinalityType
  <2>3. /\ Cardinality(TotalHolders(g)) <= MaxWorkers
        /\ Cardinality(PushHolders(g)) <= PushSlots
    BY DEF IInv, SlotAccounting, Limits
  <2>4. MaxWorkers \in Nat /\ PushSlots \in Int
    BY LimitAssumption DEF PushSlots
  <2> QED
    BY <2>2, <2>3, <2>4, HoldersFinite
<1> QED
  BY <1>1, Invariance, LimitsInvariant, PTL

\* A Call is only ever kept from its reserved share by a worker that is on its
\* way out (worker.go, ReservedWorkers).
THEOREM ReservationKept == Spec => []CallReservation
<1>1. IInv /\ Limits => CallReservation
  <2> SUFFICES ASSUME IInv, Limits, ReservedWorkers < MaxWorkers, NEW g \in Gens,
                      semTotal[g] = MaxWorkers,
                      Cardinality(TotalHolders(g) \cap Calls) < ReservedWorkers,
                      \A e \in TotalHolders(g) : evPc[e] # "relTotal"
               PROVE  FALSE
    BY DEF CallReservation
  <2> DEFINE C == TotalHolders(g) \cap Calls
             P == TotalHolders(g) \cap Pushes
  <2>1. TotalHolders(g) = C \cup P /\ C \cap P = {}
    BY EventAssumption DEF TotalHolders, Events
  <2>2. P \subseteq PushHolders(g)
    BY DEF TotalHolders, PushHolders, HasTotal, HasPush
  <2>3. /\ IsFiniteSet(C) /\ Cardinality(C) \in Nat
        /\ IsFiniteSet(P) /\ Cardinality(P) \in Nat
    BY HoldersFinite, FS_Subset, FS_CardinalityType
  <2> HIDE DEF C, P
  <2>4. Cardinality(TotalHolders(g)) = Cardinality(C) + Cardinality(P)
    <3>1. Cardinality(C \cup P) = Cardinality(C) + Cardinality(P) - Cardinality(C \cap P)
      BY <2>3, FS_Union
    <3>2. Cardinality(C \cap P) = 0
      BY <2>1, FS_EmptySet
    <3> QED
      BY <2>1, <2>3, <3>1, <3>2
  <2>5. Cardinality(P) <= Cardinality(PushHolders(g))
    BY <2>2, HoldersFinite, FS_Subset
  <2>6. /\ Cardinality(PushHolders(g)) <= PushSlots
        /\ Cardinality(TotalHolders(g)) = MaxWorkers
    BY DEF IInv, SlotAccounting, Limits
  <2>7. MaxWorkers \in Nat /\ ReservedWorkers \in Nat
        /\ PushSlots = MaxWorkers - ReservedWorkers
    BY LimitAssumption DEF PushSlots
  <2> QED
    BY <2>3, <2>4, <2>5, <2>6, <2>7, HoldersFinite DEF C
<1> QED
  BY <1>1, Invariance, LimitsInvariant, PTL

=============================================================================
