------------------------- MODULE EventBusRefinement -------------------------
(***************************************************************************)
(* Proof that EventBus implements SerialQueue: whatever Push, Call,        *)
(* release, abort, Start and Stop do, each queue handles its events one at *)
(* a time in the order it accepted them, drains when it is released and    *)
(* drops what it holds when it is aborted.                                 *)
(***************************************************************************)
EXTENDS EventBusProofs, SequenceTheorems

\* a sequence with one element put in front of it
LEMMA InFront ==
  ASSUME NEW S, NEW s \in Seq(S), NEW x \in S
  PROVE  /\ <<x>> \o s \in Seq(S) /\ <<x>> \o s # <<>>
         /\ Head(<<x>> \o s) = x
         /\ Tail(<<x>> \o s) = s
         /\ \A y \in S : Append(<<x>> \o s, y) = <<x>> \o Append(s, y)
<1>1. /\ <<x>> \in Seq(S) /\ Len(<<x>>) = 1 /\ <<x>>[1] = x /\ Len(s) \in Nat
  OBVIOUS
<1>2. /\ <<x>> \o s \in Seq(S) /\ Len(<<x>> \o s) = 1 + Len(s)
      /\ \A i \in 1 .. 1 + Len(s) : (<<x>> \o s)[i] = IF i <= 1 THEN x ELSE s[i - 1]
  BY <1>1, ConcatProperties
<1>3. <<x>> \o s # <<>>
  BY <1>1, <1>2
<1>4. Head(<<x>> \o s) = x
  BY <1>1, <1>2, <1>3
<1>5. Tail(<<x>> \o s) = s
  <2>1. /\ Tail(<<x>> \o s) \in Seq(S) /\ Len(Tail(<<x>> \o s)) = Len(s)
        /\ \A i \in 1 .. Len(s) : Tail(<<x>> \o s)[i] = (<<x>> \o s)[i + 1]
    BY <1>1, <1>2, <1>3, HeadTailProperties
  <2>2. \A i \in 1 .. Len(s) : (<<x>> \o s)[i + 1] = s[i]
    BY <1>1, <1>2
  <2> QED
    BY <2>1, <2>2, SeqEqual
<1>6. ASSUME NEW y \in S PROVE Append(<<x>> \o s, y) = <<x>> \o Append(s, y)
  <2>1. /\ Append(<<x>> \o s, y) = (<<x>> \o s) \o <<y>>
        /\ Append(s, y) = s \o <<y>>
    BY <1>2, AppendIsConcat
  <2>2. <<y>> \in Seq(S)
    OBVIOUS
  <2> QED
    BY <1>1, <2>1, <2>2, ConcatAssociative
<1> QED
  BY <1>2, <1>3, <1>4, <1>5, <1>6

LEMMA HeadInFront ==
  ASSUME NEW S, NEW s \in Seq(S), s # <<>>
  PROVE  <<Head(s)>> \o Tail(s) = s
<1>1. /\ Head(s) \in S /\ Tail(s) \in Seq(S) /\ Len(Tail(s)) = Len(s) - 1
      /\ Head(s) = s[1] /\ Len(s) \in Nat \ {0}
      /\ \A i \in 1 .. Len(s) - 1 : Tail(s)[i] = s[i + 1]
  BY HeadTailProperties
<1>2. /\ <<Head(s)>> \in Seq(S) /\ Len(<<Head(s)>>) = 1 /\ <<Head(s)>>[1] = Head(s)
  BY <1>1
<1>3. /\ <<Head(s)>> \o Tail(s) \in Seq(S)
      /\ Len(<<Head(s)>> \o Tail(s)) = Len(s)
      /\ \A i \in 1 .. Len(s) :
           (<<Head(s)>> \o Tail(s))[i] = IF i <= 1 THEN Head(s) ELSE Tail(s)[i - 1]
  BY <1>1, <1>2, ConcatProperties
<1>4. \A i \in 1 .. Len(s) : (<<Head(s)>> \o Tail(s))[i] = s[i]
  <2> SUFFICES ASSUME NEW i \in 1 .. Len(s) PROVE (<<Head(s)>> \o Tail(s))[i] = s[i]
    OBVIOUS
  <2>1. CASE i = 1
    BY <1>1, <1>3, <2>1
  <2>2. CASE i # 1
    <3>1. i - 1 \in 1 .. Len(s) - 1 /\ (i - 1) + 1 = i
      BY <1>1, <2>2
    <3>2. Tail(s)[i - 1] = s[(i - 1) + 1]
      BY <1>1, <3>1
    <3> QED
      BY <1>1, <1>3, <2>2, <3>1, <3>2
  <2> QED
    BY <2>1, <2>2
<1> QED
  BY <1>3, <1>4, SeqEqual

-----------------------------------------------------------------------------

Views == <<ModeView, PendingView, ActiveView, StageView>>

\* the steps no user of a queue can see
LEMMA ViewFrame ==
  ASSUME UNCHANGED <<qReleased, qAborted, ch, cItem>>,
         \A q \in Queues : /\ cPc'[q] = "check" <=> cPc[q] = "check"
                           /\ cPc'[q] = "await" <=> cPc[q] = "await",
         \A q \in Queues : cPc[q] = "await" => StageOf(cItem[q])' = StageOf(cItem[q])
  PROVE  UNCHANGED Views
BY DEF Views, ModeView, PendingView, ActiveView, StageView

LEMMA InitView == IInv /\ Init => Promise!Init
BY DEF Init, Promise!Init, ModeView, PendingView, ActiveView, StageView

LEMMA EnqueueView ==
  ASSUME IInv, NEW e \in Events, Enqueue(e)
  PROVE  (\E q \in Queues : Promise!Accept(q, e)) \/ UNCHANGED Views
<1>1. Places /\ PlaceTypes
  BY PlacesHere
<1> DEFINE q == evQ[e]
<1>2. q \in Queues /\ evPc[e] = "found"
  BY <1>1 DEF Enqueue, Places, PlaceTypes, Stages
<1>3. ASSUME NEW p \in Queues, cPc[p] = "await"
      PROVE  cItem[p] \in Events \ {e}
  BY <1>1, <1>2, <1>3 DEF Places, PlaceTypes, Consumers, InDispatch
<1>4. CASE ~Accepts(q)
  <2>1. UNCHANGED <<qReleased, qAborted, ch, cItem, cPc>>
        /\ evPc' = [evPc EXCEPT ![e] = "refused"]
    BY <1>4 DEF Enqueue
  <2> QED
    BY <1>1, <1>3, <2>1, ViewFrame DEF StageOf, PlaceTypes
<1>5. CASE Accepts(q)
  <2>1. /\ UNCHANGED <<qReleased, qAborted, cItem, cPc>>
        /\ ch' = [ch EXCEPT ![q] = Append(ch[q], e)]
        /\ evPc' = [evPc EXCEPT ![e] = "queued"]
        /\ ~qReleased[q] /\ ~qAborted[q]
    BY <1>2, <1>5 DEF Enqueue, Accepts, IInv, Lives
  <2>2. UNCHANGED <<ModeView, ActiveView, StageView>>
    BY <1>1, <1>3, <2>1 DEF ModeView, ActiveView, StageView, StageOf, PlaceTypes
  <2>3. PendingView'[q] = Append(PendingView[q], e)
    <3>1. CASE cPc[q] = "check"
      <4>1. cItem[q] \in Events /\ ch[q] \in Seq(Events)
        BY <1>1, <1>2, <3>1 DEF Places, PlaceTypes, Consumers
      <4>2. Append(<<cItem[q]>> \o ch[q], e) = <<cItem[q]>> \o Append(ch[q], e)
        BY <4>1, InFront
      <4> QED
        BY <1>1, <1>2, <2>1, <3>1, <4>2 DEF PendingView, PlaceTypes
    <3>2. CASE cPc[q] # "check"
      BY <1>1, <1>2, <2>1, <3>2 DEF PendingView, PlaceTypes
    <3> QED
      BY <3>1, <3>2
  <2>4. \A p \in Queues \ {q} : PendingView'[p] = PendingView[p]
    BY <2>1 DEF PendingView
  <2>5. PendingView' = [PendingView EXCEPT ![q] = Append(@, e)]
    BY <1>2, <2>3, <2>4 DEF PendingView
  <2>6. ModeView[q] = "open"
    BY <1>2, <2>1 DEF ModeView
  <2> QED
    BY <1>2, <2>2, <2>5, <2>6 DEF Promise!Accept
<1> QED
  BY <1>4, <1>5

LEMMA ReceiveView ==
  ASSUME IInv, NEW q \in Queues, Receive(q)
  PROVE  UNCHANGED Views
<1>1. Places /\ PlaceTypes
  BY PlacesHere
<1>2. /\ cPc[q] = "recv" /\ ch[q] # <<>>
      /\ cItem' = [cItem EXCEPT ![q] = Head(ch[q])]
      /\ ch' = [ch EXCEPT ![q] = Tail(ch[q])]
      /\ cPc' = [cPc EXCEPT ![q] = "check"]
      /\ evPc' = [evPc EXCEPT ![Head(ch[q])] = "taken"]
      /\ UNCHANGED <<qReleased, qAborted>>
  BY DEF Receive, queueVars
<1>3. Head(ch[q]) \in Events /\ evPc[Head(ch[q])] = "queued"
  BY <1>1, <1>2 DEF Places, PlaceTypes, Channels
<1>4. ASSUME NEW p \in Queues, cPc[p] = "await"
      PROVE  p # q /\ cItem[p] \in Events \ {Head(ch[q])}
  BY <1>1, <1>2, <1>3, <1>4 DEF Places, PlaceTypes, Consumers, InDispatch
<1>5. UNCHANGED <<ModeView, ActiveView, StageView>>
  BY <1>1, <1>2, <1>3, <1>4
     DEF ModeView, ActiveView, StageView, StageOf, PlaceTypes
<1>6. PendingView' = PendingView
  <2>1. <<Head(ch[q])>> \o Tail(ch[q]) = ch[q]
    BY <1>1, <1>2, HeadInFront DEF PlaceTypes
  <2>2. PendingView'[q] = PendingView[q]
    BY <1>1, <1>2, <2>1 DEF PendingView, PlaceTypes
  <2>3. \A p \in Queues \ {q} : PendingView'[p] = PendingView[p]
    BY <1>1, <1>2 DEF PendingView, PlaceTypes
  <2> QED
    BY <2>2, <2>3 DEF PendingView
<1> QED
  BY <1>5, <1>6 DEF Views

LEMMA CheckView ==
  ASSUME IInv, NEW q \in Queues, CheckAborted(q)
  PROVE  Promise!Drop(q) \/ Promise!Begin(q)
<1>1. Places /\ PlaceTypes
  BY PlacesHere
<1> DEFINE e == cItem[q]
<1>2. /\ cPc[q] = "check" /\ e \in Events /\ evPc[e] = "taken" /\ ch[q] \in Seq(Events)
      /\ UNCHANGED <<qReleased, qAborted, ch>>
  BY <1>1 DEF CheckAborted, queueVars, Places, PlaceTypes, Consumers
<1>3. /\ PendingView[q] = <<e>> \o ch[q] /\ PendingView[q] # <<>>
      /\ Head(PendingView[q]) = e /\ Tail(PendingView[q]) = ch[q]
      /\ ActiveView[q] = None
  <2>1. PendingView[q] = <<e>> \o ch[q] /\ ActiveView[q] = None
    BY <1>2 DEF PendingView, ActiveView
  <2>2. <<e>> \o ch[q] # <<>> /\ Head(<<e>> \o ch[q]) = e /\ Tail(<<e>> \o ch[q]) = ch[q]
    BY <1>2, InFront
  <2> QED
    BY <2>1, <2>2
<1>4. ASSUME NEW p \in Queues, cPc[p] = "await"
      PROVE  p # q /\ cItem[p] \in Events \ {e}
  BY <1>1, <1>2, <1>4 DEF Places, PlaceTypes, Consumers, InDispatch
<1>5. ModeView' = ModeView
  BY <1>2 DEF ModeView
<1>6. CASE qAborted[q]
  <2>1. /\ cPc' = [cPc EXCEPT ![q] = "recv"] /\ cItem' = [cItem EXCEPT ![q] = None]
        /\ evPc' = [evPc EXCEPT ![e] = "discarded"]
    BY <1>6 DEF CheckAborted
  <2>2. PendingView' = [PendingView EXCEPT ![q] = Tail(@)]
    BY <1>1, <1>2, <1>3, <2>1 DEF PendingView, PlaceTypes
  <2>3. UNCHANGED <<ActiveView, StageView>>
    BY <1>1, <1>2, <1>4, <2>1 DEF ActiveView, StageView, StageOf, PlaceTypes
  <2>4. ModeView[q] = "aborted"
    BY <1>6 DEF ModeView
  <2> QED
    BY <1>3, <1>5, <2>2, <2>3, <2>4 DEF Promise!Drop
<1>7. CASE ~qAborted[q]
  <2>1. /\ cPc' = [cPc EXCEPT ![q] = "await"] /\ cItem' = cItem
        /\ evPc' = [evPc EXCEPT ![e] = FirstSlot(e)]
    BY <1>7 DEF CheckAborted
  <2>2. PendingView' = [PendingView EXCEPT ![q] = Tail(@)]
    BY <1>1, <1>2, <1>3, <2>1 DEF PendingView, PlaceTypes
  <2>3. ActiveView' = [ActiveView EXCEPT ![q] = Head(PendingView[q])]
    BY <1>1, <1>2, <1>3, <2>1 DEF ActiveView, PlaceTypes
  <2>4. StageView' = [StageView EXCEPT ![q] = "ready"]
    <3>1. evPc'[e] \in {"acqPush", "acqTotal"} /\ cPc'[q] = "await" /\ cItem'[q] = e
      BY <1>1, <1>2, <2>1 DEF FirstSlot, PlaceTypes
    <3>2. StageView'[q] = "ready"
      BY <3>1 DEF StageView, StageOf
    <3>3. \A p \in Queues \ {q} : StageView'[p] = StageView[p]
      BY <1>1, <1>2, <1>4, <2>1 DEF StageView, StageOf, PlaceTypes
    <3> QED
      BY <3>2, <3>3 DEF StageView
  <2>5. ModeView[q] # "aborted"
    BY <1>7 DEF ModeView
  <2> QED
    BY <1>3, <1>5, <2>2, <2>3, <2>4, <2>5 DEF Promise!Begin
<1> QED
  BY <1>6, <1>7

\* what a move of an event's worker looks like from its queue
LEMMA WorkerView ==
  ASSUME IInv, NEW e \in Events, evPc[e] \in InDispatch,
         NEW s \in InDispatch \cup {"done"}, evPc' = [evPc EXCEPT ![e] = s],
         UNCHANGED <<qReleased, qAborted, ch, cItem, cPc, evQ>>,
         \/ evPc[e] = "acqPush" /\ s = "acqTotal"
         \/ evPc[e] = "acqTotal" /\ s = "handling"
         \/ evPc[e] = "handling" /\ s \in {"relPush", "relTotal"}
         \/ evPc[e] \in {"relPush", "relTotal", "wgDone"}
            /\ s \in {"relTotal", "wgDone", "done"}
  PROVE  \/ UNCHANGED Views
         \/ \E q \in Queues : Promise!Handle(q) \/ Promise!HandlerOver(q)
<1>1. Places /\ PlaceTypes
  BY PlacesHere
<1> DEFINE q == evQ[e]
<1>2. CASE evQ[e] = None \/ StageOf(e)' = StageOf(e)
  <2>1. ASSUME NEW p \in Queues, cPc[p] = "await"
        PROVE  StageOf(cItem[p])' = StageOf(cItem[p])
    <3>1. cItem[p] \in Events /\ evQ[cItem[p]] = p
      BY <1>1, <2>1 DEF Places, Consumers
    <3>2. CASE cItem[p] = e
      BY <1>1, <1>2, <3>1, <3>2 DEF PlaceTypes, StageOf
    <3>3. CASE cItem[p] # e
      BY <1>1, <3>1, <3>3 DEF PlaceTypes, StageOf
    <3> QED
      BY <3>2, <3>3
  <2> QED
    BY <2>1, ViewFrame
<1>3. CASE evQ[e] # None /\ StageOf(e)' # StageOf(e)
  <2>1. q \in Queues /\ cPc[q] = "await" /\ cItem[q] = e
    BY <1>1, <1>3 DEF Places, PlaceTypes, Dispatched
  <2>2. UNCHANGED <<ModeView, PendingView, ActiveView>>
    BY DEF ModeView, PendingView, ActiveView
  <2>3. ASSUME NEW p \in Queues \ {q} PROVE StageView'[p] = StageView[p]
    <3>1. CASE cPc[p] = "await"
      <4>1. cItem[p] \in Events \ {e}
        BY <1>1, <2>3, <3>1 DEF Places, Consumers
      <4> QED
        BY <1>1, <3>1, <4>1 DEF PlaceTypes, StageView, StageOf
    <3>2. CASE cPc[p] # "await"
      BY <3>2 DEF StageView
    <3> QED
      BY <3>1, <3>2
  <2>4. /\ StageView[q] = StageOf(e)
        /\ StageView' = [StageView EXCEPT ![q] = StageOf(e)']
    BY <2>1, <2>3 DEF StageView
  <2>5. evPc'[e] = s
    BY <1>1 DEF PlaceTypes
  <2>6. CASE evPc[e] = "acqTotal" /\ s = "handling"
    <3>1. StageOf(e) = "ready" /\ StageOf(e)' = "handling"
      BY <2>5, <2>6 DEF StageOf
    <3> QED
      BY <2>1, <2>2, <2>4, <3>1 DEF Promise!Handle
  <2>7. CASE evPc[e] = "handling" /\ s \in {"relPush", "relTotal"}
    <3>1. StageOf(e) = "handling" /\ StageOf(e)' = "over"
      BY <2>5, <2>7 DEF StageOf
    <3> QED
      BY <2>1, <2>2, <2>4, <3>1 DEF Promise!HandlerOver
  <2> QED
    BY <1>3, <2>5, <2>6, <2>7 DEF StageOf
<1> QED
  BY <1>2, <1>3

\* a consumer that has finished with its event
LEMMA EndView ==
  ASSUME IInv, NEW q \in Queues, cPc[q] = "await",
         evPc[cItem[q]] \in {"acqTotal", "done"},
         cPc' = [cPc EXCEPT ![q] = "recv"], cItem' = [cItem EXCEPT ![q] = None],
         \A f \in Events : f # cItem[q] => evPc'[f] = evPc[f],
         UNCHANGED <<qReleased, qAborted, ch>>
  PROVE  Promise!End(q)
<1>1. Places /\ PlaceTypes
  BY PlacesHere
<1>2. UNCHANGED <<ModeView, PendingView>>
  BY <1>1 DEF ModeView, PendingView, PlaceTypes
<1>3. ActiveView' = [ActiveView EXCEPT ![q] = None]
  BY <1>1 DEF ActiveView, PlaceTypes
<1>4. StageView[q] \in {"ready", "over"}
  BY DEF StageView, StageOf
<1>5. StageView' = [StageView EXCEPT ![q] = "none"]
  <2>1. ASSUME NEW p \in Queues \ {q} PROVE StageView'[p] = StageView[p]
    <3>1. cPc[p] = "await" => cItem[p] \in Events /\ cItem[p] # cItem[q]
      BY <1>1, <2>1 DEF Places, Consumers
    <3> QED
      BY <1>1, <2>1, <3>1 DEF PlaceTypes, StageView, StageOf
  <2>2. StageView'[q] = "none"
    BY <1>1 DEF PlaceTypes, StageView
  <2> QED
    BY <2>1, <2>2 DEF StageView
<1> QED
  BY <1>2, <1>3, <1>4, <1>5 DEF Promise!End

LEMMA StepView == IInv /\ [Next]_vars => [Promise!Next]_Views
<1> SUFFICES ASSUME IInv, [Next]_vars PROVE Promise!Next \/ UNCHANGED Views
  OBVIOUS
<1>t. Places /\ PlaceTypes
  BY PlacesHere
<1> USE DEF lifeVars, queueVars, poolVars, evVars, callVars
<1>1. CASE Lifecycle
  BY <1>1, ViewFrame
     DEF Lifecycle, Start, StopBegin, StopAbortAll, StopAwaitQueues, StopShutdown,
         StageOf
<1>2. CASE QueueAdmin
  <2>1. ASSUME NEW q \in Queues, NEW k, QueueCreateCheck(q, k) PROVE UNCHANGED Views
    BY <1>t, <2>1, ViewFrame DEF QueueCreateCheck, StageOf, PlaceTypes
  <2>2. ASSUME NEW q \in Queues, QueueCreate(q) PROVE UNCHANGED Views
    BY <1>t, <2>2, ViewFrame DEF QueueCreate, StageOf, PlaceTypes
  <2>3. ASSUME NEW q \in Queues, ApplyRelease(q) PROVE Promise!Close(q, "draining")
    <3>1. ~qReleased[q] /\ ~qAborted[q]
      BY <2>3 DEF ApplyRelease, IInv, Lives
    <3>2. UNCHANGED <<PendingView, ActiveView, StageView>> /\ ModeView[q] = "open"
      BY <2>3, <3>1 DEF ApplyRelease, PendingView, ActiveView, StageView, StageOf, ModeView
    <3>3. ModeView' = [ModeView EXCEPT ![q] = "draining"]
      BY <2>3, <3>1 DEF ApplyRelease, ModeView, IInv, TypeOK
    <3> QED
      BY <3>2, <3>3 DEF Promise!Close
  <2>4. ASSUME NEW q \in Queues, ApplyAbort(q) PROVE Promise!Close(q, "aborted")
    <3>1. ~qReleased[q] /\ ~qAborted[q]
      BY <2>4 DEF ApplyAbort, IInv, Lives
    <3>2. UNCHANGED <<PendingView, ActiveView, StageView>> /\ ModeView[q] = "open"
      BY <2>4, <3>1 DEF ApplyAbort, PendingView, ActiveView, StageView, StageOf, ModeView
    <3>3. ModeView' = [ModeView EXCEPT ![q] = "aborted"]
      BY <2>4, <3>1 DEF ApplyAbort, ModeView, IInv, TypeOK
    <3> QED
      BY <3>2, <3>3 DEF Promise!Close
  <2>5. ASSUME NEW k, QueueRelease(k) \/ QueueAbort(k) PROVE UNCHANGED Views
    BY <2>5, ViewFrame DEF QueueRelease, QueueAbort, Detach, StageOf
  <2> QED
    BY <1>2, <2>1, <2>2, <2>3, <2>4, <2>5 DEF QueueAdmin, Promise!Next
<1>3. ASSUME NEW e \in Events, Caller(e) PROVE Promise!Next \/ UNCHANGED Views
  <2>1. CASE Enqueue(e)
    BY <2>1, EnqueueView DEF Promise!Next
  <2>2. CASE CallReturns(e)
    BY <2>2, ViewFrame DEF CallReturns, StageOf
  <2>3. ASSUME evPc[e] \in {"idle", "admitted"}, UNCHANGED queueVars,
               \A f \in Events : f # e => evPc'[f] = evPc[f]
        PROVE  UNCHANGED Views
    <3>1. ASSUME NEW p \in Queues, cPc[p] = "await" PROVE cItem[p] \in Events \ {e}
      BY <1>t, <2>3, <3>1 DEF Places, PlaceTypes, Consumers, InDispatch
    <3> QED
      BY <2>3, <3>1, ViewFrame DEF StageOf
  <2>4. ASSUME NEW k, Admit(e, k) PROVE UNCHANGED Views
    BY <1>t, <2>3, <2>4 DEF Admit, PlaceTypes
  <2>5. CASE NotStarted(e) \/ FindQueue(e) \/ DispatchDirect(e)
    BY <1>t, <2>3, <2>5 DEF NotStarted, FindQueue, DispatchDirect, PlaceTypes
  <2> QED
    BY <1>3, <2>1, <2>2, <2>4, <2>5 DEF Caller
<1>4. ASSUME NEW e \in Events, ContextEnds(e) PROVE UNCHANGED Views
  BY <1>4, ViewFrame DEF ContextEnds, StageOf
<1>5. ASSUME NEW q \in Queues, Consumer(q) PROVE Promise!Next \/ UNCHANGED Views
  <2>1. CASE Receive(q)
    BY <2>1, ReceiveView
  <2>2. CASE ConsumerExit(q)
    BY <1>t, <2>2, ViewFrame DEF ConsumerExit, StageOf, PlaceTypes
  <2>3. CASE CheckAborted(q)
    BY <2>3, CheckView DEF Promise!Next
  <2>4. CASE ConsumerNext(q)
    BY <2>4, EndView DEF ConsumerNext, ItemDone, Promise!Next
  <2> QED
    BY <1>5, <2>1, <2>2, <2>3, <2>4 DEF Consumer
<1>6. ASSUME NEW e \in Events, Dispatch(e) \/ Worker(e)
      PROVE  Promise!Next \/ UNCHANGED Views
  <2>1. CASE DispatchCancelled(e)
    <3>1. evPc[e] = "acqTotal" /\ evPc' = [evPc EXCEPT ![e] = "failed"]
      BY <2>1 DEF DispatchCancelled
    <3>2. CASE evQ[e] = None
      <4>1. ASSUME NEW p \in Queues, cPc[p] = "await" PROVE cItem[p] \in Events \ {e}
        BY <1>t, <3>2, <4>1 DEF Places, PlaceTypes, Consumers
      <4> QED
        BY <1>t, <2>1, <3>1, <3>2, <4>1, ViewFrame DEF DispatchCancelled, StageOf, PlaceTypes
    <3>3. CASE evQ[e] # None
      <4>1. evQ[e] \in Queues /\ cPc[evQ[e]] = "await" /\ cItem[evQ[e]] = e
        BY <1>t, <3>1, <3>3 DEF Places, PlaceTypes, Dispatched, InDispatch
      <4>2. Promise!End(evQ[e])
        BY <1>t, <2>1, <3>1, <3>3, <4>1, EndView DEF DispatchCancelled, PlaceTypes
      <4> QED
        BY <4>1, <4>2 DEF Promise!Next
    <3> QED
      BY <3>2, <3>3
  <2>2. CASE AcquirePush(e)
    BY <2>2, WorkerView DEF AcquirePush, InDispatch, Promise!Next
  <2>3. CASE AcquireTotal(e)
    BY <2>3, WorkerView DEF AcquireTotal, InDispatch, Promise!Next
  <2>4. CASE HandlerEnds(e)
    BY <2>4, WorkerView DEF HandlerEnds, FirstRelease, InDispatch, Promise!Next
  <2>5. CASE ReleasePush(e)
    BY <2>5, WorkerView DEF ReleasePush, InDispatch, Promise!Next
  <2>6. CASE ReleaseTotal(e)
    BY <2>6, WorkerView DEF ReleaseTotal, InDispatch, Promise!Next
  <2>7. CASE WorkerDone(e)
    BY <2>7, WorkerView DEF WorkerDone, InDispatch, Promise!Next
  <2> QED
    BY <1>6, <2>1, <2>2, <2>3, <2>4, <2>5, <2>6, <2>7 DEF Dispatch, Worker
<1>7. CASE UNCHANGED vars
  BY <1>7, ViewFrame DEF vars, StageOf
<1> QED
  BY <1>1, <1>2, <1>3, <1>4, <1>5, <1>6, <1>7 DEF Next

\* The bus implements its promise to the users of queues (queue.go, consumer;
\* event/README.md, Queue).
THEOREM Refinement == Spec => KeepsPromise
<1>1. Init => Promise!Init
  BY InitIInv, InitView
<1>2. IInv /\ [Next]_vars => [Promise!Next]_(Promise!vars)
  BY StepView DEF Promise!vars, Views
<1> QED
  BY <1>1, <1>2, Invariance, PTL DEF Spec, KeepsPromise, Promise!Spec

=============================================================================
