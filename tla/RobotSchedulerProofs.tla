------------------------ MODULE RobotSchedulerProofs ------------------------
(***************************************************************************)
(* Proofs about RobotScheduler, for any number of robots, executions,      *)
(* robot objects, workers and phases, and any quotas and limits.           *)
(***************************************************************************)
EXTENDS RobotScheduler, FiniteSetTheorems, TLAPS

-----------------------------------------------------------------------------
(***************************************************************************)
(* The inductive invariant                                                 *)
(***************************************************************************)

\* a call that has not submitted its execution, or could not, has none
NotSubmitted == {"idle", "loading", "found", "tracked", "rejected", "refused"}

\* an execution starts with its submission, and a phase is one of those left
Stages ==
  \A x \in Execs :
    /\ call[x] \in NotSubmitted => run[x] = "none"
    /\ run[x] \in {"pauseCheck", "waiting", "phase"} => left[x] # 0

\* who has found the robot has one of its objects
Found ==
  \A x \in Execs : call[x] \notin {"idle", "loading", "refused"} => obj[x] \in Objects

\* nobody has asked anything of an execution that is not controlled
Uncontrolled == \A x \in Execs \ Controlled : pend[x] = {}

\* tracked before it is submitted
TrackedFirst ==
  \A x \in Managed : call[x] = "tracked" => x \in tracked \cup cancelled

\* an object stands for the robot it is cached or used for
Shown ==
  /\ \A r \in Robots : cached[r] # None => Shows[cached[r]] = r
  /\ \A x \in Execs : obj[x] # None => Shows[obj[x]] = RobotOf[x]

IInv ==
  /\ TypeOK
  /\ Shown
  /\ Stages
  /\ Found
  /\ Uncontrolled
  /\ TrackedFirst
  /\ QueueAccounting
  /\ OnePlace
  /\ SlotsHeld
  /\ QuotaKept
  /\ ControlReaches

-----------------------------------------------------------------------------
(***************************************************************************)
(* The queue and its counts                                                *)
(***************************************************************************)

QueuedOf(r) == {x \in Queued : RobotOf[x] = r}

LEMMA QueuedFinite ==
  /\ IsFiniteSet(Queued) /\ Cardinality(Queued) \in Nat
  /\ \A r : IsFiniteSet(QueuedOf(r)) /\ Cardinality(QueuedOf(r)) \in Nat
<1>1. IsFiniteSet(Execs)
  BY ExecAssumption
<1>2. Queued \subseteq Execs /\ \A r : QueuedOf(r) \subseteq Execs
  BY DEF Queued, QueuedOf
<1> QED
  BY <1>1, <1>2, FS_Subset, FS_CardinalityType

\* Enqueue puts one item into the queue, and counts it
LEMMA EnqueueCounts ==
  ASSUME TypeOK, NEW x \in Execs, x \notin Queued, Enqueue(x)
  PROVE  /\ Queued' = Queued \cup {x}
         /\ Cardinality(Queued)' = Cardinality(Queued) + 1
         /\ \A r \in Robots : Cardinality(QueuedOf(r))' =
              IF r = RobotOf[x] THEN Cardinality(QueuedOf(r)) + 1
              ELSE Cardinality(QueuedOf(r))
<1>1. /\ stamp \in [Execs -> Nat]
      /\ stamp' = [stamp EXCEPT ![x] = Cardinality(Queued) + 1]
      /\ Cardinality(Queued) + 1 # 0
  BY QueuedFinite DEF TypeOK, Enqueue
<1>2. Queued' = Queued \cup {x}
  BY <1>1 DEF Queued
<1>3. \A r : QueuedOf(r)' = IF r = RobotOf[x] THEN QueuedOf(r) \cup {x} ELSE QueuedOf(r)
  BY <1>2 DEF QueuedOf
<1>4. \A r : x \notin QueuedOf(r)
  BY DEF QueuedOf
<1>5. Cardinality(Queued)' = Cardinality(Queued) + 1
  BY <1>2, QueuedFinite, FS_AddElement
<1>6. ASSUME NEW r \in Robots
      PROVE  Cardinality(QueuedOf(r))' =
               IF r = RobotOf[x] THEN Cardinality(QueuedOf(r)) + 1
               ELSE Cardinality(QueuedOf(r))
  BY <1>3, <1>4, QueuedFinite, FS_AddElement
<1> QED
  BY <1>2, <1>5, <1>6

\* Dequeue takes one item out of the queue
LEMMA PopCounts ==
  ASSUME TypeOK, NEW x \in Queued, stamp' = Popped(x)
  PROVE  /\ Queued' = Queued \ {x}
         /\ Cardinality(Queued)' = Cardinality(Queued) - 1
         /\ \A r \in Robots : Cardinality(QueuedOf(r))' =
              IF r = RobotOf[x] THEN Cardinality(QueuedOf(r)) - 1
              ELSE Cardinality(QueuedOf(r))
<1>1. /\ stamp \in [Execs -> Nat]
      /\ \A y \in Execs : stamp'[y] = IF y = x THEN 0
                          ELSE IF stamp[y] > stamp[x] THEN stamp[y] - 1
                          ELSE stamp[y]
      /\ x \in Execs /\ stamp[x] # 0
  BY DEF TypeOK, Popped, Queued
<1>2. Queued' = Queued \ {x}
  BY <1>1 DEF Queued
<1>3. \A r : QueuedOf(r)' = IF r = RobotOf[x] THEN QueuedOf(r) \ {x} ELSE QueuedOf(r)
  BY <1>2 DEF QueuedOf
<1>4. x \in QueuedOf(RobotOf[x])
  BY DEF QueuedOf
<1>5. Cardinality(Queued)' = Cardinality(Queued) - 1
  BY <1>2, QueuedFinite, FS_RemoveElement
<1>6. ASSUME NEW r \in Robots
      PROVE  Cardinality(QueuedOf(r))' =
               IF r = RobotOf[x] THEN Cardinality(QueuedOf(r)) - 1
               ELSE Cardinality(QueuedOf(r))
  BY <1>3, <1>4, QueuedFinite, FS_RemoveElement
<1> QED
  BY <1>2, <1>5, <1>6

\* a queued item has been counted
LEMMA QueuedIsCounted ==
  ASSUME TypeOK, QueueAccounting, NEW x \in Queued
  PROVE  robotCount[RobotOf[x]] \in Nat \ {0}
<1>1. RobotOf[x] \in Robots /\ robotCount[RobotOf[x]] = Cardinality(QueuedOf(RobotOf[x]))
  BY ExecAssumption DEF QueueAccounting, QueuedOf, Queued
<1>2. QueuedOf(RobotOf[x]) # {}
  BY DEF QueuedOf
<1> QED
  BY <1>1, <1>2, QueuedFinite, FS_EmptySet

-----------------------------------------------------------------------------

LEMMA InitIInv == Init => IInv
<1> SUFFICES ASSUME Init PROVE IInv
  OBVIOUS
<1>1. TypeOK
  BY PoolAssumption DEF Init, TypeOK, CallStates, RunStates
<1>2. Stages /\ Uncontrolled /\ TrackedFirst /\ ControlReaches
  BY DEF Init, Stages, Uncontrolled, TrackedFirst, ControlReaches, NotSubmitted,
         HeldStates, Managed, Execs
<1>8. Shown /\ Found
  BY DEF Init, Shown, Found
<1>3. Queued = {}
  BY DEF Init, Queued
<1>4. QueueAccounting
  <2>1. \A r \in Robots : {x \in Queued : RobotOf[x] = r} = {}
    BY <1>3
  <2> QED
    BY <1>3, <2>1, FS_EmptySet, PoolAssumption, RobotAssumption DEF Init, QueueAccounting
<1>5. OnePlace
  BY <1>3, PoolAssumption DEF Init, OnePlace, HeldStates
<1>6. SlotsHeld
  BY DEF Init, SlotsHeld, Running
<1>7. QuotaKept
  <2>1. \A o \in Objects : {x \in Execs \ Controlled : obj[x] = o /\ run[x] \in Running} = {}
    BY DEF Init, Running
  <2>2. \A o \in Objects : QuotaMax[Shows[o]] \in Nat
    BY RobotAssumption
  <2>3. \A o \in Objects :
          Cardinality({x \in Execs \ Controlled : obj[x] = o /\ run[x] \in Running}) = 0
    BY <2>1, FS_EmptySet
  <2> QED
    BY <2>2, <2>3 DEF QuotaKept
<1> QED
  BY <1>1, <1>2, <1>4, <1>5, <1>6, <1>7, <1>8 DEF IInv

-----------------------------------------------------------------------------
(***************************************************************************)
(* Preservation of the type invariant                                      *)
(***************************************************************************)

LEMMA TypePreserved == IInv /\ [Next]_vars => TypeOK'
<1> SUFFICES ASSUME IInv, [Next]_vars PROVE TypeOK'
  OBVIOUS
<1> USE DEF TypeOK, cacheVars, queueVars, callVars, workVars, controlVars
<1>0. TypeOK
  BY DEF IInv
<1>1. \A w \in Workers : job[w] # None => job[w] \in Execs
  BY <1>0
<1>c. Cardinality(Queued) + 1 \in Nat
  BY QueuedFinite
<1>2. CASE Lifecycle
  <2>1. CASE Start
    BY <1>0, <2>1 DEF Start
  <2>2. CASE StopBegin \/ StopPool \/ StopEnd
    BY <1>0, <2>2 DEF StopBegin, StopPool, StopEnd
  <2> QED
    BY <1>2, <2>1, <2>2 DEF Lifecycle
<1>3. CASE CacheStep
  <2>1. CASE RefreshAllBegin
    BY <1>0, <2>1, RobotAssumption DEF RefreshAllBegin
  <2>2. ASSUME NEW r \in Robots, RefreshAllAdd(r) PROVE TypeOK'
    BY <1>0, <2>2 DEF RefreshAllAdd, Fresh
  <2>3. ASSUME NEW r \in Robots, RefreshOne(r) PROVE TypeOK'
    BY <1>0, <2>3 DEF RefreshOne, Fresh
  <2>4. ASSUME NEW x \in Execs, Cleanup(x) PROVE TypeOK'
    BY <1>0, <2>4 DEF Cleanup
  <2> QED
    BY <1>3, <2>1, <2>2, <2>3, <2>4 DEF CacheStep
<1>4. ASSUME NEW x \in Execs, Caller(x) PROVE TypeOK'
  <2>1. CASE Lookup(x)
    BY <1>0, <2>1, ExecAssumption DEF Lookup, CallStates
  <2>2. CASE LazyLoad(x)
    <3>1. PICK o \in Objects : /\ cached' = [cached EXCEPT ![RobotOf[x]] = o]
                               /\ used' = used \cup {o}
                               /\ obj' = [obj EXCEPT ![x] = o]
      BY <2>2 DEF LazyLoad, Fresh
    <3>2. /\ cached' \in [Robots -> Objects \cup {None}]
          /\ obj' \in [Execs -> Objects \cup {None}]
          /\ used' \subseteq Objects
      BY <1>0, <3>1
    <3> QED
      BY <1>0, <2>2, <3>2 DEF LazyLoad, CallStates
  <2>3. CASE Track(x)
    BY <1>0, <2>3 DEF Track, CallStates
  <2>4. CASE Submit(x)
    BY <1>0, <1>c, <2>4, ExecAssumption DEF Submit, Enqueue, CallStates, RunStates
  <2>5. CASE Reject(x)
    BY <1>0, <2>5 DEF Reject, CallStates
  <2>6. CASE Accept(x)
    BY <1>0, <2>6 DEF Accept, CallStates
  <2>7. CASE Decline(x)
    BY <1>0, <2>7 DEF Decline, CallStates
  <2> QED
    BY <1>4, <2>1, <2>2, <2>3, <2>4, <2>5, <2>6, <2>7 DEF Caller
<1>5. ASSUME NEW x \in Execs, Control(x) PROVE TypeOK'
  <2>1. CASE PauseExecution(x)
    BY <1>0, <2>1 DEF PauseExecution
  <2>2. CASE ResumeExecution(x)
    BY <1>0, <2>2 DEF ResumeExecution
  <2>3. CASE StopExecution(x)
    BY <1>0, <2>3 DEF StopExecution
  <2>4. CASE ForgetControlled(x)
    BY <1>0, <2>4 DEF ForgetControlled, Forget
  <2>5. CASE AddResumed(x)
    BY <1>0, <2>5 DEF AddResumed
  <2> QED
    BY <1>5, <2>1, <2>2, <2>3, <2>4, <2>5 DEF Control
<1>6. ASSUME NEW w \in Workers, Pool(w) PROVE TypeOK'
  <2>1. CASE Dequeue(w)
    <3>1. PICK x \in Queued : /\ job' = [job EXCEPT ![w] = x]
                              /\ stamp' = Popped(x)
                              /\ robotCount' = CountLess(RobotOf[x])
                              /\ run' = [run EXCEPT ![x] = "taken"]
      BY <2>1 DEF Dequeue
    <3>2. x \in Execs /\ RobotOf[x] \in Robots /\ robotCount[RobotOf[x]] - 1 \in Nat
      <4>1. x \in Execs /\ RobotOf[x] \in Robots
        BY <3>1, ExecAssumption DEF Queued
      <4>2. robotCount[RobotOf[x]] \in Nat \ {0}
        BY <3>1, QueuedIsCounted DEF IInv
      <4> QED
        BY <4>1, <4>2
    <3>3. stamp' \in [Execs -> Nat]
      <4>1. \A y \in Execs : stamp[y] > stamp[x] => stamp[y] - 1 \in Nat
        BY <1>0, <3>2
      <4> QED
        BY <1>0, <3>1, <4>1 DEF Popped
    <3>4. robotCount' \in [Robots -> Nat]
      BY <1>0, <3>1, <3>2 DEF CountLess
    <3>5. job' \in [Workers -> Execs \cup {None}] /\ run' \in [Execs -> RunStates]
      BY <1>0, <3>1, <3>2 DEF RunStates, HeldStates
    <3> QED
      BY <1>0, <2>1, <3>3, <3>4, <3>5 DEF Dequeue
  <2>2. CASE PreCheck(w)
    BY <1>0, <1>1, <2>2 DEF PreCheck, RunStates, HeldStates
  <2>3. CASE Acquire(w)
    BY <1>0, <1>1, <2>3 DEF Acquire, RunStates, HeldStates
  <2>4. CASE Requeue(w)
    BY <1>0, <1>1, <1>c, <2>4, ExecAssumption DEF Requeue, Enqueue, RunStates
  <2> QED
    BY <1>6, <2>1, <2>2, <2>3, <2>4 DEF Pool
<1>7. ASSUME NEW w \in Workers, WorkerExit(w) PROVE TypeOK'
  BY <1>0, <1>7 DEF WorkerExit
<1>8. ASSUME NEW w \in Workers, Executor(w) PROVE TypeOK'
  <2>1. CASE BeginPhase(w)
    BY <1>0, <1>1, <2>1 DEF BeginPhase, RunStates, HeldStates
  <2>2. CASE PauseCheck(w)
    BY <1>0, <1>1, <2>2 DEF PauseCheck, RunStates, HeldStates
  <2>3. CASE Wake(w)
    BY <1>0, <1>1, <2>3 DEF Wake, RunStates, HeldStates
  <2>4. CASE EndPhase(w)
    <3>1. job[w] \in Execs /\ left[job[w]] # 0 /\ left[job[w]] \in 0 .. Phases
      BY <1>0, <1>1, <2>4 DEF EndPhase, IInv, Stages
    <3>2. left[job[w]] - 1 \in 0 .. Phases
      BY <3>1, PoolAssumption
    <3>3. run' \in [Execs -> RunStates] /\ left' \in [Execs -> 0 .. Phases]
      BY <1>0, <2>4, <3>1, <3>2 DEF EndPhase, RunStates, HeldStates
    <3> QED
      BY <1>0, <2>4, <3>3 DEF EndPhase
  <2>5. CASE SuspendPhase(w)
    BY <1>0, <1>1, <2>5, ExecAssumption DEF SuspendPhase, RunStates, HeldStates
  <2>6. CASE Release(w)
    BY <1>0, <1>1, <2>6 DEF Release, SlotGiven, RunStates, HeldStates
  <2>7. CASE Untrack(w)
    BY <1>0, <1>1, <2>7 DEF Untrack, RunStates, HeldStates
  <2>8. CASE Complete(w)
    BY <1>0, <1>1, <2>8 DEF Complete, Forget, RunStates, HeldStates
  <2> QED
    BY <1>8, <2>1, <2>2, <2>3, <2>4, <2>5, <2>6, <2>7, <2>8 DEF Executor
<1>9. CASE UNCHANGED vars
  BY <1>0, <1>9 DEF vars
<1> QED
  BY <1>2, <1>3, <1>4, <1>5, <1>6, <1>7, <1>8, <1>9 DEF Next

-----------------------------------------------------------------------------
(***************************************************************************)
(* Preservation of the accounts of the queue and of the place of an item   *)
(***************************************************************************)

\* a step that neither submits an execution nor is one of a worker at work
Aside ==
  \/ Lifecycle \/ CacheStep
  \/ \E x \in Execs : \/ Control(x) \/ Lookup(x) \/ LazyLoad(x) \/ Decline(x)
                     \/ Track(x) \/ Reject(x) \/ Accept(x)
  \/ \E w \in Workers : WorkerExit(w)
  \/ UNCHANGED vars

LEMMA StepKinds ==
  ASSUME [Next]_vars
  PROVE  \/ Aside
         \/ \E x \in Execs : Submit(x)
         \/ \E w \in Workers : Pool(w) \/ Executor(w)
  BY DEF Next, Aside, Caller

LEMMA AsideLeaves == Aside => UNCHANGED <<stamp, robotCount, job, run, left>>
<1> USE DEF queueVars, workVars
<1>1. ASSUME Lifecycle PROVE UNCHANGED <<stamp, robotCount, job, run, left>>
  BY <1>1 DEF Lifecycle, Start, StopBegin, StopPool, StopEnd
<1>2. ASSUME CacheStep PROVE UNCHANGED <<stamp, robotCount, job, run, left>>
  BY <1>2 DEF CacheStep, RefreshAllBegin, RefreshAllAdd, RefreshOne, Cleanup
<1>3. ASSUME NEW x \in Execs, Control(x) PROVE UNCHANGED <<stamp, robotCount, job, run, left>>
  BY <1>3 DEF Control, PauseExecution, ResumeExecution, StopExecution, ForgetControlled,
              AddResumed
<1>4. ASSUME NEW x \in Execs,
             \/ Lookup(x) \/ LazyLoad(x) \/ Decline(x)
             \/ Track(x) \/ Reject(x) \/ Accept(x)
      PROVE  UNCHANGED <<stamp, robotCount, job, run, left>>
  BY <1>4 DEF Lookup, LazyLoad, Decline, Track, Reject, Accept
<1>5. ASSUME NEW w \in Workers, WorkerExit(w) PROVE UNCHANGED <<stamp, robotCount, job, run, left>>
  BY <1>5 DEF WorkerExit
<1>6. ASSUME UNCHANGED vars PROVE UNCHANGED <<stamp, robotCount, job, run, left>>
  BY <1>6 DEF vars
<1> QED
  BY <1>1, <1>2, <1>3, <1>4, <1>5, <1>6 DEF Aside

\* who is about to submit has no execution yet
LEMMA SubmitFirst ==
  ASSUME IInv, NEW x \in Execs, Submit(x)
  PROVE  run[x] = "none" /\ x \notin Queued
  BY DEF Submit, TracksFirst, IInv, Stages, NotSubmitted, OnePlace

LEMMA AccountingPreserved == IInv /\ [Next]_vars => QueueAccounting'
<1> SUFFICES ASSUME IInv, [Next]_vars PROVE QueueAccounting'
  OBVIOUS
<1>0. TypeOK
  BY DEF IInv
<1> DEFINE Acc == /\ Cardinality(Queued) <= MaxQueue
                  /\ \A r \in Robots : /\ robotCount[r] = Cardinality(QueuedOf(r))
                                       /\ robotCount[r] <= QuotaQueue[r]
<1>1. Acc
  BY DEF IInv, QueueAccounting, QueuedOf
<1> SUFFICES Acc'
  BY DEF QueueAccounting, QueuedOf
<1>2. MaxQueue \in Nat /\ QuotaQueue \in [Robots -> Nat]
  BY PoolAssumption, RobotAssumption
<1>3. ASSUME UNCHANGED <<stamp, robotCount>> PROVE Acc'
  BY <1>1, <1>3 DEF Queued, QueuedOf
<1>4. ASSUME NEW x \in Execs, x \notin Queued, HasRoom(x), Enqueue(x) PROVE Acc'
  <2>1. RobotOf[x] \in Robots
    BY ExecAssumption
  <2>2. robotCount' = [robotCount EXCEPT ![RobotOf[x]] = @ + 1]
    BY <1>4 DEF Enqueue
  <2>3. Cardinality(Queued)' <= MaxQueue
    BY <1>0, <1>2, <1>4, EnqueueCounts, QueuedFinite DEF HasRoom
  <2>4. ASSUME NEW r \in Robots
        PROVE  /\ robotCount'[r] = Cardinality(QueuedOf(r))'
               /\ robotCount'[r] <= QuotaQueue[r]
    <3>1. robotCount[r] \in Nat /\ QuotaQueue[r] \in Nat
      BY <1>0, <1>2 DEF TypeOK
    <3>2. robotCount'[r] = IF r = RobotOf[x] THEN robotCount[r] + 1 ELSE robotCount[r]
      BY <1>0, <2>1, <2>2 DEF TypeOK
    <3>3. Cardinality(QueuedOf(r))' = IF r = RobotOf[x] THEN Cardinality(QueuedOf(r)) + 1
                                      ELSE Cardinality(QueuedOf(r))
      BY <1>0, <1>4, EnqueueCounts
    <3> QED
      BY <1>1, <1>4, <3>1, <3>2, <3>3 DEF HasRoom
  <2> QED
    BY <2>3, <2>4
<1>5. CASE Aside
  BY <1>3, <1>5, AsideLeaves
<1>6. ASSUME NEW x \in Execs, Submit(x) PROVE Acc'
  <2>1. CASE UNCHANGED queueVars
    BY <1>3, <2>1 DEF queueVars
  <2>2. CASE HasRoom(x) /\ Enqueue(x)
    BY <1>4, <1>6, <2>2, SubmitFirst
  <2> QED
    BY <1>6, <2>1, <2>2 DEF Submit
<1>7. ASSUME NEW w \in Workers, Pool(w) PROVE Acc'
  <2>1. CASE Dequeue(w)
    <3>1. PICK x \in Queued : stamp' = Popped(x) /\ robotCount' = CountLess(RobotOf[x])
      BY <2>1 DEF Dequeue
    <3>2. RobotOf[x] \in Robots
      BY <3>1, ExecAssumption DEF Queued
    <3>3. Cardinality(Queued)' <= MaxQueue
      BY <1>0, <1>1, <1>2, <3>1, PopCounts, QueuedFinite
    <3>4. ASSUME NEW r \in Robots
          PROVE  /\ robotCount'[r] = Cardinality(QueuedOf(r))'
                 /\ robotCount'[r] <= QuotaQueue[r]
      <4>1. robotCount[r] \in Nat /\ QuotaQueue[r] \in Nat
        BY <1>0, <1>2 DEF TypeOK
      <4>2. robotCount'[r] = IF r = RobotOf[x] THEN robotCount[r] - 1 ELSE robotCount[r]
        BY <1>0, <3>1, <3>2 DEF TypeOK, CountLess
      <4>3. Cardinality(QueuedOf(r))' = IF r = RobotOf[x] THEN Cardinality(QueuedOf(r)) - 1
                                        ELSE Cardinality(QueuedOf(r))
        BY <1>0, <3>1, PopCounts
      <4> QED
        BY <1>1, <4>1, <4>2, <4>3
    <3> QED
      BY <3>3, <3>4
  <2>2. CASE PreCheck(w) \/ Acquire(w)
    BY <1>3, <2>2 DEF PreCheck, Acquire, queueVars
  <2>3. CASE Requeue(w)
    <3>1. job[w] \in Execs /\ job[w] \notin Queued
      BY <1>0, <2>3 DEF Requeue, TypeOK, IInv, OnePlace
    <3> QED
      BY <1>3, <1>4, <2>3, <3>1 DEF Requeue, queueVars
  <2> QED
    BY <1>7, <2>1, <2>2, <2>3 DEF Pool
<1>8. ASSUME NEW w \in Workers, Executor(w) PROVE Acc'
  <2>1. UNCHANGED <<stamp, robotCount>>
    BY <1>8 DEF Executor, BeginPhase, PauseCheck, Wake, EndPhase, SuspendPhase, Release,
                Untrack, Complete, queueVars
  <2> QED
    BY <1>3, <2>1
<1> QED
  BY <1>5, <1>6, <1>7, <1>8, StepKinds

\* the ranks of the queued items: from 1 to their number, each given once
Ranked ==
  /\ \A x \in Queued : stamp[x] <= Cardinality(Queued)
  /\ \A x, y \in Queued : stamp[x] = stamp[y] => x = y

LEMMA EnqueueRanks ==
  ASSUME TypeOK, Ranked, NEW x \in Execs, x \notin Queued, Enqueue(x)
  PROVE  Ranked'
<1>1. Queued' = Queued \cup {x} /\ Cardinality(Queued)' = Cardinality(Queued) + 1
  BY EnqueueCounts
<1>2. /\ stamp \in [Execs -> Nat] /\ Cardinality(Queued) \in Nat
      /\ stamp' = [stamp EXCEPT ![x] = Cardinality(Queued) + 1]
  BY QueuedFinite DEF TypeOK, Enqueue
<1>3. \A y \in Queued : y \in Execs
  BY DEF Queued
<1> QED
  BY <1>1, <1>2, <1>3 DEF Ranked

LEMMA PopRanks ==
  ASSUME TypeOK, Ranked, NEW x \in Queued, stamp' = Popped(x)
  PROVE  Ranked'
<1>1. Queued' = Queued \ {x} /\ Cardinality(Queued)' = Cardinality(Queued) - 1
  BY PopCounts
<1>2. /\ stamp \in [Execs -> Nat] /\ Cardinality(Queued) \in Nat /\ x \in Execs
      /\ \A y \in Execs : stamp'[y] = IF y = x THEN 0
                                      ELSE IF stamp[y] > stamp[x] THEN stamp[y] - 1
                                      ELSE stamp[y]
  BY QueuedFinite DEF TypeOK, Popped, Queued
<1>3. \A y \in Queued : y \in Execs
  BY DEF Queued
<1> QED
  BY <1>1, <1>2, <1>3 DEF Ranked

\* where an item is, and at which worker
Placed ==
  /\ \A x \in Execs :
       /\ x \in Queued <=> run[x] = "queued"
       /\ run[x] \in HeldStates <=> \E w \in Workers : job[w] = x
  /\ \A v, w \in Workers : job[v] = job[w] /\ job[v] # None => v = w

LEMMA OnePlaceParts == OnePlace <=> Ranked /\ Placed
  BY DEF OnePlace, Ranked, Placed, Queued

LEMMA RanksPreserved == IInv /\ [Next]_vars => Ranked'
<1> SUFFICES ASSUME IInv, [Next]_vars PROVE Ranked'
  OBVIOUS
<1>0. TypeOK /\ Ranked /\ Placed
  BY OnePlaceParts DEF IInv
<1>1. ASSUME UNCHANGED stamp PROVE Ranked'
  BY <1>0, <1>1 DEF Ranked, Queued
<1>2. CASE Aside
  BY <1>1, <1>2, AsideLeaves
<1>3. ASSUME NEW x \in Execs, Submit(x) PROVE Ranked'
  BY <1>0, <1>1, <1>3, SubmitFirst, EnqueueRanks DEF Submit, queueVars
<1>4. ASSUME NEW w \in Workers, Pool(w) PROVE Ranked'
  <2>1. CASE Dequeue(w)
    BY <1>0, <2>1, PopRanks DEF Dequeue
  <2>2. CASE PreCheck(w) \/ Acquire(w)
    BY <1>1, <2>2 DEF PreCheck, Acquire, queueVars
  <2>3. CASE Requeue(w)
    <3>1. job[w] \in Execs /\ job[w] \notin Queued
      BY <1>0, <2>3 DEF Requeue, TypeOK, Placed
    <3> QED
      BY <1>0, <1>1, <2>3, <3>1, EnqueueRanks DEF Requeue, queueVars
  <2> QED
    BY <1>4, <2>1, <2>2, <2>3 DEF Pool
<1>5. ASSUME NEW w \in Workers, Executor(w) PROVE Ranked'
  <2>1. UNCHANGED stamp
    BY <1>5 DEF Executor, BeginPhase, PauseCheck, Wake, EndPhase, SuspendPhase, Release,
                Untrack, Complete, queueVars
  <2> QED
    BY <1>1, <2>1
<1> QED
  BY <1>2, <1>3, <1>4, <1>5, StepKinds

\* a worker at work moves its own item from one stage to another
Moves(w, S) ==
  /\ job[w] \in Execs
  /\ \E s \in S : run' = [run EXCEPT ![job[w]] = s]
  /\ UNCHANGED <<stamp, job>>

\* or is done with it
Leaves(w, S) ==
  /\ job[w] \in Execs
  /\ \E s \in S : run' = [run EXCEPT ![job[w]] = s]
  /\ job' = [job EXCEPT ![w] = None]
  /\ UNCHANGED stamp

LEMMA MovesPlaced ==
  ASSUME TypeOK, Placed, NEW w \in Workers, Moves(w, HeldStates)
  PROVE  Placed'
<1>1. PICK s \in HeldStates : run' = [run EXCEPT ![job[w]] = s]
  BY DEF Moves
<1>2. run \in [Execs -> RunStates] /\ job' = job /\ Queued' = Queued /\ job[w] \in Execs
  BY DEF Moves, TypeOK, Queued
<1>3. run[job[w]] \in HeldStates /\ run[job[w]] # "queued" /\ s # "queued"
  BY <1>1, <1>2 DEF Placed, HeldStates
<1>4. job[w] \notin Queued
  BY <1>2, <1>3 DEF Placed
<1> QED
  BY <1>1, <1>2, <1>3, <1>4 DEF Placed

LEMMA LeavesPlaced ==
  ASSUME TypeOK, Placed, NEW w \in Workers, Leaves(w, {"suspended", "dropped", "done"})
  PROVE  Placed'
<1>1. PICK s \in {"suspended", "dropped", "done"} : run' = [run EXCEPT ![job[w]] = s]
  BY DEF Leaves
<1>2. /\ run \in [Execs -> RunStates] /\ Queued' = Queued /\ job[w] \in Execs
      /\ job \in [Workers -> Execs \cup {None}]
      /\ job' = [job EXCEPT ![w] = None] /\ None \notin Execs
  BY PoolAssumption DEF Leaves, TypeOK, Queued
<1>3. run[job[w]] \in HeldStates /\ s \notin HeldStates /\ s # "queued"
  BY <1>1, <1>2 DEF Placed, HeldStates
<1>4. job[w] \notin Queued
  BY <1>2, <1>3 DEF Placed, HeldStates
<1>5. \A v \in Workers : v # w => job[v] # job[w]
  BY <1>2, PoolAssumption DEF Placed
<1>6. \A x \in Execs : x # job[w] =>
        ((\E v \in Workers : job'[v] = x) <=> \E v \in Workers : job[v] = x)
  BY <1>2
<1>7. ~ \E v \in Workers : job'[v] = job[w]
  BY <1>2, <1>5
<1>8. \A x \in Execs : /\ x # job[w] => run'[x] = run[x]
                       /\ x = job[w] => run'[x] = s
  BY <1>1, <1>2
<1>9. ASSUME NEW x \in Execs
      PROVE  /\ x \in Queued' <=> run'[x] = "queued"
             /\ run'[x] \in HeldStates <=> \E v \in Workers : job'[v] = x
  BY <1>2, <1>3, <1>4, <1>6, <1>7, <1>8 DEF Placed
<1>10. \A u, v \in Workers : job'[u] = job'[v] /\ job'[u] # None => u = v
  BY <1>2 DEF Placed
<1> QED
  BY <1>9, <1>10 DEF Placed

LEMMA ExecutorKinds ==
  ASSUME TypeOK, Placed, NEW w \in Workers, Executor(w)
  PROVE  Moves(w, HeldStates) \/ Leaves(w, {"suspended", "dropped", "done"})
<1> USE DEF queueVars
<1>0. job[w] \in Execs \cup {None} /\ Asking \subseteq Execs
  BY ExecAssumption DEF TypeOK
<1>1. CASE BeginPhase(w) \/ PauseCheck(w) \/ Wake(w) \/ EndPhase(w)
  BY <1>0, <1>1 DEF BeginPhase, PauseCheck, Wake, EndPhase, Moves, HeldStates
<1>2. CASE Release(w) \/ Untrack(w)
  BY <1>0, <1>2 DEF Release, Untrack, Moves, HeldStates
<1>3. CASE SuspendPhase(w)
  BY <1>0, <1>3 DEF SuspendPhase, Leaves
<1>4. CASE Complete(w)
  BY <1>0, <1>4 DEF Complete, Leaves
<1> QED
  BY <1>1, <1>2, <1>3, <1>4 DEF Executor

LEMMA PlacedPreserved == IInv /\ [Next]_vars => Placed'
<1> SUFFICES ASSUME IInv, [Next]_vars PROVE Placed'
  OBVIOUS
<1>0. TypeOK /\ Placed
  BY OnePlaceParts DEF IInv
<1>t. /\ run \in [Execs -> RunStates]
      /\ job \in [Workers -> Execs \cup {None}]
      /\ None \notin Execs
  BY <1>0, PoolAssumption DEF TypeOK
<1>1. CASE Aside
  <2>1. UNCHANGED <<stamp, job, run>>
    BY <1>1, AsideLeaves
  <2> QED
    BY <1>0, <2>1 DEF Placed, Queued
<1>2. ASSUME NEW x \in Execs, Submit(x) PROVE Placed'
  <2>1. CASE UNCHANGED <<queueVars, run>>
    BY <1>0, <1>2, <2>1 DEF Submit, queueVars, Placed, Queued
  <2>2. CASE Enqueue(x) /\ run' = [run EXCEPT ![x] = "queued"]
    <3>1. Queued' = Queued \cup {x} /\ job' = job
      BY <1>0, <1>2, <2>2, SubmitFirst, EnqueueCounts DEF Submit
    <3>2. run[x] = "none" /\ ~ \E w \in Workers : job[w] = x
      BY <1>0, <1>2, SubmitFirst DEF Placed, HeldStates
    <3> QED
      BY <1>0, <1>t, <2>2, <3>1, <3>2 DEF Placed, HeldStates
  <2> QED
    BY <1>2, <2>1, <2>2 DEF Submit
<1>3. ASSUME NEW w \in Workers, Pool(w) PROVE Placed'
  <2>1. CASE Dequeue(w)
    <3>1. PICK x \in Queued : /\ job' = [job EXCEPT ![w] = x]
                              /\ stamp' = Popped(x)
                              /\ run' = [run EXCEPT ![x] = "taken"]
      BY <2>1 DEF Dequeue
    <3>2. Queued' = Queued \ {x} /\ x \in Execs /\ job[w] = None
      BY <1>0, <2>1, <3>1, PopCounts DEF Queued, Dequeue
    <3>3. run[x] = "queued" /\ ~ \E v \in Workers : job[v] = x
      BY <1>0, <3>1, <3>2 DEF Placed, HeldStates
    <3>4. \A y \in Execs : /\ y # x => run'[y] = run[y]
                           /\ y = x => run'[y] = "taken"
      BY <1>t, <3>1, <3>2
    <3>5. \A v \in Workers : /\ v # w => job'[v] = job[v]
                             /\ v = w => job'[v] = x
      BY <1>t, <3>1
    <3>6. ASSUME NEW y \in Execs
          PROVE  /\ y \in Queued' <=> run'[y] = "queued"
                 /\ run'[y] \in HeldStates <=> \E v \in Workers : job'[v] = y
      <4>1. CASE y = x
        BY <3>2, <3>4, <3>5, <4>1 DEF HeldStates
      <4>2. CASE y # x
        <5>1. (\E v \in Workers : job'[v] = y) <=> \E v \in Workers : job[v] = y
          BY <1>t, <3>2, <3>5, <4>2
        <5> QED
          BY <1>0, <3>2, <3>4, <4>2, <5>1 DEF Placed
      <4> QED
        BY <4>1, <4>2
    <3>7. \A u, v \in Workers : job'[u] = job'[v] /\ job'[u] # None => u = v
      BY <1>0, <3>3, <3>5 DEF Placed
    <3> QED
      BY <3>6, <3>7 DEF Placed
  <2>2. CASE PreCheck(w) \/ Acquire(w)
    <3>1. Moves(w, HeldStates)
      BY <1>t, <2>2 DEF PreCheck, Acquire, queueVars, Moves, HeldStates
    <3> QED
      BY <1>0, <3>1, MovesPlaced
  <2>3. CASE Requeue(w)
    <3> DEFINE x == job[w]
    <3>1. x \in Execs /\ run[x] = "requeue" /\ job' = [job EXCEPT ![w] = None]
      BY <1>t, <2>3 DEF Requeue
    <3>2. CASE ~HasRoom(x)
      <4>1. Leaves(w, {"suspended", "dropped", "done"})
        BY <2>3, <3>1, <3>2 DEF Requeue, Leaves, queueVars
      <4> QED
        BY <1>0, <4>1, LeavesPlaced
    <3>3. CASE HasRoom(x)
      <4>1. Enqueue(x) /\ run' = [run EXCEPT ![x] = "queued"]
        BY <2>3, <3>3 DEF Requeue
      <4>2. x \notin Queued
        BY <1>0, <3>1 DEF Placed
      <4>3. Queued' = Queued \cup {x}
        BY <1>0, <3>1, <4>1, <4>2, EnqueueCounts
      <4>4. \A v \in Workers : /\ v # w => job'[v] = job[v] /\ job[v] # x
                               /\ v = w => job'[v] = None
        BY <1>0, <1>t, <3>1 DEF Placed
      <4>5. ASSUME NEW y \in Execs
            PROVE  /\ y \in Queued' <=> run'[y] = "queued"
                   /\ run'[y] \in HeldStates <=> \E v \in Workers : job'[v] = y
        <5>1. CASE y = x
          BY <1>t, <3>1, <4>1, <4>3, <4>4, <5>1 DEF HeldStates
        <5>2. CASE y # x
          <6>1. (\E v \in Workers : job'[v] = y) <=> \E v \in Workers : job[v] = y
            BY <1>t, <4>4, <5>2
          <6>2. run'[y] = run[y]
            BY <1>t, <4>1, <5>2
          <6> QED
            BY <1>0, <4>3, <5>2, <6>1, <6>2 DEF Placed
        <5> QED
          BY <5>1, <5>2
      <4>6. \A u, v \in Workers : job'[u] = job'[v] /\ job'[u] # None => u = v
        BY <1>0, <4>4 DEF Placed
      <4> QED
        BY <4>5, <4>6 DEF Placed
    <3> QED
      BY <3>2, <3>3
  <2> QED
    BY <1>3, <2>1, <2>2, <2>3 DEF Pool
<1>4. ASSUME NEW w \in Workers, Executor(w) PROVE Placed'
  BY <1>0, <1>4, ExecutorKinds, MovesPlaced, LeavesPlaced
<1> QED
  BY <1>1, <1>2, <1>3, <1>4, StepKinds

-----------------------------------------------------------------------------
(***************************************************************************)
(* Preservation of what a call and an execution have done                  *)
(***************************************************************************)

LEMMA ShownPreserved == IInv /\ [Next]_vars => Shown'
<1> SUFFICES ASSUME IInv, [Next]_vars PROVE Shown'
  OBVIOUS
<1> USE DEF Shown, cacheVars, callVars
<1>0. TypeOK /\ Shown
  BY DEF IInv
<1>t. /\ cached \in [Robots -> Objects \cup {None}]
      /\ obj \in [Execs -> Objects \cup {None}]
      /\ RobotOf \in [Execs -> Robots]
  BY <1>0, ExecAssumption DEF TypeOK
<1>1. ASSUME UNCHANGED <<cached, obj>> PROVE Shown'
  BY <1>0, <1>1
<1>2. CASE Lifecycle
  <2>1. CASE Start
    BY <1>0, <1>t, <2>1 DEF Start, Fresh
  <2>2. CASE StopBegin \/ StopPool \/ StopEnd
    BY <1>1, <2>2 DEF StopBegin, StopPool, StopEnd
  <2> QED
    BY <1>2, <2>1, <2>2 DEF Lifecycle
<1>3. CASE CacheStep
  <2>1. CASE RefreshAllBegin
    BY <1>0, <2>1 DEF RefreshAllBegin
  <2>2. ASSUME NEW r \in Robots, RefreshAllAdd(r) PROVE Shown'
    BY <1>0, <1>t, <2>2 DEF RefreshAllAdd, Fresh
  <2>3. ASSUME NEW r \in Robots, RefreshOne(r) PROVE Shown'
    BY <1>0, <1>t, <2>3 DEF RefreshOne, Fresh
  <2>4. ASSUME NEW x \in Execs, Cleanup(x) PROVE Shown'
    BY <1>0, <1>t, <2>4 DEF Cleanup
  <2> QED
    BY <1>3, <2>1, <2>2, <2>3, <2>4 DEF CacheStep
<1>4. ASSUME NEW x \in Execs, Caller(x) PROVE Shown'
  <2>1. CASE Lookup(x)
    BY <1>0, <1>t, <2>1 DEF Lookup
  <2>2. CASE LazyLoad(x)
    <3>1. PICK o \in Fresh(RobotOf[x]) : /\ cached' = [cached EXCEPT ![RobotOf[x]] = o]
                                         /\ obj' = [obj EXCEPT ![x] = o]
      BY <2>2 DEF LazyLoad
    <3>2. Shows[o] = RobotOf[x]
      BY <3>1 DEF Fresh
    <3> QED
      BY <1>0, <1>t, <3>1, <3>2
  <2>3. CASE Track(x) \/ Submit(x) \/ Accept(x)
    BY <1>1, <2>3 DEF Track, Submit, Accept
  <2>4. CASE Reject(x) \/ Decline(x)
    BY <1>0, <1>t, <2>4 DEF Reject, Decline
  <2> QED
    BY <1>4, <2>1, <2>2, <2>3, <2>4 DEF Caller
<1>5. ASSUME NEW x \in Execs, Control(x) PROVE Shown'
  BY <1>1, <1>5 DEF Control, PauseExecution, ResumeExecution, StopExecution,
                    ForgetControlled, AddResumed
<1>6. ASSUME NEW w \in Workers, Pool(w) PROVE Shown'
  BY <1>1, <1>6 DEF Pool, Dequeue, PreCheck, Acquire, Requeue
<1>7. ASSUME NEW w \in Workers, WorkerExit(w) PROVE Shown'
  BY <1>1, <1>7 DEF WorkerExit
<1>8. ASSUME NEW w \in Workers, Executor(w) PROVE Shown'
  BY <1>1, <1>8 DEF Executor, BeginPhase, PauseCheck, Wake, EndPhase, SuspendPhase,
                    Release, Untrack, Complete
<1>9. CASE UNCHANGED vars
  BY <1>1, <1>9 DEF vars
<1> QED
  BY <1>2, <1>3, <1>4, <1>5, <1>6, <1>7, <1>8, <1>9 DEF Next

LEMMA FoundPreserved == IInv /\ [Next]_vars => Found'
<1> SUFFICES ASSUME IInv, [Next]_vars PROVE Found'
  OBVIOUS
<1> USE DEF Found, callVars
<1>t. /\ cached \in [Robots -> Objects \cup {None}]
      /\ call \in [Execs -> CallStates]
      /\ obj \in [Execs -> Objects \cup {None}]
      /\ RobotOf \in [Execs -> Robots]
      /\ Found
  BY ExecAssumption DEF IInv, TypeOK
<1>1. ASSUME UNCHANGED <<call, obj>> PROVE Found'
  BY <1>t, <1>1
<1>2. CASE Lifecycle \/ CacheStep
  BY <1>1, <1>2 DEF Lifecycle, Start, StopBegin, StopPool, StopEnd, CacheStep,
     RefreshAllBegin, RefreshAllAdd, RefreshOne, Cleanup
<1>3. ASSUME NEW x \in Execs, Caller(x) PROVE Found'
  <2>1. CASE Lookup(x)
    <3>1. CASE /\ cached[RobotOf[x]] # None
               /\ call' = [call EXCEPT ![x] = "found"]
               /\ obj' = [obj EXCEPT ![x] = cached[RobotOf[x]]]
      BY <1>t, <3>1
    <3>2. CASE call' = [call EXCEPT ![x] = "loading"] /\ UNCHANGED obj
      BY <1>t, <3>2
    <3> QED
      BY <2>1, <3>1, <3>2 DEF Lookup
  <2>2. CASE LazyLoad(x)
    <3>1. PICK o \in Fresh(RobotOf[x]) : obj' = [obj EXCEPT ![x] = o]
      BY <2>2 DEF LazyLoad
    <3>2. o \in Objects /\ call' = [call EXCEPT ![x] = "found"]
      BY <2>2 DEF Fresh, LazyLoad
    <3> QED
      BY <1>t, <3>1, <3>2
  <2>3. CASE Decline(x) \/ Reject(x)
    BY <1>t, <2>3 DEF Decline, Reject
  <2>4. ASSUME NEW s, UNCHANGED obj, call' = [call EXCEPT ![x] = s],
               call[x] \in {"found", "tracked", "submitted"}
        PROVE  Found'
    BY <1>t, <2>4
  <2>5. CASE Track(x)
    BY <2>4, <2>5 DEF Track
  <2>6. CASE Submit(x)
    <3>1. UNCHANGED obj /\ call[x] \in {"found", "tracked"}
      BY <2>6 DEF Submit
    <3>2. \/ call' = [call EXCEPT ![x] = "submitted"]
          \/ call' = [call EXCEPT ![x] = "rejected"]
      BY <2>6 DEF Submit
    <3> QED
      BY <2>4, <3>1, <3>2
  <2>7. CASE Accept(x)
    BY <2>4, <2>7 DEF Accept
  <2> QED
    BY <1>3, <2>1, <2>2, <2>3, <2>5, <2>6, <2>7 DEF Caller
<1>4. ASSUME NEW x \in Execs, Control(x) PROVE Found'
  BY <1>1, <1>4 DEF Control, PauseExecution, ResumeExecution, StopExecution,
                    ForgetControlled, AddResumed
<1>5. ASSUME NEW w \in Workers, Pool(w) \/ WorkerExit(w) PROVE Found'
  BY <1>1, <1>5 DEF Pool, Dequeue, PreCheck, Acquire, Requeue, WorkerExit
<1>6. ASSUME NEW w \in Workers, Executor(w) PROVE Found'
  BY <1>1, <1>6 DEF Executor, BeginPhase, PauseCheck, Wake, EndPhase, SuspendPhase,
                    Release, Untrack, Complete
<1>7. CASE UNCHANGED vars
  BY <1>1, <1>7 DEF vars
<1> QED
  BY <1>2, <1>3, <1>4, <1>5, <1>6, <1>7 DEF Next

\* where the call of an execution that a worker holds or may take is
LEMMA HeldIsSubmitted ==
  ASSUME IInv, NEW x \in Execs, run[x] # "none"
  PROVE  call[x] \notin NotSubmitted
  BY DEF IInv, Stages

LEMMA StagesPreserved == IInv /\ [Next]_vars => Stages'
<1> SUFFICES ASSUME IInv, [Next]_vars PROVE Stages'
  OBVIOUS
<1> USE DEF callVars, workVars
<1>0. TypeOK /\ Stages /\ Placed
  BY OnePlaceParts DEF IInv
<1>t. /\ call \in [Execs -> CallStates]
      /\ run \in [Execs -> RunStates]
      /\ left \in [Execs -> 0 .. Phases]
      /\ job \in [Workers -> Execs \cup {None}]
  BY <1>0 DEF TypeOK
<1>1. ASSUME UNCHANGED <<call, run, left>> PROVE Stages'
  BY <1>0, <1>1 DEF Stages
<1>2. ASSUME UNCHANGED <<run, left>>, NEW x \in Execs, NEW s \in CallStates,
             call' = [call EXCEPT ![x] = s],
             call[x] \in NotSubmitted \/ s \notin NotSubmitted
      PROVE  Stages'
  BY <1>0, <1>t, <1>2 DEF Stages
<1>3. CASE Aside
  <2>0. UNCHANGED <<run, left>>
    BY <1>3, AsideLeaves
  <2>1. CASE Lifecycle \/ CacheStep
    BY <1>1, <2>0, <2>1 DEF Lifecycle, Start, StopBegin, StopPool, StopEnd, CacheStep,
         RefreshAllBegin, RefreshAllAdd, RefreshOne, Cleanup
  <2>2. ASSUME NEW x \in Execs, Control(x) PROVE Stages'
    BY <1>1, <2>0, <2>2 DEF Control, PauseExecution, ResumeExecution, StopExecution,
         ForgetControlled, AddResumed
  <2>3. ASSUME NEW x \in Execs, Lookup(x) \/ LazyLoad(x) \/ Decline(x) \/ Track(x) PROVE Stages'
    BY <1>2, <2>0, <2>3 DEF Lookup, LazyLoad, Decline, Track, NotSubmitted, CallStates
  <2>4. ASSUME NEW x \in Execs, Reject(x) \/ Accept(x) PROVE Stages'
    BY <1>2, <2>0, <2>4 DEF Reject, Accept, NotSubmitted, CallStates
  <2>5. ASSUME NEW w \in Workers, WorkerExit(w) PROVE Stages'
    BY <1>1, <2>5 DEF WorkerExit
  <2>6. CASE UNCHANGED vars
    BY <1>1, <2>6 DEF vars
  <2> QED
    BY <1>3, <2>1, <2>2, <2>3, <2>4, <2>5, <2>6 DEF Aside
<1>4. ASSUME NEW x \in Execs, Submit(x) PROVE Stages'
  <2>1. run[x] = "none"
    BY <1>4, SubmitFirst
  <2> QED
    BY <1>0, <1>t, <1>4, <2>1 DEF Submit, Stages, NotSubmitted, CallStates
<1>5. ASSUME NEW x \in Execs, run[x] # "none", NEW s, call' = call, left' = left,
             run' = [run EXCEPT ![x] = s],
             s \in {"pauseCheck", "waiting", "phase"} => left[x] # 0
      PROVE  Stages'
  <2>1. call[x] \notin NotSubmitted
    BY <1>5, HeldIsSubmitted
  <2> QED
    BY <1>0, <1>t, <1>5, <2>1 DEF Stages
<1>h. \A w \in Workers : job[w] # None => job[w] \in Execs /\ run[job[w]] \in HeldStates
  BY <1>0, <1>t DEF Placed
<1>6. ASSUME NEW w \in Workers, Pool(w) PROVE Stages'
  <2>1. CASE Dequeue(w)
    <3>1. PICK x \in Queued : run' = [run EXCEPT ![x] = "taken"]
      BY <2>1 DEF Dequeue
    <3>2. x \in Execs /\ run[x] # "none"
      BY <1>0, <3>1 DEF Placed, Queued
    <3> QED
      BY <1>5, <2>1, <3>1, <3>2 DEF Dequeue
  <2>2. CASE PreCheck(w)
    BY <1>5, <1>h, <2>2 DEF PreCheck
  <2>3. CASE Acquire(w)
    BY <1>5, <1>h, <2>3 DEF Acquire
  <2>4. CASE Requeue(w)
    BY <1>5, <1>h, <2>4 DEF Requeue
  <2> QED
    BY <1>6, <2>1, <2>2, <2>3, <2>4 DEF Pool
<1>7. ASSUME NEW w \in Workers, Executor(w) PROVE Stages'
  <2>1. CASE BeginPhase(w)
    BY <1>5, <1>h, <2>1 DEF BeginPhase
  <2>2. CASE PauseCheck(w)
    BY <1>0, <1>5, <1>h, <2>2 DEF PauseCheck, Stages
  <2>3. CASE Wake(w)
    BY <1>0, <1>5, <1>h, <2>3 DEF Wake, Stages
  <2>4. CASE EndPhase(w)
    <3>1. /\ job[w] \in Execs /\ call' = call /\ call[job[w]] \notin NotSubmitted
          /\ run' = [run EXCEPT ![job[w]] = "between"]
             \/ run' = [run EXCEPT ![job[w]] = "ending"]
          /\ \A y \in Execs : y # job[w] => left'[y] = left[y]
      BY <1>t, <1>h, <2>4, HeldIsSubmitted DEF EndPhase
    <3> QED
      BY <1>0, <1>t, <3>1 DEF Stages
  <2>5. CASE SuspendPhase(w)
    BY <1>5, <1>h, <2>5, ExecAssumption, PoolAssumption DEF SuspendPhase
  <2>6. CASE Release(w) \/ Untrack(w) \/ Complete(w)
    BY <1>5, <1>h, <2>6 DEF Release, Untrack, Complete
  <2> QED
    BY <1>7, <2>1, <2>2, <2>3, <2>4, <2>5, <2>6 DEF Executor
<1> QED
  BY <1>3, <1>4, <1>6, <1>7, StepKinds

-----------------------------------------------------------------------------
(***************************************************************************)
(* Preservation of the control's reach                                     *)
(***************************************************************************)

\* a step that starts or stops, looks after the cache, or is a worker's and is
\* not the end of its execution leaves what the controller holds
LEMMA ControlLeft ==
  ASSUME TypeOK,
         \/ Lifecycle \/ CacheStep \/ UNCHANGED vars
         \/ \E x \in Execs : Lookup(x) \/ LazyLoad(x) \/ Decline(x) \/ Submit(x)
         \/ \E x \in Execs : ForgetControlled(x) \/ AddResumed(x)
         \/ \E w \in Workers : Pool(w) \/ WorkerExit(w)
         \/ \E w \in Workers : Executor(w) /\ ~Untrack(w)
  PROVE  UNCHANGED <<tracked, cancelled>>
<1> USE DEF controlVars
<1>1. CASE Lifecycle \/ CacheStep \/ UNCHANGED vars
  BY <1>1 DEF vars, Lifecycle, Start, StopBegin, StopPool, StopEnd, CacheStep,
     RefreshAllBegin, RefreshAllAdd, RefreshOne, Cleanup
<1>2. CASE \E x \in Execs : Lookup(x) \/ LazyLoad(x) \/ Decline(x) \/ Submit(x)
  BY <1>2 DEF Lookup, LazyLoad, Decline, Submit
<1>3. CASE \E x \in Execs : ForgetControlled(x) \/ AddResumed(x)
  BY <1>3 DEF ForgetControlled, AddResumed
<1>4. CASE \E w \in Workers : Pool(w) \/ WorkerExit(w)
  BY <1>4 DEF Pool, Dequeue, PreCheck, Acquire, Requeue, WorkerExit
<1>5. CASE \E w \in Workers : Executor(w) /\ ~Untrack(w)
  BY <1>5 DEF Executor, BeginPhase, PauseCheck, Wake, EndPhase, SuspendPhase, Release,
     Complete
<1> QED
  BY <1>1, <1>2, <1>3, <1>4, <1>5

LEMMA UncontrolledPreserved == IInv /\ [Next]_vars => Uncontrolled'
<1> SUFFICES ASSUME IInv, [Next]_vars PROVE Uncontrolled'
  OBVIOUS
<1> USE DEF controlVars
<1>0. Uncontrolled /\ pend \in [Execs -> SUBSET {"add", "remove"}]
  BY DEF IInv, TypeOK
<1>1. ASSUME UNCHANGED pend PROVE Uncontrolled'
  BY <1>0, <1>1 DEF Uncontrolled
<1>2. CASE Lifecycle \/ CacheStep \/ UNCHANGED vars
  BY <1>1, <1>2 DEF vars, Lifecycle, Start, StopBegin, StopPool, StopEnd, CacheStep,
     RefreshAllBegin, RefreshAllAdd, RefreshOne, Cleanup
<1>3. ASSUME NEW x \in Execs, Caller(x) PROVE Uncontrolled'
  BY <1>1, <1>3 DEF Caller, Lookup, LazyLoad, Decline, Track, Submit, Reject, Accept
<1>4. ASSUME NEW x \in Execs, Control(x) PROVE Uncontrolled'
  <2>1. CASE PauseExecution(x) \/ ResumeExecution(x) \/ StopExecution(x)
    <3>1. x \in Controlled /\ \A y \in Execs : y # x => pend'[y] = pend[y]
      BY <1>0, <2>1 DEF PauseExecution, ResumeExecution, StopExecution, MayControl
    <3> QED
      BY <1>0, <3>1 DEF Uncontrolled
  <2>2. CASE ForgetControlled(x) \/ AddResumed(x)
    <3>1. pend[x] # {} /\ \A y \in Execs : y # x => pend'[y] = pend[y]
      BY <1>0, <2>2 DEF ForgetControlled, AddResumed
    <3> QED
      BY <1>0, <3>1 DEF Uncontrolled
  <2> QED
    BY <1>4, <2>1, <2>2 DEF Control
<1>5. ASSUME NEW w \in Workers, Pool(w) \/ WorkerExit(w) \/ Executor(w) PROVE Uncontrolled'
  BY <1>1, <1>5 DEF Pool, Dequeue, PreCheck, Acquire, Requeue, WorkerExit, Executor,
     BeginPhase, PauseCheck, Wake, EndPhase, SuspendPhase, Release, Untrack, Complete
<1> QED
  BY <1>2, <1>3, <1>4, <1>5 DEF Next

LEMMA TrackedFirstPreserved == IInv /\ [Next]_vars => TrackedFirst'
<1> SUFFICES ASSUME IInv, [Next]_vars PROVE TrackedFirst'
  OBVIOUS
<1> USE DEF callVars, controlVars
<1>0. TypeOK /\ TrackedFirst /\ Stages /\ Placed
  BY OnePlaceParts DEF IInv
<1>t. call \in [Execs -> CallStates] /\ Managed \subseteq Execs
  BY <1>0 DEF TypeOK, Execs
<1>1. ASSUME UNCHANGED <<call, tracked, cancelled>> PROVE TrackedFirst'
  BY <1>0, <1>1 DEF TrackedFirst
<1>2. CASE Lifecycle \/ CacheStep \/ UNCHANGED vars
  <2>1. UNCHANGED call
    BY <1>2 DEF vars, Lifecycle, Start, StopBegin, StopPool, StopEnd, CacheStep,
       RefreshAllBegin, RefreshAllAdd, RefreshOne, Cleanup
  <2> QED
    BY <1>0, <1>1, <1>2, <2>1, ControlLeft
<1>3. ASSUME NEW x \in Execs, Caller(x) PROVE TrackedFirst'
  <2>1. CASE Lookup(x) \/ LazyLoad(x) \/ Decline(x) \/ Submit(x)
    <3>1. UNCHANGED <<tracked, cancelled>>
      BY <1>0, <2>1, ControlLeft
    <3>2. \A y \in Execs : call'[y] = "tracked" => call[y] = "tracked"
      BY <1>t, <2>1 DEF Lookup, LazyLoad, Decline, Submit
    <3> QED
      BY <1>0, <1>t, <3>1, <3>2 DEF TrackedFirst
  <2>2. CASE Track(x)
    BY <1>0, <1>t, <2>2 DEF Track, TrackedFirst
  <2>3. CASE Reject(x)
    BY <1>0, <1>t, <2>3 DEF Reject, TrackedFirst
  <2>4. CASE Accept(x)
    BY <1>0, <1>t, <2>4 DEF Accept, TrackedFirst
  <2> QED
    BY <1>3, <2>1, <2>2, <2>3, <2>4 DEF Caller
<1>4. ASSUME NEW x \in Execs, Control(x) PROVE TrackedFirst'
  BY <1>0, <1>4 DEF Control, PauseExecution, ResumeExecution, StopExecution,
     ForgetControlled, AddResumed, TrackedFirst
<1>5. ASSUME NEW w \in Workers, Pool(w) \/ WorkerExit(w) PROVE TrackedFirst'
  <2>1. UNCHANGED call
    BY <1>5 DEF Pool, Dequeue, PreCheck, Acquire, Requeue, WorkerExit
  <2> QED
    BY <1>0, <1>1, <1>5, <2>1, ControlLeft
<1>6. ASSUME NEW w \in Workers, Executor(w) PROVE TrackedFirst'
  <2>1. UNCHANGED call
    BY <1>6 DEF Executor, BeginPhase, PauseCheck, Wake, EndPhase, SuspendPhase, Release,
       Untrack, Complete
  <2>2. CASE Untrack(w)
    <3>1. job[w] \in Execs /\ run[job[w]] # "none" /\ tracked' = tracked \ {job[w]}
      BY <1>0, <2>2 DEF Untrack, TypeOK
    <3>2. call[job[w]] # "tracked"
      BY <1>0, <3>1 DEF Stages, NotSubmitted
    <3> QED
      BY <1>0, <2>1, <2>2, <3>1, <3>2 DEF Untrack, TrackedFirst
  <2>3. CASE ~Untrack(w)
    BY <1>0, <1>1, <1>6, <2>1, <2>3, ControlLeft
  <2> QED
    BY <2>2, <2>3
<1> QED
  BY <1>2, <1>3, <1>4, <1>5, <1>6 DEF Next

\* the stages in which an execution can be found, and those after that
Within == {"queued", "suspended"} \cup (HeldStates \ {"untracked"})
After == {"untracked", "done"}

LEMMA ControlReachesPreserved == IInv /\ [Next]_vars => ControlReaches'
<1> SUFFICES ASSUME IInv, [Next]_vars PROVE ControlReaches'
  OBVIOUS
<1> USE DEF callVars, controlVars
<1> DEFINE Reach == \A x \in Managed :
                      /\ run[x] \in Within => x \in tracked \/ x \in cancelled
                      /\ run[x] \in After => x \notin tracked
<1>0. TypeOK /\ TrackedFirst /\ Stages /\ Placed /\ Reach
  BY OnePlaceParts DEF IInv, ControlReaches, Within, After
<1>t. /\ run \in [Execs -> RunStates] /\ Managed \subseteq Execs
      /\ job \in [Workers -> Execs \cup {None}]
  BY <1>0 DEF TypeOK, Execs
<1>h. \A w \in Workers : job[w] # None => job[w] \in Execs /\ run[job[w]] \in HeldStates
  BY <1>0, <1>t DEF Placed
<1> SUFFICES Reach'
  BY DEF ControlReaches, Within, After
<1>1. ASSUME UNCHANGED <<run, tracked, cancelled>> PROVE Reach'
  BY <1>0, <1>1
<1>2. ASSUME UNCHANGED <<tracked, cancelled>>, NEW x \in Execs, NEW s,
             run' = [run EXCEPT ![x] = s],
             run[x] \in Within, s \notin After
      PROVE  Reach'
  BY <1>0, <1>t, <1>2
<1>3. CASE Aside
  <2>0. UNCHANGED run
    BY <1>3, AsideLeaves
  <2>1. CASE Lifecycle \/ CacheStep \/ UNCHANGED vars
    BY <1>0, <1>1, <2>0, <2>1, ControlLeft
  <2>2. ASSUME NEW x \in Execs, Lookup(x) \/ LazyLoad(x) \/ Decline(x) PROVE Reach'
    BY <1>0, <1>1, <2>0, <2>2, ControlLeft
  <2>3. ASSUME NEW x \in Execs, Track(x) PROVE Reach'
    <3>1. run[x] = "none"
      BY <1>0, <2>3 DEF Track, Stages, NotSubmitted
    <3> QED
      BY <1>0, <1>t, <2>0, <2>3, <3>1 DEF Track, After
  <2>4. ASSUME NEW x \in Execs, Reject(x) PROVE Reach'
    <3>1. run[x] = "none"
      BY <1>0, <2>4 DEF Reject, Stages, NotSubmitted
    <3> QED
      BY <1>0, <1>t, <2>0, <2>4, <3>1 DEF Reject, Within, HeldStates
  <2>5. ASSUME NEW x \in Execs, Accept(x) PROVE Reach'
    BY <1>0, <2>0, <2>5 DEF Accept, TracksFirst
  <2>6. ASSUME NEW x \in Execs, ForgetControlled(x) \/ AddResumed(x) PROVE Reach'
    BY <1>0, <1>1, <2>0, <2>6, ControlLeft
  <2>7. ASSUME NEW x \in Execs, PauseExecution(x) \/ ResumeExecution(x) \/ StopExecution(x)
        PROVE  Reach'
    BY <1>0, <2>0, <2>7 DEF PauseExecution, ResumeExecution, StopExecution
  <2>8. ASSUME NEW w \in Workers, WorkerExit(w) PROVE Reach'
    BY <1>0, <1>1, <2>0, <2>8, ControlLeft
  <2> QED
    BY <1>3, <2>1, <2>2, <2>3, <2>4, <2>5, <2>6, <2>7, <2>8 DEF Aside, Control
<1>4. ASSUME NEW x \in Execs, Submit(x) PROVE Reach'
  <2>1. UNCHANGED <<tracked, cancelled>>
    BY <1>0, <1>4, ControlLeft
  <2>2. x \in Managed => x \in tracked \cup cancelled
    BY <1>0, <1>4 DEF Submit, TracksFirst, TrackedFirst
  <2> QED
    BY <1>0, <1>t, <1>4, <2>1, <2>2 DEF Submit, After
<1>5. ASSUME NEW w \in Workers, Pool(w) PROVE Reach'
  <2>0. UNCHANGED <<tracked, cancelled>>
    BY <1>0, <1>5, ControlLeft
  <2>1. CASE Dequeue(w)
    <3>1. PICK x \in Queued : run' = [run EXCEPT ![x] = "taken"]
      BY <2>1 DEF Dequeue
    <3>2. x \in Execs /\ run[x] = "queued"
      BY <1>0, <3>1 DEF Placed, Queued
    <3> QED
      BY <1>2, <2>0, <3>1, <3>2 DEF Within, After
  <2>2. CASE PreCheck(w) \/ Acquire(w)
    <3>1. job[w] \in Execs /\ run[job[w]] \in {"taken", "starting"}
      BY <1>h, <2>2 DEF PreCheck, Acquire
    <3>2. \E s \in {"starting", "requeue", "between"} : run' = [run EXCEPT ![job[w]] = s]
      BY <2>2 DEF PreCheck, Acquire
    <3> QED
      BY <1>2, <2>0, <3>1, <3>2 DEF Within, After, HeldStates
  <2>3. CASE Requeue(w)
    BY <1>h, <1>2, <2>0, <2>3 DEF Requeue, Within, After, HeldStates
  <2> QED
    BY <1>5, <2>1, <2>2, <2>3 DEF Pool
<1>6. ASSUME NEW w \in Workers, Executor(w) PROVE Reach'
  <2>1. CASE BeginPhase(w) \/ PauseCheck(w) \/ Wake(w) \/ EndPhase(w) \/ SuspendPhase(w)
             \/ Release(w)
    <3>1. UNCHANGED <<tracked, cancelled>>
      BY <2>1 DEF BeginPhase, PauseCheck, Wake, EndPhase, SuspendPhase, Release
    <3>2. job[w] \in Execs /\ run[job[w]] \in Within
      BY <1>h, <2>1, ExecAssumption, PoolAssumption DEF BeginPhase, PauseCheck, Wake,
         EndPhase, SuspendPhase, Release, Within, HeldStates
    <3>3. \E s \in {"ending", "pauseCheck", "waiting", "phase", "between", "suspended",
                    "released"} : run' = [run EXCEPT ![job[w]] = s]
      BY <2>1 DEF BeginPhase, PauseCheck, Wake, EndPhase, SuspendPhase, Release
    <3> QED
      BY <1>2, <3>1, <3>2, <3>3 DEF After
  <2>2. CASE Untrack(w)
    BY <1>0, <1>t, <1>h, <2>2 DEF Untrack, Within, After, HeldStates
  <2>3. CASE Complete(w)
    BY <1>0, <1>t, <1>h, <2>3 DEF Complete, Within, After, HeldStates
  <2> QED
    BY <1>6, <2>1, <2>2, <2>3 DEF Executor
<1> QED
  BY <1>3, <1>4, <1>5, <1>6, StepKinds

-----------------------------------------------------------------------------
(***************************************************************************)
(* Preservation of the slots and of the quota                              *)
(***************************************************************************)

\* the stages in which an execution holds a slot
WithSlot == Running \cup {"suspended"}

\* a step may move an execution, or change the object of one that does not run
LEMMA ObjKept ==
  ASSUME IInv, Next, NEW x \in Execs, run[x] # "none"
  PROVE  obj'[x] = obj[x]
<1> USE DEF callVars
<1>0. obj \in [Execs -> Objects \cup {None}] /\ call[x] \notin NotSubmitted
  BY HeldIsSubmitted DEF IInv, TypeOK
<1>1. CASE Lifecycle \/ CacheStep
  BY <1>1 DEF Lifecycle, Start, StopBegin, StopPool, StopEnd, CacheStep,
     RefreshAllBegin, RefreshAllAdd, RefreshOne, Cleanup
<1>2. ASSUME NEW y \in Execs, Caller(y) PROVE obj'[x] = obj[x]
  <2>1. CASE Lookup(y)
    BY <1>0, <2>1 DEF Lookup, NotSubmitted
  <2>2. CASE LazyLoad(y)
    BY <1>0, <2>2 DEF LazyLoad, NotSubmitted
  <2>3. CASE Decline(y) \/ Track(y) \/ Submit(y) \/ Reject(y) \/ Accept(y)
    BY <2>3 DEF Decline, Track, Submit, Reject, Accept
  <2> QED
    BY <1>2, <2>1, <2>2, <2>3 DEF Caller
<1>3. ASSUME NEW y \in Execs, Control(y) PROVE obj'[x] = obj[x]
  BY <1>3 DEF Control, PauseExecution, ResumeExecution, StopExecution, ForgetControlled,
     AddResumed
<1>4. ASSUME NEW w \in Workers, Pool(w) \/ WorkerExit(w) \/ Executor(w)
      PROVE  obj'[x] = obj[x]
  BY <1>4 DEF Pool, Dequeue, PreCheck, Acquire, Requeue, WorkerExit, Executor,
     BeginPhase, PauseCheck, Wake, EndPhase, SuspendPhase, Release, Untrack, Complete
<1> QED
  BY <1>1, <1>2, <1>3, <1>4 DEF Next

LEMMA SlotsPreserved == IInv /\ [Next]_vars => SlotsHeld'
<1> SUFFICES ASSUME IInv, [Next]_vars PROVE SlotsHeld'
  OBVIOUS
<1>0. TypeOK /\ Placed /\ SlotsHeld /\ Uncontrolled
  BY OnePlaceParts DEF IInv
<1>t. /\ run \in [Execs -> RunStates]
      /\ executions \in [Objects -> SUBSET Execs]
      /\ job \in [Workers -> Execs \cup {None}]
      /\ pend \in [Execs -> SUBSET {"add", "remove"}]
  BY <1>0 DEF TypeOK
<1>h. \A w \in Workers : job[w] # None => job[w] \in Execs /\ run[job[w]] \in HeldStates
  BY <1>0, <1>t DEF Placed
<1>s. \A x \in Execs \ Controlled, o \in Objects :
        x \in executions[o] <=> obj[x] = o /\ run[x] \in WithSlot
  BY <1>0 DEF SlotsHeld, WithSlot
<1> SUFFICES ASSUME NEW x \in Execs \ Controlled, NEW o \in Objects
             PROVE  x \in executions'[o] <=> obj'[x] = o /\ run'[x] \in WithSlot
  BY DEF SlotsHeld, WithSlot
<1>1. CASE UNCHANGED vars
  BY <1>s, <1>1 DEF vars, callVars, workVars
<1>2. ASSUME Next, x \in executions'[o] <=> x \in executions[o],
             run'[x] \in WithSlot <=> run[x] \in WithSlot
      PROVE  x \in executions'[o] <=> obj'[x] = o /\ run'[x] \in WithSlot
  <2>1. CASE run[x] = "none"
    BY <1>s, <1>2, <2>1 DEF WithSlot, Running
  <2>2. CASE run[x] # "none"
    BY <1>s, <1>2, <2>2, ObjKept
  <2> QED
    BY <2>1, <2>2
<1>3. CASE Next /\ Aside
  <2>1. run'[x] = run[x]
    BY <1>3, AsideLeaves
  <2>2. CASE UNCHANGED executions
    BY <1>2, <1>3, <2>1, <2>2
  <2>3. ASSUME NEW y \in Execs, ForgetControlled(y) \/ AddResumed(y)
        PROVE  x \in executions'[o] <=> x \in executions[o]
    <3>1. x # y
      BY <1>0, <2>3 DEF ForgetControlled, AddResumed, Uncontrolled
    <3>2. CASE ForgetControlled(y)
      BY <1>t, <3>1, <3>2 DEF ForgetControlled, Forget
    <3>3. CASE AddResumed(y)
      BY <1>t, <3>1, <3>3 DEF AddResumed
    <3> QED
      BY <2>3, <3>2, <3>3
  <2>4. \/ UNCHANGED executions
        \/ \E y \in Execs : ForgetControlled(y) \/ AddResumed(y)
    <3>1. CASE Lifecycle \/ CacheStep
      BY <3>1 DEF Lifecycle, Start, StopBegin, StopPool, StopEnd, CacheStep,
         RefreshAllBegin, RefreshAllAdd, RefreshOne, Cleanup
    <3>2. CASE \E y \in Execs : \/ Lookup(y) \/ LazyLoad(y) \/ Decline(y)
                              \/ Track(y) \/ Reject(y) \/ Accept(y)
      BY <3>2 DEF Lookup, LazyLoad, Decline, Track, Reject, Accept
    <3>3. CASE \E y \in Execs : Control(y)
      BY <3>3 DEF Control, PauseExecution, ResumeExecution, StopExecution
    <3>4. CASE (\E w \in Workers : WorkerExit(w)) \/ UNCHANGED vars
      BY <3>4 DEF WorkerExit, vars
    <3> QED
      BY <1>3, <3>1, <3>2, <3>3, <3>4 DEF Aside
  <2> QED
    BY <1>2, <1>3, <2>1, <2>2, <2>3, <2>4
<1>4. ASSUME Next, NEW y \in Execs, NEW s, executions' = executions,
             run' = [run EXCEPT ![y] = s], s \in WithSlot <=> run[y] \in WithSlot
      PROVE  x \in executions'[o] <=> obj'[x] = o /\ run'[x] \in WithSlot
  BY <1>t, <1>2, <1>4
<1>5. ASSUME Next, NEW y \in Execs, Submit(y)
      PROVE  x \in executions'[o] <=> obj'[x] = o /\ run'[x] \in WithSlot
  <2>1. run[y] = "none" /\ UNCHANGED executions
    BY <1>5, SubmitFirst DEF Submit
  <2>2. CASE UNCHANGED run
    BY <1>2, <1>5, <2>1, <2>2
  <2>3. CASE run' = [run EXCEPT ![y] = "queued"]
    BY <1>4, <1>5, <2>1, <2>3 DEF WithSlot, Running
  <2> QED
    BY <1>5, <2>2, <2>3 DEF Submit
<1>6. ASSUME Next, NEW w \in Workers, Pool(w)
      PROVE  x \in executions'[o] <=> obj'[x] = o /\ run'[x] \in WithSlot
  <2>1. CASE Dequeue(w)
    <3>1. PICK y \in Queued : run' = [run EXCEPT ![y] = "taken"]
      BY <2>1 DEF Dequeue
    <3>2. y \in Execs /\ run[y] = "queued" /\ UNCHANGED executions
      BY <1>0, <2>1, <3>1 DEF Placed, Queued, Dequeue
    <3> QED
      BY <1>4, <1>6, <3>1, <3>2 DEF WithSlot, Running
  <2>2. CASE PreCheck(w)
    <3>1. job[w] \in Execs /\ run[job[w]] = "taken" /\ executions' = executions
      BY <1>h, <2>2 DEF PreCheck
    <3>2. \E s \in {"starting", "requeue"} : run' = [run EXCEPT ![job[w]] = s]
      BY <2>2 DEF PreCheck
    <3> QED
      BY <1>4, <1>6, <3>1, <3>2 DEF WithSlot, Running
  <2>3. CASE Acquire(w)
    <3> DEFINE y == job[w]
    <3>1. y \in Execs /\ run[y] = "starting"
      BY <1>h, <2>3 DEF Acquire
    <3>2. CASE executions' = executions /\ run' = [run EXCEPT ![y] = "requeue"]
      BY <1>4, <1>6, <3>1, <3>2 DEF WithSlot, Running
    <3>3. CASE /\ executions' = [executions EXCEPT ![obj[y]] = @ \cup {y}]
               /\ run' = [run EXCEPT ![y] = "between"]
      <4>1. CASE x # y
        BY <1>t, <1>2, <1>6, <3>1, <3>3, <4>1
      <4>2. CASE x = y
        <5>1. obj'[x] = obj[x] /\ x \notin executions[o]
          BY <1>s, <1>6, <3>1, <4>2, ObjKept DEF WithSlot, Running
        <5>2. run'[x] \in WithSlot
          BY <1>t, <3>1, <3>3, <4>2 DEF WithSlot, Running
        <5>3. x \in executions'[o] <=> obj[x] = o
          BY <1>t, <3>3, <4>2, <5>1
        <5> QED
          BY <5>1, <5>2, <5>3
      <4> QED
        BY <4>1, <4>2
    <3> QED
      BY <2>3, <3>2, <3>3 DEF Acquire
  <2>4. CASE Requeue(w)
    <3>1. job[w] \in Execs /\ run[job[w]] = "requeue" /\ executions' = executions
      BY <1>h, <2>4 DEF Requeue
    <3>2. \E s \in {"queued", "dropped"} : run' = [run EXCEPT ![job[w]] = s]
      BY <2>4 DEF Requeue
    <3> QED
      BY <1>4, <1>6, <3>1, <3>2 DEF WithSlot, Running
  <2> QED
    BY <1>6, <2>1, <2>2, <2>3, <2>4 DEF Pool
<1>7. ASSUME Next, NEW w \in Workers, Executor(w)
      PROVE  x \in executions'[o] <=> obj'[x] = o /\ run'[x] \in WithSlot
  <2> DEFINE y == job[w]
  <2>1. CASE BeginPhase(w) \/ PauseCheck(w) \/ Wake(w) \/ EndPhase(w) \/ SuspendPhase(w)
    <3>1. y \in Execs /\ run[y] \in WithSlot /\ executions' = executions
      BY <1>h, <2>1, ExecAssumption, PoolAssumption DEF BeginPhase, PauseCheck, Wake,
         EndPhase, SuspendPhase, WithSlot, Running
    <3>2. \E s \in WithSlot : run' = [run EXCEPT ![y] = s]
      BY <2>1 DEF BeginPhase, PauseCheck, Wake, EndPhase, SuspendPhase, WithSlot, Running
    <3> QED
      BY <1>4, <1>7, <3>1, <3>2
  <2>2. CASE Release(w)
    <3>1. /\ y \in Execs /\ run[y] = "ending"
          /\ executions' = [executions EXCEPT ![obj[y]] = @ \ {y}]
          /\ run' = [run EXCEPT ![y] = "released"]
      BY <1>h, <2>2 DEF Release, SlotGiven
    <3>2. CASE x # y
      BY <1>t, <1>2, <1>7, <3>1, <3>2
    <3>3. CASE x = y
      <4>1. run'[x] \notin WithSlot
        BY <1>t, <3>1, <3>3 DEF WithSlot, Running
      <4>2. x \notin executions'[o]
        BY <1>t, <1>s, <3>1, <3>3
      <4> QED
        BY <4>1, <4>2
    <3> QED
      BY <3>2, <3>3
  <2>3. CASE Untrack(w)
    <3>1. /\ y \in Execs /\ run[y] = "released" /\ executions' = executions
          /\ run' = [run EXCEPT ![y] = "untracked"]
      BY <1>h, <2>3 DEF Untrack
    <3> QED
      BY <1>4, <1>7, <3>1 DEF WithSlot, Running
  <2>4. CASE Complete(w)
    <3>1. /\ y \in Execs /\ run[y] = "untracked" /\ Forget(y)
          /\ run' = [run EXCEPT ![y] = "done"]
      BY <1>h, <2>4 DEF Complete
    <3>2. CASE x # y
      <4>1. x \in executions'[o] <=> x \in executions[o]
        BY <1>t, <3>1, <3>2 DEF Forget
      <4> QED
        BY <1>t, <1>2, <1>7, <3>1, <3>2, <4>1
    <3>3. CASE x = y
      <4>1. run'[x] \notin WithSlot
        BY <1>t, <3>1, <3>3 DEF WithSlot, Running
      <4>2. x \notin executions[o]
        BY <1>s, <3>1, <3>3 DEF WithSlot, Running
      <4>3. x \notin executions'[o]
        BY <1>t, <3>1, <4>2 DEF Forget
      <4> QED
        BY <4>1, <4>3
    <3> QED
      BY <3>2, <3>3
  <2> QED
    BY <1>7, <2>1, <2>2, <2>3, <2>4 DEF Executor
<1>8. CASE Next
  BY <1>3, <1>5, <1>6, <1>7, <1>8, StepKinds
<1> QED
  BY <1>1, <1>8

\* an execution only begins to run by taking a slot
LEMMA RunsByAcquire ==
  ASSUME IInv, [Next]_vars, NEW x \in Execs, run'[x] \in Running, run[x] \notin Running
  PROVE  \E w \in Workers : Acquire(w) /\ job[w] = x /\ SlotFree(x)
<1>0. TypeOK /\ Placed
  BY OnePlaceParts DEF IInv
<1>t. run \in [Execs -> RunStates] /\ job \in [Workers -> Execs \cup {None}]
  BY <1>0 DEF TypeOK
<1>1. CASE Aside
  BY <1>1, AsideLeaves
<1>2. CASE \E y \in Execs : Submit(y)
  BY <1>t, <1>2 DEF Submit, Running
<1>3. ASSUME NEW w \in Workers, Pool(w)
      PROVE  Acquire(w) /\ job[w] = x /\ SlotFree(x)
  <2>1. CASE Dequeue(w)
    BY <1>t, <2>1 DEF Dequeue, Running
  <2>2. CASE PreCheck(w)
    BY <1>t, <2>2 DEF PreCheck, Running
  <2>3. CASE Acquire(w)
    BY <1>t, <2>3 DEF Acquire, Running
  <2>4. CASE Requeue(w)
    BY <1>t, <2>4 DEF Requeue, Running
  <2> QED
    BY <1>3, <2>1, <2>2, <2>3, <2>4 DEF Pool
<1>4. ASSUME NEW w \in Workers, Executor(w) PROVE FALSE
  <2>1. CASE BeginPhase(w) \/ PauseCheck(w) \/ Wake(w) \/ EndPhase(w)
    BY <1>t, <2>1 DEF BeginPhase, PauseCheck, Wake, EndPhase, Running
  <2>2. CASE SuspendPhase(w) \/ Release(w) \/ Untrack(w) \/ Complete(w)
    BY <1>t, <2>2 DEF SuspendPhase, Release, Untrack, Complete, Running
  <2> QED
    BY <1>4, <2>1, <2>2 DEF Executor
<1> QED
  BY <1>1, <1>2, <1>3, <1>4, StepKinds

\* the executions that nobody controls and that run on an object
RunsOn(o) == {x \in Execs \ Controlled : obj[x] = o /\ run[x] \in Running}

LEMMA QuotaPreserved == IInv /\ [Next]_vars => QuotaKept'
<1> SUFFICES ASSUME IInv, [Next]_vars PROVE QuotaKept'
  OBVIOUS
<1>0. TypeOK /\ Placed /\ SlotsHeld /\ Shown
  BY OnePlaceParts DEF IInv
<1>f. \A S : S \subseteq Execs => IsFiniteSet(S) /\ Cardinality(S) \in Nat
  BY ExecAssumption, FS_Subset, FS_CardinalityType
<1> SUFFICES ASSUME NEW o \in Objects
             PROVE  Cardinality(RunsOn(o))' <= QuotaMax[Shows[o]]
  BY DEF QuotaKept, RunsOn
<1>1. /\ RunsOn(o) \subseteq Execs /\ RunsOn(o)' \subseteq Execs
      /\ executions[o] \subseteq Execs
      /\ QuotaMax[Shows[o]] \in Nat
      /\ Cardinality(RunsOn(o)) <= QuotaMax[Shows[o]]
  BY <1>0, RobotAssumption DEF RunsOn, TypeOK, IInv, QuotaKept
<1>2. \A x \in Execs : run[x] \in Running /\ obj'[x] = o => obj[x] = o
  <2>1. CASE UNCHANGED vars
    BY <2>1 DEF vars, callVars
  <2>2. CASE Next
    BY <2>2, ObjKept DEF Running
  <2> QED
    BY <2>1, <2>2
<1>3. CASE RunsOn(o)' \subseteq RunsOn(o)
  BY <1>f, <1>1, <1>3, FS_Subset
<1>4. ASSUME NEW x \in RunsOn(o)', x \notin RunsOn(o)
      PROVE  Cardinality(RunsOn(o))' <= QuotaMax[Shows[o]]
  <2>1. x \in Execs \ Controlled /\ run'[x] \in Running /\ obj'[x] = o
    BY <1>4 DEF RunsOn
  <2>2. run[x] \notin Running
    BY <1>2, <1>4, <2>1 DEF RunsOn
  <2>3. PICK w \in Workers : Acquire(w) /\ job[w] = x /\ SlotFree(x)
    BY <2>1, <2>2, RunsByAcquire
  <2>4. obj' = obj /\ \A y \in Execs : y # x => run'[y] = run[y]
    BY <1>0, <2>3 DEF Acquire, callVars, TypeOK
  <2>5. RunsOn(o)' \subseteq RunsOn(o) \cup {x}
    BY <2>4 DEF RunsOn
  <2>6. RunsOn(o) \subseteq executions[o]
    BY <1>0 DEF RunsOn, SlotsHeld
  <2>7. Shows[o] = RobotOf[x] /\ obj[x] = o
    BY <1>0, <2>1, <2>4, PoolAssumption DEF Shown
  <2>8. Cardinality(executions[o]) < QuotaMax[Shows[o]]
    BY <2>3, <2>7 DEF SlotFree, CanRun
  <2>9. Cardinality(RunsOn(o)) <= Cardinality(executions[o])
    BY <1>f, <1>1, <2>6, FS_Subset
  <2>10. Cardinality(RunsOn(o) \cup {x}) = Cardinality(RunsOn(o)) + 1
    BY <1>f, <1>1, <1>4, FS_AddElement
  <2>11. Cardinality(RunsOn(o)') <= Cardinality(RunsOn(o) \cup {x})
    <3>1. RunsOn(o) \cup {x} \subseteq Execs
      BY <1>1, <2>1
    <3> QED
      BY <1>f, <2>5, <3>1, FS_Subset
  <2>12. /\ Cardinality(RunsOn(o)) \in Nat /\ Cardinality(executions[o]) \in Nat
         /\ Cardinality(RunsOn(o)') \in Nat
    BY <1>f, <1>1
  <2> QED
    BY <1>1, <2>8, <2>9, <2>10, <2>11, <2>12
<1> QED
  BY <1>3, <1>4

-----------------------------------------------------------------------------
(***************************************************************************)
(* The theorems                                                            *)
(***************************************************************************)

\* The inductive invariant holds in every state the scheduler reaches.
THEOREM Invariance == Spec => []IInv
<1>1. Init => IInv
  BY InitIInv
<1>2. IInv /\ [Next]_vars => IInv'
  <2>1. IInv /\ [Next]_vars => OnePlace'
    <3>1. IInv /\ [Next]_vars => Ranked' /\ Placed'
      BY RanksPreserved, PlacedPreserved
    <3>2. Ranked' /\ Placed' => OnePlace'
      BY DEF OnePlace, Ranked, Placed, Queued
    <3> QED
      BY <3>1, <3>2
  <2> QED
    BY <2>1, TypePreserved, ShownPreserved, StagesPreserved, FoundPreserved,
       UncontrolledPreserved, TrackedFirstPreserved, AccountingPreserved, SlotsPreserved,
       QuotaPreserved, ControlReachesPreserved DEF IInv
<1> QED
  BY <1>1, <1>2, PTL DEF Spec

\* The manager, the queue, the controller and the executions stay within their
\* types: no count falls below zero and no phase is run beyond the last.
THEOREM TypeCorrect == Spec => []TypeOK
<1>1. IInv => TypeOK
  BY DEF IInv
<1> QED
  BY <1>1, Invariance, PTL

\* Whatever is queued, refused, taken, requeued or dropped, the count that the
\* queue keeps per robot is right, and both limits hold (queue.go).
THEOREM QueueAccounted == Spec => []QueueAccounting
<1>1. IInv => QueueAccounting
  BY DEF IInv
<1> QED
  BY <1>1, Invariance, PTL

\* An accepted item is in the queue or with one worker, never in both or with
\* two, and no two items share a rank in the queue (queue.go, worker.go).
THEOREM PlacedOnce == Spec => []OnePlace
<1>1. IInv => OnePlace
  BY DEF IInv
<1> QED
  BY <1>1, Invariance, PTL

\* The executions that nobody pauses, resumes or stops hold a slot exactly as
\* long as they run or are suspended, on the object they began with, through
\* every reload of the cache (executor.go, cache).
THEOREM SlotsMatch == Spec => []SlotsHeld
<1>1. IInv => SlotsHeld
  BY DEF IInv
<1> QED
  BY <1>1, Invariance, PTL

\* However many workers take items of a robot at once, TryAcquireSlot keeps the
\* executions that run on one object within Quota.Max (robot.go).
THEOREM QuotaNeverPassed == Spec => []QuotaKept
<1>1. IInv => QuotaKept
  BY DEF IInv
<1> QED
  BY <1>1, Invariance, PTL

\* A clock or manual trigger can be paused and stopped as long as its execution
\* is queued or runs, and leaves nothing in the controller when it is over
\* (manager.go).
THEOREM ControlAlwaysReaches == Spec => []ControlReaches
<1>1. IInv => ControlReaches
  BY DEF IInv
<1> QED
  BY <1>1, Invariance, PTL

\* For any robot priorities, the single number of calculatePriority gives the
\* order by robot, then trigger, then waiting time (queue.go).
LEMMA ScoreOrders ==
  ASSUME NEW x \in Execs, NEW y \in Execs
  PROVE  /\ Score(y) < Score(x) => 
              \/ Priority[RobotOf[y]] < Priority[RobotOf[x]]
              \/ Priority[RobotOf[y]] = Priority[RobotOf[x]] /\ Urgency[y] < Urgency[x]
         /\ Score(y) = Score(x) =>
              Priority[RobotOf[y]] = Priority[RobotOf[x]] /\ Urgency[y] = Urgency[x]
<1>1. /\ Priority[RobotOf[x]] \in Nat /\ Priority[RobotOf[y]] \in Nat
      /\ Urgency[x] \in {1, 5, 10} /\ Urgency[y] \in {1, 5, 10}
  BY ExecAssumption, RobotAssumption
<1> QED
  BY <1>1 DEF Score

LEMMA StepMostUrgent ==
  ASSUME TypeOK, [Next]_vars, NEW x \in Queued, NEW y \in Queued, stamp'[x] = 0
  PROVE  LET r == RobotOf[x]  s == RobotOf[y] IN
         /\ Priority[s] <= Priority[r]
         /\ Priority[s] = Priority[r] => Urgency[y] <= Urgency[x]
         /\ Priority[s] = Priority[r] /\ Urgency[y] = Urgency[x]
              => stamp[x] <= stamp[y]
<1>t. /\ stamp \in [Execs -> Nat] /\ x \in Execs /\ y \in Execs
      /\ stamp[x] # 0 /\ Cardinality(Queued) \in Nat
  BY QueuedFinite DEF TypeOK, Queued
<1>1. Foremost(x)
  <2>1. CASE Aside
    BY <1>t, <2>1, AsideLeaves
  <2>2. CASE \E z \in Execs : Submit(z)
    BY <1>t, <2>2 DEF Submit, Enqueue, queueVars
  <2>3. ASSUME NEW w \in Workers, Pool(w) PROVE Foremost(x)
    <3>1. CASE Dequeue(w)
      <4>1. PICK z \in Queued : Foremost(z) /\ stamp' = Popped(z)
        BY <3>1 DEF Dequeue
      <4>2. z = x
        BY <1>t, <4>1 DEF Popped, Queued
      <4> QED
        BY <4>1, <4>2
    <3>2. CASE PreCheck(w) \/ Acquire(w) \/ Requeue(w)
      BY <1>t, <3>2 DEF PreCheck, Acquire, Requeue, Enqueue, queueVars
    <3> QED
      BY <2>3, <3>1, <3>2 DEF Pool
  <2>4. ASSUME NEW w \in Workers, Executor(w) PROVE Foremost(x)
    BY <1>t, <2>4 DEF Executor, BeginPhase, PauseCheck, Wake, EndPhase, SuspendPhase,
       Release, Untrack, Complete, queueVars
  <2> QED
    BY <2>1, <2>2, <2>3, <2>4, StepKinds
<1>2. \/ Score(y) < Score(x)
      \/ Score(y) = Score(x) /\ stamp[x] <= stamp[y]
  BY <1>1 DEF Foremost
<1>3. /\ Priority[RobotOf[x]] \in Nat /\ Priority[RobotOf[y]] \in Nat
      /\ Urgency[x] \in {1, 5, 10} /\ Urgency[y] \in {1, 5, 10}
  BY <1>t, ExecAssumption, RobotAssumption
<1> QED
  BY <1>t, <1>2, <1>3, ScoreOrders

\* A worker never takes an item while a more urgent one is queued.
THEOREM MostUrgentIsTaken == Spec => MostUrgentFirst
<1>1. TypeOK /\ [Next]_vars =>
        [\A x, y \in Queued :
           stamp'[x] = 0 =>
             LET r == RobotOf[x]  s == RobotOf[y] IN
             /\ Priority[s] <= Priority[r]
             /\ Priority[s] = Priority[r] => Urgency[y] <= Urgency[x]
             /\ Priority[s] = Priority[r] /\ Urgency[y] = Urgency[x]
                  => stamp[x] <= stamp[y]]_vars
  BY StepMostUrgent
<1> QED
  BY <1>1, TypeCorrect, PTL DEF Spec, MostUrgentFirst

=============================================================================
