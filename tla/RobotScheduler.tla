--------------------------- MODULE RobotScheduler ---------------------------
(***************************************************************************)
(* The scheduler of agent/robot: the manager and its cache of robots, the  *)
(* priority queue and the workers of the pool, the execution controller    *)
(* (pause, resume, stop), and the skeleton of the executor that they drive *)
(* (slot, phases, suspension, cleanup).                                    *)
(*                                                                         *)
(* An element of Execs is one trigger, of one robot, and the execution it  *)
(* leads to; an element of Objects is one *types.Robot that a load from    *)
(* the database may make.  A step is what one goroutine does between two   *)
(* points where another can be observed.  The stored records, the clock    *)
(* and what a phase does are left out.                                     *)
(***************************************************************************)
EXTENDS Integers, FiniteSets

CONSTANTS Ticks,      \* executions that Manager.Tick starts
          Manuals,    \* executions that TriggerManual starts
          Requests,   \* executions that Intervene or HandleEvent starts
          Robots,     \* member identifiers
          RobotOf,    \* the robot of an execution
          Urgency,    \* getTriggerPriority of its trigger
          Priority,   \* Quota.GetPriority of a robot
          QuotaMax,   \* Quota.GetMax of a robot
          QuotaQueue, \* Quota.GetQueue of a robot
          Autonomous, \* robots that cache.Load loads
          Daemons,    \* robots whose clock is in daemon mode
          Objects,    \* the robot objects that can be made (a bound)
          Shows,      \* the robot an object stands for
          Workers,    \* workers of the pool
          MaxQueue,   \* PriorityQueue.maxSize
          Phases,     \* number of phases of an execution
          Controlled, \* executions somebody may pause, resume or stop
          Asking,     \* executions whose phases may ask for human input
          None

Managed == Ticks \cup Manuals
Execs == Managed \cup Requests

ASSUME ExecAssumption ==
  /\ Ticks \cap Manuals = {} /\ Managed \cap Requests = {}
  /\ IsFiniteSet(Execs)
  /\ RobotOf \in [Execs -> Robots]
  /\ Urgency \in [Execs -> {1, 5, 10}]
  /\ Controlled \subseteq Execs /\ Asking \subseteq Execs

ASSUME RobotAssumption ==
  /\ Priority \in [Robots -> Nat \ {0}]
  /\ QuotaMax \in [Robots -> Nat \ {0}]
  /\ QuotaQueue \in [Robots -> Nat \ {0}]
  /\ Autonomous \subseteq Robots /\ Daemons \subseteq Robots
  /\ Shows \in [Objects -> Robots]

ASSUME PoolAssumption ==
  /\ MaxQueue \in Nat \ {0}
  /\ Phases \in Nat
  /\ None \notin Execs \cup Objects

VARIABLES
  mgr,        \* Manager.started, Pool.started and how far Stop has come
  cached,     \* Cache.robots: the object of a robot, or None
  used,       \* the objects made so far
  loading,    \* robots that a running Cache.Load has yet to add
  executions, \* Robot.executions, per object
  stamp,      \* rank of an item's EnqueueTime in the queue, 0 when not queued
  robotCount, \* PriorityQueue.robotCount
  call,       \* how far the triggering call has come
  obj,        \* the robot object it got, which the queue item carries
  lazy,       \* calls that loaded that object themselves (lazyLoaded)
  cleaners,   \* calls whose scheduleCleanup goroutine is running
  alive,      \* worker goroutines that have not returned
  job,        \* the item a worker is at, or None
  run,        \* how far the execution has come
  left,       \* phases it has left
  tracked,    \* ExecutionController.executions
  paused,     \* ControlledExecution.paused
  woken,      \* executions whose resumeCh was closed while they wait for it
  cancelled,  \* executions whose controlled context is done
  pend        \* changes of Robot.executions a control call has yet to make

cacheVars == <<cached, used, loading>>
queueVars == <<stamp, robotCount>>
callVars == <<call, obj, lazy, cleaners>>
workVars == <<alive, job, run, left>>
controlVars == <<tracked, paused, woken, cancelled, pend>>
vars == <<mgr, cacheVars, executions, queueVars, callVars, workVars, controlVars>>

CallStates == {"idle", "loading", "found", "tracked", "submitted", "rejected",
               "refused", "accepted"}
\* a worker holds the item
HeldStates == {"taken", "starting", "requeue", "between", "pauseCheck", "waiting",
               "phase", "ending", "released", "untracked"}
RunStates == {"none", "queued", "suspended", "dropped", "done"} \cup HeldStates

TypeOK ==
  /\ mgr \in {"new", "running", "stopping", "waiting", "stopped"}
  /\ cached \in [Robots -> Objects \cup {None}]
  /\ used \subseteq Objects
  /\ loading \subseteq Robots
  /\ executions \in [Objects -> SUBSET Execs]
  /\ stamp \in [Execs -> Nat]
  /\ robotCount \in [Robots -> Nat]
  /\ call \in [Execs -> CallStates]
  /\ obj \in [Execs -> Objects \cup {None}]
  /\ lazy \subseteq Execs
  /\ cleaners \subseteq Execs
  /\ alive \subseteq Workers
  /\ job \in [Workers -> Execs \cup {None}]
  /\ run \in [Execs -> RunStates]
  /\ left \in [Execs -> 0 .. Phases]
  /\ tracked \subseteq Execs
  /\ paused \subseteq Execs
  /\ woken \subseteq Execs
  /\ cancelled \subseteq Execs
  /\ pend \in [Execs -> SUBSET {"add", "remove"}]

Init ==
  /\ mgr = "new"
  /\ cached = [r \in Robots |-> None]
  /\ used = {}
  /\ loading = {}
  /\ executions = [o \in Objects |-> {}]
  /\ stamp = [x \in Execs |-> 0]
  /\ robotCount = [r \in Robots |-> 0]
  /\ call = [x \in Execs |-> "idle"]
  /\ obj = [x \in Execs |-> None]
  /\ lazy = {}
  /\ cleaners = {}
  /\ alive = {}
  /\ job = [w \in Workers |-> None]
  /\ run = [x \in Execs |-> "none"]
  /\ left = [x \in Execs |-> Phases]
  /\ tracked = {}
  /\ paused = {}
  /\ woken = {}
  /\ cancelled = {}
  /\ pend = [x \in Execs |-> {}]

\* an object that a load of robot r can make
Fresh(r) == {o \in Objects \ used : Shows[o] = r}

-----------------------------------------------------------------------------
(***************************************************************************)
(* Manager.Start and Manager.Stop; api/lifecycle.go makes a new manager    *)
(* for every start, and its getManager lets nobody in while Stop waits     *)
(***************************************************************************)

\* cache.Load and pool.Start, under Manager.mu
Start ==
  /\ mgr = "new"
  /\ mgr' = "running"
  /\ \E f \in [Autonomous -> Objects] :
       /\ \A r \in Autonomous : f[r] \in Fresh(r)
       /\ cached' = [r \in Robots |-> IF r \in Autonomous THEN f[r] ELSE None]
       /\ used' = {f[r] : r \in Autonomous}
  /\ alive' = Workers
  /\ UNCHANGED <<loading, executions, queueVars, callVars, job, run, left, controlVars>>

\* started = false, and the ticker and the refresher are told to end
StopBegin ==
  /\ mgr = "running"
  /\ mgr' = "stopping"
  /\ UNCHANGED <<cacheVars, executions, queueVars, callVars, workVars, controlVars>>

\* Pool.Stop: started = false and every worker's stopChan is closed
StopPool ==
  /\ mgr = "stopping"
  /\ mgr' = "waiting"
  /\ UNCHANGED <<cacheVars, executions, queueVars, callVars, workVars, controlVars>>

\* Pool.Stop: wg.Wait()
StopEnd ==
  /\ mgr = "waiting"
  /\ alive = {}
  /\ mgr' = "stopped"
  /\ UNCHANGED <<cacheVars, executions, queueVars, callVars, workVars, controlVars>>

-----------------------------------------------------------------------------
(***************************************************************************)
(* The cache of robots                                                     *)
(***************************************************************************)

\* the hourly Cache.Load: the maps are emptied, then the robots added
RefreshAllBegin ==
  /\ mgr = "running"
  /\ loading = {}
  /\ \A r \in Autonomous : Fresh(r) # {}
  /\ cached' = [r \in Robots |-> None]
  /\ loading' = Autonomous
  /\ UNCHANGED <<mgr, used, executions, queueVars, callVars, workVars, controlVars>>

RefreshAllAdd(r) ==
  /\ r \in loading
  /\ loading' = loading \ {r}
  /\ \E o \in Fresh(r) : cached' = [cached EXCEPT ![r] = o] /\ used' = used \cup {o}
  /\ UNCHANGED <<mgr, executions, queueVars, callVars, workVars, controlVars>>

\* Cache.Refresh, after a robot was changed through the API
RefreshOne(r) ==
  /\ mgr = "running"
  /\ \/ /\ r \in Autonomous
        /\ \E o \in Fresh(r) : cached' = [cached EXCEPT ![r] = o] /\ used' = used \cup {o}
     \/ /\ r \notin Autonomous
        /\ cached[r] # None
        /\ cached' = [cached EXCEPT ![r] = None]
        /\ UNCHANGED used
  /\ UNCHANGED <<mgr, loading, executions, queueVars, callVars, workVars, controlVars>>

\* a tick of scheduleCleanup (its timeout of 24 hours is left out)
Cleanup(x) ==
  LET r == RobotOf[x] IN
  /\ x \in cleaners
  /\ cached[r] # None => executions[cached[r]] = {}
  /\ cleaners' = cleaners \ {x}
  /\ cached' = IF r \in Autonomous THEN cached ELSE [cached EXCEPT ![r] = None]
  /\ UNCHANGED <<mgr, used, loading, executions, queueVars, call, obj, lazy,
                 workVars, controlVars>>

-----------------------------------------------------------------------------
(***************************************************************************)
(* Tick, TriggerManual, Intervene and HandleEvent                          *)
(***************************************************************************)

\* Robot.CanRun
CanRun(o, r) == Cardinality(executions[o]) < QuotaMax[r]

\* started, then the robot from the cache; a tick only sees robots that are
\* cached and that their clock says are due, in daemon mode those that CanRun
Lookup(x) ==
  LET r == RobotOf[x] IN
  /\ call[x] = "idle"
  /\ mgr = "running"
  /\ \/ /\ cached[r] # None
        /\ x \in Ticks /\ r \in Daemons => CanRun(cached[r], r)
        /\ call' = [call EXCEPT ![x] = "found"]
        /\ obj' = [obj EXCEPT ![x] = cached[r]]
     \/ /\ cached[r] = None
        /\ x \notin Ticks
        /\ call' = [call EXCEPT ![x] = "loading"]
        /\ UNCHANGED obj
  /\ UNCHANGED <<mgr, cacheVars, executions, queueVars, lazy, cleaners,
                 workVars, controlVars>>

\* getOrLoadRobot: LoadByID and Add
LazyLoad(x) ==
  /\ call[x] = "loading"
  /\ call' = [call EXCEPT ![x] = "found"]
  /\ \E o \in Fresh(RobotOf[x]) :
       /\ cached' = [cached EXCEPT ![RobotOf[x]] = o]
       /\ used' = used \cup {o}
       /\ obj' = [obj EXCEPT ![x] = o]
  /\ lazy' = lazy \cup {x}
  /\ UNCHANGED <<mgr, loading, executions, queueVars, cleaners, workVars, controlVars>>

\* no such robot, or it is paused or the trigger disabled: an error, and a robot
\* loaded for it stays; or Intervene only plans, and removes such a robot
Decline(x) ==
  /\ x \notin Ticks
  /\ call' = [call EXCEPT ![x] = "refused"]
  /\ \/ call[x] \in {"loading", "found"} /\ UNCHANGED cached
     \/ /\ call[x] = "found" /\ x \in Requests \cap lazy
        /\ cached' = [cached EXCEPT ![RobotOf[x]] = None]
  /\ UNCHANGED <<mgr, used, loading, executions, queueVars, obj, lazy, cleaners,
                 workVars, controlVars>>

\* an entry point that tracks an execution after it has submitted it
TracksLast(x) == FALSE

\* Tick and TriggerManual track it first and pass the control on
TracksFirst(x) == x \in Managed

\* ExecutionController.Track: a new entry, neither paused nor cancelled
Track(x) ==
  /\ call[x] = "found"
  /\ TracksFirst(x)
  /\ call' = [call EXCEPT ![x] = "tracked"]
  /\ tracked' = tracked \cup {x}
  /\ UNCHANGED <<mgr, cacheVars, executions, queueVars, obj, lazy, cleaners,
                 workVars, paused, woken, cancelled, pend>>

Queued == {x \in Execs : stamp[x] # 0}

\* PriorityQueue.Enqueue: room in the queue and in the robot's share of it
HasRoom(x) ==
  /\ Cardinality(Queued) < MaxQueue
  /\ robotCount[RobotOf[x]] < QuotaQueue[RobotOf[x]]

\* an item that takes its former place when it comes back
EnqueueFirst(x) ==
  /\ stamp' = [y \in Execs |-> IF y = x THEN 1
                              ELSE IF y \in Queued THEN stamp[y] + 1 ELSE 0]
  /\ robotCount' = [robotCount EXCEPT ![RobotOf[x]] = @ + 1]

Enqueue(x) ==
  /\ stamp' = [stamp EXCEPT ![x] = Cardinality(Queued) + 1]
  /\ robotCount' = [robotCount EXCEPT ![RobotOf[x]] = @ + 1]

\* submitWithIDAndMode: the pool is started and the queue has room, or an error
Submit(x) ==
  /\ call[x] = IF TracksFirst(x) THEN "tracked" ELSE "found"
  /\ \/ /\ mgr \in {"running", "stopping"} /\ HasRoom(x)
        /\ Enqueue(x)
        /\ call' = [call EXCEPT ![x] = "submitted"]
        /\ run' = [run EXCEPT ![x] = "queued"]
     \/ /\ mgr \notin {"running", "stopping"} \/ ~HasRoom(x)
        /\ call' = [call EXCEPT ![x] = "rejected"]
        /\ UNCHANGED <<queueVars, run>>
  /\ UNCHANGED <<mgr, cacheVars, executions, obj, lazy, cleaners, alive, job,
                 left, controlVars>>

\* after a submission that failed: Untrack, and Remove of a robot loaded for it
Reject(x) ==
  /\ call[x] = "rejected"
  /\ call' = [call EXCEPT ![x] = "refused"]
  /\ tracked' = tracked \ {x}
  /\ cached' = IF x \in lazy THEN [cached EXCEPT ![RobotOf[x]] = None] ELSE cached
  /\ UNCHANGED <<mgr, used, loading, executions, queueVars, obj, lazy, cleaners,
                 workVars, paused, woken, cancelled, pend>>

\* after one that succeeded: Intervene and HandleEvent track the execution now;
\* scheduleCleanup for a robot loaded for it
Accept(x) ==
  /\ call[x] = "submitted"
  /\ call' = [call EXCEPT ![x] = "accepted"]
  /\ tracked' = IF TracksFirst(x) THEN tracked ELSE tracked \cup {x}
  /\ cleaners' = IF x \in lazy THEN cleaners \cup {x} ELSE cleaners
  /\ UNCHANGED <<mgr, cacheVars, executions, queueVars, obj, lazy, workVars,
                 paused, woken, cancelled, pend>>

-----------------------------------------------------------------------------
(***************************************************************************)
(* The workers of the pool                                                 *)
(***************************************************************************)

\* a robot priority that a trigger can outweigh
FlatScore(x) == Priority[RobotOf[x]] * 100 + Urgency[x] * 100

\* calculatePriority
Score(x) == Priority[RobotOf[x]] * 1000 + Urgency[x] * 100

\* PriorityQueue.Less: x comes before every other item
Foremost(x) ==
  \A y \in Queued : Score(y) < Score(x) \/ (Score(y) = Score(x) /\ stamp[x] <= stamp[y])

\* a counter that forgets the item that leaves
CountKept(r) == robotCount

\* PriorityQueue.Dequeue: robotCount[memberID]--
CountLess(r) == [robotCount EXCEPT ![r] = @ - 1]

\* a queue that shows its first item and keeps it
Peeked(x) == stamp

\* heap.Pop: the item leaves the queue
Popped(x) ==
  [y \in Execs |-> IF y = x THEN 0
                   ELSE IF stamp[y] > stamp[x] THEN stamp[y] - 1
                   ELSE stamp[y]]

\* PriorityQueue.Dequeue by a worker whose ticker fires (after stopChan is
\* closed, too: select picks either)
Dequeue(w) ==
  /\ w \in alive
  /\ job[w] = None
  /\ \E x \in Queued :
       /\ Foremost(x)
       /\ job' = [job EXCEPT ![w] = x]
       /\ stamp' = Popped(x)
       /\ robotCount' = CountLess(RobotOf[x])
       /\ run' = [run EXCEPT ![x] = "taken"]
  /\ UNCHANGED <<mgr, cacheVars, executions, callVars, alive, left, controlVars>>

\* workers that empty the queue before they leave
StopWhenDrained == mgr = "waiting" /\ Queued = {}

\* stopChan is closed
StopTold == mgr = "waiting"

\* the select sees it
WorkerExit(w) ==
  /\ w \in alive
  /\ job[w] = None
  /\ StopTold
  /\ alive' = alive \ {w}
  /\ UNCHANGED <<mgr, cacheVars, executions, queueVars, callVars, job, run, left,
                 controlVars>>

\* execute: the CanRun pre-check
PreCheck(w) ==
  LET x == job[w] IN
  /\ x # None /\ run[x] = "taken"
  /\ run' = [run EXCEPT ![x] = IF CanRun(obj[x], RobotOf[x]) THEN "starting" ELSE "requeue"]
  /\ UNCHANGED <<mgr, cacheVars, executions, queueVars, callVars, alive, job, left,
                 controlVars>>

\* an executor that trusts the pre-check
TrustPreCheck(x) == TRUE

\* Robot.TryAcquireSlot: its check
SlotFree(x) == CanRun(obj[x], RobotOf[x])

\* an executor that adds the execution, looks for its slot, and leaves it there
\* when it is refused
AddsFirst(w) ==
  LET x == job[w] IN
  /\ x # None /\ run[x] = "starting"
  /\ executions' = [executions EXCEPT ![obj[x]] = @ \cup {x}]
  /\ run' = [run EXCEPT ![x] = IF SlotFree(x) THEN "between" ELSE "requeue"]
  /\ UNCHANGED <<mgr, cacheVars, queueVars, callVars, alive, job, left, controlVars>>

\* ExecuteWithControl: TryAcquireSlot, or ErrQuotaExceeded
Acquire(w) ==
  LET x == job[w] IN
  /\ x # None /\ run[x] = "starting"
  /\ \/ /\ SlotFree(x)
        /\ executions' = [executions EXCEPT ![obj[x]] = @ \cup {x}]
        /\ run' = [run EXCEPT ![x] = "between"]
     \/ /\ ~SlotFree(x)
        /\ run' = [run EXCEPT ![x] = "requeue"]
        /\ UNCHANGED executions
  /\ UNCHANGED <<mgr, cacheVars, queueVars, callVars, alive, job, left, controlVars>>

\* requeue: back in the queue, or dropped without a word when it is full
Requeue(w) ==
  LET x == job[w] IN
  /\ x # None /\ run[x] = "requeue"
  /\ job' = [job EXCEPT ![w] = None]
  /\ \/ /\ HasRoom(x)
        /\ Enqueue(x)
        /\ run' = [run EXCEPT ![x] = "queued"]
     \/ /\ ~HasRoom(x)
        /\ run' = [run EXCEPT ![x] = "dropped"]
        /\ UNCHANGED queueVars
  /\ UNCHANGED <<mgr, cacheVars, executions, callVars, alive, left, controlVars>>

-----------------------------------------------------------------------------
(***************************************************************************)
(* ExecuteWithControl, with a slot                                         *)
(***************************************************************************)

\* the head of the phase loop and of runPhase: all phases done, the context done
\* (the controlled one, or for Intervene and HandleEvent that of their caller,
\* who may be gone), or go on
BeginPhase(w) ==
  LET x == job[w]
      over == left[x] = 0 \/ (x \in Managed /\ x \in cancelled) IN
  /\ x # None /\ run[x] = "between"
  /\ \/ /\ over \/ x \in Requests
        /\ run' = [run EXCEPT ![x] = "ending"]
     \/ /\ ~over
        /\ run' = [run EXCEPT ![x] = "pauseCheck"]
  /\ UNCHANGED <<mgr, cacheVars, executions, queueVars, callVars, alive, job, left,
                 controlVars>>

\* WaitIfPaused, up to its select; Intervene and HandleEvent have no control
PauseCheck(w) ==
  LET x == job[w] IN
  /\ x # None /\ run[x] = "pauseCheck"
  /\ run' = [run EXCEPT ![x] = IF x \in Managed /\ x \in paused THEN "waiting" ELSE "phase"]
  /\ UNCHANGED <<mgr, cacheVars, executions, queueVars, callVars, alive, job, left,
                 controlVars>>

\* a select that waits for resumeCh alone
CancelUnseen(x) == FALSE

\* the select's case <-e.ctx.Done()
CancelSeen(x) == x \in cancelled

\* a wait that looks at the flag again when resumeCh is closed
ResumeChecked(x) == x \in woken \ paused

\* the select's case <-resumeCh
ResumeSeen(x) == x \in woken

\* WaitIfPaused: resumeCh is closed, or the context is done
Wake(w) ==
  LET x == job[w] IN
  /\ x # None /\ run[x] = "waiting"
  /\ \/ ResumeSeen(x) /\ run' = [run EXCEPT ![x] = "phase"]
     \/ CancelSeen(x) /\ run' = [run EXCEPT ![x] = "ending"]
  /\ woken' = woken \ {x}
  /\ UNCHANGED <<mgr, cacheVars, executions, queueVars, callVars, alive, job, left,
                 tracked, paused, cancelled, pend>>

\* a phase succeeds or fails
EndPhase(w) ==
  LET x == job[w] IN
  /\ x # None /\ run[x] = "phase"
  /\ \/ /\ run' = [run EXCEPT ![x] = "between"]
        /\ left' = [left EXCEPT ![x] = @ - 1]
     \/ /\ run' = [run EXCEPT ![x] = "ending"]
        /\ UNCHANGED left
  /\ UNCHANGED <<mgr, cacheVars, executions, queueVars, callVars, alive, job, controlVars>>

\* a phase suspends the execution: it keeps its slot and its tracking, and the
\* worker goes on
SuspendPhase(w) ==
  LET x == job[w] IN
  /\ x \in Asking /\ run[x] = "phase"
  /\ run' = [run EXCEPT ![x] = "suspended"]
  /\ job' = [job EXCEPT ![w] = None]
  /\ UNCHANGED <<mgr, cacheVars, executions, queueVars, callVars, alive, left, controlVars>>

\* an executor that leaves the slot to onComplete
SlotKept(x) == executions

\* Robot.RemoveExecution on the object the execution runs on
SlotGiven(x) == [executions EXCEPT ![obj[x]] = @ \ {x}]

\* the deferred call
Release(w) ==
  LET x == job[w] IN
  /\ x # None /\ run[x] = "ending"
  /\ executions' = SlotGiven(x)
  /\ run' = [run EXCEPT ![x] = "released"]
  /\ UNCHANGED <<mgr, cacheVars, queueVars, callVars, alive, job, left, controlVars>>

\* onComplete: Untrack
Untrack(w) ==
  LET x == job[w] IN
  /\ x # None /\ run[x] = "released"
  /\ tracked' = tracked \ {x}
  /\ run' = [run EXCEPT ![x] = "untracked"]
  /\ UNCHANGED <<mgr, cacheVars, executions, queueVars, callVars, alive, job, left,
                 paused, woken, cancelled, pend>>

\* an object that forgets whatever runs on it
ForgetAll(x) ==
  LET o == cached[RobotOf[x]] IN
  executions' = IF o = None THEN executions ELSE [executions EXCEPT ![o] = {}]

\* Robot.RemoveExecution on the object in the cache, if there is one
Forget(x) ==
  LET o == cached[RobotOf[x]] IN
  executions' = IF o = None THEN executions ELSE [executions EXCEPT ![o] = @ \ {x}]

\* onComplete: RemoveExecution; the worker is free
Complete(w) ==
  LET x == job[w] IN
  /\ x # None /\ run[x] = "untracked"
  /\ Forget(x)
  /\ run' = [run EXCEPT ![x] = "done"]
  /\ job' = [job EXCEPT ![w] = None]
  /\ UNCHANGED <<mgr, cacheVars, queueVars, callVars, alive, left, controlVars>>

-----------------------------------------------------------------------------
(***************************************************************************)
(* PauseExecution, ResumeExecution and StopExecution: the change of the    *)
(* controlled execution, then that of Robot.executions                     *)
(***************************************************************************)

MayControl(x) == x \in Controlled /\ x \in tracked /\ mgr = "running"

PauseExecution(x) ==
  /\ MayControl(x)
  /\ x \notin paused
  /\ paused' = paused \cup {x}
  /\ pend' = [pend EXCEPT ![x] = @ \cup {"remove"}]
  /\ UNCHANGED <<mgr, cacheVars, executions, queueVars, callVars, workVars,
                 tracked, woken, cancelled>>

\* closing resumeCh wakes the execution that waits for it
ResumeExecution(x) ==
  /\ MayControl(x)
  /\ x \in paused
  /\ paused' = paused \ {x}
  /\ woken' = IF run[x] = "waiting" THEN woken \cup {x} ELSE woken
  /\ pend' = [pend EXCEPT ![x] = @ \cup {"add"}]
  /\ UNCHANGED <<mgr, cacheVars, executions, queueVars, callVars, workVars,
                 tracked, cancelled>>

StopExecution(x) ==
  /\ MayControl(x)
  /\ tracked' = tracked \ {x}
  /\ cancelled' = cancelled \cup {x}
  /\ pend' = [pend EXCEPT ![x] = @ \cup {"remove"}]
  /\ UNCHANGED <<mgr, cacheVars, executions, queueVars, callVars, workVars,
                 paused, woken>>

\* a paused or stopped execution no longer counts as running
ForgetControlled(x) ==
  /\ "remove" \in pend[x]
  /\ Forget(x)
  /\ pend' = [pend EXCEPT ![x] = @ \ {"remove"}]
  /\ UNCHANGED <<mgr, cacheVars, queueVars, callVars, workVars, tracked, paused,
                 woken, cancelled>>

\* AddExecution, for a resumed one: no quota is looked at
AddResumed(x) ==
  LET o == cached[RobotOf[x]] IN
  /\ "add" \in pend[x]
  /\ executions' = IF o = None THEN executions ELSE [executions EXCEPT ![o] = @ \cup {x}]
  /\ pend' = [pend EXCEPT ![x] = @ \ {"add"}]
  /\ UNCHANGED <<mgr, cacheVars, queueVars, callVars, workVars, tracked, paused,
                 woken, cancelled>>

-----------------------------------------------------------------------------

Lifecycle == Start \/ StopBegin \/ StopPool \/ StopEnd

CacheStep ==
  \/ RefreshAllBegin
  \/ \E r \in Robots : RefreshAllAdd(r) \/ RefreshOne(r)
  \/ \E x \in Execs : Cleanup(x)

Caller(x) ==
  \/ Lookup(x) \/ LazyLoad(x) \/ Decline(x) \/ Track(x) \/ Submit(x) \/ Reject(x)
  \/ Accept(x)

Pool(w) == Dequeue(w) \/ PreCheck(w) \/ Acquire(w) \/ Requeue(w)

Executor(w) ==
  \/ BeginPhase(w) \/ PauseCheck(w) \/ Wake(w) \/ EndPhase(w) \/ SuspendPhase(w)
  \/ Release(w) \/ Untrack(w) \/ Complete(w)

Control(x) ==
  \/ PauseExecution(x) \/ ResumeExecution(x) \/ StopExecution(x)
  \/ ForgetControlled(x) \/ AddResumed(x)

Next ==
  \/ Lifecycle
  \/ CacheStep
  \/ \E x \in Execs : Caller(x) \/ Control(x)
  \/ \E w \in Workers : Pool(w) \/ WorkerExit(w) \/ Executor(w)

Spec == Init /\ [][Next]_vars

(***************************************************************************)
(* A worker that can go on does, phases end, and a call that has begun     *)
(* ends.  A worker told to stop polls again or leaves at random, hence     *)
(* the strong fairness of WorkerExit.  Nobody has to trigger, pause,       *)
(* resume or stop anything, nor to refresh or clean the cache.             *)
(***************************************************************************)
Fairness ==
  /\ WF_vars(StopPool) /\ WF_vars(StopEnd)
  /\ \A x \in Execs :
       /\ WF_vars(LazyLoad(x) \/ Decline(x) \/ Track(x) \/ Submit(x) \/ Reject(x) \/ Accept(x))
       /\ WF_vars(ForgetControlled(x)) /\ WF_vars(AddResumed(x))
  /\ \A w \in Workers : WF_vars(Pool(w) \/ Executor(w)) /\ SF_vars(WorkerExit(w))

FairSpec == Spec /\ Fairness

-----------------------------------------------------------------------------
(***************************************************************************)
(* Safety                                                                  *)
(***************************************************************************)

\* between TryAcquireSlot and the deferred RemoveExecution
Running == {"between", "pauseCheck", "waiting", "phase", "ending"}

\* PriorityQueue.robotCount is kept apart from the heap: over requeues, drops
\* and refused submissions it counts the robot's items, so that a robot is
\* never locked out of the queue, and neither limit is passed.
QueueAccounting ==
  /\ Cardinality(Queued) <= MaxQueue
  /\ \A r \in Robots :
       /\ robotCount[r] = Cardinality({x \in Queued : RobotOf[x] = r})
       /\ robotCount[r] <= QuotaQueue[r]

\* An accepted item is in one place only (worker.go, execute and requeue): in
\* the queue, in the hands of one worker, or finished with; so no execution is
\* run twice or lost, and the ranks in the queue are those of a list.
OnePlace ==
  /\ \A x \in Execs :
       /\ x \in Queued <=> run[x] = "queued"
       /\ run[x] \in HeldStates <=> \E w \in Workers : job[w] = x
       /\ x \in Queued => stamp[x] <= Cardinality(Queued)
  /\ \A v, w \in Workers : job[v] = job[w] /\ job[v] # None => v = w
  /\ \A x, y \in Queued : stamp[x] = stamp[y] => x = y

\* "up to Quota.Max" (robot.go): however many workers pass the pre-check at
\* once, the executions that run on one robot object, those that were paused,
\* resumed or stopped aside, are never more than its quota.
QuotaKept ==
  \A o \in Objects :
    Cardinality({x \in Execs \ Controlled : obj[x] = o /\ run[x] \in Running})
      <= QuotaMax[Shows[o]]

\* What runs holds a slot and what has finished holds none, on any object, also
\* when the cache has replaced the object in between (executor.go, the deferred
\* RemoveExecution, and manager.go, onComplete).
SlotsHeld ==
  \A x \in Execs \ Controlled, o \in Objects :
    x \in executions[o] <=> obj[x] = o /\ run[x] \in Running \cup {"suspended"}

\* "track BEFORE submit" (manager.go, Tick and TriggerManual): as long as such
\* an execution is queued or runs, its control can be found, unless it was
\* stopped, and once it is over nothing of it stays in the controller.
ControlReaches ==
  \A x \in Managed :
    /\ run[x] \in {"queued", "suspended"} \cup (HeldStates \ {"untracked"})
         => x \in tracked \/ x \in cancelled
    /\ run[x] \in {"untracked", "done"} => x \notin tracked

\* "Sorted by: robot priority > trigger type priority > wait time" (queue.go):
\* a worker never takes an item while a more urgent one is queued, although the
\* order goes through the single number of calculatePriority.
MostUrgentFirst ==
  [][\A x, y \in Queued :
       stamp'[x] = 0 =>
         LET r == RobotOf[x]  s == RobotOf[y] IN
         /\ Priority[s] <= Priority[r]
         /\ Priority[s] = Priority[r] => Urgency[y] <= Urgency[x]
         /\ Priority[s] = Priority[r] /\ Urgency[y] = Urgency[x]
              => stamp[x] <= stamp[y]]_vars

\* an execution and the queue, seen as those of SlotQueue
SeenAs(s) ==
  CASE s = "queued" -> "waiting"
    [] s \in {"taken", "starting"} -> "called"
    [] s = "requeue" -> "denied"
    [] s \in Running -> "running"
    [] s = "suspended" -> "asleep"
    [] s \in {"released", "untracked", "done"} -> "over"
    [] OTHER -> s

StageView == [x \in Execs |-> SeenAs(run[x])]
BeforeView == {p \in Queued \X Queued : stamp[p[1]] < stamp[p[2]]}
OnView == [x \in Execs |-> IF run[x] = "none" THEN None ELSE obj[x]]

Promise == INSTANCE SlotQueue WITH
  stage <- StageView, line <- Queued, before <- BeforeView, on <- OnView,
  holders <- executions

\* The pool keeps the promise of SlotQueue: whatever the callers, the cache and
\* the workers do in between, what is accepted waits in a bounded line, is taken
\* by urgency and then arrival, gets one of its robot's slots only when one is
\* free, goes to the end of the line or is dropped when none is, and keeps its
\* slot until its end; no control call touches the slot of another execution.
KeepsPromise == Promise!Spec

-----------------------------------------------------------------------------
(***************************************************************************)
(* Liveness                                                                *)
(***************************************************************************)

Over == {"suspended", "dropped", "done"}

\* "Task waits for robot quota" (worker.go, requeue): an execution that was
\* accepted, and taken and put back however often while others run on its robot
\* object, runs to its end or is dropped, unless the manager stops or one of
\* them suspends and keeps the slot: no slot is lost when an acquisition is
\* refused, an execution ends, or the cache replaces the object.  Pauses aside
\* (see ResumedRuns).
QueuedRuns ==
  \A x \in Execs :
    run[x] = "queued" ~> \/ run[x] \in Over \/ mgr # "running"
                         \/ \E y \in Execs : obj[y] = obj[x] /\ run[y] = "suspended"

\* An execution that is stopped comes to its end, also out of a pause, and one
\* that is resumed leaves its pause, also when it is paused again before it has
\* woken up (control.go, WaitIfPaused: "until the execution is resumed or
\* cancelled"): no wake-up is lost.
StoppedEnds ==
  \A x \in Managed :
    /\ (x \in cancelled /\ run[x] \in Running) ~> run[x] \in Over
    /\ (run[x] = "waiting" /\ x \notin paused) ~> run[x] # "waiting"

\* Manager.Stop returns (manager.go, Stop: "waits for running jobs"), whatever
\* is still queued, unless an execution is paused.
StopReturns ==
  mgr = "stopping" ~> mgr = "stopped" \/ \E x \in Execs : run[x] = "waiting"

-----------------------------------------------------------------------------
(***************************************************************************)
(* What the documentation says and the code does not do                    *)
(***************************************************************************)

\* robot.go: "Each Robot can run multiple Executions concurrently (up to
\* Quota.Max)".
UpToQuotaMax ==
  \A r \in Robots :
    Cardinality({x \in Execs : RobotOf[x] = r /\ run[x] = "phase"}) <= QuotaMax[r]

\* manager.go, onComplete: "Remove from robot's in-memory execution list".
FinishedHoldsNoSlot ==
  \A x \in Execs : run[x] = "done" /\ pend[x] = {} =>
    \A o \in Objects : x \notin executions[o]

\* TECHNICAL.md: "Pause pauses a running execution": no phase begins while the
\* execution is paused.
PausedRunsNoPhase ==
  [][\A x \in Execs : run[x] # "phase" /\ run'[x] = "phase" =>
       x \notin paused \/ x \in woken]_vars

\* pool.go, Submit: "Returns execution ID if successfully queued, error
\* otherwise", for an execution that is then tracked: what the controller
\* tracks is to be run, runs, or waits for input.
TrackedIsAlive ==
  \A x \in tracked : run[x] \notin {"dropped", "done"}

\* manager.go, HandleEvent: "For non-autonomous robots: lazy-loads from DB,
\* executes, then unloads": such a robot is in the cache only while a call that
\* uses it goes on or its cleanup is awaited.
LazyUnloads ==
  \A r \in Robots \ Autonomous :
    cached[r] # None =>
      \E x \in Execs : /\ RobotOf[x] = r
                       /\ \/ x \in cleaners
                          \/ call[x] \in {"found", "tracked", "submitted", "rejected"}

\* manager.go, scheduleCleanup: "schedules removal of a lazy-loaded robot after
\* all executions complete".
CleanupComesLast ==
  [][\A x \in cleaners \ cleaners', y \in Execs :
       cached[RobotOf[x]] # None /\ obj[y] = cached[RobotOf[x]] =>
         run[y] \notin {"queued"} \cup HeldStates]_vars

\* TECHNICAL.md: "Resume resumes a paused execution": one that is not paused
\* any more runs to its end.
ResumedRuns ==
  \A x \in Execs :
    <>[](x \notin paused /\ mgr = "running") =>
      [](run[x] = "queued" => <>(run[x] \in Over))

\* TODO.md: "Non-blocking quota check with re-enqueue": a robot at its quota
\* does not keep the others from running.
OthersRun ==
  \A x \in Execs :
    <>[](mgr = "running") =>
      [](run[x] = "queued" /\ executions[obj[x]] = {} => <>(run[x] # "queued"))

\* manager.go, shouldTriggerDaemon: "Daemon mode: trigger if not currently
\* running".
DaemonRunsOnce ==
  \A x, y \in Ticks :
    x # y /\ RobotOf[x] = RobotOf[y] /\ RobotOf[x] \in Daemons =>
      ~(run[x] = "phase" /\ run[y] = "phase")

\* lifecycle.go, Stop: "stops the robot agent system gracefully", waiting for
\* running jobs to complete: it returns.
StopCompletes == mgr = "stopping" ~> mgr = "stopped"

=============================================================================
