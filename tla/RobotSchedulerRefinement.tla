---------------------- MODULE RobotSchedulerRefinement ----------------------
(***************************************************************************)
(* Proof that RobotScheduler implements SlotQueue: whatever callers, the   *)
(* cache, workers, phases and control calls do, what is accepted waits in  *)
(* a bounded line, is called by urgency and arrival, runs in one of the    *)
(* slots of the object it was accepted for, and gives it back at its end.  *)
(***************************************************************************)
EXTENDS RobotSchedulerProofs

Views == <<StageView, Queued, BeforeView, OnView, executions>>

-----------------------------------------------------------------------------
(***************************************************************************)
(* What a change of run, stamp or obj does to the views                    *)
(***************************************************************************)

\* how the stages of an execution are seen
LEMMA Seen ==
  /\ SeenAs("none") = "none" /\ SeenAs("queued") = "waiting"
  /\ \A s \in {"taken", "starting"} : SeenAs(s) = "called"
  /\ SeenAs("requeue") = "denied"
  /\ \A s \in Running : SeenAs(s) = "running"
  /\ SeenAs("suspended") = "asleep" /\ SeenAs("dropped") = "dropped"
  /\ \A s \in {"released", "untracked", "done"} : SeenAs(s) = "over"
BY DEF SeenAs, Running

\* one execution goes to another stage, ...
LEMMA StageMoves ==
  ASSUME TypeOK, NEW x \in Execs, NEW s, NEW v, run' = [run EXCEPT ![x] = s],
         SeenAs(s) = v
  PROVE  Promise!Becomes(x, v)
<1>1. run \in [Execs -> RunStates]
  BY DEF TypeOK
<1>2. \A y \in Execs : run'[y] = IF y = x THEN s ELSE run[y]
  BY <1>1
<1>3. \A y \in Execs : SeenAs(run'[y]) = IF y = x THEN v ELSE SeenAs(run[y])
  BY <1>2
<1>4. \A y \in Execs : StageView'[y] = IF y = x THEN v ELSE StageView[y]
  BY <1>3 DEF StageView
<1>5. StageView' = [StageView EXCEPT ![x] = v]
  BY <1>4 DEF StageView
<1> QED
  BY <1>5 DEF Promise!Becomes

\* ... or takes a step that is not seen
LEMMA StageStays ==
  ASSUME TypeOK, NEW x \in Execs, NEW s, run' = [run EXCEPT ![x] = s],
         SeenAs(s) = SeenAs(run[x])
  PROVE  UNCHANGED StageView
<1>1. run \in [Execs -> RunStates]
  BY DEF TypeOK
<1>2. \A y \in Execs : SeenAs(run'[y]) = SeenAs(run[y])
  BY <1>1
<1> QED
  BY <1>2 DEF StageView

\* only who is queued and in which rank makes the line
LEMMA LineStays ==
  ASSUME UNCHANGED stamp
  PROVE  UNCHANGED <<Queued, BeforeView>>
BY DEF Queued, BeforeView

\* an object stays the one of its execution once there is one
LEMMA OnStays ==
  ASSUME IInv, [Next]_vars, \A x \in Execs : run'[x] = "none" <=> run[x] = "none"
  PROVE  UNCHANGED OnView
<1>1. CASE Next
  <2>1. \A x \in Execs : run[x] # "none" => obj'[x] = obj[x]
    BY <1>1, ObjKept
  <2> QED
    BY <2>1 DEF OnView
<1>2. CASE UNCHANGED vars
  BY <1>2 DEF vars, callVars, workVars, OnView
<1> QED
  BY <1>1, <1>2

\* a submitted execution takes a step and stays with its object
LEMMA OnMoves ==
  ASSUME IInv, Next, NEW x \in Execs, NEW s, run' = [run EXCEPT ![x] = s],
         run[x] # "none", s # "none"
  PROVE  UNCHANGED OnView
<1>1. run \in [Execs -> RunStates]
  BY DEF IInv, TypeOK
<1>2. \A y \in Execs : run'[y] = "none" <=> run[y] = "none"
  BY <1>1
<1> QED
  BY <1>2, OnStays

\* the object a worker's execution runs on
LEMMA OnObject ==
  ASSUME IInv, NEW x \in Execs, run[x] # "none"
  PROVE  OnView[x] = obj[x] /\ obj[x] \in Objects
<1>1. call[x] \notin NotSubmitted
  BY HeldIsSubmitted
<1> QED
  BY <1>1 DEF OnView, IInv, Found, NotSubmitted

\* what a worker holds is not queued
LEMMA AtWorker ==
  ASSUME IInv, NEW w \in Workers, job[w] # None
  PROVE  /\ job[w] \in Execs /\ run[job[w]] \in HeldStates
         /\ run[job[w]] # "none" /\ job[w] \notin Queued
<1>1. Placed /\ job \in [Workers -> Execs \cup {None}]
  BY OnePlaceParts DEF IInv, TypeOK
<1>2. job[w] \in Execs /\ run[job[w]] \in HeldStates
  BY <1>1 DEF Placed
<1> QED
  BY <1>1, <1>2 DEF Placed, HeldStates

-----------------------------------------------------------------------------
(***************************************************************************)
(* The line                                                                *)
(***************************************************************************)

\* SlotQueue has its own name for the cardinality of a set
LEMMA SameCount == \A S : Promise!Cardinality(S) = Cardinality(S)
BY DEF Promise!Cardinality, Cardinality

\* the count per robot and the length of the queue are those of the line
LEMMA RoomView ==
  ASSUME IInv, NEW x \in Execs
  PROVE  HasRoom(x) <=> Promise!HasRoom(x)
<1>1. RobotOf[x] \in Robots
  BY ExecAssumption
<1>2. robotCount[RobotOf[x]] = Cardinality({y \in Queued : RobotOf[y] = RobotOf[x]})
  BY <1>1 DEF IInv, QueueAccounting
<1> QED
  BY <1>2, SameCount DEF HasRoom, Promise!HasRoom

\* Enqueue puts an execution behind all others
LEMMA JoinView ==
  ASSUME IInv, NEW x \in Execs, x \notin Queued, HasRoom(x), Enqueue(x),
         run' = [run EXCEPT ![x] = "queued"]
  PROVE  Promise!Join(x)
<1>0. TypeOK /\ Ranked /\ Placed
  BY OnePlaceParts DEF IInv
<1>1. Queued' = Queued \cup {x}
  BY <1>0, EnqueueCounts
<1>2. /\ stamp \in [Execs -> Nat] /\ Cardinality(Queued) \in Nat
      /\ stamp' = [stamp EXCEPT ![x] = Cardinality(Queued) + 1]
  BY <1>0, QueuedFinite DEF TypeOK, Enqueue
<1>3. /\ stamp'[x] = Cardinality(Queued) + 1
      /\ \A y \in Queued : /\ y \in Execs /\ y # x
                           /\ stamp'[y] = stamp[y] /\ stamp[y] \in Nat
                           /\ stamp'[y] < stamp'[x]
  BY <1>0, <1>2 DEF Queued, Ranked
<1>4. BeforeView' = BeforeView \cup (Queued \X {x})
  <2>1. \A y \in Queued, z \in Queued : stamp'[y] < stamp'[z] <=> stamp[y] < stamp[z]
    BY <1>3
  <2>2. \A y \in Queued : stamp'[y] < stamp'[x] /\ ~(stamp'[x] < stamp'[y])
    BY <1>2, <1>3
  <2>3. ~(stamp'[x] < stamp'[x])
    BY <1>2, <1>3
  <2>4. BeforeView' = {p \in (Queued \cup {x}) \X (Queued \cup {x}) :
                         stamp'[p[1]] < stamp'[p[2]]}
    BY <1>1 DEF BeforeView
  <2>5. ASSUME NEW p \in (Queued \cup {x}) \X (Queued \cup {x})
        PROVE  p \in BeforeView' <=> p \in BeforeView \cup (Queued \X {x})
    <3>1. /\ p = <<p[1], p[2]>>
          /\ p[1] \in Queued \cup {x} /\ p[2] \in Queued \cup {x}
      OBVIOUS
    <3>2. p \in Queued \X {x} <=> p[1] \in Queued /\ p[2] = x
      BY <3>1
    <3>3. p \in BeforeView <=> p[1] \in Queued /\ p[2] \in Queued /\ stamp[p[1]] < stamp[p[2]]
      BY <3>1 DEF BeforeView
    <3> QED
      BY <1>3, <2>1, <2>2, <2>3, <2>4, <3>1, <3>2, <3>3
  <2>6. BeforeView \cup (Queued \X {x}) \subseteq (Queued \cup {x}) \X (Queued \cup {x})
    BY DEF BeforeView
  <2> QED
    BY <2>4, <2>5, <2>6
<1>5. Promise!Becomes(x, "waiting")
  BY <1>0, StageMoves, Seen
<1> QED
  BY <1>1, <1>4, <1>5, RoomView DEF Promise!Join

\* Submit: an execution that is accepted joins the line
LEMMA SubmitView ==
  ASSUME IInv, NEW x \in Execs, Submit(x)
  PROVE  (\E o \in Objects : Promise!Accept(x, o)) \/ UNCHANGED Views
<1> USE DEF callVars, queueVars
<1>0. TypeOK /\ run \in [Execs -> RunStates] /\ obj' = obj /\ executions' = executions
  BY DEF IInv, TypeOK, Submit
<1>1. run[x] = "none" /\ x \notin Queued
  BY SubmitFirst
<1>2. CASE UNCHANGED <<queueVars, run>>
  <2>1. UNCHANGED <<StageView, OnView>>
    BY <1>0, <1>2 DEF StageView, OnView
  <2> QED
    BY <1>0, <1>2, <2>1, LineStays DEF Views
<1>3. CASE HasRoom(x) /\ Enqueue(x) /\ run' = [run EXCEPT ![x] = "queued"]
  <2>1. obj[x] \in Objects /\ Shows[obj[x]] = RobotOf[x]
    BY PoolAssumption DEF Submit, IInv, Found, Shown, TracksFirst
  <2>2. Promise!Join(x)
    BY <1>1, <1>3, JoinView
  <2>3. StageView[x] = "none"
    BY <1>1, Seen DEF StageView
  <2>4. OnView' = [OnView EXCEPT ![x] = obj[x]]
    <3>1. \A y \in Execs : run'[y] = IF y = x THEN "queued" ELSE run[y]
      BY <1>0, <1>3
    <3>2. \A y \in Execs : OnView'[y] = IF y = x THEN obj[x] ELSE OnView[y]
      BY <1>0, <3>1 DEF OnView
    <3> QED
      BY <3>2 DEF OnView
  <2>5. Promise!Accept(x, obj[x])
    BY <1>0, <2>1, <2>2, <2>3, <2>4 DEF Promise!Accept
  <2> QED
    BY <2>1, <2>5
<1> QED
  BY <1>2, <1>3 DEF Submit

\* Dequeue: whose turn it is leaves the line
LEMMA DequeueView ==
  ASSUME IInv, Next, NEW w \in Workers, Dequeue(w)
  PROVE  \E x \in Execs : Promise!Turn(x)
<1>0. TypeOK /\ Ranked /\ Placed /\ executions' = executions
  BY OnePlaceParts DEF IInv, Dequeue
<1>1. PICK x \in Queued : Foremost(x) /\ stamp' = Popped(x) /\ run' = [run EXCEPT ![x] = "taken"]
  BY DEF Dequeue
<1>2. /\ x \in Execs /\ run[x] = "queued" /\ stamp \in [Execs -> Nat]
      /\ \A y \in Queued : y \in Execs /\ stamp[y] \in Nat \ {0}
  BY <1>0 DEF Placed, Queued, TypeOK
<1>3. Queued' = Queued \ {x}
  BY <1>0, <1>1, PopCounts
<1>4. ASSUME NEW y \in Queued \ {x} PROVE Promise!First(x, y)
  <2>1. Score(y) < Score(x) \/ (Score(y) = Score(x) /\ stamp[x] < stamp[y])
    BY <1>0, <1>1, <1>2 DEF Foremost, Ranked
  <2>2. stamp[x] < stamp[y] => <<x, y>> \in BeforeView
    BY DEF BeforeView
  <2> QED
    BY <1>2, <2>1, <2>2, ScoreOrders DEF Promise!First
<1>5. BeforeView' = BeforeView \cap (Queued' \X Queued')
  <2>1. \A y \in Queued \ {x} :
          /\ stamp[y] # stamp[x]
          /\ stamp'[y] = IF stamp[y] > stamp[x] THEN stamp[y] - 1 ELSE stamp[y]
    BY <1>0, <1>1, <1>2 DEF Popped, Ranked
  <2>2. \A y \in Queued \ {x}, z \in Queued \ {x} :
          stamp'[y] < stamp'[z] <=> stamp[y] < stamp[z]
    BY <1>2, <2>1
  <2>3. BeforeView' = {p \in (Queued \ {x}) \X (Queued \ {x}) : stamp'[p[1]] < stamp'[p[2]]}
    BY <1>3 DEF BeforeView
  <2>4. ASSUME NEW p \in (Queued \ {x}) \X (Queued \ {x})
        PROVE  p \in BeforeView' <=> p \in BeforeView
    <3>1. /\ p \in Queued \X Queued
          /\ p[1] \in Queued \ {x} /\ p[2] \in Queued \ {x}
      OBVIOUS
    <3>2. p \in BeforeView <=> stamp[p[1]] < stamp[p[2]]
      BY <3>1 DEF BeforeView
    <3> QED
      BY <2>2, <2>3, <3>1, <3>2
  <2>5. BeforeView' \subseteq (Queued \ {x}) \X (Queued \ {x})
    BY <2>3
  <2> QED
    BY <1>3, <2>4, <2>5
<1>6. Promise!Becomes(x, "called")
  BY <1>0, <1>1, <1>2, StageMoves, Seen
<1>7. UNCHANGED OnView
  BY <1>1, <1>2, OnMoves
<1> QED
  BY <1>0, <1>1, <1>2, <1>3, <1>4, <1>5, <1>6, <1>7 DEF Promise!Turn

\* requeue: to the end of the line, or dropped
LEMMA RequeueView ==
  ASSUME IInv, Next, NEW w \in Workers, Requeue(w)
  PROVE  \E x \in Execs : Promise!Return(x) \/ Promise!Drop(x)
<1> DEFINE x == job[w]
<1>0. TypeOK /\ x \in Execs /\ x \notin Queued /\ run[x] = "requeue" /\ executions' = executions
  BY AtWorker DEF IInv, Requeue
<1>1. StageView[x] = "denied"
  BY <1>0, Seen DEF StageView
<1>2. CASE HasRoom(x) /\ Enqueue(x) /\ run' = [run EXCEPT ![x] = "queued"]
  <2>1. Promise!Join(x)
    BY <1>0, <1>2, JoinView
  <2>2. UNCHANGED OnView
    BY <1>0, <1>2, OnMoves
  <2> QED
    BY <1>0, <1>1, <2>1, <2>2 DEF Promise!Return
<1>3. CASE ~HasRoom(x) /\ run' = [run EXCEPT ![x] = "dropped"] /\ UNCHANGED stamp
  <2>1. Promise!Becomes(x, "dropped")
    BY <1>0, <1>3, StageMoves, Seen
  <2>2. UNCHANGED <<Queued, BeforeView, OnView>>
    BY <1>0, <1>3, LineStays, OnMoves
  <2>3. ~Promise!HasRoom(x)
    BY <1>0, <1>3, RoomView
  <2> QED
    BY <1>0, <1>1, <2>1, <2>2, <2>3 DEF Promise!Drop
<1> QED
  BY <1>2, <1>3 DEF Requeue, queueVars

-----------------------------------------------------------------------------
(***************************************************************************)
(* The slots                                                               *)
(***************************************************************************)

\* CanRun counts the slots of the object the execution was accepted for
LEMMA FreeView ==
  ASSUME IInv, NEW x \in Execs, run[x] # "none"
  PROVE  CanRun(obj[x], RobotOf[x]) <=> Promise!SlotFree(x)
<1>1. OnView[x] = obj[x]
  BY OnObject
<1> QED
  BY <1>1, SameCount DEF CanRun, Promise!SlotFree

\* a worker's execution goes on, and neither line nor slots change
LEMMA GoesOn ==
  ASSUME IInv, Next, NEW w \in Workers, job[w] # None, NEW s, s # "none",
         run' = [run EXCEPT ![job[w]] = s], UNCHANGED stamp
  PROVE  /\ UNCHANGED <<Queued, BeforeView, OnView>>
         /\ \A v : SeenAs(s) = v => Promise!Becomes(job[w], v)
         /\ SeenAs(s) = SeenAs(run[job[w]]) => UNCHANGED StageView
<1>1. TypeOK /\ job[w] \in Execs /\ run[job[w]] # "none"
  BY AtWorker DEF IInv
<1>2. UNCHANGED <<Queued, BeforeView, OnView>>
  BY <1>1, LineStays, OnMoves
<1>3. ASSUME NEW v, SeenAs(s) = v PROVE Promise!Becomes(job[w], v)
  BY <1>1, <1>3, StageMoves
<1>4. ASSUME SeenAs(s) = SeenAs(run[job[w]]) PROVE UNCHANGED StageView
  BY <1>1, <1>4, StageStays
<1> QED
  BY <1>2, <1>3, <1>4

\* the two checks of the quota: a slot, or none
LEMMA CheckView ==
  ASSUME IInv, Next, NEW w \in Workers, PreCheck(w) \/ Acquire(w)
  PROVE  (\E x \in Execs : Promise!Grant(x) \/ Promise!Deny(x)) \/ UNCHANGED Views
<1> DEFINE x == job[w]
<1>0. /\ job[w] # None /\ UNCHANGED stamp /\ x \in Execs
      /\ run[x] \in {"taken", "starting"} /\ run[x] # "none"
  BY AtWorker DEF PreCheck, Acquire, queueVars
<1>1. StageView[x] = "called" /\ OnView[x] = obj[x]
  BY <1>0, Seen, OnObject DEF StageView
<1>2. CASE /\ ~CanRun(obj[x], RobotOf[x]) /\ UNCHANGED executions
           /\ run' = [run EXCEPT ![x] = "requeue"]
  <2>1. Promise!Becomes(x, "denied") /\ UNCHANGED <<Queued, BeforeView, OnView>>
    BY <1>0, <1>2, GoesOn, Seen
  <2>2. ~Promise!SlotFree(x)
    BY <1>0, <1>2, FreeView
  <2>3. Promise!Deny(x)
    BY <1>1, <1>2, <2>1, <2>2 DEF Promise!Deny
  <2> QED
    BY <1>0, <2>3
<1>3. CASE /\ CanRun(obj[x], RobotOf[x]) /\ run' = [run EXCEPT ![x] = "between"]
           /\ executions' = [executions EXCEPT ![obj[x]] = @ \cup {x}]
  <2>1. Promise!Becomes(x, "running") /\ UNCHANGED <<Queued, BeforeView, OnView>>
    <3>1. SeenAs("between") = "running"
      BY Seen DEF Running
    <3> QED
      BY <1>0, <1>3, <3>1, GoesOn
  <2>2. Promise!SlotFree(x)
    BY <1>0, <1>3, FreeView
  <2>3. Promise!Grant(x)
    BY <1>1, <1>3, <2>1, <2>2 DEF Promise!Grant
  <2> QED
    BY <1>0, <2>3
<1>4. CASE run[x] = "taken" /\ run' = [run EXCEPT ![x] = "starting"] /\ UNCHANGED executions
  <2>1. SeenAs("starting") = SeenAs(run[x])
    BY <1>4, Seen
  <2>2. UNCHANGED <<StageView, Queued, BeforeView, OnView>>
    BY <1>0, <1>4, <2>1, GoesOn
  <2> QED
    BY <1>4, <2>2 DEF Views
<1>5. CASE PreCheck(w)
  BY <1>2, <1>4, <1>5 DEF PreCheck
<1>6. CASE Acquire(w)
  BY <1>2, <1>3, <1>6 DEF Acquire, SlotFree
<1> QED
  BY <1>5, <1>6


\* the slots of a controlled execution change, and nothing else
LEMMA ShiftView ==
  ASSUME TypeOK, NEW x \in Controlled, NEW o,
         \/ UNCHANGED executions
         \/ executions' = [executions EXCEPT ![o] = @ \cup {x}]
         \/ executions' = [executions EXCEPT ![o] = @ \ {x}],
         UNCHANGED <<StageView, Queued, BeforeView, OnView>>
  PROVE  \E y \in Execs : Promise!Shift(y)
<1>1. x \in Execs /\ executions \in [Objects -> SUBSET Execs]
  BY ExecAssumption DEF TypeOK
<1>2. /\ executions' \in [Objects -> SUBSET Execs]
      /\ \A p \in Objects : executions'[p] \ {x} = executions[p] \ {x}
  BY <1>1
<1> QED
  BY <1>1, <1>2 DEF Promise!Shift

\* a step of the executor sleeps, ends, shifts or is not seen
LEMMA ExecutorView ==
  ASSUME IInv, Next, NEW w \in Workers, Executor(w)
  PROVE  (\E x \in Execs : Promise!Sleep(x) \/ Promise!End(x) \/ Promise!Shift(x))
         \/ UNCHANGED Views
<1> USE DEF queueVars
<1> DEFINE x == job[w]
<1>0. /\ job[w] # None /\ UNCHANGED stamp
  <2>1. UNCHANGED stamp
    BY DEF Executor, BeginPhase, PauseCheck, Wake, EndPhase, SuspendPhase, Release,
       Untrack, Complete
  <2>2. job[w] # None
    BY ExecAssumption, PoolAssumption DEF Executor, BeginPhase, PauseCheck, Wake,
       EndPhase, SuspendPhase, Release, Untrack, Complete
  <2> QED
    BY <2>1, <2>2
<1>t. TypeOK /\ x \in Execs /\ run[x] # "none"
  BY <1>0, AtWorker DEF IInv
<1>1. ASSUME NEW s \in Running, run[x] \in Running, run' = [run EXCEPT ![x] = s],
             UNCHANGED executions
      PROVE  UNCHANGED Views
  <2>1. s # "none" /\ SeenAs(s) = SeenAs(run[x])
    BY <1>1, Seen DEF Running
  <2> QED
    BY <1>0, <1>1, <2>1, GoesOn DEF Views
<1>2. CASE BeginPhase(w)
  BY <1>1, <1>2 DEF BeginPhase, Running
<1>3. CASE PauseCheck(w)
  BY <1>1, <1>3 DEF PauseCheck, Running
<1>4. CASE Wake(w)
  BY <1>1, <1>4 DEF Wake, Running
<1>5. CASE EndPhase(w)
  BY <1>1, <1>5 DEF EndPhase, Running
<1>6. CASE SuspendPhase(w)
  <2>1. /\ run[x] = "phase" /\ UNCHANGED executions
        /\ run' = [run EXCEPT ![x] = "suspended"]
    BY <1>6 DEF SuspendPhase
  <2>2. Promise!Becomes(x, "asleep") /\ UNCHANGED <<Queued, BeforeView, OnView>>
    BY <1>0, <2>1, GoesOn, Seen
  <2>3. StageView[x] = "running"
    BY <1>t, <2>1, Seen DEF StageView, Running
  <2> QED
    BY <1>t, <2>1, <2>2, <2>3 DEF Promise!Sleep
<1>7. CASE Release(w)
  <2>1. /\ run[x] = "ending" /\ run' = [run EXCEPT ![x] = "released"]
        /\ executions' = [executions EXCEPT ![obj[x]] = @ \ {x}]
    BY <1>7 DEF Release, SlotGiven
  <2>2. Promise!Becomes(x, "over") /\ UNCHANGED <<Queued, BeforeView, OnView>>
    BY <1>0, <2>1, GoesOn, Seen
  <2>3. StageView[x] = "running" /\ OnView[x] = obj[x]
    BY <1>t, <2>1, Seen, OnObject DEF StageView, Running
  <2> QED
    BY <1>t, <2>1, <2>2, <2>3 DEF Promise!End
<1>8. CASE Untrack(w)
  <2>1. /\ run[x] = "released" /\ run' = [run EXCEPT ![x] = "untracked"]
        /\ UNCHANGED executions
    BY <1>8 DEF Untrack
  <2>2. SeenAs("untracked") = SeenAs(run[x])
    BY <2>1, Seen
  <2> QED
    BY <1>0, <2>1, <2>2, GoesOn DEF Views
<1>9. CASE Complete(w)
  <2>1. /\ run[x] = "untracked" /\ run' = [run EXCEPT ![x] = "done"] /\ Forget(x)
    BY <1>9 DEF Complete
  <2>2. SeenAs("done") = SeenAs(run[x])
    BY <2>1, Seen
  <2>3. UNCHANGED <<StageView, Queued, BeforeView, OnView>>
    BY <1>0, <2>1, <2>2, GoesOn
  <2>4. CASE x \in Controlled
    BY <1>t, <2>1, <2>3, <2>4, ShiftView DEF Forget
  <2>5. CASE x \notin Controlled
    <3>1. \A o \in Objects : x \notin executions[o]
      BY <1>t, <2>1, <2>5 DEF IInv, SlotsHeld, Running
    <3>2. executions \in [Objects -> SUBSET Execs]
      BY <1>t DEF TypeOK
    <3>3. \A o : [executions EXCEPT ![o] = @ \ {x}] = executions
      BY <3>1, <3>2
    <3>4. UNCHANGED executions
      BY <2>1, <3>3 DEF Forget
    <3> QED
      BY <2>3, <3>4 DEF Views
  <2> QED
    BY <2>4, <2>5
<1> QED
  BY <1>2, <1>3, <1>4, <1>5, <1>6, <1>7, <1>8, <1>9 DEF Executor

\* what neither submits nor is done by a worker
LEMMA AsideView ==
  ASSUME IInv, [Next]_vars, Aside
  PROVE  (\E x \in Execs : Promise!Shift(x)) \/ UNCHANGED Views
<1> USE DEF controlVars, callVars
<1>0. TypeOK /\ Uncontrolled /\ UNCHANGED <<stamp, run>>
  BY AsideLeaves DEF IInv
<1>1. UNCHANGED <<StageView, Queued, BeforeView, OnView>>
  BY <1>0, LineStays, OnStays DEF StageView
<1>2. ASSUME UNCHANGED executions PROVE UNCHANGED Views
  BY <1>1, <1>2 DEF Views
<1>3. CASE Lifecycle
  BY <1>2, <1>3 DEF Lifecycle, Start, StopBegin, StopPool, StopEnd
<1>4. CASE CacheStep
  BY <1>2, <1>4 DEF CacheStep, RefreshAllBegin, RefreshAllAdd, RefreshOne, Cleanup
<1>5. ASSUME NEW x \in Execs,
             \/ Lookup(x) \/ LazyLoad(x) \/ Decline(x)
             \/ Track(x) \/ Reject(x) \/ Accept(x)
      PROVE  UNCHANGED Views
  BY <1>2, <1>5 DEF Lookup, LazyLoad, Decline, Track, Reject, Accept
<1>6. ASSUME NEW x \in Execs, PauseExecution(x) \/ ResumeExecution(x) \/ StopExecution(x)
      PROVE  UNCHANGED Views
  BY <1>2, <1>6 DEF PauseExecution, ResumeExecution, StopExecution
<1>7. ASSUME NEW x \in Execs, ForgetControlled(x) \/ AddResumed(x)
      PROVE  \E y \in Execs : Promise!Shift(y)
  <2>1. x \in Controlled
    BY <1>0, <1>7 DEF ForgetControlled, AddResumed, Uncontrolled
  <2>2. CASE ForgetControlled(x)
    BY <1>0, <1>1, <2>1, <2>2, ShiftView DEF ForgetControlled, Forget
  <2>3. CASE AddResumed(x)
    BY <1>0, <1>1, <2>1, <2>3, ShiftView DEF AddResumed
  <2> QED
    BY <1>7, <2>2, <2>3
<1>8. ASSUME NEW w \in Workers, WorkerExit(w) PROVE UNCHANGED Views
  BY <1>2, <1>8 DEF WorkerExit
<1>9. CASE UNCHANGED vars
  BY <1>2, <1>9 DEF vars
<1> QED
  BY <1>3, <1>4, <1>5, <1>6, <1>7, <1>8, <1>9 DEF Aside, Control

-----------------------------------------------------------------------------

\* nothing has been accepted at the start
LEMMA InitView == Init => Promise!Init
<1> SUFFICES ASSUME Init PROVE Promise!Init
  OBVIOUS
<1>1. Queued = {} /\ BeforeView = {}
  BY DEF Init, Queued, BeforeView
<1>2. /\ StageView = [x \in Execs |-> "none"] /\ OnView = [x \in Execs |-> None]
      /\ executions = [o \in Objects |-> {}]
  BY Seen DEF Init, StageView, OnView
<1> QED
  BY <1>1, <1>2 DEF Promise!Init

\* every step is one of the line and its slots, or is not seen
LEMMA StepView == IInv /\ [Next]_vars => [Promise!Next]_Views
<1> SUFFICES ASSUME IInv, [Next]_vars PROVE Promise!Next \/ UNCHANGED Views
  OBVIOUS
<1>1. CASE Aside
  BY <1>1, AsideView DEF Promise!Next
<1>2. ASSUME NEW x \in Execs, Submit(x) PROVE Promise!Next \/ UNCHANGED Views
  BY <1>2, SubmitView DEF Promise!Next
<1>3. ASSUME NEW w \in Workers, Pool(w) \/ Executor(w)
      PROVE  Promise!Next \/ UNCHANGED Views
  <2>0. Next
    BY <1>3 DEF Next
  <2>1. CASE Dequeue(w)
    BY <2>0, <2>1, DequeueView DEF Promise!Next
  <2>2. CASE PreCheck(w) \/ Acquire(w)
    BY <2>0, <2>2, CheckView DEF Promise!Next
  <2>3. CASE Requeue(w)
    BY <2>0, <2>3, RequeueView DEF Promise!Next
  <2>4. CASE Executor(w)
    BY <2>0, <2>4, ExecutorView DEF Promise!Next
  <2> QED
    BY <1>3, <2>1, <2>2, <2>3, <2>4 DEF Pool
<1> QED
  BY <1>1, <1>2, <1>3, StepKinds

\* The scheduler implements its promise to whoever triggers an execution
\* (pool.go, worker.go, queue.go, robot.go).
THEOREM Refinement == Spec => KeepsPromise
<1>1. Init => Promise!Init
  BY InitView
<1>2. IInv /\ [Next]_vars => [Promise!Next]_(Promise!vars)
  BY StepView DEF Promise!vars, Views
<1> QED
  BY <1>1, <1>2, Invariance, PTL DEF Spec, KeepsPromise, Promise!Spec

=============================================================================
