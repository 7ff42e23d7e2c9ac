------------------------------ MODULE SlotQueue ------------------------------
(***************************************************************************)
(* What the scheduler of agent/robot promises about the executions it      *)
(* accepts, with no manager, cache, worker, controller or phase: they wait *)
(* in a line of bounded length, and are called in the order of their       *)
(* robot's priority, their trigger's urgency and their arrival.  Who is    *)
(* called gets a slot of the robot object it was accepted for, if one is   *)
(* free; if not it goes to the end of the line, or is dropped when there   *)
(* is no room.  A slot is kept until the execution has ended, over a       *)
(* suspension too.                                                         *)
(*                                                                         *)
(* Nothing is promised about the slots of executions that somebody pauses, *)
(* resumes or stops, but that those of others stay as they are.            *)
(***************************************************************************)
EXTENDS Integers, FiniteSets

CONSTANTS Execs,      \* executions that may be accepted
          Controlled, \* those that may be paused, resumed or stopped
          RobotOf,    \* the robot of an execution
          Urgency,    \* how urgent its trigger is
          Priority,   \* the priority of a robot
          QuotaMax,   \* slots of each of its objects
          QuotaQueue, \* places it may take in the line
          Objects,    \* robot objects
          Shows,      \* the robot an object stands for
          MaxQueue,   \* places in the line
          None        \* no object (not a member of Objects)

VARIABLES stage,  \* how far an execution has come
          line,   \* those that wait
          before, \* who of them arrived before whom
          on,     \* the object an execution was accepted for, or None
          holders \* who holds the slots of an object

vars == <<stage, line, before, on, holders>>

TypeOK ==
  /\ stage \in [Execs -> {"none", "waiting", "called", "denied", "running", "asleep",
                          "over", "dropped"}]
  /\ line \subseteq Execs
  /\ before \subseteq line \X line
  /\ on \in [Execs -> Objects \cup {None}]
  /\ holders \in [Objects -> SUBSET Execs]

Init ==
  /\ stage = [x \in Execs |-> "none"]
  /\ line = {}
  /\ before = {}
  /\ on = [x \in Execs |-> None]
  /\ holders = [o \in Objects |-> {}]

Becomes(x, s) == stage' = [stage EXCEPT ![x] = s]

-----------------------------------------------------------------------------
(***************************************************************************)
(* The line                                                                *)
(***************************************************************************)

HasRoom(x) ==
  /\ Cardinality(line) < MaxQueue
  /\ Cardinality({y \in line : RobotOf[y] = RobotOf[x]}) < QuotaQueue[RobotOf[x]]

\* x joins the line, behind all others
Join(x) ==
  /\ HasRoom(x)
  /\ line' = line \cup {x}
  /\ before' = before \cup (line \X {x})
  /\ Becomes(x, "waiting")

Accept(x, o) ==
  /\ stage[x] = "none"
  /\ Shows[o] = RobotOf[x]
  /\ Join(x)
  /\ on' = [on EXCEPT ![x] = o]
  /\ UNCHANGED holders

\* x is to be called before y
First(x, y) ==
  LET r == RobotOf[x]  s == RobotOf[y] IN
  \/ Priority[s] < Priority[r]
  \/ Priority[s] = Priority[r] /\ Urgency[y] < Urgency[x]
  \/ Priority[s] = Priority[r] /\ Urgency[y] = Urgency[x] /\ <<x, y>> \in before

Turn(x) ==
  /\ x \in line
  /\ \A y \in line \ {x} : First(x, y)
  /\ line' = line \ {x}
  /\ before' = before \cap (line' \X line')
  /\ Becomes(x, "called")
  /\ UNCHANGED <<on, holders>>

Return(x) ==
  /\ stage[x] = "denied"
  /\ Join(x)
  /\ UNCHANGED <<on, holders>>

Drop(x) ==
  /\ stage[x] = "denied"
  /\ ~HasRoom(x)
  /\ Becomes(x, "dropped")
  /\ UNCHANGED <<line, before, on, holders>>

-----------------------------------------------------------------------------
(***************************************************************************)
(* The slots                                                               *)
(***************************************************************************)

SlotFree(x) == Cardinality(holders[on[x]]) < QuotaMax[RobotOf[x]]

Grant(x) ==
  /\ stage[x] = "called"
  /\ SlotFree(x)
  /\ holders' = [holders EXCEPT ![on[x]] = @ \cup {x}]
  /\ Becomes(x, "running")
  /\ UNCHANGED <<line, before, on>>

Deny(x) ==
  /\ stage[x] = "called"
  /\ ~SlotFree(x)
  /\ Becomes(x, "denied")
  /\ UNCHANGED <<line, before, on, holders>>

Sleep(x) ==
  /\ stage[x] = "running"
  /\ Becomes(x, "asleep")
  /\ UNCHANGED <<line, before, on, holders>>

End(x) ==
  /\ stage[x] = "running"
  /\ holders' = [holders EXCEPT ![on[x]] = @ \ {x}]
  /\ Becomes(x, "over")
  /\ UNCHANGED <<line, before, on>>

\* somebody pauses, resumes or stops x
Shift(x) ==
  /\ x \in Controlled
  /\ holders' \in [Objects -> SUBSET Execs]
  /\ \A o \in Objects : holders'[o] \ {x} = holders[o] \ {x}
  /\ UNCHANGED <<stage, line, before, on>>

-----------------------------------------------------------------------------

Next ==
  \E x \in Execs :
    \/ \E o \in Objects : Accept(x, o)
    \/ Turn(x) \/ Return(x) \/ Drop(x)
    \/ Grant(x) \/ Deny(x) \/ Sleep(x) \/ End(x) \/ Shift(x)

Spec == Init /\ [][Next]_vars

=============================================================================
