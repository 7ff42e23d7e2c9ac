----------------------------- MODULE SerialQueue -----------------------------
(***************************************************************************)
(* What a queue of the event bus promises its users (event/README.md, the  *)
(* "Queue" row and section), with none of the machinery that keeps the     *)
(* promise: events are accepted while the queue is open, are handled one   *)
(* at a time in the order they were accepted, a released queue drains what *)
(* it holds and an aborted one drops it.                                   *)
(***************************************************************************)
EXTENDS Sequences

CONSTANTS Queues,  \* queue instances
          Events,  \* Push and Call invocations
          Nobody   \* no event (not a member of Events)

VARIABLES mode,    \* "open", "draining" (released) or "aborted"
          pending, \* accepted events, oldest first
          active,  \* the event the queue is busy with, or Nobody
          stage    \* how far that event is: "none", "ready", "handling", "over"

vars == <<mode, pending, active, stage>>

TypeOK ==
  /\ mode \in [Queues -> {"open", "draining", "aborted"}]
  /\ pending \in [Queues -> Seq(Events)]
  /\ active \in [Queues -> Events \cup {Nobody}]
  /\ stage \in [Queues -> {"none", "ready", "handling", "over"}]

Init ==
  /\ mode = [q \in Queues |-> "open"]
  /\ pending = [q \in Queues |-> <<>>]
  /\ active = [q \in Queues |-> Nobody]
  /\ stage = [q \in Queues |-> "none"]

Accept(q, e) ==
  /\ mode[q] = "open"
  /\ pending' = [pending EXCEPT ![q] = Append(@, e)]
  /\ UNCHANGED <<mode, active, stage>>

Begin(q) ==
  /\ mode[q] # "aborted"
  /\ active[q] = Nobody
  /\ pending[q] # <<>>
  /\ active' = [active EXCEPT ![q] = Head(pending[q])]
  /\ stage' = [stage EXCEPT ![q] = "ready"]
  /\ pending' = [pending EXCEPT ![q] = Tail(@)]
  /\ UNCHANGED mode

Handle(q) ==
  /\ stage[q] = "ready"
  /\ stage' = [stage EXCEPT ![q] = "handling"]
  /\ UNCHANGED <<mode, pending, active>>

HandlerOver(q) ==
  /\ stage[q] = "handling"
  /\ stage' = [stage EXCEPT ![q] = "over"]
  /\ UNCHANGED <<mode, pending, active>>

\* The event is finished with: its handler is over, or it never got a worker.
End(q) ==
  /\ stage[q] \in {"ready", "over"}
  /\ active' = [active EXCEPT ![q] = Nobody]
  /\ stage' = [stage EXCEPT ![q] = "none"]
  /\ UNCHANGED <<mode, pending>>

\* An aborted queue throws away what it has not begun.
Drop(q) ==
  /\ mode[q] = "aborted"
  /\ pending[q] # <<>>
  /\ pending' = [pending EXCEPT ![q] = Tail(@)]
  /\ UNCHANGED <<mode, active, stage>>

Close(q, m) ==
  /\ mode[q] = "open"
  /\ m \in {"draining", "aborted"}
  /\ mode' = [mode EXCEPT ![q] = m]
  /\ UNCHANGED <<pending, active, stage>>

Next ==
  \E q \in Queues :
    \/ \E e \in Events : Accept(q, e)
    \/ Begin(q)
    \/ Handle(q)
    \/ HandlerOver(q)
    \/ End(q)
    \/ Drop(q)
    \/ \E m \in {"draining", "aborted"} : Close(q, m)

Spec == Init /\ [][Next]_vars

=============================================================================
