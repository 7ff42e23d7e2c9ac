-------------------------- MODULE MCRobotScheduler --------------------------
(***************************************************************************)
(* Instances of RobotScheduler for TLC.  An execution is <<robot, number,  *)
(* urgency>>, a robot object <<robot, number>>.                            *)
(***************************************************************************)
EXTENDS RobotScheduler, TLC

MCRobotOf == [x \in Execs |-> x[1]]
MCUrgency == [x \in Execs |-> x[3]]
MCShows == [o \in Objects |-> o[1]]

\* robot "b" is more urgent than "a" by one
MCPriority == [r \in Robots |-> IF r = "b" THEN 6 ELSE 5]
One == [r \in Robots |-> 1]
Two == [r \in Robots |-> 2]

WorkerSymmetry == Permutations(Workers)

Nobody == {}
A == {"a"}
B == {"b"}
AB == {"a", "b"}
TickA == {<<"a", 1, 1>>}
TicksA == {<<"a", 1, 1>>, <<"a", 2, 1>>}
TickB == {<<"b", 1, 1>>}
ManualA == {<<"a", 3, 10>>}
ManualsA == {<<"a", 3, 10>>, <<"a", 4, 5>>}
ManualB == {<<"b", 3, 10>>}
ManualsB == {<<"b", 3, 10>>, <<"b", 4, 5>>}
RequestA == {<<"a", 5, 5>>}

ObjectA == {<<"a", 1>>}
ObjectsA == {<<"a", 1>>, <<"a", 2>>}
ObjectsAB == {<<"a", 1>>, <<"b", 1>>}
ObjectsB == {<<"b", 1>>, <<"b", 2>>}
=============================================================================
