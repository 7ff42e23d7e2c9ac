----------------------------- MODULE MCTraceFeed -----------------------------
(* Model values and mutants for the runs of TraceFeed. *)
EXTENDS TraceFeed

\* Each context adds updates to a node of its own.
OwnNodes == [c \in Contexts |-> IF c = Root THEN {"agent"} ELSE {"call"}]
=============================================================================
