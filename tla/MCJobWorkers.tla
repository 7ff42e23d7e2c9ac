----------------------------- MODULE MCJobWorkers -----------------------------
EXTENDS JobWorkers, TLC

CONSTANTS j1, a, b

OneJob == [e \in Execs |-> j1]
SomePriority == [e \in Execs |-> IF e = a THEN 1 ELSE 0]
Symmetry == Permutations(Workers)
=============================================================================
