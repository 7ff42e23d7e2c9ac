----------------------------- MODULE MCEventBus -----------------------------
(* Small instances of EventBus for TLC. *)
EXTENDS EventBus, TLC

\* events of one kind are interchangeable, and so are queue instances
Interchangeable ==
  Permutations(Pushes) \cup Permutations(Calls) \cup Permutations(Queues)

=============================================================================
