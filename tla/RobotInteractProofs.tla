------------------------- MODULE RobotInteractProofs -------------------------
(***************************************************************************)
(* Proofs about RobotInteract, for any number of requests, executions and  *)
(* restarts, and any quota.                                                *)
(***************************************************************************)
EXTENDS RobotInteract, FiniteSetTheorems, TLAPS

-----------------------------------------------------------------------------
(***************************************************************************)
(* Type correctness                                                        *)
(***************************************************************************)

\* What the store writes is a record again.
LEMMA StatusType ==
    ASSUME NEW old \in Record, NEW status \in Statuses
    PROVE  WithStatus(old, status) \in Record
BY DEF Record, WithStatus

LEMMA ResumedType ==
    ASSUME NEW old \in Record
    PROVE  Resumed(old) \in Record
<1>1. "running" \in Statuses
  BY DEF Statuses
<1> QED
  BY <1>1 DEF Record, Resumed

LEMMA TasksType ==
    ASSUME NEW old \in Record, NEW list \in SUBSET Requests
    PROVE  WithTasks(old, list) \in Record /\ Suspended(old, list) \in Record
<1>1. "waiting" \in Statuses
  BY DEF Statuses
<1> QED
  BY <1>1 DEF Record, WithTasks, Suspended

LEMMA SavedType ==
    ASSUME NEW old \in Record, NEW new \in Record
    PROVE  Saved(old, new) \in Record
BY DEF Record, Saved

LEMMA WriteType ==
    ASSUME TypeOK, NEW e \in Execs, NEW new \in Record, Write(e, new)
    PROVE  rec' \in [Execs -> Record]
BY DEF TypeOK, Write

\* Every action keeps the columns of the records and the steps of the requests
\* and jobs within their kinds.
LEMMA TypeStep == ASSUME TypeOK, [Next]_vars PROVE TypeOK'
<1>1. ASSUME NEW r \in Requests, NEW x \in Execs, NewInteraction(r, x)
      PROVE  TypeOK'
  BY <1>1 DEF NewInteraction, WithStatus, NoRecord, Write, ReqGoto, About,
     history, TypeOK, Record, Statuses, ReqSteps, JobSteps, Active
<1>2. ASSUME NEW r \in Requests, NEW x \in Execs, Ask(r, x)
      PROVE  TypeOK'
  BY <1>2 DEF Ask, ReqGoto, About, history, TypeOK, Record, Statuses,
     ReqSteps, JobSteps, Active
<1>3. ASSUME NEW r \in Requests, NEW x \in Execs, CancelExecution(r, x)
      PROVE  TypeOK'
  BY <1>3 DEF CancelExecution, Cancellable, ReqGoto, About, history, TypeOK,
     Record, Statuses, ReqSteps, JobSteps, Active
<1>4. ASSUME NEW r \in Requests, Reply(r)
      PROVE  TypeOK'
  BY <1>4 DEF Reply, ReqGoto, history, TypeOK, Record, Statuses, ReqSteps,
     JobSteps, Active
<1>5. ASSUME NEW r \in Requests, Advance(r)
      PROVE  TypeOK'
  <2>1. asks[r] \in Execs
    BY <1>5 DEF Advance, TypeOK
  <2>2. WithStatus(rec[asks[r]], "running") \in Record
    BY <2>1, StatusType DEF TypeOK, Statuses
  <2>3. rec' \in [Execs -> Record]
    BY <1>5, <2>1, <2>2 DEF Advance, Write, TypeOK
  <2> QED
    BY <1>5, <2>1, <2>3 DEF Advance, ReqGoto, history, TypeOK, ReqSteps,
       JobSteps
<1>6. ASSUME NEW r \in Requests, Adjust(r)
      PROVE  TypeOK'
  <2>1. asks[r] \in Execs /\ rec[asks[r]] \in Record
    BY <1>6 DEF Adjust, TypeOK
  <2>2. PICK list \in {snap[r].tasks, {r}} :
            Write(asks[r], Saved(rec[asks[r]], WithTasks(snap[r], list)))
    BY <1>6 DEF Adjust
  <2>3. snap[r] \in Record /\ list \in SUBSET Requests
    BY <2>2 DEF TypeOK, Record
  <2>4. rec' \in [Execs -> Record]
    BY <2>1, <2>2, <2>3, TasksType, SavedType, WriteType
  <2>5. owed' \subseteq Requests
    BY <1>6 DEF Adjust, TypeOK
  <2> QED
    BY <1>6, <2>1, <2>2, <2>3, <2>4, <2>5 DEF Adjust, ReqGoto, history, TypeOK,
       ReqSteps, JobSteps
<1>7. ASSUME NEW r \in Requests, InjectTask(r)
      PROVE  TypeOK'
  <2>1. asks[r] \in Execs /\ rec[asks[r]] \in Record
    BY <1>7 DEF InjectTask, TypeOK
  <2>2. snap[r] \in Record /\ snap[r].tasks \cup {r} \in SUBSET Requests
    BY DEF TypeOK, Record
  <2>3. rec' \in [Execs -> Record]
    BY <1>7, <2>1, <2>2, TasksType, SavedType, WriteType DEF InjectTask
  <2> QED
    BY <1>7, <2>1, <2>2, <2>3 DEF InjectTask, ReqGoto, history, TypeOK,
       ReqSteps, JobSteps
<1>8. ASSUME NEW r \in Requests, Resume(r)
      PROVE  TypeOK'
  BY <1>8 DEF Resume, ReqGoto, history, TypeOK, Record, Statuses, ReqSteps,
     JobSteps, Active
<1>9. ASSUME NEW r \in Requests, Cancel(r)
      PROVE  TypeOK'
  BY <1>9 DEF Cancel, Cancellable, ReqGoto, history, TypeOK, Record,
     Statuses, ReqSteps, JobSteps, Active
<1>10. ASSUME NEW r \in Requests, Submit(r)
      PROVE  TypeOK'
  BY <1>10 DEF Submit, ReqGoto, JobGoto, history, TypeOK, Record, Statuses,
     ReqSteps, JobSteps, Active
<1>11. ASSUME NEW r \in Requests, ResumeState(r)
      PROVE  TypeOK'
  <2>1. asks[r] \in Execs
    BY <1>11 DEF ResumeState, TypeOK
  <2>2. Resumed(rec[asks[r]]) \in Record
    BY <2>1, ResumedType DEF TypeOK, Statuses
  <2>3. rec' \in [Execs -> Record]
    BY <1>11, <2>1, <2>2 DEF ResumeState, Write, TypeOK
  <2> QED
    BY <1>11, <2>1, <2>3 DEF ResumeState, ReqGoto, history, TypeOK, ReqSteps,
       JobSteps
<1>12. ASSUME NEW r \in Requests, ResumeSuspends(r)
      PROVE  TypeOK'
  <2>1. asks[r] \in Execs /\ rec[asks[r]] \in Record
    BY <1>12 DEF ResumeSuspends, TypeOK
  <2>2. tasks[r] \in SUBSET Requests
    BY DEF TypeOK
  <2>3. rec' \in [Execs -> Record]
    BY <1>12, <2>1, <2>2, TasksType, WriteType DEF ResumeSuspends
  <2> QED
    BY <1>12, <2>1, <2>2, <2>3 DEF ResumeSuspends, ReqGoto, history, TypeOK,
       ReqSteps, JobSteps
<1>13. ASSUME NEW r \in Requests, ResumeEnds(r)
      PROVE  TypeOK'
  <2>1. asks[r] \in Execs /\ rec[asks[r]] \in Record
    BY <1>13 DEF ResumeEnds, TypeOK
  <2>2. PICK status \in Statuses :
            Write(asks[r], WithStatus(rec[asks[r]], status))
    BY <1>13 DEF ResumeEnds, Statuses
  <2>3. rec' \in [Execs -> Record]
    BY <2>1, <2>2, StatusType, WriteType
  <2> QED
    BY <1>13, <2>1, <2>2, <2>3 DEF ResumeEnds, ReqGoto, history, TypeOK,
       ReqSteps, JobSteps
<1>14. ASSUME NEW r \in Requests, CancelStatus(r)
      PROVE  TypeOK'
  <2>1. asks[r] \in Execs
    BY <1>14 DEF CancelStatus, TypeOK
  <2>2. WithStatus(rec[asks[r]], "cancelled") \in Record
    BY <2>1, StatusType DEF TypeOK, Statuses
  <2>3. rec' \in [Execs -> Record]
    BY <1>14, <2>1, <2>2 DEF CancelStatus, Write, TypeOK
  <2> QED
    BY <1>14, <2>1, <2>3 DEF CancelStatus, ReqGoto, history, TypeOK,
       ReqSteps, JobSteps
<1>15. ASSUME NEW r \in Requests, CancelForget(r)
      PROVE  TypeOK'
  BY <1>15 DEF CancelForget, Without, ReqGoto, history, TypeOK, Record,
     Statuses, ReqSteps, JobSteps, Active
<1>16. ASSUME NEW r \in Requests, ResumeTask(r)
      PROVE  TypeOK'
  <2>1. asks[r] \in Execs /\ rec[asks[r]] \in Record
    BY <1>16 DEF ResumeTask, TypeOK
  <2>2. tasks[r] \in SUBSET Requests
    BY DEF TypeOK
  <2>3. rec' \in [Execs -> Record]
    BY <1>16, <2>1, <2>2, TasksType, WriteType DEF ResumeTask
  <2> QED
    BY <1>16, <2>1, <2>2, <2>3 DEF ResumeTask, history, TypeOK,
       ReqSteps, JobSteps
<1>17. ASSUME NEW r \in Requests, JobLoad(r)
      PROVE  TypeOK'
  <2>1. asks[r] \in Execs /\ rec[asks[r]] \in Record
    BY <1>17 DEF JobLoad, TypeOK
  <2>2. job' \in [Requests -> JobSteps]
    BY <1>17 DEF JobLoad, Requeue, JobGoto, JobSteps, TypeOK
  <2>3. tasks' \in [Requests -> SUBSET Requests]
    <3>1. tasks' \in {tasks, [tasks EXCEPT ![r] = rec[asks[r]].tasks]}
      BY <1>17 DEF JobLoad, Loaded
    <3>2. rec[asks[r]].tasks \in SUBSET Requests
      BY <2>1 DEF Record
    <3> QED
      BY <3>1, <3>2 DEF TypeOK
  <2>4. /\ UNCHANGED <<rec, slots, tracked, rpc, asks, snap, restarts, history>>
        /\ \A s \in Requests \ {r} : job'[s] = job[s]
    BY <1>17 DEF JobLoad, Requeue, JobGoto, TypeOK
  <2>5. \A s \in Requests : rpc'[s] # "idle" \/ job'[s] # "none" => asks'[s] \in Execs
    BY <2>1, <2>4 DEF TypeOK
  <2> QED
    BY <2>2, <2>3, <2>4, <2>5 DEF history, TypeOK
<1>18. ASSUME NEW r \in Requests, JobSave(r)
      PROVE  TypeOK'
  <2>1. asks[r] \in Execs /\ rec[asks[r]] \in Record
    BY <1>18 DEF JobSave, TypeOK
  <2>2. tasks[r] \in SUBSET Requests /\ NoRecord \in Record
    BY DEF TypeOK, NoRecord, Record, Statuses
  <2>3. [WithTasks(NoRecord, tasks[r]) EXCEPT !.status = "pending"] \in Record
    BY <2>2, TasksType DEF Record, Statuses
  <2>4. rec' \in [Execs -> Record]
    BY <1>18, <2>1, <2>3, SavedType, WriteType DEF JobSave
  <2> QED
    BY <1>18, <2>1, <2>2, <2>3, <2>4 DEF JobSave, JobGoto, history, TypeOK,
       ReqSteps, JobSteps
<1>19. ASSUME NEW r \in Requests, JobAcquire(r)
      PROVE  TypeOK'
  BY <1>19 DEF JobAcquire, Requeue, JobGoto, history, TypeOK, Record,
     Statuses, ReqSteps, JobSteps, Active
<1>20. ASSUME NEW r \in Requests, JobRunning(r)
      PROVE  TypeOK'
  <2>1. asks[r] \in Execs /\ rec[asks[r]] \in Record
    BY <1>20 DEF JobRunning, TypeOK
  <2>2. WithStatus(rec[asks[r]], "running") \in Record
    BY <2>1, StatusType DEF Statuses
  <2>3. rec' \in [Execs -> Record]
    BY <1>20, <2>1, <2>2, WriteType DEF JobRunning
  <2> QED
    BY <1>20, <2>1, <2>2, <2>3 DEF JobRunning, JobGoto, history, TypeOK,
       ReqSteps, JobSteps
<1>21. ASSUME NEW r \in Requests, JobSuspends(r)
      PROVE  TypeOK'
  <2>1. asks[r] \in Execs /\ rec[asks[r]] \in Record
    BY <1>21 DEF JobSuspends, TypeOK
  <2>2. tasks[r] \in SUBSET Requests
    BY DEF TypeOK
  <2>3. rec' \in [Execs -> Record]
    BY <1>21, <2>1, <2>2, TasksType, WriteType DEF JobSuspends
  <2> QED
    BY <1>21, <2>1, <2>2, <2>3 DEF JobSuspends, JobGoto, history, TypeOK,
       ReqSteps, JobSteps
<1>22. ASSUME NEW r \in Requests, JobEnds(r)
      PROVE  TypeOK'
  <2>1. PICK status \in Statuses :
            rec' = [rec EXCEPT ![asks[r]] =
                        [rec[asks[r]] EXCEPT !.status = status]]
    BY <1>22 DEF JobEnds, Terminal, Statuses, Write, WithStatus
  <2>2. asks[r] \in Execs
    BY <1>22 DEF JobEnds, TypeOK
  <2>3. [rec[asks[r]] EXCEPT !.status = status] \in Record
    BY <2>2 DEF TypeOK, Record
  <2>4. rec' \in [Execs -> Record]
    BY <2>1, <2>2, <2>3 DEF TypeOK
  <2> QED
    BY <1>22, <2>4 DEF JobEnds, JobGoto, history, TypeOK, ReqSteps, JobSteps
<1>23. ASSUME NEW r \in Requests, JobForget(r)
      PROVE  TypeOK'
  BY <1>23 DEF JobForget, Without, JobGoto, history, TypeOK, Record,
     Statuses, ReqSteps, JobSteps, Active
<1>24. ASSUME NEW r \in Requests, JobTask(r)
      PROVE  TypeOK'
  <2>1. asks[r] \in Execs /\ rec[asks[r]] \in Record
    BY <1>24 DEF JobTask, TypeOK
  <2>2. tasks[r] \in SUBSET Requests
    BY DEF TypeOK
  <2>3. rec' \in [Execs -> Record]
    BY <1>24, <2>1, <2>2, TasksType, WriteType DEF JobTask
  <2> QED
    BY <1>24, <2>1, <2>2, <2>3 DEF JobTask, history, TypeOK,
       ReqSteps, JobSteps
<1>25. CASE Restart
  <2>1. rpc' \in [Requests -> ReqSteps] /\ job' \in [Requests -> JobSteps]
    BY <1>25 DEF Restart, TypeOK, ReqSteps, JobSteps, Active
  <2>2. restarts' \in 0..MaxRestarts
    BY <1>25, MaxRestartsAssumption DEF Restart, TypeOK
  <2>3. ASSUME NEW r \in Requests, rpc'[r] # "idle" \/ job'[r] # "none"
        PROVE  asks'[r] \in Execs
    <3>1. rpc[r] # "idle" \/ job[r] # "none"
      BY <1>25, <2>3 DEF Restart, TypeOK, Active
    <3> QED
      BY <1>25, <3>1 DEF Restart, TypeOK
  <2> QED
    BY <1>25, <2>1, <2>2, <2>3 DEF Restart, history, TypeOK
<1>26. CASE UNCHANGED vars
  BY <1>26 DEF vars, history, TypeOK, Record, Statuses, ReqSteps, JobSteps,
     Active
<1>. QED
  BY <1>1, <1>2, <1>3, <1>4, <1>5, <1>6, <1>7, <1>8, <1>9, <1>10, <1>11,
     <1>12, <1>13, <1>14, <1>15, <1>16, <1>17, <1>18, <1>19, <1>20, <1>21,
     <1>22, <1>23, <1>24, <1>25, <1>26
     DEF Next, AgentStep, RequestStep, JobStep

\* Type correctness of the dialogue: statuses, steps, tasks and the history are
\* what the columns and the request handlers can hold.
THEOREM TypeCorrect == Spec => []TypeOK
<1>1. Init => TypeOK
  BY MaxRestartsAssumption
     DEF Init, TypeOK, NoRecord, Record, Statuses, ReqSteps, JobSteps
<1> QED
  BY <1>1, TypeStep, PTL DEF Spec

-----------------------------------------------------------------------------
(***************************************************************************)
(* Suspended executions and slots                                          *)
(***************************************************************************)

\* A record that waits can be resumed, and so can a snapshot of one: adjusting a
\* plan saves the snapshot's status, but leaves the resume columns of the
\* record that are set.
Resumable(record) == record.status = "waiting" => record.context /\ record.waits
SnapshotsResumable == \A r \in Requests : Resumable(snap[r])

LEMMA ResumableStep ==
    ASSUME TypeOK, WaitingIsResumable, SnapshotsResumable, [Next]_vars
    PROVE  WaitingIsResumable' /\ SnapshotsResumable'
<1>1. ASSUME NEW r \in Requests, NEW x \in Execs, NewInteraction(r, x)
      PROVE  WaitingIsResumable' /\ SnapshotsResumable'
  BY <1>1 DEF NewInteraction, WithStatus, NoRecord, Write, ReqGoto, About,
     history, TypeOK, Record, WaitingIsResumable, SnapshotsResumable, Resumable
<1>2. ASSUME NEW r \in Requests, NEW x \in Execs, Ask(r, x)
      PROVE  WaitingIsResumable' /\ SnapshotsResumable'
  BY <1>2 DEF Ask, ReqGoto, About, history, TypeOK, Record,
     WaitingIsResumable, SnapshotsResumable, Resumable
<1>3. ASSUME NEW r \in Requests, NEW x \in Execs, CancelExecution(r, x)
      PROVE  WaitingIsResumable' /\ SnapshotsResumable'
  BY <1>3 DEF CancelExecution, Cancellable, ReqGoto, About, history, TypeOK,
     Record, WaitingIsResumable, SnapshotsResumable, Resumable
<1>4. ASSUME NEW r \in Requests, Reply(r)
      PROVE  WaitingIsResumable' /\ SnapshotsResumable'
  BY <1>4 DEF Reply, ReqGoto, history, TypeOK, Record, WaitingIsResumable,
     SnapshotsResumable, Resumable
<1>5. ASSUME NEW r \in Requests, Advance(r)
      PROVE  WaitingIsResumable' /\ SnapshotsResumable'
  BY <1>5 DEF Advance, Write, WithStatus, ReqGoto, history, TypeOK, Record,
     WaitingIsResumable, SnapshotsResumable, Resumable
<1>6. ASSUME NEW r \in Requests, Adjust(r)
      PROVE  WaitingIsResumable' /\ SnapshotsResumable'
  BY <1>6 DEF Adjust, Write, Saved, WithTasks, ReqGoto, history, TypeOK,
     Record, WaitingIsResumable, SnapshotsResumable, Resumable
<1>7. ASSUME NEW r \in Requests, InjectTask(r)
      PROVE  WaitingIsResumable' /\ SnapshotsResumable'
  BY <1>7 DEF InjectTask, Write, Saved, WithTasks, ReqGoto, history, TypeOK,
     Record, WaitingIsResumable, SnapshotsResumable, Resumable
<1>8. ASSUME NEW r \in Requests, Resume(r)
      PROVE  WaitingIsResumable' /\ SnapshotsResumable'
  BY <1>8 DEF Resume, ReqGoto, history, TypeOK, Record, WaitingIsResumable,
     SnapshotsResumable, Resumable
<1>9. ASSUME NEW r \in Requests, Cancel(r)
      PROVE  WaitingIsResumable' /\ SnapshotsResumable'
  BY <1>9 DEF Cancel, Cancellable, ReqGoto, history, TypeOK, Record,
     WaitingIsResumable, SnapshotsResumable, Resumable
<1>10. ASSUME NEW r \in Requests, Submit(r)
      PROVE  WaitingIsResumable' /\ SnapshotsResumable'
  BY <1>10 DEF Submit, ReqGoto, JobGoto, history, TypeOK, Record,
     WaitingIsResumable, SnapshotsResumable, Resumable
<1>11. ASSUME NEW r \in Requests, ResumeState(r)
      PROVE  WaitingIsResumable' /\ SnapshotsResumable'
  BY <1>11 DEF ResumeState, Write, Resumed, ReqGoto, history, TypeOK, Record,
     WaitingIsResumable, SnapshotsResumable, Resumable
<1>12. ASSUME NEW r \in Requests, ResumeSuspends(r)
      PROVE  WaitingIsResumable' /\ SnapshotsResumable'
  BY <1>12 DEF ResumeSuspends, Write, Suspended, ReqGoto, history, TypeOK,
     Record, WaitingIsResumable, SnapshotsResumable, Resumable
<1>13. ASSUME NEW r \in Requests, ResumeEnds(r)
      PROVE  WaitingIsResumable' /\ SnapshotsResumable'
  BY <1>13 DEF ResumeEnds, Write, WithStatus, ReqGoto, history, TypeOK,
     Record, WaitingIsResumable, SnapshotsResumable, Resumable
<1>14. ASSUME NEW r \in Requests, CancelStatus(r)
      PROVE  WaitingIsResumable' /\ SnapshotsResumable'
  BY <1>14 DEF CancelStatus, Write, WithStatus, ReqGoto, history, TypeOK,
     Record, WaitingIsResumable, SnapshotsResumable, Resumable
<1>15. ASSUME NEW r \in Requests, CancelForget(r)
      PROVE  WaitingIsResumable' /\ SnapshotsResumable'
  BY <1>15 DEF CancelForget, Without, ReqGoto, history, TypeOK, Record,
     WaitingIsResumable, SnapshotsResumable, Resumable
<1>16. ASSUME NEW r \in Requests, ResumeTask(r)
      PROVE  WaitingIsResumable' /\ SnapshotsResumable'
  BY <1>16 DEF ResumeTask, Write, WithTasks, history, TypeOK, Record,
     WaitingIsResumable, SnapshotsResumable, Resumable
<1>17. ASSUME NEW r \in Requests, JobLoad(r)
      PROVE  WaitingIsResumable' /\ SnapshotsResumable'
  BY <1>17 DEF JobLoad, Loaded, Requeue, JobGoto, history, TypeOK, Record,
     WaitingIsResumable, SnapshotsResumable, Resumable
<1>18. ASSUME NEW r \in Requests, JobSave(r)
      PROVE  WaitingIsResumable' /\ SnapshotsResumable'
  BY <1>18 DEF JobSave, Write, Saved, WithTasks, NoRecord, JobGoto, history,
     TypeOK, Record, WaitingIsResumable, SnapshotsResumable, Resumable
<1>19. ASSUME NEW r \in Requests, JobAcquire(r)
      PROVE  WaitingIsResumable' /\ SnapshotsResumable'
  BY <1>19 DEF JobAcquire, Requeue, JobGoto, history, TypeOK, Record,
     WaitingIsResumable, SnapshotsResumable, Resumable
<1>20. ASSUME NEW r \in Requests, JobRunning(r)
      PROVE  WaitingIsResumable' /\ SnapshotsResumable'
  BY <1>20 DEF JobRunning, Write, WithStatus, JobGoto, history, TypeOK,
     Record, WaitingIsResumable, SnapshotsResumable, Resumable
<1>21. ASSUME NEW r \in Requests, JobSuspends(r)
      PROVE  WaitingIsResumable' /\ SnapshotsResumable'
  BY <1>21 DEF JobSuspends, Write, Suspended, JobGoto, history, TypeOK,
     Record, WaitingIsResumable, SnapshotsResumable, Resumable
<1>22. ASSUME NEW r \in Requests, JobEnds(r)
      PROVE  WaitingIsResumable' /\ SnapshotsResumable'
  BY <1>22 DEF JobEnds, Terminal, Write, WithStatus, JobGoto, history, TypeOK,
     Record,
     WaitingIsResumable, SnapshotsResumable, Resumable
<1>23. ASSUME NEW r \in Requests, JobForget(r)
      PROVE  WaitingIsResumable' /\ SnapshotsResumable'
  BY <1>23 DEF JobForget, Without, JobGoto, history, TypeOK, Record,
     WaitingIsResumable, SnapshotsResumable, Resumable
<1>24. ASSUME NEW r \in Requests, JobTask(r)
      PROVE  WaitingIsResumable' /\ SnapshotsResumable'
  BY <1>24 DEF JobTask, Write, WithTasks, history, TypeOK, Record,
     WaitingIsResumable, SnapshotsResumable, Resumable
<1>25. CASE Restart
  BY <1>25 DEF Restart, history, TypeOK, Record, WaitingIsResumable,
     SnapshotsResumable, Resumable
<1>26. CASE UNCHANGED vars
  BY <1>26 DEF vars, history, TypeOK, Record, WaitingIsResumable,
     SnapshotsResumable, Resumable
<1>. QED
  BY <1>1, <1>2, <1>3, <1>4, <1>5, <1>6, <1>7, <1>8, <1>9, <1>10, <1>11,
     <1>12, <1>13, <1>14, <1>15, <1>16, <1>17, <1>18, <1>19, <1>20, <1>21,
     <1>22, <1>23, <1>24, <1>25, <1>26
     DEF Next, AgentStep, RequestStep, JobStep

\* An execution that waits can be resumed.
THEOREM WaitingResumable == Spec => []WaitingIsResumable
<1>1. Init => WaitingIsResumable /\ SnapshotsResumable
  BY DEF Init, NoRecord, WaitingIsResumable, SnapshotsResumable, Resumable
<1> QED
  BY <1>1, TypeCorrect, ResumableStep, PTL DEF Spec

\* The slots change one execution at a time, and only JobAcquire adds one.
SlotsFinite == IsFiniteSet(slots)

LEMMA SlotsStep ==
    ASSUME SlotsFinite, QuotaKept, [Next]_vars
    PROVE  SlotsFinite' /\ QuotaKept'
<1> USE MaxQuotaAssumption DEF SlotsFinite, QuotaKept
<1>1. ASSUME NEW r \in Requests, JobAcquire(r)
      PROVE  SlotsFinite' /\ QuotaKept'
  <2>1. CASE FreeSlot
    <3>1. slots' = slots \cup {asks[r]}
      BY <1>1, <2>1 DEF JobAcquire
    <3>2. /\ IsFiniteSet(slots')
          /\ Cardinality(slots') \in {Cardinality(slots), Cardinality(slots) + 1}
      BY <3>1, FS_AddElement
    <3>3. Cardinality(slots) \in Nat
      BY FS_CardinalityType
    <3> QED
      BY <2>1, <3>2, <3>3 DEF FreeSlot
  <2>2. CASE ~FreeSlot
    BY <1>1, <2>2 DEF JobAcquire
  <2> QED
    BY <2>1, <2>2
<1>2. ASSUME NEW e, slots' = slots \ {e}
      PROVE  SlotsFinite' /\ QuotaKept'
  BY <1>2, FS_RemoveElement, FS_CardinalityType
<1>3. ASSUME NEW r \in Requests, CancelForget(r) \/ JobForget(r)
      PROVE  SlotsFinite' /\ QuotaKept'
  BY <1>2, <1>3 DEF CancelForget, JobForget, Without
<1>4. ASSUME Restart
      PROVE  SlotsFinite' /\ QuotaKept'
  BY <1>4, FS_EmptySet DEF Restart
<1>5. ASSUME slots' = slots
      PROVE  SlotsFinite' /\ QuotaKept'
  BY <1>5
<1>6. ASSUME NEW r \in Requests,
             \/ \E x \in Execs : \/ NewInteraction(r, x) \/ Ask(r, x)
                                \/ CancelExecution(r, x)
             \/ AgentStep(r) \/ Submit(r) \/ ResumeState(r)
             \/ ResumeSuspends(r) \/ ResumeEnds(r) \/ CancelStatus(r)
             \/ ResumeTask(r) \/ JobLoad(r) \/ JobSave(r) \/ JobRunning(r)
             \/ JobSuspends(r) \/ JobEnds(r) \/ JobTask(r)
      PROVE  slots' = slots
  BY <1>6 DEF NewInteraction, Ask, CancelExecution, AgentStep, Reply, Advance,
     Adjust, InjectTask, Resume, Cancel, Submit, ResumeState, ResumeSuspends,
     ResumeEnds, CancelStatus, ResumeTask, JobLoad, JobSave, JobRunning,
     JobSuspends, JobEnds, JobTask, Terminal
<1> QED
  BY <1>1, <1>3, <1>4, <1>5, <1>6 DEF Next, RequestStep, JobStep, vars

\* The cached robot never lists more executions than its quota allows.
THEOREM QuotaNeverPassed == Spec => []QuotaKept
<1>1. Init => SlotsFinite /\ QuotaKept
  BY MaxQuotaAssumption, FS_EmptySet DEF Init, SlotsFinite, QuotaKept
<1> QED
  BY <1>1, SlotsStep, PTL DEF Spec

-----------------------------------------------------------------------------
(***************************************************************************)
(* Executions whose users take turns                                       *)
(***************************************************************************)

\* A request has its job when it is done, and before it has begun it has added
\* no task.
IdleRequests ==
    \A r \in Requests :
        /\ rpc[r] # "done" => job[r] = "none"
        /\ rpc[r] = "idle" => r \notin owed

\* The agent answers about an execution that could be answered when it was read.
HostSnapshots ==
    \A r \in Requests : rpc[r] = "host" => Answerable(snap[r])

\* Nobody asks about an execution that has no record.
Fresh ==
    \A e \in Execs : rec[e].status = "none" =>
        \A r \in Requests : asks[r] # e

\* A job that has yet to end or to suspend.
Live == {"queued", "loaded", "saved", "acquired", "running"}

OneActive(e) ==
    \A r, s \in Requests :
        asks[r] = e /\ asks[s] = e /\ Active(r) /\ Active(s) => r = s

\* While a job runs, the record says so and no request can act on it.
JobAlone(e) ==
    \A r \in Requests : asks[r] = e /\ job[r] \in Live =>
        /\ rec[e].status \in {"running", "pending"} /\ ~rec[e].waits
        /\ \A s \in Requests : asks[s] = e => ~Active(s)

\* Before the first job nothing can have been suspended.
Unsubmitted(e) == \A r \in Requests : asks[r] = e => job[r] = "none"
NeverSuspended(e) ==
    Unsubmitted(e) =>
        /\ ~rec[e].waits /\ rec[e].status # "waiting"
        /\ \A r \in Requests : asks[r] = e =>
               /\ rpc[r] \notin {"restored", "resuming"}
               /\ rpc[r] = "host" =>
                      ~snap[r].waits /\ snap[r].status # "waiting"

\* What a request has seen or written is still so.
StatusFits(e) ==
    \A r \in Requests : asks[r] = e =>
        /\ rpc[r] \in {"submit", "resuming"} => rec[e].status = "running"
        /\ rpc[r] = "restored" => rec[e].status = "waiting"

\* Nobody is about to write an execution that has ended.
EndedIsLeft(e) ==
    rec[e].status \in Terminal =>
        \A r \in Requests : asks[r] = e /\ Active(r) => rpc[r] = "cancelled"

Orderly(e) ==
    /\ OneActive(e) /\ JobAlone(e) /\ NeverSuspended(e)
    /\ StatusFits(e) /\ EndedIsLeft(e)

Requested == TypeOK /\ IdleRequests /\ HostSnapshots /\ Fresh
IInv == Requested /\ \A e \in Execs : InTurn(e) => Orderly(e)

\* The requests keep what they have begun with.
LEMMA RequestedStep == ASSUME Requested, [Next]_vars PROVE Requested'
<1> DEFINE Goal == IdleRequests' /\ HostSnapshots' /\ Fresh'
<1>0. TypeOK /\ TypeOK'
  BY TypeStep DEF Requested
<1>1. ASSUME NEW r \in Requests, NEW x \in Execs, NewInteraction(r, x)
      PROVE  Goal
  BY <1>1, <1>0
     DEF NewInteraction, WithStatus, NoRecord, Write, ReqGoto, About,
         history, Requested, IdleRequests, HostSnapshots, Fresh, Answerable,
         TypeOK, Record, Active
<1>2. ASSUME NEW r \in Requests, NEW x \in Execs, Ask(r, x)
      PROVE  Goal
  BY <1>2, <1>0 DEF Ask, ReqGoto, About, history, Requested, IdleRequests,
     HostSnapshots, Fresh, Answerable, TypeOK, Record, Active
<1>3. ASSUME NEW r \in Requests, NEW x \in Execs, CancelExecution(r, x)
      PROVE  Goal
  BY <1>3, <1>0
     DEF CancelExecution, Cancellable, ReqGoto, About, history, Requested,
         IdleRequests, HostSnapshots, Fresh, Answerable, TypeOK, Record,
         Active
<1>4. ASSUME NEW r \in Requests, Reply(r)
      PROVE  Goal
  BY <1>4, <1>0 DEF Reply, ReqGoto, history, Requested, IdleRequests,
     HostSnapshots, Fresh, Answerable, TypeOK, Record, Active
<1>5. ASSUME NEW r \in Requests, Advance(r)
      PROVE  Goal
  BY <1>5, <1>0 DEF Advance, Write, WithStatus, ReqGoto, history, Requested,
     IdleRequests, HostSnapshots, Fresh, Answerable, TypeOK, Record, Active
<1>6. ASSUME NEW r \in Requests, Adjust(r)
      PROVE  Goal
  <2>1. /\ rpc[r] = "host" /\ asks[r] \in Execs /\ UNCHANGED <<asks, snap, job>>
        /\ rpc' = [rpc EXCEPT ![r] = "done"]
        /\ owed' \subseteq owed \cup {r}
    BY <1>6, <1>0 DEF Adjust, ReqGoto, Requested, TypeOK
  <2>2. \A x \in Execs : rec'[x].status \in {rec[x].status, snap[r].status}
    BY <1>6, <1>0, <2>1 DEF Adjust, Write, Saved, WithTasks, Requested, TypeOK, Record
  <2>3. \A x \in Execs : rec'[x].status = "none" => rec[x].status = "none"
    BY <1>0, <2>1, <2>2 DEF Requested, HostSnapshots, Answerable
  <2>4. rpc'[r] = "done" /\ \A s \in Requests \ {r} : rpc'[s] = rpc[s]
    BY <1>0, <2>1 DEF Requested, TypeOK
  <2>5. IdleRequests'
    BY <1>0, <2>1, <2>4 DEF Requested, IdleRequests
  <2>6. HostSnapshots'
    BY <1>0, <2>1, <2>4 DEF Requested, HostSnapshots, Answerable
  <2>7. Fresh'
    BY <1>0, <2>1, <2>3 DEF Requested, Fresh
  <2> QED
    BY <2>5, <2>6, <2>7
<1>7. ASSUME NEW r \in Requests, InjectTask(r)
      PROVE  Goal
  <2>1. /\ rpc[r] = "host" /\ asks[r] \in Execs /\ UNCHANGED <<asks, snap, job>>
        /\ rpc' = [rpc EXCEPT ![r] = "done"]
        /\ owed' \subseteq owed \cup {r}
    BY <1>7, <1>0 DEF InjectTask, ReqGoto, Requested, TypeOK
  <2>2. \A x \in Execs : rec'[x].status \in {rec[x].status, snap[r].status}
    BY <1>7, <1>0, <2>1 DEF InjectTask, Write, Saved, WithTasks, Requested, TypeOK, Record
  <2>3. \A x \in Execs : rec'[x].status = "none" => rec[x].status = "none"
    BY <1>0, <2>1, <2>2 DEF Requested, HostSnapshots, Answerable
  <2>4. rpc'[r] = "done" /\ \A s \in Requests \ {r} : rpc'[s] = rpc[s]
    BY <1>0, <2>1 DEF Requested, TypeOK
  <2>5. IdleRequests'
    BY <1>0, <2>1, <2>4 DEF Requested, IdleRequests
  <2>6. HostSnapshots'
    BY <1>0, <2>1, <2>4 DEF Requested, HostSnapshots, Answerable
  <2>7. Fresh'
    BY <1>0, <2>1, <2>3 DEF Requested, Fresh
  <2> QED
    BY <2>5, <2>6, <2>7
<1>8. ASSUME NEW r \in Requests, Resume(r)
      PROVE  Goal
  BY <1>8, <1>0 DEF Resume, ReqGoto, history, Requested, IdleRequests,
     HostSnapshots, Fresh, Answerable, TypeOK, Record, Active
<1>9. ASSUME NEW r \in Requests, Cancel(r)
      PROVE  Goal
  BY <1>9, <1>0 DEF Cancel, Cancellable, ReqGoto, history, Requested,
     IdleRequests, HostSnapshots, Fresh, Answerable, TypeOK, Record, Active
<1>10. ASSUME NEW r \in Requests, Submit(r)
      PROVE  Goal
  BY <1>10, <1>0 DEF Submit, ReqGoto, JobGoto, history, Requested,
     IdleRequests, HostSnapshots, Fresh, Answerable, TypeOK, Record, Active
<1>11. ASSUME NEW r \in Requests, ResumeState(r)
      PROVE  Goal
  BY <1>11, <1>0
     DEF ResumeState, Write, Resumed, ReqGoto, history, Requested,
         IdleRequests, HostSnapshots, Fresh, Answerable, TypeOK, Record,
         Active
<1>12. ASSUME NEW r \in Requests, ResumeSuspends(r)
      PROVE  Goal
  BY <1>12, <1>0
     DEF ResumeSuspends, Write, Suspended, ReqGoto, history, Requested,
         IdleRequests, HostSnapshots, Fresh, Answerable, TypeOK, Record,
         Active
<1>13. ASSUME NEW r \in Requests, ResumeEnds(r)
      PROVE  Goal
  BY <1>13, <1>0
     DEF ResumeEnds, Write, WithStatus, ReqGoto, history, Requested,
         IdleRequests, HostSnapshots, Fresh, Answerable, TypeOK, Record,
         Active
<1>14. ASSUME NEW r \in Requests, CancelStatus(r)
      PROVE  Goal
  BY <1>14, <1>0
     DEF CancelStatus, Write, WithStatus, ReqGoto, history, Requested,
         IdleRequests, HostSnapshots, Fresh, Answerable, TypeOK, Record,
         Active
<1>15. ASSUME NEW r \in Requests, CancelForget(r)
      PROVE  Goal
  BY <1>15, <1>0 DEF CancelForget, Without, ReqGoto, history, Requested,
     IdleRequests, HostSnapshots, Fresh, Answerable, TypeOK, Record, Active
<1>16. ASSUME NEW r \in Requests, ResumeTask(r)
      PROVE  Goal
  BY <1>16, <1>0 DEF ResumeTask, Write, WithTasks, history, Requested,
     IdleRequests, HostSnapshots, Fresh, Answerable, TypeOK, Record, Active
<1>17. ASSUME NEW r \in Requests, JobLoad(r)
      PROVE  Goal
  BY <1>17, <1>0 DEF JobLoad, Loaded, Requeue, JobGoto, history, Requested,
     IdleRequests, HostSnapshots, Fresh, Answerable, TypeOK, Record, Active
<1>18. ASSUME NEW r \in Requests, JobSave(r)
      PROVE  Goal
  BY <1>18, <1>0
     DEF JobSave, Write, Saved, WithTasks, NoRecord, JobGoto, history,
         Requested, IdleRequests, HostSnapshots, Fresh, Answerable, TypeOK,
         Record, Active
<1>19. ASSUME NEW r \in Requests, JobAcquire(r)
      PROVE  Goal
  BY <1>19, <1>0 DEF JobAcquire, Requeue, JobGoto, history, Requested,
     IdleRequests, HostSnapshots, Fresh, Answerable, TypeOK, Record, Active
<1>20. ASSUME NEW r \in Requests, JobRunning(r)
      PROVE  Goal
  BY <1>20, <1>0
     DEF JobRunning, Write, WithStatus, JobGoto, history, Requested,
         IdleRequests, HostSnapshots, Fresh, Answerable, TypeOK, Record,
         Active
<1>21. ASSUME NEW r \in Requests, JobSuspends(r)
      PROVE  Goal
  BY <1>21, <1>0
     DEF JobSuspends, Write, Suspended, JobGoto, history, Requested,
         IdleRequests, HostSnapshots, Fresh, Answerable, TypeOK, Record,
         Active
<1>22. ASSUME NEW r \in Requests, JobEnds(r)
      PROVE  Goal
  BY <1>22, <1>0 DEF JobEnds, Terminal, Write, WithStatus, JobGoto, history,
     Requested,
     IdleRequests, HostSnapshots, Fresh, Answerable, TypeOK, Record, Active
<1>23. ASSUME NEW r \in Requests, JobForget(r)
      PROVE  Goal
  BY <1>23, <1>0 DEF JobForget, Without, JobGoto, history, Requested,
     IdleRequests, HostSnapshots, Fresh, Answerable, TypeOK, Record, Active
<1>24. ASSUME NEW r \in Requests, JobTask(r)
      PROVE  Goal
  BY <1>24, <1>0 DEF JobTask, Write, WithTasks, history, Requested,
     IdleRequests, HostSnapshots, Fresh, Answerable, TypeOK, Record, Active
<1>25. CASE Restart
  BY <1>25, <1>0 DEF Restart, history, Requested, IdleRequests,
     HostSnapshots, Fresh, Answerable, TypeOK, Record, Active
<1>26. CASE UNCHANGED vars
  BY <1>26, <1>0 DEF vars, history, Requested, IdleRequests, HostSnapshots,
     Fresh, Answerable, TypeOK, Record, Active
<1>. QED
  BY <1>0, <1>1, <1>2, <1>3, <1>4, <1>5, <1>6, <1>7, <1>8, <1>9, <1>10,
     <1>11, <1>12, <1>13, <1>14, <1>15, <1>16, <1>17, <1>18, <1>19, <1>20,
     <1>21, <1>22, <1>23, <1>24, <1>25, <1>26
     DEF Requested, Next, AgentStep, RequestStep, JobStep

\* Turns are not taken back: requests and jobs that were about e stay so.
LEMMA TurnsKept ==
    ASSUME Requested, [Next]_vars, NEW e \in Execs, InTurn(e)'
    PROVE  InTurn(e)
<1>1. ASSUME NEW r \in Requests, NEW x \in Execs, NewInteraction(r, x)
      PROVE  InTurn(e)
  BY <1>1 DEF NewInteraction, WithStatus, NoRecord, Write, ReqGoto, About,
     history, InTurn, AtMostOne, JobsOf, Requested, IdleRequests, TypeOK
<1>2. ASSUME NEW r \in Requests, NEW x \in Execs, Ask(r, x)
      PROVE  InTurn(e)
  BY <1>2 DEF Ask, ReqGoto, About, history, InTurn, AtMostOne, JobsOf,
     Requested, IdleRequests, TypeOK
<1>3. ASSUME NEW r \in Requests, NEW x \in Execs, CancelExecution(r, x)
      PROVE  InTurn(e)
  BY <1>3 DEF CancelExecution, Cancellable, ReqGoto, About, history, InTurn,
     AtMostOne, JobsOf, Requested, IdleRequests, TypeOK
<1>4. ASSUME NEW r \in Requests, Reply(r)
      PROVE  InTurn(e)
  BY <1>4 DEF Reply, ReqGoto, history, InTurn, AtMostOne, JobsOf, Requested,
     IdleRequests, TypeOK
<1>5. ASSUME NEW r \in Requests, Advance(r)
      PROVE  InTurn(e)
  BY <1>5 DEF Advance, Write, WithStatus, ReqGoto, history, InTurn,
     AtMostOne, JobsOf, Requested, IdleRequests, TypeOK
<1>6. ASSUME NEW r \in Requests, Adjust(r)
      PROVE  InTurn(e)
  BY <1>6 DEF Adjust, Write, Saved, WithTasks, ReqGoto, history, InTurn,
     AtMostOne, JobsOf, Requested, IdleRequests, TypeOK
<1>7. ASSUME NEW r \in Requests, InjectTask(r)
      PROVE  InTurn(e)
  BY <1>7 DEF InjectTask, Write, Saved, WithTasks, ReqGoto, history, InTurn,
     AtMostOne, JobsOf, Requested, IdleRequests, TypeOK
<1>8. ASSUME NEW r \in Requests, Resume(r)
      PROVE  InTurn(e)
  BY <1>8 DEF Resume, ReqGoto, history, InTurn, AtMostOne, JobsOf, Requested,
     IdleRequests, TypeOK
<1>9. ASSUME NEW r \in Requests, Cancel(r)
      PROVE  InTurn(e)
  BY <1>9 DEF Cancel, Cancellable, ReqGoto, history, InTurn, AtMostOne,
     JobsOf, Requested, IdleRequests, TypeOK
<1>10. ASSUME NEW r \in Requests, Submit(r)
      PROVE  InTurn(e)
  BY <1>10 DEF Submit, ReqGoto, JobGoto, history, InTurn, AtMostOne, JobsOf,
     Requested, IdleRequests, TypeOK
<1>11. ASSUME NEW r \in Requests, ResumeState(r)
      PROVE  InTurn(e)
  BY <1>11 DEF ResumeState, Write, Resumed, ReqGoto, history, InTurn,
     AtMostOne, JobsOf, Requested, IdleRequests, TypeOK
<1>12. ASSUME NEW r \in Requests, ResumeSuspends(r)
      PROVE  InTurn(e)
  BY <1>12 DEF ResumeSuspends, Write, Suspended, ReqGoto, history, InTurn,
     AtMostOne, JobsOf, Requested, IdleRequests, TypeOK
<1>13. ASSUME NEW r \in Requests, ResumeEnds(r)
      PROVE  InTurn(e)
  BY <1>13 DEF ResumeEnds, Write, WithStatus, ReqGoto, history, InTurn,
     AtMostOne, JobsOf, Requested, IdleRequests, TypeOK
<1>14. ASSUME NEW r \in Requests, CancelStatus(r)
      PROVE  InTurn(e)
  BY <1>14 DEF CancelStatus, Write, WithStatus, ReqGoto, history, InTurn,
     AtMostOne, JobsOf, Requested, IdleRequests, TypeOK
<1>15. ASSUME NEW r \in Requests, CancelForget(r)
      PROVE  InTurn(e)
  BY <1>15 DEF CancelForget, Without, ReqGoto, history, InTurn, AtMostOne,
     JobsOf, Requested, IdleRequests, TypeOK
<1>16. ASSUME NEW r \in Requests, ResumeTask(r)
      PROVE  InTurn(e)
  BY <1>16 DEF ResumeTask, Write, WithTasks, history, InTurn, AtMostOne,
     JobsOf, Requested, IdleRequests, TypeOK
<1>17. ASSUME NEW r \in Requests, JobLoad(r)
      PROVE  InTurn(e)
  BY <1>17 DEF JobLoad, Loaded, Requeue, JobGoto, history, InTurn, AtMostOne,
     JobsOf, Requested, IdleRequests, TypeOK
<1>18. ASSUME NEW r \in Requests, JobSave(r)
      PROVE  InTurn(e)
  BY <1>18 DEF JobSave, Write, Saved, WithTasks, NoRecord, JobGoto, history,
     InTurn, AtMostOne, JobsOf, Requested, IdleRequests, TypeOK
<1>19. ASSUME NEW r \in Requests, JobAcquire(r)
      PROVE  InTurn(e)
  BY <1>19 DEF JobAcquire, Requeue, JobGoto, history, InTurn, AtMostOne,
     JobsOf, Requested, IdleRequests, TypeOK
<1>20. ASSUME NEW r \in Requests, JobRunning(r)
      PROVE  InTurn(e)
  BY <1>20 DEF JobRunning, Write, WithStatus, JobGoto, history, InTurn,
     AtMostOne, JobsOf, Requested, IdleRequests, TypeOK
<1>21. ASSUME NEW r \in Requests, JobSuspends(r)
      PROVE  InTurn(e)
  BY <1>21 DEF JobSuspends, Write, Suspended, JobGoto, history, InTurn,
     AtMostOne, JobsOf, Requested, IdleRequests, TypeOK
<1>22. ASSUME NEW r \in Requests, JobEnds(r)
      PROVE  InTurn(e)
  BY <1>22 DEF JobEnds, Terminal, Write, WithStatus, JobGoto, history, InTurn,
     AtMostOne, JobsOf, Requested, IdleRequests, TypeOK
<1>23. ASSUME NEW r \in Requests, JobForget(r)
      PROVE  InTurn(e)
  BY <1>23 DEF JobForget, Without, JobGoto, history, InTurn, AtMostOne,
     JobsOf, Requested, IdleRequests, TypeOK
<1>24. ASSUME NEW r \in Requests, JobTask(r)
      PROVE  InTurn(e)
  BY <1>24 DEF JobTask, Write, WithTasks, history, InTurn, AtMostOne, JobsOf,
     Requested, IdleRequests, TypeOK
<1>25. CASE Restart
  BY <1>25 DEF Restart, history, InTurn, AtMostOne, JobsOf, Requested,
     IdleRequests, TypeOK
<1>26. CASE UNCHANGED vars
  BY <1>26 DEF vars, history, InTurn, AtMostOne, JobsOf, Requested,
     IdleRequests, TypeOK
<1>. QED
  BY <1>1, <1>2, <1>3, <1>4, <1>5, <1>6, <1>7, <1>8, <1>9, <1>10, <1>11,
     <1>12, <1>13, <1>14, <1>15, <1>16, <1>17, <1>18, <1>19, <1>20, <1>21,
     <1>22, <1>23, <1>24, <1>25, <1>26
     DEF Next, AgentStep, RequestStep, JobStep

\* The one active request of an execution writes what fits its own next step.
LEMMA ActiveWrites ==
    ASSUME TypeOK, NEW e \in Execs, Orderly(e), NEW r \in Requests, Active(r),
           asks' = asks, \A s \in Requests \ {r} : rpc'[s] = rpc[s],
           asks[r] # e => rec'[e] = rec[e],
           asks[r] = e =>
               /\ rpc'[r] \in {"submit", "resuming"} => rec'[e].status = "running"
               /\ rpc'[r] = "restored" => rec'[e].status = "waiting"
    PROVE  StatusFits(e)'
<1> SUFFICES ASSUME NEW s \in Requests, asks[s] = e
             PROVE  /\ rpc'[s] \in {"submit", "resuming"} => rec'[e].status = "running"
                    /\ rpc'[s] = "restored" => rec'[e].status = "waiting"
  BY DEF StatusFits
<1>1. CASE s = r
  BY <1>1
<1>2. CASE s # r /\ asks[r] = e
  <2>1. ~Active(s)
    BY <1>2 DEF Orderly, OneActive
  <2> QED
    BY <1>2, <2>1 DEF Active
<1>3. CASE s # r /\ asks[r] # e
  BY <1>3 DEF Orderly, StatusFits
<1> QED
  BY <1>1, <1>2, <1>3

\* An execution whose users take turns stays in order.
LEMMA OrderlyStep ==
    ASSUME IInv, [Next]_vars, NEW e \in Execs, InTurn(e)'
    PROVE  Orderly(e)'
<1> USE DEF Live, Terminal
<1>0. Requested /\ Requested' /\ InTurn(e) /\ Orderly(e)
  BY RequestedStep, TurnsKept DEF IInv
<1>1. ASSUME NEW r \in Requests, NEW x \in Execs, NewInteraction(r, x)
      PROVE  Orderly(e)'
  BY <1>1, <1>0
     DEF NewInteraction, WithStatus, NoRecord, Write, ReqGoto, About,
         history, Orderly, OneActive, JobAlone, NeverSuspended, Unsubmitted,
         StatusFits, EndedIsLeft, InTurn, AtMostOne, JobsOf, Requested,
         IdleRequests, HostSnapshots, Fresh, Answerable, TypeOK, Record,
         Active
<1>2. ASSUME NEW r \in Requests, NEW x \in Execs, Ask(r, x)
      PROVE  Orderly(e)'
  BY <1>2, <1>0
     DEF Ask, ReqGoto, About, history, Orderly, OneActive, JobAlone,
         NeverSuspended, Unsubmitted, StatusFits, EndedIsLeft, InTurn,
         AtMostOne, JobsOf, Requested, IdleRequests, HostSnapshots, Fresh,
         Answerable, TypeOK, Record, Active
<1>3. ASSUME NEW r \in Requests, NEW x \in Execs, CancelExecution(r, x)
      PROVE  Orderly(e)'
  BY <1>3, <1>0
     DEF CancelExecution, Cancellable, ReqGoto, About, history, Orderly,
         OneActive, JobAlone, NeverSuspended, Unsubmitted, StatusFits,
         EndedIsLeft, InTurn, AtMostOne, JobsOf, Requested, IdleRequests,
         HostSnapshots, Fresh, Answerable, TypeOK, Record, Active
<1>4. ASSUME NEW r \in Requests, Reply(r)
      PROVE  Orderly(e)'
  BY <1>4, <1>0
     DEF Reply, ReqGoto, history, Orderly, OneActive, JobAlone,
         NeverSuspended, Unsubmitted, StatusFits, EndedIsLeft, InTurn,
         AtMostOne, JobsOf, Requested, IdleRequests, HostSnapshots, Fresh,
         Answerable, TypeOK, Record, Active
<1>5. ASSUME NEW r \in Requests, Advance(r)
      PROVE  Orderly(e)'
  <2>1. OneActive(e)'
    BY <1>5, <1>0
       DEF Advance, Write, WithStatus, ReqGoto, history, OneActive, Orderly,
           InTurn, AtMostOne, JobsOf, Requested, TypeOK, Record, Active
  <2>2. JobAlone(e)'
    BY <1>5, <1>0
       DEF Advance, Write, WithStatus, ReqGoto, history, JobAlone, OneActive,
           NeverSuspended, Unsubmitted, StatusFits, HostSnapshots,
           Answerable, Orderly, InTurn, AtMostOne, JobsOf, Requested, TypeOK,
           Record, Active
  <2>3. NeverSuspended(e)'
    BY <1>5, <1>0
       DEF Advance, Write, WithStatus, ReqGoto, history, NeverSuspended,
           Unsubmitted, Orderly, InTurn, AtMostOne, JobsOf, Requested,
           TypeOK, Record, Active
  <2>4. StatusFits(e)'
    <3>1. /\ rpc[r] = "host" /\ asks' = asks /\ asks[r] \in Execs
          /\ rec' = [rec EXCEPT ![asks[r]] = WithStatus(rec[asks[r]], "running")]
          /\ rpc' = [rpc EXCEPT ![r] = "submit"]
      BY <1>5, <1>0 DEF Advance, Write, ReqGoto, Requested, TypeOK
    <3>2. rec[asks[r]] \in Record /\ \A s \in Requests \ {r} : rpc'[s] = rpc[s]
      BY <1>0, <3>1 DEF Requested, TypeOK
    <3>3. asks[r] # e => rec'[e] = rec[e]
      BY <1>0, <3>1 DEF Requested, TypeOK
    <3>4. asks[r] = e => rec'[e].status = "running"
      BY <1>0, <3>1, <3>2 DEF Requested, TypeOK, WithStatus, Record
    <3>5. Active(r) /\ rpc'[r] = "submit"
      BY <1>0, <3>1 DEF Active, Requested, TypeOK
    <3> QED
      BY <1>0, <3>1, <3>2, <3>3, <3>4, <3>5, ActiveWrites DEF Requested
  <2>5. EndedIsLeft(e)'
    BY <1>5, <1>0
       DEF Advance, Write, WithStatus, ReqGoto, history, EndedIsLeft,
           OneActive, JobAlone, HostSnapshots, Answerable, Orderly, InTurn,
           AtMostOne, JobsOf, Requested, TypeOK, Record, Active
  <2> QED
    BY <2>1, <2>2, <2>3, <2>4, <2>5 DEF Orderly
<1>6. ASSUME NEW r \in Requests, Adjust(r)
      PROVE  Orderly(e)'
  <2>1. OneActive(e)'
    BY <1>6, <1>0
       DEF Adjust, Write, Saved, WithTasks, ReqGoto, history, OneActive,
           Orderly, InTurn, AtMostOne, JobsOf, Requested, TypeOK, Record,
           Active
  <2>2. JobAlone(e)'
    BY <1>6, <1>0
       DEF Adjust, Write, Saved, WithTasks, ReqGoto, history, JobAlone,
           OneActive, NeverSuspended, Unsubmitted, StatusFits, HostSnapshots,
           Answerable, Orderly, InTurn, AtMostOne, JobsOf, Requested, TypeOK,
           Record, Active
  <2>3. NeverSuspended(e)'
    BY <1>6, <1>0
       DEF Adjust, Write, Saved, WithTasks, ReqGoto, history, NeverSuspended,
           Unsubmitted, Orderly, InTurn, AtMostOne, JobsOf, Requested,
           TypeOK, Record, Active
  <2>4. StatusFits(e)'
    <3>1. /\ Active(r) /\ asks' = asks /\ \A s \in Requests \ {r} : rpc'[s] = rpc[s]
          /\ asks[r] # e => rec'[e] = rec[e]
          /\ rpc'[r] \in {"done", "cancelled"}
      BY <1>6, <1>0 DEF Adjust, Write, ReqGoto, Active, Requested, TypeOK
    <3> QED
      BY <1>0, <3>1, ActiveWrites DEF Requested
  <2>5. EndedIsLeft(e)'
    BY <1>6, <1>0
       DEF Adjust, Write, Saved, WithTasks, ReqGoto, history, EndedIsLeft,
           OneActive, JobAlone, HostSnapshots, Answerable, Orderly, InTurn,
           AtMostOne, JobsOf, Requested, TypeOK, Record, Active
  <2> QED
    BY <2>1, <2>2, <2>3, <2>4, <2>5 DEF Orderly
<1>7. ASSUME NEW r \in Requests, InjectTask(r)
      PROVE  Orderly(e)'
  <2>1. OneActive(e)'
    BY <1>7, <1>0
       DEF InjectTask, Write, Saved, WithTasks, ReqGoto, history, OneActive,
           Orderly, InTurn, AtMostOne, JobsOf, Requested, TypeOK, Record,
           Active
  <2>2. JobAlone(e)'
    BY <1>7, <1>0
       DEF InjectTask, Write, Saved, WithTasks, ReqGoto, history, JobAlone,
           OneActive, NeverSuspended, Unsubmitted, StatusFits, HostSnapshots,
           Answerable, Orderly, InTurn, AtMostOne, JobsOf, Requested, TypeOK,
           Record, Active
  <2>3. NeverSuspended(e)'
    BY <1>7, <1>0
       DEF InjectTask, Write, Saved, WithTasks, ReqGoto, history,
           NeverSuspended, Unsubmitted, Orderly, InTurn, AtMostOne, JobsOf,
           Requested, TypeOK, Record, Active
  <2>4. StatusFits(e)'
    <3>1. /\ Active(r) /\ asks' = asks /\ \A s \in Requests \ {r} : rpc'[s] = rpc[s]
          /\ asks[r] # e => rec'[e] = rec[e]
          /\ rpc'[r] \in {"done", "cancelled"}
      BY <1>7, <1>0 DEF InjectTask, Write, ReqGoto, Active, Requested, TypeOK
    <3> QED
      BY <1>0, <3>1, ActiveWrites DEF Requested
  <2>5. EndedIsLeft(e)'
    BY <1>7, <1>0
       DEF InjectTask, Write, Saved, WithTasks, ReqGoto, history,
           EndedIsLeft, OneActive, JobAlone, HostSnapshots, Answerable,
           Orderly, InTurn, AtMostOne, JobsOf, Requested, TypeOK, Record,
           Active
  <2> QED
    BY <2>1, <2>2, <2>3, <2>4, <2>5 DEF Orderly
<1>8. ASSUME NEW r \in Requests, Resume(r)
      PROVE  Orderly(e)'
  BY <1>8, <1>0
     DEF Resume, ReqGoto, history, Orderly, OneActive, JobAlone,
         NeverSuspended, Unsubmitted, StatusFits, EndedIsLeft, InTurn,
         AtMostOne, JobsOf, Requested, IdleRequests, HostSnapshots, Fresh,
         Answerable, TypeOK, Record, Active
<1>9. ASSUME NEW r \in Requests, Cancel(r)
      PROVE  Orderly(e)'
  BY <1>9, <1>0
     DEF Cancel, Cancellable, ReqGoto, history, Orderly, OneActive, JobAlone,
         NeverSuspended, Unsubmitted, StatusFits, EndedIsLeft, InTurn,
         AtMostOne, JobsOf, Requested, IdleRequests, HostSnapshots, Fresh,
         Answerable, TypeOK, Record, Active
<1>10. ASSUME NEW r \in Requests, Submit(r)
      PROVE  Orderly(e)'
  <2>1. OneActive(e)'
    BY <1>10, <1>0 DEF Submit, ReqGoto, JobGoto, history, OneActive, Orderly,
       InTurn, AtMostOne, JobsOf, Requested, TypeOK, Record, Active
  <2>2. JobAlone(e)'
    <3> SUFFICES ASSUME NEW s \in Requests, asks'[s] = e, job'[s] \in Live
                 PROVE  /\ rec'[e].status \in {"running", "pending"}
                        /\ ~rec'[e].waits
                        /\ \A q \in Requests : asks'[q] = e => ~Active(q)'
      BY DEF JobAlone
    <3>0. asks' = asks /\ rec' = rec /\ asks[s] = e
      BY <1>10 DEF Submit, history
    <3>1. CASE s = r
      <4>1. Unsubmitted(e)
        <5>1. job[r] = "none"
          BY <1>10, <1>0 DEF Submit, Requested, IdleRequests
        <5>2. ASSUME NEW q \in Requests, asks[q] = e, job[q] # "none"
              PROVE  FALSE
          <6>1. q # r /\ job'[q] = job[q]
            BY <1>10, <1>0, <5>1, <5>2 DEF Submit, JobGoto, Requested, TypeOK
          <6>2. {q, r} \subseteq JobsOf(e)'
            BY <1>0, <3>0, <3>1, <5>2, <6>1 DEF JobsOf, Live
          <6> QED
            BY <6>1, <6>2 DEF InTurn, AtMostOne
        <5> QED
          BY <5>2 DEF Unsubmitted
      <4>2. rec[e].status = "running" /\ ~rec[e].waits
        BY <1>10, <1>0, <3>0, <3>1, <4>1 DEF Submit, Orderly, StatusFits,
           NeverSuspended
      <4>3. \A q \in Requests : asks[q] = e => ~Active(q)'
        BY <1>10, <1>0, <3>0, <3>1 DEF Submit, ReqGoto, Orderly, OneActive,
           Active,
           Requested, TypeOK
      <4> QED
        BY <3>0, <4>2, <4>3
    <3>2. CASE s # r
      <4>1. job[s] \in Live
        BY <1>10, <1>0, <3>2 DEF Submit, JobGoto, Requested, TypeOK
      <4> QED
        BY <1>10, <1>0, <3>0, <4>1 DEF Submit, ReqGoto, Orderly, JobAlone,
           Active,
           Requested, TypeOK
    <3> QED
      BY <3>1, <3>2
  <2>3. NeverSuspended(e)'
    BY <1>10, <1>0
       DEF Submit, ReqGoto, JobGoto, history, NeverSuspended, Unsubmitted,
           Orderly, InTurn, AtMostOne, JobsOf, Requested, TypeOK, Record,
           Active
  <2>4. StatusFits(e)'
    BY <1>10, <1>0
       DEF Submit, ReqGoto, JobGoto, history, StatusFits, OneActive,
           JobAlone, Orderly, InTurn, AtMostOne, JobsOf, Requested, TypeOK,
           Record, Active
  <2>5. EndedIsLeft(e)'
    BY <1>10, <1>0
       DEF Submit, ReqGoto, JobGoto, history, EndedIsLeft, OneActive,
           JobAlone, HostSnapshots, Answerable, Orderly, InTurn, AtMostOne,
           JobsOf, Requested, TypeOK, Record, Active
  <2> QED
    BY <2>1, <2>2, <2>3, <2>4, <2>5 DEF Orderly
<1>11. ASSUME NEW r \in Requests, ResumeState(r)
      PROVE  Orderly(e)'
  BY <1>11, <1>0
     DEF ResumeState, Write, Resumed, ReqGoto, history, Orderly, OneActive,
         JobAlone, NeverSuspended, Unsubmitted, StatusFits, EndedIsLeft,
         InTurn, AtMostOne, JobsOf, Requested, IdleRequests, HostSnapshots,
         Fresh, Answerable, TypeOK, Record, Active
<1>12. ASSUME NEW r \in Requests, ResumeSuspends(r)
      PROVE  Orderly(e)'
  <2>1. OneActive(e)'
    BY <1>12, <1>0
       DEF ResumeSuspends, Write, Suspended, ReqGoto, history, OneActive,
           Orderly, InTurn, AtMostOne, JobsOf, Requested, TypeOK, Record,
           Active
  <2>2. JobAlone(e)'
    BY <1>12, <1>0
       DEF ResumeSuspends, Write, Suspended, ReqGoto, history, JobAlone,
           OneActive, NeverSuspended, Unsubmitted, StatusFits, HostSnapshots,
           Answerable, Orderly, InTurn, AtMostOne, JobsOf, Requested, TypeOK,
           Record, Active
  <2>3. NeverSuspended(e)'
    BY <1>12, <1>0
       DEF ResumeSuspends, Write, Suspended, ReqGoto, history,
           NeverSuspended, Unsubmitted, Orderly, InTurn, AtMostOne, JobsOf,
           Requested, TypeOK, Record, Active
  <2>4. StatusFits(e)'
    <3>1. /\ Active(r) /\ asks' = asks /\ \A s \in Requests \ {r} : rpc'[s] = rpc[s]
          /\ asks[r] # e => rec'[e] = rec[e]
          /\ rpc'[r] \in {"done", "cancelled"}
      BY <1>12, <1>0 DEF ResumeSuspends, Write, ReqGoto, Active, Requested, TypeOK
    <3> QED
      BY <1>0, <3>1, ActiveWrites DEF Requested
  <2>5. EndedIsLeft(e)'
    BY <1>12, <1>0
       DEF ResumeSuspends, Write, Suspended, ReqGoto, history, EndedIsLeft,
           OneActive, JobAlone, HostSnapshots, Answerable, Orderly, InTurn,
           AtMostOne, JobsOf, Requested, TypeOK, Record, Active
  <2> QED
    BY <2>1, <2>2, <2>3, <2>4, <2>5 DEF Orderly
<1>13. ASSUME NEW r \in Requests, ResumeEnds(r)
      PROVE  Orderly(e)'
  <2>1. OneActive(e)'
    BY <1>13, <1>0
       DEF ResumeEnds, Write, WithStatus, ReqGoto, history, OneActive,
           Orderly, InTurn, AtMostOne, JobsOf, Requested, TypeOK, Record,
           Active
  <2>2. JobAlone(e)'
    BY <1>13, <1>0
       DEF ResumeEnds, Write, WithStatus, ReqGoto, history, JobAlone,
           OneActive, NeverSuspended, Unsubmitted, StatusFits, HostSnapshots,
           Answerable, Orderly, InTurn, AtMostOne, JobsOf, Requested, TypeOK,
           Record, Active
  <2>3. NeverSuspended(e)'
    BY <1>13, <1>0
       DEF ResumeEnds, Write, WithStatus, ReqGoto, history, NeverSuspended,
           Unsubmitted, Orderly, InTurn, AtMostOne, JobsOf, Requested,
           TypeOK, Record, Active
  <2>4. StatusFits(e)'
    <3>1. /\ Active(r) /\ asks' = asks /\ \A s \in Requests \ {r} : rpc'[s] = rpc[s]
          /\ asks[r] # e => rec'[e] = rec[e]
          /\ rpc'[r] \in {"done", "cancelled"}
      BY <1>13, <1>0 DEF ResumeEnds, Write, ReqGoto, Active, Requested, TypeOK
    <3> QED
      BY <1>0, <3>1, ActiveWrites DEF Requested
  <2>5. EndedIsLeft(e)'
    <3>1. CASE asks[r] = e
      <4>1. ASSUME NEW s \in Requests, asks'[s] = e, Active(s)'
            PROVE  s = r
        BY <1>13, <1>0, <3>1, <4>1 DEF ResumeEnds, ReqGoto, history, Orderly,
           OneActive,
           Requested, TypeOK, Active
      <4>2. rpc'[r] = "done"
        BY <1>13, <1>0 DEF ResumeEnds, ReqGoto, Requested, TypeOK
      <4> QED
        BY <4>1, <4>2 DEF EndedIsLeft, Active
    <3>2. CASE asks[r] # e
      BY <1>13, <1>0, <3>2 DEF ResumeEnds, Write, ReqGoto, history, Orderly,
         EndedIsLeft,
         Requested, TypeOK, Active
    <3> QED
      BY <3>1, <3>2
  <2> QED
    BY <2>1, <2>2, <2>3, <2>4, <2>5 DEF Orderly
<1>14. ASSUME NEW r \in Requests, CancelStatus(r)
      PROVE  Orderly(e)'
  <2>1. OneActive(e)'
    BY <1>14, <1>0
       DEF CancelStatus, Write, WithStatus, ReqGoto, history, OneActive,
           Orderly, InTurn, AtMostOne, JobsOf, Requested, TypeOK, Record,
           Active
  <2>2. JobAlone(e)'
    BY <1>14, <1>0
       DEF CancelStatus, Write, WithStatus, ReqGoto, history, JobAlone,
           OneActive, NeverSuspended, Unsubmitted, StatusFits, HostSnapshots,
           Answerable, Orderly, InTurn, AtMostOne, JobsOf, Requested, TypeOK,
           Record, Active
  <2>3. NeverSuspended(e)'
    BY <1>14, <1>0
       DEF CancelStatus, Write, WithStatus, ReqGoto, history, NeverSuspended,
           Unsubmitted, Orderly, InTurn, AtMostOne, JobsOf, Requested,
           TypeOK, Record, Active
  <2>4. StatusFits(e)'
    <3>1. /\ Active(r) /\ asks' = asks /\ \A s \in Requests \ {r} : rpc'[s] = rpc[s]
          /\ asks[r] # e => rec'[e] = rec[e]
          /\ rpc'[r] \in {"done", "cancelled"}
      BY <1>14, <1>0 DEF CancelStatus, Write, ReqGoto, Active, Requested, TypeOK
    <3> QED
      BY <1>0, <3>1, ActiveWrites DEF Requested
  <2>5. EndedIsLeft(e)'
    <3>1. CASE asks[r] = e
      <4>1. ASSUME NEW s \in Requests, asks'[s] = e, Active(s)'
            PROVE  s = r
        BY <1>14, <1>0, <3>1, <4>1 DEF CancelStatus, ReqGoto, history,
           Orderly, OneActive,
           Requested, TypeOK, Active
      <4>2. rpc'[r] = "cancelled"
        BY <1>14, <1>0 DEF CancelStatus, ReqGoto, Requested, TypeOK
      <4> QED
        BY <4>1, <4>2 DEF EndedIsLeft, Active
    <3>2. CASE asks[r] # e
      BY <1>14, <1>0, <3>2 DEF CancelStatus, Write, ReqGoto, history,
         Orderly, EndedIsLeft,
         Requested, TypeOK, Active
    <3> QED
      BY <3>1, <3>2
  <2> QED
    BY <2>1, <2>2, <2>3, <2>4, <2>5 DEF Orderly
<1>15. ASSUME NEW r \in Requests, CancelForget(r)
      PROVE  Orderly(e)'
  BY <1>15, <1>0
     DEF CancelForget, Without, ReqGoto, history, Orderly, OneActive,
         JobAlone, NeverSuspended, Unsubmitted, StatusFits, EndedIsLeft,
         InTurn, AtMostOne, JobsOf, Requested, IdleRequests, HostSnapshots,
         Fresh, Answerable, TypeOK, Record, Active
<1>16. ASSUME NEW r \in Requests, ResumeTask(r)
      PROVE  Orderly(e)'
  BY <1>16, <1>0
     DEF ResumeTask, Write, WithTasks, history, Orderly, OneActive, JobAlone,
         NeverSuspended, Unsubmitted, StatusFits, EndedIsLeft, InTurn,
         AtMostOne, JobsOf, Requested, IdleRequests, HostSnapshots, Fresh,
         Answerable, TypeOK, Record, Active
<1>17. ASSUME NEW r \in Requests, JobLoad(r)
      PROVE  Orderly(e)'
  BY <1>17, <1>0
     DEF JobLoad, Loaded, Requeue, JobGoto, history, Orderly, OneActive,
         JobAlone, NeverSuspended, Unsubmitted, StatusFits, EndedIsLeft,
         InTurn, AtMostOne, JobsOf, Requested, IdleRequests, HostSnapshots,
         Fresh, Answerable, TypeOK, Record, Active
<1>18. ASSUME NEW r \in Requests, JobSave(r)
      PROVE  Orderly(e)'
  <2>1. OneActive(e)'
    BY <1>18, <1>0
       DEF JobSave, Write, Saved, WithTasks, NoRecord, JobGoto, history,
           OneActive, Orderly, InTurn, AtMostOne, JobsOf, Requested, TypeOK,
           Record, Active
  <2>2. JobAlone(e)'
    BY <1>18, <1>0
       DEF JobSave, Write, Saved, WithTasks, NoRecord, JobGoto, history,
           JobAlone, OneActive, NeverSuspended, Unsubmitted, StatusFits,
           HostSnapshots, Answerable, Orderly, InTurn, AtMostOne, JobsOf,
           Requested, TypeOK, Record, Active
  <2>3. NeverSuspended(e)'
    BY <1>18, <1>0
       DEF JobSave, Write, Saved, WithTasks, NoRecord, JobGoto, history,
           NeverSuspended, Unsubmitted, Orderly, InTurn, AtMostOne, JobsOf,
           Requested, TypeOK, Record, Active
  <2>4. StatusFits(e)'
    BY <1>18, <1>0
       DEF JobSave, Write, Saved, WithTasks, NoRecord, JobGoto, history,
           StatusFits, OneActive, JobAlone, Orderly, InTurn, AtMostOne,
           JobsOf, Requested, TypeOK, Record, Active
  <2>5. EndedIsLeft(e)'
    BY <1>18, <1>0
       DEF JobSave, Write, Saved, WithTasks, NoRecord, JobGoto, history,
           EndedIsLeft, OneActive, JobAlone, HostSnapshots, Answerable,
           Orderly, InTurn, AtMostOne, JobsOf, Requested, TypeOK, Record,
           Active
  <2> QED
    BY <2>1, <2>2, <2>3, <2>4, <2>5 DEF Orderly
<1>19. ASSUME NEW r \in Requests, JobAcquire(r)
      PROVE  Orderly(e)'
  BY <1>19, <1>0
     DEF JobAcquire, Requeue, JobGoto, history, Orderly, OneActive, JobAlone,
         NeverSuspended, Unsubmitted, StatusFits, EndedIsLeft, InTurn,
         AtMostOne, JobsOf, Requested, IdleRequests, HostSnapshots, Fresh,
         Answerable, TypeOK, Record, Active
<1>20. ASSUME NEW r \in Requests, JobRunning(r)
      PROVE  Orderly(e)'
  BY <1>20, <1>0
     DEF JobRunning, Write, WithStatus, JobGoto, history, Orderly, OneActive,
         JobAlone, NeverSuspended, Unsubmitted, StatusFits, EndedIsLeft,
         InTurn, AtMostOne, JobsOf, Requested, IdleRequests, HostSnapshots,
         Fresh, Answerable, TypeOK, Record, Active
<1>21. ASSUME NEW r \in Requests, JobSuspends(r)
      PROVE  Orderly(e)'
  <2>1. OneActive(e)'
    BY <1>21, <1>0
       DEF JobSuspends, Write, Suspended, JobGoto, history, OneActive,
           Orderly, InTurn, AtMostOne, JobsOf, Requested, TypeOK, Record,
           Active
  <2>2. JobAlone(e)'
    BY <1>21, <1>0
       DEF JobSuspends, Write, Suspended, JobGoto, history, JobAlone,
           OneActive, NeverSuspended, Unsubmitted, StatusFits, HostSnapshots,
           Answerable, Orderly, InTurn, AtMostOne, JobsOf, Requested, TypeOK,
           Record, Active
  <2>3. NeverSuspended(e)'
    BY <1>21, <1>0
       DEF JobSuspends, Write, Suspended, JobGoto, history, NeverSuspended,
           Unsubmitted, Orderly, InTurn, AtMostOne, JobsOf, Requested,
           TypeOK, Record, Active
  <2>4. StatusFits(e)'
    BY <1>21, <1>0
       DEF JobSuspends, Write, Suspended, JobGoto, history, StatusFits,
           OneActive, JobAlone, Orderly, InTurn, AtMostOne, JobsOf,
           Requested, TypeOK, Record, Active
  <2>5. EndedIsLeft(e)'
    BY <1>21, <1>0
       DEF JobSuspends, Write, Suspended, JobGoto, history, EndedIsLeft,
           OneActive, JobAlone, HostSnapshots, Answerable, Orderly, InTurn,
           AtMostOne, JobsOf, Requested, TypeOK, Record, Active
  <2> QED
    BY <2>1, <2>2, <2>3, <2>4, <2>5 DEF Orderly
<1>22. ASSUME NEW r \in Requests, JobEnds(r)
      PROVE  Orderly(e)'
  <2>1. OneActive(e)'
    BY <1>22, <1>0
       DEF JobEnds, Terminal, Write, WithStatus, JobGoto, history, OneActive,
           Orderly,
           InTurn, AtMostOne, JobsOf, Requested, TypeOK, Record, Active
  <2>2. JobAlone(e)'
    BY <1>22, <1>0
       DEF JobEnds, Terminal, Write, WithStatus, JobGoto, history, JobAlone,
           OneActive,
           NeverSuspended, Unsubmitted, StatusFits, HostSnapshots,
           Answerable, Orderly, InTurn, AtMostOne, JobsOf, Requested, TypeOK,
           Record, Active
  <2>3. NeverSuspended(e)'
    BY <1>22, <1>0
       DEF JobEnds, Terminal, Write, WithStatus, JobGoto, history,
           NeverSuspended,
           Unsubmitted, Orderly, InTurn, AtMostOne, JobsOf, Requested,
           TypeOK, Record, Active
  <2>4. StatusFits(e)'
    BY <1>22, <1>0
       DEF JobEnds, Terminal, Write, WithStatus, JobGoto, history, StatusFits,
           OneActive, JobAlone, Orderly, InTurn, AtMostOne, JobsOf,
           Requested, TypeOK, Record, Active
  <2>5. EndedIsLeft(e)'
    BY <1>22, <1>0
       DEF JobEnds, Terminal, Write, WithStatus, JobGoto, history, EndedIsLeft,
           OneActive, JobAlone, HostSnapshots, Answerable, Orderly, InTurn,
           AtMostOne, JobsOf, Requested, TypeOK, Record, Active
  <2> QED
    BY <2>1, <2>2, <2>3, <2>4, <2>5 DEF Orderly
<1>23. ASSUME NEW r \in Requests, JobForget(r)
      PROVE  Orderly(e)'
  BY <1>23, <1>0
     DEF JobForget, Without, JobGoto, history, Orderly, OneActive, JobAlone,
         NeverSuspended, Unsubmitted, StatusFits, EndedIsLeft, InTurn,
         AtMostOne, JobsOf, Requested, IdleRequests, HostSnapshots, Fresh,
         Answerable, TypeOK, Record, Active
<1>24. ASSUME NEW r \in Requests, JobTask(r)
      PROVE  Orderly(e)'
  BY <1>24, <1>0
     DEF JobTask, Write, WithTasks, history, Orderly, OneActive, JobAlone,
         NeverSuspended, Unsubmitted, StatusFits, EndedIsLeft, InTurn,
         AtMostOne, JobsOf, Requested, IdleRequests, HostSnapshots, Fresh,
         Answerable, TypeOK, Record, Active
<1>25. CASE Restart
  BY <1>25, <1>0
     DEF Restart, history, Orderly, OneActive, JobAlone, NeverSuspended,
         Unsubmitted, StatusFits, EndedIsLeft, InTurn, AtMostOne, JobsOf,
         Requested, IdleRequests, HostSnapshots, Fresh, Answerable, TypeOK,
         Record, Active
<1>26. CASE UNCHANGED vars
  BY <1>26, <1>0
     DEF vars, history, Orderly, OneActive, JobAlone, NeverSuspended,
         Unsubmitted, StatusFits, EndedIsLeft, InTurn, AtMostOne, JobsOf,
         Requested, IdleRequests, HostSnapshots, Fresh, Answerable, TypeOK,
         Record, Active
<1>. QED
  BY <1>1, <1>2, <1>3, <1>4, <1>5, <1>6, <1>7, <1>8, <1>9, <1>10, <1>11,
     <1>12, <1>13, <1>14, <1>15, <1>16, <1>17, <1>18, <1>19, <1>20, <1>21,
     <1>22, <1>23, <1>24, <1>25, <1>26
     DEF Next, AgentStep, RequestStep, JobStep

-----------------------------------------------------------------------------
(***************************************************************************)
(* What follows                                                            *)
(***************************************************************************)

\* The inductive invariant of the dialogue: requests keep what they began with,
\* and an execution whose users take turns is in order.
THEOREM Invariance == Spec => []IInv
<1>1. Init => IInv
  <2> SUFFICES ASSUME Init PROVE IInv
    OBVIOUS
  <2>1. TypeOK
    BY MaxRestartsAssumption
       DEF Init, TypeOK, NoRecord, Record, Statuses, ReqSteps, JobSteps
  <2>2. IdleRequests /\ HostSnapshots /\ Fresh
    BY NoExecAssumption DEF Init, IdleRequests, HostSnapshots, Fresh
  <2>3. ASSUME NEW e \in Execs
        PROVE  Orderly(e)
    BY NoExecAssumption
       DEF Init, NoRecord, Orderly, OneActive, JobAlone, NeverSuspended,
           StatusFits, EndedIsLeft, Terminal
  <2> QED
    BY <2>1, <2>2, <2>3 DEF IInv, Requested
<1>2. IInv /\ [Next]_vars => IInv'
  BY RequestedStep, OrderlyStep DEF IInv
<1> QED
  BY <1>1, <1>2, PTL DEF Spec

\* As long as its users take turns, at most one run drives an execution, and
\* its record says so.
THEOREM DrivenByOne == Spec => []OneDriver
<1>1. IInv => OneDriver
  <2> SUFFICES ASSUME IInv, NEW e \in Execs, InTurn(e)
               PROVE  /\ AtMostOne(Drivers(e))
                      /\ Drivers(e) # {} => rec[e].status \in {"running", "pending"}
    BY DEF OneDriver
  <2>0. Orderly(e)
    BY DEF IInv
  <2>1. ASSUME NEW r \in Drivers(e)
        PROVE  /\ r \in Requests /\ asks[r] = e
               /\ (rpc[r] = "resuming" /\ Active(r)) \/ job[r] \in Live
    BY <2>1 DEF Drivers, Driving, Active, Live
  <2>2. ASSUME NEW r \in Drivers(e), NEW s \in Drivers(e)
        PROVE  r = s
    <3>1. CASE job[r] \in Live /\ job[s] \in Live
      <4>1. {r, s} \subseteq JobsOf(e)
        BY <2>1, <3>1 DEF JobsOf, Live
      <4> QED
        BY <4>1 DEF InTurn, AtMostOne
    <3>2. CASE Active(r) /\ Active(s)
      BY <2>0, <2>1, <3>2 DEF Orderly, OneActive
    <3>3. ~(job[r] \in Live /\ Active(s)) /\ ~(job[s] \in Live /\ Active(r))
      BY <2>0, <2>1 DEF Orderly, JobAlone
    <3> QED
      BY <2>1, <3>1, <3>2, <3>3
  <2>3. ASSUME NEW r \in Drivers(e)
        PROVE  rec[e].status \in {"running", "pending"}
    BY <2>0, <2>1 DEF Orderly, JobAlone, StatusFits
  <2> QED
    BY <2>2, <2>3 DEF AtMostOne
<1> QED
  BY <1>1, Invariance, PTL

\* A step leaves the status of an execution that has ended as it is.
LEMMA TerminalStep ==
    ASSUME IInv, [Next]_vars, NEW e \in Execs, InTurn(e)',
           rec[e].status \in Terminal
    PROVE  rec'[e].status = rec[e].status
<1> USE DEF Terminal
<1>0. Requested /\ Orderly(e)
  BY TurnsKept DEF IInv
<1>1. ASSUME NEW r \in Requests, NEW x \in Execs, NewInteraction(r, x)
      PROVE  rec'[e].status = rec[e].status
  BY <1>1, <1>0
     DEF NewInteraction, WithStatus, NoRecord, Write, ReqGoto, About,
         history, Orderly, EndedIsLeft, JobAlone, Requested, TypeOK, Record,
         Active, Live
<1>2. ASSUME NEW r \in Requests, NEW x \in Execs, Ask(r, x)
      PROVE  rec'[e].status = rec[e].status
  BY <1>2, <1>0 DEF Ask, ReqGoto, About, history, Orderly, EndedIsLeft,
     JobAlone, Requested, TypeOK, Record, Active, Live
<1>3. ASSUME NEW r \in Requests, NEW x \in Execs, CancelExecution(r, x)
      PROVE  rec'[e].status = rec[e].status
  BY <1>3, <1>0 DEF CancelExecution, Cancellable, ReqGoto, About, history,
     Orderly, EndedIsLeft, JobAlone, Requested, TypeOK, Record, Active, Live
<1>4. ASSUME NEW r \in Requests, Reply(r)
      PROVE  rec'[e].status = rec[e].status
  BY <1>4, <1>0 DEF Reply, ReqGoto, history, Orderly, EndedIsLeft, JobAlone,
     Requested, TypeOK, Record, Active, Live
<1>5. ASSUME NEW r \in Requests, Advance(r)
      PROVE  rec'[e].status = rec[e].status
  BY <1>5, <1>0 DEF Advance, Write, WithStatus, ReqGoto, history, Orderly,
     EndedIsLeft, JobAlone, Requested, TypeOK, Record, Active, Live
<1>6. ASSUME NEW r \in Requests, Adjust(r)
      PROVE  rec'[e].status = rec[e].status
  BY <1>6, <1>0 DEF Adjust, Write, Saved, WithTasks, ReqGoto, history,
     Orderly, EndedIsLeft, JobAlone, Requested, TypeOK, Record, Active, Live
<1>7. ASSUME NEW r \in Requests, InjectTask(r)
      PROVE  rec'[e].status = rec[e].status
  BY <1>7, <1>0 DEF InjectTask, Write, Saved, WithTasks, ReqGoto, history,
     Orderly, EndedIsLeft, JobAlone, Requested, TypeOK, Record, Active, Live
<1>8. ASSUME NEW r \in Requests, Resume(r)
      PROVE  rec'[e].status = rec[e].status
  BY <1>8, <1>0 DEF Resume, ReqGoto, history, Orderly, EndedIsLeft, JobAlone,
     Requested, TypeOK, Record, Active, Live
<1>9. ASSUME NEW r \in Requests, Cancel(r)
      PROVE  rec'[e].status = rec[e].status
  BY <1>9, <1>0 DEF Cancel, Cancellable, ReqGoto, history, Orderly,
     EndedIsLeft, JobAlone, Requested, TypeOK, Record, Active, Live
<1>10. ASSUME NEW r \in Requests, Submit(r)
      PROVE  rec'[e].status = rec[e].status
  BY <1>10, <1>0 DEF Submit, ReqGoto, JobGoto, history, Orderly, EndedIsLeft,
     JobAlone, Requested, TypeOK, Record, Active, Live
<1>11. ASSUME NEW r \in Requests, ResumeState(r)
      PROVE  rec'[e].status = rec[e].status
  BY <1>11, <1>0 DEF ResumeState, Write, Resumed, ReqGoto, history, Orderly,
     EndedIsLeft, JobAlone, Requested, TypeOK, Record, Active, Live
<1>12. ASSUME NEW r \in Requests, ResumeSuspends(r)
      PROVE  rec'[e].status = rec[e].status
  BY <1>12, <1>0 DEF ResumeSuspends, Write, Suspended, ReqGoto, history,
     Orderly, EndedIsLeft, JobAlone, Requested, TypeOK, Record, Active, Live
<1>13. ASSUME NEW r \in Requests, ResumeEnds(r)
      PROVE  rec'[e].status = rec[e].status
  BY <1>13, <1>0 DEF ResumeEnds, Write, WithStatus, ReqGoto, history,
     Orderly, EndedIsLeft, JobAlone, Requested, TypeOK, Record, Active, Live
<1>14. ASSUME NEW r \in Requests, CancelStatus(r)
      PROVE  rec'[e].status = rec[e].status
  BY <1>14, <1>0 DEF CancelStatus, Write, WithStatus, ReqGoto, history,
     Orderly, EndedIsLeft, JobAlone, Requested, TypeOK, Record, Active, Live
<1>15. ASSUME NEW r \in Requests, CancelForget(r)
      PROVE  rec'[e].status = rec[e].status
  BY <1>15, <1>0 DEF CancelForget, Without, ReqGoto, history, Orderly,
     EndedIsLeft, JobAlone, Requested, TypeOK, Record, Active, Live
<1>16. ASSUME NEW r \in Requests, ResumeTask(r)
      PROVE  rec'[e].status = rec[e].status
  BY <1>16, <1>0 DEF ResumeTask, Write, WithTasks, history, Orderly,
     EndedIsLeft, JobAlone, Requested, TypeOK, Record, Active, Live
<1>17. ASSUME NEW r \in Requests, JobLoad(r)
      PROVE  rec'[e].status = rec[e].status
  BY <1>17, <1>0 DEF JobLoad, Loaded, Requeue, JobGoto, history, Orderly,
     EndedIsLeft, JobAlone, Requested, TypeOK, Record, Active, Live
<1>18. ASSUME NEW r \in Requests, JobSave(r)
      PROVE  rec'[e].status = rec[e].status
  BY <1>18, <1>0
     DEF JobSave, Write, Saved, WithTasks, NoRecord, JobGoto, history,
         Orderly, EndedIsLeft, JobAlone, Requested, TypeOK, Record, Active,
         Live
<1>19. ASSUME NEW r \in Requests, JobAcquire(r)
      PROVE  rec'[e].status = rec[e].status
  BY <1>19, <1>0 DEF JobAcquire, Requeue, JobGoto, history, Orderly,
     EndedIsLeft, JobAlone, Requested, TypeOK, Record, Active, Live
<1>20. ASSUME NEW r \in Requests, JobRunning(r)
      PROVE  rec'[e].status = rec[e].status
  BY <1>20, <1>0 DEF JobRunning, Write, WithStatus, JobGoto, history,
     Orderly, EndedIsLeft, JobAlone, Requested, TypeOK, Record, Active, Live
<1>21. ASSUME NEW r \in Requests, JobSuspends(r)
      PROVE  rec'[e].status = rec[e].status
  BY <1>21, <1>0 DEF JobSuspends, Write, Suspended, JobGoto, history,
     Orderly, EndedIsLeft, JobAlone, Requested, TypeOK, Record, Active, Live
<1>22. ASSUME NEW r \in Requests, JobEnds(r)
      PROVE  rec'[e].status = rec[e].status
  BY <1>22, <1>0 DEF JobEnds, Terminal, Write, WithStatus, JobGoto, history,
     Orderly,
     EndedIsLeft, JobAlone, Requested, TypeOK, Record, Active, Live
<1>23. ASSUME NEW r \in Requests, JobForget(r)
      PROVE  rec'[e].status = rec[e].status
  BY <1>23, <1>0 DEF JobForget, Without, JobGoto, history, Orderly,
     EndedIsLeft, JobAlone, Requested, TypeOK, Record, Active, Live
<1>24. ASSUME NEW r \in Requests, JobTask(r)
      PROVE  rec'[e].status = rec[e].status
  BY <1>24, <1>0 DEF JobTask, Write, WithTasks, history, Orderly,
     EndedIsLeft, JobAlone, Requested, TypeOK, Record, Active, Live
<1>25. CASE Restart
  BY <1>25, <1>0 DEF Restart, history, Orderly, EndedIsLeft, JobAlone,
     Requested, TypeOK, Record, Active, Live
<1>26. CASE UNCHANGED vars
  BY <1>26, <1>0 DEF vars, history, Orderly, EndedIsLeft, JobAlone,
     Requested, TypeOK, Record, Active, Live
<1>. QED
  BY <1>1, <1>2, <1>3, <1>4, <1>5, <1>6, <1>7, <1>8, <1>9, <1>10, <1>11,
     <1>12, <1>13, <1>14, <1>15, <1>16, <1>17, <1>18, <1>19, <1>20, <1>21,
     <1>22, <1>23, <1>24, <1>25, <1>26
     DEF Next, AgentStep, RequestStep, JobStep


\* An execution that has ended stays ended, as long as its users take turns.
THEOREM EndedForGood == Spec => TerminalIsFinal
<1>1. IInv /\ [Next]_vars =>
        [\A e \in Execs : InTurn(e)' /\ rec[e].status \in Terminal =>
             rec'[e].status = rec[e].status]_vars
  BY TerminalStep
<1> QED
  BY <1>1, Invariance, PTL DEF Spec, TerminalIsFinal

-----------------------------------------------------------------------------
(***************************************************************************)
(* Tasks                                                                   *)
(***************************************************************************)

\* The tasks owed to e are in its record, and in every copy of its list that may
\* be saved over it.
OwedOf(e) == {r \in owed : asks[r] = e}
Carried(e) ==
    /\ OwedOf(e) \subseteq rec[e].tasks
    /\ \A r \in Requests : asks[r] = e =>
           /\ rpc[r] = "host" => OwedOf(e) \subseteq snap[r].tasks
           /\ rpc[r] \in {"restored", "resuming"} => OwedOf(e) \subseteq tasks[r]
           /\ job[r] \in Live \ {"queued"} => OwedOf(e) \subseteq tasks[r]

\* A step carries the tasks over: whole records are saved only by the one request
\* that is active, or by the job when there is none.
LEMMA CarriedStep ==
    ASSUME IInv, [Next]_vars, NEW e \in Execs, InTurn(e)',
           InTurn(e) => Carried(e)
    PROVE  Carried(e)'
<1> USE DEF Live
<1>0. Requested /\ InTurn(e) /\ Orderly(e) /\ Carried(e)
  BY TurnsKept DEF IInv
<1>1. ASSUME NEW r \in Requests, NEW x \in Execs, NewInteraction(r, x)
      PROVE  Carried(e)'
  BY <1>1, <1>0
     DEF NewInteraction, WithStatus, NoRecord, Write, ReqGoto, About,
         history, Carried, OwedOf, Orderly, OneActive, JobAlone, Requested,
         IdleRequests, Fresh, TypeOK, Record, Active
<1>2. ASSUME NEW r \in Requests, NEW x \in Execs, Ask(r, x)
      PROVE  Carried(e)'
  BY <1>2, <1>0 DEF Ask, ReqGoto, About, history, Carried, OwedOf, Orderly,
     OneActive, JobAlone, Requested, IdleRequests, Fresh, TypeOK, Record, Active
<1>3. ASSUME NEW r \in Requests, NEW x \in Execs, CancelExecution(r, x)
      PROVE  Carried(e)'
  BY <1>3, <1>0
     DEF CancelExecution, Cancellable, ReqGoto, About, history, Carried,
         OwedOf, Orderly, OneActive, JobAlone, Requested, IdleRequests,
         Fresh, TypeOK, Record, Active
<1>4. ASSUME NEW r \in Requests, Reply(r)
      PROVE  Carried(e)'
  BY <1>4, <1>0 DEF Reply, ReqGoto, history, Carried, OwedOf, Orderly,
     OneActive, JobAlone, Requested, IdleRequests, Fresh, TypeOK, Record, Active
<1>5. ASSUME NEW r \in Requests, Advance(r)
      PROVE  Carried(e)'
  BY <1>5, <1>0
     DEF Advance, Write, WithStatus, ReqGoto, history, Carried, OwedOf,
         Orderly, OneActive, JobAlone, Requested, IdleRequests, Fresh,
         TypeOK, Record, Active
<1>6. ASSUME NEW r \in Requests, Adjust(r)
      PROVE  Carried(e)'
  BY <1>6, <1>0
     DEF Adjust, Write, Saved, WithTasks, ReqGoto, history, Carried, OwedOf,
         Orderly, OneActive, JobAlone, Requested, IdleRequests, Fresh,
         TypeOK, Record, Active
<1>7. ASSUME NEW r \in Requests, InjectTask(r)
      PROVE  Carried(e)'
  BY <1>7, <1>0
     DEF InjectTask, Write, Saved, WithTasks, ReqGoto, history, Carried,
         OwedOf, Orderly, OneActive, JobAlone, Requested, IdleRequests,
         Fresh, TypeOK, Record, Active
<1>8. ASSUME NEW r \in Requests, Resume(r)
      PROVE  Carried(e)'
  BY <1>8, <1>0 DEF Resume, ReqGoto, history, Carried, OwedOf, Orderly,
     OneActive, JobAlone, Requested, IdleRequests, Fresh, TypeOK, Record, Active
<1>9. ASSUME NEW r \in Requests, Cancel(r)
      PROVE  Carried(e)'
  BY <1>9, <1>0
     DEF Cancel, Cancellable, ReqGoto, history, Carried, OwedOf, Orderly,
         OneActive, JobAlone, Requested, IdleRequests, Fresh, TypeOK, Record,
         Active
<1>10. ASSUME NEW r \in Requests, Submit(r)
      PROVE  Carried(e)'
  BY <1>10, <1>0
     DEF Submit, ReqGoto, JobGoto, history, Carried, OwedOf, Orderly,
         OneActive, JobAlone, Requested, IdleRequests, Fresh, TypeOK, Record,
         Active
<1>11. ASSUME NEW r \in Requests, ResumeState(r)
      PROVE  Carried(e)'
  BY <1>11, <1>0
     DEF ResumeState, Write, Resumed, ReqGoto, history, Carried, OwedOf,
         Orderly, OneActive, JobAlone, Requested, IdleRequests, Fresh,
         TypeOK, Record, Active
<1>12. ASSUME NEW r \in Requests, ResumeSuspends(r)
      PROVE  Carried(e)'
  BY <1>12, <1>0
     DEF ResumeSuspends, Write, Suspended, ReqGoto, history, Carried, OwedOf,
         Orderly, OneActive, JobAlone, Requested, IdleRequests, Fresh,
         TypeOK, Record, Active
<1>13. ASSUME NEW r \in Requests, ResumeEnds(r)
      PROVE  Carried(e)'
  BY <1>13, <1>0
     DEF ResumeEnds, Write, WithStatus, ReqGoto, history, Carried, OwedOf,
         Orderly, OneActive, JobAlone, Requested, IdleRequests, Fresh,
         TypeOK, Record, Active
<1>14. ASSUME NEW r \in Requests, CancelStatus(r)
      PROVE  Carried(e)'
  BY <1>14, <1>0
     DEF CancelStatus, Write, WithStatus, ReqGoto, history, Carried, OwedOf,
         Orderly, OneActive, JobAlone, Requested, IdleRequests, Fresh,
         TypeOK, Record, Active
<1>15. ASSUME NEW r \in Requests, CancelForget(r)
      PROVE  Carried(e)'
  BY <1>15, <1>0
     DEF CancelForget, Without, ReqGoto, history, Carried, OwedOf, Orderly,
         OneActive, JobAlone, Requested, IdleRequests, Fresh, TypeOK, Record,
         Active
<1>16. ASSUME NEW r \in Requests, ResumeTask(r)
      PROVE  Carried(e)'
  BY <1>16, <1>0
     DEF ResumeTask, Write, WithTasks, history, Carried, OwedOf, Orderly,
         OneActive, JobAlone, Requested, IdleRequests, Fresh, TypeOK, Record,
         Active
<1>17. ASSUME NEW r \in Requests, JobLoad(r)
      PROVE  Carried(e)'
  <2>1. /\ rec' = rec /\ asks' = asks /\ rpc' = rpc /\ snap' = snap
        /\ owed' = owed
    BY <1>17 DEF JobLoad, history
  <2>2. ASSUME NEW s \in Requests, s # r
        PROVE  job'[s] = job[s] /\ tasks'[s] = tasks[s]
    BY <1>17, <1>0, <2>2 DEF JobLoad, Requeue, JobGoto, Requested, TypeOK
  <2>3. job[r] = "queued"
    BY <1>17 DEF JobLoad
  <2>4. CASE FreeSlot
    <3>1. tasks'[r] = rec[asks[r]].tasks
      BY <1>17, <1>0, <2>4 DEF JobLoad, Loaded, Requested, TypeOK
    <3>2. asks[r] = e => rpc[r] \notin {"host", "restored", "resuming"}
      BY <1>0, <2>3 DEF Orderly, JobAlone, Active
    <3> QED
      BY <1>0, <2>1, <2>2, <3>1, <3>2 DEF Carried, OwedOf
  <2>5. CASE ~FreeSlot
    <3>1. tasks' = tasks /\ job'[r] \in {"queued", "dropped"}
      BY <1>17, <1>0, <2>5 DEF JobLoad, Requeue, JobGoto, Requested, TypeOK
    <3> QED
      BY <1>0, <2>1, <2>2, <3>1 DEF Carried, OwedOf
  <2> QED
    BY <2>4, <2>5
<1>18. ASSUME NEW r \in Requests, JobSave(r)
      PROVE  Carried(e)'
  <2>1. /\ job[r] = "loaded" /\ asks[r] \in Execs /\ job' = [job EXCEPT ![r] = "saved"]
        /\ UNCHANGED <<rpc, asks, snap, tasks, owed>>
    BY <1>18, <1>0 DEF JobSave, JobGoto, history, Requested, TypeOK
  <2>2. \A s \in Requests : job'[s] \in Live \ {"queued"} => job[s] \in Live \ {"queued"}
    BY <1>0, <2>1 DEF Requested, TypeOK
  <2>3. CASE asks[r] = e
    <3>1. rec'[e].tasks \in {rec[e].tasks, tasks[r]}
      BY <1>18, <1>0, <2>1, <2>3
         DEF JobSave, Write, Saved, WithTasks, NoRecord, Requested, TypeOK, Record
    <3>2. OwedOf(e) \subseteq tasks[r]
      BY <1>0, <2>1, <2>3 DEF Carried
    <3> QED
      BY <1>0, <2>1, <2>2, <3>1, <3>2 DEF Carried, OwedOf
  <2>4. CASE asks[r] # e
    <3>1. rec'[e] = rec[e]
      BY <1>18, <1>0, <2>1, <2>4 DEF JobSave, Write, Requested, TypeOK
    <3> QED
      BY <1>0, <2>1, <2>2, <3>1 DEF Carried, OwedOf
  <2> QED
    BY <2>3, <2>4
<1>19. ASSUME NEW r \in Requests, JobAcquire(r)
      PROVE  Carried(e)'
  BY <1>19, <1>0
     DEF JobAcquire, Requeue, JobGoto, history, Carried, OwedOf, Orderly,
         OneActive, JobAlone, Requested, IdleRequests, Fresh, TypeOK, Record,
         Active
<1>20. ASSUME NEW r \in Requests, JobRunning(r)
      PROVE  Carried(e)'
  BY <1>20, <1>0
     DEF JobRunning, Write, WithStatus, JobGoto, history, Carried, OwedOf,
         Orderly, OneActive, JobAlone, Requested, IdleRequests, Fresh,
         TypeOK, Record, Active
<1>21. ASSUME NEW r \in Requests, JobSuspends(r)
      PROVE  Carried(e)'
  BY <1>21, <1>0
     DEF JobSuspends, Write, Suspended, JobGoto, history, Carried, OwedOf,
         Orderly, OneActive, JobAlone, Requested, IdleRequests, Fresh,
         TypeOK, Record, Active
<1>22. ASSUME NEW r \in Requests, JobEnds(r)
      PROVE  Carried(e)'
  BY <1>22, <1>0
     DEF JobEnds, Terminal, Write, WithStatus, JobGoto, history, Carried,
         OwedOf,
         Orderly, OneActive, JobAlone, Requested, IdleRequests, Fresh,
         TypeOK, Record, Active
<1>23. ASSUME NEW r \in Requests, JobForget(r)
      PROVE  Carried(e)'
  BY <1>23, <1>0
     DEF JobForget, Without, JobGoto, history, Carried, OwedOf, Orderly,
         OneActive, JobAlone, Requested, IdleRequests, Fresh, TypeOK, Record,
         Active
<1>24. ASSUME NEW r \in Requests, JobTask(r)
      PROVE  Carried(e)'
  BY <1>24, <1>0
     DEF JobTask, Write, WithTasks, history, Carried, OwedOf, Orderly,
         OneActive, JobAlone, Requested, IdleRequests, Fresh, TypeOK, Record,
         Active
<1>25. CASE Restart
  BY <1>25, <1>0 DEF Restart, history, Carried, OwedOf, Orderly, OneActive,
     JobAlone, Requested, IdleRequests, Fresh, TypeOK, Record, Active
<1>26. CASE UNCHANGED vars
  BY <1>26, <1>0 DEF vars, history, Carried, OwedOf, Orderly, OneActive,
     JobAlone, Requested, IdleRequests, Fresh, TypeOK, Record, Active
<1>. QED
  BY <1>1, <1>2, <1>3, <1>4, <1>5, <1>6, <1>7, <1>8, <1>9, <1>10, <1>11,
     <1>12, <1>13, <1>14, <1>15, <1>16, <1>17, <1>18, <1>19, <1>20, <1>21,
     <1>22, <1>23, <1>24, <1>25, <1>26
     DEF Next, AgentStep, RequestStep, JobStep

\* A task that was accepted is not lost as long as users take turns.
THEOREM TasksKept == Spec => []NoTaskLost
<1> DEFINE AllCarried == \A e \in Execs : InTurn(e) => Carried(e)
<1>1. Init => AllCarried
  BY NoExecAssumption DEF Init, NoRecord, Carried, OwedOf
<1>2. IInv /\ AllCarried /\ [Next]_vars => AllCarried'
  BY CarriedStep
<1>3. AllCarried => NoTaskLost
  BY DEF NoTaskLost, Carried, OwedOf
<1> HIDE DEF AllCarried
<1> QED
  BY <1>1, <1>2, <1>3, Invariance, PTL DEF Spec

===============================================================================
