---------------------------- MODULE RobotInteract ----------------------------
(***************************************************************************)
(* The dialogue about the executions of one robot: manager/interact.go with *)
(* the stored records of store/execution.go, and the runs it starts, the   *)
(* one of the pool (executor.ExecuteWithControl) and the one inside the    *)
(* request (executor.Resume).                                              *)
(*                                                                         *)
(* A request reads the record of its execution, calls the Host Agent, which *)
(* takes as long as a conversation, and then acts on what it read: it      *)
(* submits the execution, saves the whole record with a changed plan,      *)
(* resumes it or cancels it.  Nothing but the status column of the         *)
(* database stands between two requests about one execution.               *)
(*                                                                         *)
(* Of a record only the columns the dialogue turns on are kept: the status, *)
(* whether a task waits for input, whether a resume context is stored, and *)
(* the tasks, of which a request adds at most one: it is named by the      *)
(* request.  A job of the pool is named by the request that submitted it.  *)
(***************************************************************************)
EXTENDS Naturals, FiniteSets

CONSTANTS
    Requests,     \* the requests: messages of users, and cancellations
    Execs,        \* the executions
    NoExec,
    MaxQuota,     \* robot.MaxQuota()
    MaxRestarts   \* bound on the restarts of the process

ASSUME NoExecAssumption == NoExec \notin Execs
ASSUME MaxQuotaAssumption == MaxQuota \in Nat \ {0}
ASSUME MaxRestartsAssumption == MaxRestarts \in Nat

VARIABLES
    rec,          \* rec[e]: the stored record of execution e
    slots,        \* the executions the cached robot object lists
    tracked,      \* the executions the execution controller tracks
    rpc,          \* rpc[r]: what request r is doing
    asks,         \* asks[r]: the execution it is about
    snap,         \* snap[r]: the record it has read
    job,          \* job[r]: the pool's job that request r submitted
    tasks,        \* tasks[r]: the task list the run of r keeps in memory
    restarts,     \* how often the process was restarted
    overlapped,   \* the executions two requests were about at a time
    resumed,      \* the executions that were resumed at least once
    owed          \* the requests whose task was accepted and not replaced

history == <<overlapped, resumed, owed>>
vars == <<rec, slots, tracked, rpc, asks, snap, job, tasks, restarts, history>>

Statuses == {"none", "confirming", "pending", "running", "waiting",
             "completed", "failed", "cancelled"}
Terminal == {"completed", "failed", "cancelled"}
Record == [status : Statuses, waits : BOOLEAN, context : BOOLEAN,
           tasks : SUBSET Requests]
NoRecord == [status |-> "none", waits |-> FALSE, context |-> FALSE,
             tasks |-> {}]

ReqSteps == {"idle", "host", "submit", "restored", "resuming", "cancelling",
             "cancelled", "done"}
JobSteps == {"none", "queued", "loaded", "saved", "acquired", "running",
             "suspended", "ending", "done", "dropped", "lost"}

Init ==
    /\ rec = [e \in Execs |-> NoRecord]
    /\ slots = {} /\ tracked = {}
    /\ rpc = [r \in Requests |-> "idle"]
    /\ asks = [r \in Requests |-> NoExec]
    /\ snap = [r \in Requests |-> NoRecord]
    /\ job = [r \in Requests |-> "none"]
    /\ tasks = [r \in Requests |-> {}]
    /\ restarts = 0
    /\ overlapped = {} /\ resumed = {} /\ owed = {}

-----------------------------------------------------------------------------
(***************************************************************************)
(* The store: what each call writes to the record it is given.             *)
(***************************************************************************)

\* UpdateStatus writes one column.
WithStatus(old, status) == [old EXCEPT !.status = status]

\* Save writes the columns of a record that are not empty.
SavedNoContext(old, new) ==
    [status |-> new.status, waits |-> old.waits \/ new.waits,
     context |-> old.context,
     tasks |-> IF new.tasks = {} THEN old.tasks ELSE new.tasks]
Saved(old, new) ==
    [status |-> new.status, waits |-> old.waits \/ new.waits,
     context |-> old.context \/ new.context,
     tasks |-> IF new.tasks = {} THEN old.tasks ELSE new.tasks]

\* UpdateTasks, and UpdateSuspendState after it.
WithTasks(old, list) == [old EXCEPT !.tasks = list]
Suspended(old, list) == [status |-> "waiting", waits |-> TRUE,
                         context |-> TRUE, tasks |-> list]

\* UpdateResumeState.
ResumedStillWaiting(old) == [old EXCEPT !.waits = FALSE, !.context = FALSE]
Resumed(old) == [old EXCEPT !.status = "running", !.waits = FALSE,
                            !.context = FALSE]

Write(e, record) == rec' = [rec EXCEPT ![e] = record]

ReqGoto(r, k) == rpc' = [rpc EXCEPT ![r] = k]
JobGoto(r, k) == job' = [job EXCEPT ![r] = k]

Active(r) == rpc[r] \notin {"idle", "done"}

-----------------------------------------------------------------------------
(***************************************************************************)
(* A request, up to the answer of the Host Agent.                          *)
(***************************************************************************)

\* What every request about e does to the history.
About(r, e) ==
    /\ asks' = [asks EXCEPT ![r] = e]
    /\ overlapped' = IF \E s \in Requests : s # r /\ Active(s) /\ asks[s] = e
                     THEN overlapped \cup {e} ELSE overlapped

\* handleNewInteraction: a record in status confirming is created first.
NewInteraction(r, e) ==
    /\ rpc[r] = "idle" /\ rec[e].status = "none"
    /\ LET new == WithStatus(NoRecord, "confirming")
       IN  Write(e, new) /\ snap' = [snap EXCEPT ![r] = new]
    /\ ReqGoto(r, "host") /\ About(r, e)
    /\ UNCHANGED <<slots, tracked, job, tasks, restarts, resumed, owed>>

\* HandleInteract refuses the other statuses and changes nothing.
AnswerableRunning(record) ==
    record.status \in {"confirming", "waiting", "running"}
Answerable(record) ==
    \/ record.status \in {"confirming", "waiting"}
    \/ record.status = "running" /\ record.waits

Ask(r, e) ==
    /\ rpc[r] = "idle" /\ Answerable(rec[e])
    /\ snap' = [snap EXCEPT ![r] = rec[e]]
    /\ ReqGoto(r, "host") /\ About(r, e)
    /\ UNCHANGED <<rec, slots, tracked, job, tasks, restarts, resumed, owed>>

\* The agent wants to talk on, or decides something that changes nothing or
\* is refused: the answers "waiting_for_more", "acknowledged" and "error".
Reply(r) ==
    /\ rpc[r] = "host"
    /\ ReqGoto(r, "done")
    /\ UNCHANGED <<rec, slots, tracked, asks, snap, job, tasks, restarts,
                   history>>

-----------------------------------------------------------------------------
(***************************************************************************)
(* confirm: advanceExecution, also when no agent answers a new request.    *)
(***************************************************************************)

\* The status is written whatever it is by now.
Advance(r) ==
    /\ rpc[r] = "host"
    /\ Write(asks[r], WithStatus(rec[asks[r]], "running"))
    /\ ReqGoto(r, "submit")
    /\ UNCHANGED <<slots, tracked, asks, snap, job, tasks, restarts, history>>

\* Track and SubmitWithID, or Untrack when the queue is full: the status stays.
Submit(r) ==
    /\ rpc[r] = "submit"
    /\ \/ tracked' = tracked \cup {asks[r]} /\ JobGoto(r, "queued")
       \/ tracked' = tracked \ {asks[r]} /\ UNCHANGED job
    /\ ReqGoto(r, "done")
    /\ UNCHANGED <<rec, slots, asks, snap, tasks, restarts, history>>

-----------------------------------------------------------------------------
(***************************************************************************)
(* adjust and add_task: the record that was read is saved with a new plan. *)
(***************************************************************************)

\* adjustExecution of the goals alone, or of the tasks too.
Adjust(r) ==
    /\ rpc[r] = "host"
    /\ \E list \in {snap[r].tasks, {r}} :
           /\ Write(asks[r], Saved(rec[asks[r]], WithTasks(snap[r], list)))
           /\ owed' = IF list = {r}
                      THEN {s \in owed : asks[s] # asks[r]} \cup {r} ELSE owed
    /\ ReqGoto(r, "done")
    /\ UNCHANGED <<slots, tracked, asks, snap, job, tasks, restarts,
                   overlapped, resumed>>

InjectTask(r) ==
    /\ rpc[r] = "host"
    /\ Write(asks[r],
             Saved(rec[asks[r]], WithTasks(snap[r], snap[r].tasks \cup {r})))
    /\ owed' = owed \cup {r}
    /\ ReqGoto(r, "done")
    /\ UNCHANGED <<slots, tracked, asks, snap, job, tasks, restarts,
                   overlapped, resumed>>

-----------------------------------------------------------------------------
(***************************************************************************)
(* skip, inject_context and the direct resume: Executor.Resume, which runs *)
(* inside the request.                                                     *)
(***************************************************************************)

\* The record is read again and must be waiting.
Resume(r) ==
    /\ rpc[r] = "host" /\ rec[asks[r]].status = "waiting"
    /\ tasks' = [tasks EXCEPT ![r] = rec[asks[r]].tasks]
    /\ ReqGoto(r, "restored")
    /\ UNCHANGED <<rec, slots, tracked, asks, snap, job, restarts, history>>

\* UpdateResumeState.  The execution is added to a robot object made from the
\* database, not to the cached one.
ResumeState(r) ==
    /\ rpc[r] = "restored"
    /\ Write(asks[r], Resumed(rec[asks[r]]))
    /\ ReqGoto(r, "resuming")
    /\ resumed' = resumed \cup {asks[r]}
    /\ UNCHANGED <<slots, tracked, asks, snap, job, tasks, restarts,
                   overlapped, owed>>

\* RunExecution saves its task list around every task.
ResumeTask(r) ==
    /\ rpc[r] = "resuming"
    /\ Write(asks[r], WithTasks(rec[asks[r]], tasks[r]))
    /\ UNCHANGED <<slots, tracked, rpc, asks, snap, job, tasks, restarts,
                   history>>

\* A task needs input again, ...
ResumeSuspends(r) ==
    /\ rpc[r] = "resuming"
    /\ Write(asks[r], Suspended(rec[asks[r]], tasks[r]))
    /\ ReqGoto(r, "done")
    /\ UNCHANGED <<slots, tracked, asks, snap, job, tasks, restarts, history>>

\* ... or the last phases end the execution.  It is removed from the robot
\* object of the resume only, and stays tracked.
ResumeEnds(r) ==
    /\ rpc[r] = "resuming"
    /\ \E status \in {"completed", "failed"} :
           Write(asks[r], WithStatus(rec[asks[r]], status))
    /\ ReqGoto(r, "done")
    /\ UNCHANGED <<slots, tracked, asks, snap, job, tasks, restarts, history>>

-----------------------------------------------------------------------------
(***************************************************************************)
(* cancel: CancelExecution, by the agent or by a request of its own.       *)
(***************************************************************************)

Cancellable(record) == record.status \in {"waiting", "confirming"}

Cancel(r) ==
    /\ rpc[r] = "host" /\ Cancellable(rec[asks[r]])
    /\ ReqGoto(r, "cancelling")
    /\ UNCHANGED <<rec, slots, tracked, asks, snap, job, tasks, restarts,
                   history>>

CancelExecution(r, e) ==
    /\ rpc[r] = "idle" /\ Cancellable(rec[e])
    /\ ReqGoto(r, "cancelling") /\ About(r, e)
    /\ UNCHANGED <<rec, slots, tracked, snap, job, tasks, restarts, resumed,
                   owed>>

CancelStatus(r) ==
    /\ rpc[r] = "cancelling"
    /\ Write(asks[r], WithStatus(rec[asks[r]], "cancelled"))
    /\ ReqGoto(r, "cancelled")
    /\ UNCHANGED <<slots, tracked, asks, snap, job, tasks, restarts, history>>

\* Untrack, and RemoveExecution on the cached robot.
Kept(set, e) == set
Without(set, e) == set \ {e}
CancelForget(r) ==
    /\ rpc[r] = "cancelled"
    /\ tracked' = tracked \ {asks[r]}
    /\ slots' = Without(slots, asks[r])
    /\ ReqGoto(r, "done")
    /\ UNCHANGED <<rec, asks, snap, job, tasks, restarts, history>>

-----------------------------------------------------------------------------
(***************************************************************************)
(* The job of the pool: Worker.execute and ExecuteWithControl.             *)
(***************************************************************************)

FreeSlot == Cardinality(slots) < MaxQuota

\* requeue: a full queue drops the job.
Requeue(r) == \E k \in {"queued", "dropped"} : JobGoto(r, k)

\* The tasks of the record that the run starts with.
Unloaded(record) == {}
Loaded(record) == record.tasks

\* CanRun, then the tasks of the record are loaded.
JobLoad(r) ==
    /\ job[r] = "queued"
    /\ IF FreeSlot
       THEN /\ JobGoto(r, "loaded")
            /\ tasks' = [tasks EXCEPT ![r] = Loaded(rec[asks[r]])]
       ELSE Requeue(r) /\ UNCHANGED tasks
    /\ UNCHANGED <<rec, slots, tracked, rpc, asks, snap, restarts, history>>

\* A new record takes the place of the stored one.
JobSave(r) ==
    /\ job[r] = "loaded"
    /\ Write(asks[r], Saved(rec[asks[r]],
                            [WithTasks(NoRecord, tasks[r])
                                 EXCEPT !.status = "pending"]))
    /\ JobGoto(r, "saved")
    /\ UNCHANGED <<slots, tracked, rpc, asks, snap, tasks, restarts, history>>

\* TryAcquireSlot.
JobAcquire(r) ==
    /\ job[r] = "saved"
    /\ IF FreeSlot
       THEN slots' = slots \cup {asks[r]} /\ JobGoto(r, "acquired")
       ELSE Requeue(r) /\ UNCHANGED slots
    /\ UNCHANGED <<rec, tracked, rpc, asks, snap, tasks, restarts, history>>

JobRunning(r) ==
    /\ job[r] = "acquired"
    /\ Write(asks[r], WithStatus(rec[asks[r]], "running"))
    /\ JobGoto(r, "running")
    /\ UNCHANGED <<slots, tracked, rpc, asks, snap, tasks, restarts, history>>

JobTask(r) ==
    /\ job[r] = "running"
    /\ Write(asks[r], WithTasks(rec[asks[r]], tasks[r]))
    /\ UNCHANGED <<slots, tracked, rpc, asks, snap, job, tasks, restarts,
                   history>>

\* Suspend: the execution keeps its slot and stays tracked.
JobSuspends(r) ==
    /\ job[r] = "running"
    /\ Write(asks[r], Suspended(rec[asks[r]], tasks[r]))
    /\ JobGoto(r, "suspended")
    /\ UNCHANGED <<slots, tracked, rpc, asks, snap, tasks, restarts, history>>

\* The last phase is done or has failed, or the run was stopped through its
\* control.
JobEnds(r) ==
    /\ job[r] = "running"
    /\ \E status \in Terminal :
           Write(asks[r], WithStatus(rec[asks[r]], status))
    /\ JobGoto(r, "ending")
    /\ UNCHANGED <<slots, tracked, rpc, asks, snap, tasks, restarts, history>>

\* The deferred RemoveExecution, and onComplete: Untrack, RemoveExecution.
JobForget(r) ==
    /\ job[r] = "ending"
    /\ slots' = Without(slots, asks[r])
    /\ tracked' = tracked \ {asks[r]}
    /\ JobGoto(r, "done")
    /\ UNCHANGED <<rec, rpc, asks, snap, tasks, restarts, history>>

\* The process is restarted: only the records remain.
Restart ==
    /\ restarts < MaxRestarts
    /\ restarts' = restarts + 1
    /\ slots' = {} /\ tracked' = {}
    /\ rpc' = [r \in Requests |-> IF Active(r) THEN "done" ELSE rpc[r]]
    /\ job' = [r \in Requests |-> IF job[r] = "none" THEN "none" ELSE "lost"]
    /\ UNCHANGED <<rec, asks, snap, tasks, history>>

-----------------------------------------------------------------------------
AgentStep(r) == \/ Reply(r) \/ Advance(r) \/ Adjust(r) \/ InjectTask(r)
                \/ Resume(r) \/ Cancel(r)
RequestStep(r) == \/ Submit(r) \/ ResumeState(r) \/ ResumeSuspends(r)
                  \/ ResumeEnds(r) \/ CancelStatus(r) \/ CancelForget(r)
JobStep(r) == \/ JobLoad(r) \/ JobSave(r) \/ JobAcquire(r) \/ JobRunning(r)
              \/ JobSuspends(r) \/ JobEnds(r) \/ JobForget(r)

Next == \/ \E r \in Requests : \/ \E e \in Execs : \/ NewInteraction(r, e)
                                                   \/ Ask(r, e)
                                                   \/ CancelExecution(r, e)
                               \/ AgentStep(r) \/ RequestStep(r)
                               \/ ResumeTask(r) \/ JobStep(r) \/ JobTask(r)
        \/ Restart

\* The pool's workers and a request that is past the agent are running code,
\* and a task ends.  The agent may take for ever, and users may be silent.
Fairness == \A r \in Requests : WF_vars(RequestStep(r)) /\ WF_vars(JobStep(r))

Spec == Init /\ [][Next]_vars
FairSpec == Spec /\ Fairness

-----------------------------------------------------------------------------
(***************************************************************************)
(* Properties.                                                             *)
(***************************************************************************)

\* The columns and steps have values of their kinds, and a request that has
\* begun, or whose job has, is about an execution.
TypeOK ==
    /\ rec \in [Execs -> Record]
    /\ slots \subseteq Execs /\ tracked \subseteq Execs
    /\ rpc \in [Requests -> ReqSteps]
    /\ asks \in [Requests -> Execs \cup {NoExec}]
    /\ \A r \in Requests : rpc[r] # "idle" \/ job[r] # "none" =>
                               asks[r] \in Execs
    /\ snap \in [Requests -> Record]
    /\ job \in [Requests -> JobSteps]
    /\ tasks \in [Requests -> SUBSET Requests]
    /\ restarts \in 0..MaxRestarts
    /\ overlapped \subseteq Execs /\ resumed \subseteq Execs
    /\ owed \subseteq Requests

\* An execution that waits has the resume context that Resume continues from,
\* although whole records are saved from snapshots (recordToMap leaves empty
\* columns out) while others suspend and resume it.
WaitingIsResumable ==
    \A e \in Execs : rec[e].status = "waiting" => rec[e].context /\ rec[e].waits

\* The executions listed by the cached robot never exceed its quota, whatever
\* is confirmed, suspended, resumed and cancelled.
QuotaKept == Cardinality(slots) <= MaxQuota

JobsOf(e) == {r \in Requests : job[r] # "none" /\ asks[r] = e}

\* The users of e have taken turns, and it was submitted once.
AtMostOne(set) == \A r, s \in set : r = s
InTurn(e) == e \notin overlapped /\ AtMostOne(JobsOf(e))

\* The runs that drive e: its jobs in the pool and the resumes of requests.
Driving(r) == \/ rpc[r] = "resuming"
              \/ job[r] \in {"queued", "loaded", "saved", "acquired", "running"}
Drivers(e) == {r \in Requests : asks[r] = e /\ Driving(r)}

\* As long as users take turns, at most one run drives an execution, and its
\* record says so: the check of the status in Resume, HandleInteract and
\* CancelExecution is then enough.
OneDriver ==
    \A e \in Execs : InTurn(e) =>
        /\ AtMostOne(Drivers(e))
        /\ Drivers(e) # {} => rec[e].status \in {"running", "pending"}

\* The same of all executions: two runs may drive one.
AlwaysOneDriver == \A e \in Execs : AtMostOne(Drivers(e))

\* A task that was accepted stays in the record, through the confirmation,
\* which saves a new record, through suspensions, resumes and restarts.
NoTaskLost ==
    \A e \in Execs : InTurn(e) => {r \in owed : asks[r] = e} \subseteq rec[e].tasks

\* An execution that has ended, by its run or by a cancellation, stays ended.
TerminalIsFinal ==
    [][\A e \in Execs : InTurn(e)' /\ rec[e].status \in Terminal =>
           rec'[e].status = rec[e].status]_vars

\* The same when users do not take turns.
CancelledStaysCancelled ==
    [][\A e \in Execs : rec[e].status = "cancelled" =>
           rec'[e].status = "cancelled"]_vars

\* The dialogue about e has had neither overlapping requests nor a resume.
Plain(e) == InTurn(e) /\ e \notin resumed

\* An execution that has ended gives the slot it held on the robot back, and
\* is no longer tracked: by the end of its job, by the cancellation of a
\* suspended one, or by a restart - if it was never resumed.
SlotReturned ==
    \A e \in Execs :
        (Plain(e) /\ rec[e].status \in Terminal)
            ~> (Plain(e) => e \notin slots /\ e \notin tracked)

\* The same of a resumed one (executor.go:849: the deferred cleanup of Resume is
\* to "mirror ExecuteWithControl's defer logic").
ResumedSlotReturned ==
    \A e \in Execs : (rec[e].status \in Terminal) ~> (e \notin slots)

\* A record that says running or pending has a run behind it, or a request that
\* is about to submit one.
RunningIsDriven ==
    \A e \in Execs : rec[e].status \in {"running", "pending"} =>
        \E r \in Requests : asks[r] = e /\ (Driving(r) \/ rpc[r] = "submit")
=============================================================================
