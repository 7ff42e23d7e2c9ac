------------------------------ MODULE JobWorkers ------------------------------
(***************************************************************************)
(* The job system: the worker manager of job/worker.go, the jobs of        *)
(* job/job.go, the rows of job/data.go and the health checker of           *)
(* job/health.go.                                                          *)
(*                                                                         *)
(* Push loads the executions of a job and submits each: a goroutine sends  *)
(* it into the work queue, the dispatcher takes it out, takes the channel  *)
(* of a worker that has registered itself, and hands it over.  The worker  *)
(* writes the rows of the execution and of the job as it goes.  Every save *)
(* of an execution is followed by updateJobProgress, which reads the       *)
(* executions of the job and then writes its status: other workers, Stop   *)
(* and the health checker do the same to the same rows in between.         *)
(*                                                                         *)
(* A push makes an object of the job, a member of Pushes: its executions   *)
(* share it.  A request is the pair of a push and an execution.            *)
(***************************************************************************)
EXTENDS Naturals, Sequences, FiniteSets, Functions

CONSTANTS
    Jobs, Execs, Workers,
    Pushes,       \* the calls of Push: the job objects that push
    JobOf,        \* JobOf[e]: the job execution e was added to
    Priority,     \* Priority[e]: its priority
    Enabled,      \* the jobs the health checker looks at
    Once,         \* the jobs whose schedule type is once
    Timed,        \* the executions that may outlast a timeout set for them
    QueueCap,     \* capacity of the work queue
    None,         \* no job, execution, worker or request
    Gone,         \* a worker of an earlier process
    Checker,      \* the health checker
    MaxFaults     \* bound on the stops and faults

ASSUME JobOfAssumption == JobOf \in [Execs -> Jobs]
ASSUME PriorityAssumption == Priority \in [Execs -> Nat]
ASSUME QueueCapAssumption == QueueCap \in Nat \ {0}
ASSUME OnceAssumption == Once \cup Enabled \subseteq Jobs /\ Timed \subseteq Execs
ASSUME NoneAssumption ==
    /\ None \notin Jobs \cup Execs \cup Workers \cup {Gone}
    /\ None \notin Pushes \X Execs
ASSUME SaversAssumption ==
    /\ Checker \notin Workers \cup Pushes
    /\ Workers \cap Pushes = {}
ASSUME MaxFaultsAssumption == MaxFaults \in Nat

VARIABLES
    job,          \* job[j]: the row of job j
    ex,           \* ex[e]: the row of execution e
    obj,          \* obj[p]: status and current execution in the object of p
    pushed,       \* pushed[p]: the job p pushes
    pushing,      \* pushing[p]: the executions it has still to submit
    contexts,     \* contexts[p]: the executions with a context in its object
    cancelled,    \* the objects whose context is cancelled
    sending,      \* the requests whose goroutine waits to send
    queue,        \* the work queue
    disp,         \* the dispatcher: what it holds, and for which worker
    pool,         \* the workers whose channel is registered, in order
    wpc,          \* wpc[w]: what worker w is doing
    work,         \* work[w]: the request it works on
    result,       \* result[w]: what the execution came to
    active,       \* activeWorkers
    quit,         \* the worker manager is stopped
    save,         \* save[s]: how far the last SaveExecution of s has come
    stop,         \* stop[p]: the call of Stop on the object of p
    check,        \* the health checker
    faults,       \* how often something was stopped or restarted
    done,         \* the requests this process has finished
    disturbed     \* the jobs stopped, marked failed, pushed twice or cut off

rows == <<job, ex>>
objects == <<obj, pushed, pushing, contexts, cancelled>>
channels == <<sending, queue, disp, pool>>
workers == <<wpc, work, result, active, quit>>
history == <<done, disturbed>>
vars == <<rows, objects, channels, workers, save, stop, check, faults,
          history>>

Requests == Pushes \X Execs
Savers == Workers \cup Pushes \cup {Checker}

JobStatuses == {"draft", "ready", "running", "completed", "failed",
                "cancelled", "disabled"}
ExStatuses == {"queued", "running", "completed", "failed", "cancelled"}
JobRow == [status : JobStatuses, current : Execs \cup {None}]
ExRow == [status : ExStatuses, worker : Workers \cup {Gone, None}]

NoSave == [step |-> "none", of |-> None, status |-> "draft"]
NoWork == [step |-> "idle", held |-> None, to |-> None]
NoStop == [step |-> "none", left |-> {}, at |-> None]
NoCheck == [step |-> "none", of |-> None, current |-> None]

ExecsOf(j) == {e \in Execs : JobOf[e] = j}

NewObjects == [p \in Pushes |-> [status |-> "draft", current |-> None]]

Init ==
    /\ job = [j \in Jobs |-> [status |-> "draft", current |-> None]]
    /\ ex = [e \in Execs |-> [status |-> "queued", worker |-> None]]
    /\ obj = NewObjects
    /\ pushed = [p \in Pushes |-> None]
    /\ pushing = [p \in Pushes |-> {}] /\ contexts = [p \in Pushes |-> {}]
    /\ cancelled = {}
    /\ sending = {} /\ queue = <<>> /\ disp = NoWork /\ pool = <<>>
    /\ wpc = [w \in Workers |-> "register"]
    /\ work = [w \in Workers |-> None]
    /\ result = [w \in Workers |-> "queued"]
    /\ active = Workers /\ quit = FALSE
    /\ save = [s \in Savers |-> NoSave]
    /\ stop = [p \in Pushes |-> NoStop]
    /\ check = NoCheck
    /\ faults = 0 /\ done = {} /\ disturbed = {}

-----------------------------------------------------------------------------
(***************************************************************************)
(* The rows.                                                               *)
(***************************************************************************)

\* SaveJob writes the columns of an object that are not nil: a current
\* execution is never cleared.
SaveJob(j, object) ==
    job' = [job EXCEPT ![j] = [status |-> object.status,
                               current |-> IF object.current = None
                                           THEN @.current ELSE object.current]]

\* SaveExecution by s: the row, and what is left of the call.
SaveExecution(s, e, row) ==
    /\ ex' = [ex EXCEPT ![e] = row]
    /\ save' = [save EXCEPT ![s] = [step |-> "count", of |-> JobOf[e],
                                    status |-> "draft"]]
SaveStatus(s, e, status) == SaveExecution(s, e, [ex[e] EXCEPT !.status = status])

Saved(s) == save[s].step = "none"

\* The status updateJobProgress derives from the executions of a job.
StatusOf(j) ==
    LET found == {ex[e].status : e \in ExecsOf(j)}
    IN  IF found = {"cancelled"} THEN "cancelled"
        ELSE IF found = {"completed"} THEN "completed"
        ELSE IF /\ "failed" \in found
                /\ found \subseteq {"completed", "failed", "cancelled"}
             THEN "failed"
        ELSE IF found \cap {"running", "completed"} # {} THEN "running"
        ELSE "ready"

\* updateJobProgress reads the executions of the job, ...
Count(s) ==
    /\ save[s].step = "count"
    /\ save' = [save EXCEPT ![s] = [step |-> "tell", of |-> @.of,
                                    status |-> StatusOf(@.of)]]
    /\ UNCHANGED <<rows, objects, channels, workers, stop, check, faults,
                   history>>

\* ... and writes what follows from them.
Tell(s) ==
    /\ save[s].step = "tell"
    /\ job' = [job EXCEPT ![save[s].of].status = save[s].status]
    /\ save' = [save EXCEPT ![s] = NoSave]
    /\ UNCHANGED <<ex, objects, channels, workers, stop, check, faults,
                   history>>

-----------------------------------------------------------------------------
(***************************************************************************)
(* Push and SubmitJob.                                                     *)
(***************************************************************************)

\* The object is a new one, or loaded from the row.
Push(p, j) ==
    /\ pushed[p] = None
    /\ pushed' = [pushed EXCEPT ![p] = j]
    /\ obj' = [obj EXCEPT ![p] = [status |-> "ready", current |-> job[j].current]]
    /\ SaveJob(j, obj'[p])
    /\ pushing' = [pushing EXCEPT ![p] = ExecsOf(j)]
    /\ disturbed' = IF \E o \in Pushes : pushed[o] = j
                    THEN disturbed \cup {j} ELSE disturbed
    /\ UNCHANGED <<ex, contexts, cancelled, channels, workers, save, stop,
                   check, faults, done>>

Room == Len(queue) < QueueCap

\* The executionMutex of the object is free.
Unlocked(p) == stop[p].step \notin {"each", "write"}

\* The next execution of the highest priority: refused when the queue is full
\* at this moment, handed to a goroutine when it is not.
Submit(p, e) ==
    /\ e \in pushing[p] /\ Unlocked(p)
    /\ \A f \in pushing[p] : Priority[f] <= Priority[e]
    /\ pushing' = [pushing EXCEPT ![p] = @ \ {e}]
    /\ IF Room
       THEN /\ sending' = sending \cup {<<p, e>>}
            /\ contexts' = [contexts EXCEPT ![p] = @ \cup {e}]
       ELSE UNCHANGED <<sending, contexts>>
    /\ UNCHANGED <<rows, obj, pushed, cancelled, queue, disp, pool, workers,
                   save, stop, check, faults, history>>

\* The goroutine of SubmitJob: it sends, or gives up a cancelled request.
Send(q) ==
    /\ q \in sending
    /\ sending' = sending \ {q}
    /\ \/ Room /\ queue' = Append(queue, q)
       \/ q[1] \in cancelled /\ UNCHANGED queue
    /\ UNCHANGED <<rows, objects, disp, pool, workers, save, stop, check,
                   faults, history>>

-----------------------------------------------------------------------------
(***************************************************************************)
(* The dispatcher.                                                         *)
(***************************************************************************)

Held(q) == [NoWork EXCEPT !.step = "held", !.held = q]
HoldingIfFree == IF pool = <<>> THEN NoWork ELSE Held(Head(queue))
Holding == Held(Head(queue))

TakeWork ==
    /\ disp.step = "idle" /\ queue # <<>>
    /\ disp' = Holding
    /\ queue' = Tail(queue)
    /\ UNCHANGED <<rows, objects, sending, pool, workers, save, stop, check,
                   faults, history>>

PoolKept == pool
PoolLeft == Tail(pool)

TakeWorker ==
    /\ disp.step = "held" /\ pool # <<>>
    /\ disp' = [disp EXCEPT !.step = "give", !.to = Head(pool)]
    /\ pool' = PoolLeft
    /\ UNCHANGED <<rows, objects, sending, queue, workers, save, stop, check,
                   faults, history>>

Retrying == Held(disp.held)
Relieved == NoWork

\* The send to the worker waits until the worker receives, even when the
\* manager is stopped.
GiveWork ==
    /\ disp.step = "give" /\ wpc[disp.to] = "wait"
    /\ wpc' = [wpc EXCEPT ![disp.to] = "start"]
    /\ work' = [work EXCEPT ![disp.to] = disp.held]
    /\ disp' = Relieved
    /\ UNCHANGED <<rows, objects, sending, queue, pool, result, active, quit,
                   save, stop, check, faults, history>>

\* It ends when the manager is stopped, with the work it holds.
DispatcherQuits ==
    /\ quit /\ disp.step \in {"idle", "held"}
    /\ disp' = [disp EXCEPT !.step = "gone"]
    /\ UNCHANGED <<rows, objects, sending, queue, pool, workers, save, stop,
                   check, faults, history>>

-----------------------------------------------------------------------------
(***************************************************************************)
(* A worker: Start and processWork.                                        *)
(***************************************************************************)

WorkerGoto(w, k) == wpc' = [wpc EXCEPT ![w] = k]
PushOf(w) == work[w][1]
ExecOf(w) == work[w][2]

Register(w) ==
    /\ wpc[w] = "register"
    /\ pool' = Append(pool, w)
    /\ WorkerGoto(w, "wait")
    /\ UNCHANGED <<rows, objects, sending, queue, disp, work, result, active,
                   quit, save, stop, check, faults, history>>

SignalledIfActive(w) == quit /\ w \in active
Signalled(w) == quit

WorkerQuits(w) ==
    /\ wpc[w] = "wait" /\ Signalled(w)
    /\ WorkerGoto(w, "gone")
    /\ UNCHANGED <<rows, objects, channels, work, result, active, quit, save,
                   stop, check, faults, history>>

\* The execution is running, whatever its row says.
StartExecution(w) ==
    /\ wpc[w] = "start"
    /\ SaveExecution(w, ExecOf(w), [status |-> "running", worker |-> w])
    /\ WorkerGoto(w, "object")
    /\ UNCHANGED <<job, objects, channels, work, result, active, quit, stop,
                   check, faults, history>>

\* The object, which the workers of a push share without a lock, and its row.
StartObject(w) ==
    /\ wpc[w] = "object" /\ Saved(w)
    /\ obj' = [obj EXCEPT ![PushOf(w)] = [status |-> "running",
                                          current |-> ExecOf(w)]]
    /\ WorkerGoto(w, "job")
    /\ UNCHANGED <<rows, pushed, pushing, contexts, cancelled, channels, work,
                   result, active, quit, save, stop, check, faults, history>>

StartJob(w) ==
    /\ wpc[w] = "job"
    /\ SaveJob(JobOf[ExecOf(w)], obj[PushOf(w)])
    /\ WorkerGoto(w, "run")
    /\ UNCHANGED <<ex, objects, channels, work, result, active, quit, save,
                   stop, check, faults, history>>

\* A report that does not wait for the end of the run.
LateProgress(w) ==
    /\ wpc[w] \in {"run", "final"} /\ Saved(w)
    /\ SaveExecution(w, ExecOf(w), [status |-> "running", worker |-> w])
    /\ UNCHANGED <<job, objects, channels, workers, stop, check, faults,
                   history>>

\* A progress report saves the whole execution.
Progress(w) ==
    /\ wpc[w] = "run" /\ Saved(w)
    /\ SaveExecution(w, ExecOf(w), [status |-> "running", worker |-> w])
    /\ UNCHANGED <<job, objects, channels, workers, stop, check, faults,
                   history>>

\* The process, command or function ends and its result is saved; one that
\* cannot be found fails without a save.
Execute(w) ==
    /\ wpc[w] = "run" /\ Saved(w)
    /\ \E r \in {"completed", "failed", "cancelled"} :
           /\ r = "cancelled" => \/ PushOf(w) \in cancelled
                               \/ ExecOf(w) \in Timed
           /\ result' = [result EXCEPT ![w] = r]
           /\ \/ SaveExecution(w, ExecOf(w), [status |-> r, worker |-> w])
              \/ r = "failed" /\ UNCHANGED <<ex, save>>
    /\ WorkerGoto(w, "final")
    /\ UNCHANGED <<job, objects, channels, work, active, quit, stop, check,
                   faults, history>>

\* Every error is a failure in the end.
FinalStatus(r) == IF r = "completed" THEN "completed" ELSE "failed"

EndExecution(w) ==
    /\ wpc[w] = "final" /\ Saved(w)
    /\ SaveExecution(w, ExecOf(w), [status |-> FinalStatus(result[w]),
                                    worker |-> w])
    /\ WorkerGoto(w, "settle")
    /\ UNCHANGED <<job, objects, channels, work, result, active, quit, stop,
                   check, faults, history>>

SettledStatus(j) == IF j \in Once THEN "completed" ELSE "ready"

EndObject(w) ==
    /\ wpc[w] = "settle" /\ Saved(w)
    /\ obj' = [obj EXCEPT ![PushOf(w)] =
                   [status |-> SettledStatus(JobOf[ExecOf(w)]), current |-> None]]
    /\ WorkerGoto(w, "settled")
    /\ UNCHANGED <<rows, pushed, pushing, contexts, cancelled, channels, work,
                   result, active, quit, save, stop, check, faults, history>>

KeepJob(j, object) == UNCHANGED job
SettleJob(j, object) == SaveJob(j, object)

EndJob(w) ==
    /\ wpc[w] = "settled"
    /\ SettleJob(JobOf[ExecOf(w)], obj[PushOf(w)])
    /\ WorkerGoto(w, "forget")
    /\ UNCHANGED <<ex, objects, channels, work, result, active, quit, save,
                   stop, check, faults, history>>

\* The context is deleted under the mutex of the object.
Forget(w) ==
    /\ wpc[w] = "forget" /\ Unlocked(PushOf(w))
    /\ contexts' = [contexts EXCEPT ![PushOf(w)] = @ \ {ExecOf(w)}]
    /\ done' = done \cup {work[w]}
    /\ work' = [work EXCEPT ![w] = None]
    /\ result' = [result EXCEPT ![w] = "queued"]
    /\ WorkerGoto(w, "register")
    /\ UNCHANGED <<rows, obj, pushed, pushing, cancelled, channels, active, quit,
                   save, stop, check, faults, disturbed>>

Fault == faults < MaxFaults /\ faults' = faults + 1

-----------------------------------------------------------------------------
(***************************************************************************)
(* Stopping a job, the worker manager, the process.                        *)
(***************************************************************************)

\* Job.Stop on an object loaded from the database, as the API and the scripts
\* call it: it holds no contexts, so nothing is cancelled.
StopLoaded(j) ==
    /\ Fault
    /\ SaveJob(j, [status |-> "disabled", current |-> None])
    /\ disturbed' = disturbed \cup {j}
    /\ UNCHANGED <<ex, objects, channels, workers, save, stop, check, done>>

\* Job.Stop on the object that pushed.
Stop(p) ==
    /\ Fault
    /\ pushed[p] # None /\ pushing[p] = {} /\ stop[p] = NoStop
    /\ obj' = [obj EXCEPT ![p].status = "disabled"]
    /\ SaveJob(pushed[p], obj'[p])
    /\ stop' = [stop EXCEPT ![p].step = "cancel"]
    /\ disturbed' = disturbed \cup {pushed[p]}
    /\ UNCHANGED <<ex, pushed, pushing, contexts, cancelled, channels, workers,
                   save, check, done>>

\* The job context is cancelled and the mutex taken, ...
StopCancel(p) ==
    /\ stop[p].step = "cancel"
    /\ cancelled' = cancelled \cup {p}
    /\ stop' = [stop EXCEPT ![p] = [step |-> "each", left |-> contexts[p],
                                    at |-> None]]
    /\ UNCHANGED <<rows, obj, pushed, pushing, contexts, channels, workers,
                   save, check, faults, history>>

\* ... each execution is read, ...
StopRead(p) ==
    /\ stop[p].step = "each" /\ Saved(p)
    /\ \E e \in stop[p].left :
           stop' = [stop EXCEPT ![p] =
               [step |-> IF ex[e].status \in {"queued", "running"}
                         THEN "write" ELSE "each",
                left |-> @.left \ {e}, at |-> e]]
    /\ UNCHANGED <<rows, objects, channels, workers, save, check, faults,
                   history>>

\* ... and saved as cancelled when it had not ended, ...
StopWrite(p) ==
    /\ stop[p].step = "write"
    /\ SaveStatus(p, stop[p].at, "cancelled")
    /\ stop' = [stop EXCEPT ![p].step = "each"]
    /\ UNCHANGED <<job, objects, channels, workers, check, faults, history>>

\* ... and the contexts are forgotten.
StopEnd(p) ==
    /\ stop[p].step = "each" /\ stop[p].left = {} /\ Saved(p)
    /\ contexts' = [contexts EXCEPT ![p] = {}]
    /\ stop' = [stop EXCEPT ![p] = [NoStop EXCEPT !.step = "ended"]]
    /\ UNCHANGED <<rows, obj, pushed, pushing, cancelled, channels, workers,
                   save, check, faults, history>>

\* WorkerManager.Stop.
StopWorkers ==
    /\ Fault
    /\ ~quit /\ quit' = TRUE /\ active' = {}
    /\ disturbed' = Jobs
    /\ UNCHANGED <<rows, objects, channels, wpc, work, result, save, stop,
                   check, done>>

\* The process is restarted: only the rows remain.
Restart ==
    /\ Fault
    /\ ex' = [e \in Execs |-> [ex[e] EXCEPT !.worker = IF @ = None THEN None
                                                       ELSE Gone]]
    /\ obj' = NewObjects
    /\ pushed' = [p \in Pushes |-> None]
    /\ pushing' = [p \in Pushes |-> {}] /\ contexts' = [p \in Pushes |-> {}]
    /\ cancelled' = {}
    /\ sending' = {} /\ queue' = <<>> /\ disp' = NoWork /\ pool' = <<>>
    /\ wpc' = [w \in Workers |-> "register"]
    /\ work' = [w \in Workers |-> None]
    /\ result' = [w \in Workers |-> "queued"]
    /\ active' = Workers /\ quit' = FALSE
    /\ save' = [s \in Savers |-> NoSave]
    /\ stop' = [p \in Pushes |-> NoStop]
    /\ check' = NoCheck
    /\ done' = {}
    /\ disturbed' = Jobs
    /\ UNCHANGED job

-----------------------------------------------------------------------------
(***************************************************************************)
(* The health checker.                                                     *)
(***************************************************************************)

\* The enabled jobs that are running are listed with their current executions.
ListJob(j) ==
    /\ check.step = "none" /\ Saved(Checker)
    /\ j \in Enabled /\ job[j].status = "running"
    /\ check' = [step |-> "check", of |-> j, current |-> job[j].current]
    /\ UNCHANGED <<rows, objects, channels, workers, save, stop, faults,
                   history>>

BelievesRow(e) == ex[e].status = "running" /\ ex[e].worker # None
\* The execution runs, on a worker that is there, within its time.
Healthy(e) ==
    /\ ex[e].status = "running" /\ ex[e].worker \in active

CheckHealthy ==
    /\ check.step = "check" /\ check.current # None /\ Healthy(check.current)
    /\ check' = NoCheck
    /\ UNCHANGED <<rows, objects, channels, workers, save, stop, faults,
                   history>>

\* markJobAsFailed: the job that was listed is saved as failed, ...
MarkJob ==
    /\ check.step = "check"
    /\ check.current # None =>
           ~Healthy(check.current) \/ check.current \in Timed
    /\ SaveJob(check.of, [status |-> "failed", current |-> check.current])
    /\ check' = [check EXCEPT !.step = IF check.current = None
                                       THEN "clear" ELSE "mark"]
    /\ disturbed' = disturbed \cup {check.of}
    /\ UNCHANGED <<ex, objects, channels, workers, save, stop, faults, done>>

\* ... then the execution, whatever it is by now, ...
MarkExecution ==
    /\ check.step = "mark"
    /\ SaveStatus(Checker, check.current, "failed")
    /\ check' = [check EXCEPT !.step = "clear"]
    /\ UNCHANGED <<job, objects, channels, workers, stop, faults, history>>

\* ... and the job again, without a current execution.
ClearJob ==
    /\ check.step = "clear" /\ Saved(Checker)
    /\ SaveJob(check.of, [status |-> "failed", current |-> None])
    /\ check' = NoCheck
    /\ UNCHANGED <<ex, objects, channels, workers, save, stop, faults,
                   history>>

-----------------------------------------------------------------------------
SaveStep(s) == Count(s) \/ Tell(s)
DispatchStep == TakeWork \/ TakeWorker \/ GiveWork \/ DispatcherQuits
WorkStep(w) ==
    \/ Register(w) \/ WorkerQuits(w) \/ StartExecution(w) \/ StartObject(w)
    \/ StartJob(w) \/ Execute(w) \/ EndExecution(w) \/ EndObject(w)
    \/ EndJob(w) \/ Forget(w)
StopStep(p) == StopCancel(p) \/ StopRead(p) \/ StopWrite(p) \/ StopEnd(p)
CheckStep == CheckHealthy \/ MarkJob \/ MarkExecution \/ ClearJob
PushStep(p) == \E e \in Execs : Submit(p, e)

Next ==
    \/ \E s \in Savers : SaveStep(s)
    \/ \E p \in Pushes : \/ \E j \in Jobs : Push(p, j)
                         \/ PushStep(p) \/ Stop(p) \/ StopStep(p)
    \/ \E q \in Requests : Send(q)
    \/ DispatchStep
    \/ \E w \in Workers : WorkStep(w) \/ Progress(w)
    \/ \E j \in Jobs : StopLoaded(j) \/ ListJob(j)
    \/ CheckStep
    \/ StopWorkers \/ Restart

\* Every goroutine is running code, an execution ends however often it reports
\* its progress, and the health checker comes round again.  Nobody has to push
\* or stop anything.
Fairness ==
    /\ \A s \in Savers : WF_vars(SaveStep(s))
    /\ \A p \in Pushes : WF_vars(PushStep(p)) /\ WF_vars(StopStep(p))
    /\ \A q \in Requests : WF_vars(Send(q))
    /\ WF_vars(DispatchStep)
    /\ \A w \in Workers : WF_vars(WorkStep(w)) /\ SF_vars(Execute(w))
    /\ WF_vars(CheckStep) /\ \A j \in Jobs : WF_vars(ListJob(j))

Spec == Init /\ [][Next]_vars
FairSpec == Spec /\ Fairness

-----------------------------------------------------------------------------
(***************************************************************************)
(* Properties.                                                             *)
(***************************************************************************)

\* Every variable holds values of its kind (the rows of data.go, the channels
\* of worker.go, the steps of each goroutine).
TypeOK ==
    /\ job \in [Jobs -> JobRow]
    /\ ex \in [Execs -> ExRow]
    /\ obj \in [Pushes -> JobRow]
    /\ pushed \in [Pushes -> Jobs \cup {None}]
    /\ pushing \in [Pushes -> SUBSET Execs]
    /\ contexts \in [Pushes -> SUBSET Execs]
    /\ cancelled \subseteq Pushes
    /\ sending \subseteq Requests
    /\ queue \in Seq(Requests) /\ Len(queue) <= QueueCap
    /\ disp \in [step : {"idle", "held", "give", "gone"},
                 held : Requests \cup {None}, to : Workers \cup {None}]
    /\ pool \in Seq(Workers)
    /\ wpc \in [Workers -> {"register", "wait", "start", "object", "job", "run",
                            "final", "settle", "settled", "forget", "gone"}]
    /\ work \in [Workers -> Requests \cup {None}]
    /\ result \in [Workers -> ExStatuses]
    /\ active \subseteq Workers /\ quit \in BOOLEAN
    /\ save \in [Savers -> [step : {"none", "count", "tell"},
                            of : Jobs \cup {None}, status : JobStatuses]]
    /\ stop \in [Pushes -> [step : {"none", "cancel", "each", "write", "ended"},
                            left : SUBSET Execs, at : Execs \cup {None}]]
    /\ check \in [step : {"none", "check", "mark", "clear"},
                  of : Jobs \cup {None}, current : Execs \cup {None}]
    /\ faults \in 0..MaxFaults
    /\ done \subseteq Requests /\ disturbed \subseteq Jobs

\* The requests between Submit and Forget.
InFlight ==
    sending \cup Range(queue) \cup {disp.held} \cup {work[w] : w \in Workers}

\* The dispatcher's send to a worker never waits for work in hand: a worker
\* whose channel is registered, or was just taken, is waiting to receive
\* (worker.go dispatch and Worker.Start), and is registered once.
PoolHoldsIdle ==
    /\ \A w \in Range(pool) \cup ({disp.to} \ {None}) : wpc[w] \in {"wait", "gone"}
    /\ IsInjective(pool) /\ disp.to \notin Range(pool)

\* A request is in one place at a time: it waits to be sent, is queued, is held
\* by the dispatcher or is worked on, by one worker, and one that was
\* processed does not come back (worker.go SubmitJob, dispatch, processWork).
HandledOnce ==
    /\ IsInjective(queue) /\ sending \cap Range(queue) = {}
    /\ disp.held \notin sending \cup Range(queue)
    /\ \A w \in Workers : work[w] # None =>
           /\ work[w] \notin sending \cup Range(queue) \cup {disp.held}
           /\ \A v \in Workers \ {w} : work[v] # work[w]
    /\ done \cap InFlight = {}

\* Nobody but the workers wrote the job, and when nothing of it is in flight
\* any more, the last of them has left the status that processWork ends with,
\* whatever the counts of updateJobProgress said in between.
JobSettles ==
    \A j \in Jobs \ disturbed :
        /\ \E q \in done : JobOf[q[2]] = j
        /\ \A q \in InFlight \ {None} : JobOf[q[2]] # j
        => job[j].status = SettledStatus(j)

\* As long as nobody but its workers has written a job, each of its executions
\* is run once and by one worker: the row goes from queued to running, to what
\* the run came to and to what processWork makes of that, and stays so,
\* whatever is reported, counted and pushed meanwhile (worker.go processWork).
RunsOnce ==
    [][\A e \in Execs : JobOf[e] \notin disturbed' /\ ex'[e] # ex[e] =>
           \E w \in Workers :
               /\ work[w] # None /\ ExecOf(w) = e /\ ex'[e].worker = w
               /\ \/ ex[e].status = "queued" /\ ex'[e].status = "running"
                  \/ /\ ex[e].worker = w
                     /\ \/ /\ ex[e].status = "running"
                           /\ ex'[e].status \in {"completed", "failed", "cancelled"}
                        \/ ex[e].status = "cancelled" /\ ex'[e].status = "failed"]_vars

\* A request that was accepted is processed, unless it is cancelled, the worker
\* manager stopped or the process restarted (worker.go SubmitJob).
Accepted(q) == q \in sending /\ q[1] \notin cancelled
AcceptedRuns ==
    \A q \in Requests :
        Accepted(q) ~> \/ q \in done
                       \/ q[1] \in cancelled \/ quit \/ pushed[q[1]] = None

\* A job the process lost while it was running does not stay running: the
\* health checker of the next process finds its worker gone (health.go
\* isWorkerActive, markJobAsFailed).
Lost(j) ==
    /\ job[j].status = "running" /\ job[j].current # None
    /\ ex[job[j].current].worker = Gone
    /\ \A p \in Pushes : pushed[p] = None
LostJobDetected == \A j \in Enabled : []<>~Lost(j)

\* A stopped worker manager comes to rest: every worker ends when it has
\* finished what it works on (worker.go Stop, Worker.Start).
WorkersStop == quit ~> ~quit \/ \A w \in Workers : wpc[w] = "gone"

\* A once job that reads completed has succeeded: yao/models/job/job.mod.yao:81
\* calls it "Job finished successfully (for 'once' jobs)".
CompletedMeansSuccess ==
    \A j \in Once :
        /\ job[j].status = "completed"
        /\ \A q \in InFlight \ {None} : JobOf[q[2]] # j
        => \A e \in ExecsOf(j) : ex[e].status # "failed"

\* Stop cancels the running executions of its job, as its comment says
\* (job.go:264): they do not go on when it has returned.
StopStops ==
    [][\A j \in Jobs : job'[j].status = "disabled" /\ job[j].status # "disabled"
           => \A w \in Workers : work[w] # None => JobOf[work[w][2]] # j]_vars

\* A cancelled execution stays cancelled.
CancelledStaysCancelled ==
    [][\A e \in Execs : ex[e].status = "cancelled" => ex'[e].status = "cancelled"]_vars

\* The dispatcher of a stopped manager ends (worker.go Stop: "Stop dispatcher
\* first").
DispatcherStops == quit ~> ~quit \/ disp.step = "gone"

\* The health checker does not turn a completed execution into a failed one.
CompletedStaysCompleted ==
    [][\A e \in Execs : ex[e].status = "completed" => ex'[e].status # "failed"]_vars
=============================================================================
