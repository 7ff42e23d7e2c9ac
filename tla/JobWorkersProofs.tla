------------------------- MODULE JobWorkersProofs -------------------------
(***************************************************************************)
(* Proofs about JobWorkers, for any number of jobs, executions, workers,   *)
(* pushes and faults, and a work queue of any capacity.                    *)
(***************************************************************************)
EXTENDS JobWorkers, TLAPS

-----------------------------------------------------------------------------
(***************************************************************************)
(* Sequences                                                               *)
(***************************************************************************)

\* What is appended joins what a sequence holds, and does not repeat it.
LEMMA AppendHolds ==
    ASSUME NEW S, NEW s \in Seq(S), NEW x \in S
    PROVE  /\ Append(s, x) \in Seq(S)
           /\ Range(Append(s, x)) = Range(s) \cup {x}
           /\ IsInjective(s) /\ x \notin Range(s) => IsInjective(Append(s, x))
<1>1. DOMAIN Append(s, x) = 1..(Len(s) + 1) /\ DOMAIN s = 1..Len(s)
  OBVIOUS
<1>2. \A i \in 1..Len(s) : Append(s, x)[i] = s[i]
  OBVIOUS
<1>3. Append(s, x)[Len(s) + 1] = x
  OBVIOUS
<1>4. Range(Append(s, x)) = Range(s) \cup {x}
  <2>1. \A y \in Range(Append(s, x)) : y \in Range(s) \cup {x}
    BY <1>1, <1>2, <1>3 DEF Range
  <2>2. \A y \in Range(s) : y \in Range(Append(s, x))
    BY <1>1, <1>2 DEF Range
  <2>3. x \in Range(Append(s, x))
    BY <1>1, <1>3 DEF Range
  <2> QED
    BY <2>1, <2>2, <2>3
<1>5. IsInjective(s) /\ x \notin Range(s) => IsInjective(Append(s, x))
  BY <1>1, <1>2, <1>3 DEF IsInjective, Range
<1> QED
  BY <1>4, <1>5

\* The head of a sequence leaves it, and does not stay behind when nothing is
\* repeated.
LEMMA HeadLeaves ==
    ASSUME NEW S, NEW s \in Seq(S), s # <<>>
    PROVE  /\ Head(s) \in S /\ Tail(s) \in Seq(S) /\ Len(Tail(s)) = Len(s) - 1
           /\ Range(s) = {Head(s)} \cup Range(Tail(s))
           /\ IsInjective(s) => /\ IsInjective(Tail(s))
                                /\ Head(s) \notin Range(Tail(s))
<1>1. /\ Head(s) \in S /\ Tail(s) \in Seq(S)
      /\ Len(s) \in Nat \ {0} /\ Len(Tail(s)) = Len(s) - 1
  OBVIOUS
<1>2. DOMAIN s = 1..Len(s) /\ DOMAIN Tail(s) = 1..(Len(s) - 1)
  BY <1>1
<1>3. Head(s) = s[1] /\ \A i \in 1..(Len(s) - 1) : Tail(s)[i] = s[i + 1]
  OBVIOUS
<1>4. Range(s) = {Head(s)} \cup Range(Tail(s))
  <2>1. ASSUME NEW i \in 1..Len(s)
        PROVE  s[i] \in {Head(s)} \cup Range(Tail(s))
    <3>1. CASE i = 1
      BY <3>1, <1>3
    <3>2. CASE i # 1
      <4>1. i - 1 \in 1..(Len(s) - 1) /\ s[i] = Tail(s)[i - 1]
        BY <3>2, <1>1, <1>3
      <4> QED
        BY <4>1, <1>2 DEF Range
    <3> QED
      BY <3>1, <3>2
  <2>2. ASSUME NEW i \in 1..(Len(s) - 1)
        PROVE  Tail(s)[i] \in Range(s)
    <3>1. i + 1 \in 1..Len(s) /\ Tail(s)[i] = s[i + 1]
      BY <1>1, <1>3
    <3> QED
      BY <3>1, <1>2 DEF Range
  <2>3. Head(s) \in Range(s)
    <3>1. 1 \in 1..Len(s)
      BY <1>1
    <3> QED
      BY <3>1, <1>2, <1>3 DEF Range
  <2> QED
    BY <2>1, <2>2, <2>3, <1>2 DEF Range
<1>5. ASSUME IsInjective(s)
      PROVE  IsInjective(Tail(s)) /\ Head(s) \notin Range(Tail(s))
  <2>1. \A i, k \in 1..(Len(s) - 1) : Tail(s)[i] = Tail(s)[k] => i = k
    <3> SUFFICES ASSUME NEW i \in 1..(Len(s) - 1), NEW k \in 1..(Len(s) - 1),
                        Tail(s)[i] = Tail(s)[k]
                 PROVE  i = k
      OBVIOUS
    <3>1. i + 1 \in 1..Len(s) /\ k + 1 \in 1..Len(s) /\ s[i + 1] = s[k + 1]
      BY <1>1, <1>3
    <3>2. i + 1 = k + 1
      BY <3>1, <1>2, <1>5 DEF IsInjective
    <3> QED
      BY <3>2
  <2>2. \A i \in 1..(Len(s) - 1) : Tail(s)[i] # Head(s)
    <3> SUFFICES ASSUME NEW i \in 1..(Len(s) - 1), Tail(s)[i] = Head(s)
                 PROVE  FALSE
      OBVIOUS
    <3>1. i + 1 \in 1..Len(s) /\ 1 \in 1..Len(s) /\ s[i + 1] = s[1]
      BY <1>1, <1>3
    <3>2. i + 1 = 1
      BY <3>1, <1>2, <1>5 DEF IsInjective
    <3> QED
      BY <3>2
  <2> QED
    BY <2>1, <2>2, <1>2 DEF IsInjective, Range
<1> QED
  BY <1>1, <1>4, <1>5

-----------------------------------------------------------------------------
(***************************************************************************)
(* The inductive invariant                                                 *)
(***************************************************************************)

\* A worker that works on something, and one that has begun to write its rows
\* and has not written the job for the last time.
BusySteps == {"start", "object", "job", "run", "final", "settle", "settled",
              "forget"}
OpenSteps == BusySteps \ {"start", "forget"}
SavingSteps == {"object", "run", "final", "settle"}

JobOn(w) == JobOf[ExecOf(w)]

\* Whoever is about to use a request, a worker, an execution or a job has one.
Shape ==
    /\ \A w \in Workers : wpc[w] \in BusySteps => work[w] \in Requests
    /\ disp.step \in {"held", "give"} => disp.held \in Requests
    /\ disp.step = "give" => disp.to \in Workers
    /\ \A p \in Pushes : stop[p].step = "write" => stop[p].at \in Execs
    /\ check.step # "none" => check.of \in Jobs
    /\ check.step = "mark" => check.current \in Execs

\* What is still to be submitted is neither in flight nor done.
Fresh ==
    \A p \in Pushes : \A e \in pushing[p] : <<p, e>> \notin InFlight \cup done

\* Executions stay with the job they were added to.
Belong ==
    /\ \A q \in Requests :
           q \in InFlight \cup done => pushed[q[1]] = JobOf[q[2]]
    /\ \A p \in Pushes : \A e \in pushing[p] \cup contexts[p] \cup stop[p].left :
           JobOf[e] = pushed[p]
    /\ \A p \in Pushes : stop[p].step = "write" => JobOf[stop[p].at] = pushed[p]

\* So do the current executions of the rows and objects.
Currents ==
    /\ \A j \in Jobs : job[j].current # None => JobOf[job[j].current] = j
    /\ \A p \in Pushes :
           obj[p].current # None => JobOf[obj[p].current] = pushed[p]
    /\ check.step # "none" /\ check.current # None =>
           JobOf[check.current] = check.of

\* Whoever but a worker writes the rows of a job has disturbed it before.
Disturbing ==
    /\ \A p \in Pushes : stop[p].step # "none" => pushed[p] \in disturbed
    /\ check.step \in {"mark", "clear"} => check.of \in disturbed
    /\ \A p, o \in Pushes :
           p # o /\ pushed[p] = pushed[o] /\ pushed[p] # None =>
               pushed[p] \in disturbed
    /\ \A s \in Savers \ Workers :
           save[s].step # "none" => save[s].of \in disturbed

\* A worker counts and tells for the job it works on, before it settles it.
Saving ==
    \A w \in Workers :
        save[w].step # "none" =>
            wpc[w] \in SavingSteps /\ save[w].of = JobOn(w)

\* The object a worker is about to save as settled has been settled, unless
\* another worker has set it to running since and will settle it.
Settling ==
    \A w \in Workers :
        wpc[w] = "settled" /\ JobOn(w) \notin disturbed =>
            \/ obj[PushOf(w)].status = SettledStatus(JobOn(w))
            \/ \E v \in Workers : /\ wpc[v] \in {"job", "run", "final", "settle"}
                                  /\ PushOf(v) = PushOf(w)

Opened(j) == {w \in Workers : wpc[w] \in OpenSteps /\ JobOn(w) = j}
Finished(j) == \/ \E q \in done : JobOf[q[2]] = j
               \/ \E w \in Workers : wpc[w] = "forget" /\ JobOn(w) = j

\* A job some of whose work is finished is settled when no worker has its rows
\* open.
Settled ==
    \A j \in Jobs \ disturbed :
        Finished(j) /\ Opened(j) = {} => job[j].status = SettledStatus(j)

Rest == Belong /\ Currents /\ Disturbing /\ Saving /\ Settling /\ Settled
IInv == TypeOK /\ Shape /\ PoolHoldsIdle /\ HandledOnce /\ Fresh /\ Rest
-----------------------------------------------------------------------------
(***************************************************************************)
(* Type correctness                                                        *)
(***************************************************************************)

\* A call of SaveExecution and one of Stop under way.
SaveRow == [step : {"none", "count", "tell"}, of : Jobs \cup {None},
            status : JobStatuses]

StopRow == [step : {"none", "cancel", "each", "write", "ended"},
            left : SUBSET Execs, at : Execs \cup {None}]

\* A new status or step leaves a record of the same kind.
LEMMA JobStatusType ==
    ASSUME NEW row \in JobRow, NEW status \in JobStatuses
    PROVE  [row EXCEPT !.status = status] \in JobRow
BY DEF JobRow

\* The same for the row of an execution ...
LEMMA ExStatusType ==
    ASSUME NEW row \in ExRow, NEW status \in ExStatuses
    PROVE  [row EXCEPT !.status = status] \in ExRow
BY DEF ExRow

\* ... and the step of a stop.
LEMMA StopStepType ==
    ASSUME NEW p \in Pushes, stop \in [Pushes -> StopRow],
           NEW step \in {"none", "cancel", "each", "write", "ended"},
           stop' = [stop EXCEPT ![p].step = step]
    PROVE  stop' \in [Pushes -> StopRow]
<1>1. [stop[p] EXCEPT !.step = step] \in StopRow
  <2>1. stop[p] \in StopRow
    OBVIOUS
  <2> QED
    BY <2>1 DEF StopRow
<1> QED
  BY <1>1

\* What updateJobProgress derives is a status of a job.
LEMMA StatusOfType == ASSUME NEW j PROVE StatusOf(j) \in JobStatuses
BY DEF StatusOf, JobStatuses

\* SaveJob writes a row, ...
LEMMA SaveJobType ==
    ASSUME job \in [Jobs -> JobRow], NEW j, NEW object \in JobRow,
           SaveJob(j, object)
    PROVE  job' \in [Jobs -> JobRow]
BY DEF SaveJob, JobRow

\* ... and SaveExecution one, and begins a count.
LEMMA SaveExecutionType ==
    ASSUME ex \in [Execs -> ExRow], save \in [Savers -> SaveRow],
           NEW s \in Savers, NEW e \in Execs, NEW row \in ExRow,
           SaveExecution(s, e, row)
    PROVE  ex' \in [Execs -> ExRow] /\ save' \in [Savers -> SaveRow]
<1>1. JobOf[e] \in Jobs
  BY JobOfAssumption
<1>2. "draft" \in JobStatuses
  BY DEF JobStatuses
<1> QED
  BY <1>1, <1>2 DEF SaveExecution, SaveRow

\* Every action keeps the kinds of all values.
LEMMA TypeStep ==
    ASSUME TypeOK, Shape, [Next]_vars
    PROVE  TypeOK'
<1>1. ASSUME NEW s \in Savers, Count(s)
      PROVE  TypeOK'
  <2>1. StatusOf(save[s].of) \in JobStatuses
    BY StatusOfType
  <2>2. [step |-> "tell", of |-> save[s].of, status |-> StatusOf(save[s].of)]
           \in SaveRow
    BY <2>1 DEF TypeOK, SaveRow
  <2>3. save' \in [Savers -> SaveRow]
    BY <1>1, <2>2 DEF Count, TypeOK, SaveRow
  <2> QED
    BY <1>1, <2>3 DEF Count, TypeOK, SaveRow, rows, objects, channels, workers,
       history
<1>2. ASSUME NEW s \in Savers, Tell(s)
      PROVE  TypeOK'
  <2>1. save[s].status \in JobStatuses
    BY DEF TypeOK
  <2>2. \A j \in Jobs : /\ job[j] \in JobRow
                        /\ [job[j] EXCEPT !.status = save[s].status] \in JobRow
    BY <2>1, JobStatusType DEF TypeOK
  <2>3. \A j \in Jobs :
            job'[j] \in {job[j], [job[j] EXCEPT !.status = save[s].status]}
    BY <1>2 DEF Tell, TypeOK
  <2>4. job' \in [Jobs -> JobRow]
    <3>1. job' = [j \in Jobs |-> job'[j]]
      BY <1>2 DEF Tell, TypeOK
    <3>2. \A j \in Jobs : job'[j] \in JobRow
      BY <2>2, <2>3
    <3> QED
      BY <3>1, <3>2
  <2>5. NoSave \in SaveRow
    BY DEF NoSave, SaveRow, JobStatuses
  <2>6. save' \in [Savers -> SaveRow]
    BY <1>2, <2>5 DEF Tell, TypeOK, SaveRow
  <2> QED
    BY <1>2, <2>4, <2>6 DEF Tell, TypeOK, SaveRow, objects, channels, workers,
       history
<1>3. ASSUME NEW p \in Pushes, NEW j \in Jobs, Push(p, j)
      PROVE  TypeOK'
  <2>1. obj' \in [Pushes -> JobRow] /\ obj'[p] \in JobRow
    BY <1>3 DEF Push, TypeOK, JobRow, JobStatuses
  <2>2. job' \in [Jobs -> JobRow]
    BY <1>3, <2>1, SaveJobType DEF Push, TypeOK
  <2>3. pushing' \in [Pushes -> SUBSET Execs]
    BY <1>3 DEF Push, TypeOK, ExecsOf
  <2> QED
    BY <1>3, <2>1, <2>2, <2>3 DEF Push, TypeOK, channels, workers
<1>4. ASSUME NEW p \in Pushes, NEW e \in Execs, Submit(p, e)
      PROVE  TypeOK'
  <2>1. sending' \subseteq Requests
    BY <1>4 DEF Submit, TypeOK, Requests
  <2>2. /\ pushing' \in [Pushes -> SUBSET Execs]
        /\ contexts' \in [Pushes -> SUBSET Execs]
    BY <1>4 DEF Submit, TypeOK
  <2> QED
    BY <1>4, <2>1, <2>2 DEF Submit, TypeOK, rows, workers, history
<1>5. ASSUME NEW p \in Pushes, Stop(p)
      PROVE  TypeOK'
  <2>0. [obj[p] EXCEPT !.status = "disabled"] \in JobRow /\ Fault
    <3>1. obj[p] \in JobRow /\ "disabled" \in JobStatuses
      BY DEF TypeOK, JobStatuses
    <3> QED
      BY <1>5, <3>1, JobStatusType DEF Stop
  <2>1. obj' \in [Pushes -> JobRow] /\ obj'[p] \in JobRow
    BY <1>5, <2>0 DEF Stop, TypeOK
  <2>2. job' \in [Jobs -> JobRow]
    BY <1>5, <2>1, SaveJobType DEF Stop, TypeOK
  <2>3. faults' \in 0..MaxFaults
    BY <2>0, MaxFaultsAssumption DEF Fault, TypeOK
  <2>4. stop' \in [Pushes -> StopRow]
    BY <1>5, StopStepType DEF Stop, TypeOK, StopRow
  <2>5. disturbed' \subseteq Jobs
    BY <1>5 DEF Stop, TypeOK
  <2>6. UNCHANGED <<ex, pushed, pushing, contexts, cancelled, channels, workers,
                    save, check, done>>
    BY <1>5 DEF Stop
  <2> QED
    BY <2>1, <2>2, <2>3, <2>4, <2>5, <2>6 DEF TypeOK, StopRow, channels, workers
<1>6. ASSUME NEW p \in Pushes, StopCancel(p)
      PROVE  TypeOK'
  <2>1. [step |-> "each", left |-> contexts[p], at |-> None] \in
            [step : {"none", "cancel", "each", "write", "ended"},
             left : SUBSET Execs, at : Execs \cup {None}]
    BY DEF TypeOK
  <2>2. stop' \in [Pushes -> [step : {"none", "cancel", "each", "write", "ended"},
                             left : SUBSET Execs, at : Execs \cup {None}]]
    BY <1>6, <2>1 DEF StopCancel, TypeOK
  <2> QED
    BY <1>6, <2>2 DEF StopCancel, TypeOK, rows, channels, workers, history
<1>7. ASSUME NEW p \in Pushes, StopRead(p)
      PROVE  TypeOK'
  <2>1. PICK e \in stop[p].left :
            stop' = [stop EXCEPT ![p] =
                [step |-> IF ex[e].status \in {"queued", "running"}
                          THEN "write" ELSE "each",
                 left |-> stop[p].left \ {e}, at |-> e]]
    BY <1>7 DEF StopRead
  <2>2. e \in Execs /\ stop[p].left \subseteq Execs
    BY <2>1 DEF TypeOK
  <2>3. stop' \in [Pushes -> [step : {"none", "cancel", "each", "write", "ended"},
                             left : SUBSET Execs, at : Execs \cup {None}]]
    BY <2>1, <2>2 DEF TypeOK
  <2> QED
    BY <1>7, <2>3 DEF StopRead, TypeOK, rows, objects, channels, workers,
       history
<1>8. ASSUME NEW p \in Pushes, StopWrite(p)
      PROVE  TypeOK'
  <2>0. stop[p].step = "write"
    BY <1>8 DEF StopWrite
  <2>1. stop[p].at \in Execs /\ p \in Savers
    BY <2>0 DEF Shape, Savers
  <2>2. [ex[stop[p].at] EXCEPT !.status = "cancelled"] \in ExRow
    <3>1. ex[stop[p].at] \in ExRow /\ "cancelled" \in ExStatuses
      BY <2>1 DEF TypeOK, ExStatuses
    <3> QED
      BY <3>1, ExStatusType
  <2>3. ex' \in [Execs -> ExRow] /\ save' \in [Savers -> SaveRow]
    BY <1>8, <2>1, <2>2, SaveExecutionType DEF StopWrite, SaveStatus, TypeOK,
       SaveRow
  <2>4. stop' \in [Pushes -> StopRow]
    BY <1>8, StopStepType DEF StopWrite, TypeOK, StopRow
  <2>5. UNCHANGED <<job, objects, channels, workers, check, faults, history>>
    BY <1>8 DEF StopWrite
  <2> QED
    BY <2>3, <2>4, <2>5 DEF TypeOK, SaveRow, StopRow, objects, channels, workers,
       history
<1>9. ASSUME NEW p \in Pushes, StopEnd(p)
      PROVE  TypeOK'
  BY <1>9 DEF StopEnd, Saved, NoStop, rows, objects, channels, workers,
     history, TypeOK
<1>10. ASSUME NEW q \in Requests, Send(q)
      PROVE  TypeOK'
  <2>1. queue' \in Seq(Requests) /\ Len(queue') <= QueueCap
    <3>1. CASE Room /\ queue' = Append(queue, q)
      BY <3>1, QueueCapAssumption DEF Room, TypeOK
    <3>2. CASE UNCHANGED queue
      BY <3>2 DEF TypeOK
    <3> QED
      BY <1>10, <3>1, <3>2 DEF Send
  <2> QED
    BY <1>10, <2>1 DEF Send, TypeOK, rows, objects, workers, history
<1>11. ASSUME TakeWork
      PROVE  TypeOK'
  <2>1. /\ Head(queue) \in Requests /\ Tail(queue) \in Seq(Requests)
        /\ Len(Tail(queue)) = Len(queue) - 1 /\ Len(queue) \in Nat
    BY <1>11, HeadLeaves DEF TakeWork, TypeOK
  <2>2. Len(queue') <= QueueCap
    BY <1>11, <2>1, QueueCapAssumption DEF TakeWork, TypeOK
  <2> QED
    BY <1>11, <2>1, <2>2 DEF TakeWork, Holding, Held, NoWork, TypeOK, rows,
       objects, workers, history
<1>12. ASSUME TakeWorker
      PROVE  TypeOK'
  <2>1. Head(pool) \in Workers /\ Tail(pool) \in Seq(Workers)
    BY <1>12, HeadLeaves DEF TakeWorker, TypeOK
  <2> QED
    BY <1>12, <2>1 DEF TakeWorker, PoolLeft, TypeOK, rows, objects, workers,
       history
<1>13. ASSUME GiveWork
      PROVE  TypeOK'
  BY <1>13 DEF GiveWork, Relieved, NoWork, rows, objects, channels, workers,
     history, TypeOK
<1>14. ASSUME DispatcherQuits
      PROVE  TypeOK'
  BY <1>14 DEF DispatcherQuits, rows, objects, channels, workers, history,
     TypeOK
<1>15. ASSUME NEW w \in Workers, Register(w)
      PROVE  TypeOK'
  <2>1. pool' \in Seq(Workers)
    BY <1>15 DEF Register, TypeOK
  <2> QED
    BY <1>15, <2>1 DEF Register, WorkerGoto, TypeOK, rows, objects, history
<1>16. ASSUME NEW w \in Workers, WorkerQuits(w)
      PROVE  TypeOK'
  BY <1>16 DEF WorkerQuits, WorkerGoto, Signalled, rows, objects, channels,
     workers, history, TypeOK
<1>17. ASSUME NEW w \in Workers, StartExecution(w)
      PROVE  TypeOK'
  <2>1. ExecOf(w) \in Execs /\ w \in Savers
    BY <1>17 DEF StartExecution, Shape, BusySteps, Requests, ExecOf, Savers
  <2>2. [status |-> "running", worker |-> w] \in ExRow
    BY <1>17 DEF StartExecution, TypeOK, ExRow, ExStatuses
  <2>3. ex' \in [Execs -> ExRow] /\ save' \in [Savers -> SaveRow]
    BY <1>17, <2>1, <2>2, SaveExecutionType DEF StartExecution, TypeOK, SaveRow
  <2> QED
    BY <1>17, <2>3 DEF StartExecution, WorkerGoto, TypeOK, SaveRow, objects,
       channels, workers, history
<1>18. ASSUME NEW w \in Workers, StartObject(w)
      PROVE  TypeOK'
  <2>1. ExecOf(w) \in Execs
    BY <1>18 DEF StartObject, Shape, BusySteps, Requests, ExecOf
  <2>2. obj' \in [Pushes -> JobRow]
    BY <1>18, <2>1 DEF StartObject, TypeOK, JobRow, JobStatuses
  <2> QED
    BY <1>18, <2>2 DEF StartObject, WorkerGoto, TypeOK, rows, channels, history
<1>19. ASSUME NEW w \in Workers, StartJob(w)
      PROVE  TypeOK'
  <2>1. PushOf(w) \in Pushes
    BY <1>19 DEF StartJob, Shape, BusySteps, Requests, PushOf
  <2>2. job' \in [Jobs -> JobRow]
    BY <1>19, <2>1, SaveJobType DEF StartJob, TypeOK
  <2> QED
    BY <1>19, <2>2 DEF StartJob, WorkerGoto, TypeOK, objects, channels, history
<1>20. ASSUME NEW w \in Workers, Progress(w)
      PROVE  TypeOK'
  <2>1. ExecOf(w) \in Execs /\ w \in Savers
    BY <1>20 DEF Progress, Shape, BusySteps, Requests, ExecOf, Savers
  <2>2. [status |-> "running", worker |-> w] \in ExRow
    BY <1>20 DEF Progress, TypeOK, ExRow, ExStatuses
  <2>3. ex' \in [Execs -> ExRow] /\ save' \in [Savers -> SaveRow]
    BY <1>20, <2>1, <2>2, SaveExecutionType DEF Progress, TypeOK, SaveRow
  <2> QED
    BY <1>20, <2>3 DEF Progress, WorkerGoto, TypeOK, SaveRow, objects,
       channels, workers, history
<1>21. ASSUME NEW w \in Workers, Execute(w)
      PROVE  TypeOK'
  <2>1. ExecOf(w) \in Execs /\ w \in Savers
    BY <1>21 DEF Execute, Shape, BusySteps, Requests, ExecOf, Savers
  <2>2. PICK r \in {"completed", "failed", "cancelled"} :
            /\ result' = [result EXCEPT ![w] = r]
            /\ \/ SaveExecution(w, ExecOf(w), [status |-> r, worker |-> w])
               \/ UNCHANGED <<ex, save>>
    BY <1>21 DEF Execute
  <2>3. [status |-> r, worker |-> w] \in ExRow /\ r \in ExStatuses
    BY DEF ExRow, ExStatuses
  <2>4. ex' \in [Execs -> ExRow] /\ save' \in [Savers -> SaveRow]
    BY <2>1, <2>2, <2>3, SaveExecutionType DEF TypeOK, SaveRow
  <2>5. result' \in [Workers -> ExStatuses]
    BY <2>2, <2>3 DEF TypeOK
  <2> QED
    BY <1>21, <2>4, <2>5 DEF Execute, WorkerGoto, TypeOK, SaveRow, objects,
       channels, history
<1>22. ASSUME NEW w \in Workers, EndExecution(w)
      PROVE  TypeOK'
  <2>1. ExecOf(w) \in Execs /\ w \in Savers
    BY <1>22 DEF EndExecution, Shape, BusySteps, Requests, ExecOf, Savers
  <2>2. [status |-> FinalStatus(result[w]), worker |-> w] \in ExRow
    BY <1>22 DEF EndExecution, TypeOK, ExRow, ExStatuses, FinalStatus
  <2>3. ex' \in [Execs -> ExRow] /\ save' \in [Savers -> SaveRow]
    BY <1>22, <2>1, <2>2, SaveExecutionType DEF EndExecution, TypeOK, SaveRow
  <2> QED
    BY <1>22, <2>3 DEF EndExecution, WorkerGoto, TypeOK, SaveRow, objects,
       channels, workers, history
<1>23. ASSUME NEW w \in Workers, EndObject(w)
      PROVE  TypeOK'
  <2>1. SettledStatus(JobOf[ExecOf(w)]) \in JobStatuses
    BY DEF SettledStatus, JobStatuses
  <2>2. obj' \in [Pushes -> JobRow]
    BY <1>23, <2>1 DEF EndObject, TypeOK, JobRow
  <2> QED
    BY <1>23, <2>2 DEF EndObject, WorkerGoto, TypeOK, rows, channels, history
<1>24. ASSUME NEW w \in Workers, EndJob(w)
      PROVE  TypeOK'
  <2>1. PushOf(w) \in Pushes
    BY <1>24 DEF EndJob, Shape, BusySteps, Requests, PushOf
  <2>2. job' \in [Jobs -> JobRow]
    BY <1>24, <2>1, SaveJobType DEF EndJob, SettleJob, TypeOK
  <2> QED
    BY <1>24, <2>2 DEF EndJob, WorkerGoto, TypeOK, objects, channels, history
<1>25. ASSUME NEW w \in Workers, Forget(w)
      PROVE  TypeOK'
  <2>1. work[w] \in Requests
    BY <1>25 DEF Forget, Shape, BusySteps
  <2>2. contexts' \in [Pushes -> SUBSET Execs]
    <3>1. PushOf(w) \in Pushes
      BY <2>1 DEF PushOf, Requests
    <3>2. contexts[PushOf(w)] \ {ExecOf(w)} \in SUBSET Execs
      BY <3>1 DEF TypeOK
    <3> QED
      BY <1>25, <3>2 DEF Forget, TypeOK
  <2>3. work' \in [Workers -> Requests \cup {None}]
    BY <1>25 DEF Forget, TypeOK
  <2>4. wpc' \in [Workers -> {"register", "wait", "start", "object", "job", "run",
                             "final", "settle", "settled", "forget", "gone"}]
    BY <1>25 DEF Forget, WorkerGoto, TypeOK
  <2>5. result' \in [Workers -> ExStatuses]
    BY <1>25 DEF Forget, TypeOK, ExStatuses
  <2>7. UNCHANGED <<rows, obj, pushed, pushing, cancelled, channels, active, quit,
                    save, stop, check, faults, disturbed>>
    BY <1>25 DEF Forget
  <2> QED
    BY <1>25, <2>1, <2>2, <2>3, <2>4, <2>5, <2>7 DEF Forget, TypeOK, rows, channels
<1>26. ASSUME NEW j \in Jobs, StopLoaded(j)
      PROVE  TypeOK'
  <2>1. [status |-> "disabled", current |-> None] \in JobRow
    BY DEF JobRow, JobStatuses
  <2>2. job' \in [Jobs -> JobRow]
    BY <1>26, <2>1, SaveJobType DEF StopLoaded, TypeOK
  <2>3. faults' \in 0..MaxFaults
    BY <1>26, MaxFaultsAssumption DEF StopLoaded, Fault, TypeOK
  <2> QED
    BY <1>26, <2>2, <2>3 DEF StopLoaded, TypeOK, objects, channels, workers
<1>27. ASSUME NEW j \in Jobs, ListJob(j)
      PROVE  TypeOK'
  <2>1. job[j].current \in Execs \cup {None}
    BY DEF TypeOK, JobRow
  <2> QED
    BY <1>27, <2>1 DEF ListJob, TypeOK, rows, objects, channels, workers,
       history
<1>28. ASSUME CheckHealthy
      PROVE  TypeOK'
  BY <1>28 DEF CheckHealthy, NoCheck, rows, objects, channels, workers,
     history, TypeOK
<1>29. ASSUME MarkJob
      PROVE  TypeOK'
  <2>1. check.of \in Jobs
    BY <1>29 DEF MarkJob, Shape
  <2>2. [status |-> "failed", current |-> check.current] \in JobRow
    BY DEF TypeOK, JobRow, JobStatuses
  <2>3. job' \in [Jobs -> JobRow]
    BY <1>29, <2>2, SaveJobType DEF MarkJob, TypeOK
  <2> QED
    BY <1>29, <2>1, <2>3 DEF MarkJob, TypeOK, objects, channels, workers
<1>30. ASSUME MarkExecution
      PROVE  TypeOK'
  <2>1. check.current \in Execs /\ Checker \in Savers
    BY <1>30 DEF MarkExecution, Shape, Savers
  <2>2. [ex[check.current] EXCEPT !.status = "failed"] \in ExRow
    BY <2>1 DEF TypeOK, ExRow, ExStatuses
  <2>3. ex' \in [Execs -> ExRow] /\ save' \in [Savers -> SaveRow]
    BY <1>30, <2>1, <2>2, SaveExecutionType DEF MarkExecution, SaveStatus,
       TypeOK, SaveRow
  <2> QED
    BY <1>30, <2>3 DEF MarkExecution, TypeOK, SaveRow, objects, channels,
       workers, history
<1>31. ASSUME ClearJob
      PROVE  TypeOK'
  <2>1. [status |-> "failed", current |-> None] \in JobRow
    BY DEF JobRow, JobStatuses
  <2>2. job' \in [Jobs -> JobRow]
    BY <1>31, <2>1, SaveJobType DEF ClearJob, TypeOK
  <2> QED
    BY <1>31, <2>2 DEF ClearJob, NoCheck, TypeOK, objects, channels, workers,
       history
<1>32. ASSUME StopWorkers
      PROVE  TypeOK'
  <2>1. faults' \in 0..MaxFaults
    BY <1>32, MaxFaultsAssumption DEF StopWorkers, Fault, TypeOK
  <2> QED
    BY <1>32, <2>1 DEF StopWorkers, TypeOK, rows, objects, channels
<1>33. ASSUME Restart
      PROVE  TypeOK'
  <2>1. ex' \in [Execs -> ExRow]
    <3>1. \A e \in Execs :
              [ex[e] EXCEPT !.worker = IF @ = None THEN None ELSE Gone] \in ExRow
      <4> SUFFICES ASSUME NEW e \in Execs, NEW w \in {None, Gone}
                   PROVE  [ex[e] EXCEPT !.worker = w] \in ExRow
        OBVIOUS
      <4>1. ex[e] \in ExRow
        BY DEF TypeOK
      <4> QED
        BY <4>1 DEF ExRow
    <3> QED
      BY <1>33, <3>1 DEF Restart
  <2>2. faults' \in 0..MaxFaults
    <3>1. Fault
      BY <1>33 DEF Restart
    <3> QED
      BY <3>1, MaxFaultsAssumption DEF Fault, TypeOK
  <2>3. obj' \in [Pushes -> JobRow]
    BY <1>33 DEF Restart, NewObjects, JobRow, JobStatuses
  <2>4. save' \in [Savers -> SaveRow]
    BY <1>33 DEF Restart, NoSave, SaveRow, JobStatuses
  <2>5. /\ queue' \in Seq(Requests) /\ Len(queue') <= QueueCap
        /\ pool' \in Seq(Workers)
    BY <1>33, QueueCapAssumption DEF Restart
  <2>6. disp' \in [step : {"idle", "held", "give", "gone"},
                  held : Requests \cup {None}, to : Workers \cup {None}]
    BY <1>33 DEF Restart, NoWork
  <2>7. stop' \in [Pushes -> [step : {"none", "cancel", "each", "write", "ended"},
                             left : SUBSET Execs, at : Execs \cup {None}]]
    BY <1>33 DEF Restart, NoStop
  <2>8. check' \in [step : {"none", "check", "mark", "clear"},
                   of : Jobs \cup {None}, current : Execs \cup {None}]
    BY <1>33 DEF Restart, NoCheck
  <2>9. /\ wpc' \in [Workers -> {"register", "wait", "start", "object", "job",
              "run", "final", "settle", "settled", "forget", "gone"}]
        /\ work' \in [Workers -> Requests \cup {None}]
        /\ result' \in [Workers -> ExStatuses]
        /\ active' \subseteq Workers /\ quit' \in BOOLEAN
    BY <1>33 DEF Restart, ExStatuses
  <2> QED
    BY <1>33, <2>1, <2>2, <2>3, <2>4, <2>5, <2>6, <2>7, <2>8, <2>9
       DEF Restart, TypeOK, SaveRow
<1>34. CASE UNCHANGED vars
  BY <1>34 DEF vars, rows, objects, channels, workers, history, TypeOK
<1> QED
  BY <1>1, <1>2, <1>3, <1>4, <1>5, <1>6, <1>7, <1>8, <1>9, <1>10, <1>11,
     <1>12, <1>13, <1>14, <1>15, <1>16, <1>17, <1>18, <1>19, <1>20, <1>21,
     <1>22, <1>23, <1>24, <1>25, <1>26, <1>27, <1>28, <1>29, <1>30, <1>31,
     <1>32, <1>33, <1>34 DEF Next, SaveStep, PushStep, StopStep, DispatchStep,
     WorkStep, CheckStep

\* Whoever goes on to use a request, a worker, an execution or a job has it.
LEMMA ShapeStep ==
    ASSUME TypeOK, Shape, [Next]_vars
    PROVE  Shape'
<1>1. ASSUME NEW s \in Savers, Count(s)
      PROVE  Shape'
  BY <1>1 DEF Count, rows, objects, channels, workers, history, Shape,
     BusySteps, TypeOK
<1>2. ASSUME NEW s \in Savers, Tell(s)
      PROVE  Shape'
  BY <1>2 DEF Tell, NoSave, rows, objects, channels, workers, history, Shape,
     BusySteps, TypeOK
<1>3. ASSUME NEW p \in Pushes, NEW j \in Jobs, Push(p, j)
      PROVE  Shape'
  BY <1>3 DEF Push, channels, workers, Shape
<1>4. ASSUME NEW p \in Pushes, NEW e \in Execs, Submit(p, e)
      PROVE  Shape'
  BY <1>4 DEF Submit, Room, Unlocked, rows, objects, channels, workers,
     history, Shape, BusySteps, TypeOK
<1>5. ASSUME NEW p \in Pushes, Stop(p)
      PROVE  Shape'
  BY <1>5 DEF Stop, Fault, SaveJob, rows, objects, channels, workers, history,
     Shape, BusySteps, TypeOK
<1>6. ASSUME NEW p \in Pushes, StopCancel(p)
      PROVE  Shape'
  BY <1>6 DEF StopCancel, rows, objects, channels, workers, history, Shape,
     BusySteps, TypeOK
<1>7. ASSUME NEW p \in Pushes, StopRead(p)
      PROVE  Shape'
  BY <1>7 DEF StopRead, Saved, rows, objects, channels, workers, history,
     Shape, BusySteps, TypeOK
<1>8. ASSUME NEW p \in Pushes, StopWrite(p)
      PROVE  Shape'
  BY <1>8 DEF StopWrite, SaveStatus, SaveExecution, rows, objects, channels,
     workers, history, Shape, BusySteps, TypeOK
<1>9. ASSUME NEW p \in Pushes, StopEnd(p)
      PROVE  Shape'
  BY <1>9 DEF StopEnd, Saved, NoStop, rows, objects, channels, workers,
     history, Shape, BusySteps, TypeOK
<1>10. ASSUME NEW q \in Requests, Send(q)
      PROVE  Shape'
  BY <1>10 DEF Send, Room, rows, objects, channels, workers, history, Shape,
     BusySteps, TypeOK
<1>11. ASSUME TakeWork
      PROVE  Shape'
  <2>1. Head(queue) \in Requests
    BY <1>11, HeadLeaves DEF TakeWork, TypeOK
  <2> QED
    BY <1>11, <2>1 DEF TakeWork, Holding, Held, NoWork, Shape, TypeOK, objects,
       workers
<1>12. ASSUME TakeWorker
      PROVE  Shape'
  <2>1. Head(pool) \in Workers
    BY <1>12, HeadLeaves DEF TakeWorker, TypeOK
  <2> QED
    BY <1>12, <2>1 DEF TakeWorker, Shape, TypeOK, workers
<1>13. ASSUME GiveWork
      PROVE  Shape'
  BY <1>13 DEF GiveWork, Relieved, NoWork, rows, objects, channels, workers,
     history, Shape, BusySteps, TypeOK
<1>14. ASSUME DispatcherQuits
      PROVE  Shape'
  BY <1>14 DEF DispatcherQuits, rows, objects, channels, workers, history,
     Shape, BusySteps, TypeOK
<1>15. ASSUME NEW w \in Workers, Register(w)
      PROVE  Shape'
  BY <1>15 DEF Register, WorkerGoto, rows, objects, channels, workers,
     history, Shape, BusySteps, TypeOK
<1>16. ASSUME NEW w \in Workers, WorkerQuits(w)
      PROVE  Shape'
  BY <1>16 DEF WorkerQuits, WorkerGoto, Signalled, rows, objects, channels,
     workers, history, Shape, BusySteps, TypeOK
<1>17. ASSUME NEW w \in Workers, StartExecution(w)
      PROVE  Shape'
  BY <1>17 DEF StartExecution, WorkerGoto, SaveExecution, rows, objects,
     channels, workers, history, Shape, BusySteps, TypeOK
<1>18. ASSUME NEW w \in Workers, StartObject(w)
      PROVE  Shape'
  BY <1>18 DEF StartObject, WorkerGoto, Saved, rows, objects, channels,
     workers, history, Shape, BusySteps, TypeOK
<1>19. ASSUME NEW w \in Workers, StartJob(w)
      PROVE  Shape'
  BY <1>19 DEF StartJob, WorkerGoto, SaveJob, rows, objects, channels,
     workers, history, Shape, BusySteps, TypeOK
<1>20. ASSUME NEW w \in Workers, Progress(w)
      PROVE  Shape'
  BY <1>20 DEF Progress, SaveExecution, Saved, rows, objects, channels,
     workers, history, Shape, BusySteps, TypeOK
<1>21. ASSUME NEW w \in Workers, Execute(w)
      PROVE  Shape'
  BY <1>21 DEF Execute, WorkerGoto, SaveExecution, Saved, rows, objects,
     channels, workers, history, Shape, BusySteps, TypeOK
<1>22. ASSUME NEW w \in Workers, EndExecution(w)
      PROVE  Shape'
  BY <1>22 DEF EndExecution, WorkerGoto, SaveExecution, Saved, FinalStatus,
     rows, objects, channels, workers, history, Shape, BusySteps, TypeOK
<1>23. ASSUME NEW w \in Workers, EndObject(w)
      PROVE  Shape'
  BY <1>23 DEF EndObject, WorkerGoto, Saved, SettledStatus, rows, objects,
     channels, workers, history, Shape, BusySteps, TypeOK
<1>24. ASSUME NEW w \in Workers, EndJob(w)
      PROVE  Shape'
  BY <1>24 DEF EndJob, WorkerGoto, SettleJob, SaveJob, rows, objects,
     channels, workers, history, Shape, BusySteps, TypeOK
<1>25. ASSUME NEW w \in Workers, Forget(w)
      PROVE  Shape'
  BY <1>25 DEF Forget, WorkerGoto, Unlocked, rows, objects, channels, workers,
     history, Shape, BusySteps, TypeOK
<1>26. ASSUME NEW j \in Jobs, StopLoaded(j)
      PROVE  Shape'
  BY <1>26 DEF StopLoaded, Fault, SaveJob, rows, objects, channels, workers,
     history, Shape, BusySteps, TypeOK
<1>27. ASSUME NEW j \in Jobs, ListJob(j)
      PROVE  Shape'
  <2>1. job[j].current \in Execs \cup {None}
    BY DEF TypeOK, JobRow
  <2> QED
    BY <1>27, <2>1 DEF ListJob, Shape, rows, objects, channels, workers,
       history
<1>28. ASSUME CheckHealthy
      PROVE  Shape'
  BY <1>28 DEF CheckHealthy, NoCheck, rows, objects, channels, workers,
     history, Shape, BusySteps, TypeOK
<1>29. ASSUME MarkJob
      PROVE  Shape'
  BY <1>29 DEF MarkJob, SaveJob, rows, objects, channels, workers, history,
     Shape, BusySteps, TypeOK
<1>30. ASSUME MarkExecution
      PROVE  Shape'
  BY <1>30 DEF MarkExecution, SaveStatus, SaveExecution, rows, objects,
     channels, workers, history, Shape, BusySteps, TypeOK
<1>31. ASSUME ClearJob
      PROVE  Shape'
  BY <1>31 DEF ClearJob, SaveJob, NoCheck, Saved, rows, objects, channels,
     workers, history, Shape, BusySteps, TypeOK
<1>32. ASSUME StopWorkers
      PROVE  Shape'
  BY <1>32 DEF StopWorkers, Fault, rows, objects, channels, workers, history,
     Shape, BusySteps, TypeOK
<1>33. ASSUME Restart
      PROVE  Shape'
  BY <1>33 DEF Restart, Fault, NewObjects, NoWork, NoSave, NoStop, NoCheck,
     rows, objects, channels, workers, history, Shape, BusySteps, TypeOK
<1>34. CASE UNCHANGED vars
  BY <1>34 DEF vars, rows, objects, channels, workers, history, Shape,
     BusySteps, TypeOK
<1> QED
  BY <1>1, <1>2, <1>3, <1>4, <1>5, <1>6, <1>7, <1>8, <1>9, <1>10, <1>11,
     <1>12, <1>13, <1>14, <1>15, <1>16, <1>17, <1>18, <1>19, <1>20, <1>21,
     <1>22, <1>23, <1>24, <1>25, <1>26, <1>27, <1>28, <1>29, <1>30, <1>31,
     <1>32, <1>33, <1>34 DEF Next, SaveStep, PushStep, StopStep, DispatchStep,
     WorkStep, CheckStep

-----------------------------------------------------------------------------
(***************************************************************************)
(* The pool of workers and the places of a request                         *)
(***************************************************************************)

\* The pool holds workers.
LEMMA PoolOfWorkers == ASSUME TypeOK PROVE Range(pool) \subseteq Workers
BY DEF TypeOK, Range

\* The queue holds requests.
LEMMA QueueOfRequests == ASSUME TypeOK PROVE Range(queue) \subseteq Requests
BY DEF TypeOK, Range

\* A worker registers once, and the dispatcher keeps the one it takes.
LEMMA PoolStep ==
    ASSUME TypeOK, Shape, PoolHoldsIdle, [Next]_vars
    PROVE  PoolHoldsIdle'
<1>1. ASSUME NEW s \in Savers, Count(s)
      PROVE  PoolHoldsIdle'
  BY <1>1 DEF Count, rows, objects, channels, workers, history, PoolHoldsIdle,
     TypeOK
<1>2. ASSUME NEW s \in Savers, Tell(s)
      PROVE  PoolHoldsIdle'
  BY <1>2 DEF Tell, rows, objects, channels, workers, history, PoolHoldsIdle,
     TypeOK
<1>3. ASSUME NEW p \in Pushes, NEW j \in Jobs, Push(p, j)
      PROVE  PoolHoldsIdle'
  BY <1>3 DEF Push, rows, objects, channels, workers, history, PoolHoldsIdle,
     TypeOK
<1>4. ASSUME NEW p \in Pushes, NEW e \in Execs, Submit(p, e)
      PROVE  PoolHoldsIdle'
  BY <1>4 DEF Submit, rows, objects, channels, workers, history,
     PoolHoldsIdle, TypeOK
<1>5. ASSUME NEW p \in Pushes, Stop(p)
      PROVE  PoolHoldsIdle'
  BY <1>5 DEF Stop, rows, objects, channels, workers, history, PoolHoldsIdle,
     TypeOK
<1>6. ASSUME NEW p \in Pushes, StopCancel(p)
      PROVE  PoolHoldsIdle'
  BY <1>6 DEF StopCancel, rows, objects, channels, workers, history,
     PoolHoldsIdle, TypeOK
<1>7. ASSUME NEW p \in Pushes, StopRead(p)
      PROVE  PoolHoldsIdle'
  BY <1>7 DEF StopRead, rows, objects, channels, workers, history,
     PoolHoldsIdle, TypeOK
<1>8. ASSUME NEW p \in Pushes, StopWrite(p)
      PROVE  PoolHoldsIdle'
  BY <1>8 DEF StopWrite, rows, objects, channels, workers, history,
     PoolHoldsIdle, TypeOK
<1>9. ASSUME NEW p \in Pushes, StopEnd(p)
      PROVE  PoolHoldsIdle'
  BY <1>9 DEF StopEnd, rows, objects, channels, workers, history,
     PoolHoldsIdle, TypeOK
<1>10. ASSUME NEW q \in Requests, Send(q)
      PROVE  PoolHoldsIdle'
  BY <1>10 DEF Send, rows, objects, channels, workers, history, PoolHoldsIdle,
     TypeOK
<1>11. ASSUME TakeWork
      PROVE  PoolHoldsIdle'
  <2>1. disp'.to = None /\ None \notin Range(pool)
    BY <1>11, NoneAssumption, PoolOfWorkers DEF TakeWork, Holding, Held, NoWork
  <2> QED
    BY <1>11, <2>1 DEF TakeWork, PoolHoldsIdle, workers
<1>12. ASSUME TakeWorker
      PROVE  PoolHoldsIdle'
  <2>1. /\ Range(pool) = {Head(pool)} \cup Range(pool')
        /\ IsInjective(pool') /\ Head(pool) \notin Range(pool')
    BY <1>12, HeadLeaves DEF TakeWorker, PoolLeft, PoolHoldsIdle, TypeOK
  <2>2. disp'.to = Head(pool)
    BY <1>12 DEF TakeWorker, TypeOK
  <2> QED
    BY <1>12, <2>1, <2>2 DEF TakeWorker, PoolHoldsIdle, workers
<1>13. ASSUME GiveWork
      PROVE  PoolHoldsIdle'
  <2>1. disp'.to = None /\ None \notin Range(pool)
    BY <1>13, NoneAssumption, PoolOfWorkers DEF GiveWork, Relieved, NoWork
  <2> QED
    BY <1>13, <2>1 DEF GiveWork, PoolHoldsIdle, TypeOK
<1>14. ASSUME DispatcherQuits
      PROVE  PoolHoldsIdle'
  <2>1. disp'.to = disp.to
    BY <1>14 DEF DispatcherQuits, TypeOK
  <2> QED
    BY <1>14, <2>1 DEF DispatcherQuits, PoolHoldsIdle, workers
<1>15. ASSUME NEW w \in Workers, Register(w)
      PROVE  PoolHoldsIdle'
  <2>1. /\ Range(pool') = Range(pool) \cup {w}
        /\ IsInjective(pool) /\ w \notin Range(pool) => IsInjective(pool')
    BY <1>15, AppendHolds DEF Register, TypeOK
  <2>2. w \notin Range(pool) /\ w # disp.to
    BY <1>15, NoneAssumption DEF Register, PoolHoldsIdle
  <2> QED
    BY <1>15, <2>1, <2>2 DEF Register, WorkerGoto, PoolHoldsIdle, TypeOK
<1>16. ASSUME NEW w \in Workers, WorkerQuits(w)
      PROVE  PoolHoldsIdle'
  BY <1>16 DEF WorkerQuits, WorkerGoto, rows, objects, channels, workers,
     history, PoolHoldsIdle, TypeOK
<1>17. ASSUME NEW w \in Workers, StartExecution(w)
      PROVE  PoolHoldsIdle'
  BY <1>17 DEF StartExecution, WorkerGoto, rows, objects, channels, workers,
     history, PoolHoldsIdle, TypeOK
<1>18. ASSUME NEW w \in Workers, StartObject(w)
      PROVE  PoolHoldsIdle'
  BY <1>18 DEF StartObject, WorkerGoto, rows, objects, channels, workers,
     history, PoolHoldsIdle, TypeOK
<1>19. ASSUME NEW w \in Workers, StartJob(w)
      PROVE  PoolHoldsIdle'
  BY <1>19 DEF StartJob, WorkerGoto, rows, objects, channels, workers,
     history, PoolHoldsIdle, TypeOK
<1>20. ASSUME NEW w \in Workers, Progress(w)
      PROVE  PoolHoldsIdle'
  BY <1>20 DEF Progress, rows, objects, channels, workers, history,
     PoolHoldsIdle, TypeOK
<1>21. ASSUME NEW w \in Workers, Execute(w)
      PROVE  PoolHoldsIdle'
  BY <1>21 DEF Execute, WorkerGoto, rows, objects, channels, workers, history,
     PoolHoldsIdle, TypeOK
<1>22. ASSUME NEW w \in Workers, EndExecution(w)
      PROVE  PoolHoldsIdle'
  BY <1>22 DEF EndExecution, WorkerGoto, rows, objects, channels, workers,
     history, PoolHoldsIdle, TypeOK
<1>23. ASSUME NEW w \in Workers, EndObject(w)
      PROVE  PoolHoldsIdle'
  BY <1>23 DEF EndObject, WorkerGoto, rows, objects, channels, workers,
     history, PoolHoldsIdle, TypeOK
<1>24. ASSUME NEW w \in Workers, EndJob(w)
      PROVE  PoolHoldsIdle'
  BY <1>24 DEF EndJob, WorkerGoto, rows, objects, channels, workers, history,
     PoolHoldsIdle, TypeOK
<1>25. ASSUME NEW w \in Workers, Forget(w)
      PROVE  PoolHoldsIdle'
  BY <1>25 DEF Forget, WorkerGoto, rows, objects, channels, workers, history,
     PoolHoldsIdle, TypeOK
<1>26. ASSUME NEW j \in Jobs, StopLoaded(j)
      PROVE  PoolHoldsIdle'
  BY <1>26 DEF StopLoaded, rows, objects, channels, workers, history,
     PoolHoldsIdle, TypeOK
<1>27. ASSUME NEW j \in Jobs, ListJob(j)
      PROVE  PoolHoldsIdle'
  BY <1>27 DEF ListJob, rows, objects, channels, workers, history,
     PoolHoldsIdle, TypeOK
<1>28. ASSUME CheckHealthy
      PROVE  PoolHoldsIdle'
  BY <1>28 DEF CheckHealthy, rows, objects, channels, workers, history,
     PoolHoldsIdle, TypeOK
<1>29. ASSUME MarkJob
      PROVE  PoolHoldsIdle'
  BY <1>29 DEF MarkJob, rows, objects, channels, workers, history,
     PoolHoldsIdle, TypeOK
<1>30. ASSUME MarkExecution
      PROVE  PoolHoldsIdle'
  BY <1>30 DEF MarkExecution, rows, objects, channels, workers, history,
     PoolHoldsIdle, TypeOK
<1>31. ASSUME ClearJob
      PROVE  PoolHoldsIdle'
  BY <1>31 DEF ClearJob, rows, objects, channels, workers, history,
     PoolHoldsIdle, TypeOK
<1>32. ASSUME StopWorkers
      PROVE  PoolHoldsIdle'
  BY <1>32 DEF StopWorkers, rows, objects, channels, workers, history,
     PoolHoldsIdle, TypeOK
<1>33. ASSUME Restart
      PROVE  PoolHoldsIdle'
  <2>1. pool' = <<>> /\ disp'.to = None
    BY <1>33 DEF Restart, NoWork
  <2>2. Range(<<>>) = {} /\ IsInjective(<<>>)
    BY DEF Range, IsInjective
  <2> QED
    BY <2>1, <2>2 DEF PoolHoldsIdle
<1>34. CASE UNCHANGED vars
  BY <1>34 DEF vars, rows, objects, channels, workers, history, PoolHoldsIdle,
     TypeOK
<1> QED
  BY <1>1, <1>2, <1>3, <1>4, <1>5, <1>6, <1>7, <1>8, <1>9, <1>10, <1>11,
     <1>12, <1>13, <1>14, <1>15, <1>16, <1>17, <1>18, <1>19, <1>20, <1>21,
     <1>22, <1>23, <1>24, <1>25, <1>26, <1>27, <1>28, <1>29, <1>30, <1>31,
     <1>32, <1>33, <1>34 DEF Next, SaveStep, PushStep, StopStep, DispatchStep,
     WorkStep, CheckStep

\* Nothing is in flight or done but what was, and what was to be submitted.
Submitted == {q \in Requests : q[2] \in pushing[q[1]]}
Carried == (InFlight \cup done)' \subseteq
               InFlight \cup done \cup Submitted \cup {None}

\* A request stays where it is as long as nobody moves it.
LEMMA PlacesKept ==
    ASSUME HandledOnce, Fresh,
           UNCHANGED <<sending, queue, work, done, pushing>>,
           disp'.held = disp.held
    PROVE  HandledOnce' /\ Fresh' /\ Carried
<1>1. InFlight' = InFlight
  BY DEF InFlight
<1> QED
  BY <1>1 DEF HandledOnce, Fresh, Carried

\* A request moves from one place to the next, and ends there.
LEMMA PlacesStep ==
    ASSUME TypeOK, Shape, HandledOnce, Fresh, Belong, [Next]_vars
    PROVE  HandledOnce' /\ Fresh' /\ Carried
<1>1. ASSUME NEW s \in Savers, Count(s)
      PROVE  HandledOnce' /\ Fresh' /\ Carried
  BY <1>1, PlacesKept DEF Count, rows, objects, channels, workers, history
<1>2. ASSUME NEW s \in Savers, Tell(s)
      PROVE  HandledOnce' /\ Fresh' /\ Carried
  BY <1>2, PlacesKept DEF Tell, rows, objects, channels, workers, history
<1>3. ASSUME NEW p \in Pushes, NEW j \in Jobs, Push(p, j)
      PROVE  HandledOnce' /\ Fresh' /\ Carried
  <2>1. InFlight' = InFlight
    BY <1>3 DEF Push, channels, workers, InFlight
  <2>2. HandledOnce'
    BY <1>3, <2>1 DEF Push, HandledOnce, channels, workers
  <2>3. ASSUME NEW o \in Pushes, NEW e \in pushing'[o]
        PROVE  <<o, e>> \notin (InFlight \cup done)'
    <3>1. CASE o = p
      <4>1. pushed[p] = None /\ e \in Execs
        BY <1>3, <3>1 DEF Push, TypeOK, ExecsOf
      <4>2. <<p, e>> \in Requests
        BY <4>1 DEF Requests
      <4>3. <<p, e>> \in InFlight \cup done => JobOf[e] = None
        BY <4>1, <4>2 DEF Belong
      <4>4. JobOf[e] # None
        BY <4>1, JobOfAssumption, NoneAssumption
      <4> QED
        BY <1>3, <3>1, <2>1, <4>3, <4>4 DEF Push
    <3>2. CASE o # p
      <4>1. e \in pushing[o]
        BY <1>3, <3>2 DEF Push, TypeOK
      <4> QED
        BY <1>3, <2>1, <4>1 DEF Push, Fresh
    <3> QED
      BY <3>1, <3>2
  <2> QED
    BY <1>3, <2>1, <2>2, <2>3 DEF Push, Fresh, Carried
<1>4. ASSUME NEW p \in Pushes, NEW e \in Execs, Submit(p, e)
      PROVE  HandledOnce' /\ Fresh' /\ Carried
  <2> DEFINE q == <<p, e>>
  <2>1. q \notin InFlight \cup done
    BY <1>4 DEF Submit, Fresh
  <2>2. InFlight' \subseteq InFlight \cup {q}
    BY <1>4 DEF Submit, workers, InFlight
  <2>3. HandledOnce'
    BY <1>4, <2>1, <2>2 DEF Submit, HandledOnce, InFlight, workers, history
  <2>4. ASSUME NEW o \in Pushes, NEW f \in pushing'[o]
        PROVE  f \in pushing[o] /\ <<o, f>> # q
    BY <1>4, <2>4 DEF Submit, TypeOK
  <2>5. q \in Submitted
    BY <1>4 DEF Submit, Submitted, Requests
  <2> QED
    BY <1>4, <2>2, <2>3, <2>4, <2>5 DEF Submit, Fresh, Carried, history
<1>5. ASSUME NEW p \in Pushes, Stop(p)
      PROVE  HandledOnce' /\ Fresh' /\ Carried
  BY <1>5, PlacesKept DEF Stop, rows, objects, channels, workers, history
<1>6. ASSUME NEW p \in Pushes, StopCancel(p)
      PROVE  HandledOnce' /\ Fresh' /\ Carried
  BY <1>6, PlacesKept DEF StopCancel, rows, objects, channels, workers, history
<1>7. ASSUME NEW p \in Pushes, StopRead(p)
      PROVE  HandledOnce' /\ Fresh' /\ Carried
  BY <1>7, PlacesKept DEF StopRead, rows, objects, channels, workers, history
<1>8. ASSUME NEW p \in Pushes, StopWrite(p)
      PROVE  HandledOnce' /\ Fresh' /\ Carried
  BY <1>8, PlacesKept DEF StopWrite, rows, objects, channels, workers, history
<1>9. ASSUME NEW p \in Pushes, StopEnd(p)
      PROVE  HandledOnce' /\ Fresh' /\ Carried
  BY <1>9, PlacesKept DEF StopEnd, rows, objects, channels, workers, history
<1>10. ASSUME NEW q \in Requests, Send(q)
      PROVE  HandledOnce' /\ Fresh' /\ Carried
  <2>1. InFlight' \subseteq InFlight
    <3>1. Range(queue') \subseteq Range(queue) \cup {q}
      <4>1. Range(Append(queue, q)) = Range(queue) \cup {q}
        BY AppendHolds DEF TypeOK
      <4> QED
        BY <1>10, <4>1 DEF Send
    <3> QED
      BY <1>10, <3>1 DEF Send, InFlight, workers
  <2>2. HandledOnce'
    <3>1. CASE Room /\ queue' = Append(queue, q)
      <4>1. Range(queue') = Range(queue) \cup {q} /\ IsInjective(queue')
        BY <1>10, <3>1, AppendHolds DEF Send, TypeOK, HandledOnce
      <4> QED
        BY <1>10, <2>1, <4>1 DEF Send, HandledOnce, workers, history
    <3>2. CASE UNCHANGED queue
      BY <1>10, <2>1, <3>2 DEF Send, HandledOnce, workers, history
    <3> QED
      BY <1>10, <3>1, <3>2 DEF Send
  <2> QED
    BY <1>10, <2>1, <2>2 DEF Send, Fresh, Carried, objects, history
<1>11. ASSUME TakeWork
      PROVE  HandledOnce' /\ Fresh' /\ Carried
  <2>1. /\ Range(queue) = {Head(queue)} \cup Range(queue')
        /\ IsInjective(queue') /\ Head(queue) \notin Range(queue')
    BY <1>11, HeadLeaves DEF TakeWork, HandledOnce, TypeOK
  <2>2. disp'.held = Head(queue)
    BY <1>11 DEF TakeWork, Holding, Held, NoWork
  <2>3. InFlight' \subseteq InFlight
    BY <1>11, <2>1, <2>2 DEF TakeWork, InFlight, workers
  <2>4. HandledOnce'
    BY <1>11, <2>1, <2>2, <2>3 DEF TakeWork, HandledOnce, workers, history
  <2> QED
    BY <1>11, <2>3, <2>4 DEF TakeWork, Fresh, Carried, objects, history
<1>12. ASSUME TakeWorker
      PROVE  HandledOnce' /\ Fresh' /\ Carried
  BY <1>12, PlacesKept DEF TakeWorker, rows, objects, channels, workers,
     history, TypeOK
<1>13. ASSUME GiveWork
      PROVE  HandledOnce' /\ Fresh' /\ Carried
  <2>1. /\ disp.held \in Requests /\ disp.to \in Workers
        /\ disp'.held = None
    BY <1>13 DEF GiveWork, Shape, Relieved, NoWork
  <2>2. \A w \in Workers :
            work'[w] = IF w = disp.to THEN disp.held ELSE work[w]
    BY <1>13, <2>1 DEF GiveWork, TypeOK
  <2>3. None \notin Requests
    BY NoneAssumption DEF Requests
  <2>4. InFlight' \subseteq InFlight \cup {None}
    BY <1>13, <2>1, <2>2 DEF GiveWork, InFlight
  <2>5. None \notin sending \cup Range(queue) \cup done
    BY <2>3, QueueOfRequests DEF TypeOK
  <2>6. \A w \in Workers : disp.held # work[w]
    BY <2>1, <2>3 DEF HandledOnce
  <2>7. HandledOnce'
    BY <1>13, <2>1, <2>2, <2>3, <2>4, <2>5, <2>6
       DEF GiveWork, HandledOnce, history
  <2>8. \A p \in Pushes : \A e \in pushing[p] : <<p, e>> \in Requests
    BY DEF TypeOK, Requests
  <2> QED
    BY <1>13, <2>3, <2>4, <2>7, <2>8 DEF GiveWork, Fresh, Carried, objects,
       history
<1>14. ASSUME DispatcherQuits
      PROVE  HandledOnce' /\ Fresh' /\ Carried
  BY <1>14, PlacesKept DEF DispatcherQuits, rows, objects, channels, workers,
     history, TypeOK
<1>15. ASSUME NEW w \in Workers, Register(w)
      PROVE  HandledOnce' /\ Fresh' /\ Carried
  BY <1>15, PlacesKept DEF Register, rows, objects, channels, workers, history
<1>16. ASSUME NEW w \in Workers, WorkerQuits(w)
      PROVE  HandledOnce' /\ Fresh' /\ Carried
  BY <1>16, PlacesKept DEF WorkerQuits, rows, objects, channels, workers,
     history
<1>17. ASSUME NEW w \in Workers, StartExecution(w)
      PROVE  HandledOnce' /\ Fresh' /\ Carried
  BY <1>17, PlacesKept DEF StartExecution, rows, objects, channels, workers,
     history
<1>18. ASSUME NEW w \in Workers, StartObject(w)
      PROVE  HandledOnce' /\ Fresh' /\ Carried
  BY <1>18, PlacesKept DEF StartObject, rows, objects, channels, workers,
     history
<1>19. ASSUME NEW w \in Workers, StartJob(w)
      PROVE  HandledOnce' /\ Fresh' /\ Carried
  BY <1>19, PlacesKept DEF StartJob, rows, objects, channels, workers, history
<1>20. ASSUME NEW w \in Workers, Progress(w)
      PROVE  HandledOnce' /\ Fresh' /\ Carried
  BY <1>20, PlacesKept DEF Progress, rows, objects, channels, workers, history
<1>21. ASSUME NEW w \in Workers, Execute(w)
      PROVE  HandledOnce' /\ Fresh' /\ Carried
  BY <1>21, PlacesKept DEF Execute, rows, objects, channels, workers, history
<1>22. ASSUME NEW w \in Workers, EndExecution(w)
      PROVE  HandledOnce' /\ Fresh' /\ Carried
  BY <1>22, PlacesKept DEF EndExecution, rows, objects, channels, workers,
     history
<1>23. ASSUME NEW w \in Workers, EndObject(w)
      PROVE  HandledOnce' /\ Fresh' /\ Carried
  BY <1>23, PlacesKept DEF EndObject, rows, objects, channels, workers, history
<1>24. ASSUME NEW w \in Workers, EndJob(w)
      PROVE  HandledOnce' /\ Fresh' /\ Carried
  BY <1>24, PlacesKept DEF EndJob, rows, objects, channels, workers, history
<1>25. ASSUME NEW w \in Workers, Forget(w)
      PROVE  HandledOnce' /\ Fresh' /\ Carried
  <2>1. work[w] \in Requests /\ None \notin Requests
    BY <1>25, NoneAssumption DEF Forget, Shape, BusySteps, Requests
  <2>2. \A v \in Workers : work'[v] = IF v = w THEN None ELSE work[v]
    BY <1>25 DEF Forget, TypeOK
  <2>3. None \notin sending \cup Range(queue) \cup done
    BY <2>1, QueueOfRequests DEF TypeOK
  <2>4. InFlight' \subseteq (InFlight \ {work[w]}) \cup {None}
    BY <1>25, <2>1, <2>2 DEF Forget, InFlight, channels, HandledOnce
  <2>5. done' = done \cup {work[w]} /\ work[w] \in InFlight
    BY <1>25 DEF Forget, InFlight
  <2>6. HandledOnce'
    BY <1>25, <2>1, <2>2, <2>3, <2>4, <2>5 DEF Forget, HandledOnce, channels
  <2>7. \A p \in Pushes : \A e \in pushing[p] : <<p, e>> \in Requests
    BY DEF TypeOK, Requests
  <2> QED
    BY <1>25, <2>1, <2>4, <2>5, <2>6, <2>7 DEF Forget, Fresh, Carried
<1>26. ASSUME NEW j \in Jobs, StopLoaded(j)
      PROVE  HandledOnce' /\ Fresh' /\ Carried
  BY <1>26, PlacesKept DEF StopLoaded, rows, objects, channels, workers,
     history
<1>27. ASSUME NEW j \in Jobs, ListJob(j)
      PROVE  HandledOnce' /\ Fresh' /\ Carried
  BY <1>27, PlacesKept DEF ListJob, rows, objects, channels, workers, history
<1>28. ASSUME CheckHealthy
      PROVE  HandledOnce' /\ Fresh' /\ Carried
  BY <1>28, PlacesKept DEF CheckHealthy, rows, objects, channels, workers,
     history
<1>29. ASSUME MarkJob
      PROVE  HandledOnce' /\ Fresh' /\ Carried
  BY <1>29, PlacesKept DEF MarkJob, rows, objects, channels, workers, history
<1>30. ASSUME MarkExecution
      PROVE  HandledOnce' /\ Fresh' /\ Carried
  BY <1>30, PlacesKept DEF MarkExecution, rows, objects, channels, workers,
     history
<1>31. ASSUME ClearJob
      PROVE  HandledOnce' /\ Fresh' /\ Carried
  BY <1>31, PlacesKept DEF ClearJob, rows, objects, channels, workers, history
<1>32. ASSUME StopWorkers
      PROVE  HandledOnce' /\ Fresh' /\ Carried
  BY <1>32, PlacesKept DEF StopWorkers, rows, objects, channels, workers,
     history
<1>33. ASSUME Restart
      PROVE  HandledOnce' /\ Fresh' /\ Carried
  <2>1. /\ sending' = {} /\ queue' = <<>> /\ disp'.held = None /\ done' = {}
        /\ \A w \in Workers : work'[w] = None
        /\ \A p \in Pushes : pushing'[p] = {}
    BY <1>33 DEF Restart, NoWork
  <2>2. Range(<<>>) = {} /\ IsInjective(<<>>)
    BY DEF Range, IsInjective
  <2> QED
    BY <2>1, <2>2 DEF HandledOnce, Fresh, Carried, InFlight
<1>34. CASE UNCHANGED vars
  BY <1>34, PlacesKept DEF vars, rows, objects, channels, workers, history
<1> QED
  BY <1>1, <1>2, <1>3, <1>4, <1>5, <1>6, <1>7, <1>8, <1>9, <1>10, <1>11,
     <1>12, <1>13, <1>14, <1>15, <1>16, <1>17, <1>18, <1>19, <1>20, <1>21,
     <1>22, <1>23, <1>24, <1>25, <1>26, <1>27, <1>28, <1>29, <1>30, <1>31,
     <1>32, <1>33, <1>34 DEF Next, SaveStep, PushStep, StopStep, DispatchStep,
     WorkStep, CheckStep

-----------------------------------------------------------------------------
(***************************************************************************)
(* Requests, executions and jobs that belong together                      *)
(***************************************************************************)

\* A new step of a stop leaves the rest of it alone.
LEMMA StopStepOnly ==
    ASSUME NEW p \in Pushes, stop \in [Pushes -> StopRow],
           NEW step \in {"none", "cancel", "each", "ended"},
           stop' = [stop EXCEPT ![p].step = step]
    PROVE  \A o \in Pushes : /\ stop'[o].left = stop[o].left
                             /\ stop'[o].at = stop[o].at
                             /\ o # p => stop'[o] = stop[o]
                             /\ stop'[o].step = "write" => stop'[o] = stop[o]
<1>1. stop[p] \in StopRow
  OBVIOUS
<1>2. /\ stop'[p].left = stop[p].left /\ stop'[p].at = stop[p].at
      /\ stop'[p].step = step
  BY <1>1 DEF StopRow
<1> QED
  BY <1>2

\* As long as nothing is pushed or restarted, what is in flight or done keeps
\* its job.
LEMMA FlightBelongs ==
    ASSUME Belong, Carried, UNCHANGED pushed
    PROVE  \A q \in Requests :
               q \in (InFlight \cup done)' => pushed'[q[1]] = JobOf[q[2]]
<1> SUFFICES ASSUME NEW q \in Requests, q \in (InFlight \cup done)'
             PROVE  pushed[q[1]] = JobOf[q[2]]
  OBVIOUS
<1>1. None \notin Requests
  BY NoneAssumption DEF Requests
<1>2. CASE q \in Submitted
  <2>1. q[1] \in Pushes
    BY DEF Requests
  <2> QED
    BY <1>2, <2>1 DEF Submitted, Belong
<1>3. CASE q \in InFlight \cup done
  BY <1>3 DEF Belong
<1> QED
  BY <1>1, <1>2, <1>3 DEF Carried

\* Every action leaves requests, pushes and stops with their job.
LEMMA BelongStep ==
    ASSUME TypeOK, Shape, Belong, Carried, [Next]_vars
    PROVE  Belong'
<1>1. ASSUME NEW s \in Savers, Count(s)
      PROVE  Belong'
  BY <1>1, FlightBelongs DEF Count, rows, objects, channels, workers, history,
     Belong
<1>2. ASSUME NEW s \in Savers, Tell(s)
      PROVE  Belong'
  BY <1>2, FlightBelongs DEF Tell, rows, objects, channels, workers, history,
     Belong
<1>3. ASSUME NEW p \in Pushes, NEW j \in Jobs, Push(p, j)
      PROVE  Belong'
  <2>1. pushed[p] = None /\ InFlight' = InFlight
    BY <1>3 DEF Push, channels, workers, InFlight
  <2>2. \A e \in Execs : JobOf[e] # None
    BY JobOfAssumption, NoneAssumption
  <2>3. \A o \in Pushes : pushed'[o] = IF o = p THEN j ELSE pushed[o]
    BY <1>3 DEF Push, TypeOK
  <2>4. ASSUME NEW q \in Requests, q \in (InFlight \cup done)'
        PROVE  pushed'[q[1]] = JobOf[q[2]]
    <3>1. q[1] \in Pushes /\ q[2] \in Execs
      BY DEF Requests
    <3>2. pushed[q[1]] = JobOf[q[2]]
      BY <1>3, <2>1, <2>4 DEF Push, Belong
    <3> QED
      BY <2>1, <2>2, <2>3, <3>1, <3>2
  <2>5. ASSUME NEW o \in Pushes,
               NEW e \in (pushing[o] \cup contexts[o] \cup stop[o].left)'
        PROVE  JobOf[e] = pushed'[o]
    <3>1. CASE o = p /\ e \in pushing'[o]
      BY <1>3, <2>3, <3>1 DEF Push, ExecsOf, TypeOK
    <3>2. CASE e \in pushing[o] \cup contexts[o] \cup stop[o].left
      <4>1. JobOf[e] = pushed[o] /\ e \in Execs
        BY <3>2 DEF Belong, TypeOK
      <4> QED
        BY <2>1, <2>2, <2>3, <4>1
    <3> QED
      BY <1>3, <2>5, <3>1, <3>2 DEF Push, TypeOK
  <2>6. ASSUME NEW o \in Pushes, stop'[o].step = "write"
        PROVE  JobOf[stop'[o].at] = pushed'[o]
    <3>1. stop[o].at \in Execs /\ JobOf[stop[o].at] = pushed[o]
      BY <1>3, <2>6 DEF Push, Belong, Shape
    <3> QED
      BY <1>3, <2>1, <2>2, <2>3, <3>1 DEF Push
  <2> QED
    BY <2>4, <2>5, <2>6 DEF Belong
<1>4. ASSUME NEW p \in Pushes, NEW e \in Execs, Submit(p, e)
      PROVE  Belong'
  <2>1. \A o \in Pushes : /\ pushing'[o] \subseteq pushing[o]
                          /\ contexts'[o] \subseteq contexts[o] \cup pushing[o]
    BY <1>4 DEF Submit, TypeOK
  <2> QED
    BY <1>4, <2>1, FlightBelongs DEF Submit, Belong
<1>5. ASSUME NEW p \in Pushes, Stop(p)
      PROVE  Belong'
  <2>1. \A o \in Pushes : /\ stop'[o].left = stop[o].left
                          /\ stop'[o].step = "write" => stop'[o] = stop[o]
    BY <1>5, StopStepOnly DEF Stop, TypeOK, StopRow
  <2> QED
    BY <1>5, <2>1, FlightBelongs DEF Stop, Belong
<1>6. ASSUME NEW p \in Pushes, StopCancel(p)
      PROVE  Belong'
  <2>1. \A o \in Pushes : /\ stop'[o].left \subseteq stop[o].left \cup contexts[o]
                          /\ stop'[o].step = "write" => stop'[o] = stop[o]
    BY <1>6 DEF StopCancel, TypeOK
  <2> QED
    BY <1>6, <2>1, FlightBelongs DEF StopCancel, Belong
<1>7. ASSUME NEW p \in Pushes, StopRead(p)
      PROVE  Belong'
  <2>1. \A o \in Pushes :
            /\ stop'[o].left \subseteq stop[o].left
            /\ stop'[o].step = "write" =>
                   stop'[o] = stop[o] \/ stop'[o].at \in stop[o].left
    BY <1>7 DEF StopRead, TypeOK
  <2> QED
    BY <1>7, <2>1, FlightBelongs DEF StopRead, Belong, objects
<1>8. ASSUME NEW p \in Pushes, StopWrite(p)
      PROVE  Belong'
  <2>1. \A o \in Pushes : /\ stop'[o].left = stop[o].left
                          /\ stop'[o].step = "write" => stop'[o] = stop[o]
    BY <1>8, StopStepOnly DEF StopWrite, TypeOK, StopRow
  <2> QED
    BY <1>8, <2>1, FlightBelongs DEF StopWrite, Belong, objects
<1>9. ASSUME NEW p \in Pushes, StopEnd(p)
      PROVE  Belong'
  <2>0. [NoStop EXCEPT !.step = "ended"] =
            [step |-> "ended", left |-> {}, at |-> None]
    BY DEF NoStop
  <2>1. \A o \in Pushes : /\ stop'[o].left \subseteq stop[o].left
                          /\ stop'[o].step = "write" => stop'[o] = stop[o]
    <3>1. stop' = [stop EXCEPT ![p] =
                       [step |-> "ended", left |-> {}, at |-> None]]
      BY <1>9, <2>0 DEF StopEnd
    <3> QED
      BY <3>1 DEF TypeOK
  <2>2. \A o \in Pushes : contexts'[o] \subseteq contexts[o]
    <3>1. contexts' = [contexts EXCEPT ![p] = {}]
      BY <1>9 DEF StopEnd
    <3> QED
      BY <3>1 DEF TypeOK
  <2>3. UNCHANGED <<pushed, pushing>>
    BY <1>9 DEF StopEnd
  <2>4. \A q \in Requests :
            q \in (InFlight \cup done)' => pushed'[q[1]] = JobOf[q[2]]
    BY <2>3, FlightBelongs
  <2>5. \A o \in Pushes :
            \A e \in (pushing[o] \cup contexts[o] \cup stop[o].left)' :
                JobOf[e] = pushed'[o]
    BY <2>1, <2>2, <2>3 DEF Belong
  <2>6. \A o \in Pushes :
            stop'[o].step = "write" => JobOf[stop'[o].at] = pushed'[o]
    BY <2>1, <2>3 DEF Belong
  <2> QED
    BY <2>4, <2>5, <2>6 DEF Belong
<1>10. ASSUME NEW q \in Requests, Send(q)
      PROVE  Belong'
  BY <1>10, FlightBelongs DEF Send, rows, objects, channels, workers, history,
     Belong
<1>11. ASSUME TakeWork
      PROVE  Belong'
  BY <1>11, FlightBelongs DEF TakeWork, rows, objects, channels, workers,
     history, Belong
<1>12. ASSUME TakeWorker
      PROVE  Belong'
  BY <1>12, FlightBelongs DEF TakeWorker, rows, objects, channels, workers,
     history, Belong
<1>13. ASSUME GiveWork
      PROVE  Belong'
  BY <1>13, FlightBelongs DEF GiveWork, rows, objects, channels, workers,
     history, Belong
<1>14. ASSUME DispatcherQuits
      PROVE  Belong'
  BY <1>14, FlightBelongs DEF DispatcherQuits, rows, objects, channels,
     workers, history, Belong
<1>15. ASSUME NEW w \in Workers, Register(w)
      PROVE  Belong'
  BY <1>15, FlightBelongs DEF Register, rows, objects, channels, workers,
     history, Belong
<1>16. ASSUME NEW w \in Workers, WorkerQuits(w)
      PROVE  Belong'
  BY <1>16, FlightBelongs DEF WorkerQuits, rows, objects, channels, workers,
     history, Belong
<1>17. ASSUME NEW w \in Workers, StartExecution(w)
      PROVE  Belong'
  BY <1>17, FlightBelongs DEF StartExecution, rows, objects, channels, workers,
     history, Belong
<1>18. ASSUME NEW w \in Workers, StartObject(w)
      PROVE  Belong'
  BY <1>18, FlightBelongs DEF StartObject, rows, objects, channels, workers,
     history, Belong
<1>19. ASSUME NEW w \in Workers, StartJob(w)
      PROVE  Belong'
  BY <1>19, FlightBelongs DEF StartJob, rows, objects, channels, workers,
     history, Belong
<1>20. ASSUME NEW w \in Workers, Progress(w)
      PROVE  Belong'
  BY <1>20, FlightBelongs DEF Progress, rows, objects, channels, workers,
     history, Belong
<1>21. ASSUME NEW w \in Workers, Execute(w)
      PROVE  Belong'
  BY <1>21, FlightBelongs DEF Execute, rows, objects, channels, workers,
     history, Belong
<1>22. ASSUME NEW w \in Workers, EndExecution(w)
      PROVE  Belong'
  BY <1>22, FlightBelongs DEF EndExecution, rows, objects, channels, workers,
     history, Belong
<1>23. ASSUME NEW w \in Workers, EndObject(w)
      PROVE  Belong'
  BY <1>23, FlightBelongs DEF EndObject, rows, objects, channels, workers,
     history, Belong
<1>24. ASSUME NEW w \in Workers, EndJob(w)
      PROVE  Belong'
  BY <1>24, FlightBelongs DEF EndJob, rows, objects, channels, workers,
     history, Belong
<1>25. ASSUME NEW w \in Workers, Forget(w)
      PROVE  Belong'
  <2>1. \A o \in Pushes : contexts'[o] \subseteq contexts[o]
    BY <1>25 DEF Forget, TypeOK
  <2> QED
    BY <1>25, <2>1, FlightBelongs DEF Forget, Belong
<1>26. ASSUME NEW j \in Jobs, StopLoaded(j)
      PROVE  Belong'
  BY <1>26, FlightBelongs DEF StopLoaded, rows, objects, channels, workers,
     history, Belong
<1>27. ASSUME NEW j \in Jobs, ListJob(j)
      PROVE  Belong'
  BY <1>27, FlightBelongs DEF ListJob, rows, objects, channels, workers,
     history, Belong
<1>28. ASSUME CheckHealthy
      PROVE  Belong'
  BY <1>28, FlightBelongs DEF CheckHealthy, rows, objects, channels, workers,
     history, Belong
<1>29. ASSUME MarkJob
      PROVE  Belong'
  BY <1>29, FlightBelongs DEF MarkJob, rows, objects, channels, workers,
     history, Belong
<1>30. ASSUME MarkExecution
      PROVE  Belong'
  BY <1>30, FlightBelongs DEF MarkExecution, rows, objects, channels, workers,
     history, Belong
<1>31. ASSUME ClearJob
      PROVE  Belong'
  BY <1>31, FlightBelongs DEF ClearJob, rows, objects, channels, workers,
     history, Belong
<1>32. ASSUME StopWorkers
      PROVE  Belong'
  BY <1>32, FlightBelongs DEF StopWorkers, rows, objects, channels, workers,
     history, Belong
<1>33. ASSUME Restart
      PROVE  Belong'
  <2>1. /\ InFlight' = {None} /\ done' = {}
    BY <1>33 DEF Restart, NoWork, InFlight, Range
  <2>2. \A o \in Pushes : /\ pushing'[o] = {} /\ contexts'[o] = {}
                          /\ stop'[o].left = {} /\ stop'[o].step = "none"
    BY <1>33 DEF Restart, NoStop
  <2>3. None \notin Requests
    BY NoneAssumption DEF Requests
  <2> QED
    BY <2>1, <2>2, <2>3 DEF Belong
<1>34. CASE UNCHANGED vars
  BY <1>34, FlightBelongs DEF vars, rows, objects, channels, workers, history,
     Belong
<1> QED
  BY <1>1, <1>2, <1>3, <1>4, <1>5, <1>6, <1>7, <1>8, <1>9, <1>10, <1>11,
     <1>12, <1>13, <1>14, <1>15, <1>16, <1>17, <1>18, <1>19, <1>20, <1>21,
     <1>22, <1>23, <1>24, <1>25, <1>26, <1>27, <1>28, <1>29, <1>30, <1>31,
     <1>32, <1>33, <1>34 DEF Next, SaveStep, PushStep, StopStep, DispatchStep,
     WorkStep, CheckStep

\* Saving an object changes the current execution of its job at most, to its
\* own.
LEMMA SaveJobCurrent ==
    ASSUME job \in [Jobs -> JobRow], NEW j, NEW object, SaveJob(j, object)
    PROVE  \A k \in Jobs :
               /\ k # j => job'[k] = job[k]
               /\ k = j => job'[k].status = object.status
               /\ \/ job'[k].current = job[k].current
                  \/ /\ k = j /\ object.current # None
                     /\ job'[k].current = object.current
BY DEF SaveJob

\* What a worker works on belongs to the job of its push.
LEMMA WorkBelongs ==
    ASSUME TypeOK, Shape, Belong, NEW w \in Workers, wpc[w] \in BusySteps
    PROVE  /\ work[w] \in Requests
           /\ PushOf(w) \in Pushes /\ ExecOf(w) \in Execs
           /\ pushed[PushOf(w)] = JobOf[ExecOf(w)]
<1>1. work[w] \in Requests /\ work[w] \in InFlight
  BY DEF Shape, InFlight
<1> QED
  BY <1>1 DEF Requests, PushOf, ExecOf, Belong

\* Every action leaves the current executions with their job.
LEMMA CurrentsStep ==
    ASSUME TypeOK, Shape, Belong, Currents, [Next]_vars
    PROVE  Currents'
<1>1. ASSUME NEW s \in Savers, Count(s)
      PROVE  Currents'
  BY <1>1 DEF Count, rows, objects, channels, workers, history, Currents
<1>2. ASSUME NEW s \in Savers, Tell(s)
      PROVE  Currents'
  <2>1. \A j \in Jobs : job'[j].current = job[j].current
    <3>1. \A j \in Jobs :
              job'[j] \in {job[j], [job[j] EXCEPT !.status = save[s].status]}
      BY <1>2 DEF Tell, TypeOK
    <3>2. \A j \in Jobs :
              [job[j] EXCEPT !.status = save[s].status].current = job[j].current
      BY DEF TypeOK, JobRow
    <3> QED
      BY <3>1, <3>2
  <2> QED
    BY <1>2, <2>1 DEF Tell, Currents, objects
<1>3. ASSUME NEW p \in Pushes, NEW j \in Jobs, Push(p, j)
      PROVE  Currents'
  <2>1. pushed[p] = None /\ UNCHANGED check
    BY <1>3 DEF Push
  <2>2. \A e \in Execs : JobOf[e] # None
    BY JobOfAssumption, NoneAssumption
  <2>3. \A o \in Pushes :
            /\ pushed'[o] = IF o = p THEN j ELSE pushed[o]
            /\ obj'[o].current = IF o = p THEN job[j].current ELSE obj[o].current
    BY <1>3 DEF Push, TypeOK
  <2>4. \A k \in Jobs : job'[k].current = job[k].current
    BY <1>3, <2>3, SaveJobCurrent DEF Push, TypeOK
  <2>5. \A o \in Pushes : obj[o].current \in Execs \cup {None}
    BY DEF TypeOK, JobRow
  <2> QED
    BY <2>1, <2>2, <2>3, <2>4, <2>5 DEF Currents
<1>4. ASSUME NEW p \in Pushes, NEW e \in Execs, Submit(p, e)
      PROVE  Currents'
  BY <1>4 DEF Submit, rows, objects, channels, workers, history, Currents
<1>5. ASSUME NEW p \in Pushes, Stop(p)
      PROVE  Currents'
  <2>1. obj[p] \in JobRow
    BY DEF TypeOK
  <2>2. [obj[p] EXCEPT !.status = "disabled"].current = obj[p].current
    BY <2>1 DEF JobRow
  <2>3. \A o \in Pushes : obj'[o].current = obj[o].current
    BY <1>5, <2>2 DEF Stop, TypeOK
  <2>4. SaveJob(pushed[p], obj'[p]) /\ job \in [Jobs -> JobRow]
    BY <1>5 DEF Stop, TypeOK
  <2>5. \A k \in Jobs :
            \/ job'[k].current = job[k].current
            \/ k = pushed[p] /\ job'[k].current = obj'[p].current
    BY <2>4, SaveJobCurrent
  <2>6. UNCHANGED <<pushed, check>>
    BY <1>5 DEF Stop
  <2> QED
    BY <2>3, <2>5, <2>6 DEF Currents
<1>6. ASSUME NEW p \in Pushes, StopCancel(p)
      PROVE  Currents'
  BY <1>6 DEF StopCancel, rows, objects, channels, workers, history, Currents
<1>7. ASSUME NEW p \in Pushes, StopRead(p)
      PROVE  Currents'
  BY <1>7 DEF StopRead, rows, objects, channels, workers, history, Currents
<1>8. ASSUME NEW p \in Pushes, StopWrite(p)
      PROVE  Currents'
  BY <1>8 DEF StopWrite, rows, objects, channels, workers, history, Currents
<1>9. ASSUME NEW p \in Pushes, StopEnd(p)
      PROVE  Currents'
  BY <1>9 DEF StopEnd, rows, objects, channels, workers, history, Currents
<1>10. ASSUME NEW q \in Requests, Send(q)
      PROVE  Currents'
  BY <1>10 DEF Send, rows, objects, channels, workers, history, Currents
<1>11. ASSUME TakeWork
      PROVE  Currents'
  BY <1>11 DEF TakeWork, rows, objects, channels, workers, history, Currents
<1>12. ASSUME TakeWorker
      PROVE  Currents'
  BY <1>12 DEF TakeWorker, rows, objects, channels, workers, history, Currents
<1>13. ASSUME GiveWork
      PROVE  Currents'
  BY <1>13 DEF GiveWork, rows, objects, channels, workers, history, Currents
<1>14. ASSUME DispatcherQuits
      PROVE  Currents'
  BY <1>14 DEF DispatcherQuits, rows, objects, channels, workers, history,
     Currents
<1>15. ASSUME NEW w \in Workers, Register(w)
      PROVE  Currents'
  BY <1>15 DEF Register, rows, objects, channels, workers, history, Currents
<1>16. ASSUME NEW w \in Workers, WorkerQuits(w)
      PROVE  Currents'
  BY <1>16 DEF WorkerQuits, rows, objects, channels, workers, history,
     Currents
<1>17. ASSUME NEW w \in Workers, StartExecution(w)
      PROVE  Currents'
  BY <1>17 DEF StartExecution, rows, objects, channels, workers, history,
     Currents
<1>18. ASSUME NEW w \in Workers, StartObject(w)
      PROVE  Currents'
  <2>1. /\ PushOf(w) \in Pushes /\ ExecOf(w) \in Execs
        /\ pushed[PushOf(w)] = JobOn(w)
    BY <1>18, WorkBelongs DEF StartObject, BusySteps, JobOn
  <2>2. \A o \in Pushes :
            obj'[o].current = IF o = PushOf(w) THEN ExecOf(w) ELSE obj[o].current
    BY <1>18, <2>1 DEF StartObject, TypeOK
  <2> QED
    BY <1>18, <2>1, <2>2 DEF StartObject, Currents, rows, JobOn
<1>19. ASSUME NEW w \in Workers, StartJob(w)
      PROVE  Currents'
  <2>1. /\ PushOf(w) \in Pushes /\ ExecOf(w) \in Execs
        /\ pushed[PushOf(w)] = JobOn(w)
    BY <1>19, WorkBelongs DEF StartJob, BusySteps, JobOn
  <2>2. \A k \in Jobs :
            \/ job'[k].current = job[k].current
            \/ k = JobOn(w) /\ job'[k].current = obj[PushOf(w)].current
    BY <1>19, SaveJobCurrent DEF StartJob, TypeOK, JobOn
  <2> QED
    BY <1>19, <2>1, <2>2 DEF StartJob, Currents, objects
<1>20. ASSUME NEW w \in Workers, Progress(w)
      PROVE  Currents'
  BY <1>20 DEF Progress, rows, objects, channels, workers, history, Currents
<1>21. ASSUME NEW w \in Workers, Execute(w)
      PROVE  Currents'
  BY <1>21 DEF Execute, rows, objects, channels, workers, history, Currents
<1>22. ASSUME NEW w \in Workers, EndExecution(w)
      PROVE  Currents'
  BY <1>22 DEF EndExecution, rows, objects, channels, workers, history,
     Currents
<1>23. ASSUME NEW w \in Workers, EndObject(w)
      PROVE  Currents'
  <2>1. \A o \in Pushes : obj'[o].current \in {None, obj[o].current}
    BY <1>23 DEF EndObject, TypeOK
  <2> QED
    BY <1>23, <2>1 DEF EndObject, Currents, rows
<1>24. ASSUME NEW w \in Workers, EndJob(w)
      PROVE  Currents'
  <2>1. /\ PushOf(w) \in Pushes /\ ExecOf(w) \in Execs
        /\ pushed[PushOf(w)] = JobOn(w)
    BY <1>24, WorkBelongs DEF EndJob, BusySteps, JobOn
  <2>2. \A k \in Jobs :
            \/ job'[k].current = job[k].current
            \/ k = JobOn(w) /\ job'[k].current = obj[PushOf(w)].current
    BY <1>24, SaveJobCurrent DEF EndJob, SettleJob, TypeOK, JobOn
  <2> QED
    BY <1>24, <2>1, <2>2 DEF EndJob, Currents, objects
<1>25. ASSUME NEW w \in Workers, Forget(w)
      PROVE  Currents'
  BY <1>25 DEF Forget, rows, objects, channels, workers, history, Currents
<1>26. ASSUME NEW j \in Jobs, StopLoaded(j)
      PROVE  Currents'
  <2>1. \A k \in Jobs : job'[k].current = job[k].current
    BY <1>26, SaveJobCurrent DEF StopLoaded, TypeOK
  <2> QED
    BY <1>26, <2>1 DEF StopLoaded, Currents, objects
<1>27. ASSUME NEW j \in Jobs, ListJob(j)
      PROVE  Currents'
  BY <1>27 DEF ListJob, rows, objects, channels, workers, history, Currents
<1>28. ASSUME CheckHealthy
      PROVE  Currents'
  BY <1>28 DEF CheckHealthy, NoCheck, rows, objects, channels, workers,
     history, Currents
<1>29. ASSUME MarkJob
      PROVE  Currents'
  <2>1. \A k \in Jobs :
            \/ job'[k].current = job[k].current
            \/ k = check.of /\ job'[k].current = check.current
    BY <1>29, SaveJobCurrent DEF MarkJob, TypeOK
  <2>2. /\ check.step = "check"
        /\ check'.of = check.of /\ check'.current = check.current
    BY <1>29 DEF MarkJob, TypeOK
  <2> QED
    BY <1>29, <2>1, <2>2 DEF MarkJob, Currents, objects
<1>30. ASSUME MarkExecution
      PROVE  Currents'
  <2>1. /\ check.step = "mark"
        /\ check'.of = check.of /\ check'.current = check.current
    BY <1>30 DEF MarkExecution, TypeOK
  <2> QED
    BY <1>30, <2>1 DEF MarkExecution, Currents, objects
<1>31. ASSUME ClearJob
      PROVE  Currents'
  <2>1. /\ SaveJob(check.of, [status |-> "failed", current |-> None])
        /\ job \in [Jobs -> JobRow]
    BY <1>31 DEF ClearJob, TypeOK
  <2>2. \A k \in Jobs : job'[k].current = job[k].current
    BY <2>1, SaveJobCurrent
  <2>3. check'.step = "none" /\ UNCHANGED <<obj, pushed>>
    BY <1>31 DEF ClearJob, objects, NoCheck
  <2> QED
    BY <2>2, <2>3 DEF Currents
<1>32. ASSUME StopWorkers
      PROVE  Currents'
  BY <1>32 DEF StopWorkers, rows, objects, channels, workers, history,
     Currents
<1>33. ASSUME Restart
      PROVE  Currents'
  <2>1. \A o \in Pushes : obj'[o].current = None
    BY <1>33 DEF Restart, NewObjects
  <2> QED
    BY <1>33, <2>1 DEF Restart, Currents, NoCheck
<1>34. CASE UNCHANGED vars
  BY <1>34 DEF vars, rows, objects, channels, workers, history, Currents
<1> QED
  BY <1>1, <1>2, <1>3, <1>4, <1>5, <1>6, <1>7, <1>8, <1>9, <1>10, <1>11,
     <1>12, <1>13, <1>14, <1>15, <1>16, <1>17, <1>18, <1>19, <1>20, <1>21,
     <1>22, <1>23, <1>24, <1>25, <1>26, <1>27, <1>28, <1>29, <1>30, <1>31,
     <1>32, <1>33, <1>34 DEF Next, SaveStep, PushStep, StopStep, DispatchStep,
     WorkStep, CheckStep

-----------------------------------------------------------------------------
(***************************************************************************)
(* Who writes the rows of a job                                            *)
(***************************************************************************)

\* A save begins for the job of the execution that is saved.
LEMMA SaveBegins ==
    ASSUME TypeOK, NEW s \in Savers, NEW e, NEW row, SaveExecution(s, e, row)
    PROVE  \A t \in Savers :
               /\ t # s => save'[t] = save[t]
               /\ t = s => save'[t].step = "count" /\ save'[t].of = JobOf[e]
BY DEF SaveExecution, TypeOK

\* It stays with its job until it ends.
LEMMA SaveGoesOn ==
    ASSUME TypeOK, NEW s \in Savers, SaveStep(s)
    PROVE  /\ save[s].step # "none"
           /\ \A t \in Savers : save'[t].step # "none" =>
                  save[t].step # "none" /\ save'[t].of = save[t].of
<1>1. CASE Count(s)
  BY <1>1 DEF Count, TypeOK
<1>2. CASE Tell(s)
  <2>1. save' = [save EXCEPT ![s] = NoSave] /\ save[s].step = "tell"
    BY <1>2 DEF Tell
  <2>2. NoSave.step = "none"
    BY DEF NoSave
  <2>3. \A t \in Savers : t # s => save'[t] = save[t]
    BY <2>1 DEF TypeOK
  <2>4. save'[s].step = "none"
    BY <2>1, <2>2 DEF TypeOK
  <2> QED
    BY <2>1, <2>3, <2>4
<1> QED
  BY <1>1, <1>2 DEF SaveStep

\* Every action but those of the workers is preceded by what disturbs the job
\* it writes.
LEMMA DisturbingStep ==
    ASSUME TypeOK, Shape, Belong, Currents, Disturbing, [Next]_vars
    PROVE  Disturbing'
<1>1. ASSUME NEW s \in Savers, Count(s)
      PROVE  Disturbing'
  <2>1. SaveStep(s)
    BY <1>1 DEF SaveStep
  <2>2. \A t \in Savers : save'[t].step # "none" =>
            save[t].step # "none" /\ save'[t].of = save[t].of
    BY <2>1, SaveGoesOn
  <2>3. UNCHANGED <<stop, check, pushed, disturbed>>
    BY <1>1 DEF Count, Tell, objects, history
  <2> QED
    BY <2>2, <2>3 DEF Disturbing
<1>2. ASSUME NEW s \in Savers, Tell(s)
      PROVE  Disturbing'
  <2>1. SaveStep(s)
    BY <1>2 DEF SaveStep
  <2>2. \A t \in Savers : save'[t].step # "none" =>
            save[t].step # "none" /\ save'[t].of = save[t].of
    BY <2>1, SaveGoesOn
  <2>3. UNCHANGED <<stop, check, pushed, disturbed>>
    BY <1>2 DEF Count, Tell, objects, history
  <2> QED
    BY <2>2, <2>3 DEF Disturbing
<1>3. ASSUME NEW p \in Pushes, NEW j \in Jobs, Push(p, j)
      PROVE  Disturbing'
  <2>1. /\ pushed[p] = None /\ UNCHANGED <<stop, check, save>>
        /\ disturbed \subseteq disturbed' /\ disturbed \subseteq Jobs
        /\ (\E o \in Pushes : pushed[o] = j) => j \in disturbed'
    BY <1>3 DEF Push, TypeOK
  <2>2. None \notin Jobs
    BY NoneAssumption
  <2>3. \A o \in Pushes : pushed'[o] = IF o = p THEN j ELSE pushed[o]
    BY <1>3 DEF Push, TypeOK
  <2>4. stop[p].step = "none"
    BY <2>1, <2>2 DEF Disturbing
  <2>5. \A o \in Pushes : stop'[o].step # "none" => pushed'[o] \in disturbed'
    BY <2>1, <2>3, <2>4 DEF Disturbing
  <2>6. ASSUME NEW o \in Pushes, NEW n \in Pushes,
               o # n, pushed'[o] = pushed'[n], pushed'[o] # None
        PROVE  pushed'[o] \in disturbed'
    <3>1. CASE o # p /\ n # p
      BY <2>1, <2>3, <2>6, <3>1 DEF Disturbing
    <3>2. CASE o = p \/ n = p
      BY <2>1, <2>3, <2>6, <3>2
    <3> QED
      BY <3>1, <3>2
  <2> QED
    BY <2>1, <2>5, <2>6 DEF Disturbing
<1>4. ASSUME NEW p \in Pushes, NEW e \in Execs, Submit(p, e)
      PROVE  Disturbing'
  BY <1>4 DEF Submit, rows, objects, channels, workers, history, Disturbing
<1>5. ASSUME NEW p \in Pushes, Stop(p)
      PROVE  Disturbing'
  <2>1. /\ disturbed' = disturbed \cup {pushed[p]}
        /\ UNCHANGED <<pushed, check, save>>
    BY <1>5 DEF Stop
  <2>2. \A o \in Pushes : o # p => stop'[o] = stop[o]
    BY <1>5 DEF Stop, TypeOK
  <2> QED
    BY <2>1, <2>2 DEF Disturbing
<1>6. ASSUME NEW p \in Pushes, StopCancel(p)
      PROVE  Disturbing'
  <2>1. stop[p].step # "none" /\ \A o \in Pushes : o # p => stop'[o] = stop[o]
    BY <1>6 DEF StopCancel, TypeOK
  <2>2. UNCHANGED <<pushed, check, save, disturbed>>
    BY <1>6 DEF StopCancel, objects, history
  <2> QED
    BY <2>1, <2>2 DEF Disturbing
<1>7. ASSUME NEW p \in Pushes, StopRead(p)
      PROVE  Disturbing'
  <2>1. stop[p].step # "none" /\ \A o \in Pushes : o # p => stop'[o] = stop[o]
    BY <1>7 DEF StopRead, TypeOK
  <2>2. UNCHANGED <<pushed, check, save, disturbed>>
    BY <1>7 DEF StopRead, objects, history
  <2> QED
    BY <2>1, <2>2 DEF Disturbing
<1>8. ASSUME NEW p \in Pushes, StopWrite(p)
      PROVE  Disturbing'
  <2>1. /\ stop[p].step = "write" /\ UNCHANGED <<pushed, check, disturbed>>
        /\ \A o \in Pushes : o # p => stop'[o] = stop[o]
    BY <1>8 DEF StopWrite, TypeOK, objects, history
  <2>2. pushed[p] \in disturbed /\ JobOf[stop[p].at] = pushed[p]
    BY <2>1 DEF Disturbing, Belong
  <2>3. p \in Savers
    BY DEF Savers
  <2>4. \A t \in Savers : save'[t] = save[t] \/ save'[t].of = pushed[p]
    BY <1>8, <2>2, <2>3, SaveBegins DEF StopWrite, SaveStatus
  <2> QED
    BY <2>1, <2>2, <2>4 DEF Disturbing
<1>9. ASSUME NEW p \in Pushes, StopEnd(p)
      PROVE  Disturbing'
  <2>1. stop[p].step # "none" /\ \A o \in Pushes : o # p => stop'[o] = stop[o]
    BY <1>9 DEF StopEnd, TypeOK
  <2>2. UNCHANGED <<pushed, check, save, disturbed>>
    BY <1>9 DEF StopEnd, objects, history
  <2> QED
    BY <2>1, <2>2 DEF Disturbing
<1>10. ASSUME NEW q \in Requests, Send(q)
      PROVE  Disturbing'
  BY <1>10 DEF Send, rows, objects, channels, workers, history, Disturbing
<1>11. ASSUME TakeWork
      PROVE  Disturbing'
  BY <1>11 DEF TakeWork, rows, objects, channels, workers, history, Disturbing
<1>12. ASSUME TakeWorker
      PROVE  Disturbing'
  BY <1>12 DEF TakeWorker, rows, objects, channels, workers, history,
     Disturbing
<1>13. ASSUME GiveWork
      PROVE  Disturbing'
  BY <1>13 DEF GiveWork, rows, objects, channels, workers, history, Disturbing
<1>14. ASSUME DispatcherQuits
      PROVE  Disturbing'
  BY <1>14 DEF DispatcherQuits, rows, objects, channels, workers, history,
     Disturbing
<1>15. ASSUME NEW w \in Workers, Register(w)
      PROVE  Disturbing'
  BY <1>15 DEF Register, rows, objects, channels, workers, history, Disturbing
<1>16. ASSUME NEW w \in Workers, WorkerQuits(w)
      PROVE  Disturbing'
  BY <1>16 DEF WorkerQuits, rows, objects, channels, workers, history,
     Disturbing
<1>17. ASSUME NEW w \in Workers, StartExecution(w)
      PROVE  Disturbing'
  <2>1. \A s \in Savers \ Workers : save'[s] = save[s]
    BY <1>17, SaveBegins DEF StartExecution, Savers
  <2>2. UNCHANGED <<stop, check, pushed, disturbed>>
    BY <1>17 DEF StartExecution, objects, history
  <2> QED
    BY <2>1, <2>2 DEF Disturbing
<1>18. ASSUME NEW w \in Workers, StartObject(w)
      PROVE  Disturbing'
  BY <1>18 DEF StartObject, rows, objects, channels, workers, history,
     Disturbing
<1>19. ASSUME NEW w \in Workers, StartJob(w)
      PROVE  Disturbing'
  BY <1>19 DEF StartJob, rows, objects, channels, workers, history, Disturbing
<1>20. ASSUME NEW w \in Workers, Progress(w)
      PROVE  Disturbing'
  <2>1. \A s \in Savers \ Workers : save'[s] = save[s]
    BY <1>20, SaveBegins DEF Progress, Savers
  <2>2. UNCHANGED <<stop, check, pushed, disturbed>>
    BY <1>20 DEF Progress, objects, history
  <2> QED
    BY <2>1, <2>2 DEF Disturbing
<1>21. ASSUME NEW w \in Workers, Execute(w)
      PROVE  Disturbing'
  <2>1. \A s \in Savers \ Workers : save'[s] = save[s]
    <3>1. \/ \E r : SaveExecution(w, ExecOf(w), [status |-> r, worker |-> w])
          \/ UNCHANGED save
      BY <1>21 DEF Execute
    <3> QED
      BY <3>1, SaveBegins DEF Savers
  <2>2. UNCHANGED <<stop, check, pushed, disturbed>>
    BY <1>21 DEF Execute, objects, history
  <2> QED
    BY <2>1, <2>2 DEF Disturbing
<1>22. ASSUME NEW w \in Workers, EndExecution(w)
      PROVE  Disturbing'
  <2>1. \A s \in Savers \ Workers : save'[s] = save[s]
    BY <1>22, SaveBegins DEF EndExecution, Savers
  <2>2. UNCHANGED <<stop, check, pushed, disturbed>>
    BY <1>22 DEF EndExecution, objects, history
  <2> QED
    BY <2>1, <2>2 DEF Disturbing
<1>23. ASSUME NEW w \in Workers, EndObject(w)
      PROVE  Disturbing'
  BY <1>23 DEF EndObject, rows, objects, channels, workers, history,
     Disturbing
<1>24. ASSUME NEW w \in Workers, EndJob(w)
      PROVE  Disturbing'
  BY <1>24 DEF EndJob, rows, objects, channels, workers, history, Disturbing
<1>25. ASSUME NEW w \in Workers, Forget(w)
      PROVE  Disturbing'
  BY <1>25 DEF Forget, rows, objects, channels, workers, history, Disturbing
<1>26. ASSUME NEW j \in Jobs, StopLoaded(j)
      PROVE  Disturbing'
  BY <1>26 DEF StopLoaded, rows, objects, channels, workers, history,
     Disturbing
<1>27. ASSUME NEW j \in Jobs, ListJob(j)
      PROVE  Disturbing'
  BY <1>27 DEF ListJob, rows, objects, channels, workers, history, Disturbing
<1>28. ASSUME CheckHealthy
      PROVE  Disturbing'
  BY <1>28 DEF CheckHealthy, NoCheck, rows, objects, channels, workers,
     history, Disturbing
<1>29. ASSUME MarkJob
      PROVE  Disturbing'
  <2>1. /\ disturbed' = disturbed \cup {check.of} /\ UNCHANGED <<stop, save>>
        /\ UNCHANGED pushed
    BY <1>29 DEF MarkJob, objects
  <2>2. check'.of = check.of
    BY <1>29 DEF MarkJob, TypeOK
  <2> QED
    BY <2>1, <2>2 DEF Disturbing
<1>30. ASSUME MarkExecution
      PROVE  Disturbing'
  <2>1. /\ check.step = "mark" /\ check.current \in Execs
        /\ check'.of = check.of /\ UNCHANGED <<stop, pushed, disturbed>>
    BY <1>30 DEF MarkExecution, Shape, TypeOK, objects, history
  <2>2. check.of \in disturbed /\ JobOf[check.current] = check.of
    BY <2>1, NoneAssumption DEF Disturbing, Currents
  <2>3. Checker \in Savers
    BY DEF Savers
  <2>4. \A t \in Savers : save'[t] = save[t] \/ save'[t].of = check.of
    BY <1>30, <2>2, <2>3, SaveBegins DEF MarkExecution, SaveStatus
  <2> QED
    BY <2>1, <2>2, <2>4 DEF Disturbing
<1>31. ASSUME ClearJob
      PROVE  Disturbing'
  BY <1>31 DEF ClearJob, NoCheck, rows, objects, channels, workers, history,
     Disturbing
<1>32. ASSUME StopWorkers
      PROVE  Disturbing'
  <2>1. disturbed' = Jobs /\ UNCHANGED <<stop, check, pushed, save>>
    BY <1>32 DEF StopWorkers, objects
  <2>2. disturbed \subseteq disturbed'
    BY <2>1 DEF TypeOK
  <2> QED
    BY <2>1, <2>2 DEF Disturbing
<1>33. ASSUME Restart
      PROVE  Disturbing'
  <2>1. /\ \A o \in Pushes : pushed'[o] = None /\ stop'[o].step = "none"
        /\ \A s \in Savers : save'[s].step = "none"
        /\ check'.step = "none"
    BY <1>33 DEF Restart, NoStop, NoSave, NoCheck
  <2> QED
    BY <2>1 DEF Disturbing
<1>34. CASE UNCHANGED vars
  BY <1>34 DEF vars, rows, objects, channels, workers, history, Disturbing
<1> QED
  BY <1>1, <1>2, <1>3, <1>4, <1>5, <1>6, <1>7, <1>8, <1>9, <1>10, <1>11,
     <1>12, <1>13, <1>14, <1>15, <1>16, <1>17, <1>18, <1>19, <1>20, <1>21,
     <1>22, <1>23, <1>24, <1>25, <1>26, <1>27, <1>28, <1>29, <1>30, <1>31,
     <1>32, <1>33, <1>34 DEF Next, SaveStep, PushStep, StopStep, DispatchStep,
     WorkStep, CheckStep

\* A worker counts for the job it works on, and goes on when it has told.
LEMMA SavingStep ==
    ASSUME TypeOK, Shape, Saving, [Next]_vars
    PROVE  Saving'
<1>1. ASSUME NEW s \in Savers, Count(s)
      PROVE  Saving'
  <2>1. SaveStep(s)
    BY <1>1 DEF SaveStep
  <2>2. \A w \in Workers : save'[w].step # "none" =>
            save[w].step # "none" /\ save'[w].of = save[w].of
    BY <2>1, SaveGoesOn DEF Savers
  <2>3. UNCHANGED <<wpc, work>>
    BY <1>1 DEF Count, Tell, workers
  <2> QED
    BY <2>2, <2>3 DEF Saving, JobOn, ExecOf
<1>2. ASSUME NEW s \in Savers, Tell(s)
      PROVE  Saving'
  <2>1. SaveStep(s)
    BY <1>2 DEF SaveStep
  <2>2. \A w \in Workers : save'[w].step # "none" =>
            save[w].step # "none" /\ save'[w].of = save[w].of
    BY <2>1, SaveGoesOn DEF Savers
  <2>3. UNCHANGED <<wpc, work>>
    BY <1>2 DEF Count, Tell, workers
  <2> QED
    BY <2>2, <2>3 DEF Saving, JobOn, ExecOf
<1>3. ASSUME NEW p \in Pushes, NEW j \in Jobs, Push(p, j)
      PROVE  Saving'
  BY <1>3 DEF Push, rows, objects, channels, workers, history, Saving, JobOn,
     ExecOf
<1>4. ASSUME NEW p \in Pushes, NEW e \in Execs, Submit(p, e)
      PROVE  Saving'
  BY <1>4 DEF Submit, rows, objects, channels, workers, history, Saving,
     JobOn, ExecOf
<1>5. ASSUME NEW p \in Pushes, Stop(p)
      PROVE  Saving'
  BY <1>5 DEF Stop, rows, objects, channels, workers, history, Saving, JobOn,
     ExecOf
<1>6. ASSUME NEW p \in Pushes, StopCancel(p)
      PROVE  Saving'
  BY <1>6 DEF StopCancel, rows, objects, channels, workers, history, Saving,
     JobOn, ExecOf
<1>7. ASSUME NEW p \in Pushes, StopRead(p)
      PROVE  Saving'
  BY <1>7 DEF StopRead, rows, objects, channels, workers, history, Saving,
     JobOn, ExecOf
<1>8. ASSUME NEW p \in Pushes, StopWrite(p)
      PROVE  Saving'
  <2>1. /\ UNCHANGED <<wpc, work>> /\ p \in Savers
        /\ p \notin Workers
    BY <1>8, SaversAssumption DEF StopWrite, workers, Savers
  <2>2. \A v \in Workers : save'[v] = save[v]
    BY <1>8, <2>1, SaveBegins DEF StopWrite, SaveStatus, Savers
  <2> QED
    BY <2>1, <2>2 DEF Saving, JobOn, ExecOf
<1>9. ASSUME NEW p \in Pushes, StopEnd(p)
      PROVE  Saving'
  BY <1>9 DEF StopEnd, rows, objects, channels, workers, history, Saving,
     JobOn, ExecOf
<1>10. ASSUME NEW q \in Requests, Send(q)
      PROVE  Saving'
  BY <1>10 DEF Send, rows, objects, channels, workers, history, Saving, JobOn,
     ExecOf
<1>11. ASSUME TakeWork
      PROVE  Saving'
  BY <1>11 DEF TakeWork, rows, objects, channels, workers, history, Saving,
     JobOn, ExecOf
<1>12. ASSUME TakeWorker
      PROVE  Saving'
  BY <1>12 DEF TakeWorker, rows, objects, channels, workers, history, Saving,
     JobOn, ExecOf
<1>13. ASSUME GiveWork
      PROVE  Saving'
  <2>1. /\ UNCHANGED save
        /\ \A v \in Workers :
               v # disp.to => wpc'[v] = wpc[v] /\ work'[v] = work[v]
    BY <1>13 DEF GiveWork, TypeOK
  <2>2. \A v \in Workers : v = disp.to => save[v].step = "none"
    BY <1>13 DEF GiveWork, Saving, SavingSteps
  <2> QED
    BY <2>1, <2>2 DEF Saving, JobOn, ExecOf
<1>14. ASSUME DispatcherQuits
      PROVE  Saving'
  BY <1>14 DEF DispatcherQuits, rows, objects, channels, workers, history,
     Saving, JobOn, ExecOf
<1>15. ASSUME NEW w \in Workers, Register(w)
      PROVE  Saving'
  <2>1. \A v \in Workers : save'[v] = save[v]
    BY <1>15 DEF Register, workers
  <2>2. \A v \in Workers : v # w => wpc'[v] = wpc[v] /\ work'[v] = work[v]
    BY <1>15 DEF Register, WorkerGoto, TypeOK
  <2>3. save[w].step = "none"
    BY <1>15 DEF Register, Saved, Saving, SavingSteps
  <2> QED
    BY <2>1, <2>2, <2>3 DEF Saving, JobOn, ExecOf
<1>16. ASSUME NEW w \in Workers, WorkerQuits(w)
      PROVE  Saving'
  <2>1. \A v \in Workers : save'[v] = save[v]
    BY <1>16 DEF WorkerQuits, workers
  <2>2. \A v \in Workers : v # w => wpc'[v] = wpc[v] /\ work'[v] = work[v]
    BY <1>16 DEF WorkerQuits, WorkerGoto, TypeOK
  <2>3. save[w].step = "none"
    BY <1>16 DEF WorkerQuits, Saved, Saving, SavingSteps
  <2> QED
    BY <2>1, <2>2, <2>3 DEF Saving, JobOn, ExecOf
<1>17. ASSUME NEW w \in Workers, StartExecution(w)
      PROVE  Saving'
  <2>1. w \in Savers /\ UNCHANGED work
    BY <1>17 DEF StartExecution, Savers, workers
  <2>2. \A v \in Workers :
            /\ v # w => save'[v] = save[v] /\ wpc'[v] = wpc[v]
            /\ v = w => wpc'[v] \in SavingSteps /\ save'[v].of = JobOn(w)
    BY <1>17, <2>1, SaveBegins DEF StartExecution, WorkerGoto, Savers,
       SavingSteps, JobOn, workers, TypeOK
  <2> QED
    BY <2>1, <2>2 DEF Saving, JobOn, ExecOf
<1>18. ASSUME NEW w \in Workers, StartObject(w)
      PROVE  Saving'
  <2>1. \A v \in Workers : save'[v] = save[v]
    BY <1>18 DEF StartObject, workers
  <2>2. \A v \in Workers : v # w => wpc'[v] = wpc[v] /\ work'[v] = work[v]
    BY <1>18 DEF StartObject, WorkerGoto, TypeOK
  <2>3. save[w].step = "none"
    BY <1>18 DEF StartObject, Saved, Saving, SavingSteps
  <2> QED
    BY <2>1, <2>2, <2>3 DEF Saving, JobOn, ExecOf
<1>19. ASSUME NEW w \in Workers, StartJob(w)
      PROVE  Saving'
  <2>1. \A v \in Workers : save'[v] = save[v]
    BY <1>19 DEF StartJob, workers
  <2>2. \A v \in Workers : v # w => wpc'[v] = wpc[v] /\ work'[v] = work[v]
    BY <1>19 DEF StartJob, WorkerGoto, TypeOK
  <2>3. save[w].step = "none"
    BY <1>19 DEF StartJob, Saved, Saving, SavingSteps
  <2> QED
    BY <2>1, <2>2, <2>3 DEF Saving, JobOn, ExecOf
<1>20. ASSUME NEW w \in Workers, Progress(w)
      PROVE  Saving'
  <2>1. w \in Savers /\ UNCHANGED work
    BY <1>20 DEF Progress, Savers, workers
  <2>2. \A v \in Workers :
            /\ v # w => save'[v] = save[v] /\ wpc'[v] = wpc[v]
            /\ v = w => wpc'[v] \in SavingSteps /\ save'[v].of = JobOn(w)
    BY <1>20, <2>1, SaveBegins DEF Progress, WorkerGoto, Savers, SavingSteps,
       JobOn, workers, TypeOK
  <2> QED
    BY <2>1, <2>2 DEF Saving, JobOn, ExecOf
<1>21. ASSUME NEW w \in Workers, Execute(w)
      PROVE  Saving'
  <2>1. w \in Savers /\ UNCHANGED work
    BY <1>21 DEF Execute, Savers
  <2>2. \/ \E r : SaveExecution(w, ExecOf(w), [status |-> r, worker |-> w])
        \/ UNCHANGED save
    BY <1>21 DEF Execute
  <2>3. save[w].step = "none"
    BY <1>21 DEF Execute, Saved
  <2>4. \A v \in Workers :
            /\ v # w => save'[v] = save[v]
            /\ v = w => save'[v].of = JobOn(w) \/ save'[v].step = "none"
    <3>1. CASE UNCHANGED save
      BY <2>3, <3>1
    <3>2. CASE \E r : SaveExecution(w, ExecOf(w), [status |-> r, worker |-> w])
      BY <2>1, <3>2, SaveBegins DEF Savers, JobOn
    <3> QED
      BY <2>2, <3>1, <3>2
  <2>5. \A v \in Workers : /\ v # w => wpc'[v] = wpc[v]
                           /\ v = w => wpc'[v] \in SavingSteps
    <3>1. wpc' = [wpc EXCEPT ![w] = "final"]
      BY <1>21 DEF Execute, WorkerGoto
    <3> QED
      BY <3>1 DEF SavingSteps, TypeOK
  <2> QED
    BY <2>1, <2>4, <2>5 DEF Saving, JobOn, ExecOf
<1>22. ASSUME NEW w \in Workers, EndExecution(w)
      PROVE  Saving'
  <2>1. w \in Savers /\ UNCHANGED work
    BY <1>22 DEF EndExecution, Savers, workers
  <2>2. \A v \in Workers :
            /\ v # w => save'[v] = save[v] /\ wpc'[v] = wpc[v]
            /\ v = w => wpc'[v] \in SavingSteps /\ save'[v].of = JobOn(w)
    BY <1>22, <2>1, SaveBegins DEF EndExecution, WorkerGoto, Savers,
       SavingSteps, JobOn, workers, TypeOK
  <2> QED
    BY <2>1, <2>2 DEF Saving, JobOn, ExecOf
<1>23. ASSUME NEW w \in Workers, EndObject(w)
      PROVE  Saving'
  <2>1. \A v \in Workers : save'[v] = save[v]
    BY <1>23 DEF EndObject, workers
  <2>2. \A v \in Workers : v # w => wpc'[v] = wpc[v] /\ work'[v] = work[v]
    BY <1>23 DEF EndObject, WorkerGoto, TypeOK
  <2>3. save[w].step = "none"
    BY <1>23 DEF EndObject, Saved, Saving, SavingSteps
  <2> QED
    BY <2>1, <2>2, <2>3 DEF Saving, JobOn, ExecOf
<1>24. ASSUME NEW w \in Workers, EndJob(w)
      PROVE  Saving'
  <2>1. \A v \in Workers : save'[v] = save[v]
    BY <1>24 DEF EndJob, workers
  <2>2. \A v \in Workers : v # w => wpc'[v] = wpc[v] /\ work'[v] = work[v]
    BY <1>24 DEF EndJob, WorkerGoto, TypeOK
  <2>3. save[w].step = "none"
    BY <1>24 DEF EndJob, Saved, Saving, SavingSteps
  <2> QED
    BY <2>1, <2>2, <2>3 DEF Saving, JobOn, ExecOf
<1>25. ASSUME NEW w \in Workers, Forget(w)
      PROVE  Saving'
  <2>1. \A v \in Workers : save'[v] = save[v]
    BY <1>25 DEF Forget, workers
  <2>2. \A v \in Workers : v # w => wpc'[v] = wpc[v] /\ work'[v] = work[v]
    BY <1>25 DEF Forget, WorkerGoto, TypeOK
  <2>3. save[w].step = "none"
    BY <1>25 DEF Forget, Saved, Saving, SavingSteps
  <2> QED
    BY <2>1, <2>2, <2>3 DEF Saving, JobOn, ExecOf
<1>26. ASSUME NEW j \in Jobs, StopLoaded(j)
      PROVE  Saving'
  BY <1>26 DEF StopLoaded, rows, objects, channels, workers, history, Saving,
     JobOn, ExecOf
<1>27. ASSUME NEW j \in Jobs, ListJob(j)
      PROVE  Saving'
  BY <1>27 DEF ListJob, rows, objects, channels, workers, history, Saving,
     JobOn, ExecOf
<1>28. ASSUME CheckHealthy
      PROVE  Saving'
  BY <1>28 DEF CheckHealthy, rows, objects, channels, workers, history,
     Saving, JobOn, ExecOf
<1>29. ASSUME MarkJob
      PROVE  Saving'
  BY <1>29 DEF MarkJob, rows, objects, channels, workers, history, Saving,
     JobOn, ExecOf
<1>30. ASSUME MarkExecution
      PROVE  Saving'
  <2>1. /\ UNCHANGED <<wpc, work>> /\ Checker \in Savers
        /\ Checker \notin Workers
    BY <1>30, SaversAssumption DEF MarkExecution, workers, Savers
  <2>2. \A v \in Workers : save'[v] = save[v]
    BY <1>30, <2>1, SaveBegins DEF MarkExecution, SaveStatus, Savers
  <2> QED
    BY <2>1, <2>2 DEF Saving, JobOn, ExecOf
<1>31. ASSUME ClearJob
      PROVE  Saving'
  BY <1>31 DEF ClearJob, rows, objects, channels, workers, history, Saving,
     JobOn, ExecOf
<1>32. ASSUME StopWorkers
      PROVE  Saving'
  BY <1>32 DEF StopWorkers, rows, objects, channels, workers, history, Saving,
     JobOn, ExecOf
<1>33. ASSUME Restart
      PROVE  Saving'
  <2>1. \A w \in Workers : save'[w].step = "none"
    BY <1>33 DEF Restart, NoSave, Savers
  <2> QED
    BY <2>1 DEF Saving
<1>34. CASE UNCHANGED vars
  BY <1>34 DEF vars, rows, objects, channels, workers, history, Saving, JobOn,
     ExecOf
<1> QED
  BY <1>1, <1>2, <1>3, <1>4, <1>5, <1>6, <1>7, <1>8, <1>9, <1>10, <1>11,
     <1>12, <1>13, <1>14, <1>15, <1>16, <1>17, <1>18, <1>19, <1>20, <1>21,
     <1>22, <1>23, <1>24, <1>25, <1>26, <1>27, <1>28, <1>29, <1>30, <1>31,
     <1>32, <1>33, <1>34 DEF Next, SaveStep, PushStep, StopStep, DispatchStep,
     WorkStep, CheckStep

-----------------------------------------------------------------------------
(***************************************************************************)
(* The last status of a job                                                *)
(***************************************************************************)

\* One worker takes a step.
LEMMA OneGoes ==
    ASSUME TypeOK, NEW w \in Workers, NEW k, WorkerGoto(w, k)
    PROVE  \A v \in Workers : wpc'[v] = IF v = w THEN k ELSE wpc[v]
BY DEF WorkerGoto, TypeOK

\* Whoever wrote to an object that is about to be saved as settled will settle
\* it, too.
LEMMA SettlingStep ==
    ASSUME TypeOK, Shape, Belong, Settling, [Next]_vars
    PROVE  Settling'
<1>1. ASSUME NEW s \in Savers, Count(s)
      PROVE  Settling'
  <2>1. UNCHANGED <<wpc, work, obj>> /\ disturbed \subseteq disturbed'
    BY <1>1 DEF Count, objects, workers, history
  <2> QED
    BY <2>1 DEF Settling, JobOn, PushOf, ExecOf
<1>2. ASSUME NEW s \in Savers, Tell(s)
      PROVE  Settling'
  <2>1. UNCHANGED <<wpc, work, obj>> /\ disturbed \subseteq disturbed'
    BY <1>2 DEF Tell, objects, workers, history
  <2> QED
    BY <2>1 DEF Settling, JobOn, PushOf, ExecOf
<1>3. ASSUME NEW p \in Pushes, NEW j \in Jobs, Push(p, j)
      PROVE  Settling'
  <2>1. /\ pushed[p] = None /\ UNCHANGED <<wpc, work>>
        /\ disturbed \subseteq disturbed'
    BY <1>3 DEF Push, workers
  <2>2. \A w \in Workers : wpc[w] = "settled" => PushOf(w) # p
    BY <2>1, WorkBelongs, JobOfAssumption, NoneAssumption DEF BusySteps
  <2>3. \A w \in Workers : PushOf(w) # p => obj'[PushOf(w)] = obj[PushOf(w)]
    BY <1>3 DEF Push, TypeOK
  <2> QED
    BY <2>1, <2>2, <2>3 DEF Settling, JobOn, PushOf, ExecOf
<1>4. ASSUME NEW p \in Pushes, NEW e \in Execs, Submit(p, e)
      PROVE  Settling'
  <2>1. UNCHANGED <<wpc, work, obj>> /\ disturbed \subseteq disturbed'
    BY <1>4 DEF Submit, objects, workers, history
  <2> QED
    BY <2>1 DEF Settling, JobOn, PushOf, ExecOf
<1>5. ASSUME NEW p \in Pushes, Stop(p)
      PROVE  Settling'
  <2>1. /\ UNCHANGED <<wpc, work, pushed>>
        /\ disturbed' = disturbed \cup {pushed[p]}
    BY <1>5 DEF Stop, workers
  <2>2. \A w \in Workers :
            wpc[w] = "settled" /\ PushOf(w) = p => JobOn(w) = pushed[p]
    BY WorkBelongs DEF BusySteps, JobOn
  <2>3. \A w \in Workers : PushOf(w) # p => obj'[PushOf(w)] = obj[PushOf(w)]
    BY <1>5 DEF Stop, TypeOK
  <2> QED
    BY <2>1, <2>2, <2>3 DEF Settling, JobOn, PushOf, ExecOf
<1>6. ASSUME NEW p \in Pushes, StopCancel(p)
      PROVE  Settling'
  <2>1. UNCHANGED <<wpc, work, obj>> /\ disturbed \subseteq disturbed'
    BY <1>6 DEF StopCancel, objects, workers, history
  <2> QED
    BY <2>1 DEF Settling, JobOn, PushOf, ExecOf
<1>7. ASSUME NEW p \in Pushes, StopRead(p)
      PROVE  Settling'
  <2>1. UNCHANGED <<wpc, work, obj>> /\ disturbed \subseteq disturbed'
    BY <1>7 DEF StopRead, objects, workers, history
  <2> QED
    BY <2>1 DEF Settling, JobOn, PushOf, ExecOf
<1>8. ASSUME NEW p \in Pushes, StopWrite(p)
      PROVE  Settling'
  <2>1. UNCHANGED <<wpc, work, obj>> /\ disturbed \subseteq disturbed'
    BY <1>8 DEF StopWrite, objects, workers, history
  <2> QED
    BY <2>1 DEF Settling, JobOn, PushOf, ExecOf
<1>9. ASSUME NEW p \in Pushes, StopEnd(p)
      PROVE  Settling'
  <2>1. UNCHANGED <<wpc, work, obj>> /\ disturbed \subseteq disturbed'
    BY <1>9 DEF StopEnd, objects, workers, history
  <2> QED
    BY <2>1 DEF Settling, JobOn, PushOf, ExecOf
<1>10. ASSUME NEW q \in Requests, Send(q)
      PROVE  Settling'
  <2>1. UNCHANGED <<wpc, work, obj>> /\ disturbed \subseteq disturbed'
    BY <1>10 DEF Send, objects, workers, history
  <2> QED
    BY <2>1 DEF Settling, JobOn, PushOf, ExecOf
<1>11. ASSUME TakeWork
      PROVE  Settling'
  <2>1. UNCHANGED <<wpc, work, obj>> /\ disturbed \subseteq disturbed'
    BY <1>11 DEF TakeWork, objects, workers, history
  <2> QED
    BY <2>1 DEF Settling, JobOn, PushOf, ExecOf
<1>12. ASSUME TakeWorker
      PROVE  Settling'
  <2>1. UNCHANGED <<wpc, work, obj>> /\ disturbed \subseteq disturbed'
    BY <1>12 DEF TakeWorker, objects, workers, history
  <2> QED
    BY <2>1 DEF Settling, JobOn, PushOf, ExecOf
<1>13. ASSUME GiveWork
      PROVE  Settling'
  <2>1. UNCHANGED <<obj, disturbed>> /\ wpc[disp.to] = "wait"
    BY <1>13 DEF GiveWork, objects, history
  <2>2. \A v \in Workers :
            /\ v # disp.to => wpc'[v] = wpc[v] /\ work'[v] = work[v]
            /\ v = disp.to => wpc'[v] = "start"
    BY <1>13 DEF GiveWork, TypeOK
  <2> QED
    BY <2>1, <2>2 DEF Settling, JobOn, PushOf, ExecOf
<1>14. ASSUME DispatcherQuits
      PROVE  Settling'
  <2>1. UNCHANGED <<wpc, work, obj>> /\ disturbed \subseteq disturbed'
    BY <1>14 DEF DispatcherQuits, objects, workers, history
  <2> QED
    BY <2>1 DEF Settling, JobOn, PushOf, ExecOf
<1>15. ASSUME NEW w \in Workers, Register(w)
      PROVE  Settling'
  <2>1. /\ UNCHANGED <<obj, disturbed>>
        /\ \A v \in Workers : v # w => wpc'[v] = wpc[v] /\ work'[v] = work[v]
    BY <1>15, OneGoes DEF Register, objects, history, TypeOK
  <2>2. wpc[w] = "register" /\ wpc'[w] = "wait"
    BY <1>15, OneGoes DEF Register
  <2> QED
    BY <2>1, <2>2 DEF Settling, JobOn, PushOf, ExecOf
<1>16. ASSUME NEW w \in Workers, WorkerQuits(w)
      PROVE  Settling'
  <2>1. /\ UNCHANGED <<obj, disturbed>>
        /\ \A v \in Workers : v # w => wpc'[v] = wpc[v] /\ work'[v] = work[v]
    BY <1>16, OneGoes DEF WorkerQuits, objects, history, TypeOK
  <2>2. wpc[w] = "wait" /\ wpc'[w] = "gone"
    BY <1>16, OneGoes DEF WorkerQuits
  <2> QED
    BY <2>1, <2>2 DEF Settling, JobOn, PushOf, ExecOf
<1>17. ASSUME NEW w \in Workers, StartExecution(w)
      PROVE  Settling'
  <2>1. /\ UNCHANGED <<obj, disturbed>>
        /\ \A v \in Workers : v # w => wpc'[v] = wpc[v] /\ work'[v] = work[v]
    BY <1>17, OneGoes DEF StartExecution, objects, history, TypeOK
  <2>2. wpc[w] = "start" /\ wpc'[w] = "object"
    BY <1>17, OneGoes DEF StartExecution
  <2> QED
    BY <2>1, <2>2 DEF Settling, JobOn, PushOf, ExecOf
<1>18. ASSUME NEW w \in Workers, StartObject(w)
      PROVE  Settling'
  <2>1. UNCHANGED <<work, disturbed>>
    BY <1>18 DEF StartObject, history
  <2>2. /\ wpc[w] = "object"
        /\ \A v \in Workers : wpc'[v] = IF v = w THEN "job" ELSE wpc[v]
    BY <1>18, OneGoes DEF StartObject
  <2>3. \A v \in Workers : PushOf(v) # PushOf(w) => obj'[PushOf(v)] = obj[PushOf(v)]
    BY <1>18 DEF StartObject, TypeOK
  <2> QED
    BY <2>1, <2>2, <2>3 DEF Settling, JobOn, PushOf, ExecOf
<1>19. ASSUME NEW w \in Workers, StartJob(w)
      PROVE  Settling'
  <2>1. UNCHANGED <<obj, work, disturbed>>
    BY <1>19 DEF StartJob, objects, history
  <2>2. /\ wpc[w] = "job"
        /\ \A v \in Workers : wpc'[v] = IF v = w THEN "run" ELSE wpc[v]
    BY <1>19, OneGoes DEF StartJob
  <2> QED
    BY <2>1, <2>2 DEF Settling, JobOn, PushOf, ExecOf
<1>20. ASSUME NEW w \in Workers, Progress(w)
      PROVE  Settling'
  <2>1. UNCHANGED <<wpc, work, obj, disturbed>>
    BY <1>20 DEF Progress, objects, workers, history
  <2> QED
    BY <2>1 DEF Settling, JobOn, PushOf, ExecOf
<1>21. ASSUME NEW w \in Workers, Execute(w)
      PROVE  Settling'
  <2>1. UNCHANGED <<obj, work, disturbed>>
    BY <1>21 DEF Execute, objects, history
  <2>2. /\ wpc[w] = "run"
        /\ \A v \in Workers : wpc'[v] = IF v = w THEN "final" ELSE wpc[v]
    BY <1>21, OneGoes DEF Execute
  <2> QED
    BY <2>1, <2>2 DEF Settling, JobOn, PushOf, ExecOf
<1>22. ASSUME NEW w \in Workers, EndExecution(w)
      PROVE  Settling'
  <2>1. UNCHANGED <<obj, work, disturbed>>
    BY <1>22 DEF EndExecution, objects, history
  <2>2. /\ wpc[w] = "final"
        /\ \A v \in Workers : wpc'[v] = IF v = w THEN "settle" ELSE wpc[v]
    BY <1>22, OneGoes DEF EndExecution
  <2> QED
    BY <2>1, <2>2 DEF Settling, JobOn, PushOf, ExecOf
<1>23. ASSUME NEW w \in Workers, EndObject(w)
      PROVE  Settling'
  <2>1. UNCHANGED <<work, disturbed>>
    BY <1>23 DEF EndObject, history
  <2>2. /\ wpc[w] = "settle"
        /\ \A v \in Workers : wpc'[v] = IF v = w THEN "settled" ELSE wpc[v]
    BY <1>23, OneGoes DEF EndObject
  <2>3. /\ PushOf(w) \in Pushes /\ pushed[PushOf(w)] = JobOn(w)
    BY <2>2, WorkBelongs DEF BusySteps, JobOn
  <2>4. /\ obj'[PushOf(w)].status = SettledStatus(JobOn(w))
        /\ \A v \in Workers :
               PushOf(v) # PushOf(w) => obj'[PushOf(v)] = obj[PushOf(v)]
    BY <1>23, <2>3 DEF EndObject, TypeOK, JobOn
  <2>5. \A v \in Workers : wpc[v] = "settled" => pushed[PushOf(v)] = JobOn(v)
    BY WorkBelongs DEF BusySteps, JobOn
  <2>6. \A v \in Workers :
            wpc'[v] = "settled" /\ PushOf(v) = PushOf(w) => JobOn(v) = JobOn(w)
    BY <2>2, <2>3, <2>5
  <2> QED
    BY <2>1, <2>2, <2>4, <2>6 DEF Settling, JobOn, PushOf, ExecOf
<1>24. ASSUME NEW w \in Workers, EndJob(w)
      PROVE  Settling'
  <2>1. /\ UNCHANGED <<obj, disturbed>>
        /\ \A v \in Workers : v # w => wpc'[v] = wpc[v] /\ work'[v] = work[v]
    BY <1>24, OneGoes DEF EndJob, objects, history, TypeOK
  <2>2. wpc[w] = "settled" /\ wpc'[w] = "forget"
    BY <1>24, OneGoes DEF EndJob
  <2> QED
    BY <2>1, <2>2 DEF Settling, JobOn, PushOf, ExecOf
<1>25. ASSUME NEW w \in Workers, Forget(w)
      PROVE  Settling'
  <2>1. /\ UNCHANGED <<obj, disturbed>>
        /\ \A v \in Workers : v # w => wpc'[v] = wpc[v] /\ work'[v] = work[v]
    BY <1>25, OneGoes DEF Forget, objects, history, TypeOK
  <2>2. wpc[w] = "forget" /\ wpc'[w] = "register"
    BY <1>25, OneGoes DEF Forget
  <2> QED
    BY <2>1, <2>2 DEF Settling, JobOn, PushOf, ExecOf
<1>26. ASSUME NEW j \in Jobs, StopLoaded(j)
      PROVE  Settling'
  <2>1. UNCHANGED <<wpc, work, obj>> /\ disturbed \subseteq disturbed'
    BY <1>26 DEF StopLoaded, objects, workers, history
  <2> QED
    BY <2>1 DEF Settling, JobOn, PushOf, ExecOf
<1>27. ASSUME NEW j \in Jobs, ListJob(j)
      PROVE  Settling'
  <2>1. UNCHANGED <<wpc, work, obj>> /\ disturbed \subseteq disturbed'
    BY <1>27 DEF ListJob, objects, workers, history
  <2> QED
    BY <2>1 DEF Settling, JobOn, PushOf, ExecOf
<1>28. ASSUME CheckHealthy
      PROVE  Settling'
  <2>1. UNCHANGED <<wpc, work, obj>> /\ disturbed \subseteq disturbed'
    BY <1>28 DEF CheckHealthy, objects, workers, history
  <2> QED
    BY <2>1 DEF Settling, JobOn, PushOf, ExecOf
<1>29. ASSUME MarkJob
      PROVE  Settling'
  <2>1. UNCHANGED <<wpc, work, obj>> /\ disturbed \subseteq disturbed'
    BY <1>29 DEF MarkJob, objects, workers, history
  <2> QED
    BY <2>1 DEF Settling, JobOn, PushOf, ExecOf
<1>30. ASSUME MarkExecution
      PROVE  Settling'
  <2>1. UNCHANGED <<wpc, work, obj>> /\ disturbed \subseteq disturbed'
    BY <1>30 DEF MarkExecution, objects, workers, history
  <2> QED
    BY <2>1 DEF Settling, JobOn, PushOf, ExecOf
<1>31. ASSUME ClearJob
      PROVE  Settling'
  <2>1. UNCHANGED <<wpc, work, obj>> /\ disturbed \subseteq disturbed'
    BY <1>31 DEF ClearJob, objects, workers, history
  <2> QED
    BY <2>1 DEF Settling, JobOn, PushOf, ExecOf
<1>32. ASSUME StopWorkers
      PROVE  Settling'
  <2>1. disturbed' = Jobs /\ UNCHANGED <<wpc, work>>
    BY <1>32 DEF StopWorkers
  <2>2. \A w \in Workers : wpc[w] = "settled" => JobOn(w) \in Jobs
    BY WorkBelongs, JobOfAssumption DEF JobOn, BusySteps
  <2> QED
    BY <2>1, <2>2 DEF Settling, JobOn, ExecOf
<1>33. ASSUME Restart
      PROVE  Settling'
  <2>1. \A w \in Workers : wpc'[w] = "register"
    BY <1>33 DEF Restart
  <2> QED
    BY <2>1 DEF Settling
<1>34. CASE UNCHANGED vars
  <2>1. UNCHANGED <<wpc, work, obj, disturbed>>
    BY <1>34 DEF vars, objects, workers, history
  <2> QED
    BY <2>1 DEF Settling, JobOn, PushOf, ExecOf
<1> QED
  BY <1>1, <1>2, <1>3, <1>4, <1>5, <1>6, <1>7, <1>8, <1>9, <1>10, <1>11,
     <1>12, <1>13, <1>14, <1>15, <1>16, <1>17, <1>18, <1>19, <1>20, <1>21,
     <1>22, <1>23, <1>24, <1>25, <1>26, <1>27, <1>28, <1>29, <1>30, <1>31,
     <1>32, <1>33, <1>34 DEF Next, SaveStep, PushStep, StopStep, DispatchStep,
     WorkStep, CheckStep

\* A job is settled when it was and nothing was opened since, when nothing of
\* it is finished yet, and while somebody has its rows open.
LEMMA SettledKept ==
    ASSUME Settled, disturbed \subseteq disturbed',
           \A j \in Jobs \ disturbed' :
               \/ Opened(j)' # {}
               \/ ~Finished(j)'
               \/ job'[j].status = SettledStatus(j)
               \/ /\ job'[j].status = job[j].status
                  /\ Finished(j) /\ Opened(j) = {}
    PROVE  Settled'
BY DEF Settled, SettledStatus

\* Work that stays where it is stays open or finished.
LEMMA OpenKept ==
    ASSUME UNCHANGED <<wpc, work, done>>
    PROVE  \A j : Opened(j)' = Opened(j) /\ Finished(j)' = Finished(j)
BY DEF Opened, Finished, JobOn, ExecOf

\* So does the work of a worker that goes on within the open steps, or outside.
LEMMA OpenGoesOn ==
    ASSUME TypeOK, NEW w \in Workers, NEW k, WorkerGoto(w, k),
           UNCHANGED <<work, done>>, wpc[w] \in OpenSteps <=> k \in OpenSteps,
           wpc[w] # "forget", k # "forget"
    PROVE  \A j : Opened(j)' = Opened(j) /\ Finished(j)' = Finished(j)
<1>1. \A v \in Workers : wpc'[v] = IF v = w THEN k ELSE wpc[v]
  BY OneGoes
<1> QED
  BY <1>1 DEF Opened, Finished, JobOn, ExecOf

\* Saving an object writes the status of its job, and of no other.
LEMMA SaveJobStatus ==
    ASSUME job \in [Jobs -> JobRow], NEW j, NEW object, SaveJob(j, object)
    PROVE  \A k \in Jobs : /\ k # j => job'[k].status = job[k].status
                           /\ k = j => job'[k].status = object.status
BY DEF SaveJob

\* The last write of a job settles it.
LEMMA SettledStep ==
    ASSUME TypeOK, Shape, Belong, Disturbing, Saving, Settling, Settled,
           [Next]_vars
    PROVE  Settled'
<1>1. ASSUME NEW s \in Savers, Count(s)
      PROVE  Settled'
  <2>1. UNCHANGED <<wpc, work, done, job, disturbed>>
    BY <1>1 DEF Count, rows, workers, history
  <2> QED
    BY <2>1, OpenKept, SettledKept DEF Settled
<1>2. ASSUME NEW s \in Savers, Tell(s)
      PROVE  Settled'
  <2>1. UNCHANGED <<wpc, work, done, disturbed>>
    BY <1>2 DEF Tell, workers, history
  <2>2. \A k \in Jobs : k # save[s].of => job'[k] = job[k]
    BY <1>2 DEF Tell, TypeOK
  <2>3. save[s].of \in Jobs \ disturbed => Opened(save[s].of) # {}
    <3>1. save[s].step # "none"
      BY <1>2 DEF Tell
    <3>2. CASE s \in Workers
      BY <3>1, <3>2 DEF Saving, SavingSteps, Opened, OpenSteps, BusySteps
    <3>3. CASE s \notin Workers
      BY <3>1, <3>3 DEF Disturbing
    <3> QED
      BY <3>2, <3>3
  <2> QED
    BY <2>1, <2>2, <2>3, OpenKept, SettledKept DEF Settled
<1>3. ASSUME NEW p \in Pushes, NEW j \in Jobs, Push(p, j)
      PROVE  Settled'
  <2>1. /\ UNCHANGED <<wpc, work, done>> /\ disturbed \subseteq disturbed'
        /\ SaveJob(j, obj'[p])
        /\ (\E o \in Pushes : pushed[o] = j) => j \in disturbed'
    BY <1>3 DEF Push, workers
  <2>2. \A k \in Jobs : k # j => job'[k].status = job[k].status
    BY <2>1, SaveJobStatus DEF TypeOK
  <2>3. Finished(j) => \E o \in Pushes : pushed[o] = j
    <3>1. ASSUME NEW q \in done, JobOf[q[2]] = j
          PROVE  q[1] \in Pushes /\ pushed[q[1]] = j
      BY <3>1 DEF TypeOK, Requests, Belong
    <3>2. ASSUME NEW w \in Workers, wpc[w] = "forget", JobOn(w) = j
          PROVE  PushOf(w) \in Pushes /\ pushed[PushOf(w)] = j
      BY <3>2, WorkBelongs DEF BusySteps, JobOn
    <3> QED
      BY <3>1, <3>2 DEF Finished
  <2> QED
    BY <2>1, <2>2, <2>3, OpenKept, SettledKept DEF Settled
<1>4. ASSUME NEW p \in Pushes, NEW e \in Execs, Submit(p, e)
      PROVE  Settled'
  <2>1. UNCHANGED <<wpc, work, done, job, disturbed>>
    BY <1>4 DEF Submit, rows, workers, history
  <2> QED
    BY <2>1, OpenKept, SettledKept DEF Settled
<1>5. ASSUME NEW p \in Pushes, Stop(p)
      PROVE  Settled'
  <2>1. /\ UNCHANGED <<wpc, work, done>> /\ disturbed \subseteq disturbed'
        /\ SaveJob(pushed[p], obj'[p])
        /\ pushed[p] \in disturbed'
    BY <1>5 DEF Stop, workers
  <2>2. \A k \in Jobs : k # pushed[p] => job'[k].status = job[k].status
    BY <2>1, SaveJobStatus DEF TypeOK
  <2> QED
    BY <2>1, <2>2, OpenKept, SettledKept DEF Settled
<1>6. ASSUME NEW p \in Pushes, StopCancel(p)
      PROVE  Settled'
  <2>1. UNCHANGED <<wpc, work, done, job, disturbed>>
    BY <1>6 DEF StopCancel, rows, workers, history
  <2> QED
    BY <2>1, OpenKept, SettledKept DEF Settled
<1>7. ASSUME NEW p \in Pushes, StopRead(p)
      PROVE  Settled'
  <2>1. UNCHANGED <<wpc, work, done, job, disturbed>>
    BY <1>7 DEF StopRead, rows, workers, history
  <2> QED
    BY <2>1, OpenKept, SettledKept DEF Settled
<1>8. ASSUME NEW p \in Pushes, StopWrite(p)
      PROVE  Settled'
  <2>1. UNCHANGED <<wpc, work, done, job, disturbed>>
    BY <1>8 DEF StopWrite, rows, workers, history
  <2> QED
    BY <2>1, OpenKept, SettledKept DEF Settled
<1>9. ASSUME NEW p \in Pushes, StopEnd(p)
      PROVE  Settled'
  <2>1. UNCHANGED <<wpc, work, done, job, disturbed>>
    BY <1>9 DEF StopEnd, rows, workers, history
  <2> QED
    BY <2>1, OpenKept, SettledKept DEF Settled
<1>10. ASSUME NEW q \in Requests, Send(q)
      PROVE  Settled'
  <2>1. UNCHANGED <<wpc, work, done, job, disturbed>>
    BY <1>10 DEF Send, rows, workers, history
  <2> QED
    BY <2>1, OpenKept, SettledKept DEF Settled
<1>11. ASSUME TakeWork
      PROVE  Settled'
  <2>1. UNCHANGED <<wpc, work, done, job, disturbed>>
    BY <1>11 DEF TakeWork, rows, workers, history
  <2> QED
    BY <2>1, OpenKept, SettledKept DEF Settled
<1>12. ASSUME TakeWorker
      PROVE  Settled'
  <2>1. UNCHANGED <<wpc, work, done, job, disturbed>>
    BY <1>12 DEF TakeWorker, rows, workers, history
  <2> QED
    BY <2>1, OpenKept, SettledKept DEF Settled
<1>13. ASSUME GiveWork
      PROVE  Settled'
  <2>1. UNCHANGED <<job, disturbed, done>> /\ wpc[disp.to] = "wait"
    BY <1>13 DEF GiveWork, rows, history
  <2>2. \A v \in Workers :
            /\ v # disp.to => wpc'[v] = wpc[v] /\ work'[v] = work[v]
            /\ v = disp.to => wpc'[v] = "start"
    BY <1>13 DEF GiveWork, TypeOK
  <2>3. \A j : Opened(j)' = Opened(j) /\ (Finished(j)' => Finished(j))
    BY <2>1, <2>2 DEF Opened, Finished, OpenSteps, BusySteps, JobOn, ExecOf
  <2> QED
    BY <2>1, <2>3, SettledKept DEF Settled
<1>14. ASSUME DispatcherQuits
      PROVE  Settled'
  <2>1. UNCHANGED <<wpc, work, done, job, disturbed>>
    BY <1>14 DEF DispatcherQuits, rows, workers, history
  <2> QED
    BY <2>1, OpenKept, SettledKept DEF Settled
<1>15. ASSUME NEW w \in Workers, Register(w)
      PROVE  Settled'
  <2>1. UNCHANGED <<work, done, job, disturbed>>
    BY <1>15 DEF Register, rows, workers, history
  <2>2. \A j : Opened(j)' = Opened(j) /\ Finished(j)' = Finished(j)
    BY <1>15, <2>1, OpenGoesOn DEF Register, OpenSteps, BusySteps
  <2> QED
    BY <2>1, <2>2, SettledKept DEF Settled
<1>16. ASSUME NEW w \in Workers, WorkerQuits(w)
      PROVE  Settled'
  <2>1. UNCHANGED <<work, done, job, disturbed>>
    BY <1>16 DEF WorkerQuits, rows, workers, history
  <2>2. \A j : Opened(j)' = Opened(j) /\ Finished(j)' = Finished(j)
    BY <1>16, <2>1, OpenGoesOn DEF WorkerQuits, OpenSteps, BusySteps
  <2> QED
    BY <2>1, <2>2, SettledKept DEF Settled
<1>17. ASSUME NEW w \in Workers, StartExecution(w)
      PROVE  Settled'
  <2>1. UNCHANGED <<work, done, job, disturbed>>
    BY <1>17 DEF StartExecution, rows, workers, history
  <2>2. /\ wpc[w] = "start"
        /\ \A v \in Workers : wpc'[v] = IF v = w THEN "object" ELSE wpc[v]
    BY <1>17, OneGoes DEF StartExecution
  <2>3. \A j : /\ Opened(j) \subseteq Opened(j)'
               /\ Finished(j)' => Finished(j)
    BY <2>1, <2>2 DEF Opened, Finished, OpenSteps, BusySteps, JobOn, ExecOf
  <2> QED
    BY <2>1, <2>3, SettledKept DEF Settled
<1>18. ASSUME NEW w \in Workers, StartObject(w)
      PROVE  Settled'
  <2>1. UNCHANGED <<work, done, job, disturbed>>
    BY <1>18 DEF StartObject, rows, workers, history
  <2>2. \A j : Opened(j)' = Opened(j) /\ Finished(j)' = Finished(j)
    BY <1>18, <2>1, OpenGoesOn DEF StartObject, OpenSteps, BusySteps
  <2> QED
    BY <2>1, <2>2, SettledKept DEF Settled
<1>19. ASSUME NEW w \in Workers, StartJob(w)
      PROVE  Settled'
  <2>1. /\ UNCHANGED <<work, done, disturbed>> /\ wpc[w] = "job"
        /\ SaveJob(JobOn(w), obj[PushOf(w)])
    BY <1>19 DEF StartJob, history, JobOn
  <2>2. \A j : Opened(j)' = Opened(j) /\ Finished(j)' = Finished(j)
    BY <1>19, <2>1, OpenGoesOn DEF StartJob, OpenSteps, BusySteps
  <2>3. w \in Opened(JobOn(w))
    BY <2>1 DEF Opened, OpenSteps, BusySteps
  <2>4. \A k \in Jobs : k # JobOn(w) => job'[k].status = job[k].status
    BY <2>1, SaveJobStatus DEF TypeOK
  <2> QED
    BY <2>1, <2>2, <2>3, <2>4, SettledKept DEF Settled
<1>20. ASSUME NEW w \in Workers, Progress(w)
      PROVE  Settled'
  <2>1. UNCHANGED <<wpc, work, done, job, disturbed>>
    BY <1>20 DEF Progress, rows, workers, history
  <2> QED
    BY <2>1, OpenKept, SettledKept DEF Settled
<1>21. ASSUME NEW w \in Workers, Execute(w)
      PROVE  Settled'
  <2>1. UNCHANGED <<work, done, job, disturbed>>
    BY <1>21 DEF Execute, rows, workers, history
  <2>2. \A j : Opened(j)' = Opened(j) /\ Finished(j)' = Finished(j)
    BY <1>21, <2>1, OpenGoesOn DEF Execute, OpenSteps, BusySteps
  <2> QED
    BY <2>1, <2>2, SettledKept DEF Settled
<1>22. ASSUME NEW w \in Workers, EndExecution(w)
      PROVE  Settled'
  <2>1. UNCHANGED <<work, done, job, disturbed>>
    BY <1>22 DEF EndExecution, rows, workers, history
  <2>2. \A j : Opened(j)' = Opened(j) /\ Finished(j)' = Finished(j)
    BY <1>22, <2>1, OpenGoesOn DEF EndExecution, OpenSteps, BusySteps
  <2> QED
    BY <2>1, <2>2, SettledKept DEF Settled
<1>23. ASSUME NEW w \in Workers, EndObject(w)
      PROVE  Settled'
  <2>1. UNCHANGED <<work, done, job, disturbed>>
    BY <1>23 DEF EndObject, rows, workers, history
  <2>2. \A j : Opened(j)' = Opened(j) /\ Finished(j)' = Finished(j)
    BY <1>23, <2>1, OpenGoesOn DEF EndObject, OpenSteps, BusySteps
  <2> QED
    BY <2>1, <2>2, SettledKept DEF Settled
<1>24. ASSUME NEW w \in Workers, EndJob(w)
      PROVE  Settled'
  <2>1. /\ UNCHANGED <<work, done, disturbed>> /\ wpc[w] = "settled"
        /\ SaveJob(JobOn(w), obj[PushOf(w)])
    BY <1>24 DEF EndJob, SettleJob, history, JobOn
  <2>2. \A v \in Workers : wpc'[v] = IF v = w THEN "forget" ELSE wpc[v]
    BY <1>24, OneGoes DEF EndJob
  <2>3. \A k \in Jobs : /\ k # JobOn(w) => job'[k].status = job[k].status
                        /\ k = JobOn(w) =>
                               job'[k].status = obj[PushOf(w)].status
    BY <2>1, SaveJobStatus DEF TypeOK
  <2>4. \A k : k # JobOn(w) =>
            /\ Opened(k)' = Opened(k) /\ Finished(k)' = Finished(k)
    BY <2>1, <2>2 DEF Opened, Finished, JobOn, ExecOf
  <2>5. ASSUME NEW k \in Jobs, k = JobOn(w), k \notin disturbed, Opened(k)' = {}
        PROVE  obj[PushOf(w)].status = SettledStatus(k)
    <3>1. ASSUME NEW v \in Workers, PushOf(v) = PushOf(w),
                 wpc[v] \in {"job", "run", "final", "settle"}
          PROVE  FALSE
      <4>1. pushed[PushOf(v)] = JobOn(v) /\ pushed[PushOf(w)] = JobOn(w)
        BY <2>1, <3>1, WorkBelongs DEF BusySteps, JobOn
      <4>2. v # w /\ wpc'[v] = wpc[v]
        BY <2>1, <2>2, <3>1
      <4>3. v \in Opened(k)'
        BY <2>1, <2>5, <3>1, <4>1, <4>2
           DEF Opened, OpenSteps, BusySteps, JobOn, ExecOf
      <4> QED
        BY <2>5, <4>3
    <3> QED
      BY <2>1, <2>5, <3>1 DEF Settling
  <2>6. ASSUME NEW k \in Jobs \ disturbed'
        PROVE  \/ Opened(k)' # {}
               \/ ~Finished(k)'
               \/ job'[k].status = SettledStatus(k)
               \/ /\ job'[k].status = job[k].status
                  /\ Finished(k) /\ Opened(k) = {}
    <3>1. CASE k = JobOn(w)
      BY <2>1, <2>3, <2>5, <2>6, <3>1
    <3>2. CASE k # JobOn(w)
      <4>1. /\ Opened(k)' = Opened(k) /\ Finished(k)' = Finished(k)
            /\ job'[k].status = job[k].status
        BY <2>3, <2>4, <2>6, <3>2
      <4> QED
        BY <4>1
    <3> QED
      BY <3>1, <3>2
  <2> QED
    BY <2>1, <2>6, SettledKept
<1>25. ASSUME NEW w \in Workers, Forget(w)
      PROVE  Settled'
  <2>1. /\ UNCHANGED <<job, disturbed>> /\ wpc[w] = "forget"
        /\ done' = done \cup {work[w]}
    BY <1>25 DEF Forget, rows
  <2>2. \A v \in Workers : /\ v # w => wpc'[v] = wpc[v] /\ work'[v] = work[v]
                           /\ v = w => wpc'[v] = "register"
    BY <1>25, OneGoes DEF Forget, TypeOK
  <2>3. ASSUME NEW j
        PROVE  Opened(j)' = Opened(j)
    <3>1. \A v \in Workers :
              wpc'[v] \in OpenSteps <=> wpc[v] \in OpenSteps
      BY <2>1, <2>2 DEF OpenSteps, BusySteps
    <3>2. \A v \in Workers : wpc[v] \in OpenSteps => work'[v] = work[v]
      BY <2>1, <2>2 DEF OpenSteps
    <3> QED
      BY <3>1, <3>2 DEF Opened, JobOn, ExecOf
  <2>4. ASSUME NEW j, Finished(j)'
        PROVE  Finished(j)
    <3>1. CASE \E q \in done : JobOf[q[2]] = j
      BY <3>1 DEF Finished
    <3>2. CASE JobOf[work[w][2]] = j
      BY <2>1, <3>2 DEF Finished, JobOn, ExecOf
    <3>3. CASE \E v \in Workers : /\ v # w /\ wpc[v] = "forget"
                                  /\ JobOn(v) = j
      BY <3>3 DEF Finished
    <3> QED
      BY <2>1, <2>2, <2>4, <3>1, <3>2, <3>3 DEF Finished, JobOn, ExecOf
  <2> QED
    BY <2>1, <2>3, <2>4, SettledKept DEF Settled
<1>26. ASSUME NEW j \in Jobs, StopLoaded(j)
      PROVE  Settled'
  <2>1. /\ UNCHANGED <<wpc, work, done>> /\ disturbed \subseteq disturbed'
        /\ SaveJob(j, [status |-> "disabled", current |-> None])
        /\ j \in disturbed'
    BY <1>26 DEF StopLoaded, workers
  <2>2. \A k \in Jobs : k # j => job'[k].status = job[k].status
    BY <2>1, SaveJobStatus DEF TypeOK
  <2> QED
    BY <2>1, <2>2, OpenKept, SettledKept DEF Settled
<1>27. ASSUME NEW j \in Jobs, ListJob(j)
      PROVE  Settled'
  <2>1. UNCHANGED <<wpc, work, done, job, disturbed>>
    BY <1>27 DEF ListJob, rows, workers, history
  <2> QED
    BY <2>1, OpenKept, SettledKept DEF Settled
<1>28. ASSUME CheckHealthy
      PROVE  Settled'
  <2>1. UNCHANGED <<wpc, work, done, job, disturbed>>
    BY <1>28 DEF CheckHealthy, rows, workers, history
  <2> QED
    BY <2>1, OpenKept, SettledKept DEF Settled
<1>29. ASSUME MarkJob
      PROVE  Settled'
  <2>1. /\ UNCHANGED <<wpc, work, done>> /\ disturbed \subseteq disturbed'
        /\ SaveJob(check.of, [status |-> "failed", current |-> check.current])
        /\ check.of \in disturbed'
    BY <1>29 DEF MarkJob, workers
  <2>2. \A k \in Jobs : k # check.of => job'[k].status = job[k].status
    BY <2>1, SaveJobStatus DEF TypeOK
  <2> QED
    BY <2>1, <2>2, OpenKept, SettledKept DEF Settled
<1>30. ASSUME MarkExecution
      PROVE  Settled'
  <2>1. UNCHANGED <<wpc, work, done, job, disturbed>>
    BY <1>30 DEF MarkExecution, rows, workers, history
  <2> QED
    BY <2>1, OpenKept, SettledKept DEF Settled
<1>31. ASSUME ClearJob
      PROVE  Settled'
  <2>1. /\ UNCHANGED <<wpc, work, done>> /\ disturbed \subseteq disturbed'
        /\ SaveJob(check.of, [status |-> "failed", current |-> None])
        /\ check.of \in disturbed'
    BY <1>31 DEF ClearJob, workers, history, Disturbing
  <2>2. \A k \in Jobs : k # check.of => job'[k].status = job[k].status
    BY <2>1, SaveJobStatus DEF TypeOK
  <2> QED
    BY <2>1, <2>2, OpenKept, SettledKept DEF Settled
<1>32. ASSUME StopWorkers
      PROVE  Settled'
  <2>1. disturbed' = Jobs
    BY <1>32 DEF StopWorkers, Restart
  <2> QED
    BY <2>1 DEF Settled
<1>33. ASSUME Restart
      PROVE  Settled'
  <2>1. disturbed' = Jobs
    BY <1>33 DEF StopWorkers, Restart
  <2> QED
    BY <2>1 DEF Settled
<1>34. CASE UNCHANGED vars
  <2>1. UNCHANGED <<wpc, work, done, job, disturbed>>
    BY <1>34 DEF vars, rows, workers, history
  <2> QED
    BY <2>1, OpenKept, SettledKept DEF Settled
<1> QED
  BY <1>1, <1>2, <1>3, <1>4, <1>5, <1>6, <1>7, <1>8, <1>9, <1>10, <1>11,
     <1>12, <1>13, <1>14, <1>15, <1>16, <1>17, <1>18, <1>19, <1>20, <1>21,
     <1>22, <1>23, <1>24, <1>25, <1>26, <1>27, <1>28, <1>29, <1>30, <1>31,
     <1>32, <1>33, <1>34 DEF Next, SaveStep, PushStep, StopStep, DispatchStep,
     WorkStep, CheckStep

-----------------------------------------------------------------------------
(***************************************************************************)
(* The theorems                                                            *)
(***************************************************************************)

\* Nothing is registered, in flight or written at the start.
LEMMA InitHolds == Init => IInv
<1> SUFFICES ASSUME Init
             PROVE  IInv
  OBVIOUS
<1>1. TypeOK
  <2>1. obj \in [Pushes -> JobRow] /\ job \in [Jobs -> JobRow]
    BY DEF Init, NewObjects, JobRow, JobStatuses
  <2>2. ex \in [Execs -> ExRow]
    BY DEF Init, ExRow, ExStatuses
  <2>3. save \in [Savers -> SaveRow]
    BY DEF Init, NoSave, SaveRow, JobStatuses
  <2>4. stop \in [Pushes -> StopRow]
    BY DEF Init, NoStop, StopRow
  <2>5. /\ queue \in Seq(Requests) /\ Len(queue) <= QueueCap
        /\ pool \in Seq(Workers)
    BY QueueCapAssumption DEF Init
  <2>6. faults \in 0..MaxFaults
    BY MaxFaultsAssumption DEF Init
  <2>7. result \in [Workers -> ExStatuses]
    BY DEF Init, ExStatuses
  <2> QED
    BY <2>1, <2>2, <2>3, <2>4, <2>5, <2>6, <2>7
       DEF Init, TypeOK, SaveRow, StopRow, NoWork, NoCheck
<1>2. Shape
  BY DEF Init, Shape, NoWork, NoStop, NoCheck, BusySteps
<1>3. Range(<<>>) = {} /\ IsInjective(<<>>)
  BY DEF Range, IsInjective
<1>4. PoolHoldsIdle
  BY <1>3 DEF Init, PoolHoldsIdle, NoWork
<1>5. InFlight = {None}
  <2>1. InFlight \subseteq {None} /\ disp.held \in InFlight /\ disp.held = None
    BY <1>3 DEF Init, InFlight, NoWork
  <2> QED
    BY <2>1
<1>6. None \notin Requests
  BY NoneAssumption DEF Requests
<1>7. HandledOnce /\ Fresh
  BY <1>3, <1>5 DEF Init, HandledOnce, Fresh, NoWork
<1>8. Belong
  BY <1>5, <1>6 DEF Init, Belong, NoStop
<1>9. Currents
  BY DEF Init, Currents, NewObjects, NoCheck
<1>10. Disturbing
  BY DEF Init, Disturbing, NoStop, NoCheck, NoSave
<1>11. Saving
  BY DEF Init, Saving, NoSave, Savers
<1>12. Settling /\ Settled
  BY DEF Init, Settling, Settled, Finished
<1> QED
  BY <1>1, <1>2, <1>4, <1>7, <1>8, <1>9, <1>10, <1>11, <1>12 DEF IInv, Rest

\* Every step keeps the inductive invariant.
LEMMA StepHolds == IInv /\ [Next]_vars => IInv'
<1> SUFFICES ASSUME IInv, [Next]_vars
             PROVE  IInv'
  OBVIOUS
<1> USE DEF IInv, Rest
<1>1. TypeOK' /\ Shape' /\ PoolHoldsIdle'
  BY TypeStep, ShapeStep, PoolStep
<1>2. HandledOnce' /\ Fresh' /\ Carried
  BY PlacesStep
<1>3. Belong' /\ Currents'
  BY <1>2, BelongStep, CurrentsStep
<1>4. Disturbing' /\ Saving'
  BY DisturbingStep, SavingStep
<1>5. Settling' /\ Settled'
  BY SettlingStep, SettledStep
<1> QED
  BY <1>1, <1>2, <1>3, <1>4, <1>5

\* The invariant holds in every state that is reached.
LEMMA Inductive == Spec => []IInv
BY InitHolds, StepHolds, PTL DEF Spec

\* Every variable holds values of its kind.
THEOREM TypeCorrect == Spec => []TypeOK
<1>1. IInv => TypeOK
  BY DEF IInv
<1> QED
  BY <1>1, Inductive, PTL

\* The dispatcher's send never waits for work in hand: whatever it takes from
\* the pool is waiting to receive, and a worker is in the pool once.
THEOREM PoolIdle == Spec => []PoolHoldsIdle
<1>1. IInv => PoolHoldsIdle
  BY DEF IInv
<1> QED
  BY <1>1, Inductive, PTL

\* A request is sent, queued, held or worked on, once, and is over when it was
\* processed.
THEOREM RequestsHandledOnce == Spec => []HandledOnce
<1>1. IInv => HandledOnce
  BY DEF IInv
<1> QED
  BY <1>1, Inductive, PTL

\* The last worker of a job that nobody else wrote leaves it in the status
\* processWork ends with: no count of updateJobProgress is written after it.
THEOREM JobsSettle == Spec => []JobSettles
<1>1. IInv => JobSettles
  <2> SUFFICES ASSUME IInv, NEW j \in Jobs \ disturbed,
                      \E q \in done : JobOf[q[2]] = j,
                      \A q \in InFlight \ {None} : JobOf[q[2]] # j
               PROVE  job[j].status = SettledStatus(j)
    BY DEF JobSettles
  <2>1. Finished(j)
    BY DEF Finished
  <2>2. Opened(j) = {}
    <3> SUFFICES ASSUME NEW w \in Workers, wpc[w] \in OpenSteps, JobOn(w) = j
                 PROVE  FALSE
      BY DEF Opened
    <3>1. work[w] \in Requests /\ work[w] \in InFlight
      BY DEF IInv, Shape, OpenSteps, InFlight
    <3>2. work[w] # None
      BY <3>1, NoneAssumption DEF Requests
    <3> QED
      BY <3>1, <3>2 DEF JobOn, ExecOf
  <2> QED
    BY <2>1, <2>2 DEF IInv, Rest, Settled
<1> QED
  BY <1>1, Inductive, PTL

-----------------------------------------------------------------------------
(***************************************************************************)
(* The course of an execution                                              *)
(***************************************************************************)

\* Where a request is that no worker has taken up.
Ahead == sending \cup Range(queue) \cup {disp.held}

\* What the row of its execution says while w works on it.
RowFits(w) ==
    LET row == ex[ExecOf(w)] IN
    /\ wpc[w] = "start" => row.status = "queued"
    /\ wpc[w] \in {"object", "job", "run"} =>
           row.status = "running" /\ row.worker = w
    /\ wpc[w] = "final" =>
           /\ row.worker = w
           /\ result[w] \in {"completed", "failed", "cancelled"}
           /\ \/ row.status = result[w]
              \/ row.status = "running" /\ result[w] = "failed"
    /\ wpc[w] \in {"settle", "settled", "forget"} =>
           row.worker = w /\ row.status = FinalStatus(result[w])

\* An execution no worker has taken up: its job was not pushed, or the push has
\* still to submit it, or its request is on its way.
Unstarted(e) ==
    \/ \A p \in Pushes : pushed[p] # JobOf[e]
    \/ \E p \in Pushes : e \in pushing[p] \/ <<p, e>> \in Ahead

\* An execution of a job that only its workers write is queued until a worker
\* takes it up, and then says how far this worker has come.
Waits ==
    \A e \in Execs : JobOf[e] \notin disturbed /\ Unstarted(e) =>
                         ex[e].status = "queued"
Fits ==
    \A w \in Workers : wpc[w] \in BusySteps /\ JobOn(w) \notin disturbed => RowFits(w)
Course == Waits /\ Fits

\* Once disturbed, a job stays so.
LEMMA DisturbedGrows ==
    ASSUME TypeOK, [Next]_vars
    PROVE  disturbed \subseteq disturbed'
<1>1. ASSUME NEW s \in Savers, SaveStep(s)
      PROVE  disturbed' = disturbed
  BY <1>1 DEF SaveStep, Count, Tell, history
<1>2. ASSUME NEW p \in Pushes,
             (\E j \in Jobs : Push(p, j)) \/ PushStep(p) \/ Stop(p)
      PROVE  disturbed \subseteq disturbed'
  BY <1>2 DEF Push, PushStep, Submit, Stop, history
<1>3. ASSUME NEW p \in Pushes, StopStep(p)
      PROVE  disturbed' = disturbed
  BY <1>3 DEF StopStep, StopCancel, StopRead, StopWrite, StopEnd, history
<1>4. ASSUME NEW q \in Requests, Send(q)
      PROVE  disturbed' = disturbed
  BY <1>4 DEF Send, history
<1>5. CASE DispatchStep
  BY <1>5 DEF DispatchStep, TakeWork, TakeWorker, GiveWork, DispatcherQuits,
     history
<1>6. ASSUME NEW w \in Workers, WorkStep(w) \/ Progress(w)
      PROVE  disturbed' = disturbed
  BY <1>6 DEF WorkStep, Progress, Register, WorkerQuits, StartExecution,
     StartObject, StartJob, Execute, EndExecution, EndObject, EndJob, Forget,
     history
<1>7. ASSUME NEW j \in Jobs, StopLoaded(j) \/ ListJob(j)
      PROVE  disturbed \subseteq disturbed'
  BY <1>7 DEF StopLoaded, ListJob, history
<1>8. CASE CheckStep
  BY <1>8 DEF CheckStep, CheckHealthy, MarkJob, MarkExecution, ClearJob, history
<1>9. CASE StopWorkers \/ Restart
  BY <1>9 DEF StopWorkers, Restart, TypeOK
<1>10. CASE UNCHANGED vars
  BY <1>10 DEF vars, history
<1> QED
  BY <1>1, <1>2, <1>3, <1>4, <1>5, <1>6, <1>7, <1>8, <1>9, <1>10 DEF Next

\* The only one who works on an execution of an undisturbed job: no other
\* worker does, and no request for it is on its way.
LEMMA Alone ==
    ASSUME IInv, NEW w \in Workers, wpc[w] \in BusySteps,
           JobOn(w) \notin disturbed
    PROVE  /\ ExecOf(w) \in Execs /\ ~Unstarted(ExecOf(w))
           /\ \A v \in Workers : wpc[v] \in BusySteps /\ ExecOf(v) = ExecOf(w) =>
                  v = w
<1> USE DEF IInv, Rest
<1> DEFINE e == ExecOf(w)
           p == PushOf(w)
<1>1. work[w] \in Requests /\ work[w] # None
  BY NoneAssumption DEF Shape, Requests
<1>2. p \in Pushes /\ e \in Execs /\ work[w] = <<p, e>>
  BY <1>1 DEF Requests, PushOf, ExecOf
<1>3. pushed[p] = JobOf[e] /\ JobOf[e] \in Jobs
  BY <1>1, <1>2, JobOfAssumption DEF Belong, InFlight, PushOf, ExecOf
<1>4. ASSUME NEW o \in Pushes, pushed[o] = JobOf[e]
      PROVE  o = p
  BY <1>2, <1>3, <1>4, NoneAssumption DEF Disturbing, JobOn
<1>5. ASSUME NEW o \in Pushes, e \in pushing[o] \/ <<o, e>> \in Ahead
      PROVE  FALSE
  <2>1. CASE e \in pushing[o]
    <3>1. o = p
      BY <1>4, <2>1 DEF Belong
    <3> QED
      BY <1>1, <1>2, <2>1, <3>1 DEF Fresh, InFlight
  <2>2. CASE <<o, e>> \in Ahead
    <3>1. <<o, e>> \in Requests /\ <<o, e>> \in InFlight
      BY <1>2, <2>2 DEF Requests, Ahead, InFlight
    <3>2. pushed[o] = JobOf[e]
      BY <3>1 DEF Belong
    <3> QED
      BY <1>1, <1>2, <1>4, <2>2, <3>2 DEF HandledOnce, Ahead
  <2> QED
    BY <1>5, <2>1, <2>2
<1>6. ASSUME NEW v \in Workers, wpc[v] \in BusySteps, ExecOf(v) = e, v # w
      PROVE  FALSE
  <2>1. work[v] \in Requests
    BY <1>6 DEF Shape
  <2>2. PushOf(v) \in Pushes /\ work[v] = <<PushOf(v), e>>
    BY <1>6, <2>1 DEF Requests, PushOf, ExecOf
  <2>3. pushed[PushOf(v)] = JobOf[e]
    BY <1>6, <2>1 DEF Belong, InFlight, PushOf, ExecOf
  <2>4. work[v] = work[w]
    BY <1>2, <1>4, <2>2, <2>3
  <2> QED
    BY <1>1, <1>6, <2>4 DEF HandledOnce
<1> QED
  BY <1>2, <1>3, <1>5, <1>6 DEF Unstarted

\* Nothing is on its way that was not, or had not been submitted before.
LEMMA UnstartedStays ==
    ASSUME IInv, [Next]_vars, NEW e \in Execs, JobOf[e] \notin disturbed',
           Unstarted(e)'
    PROVE  Unstarted(e)
<1> USE DEF IInv
<1>0. JobOf[e] \in Jobs /\ JobOf[e] # None
  BY JobOfAssumption, NoneAssumption
<1>1. CASE UNCHANGED <<pushed, pushing, sending, queue>> /\ disp'.held = disp.held
  BY <1>1 DEF Unstarted, Ahead
<1>2. ASSUME NEW s \in Savers, SaveStep(s)
      PROVE  Unstarted(e)
  BY <1>1, <1>2 DEF SaveStep, Count, Tell, objects, channels
<1>3. ASSUME NEW p \in Pushes, NEW j \in Jobs, Push(p, j)
      PROVE  Unstarted(e)
  <2>1. /\ pushed[p] = None /\ Ahead' = Ahead
        /\ (\E o \in Pushes : pushed[o] = j) => j \in disturbed'
    BY <1>3 DEF Push, channels, Ahead
  <2>2. /\ \A o \in Pushes : pushed'[o] = IF o = p THEN j ELSE pushed[o]
        /\ \A o \in Pushes : o # p => pushing'[o] = pushing[o]
    BY <1>3 DEF Push, TypeOK
  <2>3. pushing'[p] = ExecsOf(j)
    BY <1>3 DEF Push, TypeOK
  <2>4. CASE JobOf[e] = j
    BY <2>1, <2>4 DEF Unstarted
  <2>5. CASE JobOf[e] # j
    BY <1>0, <2>1, <2>2, <2>3, <2>5 DEF Unstarted, ExecsOf
  <2> QED
    BY <2>4, <2>5
<1>4. ASSUME NEW p \in Pushes, NEW f \in Execs, Submit(p, f)
      PROVE  Unstarted(e)
  <2>1. /\ UNCHANGED <<pushed, queue, disp>> /\ f \in pushing[p]
        /\ sending' \subseteq sending \cup {<<p, f>>}
    BY <1>4 DEF Submit
  <2>2. \A o \in Pushes : pushing'[o] \subseteq pushing[o]
    BY <1>4 DEF Submit, TypeOK
  <2>3. Ahead' \subseteq Ahead \cup {<<p, f>>}
    BY <2>1 DEF Ahead
  <2> QED
    BY <2>1, <2>2, <2>3 DEF Unstarted
<1>5. ASSUME NEW p \in Pushes, Stop(p) \/ StopStep(p)
      PROVE  Unstarted(e)
  BY <1>1, <1>5 DEF Stop, StopStep, StopCancel, StopRead, StopWrite, StopEnd,
     objects, channels
<1>6. ASSUME NEW q \in Requests, Send(q)
      PROVE  Unstarted(e)
  <2>1. /\ UNCHANGED <<pushed, pushing, disp>> /\ q \in sending
        /\ sending' \subseteq sending
        /\ queue' = queue \/ queue' = Append(queue, q)
    BY <1>6 DEF Send, objects
  <2>2. Range(Append(queue, q)) = Range(queue) \cup {q}
    <3>1. queue \in Seq(Requests)
      BY DEF TypeOK
    <3> QED
      BY <3>1, AppendHolds
  <2>3. CASE queue' = queue
    BY <2>1, <2>3 DEF Unstarted, Ahead
  <2>4. CASE queue' = Append(queue, q)
    <3>1. Ahead' \subseteq Ahead
      BY <2>1, <2>2, <2>4 DEF Ahead
    <3> QED
      BY <2>1, <3>1 DEF Unstarted
  <2> QED
    BY <2>1, <2>3, <2>4
<1>7. CASE TakeWork
  <2>1. /\ UNCHANGED <<pushed, pushing, sending>> /\ queue # <<>>
        /\ queue' = Tail(queue) /\ disp'.held = Head(queue)
    BY <1>7 DEF TakeWork, Holding, Held, NoWork, objects
  <2>2. Range(queue) = {Head(queue)} \cup Range(Tail(queue))
    BY <2>1, HeadLeaves DEF TypeOK
  <2>3. Ahead' \subseteq Ahead
    BY <2>1, <2>2 DEF Ahead
  <2> QED
    BY <2>1, <2>3 DEF Unstarted
<1>8. CASE GiveWork
  <2>1. /\ UNCHANGED <<pushed, pushing, sending, queue>> /\ disp'.held = None
    BY <1>8 DEF GiveWork, Relieved, NoWork, objects
  <2>2. ASSUME NEW o \in Pushes
        PROVE  <<o, e>> # None
    BY NoneAssumption
  <2> QED
    BY <2>1, <2>2 DEF Unstarted, Ahead
<1>9. CASE TakeWorker \/ DispatcherQuits
  BY <1>1, <1>9 DEF TakeWorker, DispatcherQuits, objects, TypeOK
<1>10. ASSUME NEW w \in Workers, WorkStep(w) \/ Progress(w)
      PROVE  Unstarted(e)
  BY <1>1, <1>10 DEF WorkStep, Progress, Register, WorkerQuits, StartExecution,
     StartObject, StartJob, Execute, EndExecution, EndObject, EndJob, Forget,
     objects, channels
<1>11. ASSUME NEW j \in Jobs, StopLoaded(j) \/ ListJob(j)
       PROVE  Unstarted(e)
  BY <1>1, <1>11 DEF StopLoaded, ListJob, objects, channels
<1>12. CASE CheckStep
  BY <1>1, <1>12 DEF CheckStep, CheckHealthy, MarkJob, MarkExecution, ClearJob,
     objects, channels
<1>13. CASE StopWorkers \/ Restart
  BY <1>0, <1>13 DEF StopWorkers, Restart
<1>14. CASE UNCHANGED vars
  BY <1>1, <1>14 DEF vars, objects, channels
<1> QED
  BY <1>2, <1>3, <1>4, <1>5, <1>6, <1>7, <1>8, <1>9, <1>10, <1>11, <1>12, <1>13,
     <1>14 DEF Next, PushStep, DispatchStep

\* The steps of a worker that write the row of its execution.
Writes(w) == StartExecution(w) \/ Progress(w) \/ Execute(w) \/ EndExecution(w)

\* Only they write the row of an execution whose job is not disturbed.
LEMMA RowWritten ==
    ASSUME IInv, [Next]_vars, NEW e \in Execs, JobOf[e] \notin disturbed',
           ex'[e] # ex[e]
    PROVE  \E w \in Workers :
               ExecOf(w) = e /\ wpc[w] \in BusySteps /\ Writes(w)
<1> USE DEF IInv, Rest
<1>0. JobOf[e] \notin disturbed /\ JobOf[e] \in Jobs
  BY DisturbedGrows, JobOfAssumption
<1>1. ASSUME NEW s \in Savers, SaveStep(s)
      PROVE  FALSE
  BY <1>1 DEF SaveStep, Count, Tell, rows
<1>2. ASSUME NEW p \in Pushes,
             (\E j \in Jobs : Push(p, j)) \/ PushStep(p) \/ Stop(p)
      PROVE  FALSE
  BY <1>2 DEF Push, PushStep, Submit, Stop, rows
<1>3. ASSUME NEW p \in Pushes, StopStep(p)
      PROVE  FALSE
  <2>1. StopWrite(p)
    BY <1>3 DEF StopStep, StopCancel, StopRead, StopEnd, rows
  <2>2. stop[p].step = "write" /\ e = stop[p].at
    BY <2>1 DEF StopWrite, SaveStatus, SaveExecution, TypeOK
  <2> QED
    BY <1>0, <2>2 DEF Belong, Disturbing
<1>4. ASSUME NEW q \in Requests, Send(q)
      PROVE  FALSE
  BY <1>4 DEF Send, rows
<1>5. CASE DispatchStep
  BY <1>5 DEF DispatchStep, TakeWork, TakeWorker, GiveWork, DispatcherQuits,
     rows
<1>6. ASSUME NEW w \in Workers, WorkStep(w) \/ Progress(w)
      PROVE  ExecOf(w) = e /\ wpc[w] \in BusySteps /\ Writes(w)
  <2>1. Writes(w)
    BY <1>6 DEF Writes, WorkStep, Register, WorkerQuits, StartObject, StartJob,
       EndObject, EndJob, Forget, rows
  <2>2. wpc[w] \in BusySteps
    BY <2>1 DEF Writes, StartExecution, Progress, Execute, EndExecution,
       BusySteps
  <2>3. \E row : ex' = [ex EXCEPT ![ExecOf(w)] = row]
    BY <2>1 DEF Writes, StartExecution, Progress, Execute, EndExecution,
       SaveExecution
  <2> QED
    BY <2>1, <2>2, <2>3 DEF TypeOK
<1>7. ASSUME NEW j \in Jobs, StopLoaded(j) \/ ListJob(j)
      PROVE  FALSE
  BY <1>7 DEF StopLoaded, ListJob, rows
<1>8. CASE CheckStep
  <2>1. MarkExecution
    BY <1>8 DEF CheckStep, CheckHealthy, MarkJob, ClearJob, rows
  <2>2. check.step = "mark" /\ e = check.current
    BY <2>1 DEF MarkExecution, SaveStatus, SaveExecution, TypeOK
  <2>3. check.current # None
    BY <2>2, NoneAssumption
  <2> QED
    BY <1>0, <2>2, <2>3 DEF Currents, Disturbing
<1>9. CASE StopWorkers \/ Restart
  BY <1>0, <1>9 DEF StopWorkers, Restart
<1>10. CASE UNCHANGED vars
  BY <1>10 DEF vars, rows
<1> QED
  BY <1>1, <1>2, <1>3, <1>4, <1>5, <1>6, <1>7, <1>8, <1>9, <1>10 DEF Next

\* The steps that take a worker from one step of processWork to the next.
Advances(w) ==
    \/ StartExecution(w) \/ StartObject(w) \/ StartJob(w) \/ Execute(w)
    \/ EndExecution(w) \/ EndObject(w) \/ EndJob(w)

\* A busy worker has gone on, or stayed where it was, or was given its work.
LEMMA WorkerMoves ==
    ASSUME IInv, [Next]_vars, NEW w \in Workers, wpc'[w] \in BusySteps
    PROVE  \/ GiveWork /\ wpc'[w] = "start" /\ work'[w] = disp.held
           \/ /\ wpc[w] \in BusySteps /\ work'[w] = work[w]
              /\ \/ wpc'[w] = wpc[w] /\ result'[w] = result[w]
                 \/ Advances(w)
<1> USE DEF IInv
<1>1. CASE UNCHANGED <<wpc, work, result>>
  BY <1>1
<1>2. ASSUME NEW s \in Savers, SaveStep(s)
      PROVE  UNCHANGED <<wpc, work, result>>
  BY <1>2 DEF SaveStep, Count, Tell, workers
<1>3. ASSUME NEW p \in Pushes, (\E j \in Jobs : Push(p, j)) \/ PushStep(p)
      PROVE  UNCHANGED <<wpc, work, result>>
  BY <1>3 DEF Push, PushStep, Submit, workers
<1>4. ASSUME NEW p \in Pushes, Stop(p) \/ StopStep(p)
      PROVE  UNCHANGED <<wpc, work, result>>
  BY <1>4 DEF Stop, StopStep, StopCancel, StopRead, StopWrite, StopEnd, workers
<1>5. ASSUME NEW q \in Requests, Send(q)
      PROVE  UNCHANGED <<wpc, work, result>>
  BY <1>5 DEF Send, workers
<1>6. CASE TakeWork \/ TakeWorker \/ DispatcherQuits
  BY <1>6 DEF TakeWork, TakeWorker, DispatcherQuits, workers
<1>7. CASE GiveWork
  <2>1. /\ UNCHANGED result /\ disp.step = "give"
        /\ wpc' = [wpc EXCEPT ![disp.to] = "start"]
        /\ work' = [work EXCEPT ![disp.to] = disp.held]
    BY <1>7 DEF GiveWork
  <2>2. /\ wpc \in [Workers -> Range(wpc)]
        /\ work \in [Workers -> Requests \cup {None}]
    BY DEF TypeOK, Range
  <2>3. CASE disp.to = w
    BY <1>7, <2>1, <2>2, <2>3
  <2>4. CASE disp.to # w
    BY <2>1, <2>2, <2>4
  <2> QED
    BY <2>3, <2>4
<1>8. ASSUME NEW v \in Workers, WorkStep(v) \/ Progress(v), v # w
      PROVE  wpc'[w] = wpc[w] /\ work'[w] = work[w] /\ result'[w] = result[w]
  BY <1>8 DEF WorkStep, Progress, Register, WorkerQuits, StartExecution,
     StartObject, StartJob, Execute, EndExecution, EndObject, EndJob, Forget,
     WorkerGoto, workers, TypeOK
<1>9. CASE Progress(w)
  BY <1>9 DEF Progress, workers
<1>10. CASE Register(w) \/ WorkerQuits(w) \/ Forget(w)
  BY <1>10 DEF Register, WorkerQuits, Forget, WorkerGoto, BusySteps, TypeOK
<1>11. CASE Advances(w)
  BY <1>11 DEF Advances, StartExecution, StartObject, StartJob, Execute,
     EndExecution, EndObject, EndJob, BusySteps
<1>12. ASSUME NEW j \in Jobs, StopLoaded(j) \/ ListJob(j)
       PROVE  UNCHANGED <<wpc, work, result>>
  BY <1>12 DEF StopLoaded, ListJob, workers
<1>13. CASE CheckStep
  BY <1>13 DEF CheckStep, CheckHealthy, MarkJob, MarkExecution, ClearJob, workers
<1>14. CASE StopWorkers
  BY <1>14 DEF StopWorkers
<1>15. CASE Restart
  BY <1>15 DEF Restart, BusySteps
<1>16. CASE UNCHANGED vars
  BY <1>16 DEF vars, workers
<1> QED
  BY <1>1, <1>2, <1>3, <1>4, <1>5, <1>6, <1>7, <1>8, <1>9, <1>10, <1>11, <1>12,
     <1>13, <1>14, <1>15, <1>16 DEF Next, DispatchStep, WorkStep, Advances

\* Whoever is about to write the row of an execution of an undisturbed job has
\* it in the state it left it in.
LEMMA FitsStep ==
    ASSUME IInv, Course, [Next]_vars,
           NEW w \in Workers, wpc'[w] \in BusySteps, JobOn(w)' \notin disturbed'
    PROVE  RowFits(w)'
<1> USE DEF IInv
<1>1. disturbed \subseteq disturbed'
  BY DisturbedGrows
<1>2. CASE GiveWork /\ wpc'[w] = "start" /\ work'[w] = disp.held
  <2> DEFINE e == ExecOf(w)'
  <2>1. disp.held \in Requests /\ e = disp.held[2]
    BY <1>2 DEF GiveWork, Shape, ExecOf
  <2>2. disp.held = <<disp.held[1], e>> /\ disp.held[1] \in Pushes /\ e \in Execs
    BY <2>1 DEF Requests
  <2>3. Unstarted(e) /\ JobOf[e] \notin disturbed
    BY <1>1, <2>2 DEF Unstarted, Ahead, JobOn
  <2>4. ex[e].status = "queued" /\ ex' = ex
    BY <1>2, <2>2, <2>3 DEF Course, Waits, GiveWork, rows
  <2> QED
    BY <1>2, <2>4 DEF RowFits
<1>3. ASSUME wpc[w] \in BusySteps, work'[w] = work[w],
             \/ wpc'[w] = wpc[w] /\ result'[w] = result[w]
             \/ Advances(w)
      PROVE  RowFits(w)'
  <2> DEFINE e == ExecOf(w)
  <2>1. e = ExecOf(w)' /\ JobOf[e] \notin disturbed' /\ JobOn(w) \notin disturbed
    BY <1>1, <1>3 DEF JobOn, ExecOf
  <2>2. RowFits(w) /\ e \in Execs
    BY <1>3, <2>1, Alone DEF Course, Fits
  <2>3. CASE StartExecution(w) \/ Progress(w)
    <3>1. ex'[e] = [status |-> "running", worker |-> w]
      BY <2>2, <2>3 DEF StartExecution, Progress, SaveExecution, TypeOK
    <3>2. wpc'[w] \in {"object", "run"}
      BY <2>3 DEF StartExecution, Progress, WorkerGoto, workers, TypeOK
    <3> QED
      BY <2>1, <3>1, <3>2 DEF RowFits
  <2>4. CASE Execute(w)
    <3>1. PICK r \in {"completed", "failed", "cancelled"} :
              /\ result' = [result EXCEPT ![w] = r]
              /\ \/ SaveExecution(w, e, [status |-> r, worker |-> w])
                 \/ r = "failed" /\ UNCHANGED <<ex, save>>
      BY <2>4 DEF Execute
    <3>2. result'[w] = r /\ wpc'[w] = "final" /\ wpc[w] = "run"
      BY <2>4, <3>1 DEF Execute, WorkerGoto, TypeOK
    <3>3. CASE ex' = ex
      BY <2>1, <2>2, <3>1, <3>2, <3>3 DEF RowFits, SaveExecution, TypeOK
    <3>4. CASE SaveExecution(w, e, [status |-> r, worker |-> w])
      <4>1. ex'[e] = [status |-> r, worker |-> w]
        BY <2>2, <3>4 DEF SaveExecution, TypeOK
      <4> QED
        BY <2>1, <3>2, <4>1 DEF RowFits
    <3> QED
      BY <3>1, <3>3, <3>4
  <2>5. CASE EndExecution(w)
    <3>1. ex'[e] = [status |-> FinalStatus(result[w]), worker |-> w]
      BY <2>2, <2>5 DEF EndExecution, SaveExecution, TypeOK
    <3>2. wpc'[w] = "settle" /\ result' = result
      BY <2>5 DEF EndExecution, WorkerGoto, TypeOK
    <3> QED
      BY <2>1, <3>1, <3>2 DEF RowFits
  <2>6. CASE ~Writes(w)
    <3>1. ex'[e] = ex[e]
      <4> SUFFICES ASSUME ex'[e] # ex[e]
                   PROVE  FALSE
        OBVIOUS
      <4>1. PICK v \in Workers : ExecOf(v) = e /\ wpc[v] \in BusySteps /\ Writes(v)
        BY <2>1, <2>2, RowWritten
      <4>2. v = w
        BY <1>3, <2>1, <4>1, Alone
      <4> QED
        BY <2>6, <4>1, <4>2
    <3>2. CASE wpc'[w] = wpc[w] /\ result'[w] = result[w]
      BY <2>1, <2>2, <3>1, <3>2 DEF RowFits
    <3>3. CASE StartObject(w) \/ StartJob(w)
      <4>1. wpc[w] \in {"object", "job"} /\ wpc'[w] \in {"job", "run"}
        BY <3>3 DEF StartObject, StartJob, WorkerGoto, TypeOK
      <4> QED
        BY <2>1, <2>2, <3>1, <4>1 DEF RowFits
    <3>4. CASE EndObject(w) \/ EndJob(w)
      <4>1. /\ wpc[w] \in {"settle", "settled"} /\ wpc'[w] \in {"settled", "forget"}
            /\ result' = result
        BY <3>4 DEF EndObject, EndJob, WorkerGoto, TypeOK
      <4> QED
        BY <2>1, <2>2, <3>1, <4>1 DEF RowFits
    <3> QED
      BY <1>3, <2>6, <3>2, <3>3, <3>4 DEF Advances, Writes
  <2> QED
    BY <2>3, <2>4, <2>5, <2>6 DEF Writes
<1> QED
  BY <1>2, <1>3, WorkerMoves

\* Every step keeps the course of the executions.
LEMMA CourseStep ==
    ASSUME IInv, Course, [Next]_vars
    PROVE  Course'
<1>1. ASSUME NEW e \in Execs, JobOf[e] \notin disturbed', Unstarted(e)'
      PROVE  ex'[e].status = "queued"
  <2>1. Unstarted(e) /\ JobOf[e] \notin disturbed
    BY <1>1, UnstartedStays, DisturbedGrows DEF IInv
  <2>2. ex[e].status = "queued"
    BY <2>1 DEF Course, Waits
  <2>3. CASE ex'[e] # ex[e]
    <3>1. PICK w \in Workers : ExecOf(w) = e /\ wpc[w] \in BusySteps
      BY <1>1, <2>3, RowWritten
    <3> QED
      BY <2>1, <3>1, Alone DEF JobOn
  <2> QED
    BY <2>2, <2>3
<1>2. Waits'
  BY <1>1 DEF Waits
<1>3. Fits'
  BY FitsStep DEF Fits
<1> QED
  BY <1>2, <1>3 DEF Course

\* Executions begin queued, and no worker is busy.
LEMMA CourseBegins == Init => Course
BY DEF Init, Course, Waits, Fits, BusySteps

\* What RunsOnce says of one step and one execution.
RunsOn(e) ==
    \E w \in Workers :
        /\ work[w] # None /\ ExecOf(w) = e /\ ex'[e].worker = w
        /\ \/ ex[e].status = "queued" /\ ex'[e].status = "running"
           \/ /\ ex[e].worker = w
              /\ \/ /\ ex[e].status = "running"
                    /\ ex'[e].status \in {"completed", "failed", "cancelled"}
                 \/ ex[e].status = "cancelled" /\ ex'[e].status = "failed"

\* Whoever writes the row of an execution carries on from where it was.
LEMMA RowGoesOn ==
    ASSUME IInv, Course, [Next]_vars, NEW e \in Execs,
           JobOf[e] \notin disturbed', ex'[e] # ex[e]
    PROVE  RunsOn(e)
<1> USE DEF IInv
<1>1. PICK w \in Workers : ExecOf(w) = e /\ wpc[w] \in BusySteps /\ Writes(w)
  BY RowWritten
<1>2. RowFits(w) /\ work[w] # None
  <2>1. JobOn(w) \notin disturbed
    BY <1>1, DisturbedGrows DEF JobOn
  <2> QED
    BY <1>1, <2>1, NoneAssumption DEF Course, Fits, Shape, Requests
<1>3. CASE StartExecution(w)
  <2>1. ex'[e] = [status |-> "running", worker |-> w] /\ wpc[w] = "start"
    BY <1>1, <1>3 DEF StartExecution, SaveExecution, TypeOK
  <2> QED
    BY <1>1, <1>2, <2>1 DEF RowFits, RunsOn
<1>4. CASE Progress(w)
  <2>1. ex'[e] = [status |-> "running", worker |-> w] /\ wpc[w] = "run"
    BY <1>1, <1>4 DEF Progress, SaveExecution, TypeOK
  <2>2. ex[e].status = "running" /\ ex[e].worker = w /\ ex[e] \in ExRow
    BY <1>1, <1>2, <2>1 DEF RowFits, TypeOK
  <2>3. ex[e] = [status |-> "running", worker |-> w]
    BY <2>2 DEF ExRow
  <2> QED
    BY <2>1, <2>3
<1>5. CASE Execute(w)
  <2>1. PICK r \in {"completed", "failed", "cancelled"} :
            SaveExecution(w, e, [status |-> r, worker |-> w])
    BY <1>1, <1>5 DEF Execute
  <2>2. ex'[e] = [status |-> r, worker |-> w] /\ wpc[w] = "run"
    BY <1>5, <2>1 DEF Execute, SaveExecution, TypeOK
  <2> QED
    BY <1>1, <1>2, <2>2 DEF RowFits, RunsOn
<1>6. CASE EndExecution(w)
  <2>1. /\ ex'[e] = [status |-> FinalStatus(result[w]), worker |-> w]
        /\ wpc[w] = "final" /\ ex[e] \in ExRow
    BY <1>1, <1>6 DEF EndExecution, SaveExecution, TypeOK
  <2>2. ex[e] = [status |-> ex[e].status, worker |-> ex[e].worker]
    BY <2>1 DEF ExRow
  <2>3. /\ ex[e].worker = w
        /\ result[w] \in {"completed", "failed", "cancelled"}
        /\ \/ ex[e].status = result[w]
           \/ ex[e].status = "running" /\ result[w] = "failed"
    BY <1>1, <1>2, <2>1 DEF RowFits
  <2>4. ex[e].status # FinalStatus(result[w])
    BY <2>1, <2>2, <2>3
  <2>5. ex[e].status \in {"cancelled", "running"} /\ result[w] # "completed"
    BY <2>3, <2>4 DEF FinalStatus
  <2>6. ex'[e].worker = w /\ ex'[e].status = "failed"
    BY <2>1, <2>5 DEF FinalStatus
  <2> QED
    BY <1>1, <1>2, <2>3, <2>5, <2>6 DEF RunsOn
<1> QED
  BY <1>1, <1>3, <1>4, <1>5, <1>6 DEF Writes

\* An execution is run once, by one worker, whatever else is reported, counted
\* or pushed: processWork writes its row from queued to running, to what the
\* run came to and to what it ends as, as long as no stop, second push, health
\* check or end of the manager disturbs its job.
THEOREM ExecutionsRunOnce == Spec => RunsOnce
<1>1. IInv /\ Course /\ [Next]_vars => Course'
  BY CourseStep
<1>2. Spec => []Course
  BY <1>1, CourseBegins, Inductive, PTL DEF Spec
<1>3. ASSUME IInv, Course, [Next]_vars, NEW e \in Execs,
             JobOf[e] \notin disturbed' /\ ex'[e] # ex[e]
      PROVE  RunsOn(e)
  BY <1>3, RowGoesOn
<1>4. IInv /\ Course /\ [Next]_vars =>
          [\A e \in Execs : JobOf[e] \notin disturbed' /\ ex'[e] # ex[e] =>
               RunsOn(e)]_vars
  BY <1>3
<1> QED
  BY <1>2, <1>4, Inductive, PTL DEF Spec, RunsOnce, RunsOn

=============================================================================
