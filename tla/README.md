# Verification of yao: event bus, robots, jobs, traces and Tai nodes

TLA+ models of the Go sources of yao, the TLC runs that check them on small
instances and the TLAPS proofs about them for every instance.  The Go code is
the reference: each definition that models code is mapped to the lines it
stands for in `PROJECT.json` (`map`).

Contents: 1 inventory, 2 modules and plan, 3 the event bus, 4 the robot
scheduler, 5 the dialogue about executions, 6 the job system, 7 the updates of a
trace, 8 the Tai nodes, 9 where documentation and code differ, 10 runs and
bounds, 11 fairness, 12 proofs, 13 what is not modelled.

## 1. Inventory

yao is an application engine: a Go program that loads definitions (models,
assistants, robots, schedules) and serves them over HTTP and gRPC.  Most of its
packages are sequential: load a file, translate a request, call an external
service.  The state machines that several goroutines share are in these
components, the most central first.

| component | state it keeps | operations | what is hard | correct when |
|---|---|---|---|---|
| **event bus** `event/` | one `service`: `started`, handlers, one `workerPool` per prefix (two semaphores and a wait group), a `queueManager` (id -> `eventQueue`: channel, `released`, `aborted`, a consumer goroutine) | `Push`, `Call`, `QueueCreate`, `QueueRelease`, `QueueAbort`, `Start`, `Stop`; consumer loop; `dispatch` and its worker | checks made under one lock and used after it (`getHandler`, `get`, `aborted`); channels closed while others send; panics and cancelled contexts on the way to a worker; `Stop` waits for goroutines that use the service it stops | slots are neither lost nor given back twice; limits and the reservation for Calls hold; a queue handles its events one at a time in order; nothing is left in a queue that has gone; Calls return, Stop ends |
| event listeners, subscribers `event/listener.go`, `sub.go` | per listener a bounded channel and a goroutine; per subscriber a caller's channel | `Listen`, `Subscribe`, `Unsubscribe`, notify on every Push and Call | a full channel skips the event; the channel is closed while a notify sends | nothing is delivered after the end; a slow receiver holds up nobody |
| **robot scheduler** `agent/robot/manager`, `pool`, `trigger/control.go`, `types/robot.go` | manager `started`; priority queue with counts per robot; workers; `Robot.executions` (slots) per robot object; tracked executions with pause flag, resume channel and context | `Start`, `Stop`, `Tick`, `TriggerManual`, `Intervene`, `HandleEvent`, `PauseExecution`, `ResumeExecution`, `StopExecution`; `Enqueue`, `Dequeue`, `execute`, `requeue` | check of the quota and its use apart; control calls in two halves; objects replaced by a cache refresh while executions hold them; a full queue on the way back; the stop of workers that wait | no execution runs twice or is lost; slots are what runs; quotas and queue limits hold; the most urgent goes first; control reaches what it controls; queued work gets done |
| **robot executor** `agent/robot/executor` | the execution record, phase by phase; slot; suspension | `ExecuteWithControl`, `runPhase`, `Suspend`, `Resume` | ends by success, failure, cancellation or suspension, each owing other things; resumption on another robot object | each way out gives back exactly what it holds |
| **robot cache** `agent/robot/cache` | member id -> `*types.Robot` | `Load` (hourly), `LoadByID`, `Add`, `Remove`, `Refresh` | replaces objects that carry state in use (`executions`, `LastRun`) | a robot has one set of slots |
| robot interaction `agent/robot/manager/interact.go` | stored status of an execution (`confirming`, `waiting`, ...) | confirm, clarify, resume, cancel | read-check-write over the store with no lock; retries of a resumption | one answer wins; no execution is resumed twice |
| robot stores, API, events, plan, dedup `agent/robot/store`, `api`, `events`, `plan`, `dedup` | database rows; message adapters; stubs | CRUD, wrappers, completion handler | lost updates of a row by executor and API | stored status never leaves a final state |
| job system `job/` | database rows of jobs and executions; worker manager with a queue channel, modes of execution | `Push`, worker loop, progress, `Stop`, health check | the health check and a live worker both judge one execution; cancellation against completion | an execution ends once; no job is stuck as running |
| trace `trace/` | a channel-served state (nodes, spaces, log of updates); subscriptions | add/complete/fail nodes, subscribe, archive | subscription replay against live updates; auto-completion of parents; use after release | subscribers see each update once, in order |
| agent context `agent/context` | interrupt queue and signal channel of a running completion | `Interrupt`, check, merge | interrupts that arrive while one is handled; stop | none is lost or handled twice |
| agent, callers, LLM, search, memory `agent/...` | prompts, messages, providers' streams | assembly of requests, hooks in V8, calls all/any/race | the parallel callers | first answer wins, the others are cancelled |
| sandboxes `sandbox/`, `sandbox/v2/` | boxes: id -> state, reference counts, idle timers, limits | create, get-or-create, stop, remove, watch, re-attach | idle clean-up against use; double creation; restart | a box in use is not reaped; limits hold |
| tai nodes `tai/registry`, `tunnel`, `api`, `dial.go` | identifier -> node with its Register stream, `ConnResources` and local listeners; pending channels of requests for a Forward stream | `Register` (stream or POST), `DialTunnel`, `SetResources`, `Unregister`, `RequestForward`, `Forward`, bridges | a reconnection against the end of the former stream, both by identifier; goroutines that connect for seconds and then bind; a Forward stream against the time-out of its request | what is registered has a handler that will unregister it; what was connected is bound or closed; a request gets its own stream, once |
| OAuth `openapi/oauth` | codes, tokens, device grants in a key-value store | issue, exchange, rotate, revoke | read-check-delete without a transaction | a code or refresh token is used once |
| OpenAPI, messenger, attachments, workspace, registry client, kb | requests and files | translation and delegation; chunked uploads | merging of chunks | |
| loaders, DSL, widgets, SUI, importers, commands | definitions in maps | load, render, convert | (sequential) | |

How they interact: a trigger reaches the **manager** through the robot API, an
event (the **event bus** calls the handlers in `agent/robot/events`), a chat
integration or the manager's own clock; the manager takes the robot from the
**cache**, tracks the execution in the **controller** and submits it to the
**pool**; a worker runs it in the **executor**, which asks the controller
between phases whether it is paused, writes its record to the **store**, pushes
events on the bus, and may suspend it until **interact** resumes it.

`PROJECT.json` lists every component with its sources and status, and under
`hazards` each thing that is hard to test, at its line, with the properties
that watch it.

## 2. Modules and plan

| module | models | composed with |
|---|---|---|
| `SerialQueue` | what a queue of the bus promises | instantiated by `EventBus` |
| `EventBus` | push, call, queues, worker pools, start and stop of `event/` | `EventBusProofs`, `EventBusRefinement`, `MCEventBus` |
| `SlotQueue` | what the pool promises to what it accepts | instantiated by `RobotScheduler` |
| `RobotScheduler` | manager, cache, pool, control and executor skeleton of `agent/robot` | `RobotSchedulerProofs`, `RobotSchedulerRefinement`, `MCRobotScheduler` |
| `RobotInteract` | the dialogue about stored executions, the runs it starts and resumes | `RobotInteractProofs` |
| `JobWorkers` | push, workers, progress, stop, restart and health check of `job/` | `JobWorkersProofs`, `MCJobWorkers` |
| `TraceFeed` | registry, log and completion of a trace, the streams that follow it, and the subscribers of the bus they use | `TraceFeedProofs`, `MCTraceFeed` |
| `TaiNodes` | registration, connection and removal of a node of `tai/`, the requests and Forward streams of its tunnel | `TaiNodesProofs` |

`RobotScheduler` and `RobotInteract` meet in `ExecuteWithControl`: the first
follows its slots and phases while the cache, the queue and the control change
around it, the second its stored record while people answer.  A slot is taken
and given back by the same conditions in both.

What would add most next: the box managers of `sandbox/v2` (idle clean-up
against use), single use of codes and refresh tokens in `openapi/oauth`, the
interrupt queue of `agent/context`.

## 3. The event bus

`EventBus.tla` models one handler prefix; prefixes share nothing but the queue
map.  An element of `Pushes` or `Calls` is one invocation, an element of
`Queues` one `eventQueue` that `QueueCreate` may make under one of `QueueIds`.

| code | model |
|---|---|
| `service.started`, `Start`, `Stop` | `started`, `gen` (which pool), `stopPc`; `Start`, `StopBegin`, `StopAbortAll`, `StopAwaitQueues`, `StopShutdown` |
| `queueManager`, `eventQueue` | `queues`, `ch`, `qReleased`, `qAborted`; `qOp` is a release or abort that was decided under the manager's lock and has yet to take the queue's |
| `QueueCreate`, `QueueRelease`, `QueueAbort` | `QueueCreateCheck` and `QueueCreate` (the check of `started` is apart), `Detach`, `ApplyRelease`, `ApplyAbort` |
| `Push`, `Call` | `Admit`, `NotStarted`, `FindQueue`, `Enqueue`, `DispatchDirect`, `CallReturns`, `ContextEnds` |
| `consumer` | `cPc`, `cItem`; `Receive`, `CheckAborted`, `ConsumerNext`, `ConsumerExit` |
| `dispatch` and its goroutine | `semTotal`, `semPush`, `wg`; `AcquirePush`, `AcquireTotal`, `DispatchCancelled`, `HandlerEnds` (returns or panics), `ReleasePush`, `ReleaseTotal`, `WorkerDone` |

A step is what one goroutine does between two points where another can look:
a critical section, a channel operation, one deferred call.  A Stop may be
followed by a Start, which makes a new pool while consumers of the former life
keep the old one (`evPool`, `qPool`).

`SerialQueue.tla` says what a queue promises, with no goroutine, channel or
semaphore: events are accepted while it is open, handled one at a time in the
order of acceptance, drained when released, dropped when aborted.  `EventBus`
instantiates it as `Promise` under the mapping `ModeView`, `PendingView`,
`ActiveView`, `StageView`; `KeepsPromise` is the refinement.

## 4. The robot scheduler

`RobotScheduler.tla` joins the manager, the cache, the pool, the controller and
the skeleton of the executor, since its hazards lie between them.  An element of
`Ticks`, `Manuals` or `Requests` is one trigger (by the clock, by
`TriggerManual`, by `Intervene` or `HandleEvent`) and the execution it leads to;
an element of `Objects` is one `*types.Robot` that a load may make.

| code | model |
|---|---|
| `Manager.Start`, `Stop`; `Pool.Stop` | `mgr`; `Start`, `StopBegin`, `StopPool`, `StopEnd` |
| `Cache` | `cached`, `used`, `loading`; `RefreshAllBegin` and `RefreshAllAdd` (the maps are emptied before they are filled), `RefreshOne`, `Cleanup` |
| the entry points | `call`, `obj`, `lazy`; `Lookup`, `LazyLoad`, `Decline`, `Track`, `Submit`, `Reject`, `Accept` |
| `PriorityQueue` | `stamp` (rank by `EnqueueTime` among the queued), `robotCount`; `HasRoom`, `Enqueue`, `Score`, `Foremost`, `Popped` |
| `Worker` | `alive`, `job`; `Dequeue`, `PreCheck`, `Requeue`, `WorkerExit` |
| `ExecuteWithControl`, `runPhase` | `run`, `left`; `Acquire`, `BeginPhase`, `EndPhase`, `SuspendPhase`, `Release`, and of onComplete `Untrack`, `Complete` |
| `ControlledExecution` | `tracked`, `paused`, `woken`, `cancelled`; `PauseExecution`, `ResumeExecution`, `StopExecution`, `PauseCheck`, `Wake` |
| the second half of a control call (`RemoveExecution`, `AddExecution` on whatever object is cached then) | `pend`; `ForgetControlled`, `AddResumed` |

`obj` and `cached` are kept apart on purpose: a queued item carries the object
its trigger found, the executor acquires and releases on that one, and
onComplete and the control calls use the one cached at that time.

*The promise.*  `SlotQueue.tla` says what somebody who triggers a robot may
count on, without manager, cache, workers, controller or phases: a line of
bounded length, called by the priority of the robot, the urgency of the trigger
and arrival; a slot of the object an execution was accepted for, granted only
when one is free and kept until the execution ends; the end of the line, or no
place at all, for who is called in vain.  Control calls may do what they like to
the slots of the execution they are about and nothing to those of others.
`KeepsPromise` maps `run` to the stages of the promise (`SeenAs`: what a worker
has taken is called, every phase and pause is running), the queued executions
and their ranks to the line (`Queued`, `BeforeView`), `obj` to `OnView` and
`executions` to the holders.  That `Score` is one number, that `robotCount` is
kept apart from the queue, that the quota is checked twice and that the object
may leave the cache meanwhile are details the promise does not know.

Reduced: priorities matter only through `Score`; a phase is an interval that
ends well, ends badly or suspends; times are left out, so a clock trigger may
come at any moment at which its robot is cached; `EnqueueTime` becomes a rank
and ties of the clock are not modelled.

## 5. The dialogue about executions

`RobotInteract.tla` models `manager/interact.go` for one robot.  An element of
`Requests` is one call of `HandleInteract` or `CancelExecution`, an element of
`Execs` one execution with its row in the execution store.  A request reads the
row, calls the Host Agent, which takes as long as a conversation does, and acts
on what it read.

| code | model |
|---|---|
| a row of `store/execution.go` | `rec`: status, whether a task waits, whether a resume context is stored, the tasks (named by the request that added them) |
| `UpdateStatus`, `Save`, `UpdateTasks`, `UpdateSuspendState`, `UpdateResumeState` | `WithStatus`, `Saved` (`recordToMap` leaves empty columns out, so they are never cleared), `WithTasks`, `Suspended`, `Resumed` |
| `handleNewInteraction`, and the three handlers by status | `NewInteraction`; `Ask`, with what was read in `snap` |
| `processHostAction` | `Reply`, `Advance` and `Submit`, `Adjust`, `InjectTask`, `Resume`, `Cancel` |
| `CancelExecution` | `CancelExecution`, `CancelStatus`, `CancelForget` |
| `Executor.Resume`, inside the request | `Resume`, `ResumeState`, `ResumeTask`, `ResumeSuspends`, `ResumeEnds` |
| the job of the pool: `ExecuteWithControl`, `Suspend`, its deferred clean-up | `job`; `JobLoad`, `JobSave`, `JobAcquire`, `JobRunning`, `JobTask`, `JobSuspends`, `JobEnds`, `JobForget` |
| `Robot.executions` of the cached robot, the controller | `slots`, `tracked` |
| the process goes down | `Restart`: only `rec` remains |

What the agent decides is left open: any action may follow any conversation.
No lock and no conditional update stands between two requests about one
execution, so what holds of all dialogues and what holds of users who take turns
(`InTurn`) are different properties.  `overlapped`, `resumed` and `owed` are
history variables that the properties are stated with.

## 6. The job system

`JobWorkers.tla` models `job/`.  An element of `Pushes` is a `*Job` object on
which `Push` is called, a request the pair of such an object and an execution.

| code | model |
|---|---|
| rows of jobs and executions | `job`, `ex`; `SaveJob` never clears `current_execution_id` (`structToMap` drops nil), `SaveExecution` is followed by `updateJobProgress`: `Count` reads the executions, `Tell` writes the status they come to |
| `Push`, `SubmitJob` and its goroutine | `Push`, `Submit`, `Send`; `sending`, `queue` |
| `dispatch` | `disp`; `TakeWork`, `TakeWorker`, `GiveWork`, `DispatcherQuits` |
| `Worker.Start`, `processWork`, the executors | `wpc`; `Register`, `WorkerQuits`, `StartExecution`, `StartObject`, `StartJob`, `Progress`, `Execute`, `EndExecution`, `EndObject`, `EndJob`, `Forget` |
| the object of a job, shared by its workers without a lock; its contexts | `obj`, `contexts`, `cancelled` |
| `Job.Stop` on the object that pushed, and on one loaded from the database | `Stop`, `StopCancel`, `StopRead`, `StopWrite`, `StopEnd`; `StopLoaded` |
| `WorkerManager.Stop`; the process goes down | `StopWorkers`; `Restart` |
| `HealthChecker` | `check`; `ListJob`, `CheckHealthy`, `MarkJob`, `MarkExecution`, `ClearJob` |

`StopWorkers` is one step (closing the channels has no waiting in it), and a
job is stopped through its object only after its `Push` has returned.
`Timed` holds the executions that may exceed a limit: the default time-out of
the job, or the `timeout_seconds` of the row, which no code of the repository
writes.  The checker looks at one job at a time.

`RunsOnce` puts the rows and the workers together: while nobody but its workers
writes a job, the row of each of its executions is written by one worker, from
queued to running, to what the run came to and to what `processWork` makes of
it.  The saves of progress reports, of the executor and of `processWork` are
saves of whole rows, so none may come late, and no request may be worked on
twice.

## 7. The updates of a trace

`TraceFeed.tla` models one trace: the contexts that write to it, the managers
that hold its log, and the streams that follow it.

| code | model |
|---|---|
| `registry` of `trace/trace.go`, the storage | `registry`; `storedInfo`, `stored`, `rooted` |
| a `*manager`: `updates`, `completed` | `log`, `completed`, for each member of `Managers` |
| `Context.Trace`, `trace.New`, `LoadFromStorage` | `Open`, `New`, `Exists`, `LoadFromStorage`, `Register`, `SaveInfo` |
| `Add`, `Info`, `Complete`, ... : `addUpdateAndBroadcast` | `Emit`; `Save`, `Log`, `Push` |
| `MarkComplete`, `MarkCancelled`, `Release`, from `Context.Release` | `MarkComplete`, `Finish`, `MarkCancelled`, `MarkCancelledEnds`, `ReleaseTrace` |
| `loadTraceManager`, `GetEvents`, `handleStreamMode` | `hpc`; `Request`, `ReqLoad`, `ReqLoadStored`, `ReqRegister`, `Take`, `ClientGone`, `Cancel`, `ReqRelease` |
| `subscribe` and its goroutine; `subManager` | `gpc`, `entry`, `live`, `shut`, `hist`, `seen`; `Subscribe`, `Snapshot`, `Replay`, `Skip`, `Forward`, `Drained`; `Accepts`, `Full`, `Unsubscribe` |

An update is an event with a key (`dedupKey`: type, node, millisecond).  The
clock may stand still between two updates, so keys collide; the properties that
depend on the key say so (`Unshared`).  Nodes, spaces and payloads are left out.
The updates of forks reach the trace of their parent, which waits for them
(`Orchestrator.All`, `Any` and `Race` all wait for every call they made).

## 8. The Tai nodes

`TaiNodes.tla` models one Tai identifier: identifiers share the registry's map
and nothing else.  An element of `Tunnels` is a Register stream, one of `Posts`
a registration by a POST; it also names the `TaiNode` that is registered, the
goroutine that connects to the node and the `ConnResources` this one makes.  An
element of `Requests` is one call of `RequestForward`, one of `Forwards` one
Forward stream that Tai opens.

| code | model |
|---|---|
| `Registry.nodes` and the fields of the registered `TaiNode` | `node`, `resources`, `registerStream`, `localListeners`; `Enter`, `Unregister` |
| `TunnelHandler.Register`: registration, `SetRegisterStream`, "registered", the loop, the deferred `Unregister` | `handler`; `RegisterTunnel`, `SetRegisterStream`, `SendRegistered`, `StreamEnds`, `Leave`; `Break` loses the connection |
| `HandleRegister`, `DialRemote`; `HandleUnregister` | `RegisterDirect`; `HandleUnregister` |
| `connectTunnelNode`, `DialTunnel`, `buildResources`; `connectRegisteredNode` | `connect`; `DialTunnel`, `DialDocker`, `SetResources` |
| a `ConnResources`, a local listener | `conn`, `listening`; `Closing` is the decision, `Close` the deed |
| `RequestForward` and its channel | `request`, `via`, `pending`, `waitCh`; `Request`, `SendOpen`, `Answered`, `GiveUp` |
| `TunnelHandler.Forward` | `forward`, `channel`; `Forward`, `Deliver`, `ForwardEnds` |
| `bridgeTCP` | `bridged`; `LocalEnds`, `BridgeEnds` |

`SetRegisterStream`, `OpenLocalListener`, `SetResources` and the deferred
`Unregister` look the node up by its identifier again, so each may find another
registration than its own, or none.  That is what the module is about: what
still holds is `NoGhostNode` and `ReleasedWithNode`, what does not is
`LeavesAlone` and `NothingDropped`.  `dropped` holds the `ConnResources` that
the registry forgets without closing them: those of a node that `Register`
replaces and those that come when the node has left.

Reduced: `grpc.NewClient` does not fail; discovery says whether the node runs
Docker and nothing else; the time-out of ten seconds may come at any moment, as
may a loss of the connection; heartbeats set a time that is only shown.

## 9. Where documentation and code differ

The first is a run of the project.  Each of the others is a `.cfg` to be run by
hand with the module its name begins with (`Event...`: `MCEventBus`,
`Scheduler...`: `MCRobotScheduler`, `Interact...`: `RobotInteract`, `Job...`:
`MCJobWorkers`, `Trace...`: `MCTraceFeed`, `Tai...`: `TaiNodes`); TLC then
reports the named property violated, whose comment quotes the sentence in question.

| cfg | property | the code |
|---|---|---|
| `EventBusSameId` | `SameQueueNeverConcurrent` | release frees the id before the old consumer has drained: a queue re-created under it runs beside it |
| `SchedulerQuotaRefresh` | `UpToQuotaMax` | a refresh makes a new object with all slots free while executions run on the old one |
| `SchedulerResumeLeak` | `FinishedHoldsNoSlot` | the `AddExecution` of a resume comes after the end of the execution: a slot is lost |
| `EventBusStopDrains` | `StopDiscardsPending` | a queue released before Stop is not in the map: its pending events outlive Stop |
| `EventBusLateQueue` | `NoQueueCreatedAfterStop` | a QueueCreate that passed `getHandler` adds its queue behind `abortAll` |
| `EventBusLateHandler` | `NoHandlerAfterStop` | a Push that passed `getHandler` dispatches after the pool was found idle |
| `EventBusPushBlocks` | `PushReturns` | a Push without a queue waits for a worker slot in its caller |
| `SchedulerQuotaResume` | `UpToQuotaMax` | pause gives the slot away while the phase runs, resume takes it back unasked |
| `SchedulerPauseRequest` | `PausedRunsNoPhase` | `Intervene` and `HandleEvent` submit without a control: a pause has no effect |
| `SchedulerDropTracked` | `TrackedIsAlive` | `requeue` drops an accepted item when the queue is full; the controller keeps it |
| `SchedulerSelfBlock` | `ResumedRuns` | pausing and resuming a queued execution fills the slot it waits for |
| `SchedulerHeadOfLine` | `OthersRun` | the item of a robot at its quota is taken and put back for ever before the others |
| `SchedulerDaemon` | `DaemonRunsOnce` | in daemon mode a robot with a quota above one is triggered while it runs |
| `SchedulerStopHangs` | `StopCompletes` | an execution that is paused when the manager stops keeps it from stopping |
| `SchedulerLazyLeak` | `LazyUnloads` | a declined trigger leaves the robot that was loaded for it in the cache |
| `SchedulerCleanupEarly` | `CleanupComesLast` | the clean-up counts running executions while one is still queued |
| `InteractDoubleRun` | `AlwaysOneDriver` | two answers to one waiting execution both pass the check of its status: two runs drive it |
| `InteractDoubleRun`, with `INVARIANT RunningIsDriven` in place of its own | `RunningIsDriven` | the status is written before the submission, which a full queue refuses: the record says running for ever |
| `InteractDoubleRun`, with `PROPERTY CancelledStaysCancelled` in place of its own | `CancelledStaysCancelled` | a confirmation that was under way overwrites the cancellation |
| `InteractSlotLeak` | `ResumedSlotReturned` | a resumed execution ends on another robot object than the one that lists it: its slot is lost |
| `JobFailureHidden` | `CompletedMeansSuccess` | `processWork` saves a once job as completed whatever its execution came to |
| `JobFailureHidden`, with `PROPERTY StopStops` in place of its own | `StopStops` | `Stop` on a job loaded from the database holds no contexts: nothing is cancelled |
| `JobFailureHidden`, with `PROPERTY CancelledStaysCancelled` in place of its own | `CancelledStaysCancelled` | a cancelled execution that was still queued is taken by a worker, which saves it as running |
| `JobDispatcherHangs` | `DispatcherStops` | the dispatcher has taken the channel of a worker that ends, and sends to it for ever |
| `JobHealthRace` | `CompletedStaysCompleted` | the health checker fails an execution that has completed since it was looked at |
| `TraceEventMissed` | `NoEventMissed` | an update with the type, node and millisecond of an earlier one is dropped as a duplicate |
| `TraceGoroutineLeak` | `CancelStopsGoroutine` | a goroutine that writes to a full output channel does not see its subscription cancelled |
| `TraceCancelLost` | `EndedTraceIsCompleted` | a request cancelled before its first node is stored: `MarkCancelled` finds no root and gives up, and the released trace is never ended |
| `TaiReconnectLost` | `LeavesAlone` | the deferred `Unregister` of a stream that has ended goes by identifier: it removes the node of the stream that replaced it |
| `TaiReconnectLost`, with `INVARIANT NothingDropped` in place of its property | `NothingDropped` | `Register` replaces a node without closing its resources; `SetResources` for a node that has left does not close what it was given |

`EventBusReserve` is an extra instance that holds: with handlers of Pushes that
never return, a Call still gets a reserved worker (`CallsNotStarved`).

## 10. Runs and bounds

All runs exhaust their state space.  Deadlock is not checked: a program in which
nobody triggers anything, or whose manager has stopped, does nothing.

| run | instance | shows |
|---|---|---|
| `EventBusSafety` | 2 Pushes, 1 Call, 1 queue of 1, pool of 2 with 1 reserved, 1 life | slot accounting, limits, reservation |
| `EventBusQueues` | 2 Pushes, 2 queues of 2 under one id, 2 lives | the queue map over re-creation and restart, nothing left in queues that have gone; refinement of `SerialQueue` |
| `EventBusLive` | 1 Push, 1 Call, 1 queue, pool of 1 that is all reserved | queued events settle, Calls return, Stop ends |
| `EventBusSameId` | as `EventBusQueues`, a violation | see section 9 |
| `SchedulerQueue` | robots a, b of unequal priority; tick, 2 manual, 1 event trigger; queue of 2, 2 workers, quota 1 | one place per item, quota; refinement of `SlotQueue`: counts, limits, order |
| `SchedulerLive` | 2 manual triggers of a robot, one of which may suspend, quota 1, 2 objects that reloads, refreshes and loads on demand make; 2 workers | slots match what runs on each object; queued executions run |
| `SchedulerStops` | one object of a robot loaded on demand; a tick that may suspend, a manual trigger that is paused, resumed, stopped; 1 worker | control reaches, a stopped execution ends, Stop returns; refinement of `SlotQueue` with phases and control calls |
| `RobotInteract` | 3 requests, 2 executions, quota 1, 1 restart | what waits can be resumed, one run per execution, no task lost, what ended stays ended, slots come back |
| `JobWorkers` | 2 executions of a once job, unequal priorities, queue of 1, 2 workers, 1 fault | one place per request, workers handed over are idle, the job settles, each execution is run once |
| `JobLive` | 1 execution that may time out, 2 workers, health checker, 1 fault | accepted work is processed, a lost job is found, workers stop |
| `TraceStream` | a root context and a fork, 1 stream, 2 managers, 3 updates, live channel of 1, output channel of 2, no tick of the clock | nothing lost, doubled or out of order; the stream ends; its goroutine goes |
| `TaiNodes` | a Register stream and a POST of one identifier, 2 requests, 2 Forward streams | nothing registered without a handler, connections bound or closed, each request its own stream; a lost node leaves |

Why this is enough to be worth running.  Slots, quotas and queue limits are
attained: two competitors for one slot, an item more than the queue holds, a
reservation that is all of the pool.  Order needs two items in a queue
(`QueueSize = 2`) and two robots of unequal priority; re-creation needs two
instances under one id; stale objects need two objects per robot; a lost wake-up
needs one execution and one controller.  A task waits for its robot's quota when
a second worker takes it while the first runs another of that robot: that takes
the two workers and two executions of `SchedulerLive`, where the queue has room
for both and nothing is dropped.  A drop takes a third execution that has filled
the queue: `SchedulerQueue` has four on a queue of two places, and its
refinement says when an item may be dropped.
`MaxStarts`, `Objects`, and the sets of invocations bound histories; the safety
properties are then proved without any bound (section 12).  `Phases` is 0 in `SchedulerQueue`, where an execution ends
as soon as it holds its slot, 1 where control matters.  Permutations of
interchangeable events, queues and workers are used as symmetry in runs of
safety properties only.

In `RobotInteract` three requests are what it takes for an answer that overlaps
another while a third follows; two executions on a quota of one compete for the
slot; one restart falls between any two steps.  In `JobWorkers` a queue of one
place is full with the second execution, and the one fault (a stop, a shutdown,
a restart) comes at any moment.  In `TraceStream` the channels are smaller than
the log, so they fill; two managers let a trace be released and loaded again;
`MaxClock = 0` makes the keys of all updates of one node collide, those of
different nodes not.  An instance with a ticking clock differs in `Unshared`
only: a key is a pair of a tag and a time either way.  In `TaiNodes` two
registrations are what it takes for one to come between the look-ups of the
other; two requests and two streams cover a stream that comes twice and one that
comes for another request.  The violation in section 9 uses two Register
streams.

A type invariant is proved for every instance (section 12) and not repeated in
the runs, and so are the counts of the queue (`QueueAccounting`), the order of
the workers (`MostUrgentFirst`) and the quota of the dialogue (`QuotaKept` of
`RobotInteract`): the runs check them as parts of `KeepsPromise`, or the proof
shows them to follow from one guard.  Whether the control of an execution reaches it while robot objects are replaced is
proved too; `SchedulerStops` checks it on one object, since the two objects it
needs are more than its liveness properties allow.

Every property of a passing run has a mutant: a plausible slip in the code (a
forgotten deferred release, a counter that is not decremented, an executor that
trusts the pre-check, tracking after submission, ...) under which the same run
finds the property violated.  They are the small operators next to the ones they
replace (`NoPushDefer`, `CountKept`, `TrustPreCheck`, `TracksLast`, ...).

## 11. Fairness

*Bus.*  `Fairness` is weak fairness of each goroutine that can go on: the
consumer, the dispatcher, the worker (its handler returns or panics), the caller
that has begun, Stop.  The Go scheduler runs every runnable goroutine.  Nobody
has to Push, Call, create, release, abort or stop.  `HangingPushSpec` drops the
assumption that the handler of a Push returns and keeps it for Calls, the case
the reservation is for.

*Scheduler.*  Weak fairness of each worker that holds or can take an item (it
polls on a ticker), of calls that have begun, of the second halves of control
calls and of Stop; phases are assumed to end, as the agents they call have
time-outs.  Strong fairness of `WorkerExit`: a worker whose stop channel is
closed finds two ready cases in its `select` as long as items are queued, and
Go chooses among ready cases at random, so it cannot prefer the ticker for ever.
Nobody has to trigger, pause, resume, stop or refresh.

*Dialogue.*  Weak fairness of each request that is past the Host Agent and of
each job of the pool: both are running code.  Agents may take for ever and users
may be silent, so nothing is assumed of them; tasks are assumed to end.

*Jobs.*  Weak fairness of each goroutine: the saves of a worker, the dispatcher,
the goroutine of `SubmitJob`, a call of Stop, the health checker, which comes
round on a ticker.  Strong fairness of `Execute`: a run that reports progress
again and again still ends, since its reports do not delay it.  Nobody has to
push, stop or restart.

*Traces.*  Weak fairness of the handler of a stream and of the goroutine of its
subscription, which wait for nothing but the channels their guards name.
Contexts may stop at any step.

*Nodes.*  Weak fairness of each handler of a Register stream, whose `Recv` and
`Send` return once the connection is lost.  Nobody has to register, to lose a
connection, to remove a node, to request or to answer; the goroutines that
connect may take for ever.

What the liveness properties leave open is stated in them: a paused execution
blocks its worker, and `Stop` with it; a suspended one keeps its slot; a Call
whose queued event is dropped by an abort waits for its own context.

## 12. Proofs

All proofs are complete; constants are constrained by the named assumptions of
the modules only (disjoint finite sets of invocations, positive limits, a robot
per execution and object, a job per execution, a `None` that is nothing else),
so the theorems hold for any number of events, queues, workers, robots,
executions, objects, phases, jobs, connections and streams, any quotas and any
sizes of channels.

**`EventBusProofs`.**  Type correctness alone is not inductive: that a semaphore
never falls below zero depends on who holds slots.  `IInv` conjoins

- `SlotAccounting`: `semTotal`, `semPush` and `wg` are the numbers of events
  whose worker still owes them.  Counted with the lemmas `HolderTakesSlot` and
  `Recount`, each step that moves an event in or out of a set of holders changes
  the count with it;
- `Stages`, `Channels`, `Consumers`, `Dispatched`: an event is in one place (a
  channel, once; a consumer's hand; a worker) and both sides agree on it.
  Without them a worker's end could be attributed to another consumer's wait;
- `Lives`, `MapHoldsOpenQueues`: a queue is closed once, by release or abort,
  after it has left the map, and its consumer leaves when it is closed and empty;
- `Awaited`: what Stop has waited for stays so.

From `Invariance` follow `SlotsCorrect`, `MapCorrect`, `ExitedQueuesEmpty` and
`StoppedQuiet`; `WorkersBounded` and `ReservationKept` add the invariant
`Limits` (semaphores within the sizes `newWorkerPool` gave them) and counting.

**`EventBusRefinement`** proves `Spec => KeepsPromise`: under `IInv` the initial
state maps to that of `SerialQueue` and each step to one of its steps or to a
stutter (`EnqueueView`, `ReceiveView`, `CheckView`, `WorkerView`, `EndView`;
`StepView` joins them).  The proof, like the run, covers safety; `SerialQueue`
has no fairness.

**`RobotSchedulerProofs`.**  `IInv` conjoins

- `QueueAccounting`: inductive with `TypeOK` and `OnePlace` by counting
  (`EnqueueCounts`, `PopCounts`);
- `OnePlace`: split into ranks (`Ranked`) and places (`Placed`), since queue
  steps disturb the one and worker steps the other; `Stages` is needed for it: a
  call that has not submitted has no execution that could be submitted twice;
- `SlotsHeld`: needs `Shown` (an execution runs on an object of its own robot)
  and `Uncontrolled` (no control call is under way for an execution nobody
  controls), or a control call could take its slot away;
- `QuotaKept`: from `SlotsHeld`, since what runs on an object is among the
  executions in its list when `TryAcquireSlot` counts them;
- `ControlReaches` with `TrackedFirst`: tracking precedes submission, and only
  the end of the execution or a stop undoes it;
- `Found`: whoever has found the robot has one of its objects.  The refinement
  needs it: an execution is accepted for an object, never for none.

`MostUrgentIsTaken` is an action property: `ScoreOrders` shows that the one
number `Priority * 1000 + Urgency * 100` orders pairs as the documentation says,
given the three urgencies 1, 5 and 10 -- a trigger can outweigh nothing, since
the difference of two is at most 900.

**`RobotSchedulerRefinement`** proves `Spec => KeepsPromise`.  `Seen`,
`StageMoves`, `StageStays`, `OnStays` and `OnMoves` say what a change of `run`
or `obj` does to the views; `RoomView` and `FreeView` that the two conditions of
the code, on `robotCount` and on the executions of an object, are those of the
promise (from `QueueAccounting` and `Found`).  Then each step is mapped: a
submission accepts or is not seen (`SubmitView`), a dequeue is the turn of the
first in line because `Foremost` and `ScoreOrders` put nobody before it
(`DequeueView`), a requeue returns or drops (`RequeueView`), the pre-check may
deny and only `Acquire` grants (`CheckView`), the executor sleeps, ends or
shifts (`ExecutorView`, `ShiftView`), and all else is a stutter (`AsideView`).
Safety only: `SlotQueue` has no fairness, since `QueuedRuns` holds with the
exceptions it names.

**`RobotInteractProofs`.**  The rows alone say little about who drives an
execution, so `IInv` conjoins

- `WaitingIsResumable` with `SnapshotsResumable`: a record that is read while it
  waits is saved whole later, and must then be resumable too;
- `QuotaKept` with `SlotsFinite`: only `JobAcquire` adds, under `FreeSlot`;
- `Orderly`, of the executions whose users take turns: one active request or one
  job stands behind each status (`OneActive`, `JobAlone`, `NeverSuspended`,
  `StatusFits`, `EndedIsLeft`), from which `OneDriver` follows, and
  `TerminalIsFinal`: once a record has ended no one is left who writes it;
- `Carried`: the tasks owed are in the record, in what the one active request
  has read, and in what a run keeps in memory, so that no save drops them.

`InTurn` is a condition on the history, and it is closed under going back: if
users have taken turns after a step they had before, which is what makes the
invariants inductive although overlapping dialogues go on beside.

**`JobWorkersProofs`.**  `IInv` conjoins

- `Shape`: whoever is about to use a request, a worker or an execution has one;
- `PoolHoldsIdle`, which only the workers and the dispatcher disturb;
- `HandledOnce` with `Fresh`: what a push has still to submit is nowhere else.
  The queue is a sequence without repetition (`AppendHolds`, `HeadLeaves`);
- `Rest`, from which `JobSettles` follows.  A job is written by its workers, by
  a push, by Stop and by the health checker, from rows read one save before.
  `Disturbing` says that a save by anybody but a worker belongs to a job that is
  disturbed already; `Saving`, that workers count and tell only between the
  start and the settling of their execution; `Belong` and `Currents`, that what
  they write is theirs; `Settling`, what the job object they share then says;
  and `Settled`, that a job has the final status once the first of its workers
  has written it and no other is in between.

`RunsOnce` needs `Course` besides, which is inductive under `IInv`: an execution
of an undisturbed job is queued until a worker has taken its request up
(`Waits`), and then its row says how far that worker has come (`Fits`).  `Alone`
gives the rest: an undisturbed job was pushed once, so by `Belong`, `Fresh` and
`HandledOnce` there is one request per execution and one worker on it; and
`RowWritten`: who else writes an execution, Stop, the health checker or a
restart, has disturbed its job before.

**`TaiNodesProofs`.**  `IInv` conjoins `TypeOK` with

- `Attended`: the node and the Register stream in the registry belong to
  handlers that have still to unregister, which is `NoGhostNode` once the state
  before the registration is excluded too;
- `ReleasedWithNode` with `Making` and `Bound`: a goroutine makes its resources
  before it binds them and binds them once, so what `SetResources` or
  `Unregister` closes is never what somebody is still making, nor what the
  registry has dropped before;
- `Channels` and `Given`, from which `AnswersMatch` follows: a channel is
  pending until one stream takes it, and taken only after its "open" was sent;
  the stream is then in the channel or in the bridge of that request.

The registry and the forward streams share no variable that either writes
(`SessionFrame`, `ForwardingFrame`), so the two halves are proved apart.

**`TraceFeedProofs`.**  `IInv` conjoins `TypeOK` with what is known of the
writers and, for each stream, of the updates on their way to it:

- `Numbered`, `Recorded`, `Adding`: the update a context is adding is its
  latest, and is in the storage, in the log and among the pushed ones only after
  the step that puts it there; so the storage and every log hold the updates of
  a context in order, those of a manager that is loaded again included;
- `Referred`: a manager somebody refers to was made, so its log only grows
  (`LogsGrow`), and by an update that is not pushed yet: this is why a step of a
  context other than the push disturbs no stream (`StreamFrame`);
- `Placed`, `Sourced`: what a stream writes comes from the snapshot first and
  from its channel then, each in order;
- `Matched`: a key that is remembered is that of an update that was replayed,
  and an update that was replayed and may still come is remembered.  With
  `Seam`, that a live update which will not be skipped is later than all that
  was written, the three properties follow.

All of it is about updates whose key no other has (`Unshared`), and a key once
shared stays so (`UnsharedBefore`).

*Only model-checked:* every liveness property (fairness and ENABLED are out of
the prover's reach), and the divergences.

## 13. What is not modelled

- Bus: several prefixes, `Register` on a started bus, handlers that call the bus
  themselves, listeners; subscribers only as the streams of a trace use them.
- Scheduler: clock times, intervals and `LastRun`; the robot's status as shown
  to users; stored records; the choice of an executor mode; the 24-hour time-out
  of the clean-up.
  An execution of an event or an intervention runs under the context of its
  caller, modelled as a context that may be done at any step between phases.
- Dialogue: prompts, notifications and the choice of the Host Agent (any action
  may follow); the phases of a run, which are one step that may suspend or end.
- Jobs: categories, logs, queries, the process mode (it is a stub);
  `RestoreJobsFromDatabase`, `UpdateExecutionProgress` and `Destroy`, which
  nothing calls.  An execution that was queued when the process went down stays
  queued: nothing in the code looks for it, and no property speaks of it.
- Traces: the tree of nodes, spaces, the archive, `SubscribeFrom` with a time,
  a stop of the bus while a stream is open, a crash.
- Tai nodes: several identifiers (they share a map and its lock); the health
  check, which nothing in the repository starts, although `tai/docs/api.md`
  (line 135) says that the registry runs it; heartbeats; local and cloud nodes;
  listeners and connections that fail to open; the bytes that are forwarded, and
  with them two senders on one stream; volumes, proxies and VNC.
- Grain.  A step is one goroutine between two points where another can be
  observed, with these exceptions, each a look-up and what follows it, or writes
  in a row, between which another goroutine could come in the code.
  *Scheduler*: `Submit` looks at `started` and enqueues; `Lookup` looks at
  `started` and the cache; `PauseExecution` and `ResumeExecution` find the entry
  and change it.  A Stop that comes in between, which in the code may leave one
  more item in the queue of a stopped pool, is left out.  *Dialogue*: the writes of a
  suspension (`Suspended`) and the executor's quota look-up with its read of the
  record (`JobLoad`).  *Jobs*: `MarkJob` reads the execution again and saves the
  job.  *Traces*: `LoadFromStorage` and `Request` look whether a trace is loaded
  and act on it.  *Nodes*: `RegisterDirect` opens the connection as it
  registers; `HandleUnregister` checks the owner and unregisters.
- Failures of the store.  Saves succeed: those of a job's execution
  (`SaveExecution`), of a trace's updates and of its info (`Save`).
- The other components of section 1: candidates (section 2), or sequential, or
  mostly input and output; the note of each in `PROJECT.json` says which.
