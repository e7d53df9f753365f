# LLMOS Bridge: a TLA+ model of the daemon's core

LLMOS Bridge is a daemon that executes plans written by language models. A plan
(IML) is a graph of actions; each action is dispatched to a module that drives a
tool. Around the executor there are a state store, an approval gate at which
humans decide, security checks, nodes to run on, triggers that start work, and a
runtime for declarative apps. Everything is Python `asyncio` in one process, so
the hard questions are about what happens *at an await*: coroutines of one wave
that end in any order, a cancellation between an assignment and its write to
SQLite, a timer that wins against a decision, a fire that arrives during a
submission.

All paths below are relative to
`src/packages/llmos-bridge/llmos_bridge/`, unless they start with `docs/`
(`src/docs/`).

## 1. Inventory

| Component | State it keeps | Operations | Interacts with | What is hard, and what makes it correct |
|---|---|---|---|---|
| Plan executor `orchestration/executor.py` | `ExecutionState` in memory, `execution_results`, `cascade_skipped`, `_running_tasks` | `run`, `submit_plan`, `cancel_plan`, per action: template resolution, checks, approval, dispatch with retries, rollback | store, gate, DAG scheduler, guard, modules | coroutines of a wave interleave; cancellation, timeout, crash at any await. Nothing starts before its dependencies or below an ABORT failure; terminal statuses are final; a run ends |
| Plan state store `orchestration/state.py` | tables `plans`, `actions` | `create`, `update_plan_status`, `update_action` | executor, routes | written after the in-memory assignment, by the run and by DELETE. Rows never contradict the executor |
| DAG scheduler `orchestration/dag.py` | graph, copy consumed by the generator | `waves`, graph queries | executor | waves respect the graph, are as early as possible, and end |
| Rollback engine `orchestration/rollback.py` | none | run the compensating action | executor | changes no status |
| Approval gate `orchestration/approval.py` | `_pending`, `_auto_approve` | `request_approval`, `submit_decision`, `is_auto_approved` | executor, app tool executor, HTTP/WebSocket clients | a second decision, the timer and a cancellation race with the resumption of the waiter. Nothing proceeds unapproved, no entry leaks |
| Plan routes `api/routes/plans.py` | `_running_tasks` | POST (async, sync), DELETE, approval routes | executor, gate, store | DELETE races with the run |
| Fire scheduler `triggers/scheduler.py` | heap, event, `_running`, `_fire_times` | `enqueue`, `_loop`, `on_plan_completed` | trigger daemon | checks before an await are relied on after it; lost wake-ups; the limit |
| Trigger daemon `triggers/daemon.py`, `store.py`, `watchers/`, `conflict.py` | `_triggers`, `_watchers`, `_fire_callbacks`, table `triggers` | register, activate, deactivate, delete, fire, restart | fire scheduler, event bus, apps | API calls interleave at the store's awaits; restart from the rows |
| Dispatch, routing, resources: `executor.py` from `_dispatch_with_resource_limit`, `orchestration/routing.py`, `nodes.py`, `node_health.py`, `remote_node.py`, `resource_manager.py`, `modules/policy.py` | semaphores of modules and of policies, load counts, failure counts, quarantine, availability of nodes | acquire/release, select a node, execute, try alternate nodes and fallback modules, record success or failure | executor, modules, remote daemons | counters shared by concurrent actions; a timeout in the wait for a permit or a slot, or between two nodes. Whatever is taken is given back once; count and quarantine agree |
| Plan groups `orchestration/plan_group.py` | results, errors | run many plans under a semaphore | executor | partial failure |
| Module lifecycle, registry, service bus `modules/` | state of each module | load, start, pause, stop, upgrade | executor, isolated modules | dispatch while a module changes state; `on_start` of an isolated module beside the calls that start it themselves |
| Isolation `isolation/` | worker process, `_pending` futures, reader task, `_started`, restart counter | lazy start, call over JSON-RPC, kill, restart, health check | modules | first calls race to start the worker, with each other and with the lifecycle manager; crashes, late replies, a full pipe, a reader that moves to another stream. Nothing is executed before `initialize`; every call ends |
| Identity `identity/` | applications, sessions, plans in progress | `check_plan_submission`, `plan_started`, `plan_finished` | executor | the quota is compared before and counted after an await |
| Security pipeline `security/` | permission grants, rate windows | scan, verify intent, check action | executor | verdicts only; no protocol |
| App runtime `apps/` | runs, flows, checkpoints | run an app, walk a flow, call tools | gate, triggers, modules | `parallel`, `race` and `try` nest, and a cancellation, a stop, an `end` or a `goto` cuts through them; a crash between a step and its checkpoint. No orphan tasks, no success over a failure, checkpoint and results agree |
| Event bus, cluster, perception, memory, cache, recording, hub, CLI, SDK, dashboard | various | notification, I/O, storage | all | no status depends on them |

`PROJECT.json` lists every component with its status, and under `hazards` the
places in the code where a test would hardly look, with the property that covers
each or the reason why none does yet.

## 2. Modules

| Module | Models | Theorems |
|---|---|---|
| `Dag` | the graph and its queries (`dag.py`), as operators | – |
| `DagScheduler` | the wave generator, one step per `yield` | `DagSchedulerProofs` |
| `PlanLifecycle` | abstract specification: what the executor promises of statuses | – |
| `PlanExecutor` | one plan from submission to its end, with store, DELETE, cancellation, crash | `PlanExecutorProofs` |
| `ApprovalGate` | the gate between waiting coroutines and deciding clients | `ApprovalGateProofs` |
| `FireScheduler` | the queue and the loop of the trigger scheduler | `FireSchedulerProofs` |
| `Limiter` | abstract specification: what a concurrency limit promises | – |
| `Dispatch` | the dispatch of actions to nodes, with limits, routing, quarantine, alternates and fallbacks | `DispatchProofs` |
| `FlowExecutor` | one flow, executed again and again, with its checkpoint | `FlowExecutorProofs` |
| `Isolation` | the proxy of one isolated module, its workers, the health monitor and the lifecycle manager | `IsolationProofs` |
| `MCPlanExecutor`, `MCDagScheduler`, `MCApprovalGate`, `MCFireScheduler`, `MCDispatch`, `MCFlowExecutor`, `MCIsolation` | the small instances for TLC | – |

`PlanExecutor` uses `Dag` for its waves and `INSTANCE`s `PlanLifecycle` for the
refinement; `Dispatch` `INSTANCE`s `Limiter` twice, for the permits of the
`ResourceManager` and for the slots of the policies. What is one outcome of a
dispatch in `PlanExecutor` (result, error, timeout) is a behaviour of `Dispatch`. Definitions named "... Mutant" in their comment are plausible bugs of
the definition that follows; they are used by no specification.

### How they correspond to the code

**One step is the code between two awaits.** A coroutine of `asyncio` is not
interrupted between awaits, so every action of the models is one such segment
with all it does, and every await is a place where anything else may happen.

`PlanExecutor`. `pc` is the position of the plan's coroutine: `create`,
`authorize`, `scan`, `verify` (pre-flight), `store_running`, then `next_wave` /
`gather` / `skip` around each wave, `store_final`, and an end (`done`,
`cancelled`, `crashed`). `apc[a]` is the position of `_run_action` for action a:
`start`, `approval`, `dispatch`, `sleep` (back-off), `rollback`, a `store_*` label
while the write of a status is under way, `done`, or `raised` when the coroutine
ended in an exception, which `gather(return_exceptions=True)` swallows.
`memAct`/`memPlan` are the in-memory statuses, `dbAct`/`dbPlan` the rows.
Verdicts of the checks and outcomes of a dispatch are nondeterministic, at the
place where the code asks for them. `StoreRaises` is the JSON serialisation of a
result that fails inside `update_action`. `CancelPlan`, `SyncTimeout`, `Crash` end the
run at any await; `DeletePlan`, `DeleteReads`, `DeleteWrites` are the three
segments of the DELETE route.

`ApprovalGate`. A request is one pass of an action through `_handle_approval`,
of the plan executor or of the app tool executor. `Event.set` only schedules the
waiter, so between `SubmitDecision` and `Resume` the entry is still pending:
another decision can replace the first and the timer can still win.

`DagScheduler`. `BuildGraph` refuses a cycle, `YieldWave` yields, `Stop` is the
end or the guard "Should not happen if DAG validation passed".

`FireScheduler`. `Enqueue` is a fire that passes the rate limit; the loop is
`LoopWakes`, `TakeFire` / `RejectFire` (one iteration of the inner `while`
each), `Submitted` / `NotSubmitted` (the callback's await ends), `LoopWaits`. The
callback is taken at its declared contract (a plan id or none).
`on_plan_completed` has no caller, so it is not an action.

`Dispatch`. A call is one attempt of the executor; `pc` is where it is: waiting
for its `permit` or its policy `slot`, on the node it was routed to (`run`), on
an alternate node (`alt`) or in a fallback module (`fallback`). `prim` is the node
an async call counts in the load of until it leaves, `tried` is the list
`exclude`, `todo` what is left of the alternates picked when the primary failed.
`GetPermit` is the acquisition with the lifecycle and the cooldown check,
`Start` / `StartUnknownNode` / `StartBackground` the three execution modes after
the slot was taken, `Succeed`, `Unreachable`, `Fail`, `FallbackFails` what comes
back, `Timeout` the cancellation by `wait_for` in any of these awaits. `Raise`
and `NextModule` are the `except` branch of `_dispatch_with_fallback`. Heartbeats,
removals, cooldowns and the end of quarantines come from outside.

`FlowExecutor`. The steps are a tree; `st[s]` is `off`, `queued` (for the
semaphore of a parallel step), `on`, or what `_execute_step` left with: a result
(`ok`, `failed`), an exception, `CancelledError`, `FlowEndSignal`, or the target of
a `FlowGotoSignal`. `Leave` is the end of `_execute_step` for every kind of step.
Steps in order are `EnterInOrder` and `GoOn`; parallel and race are
`EnterFanOut`, `GetsSemaphore`, `Decides`, `Gathered`; try is `EnterTry` to
`FinallyGoesOn`. `cancel` holds the tasks that were asked to cancel:
`CancelGather` passes it on as `gather` does, `CancelWait` leaves the children
running as `asyncio.wait` does. `Execute` begins a run: it resumes at the
checkpoint, or starts at the first step and leaves the checkpoint where it is, as
happens without `resume` (the default) and when the read of the KV store fails.
`NextTopStep` to `FlowReturns` are the loop of `execute` with `SaveCheckpoint`;
`Crash` leaves only the KV store, and `Again` is a caller that executes the flow once
more under its `flow_id`.

`Isolation`. The calls, the health monitor (`Monitor`) and the task in which the
lifecycle manager starts and stops the module (`Manager`) are tasks, `pc[t]` what a
task awaits. `Send` is the write of `_rpc` with the beginning of its `drain`,
`Drained` the end of it, `RpcTimesOut` its `wait_for`, which begins after `drain`;
`mine[t]` is the process whose pipe a task waits for. Only an `execute`, which carries
parameters, can fill the pipe. `Execute` and `Locked` are `_ensure_started` before and
inside the lock, `OnStart` is `on_start`, which is `start` without the lock; `Spawn`,
`Ready`, `Initialized` (for a call), `OnStartEnds` and `Restarted` are `start`; `Kill`
and `KillEnds` are `_kill` before and after its awaits, with `purpose` saying who called
it. `Stop` (the monitor's end) and `OnStop` begin `stop`, `ShutDown` goes on with it.
Each start makes a reader task: `reading[r]` is the stream it waits for, which after its
line is that of whatever `_process` is then. `left[t]` bounds the operations a task
begins and names the requests of each. `disturbed` is a history variable: it is set by
the steps after which the code no longer keeps `execute` behind `initialize`
(`Disturbs`; section 6).

## 3. Runs and what they show

Passing runs:

| Run | Instance | Distinct states | Shows |
|---|---|---|---|
| `PlanExecutor` | 4 plans of 3 actions (chain, join, pair beside a chain, independent) × 3 ways of submission; at most 2 attempts | 141,805 | waves, cascade, store and life cycle agree under every outcome, cancellation, DELETE and crash; every run ends, or waits for nothing but a compensating action |
| `DagScheduler` | every `depends_on` relation on 4 actions (2^16), both kinds of mode | 270,980 | the waves partition the actions in dependency order, as early as possible, and end; `WavesEnd` also says that the guard "Should not happen" never fires |
| `ApprovalGate` | two requests of a plan and one of an app on one `module.action`, at most 2 decisions each | 129,622 | nothing proceeds without approval, no entry leaks, every wait ends |
| `FireScheduler` | 3 triggers (high/reject, normal/queue, normal/preempt with an hourly limit), 5 fires, limit 2 | 37,886 | limit, order and reject policy hold across the submission; no wake-up is lost |
| `Dispatch` | 2 calls in 4 combinations of module, mode and target; 2 remote nodes; permits of 1, a slot of 1 with cooldown, 2 fallback modules, quarantine after 2 failures | 211,200 | permits, slots, load counts and quarantines stay exact however a dispatch ends; limits are implemented; no node is tried twice; every dispatch ends |
| `FlowExecutor` | a flow of 23 steps of every kind modelled, executed twice; 2 iterations, 1 jump, semaphore of 1 | 300,637 | only `asyncio.wait` leaves orphans; in a flow that jumps forward only, a recorded success outside loops has no failed child, and checkpoint and results agree, also in a run that starts over beside a checkpoint; every run that starts ends although a step of a race hangs |
| `Isolation` | 2 workers, 1 restart, and one of: 2 calls and a round or stop of the monitor; a call and a start by the manager; a round or stop of the monitor beside a start and a stop by the manager | 1,021,795 | no `execute` before `initialize` until `Disturbs`; `_pending` keeps only what is awaited; every call ends, unless a drain waits for a worker that does not read |

Why the bounds are enough. *Executor*: three actions give a wave of two that
race, one downstream of one or both, and one outside the cascade; two attempts
give a retry that succeeds and one that is exhausted; the four plans put every
error policy, an approval, templates on an upstream and on a sibling action, and
a rollback somewhere. *DAG*: four nodes give paths of length three, diamonds and
every cycle up to four. *Gate*: a second decision needs two per request; two
requests in one session and one under the empty run id are the least that share
or fail to share an auto-approval. *Scheduler*: five fires over three triggers
let fires arrive during a submission, be rejected, overtake and meet the limit.
*Dispatch*: two calls are the least that compete for a permit, a slot, a load
count and a quarantine; the four profiles put an explicit target (so that an
unavailable or removed node is met), both remote modes, a thread and a background
task somewhere; node 1 starts one failure below the threshold, so that two calls
can take it there and a success can clear it. Only `least_loaded` is configured,
the strategy that depends on shared state. *Flow*: a try around a fail-fast step
around a race that hangs, and a race around a parallel step, give every way in
which a cancellation or a signal passes through steps with tasks of their own;
two executions give a resume after a crash or a failure, and a run that starts over.
*Isolation*: two tasks are the least that race for a start, and every kind of pair is
in one of the three agendas: two calls, each of them with the monitor (a ping, a
restart or a stop), a call with a start by the manager, the monitor with a start and a
stop by the manager; a second worker is for the restart or the second start.
The safety results do not depend on these bounds where they are proved (section
5). Deadlock is not checked in these runs because the systems really stop: a
plan and a request end, a generator is exhausted, an idle scheduler waits,
dispatches, flows and calls are over.

Runs that find a disagreement between the code and what the repository says:

| Run | The code | The text |
|---|---|---|
| `NoOrphanPending` | after an ABORT failure the wave loop breaks; later actions outside the cascade stay PENDING | `docs/overview/architecture.md:598` "No orphaned `PENDING` actions that can never run." |
| `DependenciesCompleted` | only ABORT failures stop dependents; after continue, skip, retry, rollback or a SKIP decision they run | `protocol/models.py:324` "must reach COMPLETED status before this action runs" |
| `CancelledIsFinal` | DELETE marks every plan CANCELLED but cancels only tasks of asynchronous POSTs; others run on and overwrite it | `api/routes/plans.py:203` "Cancel a running plan" |
| `ApproveAlwaysHonoured` | APPROVE_ALWAYS on a plan is stored under the plan id and looked up under `""` | `orchestration/approval.py:20` "automatically approved without waiting" |
| `QueueDrains` | nothing calls `on_plan_completed`: after `max_concurrent` successful submissions the scheduler never takes another fire | `triggers/scheduler.py:154` "Called by TriggerDaemon when a triggered plan finishes." |

`QueueDrains` uses triggers as `AppTriggerBridge` registers them; for these the
callback really returns plan ids.

## 4. Fairness

* `PlanExecutor`: weak fairness of the executor's steps taken together, but not of
  `Rollback`. The event loop resumes what is ready; a dispatch is bounded by
  `wait_for`, an approval by the gate's timeout, a back-off by its sleep, and store
  writes complete. A compensating action is awaited with no timeout
  (`orchestration/rollback.py:90`, called outside the `wait_for`), so it may hang:
  `RunEnds` says that the run then waits for nothing else, and ends otherwise.
  Clients and the crash have no fairness: `RunEnds` holds whether or not anybody
  cancels.
* `ApprovalGate`: weak fairness of each waiter; its timer guarantees a step.
  Decisions and cancellations have none.
* `DagScheduler`: the executor iterates over the generator to its end.
* `Dispatch`: strong fairness of the progress of each call, which says that the
  semaphores serve their waiters in turn (asyncio's are FIFO) and that every
  execution ends, by itself or by the `wait_for` that every action has. Not
  fair: the timeout of the slot wait, nodes, modules, cooldowns.
* `FlowExecutor`: weak fairness of the event loop and of all leaves but the one
  that hangs; stops, cancellations and crashes have none, and saving ends. The code
  bounds no leaf by itself, so this is an assumption on what the flow calls:
  `FlowEnds` says that a step that hangs where a race or a fail-fast step leaves it
  behind does not hold the flow.
* `Isolation`: weak fairness of what the event loop runs, its timers included, and of
  the end of a `drain` whose worker has read all or is gone; none of the workers,
  which may hang, not read or die, of calls, cancellations or what the services
  begin. A `drain` that waits for a worker that does not read is not bounded
  (`isolation/proxy.py:355`), and `CallsEnd` excepts it by name (`Stuck`): the call's own,
  and that of the call that holds the start lock.
* `FireScheduler`: weak fairness of the loop; it assumes that a submission ends
  (a save, or the run of an app for a callback). Fires have none.

## 5. What is proved

TLAPS checks these for every value of the constants: any set of acyclic plans over
any actions, any number of requests, decisions, triggers, fires, calls, workers and
nodes, any limit, any tree of steps. Every safety invariant and every action
property of a passing run is a theorem, and so are both refinements. Each proof is
of an inductive invariant that TLC had checked first on small instances; finite
sets are asked for only where something is counted, or waits for another.

**`PlanExecutorProofs`**, from `PlanAssumption` (plans are of `PlanType` and
acyclic, which the validator checks), `OriginAssumption` and `NoneAssumption`.
The checked invariants are not inductive. `ExecutorInv` adds
* `Positions`: what the position of an action's coroutine says of its status,
  attempts and row (at a `store_*` label the row is one write behind);
* `WavesCut`: the actions not in the graph any more are closed under
  dependencies, those in earlier waves are over, those still in the graph were
  not touched;
* `AbortsInWave`: an ABORT failure is in the last wave, so that everything
  downstream of it is still in the graph, and `cascade_skipped` is empty until the
  loop is left and then exactly what is downstream of an ABORT failure;
* `Cascaded`: when the final status is decided, all of the cascade was skipped and
  stored, and outside the waves nothing else was;
* `Stored` and `PlanStatuses`: how rows and the plan's statuses follow `pc`.

`Descendants` and `Ancestors` are defined as least closed sets, so a proof about
them gives the closed set to use; no recursion is needed. From `ExecutorInv`:
`TypeCorrect`, `DependenciesFirst`, `AbortIsContained`, `AbortDoesCascade`,
`CompletedIsSound`, `TemplatesResolve`, `StoreFollows`,
`TerminalStays`, `AsyncCancelStays`, and `LifecycleRefinement`: `PlanExecutor`
implements `PlanLifecycle` under the in-memory statuses. `CascadeGuardsAreDead`
shows that the two tests of the wave loop against `cascade_skipped` never fire,
since the set is empty until the loop is left.

**`ApprovalGateProofs`**, from `InfoAssumption`, `SentAssumption`,
`NoneAssumption`: `GateInv` adds to the properties what each position of a waiter
says of the decisions it was sent (`Positions`); from it `OnlyApprovedProceed`,
`PendingExact`, `AlwaysHasSource` and the action property `LateIsRefused`.

**`FireSchedulerProofs`**, from `InfoAssumption`, `BoundAssumption`,
`NoItemAssumption`: `SchedulerInv` adds `RoomForItem` (what the loop found before
it called the callback is still true while it waits) and `Stamped` (all numbers
are below `_sequence`); from it the limit, `RejectedOnce`, `MostUrgentFirst`,
`FirstInFirstOut`.

**`DagSchedulerProofs`**, from `ActionAssumption` (a plan has finitely many actions)
and `ModeAssumption`. `SchedulerInv` adds to the properties
* `Partition`: the waves and the graph share out the actions, and what has left the
  graph is closed under dependencies;
* `UpstreamBefore`: everything upstream of an action of a wave is in earlier waves;
* `NoneForgotten`: what was not ready for the last wave depends on an action that is
  in it or in the graph still, so that in parallel mode no action is late.

From it `WavesAreOrdered`, `WavesAreIndependent`, `WavesAreEarliest` and the types. The
generator removes what it yields from its graph, so the proof needs no induction
over waves: each wave is what has no dependency left. `GuardIsDead` is the argument
behind the comment "Should not happen if DAG validation passed": of finitely many
nodes, one whose set of ancestors is minimal waits for no other, because what it
waited for would have fewer ancestors, unless it lay on a cycle, which `BuildGraph`
has refused. That finiteness is what `ActionAssumption` is for.

**`DispatchProofs`**, from `CallAssumption` (finitely many calls),
`NodeAssumption`, `RoutingAssumption` and `LimitAssumption`, for any calls,
modules, nodes, limits and lengths of the fallback chains. Three independent
arguments:
* `Agrees` says that count and quarantine of each node agree and that the local
  node has neither; each of `RecordFailure`, `RecordSuccess` and `Purge` preserves
  it, so every step that composes them does. From it `QuarantineSound`.
* `Accounts` adds to `LimitsAccounted` only the types of `pc`, `permits` and `slots`
  (neither goes below 0). A step is `Balanced` when it gives and takes what the
  places a call leaves and enters hold; every step of a call is, and a balanced
  step keeps the accounts, by the cardinalities of `FiniteSetTheorems`. From it
  `LimitsSound`, and, because what is left is never negative, so that there was
  room for who entered, `LimiterImplemented`: `Dispatch` implements `Limiter` with
  the permits and with the slots.
* `NodesInv` adds to `LoadAccounted` what the place of a call says of the nodes it
  knows (`Placed`): the node it counts for until it leaves is, on an alternate node,
  one of those it has tried, and the node it is on is neither tried nor still to
  try, so that a call counts for two nodes at most and never twice for one. A step
  moves one call, and the load of a node changes with the set of calls that count
  for it. From it `LoadsSound` and `NodesOnce`. `NodeAssumption` asks for finitely
  many remote nodes here, for the bound of `max_node_retries` on sets of them.

**`IsolationProofs`**, from `ConstantsAssumption`, for any calls, workers, restarts
and operations of the monitor and the manager.
* `Typed` adds to `TypeOK` that one call holds the lock at most; from it `TypeCorrect`.
* `PendingInv` is `PendingIsAwaited` in a form that can be followed through a step: an
  entry of `_pending` belongs to a task, and only that task, its reader or a timeout
  moves both. From it `PendingSound`.
* `StartInv` says that `Orderly` holds as long as `disturbed` is not set. Of its parts,
  `Starters` says where each task can be, that one task at most starts or stops the
  process (a call holds the lock; a service next to it would disturb), that `_started`
  is not set while one starts, and that a process with `_started` has loaded and lives
  unless a service stops it; `Booting` says that the process of the task that starts it
  is `_process`, or has died; `Messages` says to which process, and for which operation
  of its task, each request to load the module and its answer belong, and that an answer
  that arrived came from the worker that is `_process` now. From it `InitializedFirst`.
  The step where it matters is the fast path of `_ensure_started`: `_started` and a
  process that is alive mean that the process has loaded. Requests carry the number of
  their operation, so that an answer to an earlier start by the same service is not
  taken for that of the present one.

**`FlowExecutorProofs`**, from `TreeAssumption`, `OptionAssumption` and
`ShapeAssumption` (the flow is a tree: a step is in one place), for every flow of
the kinds modelled. Its many actions on a step have six shapes (`ActionShape`): a
step leaves, goes on to a child, creates the tasks of its children, a task gets the
semaphore or ends, a step settles what it will leave with. Both invariants are kept
shape by shape.
* `TreeInv`: where a step can be among its children (`Positions`), that in every kind
  of step but a race and a fail-fast one only the child at that place runs
  (`Nested`), that a step that is not on is at its beginning (`Rewound`), that one step
  of the top level runs at most (`OneTop`), and that the target of a goto comes from
  a goto in the step that left with it (`From`). From it `FlowTypeCorrect` and
  `OrphansOnlyOfWaits`.
* `RunInv`, for flows that only jump forward: a step that is ahead, or in one that is,
  is off and has no result (`NotBegun`), whether the run resumed or started over; the
  checkpoint restores nothing of what comes at or after its own index (`Saved`), which
  may be ahead of the run; a step that runs has no result yet (`Unmarked`); a
  sequence in which nothing has failed so far has no failed result behind it
  (`SoFar`), and a recorded success has none below it and nothing running that could
  still fail (`Earned`). From it `CheckpointSound` and `SuccessesEarned`. Steps in loops
  are left out, since they begin again with the results of the iteration before
  (section 6).

`TopOf` and `Above` are functions defined by recursion along the tree. What such a
definition computes for every tree would need induction over it, so
`ShapeAssumption` states the unfolding (a step is above itself and below what is
above its parent, and nothing is above itself by a detour) as a property of the
flow, which TLC evaluates for the flow of the run.

Only model-checked: liveness (`RunEnds`, `RequestsEnd`, `WavesEnd`, `QueueMoves`,
`DispatchEnds`, `FlowEnds`, `CallsEnd`), which is out of the prover's reach, and the
five disagreements of section 3, which are traces of an instance.

## 6. Not modelled, and other observations

Left out of the modelled parts: audit, events, result sanitising, perception,
memory keys and streaming (no status depends on them, their failures are
caught); failures of SQLite; what happens inside a dispatch (in `PlanExecutor`; it
is `Dispatch`'s subject) and inside a rollback, which are one step each, the second of
which may never come;
preemption in the fire scheduler, which
compares a trigger's priority with that of its own plans and so never cancels
anything.

Seen while reading, without a run of their own:
* `on_error: skip` leaves a failed action FAILED; `docs/protocol/iml-protocol.md:140`
  calls it skipped. Rollback is not run on a timeout, and ROLLED_BACK is never set.
* An auto-approval kept under the run id `""` (an app run without one) lets every
  plan's action on that `module.action` pass. `clear_auto_approvals` has no caller.
* A second decision, or the timer, can override a decision whose sender was told
  that it was applied.
* A result that cannot be serialised leaves its row RUNNING in a COMPLETED plan;
  after a synchronous timeout, a cancelled background task or a crash the plan's
  row stays "running", and nothing recovers it at start.
* A second POST with the id of a running plan replaces its entry among the running
  tasks; DELETE on a finished plan overwrites COMPLETED.
* `PlanExecutor.submit_plan` is called only by the trigger daemon, which passes a
  dict where a plan is expected (`triggers/daemon.py:408`, `executor.py:241`), so
  plan triggers always fail; only app triggers, which have a callback, succeed.
  The hourly limit, compared when a fire is queued and counted after its
  submission, could be exceeded if they did not.
* A save by a fire in flight re-inserts a deleted trigger; a trigger whose row says
  fired or throttled is not armed again after a restart; concurrent activations
  leave a watcher nobody can stop.
* `RetryConfig.retry_on` is not used; a plan group is "completed" although plans of
  it failed.
* Dispatch. Lifecycle and cooldown are looked at before a wait of up to 30 s for
  the slot, and not again; the cooldown begins only after it, so calls that wait
  together ignore it. Fallback modules run without a permit, slot, lifecycle or
  quarantine check of their own, and their chain is entered after a refusal too.
  Background tasks, and threads of `sync` actions that timed out, run outside all
  limits. A success that was under way when others quarantined the node clears
  the quarantine. `PolicyEnforcer.reset` has no caller.
* Flows. `FlowEndSignal` and `FlowGotoSignal` are `Exception`s, so a try, a parallel
  or a race step swallows them (`apps/flow_executor.py:870`, `:493`, `:735`). A
  cancelled race or fail-fast step leaves its tasks running, even after the flow
  has returned. A step that returns a failure does not stop a sequence, whatever
  its `on_error`, and the flow is a success; a handled *result* still fails the try
  around it, a handled exception does not. A stopped flow returns success and
  clears its checkpoint; a sequence that was stopped half-way is a success too.
  In a loop, a child that failed in one iteration keeps that result when the next
  one is stopped before it runs: the sequence is then recorded as a success over the
  failure that `_results` still shows for its child (`apps/flow_executor.py:457`).
  The invariant of the proof did not hold there, and TLC has the trace on a flow of
  a loop, a sequence and a leaf; `SuccessIsEarned` speaks of steps in no loop.
  `run_flow` names each run with a new uuid (`apps/runtime.py:521`), so the
  checkpoint of a run that crashed is never found, while
  `docs/app-language/07-flows.md:364` says "On restart, it loads the checkpoint and
  skips already-completed steps"; `FlowExecutor` models executions that share
  their `flow_id`.
* Rollback. The compensating action has no timeout, so one that hangs keeps its plan
  running for ever, with the row at "running" (`orchestration/rollback.py:90`); only a
  cancellation from outside ends it.
* Isolation. What `Disturbs` names is where the code lets an `execute` get to a worker
  before `initialize`. With one of its three conditions taken out, TLC finds
  `ExecuteAfterInitialize` violated: for the first in the instance of `MCIsolation`, for
  the second with three calls, for the third with two calls beside a start and a stop by
  the manager (these two instances are too large to exhaust, so no run has them):
  - `on_start` is `start` without `_start_lock` (`isolation/proxy.py:175-177`), called by
    the lifecycle manager at startup and from the admin routes, while `executor.py:923`
    lets calls through to a module that is STARTING. A first call beside it spawns a
    second worker; the first answer sets `_started`, and `execute` goes to the worker that
    is `_process` by then and has not loaded. The comment at `isolation/proxy.py:103` has
    the lock "prevent concurrent start() calls", and the docstring of `_ensure_started`
    says that "only one start() runs". `restart` and `stop` take no lock either: two
    starts can overlap and orphan a worker, and the `_kill` of `stop` sets `_process` to
    None after awaits in which a call may have started the next worker, which is then
    forgotten while `_started` is set.
  - When an initialized worker has died, `_started` stays set; once another call has
    spawned the next process, the fast path of `_ensure_started` (`isolation/proxy.py:436`)
    lets an `execute` through while that process boots.
  - A `stop` that is cancelled halfway leaves `_started` set in the same way.
* A worker that lives and does not read, with a pipe that large parameters have filled,
  holds every request in `drain` (`isolation/proxy.py:355`), which the timeout of
  `_rpc` does not cover: the call, the calls behind the lock it may hold, the round of
  the monitor, and `stop`, for ever.
* A failed `initialize` leaves its process running. A reader that survives its process
  reads the next stream beside the new reader, which raises and fails everything
  pending, contrary to the comment at `proxy.py:257`. `start` resets `_restart_count`
  and `restart` then sets it to 1, so a `max_restarts` of 2 or more is never reached
  (`isolation/health.py:5` says "up to max_restarts"). `stop` is not final: a later
  `execute` starts the worker again. A cancelled caller leaves its entry in `_pending`.
  The exception that the reader's `finally` raises when `_process` is None already, and
  that `_kill` would then meet while it awaits the reader, is left out.

Components without a model, and why (all are in `PROJECT.json`): the trigger
daemon, because what matters there (concurrent loads, activations and saves of one
trigger) has no guard whose correctness could be stated, only the gaps listed
above; plan groups, a semaphore around `PlanExecutor.run`; the module life cycle
beyond the verdict `Dispatch` asks for and the start and stop of an isolated module;
the quota of an application, whose slot is given back in a `finally` that encloses the
run with no await between. In `FlowExecutor`, `map` and `reduce` steps are left out: what is hard in
them is the expression context, which concurrent items of a map share
(`apps/flow_executor.py:596`), and the model has no expressions; as structure they
are a parallel step and a loop. In `Isolation`, virtual environments, manifests,
several proxies of one monitor, and a worker that ignores `terminate` are left
out. The rest of the repository is I/O, string work (the app compiler, the capability
modules, the parsers) or storage, without a protocol to check.

## 7. Plan

Done: the executor with its store, the DAG scheduler, the gate, the life cycle
with its refinement, the fire scheduler, dispatch with its limits, flows with their
checkpoints, and isolated modules, each checked by TLC; and the proofs of their
safety properties and of both refinements for every value of the constants.

What is left:

1. What the runs' liveness properties rest on and a proof can reach: that a component
   which is not done has a step to take (no coroutine of a wave, no call and no step of
   a flow waits for something nobody will do), as invariants.
2. Of `FlowExecutor`, what a fan-out step records when its children are cancelled,
   for flows that jump backwards as well.
3. Of `PlanExecutor`, the results that templates read: that a template sees the
   result of the attempt that completed.
