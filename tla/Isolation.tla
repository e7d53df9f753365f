------------------------------ MODULE Isolation ------------------------------
(***************************************************************************)
(* The proxy of an isolated module (isolation/proxy.py), its worker        *)
(* processes (isolation/worker.py), the monitor that checks it             *)
(* (isolation/health.py) and the lifecycle manager that starts and stops   *)
(* it (modules/lifecycle.py).                                              *)
(*                                                                         *)
(* The calls and the two services are tasks of one event loop; a step is   *)
(* what one of them does between two awaits.  A worker handles its requests*)
(* in order, may take for ever, not read at all, and die.  Timeouts may    *)
(* happen at any time.  The environment of the process, the manifest and   *)
(* the content of requests and results are left out.  A write that is not  *)
(* refused reaches the pipe at once, and only the parameters of an execute *)
(* can fill the pipe so that drain waits.  terminate ends a worker.        *)
(***************************************************************************)
EXTENDS Naturals, Sequences, FiniteSets

CONSTANTS
    Calls,          \* calls of execute, numbered in the order they begin
    Monitor,        \* the task of the health monitor
    Manager,        \* the task in which the lifecycle manager acts on the module
    MaxWorkers,     \* bound on the processes; when it is reached a spawn fails
    MaxRestarts,    \* _max_restarts
    Agendas         \* bounds: how many operations each task may begin

Call == 1..Calls
Service == {Monitor, Manager}
Task == Call \union Service
Worker == 1..MaxWorkers
NoWorker == 0
Unread == MaxWorkers + 1    \* a reader task that has not begun to read

ASSUME ConstantsAssumption ==
    /\ Calls \in Nat /\ Service \intersect Call = {} /\ Monitor # Manager
    /\ MaxWorkers \in Nat /\ MaxRestarts \in Nat
    /\ Agendas \subseteq [Task -> Nat]

\* A request is named by its task, its method and the operation it is for.
Method == {"initialize", "execute", "health_check", "shutdown"}
Request == Task \X Method \X Nat

VARIABLES
    process,    \* _process
    started,    \* _started
    restarts,   \* _restart_count
    lock,       \* the tasks that hold _start_lock
    pc,         \* what each task awaits: the answer to a method, or another step
    mine,       \* the process whose ready line, or whose drain, a task waits for
    future,     \* the future of the request each task awaits
    left,       \* the operations a task may still begin
    life,       \* each worker: "unborn", "up" or "dead"
    loaded,     \* the workers that handled initialize
    stdin,      \* requests a worker has not read
    stdout,     \* lines of a worker nobody has read
    reading,    \* the stream each reader task waits for, by the start that made it
    reader,     \* _reader_task
    pending,    \* _pending
    disturbed   \* history: what Disturbs names has happened

procVars == <<process, started, restarts, lock>>
taskVars == <<pc, mine, future, left>>
workerVars == <<life, loaded, stdin, stdout>>
readVars == <<reading, reader, pending>>
vars == <<procVars, taskVars, workerVars, readVars, disturbed>>

Init ==
    /\ process = NoWorker
    /\ started = FALSE
    /\ restarts = 0
    /\ lock = {}
    /\ pc = [t \in Task |-> "idle"]
    /\ mine = [t \in Task |-> NoWorker]
    /\ future = [t \in Task |-> "none"]
    /\ left \in Agendas
    /\ life = [w \in Worker |-> "unborn"]
    /\ loaded = {}
    /\ stdin = [w \in Worker |-> <<>>]
    /\ stdout = [w \in Worker |-> <<>>]
    /\ reading = [w \in Worker |-> NoWorker]
    /\ reader = NoWorker
    /\ pending = {}
    /\ disturbed = FALSE

Lives(w) == w # NoWorker /\ life[w] = "up"
Alive == started /\ Lives(process)      \* is_alive

\* Task t begins an operation.
Begins(t) == left[t] > 0 /\ left' = [left EXCEPT ![t] = @ - 1]

Id(t, method) == <<t, method, left[t]>>
Awaits(t) == pc[t] \in Method              \* in _rpc
Drains(t) == Awaits(t) /\ mine[t] # NoWorker
Waits(t) == Awaits(t) /\ mine[t] = NoWorker
-----------------------------------------------------------------------------
(* _rpc *)

\* An execute is unread: the pipe may be full.
Crowded(requests) == \E k \in 1..Len(requests) : requests[k][2] = "execute"

\* The write to _process.stdin is taken, and drain returns at once or waits for the
\* worker to read; or it is refused when the process is gone.
Send(t, method) ==
    LET id == <<t, method, left'[t]>>
        taken ==
            /\ process # NoWorker
            /\ stdin' = IF Lives(process)
                        THEN [stdin EXCEPT ![process] = Append(@, id)] ELSE stdin
            /\ pending' = pending \union {id}
            /\ future' = [future EXCEPT ![t] = "none"]
            /\ \/ mine' = [mine EXCEPT ![t] = NoWorker]
               \/ /\ Lives(process) /\ Crowded(stdin'[process])
                  /\ mine' = [mine EXCEPT ![t] = process]
        refused ==
            /\ ~Lives(process)
            /\ future' = [future EXCEPT ![t] = "error"]
            /\ mine' = [mine EXCEPT ![t] = NoWorker]
            /\ UNCHANGED <<stdin, pending>>
    IN  /\ pc' = [pc EXCEPT ![t] = method]
        /\ taken \/ refused

\* drain is over.  The end of the worker ends it too, with an exception or without.
Drained(t) ==
    /\ Drains(t)
    /\ mine' = [mine EXCEPT ![t] = NoWorker]
    /\ \/ UNCHANGED <<future, pending>>
       \/ /\ life[mine[t]] = "dead"
          /\ future' = [future EXCEPT ![t] = "error"]
          /\ pending' = pending \ {Id(t, pc[t])}
    /\ UNCHANGED <<procVars, pc, left, workerVars, reading, reader>>

\* A worker that lives and does not read lets drain wait for ever.
Stuck(t) == Drains(t) /\ Lives(mine[t]) /\ stdin[mine[t]] # <<>>

\* Futures with an exception for the requests reqs.
Failed(reqs) ==
    [t \in Task |-> IF Awaits(t) /\ future[t] = "none" /\ Id(t, pc[t]) \in reqs
                    THEN "error" ELSE future[t]]

\* Mutant: the future is awaited without a timeout when it is pending.
RpcTimesOutUnlessPending(t) ==
    /\ Waits(t) /\ future[t] = "none" /\ Id(t, pc[t]) \notin pending
    /\ future' = [future EXCEPT ![t] = "error"]
    /\ UNCHANGED <<procVars, pc, mine, left, workerVars, readVars>>

\* Mutant: the entry stays, as it does when the task is cancelled.
RpcTimesOutKeepsEntry(t) ==
    /\ Waits(t) /\ future[t] = "none"
    /\ future' = [future EXCEPT ![t] = "error"]
    /\ UNCHANGED <<procVars, pc, mine, left, workerVars, readVars>>

\* wait_for gives up.
RpcTimesOut(t) ==
    /\ Waits(t) /\ future[t] = "none"
    /\ future' = [future EXCEPT ![t] = "error"]
    /\ pending' = pending \ {Id(t, pc[t])}
    /\ UNCHANGED <<procVars, pc, mine, left, workerVars, reading, reader>>
-----------------------------------------------------------------------------
(* _reader_loop *)

\* What a reader loop leaves behind when it ends: all that is pending fails.  If
\* the process is gone its finally clause raises too, and the futures stay.
EndLoop(r) ==
    /\ reading' = [reading EXCEPT ![r] = NoWorker]
    /\ IF process = NoWorker THEN UNCHANGED <<future, pending>>
       ELSE future' = Failed(pending) /\ pending' = {}

\* A stream has one task that waits for a line: a second readline raises.
Waited(s) ==
    \/ \E r \in Worker : reading[r] = s
    \/ \E t \in Task : pc[t] = "ready" /\ mine[t] = s
MayRead == process # NoWorker /\ (stdout[process] # <<>> \/ ~Waited(process))

\* The loop begins with the stream of the process that is there now.
ReaderStarts(r) ==
    /\ reading[r] = Unread
    /\ \/ /\ MayRead
          /\ reading' = [reading EXCEPT ![r] = process]
          /\ UNCHANGED <<future, pending>>
       \/ /\ ~MayRead
          /\ EndLoop(r)
    /\ UNCHANGED <<procVars, pc, mine, left, workerVars, reader>>

\* A response resolves the future its id is pending for; the response to a
\* request that timed out is passed over.  Then the stream of the process that
\* is there now is read, which is another one after a start.
ReaderLine(r) ==
    /\ reading[r] \in Worker /\ stdout[reading[r]] # <<>>
    /\ LET line == Head(stdout[reading[r]])
           answered == {t \in Task : /\ line.id \in pending /\ Awaits(t)
                                     /\ future[t] = "none" /\ Id(t, pc[t]) = line.id}
       IN  /\ future' = [t \in Task |-> IF t \in answered THEN line.result ELSE future[t]]
           /\ pending' = pending \ {line.id}
    /\ stdout' = [stdout EXCEPT ![reading[r]] = Tail(@)]
    /\ reading' = [reading EXCEPT ![r] = IF process = reading[r] THEN @ ELSE Unread]
    /\ UNCHANGED <<procVars, pc, mine, left, life, loaded, stdin, reader>>

\* readline returns nothing: the worker exited.
ReaderEOF(r) ==
    /\ reading[r] \in Worker
    /\ life[reading[r]] = "dead" /\ stdout[reading[r]] = <<>>
    /\ EndLoop(r)
    /\ UNCHANGED <<procVars, pc, mine, left, workerVars, reader>>
-----------------------------------------------------------------------------
(* start and _kill *)

\* An execute that raises lets go of the lock; the services go on.
GivesUp(t) ==
    /\ pc' = [pc EXCEPT ![t] = IF t \in Service THEN "idle" ELSE "raised"]
    /\ lock' = lock \ {t}

\* The venv is there and the process is spawned; its ready line is awaited.
Spawn(t) ==
    /\ pc[t] = "spawn"
    /\ \E w \in Worker :
        /\ life[w] = "unborn" /\ \A v \in 1..(w - 1) : life[v] # "unborn"
        /\ life' = [life EXCEPT ![w] = "up"]
        /\ process' = w
        /\ mine' = [mine EXCEPT ![t] = w]
    /\ pc' = [pc EXCEPT ![t] = "ready"]
    /\ UNCHANGED <<started, restarts, lock, future, left, loaded, stdin, stdout, readVars>>

SpawnFails(t) ==
    /\ pc[t] = "spawn"
    /\ GivesUp(t)
    /\ UNCHANGED <<process, started, restarts, mine, future, left, workerVars, readVars>>

\* worker.ready, which a worker sends first: a reader task is made and initialize is sent.
Ready(t) ==
    /\ pc[t] = "ready" /\ Lives(mine[t])
    /\ reading' = [reading EXCEPT ![mine[t]] = Unread]
    /\ reader' = mine[t]
    /\ UNCHANGED <<procVars, left, life, loaded, stdout>>
    /\ Send(t, "initialize")

\* The rest of a task whose _kill is over, by what it was for.
AfterKill(t, purpose) ==
    /\ process' = NoWorker
    /\ \/ purpose = "giveup" /\ GivesUp(t) /\ UNCHANGED started
       \/ /\ purpose = "restart"
          /\ pc' = [pc EXCEPT ![t] = "sleep"]
          /\ started' = FALSE
          /\ UNCHANGED lock
       \/ /\ purpose = "stop"
          /\ pc' = [pc EXCEPT ![t] = IF t = Monitor THEN "stopped" ELSE "idle"]
          /\ started' = FALSE
          /\ UNCHANGED lock

\* _kill: the reader task is cancelled and fails what is pending, and the process
\* that is there is terminated; both are awaited.
Kill(t, purpose) ==
    LET reads == reader # NoWorker /\ reading[reader] # NoWorker
    IN  /\ \/ reads /\ EndLoop(reader)
           \/ /\ reads => reading[reader] = Unread    \* it has not run at all
              /\ reading' = IF reads THEN [reading EXCEPT ![reader] = NoWorker] ELSE reading
              /\ UNCHANGED <<future, pending>>
        /\ reader' = IF reads THEN NoWorker ELSE reader
        /\ life' = IF Lives(process) THEN [life EXCEPT ![process] = "dead"] ELSE life
        /\ stdin' = IF Lives(process) THEN [stdin EXCEPT ![process] = <<>>] ELSE stdin
        /\ mine' = [mine EXCEPT ![t] = NoWorker]
        /\ IF reads \/ Lives(process)
           THEN pc' = [pc EXCEPT ![t] = purpose] /\ UNCHANGED <<process, started, lock>>
           ELSE AfterKill(t, purpose)
        /\ UNCHANGED <<restarts, loaded, stdout>>

\* The wait is over; _process is cleared, whichever process it is by now.
KillEnds(t) ==
    /\ pc[t] \in {"giveup", "restart", "stop"}
    /\ AfterKill(t, pc[t])
    /\ UNCHANGED <<restarts, mine, future, left, workerVars, readVars>>

\* No ready line: the worker died, or 10 s went by.
NotReady(t) ==
    /\ pc[t] = "ready"
    /\ UNCHANGED left
    /\ Kill(t, "giveup")
-----------------------------------------------------------------------------
(* execute *)

\* _ensure_started: the fast path, or the lock.
Execute(c) ==
    /\ pc[c] = "idle" /\ \A d \in 1..(c - 1) : pc[d] # "idle"
    /\ Begins(c)
    /\ IF Alive THEN Send(c, "execute")
       ELSE pc' = [pc EXCEPT ![c] = "lock"] /\ UNCHANGED <<mine, future, pending, stdin>>
    /\ UNCHANGED <<procVars, life, loaded, stdout, reading, reader>>

\* Mutant: the lock is not held while start awaits.
LockedForTheCheck(c) ==
    /\ pc[c] = "lock"
    /\ UNCHANGED <<process, started, restarts, lock, left, life, loaded, stdout, reading,
                   reader>>
    /\ \/ Alive /\ Send(c, "execute")
       \/ /\ ~Alive
          /\ pc' = [pc EXCEPT ![c] =
                        IF restarts >= MaxRestarts /\ ~started THEN "raised" ELSE "spawn"]
          /\ UNCHANGED <<mine, future, pending, stdin>>

\* The lock is free: what was seen before it is looked at again.
Locked(c) ==
    /\ pc[c] = "lock" /\ lock = {}
    /\ UNCHANGED <<process, started, restarts, left, life, loaded, stdout, reading, reader>>
    /\ \/ /\ Alive
          /\ Send(c, "execute")
          /\ UNCHANGED lock
       \/ /\ ~Alive
          /\ IF restarts >= MaxRestarts /\ ~started
             THEN GivesUp(c)
             ELSE pc' = [pc EXCEPT ![c] = "spawn"] /\ lock' = {c}
          /\ UNCHANGED <<mine, future, pending, stdin>>

\* The answer of an _rpc that is not drained any more.
Answered(t, method, result) == pc[t] = method /\ Waits(t) /\ future[t] = result

\* The worker has answered initialize; the call goes on with its request.
Initialized(c) ==
    /\ c \in Call /\ Answered(c, "initialize", "ok")
    /\ started' = TRUE
    /\ restarts' = 0
    /\ lock' = lock \ {c}
    /\ UNCHANGED <<process, left, life, loaded, stdout, reading, reader>>
    /\ Send(c, "execute")

NotInitialized(t) ==
    /\ Answered(t, "initialize", "error")
    /\ GivesUp(t)
    /\ future' = [future EXCEPT ![t] = "none"]
    /\ UNCHANGED <<process, started, restarts, mine, left, workerVars, readVars>>

Returns(c) ==
    /\ c \in Call
    /\ \/ Answered(c, "execute", "ok") /\ pc' = [pc EXCEPT ![c] = "returned"]
       \/ Answered(c, "execute", "error") /\ pc' = [pc EXCEPT ![c] = "raised"]
    /\ future' = [future EXCEPT ![c] = "none"]
    /\ UNCHANGED <<procVars, mine, left, workerVars, readVars>>

\* The task of a call, or of an action of the module manager, is cancelled: its
\* entry in _pending stays.
Cancel(t) ==
    /\ t # Monitor /\ pc[t] \notin {"idle", "active", "returned", "raised"}
    /\ pc' = [pc EXCEPT ![t] = "raised"]
    /\ lock' = lock \ {t}
    /\ future' = [future EXCEPT ![t] = "none"]
    /\ mine' = [mine EXCEPT ![t] = NoWorker]
    /\ UNCHANGED <<process, started, restarts, left, workerVars, readVars>>
-----------------------------------------------------------------------------
(* stop, of a proxy that a service stops *)

StopBegins(t) ==
    /\ Begins(t)
    /\ \/ /\ Lives(process)
          /\ Send(t, "shutdown")
          /\ UNCHANGED <<procVars, life, loaded, stdout, reading, reader>>
       \/ /\ ~Lives(process)
          /\ Kill(t, "stop")

\* Whatever the answer is, the worker is killed.
ShutDown(t) ==
    /\ \E result \in {"ok", "error"} : Answered(t, "shutdown", result)
    /\ UNCHANGED left
    /\ Kill(t, "stop")
-----------------------------------------------------------------------------
(* The monitor *)

\* _check_one of a proxy that was not started, or whose restarts are used up.
CheckPasses ==
    /\ pc[Monitor] = "idle" /\ Begins(Monitor)
    /\ ~started \/ (~Alive /\ restarts >= MaxRestarts)
    /\ UNCHANGED <<procVars, pc, mine, future, workerVars, readVars>>

CheckPings ==
    /\ pc[Monitor] = "idle" /\ Begins(Monitor) /\ Alive
    /\ Send(Monitor, "health_check")
    /\ UNCHANGED <<procVars, life, loaded, stdout, reading, reader>>

\* restart
CheckRestarts ==
    /\ pc[Monitor] = "idle" /\ Begins(Monitor)
    /\ started /\ ~Alive /\ restarts < MaxRestarts
    /\ Kill(Monitor, "restart")

Pinged ==
    /\ \E result \in {"ok", "error"} : Answered(Monitor, "health_check", result)
    /\ GivesUp(Monitor)
    /\ future' = [future EXCEPT ![Monitor] = "none"]
    /\ UNCHANGED <<process, started, restarts, mine, left, workerVars, readVars>>

\* start returns at once when somebody has started the worker meanwhile.
RestartDelayOver ==
    /\ pc[Monitor] = "sleep"
    /\ IF Alive THEN GivesUp(Monitor) /\ restarts' = restarts + 1
       ELSE pc' = [pc EXCEPT ![Monitor] = "spawn"] /\ UNCHANGED <<lock, restarts>>
    /\ UNCHANGED <<process, started, mine, future, left, workerVars, readVars>>

\* start sets _restart_count to 0, and restart then counts one, unless start raises
\* for its last line because the process is gone.
Restarted ==
    /\ Answered(Monitor, "initialize", "ok")
    /\ started' = TRUE
    /\ restarts' = IF process = NoWorker THEN 0 ELSE 1
    /\ GivesUp(Monitor)
    /\ future' = [future EXCEPT ![Monitor] = "none"]
    /\ UNCHANGED <<process, mine, left, workerVars, readVars>>

\* HealthMonitor.stop: the check is cancelled where it is, then the proxy stops.
Stop ==
    /\ pc[Monitor] \notin {"shutdown", "stop", "stopped"}
    /\ StopBegins(Monitor)
-----------------------------------------------------------------------------
(* The lifecycle manager: "idle" is a module in state LOADED, DISABLED or ERROR *)

\* start_module: on_start is start, without the lock.
OnStart ==
    /\ pc[Manager] = "idle" /\ Begins(Manager)
    /\ pc' = [pc EXCEPT ![Manager] = IF Alive THEN "active" ELSE "spawn"]
    /\ UNCHANGED <<procVars, mine, future, workerVars, readVars>>

\* The module is ACTIVE, unless start raises for its last line.
OnStartEnds ==
    /\ Answered(Manager, "initialize", "ok")
    /\ started' = TRUE
    /\ restarts' = 0
    /\ pc' = [pc EXCEPT ![Manager] = IF process = NoWorker THEN "idle" ELSE "active"]
    /\ future' = [future EXCEPT ![Manager] = "none"]
    /\ UNCHANGED <<process, lock, mine, left, workerVars, readVars>>

\* stop_module: on_stop is stop.
OnStop ==
    /\ pc[Manager] = "active"
    /\ StopBegins(Manager)
-----------------------------------------------------------------------------
(* The worker *)

\* run_worker handles one line after the other.  initialize may fail to load the
\* module; execute fails in a worker that has not loaded it.
Handle(w) ==
    /\ Lives(w) /\ stdin[w] # <<>>
    /\ LET request == Head(stdin[w])
       IN  \E result \in {"ok", "error"} :
            /\ request[2] \in {"health_check", "shutdown"} => result = "ok"
            /\ request[2] = "execute" /\ w \notin loaded => result = "error"
            /\ loaded' = IF request[2] = "initialize" /\ result = "ok"
                         THEN loaded \union {w} ELSE loaded
            /\ stdout' = [stdout EXCEPT ![w] = Append(@, [id |-> request, result |-> result])]
    /\ stdin' = [stdin EXCEPT ![w] = Tail(@)]
    /\ UNCHANGED <<procVars, taskVars, life, readVars>>

\* It crashes, or exits after shutdown.
Die(w) ==
    /\ Lives(w)
    /\ life' = [life EXCEPT ![w] = "dead"]
    /\ stdin' = [stdin EXCEPT ![w] = <<>>]
    /\ UNCHANGED <<procVars, taskVars, loaded, stdout, readVars>>
-----------------------------------------------------------------------------
\* What starts and stops the worker, or waits to.
Busy(t) ==
    pc[t] \in {"spawn", "ready", "initialize", "giveup", "restart", "sleep", "shutdown",
               "stop"}
Stopping(t) == pc[t] \in {"shutdown", "stop"}

\* A service is at the process together with another task, which no lock prevents;
\* a worker that had loaded the module dies and nobody stops it; or who stops it is
\* cancelled halfway.
Disturbs ==
    \/ \E s \in Service : \E t \in Task \ {s} : Busy(s)' /\ Busy(t)'
    \/ /\ \E w \in loaded : life[w] = "up" /\ life'[w] = "dead"
       /\ pc' = pc /\ \A s \in Service : ~Stopping(s)
    \/ \E s \in Service : Stopping(s) /\ pc'[s] = "raised"

Noted == disturbed' = (disturbed \/ Disturbs)

CallStep(c) ==
    \/ Locked(c) /\ Noted
    \/ Initialized(c) /\ Noted
    \/ Returns(c) /\ Noted
TaskStep(t) ==
    \/ Spawn(t) /\ Noted
    \/ SpawnFails(t) /\ Noted
    \/ Ready(t) /\ Noted
    \/ NotReady(t) /\ Noted
    \/ KillEnds(t) /\ Noted
    \/ NotInitialized(t) /\ Noted
    \/ RpcTimesOut(t) /\ Noted
    \/ ShutDown(t) /\ Noted
ServiceStep ==
    \/ Pinged /\ Noted
    \/ RestartDelayOver /\ Noted
    \/ Restarted /\ Noted
    \/ OnStartEnds /\ Noted
ReaderStep(r) ==
    \/ ReaderStarts(r) /\ Noted
    \/ ReaderLine(r) /\ Noted
    \/ ReaderEOF(r) /\ Noted
BeginStep ==
    \/ \E c \in Call : Execute(c) /\ Noted
    \/ CheckPasses /\ Noted
    \/ CheckPings /\ Noted
    \/ CheckRestarts /\ Noted
    \/ Stop /\ Noted
    \/ OnStart /\ Noted
    \/ OnStop /\ Noted

Next ==
    \/ BeginStep \/ ServiceStep
    \/ \E c \in Call : CallStep(c)
    \/ \E t \in Task : TaskStep(t)
    \/ \E t \in Task : Drained(t) /\ Noted
    \/ \E t \in Task : Cancel(t) /\ Noted
    \/ \E r \in Worker : ReaderStep(r)
    \/ \E w \in Worker : Handle(w) /\ Noted
    \/ \E w \in Worker : Die(w) /\ Noted

\* The event loop runs what is ready and its timers fire; drain ends when the worker
\* has read all or is gone.  A worker need not answer, nor read, nor a service act,
\* nor anything be called.
Fairness ==
    WF_vars(\/ \E c \in Call : CallStep(c)
            \/ \E t \in Task : TaskStep(t) \/ (Drained(t) /\ ~Stuck(t) /\ Noted)
            \/ ServiceStep
            \/ \E r \in Worker : ReaderStep(r))

Spec == Init /\ [][Next]_vars /\ Fairness
-----------------------------------------------------------------------------
TypeOK ==
    /\ process \in Worker \union {NoWorker}
    /\ started \in BOOLEAN
    /\ restarts \in Nat
    /\ lock \subseteq Call /\ Cardinality(lock) <= 1
    /\ pc \in [Task -> Method \union {"idle", "active", "lock", "spawn", "ready", "giveup",
                    "restart", "sleep", "stop", "stopped", "returned", "raised"}]
    /\ mine \in [Task -> Worker \union {NoWorker}]
    /\ future \in [Task -> {"none", "ok", "error"}]
    /\ left \in [Task -> Nat]
    /\ life \in [Worker -> {"unborn", "up", "dead"}]
    /\ loaded \subseteq Worker
    /\ stdin \in [Worker -> Seq(Request)]
    /\ stdout \in [Worker -> Seq([id : Request, result : {"ok", "error"}])]
    /\ reading \in [Worker -> Worker \union {NoWorker, Unread}]
    /\ reader \in Worker \union {NoWorker}
    /\ pending \subseteq Request
    /\ disturbed \in BOOLEAN

\* No worker is asked to execute before it has loaded the module, whatever calls
\* come first together, are cancelled or fail while they start it, and however often
\* the module is started and stopped between them: _start_lock serialises the calls.
\* It does not serialise them with start of the services, and after a worker has died
\* _started is still set while the next one boots: that is what Disturbs names.
ExecuteAfterInitialize ==
    ~disturbed =>
        \A w \in Worker : \A k \in 1..Len(stdin[w]) :
            stdin[w][k][2] = "execute" => w \in loaded

\* _pending does not grow: whether a request is answered, times out, is refused by
\* a process that is gone, or its reader ends, its entry goes with the future; only
\* a task that was cancelled leaves its entry behind.  A call that raises passes
\* through a state in which it still awaits and its future is resolved.
PendingIsAwaited ==
    \A request \in pending :
        LET t == request[1]
        IN  \/ Awaits(t) /\ future[t] = "none" /\ request = Id(t, pc[t])
            \/ pc[t] = "raised"                                      \* cancelled
            \/ t = Monitor /\ pc[t] \in {"shutdown", "stop", "stopped"}

\* In the end every execute has returned or raised, although workers crash or hang,
\* requests are written to a process that is gone, and answers are lost with their
\* reader.  Only a drain can keep it for ever: its own, or that of the call that holds
\* the lock, on a worker that lives and does not read.
CallsEnd ==
    \A c \in Call : <>[](\/ pc[c] \in {"idle", "returned", "raised"}
                         \/ \E t \in {c} \union lock : Stuck(t))
=============================================================================
