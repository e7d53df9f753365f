--------------------------- MODULE IsolationProofs ---------------------------
(***************************************************************************)
(* Proofs about the proxy of an isolated module: its type invariant; that  *)
(* _pending holds the requests tasks await, and those of tasks that were   *)
(* cancelled; and that no worker is asked to execute before it has loaded  *)
(* the module, as long as nothing has disturbed it.                        *)
(***************************************************************************)
EXTENDS Isolation, FiniteSetTheorems, SequenceTheorems, TLAPS

Place == Method \union {"idle", "active", "lock", "spawn", "ready", "giveup", "restart",
                        "sleep", "stop", "stopped", "returned", "raised"}

Line == [id : Request, result : {"ok", "error"}]

\* The actions, by who takes them, without the history variable.
CallActs(c) == Execute(c) \/ Locked(c) \/ Initialized(c) \/ Returns(c)
TaskActs(t) ==
    \/ Spawn(t) \/ SpawnFails(t) \/ Ready(t) \/ NotReady(t) \/ KillEnds(t)
    \/ NotInitialized(t) \/ RpcTimesOut(t) \/ ShutDown(t) \/ Drained(t) \/ Cancel(t)
MonitorActs ==
    \/ CheckPasses \/ CheckPings \/ CheckRestarts \/ Pinged \/ RestartDelayOver
    \/ Restarted \/ Stop
ManagerActs == OnStart \/ OnStartEnds \/ OnStop
WorkerActs(w) ==
    ReaderStarts(w) \/ ReaderLine(w) \/ ReaderEOF(w) \/ Handle(w) \/ Die(w)

\* A step is one of them.
LEMMA Actors ==
    ASSUME Next
    PROVE  /\ \/ \E c \in Call : CallActs(c)
              \/ \E t \in Task : TaskActs(t)
              \/ MonitorActs
              \/ ManagerActs
              \/ \E w \in Worker : WorkerActs(w)
           /\ Noted
<1>1. CASE BeginStep \/ ServiceStep
  BY <1>1 DEF BeginStep, ServiceStep, CallActs, MonitorActs, ManagerActs
<1>2. CASE \E c \in Call : CallStep(c)
  BY <1>2 DEF CallStep, CallActs
<1>3. CASE \E t \in Task : TaskStep(t) \/ (Drained(t) /\ Noted) \/ (Cancel(t) /\ Noted)
  BY <1>3 DEF TaskStep, TaskActs
<1>4. CASE \E w \in Worker : ReaderStep(w) \/ (Handle(w) /\ Noted) \/ (Die(w) /\ Noted)
  BY <1>4 DEF ReaderStep, WorkerActs
<1> QED BY <1>1, <1>2, <1>3, <1>4 DEF Next
-----------------------------------------------------------------------------
(* Types *)

\* The lock is free or of one call.
OneLocks == lock = {} \/ \E c \in Call : lock = {c}

Typed == TypeOK /\ OneLocks

\* A lock of one call is a small set.
LEMMA LockSmall ==
    ASSUME NEW L, L = {} \/ \E c \in Call : L = {c}
    PROVE  L \subseteq Call /\ Cardinality(L) <= 1
<1>1. CASE L = {}
  BY <1>1, FS_EmptySet
<1>2. CASE \E c \in Call : L = {c}
  BY <1>2, FS_Singleton
<1> QED BY <1>1, <1>2

\* The services are tasks, and no calls.
LEMMA Tasks ==
    /\ Monitor \in Task /\ Manager \in Task /\ Call \subseteq Task
    /\ Monitor \notin Call /\ Manager \notin Call /\ Monitor # Manager
    /\ Service = {Monitor, Manager}
BY ConstantsAssumption DEF Task, Service

\* A task that begins an operation has one less to begin.
LEMMA BeginsLess ==
    ASSUME Typed, NEW t \in Task, Begins(t)
    PROVE  /\ left' \in [Task -> Nat] /\ left'[t] < left[t]
           /\ \A u \in Task \ {t} : left'[u] = left[u]
BY DEF Begins, Typed, TypeOK

\* _rpc writes to the process that is there, if any.
LEMMA SendTyped ==
    ASSUME Typed, NEW t \in Task, NEW method \in Method, Send(t, method),
           left' \in [Task -> Nat]
    PROVE  /\ pc' = [pc EXCEPT ![t] = method] /\ pc' \in [Task -> Place]
           /\ future' \in [Task -> {"none", "ok", "error"}]
           /\ stdin' \in [Worker -> Seq(Request)]
           /\ pending' \subseteq Request
           /\ mine' \in [Task -> Worker \union {NoWorker}]
<1> DEFINE id == <<t, method, left'[t]>>
<1>1. id \in Request
  BY DEF Request
<1>2. pc' = [pc EXCEPT ![t] = method] /\ pc' \in [Task -> Place]
  BY DEF Send, Typed, TypeOK, Place
<1>3. future' \in [Task -> {"none", "ok", "error"}] /\ pending' \subseteq Request
  BY <1>1 DEF Send, Typed, TypeOK
<1>4. stdin' \in [Worker -> Seq(Request)]
  <2>1. CASE stdin' = [stdin EXCEPT ![process] = Append(@, id)] /\ Lives(process)
    <3>1. process \in Worker
      BY <2>1 DEF Lives, Typed, TypeOK
    <3>2. Append(stdin[process], id) \in Seq(Request)
      BY <1>1, <3>1 DEF Typed, TypeOK
    <3> QED BY <2>1, <3>1, <3>2 DEF Typed, TypeOK
  <2>2. CASE stdin' = stdin
    BY <2>2 DEF Typed, TypeOK
  <2> QED BY <2>1, <2>2 DEF Send
<1>5. mine' \in [Task -> Worker \union {NoWorker}]
  <2>1. mine' \in {[mine EXCEPT ![t] = NoWorker], [mine EXCEPT ![t] = process]}
    BY DEF Send
  <2> QED BY <2>1 DEF Typed, TypeOK
<1> QED BY <1>2, <1>3, <1>4, <1>5

\* A reader loop that ends.
LEMMA EndLoopTyped ==
    ASSUME Typed, NEW r \in Worker, EndLoop(r)
    PROVE  /\ reading' \in [Worker -> Worker \union {NoWorker, Unread}]
           /\ future' \in [Task -> {"none", "ok", "error"}]
           /\ pending' \subseteq Request
BY DEF EndLoop, Failed, Typed, TypeOK

\* A task that gives up lets go of the lock.
LEMMA GivesUpTyped ==
    ASSUME Typed, NEW t \in Task, GivesUp(t)
    PROVE  /\ pc' \in [Task -> Place]
           /\ (lock' = {} \/ \E c \in Call : lock' = {c})
<1>1. pc' \in [Task -> Place]
  BY DEF GivesUp, Typed, TypeOK, Place
<1>2. lock' = {} \/ \E c \in Call : lock' = {c}
  BY DEF GivesUp, Typed, OneLocks
<1> QED BY <1>1, <1>2

\* What is left of a task whose _kill is over.
LEMMA AfterKillTyped ==
    ASSUME Typed, NEW t \in Task, NEW purpose, AfterKill(t, purpose)
    PROVE  /\ process' = NoWorker
           /\ started' \in BOOLEAN
           /\ pc' \in [Task -> Place]
           /\ (lock' = {} \/ \E c \in Call : lock' = {c})
<1>1. CASE GivesUp(t) /\ UNCHANGED started
  BY <1>1, GivesUpTyped DEF AfterKill, Typed, TypeOK
<1>2. CASE /\ \E x \in {"sleep", "stopped", "idle"} : pc' = [pc EXCEPT ![t] = x]
           /\ started' = FALSE /\ UNCHANGED lock
  BY <1>2 DEF AfterKill, Typed, TypeOK, OneLocks, Place
<1> QED BY <1>1, <1>2 DEF AfterKill

\* _kill, by whichever way.
LEMMA KillTyped ==
    ASSUME Typed, NEW t \in Task, NEW purpose \in {"giveup", "restart", "stop"},
           Kill(t, purpose), left' \in [Task -> Nat], disturbed' \in BOOLEAN
    PROVE  Typed'
<1> DEFINE reads == reader # NoWorker /\ reading[reader] # NoWorker
<1>1. reads => reader \in Worker
  BY DEF Typed, TypeOK
<1>2. /\ reading' \in [Worker -> Worker \union {NoWorker, Unread}]
      /\ future' \in [Task -> {"none", "ok", "error"}]
      /\ pending' \subseteq Request
  <2>1. CASE reads /\ EndLoop(reader)
    BY <1>1, <2>1, EndLoopTyped
  <2>2. CASE /\ reading' = IF reads THEN [reading EXCEPT ![reader] = NoWorker] ELSE reading
             /\ UNCHANGED <<future, pending>>
    BY <2>2 DEF Typed, TypeOK
  <2> QED BY <2>1, <2>2 DEF Kill
<1>3. /\ reader' \in Worker \union {NoWorker}
      /\ life' \in [Worker -> {"unborn", "up", "dead"}]
      /\ mine' \in [Task -> Worker \union {NoWorker}]
      /\ UNCHANGED <<restarts, loaded, stdout>>
  BY DEF Kill, Typed, TypeOK
<1>4. stdin' \in [Worker -> Seq(Request)]
  <2>1. <<>> \in Seq(Request)
    OBVIOUS
  <2> QED BY <2>1 DEF Kill, Typed, TypeOK
<1>5. /\ process' \in Worker \union {NoWorker}
      /\ started' \in BOOLEAN
      /\ pc' \in [Task -> Place]
      /\ (lock' = {} \/ \E c \in Call : lock' = {c})
  <2>1. CASE AfterKill(t, purpose)
    BY <2>1, AfterKillTyped
  <2>2. CASE pc' = [pc EXCEPT ![t] = purpose] /\ UNCHANGED <<process, started, lock>>
    BY <2>2 DEF Typed, TypeOK, OneLocks, Place
  <2> QED BY <2>1, <2>2 DEF Kill
<1>6. lock' \subseteq Call /\ Cardinality(lock') <= 1
  BY <1>5, LockSmall
<1> QED
  BY <1>2, <1>3, <1>4, <1>5, <1>6 DEF Typed, TypeOK, OneLocks, Place

\* A step that only sends, with the flags and the lock as given.
LEMMA SendStepTyped ==
    ASSUME Typed, NEW t \in Task, NEW method \in Method, Send(t, method),
           started' \in BOOLEAN, restarts' \in Nat, lock' \in {lock, lock \ {t}},
           process' = process, UNCHANGED <<life, loaded, stdout>>,
           left' \in [Task -> Nat], disturbed' \in BOOLEAN,
           reader' \in Worker \union {NoWorker},
           reading' \in [Worker -> Worker \union {NoWorker, Unread}]
    PROVE  Typed'
<1>1. /\ pc' = [pc EXCEPT ![t] = method] /\ pc' \in [Task -> Place]
      /\ future' \in [Task -> {"none", "ok", "error"}]
      /\ stdin' \in [Worker -> Seq(Request)]
      /\ pending' \subseteq Request
      /\ mine' \in [Task -> Worker \union {NoWorker}]
  BY SendTyped
<1>2. lock' = {} \/ \E c \in Call : lock' = {c}
  BY DEF Typed, OneLocks
<1>3. lock' \subseteq Call /\ Cardinality(lock') <= 1
  BY <1>2, LockSmall
<1> QED
  BY <1>1, <1>2, <1>3 DEF Typed, TypeOK, OneLocks, Place

\* A step in which a task moves to another place, with the lock, its process and its
\* future as given, and the channels stay.
LEMMA MoveStepTyped ==
    ASSUME Typed, NEW t \in Task, NEW x \in Place, pc' = [pc EXCEPT ![t] = x],
           started' \in BOOLEAN, restarts' \in Nat,
           UNCHANGED <<loaded, stdin, stdout, readVars>>,
           process' \in Worker \union {NoWorker},
           lock' \in {lock, lock \ {t}} \/ \E c \in Call : lock' = {c},
           mine' \in [Task -> Worker \union {NoWorker}],
           future' \in [Task -> {"none", "ok", "error"}],
           left' \in [Task -> Nat], disturbed' \in BOOLEAN,
           life' \in [Worker -> {"unborn", "up", "dead"}]
    PROVE  Typed'
<1>1. lock' = {} \/ \E c \in Call : lock' = {c}
  BY DEF Typed, OneLocks
<1>2. lock' \subseteq Call /\ Cardinality(lock') <= 1
  BY <1>1, LockSmall
<1>3. pc' \in [Task -> Place]
  BY DEF Typed, TypeOK, Place
<1> QED
  BY <1>1, <1>2, <1>3 DEF Typed, TypeOK, OneLocks, Place, readVars

\* A step in which a task gives up, and resets its future or counts a restart.
LEMMA GivesUpStepTyped ==
    ASSUME Typed, NEW t \in Task, GivesUp(t),
           started' \in BOOLEAN, restarts' \in Nat,
           future' \in [Task -> {"none", "ok", "error"}],
           left' \in [Task -> Nat], disturbed' \in BOOLEAN,
           mine' = mine, process' = process, UNCHANGED <<workerVars, readVars>>
    PROVE  Typed'
<1>1. PICK x \in {"idle", "raised"} : pc' = [pc EXCEPT ![t] = x]
  BY DEF GivesUp
<1>2. x \in Place
  BY DEF Place
<1>3. lock' \in {lock, lock \ {t}}
  BY DEF GivesUp
<1>4. /\ process' \in Worker \union {NoWorker}
      /\ mine' \in [Task -> Worker \union {NoWorker}]
      /\ life' \in [Worker -> {"unborn", "up", "dead"}]
      /\ UNCHANGED <<loaded, stdin, stdout>>
  BY DEF Typed, TypeOK, workerVars
<1> QED BY <1>1, <1>2, <1>3, <1>4, MoveStepTyped

\* The steps of the calls.
LEMMA CallTyped ==
    ASSUME Typed, NEW c \in Call, CallActs(c), disturbed' \in BOOLEAN
    PROVE  Typed'
<1>1. c \in Task
  BY Tasks
<1>2. /\ started \in BOOLEAN /\ restarts \in Nat /\ 0 \in Nat
      /\ mine \in [Task -> Worker \union {NoWorker}]
      /\ future \in [Task -> {"none", "ok", "error"}]
      /\ left \in [Task -> Nat]
      /\ reading \in [Worker -> Worker \union {NoWorker, Unread}]
      /\ reader \in Worker \union {NoWorker}
      /\ life \in [Worker -> {"unborn", "up", "dead"}]
      /\ process \in Worker \union {NoWorker}
  BY DEF Typed, TypeOK
<1>3. "execute" \in Method /\ {"lock", "spawn", "returned", "raised"} \subseteq Place
  BY DEF Method, Place
<1>4. CASE Execute(c)
  <2>1. left' \in [Task -> Nat]
    BY <1>1, <1>4, BeginsLess DEF Execute
  <2>2. CASE Send(c, "execute")
    BY <1>1, <1>2, <1>3, <1>4, <2>1, <2>2, SendStepTyped DEF Execute, procVars
  <2>3. CASE pc' = [pc EXCEPT ![c] = "lock"] /\ UNCHANGED <<mine, future, pending, stdin>>
    BY <1>1, <1>2, <1>3, <1>4, <2>1, <2>3, MoveStepTyped DEF Execute, procVars, readVars
  <2> QED BY <1>4, <2>2, <2>3 DEF Execute
<1>5. CASE Locked(c)
  <2>1. /\ UNCHANGED <<process, started, restarts, left, life, loaded, stdout, reading,
                       reader>>
    BY <1>5 DEF Locked
  <2>2. CASE Send(c, "execute") /\ UNCHANGED lock
    BY <1>1, <1>2, <1>3, <2>1, <2>2, SendStepTyped
  <2>3. CASE GivesUp(c) /\ UNCHANGED <<mine, future, pending, stdin>>
    BY <1>1, <1>2, <2>1, <2>3, GivesUpStepTyped DEF workerVars, readVars
  <2>4. CASE /\ pc' = [pc EXCEPT ![c] = "spawn"] /\ lock' = {c}
             /\ UNCHANGED <<mine, future, pending, stdin>>
    BY <1>1, <1>2, <1>3, <2>1, <2>4, MoveStepTyped DEF readVars
  <2> QED BY <1>5, <2>2, <2>3, <2>4 DEF Locked
<1>6. CASE Initialized(c)
  BY <1>1, <1>2, <1>3, <1>6, SendStepTyped DEF Initialized
<1>7. CASE Returns(c)
  <2>1. PICK x \in {"returned", "raised"} : pc' = [pc EXCEPT ![c] = x]
    BY <1>7 DEF Returns
  <2>2. /\ future' \in [Task -> {"none", "ok", "error"}]
        /\ UNCHANGED <<procVars, mine, left, workerVars, readVars>>
    BY <1>2, <1>7 DEF Returns
  <2> QED BY <1>1, <1>2, <1>3, <2>1, <2>2, MoveStepTyped DEF procVars, workerVars
<1> QED BY <1>4, <1>5, <1>6, <1>7 DEF CallActs

\* The steps that calls and services share.
LEMMA TaskTyped ==
    ASSUME Typed, NEW t \in Task, TaskActs(t), disturbed' \in BOOLEAN
    PROVE  Typed'
<1>1. /\ started \in BOOLEAN /\ restarts \in Nat
      /\ mine \in [Task -> Worker \union {NoWorker}]
      /\ future \in [Task -> {"none", "ok", "error"}]
      /\ left \in [Task -> Nat]
      /\ reading \in [Worker -> Worker \union {NoWorker, Unread}]
      /\ life \in [Worker -> {"unborn", "up", "dead"}]
      /\ process \in Worker \union {NoWorker}
  BY DEF Typed, TypeOK
<1>2. CASE Spawn(t)
  <2>1. PICK w \in Worker : /\ life' = [life EXCEPT ![w] = "up"]
                            /\ process' = w
                            /\ mine' = [mine EXCEPT ![t] = w]
    BY <1>2 DEF Spawn
  <2>2. pc' = [pc EXCEPT ![t] = "ready"] /\ "ready" \in Place
        /\ UNCHANGED <<started, restarts, lock, future, left, loaded, stdin, stdout, readVars>>
    BY <1>2 DEF Spawn, Place
  <2>3. /\ life' \in [Worker -> {"unborn", "up", "dead"}]
        /\ mine' \in [Task -> Worker \union {NoWorker}]
        /\ process' \in Worker \union {NoWorker}
    BY <1>1, <2>1
  <2> QED BY <1>1, <2>2, <2>3, MoveStepTyped
<1>3. CASE SpawnFails(t)
  BY <1>1, <1>3, GivesUpStepTyped DEF SpawnFails
<1>4. CASE Ready(t)
  <2>1. mine[t] \in Worker
    BY <1>1, <1>4 DEF Ready, Lives
  <2>2. /\ reading' \in [Worker -> Worker \union {NoWorker, Unread}]
        /\ reader' \in Worker \union {NoWorker}
    BY <1>1, <1>4, <2>1 DEF Ready
  <2>3. Send(t, "initialize") /\ UNCHANGED <<procVars, left, life, loaded, stdout>>
    BY <1>4 DEF Ready
  <2>4. "initialize" \in Method
    BY DEF Method
  <2> QED BY <1>1, <2>2, <2>3, <2>4, SendStepTyped DEF procVars
<1>5. CASE NotReady(t)
  BY <1>1, <1>5, KillTyped DEF NotReady
<1>6. CASE KillEnds(t)
  <2>1. AfterKill(t, pc[t]) /\ UNCHANGED <<restarts, mine, future, left, workerVars, readVars>>
    BY <1>6 DEF KillEnds
  <2>2. /\ process' = NoWorker
        /\ started' \in BOOLEAN
        /\ pc' \in [Task -> Place]
        /\ (lock' = {} \/ \E c \in Call : lock' = {c})
    BY <2>1, AfterKillTyped
  <2>3. lock' \subseteq Call /\ Cardinality(lock') <= 1
    BY <2>2, LockSmall
  <2> QED
    BY <2>1, <2>2, <2>3 DEF Typed, TypeOK, OneLocks, Place, workerVars, readVars
<1>7. CASE NotInitialized(t)
  BY <1>1, <1>7, GivesUpStepTyped DEF NotInitialized
<1>8. CASE RpcTimesOut(t)
  BY <1>8 DEF RpcTimesOut, Typed, TypeOK, OneLocks, procVars, workerVars
<1>9. CASE ShutDown(t)
  BY <1>1, <1>9, KillTyped DEF ShutDown
<1>10. CASE Drained(t)
  <2>1. /\ mine' \in [Task -> Worker \union {NoWorker}]
        /\ future' \in [Task -> {"none", "ok", "error"}]
        /\ pending' \subseteq Request
        /\ UNCHANGED <<procVars, pc, left, workerVars, reading, reader>>
    BY <1>10 DEF Drained, Typed, TypeOK
  <2> QED BY <2>1 DEF Typed, TypeOK, OneLocks, procVars, workerVars
<1>11. CASE Cancel(t)
  <2>1. /\ pc' = [pc EXCEPT ![t] = "raised"] /\ "raised" \in Place
        /\ lock' \in {lock, lock \ {t}}
        /\ future' \in [Task -> {"none", "ok", "error"}]
        /\ mine' \in [Task -> Worker \union {NoWorker}]
        /\ UNCHANGED <<process, started, restarts, left, workerVars, readVars>>
    BY <1>1, <1>11 DEF Cancel, Place
  <2> QED BY <1>1, <2>1, MoveStepTyped DEF workerVars
<1> QED
  BY <1>2, <1>3, <1>4, <1>5, <1>6, <1>7, <1>8, <1>9, <1>10, <1>11 DEF TaskActs

\* stop, of a proxy that a service stops.
LEMMA StopBeginsTyped ==
    ASSUME Typed, NEW t \in Task, StopBegins(t), disturbed' \in BOOLEAN
    PROVE  Typed'
<1>1. left' \in [Task -> Nat]
  BY BeginsLess DEF StopBegins
<1>2. CASE Kill(t, "stop")
  BY <1>1, <1>2, KillTyped
<1>3. CASE Send(t, "shutdown") /\ UNCHANGED <<procVars, life, loaded, stdout, reading, reader>>
  <2>1. /\ started' \in BOOLEAN /\ restarts' \in Nat /\ "shutdown" \in Method
        /\ reading' \in [Worker -> Worker \union {NoWorker, Unread}]
        /\ reader' \in Worker \union {NoWorker}
    BY <1>3 DEF Typed, TypeOK, procVars, Method
  <2> QED BY <1>1, <1>3, <2>1, SendStepTyped DEF procVars
<1> QED BY <1>2, <1>3 DEF StopBegins

\* The steps of the services.
LEMMA ServiceTyped ==
    ASSUME Typed, MonitorActs \/ ManagerActs, disturbed' \in BOOLEAN
    PROVE  Typed'
<1>1. Monitor \in Task /\ Manager \in Task
  BY Tasks
<1>2. /\ started \in BOOLEAN /\ restarts \in Nat /\ restarts + 1 \in Nat
      /\ 0 \in Nat /\ 1 \in Nat
      /\ mine \in [Task -> Worker \union {NoWorker}]
      /\ future \in [Task -> {"none", "ok", "error"}]
      /\ left \in [Task -> Nat]
      /\ reading \in [Worker -> Worker \union {NoWorker, Unread}]
      /\ reader \in Worker \union {NoWorker}
      /\ life \in [Worker -> {"unborn", "up", "dead"}]
      /\ process \in Worker \union {NoWorker}
      /\ "health_check" \in Method /\ {"spawn", "active", "idle"} \subseteq Place
  BY DEF Typed, TypeOK, Method, Place
<1>3. CASE CheckPasses
  <2>1. left' \in [Task -> Nat]
    BY <1>1, <1>3, BeginsLess DEF CheckPasses
  <2>2. UNCHANGED <<procVars, pc, mine, future, workerVars, readVars>>
    BY <1>3 DEF CheckPasses
  <2> QED
    BY <2>1, <2>2 DEF Typed, TypeOK, OneLocks, procVars, workerVars, readVars
<1>4. CASE CheckPings
  <2>1. left' \in [Task -> Nat] /\ Send(Monitor, "health_check")
    BY <1>1, <1>4, BeginsLess DEF CheckPings
  <2> QED BY <1>1, <1>2, <1>4, <2>1, SendStepTyped DEF CheckPings, procVars
<1>5. CASE CheckRestarts
  BY <1>1, <1>5, BeginsLess, KillTyped DEF CheckRestarts
<1>6. CASE Pinged
  BY <1>1, <1>2, <1>6, GivesUpStepTyped DEF Pinged
<1>7. CASE RestartDelayOver
  <2>1. UNCHANGED <<process, started, mine, future, left, workerVars, readVars>>
    BY <1>7 DEF RestartDelayOver
  <2>2. CASE GivesUp(Monitor) /\ restarts' = restarts + 1
    BY <1>1, <1>2, <2>1, <2>2, GivesUpStepTyped
  <2>3. CASE pc' = [pc EXCEPT ![Monitor] = "spawn"] /\ UNCHANGED <<lock, restarts>>
    BY <1>1, <1>2, <2>1, <2>3, MoveStepTyped DEF workerVars
  <2> QED BY <1>7, <2>2, <2>3 DEF RestartDelayOver
<1>8. CASE Restarted
  <2>1. /\ started' = TRUE /\ restarts' \in {0, 1} /\ GivesUp(Monitor)
        /\ future' = [future EXCEPT ![Monitor] = "none"]
        /\ UNCHANGED <<process, mine, left, workerVars, readVars>>
    BY <1>8 DEF Restarted
  <2> QED BY <1>1, <1>2, <2>1, GivesUpStepTyped
<1>9. CASE Stop \/ OnStop
  BY <1>1, <1>9, StopBeginsTyped DEF Stop, OnStop
<1>10. CASE OnStart
  <2>1. PICK x \in {"active", "spawn"} : pc' = [pc EXCEPT ![Manager] = x]
    BY <1>10 DEF OnStart
  <2>2. left' \in [Task -> Nat] /\ UNCHANGED <<procVars, mine, future, workerVars, readVars>>
    BY <1>1, <1>10, BeginsLess DEF OnStart
  <2> QED BY <1>1, <1>2, <2>1, <2>2, MoveStepTyped DEF procVars, workerVars
<1>11. CASE OnStartEnds
  <2>1. PICK x \in {"active", "idle"} : pc' = [pc EXCEPT ![Manager] = x]
    BY <1>11 DEF OnStartEnds
  <2>2. /\ started' = TRUE /\ restarts' = 0
        /\ future' = [future EXCEPT ![Manager] = "none"]
        /\ UNCHANGED <<process, lock, mine, left, workerVars, readVars>>
    BY <1>11 DEF OnStartEnds
  <2> QED BY <1>1, <1>2, <2>1, <2>2, MoveStepTyped DEF workerVars
<1> QED
  BY <1>3, <1>4, <1>5, <1>6, <1>7, <1>8, <1>9, <1>10, <1>11 DEF MonitorActs, ManagerActs

\* The steps of the readers and the workers.
LEMMA WorkerTyped ==
    ASSUME Typed, NEW w \in Worker, WorkerActs(w), disturbed' \in BOOLEAN
    PROVE  Typed'
<1>1. CASE ReaderStarts(w)
  <2>1. CASE EndLoop(w)
    BY <1>1, <2>1, EndLoopTyped
       DEF ReaderStarts, Typed, TypeOK, OneLocks, procVars, workerVars
  <2>2. CASE MayRead /\ reading' = [reading EXCEPT ![w] = process]
             /\ UNCHANGED <<future, pending>>
    BY <1>1, <2>2
       DEF ReaderStarts, MayRead, Typed, TypeOK, OneLocks, procVars, workerVars
  <2> QED BY <1>1, <2>1, <2>2 DEF ReaderStarts
<1>2. CASE ReaderLine(w)
  <2> DEFINE s == stdout[reading[w]]
  <2>1. /\ reading[w] \in Worker /\ s \in Seq(Line) /\ s # <<>>
        /\ stdout' = [stdout EXCEPT ![reading[w]] = Tail(s)]
    BY <1>2 DEF ReaderLine, Typed, TypeOK, Line
  <2>2. Head(s) \in Line /\ Tail(s) \in Seq(Line)
    BY <2>1
  <2>3. stdout' \in [Worker -> Seq(Line)]
    BY <2>1, <2>2 DEF Typed, TypeOK, Line
  <2>4. future' \in [Task -> {"none", "ok", "error"}]
    BY <1>2, <2>2 DEF ReaderLine, Typed, TypeOK, Line
  <2>5. /\ pending' \subseteq Request
        /\ reading' \in [Worker -> Worker \union {NoWorker, Unread}]
        /\ UNCHANGED <<procVars, pc, mine, left, life, loaded, stdin, reader>>
    BY <1>2 DEF ReaderLine, Typed, TypeOK
  <2> QED
    BY <2>3, <2>4, <2>5 DEF Typed, TypeOK, OneLocks, procVars, Line
<1>3. CASE ReaderEOF(w)
  BY <1>3, EndLoopTyped
     DEF ReaderEOF, Typed, TypeOK, OneLocks, procVars, workerVars
<1>4. CASE Handle(w)
  <2>1. stdin[w] \in Seq(Request) /\ stdin[w] # <<>> /\ stdout[w] \in Seq(Line)
    BY <1>4 DEF Handle, Typed, TypeOK, Line
  <2>2. Head(stdin[w]) \in Request /\ Tail(stdin[w]) \in Seq(Request)
    BY <2>1
  <2>3. PICK result \in {"ok", "error"} :
            /\ loaded' \in {loaded, loaded \union {w}}
            /\ stdout' = [stdout EXCEPT ![w] =
                             Append(@, [id |-> Head(stdin[w]), result |-> result])]
    BY <1>4 DEF Handle
  <2>4. [id |-> Head(stdin[w]), result |-> result] \in Line
    BY <2>2 DEF Line
  <2>5. Append(stdout[w], [id |-> Head(stdin[w]), result |-> result]) \in Seq(Line)
    BY <2>1, <2>4
  <2>6. stdout' \in [Worker -> Seq(Line)] /\ loaded' \subseteq Worker
    BY <2>3, <2>5 DEF Typed, TypeOK, Line
  <2>7. stdin' \in [Worker -> Seq(Request)]
        /\ UNCHANGED <<procVars, taskVars, life, readVars>>
    BY <1>4, <2>2 DEF Handle, Typed, TypeOK
  <2> QED
    BY <2>6, <2>7 DEF Typed, TypeOK, OneLocks, procVars, taskVars, readVars, Line
<1>5. CASE Die(w)
  <2>1. <<>> \in Seq(Request)
    OBVIOUS
  <2> QED
    BY <1>5, <2>1 DEF Die, Typed, TypeOK, OneLocks, procVars, taskVars, readVars
<1> QED BY <1>1, <1>2, <1>3, <1>4, <1>5 DEF WorkerActs

\* Every step keeps the types.
LEMMA StepTyped ==
    ASSUME Typed, [Next]_vars
    PROVE  Typed'
<1>1. CASE UNCHANGED vars
  BY <1>1 DEF vars, procVars, taskVars, workerVars, readVars, Typed, TypeOK, OneLocks
<1>2. CASE Next
  <2>1. disturbed' \in BOOLEAN
    BY <1>2, Actors DEF Noted
  <2> QED BY <1>2, <2>1, Actors, CallTyped, TaskTyped, ServiceTyped, WorkerTyped
<1> QED
  BY <1>1, <1>2

\* They hold at the beginning.
LEMMA InitTyped == Init => Typed
<1> SUFFICES ASSUME Init PROVE Typed
  OBVIOUS
<1>1. lock \subseteq Call /\ Cardinality(lock) <= 1
  BY LockSmall DEF Init
<1>2. <<>> \in Seq(Request) /\ <<>> \in Seq([id : Request, result : {"ok", "error"}])
  OBVIOUS
<1>3. left \in [Task -> Nat]
  BY ConstantsAssumption DEF Init
<1>4. /\ stdin \in [Worker -> Seq(Request)]
      /\ stdout \in [Worker -> Seq([id : Request, result : {"ok", "error"}])]
  BY <1>2 DEF Init
<1>5. TypeOK
  BY <1>1, <1>3, <1>4 DEF Init, TypeOK
<1> QED
  BY <1>5 DEF Init, Typed, OneLocks

\* Every variable keeps its type, and one call holds the lock at most.
THEOREM TypeCorrect == Spec => []TypeOK
<1>1. Typed => TypeOK
  BY DEF Typed
<1> QED BY <1>1, InitTyped, StepTyped, PTL DEF Spec
-----------------------------------------------------------------------------
(* What is pending *)

\* What PendingIsAwaited says of a request, when places, futures and what is left are
\* p, f and l.
Owned(request, p, f, l) ==
    LET t == request[1]
    IN  \/ p[t] \in Method /\ f[t] = "none" /\ request = <<t, p[t], l[t]>>
        \/ p[t] = "raised"
        \/ t = Monitor /\ p[t] \in {"shutdown", "stop", "stopped"}

PendingInv == \A request \in pending : Owned(request, pc, future, left)

\* It is the same.
LEMMA PendingMeans == PendingInv <=> PendingIsAwaited
BY DEF PendingInv, PendingIsAwaited, Owned, Awaits, Id

\* Only task t moves.
OthersStay(t) ==
    \A u \in Task \ {t} :
        pc'[u] = pc[u] /\ future'[u] = future[u] /\ left'[u] = left[u]

\* A task that neither awaits an answer nor was cancelled has nothing pending.
Settled(t) ==
    /\ pc[t] \notin Method \/ future[t] # "none"
    /\ pc[t] # "raised"
    /\ t = Monitor => pc[t] \notin {"shutdown", "stop", "stopped"}

\* A task whose entries may stay: it is cancelled, or the proxy is stopped.
LeavesEntries(t) ==
    pc'[t] = "raised" \/ (t = Monitor /\ pc'[t] \in {"shutdown", "stop", "stopped"})

\* What a step of task t has to do to keep the invariant.
LEMMA PendingMoves ==
    ASSUME Typed, PendingInv, NEW t \in Task, OthersStay(t),
           Settled(t) \/ LeavesEntries(t),
           \A request \in pending' :
               request \in pending \/ Owned(request, pc', future', left')
    PROVE  PendingInv'
<1> SUFFICES ASSUME NEW request \in pending', request \in pending
             PROVE  Owned(request, pc', future', left')
  BY DEF PendingInv
<1>1. request[1] \in Task /\ Owned(request, pc, future, left)
  BY DEF Typed, TypeOK, Request, PendingInv
<1>2. CASE request[1] # t
  BY <1>1, <1>2 DEF Owned, OthersStay
<1>3. CASE request[1] = t
  BY <1>1, <1>3 DEF Owned, Settled, LeavesEntries
<1> QED BY <1>2, <1>3

\* What the others have left to begin stays.
LEMMA OthersLeft ==
    ASSUME Typed, NEW t \in Task, Begins(t) \/ left' = left
    PROVE  \A u \in Task \ {t} : left'[u] = left[u]
BY BeginsLess

\* A request that is sent is awaited.
LEMMA SendOwned ==
    ASSUME Typed, NEW t \in Task, NEW method \in Method, Send(t, method)
    PROVE  /\ pc' = [pc EXCEPT ![t] = method]
           /\ \A u \in Task \ {t} : future'[u] = future[u]
           /\ \A request \in pending' :
                  request \in pending \/ Owned(request, pc', future', left')
<1>1. pc' = [pc EXCEPT ![t] = method] /\ \A u \in Task \ {t} : future'[u] = future[u]
  BY DEF Send, Typed, TypeOK
<1>2. ASSUME NEW request \in pending', request \notin pending
      PROVE  Owned(request, pc', future', left')
  <2>1. request = <<t, method, left'[t]>> /\ future' = [future EXCEPT ![t] = "none"]
    BY <1>2 DEF Send
  <2>2. pc'[t] = method /\ future'[t] = "none"
    BY <1>1, <2>1 DEF Typed, TypeOK
  <2>3. request = <<t, pc'[t], left'[t]>> /\ request[1] = t
    BY <2>1, <2>2
  <2> QED BY <2>2, <2>3 DEF Owned
<1> QED BY <1>1, <1>2

\* A request that is sent is awaited by its sender; one that is refused is not
\* pending.
LEMMA SendKeepsPending ==
    ASSUME Typed, PendingInv, NEW t \in Task, NEW method \in Method,
           Send(t, method), Begins(t) \/ left' = left,
           Settled(t) \/ (t = Monitor /\ method = "shutdown")
    PROVE  PendingInv'
<1>1. /\ pc' = [pc EXCEPT ![t] = method]
      /\ \A u \in Task \ {t} : future'[u] = future[u]
      /\ \A request \in pending' :
             request \in pending \/ Owned(request, pc', future', left')
  BY SendOwned
<1>2. OthersStay(t)
  BY <1>1, OthersLeft DEF OthersStay, Typed, TypeOK
<1>3. Settled(t) \/ LeavesEntries(t)
  BY <1>1 DEF LeavesEntries, Typed, TypeOK
<1> QED BY <1>1, <1>2, <1>3, PendingMoves

\* A task goes on to another place; what is pending stays, or is failed altogether.
LEMMA MoveKeepsPending ==
    ASSUME Typed, PendingInv, NEW t \in Task, NEW x, pc' = [pc EXCEPT ![t] = x],
           Begins(t) \/ left' = left,
           pending' = {} \/
               (pending' = pending /\ \A u \in Task \ {t} : future'[u] = future[u]),
           \/ Settled(t)
           \/ x = "raised"
           \/ t = Monitor /\ x \in {"stop", "stopped"}
    PROVE  PendingInv'
<1>1. CASE pending' = {}
  BY <1>1 DEF PendingInv
<1>2. CASE pending' = pending /\ \A u \in Task \ {t} : future'[u] = future[u]
  <2>1. OthersStay(t)
    BY <1>2, OthersLeft DEF OthersStay, Typed, TypeOK
  <2>2. Settled(t) \/ LeavesEntries(t)
    BY DEF LeavesEntries, Typed, TypeOK
  <2> QED BY <1>2, <2>1, <2>2, PendingMoves
<1> QED BY <1>1, <1>2

\* Where a task goes that gives up.
LEMMA GivesUpMoves ==
    ASSUME NEW t \in Task, GivesUp(t)
    PROVE  pc' = [pc EXCEPT ![t] = IF t \in Service THEN "idle" ELSE "raised"]
BY DEF GivesUp

\* After _kill its task moves on; the monitor that stopped the proxy is done.
LEMMA AfterKillMoves ==
    ASSUME NEW t \in Task, NEW purpose, AfterKill(t, purpose)
    PROVE  \E x : /\ pc' = [pc EXCEPT ![t] = x]
                  /\ purpose = "stop" /\ t = Monitor => x = "stopped"
BY GivesUpMoves DEF AfterKill

\* _kill fails all that is pending or leaves it to those who await it.
LEMMA KillKeepsPending ==
    ASSUME Typed, PendingInv, NEW t \in Task, NEW purpose, Kill(t, purpose),
           Begins(t) \/ left' = left,
           Settled(t) \/ (t = Monitor /\ purpose = "stop")
    PROVE  PendingInv'
<1>1. pending' = {} \/ (pending' = pending /\ future' = future)
  BY DEF Kill, EndLoop
<1>2. \E x : /\ pc' = [pc EXCEPT ![t] = x]
             /\ purpose = "stop" /\ t = Monitor => x \in {"stop", "stopped"}
  BY AfterKillMoves DEF Kill
<1> QED BY <1>1, <1>2, MoveKeepsPending

\* A reader loop that ends.
LEMMA EndLoopKeepsPending ==
    ASSUME PendingInv, NEW r \in Worker, EndLoop(r), UNCHANGED <<pc, left>>
    PROVE  PendingInv'
BY DEF EndLoop, PendingInv

\* A reader that reads a line takes the entry when it resolves the future.
LEMMA LineKeepsPending ==
    ASSUME Typed, PendingInv, NEW r \in Worker, ReaderLine(r)
    PROVE  PendingInv'
<1> DEFINE line == Head(stdout[reading[r]])
           answered == {t \in Task : /\ line.id \in pending /\ Awaits(t)
                                     /\ future[t] = "none" /\ Id(t, pc[t]) = line.id}
<1>1. /\ future' = [t \in Task |-> IF t \in answered THEN line.result ELSE future[t]]
      /\ pending' = pending \ {line.id}
      /\ UNCHANGED <<pc, left>>
  BY DEF ReaderLine
<1> SUFFICES ASSUME NEW request \in pending'
             PROVE  Owned(request, pc', future', left')
  BY DEF PendingInv
<1> DEFINE t == request[1]
<1>2. request \in pending /\ request # line.id /\ t \in Task /\ Owned(request, pc, future, left)
  BY <1>1 DEF Typed, TypeOK, Request, PendingInv
<1>3. CASE request = Id(t, pc[t])
  <2>1. t \notin answered
    BY <1>2, <1>3
  <2>2. future'[t] = future[t]
    BY <1>1, <1>2, <2>1
  <2> QED BY <1>1, <1>2, <2>2 DEF Owned
<1>4. CASE request # Id(t, pc[t])
  BY <1>1, <1>2, <1>4 DEF Owned, Id
<1> QED BY <1>3, <1>4

\* A request whose write or wait fails takes its entry with it.
LEMMA FailureKeepsPending ==
    ASSUME Typed, PendingInv, NEW t \in Task, pc[t] \in Method,
           future' = [future EXCEPT ![t] = "error"],
           pending' = pending \ {Id(t, pc[t])}, UNCHANGED <<pc, left>>
    PROVE  PendingInv'
<1> SUFFICES ASSUME NEW request \in pending'
             PROVE  Owned(request, pc', future', left')
  BY DEF PendingInv
<1>1. /\ request \in pending /\ request # Id(t, pc[t]) /\ request[1] \in Task
      /\ Owned(request, pc, future, left)
  BY DEF Typed, TypeOK, Request, PendingInv
<1>2. CASE request[1] = t
  BY <1>1, <1>2 DEF Owned, Id, Method
<1>3. CASE request[1] # t
  <2>1. future'[request[1]] = future[request[1]]
    BY <1>1, <1>3 DEF Typed, TypeOK
  <2> QED BY <1>1, <2>1 DEF Owned
<1> QED BY <1>2, <1>3

\* The steps of the calls.
LEMMA CallKeepsPending ==
    ASSUME Typed, PendingInv, NEW c \in Call, CallActs(c)
    PROVE  PendingInv'
<1>1. c \in Task /\ c # Monitor /\ "execute" \in Method
  BY Tasks DEF Method
<1>2. CASE Execute(c)
  <2>1. Settled(c) /\ Begins(c)
    BY <1>1, <1>2 DEF Execute, Settled, Method
  <2>2. CASE Send(c, "execute")
    BY <1>1, <2>1, <2>2, SendKeepsPending
  <2>3. CASE pc' = [pc EXCEPT ![c] = "lock"] /\ UNCHANGED <<mine, future, pending, stdin>>
    BY <1>1, <2>1, <2>3, MoveKeepsPending
  <2> QED BY <1>2, <2>2, <2>3 DEF Execute
<1>3. CASE Locked(c)
  <2>1. Settled(c) /\ left' = left
    BY <1>1, <1>3 DEF Locked, Settled, Method
  <2>2. CASE Send(c, "execute")
    BY <1>1, <2>1, <2>2, SendKeepsPending
  <2>3. CASE GivesUp(c) /\ UNCHANGED <<mine, future, pending, stdin>>
    BY <1>1, <2>1, <2>3, GivesUpMoves, MoveKeepsPending
  <2>4. CASE pc' = [pc EXCEPT ![c] = "spawn"] /\ UNCHANGED <<mine, future, pending, stdin>>
    BY <1>1, <2>1, <2>4, MoveKeepsPending
  <2> QED BY <1>3, <2>2, <2>3, <2>4 DEF Locked
<1>4. CASE Initialized(c)
  <2>1. Settled(c) /\ Send(c, "execute") /\ left' = left
    BY <1>1, <1>4 DEF Initialized, Answered, Settled, Method
  <2> QED BY <1>1, <2>1, SendKeepsPending
<1>5. CASE Returns(c)
  <2>1. /\ Settled(c) /\ pending' = pending /\ left' = left
        /\ \A u \in Task \ {c} : future'[u] = future[u]
        /\ \E x : pc' = [pc EXCEPT ![c] = x]
    BY <1>1, <1>5 DEF Returns, Answered, Settled, Method, Typed, TypeOK, readVars
  <2> QED BY <1>1, <2>1, MoveKeepsPending
<1> QED BY <1>2, <1>3, <1>4, <1>5 DEF CallActs

\* The steps that calls and services share.
LEMMA TaskKeepsPending ==
    ASSUME Typed, PendingInv, NEW t \in Task, TaskActs(t)
    PROVE  PendingInv'
<1>1. CASE Spawn(t)
  <2>1. /\ Settled(t) /\ pc' = [pc EXCEPT ![t] = "ready"]
        /\ UNCHANGED <<future, left, pending>>
    BY <1>1 DEF Spawn, Settled, Method, readVars
  <2> QED BY <2>1, MoveKeepsPending
<1>2. CASE SpawnFails(t)
  <2>1. Settled(t) /\ GivesUp(t) /\ UNCHANGED <<future, left, pending>>
    BY <1>2 DEF SpawnFails, Settled, Method, readVars
  <2> QED BY <2>1, GivesUpMoves, MoveKeepsPending
<1>3. CASE Ready(t)
  <2>1. Settled(t) /\ Send(t, "initialize") /\ left' = left /\ "initialize" \in Method
    BY <1>3 DEF Ready, Settled, Method
  <2> QED BY <2>1, SendKeepsPending
<1>4. CASE NotReady(t)
  <2>1. Settled(t) /\ Kill(t, "giveup") /\ left' = left
    BY <1>4 DEF NotReady, Settled, Method
  <2> QED BY <2>1, KillKeepsPending
<1>5. CASE KillEnds(t)
  <2>1. /\ Settled(t) \/ (t = Monitor /\ pc[t] = "stop")
        /\ AfterKill(t, pc[t]) /\ UNCHANGED <<future, left, pending>>
    BY <1>5 DEF KillEnds, Settled, Method, readVars
  <2>2. PICK x : /\ pc' = [pc EXCEPT ![t] = x]
                 /\ pc[t] = "stop" /\ t = Monitor => x = "stopped"
    BY <2>1, AfterKillMoves
  <2> QED BY <2>1, <2>2, MoveKeepsPending
<1>6. CASE NotInitialized(t)
  <2>1. /\ Settled(t) /\ GivesUp(t) /\ pending' = pending /\ left' = left
        /\ \A u \in Task \ {t} : future'[u] = future[u]
    BY <1>6 DEF NotInitialized, Answered, Settled, Method, Typed, TypeOK, readVars
  <2> QED BY <2>1, GivesUpMoves, MoveKeepsPending
<1>7. CASE RpcTimesOut(t)
  BY <1>7, FailureKeepsPending DEF RpcTimesOut, Waits, Awaits
<1>8. CASE ShutDown(t)
  <2>1. /\ Settled(t) \/ t = Monitor
        /\ Kill(t, "stop") /\ left' = left
    BY <1>8 DEF ShutDown, Answered, Settled
  <2> QED BY <2>1, KillKeepsPending
<1>9. CASE Drained(t)
  <2>1. CASE UNCHANGED <<future, pending>>
    BY <1>9, <2>1 DEF Drained, PendingInv
  <2>2. CASE /\ future' = [future EXCEPT ![t] = "error"]
             /\ pending' = pending \ {Id(t, pc[t])}
    BY <1>9, <2>2, FailureKeepsPending DEF Drained, Drains, Awaits
  <2> QED BY <1>9, <2>1, <2>2 DEF Drained
<1>10. CASE Cancel(t)
  <2>1. /\ pending' = pending /\ \A u \in Task \ {t} : future'[u] = future[u]
        /\ pc' = [pc EXCEPT ![t] = "raised"] /\ left' = left
    BY <1>10 DEF Cancel, Typed, TypeOK, readVars
  <2> QED BY <2>1, MoveKeepsPending
<1> QED
  BY <1>1, <1>2, <1>3, <1>4, <1>5, <1>6, <1>7, <1>8, <1>9, <1>10 DEF TaskActs

\* The steps of the services.
LEMMA ServiceKeepsPending ==
    ASSUME Typed, PendingInv, MonitorActs \/ ManagerActs
    PROVE  PendingInv'
<1>1. Monitor \in Task /\ Manager \in Task /\ Manager # Monitor
      /\ {"health_check", "shutdown"} \subseteq Method
  BY Tasks DEF Method
<1>2. CASE CheckPasses
  <2>1. Settled(Monitor) /\ Begins(Monitor) /\ UNCHANGED <<pc, future, pending>>
    BY <1>2 DEF CheckPasses, Settled, Method, readVars
  <2>2. OthersStay(Monitor)
    BY <1>1, <2>1, OthersLeft DEF OthersStay
  <2> QED BY <1>1, <2>1, <2>2, PendingMoves
<1>3. CASE CheckPings
  <2>1. Settled(Monitor) /\ Send(Monitor, "health_check") /\ Begins(Monitor)
    BY <1>3 DEF CheckPings, Settled, Method
  <2> QED BY <1>1, <2>1, SendKeepsPending
<1>4. CASE CheckRestarts
  <2>1. Settled(Monitor) /\ Kill(Monitor, "restart") /\ Begins(Monitor)
    BY <1>4 DEF CheckRestarts, Settled, Method
  <2> QED BY <1>1, <2>1, KillKeepsPending
<1>5. CASE Pinged \/ Restarted
  <2>1. /\ Settled(Monitor) /\ GivesUp(Monitor) /\ pending' = pending /\ left' = left
        /\ \A u \in Task \ {Monitor} : future'[u] = future[u]
    BY <1>1, <1>5 DEF Pinged, Restarted, Answered, Settled, Method, Typed, TypeOK, readVars
  <2> QED BY <1>1, <2>1, GivesUpMoves, MoveKeepsPending
<1>6. CASE RestartDelayOver
  <2>1. /\ Settled(Monitor) /\ UNCHANGED <<future, left, pending>>
        /\ \E x : pc' = [pc EXCEPT ![Monitor] = x]
    BY <1>6 DEF RestartDelayOver, GivesUp, Settled, Method, readVars
  <2> QED BY <1>1, <2>1, MoveKeepsPending
<1>7. ASSUME NEW t \in Service, StopBegins(t), Settled(t) \/ t = Monitor
      PROVE  PendingInv'
  <2>1. t \in Task /\ Begins(t)
    BY <1>1, <1>7, Tasks DEF StopBegins
  <2>2. CASE Send(t, "shutdown")
    BY <1>1, <1>7, <2>1, <2>2, SendKeepsPending
  <2>3. CASE Kill(t, "stop")
    BY <1>7, <2>1, <2>3, KillKeepsPending
  <2> QED BY <1>7, <2>2, <2>3 DEF StopBegins
<1>8. CASE Stop
  BY <1>7, <1>8, Tasks DEF Stop
<1>9. CASE OnStop
  <2>1. Settled(Manager)
    BY <1>1, <1>9 DEF OnStop, Settled, Method
  <2> QED BY <1>7, <1>9, <2>1, Tasks DEF OnStop
<1>10. CASE OnStart
  <2>1. /\ Settled(Manager) /\ Begins(Manager) /\ UNCHANGED <<future, pending>>
        /\ \E x : pc' = [pc EXCEPT ![Manager] = x]
    BY <1>1, <1>10 DEF OnStart, Settled, Method, readVars
  <2> QED BY <1>1, <2>1, MoveKeepsPending
<1>11. CASE OnStartEnds
  <2>1. /\ Settled(Manager) /\ pending' = pending /\ left' = left
        /\ \A u \in Task \ {Manager} : future'[u] = future[u]
        /\ \E x : pc' = [pc EXCEPT ![Manager] = x]
    BY <1>1, <1>11 DEF OnStartEnds, Answered, Settled, Method, Typed, TypeOK, readVars
  <2> QED BY <1>1, <2>1, MoveKeepsPending
<1> QED
  BY <1>2, <1>3, <1>4, <1>5, <1>6, <1>8, <1>9, <1>10, <1>11 DEF MonitorActs, ManagerActs

\* The steps of the readers and the workers.
LEMMA WorkerKeepsPending ==
    ASSUME Typed, PendingInv, NEW w \in Worker, WorkerActs(w)
    PROVE  PendingInv'
<1>1. CASE ReaderLine(w)
  BY <1>1, LineKeepsPending
<1>2. CASE ReaderStarts(w) \/ ReaderEOF(w)
  <2>1. UNCHANGED <<pc, left>>
    BY <1>2 DEF ReaderStarts, ReaderEOF
  <2>2. CASE EndLoop(w)
    BY <2>1, <2>2, EndLoopKeepsPending
  <2>3. CASE UNCHANGED <<future, pending>>
    BY <2>1, <2>3 DEF PendingInv
  <2> QED BY <1>2, <2>2, <2>3 DEF ReaderStarts, ReaderEOF
<1>3. CASE Handle(w) \/ Die(w)
  BY <1>3 DEF Handle, Die, PendingInv, taskVars, readVars
<1> QED BY <1>1, <1>2, <1>3 DEF WorkerActs

\* _pending holds what is awaited, and else only entries of tasks that were cancelled
\* and of the monitor that stopped the proxy in the middle of a check.
THEOREM PendingSound == Spec => []PendingIsAwaited
<1>1. Init => PendingInv
  BY DEF Init, PendingInv
<1>2. Typed /\ PendingInv /\ [Next]_vars => PendingInv'
  <2> SUFFICES ASSUME Typed, PendingInv, [Next]_vars PROVE PendingInv'
    OBVIOUS
  <2>1. CASE UNCHANGED vars
    BY <2>1 DEF vars, taskVars, readVars, PendingInv
  <2> QED
    BY <2>1, Actors, CallKeepsPending, TaskKeepsPending, ServiceKeepsPending,
       WorkerKeepsPending
<1>3. Typed /\ [Next]_vars => Typed'
  BY StepTyped
<1>4. Typed /\ PendingInv => PendingIsAwaited
  BY PendingMeans
<1> QED BY <1>1, <1>2, <1>3, <1>4, InitTyped, PTL DEF Spec
-----------------------------------------------------------------------------
(* Starting a worker *)

In(e, s) == \E k \in 1..Len(s) : s[k] = e

\* What is in a sequence after it grew or was read.
LEMMA InAppend ==
    ASSUME NEW S, NEW s \in Seq(S), NEW x \in S, NEW e, In(e, Append(s, x))
    PROVE  In(e, s) \/ e = x
BY DEF In

\* What is read from a stream was in it, and what is left was.
LEMMA InTail ==
    ASSUME NEW S, NEW s \in Seq(S), s # <<>>
    PROVE  /\ In(Head(s), s)
           /\ \A e : In(e, Tail(s)) => In(e, s)
<1>1. Len(s) \in Nat /\ Len(s) >= 1 /\ Head(s) = s[1]
  OBVIOUS
<1>2. In(Head(s), s)
  BY <1>1 DEF In
<1>3. ASSUME NEW e, In(e, Tail(s))
      PROVE  In(e, s)
  <2>1. PICK k \in 1..Len(Tail(s)) : Tail(s)[k] = e
    BY <1>3 DEF In
  <2>2. Len(Tail(s)) = Len(s) - 1 /\ Tail(s)[k] = s[k + 1]
    BY <1>1, <2>1
  <2> QED BY <1>1, <2>1, <2>2 DEF In
<1> QED BY <1>2, <1>3

\* Nothing is in an empty stream.
LEMMA InNothing ==
    ASSUME NEW e
    PROVE  ~In(e, <<>>)
BY DEF In

Starting == {"spawn", "ready", "initialize", "giveup"}
Fresh == {"lock", "spawn", "ready"}     \* before the request to load is sent

\* Where a task can be as long as nothing is disturbed: the monitor restarts nothing.
Places(t) ==
    IF t = Monitor THEN {"idle", "health_check", "shutdown", "stop", "stopped"}
    ELSE IF t = Manager THEN {"idle", "active", "shutdown", "stop", "raised"} \union Starting
    ELSE {"idle", "lock", "execute", "returned", "raised"} \union Starting

\* A worker that is started has loaded the module, and lives unless it is stopped.
StartedWell ==
    started => process \in loaded /\ (life[process] = "up" \/ \E s \in Service : Stopping(s))

\* Who starts a worker: one task, while none is started; a call with the lock.
Starters ==
    /\ \A s \in Service : \A t \in Task \ {s} : ~(Busy(s) /\ Busy(t))
    /\ \A t \in Task : pc[t] \in Places(t)
    /\ \A c \in Call : pc[c] \in Starting => lock = {c}
    /\ \A t \in Task : pc[t] \in Starting => ~started
    /\ StartedWell

\* The process of the task that starts it: the one there is, unless it has died.
Booting ==
    \A t \in Task :
        /\ pc[t] = "ready" => /\ mine[t] \in Worker /\ life[mine[t]] # "unborn"
                              /\ process = mine[t] \/ life[mine[t]] = "dead"
        /\ pc[t] = "initialize" /\ process \in loaded => life[process] = "up"

\* A request to load and the answer that it is loaded; when and to whom the request
\* of the present operation of a task was sent.
Loads(request) == [id |-> request, result |-> "ok"]
Sent(request, w) ==
    LET t == request[1]
    IN  /\ request[3] >= left[t]
        /\ request[3] = left[t] => pc[t] \notin Fresh /\ (pc[t] = "initialize" => w = process)

\* What is in the channels.
Messages ==
    /\ \A w \in Worker : life[w] # "up" => stdin[w] = <<>>
    /\ \A w \in loaded : life[w] # "unborn"
    /\ \A t \in Task : pc[t] = "initialize" /\ future[t] = "ok" => process \in loaded
    /\ \A w \in Worker : \A request \in Request :
          /\ request[2] = "initialize" =>
                /\ In(request, stdin[w]) => Sent(request, w)
                /\ In(Loads(request), stdout[w]) => Sent(request, w) /\ w \in loaded
          /\ request[2] = "execute" /\ In(request, stdin[w]) => w \in loaded

\* One task at most is at the process.
LEMMA OneBusy ==
    ASSUME Typed, Starters, NEW t \in Task, NEW u \in Task, t # u, Busy(t)
    PROVE  ~Busy(u)
<1>1. CASE t \in Service \/ u \in Service
  BY <1>1 DEF Starters
<1>2. CASE t \notin Service /\ u \notin Service
  <2>1. t \in Call /\ u \in Call /\ t \notin {Monitor, Manager} /\ u \notin {Monitor, Manager}
    BY <1>2, Tasks DEF Task
  <2>2. Busy(u) => pc[t] \in Starting /\ pc[u] \in Starting
    BY <2>1 DEF Starters, Places, Busy, Starting
  <2>3. ~(lock = {t} /\ lock = {u})
    OBVIOUS
  <2> QED BY <2>1, <2>2, <2>3 DEF Starters
<1> QED BY <1>1, <1>2

\* What is in the channels does not grow, nor does an answer arrive.
Shrinks ==
    /\ \A w \in Worker : \A e : In(e, stdin'[w]) => In(e, stdin[w])
    /\ \A w \in Worker : \A e : In(e, stdout'[w]) => In(e, stdout[w])
    /\ \A w \in Worker : life'[w] # "up" => stdin'[w] = <<>>
    /\ \A w \in Worker : life[w] # "unborn" => life'[w] # "unborn"
    /\ \A t \in Task : future'[t] = "ok" => future[t] = "ok"
    /\ loaded' = loaded

\* No task goes back to where its request is not sent but by a new operation.
GoesOn ==
    \A u \in Task :
        /\ left'[u] \in Nat
        /\ left'[u] < left[u] \/ (left'[u] = left[u] /\ (pc'[u] \in Fresh => pc[u] \in Fresh))

\* No task begins to wait for initialize, and the process that is asked stays there as
\* long as it lives.
NoneAsks ==
    \A u \in Task :
        pc'[u] = "initialize" =>
            pc[u] = "initialize" /\ (Lives(process) => process' = process)

\* Streams that only lose messages keep what is said of them.
LEMMA ShrinksKeepsMessages ==
    ASSUME Typed, Booting, Messages, Shrinks, GoesOn, NoneAsks
    PROVE  Messages'
<1>1. loaded \subseteq Worker /\ NoWorker \notin Worker /\ Worker \subseteq Nat
  BY DEF Typed, TypeOK, Worker, NoWorker
<1>2. (\A w \in loaded' : life'[w] # "unborn") /\ \A w \in Worker : life'[w] # "up" => stdin'[w] = <<>>
  BY <1>1 DEF Messages, Shrinks
<1>3. ASSUME NEW t \in Task, pc[t] = "initialize", process \in loaded
      PROVE  Lives(process)
  BY <1>1, <1>3 DEF Booting, Lives
<1>4. \A t \in Task : pc'[t] = "initialize" /\ future'[t] = "ok" => process' \in loaded'
  BY <1>3 DEF Messages, Shrinks, NoneAsks
<1>5. ASSUME NEW request \in Request, NEW w \in Worker, Sent(request, w),
             pc[request[1]] = "initialize" /\ w = process => Lives(process)
      PROVE  Sent(request, w)'
  <2> DEFINE t == request[1]
  <2>1. t \in Task /\ request[3] \in Nat /\ left[t] \in Nat /\ left'[t] \in Nat
    BY DEF Request, GoesOn, Typed, TypeOK
  <2>2. CASE left'[t] < left[t]
    <3>1. request[3] >= left'[t] /\ request[3] # left'[t]
      BY <1>5, <2>1, <2>2 DEF Sent
    <3> QED BY <3>1 DEF Sent
  <2>3. CASE left'[t] = left[t] /\ (pc'[t] \in Fresh => pc[t] \in Fresh)
    <3>1. pc'[t] = "initialize" => pc[t] = "initialize" /\ (Lives(process) => process' = process)
      BY <2>1 DEF NoneAsks
    <3> QED BY <1>5, <2>3, <3>1 DEF Sent
  <2> QED BY <2>1, <2>2, <2>3 DEF GoesOn
<1>6. ASSUME NEW request \in Request, NEW w \in Worker, request[2] = "initialize",
             In(request, stdin'[w])
      PROVE  Sent(request, w)'
  <2>1. In(request, stdin[w]) /\ Sent(request, w)
    BY <1>6 DEF Messages, Shrinks
  <2>2. life[w] = "up"
    BY <2>1, InNothing DEF Messages
  <2>3. w = process => Lives(process)
    BY <1>1, <2>2 DEF Lives
  <2> QED BY <1>5, <2>1, <2>3
<1>7. ASSUME NEW request \in Request, NEW w \in Worker, request[2] = "initialize",
             In(Loads(request), stdout'[w])
      PROVE  Sent(request, w)' /\ w \in loaded'
  <2>1. In(Loads(request), stdout[w]) /\ Sent(request, w) /\ w \in loaded
    BY <1>7 DEF Messages, Shrinks
  <2>2. pc[request[1]] = "initialize" /\ w = process => Lives(process)
    BY <1>3, <2>1 DEF Request
  <2>3. Sent(request, w)'
    BY <1>5, <2>1, <2>2
  <2> QED BY <2>1, <2>3 DEF Shrinks
<1>8. \A w \in Worker : \A request \in Request :
          request[2] = "execute" /\ In(request, stdin'[w]) => w \in loaded'
  BY DEF Messages, Shrinks
<1>9. \A w \in Worker : \A request \in Request : In(Loads(request), stdout'[w]) <=>
                                                    In(Loads(request)', stdout'[w])
  BY DEF Loads
<1> QED
  BY <1>2, <1>4, <1>6, <1>7, <1>8, <1>9 DEF Messages, In, Loads

\* The workers neither come back nor go, and the tasks that start one go on with theirs.
Steady ==
    /\ loaded' = loaded
    /\ \A w \in Worker : /\ life[w] # "unborn" => life'[w] # "unborn"
                         /\ life[w] = "dead" => life'[w] = "dead"
    /\ \A u \in Task :
        /\ pc'[u] = "ready" => mine'[u] = mine[u]
        /\ pc'[u] \in {"ready", "initialize"} =>
              /\ pc'[u] = pc[u] /\ process' \in {process, NoWorker}
              /\ Lives(process) => process' = process
              /\ pc[u] = "initialize" /\ process \in loaded => life'[process] = life[process]

\* Then so does the process.
LEMMA SteadyKeepsBooting ==
    ASSUME Typed, Booting, Steady
    PROVE  Booting'
<1>1. loaded \subseteq Worker /\ NoWorker \notin Worker /\ loaded' = loaded
  BY DEF Steady, Typed, TypeOK, Worker, NoWorker
<1>2. ASSUME NEW u \in Task, pc'[u] = "ready"
      PROVE  /\ mine'[u] \in Worker /\ life'[mine'[u]] # "unborn"
             /\ process' = mine'[u] \/ life'[mine'[u]] = "dead"
  <2>1. /\ pc[u] = "ready" /\ mine'[u] = mine[u]
        /\ Lives(process) => process' = process
    BY <1>2 DEF Steady
  <2>2. /\ mine[u] \in Worker /\ life[mine[u]] # "unborn"
        /\ process = mine[u] \/ life[mine[u]] = "dead"
    BY <2>1 DEF Booting
  <2>3. life[mine[u]] \in {"unborn", "up", "dead"}
    BY <2>2 DEF Typed, TypeOK
  <2>4. process # process' => life[mine[u]] = "dead"
    BY <1>1, <2>1, <2>2, <2>3 DEF Lives
  <2> QED BY <2>1, <2>2, <2>4 DEF Steady
<1>3. ASSUME NEW u \in Task, pc'[u] = "initialize", process' \in loaded'
      PROVE  life'[process'] = "up"
  <2>1. pc[u] = "initialize" /\ process' = process
    BY <1>1, <1>3 DEF Steady
  <2> QED BY <1>1, <1>3, <2>1 DEF Steady, Booting
<1> QED BY <1>2, <1>3 DEF Booting

\* And what is in the channels.
LEMMA SteadyKeepsAll ==
    ASSUME Typed, Booting, Messages, Shrinks, GoesOn, Steady
    PROVE  Booting' /\ Messages'
<1>1. NoneAsks
  BY DEF Steady, NoneAsks
<1> QED BY <1>1, SteadyKeepsBooting, ShrinksKeepsMessages

\* A task moves that does not begin to wait for a process.
LEMMA MoveIsSteady ==
    ASSUME Typed, NEW t \in Task, NEW x, pc' = [pc EXCEPT ![t] = x],
           x \notin {"ready", "initialize"},
           \A u \in Task \ {t} : mine'[u] = mine[u],
           loaded' = loaded,
           \A w \in Worker : /\ life[w] # "unborn" => life'[w] # "unborn"
                             /\ life[w] = "dead" => life'[w] = "dead",
           \/ \A u \in Task \ {t} : pc[u] \notin {"ready", "initialize"}
           \/ /\ process' \in {process, NoWorker} /\ life' = life
              /\ Lives(process) => process' = process
    PROVE  Steady
<1> SUFFICES ASSUME NEW u \in Task
             PROVE  /\ pc'[u] = "ready" => mine'[u] = mine[u]
                    /\ pc'[u] \in {"ready", "initialize"} =>
                          /\ pc'[u] = pc[u] /\ process' \in {process, NoWorker}
                          /\ Lives(process) => process' = process
                          /\ pc[u] = "initialize" /\ process \in loaded =>
                                life'[process] = life[process]
  BY DEF Steady
<1>1. CASE u = t
  BY <1>1 DEF Typed, TypeOK
<1>2. CASE u # t
  BY <1>2 DEF Typed, TypeOK
<1> QED BY <1>1, <1>2

\* It goes on in its operation, or has begun another.
LEMMA MoveGoesOn ==
    ASSUME Typed, NEW t \in Task, NEW x, pc' = [pc EXCEPT ![t] = x],
           Begins(t) \/ (left' = left /\ (x \in Fresh => pc[t] \in Fresh))
    PROVE  GoesOn
<1> SUFFICES ASSUME NEW u \in Task
             PROVE  /\ left'[u] \in Nat
                    /\ \/ left'[u] < left[u]
                       \/ left'[u] = left[u] /\ (pc'[u] \in Fresh => pc[u] \in Fresh)
  BY DEF GoesOn
<1>1. CASE u = t
  BY <1>1, BeginsLess DEF Typed, TypeOK
<1>2. CASE u # t
  BY <1>2, BeginsLess DEF Typed, TypeOK
<1> QED BY <1>1, <1>2

\* A request that is sent: to execute to a worker that has loaded the module, to
\* load it by the task that starts the worker.
LEMMA SendKeepsMessages ==
    ASSUME Typed, Messages, NEW t \in Task, NEW method \in Method, Send(t, method),
           UNCHANGED <<process, life, loaded, stdout>>, Begins(t) \/ left' = left,
           method = "execute" => process \in loaded,
           method = "initialize" => pc[t] = "ready" /\ left' = left
    PROVE  Messages'
<1> DEFINE id == <<t, method, left'[t]>>
<1>1. left' \in [Task -> Nat] /\ \A u \in Task \ {t} : left'[u] = left[u]
  BY BeginsLess DEF Typed, TypeOK
<1>2. id \in Request /\ loaded \subseteq Worker
  BY <1>1 DEF Request, Typed, TypeOK
<1>3. /\ pc' = [pc EXCEPT ![t] = method]
      /\ \A u \in Task : future'[u] = "ok" => future[u] = "ok" /\ u # t
  BY DEF Send, Typed, TypeOK
<1>4. \A u \in Task : pc'[u] = IF u = t THEN method ELSE pc[u]
  BY <1>3 DEF Typed, TypeOK
<1>5. \A w \in Worker : \/ stdin'[w] = stdin[w]
                        \/ Lives(w) /\ w = process /\ stdin'[w] = Append(stdin[w], id)
  <2>1. \/ stdin' = stdin
        \/ Lives(process) /\ stdin' = [stdin EXCEPT ![process] = Append(@, id)]
    BY DEF Send
  <2> QED BY <2>1 DEF Typed, TypeOK
<1>6. ASSUME NEW w \in Worker, NEW e, In(e, stdin'[w])
      PROVE  In(e, stdin[w]) \/ (e = id /\ w = process)
  <2>1. stdin[w] \in Seq(Request)
    BY DEF Typed, TypeOK
  <2> QED BY <1>2, <1>5, <1>6, <2>1, InAppend
<1>7. (\A w \in loaded' : life'[w] # "unborn") /\ \A w \in Worker : life'[w] # "up" => stdin'[w] = <<>>
  BY <1>5 DEF Messages, Lives
<1>8. \A u \in Task : pc'[u] = "initialize" /\ future'[u] = "ok" => process' \in loaded'
  BY <1>3, <1>4 DEF Messages
<1>9. ASSUME NEW request \in Request, NEW w \in Worker, Sent(request, w)
      PROVE  Sent(request, w)'
  <2> DEFINE u == request[1]
  <2>1. u \in Task /\ request[3] \in Nat /\ left[u] \in Nat /\ left'[u] \in Nat
    BY <1>1 DEF Request, Typed, TypeOK
  <2>2. CASE u # t
    BY <1>1, <1>4, <1>9, <2>1, <2>2 DEF Sent
  <2>3. CASE u = t /\ Begins(t)
    <3>1. left'[u] < left[u]
      BY <2>3, BeginsLess
    <3>2. request[3] >= left'[u] /\ request[3] # left'[u]
      BY <1>9, <2>1, <3>1 DEF Sent
    <3> QED BY <3>2 DEF Sent
  <2>4. CASE u = t /\ left' = left
    <3>1. method \notin Fresh
      BY DEF Method, Fresh
    <3>2. method = "initialize" => request[3] # left[u]
      BY <1>9, <2>4 DEF Sent, Fresh
    <3> QED BY <1>4, <1>9, <2>1, <2>4, <3>1, <3>2 DEF Sent
  <2> QED BY <2>2, <2>3, <2>4
<1>10. ASSUME NEW request \in Request, NEW w \in Worker, request[2] = "initialize",
              In(request, stdin'[w])
       PROVE  Sent(request, w)'
  <2>1. CASE In(request, stdin[w])
    BY <1>9, <1>10, <2>1 DEF Messages
  <2>2. CASE request = id /\ w = process
    <3>1. request[1] = t /\ request[3] = left'[t] /\ left'[t] \in Nat
      BY <1>1, <2>2
    <3>2. pc'[t] \in Method /\ pc'[t] \notin Fresh
      BY <1>4 DEF Method, Fresh
    <3> QED BY <2>2, <3>1, <3>2 DEF Sent
  <2> QED BY <1>6, <1>10, <2>1, <2>2
<1>11. ASSUME NEW request \in Request, NEW w \in Worker, request[2] = "initialize",
              In(Loads(request), stdout'[w])
       PROVE  Sent(request, w)' /\ w \in loaded'
  <2>1. Sent(request, w) /\ w \in loaded
    BY <1>11 DEF Messages
  <2> QED BY <1>9, <2>1
<1>12. ASSUME NEW request \in Request, NEW w \in Worker, request[2] = "execute",
              In(request, stdin'[w])
       PROVE  w \in loaded'
  <2>1. CASE In(request, stdin[w])
    BY <1>12, <2>1 DEF Messages
  <2>2. CASE request = id /\ w = process
    BY <1>12, <2>2
  <2> QED BY <1>6, <1>12, <2>1, <2>2
<1>13. \A w \in Worker : \A request \in Request : In(Loads(request), stdout'[w]) <=>
                                                     In(Loads(request)', stdout'[w])
  BY DEF Loads
<1> QED
  BY <1>7, <1>8, <1>10, <1>11, <1>12, <1>13 DEF Messages, In, Loads

\* A task moves while no other starts a worker, or leaves the lock and the flag.
LEMMA StartersMove ==
    ASSUME Typed, Starters, ~Disturbs, NEW t \in Task, NEW x \in Places(t),
           pc' = [pc EXCEPT ![t] = x],
           x \in Starting => ~started' /\ (t \in Call => lock' = {t}),
           \/ \A u \in Task \ {t} : pc[u] \notin Starting
           \/ lock' \in {lock, lock \ {t}} /\ (started' => started),
           StartedWell'
    PROVE  Starters'
<1>1. \A u \in Task : pc'[u] = IF u = t THEN x ELSE pc[u]
  BY DEF Typed, TypeOK
<1>2. \A s \in Service : \A u \in Task \ {s} : ~(Busy(s)' /\ Busy(u)')
  BY DEF Disturbs
<1>3. \A u \in Task : pc'[u] \in Places(u)
  BY <1>1 DEF Starters
<1>4. \A u \in Task : pc'[u] \in Starting => ~started'
  BY <1>1 DEF Starters
<1>5. ASSUME NEW c \in Call, pc'[c] \in Starting
      PROVE  lock' = {c}
  <2>1. c \in Task
    BY Tasks
  <2>2. CASE c = t
    BY <1>1, <1>5, <2>1, <2>2
  <2>3. CASE c # t
    <3>1. pc[c] \in Starting /\ lock = {c}
      BY <1>1, <1>5, <2>1, <2>3 DEF Starters
    <3>2. lock' \in {lock, lock \ {t}}
      BY <2>1, <2>3, <3>1
    <3>3. {c} \ {t} = {c}
      BY <2>3
    <3> QED BY <3>1, <3>2, <3>3
  <2> QED BY <2>2, <2>3
<1> QED BY <1>2, <1>3, <1>4, <1>5 DEF Starters, Places

\* What is started stays so, unless who stops it is cancelled.
LEMMA StartedStays ==
    ASSUME Typed, Starters, ~Disturbs, NEW t \in Task, NEW x, pc' = [pc EXCEPT ![t] = x],
           UNCHANGED <<process, started, life, loaded>>,
           t \in Service /\ Stopping(t) => x \in {"shutdown", "stop", "raised"}
    PROVE  StartedWell'
<1>1. ASSUME NEW s \in Service, Stopping(s)
      PROVE  Stopping(s)'
  <2>1. s \in Task
    BY Tasks
  <2>2. CASE s = t
    <3>1. pc'[s] = x /\ x # "raised"
      BY <1>1, <2>1, <2>2 DEF Disturbs, Typed, TypeOK
    <3> QED BY <1>1, <2>2, <3>1 DEF Stopping
  <2>3. CASE s # t
    BY <1>1, <2>1, <2>3 DEF Stopping, Typed, TypeOK
  <2> QED BY <2>2, <2>3
<1> QED BY <1>1 DEF Starters, StartedWell

Orderly == Starters /\ Booting /\ Messages

\* A task moves, no request is sent and no answer arrives.
LEMMA MoveKeeps ==
    ASSUME Typed, Booting, Messages, Shrinks, NEW t \in Task, NEW x,
           pc' = [pc EXCEPT ![t] = x], x \notin {"ready", "initialize"},
           Begins(t) \/ (left' = left /\ (x \in Fresh => pc[t] \in Fresh)),
           \A u \in Task \ {t} : mine'[u] = mine[u],
           \A w \in Worker : life[w] = "dead" => life'[w] = "dead",
           \/ \A u \in Task \ {t} : pc[u] \notin {"ready", "initialize"}
           \/ /\ process' \in {process, NoWorker} /\ life' = life
              /\ Lives(process) => process' = process
    PROVE  Booting' /\ Messages'
<1>1. Steady
  BY MoveIsSteady DEF Shrinks
<1>2. GoesOn
  BY MoveGoesOn
<1> QED BY <1>1, <1>2, SteadyKeepsAll

\* A request is sent that does not start a worker.
LEMMA SendKeeps ==
    ASSUME Typed, Booting, Messages, NEW t \in Task, NEW method \in Method \ {"initialize"},
           Send(t, method), UNCHANGED <<process, life, loaded, stdout>>,
           Begins(t) \/ left' = left,
           method = "execute" => process \in loaded
    PROVE  Booting' /\ Messages'
<1>1. pc' = [pc EXCEPT ![t] = method] /\ method \notin {"ready", "initialize"}
  BY DEF Send, Method
<1>2. \A u \in Task \ {t} : mine'[u] = mine[u]
  <2>1. mine' \in {[mine EXCEPT ![t] = NoWorker], [mine EXCEPT ![t] = process]}
    BY DEF Send
  <2> QED BY <2>1 DEF Typed, TypeOK
<1>3. Steady
  BY <1>1, <1>2, MoveIsSteady
<1> QED BY <1>3, SteadyKeepsBooting, SendKeepsMessages

\* The channels stay.
LEMMA StaysShrinks ==
    ASSUME Messages, UNCHANGED <<life, loaded, stdin, stdout>>,
           \A u \in Task : future'[u] = "ok" => future[u] = "ok"
    PROVE  Shrinks
BY DEF Shrinks, Messages

\* A task moves, and the process, its flag and the channels stay.
LEMMA MoveAlone ==
    ASSUME Typed, Orderly, ~Disturbs, NEW t \in Task, NEW x \in Places(t),
           pc' = [pc EXCEPT ![t] = x], x \notin {"ready", "initialize"},
           x \in Starting => ~started /\ (t \in Call => lock' = {t})
                             /\ \A u \in Task \ {t} : pc[u] \notin Starting,
           x \in Starting \/ lock' \in {lock, lock \ {t}},
           t \in Service /\ Stopping(t) => x \in {"shutdown", "stop", "raised"},
           Begins(t) \/ (left' = left /\ (x \in Fresh => pc[t] \in Fresh)),
           UNCHANGED <<process, started, life, loaded, stdin, stdout>>,
           \A u \in Task \ {t} : mine'[u] = mine[u],
           \A u \in Task : future'[u] = "ok" => future[u] = "ok"
    PROVE  Orderly'
<1>1. StartedWell'
  BY StartedStays DEF Orderly
<1>2. Starters'
  BY <1>1, StartersMove DEF Orderly
<1>3. Shrinks
  BY StaysShrinks DEF Orderly
<1>4. Booting' /\ Messages'
  BY <1>3, MoveKeeps DEF Orderly
<1> QED BY <1>2, <1>4 DEF Orderly

\* A request is sent, and the process and its flag stay.
LEMMA SendAlone ==
    ASSUME Typed, Orderly, ~Disturbs, NEW t \in Task,
           NEW method \in (Method \ {"initialize"}) \intersect Places(t),
           Send(t, method), UNCHANGED <<process, started, life, loaded, stdout>>,
           lock' \in {lock, lock \ {t}}, Begins(t) \/ left' = left,
           t \in Service /\ Stopping(t) => method = "shutdown",
           method = "execute" => process \in loaded
    PROVE  Orderly'
<1>1. pc' = [pc EXCEPT ![t] = method] /\ method \notin Starting
  BY DEF Send, Method, Starting
<1>2. StartedWell'
  BY <1>1, StartedStays DEF Orderly
<1>3. Starters'
  BY <1>1, <1>2, StartersMove DEF Orderly
<1>4. Booting' /\ Messages'
  BY SendKeeps DEF Orderly
<1> QED BY <1>3, <1>4 DEF Orderly

\* While nobody stops it, what is started lives.
LEMMA StartedLives ==
    ASSUME Typed, Starters, \A s \in Service : ~Stopping(s)
    PROVE  started => Alive
<1>1. NoWorker \notin Worker
  BY DEF NoWorker, Worker
<1> QED BY <1>1 DEF Starters, StartedWell, Alive, Lives, Typed, TypeOK

\* Who begins to start a worker is alone, and none is started.
LEMMA BeginsToStart ==
    ASSUME Typed, Starters, ~Disturbs, NEW t \in Task, pc' = [pc EXCEPT ![t] = "spawn"],
           ~Alive, pc[t] \notin {"shutdown", "stop"}, t \in Call => lock = {}
    PROVE  ~started /\ \A u \in Task \ {t} : pc[u] \notin Starting
<1>1. Busy(t)'
  BY DEF Busy, Typed, TypeOK
<1>2. ASSUME NEW s \in Service, s # t, Busy(s)
      PROVE  FALSE
  <2>1. s \in Task /\ Busy(s)'
    BY <1>2, Tasks DEF Busy, Typed, TypeOK
  <2> QED BY <1>1, <1>2, <2>1 DEF Disturbs
<1>3. \A s \in Service : ~Stopping(s)
  BY <1>2 DEF Stopping, Busy
<1>4. ASSUME NEW u \in Task \ {t}, pc[u] \in Starting
      PROVE  FALSE
  <2>1. Busy(u) /\ Busy(u)'
    BY <1>4 DEF Busy, Starting, Typed, TypeOK
  <2>2. u \in Call /\ t \in Call
    BY <1>1, <1>2, <1>4, <2>1 DEF Disturbs, Task
  <2> QED BY <1>4, <2>2 DEF Starters
<1> QED BY <1>3, <1>4, StartedLives

\* The steps of the calls.
LEMMA CallStarts ==
    ASSUME Typed, Orderly, ~Disturbs, NEW c \in Call, CallActs(c)
    PROVE  Orderly'
<1>1. /\ c \in Task /\ c \notin Service /\ "execute" \in Method \ {"initialize"}
      /\ Places(c) = {"idle", "lock", "execute", "returned", "raised"} \union Starting
  BY Tasks DEF Method, Places
<1>2. Starters /\ Booting /\ Messages /\ StartedWell
  BY DEF Orderly, Starters
<1>3. Alive => process \in loaded
  BY <1>2 DEF StartedWell, Alive
<1>4. CASE Execute(c)
  <2>1. UNCHANGED <<procVars, life, loaded, stdout>> /\ Begins(c)
    BY <1>4 DEF Execute
  <2>2. CASE Alive /\ Send(c, "execute")
    BY <1>1, <1>3, <2>1, <2>2, SendAlone DEF procVars
  <2>3. CASE pc' = [pc EXCEPT ![c] = "lock"] /\ UNCHANGED <<mine, future, pending, stdin>>
    BY <1>1, <2>1, <2>3, MoveAlone DEF procVars, Starting
  <2> QED BY <1>4, <2>2, <2>3 DEF Execute
<1>5. CASE Locked(c)
  <2>1. /\ UNCHANGED <<process, started, left, life, loaded, stdout>>
        /\ pc[c] = "lock" /\ lock = {}
    BY <1>5 DEF Locked
  <2>2. CASE Alive /\ Send(c, "execute") /\ UNCHANGED lock
    BY <1>1, <1>3, <2>1, <2>2, SendAlone
  <2>3. CASE GivesUp(c) /\ UNCHANGED <<mine, future, pending, stdin>>
    BY <1>1, <2>1, <2>3, MoveAlone DEF GivesUp, Starting, Fresh
  <2>4. CASE /\ ~Alive /\ pc' = [pc EXCEPT ![c] = "spawn"] /\ lock' = {c}
             /\ UNCHANGED <<mine, future, pending, stdin>>
    <3>1. ~started /\ \A u \in Task \ {c} : pc[u] \notin Starting
      BY <1>1, <1>2, <2>1, <2>4, BeginsToStart
    <3> QED BY <1>1, <2>1, <2>4, <3>1, MoveAlone DEF Starting, Fresh
  <2> QED BY <1>5, <2>2, <2>3, <2>4 DEF Locked
<1>6. CASE Initialized(c)
  <2>1. /\ pc[c] = "initialize" /\ future[c] = "ok" /\ Send(c, "execute")
        /\ lock' = lock \ {c} /\ UNCHANGED <<process, left, life, loaded, stdout>>
    BY <1>6 DEF Initialized, Answered
  <2>2. process \in loaded /\ life[process] = "up"
    BY <1>1, <1>2, <2>1 DEF Messages, Booting
  <2>3. \A u \in Task \ {c} : pc[u] \notin Starting
    BY <1>1, <1>2, <2>1, OneBusy DEF Busy, Starting
  <2>4. pc' = [pc EXCEPT ![c] = "execute"] /\ "execute" \notin Starting
    BY <2>1 DEF Send, Starting
  <2>5. StartedWell'
    BY <2>1, <2>2 DEF StartedWell
  <2>6. Starters'
    BY <1>1, <1>2, <2>3, <2>4, <2>5, StartersMove
  <2>7. Booting' /\ Messages'
    BY <1>1, <1>2, <2>1, <2>2, SendKeeps
  <2> QED BY <2>6, <2>7 DEF Orderly
<1>7. CASE Returns(c)
  <2>1. PICK x \in {"returned", "raised"} : pc' = [pc EXCEPT ![c] = x]
    BY <1>7 DEF Returns
  <2>2. /\ \A u \in Task : future'[u] = "ok" => future[u] = "ok"
        /\ UNCHANGED <<procVars, mine, left, workerVars>>
    BY <1>1, <1>7 DEF Returns, Typed, TypeOK
  <2> QED BY <1>1, <2>1, <2>2, MoveAlone DEF procVars, workerVars, Starting, Fresh
<1> QED BY <1>4, <1>5, <1>6, <1>7 DEF CallActs

\* What _kill leaves in the channels and in the futures.
LEMMA KillShrinks ==
    ASSUME Typed, Messages, NEW t \in Task, NEW purpose, Kill(t, purpose)
    PROVE  /\ Shrinks
           /\ \A w \in Worker : life[w] = "dead" => life'[w] = "dead"
           /\ \A u \in Task \ {t} : mine'[u] = mine[u]
           /\ ~Lives(process) => life' = life
<1>1. \A u \in Task : future'[u] = "ok" => future[u] = "ok"
  BY DEF Kill, EndLoop, Failed
<1>2. \A w \in Worker :
         \/ stdin'[w] = stdin[w] /\ life'[w] = life[w]
         \/ stdin'[w] = <<>> /\ life'[w] = "dead" /\ life[w] = "up"
  BY DEF Kill, Lives, Typed, TypeOK
<1>3. \A w \in Worker : \A e : In(e, stdin'[w]) => In(e, stdin[w])
  BY <1>2, InNothing
<1>4. \A w \in Worker : life'[w] # "up" => stdin'[w] = <<>>
  BY <1>2 DEF Messages
<1>5. \A w \in Worker : /\ life[w] # "unborn" => life'[w] # "unborn"
                        /\ life[w] = "dead" => life'[w] = "dead"
  BY <1>2
<1>6. UNCHANGED <<loaded, stdout>> /\ (~Lives(process) => life' = life)
  BY DEF Kill
<1>7. \A u \in Task \ {t} : mine'[u] = mine[u]
  BY DEF Kill, Typed, TypeOK
<1> QED BY <1>1, <1>3, <1>4, <1>5, <1>6, <1>7 DEF Shrinks

\* Who starts a worker is alone.
LEMMA StarterAlone ==
    ASSUME Typed, Starters, NEW t \in Task, pc[t] \in Starting
    PROVE  /\ ~started /\ (t \in Call => lock = {t}) /\ t # Monitor
           /\ \A u \in Task \ {t} : pc[u] \notin Starting \union {"shutdown", "stop"}
           /\ Starting \subseteq Places(t)
<1>1. \A u \in Task \ {t} : pc[u] \notin Starting \union {"shutdown", "stop"}
  BY OneBusy DEF Busy, Starting
<1>2. t # Monitor
  <2>1. t = Monitor => Places(t) = {"idle", "health_check", "shutdown", "stop", "stopped"}
    BY DEF Places
  <2> QED BY <2>1, Tasks DEF Starters, Starting
<1>3. ~started /\ (t \in Call => lock = {t})
  BY DEF Starters
<1>4. Starting \subseteq Places(t)
  BY <1>2 DEF Places
<1> QED BY <1>1, <1>2, <1>3, <1>4

\* It gives up, at once or after a _kill.
LEMMA StarterGivesUp ==
    ASSUME Typed, Orderly, ~Disturbs, NEW t \in Task, pc[t] \in Starting,
           NEW x, pc' = [pc EXCEPT ![t] = x],
           \/ x = "giveup" /\ lock' = lock
           \/ x = (IF t \in Service THEN "idle" ELSE "raised") /\ lock' = lock \ {t},
           started' = started, left' = left, Shrinks,
           \A w \in Worker : life[w] = "dead" => life'[w] = "dead",
           \A u \in Task \ {t} : mine'[u] = mine[u]
    PROVE  Orderly'
<1>1. /\ ~started /\ (t \in Call => lock = {t}) /\ t # Monitor
      /\ \A u \in Task \ {t} : pc[u] \notin Starting
      /\ Starting \subseteq Places(t)
  BY StarterAlone DEF Orderly
<1>2. x \in Places(t) /\ x \notin {"ready", "initialize"} /\ x \notin Fresh
  BY <1>1, Tasks DEF Places, Service, Starting, Fresh
<1>3. Starters'
  <2>1. StartedWell'
    BY <1>1 DEF StartedWell
  <2>2. x \in Starting => ~started' /\ (t \in Call => lock' = {t})
    BY <1>1 DEF Starting
  <2> QED BY <1>1, <1>2, <2>1, <2>2, StartersMove DEF Orderly
<1>4. Booting' /\ Messages'
  BY <1>1, <1>2, MoveKeeps DEF Orderly, Starting
<1> QED BY <1>3, <1>4 DEF Orderly

\* A worker is spawned: it is the process, and has not loaded anything.
LEMMA SpawnStarts ==
    ASSUME Typed, Orderly, ~Disturbs, NEW t \in Task, Spawn(t)
    PROVE  Orderly'
<1>1. /\ pc[t] = "spawn" /\ pc' = [pc EXCEPT ![t] = "ready"]
      /\ UNCHANGED <<started, lock, future, left, loaded, stdin, stdout>>
  BY DEF Spawn
<1>2. PICK w \in Worker : /\ life' = [life EXCEPT ![w] = "up"] /\ process' = w
                          /\ life[w] = "unborn" /\ mine' = [mine EXCEPT ![t] = w]
  BY DEF Spawn
<1>3. /\ ~started /\ (t \in Call => lock = {t})
      /\ \A u \in Task \ {t} : pc[u] \notin Starting
      /\ Starting \subseteq Places(t)
  BY <1>1, StarterAlone DEF Orderly, Starting
<1>4. \A u \in Task : pc'[u] = IF u = t THEN "ready" ELSE pc[u]
  BY <1>1 DEF Typed, TypeOK
<1>5. Starters'
  <2>1. StartedWell'
    BY <1>1, <1>3 DEF StartedWell
  <2> QED BY <1>1, <1>3, <2>1, StartersMove DEF Orderly, Starting
<1>6. Booting'
  <2>1. \A u \in Task : pc'[u] \in {"ready", "initialize"} => u = t
    BY <1>3, <1>4 DEF Starting
  <2>2. mine'[t] = w /\ life'[w] = "up" /\ pc'[t] = "ready"
    BY <1>2, <1>4 DEF Typed, TypeOK
  <2> QED BY <1>2, <2>1, <2>2 DEF Booting
<1>7. Messages'
  <2>1. \A v \in Worker : life'[v] = IF v = w THEN "up" ELSE life[v]
    BY <1>2 DEF Typed, TypeOK
  <2>2. Shrinks
    BY <1>1, <2>1 DEF Shrinks, Orderly, Messages
  <2>3. GoesOn
    BY <1>1, MoveGoesOn DEF Fresh
  <2>4. NoneAsks
    BY <1>3, <1>4 DEF NoneAsks, Starting
  <2> QED BY <2>2, <2>3, <2>4, ShrinksKeepsMessages DEF Orderly
<1> QED BY <1>5, <1>6, <1>7 DEF Orderly

\* Its ready line is there: it is asked to load the module.
LEMMA ReadyStarts ==
    ASSUME Typed, Orderly, ~Disturbs, NEW t \in Task, Ready(t)
    PROVE  Orderly'
<1>1. /\ pc[t] = "ready" /\ Lives(mine[t]) /\ Send(t, "initialize")
      /\ UNCHANGED <<process, started, lock, left, life, loaded, stdout>>
      /\ "initialize" \in Method
  BY DEF Ready, procVars, Method
<1>2. pc' = [pc EXCEPT ![t] = "initialize"]
  BY <1>1 DEF Send
<1>3. /\ ~started /\ (t \in Call => lock = {t})
      /\ \A u \in Task \ {t} : pc[u] \notin Starting
      /\ Starting \subseteq Places(t)
  BY <1>1, StarterAlone DEF Orderly, Starting
<1>4. Starters'
  <2>1. StartedWell'
    BY <1>1, <1>3 DEF StartedWell
  <2> QED BY <1>1, <1>2, <1>3, <2>1, StartersMove DEF Orderly, Starting
<1>5. Booting'
  <2>1. \A u \in Task : pc'[u] \in {"ready", "initialize"} => u = t /\ pc'[u] = "initialize"
    BY <1>2, <1>3 DEF Starting, Typed, TypeOK
  <2>2. process = mine[t] /\ life[mine[t]] = "up"
    BY <1>1 DEF Orderly, Booting, Lives
  <2> QED BY <1>1, <2>1, <2>2 DEF Booting
<1>6. Messages'
  BY <1>1, SendKeepsMessages DEF Orderly
<1> QED BY <1>4, <1>5, <1>6 DEF Orderly

\* A service stops the process: its flag is cleared when the _kill is over.
LEMMA StopEnds ==
    ASSUME Typed, Orderly, ~Disturbs, NEW t \in Service, AfterKill(t, "stop"), Shrinks,
           \A w \in Worker : life[w] = "dead" => life'[w] = "dead",
           \A u \in Task \ {t} : mine'[u] = mine[u],
           Begins(t) \/ left' = left,
           Busy(t) \/ (~Lives(process) /\ life' = life)
    PROVE  Orderly'
<1>1. PICK x \in {"stopped", "idle"} :
         /\ pc' = [pc EXCEPT ![t] = x] /\ x = IF t = Monitor THEN "stopped" ELSE "idle"
  BY DEF AfterKill
<1>2. t \in Task /\ t \notin Call /\ t \in {Monitor, Manager}
  BY Tasks
<1>3. x \in Places(t) /\ x \notin Starting /\ x \notin Fresh /\ x \notin {"ready", "initialize"}
  BY <1>1, <1>2, Tasks DEF Places, Starting, Fresh
<1>4. process' = NoWorker /\ started' = FALSE /\ lock' = lock
  BY DEF AfterKill
<1>5. Starters'
  <2>1. StartedWell'
    BY <1>4 DEF StartedWell
  <2> QED BY <1>1, <1>2, <1>3, <1>4, <2>1, StartersMove DEF Orderly
<1>6. Booting' /\ Messages'
  <2>1. \/ \A u \in Task \ {t} : pc[u] \notin {"ready", "initialize"}
        \/ /\ process' \in {process, NoWorker} /\ life' = life
           /\ Lives(process) => process' = process
    BY <1>2, <1>4, OneBusy DEF Orderly, Busy
  <2> QED BY <1>1, <1>2, <1>3, <2>1, MoveKeeps DEF Orderly
<1> QED BY <1>5, <1>6 DEF Orderly

\* A service kills the process.
LEMMA StopKills ==
    ASSUME Typed, Orderly, ~Disturbs, NEW t \in Service, Kill(t, "stop"),
           Begins(t) \/ left' = left, Busy(t) \/ ~Lives(process)
    PROVE  Orderly'
<1>1. t \in Task /\ t \notin Call /\ t \in {Monitor, Manager}
  BY Tasks
<1>2. /\ Shrinks
      /\ \A w \in Worker : life[w] = "dead" => life'[w] = "dead"
      /\ \A u \in Task \ {t} : mine'[u] = mine[u]
      /\ ~Lives(process) => life' = life
  BY <1>1, KillShrinks DEF Orderly
<1>3. CASE AfterKill(t, "stop")
  BY <1>2, <1>3, StopEnds
<1>4. CASE pc' = [pc EXCEPT ![t] = "stop"] /\ UNCHANGED <<process, started, lock>>
  <2>1. "stop" \in Places(t) /\ "stop" \notin Starting /\ "stop" \notin Fresh
    BY <1>1 DEF Places, Starting, Fresh
  <2>2. StartedWell'
    <3>1. Stopping(t)'
      BY <1>1, <1>4 DEF Stopping, Typed, TypeOK
    <3> QED BY <1>2, <1>4, <3>1 DEF StartedWell, Orderly, Starters, Shrinks
  <2>3. Starters'
    BY <1>1, <1>4, <2>1, <2>2, StartersMove DEF Orderly
  <2>4. Booting' /\ Messages'
    <3>1. \/ \A u \in Task \ {t} : pc[u] \notin {"ready", "initialize"}
          \/ /\ process' \in {process, NoWorker} /\ life' = life
             /\ Lives(process) => process' = process
      BY <1>1, <1>2, <1>4, OneBusy DEF Orderly, Busy
    <3> QED BY <1>1, <1>2, <1>4, <2>1, <3>1, MoveKeeps DEF Orderly
  <2> QED BY <2>3, <2>4 DEF Orderly
<1> QED BY <1>3, <1>4 DEF Kill

\* Nothing moves but a future, which fails, and who drains.
LEMMA FailsOrderly ==
    ASSUME Typed, Orderly, NEW t \in Task, pc[t] \in Method,
           UNCHANGED <<procVars, pc, left, workerVars>>,
           \A u \in Task : future'[u] = "ok" => future[u] = "ok",
           \A u \in Task \ {t} : mine'[u] = mine[u]
    PROVE  Orderly'
<1>1. Starters'
  BY DEF Orderly, Starters, StartedWell, Busy, Stopping, procVars, workerVars
<1>2. Shrinks
  BY StaysShrinks DEF Orderly, workerVars
<1>3. GoesOn
  BY DEF GoesOn, Typed, TypeOK
<1>4. Steady
  BY DEF Steady, Method, procVars, workerVars
<1> QED BY <1>1, <1>2, <1>3, <1>4, SteadyKeepsAll DEF Orderly

\* The steps that calls and services share.
LEMMA TaskStarts ==
    ASSUME Typed, Orderly, ~Disturbs, NEW t \in Task, TaskActs(t)
    PROVE  Orderly'
<1>1. Starters /\ Messages /\ pc[t] \in Places(t)
  BY DEF Orderly, Starters
<1>2. ASSUME GivesUp(t)
      PROVE  /\ pc' = [pc EXCEPT ![t] = IF t \in Service THEN "idle" ELSE "raised"]
             /\ lock' = lock \ {t}
  BY <1>2 DEF GivesUp
<1>3. CASE SpawnFails(t) \/ NotInitialized(t)
  <2>1. /\ pc[t] \in Starting /\ GivesUp(t)
        /\ UNCHANGED <<process, started, mine, left, workerVars>>
    BY <1>3 DEF SpawnFails, NotInitialized, Answered, Starting
  <2>2. \A u \in Task : future'[u] = "ok" => future[u] = "ok"
    BY <1>3 DEF SpawnFails, NotInitialized, Typed, TypeOK
  <2>3. Shrinks
    BY <1>1, <2>1, <2>2, StaysShrinks DEF workerVars
  <2> QED BY <1>2, <2>1, <2>3, StarterGivesUp DEF workerVars
<1>4. CASE NotReady(t)
  <2>1. pc[t] \in Starting /\ Kill(t, "giveup") /\ left' = left
    BY <1>4 DEF NotReady, Starting
  <2>2. /\ Shrinks
        /\ \A w \in Worker : life[w] = "dead" => life'[w] = "dead"
        /\ \A u \in Task \ {t} : mine'[u] = mine[u]
    BY <1>1, <2>1, KillShrinks
  <2>3. CASE pc' = [pc EXCEPT ![t] = "giveup"] /\ UNCHANGED <<process, started, lock>>
    BY <2>1, <2>2, <2>3, StarterGivesUp
  <2>4. CASE GivesUp(t) /\ UNCHANGED started
    BY <1>2, <2>1, <2>2, <2>4, StarterGivesUp
  <2> QED BY <2>1, <2>3, <2>4 DEF Kill, AfterKill
<1>5. CASE KillEnds(t)
  <2>1. AfterKill(t, pc[t]) /\ UNCHANGED <<mine, future, left, workerVars>>
    BY <1>5 DEF KillEnds
  <2>2. Shrinks
    BY <1>1, <2>1, StaysShrinks DEF workerVars
  <2>3. CASE pc[t] = "giveup"
    <3>1. GivesUp(t) /\ UNCHANGED started /\ pc[t] \in Starting
      BY <2>1, <2>3 DEF AfterKill, Starting
    <3> QED BY <1>2, <2>1, <2>2, <3>1, StarterGivesUp DEF workerVars
  <2>4. CASE pc[t] = "stop"
    <3>1. t \in Service /\ Busy(t)
      BY <1>1, <2>4, Tasks DEF Places, Starting, Busy
    <3> QED BY <2>1, <2>2, <2>4, <3>1, StopEnds DEF workerVars
  <2>5. pc[t] # "restart"
    BY <1>1 DEF Places, Starting
  <2> QED BY <1>5, <2>3, <2>4, <2>5 DEF KillEnds
<1>6. CASE ShutDown(t)
  <2>1. pc[t] = "shutdown" /\ Kill(t, "stop") /\ left' = left
    BY <1>6 DEF ShutDown, Answered
  <2>2. t \in Service /\ Busy(t)
    BY <1>1, <2>1, Tasks DEF Places, Starting, Busy
  <2> QED BY <2>1, <2>2, StopKills
<1>7. CASE RpcTimesOut(t)
  BY <1>7, FailsOrderly DEF RpcTimesOut, Waits, Awaits, Typed, TypeOK
<1>8. CASE Drained(t)
  <2>1. /\ pc[t] \in Method /\ UNCHANGED <<procVars, pc, left, workerVars>>
        /\ \A u \in Task \ {t} : mine'[u] = mine[u]
        /\ \A u \in Task : future'[u] = "ok" => future[u] = "ok"
    BY <1>8 DEF Drained, Drains, Awaits, Typed, TypeOK
  <2> QED BY <2>1, FailsOrderly
<1>9. CASE Cancel(t)
  <2>1. /\ pc' = [pc EXCEPT ![t] = "raised"] /\ lock' = lock \ {t} /\ t # Monitor
        /\ UNCHANGED <<process, started, left, life, loaded, stdin, stdout>>
        /\ \A u \in Task \ {t} : mine'[u] = mine[u]
        /\ \A u \in Task : future'[u] = "ok" => future[u] = "ok"
    BY <1>9 DEF Cancel, workerVars, Typed, TypeOK
  <2>2. "raised" \in Places(t) /\ "raised" \notin Starting /\ "raised" \notin Fresh
    BY <2>1 DEF Places, Starting, Fresh
  <2> QED BY <2>1, <2>2, MoveAlone
<1> QED
  BY <1>3, <1>4, <1>5, <1>6, <1>7, <1>8, <1>9, SpawnStarts, ReadyStarts DEF TaskActs

\* The proxy stops.
LEMMA StopStarts ==
    ASSUME Typed, Orderly, ~Disturbs, NEW t \in Service, StopBegins(t)
    PROVE  Orderly'
<1>1. t \in Task /\ t \notin Call /\ t \in {Monitor, Manager}
  BY Tasks
<1>2. CASE Send(t, "shutdown") /\ UNCHANGED <<procVars, life, loaded, stdout, reading, reader>>
  <2>1. "shutdown" \in (Method \ {"initialize"}) \intersect Places(t)
    BY <1>1 DEF Places, Method
  <2>2. Begins(t) /\ UNCHANGED <<process, started, lock, life, loaded, stdout>>
    BY <1>2 DEF StopBegins, procVars
  <2> QED BY <1>1, <1>2, <2>1, <2>2, SendAlone
<1>3. CASE ~Lives(process) /\ Kill(t, "stop")
  BY <1>3, StopKills DEF StopBegins
<1> QED BY <1>2, <1>3 DEF StopBegins

\* The steps of the monitor.
LEMMA MonitorStarts ==
    ASSUME Typed, Orderly, ~Disturbs, MonitorActs
    PROVE  Orderly'
<1>1. Monitor \in Task /\ Monitor \in Service /\ Monitor \notin Call
  BY Tasks
<1>2. /\ pc[Monitor] \in {"idle", "health_check", "shutdown", "stop", "stopped"}
      /\ {"idle", "health_check"} \subseteq Places(Monitor)
  <2>1. ASSUME NEW t, t = Monitor
        PROVE  Places(t) = {"idle", "health_check", "shutdown", "stop", "stopped"}
    BY <2>1 DEF Places
  <2> QED BY <1>1, <2>1 DEF Orderly, Starters
<1>3. CASE CheckPasses
  <2>1. /\ UNCHANGED <<procVars, pc, mine, future, life, loaded, stdin, stdout>>
        /\ Begins(Monitor)
    BY <1>3 DEF CheckPasses, workerVars
  <2>2. Starters'
    BY <2>1 DEF Orderly, Starters, StartedWell, Busy, Stopping, procVars
  <2>3. Shrinks
    BY <2>1, StaysShrinks DEF Orderly
  <2>4. GoesOn
    BY <1>1, <2>1, BeginsLess DEF GoesOn, Typed, TypeOK
  <2>5. Steady
    BY <2>1 DEF Steady, procVars
  <2> QED BY <2>2, <2>3, <2>4, <2>5, SteadyKeepsAll DEF Orderly
<1>4. CASE CheckPings
  <2>1. "health_check" \in (Method \ {"initialize"}) \intersect Places(Monitor)
    BY <1>2 DEF Method
  <2>2. /\ Send(Monitor, "health_check") /\ Begins(Monitor) /\ ~Stopping(Monitor)
        /\ UNCHANGED <<process, started, lock, life, loaded, stdout>>
    BY <1>4 DEF CheckPings, Stopping, procVars
  <2> QED BY <1>1, <2>1, <2>2, SendAlone
<1>5. ~CheckRestarts
  <2> SUFFICES ASSUME CheckRestarts PROVE FALSE
    OBVIOUS
  <2>1. pc[Monitor] = "idle" /\ started /\ ~Alive /\ Kill(Monitor, "restart")
    BY DEF CheckRestarts
  <2>2. PICK s \in Service : Stopping(s)
    BY <2>1, StartedLives DEF Orderly
  <2>3. PICK x \in {"restart", "sleep"} : pc' = [pc EXCEPT ![Monitor] = x]
    BY <2>1 DEF Kill, AfterKill
  <2>4. s \in Task /\ s # Monitor
    BY <2>1, <2>2, Tasks DEF Stopping
  <2>5. Busy(Monitor)' /\ Busy(s)'
    BY <1>1, <2>2, <2>3, <2>4 DEF Busy, Stopping, Typed, TypeOK
  <2> QED BY <1>1, <2>4, <2>5 DEF Disturbs
<1>6. CASE Pinged
  <2>1. /\ pc' = [pc EXCEPT ![Monitor] = "idle"] /\ lock' = lock \ {Monitor}
        /\ UNCHANGED <<process, started, left, mine, life, loaded, stdin, stdout>>
        /\ pc[Monitor] = "health_check" /\ future' = [future EXCEPT ![Monitor] = "none"]
    BY <1>1, <1>6 DEF Pinged, GivesUp, Answered, workerVars
  <2>2. "idle" \notin Starting /\ "idle" \notin Fresh /\ ~Stopping(Monitor)
    BY <2>1 DEF Starting, Fresh, Stopping
  <2>3. \A u \in Task : future'[u] = "ok" => future[u] = "ok"
    BY <2>1 DEF Typed, TypeOK
  <2> QED BY <1>1, <1>2, <2>1, <2>2, <2>3, MoveAlone
<1>7. ~RestartDelayOver /\ ~Restarted
  BY <1>2 DEF RestartDelayOver, Restarted, Answered
<1>8. CASE Stop
  BY <1>1, <1>8, StopStarts DEF Stop
<1> QED BY <1>3, <1>4, <1>5, <1>6, <1>7, <1>8 DEF MonitorActs

\* The steps of the lifecycle manager.
LEMMA ManagerStarts ==
    ASSUME Typed, Orderly, ~Disturbs, ManagerActs
    PROVE  Orderly'
<1>1. Manager \in Task /\ Manager \in Service /\ Manager \notin Call /\ Manager # Monitor
  BY Tasks
<1>2. {"active", "spawn"} \subseteq Places(Manager) /\ "active" \notin Starting
      /\ "active" \notin Fresh /\ "spawn" \in Starting
  BY <1>1 DEF Places, Starting, Fresh
<1>3. CASE OnStart
  <2>1. /\ pc[Manager] = "idle" /\ Begins(Manager)
        /\ pc' = [pc EXCEPT ![Manager] = IF Alive THEN "active" ELSE "spawn"]
        /\ UNCHANGED <<process, started, lock, mine, future, life, loaded, stdin, stdout>>
    BY <1>3 DEF OnStart, procVars, workerVars
  <2>2. ~Stopping(Manager)
    BY <2>1 DEF Stopping
  <2>3. CASE Alive
    BY <1>1, <1>2, <2>1, <2>2, <2>3, MoveAlone
  <2>4. CASE ~Alive
    <3>1. pc' = [pc EXCEPT ![Manager] = "spawn"]
      BY <2>1, <2>4
    <3>2. ~started /\ \A u \in Task \ {Manager} : pc[u] \notin Starting
      BY <1>1, <2>1, <2>4, <3>1, BeginsToStart DEF Orderly
    <3> QED BY <1>1, <1>2, <2>1, <2>2, <3>1, <3>2, MoveAlone
  <2> QED BY <2>3, <2>4
<1>4. CASE OnStartEnds
  <2>1. /\ pc[Manager] = "initialize" /\ future[Manager] = "ok" /\ started' = TRUE
        /\ UNCHANGED <<process, lock, mine, left, life, loaded, stdin, stdout>>
        /\ pc' = [pc EXCEPT ![Manager] = IF process = NoWorker THEN "idle" ELSE "active"]
        /\ future' = [future EXCEPT ![Manager] = "none"]
    BY <1>4 DEF OnStartEnds, Answered, workerVars
  <2>2. process \in loaded /\ life[process] = "up"
    BY <1>1, <2>1 DEF Orderly, Messages, Booting
  <2>3. pc' = [pc EXCEPT ![Manager] = "active"]
    <3>1. loaded \subseteq Worker /\ NoWorker \notin Worker
      BY DEF NoWorker, Worker, Typed, TypeOK
    <3> QED BY <2>1, <2>2, <3>1
  <2>4. \A u \in Task \ {Manager} : pc[u] \notin Starting
    BY <1>1, <2>1, StarterAlone DEF Orderly, Starting
  <2>5. StartedWell'
    BY <2>1, <2>2 DEF StartedWell
  <2>6. Starters'
    BY <1>1, <1>2, <2>3, <2>4, <2>5, StartersMove DEF Orderly
  <2>7. \A u \in Task : future'[u] = "ok" => future[u] = "ok"
    BY <2>1 DEF Typed, TypeOK
  <2>8. Shrinks
    BY <2>1, <2>7, StaysShrinks DEF Orderly
  <2>9. Booting' /\ Messages'
    BY <1>1, <1>2, <2>1, <2>3, <2>4, <2>8, MoveKeeps DEF Orderly, Starting
  <2> QED BY <2>6, <2>9 DEF Orderly
<1>5. CASE OnStop
  BY <1>1, <1>5, StopStarts DEF OnStop
<1> QED BY <1>3, <1>4, <1>5 DEF ManagerActs

\* A task that stays where it is.
LEMMA StaysSent ==
    ASSUME UNCHANGED <<process, pc, left>>, NEW request, NEW w
    PROVE  Sent(request, w)' <=> Sent(request, w)
BY DEF Sent

\* A worker that handles a request to load the module has then loaded it or says no.
LEMMA HandleKeeps ==
    ASSUME Typed, Booting, Messages, NEW w \in Worker, Handle(w)
    PROVE  Booting' /\ Messages'
<1> DEFINE request == Head(stdin[w])
<1>1. /\ stdin[w] \in Seq(Request) /\ stdin[w] # <<>> /\ stdout[w] \in Seq(Line)
      /\ life[w] = "up" /\ UNCHANGED <<process, pc, mine, left, future, life>>
  BY DEF Handle, Lives, Typed, TypeOK, Line, procVars, taskVars
<1>2. PICK result \in {"ok", "error"} :
         /\ loaded' = IF request[2] = "initialize" /\ result = "ok"
                      THEN loaded \union {w} ELSE loaded
         /\ stdout' = [stdout EXCEPT ![w] = Append(@, [id |-> request, result |-> result])]
  BY DEF Handle
<1>3. request \in Request /\ In(request, stdin[w]) /\ [id |-> request, result |-> result] \in Line
  BY <1>1, InTail DEF Line
<1>4. ASSUME NEW v \in Worker, NEW e, In(e, stdin'[v])
      PROVE  In(e, stdin[v])
  <2>1. stdin' = [stdin EXCEPT ![w] = Tail(@)]
    BY DEF Handle
  <2>2. stdin'[v] = IF v = w THEN Tail(stdin[w]) ELSE stdin[v]
    BY <2>1 DEF Typed, TypeOK
  <2> QED BY <1>1, <1>4, <2>2, InTail
<1>5. ASSUME NEW v \in Worker, NEW e, In(e, stdout'[v])
      PROVE  In(e, stdout[v]) \/ (v = w /\ e = [id |-> request, result |-> result])
  <2>1. stdout'[v] = IF v = w THEN Append(stdout[w], [id |-> request, result |-> result])
                              ELSE stdout[v]
    BY <1>2 DEF Typed, TypeOK
  <2> QED BY <1>1, <1>3, <1>5, <2>1, InAppend
<1>6. loaded \subseteq loaded' /\ \A v \in loaded' : v \in loaded \/ v = w
  BY <1>2
<1>7. Booting'
  BY <1>1, <1>6 DEF Booting
<1>8. \A v \in loaded' : life'[v] # "unborn"
  BY <1>1, <1>6 DEF Messages
<1>9. \A v \in Worker : life'[v] # "up" => stdin'[v] = <<>>
  <2>1. stdin' = [stdin EXCEPT ![w] = Tail(@)]
    BY DEF Handle
  <2> QED BY <1>1, <2>1 DEF Messages, Typed, TypeOK
<1>10. ASSUME NEW m \in Request, NEW v \in Worker, m[2] = "initialize", In(m, stdin'[v])
       PROVE  Sent(m, v)'
  <2>1. Sent(m, v)
    BY <1>4, <1>10 DEF Messages
  <2> QED BY <1>1, <2>1, StaysSent
<1>11. ASSUME NEW m \in Request, NEW v \in Worker, m[2] = "initialize", In(Loads(m), stdout'[v])
       PROVE  Sent(m, v)' /\ v \in loaded'
  <2>1. CASE In(Loads(m), stdout[v])
    <3>1. Sent(m, v) /\ v \in loaded
      BY <1>11, <2>1 DEF Messages
    <3> QED BY <1>1, <1>6, <3>1, StaysSent
  <2>2. CASE v = w /\ Loads(m) = [id |-> request, result |-> result]
    <3>1. request = m /\ result = "ok"
      BY <2>2 DEF Loads
    <3>2. Sent(m, w)
      BY <1>3, <1>11, <3>1 DEF Messages
    <3>3. w \in loaded'
      BY <1>2, <1>11, <3>1
    <3> QED BY <1>1, <2>2, <3>2, <3>3, StaysSent
  <2> QED BY <1>5, <1>11, <2>1, <2>2
<1>12. \A v \in Worker : \A m \in Request :
          m[2] = "execute" /\ In(m, stdin'[v]) => v \in loaded'
  BY <1>4, <1>6 DEF Messages
<1>13. \A t \in Task : pc'[t] = "initialize" /\ future'[t] = "ok" => process' \in loaded'
  BY <1>1, <1>6 DEF Messages
<1>14. \A v \in Worker : \A m \in Request : In(Loads(m), stdout'[v]) <=> In(Loads(m)', stdout'[v])
  BY DEF Loads
<1>15. Messages'
  BY <1>8, <1>9, <1>10, <1>11, <1>12, <1>13, <1>14 DEF Messages, In, Loads
<1> QED BY <1>7, <1>15

\* The answer to initialize comes from the process that was asked.
LEMMA LineKeeps ==
    ASSUME Typed, Booting, Messages, NEW r \in Worker, ReaderLine(r)
    PROVE  Booting' /\ Messages'
<1> DEFINE w == reading[r]
           line == Head(stdout[w])
           answered == {t \in Task : /\ line.id \in pending /\ Awaits(t)
                                     /\ future[t] = "none" /\ Id(t, pc[t]) = line.id}
<1>1. /\ w \in Worker /\ stdout[w] \in Seq(Line) /\ stdout[w] # <<>>
      /\ UNCHANGED <<process, pc, mine, left, life, loaded, stdin>>
  BY DEF ReaderLine, Typed, TypeOK, Line, procVars
<1>2. line \in Line /\ In(line, stdout[w])
  BY <1>1, InTail
<1>3. ASSUME NEW v \in Worker, NEW e, In(e, stdout'[v])
      PROVE  In(e, stdout[v])
  <2>1. stdout' = [stdout EXCEPT ![w] = Tail(@)]
    BY DEF ReaderLine
  <2>2. stdout'[v] = IF v = w THEN Tail(stdout[w]) ELSE stdout[v]
    BY <1>1, <2>1 DEF Typed, TypeOK
  <2> QED BY <1>1, <1>3, <2>2, InTail
<1>4. ASSUME NEW t \in Task, pc[t] = "initialize", future'[t] = "ok"
      PROVE  process \in loaded
  <2>1. future'[t] = IF t \in answered THEN line.result ELSE future[t]
    BY DEF ReaderLine
  <2>2. CASE t \in answered
    <3>1. line.id = <<t, "initialize", left[t]>> /\ line.result = "ok"
      BY <1>4, <2>1, <2>2 DEF Id
    <3>2. line = Loads(line.id) /\ line.id \in Request /\ line.id[2] = "initialize"
      BY <1>2, <3>1 DEF Loads, Line
    <3>3. Sent(line.id, w) /\ w \in loaded
      BY <1>1, <1>2, <3>2 DEF Messages
    <3>4. w = process
      BY <1>4, <3>1, <3>3 DEF Sent
    <3> QED BY <3>3, <3>4
  <2>3. CASE t \notin answered
    BY <1>4, <2>1, <2>3 DEF Messages
  <2> QED BY <2>2, <2>3
<1>5. /\ \A v \in loaded' : life'[v] # "unborn"
      /\ \A v \in Worker : life'[v] # "up" => stdin'[v] = <<>>
      /\ \A v \in Worker : \A m \in Request :
            m[2] = "execute" /\ In(m, stdin'[v]) => v \in loaded'
  BY <1>1 DEF Messages
<1>6. ASSUME NEW m \in Request, NEW v \in Worker, m[2] = "initialize"
      PROVE  /\ In(m, stdin'[v]) => Sent(m, v)'
             /\ In(Loads(m), stdout'[v]) => Sent(m, v)' /\ v \in loaded'
  <2>1. /\ In(m, stdin'[v]) => Sent(m, v)
        /\ In(Loads(m), stdout'[v]) => Sent(m, v) /\ v \in loaded
    BY <1>1, <1>3, <1>6 DEF Messages
  <2> QED BY <1>1, <2>1, StaysSent
<1>7. \A v \in Worker : \A m \in Request : In(Loads(m), stdout'[v]) <=> In(Loads(m)', stdout'[v])
  BY DEF Loads
<1>8. \A t \in Task : pc'[t] = "initialize" /\ future'[t] = "ok" => process' \in loaded'
  BY <1>1, <1>4
<1>9. Messages'
  BY <1>5, <1>6, <1>7, <1>8 DEF Messages, In, Loads
<1>10. Booting'
  BY <1>1 DEF Booting
<1> QED BY <1>9, <1>10

\* The steps of the readers and the workers: a worker that has loaded the module dies
\* only while it is stopped, for else it disturbs.
LEMMA WorkerStarts ==
    ASSUME Typed, Orderly, ~Disturbs, NEW w \in Worker, WorkerActs(w)
    PROVE  Orderly'
<1>1. UNCHANGED <<process, started, lock, pc, mine, left>>
  BY DEF WorkerActs, ReaderStarts, ReaderLine, ReaderEOF, Handle, Die, procVars, taskVars
<1>2. \A t \in Task : (Busy(t)' <=> Busy(t)) /\ (Stopping(t)' <=> Stopping(t))
  BY <1>1 DEF Busy, Stopping
<1>3. ASSUME StartedWell' PROVE Starters'
  BY <1>1, <1>2, <1>3, Tasks DEF Orderly, Starters
<1>4. ASSUME loaded \subseteq loaded', life' = life PROVE Starters'
  <2>1. StartedWell'
    BY <1>1, <1>2, <1>4, Tasks DEF Orderly, Starters, StartedWell
  <2> QED BY <1>3, <2>1
<1>5. CASE ReaderStarts(w) \/ ReaderEOF(w)
  <2>1. UNCHANGED <<loaded, life, stdin, stdout>>
        /\ \A u \in Task : future'[u] = "ok" => future[u] = "ok"
    BY <1>5 DEF ReaderStarts, ReaderEOF, EndLoop, Failed, workerVars
  <2>2. Shrinks
    BY <2>1, StaysShrinks DEF Orderly
  <2>3. GoesOn /\ Steady
    BY <1>1, <2>1 DEF GoesOn, Steady, Typed, TypeOK
  <2> QED BY <1>4, <2>1, <2>2, <2>3, SteadyKeepsAll DEF Orderly
<1>6. CASE ReaderLine(w)
  <2>1. UNCHANGED <<loaded, life>>
    BY <1>6 DEF ReaderLine
  <2> QED BY <1>4, <1>6, <2>1, LineKeeps DEF Orderly
<1>7. CASE Handle(w)
  <2>1. loaded \subseteq loaded' /\ life' = life
    BY <1>7 DEF Handle
  <2> QED BY <1>4, <1>7, <2>1, HandleKeeps DEF Orderly
<1>8. CASE Die(w)
  <2>1. /\ UNCHANGED <<future, loaded, stdout>> /\ life[w] = "up"
        /\ life' = [life EXCEPT ![w] = "dead"] /\ stdin' = [stdin EXCEPT ![w] = <<>>]
    BY <1>8 DEF Die, Lives, procVars, taskVars
  <2>2. \A v \in Worker : /\ life'[v] = IF v = w THEN "dead" ELSE life[v]
                          /\ stdin'[v] = IF v = w THEN <<>> ELSE stdin[v]
    BY <2>1 DEF Typed, TypeOK
  <2>3. w \in loaded => \E s \in Service : Stopping(s)
    BY <1>1, <2>1, <2>2 DEF Disturbs
  <2>4. loaded \subseteq Worker
    BY DEF Typed, TypeOK
  <2>5. StartedWell'
    BY <1>1, <1>2, <2>1, <2>2, <2>3, <2>4, Tasks DEF Orderly, Starters, StartedWell
  <2>6. Shrinks
    <3>1. \A v \in Worker : \A e : In(e, stdin'[v]) => In(e, stdin[v])
      BY <2>2, InNothing
    <3>2. \A v \in Worker : /\ life'[v] # "up" => stdin'[v] = <<>>
                            /\ life[v] # "unborn" => life'[v] # "unborn"
      BY <2>2 DEF Orderly, Messages
    <3> QED BY <2>1, <3>1, <3>2 DEF Shrinks
  <2>7. GoesOn
    BY <1>1 DEF GoesOn, Typed, TypeOK
  <2>8. ASSUME NEW u \in Task, pc[u] = "initialize", process \in loaded
        PROVE  life'[process] = life[process]
    <3>1. \A s \in Service : ~Stopping(s)
      <4>1. \A s \in Service \ {u} : ~Busy(s)
        BY <2>8, OneBusy, Tasks DEF Orderly, Busy
      <4> QED BY <2>8, <4>1 DEF Busy, Stopping
    <3> QED BY <2>2, <2>3, <2>4, <2>8, <3>1
  <2>9. Steady
    BY <1>1, <2>1, <2>2, <2>8 DEF Steady
  <2> QED BY <1>3, <2>5, <2>6, <2>7, <2>9, SteadyKeepsAll DEF Orderly
<1> QED BY <1>5, <1>6, <1>7, <1>8 DEF WorkerActs
-----------------------------------------------------------------------------
\* What holds as long as nothing disturbs the worker.
StartInv == ~disturbed => Orderly

\* Whatever calls come together, are cancelled, time out or fail in a start, and
\* whenever the services start and stop the module between them, a worker is asked to
\* execute after it has loaded the module, as long as nothing of Disturbs happens.
THEOREM InitializedFirst == Spec => []ExecuteAfterInitialize
<1>1. Init => StartInv
  <2> SUFFICES ASSUME Init PROVE Orderly
    BY DEF StartInv
  <2>1. \A t \in Task : pc[t] = "idle" /\ "idle" \in Places(t)
    BY DEF Init, Places
  <2>2. Starters
    BY <2>1, Tasks DEF Init, Starters, StartedWell, Busy, Starting
  <2>3. Booting
    BY <2>1 DEF Booting
  <2>4. \A w \in Worker : stdin[w] = <<>> /\ stdout[w] = <<>>
    BY DEF Init
  <2>5. Messages
    BY <2>1, <2>4, InNothing DEF Init, Messages
  <2> QED BY <2>2, <2>3, <2>5 DEF Orderly
<1>2. Typed /\ StartInv /\ [Next]_vars => StartInv'
  <2> SUFFICES ASSUME Typed, StartInv, [Next]_vars, ~disturbed'
               PROVE  Orderly'
    BY DEF StartInv
  <2>1. CASE UNCHANGED vars
    BY <2>1 DEF StartInv, vars, procVars, taskVars, workerVars, Orderly, Starters,
                StartedWell, Busy, Stopping, Booting, Messages, Sent
  <2>2. CASE Next
    <3>1. ~disturbed /\ ~Disturbs
      BY <2>2, Actors DEF Noted, Typed, TypeOK
    <3>2. Orderly
      BY <3>1 DEF StartInv
    <3> QED
      BY <2>2, <3>1, <3>2, Actors, CallStarts, TaskStarts, MonitorStarts, ManagerStarts,
         WorkerStarts
  <2> QED BY <2>1, <2>2
<1>3. Typed /\ StartInv => ExecuteAfterInitialize
  <2> SUFFICES ASSUME Typed, ~disturbed, Orderly, NEW w \in Worker,
                      NEW k \in 1..Len(stdin[w]), stdin[w][k][2] = "execute"
               PROVE  w \in loaded
    BY DEF StartInv, ExecuteAfterInitialize
  <2>1. stdin[w] \in Seq(Request)
    BY DEF Typed, TypeOK
  <2>2. stdin[w][k] \in Request /\ In(stdin[w][k], stdin[w])
    BY <2>1 DEF In
  <2> QED BY <2>2 DEF Orderly, Messages
<1>4. Typed /\ [Next]_vars => Typed'
  BY StepTyped
<1> QED BY <1>1, <1>2, <1>3, <1>4, InitTyped, PTL DEF Spec
=============================================================================
