------------------------------ MODULE Dispatch ------------------------------
(***************************************************************************)
(* The dispatch of an action to a node: _dispatch_with_resource_limit and  *)
(* everything below it (orchestration/executor.py), with the limits        *)
(* (orchestration/resource_manager.py, modules/policy.py), the node        *)
(* registry, router, selector, quarantine and load counter                 *)
(* (orchestration/nodes.py, routing.py) and the part of RemoteNode the     *)
(* executor sees.                                                          *)
(*                                                                         *)
(* A call is one attempt of the executor; a retry is another call.  A step *)
(* lasts from one await that suspends to the next.                         *)
(*                                                                         *)
(* Abstractions.  The candidates of a selection are a set, so a strategy   *)
(* that takes "the first" or "the next" may take any: no property depends  *)
(* on the order of the registry.  The waiters of a semaphore are not       *)
(* ordered either; its FIFO order is the strong fairness of GetPermit and  *)
(* GetSlot.  Quarantines and cooldowns end at any time.  A node that has   *)
(* not joined yet is one that is not available; a node that was removed    *)
(* stays away (a node registered again is a new object).  "Blocked" stands *)
(* for a module that is paused or disabled and for a disabled action.      *)
(***************************************************************************)
EXTENDS Integers, FiniteSets

CONSTANTS
    Call,               \* dispatches of actions
    Module,             \* modules of the actions
    Remote,             \* remote nodes
    Local,              \* the local node
    None,               \* no node
    Profiles,           \* the modules, execution modes and target nodes of the calls
    Strategies,         \* routing strategies that are configured
    Affinity,           \* preferred node of each module
    Capable,            \* the nodes that have a module
    Limit,              \* ResourceManager: limit of each module
    MaxParallel,        \* policy: max_parallel_calls of each module, 0 for none
    Cooldown,           \* policy: whether a module has a cooldown
    Fallbacks,          \* length of the fallback chain of each module
    Threshold,          \* failures that quarantine a node
    Charged,            \* failures of each node when the calls begin
    NodeFallback,       \* node_fallback_enabled
    MaxNodeRetries      \* max_node_retries

Node == Remote \union {Local}

ASSUME NodeAssumption == IsFiniteSet(Remote) /\ Local \notin Remote /\ None \notin Node
ASSUME CallAssumption ==
    /\ IsFiniteSet(Call)
    /\ Profiles \subseteq [module : [Call -> Module],
                           mode : [Call -> {"async", "sync", "background"}],
                           target : [Call -> Node \union {None}]]
ASSUME RoutingAssumption ==
    /\ Strategies \subseteq {"local_first", "round_robin", "least_loaded", "affinity"}
    /\ Affinity \in [Module -> Node]
    /\ Capable \in [Module -> SUBSET Node]
    /\ Threshold \in Nat \ {0}
    /\ Charged \in [Remote -> 0..(Threshold - 1)]
    /\ NodeFallback \in BOOLEAN
    /\ MaxNodeRetries \in Nat
ASSUME LimitAssumption ==
    /\ Limit \in [Module -> Nat \ {0}]
    /\ MaxParallel \in [Module -> Nat]
    /\ Cooldown \in [Module -> BOOLEAN]
    /\ Fallbacks \in [Module -> Nat]

VARIABLES
    profile,    \* module, execution mode and target_node of the calls
    strategy,   \* NodeSelector._strategy
    pc,         \* where each call is
    outcome,    \* what the executor got: "ok", "error" or "timeout"
    at,         \* the node a call executes on
    sent,       \* whether that node took the action (else it raises at once)
    prim,       \* the node an async call counts in the load of, till it leaves
    tried,      \* exclude: nodes that were unreachable for this call
    todo,       \* alternate nodes still to be tried
    left,       \* fallback modules still to be tried
    loose,      \* calls with an execution that outlives the dispatch
    permits,    \* ResourceManager._semaphores
    slots,      \* PolicyState.semaphore
    cooling,    \* last_call_time is less than cooldown_seconds ago
    blocked,    \* modules the lifecycle check refuses
    load,       \* ActiveActionCounter._counts
    quarantine, \* NodeQuarantine: failure count and quarantine of each node
    avail,      \* RemoteNode._available
    registered  \* NodeRegistry._nodes

callVars == <<pc, outcome, at, sent, prim, tried, todo, left, loose>>
nodeVars == <<load, quarantine, avail, registered>>
vars == <<profile, strategy, callVars, permits, slots, cooling, blocked, nodeVars>>

NoFailures == [count |-> 0, until |-> "none"]

Init ==
    /\ profile \in Profiles
    /\ strategy \in Strategies
    /\ pc = [c \in Call |-> "idle"]
    /\ outcome = [c \in Call |-> "none"]
    /\ at = [c \in Call |-> None]
    /\ sent = [c \in Call |-> FALSE]
    /\ prim = [c \in Call |-> None]
    /\ tried = [c \in Call |-> {}]
    /\ todo = [c \in Call |-> {}]
    /\ left = [c \in Call |-> 0]
    /\ loose = {}
    /\ permits = Limit
    /\ slots = MaxParallel
    /\ cooling = {}
    /\ blocked = {}
    /\ load = [n \in Node |-> 0]
    /\ quarantine = [n \in Node |-> IF n = Local THEN NoFailures
                                    ELSE [count |-> Charged[n], until |-> "none"]]
    /\ avail \in [Remote -> BOOLEAN]
    /\ registered = Node

Mod(c) == profile.module[c]
Mode(c) == profile.mode[c]
Target(c) == profile.target[c]
-----------------------------------------------------------------------------
(* NodeQuarantine and ActiveActionCounter *)

RecordFailure(q, n) ==
    LET k == q[n].count + 1
    IN  [q EXCEPT ![n] = [count |-> k,
                          until |-> IF k >= Threshold THEN "active" ELSE @.until]]

\* Mutant: the count starts again but the node stays in quarantine.
SuccessKeepsQuarantine(q, n) == [q EXCEPT ![n].count = 0]

RecordSuccess(q, n) == [q EXCEPT ![n] = NoFailures]

\* is_quarantined, asked of the nodes S, forgets the quarantines that are over.
Purge(q, S) ==
    [n \in Node |-> IF n \in S /\ q[n].until = "over" THEN NoFailures ELSE q[n]]

Increment(l, n) == [l EXCEPT ![n] = @ + 1]
Decrement(l, n) == [l EXCEPT ![n] = IF @ > 0 THEN @ - 1 ELSE 0]
-----------------------------------------------------------------------------
(* Routing *)

\* find_capable_nodes
FindCapable(m, av) ==
    {n \in registered : n \in Capable[m] /\ (n # Local => av[n])}

\* What NodeSelector.select may return for the candidates C.
LocalFirst(C) == IF Local \in C THEN {Local} ELSE C

Select(C, m, l) ==
    CASE strategy = "local_first" -> LocalFirst(C)
      [] strategy = "round_robin" -> C
      [] strategy = "least_loaded" -> {n \in C : \A k \in C : l[n] <= l[k]}
      [] strategy = "affinity" ->
            IF Affinity[m] \in C THEN {Affinity[m]} ELSE LocalFirst(C)

\* resolve_for_action: the nodes it may return, none if it raises KeyError.
Resolve(c, q, l, av) ==
    LET m == Mod(c)
        C == {n \in FindCapable(m, av) : q[n].until # "active"}
    IN  IF Target(c) # None THEN {Target(c)} \intersect registered
        ELSE IF C = {} THEN {Local} ELSE Select(C, m, l)

\* The nodes resolve_for_action asks the quarantine about.
Asked(c, av) == IF Target(c) # None THEN {} ELSE FindCapable(Mod(c), av)

\* Call c begins execute_action on node n.
StartOn(c, n, av) ==
    /\ at' = [at EXCEPT ![c] = n]
    /\ sent' = [sent EXCEPT ![c] = n = Local \/ (av[n] /\ n \in registered)]
-----------------------------------------------------------------------------
(* Leaving: what the finally blocks and the caller of _dispatch do *)

\* release; without max_parallel_calls there is no semaphore.
ReleaseSlot(c) ==
    slots' = IF MaxParallel[Mod(c)] > 0
             THEN [slots EXCEPT ![Mod(c)] = @ + 1] ELSE slots

\* Mutant: a call that ends on an alternate node gives back only that count.
AlternateCountOnly(c) ==
    IF at[c] \in Node THEN Decrement(load, at[c]) ELSE load

\* The load without what call c still counts in it.
LoadWithout(c) ==
    LET l == IF pc[c] = "alt" THEN Decrement(load, at[c]) ELSE load
    IN  IF prim[c] = None THEN l ELSE Decrement(l, prim[c])

\* The call is over; p are the permits while it held one, which it gives back.
Finish(c, out, p) ==
    /\ pc' = [pc EXCEPT ![c] = "done"]
    /\ outcome' = [outcome EXCEPT ![c] = out]
    /\ at' = [at EXCEPT ![c] = None]
    /\ sent' = [sent EXCEPT ![c] = FALSE]
    /\ left' = [left EXCEPT ![c] = 0]
    /\ permits' = [p EXCEPT ![Mod(c)] = @ + 1]

ForgetNodes(c) ==
    /\ prim' = [prim EXCEPT ![c] = None]
    /\ tried' = [tried EXCEPT ![c] = {}]
    /\ todo' = [todo EXCEPT ![c] = {}]

\* _dispatch_with_fallback has k fallback modules left: it resolves a node for
\* the next one, or raises the original error.
NextModule(c, k, q, l, av, p) ==
    /\ load' = l
    /\ avail' = av
    /\ ForgetNodes(c)
    /\ \/ /\ k = 0 \/ Resolve(c, q, l, av) = {}
          /\ quarantine' = q
          /\ Finish(c, "error", p)
       \/ /\ k > 0
          /\ quarantine' = Purge(q, Asked(c, av))
          /\ \E n \in Resolve(c, q, l, av) : StartOn(c, n, av)
          /\ pc' = [pc EXCEPT ![c] = "fallback"]
          /\ left' = [left EXCEPT ![c] = k - 1]
          /\ permits' = p
          /\ UNCHANGED outcome

\* _dispatch raises: the fallback chain is tried from its start.
Raise(c, q, l, av, p) == NextModule(c, Fallbacks[Mod(c)], q, l, av, p)
-----------------------------------------------------------------------------
(* The way to a node *)

Submit(c) ==
    /\ pc[c] = "idle"
    /\ pc' = [pc EXCEPT ![c] = "permit"]
    /\ UNCHANGED <<profile, strategy, outcome, at, sent, prim, tried, todo, left,
                   loose, permits, slots, cooling, blocked, nodeVars>>

\* ResourceManager.acquire, then the lifecycle and the cooldown check, either of
\* which raises.
GetPermit(c) ==
    LET m == Mod(c)
        p == [permits EXCEPT ![m] = @ - 1]
    IN  /\ pc[c] = "permit"
        /\ permits[m] > 0
        /\ \/ /\ m \in blocked \union cooling
              /\ Raise(c, quarantine, load, avail, p)
           \/ /\ m \notin blocked \union cooling
              /\ pc' = [pc EXCEPT ![c] = "slot"]
              /\ permits' = p
              /\ UNCHANGED <<outcome, at, sent, prim, tried, todo, left, load,
                             quarantine, avail>>
        /\ UNCHANGED <<profile, strategy, loose, slots, cooling, blocked, registered>>

\* Mutant: one call more than max_parallel_calls.
TakeSlotTooMany(c) ==
    LET m == Mod(c)
    IN  /\ pc[c] = "slot"
        /\ MaxParallel[m] > 0 => slots[m] >= 0
        /\ cooling' = IF Cooldown[m] THEN cooling \union {m} ELSE cooling

\* check_and_acquire gets a slot of the policy, and the cooldown begins.
TakeSlot(c) ==
    LET m == Mod(c)
    IN  /\ pc[c] = "slot"
        /\ MaxParallel[m] > 0 => slots[m] > 0
        /\ cooling' = IF Cooldown[m] THEN cooling \union {m} ELSE cooling

SlotsTaken(c) ==
    IF MaxParallel[Mod(c)] > 0 THEN [slots EXCEPT ![Mod(c)] = @ - 1] ELSE slots

\* _dispatch in mode async, and _dispatch_sync, reach execute_action.
Start(c) ==
    /\ TakeSlot(c)
    /\ slots' = SlotsTaken(c)
    /\ Mode(c) # "background"
    /\ \E n \in Resolve(c, quarantine, load, avail) :
          /\ StartOn(c, n, avail)
          /\ IF Mode(c) = "async"
             THEN /\ prim' = [prim EXCEPT ![c] = n]
                  /\ load' = Increment(load, n)
             ELSE UNCHANGED <<prim, load>>
    /\ quarantine' = Purge(quarantine, Asked(c, avail))
    /\ pc' = [pc EXCEPT ![c] = "run"]
    /\ UNCHANGED <<profile, strategy, outcome, tried, todo, left, loose, permits,
                   blocked, avail, registered>>

\* The target node is not registered: the slot is taken and given back.
StartUnknownNode(c) ==
    /\ TakeSlot(c)
    /\ Mode(c) # "background"
    /\ Resolve(c, quarantine, load, avail) = {}
    /\ Raise(c, quarantine, load, avail, permits)
    /\ UNCHANGED <<profile, strategy, loose, slots, blocked, registered>>

\* _dispatch_background: a task of its own executes the action, and the call
\* returns with slot and permit given back.
StartBackground(c) ==
    /\ TakeSlot(c)
    /\ Mode(c) = "background"
    /\ loose' = loose \union {c}
    /\ Finish(c, "ok", permits)
    /\ UNCHANGED <<profile, strategy, prim, tried, todo, slots, blocked, nodeVars>>

\* Mutant: check_and_acquire is inside the try whose finally releases the slot.
SlotTimeoutReleases(c) ==
    /\ pc[c] = "slot"
    /\ MaxParallel[Mod(c)] > 0 /\ slots[Mod(c)] = 0
    /\ ReleaseSlot(c)
    /\ Raise(c, quarantine, load, avail, permits)
    /\ UNCHANGED <<profile, strategy, loose, cooling, blocked, registered>>

\* No slot within 30 seconds: PolicyViolationError.
SlotTimeout(c) ==
    /\ pc[c] = "slot"
    /\ MaxParallel[Mod(c)] > 0 /\ slots[Mod(c)] = 0
    /\ Raise(c, quarantine, load, avail, permits)
    /\ UNCHANGED <<profile, strategy, loose, slots, cooling, blocked, registered>>
-----------------------------------------------------------------------------
(* What comes back from a node *)

\* execute_action returns: in the async mode the node is no longer suspect.
Succeed(c) ==
    /\ pc[c] \in {"run", "alt", "fallback"}
    /\ sent[c]
    /\ quarantine' = IF prim[c] = None THEN quarantine ELSE RecordSuccess(quarantine, at[c])
    /\ load' = LoadWithout(c)
    /\ IF pc[c] = "fallback" THEN UNCHANGED slots ELSE ReleaseSlot(c)
    /\ ForgetNodes(c)
    /\ Finish(c, "ok", permits)
    /\ UNCHANGED <<profile, strategy, loose, cooling, blocked, avail, registered>>

\* RemoteNode: a connection that fails also marks the node as not available.
Availabilities(c) ==
    {avail} \union IF sent[c] THEN {[avail EXCEPT ![at[c]] = FALSE]} ELSE {}

\* Mutant: the node that was just unreachable is not excluded.
AlternatesWithPrimary(c, q, av) ==
    {n \in FindCapable(Mod(c), av) : q[n].until # "active"}

\* NodeUnreachableError in the async mode: the node is charged with a failure
\* and an alternate is tried.  _dispatch_with_node_fallback picks the alternates
\* when the primary fails, the nodes unreachable so far left out.
Alternates(c, q, av) ==
    {n \in FindCapable(Mod(c), av) : n # at[c] /\ q[n].until # "active"}

AtMost(k, S) ==
    {T \in SUBSET S : Cardinality(T) = IF Cardinality(S) < k THEN Cardinality(S) ELSE k}

Unreachable(c) ==
    /\ pc[c] \in {"run", "alt"} /\ prim[c] # None
    /\ at[c] # Local
    /\ \E av \in Availabilities(c) :
          LET q == RecordFailure(quarantine, at[c])
              first == pc[c] = "run"
              asked == IF first THEN FindCapable(Mod(c), av) \ {at[c]} ELSE {}
              l == IF first THEN load ELSE Decrement(load, at[c])
          IN  \E T \in (IF first THEN AtMost(MaxNodeRetries, Alternates(c, q, av))
                                 ELSE {todo[c]}) :
                \/ /\ NodeFallback /\ T # {}
                   /\ \E n \in T :
                         /\ StartOn(c, n, av)
                         /\ load' = Increment(l, n)
                         /\ todo' = [todo EXCEPT ![c] = T \ {n}]
                   /\ tried' = [tried EXCEPT ![c] = @ \union {at[c]}]
                   /\ pc' = [pc EXCEPT ![c] = "alt"]
                   /\ quarantine' = Purge(q, asked)
                   /\ avail' = av
                   /\ UNCHANGED <<outcome, prim, left, permits, slots>>
                \/ /\ ~NodeFallback \/ T = {}
                   /\ ReleaseSlot(c)
                   /\ Raise(c, IF NodeFallback THEN Purge(q, asked) ELSE q,
                            LoadWithout(c), av, permits)
    /\ UNCHANGED <<profile, strategy, loose, cooling, blocked, registered>>

\* Mutant: the slot is released where the action succeeds, not in a finally.
FailKeepsSlot(c) ==
    /\ pc[c] \in {"run", "alt"}
    /\ \E av \in (IF at[c] = Local THEN {avail} ELSE Availabilities(c)) :
          /\ prim[c] # None => sent[c] /\ av = avail
          /\ Raise(c, quarantine, LoadWithout(c), av, permits)
    /\ UNCHANGED <<profile, strategy, loose, slots, cooling, blocked, registered>>

\* Any other exception of execute_action, or any at all in the sync mode.
Fail(c) ==
    /\ pc[c] \in {"run", "alt"}
    /\ ReleaseSlot(c)
    /\ \E av \in (IF at[c] = Local THEN {avail} ELSE Availabilities(c)) :
          /\ prim[c] # None => sent[c] /\ av = avail
          /\ Raise(c, quarantine, LoadWithout(c), av, permits)
    /\ UNCHANGED <<profile, strategy, loose, cooling, blocked, registered>>

\* A fallback module fails: the next one, or the original error.
FallbackFails(c) ==
    /\ pc[c] = "fallback"
    /\ \E av \in (IF at[c] = Local THEN {avail} ELSE Availabilities(c)) :
          NextModule(c, left[c], quarantine, load, av, permits)
    /\ UNCHANGED <<profile, strategy, loose, slots, cooling, blocked, registered>>

\* The executor's wait_for cancels the call where it waits, or the plan is
\* cancelled; a thread of the sync mode goes on.
Timeout(c) ==
    /\ pc[c] \in {"permit", "slot", "run", "alt", "fallback"}
    /\ load' = LoadWithout(c)
    /\ IF pc[c] \in {"run", "alt"} THEN ReleaseSlot(c) ELSE UNCHANGED slots
    /\ ForgetNodes(c)
    /\ loose' = IF pc[c] = "run" /\ Mode(c) = "sync" THEN loose \union {c} ELSE loose
    /\ Finish(c, "timeout",
              IF pc[c] = "permit" THEN [permits EXCEPT ![Mod(c)] = @ - 1] ELSE permits)
    /\ UNCHANGED <<profile, strategy, cooling, blocked, quarantine, avail, registered>>

\* A background task or an abandoned thread ends; nobody looks at its result.
LooseEnds(c) ==
    /\ c \in loose
    /\ loose' = loose \ {c}
    /\ UNCHANGED <<profile, strategy, pc, outcome, at, sent, prim, tried, todo, left,
                   permits, slots, cooling, blocked, nodeVars>>
-----------------------------------------------------------------------------
(* Others *)

otherVars == <<profile, strategy, callVars, permits, slots>>

CooldownEnds(m) ==
    /\ m \in cooling
    /\ cooling' = cooling \ {m}
    /\ UNCHANGED <<otherVars, blocked, nodeVars>>

\* The lifecycle manager pauses, resumes, stops or starts a module.
ToggleModule(m) ==
    /\ blocked' = IF m \in blocked THEN blocked \ {m} ELSE blocked \union {m}
    /\ UNCHANGED <<otherVars, cooling, nodeVars>>

QuarantineEnds(n) ==
    /\ quarantine[n].until = "active"
    /\ quarantine' = [quarantine EXCEPT ![n].until = "over"]
    /\ UNCHANGED <<otherVars, cooling, blocked, load, avail, registered>>

\* RemoteNode.heartbeat, of the health monitor or the API.
Heartbeat(n) ==
    /\ n \in registered
    /\ avail' = [avail EXCEPT ![n] = ~@]
    /\ UNCHANGED <<otherVars, cooling, blocked, load, quarantine, registered>>

Unregister(n) ==
    /\ n \in registered
    /\ registered' = registered \ {n}
    /\ UNCHANGED <<otherVars, cooling, blocked, load, quarantine, avail>>

CallStep(c) ==
    \/ Submit(c) \/ GetPermit(c)
    \/ Start(c) \/ StartUnknownNode(c) \/ StartBackground(c) \/ SlotTimeout(c)
    \/ Succeed(c) \/ Unreachable(c) \/ Fail(c) \/ FallbackFails(c)
    \/ Timeout(c) \/ LooseEnds(c)

\* They matter as long as there is a call left.
Others ==
    /\ \E c \in Call : pc[c] # "done"
    /\ \/ \E m \in Module : CooldownEnds(m) \/ ToggleModule(m)
       \/ \E n \in Remote : QuarantineEnds(n) \/ Heartbeat(n) \/ Unregister(n)

Next == (\E c \in Call : CallStep(c)) \/ Others

\* An execution ends, by itself or cut off by the timeout every action has; the
\* semaphores serve their waiters in turn.
Ends(c) ==
    /\ pc[c] \in {"run", "alt", "fallback"}
    /\ Succeed(c) \/ Unreachable(c) \/ Fail(c) \/ FallbackFails(c) \/ Timeout(c)

Progress(c) ==
    Ends(c) \/ GetPermit(c) \/ Start(c) \/ StartUnknownNode(c) \/ StartBackground(c)

Fairness == \A c \in Call : SF_vars(Progress(c))

Spec == Init /\ [][Next]_vars /\ Fairness
-----------------------------------------------------------------------------
(* Properties *)

TypeOK ==
    /\ profile \in Profiles
    /\ strategy \in Strategies
    /\ pc \in [Call -> {"idle", "permit", "slot", "run", "alt", "fallback", "done"}]
    /\ outcome \in [Call -> {"none", "ok", "error", "timeout"}]
    /\ at \in [Call -> Node \union {None}]
    /\ sent \in [Call -> BOOLEAN]
    /\ prim \in [Call -> Node \union {None}]
    /\ tried \in [Call -> SUBSET Node]
    /\ todo \in [Call -> SUBSET Node]
    /\ left \in [Call -> Nat]
    /\ loose \subseteq Call
    /\ permits \in [Module -> Nat]
    /\ slots \in [Module -> Nat]
    /\ cooling \subseteq Module
    /\ blocked \subseteq Module
    /\ load \in [Node -> Nat]
    /\ quarantine \in [Node -> [count : Nat, until : {"none", "active", "over"}]]
    /\ avail \in [Remote -> BOOLEAN]
    /\ registered \in SUBSET Node

PermitHolders(m) ==
    {c \in Call : Mod(c) = m /\ pc[c] \in {"slot", "run", "alt", "fallback"}}

SlotHolders(m) == {c \in Call : Mod(c) = m /\ pc[c] \in {"run", "alt"}}

\* Whatever way a dispatch ends - result, error, refusal by lifecycle or policy,
\* fallback, timeout in any of its awaits - its permit and its slot are given
\* back, once: the semaphores always have what the calls under way left.
LimitsAccounted ==
    \A m \in Module :
        /\ permits[m] = Limit[m] - Cardinality(PermitHolders(m))
        /\ MaxParallel[m] > 0 => slots[m] = MaxParallel[m] - Cardinality(SlotHolders(m))

\* The async calls that count for node n: with n as the node they were routed to,
\* which they count for until they leave, or as the alternate they are trying.
CallsOn(n) ==
    {c \in Call : prim[c] = n} \union {c \in Call : pc[c] = "alt" /\ at[c] = n}

\* The load the selector compares is the number of calls at a node, so the lower
\* bound of decrement never hides a count that was given back twice.
LoadAccounted == \A n \in Node : load[n] = Cardinality(CallsOn(n))

\* A node is in quarantine, running or not yet noticed to be over, exactly when
\* its failures reached the threshold: neither a late success of another call
\* nor an expiry leaves one without the other.  The local node never is.
QuarantineMatchesFailures ==
    /\ \A n \in Node : quarantine[n].until # "none" <=> quarantine[n].count >= Threshold
    /\ quarantine[Local] = NoFailures

\* While a call goes through alternate nodes, no node gets its action twice, and
\* at most max_node_retries do besides the first.
EachNodeOnce ==
    \A c \in Call : pc[c] = "alt" =>
        /\ prim[c] \in tried[c]
        /\ at[c] \notin tried[c] \union todo[c]
        /\ tried[c] \intersect todo[c] = {}
        /\ Cardinality(tried[c] \union todo[c]) <= MaxNodeRetries

Permits == INSTANCE Limiter WITH
    User <- Call, Section <- Module, Limit <- Limit,
    inUse <- [m \in Module |-> PermitHolders(m)]

Slots == INSTANCE Limiter WITH
    User <- Call, Section <- Module, Limit <- MaxParallel,
    inUse <- [m \in Module |-> SlotHolders(m)]

\* The calls of a module that hold a permit, and those that hold a slot of its
\* policy, come and go one by one and never exceed the limit.
ImplementsLimiter == Permits!Spec /\ Slots!Spec

\* Every dispatch ends, the waits for permit and slot included.
DispatchEnds == \A c \in Call : pc[c] = "permit" ~> pc[c] = "done"
=============================================================================
