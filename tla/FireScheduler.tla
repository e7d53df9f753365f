--------------------------- MODULE FireScheduler ---------------------------
(***************************************************************************)
(* PriorityFireScheduler (triggers/scheduler.py): fires of triggers wait   *)
(* in a heap until the loop submits them, one after the other.             *)
(*                                                                         *)
(* The submission is the SubmitCallback of the scheduler's contract: an    *)
(* await of any length, during which triggers fire, that ends with a plan  *)
(* id or without one (None, or an exception the loop logs).  A plan is     *)
(* identified with the fire it was submitted for.                          *)
(*                                                                         *)
(* on_plan_completed has no caller in the repository, so it is no action.  *)
(* Preemption is left out: it compares the priority of a trigger with the  *)
(* one its own plans were entered with and so never cancels anything.      *)
(***************************************************************************)
EXTENDS Naturals, FiniteSets

CONSTANTS
    Trigger,        \* the triggers that fire
    Info,           \* their priority, conflict_policy and max_fires_per_hour
    MaxConcurrent,  \* max_concurrent
    MaxFires,       \* bound on the fires that are queued
    NoItem

TriggerType ==
    [priority : 0..4, policy : {"queue", "preempt", "reject"}, perHour : Nat]

\* A _QueuedFire: the priority is that of its trigger.
Fire == [trigger : Trigger, seq : 0..(MaxFires - 1)]

ASSUME InfoAssumption == Info \in [Trigger -> TriggerType]
ASSUME BoundAssumption == MaxConcurrent \in Nat /\ MaxFires \in Nat
ASSUME NoItemAssumption == NoItem \notin Fire

VARIABLES
    queue,      \* _heap, as the set of its fires
    sequence,   \* _sequence
    wake,       \* _work_available
    loop,       \* where _loop is: "wait", "take" (the inner while), "submit"
    item,       \* the fire that is being submitted
    running,    \* _running, as the set of the fires the plans came from
    recorded    \* how many _fire_times of each trigger are less than an hour old

vars == <<queue, sequence, wake, loop, item, running, recorded>>

Priority(f) == Info[f.trigger].priority

Init ==
    /\ queue = {}
    /\ sequence = 0
    /\ wake = FALSE
    /\ loop = "wait"
    /\ item = NoItem
    /\ running = {}
    /\ recorded = [t \in Trigger |-> 0]

\* _check_rate
CheckRate(t) == Info[t].perHour = 0 \/ recorded[t] < Info[t].perHour

\* enqueue; a fire above the rate is dropped without a trace.
Enqueue(t) ==
    /\ sequence < MaxFires
    /\ CheckRate(t)
    /\ queue' = queue \cup {[trigger |-> t, seq |-> sequence]}
    /\ sequence' = sequence + 1
    /\ wake' = TRUE
    /\ UNCHANGED <<loop, item, running, recorded>>

\* Mutant: one plan too many.
FullOffByOne == Cardinality(running) > MaxConcurrent

Full == Cardinality(running) >= MaxConcurrent

\* Mutant: the priority is not negated.
BeforeNotNegated(f, g) ==
    \/ Priority(f) < Priority(g)
    \/ Priority(f) = Priority(g) /\ f.seq < g.seq

\* Mutant: the tie-breaker takes the newest.
BeforeNewest(f, g) ==
    \/ Priority(f) > Priority(g)
    \/ Priority(f) = Priority(g) /\ f.seq > g.seq

\* The order of _QueuedFire: neg_priority, then sequence.
Before(f, g) ==
    \/ Priority(f) > Priority(g)
    \/ Priority(f) = Priority(g) /\ f.seq < g.seq

IsHead(f) == f \in queue /\ \A g \in queue \ {f} : Before(f, g)

HasRunningFor(t) == \E f \in running : f.trigger = t

LoopWakes ==
    /\ loop = "wait"
    /\ wake
    /\ wake' = FALSE
    /\ loop' = "take"
    /\ UNCHANGED <<queue, sequence, item, running, recorded>>

LoopWaits ==
    /\ loop = "take"
    /\ Full \/ queue = {}
    /\ loop' = "wait"
    /\ UNCHANGED <<queue, sequence, wake, item, running, recorded>>

Rejected(f) == Info[f.trigger].policy = "reject" /\ HasRunningFor(f.trigger)

\* heappop of a fire that the conflict policy of its trigger discards.
RejectFire(f) ==
    /\ loop = "take" /\ ~ Full
    /\ IsHead(f)
    /\ Rejected(f)
    /\ queue' = queue \ {f}
    /\ UNCHANGED <<sequence, wake, loop, item, running, recorded>>

\* Mutant: the reject policy is not looked at.
TakeAnyFire(f) ==
    /\ loop = "take" /\ ~ Full
    /\ IsHead(f)
    /\ queue' = queue \ {f}
    /\ item' = f
    /\ loop' = "submit"
    /\ UNCHANGED <<sequence, wake, running, recorded>>

\* heappop, and the call of the submit callback.
TakeFire(f) ==
    /\ loop = "take" /\ ~ Full
    /\ IsHead(f)
    /\ ~ Rejected(f)
    /\ queue' = queue \ {f}
    /\ item' = f
    /\ loop' = "submit"
    /\ UNCHANGED <<sequence, wake, running, recorded>>

\* The callback returns a plan id.
Submitted ==
    /\ loop = "submit"
    /\ running' = running \cup {item}
    /\ recorded' = [recorded EXCEPT ![item.trigger] = @ + 1]
    /\ item' = NoItem
    /\ loop' = "take"
    /\ UNCHANGED <<queue, sequence, wake>>

\* Mutant: a failed submission leaves the inner loop.
NotSubmittedBreaks ==
    /\ loop = "submit"
    /\ item' = NoItem
    /\ loop' = "wait"
    /\ UNCHANGED <<queue, sequence, wake, running, recorded>>

\* The callback returns None or raises.
NotSubmitted ==
    /\ loop = "submit"
    /\ item' = NoItem
    /\ loop' = "take"
    /\ UNCHANGED <<queue, sequence, wake, running, recorded>>

\* The oldest of a trigger's _fire_times is an hour old.
Age(t) ==
    /\ recorded[t] > 0
    /\ recorded' = [recorded EXCEPT ![t] = @ - 1]
    /\ UNCHANGED <<queue, sequence, wake, loop, item, running>>

LoopStep ==
    \/ LoopWakes \/ LoopWaits \/ Submitted \/ NotSubmitted
    \/ \E f \in queue : RejectFire(f) \/ TakeFire(f)

Next == LoopStep \/ \E t \in Trigger : Enqueue(t) \/ Age(t)

\* The event loop keeps resuming _loop, and what it awaits ends.
Fairness == WF_vars(LoopStep)

Spec == Init /\ [][Next]_vars /\ Fairness

-----------------------------------------------------------------------------
\* The types; in particular no more than max_concurrent plans count as
\* running, although the limit is checked before the await of the submission
\* and the plan entered after it (scheduler.py, _loop).
TypeOK ==
    /\ queue \subseteq Fire
    /\ sequence \in 0..MaxFires
    /\ wake \in BOOLEAN
    /\ loop \in {"wait", "take", "submit"}
    /\ item \in Fire \cup {NoItem}
    /\ loop = "submit" <=> item # NoItem
    /\ running \subseteq Fire
    /\ Cardinality(running) <= MaxConcurrent
    /\ recorded \in [Trigger -> Nat]

\* A trigger with the policy "reject" never has two plans, although its
\* fires are queued without a look at what runs or is being submitted
\* (scheduler.py, _loop and _has_running_for).
RejectRunsOnce ==
    \A f, g \in running : f.trigger = g.trigger /\ Info[f.trigger].policy = "reject" => f = g

\* The fire that is being submitted was the most urgent: what has waited
\* longer in the queue has a lower priority (scheduler.py, _QueuedFire).
UrgentFirst ==
    item # NoItem =>
        \A f \in queue : f.seq < item.seq => Priority(f) < Priority(item)

\* Within a priority fires leave the queue in the order they came, over the
\* whole life of the scheduler: no fire still waits that is older than one
\* that was submitted (scheduler.py, _QueuedFire.sequence).
FifoWithinPriority ==
    \A f \in running \cup ({item} \ {NoItem}), g \in queue :
        Priority(f) = Priority(g) => f.seq < g.seq

\* No lost wake-up: the fire at the head of the queue leaves it, or a more
\* urgent one takes its place, unless the scheduler is full (_work_available
\* is set by enqueue and cleared by _loop before it looks at the heap).
QueueMoves ==
    \A f \in Fire : IsHead(f) ~> ~ IsHead(f) \/ Full

\* on_plan_completed is "Called by TriggerDaemon when a triggered plan
\* finishes" and makes room for "queued items": a fire does not stay at the
\* head of the queue for ever.  Nothing calls it, so it does.
QueueDrains ==
    \A f \in Fire : IsHead(f) ~> ~ IsHead(f)
=============================================================================
