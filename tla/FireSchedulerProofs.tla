------------------------ MODULE FireSchedulerProofs ------------------------
(***************************************************************************)
(* Proofs about FireScheduler for any triggers, limits and number of       *)
(* fires.                                                                  *)
(***************************************************************************)
EXTENDS FireScheduler, FiniteSetTheorems, TLAPS

\* The fires that have left the queue to be submitted.
Taken == running \cup ({item} \ {NoItem})

\* Every fire was stamped before the next number is drawn.
Stamped == \A f \in queue \cup Taken : f.seq < sequence

\* What _loop found before it called the submit callback still holds while
\* it waits for it: there is room, and no plan of a trigger that rejects.
RoomForItem ==
    item # NoItem => Cardinality(running) < MaxConcurrent /\ ~ Rejected(item)

SchedulerInv ==
    /\ TypeOK
    /\ IsFiniteSet(running)
    /\ Stamped
    /\ RoomForItem
    /\ RejectRunsOnce
    /\ UrgentFirst
    /\ FifoWithinPriority

\* The priority of a fire is a number.
LEMMA PriorityIsNat ==
    ASSUME NEW f \in Fire
    PROVE  Priority(f) \in Nat /\ f.trigger \in Trigger /\ f.seq \in Nat
  BY InfoAssumption, BoundAssumption DEF Priority, Fire, TriggerType

\* A scheduler that was just started satisfies the invariant.
LEMMA InitScheduler == Init => SchedulerInv
<1> SUFFICES ASSUME Init PROVE SchedulerInv
  OBVIOUS
<1>1. TypeOK /\ IsFiniteSet(running)
  <2>1. IsFiniteSet(running) /\ Cardinality(running) = 0
    BY FS_EmptySet, Zenon DEF Init
  <2>2. Cardinality(running) <= MaxConcurrent
    BY <2>1, BoundAssumption
  <2>3. sequence \in 0..MaxFires /\ recorded \in [Trigger -> Nat]
    BY BoundAssumption DEF Init
  <2>4. wake \in BOOLEAN
    BY DEF Init
  <2>5. loop \in {"wait", "take", "submit"} /\ (loop = "submit" <=> item # NoItem)
    BY DEF Init
  <2> QED
    BY <2>1, <2>2, <2>3, <2>4, <2>5 DEF Init, TypeOK
<1> QED
  BY <1>1 DEF Init, SchedulerInv, Stamped, Taken, RoomForItem, RejectRunsOnce, UrgentFirst,
              FifoWithinPriority

\* A new fire is younger than all others, so it disturbs no order.
LEMMA EnqueueInv ==
    ASSUME SchedulerInv, NEW t \in Trigger, Enqueue(t)
    PROVE  SchedulerInv'
<1> DEFINE new == [trigger |-> t, seq |-> sequence]
<1>0. new \in Fire /\ sequence \in Nat /\ queue' = queue \cup {new}
  BY BoundAssumption DEF Enqueue, Fire, SchedulerInv, TypeOK
<1>1. TypeOK'
  BY <1>0, BoundAssumption DEF SchedulerInv, TypeOK, Enqueue
<1>2. Stamped'
  BY <1>0, PriorityIsNat DEF SchedulerInv, TypeOK, Enqueue, Stamped, Taken
<1>3. RoomForItem' /\ RejectRunsOnce' /\ IsFiniteSet(running)'
  BY DEF SchedulerInv, Enqueue, RoomForItem, RejectRunsOnce, Rejected, HasRunningFor
<1>4. UrgentFirst'
  BY <1>0, PriorityIsNat DEF SchedulerInv, TypeOK, Enqueue, UrgentFirst, Stamped, Taken, Priority
<1>5. FifoWithinPriority'
  BY <1>0 DEF SchedulerInv, Enqueue, FifoWithinPriority, Stamped, Taken, Priority
<1> QED
  BY <1>1, <1>2, <1>3, <1>4, <1>5 DEF SchedulerInv

\* The fire that is taken is the head of the queue: more urgent or older
\* than all that stay.
LEMMA TakeInv ==
    ASSUME SchedulerInv, NEW f \in queue, TakeFire(f)
    PROVE  SchedulerInv'
<1>0. f \in Fire /\ f # NoItem /\ item = NoItem
  BY NoItemAssumption DEF SchedulerInv, TypeOK, TakeFire
<1>1. TypeOK'
  BY <1>0 DEF SchedulerInv, TypeOK, TakeFire
<1>2. Stamped'
  BY <1>0 DEF SchedulerInv, TakeFire, Stamped, Taken
<1>3. RoomForItem'
  <2>1. Cardinality(running) < MaxConcurrent
    BY FS_CardinalityType, BoundAssumption DEF SchedulerInv, TakeFire, Full
  <2> QED
    BY <2>1 DEF TakeFire, RoomForItem, Rejected, HasRunningFor
<1>4. RejectRunsOnce' /\ IsFiniteSet(running)'
  BY DEF SchedulerInv, TakeFire, RejectRunsOnce
<1>5. \A g \in queue' : Before(f, g) /\ g \in Fire
  BY DEF TakeFire, IsHead, SchedulerInv, TypeOK
<1>6. UrgentFirst'
  BY <1>0, <1>5, PriorityIsNat DEF TakeFire, UrgentFirst, Before
<1>7. FifoWithinPriority'
  <2> SUFFICES ASSUME NEW d \in running \cup {f}, NEW g \in queue', Priority(d) = Priority(g)
               PROVE  d.seq < g.seq
    BY <1>0 DEF FifoWithinPriority, TakeFire, Priority
  <2>1. CASE d = f
    BY <2>1, <1>0, <1>5, PriorityIsNat DEF Before
  <2>2. CASE d \in running
    BY <2>2 DEF SchedulerInv, FifoWithinPriority, TakeFire
  <2> QED
    BY <2>1, <2>2
<1> QED
  BY <1>1, <1>2, <1>3, <1>4, <1>6, <1>7 DEF SchedulerInv

\* The plan id arrives: the room that was found is used.
LEMMA SubmittedInv ==
    ASSUME SchedulerInv, Submitted
    PROVE  SchedulerInv'
<1>0. /\ item \in Fire /\ item # NoItem
      /\ running' = running \cup {item} /\ queue' = queue /\ item' = NoItem
      /\ Taken' = Taken
  BY DEF SchedulerInv, TypeOK, Submitted, Taken
<1>1. IsFiniteSet(running') /\ Cardinality(running') <= MaxConcurrent
  <2>1. Cardinality(running) \in Nat /\ Cardinality(running) < MaxConcurrent
    BY <1>0, FS_CardinalityType DEF SchedulerInv, RoomForItem
  <2> QED
    BY <1>0, <2>1, FS_AddElement, BoundAssumption DEF SchedulerInv
<1>2. TypeOK'
  BY <1>0, <1>1, PriorityIsNat DEF SchedulerInv, TypeOK, Submitted
<1>3. Stamped'
  BY <1>0 DEF SchedulerInv, Stamped, Submitted
<1>4. RejectRunsOnce'
  BY <1>0 DEF SchedulerInv, RejectRunsOnce, RoomForItem, Rejected, HasRunningFor
<1>5. FifoWithinPriority'
  BY <1>0 DEF SchedulerInv, FifoWithinPriority, Taken, Priority
<1> QED
  BY <1>0, <1>1, <1>2, <1>3, <1>4, <1>5 DEF SchedulerInv, RoomForItem, UrgentFirst

\* The steps that only take away: fires, recorded times, the item.
LEMMA OtherInv ==
    ASSUME SchedulerInv,
           \/ LoopWakes \/ LoopWaits \/ NotSubmitted
           \/ \E f \in queue : RejectFire(f)
           \/ \E t \in Trigger : Age(t)
           \/ UNCHANGED vars
    PROVE  SchedulerInv'
<1>0. /\ queue' \subseteq queue /\ running' = running /\ sequence' = sequence
      /\ item' \in {item, NoItem}
  BY DEF LoopWakes, LoopWaits, NotSubmitted, RejectFire, Age, vars
<1>1. TypeOK'
  <2>1. recorded' \in [Trigger -> Nat]
    BY DEF SchedulerInv, TypeOK, LoopWakes, LoopWaits, NotSubmitted, RejectFire, Age, vars
  <2>2. /\ wake' \in BOOLEAN /\ loop' \in {"wait", "take", "submit"}
        /\ loop' = "submit" <=> item' # NoItem
    BY DEF SchedulerInv, TypeOK, LoopWakes, LoopWaits, NotSubmitted, RejectFire, Age, vars
  <2> QED
    BY <1>0, <2>1, <2>2 DEF SchedulerInv, TypeOK
<1>2. Stamped' /\ FifoWithinPriority'
  BY <1>0 DEF SchedulerInv, Stamped, Taken, FifoWithinPriority, Priority
<1>3. RoomForItem' /\ RejectRunsOnce' /\ UrgentFirst' /\ IsFiniteSet(running)'
  BY <1>0 DEF SchedulerInv, RoomForItem, RejectRunsOnce, UrgentFirst, Rejected, HasRunningFor,
              Priority
<1> QED
  BY <1>1, <1>2, <1>3 DEF SchedulerInv

\* The inductive invariant of the scheduler: the checks _loop makes before
\* the submit callback are still true after it.
THEOREM SchedulerInvariant == Spec => []SchedulerInv
<1>1. SchedulerInv /\ [Next]_vars => SchedulerInv'
  BY EnqueueInv, TakeInv, SubmittedInv, OtherInv DEF Next, LoopStep
<1> QED
  BY InitScheduler, <1>1, PTL DEF Spec

\* At most max_concurrent plans run, whatever fires during a submission.
THEOREM SchedulerTypeCorrect == Spec => []TypeOK
  BY SchedulerInvariant, PTL DEF SchedulerInv

\* A trigger that rejects has at most one plan.
THEOREM RejectedOnce == Spec => []RejectRunsOnce
  BY SchedulerInvariant, PTL DEF SchedulerInv

\* What is submitted was the most urgent.
THEOREM MostUrgentFirst == Spec => []UrgentFirst
  BY SchedulerInvariant, PTL DEF SchedulerInv

\* Within a priority fires are submitted in the order they came.
THEOREM FirstInFirstOut == Spec => []FifoWithinPriority
  BY SchedulerInvariant, PTL DEF SchedulerInv
=============================================================================
