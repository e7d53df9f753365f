-------------------------- MODULE DagSchedulerProofs --------------------------
(***************************************************************************)
(* Proofs about DagScheduler for any plan and any of its modes: the waves, *)
(* and that the guard against nodes without a ready one is dead code.      *)
(***************************************************************************)
EXTENDS DagScheduler, FiniteSetTheorems, SequenceTheorems, TLAPS

WaveType == [actions : SUBSET Action, final : BOOLEAN]

\* The actions of the waves before the k-th.
Before(k) == UNION {Wave(j) : j \in 1..(k - 1)}

\* What has left the graph: the actions of the waves, each once, and with an
\* action everything it depends on.
Partition ==
    /\ \A a \in Action : a \in nodes <=> \A k \in DOMAIN waves : a \notin Wave(k)
    /\ \A k, l \in DOMAIN waves : k # l => Wave(k) \cap Wave(l) = {}
    /\ \A c \in Action \ nodes : dep[c] \subseteq Action \ nodes

\* What an action of a wave depends on is in the waves before.
UpstreamBefore ==
    \A k \in DOMAIN waves : \A a \in Wave(k) : Ancestors(dep, a) \subseteq Before(k)

\* Outside sequential mode what was not ready for the last wave waited for an
\* action that is in it, or in the graph still.
NoneForgotten ==
    mode # "sequential" =>
        \A a \in nodes : waves # <<>> => dep[a] \cap (nodes \union Wave(Len(waves))) # {}

SchedulerInv ==
    /\ TypeOK
    /\ Partition
    /\ UpstreamBefore
    /\ NoneForgotten
    /\ ParallelIsEarliest

\* The least set that is closed under dep is in every one that is.
LEMMA AncestorsLeast ==
    ASSUME NEW d \in Graph, NEW a \in Action, NEW S \in SUBSET Action,
           d[a] \subseteq S, \A c \in S : d[c] \subseteq S
    PROVE  Ancestors(d, a) \subseteq S
BY DEF Ancestors

\* A wave consists of nodes that wait for no node; in the modes that are not
\* sequential, of all of them.
LEMMA WavesAreReady ==
    ASSUME NEW d, NEW N, NEW m, NEW W \in NextWaves(d, N, m)
    PROVE  /\ W \subseteq N
           /\ \A a \in W : d[a] \cap N = {}
           /\ m # "sequential" => \A a \in N \ W : d[a] \cap N # {}
BY DEF NextWaves, Ready

\* The invariant does not look at pc otherwise than for its type.
LEMMA InvWithoutPc ==
    ASSUME SchedulerInv, UNCHANGED <<dep, mode, nodes, waves>>,
           pc' \in {"build", "waves", "done", "cycle", "stuck"}
    PROVE  SchedulerInv'
BY DEF SchedulerInv, TypeOK, Partition, UpstreamBefore, NoneForgotten, ParallelIsEarliest,
       Wave, Before

\* One wave.
LEMMA YieldKeepsInv ==
    ASSUME SchedulerInv, YieldWave
    PROVE  SchedulerInv'
<1>0. PICK K \in Nat : K = Len(waves)
  <2>1. Len(waves) \in Nat
    BY LenProperties DEF SchedulerInv, TypeOK
  <2> QED BY <2>1
<1>1. PICK W \in NextWaves(dep, nodes, mode) :
         /\ W # {}
         /\ nodes' = nodes \ W
         /\ waves' = Append(waves, [actions |-> W, final |-> nodes = W])
  BY DEF YieldWave
<1>2. UNCHANGED <<dep, mode, pc>>
  BY DEF YieldWave
<1>3. /\ dep \in Graph /\ nodes \in SUBSET Action /\ waves \in Seq(WaveType)
      /\ mode \in Mode /\ pc \in {"build", "waves", "done", "cycle", "stuck"}
      /\ \A k \in DOMAIN waves : waves[k].final <=> (k = K /\ nodes = {})
  BY <1>0 DEF SchedulerInv, TypeOK, WaveType
<1>4. /\ W \subseteq nodes
      /\ \A a \in W : dep[a] \cap nodes = {}
      /\ mode # "sequential" => \A a \in nodes \ W : dep[a] \cap nodes # {}
  BY <1>1, WavesAreReady
<1>5. [actions |-> W, final |-> nodes = W] \in WaveType
  BY <1>3, <1>4 DEF WaveType
<1>6. /\ K \in Nat /\ DOMAIN waves = 1..K
      /\ waves' \in Seq(WaveType) /\ Len(waves') = K + 1 /\ DOMAIN waves' = 1..(K + 1)
      /\ \A k \in 1..K : waves'[k] = waves[k]
      /\ waves'[K + 1] = [actions |-> W, final |-> nodes = W]
  <2>1. K \in Nat /\ DOMAIN waves = 1..K
    BY <1>0, <1>3, LenProperties
  <2>2. /\ waves' \in Seq(WaveType) /\ Len(waves') = K + 1
        /\ \A k \in 1..K : waves'[k] = waves[k]
        /\ waves'[K + 1] = [actions |-> W, final |-> nodes = W]
    BY <1>0, <1>1, <1>3, <1>5, AppendProperties
  <2>3. DOMAIN waves' = 1..(K + 1)
    BY <2>2, LenProperties
  <2> QED BY <2>1, <2>2, <2>3
<1>7. /\ \A k \in 1..K : Wave(k)' = Wave(k)
      /\ Wave(K + 1)' = W
      /\ waves' # <<>>
  BY <1>6, EmptySeq DEF Wave
<1>8. \A k \in 1..(K + 1) : Before(k)' = Before(k)
  <2> SUFFICES ASSUME NEW k \in 1..(K + 1) PROVE Before(k)' = Before(k)
    OBVIOUS
  <2>1. \A j \in 1..(k - 1) : j \in 1..K
    BY <1>6
  <2>2. \A j \in 1..(k - 1) : Wave(j)' = Wave(j)
    BY <1>7, <2>1
  <2> QED BY <2>2 DEF Before
<1>9. TypeOK'
  <2>1. ASSUME NEW k \in DOMAIN waves'
        PROVE  waves'[k].final <=> (k = Len(waves') /\ nodes' = {})
    <3>1. CASE k \in 1..K
      BY <1>1, <1>3, <1>4, <1>6, <3>1
    <3>2. CASE k = K + 1
      <4>1. nodes' = {} <=> nodes = W
        BY <1>1, <1>4
      <4>2. waves'[k].final = (nodes = W)
        BY <1>6, <3>2
      <4>3. k = Len(waves')
        BY <1>6, <3>2
      <4> QED BY <4>1, <4>2, <4>3, Zenon
    <3> QED BY <1>6, <2>1, <3>1, <3>2
  <2> QED BY <1>1, <1>2, <1>3, <1>6, <2>1 DEF TypeOK, WaveType
<1>10. Partition'
  <2>1. ASSUME NEW a \in Action
        PROVE  a \in nodes' <=> \A k \in DOMAIN waves' : a \notin Wave(k)'
    <3>1. a \in nodes <=> \A k \in 1..K : a \notin Wave(k)
      BY <1>6 DEF SchedulerInv, Partition
    <3>2. (\A k \in 1..(K + 1) : a \notin Wave(k)') <=>
              (\A k \in 1..K : a \notin Wave(k)) /\ a \notin W
      BY <1>6, <1>7
    <3> QED BY <1>1, <1>6, <3>1, <3>2
  <2>2. \A k \in 1..K : Wave(k) \cap W = {}
    BY <1>3, <1>4, <1>6 DEF SchedulerInv, Partition
  <2>3. ASSUME NEW k \in DOMAIN waves', NEW l \in DOMAIN waves', k # l
        PROVE  Wave(k)' \cap Wave(l)' = {}
    <3>1. \A m \in DOMAIN waves' : m \in 1..K \/ m = K + 1
      BY <1>6
    <3>2. CASE k \in 1..K /\ l \in 1..K
      BY <1>6, <1>7, <2>3, <3>2 DEF SchedulerInv, Partition
    <3>3. CASE k \in 1..K /\ l = K + 1
      BY <1>7, <2>2, <3>3
    <3>4. CASE k = K + 1 /\ l \in 1..K
      BY <1>7, <2>2, <3>4
    <3> QED BY <2>3, <3>1, <3>2, <3>3, <3>4
  <2>4. ASSUME NEW c \in Action \ nodes'
        PROVE  dep[c] \subseteq Action \ nodes'
    <3>1. CASE c \in Action \ nodes
      BY <1>1, <3>1 DEF SchedulerInv, Partition
    <3>2. CASE c \in W
      BY <1>1, <1>3, <1>4, <3>2 DEF Graph
    <3> QED BY <1>1, <2>4, <3>1, <3>2
  <2> QED BY <1>2, <2>1, <2>3, <2>4 DEF Partition
<1>11. UpstreamBefore'
  <2> SUFFICES ASSUME NEW k \in 1..(K + 1), NEW a \in Wave(k)'
               PROVE  Ancestors(dep, a) \subseteq Before(k)
    BY <1>2, <1>6, <1>8 DEF UpstreamBefore
  <2>1. CASE k \in 1..K
    BY <1>6, <1>7, <2>1 DEF SchedulerInv, UpstreamBefore
  <2>2. CASE k = K + 1
    <3>1. a \in W /\ a \in Action
      BY <1>3, <1>4, <1>7, <2>2
    <3>2. dep[a] \subseteq Action \ nodes
      BY <1>3, <1>4, <3>1 DEF Graph
    <3>3. \A c \in Action \ nodes : dep[c] \subseteq Action \ nodes
      BY DEF SchedulerInv, Partition
    <3>4. Ancestors(dep, a) \subseteq Action \ nodes
      BY <1>3, <3>1, <3>2, <3>3, AncestorsLeast
    <3>5. Action \ nodes \subseteq Before(K + 1)
      <4>1. \A c \in Action \ nodes : \E j \in 1..K : c \in Wave(j)
        BY <1>6 DEF SchedulerInv, Partition
      <4>2. 1..((K + 1) - 1) = 1..K
        BY <1>6
      <4> QED BY <4>1, <4>2 DEF Before
    <3> QED BY <2>2, <3>4, <3>5
  <2> QED BY <1>6, <2>1, <2>2
<1>12. NoneForgotten'
  BY <1>1, <1>2, <1>4, <1>6, <1>7 DEF NoneForgotten
<1>13. ParallelIsEarliest'
  <2> SUFFICES ASSUME mode # "sequential", NEW k \in 2..(K + 1), NEW a \in Wave(k)'
               PROVE  dep[a] \cap Wave(k - 1)' # {}
    BY <1>2, <1>6 DEF ParallelIsEarliest
  <2>1. CASE k \in 2..K
    <3>1. k \in 1..K /\ k - 1 \in 1..K
      BY <2>1
    <3>2. Wave(k)' = Wave(k) /\ Wave(k - 1)' = Wave(k - 1)
      BY <1>7, <3>1
    <3> QED BY <1>0, <2>1, <3>2 DEF SchedulerInv, ParallelIsEarliest
  <2>2. CASE k = K + 1
    <3>1. waves # <<>> /\ K \in 1..K /\ Wave(k - 1)' = Wave(K)
      BY <1>0, <1>6, <1>7, <2>2, EmptySeq
    <3>2. a \in W /\ a \in nodes /\ dep[a] \cap nodes = {}
      BY <1>4, <1>7, <2>2
    <3>3. dep[a] \cap (nodes \union Wave(K)) # {}
      BY <1>0, <3>1, <3>2 DEF SchedulerInv, NoneForgotten
    <3> QED BY <3>1, <3>2, <3>3
  <2> QED BY <1>6, <2>1, <2>2
<1> QED
  BY <1>9, <1>10, <1>11, <1>12, <1>13 DEF SchedulerInv

\* The invariant of the generator, for any plan.
THEOREM SchedulerInvariant == Spec => []SchedulerInv
<1>1. Init => SchedulerInv
  <2> SUFFICES ASSUME Init PROVE SchedulerInv
    OBVIOUS
  <2>1. DOMAIN waves = {} /\ Len(waves) = 0 /\ waves \in Seq(WaveType)
    BY EmptySeq, LenProperties DEF Init
  <2>2. TypeOK
    BY <2>1 DEF Init, TypeOK, WaveType
  <2> QED
    BY <2>1, <2>2 DEF Init, SchedulerInv, Partition, UpstreamBefore, NoneForgotten,
                      ParallelIsEarliest
<1>2. SchedulerInv /\ [Next]_vars => SchedulerInv'
  <2> SUFFICES ASSUME SchedulerInv, [Next]_vars PROVE SchedulerInv'
    OBVIOUS
  <2>1. CASE BuildGraph
    BY <2>1, InvWithoutPc DEF BuildGraph
  <2>2. CASE YieldWave
    BY <2>2, YieldKeepsInv
  <2>3. CASE Stop
    BY <2>3, InvWithoutPc DEF Stop
  <2>4. CASE UNCHANGED vars
    BY <2>4, InvWithoutPc DEF vars, SchedulerInv, TypeOK
  <2> QED BY <2>1, <2>2, <2>3, <2>4 DEF Next
<1> QED
  BY <1>1, <1>2, PTL DEF Spec

\* is_final marks the last wave of every plan and no other.
THEOREM SchedulerTypeCorrect == Spec => []TypeOK
<1>1. SchedulerInv => TypeOK
  BY DEF SchedulerInv
<1> QED
  BY <1>1, SchedulerInvariant, PTL

\* Every action is in one wave or still in the graph, and comes after everything
\* upstream of it.
THEOREM WavesAreOrdered == Spec => []WavesRespectGraph
<1>1. SchedulerInv => WavesRespectGraph
  BY DEF SchedulerInv, Partition, UpstreamBefore, Before, WavesRespectGraph
<1> QED
  BY <1>1, SchedulerInvariant, PTL

\* What one asyncio.gather is handed has no dependency within it.
THEOREM WavesAreIndependent == Spec => []SameWaveIndependent
<1>1. SchedulerInv => SameWaveIndependent
  <2> SUFFICES ASSUME SchedulerInv, NEW k \in DOMAIN waves, NEW a \in Wave(k)
               PROVE  \A b \in Wave(k) : a \notin Ancestors(dep, b)
    BY DEF SameWaveIndependent, IsIndependent
  <2>1. DOMAIN waves = 1..Len(waves) /\ Len(waves) \in Nat
    BY LenProperties DEF SchedulerInv, TypeOK
  <2>2. a \notin Before(k)
    BY <2>1 DEF SchedulerInv, Partition, Before
  <2> QED
    BY <2>2 DEF SchedulerInv, UpstreamBefore
<1> QED
  BY <1>1, SchedulerInvariant, PTL

\* No action waits for a wave it need not wait for.
THEOREM WavesAreEarliest == Spec => []ParallelIsEarliest
<1>1. SchedulerInv => ParallelIsEarliest
  BY DEF SchedulerInv
<1> QED
  BY <1>1, SchedulerInvariant, PTL
-----------------------------------------------------------------------------
(* The guard of waves against nodes without a ready one *)

\* What is upstream of something upstream is upstream.
LEMMA AncestorsTransitive ==
    ASSUME NEW d \in Graph, NEW a \in Action, NEW b \in d[a]
    PROVE  b \in Ancestors(d, a) /\ Ancestors(d, b) \subseteq Ancestors(d, a)
<1>1. b \in Action
  BY DEF Graph
<1>2. ASSUME NEW S \in SUBSET Action, d[a] \subseteq S, \A c \in S : d[c] \subseteq S
      PROVE  b \in S /\ Ancestors(d, b) \subseteq S
  BY <1>1, <1>2, AncestorsLeast
<1> QED
  BY <1>1, <1>2 DEF Ancestors

\* In an acyclic graph, of finitely many nodes one with the least ancestors waits
\* for no other.
LEMMA AcyclicHasReady ==
    ASSUME NEW d \in Graph, Acyclic(d), NEW N \in SUBSET Action, N # {}
    PROVE  Ready(d, N) # {}
<1> DEFINE Above == {Ancestors(d, a) : a \in N}
<1>1. Above # {} /\ Above \subseteq FiniteSubsetsOf(Action)
  <2>1. \A a \in N : Ancestors(d, a) \in SUBSET Action
    BY DEF Ancestors
  <2>2. \A S \in SUBSET Action : IsFiniteSet(S)
    BY ActionAssumption, FS_Subset
  <2> QED BY <2>1, <2>2 DEF FiniteSubsetsOf
<1>2. PICK A \in Above : \A B \in Above : <<B, A>> \notin StrictSubsetOrdering(Action)
  BY <1>1, FS_StrictSubsetOrderingWellFounded, WFMin
<1>3. PICK a \in N : A = Ancestors(d, a)
  BY <1>2
<1>4. SUFFICES ASSUME NEW b \in d[a] \cap N PROVE FALSE
  BY <1>3 DEF Ready
<1>5. b \in Ancestors(d, a) /\ Ancestors(d, b) \subseteq Ancestors(d, a)
  BY AncestorsTransitive
<1>6. b \notin Ancestors(d, b)
  BY DEF Acyclic
<1>7. <<Ancestors(d, b), A>> \in StrictSubsetOrdering(Action)
  <2>1. Ancestors(d, b) \in SUBSET Action /\ A \in SUBSET Action
    BY <1>3 DEF Ancestors
  <2> QED BY <1>3, <1>5, <1>6, <2>1 DEF StrictSubsetOrdering
<1> QED BY <1>2, <1>7

NotStuck == pc # "stuck" /\ (pc = "waves" => Acyclic(dep))

\* The generator of an acyclic plan never has nodes left and none of them ready:
\* the guard that "should not happen if DAG validation passed" is dead code.
THEOREM GuardIsDead == Spec => [](pc # "stuck")
<1>1. Init => NotStuck
  BY DEF Init, NotStuck
<1>2. SchedulerInv /\ NotStuck /\ [Next]_vars => NotStuck'
  <2> SUFFICES ASSUME SchedulerInv, NotStuck, [Next]_vars PROVE NotStuck'
    OBVIOUS
  <2>1. CASE BuildGraph
    BY <2>1 DEF BuildGraph, NotStuck
  <2>2. CASE YieldWave
    BY <2>2 DEF YieldWave, NotStuck
  <2>3. CASE Stop
    <3>1. nodes = {}
      BY <2>3, AcyclicHasReady DEF Stop, NotStuck, SchedulerInv, TypeOK
    <3> QED BY <2>3, <3>1 DEF Stop, NotStuck
  <2>4. CASE UNCHANGED vars
    BY <2>4 DEF vars, NotStuck
  <2> QED BY <2>1, <2>2, <2>3, <2>4 DEF Next
<1>3. NotStuck => pc # "stuck"
  BY DEF NotStuck
<1> QED
  BY <1>1, <1>2, <1>3, SchedulerInvariant, PTL DEF Spec
=============================================================================
