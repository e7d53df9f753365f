---------------------------- MODULE DagScheduler ----------------------------
(***************************************************************************)
(* DAGScheduler (orchestration/dag.py): the graph is built and refused if  *)
(* it has a cycle, then the generator `waves' yields ExecutionWaves until  *)
(* no node is left.  One step is one `yield'.                              *)
(***************************************************************************)
EXTENDS Naturals, Sequences, FiniteSets, Dag

CONSTANT Mode       \* a subset of {"sequential", "parallel", "reactive"}

ASSUME ActionAssumption == IsFiniteSet(Action)
ASSUME ModeAssumption == Mode \subseteq {"sequential", "parallel", "reactive"}

VARIABLES
    dep,        \* the depends_on of the plan
    mode,       \* its execution_mode
    pc,         \* "build", "waves", "done", or an exception: "cycle", "stuck"
    nodes,      \* the nodes left in the copy of the graph
    waves       \* the waves yielded, [actions |-> action_ids, final |-> is_final]

vars == <<dep, mode, pc, nodes, waves>>

Init ==
    /\ dep \in Graph
    /\ mode \in Mode
    /\ pc = "build"
    /\ nodes = Action
    /\ waves = <<>>

\* _build_graph raises DAGCycleError or the generator is created.
BuildGraph ==
    /\ pc = "build"
    /\ pc' = IF Acyclic(dep) THEN "waves" ELSE "cycle"
    /\ UNCHANGED <<dep, mode, nodes, waves>>

\* Mutant: is_final is computed before the wave is taken out.
YieldEarlyFinal ==
    /\ pc = "waves"
    /\ \E W \in NextWaves(dep, nodes, mode) :
        /\ W # {}
        /\ nodes' = nodes \ W
        /\ waves' = Append(waves, [actions |-> W, final |-> nodes = {}])
    /\ UNCHANGED <<dep, mode, pc>>

\* Mutant: a wave takes one ready action only.
YieldOneByOne ==
    /\ pc = "waves"
    /\ \E a \in Ready(dep, nodes) :
        /\ nodes' = nodes \ {a}
        /\ waves' = Append(waves, [actions |-> {a}, final |-> nodes = {a}])
    /\ UNCHANGED <<dep, mode, pc>>

\* Mutant: the nodes of the wave stay in the graph.
YieldKeepingNodes ==
    /\ pc = "waves"
    /\ Len(waves) < 5
    /\ \E W \in NextWaves(dep, nodes, mode) :
        /\ W # {}
        /\ nodes' = nodes
        /\ waves' = Append(waves, [actions |-> W, final |-> nodes = W])
    /\ UNCHANGED <<dep, mode, pc>>

\* One wave: a node of the topological order, or every node of in-degree 0.
YieldWave ==
    /\ pc = "waves"
    /\ \E W \in NextWaves(dep, nodes, mode) :
        /\ W # {}
        /\ nodes' = nodes \ W
        /\ waves' = Append(waves, [actions |-> W, final |-> nodes = W])
    /\ UNCHANGED <<dep, mode, pc>>

\* The guard against nodes without a ready one, and the end.
Stop ==
    /\ pc = "waves"
    /\ Ready(dep, nodes) = {}
    /\ pc' = IF nodes = {} THEN "done" ELSE "stuck"
    /\ UNCHANGED <<dep, mode, nodes, waves>>

Next == BuildGraph \/ YieldWave \/ Stop

\* The generator is driven to its end.
Spec == Init /\ [][Next]_vars /\ WF_vars(Next)

-----------------------------------------------------------------------------
\* The actions of the i-th wave.
Wave(i) == waves[i].actions

\* Type invariant; is_final marks the last wave and no other.
TypeOK ==
    /\ dep \in Graph
    /\ mode \in Mode
    /\ pc \in {"build", "waves", "done", "cycle", "stuck"}
    /\ nodes \in SUBSET Action
    /\ waves \in Seq([actions : SUBSET Action, final : BOOLEAN])
    /\ \A i \in DOMAIN waves : waves[i].final <=> (i = Len(waves) /\ nodes = {})

\* Every action is in exactly one wave or still in the graph, and its wave
\* comes after those of everything upstream of it.
WavesRespectGraph ==
    /\ \A a \in Action : a \in nodes <=> \A i \in DOMAIN waves : a \notin Wave(i)
    /\ \A i, j \in DOMAIN waves : i # j => Wave(i) \cap Wave(j) = {}
    /\ \A i \in DOMAIN waves : \A a \in Wave(i) :
        Ancestors(dep, a) \subseteq UNION {Wave(j) : j \in 1..i - 1}

\* Actions that are handed to one asyncio.gather have no dependency between
\* them, direct or transitive ("can be dispatched concurrently").
SameWaveIndependent ==
    \A i \in DOMAIN waves : \A a, b \in Wave(i) : IsIndependent(dep, a, b)

\* Outside sequential mode no action waits longer than it has to: one that
\* is not in the first wave depends on one of the wave before.
ParallelIsEarliest ==
    mode # "sequential" =>
        \A i \in 2..Len(waves) : \A a \in Wave(i) : dep[a] \cap Wave(i - 1) # {}

\* The generator ends for every graph, and not through the guard that "should not
\* happen if DAG validation passed".
WavesEnd == <>(pc \in {"done", "cycle"})
=============================================================================
