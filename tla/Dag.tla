-------------------------------- MODULE Dag --------------------------------
(***************************************************************************)
(* The dependency graph of a plan, as orchestration/dag.py builds and      *)
(* queries it.  A graph is the function `dep' from an action to the set of *)
(* actions it depends on; the edges of the nx.DiGraph run from dep[a] to a.*)
(***************************************************************************)
CONSTANT Action     \* the ids of the plan's actions

Graph == [Action -> SUBSET Action]

Successors(dep, a) == {b \in Action : a \in dep[b]}
Predecessors(dep, a) == dep[a]

\* nx.descendants: the least set that holds the successors of a and is
\* closed under successors.
Descendants(dep, a) ==
    {b \in Action :
        \A S \in SUBSET Action :
            (Successors(dep, a) \subseteq S /\ \A c \in S : Successors(dep, c) \subseteq S)
                => b \in S}

\* nx.ancestors, the least set that holds dep[a] and is closed under dep.
Ancestors(dep, a) ==
    {b \in Action :
        \A S \in SUBSET Action :
            (dep[a] \subseteq S /\ \A c \in S : dep[c] \subseteq S) => b \in S}

\* nx.is_directed_acyclic_graph: nothing is upstream of itself.
Acyclic(dep) == \A a \in Action : a \notin Ancestors(dep, a)

IsIndependent(dep, a, b) == a \notin Ancestors(dep, b) /\ b \notin Ancestors(dep, a)

\* A mutant of Ready: nodes that wait for at most one other node are taken
\* as ready.
ReadyIgnoringOneDependency(dep, nodes) ==
    {a \in nodes : \E d \in Action : dep[a] \cap nodes \subseteq {d}}

\* The nodes of in-degree zero in the part of the graph that is left.
Ready(dep, nodes) == {a \in nodes : dep[a] \cap nodes = {}}

\* DAGScheduler.waves, the waves that may be yielded next: one action of a
\* topological order in sequential mode, every ready action in the other
\* modes ("reactive" takes the parallel branch).
NextWaves(dep, nodes, mode) ==
    IF mode = "sequential" THEN {{a} : a \in Ready(dep, nodes)}
                           ELSE {Ready(dep, nodes)}
=============================================================================
