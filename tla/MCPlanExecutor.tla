--------------------------- MODULE MCPlanExecutor ---------------------------
(***************************************************************************)
(* Plans of three actions for TLC: each is one shape of graph with the     *)
(* error policies, approvals and templates that make its cases happen.     *)
(***************************************************************************)
EXTENDS PlanExecutor

CONSTANTS a1, a2, a3

MCAction == {a1, a2, a3}

Fn(x1, x2, x3) == [a \in MCAction |-> CASE a = a1 -> x1 [] a = a2 -> x2 [] a = a3 -> x3]

MkPlan(dep, err, mode, refs, approval, rollback) ==
    [dependsOn |-> dep, onError |-> err, mode |-> mode, refs |-> refs,
     approval |-> approval, rollback |-> rollback,
     maxAttempts |-> [a \in MCAction |-> 2]]

NoRef == Fn({}, {}, {})
NoRollback == Fn(None, None, None)

MCPlan == {
    \* a chain, sequential: an approval in the middle, an abort at its head
    MkPlan(Fn({}, {a1}, {a2}), Fn("abort", "continue", "abort"), "sequential",
           Fn({}, {a1}, {a1}), {a2}, NoRollback),
    \* a join: two roots in one wave, one of them retried, one aborting
    MkPlan(Fn({}, {}, {a1, a2}), Fn("abort", "retry", "skip"), "parallel",
           Fn({}, {}, {a1}), {}, NoRollback),
    \* a pair beside a chain: a template races with its referent, a rollback
    MkPlan(Fn({}, {}, {a1}), Fn("rollback", "abort", "continue"), "parallel",
           Fn({}, {a1}, {a2}), {}, Fn(a3, None, None)),
    \* independent actions in sequence
    MkPlan(Fn({}, {}, {}), Fn("abort", "continue", "abort"), "sequential",
           NoRef, {}, NoRollback)}
=============================================================================
