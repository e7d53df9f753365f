--------------------------- MODULE PlanLifecycle ---------------------------
(***************************************************************************)
(* What the executor promises of the status of a plan and of its actions,  *)
(* without waves, coroutines, retries or storage (orchestration/state.py,  *)
(* "State transitions"): which transitions there are, that an action waits *)
(* for what it depends on, that an ABORT failure stops all that is         *)
(* downstream of it and what the final status says.  The statuses WAITING, *)
(* ROLLED_BACK and PAUSED exist in the enumerations and are never assigned.*)
(***************************************************************************)
EXTENDS Dag

CONSTANT OnErrorBehavior

VARIABLES
    dependsOn,      \* the graph of the plan
    onError,        \* the error policy of each action
    planStatus,
    status          \* of each action

lifecycleVars == <<dependsOn, onError, planStatus, status>>

Over == {"completed", "failed", "skipped"}

\* ActionState.status: from each status, those an assignment leads to.  A
\* retry assigns RUNNING to a running action.
Follows ==
    [pending           |-> {"awaiting_approval", "running", "failed", "skipped"},
     awaiting_approval |-> {"running", "failed", "skipped"},
     running           |-> {"running", "completed", "failed"},
     completed         |-> {},
     failed            |-> {},
     skipped           |-> {}]

LifecycleInit ==
    /\ dependsOn \in Graph
    /\ onError \in [Action -> OnErrorBehavior]
    /\ planStatus = "pending"
    /\ status = [a \in Action |-> "pending"]

\* A pre-flight check refuses the plan before any action has moved.
Reject ==
    /\ planStatus = "pending"
    /\ planStatus' = "failed"
    /\ UNCHANGED <<dependsOn, onError, status>>

Begin ==
    /\ planStatus = "pending"
    /\ planStatus' = "running"
    /\ UNCHANGED <<dependsOn, onError, status>>

Aborted(a) ==
    \E d \in Action :
        /\ status[d] = "failed" /\ onError[d] = "abort"
        /\ a \in Descendants(dependsOn, d)

\* An action moves: once its dependencies are over, or, cascaded, when
\* something upstream of it has failed with ABORT.
Move(a) ==
    /\ planStatus = "running"
    /\ \E s \in Follows[status[a]] :
        /\ status' = [status EXCEPT ![a] = s]
        /\ \/ ~Aborted(a) /\ \A d \in dependsOn[a] : status[d] \in Over
           \/ Aborted(a) /\ s = "skipped"
    /\ UNCHANGED <<dependsOn, onError, planStatus>>

\* COMPLETED exactly when every action is completed or skipped.
Conclude ==
    /\ planStatus = "running"
    /\ \A a \in Action : status[a] \notin {"running", "awaiting_approval"}
    /\ planStatus' = IF \A a \in Action : status[a] \in {"completed", "skipped"}
                     THEN "completed" ELSE "failed"
    /\ UNCHANGED <<dependsOn, onError, status>>

LifecycleNext == Reject \/ Begin \/ Conclude \/ \E a \in Action : Move(a)

LifecycleSpec == LifecycleInit /\ [][LifecycleNext]_lifecycleVars
=============================================================================
