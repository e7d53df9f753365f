---------------------------- MODULE PlanExecutor ----------------------------
(***************************************************************************)
(* One IML plan driven by PlanExecutor.run (orchestration/executor.py),    *)
(* together with what races with it: the SQLite PlanStateStore, the        *)
(* DELETE /plans/{id} endpoint, the cancellation of the plan's asyncio     *)
(* task and a crash of the daemon process.                                 *)
(*                                                                         *)
(* The code is asyncio: a coroutine runs without interruption from one     *)
(* await to the next, so one step here is one such segment.  The plan has  *)
(* a program counter `pc', every action coroutine of the current wave has  *)
(* one of its own (`apc').  Every status is assigned in memory first and   *)
(* written to SQLite in a later step: `memAct', `memPlan' are the          *)
(* in-memory ExecutionState, `dbAct', `dbPlan' the rows of the store.      *)
(*                                                                         *)
(* Left out: audit and event emission, result sanitising and truncation,   *)
(* perception, memory keys (none of them changes a status; their failures  *)
(* are caught), what happens inside a dispatch, which is a                 *)
(* nondeterministic outcome here, and failures of SQLite itself.           *)
(***************************************************************************)
EXTENDS Naturals, Dag

CONSTANTS
    Plan,       \* the plans that may be submitted, see PlanType
    Origin,     \* the ways a plan may be submitted, a subset of Origins
    None        \* an action without rollback, an action without error

OnErrorBehavior == {"abort", "continue", "retry", "rollback", "skip"}

(***************************************************************************)
(* What IMLPlan / IMLAction say of a plan, as far as the executor looks:   *)
(* `refs[a]' are the actions named in {{result.X...}} templates of a's     *)
(* params, `approval' the actions for which the guard raises               *)
(* ApprovalRequiredError.                                                  *)
(***************************************************************************)
PlanType ==
    [dependsOn   : Graph,
     onError     : [Action -> OnErrorBehavior],
     mode        : {"sequential", "parallel", "reactive"},
     refs        : [Action -> SUBSET Action],
     approval    : SUBSET Action,
     rollback    : [Action -> Action \cup {None}],
     maxAttempts : [Action -> Nat \ {0}]]

\* async: POST /plans with async_execution, the task is in the _running_tasks
\* of routes/plans.py; sync: POST /plans that waits for the run under
\* sync_plan_timeout; background: PlanExecutor.submit_plan, the task is in
\* the _running_tasks of the executor.
Origins == {"async", "sync", "background"}

\* Why an action failed: a template without a result, a check before the
\* dispatch, the approval, or the dispatch itself.
ErrorKind == {"unresolved", "denied", "rejected", "timeout", "refused", "exception"}

ASSUME PlanAssumption ==
    /\ Plan \subseteq PlanType
    /\ \A p \in Plan : Acyclic(p.dependsOn)   \* IMLValidator._check_dag
ASSUME OriginAssumption == Origin \subseteq Origins
ASSUME NoneAssumption == None \notin Action \cup ErrorKind

PlanStatus == {"pending", "running", "completed", "failed", "cancelled"}
ActionStatus ==
    {"pending", "awaiting_approval", "running", "completed", "failed", "skipped"}
Terminal == {"completed", "failed", "skipped"}
PlanTerminal == {"completed", "failed", "cancelled"}

VARIABLES
    plan,       \* the submitted plan, never changes
    origin,     \* how it was submitted, never changes
    pc,         \* where the plan's coroutine is
    apc,        \* where each action's coroutine is
    memPlan,    \* state.plan_status
    memAct,     \* state.actions[a].status
    attempt,    \* state.actions[a].attempt
    error,      \* why state.actions[a].error was set
    results,    \* the keys of execution_results
    remaining,  \* nodes left in the graph DAGScheduler._parallel_waves consumes
    wave,       \* the actions of the wave being executed
    cascade,    \* cascade_skipped
    compensated,\* actions whose rollback action was executed
    dbPlan,     \* status in table plans, "none" when there is no row
    dbAct,      \* status in table actions
    delete      \* progress of a DELETE /plans/{id} request

ctlVars  == <<plan, origin>>
loopVars == <<remaining, wave, cascade>>
actVars  == <<apc, memAct, attempt, error, results, compensated>>
vars == <<ctlVars, loopVars, actVars, pc, memPlan, dbPlan, dbAct, delete>>

PcPreflight == {"create", "authorize", "scan", "verify"}
PcEnded == {"done", "cancelled", "crashed"}
Pc == PcPreflight \cup PcEnded \cup
      {"store_running", "next_wave", "gather", "skip", "store_final"}

\* An action is at a "store_*" label while its update_action is under way.
ApcStore == {"store_await", "store_running", "store_completed", "store_failed",
             "store_rollback", "store_skip"}
ApcSettled == {"done", "raised"}
Apc == ApcStore \cup ApcSettled \cup
       {"idle", "start", "approval", "dispatch", "sleep", "rollback"}

(***************************************************************************)
(* Submission and pre-flight (run and the first half of _run_with_auth).   *)
(***************************************************************************)
Init ==
    /\ plan \in Plan
    /\ origin \in Origin
    /\ pc = "create"
    /\ apc = [a \in Action |-> "idle"]
    /\ memPlan = "pending"
    /\ memAct = [a \in Action |-> "pending"]
    /\ attempt = [a \in Action |-> 0]
    /\ error = [a \in Action |-> None]
    /\ results = {}
    /\ remaining = Action
    /\ wave = {}
    /\ cascade = {}
    /\ compensated = {}
    /\ dbPlan = "none"
    /\ dbAct = [a \in Action |-> "pending"]
    /\ delete = "idle"

\* PlanStateStore.create: the plan's row and those of its actions, one commit.
CreatePlan ==
    /\ pc = "create"
    /\ pc' = "authorize"
    /\ dbPlan' = "pending"
    /\ UNCHANGED <<ctlVars, loopVars, actVars, memPlan, dbAct, delete>>

\* check_plan_submission passes.
Authorize ==
    /\ pc = "authorize"
    /\ pc' = "scan"
    /\ UNCHANGED <<ctlVars, loopVars, actVars, memPlan, dbPlan, dbAct, delete>>

\* Module versions and the scanner pipeline accept the plan.
ScanInput ==
    /\ pc = "scan"
    /\ pc' = "verify"
    /\ UNCHANGED <<ctlVars, loopVars, actVars, memPlan, dbPlan, dbAct, delete>>

\* The guard's pre-flight accepts the plan, the graph is built and the
\* intent verifier, started before them, does not reject it.
VerifyIntent ==
    /\ pc = "verify"
    /\ pc' = "store_running"
    /\ UNCHANGED <<ctlVars, loopVars, actVars, memPlan, dbPlan, dbAct, delete>>

\* Any of the pre-flight checks refuses the plan: authorization, module
\* versions, scanners, PermissionGuard.check_plan, the verdict of the intent
\* verifier (or its failure in strict mode).
RejectPlan ==
    /\ pc \in {"authorize", "scan", "verify"}
    /\ memPlan' = "failed"
    /\ pc' = "store_final"
    /\ UNCHANGED <<ctlVars, loopVars, actVars, dbPlan, dbAct, delete>>

StoreRunning ==
    /\ pc = "store_running"
    /\ dbPlan' = "running"
    /\ memPlan' = "running"
    /\ pc' = "next_wave"
    /\ UNCHANGED <<ctlVars, loopVars, actVars, dbAct, delete>>

(***************************************************************************)
(* The wave loop.                                                          *)
(***************************************************************************)

\* The actions of the wave that an earlier cascade already covers are
\* skipped, the others become coroutines of one asyncio.gather.  (That
\* cascade_skipped is empty here in every run is a theorem, so the skipping
\* of them and the storing of it are one step.)
NextWave ==
    /\ pc = "next_wave"
    /\ remaining # {}
    /\ \E W \in NextWaves(plan.dependsOn, remaining, plan.mode) :
        LET covered == {a \in W \cap cascade : memAct[a] \in {"pending", "awaiting_approval"}}
        IN  /\ wave' = W
            /\ remaining' = remaining \ W
            /\ memAct' = [a \in Action |-> IF a \in covered THEN "skipped" ELSE memAct[a]]
            /\ dbAct' = [a \in Action |-> IF a \in covered THEN "skipped" ELSE dbAct[a]]
            /\ apc' = [a \in Action |-> CASE a \in W \ cascade -> "start"
                                          [] a \in W \cap cascade -> "done"
                                          [] OTHER -> apc[a]]
    /\ pc' = "gather"
    /\ UNCHANGED <<ctlVars, cascade, attempt, error, results, compensated,
                   memPlan, dbPlan, delete>>

AbortFailed == {a \in Action : memAct[a] = "failed" /\ plan.onError[a] = "abort"}

\* Mutant: the loop goes on after an ABORT failure instead of breaking.
AfterWaveWithoutBreak ==
    /\ pc = "gather"
    /\ \A a \in wave : apc[a] \in ApcSettled
    /\ pc' = "next_wave"
    /\ UNCHANGED <<ctlVars, loopVars, actVars, memPlan, dbPlan, dbAct, delete>>

\* Mutant: only the direct successors of the failed action are collected.
AfterWaveDirectSuccessors ==
    /\ pc = "gather"
    /\ \A a \in wave : apc[a] \in ApcSettled
    /\ cascade' = cascade \cup UNION {Successors(plan.dependsOn, a) : a \in AbortFailed}
    /\ pc' = IF AbortFailed # {} THEN "skip" ELSE "next_wave"
    /\ UNCHANGED <<ctlVars, remaining, wave, actVars, memPlan, dbPlan, dbAct, delete>>

\* Mutant: the loop waits for every coroutine to return normally.
AfterWaveNoExceptions ==
    /\ pc = "gather"
    /\ \A a \in wave : apc[a] = "done"
    /\ cascade' = cascade \cup UNION {Descendants(plan.dependsOn, a) : a \in AbortFailed}
    /\ pc' = IF AbortFailed # {} THEN "skip" ELSE "next_wave"
    /\ UNCHANGED <<ctlVars, remaining, wave, actVars, memPlan, dbPlan, dbAct, delete>>

\* gather has returned: look for ABORT failures, add their descendants to
\* cascade_skipped and leave the loop if there is one.
AfterWave ==
    /\ pc = "gather"
    /\ \A a \in wave : apc[a] \in ApcSettled
    /\ cascade' = cascade \cup UNION {Descendants(plan.dependsOn, a) : a \in AbortFailed}
    /\ pc' = IF AbortFailed # {} THEN "skip" ELSE "next_wave"
    /\ UNCHANGED <<ctlVars, remaining, wave, actVars, memPlan, dbPlan, dbAct, delete>>

\* Mutant: the skip is not persisted.
SkipDescendantInMemory(a) ==
    /\ pc = "skip"
    /\ a \in cascade
    /\ memAct[a] = "pending"
    /\ memAct' = [memAct EXCEPT ![a] = "skipped"]
    /\ apc' = [apc EXCEPT ![a] = "done"]
    /\ UNCHANGED <<ctlVars, loopVars, attempt, error, results, compensated, pc,
                   memPlan, dbPlan, dbAct, delete>>

\* _skip_action for one action of cascade_skipped that is still PENDING.
SkipDescendant(a) ==
    /\ pc = "skip"
    /\ a \in cascade
    /\ memAct[a] = "pending"
    /\ \A b \in Action : apc[b] # "store_skip"
    /\ memAct' = [memAct EXCEPT ![a] = "skipped"]
    /\ apc' = [apc EXCEPT ![a] = "store_skip"]
    /\ UNCHANGED <<ctlVars, loopVars, attempt, error, results, compensated, pc,
                   memPlan, dbPlan, dbAct, delete>>

\* Mutant: a failure that did not abort the plan is tolerated.
AllCompletedOrTolerated ==
    \A a \in Action :
        \/ memAct[a] \in {"completed", "skipped"}
        \/ memAct[a] = "failed" /\ plan.onError[a] # "abort"

\* ExecutionState.all_completed.
AllCompleted == \A a \in Action : memAct[a] \in {"completed", "skipped"}

FinalStatus == IF AllCompleted THEN "completed" ELSE "failed"

\* The loop is over: no wave is left, or it was left and the descendants
\* have been skipped.
Finish ==
    /\ \/ pc = "next_wave" /\ remaining = {}
       \/ pc = "skip" /\ \A a \in cascade : memAct[a] # "pending" /\ apc[a] # "store_skip"
    /\ memPlan' = FinalStatus
    /\ pc' = "store_final"
    /\ UNCHANGED <<ctlVars, loopVars, actVars, dbPlan, dbAct, delete>>

\* The final status is stored and run returns.
StoreFinal ==
    /\ pc = "store_final"
    /\ dbPlan' = memPlan
    /\ pc' = "done"
    /\ UNCHANGED <<ctlVars, loopVars, actVars, memPlan, dbAct, delete>>

(***************************************************************************)
(* One action of the wave (_run_action).  Its first segment resolves the   *)
(* templates against execution_results and passes the authorization and    *)
(* permission checks; the guard for actions in cascade_skipped at its      *)
(* start never fires, since cascade_skipped only grows after gather.       *)
(***************************************************************************)
planVars == <<ctlVars, loopVars, pc, memPlan, dbPlan, delete>>

\* Coroutines of actions run while the plan's awaits gather.
At(a, l) == pc = "gather" /\ apc[a] = l

\* _fail_action: the in-memory half, the store half is StoreAction.
Fail(a, why, next) ==
    /\ memAct' = [memAct EXCEPT ![a] = "failed"]
    /\ error' = [error EXCEPT ![a] = why]
    /\ apc' = [apc EXCEPT ![a] = next]
    /\ UNCHANGED <<planVars, attempt, results, compensated, dbAct>>

\* TemplateResolver raises: a referenced action has no result yet.
FailUnresolved(a) ==
    /\ At(a, "start")
    /\ ~ plan.refs[a] \subseteq results
    /\ Fail(a, "unresolved", "store_failed")

\* Another template error, the authorization matrix, the permission guard,
\* the sandbox check or a missing approval gate stops the action.
FailDenied(a) ==
    /\ At(a, "start")
    /\ plan.refs[a] \subseteq results
    /\ Fail(a, "denied", "store_failed")

\* _handle_approval up to the store write that precedes request_approval.
AwaitApproval(a) ==
    /\ At(a, "start")
    /\ plan.refs[a] \subseteq results
    /\ a \in plan.approval
    /\ memAct' = [memAct EXCEPT ![a] = "awaiting_approval"]
    /\ apc' = [apc EXCEPT ![a] = "store_await"]
    /\ UNCHANGED <<planVars, attempt, error, results, compensated, dbAct>>

MaxAttempts(a) == IF plan.onError[a] = "retry" THEN plan.maxAttempts[a] ELSE 1

\* The head of the attempt loop.
BeginAttempt(a) ==
    /\ attempt' = [attempt EXCEPT ![a] = @ + 1]
    /\ memAct' = [memAct EXCEPT ![a] = "running"]
    /\ apc' = [apc EXCEPT ![a] = "store_running"]
    /\ UNCHANGED <<planVars, error, results, compensated, dbAct>>

\* All checks pass; an action that needs approval gets here when the gate
\* says it is auto-approved (see ApprovalGate).
StartAction(a) ==
    /\ At(a, "start")
    /\ plan.refs[a] \subseteq results
    /\ BeginAttempt(a)

\* request_approval returned APPROVE, APPROVE_ALWAYS or MODIFY.
Approved(a) ==
    /\ At(a, "approval")
    /\ BeginAttempt(a)

\* It returned SKIP, from a user or from the timeout behaviour.
ApprovalSkipped(a) ==
    /\ At(a, "approval")
    /\ memAct' = [memAct EXCEPT ![a] = "skipped"]
    /\ apc' = [apc EXCEPT ![a] = "store_skip"]
    /\ UNCHANGED <<planVars, attempt, error, results, compensated, dbAct>>

\* It returned REJECT, MESSAGE or timed out.
ApprovalRejected(a) ==
    /\ At(a, "approval")
    /\ Fail(a, "rejected", "store_failed")

\* Mutant: the result is not entered in execution_results.
DispatchOkWithoutResult(a) ==
    /\ At(a, "dispatch")
    /\ memAct' = [memAct EXCEPT ![a] = "completed"]
    /\ apc' = [apc EXCEPT ![a] = "store_completed"]
    /\ UNCHANGED <<planVars, attempt, error, results, compensated, dbAct>>

\* The dispatch returned a result.
DispatchOk(a) ==
    /\ At(a, "dispatch")
    /\ results' = results \cup {a}
    /\ memAct' = [memAct EXCEPT ![a] = "completed"]
    /\ apc' = [apc EXCEPT ![a] = "store_completed"]
    /\ UNCHANGED <<planVars, attempt, error, compensated, dbAct>>

\* Mutant: one retry too many.
BackoffOffByOne(a) ==
    /\ At(a, "dispatch")
    /\ attempt[a] <= MaxAttempts(a)
    /\ apc' = [apc EXCEPT ![a] = "sleep"]
    /\ UNCHANGED <<planVars, memAct, attempt, error, results, compensated, dbAct>>

\* Mutant: the action is failed before it is retried.
BackoffAfterFailing(a) ==
    /\ At(a, "dispatch")
    /\ attempt[a] < MaxAttempts(a)
    /\ Fail(a, "exception", "sleep")

\* wait_for timed out, or the dispatch raised, with attempts left: back off.
Backoff(a) ==
    /\ At(a, "dispatch")
    /\ attempt[a] < MaxAttempts(a)
    /\ apc' = [apc EXCEPT ![a] = "sleep"]
    /\ UNCHANGED <<planVars, memAct, attempt, error, results, compensated, dbAct>>

Retry(a) ==
    /\ At(a, "sleep")
    /\ BeginAttempt(a)

\* Mutant: a timed out action is left in RUNNING.
DispatchTimeoutUnrecorded(a) ==
    /\ At(a, "dispatch")
    /\ attempt[a] >= MaxAttempts(a)
    /\ apc' = [apc EXCEPT ![a] = "done"]
    /\ UNCHANGED <<planVars, memAct, attempt, error, results, compensated, dbAct>>

\* The last attempt timed out: the action fails, its rollback is not run.
DispatchTimeout(a) ==
    /\ At(a, "dispatch")
    /\ attempt[a] >= MaxAttempts(a)
    /\ Fail(a, "timeout", "store_failed")

\* PermissionNotGrantedError or RateLimitExceededError: never retried.
DispatchRefused(a) ==
    /\ At(a, "dispatch")
    /\ Fail(a, "refused", "store_failed")

\* The last attempt raised; the rollback follows the store write.
DispatchError(a) ==
    /\ At(a, "dispatch")
    /\ attempt[a] >= MaxAttempts(a)
    /\ Fail(a, "exception",
            IF plan.onError[a] = "rollback" /\ plan.rollback[a] # None
            THEN "store_rollback" ELSE "store_failed")

\* RollbackEngine.execute runs the handler of the rollback action; its own
\* failure is only logged.  No status changes either way.
Rollback(a) ==
    /\ At(a, "rollback")
    /\ apc' = [apc EXCEPT ![a] = "done"]
    /\ compensated' \in {compensated, compensated \cup {a}}
    /\ UNCHANGED <<planVars, memAct, attempt, error, results, dbAct>>

AfterStore(l) ==
    CASE l = "store_await"    -> "approval"
      [] l = "store_running"  -> "dispatch"
      [] l = "store_rollback" -> "rollback"
      [] OTHER                -> "done"

\* PlanStateStore.update_action, one UPDATE and one commit under the lock.
StoreAction(a) ==
    /\ pc \in {"gather", "skip"}
    /\ apc[a] \in ApcStore
    /\ dbAct' = [dbAct EXCEPT ![a] = memAct[a]]
    /\ apc' = [apc EXCEPT ![a] = AfterStore(apc[a])]
    /\ UNCHANGED <<planVars, memAct, attempt, error, results, compensated>>

\* json.dumps(result) raises inside update_action: the exception ends the
\* coroutine and is swallowed by gather(return_exceptions=True).
StoreRaises(a) ==
    /\ At(a, "store_completed")
    /\ apc' = [apc EXCEPT ![a] = "raised"]
    /\ UNCHANGED <<planVars, memAct, attempt, error, results, compensated, dbAct>>

(***************************************************************************)
(* The plan's coroutine is ended from outside.  A store write under way is *)
(* already queued in the aiosqlite thread, or still waits for the lock: it *)
(* happens or it does not.                                                 *)
(***************************************************************************)
PlanWrite ==
    CASE pc = "create"        -> "pending"
      [] pc = "store_running" -> "running"
      [] pc = "store_final"   -> memPlan
      [] OTHER                -> dbPlan

End(how) ==
    /\ pc \notin PcEnded
    /\ pc' = how
    /\ dbPlan' \in {dbPlan, PlanWrite}
    /\ \E S \in SUBSET {a \in Action : apc[a] \in ApcStore} :
        dbAct' = [a \in Action |-> IF a \in S THEN memAct[a] ELSE dbAct[a]]
    /\ UNCHANGED <<ctlVars, loopVars, actVars, memPlan>>

\* PlanExecutor.cancel_plan on a background plan: the task is cancelled and
\* nothing is written.
CancelPlan ==
    /\ origin = "background"
    /\ End("cancelled")
    /\ UNCHANGED delete

\* wait_for around a synchronous POST /plans expires (504): same effect.
SyncTimeout ==
    /\ origin = "sync"
    /\ End("cancelled")
    /\ UNCHANGED delete

\* The daemon process dies; nothing resumes a plan when it is restarted.
\* The in-memory variables then only record what was lost.
Crash ==
    /\ End("crashed")
    /\ delete' = IF delete = "idle" THEN "idle" ELSE "replied"

\* Mutant of DeletePlan: the row is marked, the task is not cancelled.
DeletePlanWithoutCancel ==
    /\ delete = "idle"
    /\ delete' = "read"
    /\ UNCHANGED <<ctlVars, loopVars, actVars, pc, memPlan, dbPlan, dbAct>>

(***************************************************************************)
(* DELETE /plans/{plan_id}: cancel the task if this route started it, read *)
(* the row (404 if there is none), set its status to CANCELLED.            *)
(***************************************************************************)
DeletePlan ==
    /\ delete = "idle"
    /\ delete' = "read"
    /\ IF origin = "async" /\ pc \notin PcEnded
       THEN End("cancelled")
       ELSE UNCHANGED <<ctlVars, loopVars, actVars, pc, memPlan, dbPlan, dbAct>>

DeleteReads ==
    /\ delete = "read"
    /\ delete' = IF dbPlan = "none" THEN "replied" ELSE "write"
    /\ UNCHANGED <<ctlVars, loopVars, actVars, pc, memPlan, dbPlan, dbAct>>

DeleteWrites ==
    /\ delete = "write"
    /\ delete' = "replied"
    /\ dbPlan' = "cancelled"
    /\ UNCHANGED <<ctlVars, loopVars, actVars, pc, memPlan, dbAct>>

-----------------------------------------------------------------------------
PlanStep ==
    \/ CreatePlan \/ Authorize \/ ScanInput \/ VerifyIntent \/ RejectPlan
    \/ StoreRunning \/ NextWave \/ AfterWave \/ Finish \/ StoreFinal
    \/ \E a \in Action : SkipDescendant(a)

BoundedStep(a) ==
    \/ FailUnresolved(a) \/ FailDenied(a) \/ AwaitApproval(a) \/ StartAction(a)
    \/ Approved(a) \/ ApprovalSkipped(a) \/ ApprovalRejected(a)
    \/ DispatchOk(a) \/ Backoff(a) \/ Retry(a) \/ DispatchTimeout(a)
    \/ DispatchRefused(a) \/ DispatchError(a)
    \/ StoreAction(a) \/ StoreRaises(a)

ActionStep(a) == BoundedStep(a) \/ Rollback(a)

ExecutorStep == PlanStep \/ \E a \in Action : ActionStep(a)

ClientStep == CancelPlan \/ SyncTimeout \/ DeletePlan \/ DeleteReads \/ DeleteWrites

Next == ExecutorStep \/ ClientStep \/ Crash

\* The event loop keeps running what is ready, and every other await of the
\* executor ends: store writes complete, a dispatch is bounded by wait_for, an
\* approval by the gate's timeout.  Nothing bounds a compensating action.
Fairness == WF_vars(PlanStep \/ \E a \in Action : BoundedStep(a))

Spec == Init /\ [][Next]_vars /\ Fairness

-----------------------------------------------------------------------------
(***************************************************************************)
(* Properties.                                                             *)
(***************************************************************************)

\* Type invariant: every variable of the executor and of the store has the
\* values the code gives it, and no action is attempted more often than its
\* retry policy allows (the `while attempt < max_attempts' loop).
TypeOK ==
    /\ plan \in Plan
    /\ origin \in Origin
    /\ pc \in Pc
    /\ apc \in [Action -> Apc]
    /\ memPlan \in PlanStatus
    /\ memAct \in [Action -> ActionStatus]
    /\ attempt \in [Action -> Nat]
    /\ \A a \in Action : attempt[a] <= MaxAttempts(a)
    /\ error \in [Action -> ErrorKind \cup {None}]
    /\ results \in SUBSET Action
    /\ remaining \in SUBSET Action
    /\ wave \in SUBSET Action
    /\ cascade \in SUBSET Action
    /\ compensated \in SUBSET Action
    /\ dbPlan \in PlanStatus \cup {"none"}
    /\ dbAct \in [Action -> ActionStatus]
    /\ delete \in {"idle", "read", "write", "replied"}

Started(a) ==
    attempt[a] > 0 \/ memAct[a] \notin {"pending", "skipped"} \/ apc[a] = "start"

\* Once _run_action has been scheduled for an action, every dependency of it
\* is over: its coroutine has returned and its status is terminal.  This is
\* what the waves of DAGScheduler are for, and gather waits for.
StartedAfterDependencies ==
    \A a \in Action : Started(a) =>
        \A d \in plan.dependsOn[a] : apc[d] \in ApcSettled /\ memAct[d] \in Terminal

\* Nothing downstream of an action that failed with on_error=abort is ever
\* scheduled, in whatever order the actions of its wave end.
AbortContained ==
    \A d \in AbortFailed : \A a \in Descendants(plan.dependsOn, d) :
        attempt[a] = 0 /\ memAct[a] \in {"pending", "skipped"}

\* When the run ends by itself, all that is downstream of an ABORT failure
\* is SKIPPED, in memory and in the store ("Cascade failure semantics").
AbortCascades ==
    pc = "done" =>
        \A d \in AbortFailed : \A a \in Descendants(plan.dependsOn, d) :
            memAct[a] = "skipped" /\ dbAct[a] = "skipped"

\* A plan stored as COMPLETED left no action pending, failed or running.
CompletedPlanSound ==
    dbPlan = "completed" => \A a \in Action : memAct[a] \in {"completed", "skipped"}

\* The store never shows a terminal action status the executor has not
\* decided, and when the run ends it shows every status but that of an
\* action whose result could not be serialised.
StoreFollowsMemory ==
    \A a \in Action :
        /\ dbAct[a] \in Terminal => dbAct[a] = memAct[a]
        /\ pc = "done" => dbAct[a] = memAct[a] \/ apc[a] = "raised"

\* A terminal action status is never assigned again, by no interleaving of
\* gather's coroutines, the cascade, a cancellation and the store writes.
TerminalIsFinal ==
    [][\A a \in Action :
        /\ memAct[a] \in Terminal => memAct'[a] = memAct[a]
        /\ dbAct[a] \in Terminal => dbAct'[a] = dbAct[a]]_vars

\* A {{result.X}} template on an action upstream never fails for a reason of
\* timing: if it is unresolved, some referenced action failed or was skipped.
UpstreamTemplatesResolve ==
    \A a \in Action :
        (error[a] = "unresolved" /\ plan.refs[a] \subseteq Ancestors(plan.dependsOn, a))
            => \E r \in plan.refs[a] : memAct[r] \in {"failed", "skipped"}

\* A plan that was submitted asynchronously and is marked CANCELLED by
\* DELETE stays so: no write of its own run follows.
AsyncCancelSticks ==
    [][origin = "async" /\ dbPlan = "cancelled" => dbPlan' = "cancelled"]_vars

\* Every run ends: no combination of retries, approvals, skips and swallowed
\* exceptions leaves the wave loop waiting.  Only a compensating action that never
\* returns keeps it, and then the run waits for nothing else.
Hung ==
    /\ pc = "gather"
    /\ \E a \in wave : apc[a] = "rollback"
    /\ \A a \in wave : apc[a] \in ApcSettled \cup {"rollback"}
RunEnds == <>(pc \in PcEnded) \/ <>[]Hung

\* The run implements the life cycle: seen through the in-memory statuses,
\* its steps are those of PlanLifecycle and stuttering.
Lifecycle == INSTANCE PlanLifecycle WITH
    dependsOn <- plan.dependsOn, onError <- plan.onError,
    planStatus <- memPlan, status <- memAct
ImplementsLifecycle == Lifecycle!LifecycleSpec

\* docs/overview/architecture.md, "Cascade Semantics": "No orphaned PENDING
\* actions that can never run."  Not so for later waves outside the cascade.
NoOrphanPending ==
    pc = "done" /\ wave # {} => \A a \in Action : memAct[a] # "pending"

\* protocol/models.py, IMLAction.depends_on: "Action IDs that must reach
\* COMPLETED status before this action runs."  Not so unless they abort.
DependenciesCompleted ==
    \A a \in Action : memAct[a] = "running" =>
        \A d \in plan.dependsOn[a] : memAct[d] = "completed"

\* api/routes/plans.py, cancel_plan: "Cancel a running plan".  Not so for a
\* plan whose task the route does not hold: it runs on and overwrites the
\* CANCELLED status.
CancelledIsFinal ==
    [][dbPlan = "cancelled" => dbPlan' = "cancelled"]_vars

=============================================================================
