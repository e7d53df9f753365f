------------------------- MODULE PlanExecutorProofs -------------------------
(***************************************************************************)
(* Proofs about PlanExecutor for every set of actions and every plan.      *)
(* ExecutorInv is the inductive invariant; the properties follow from it.  *)
(***************************************************************************)
EXTENDS PlanExecutor, TLAPS

(***************************************************************************)
(* The inductive invariant, in named parts.                                *)
(***************************************************************************)

\* Where a coroutine is determines the in-memory status of its action.
PositionOf(a) ==
    /\ apc[a] \in {"idle", "start"} => memAct[a] = "pending" /\ attempt[a] = 0
    /\ apc[a] \in {"store_await", "approval"} =>
            memAct[a] = "awaiting_approval" /\ attempt[a] = 0
    /\ apc[a] \in {"store_running", "dispatch", "sleep"} => memAct[a] = "running"
    /\ apc[a] = "sleep" => attempt[a] < MaxAttempts(a)
    /\ apc[a] \in {"store_completed", "raised"} => memAct[a] = "completed"
    /\ apc[a] \in {"store_failed", "store_rollback", "rollback"} => memAct[a] = "failed"
    /\ apc[a] = "store_skip" => memAct[a] = "skipped"
    /\ apc[a] = "done" => memAct[a] \in Terminal
    /\ memAct[a] = "skipped" => attempt[a] = 0
    /\ memAct[a] = "completed" => a \in results

Positions == \A a \in Action : PositionOf(a)

Untouched(a) == apc[a] \in {"idle", "store_skip", "done"} /\ memAct[a] \in {"pending", "skipped"}

\* The waves cut the graph: what has been yielded depends only on earlier
\* waves, and those are over.
WavesCut ==
    /\ remaining \cap wave = {}
    /\ \A a \in Action \ remaining : plan.dependsOn[a] \cap (remaining \cup wave) = {}
    /\ \A a \in Action \ (remaining \cup wave) : apc[a] \in ApcSettled
    /\ \A a \in remaining : Untouched(a)
    /\ pc \in PcPreflight \cup {"store_running"} => wave = {}
    /\ pc \in PcPreflight \cup {"store_running", "next_wave", "gather"} =>
            \A a \in remaining : apc[a] = "idle"
    /\ pc \in {"next_wave", "skip", "store_final", "done"} =>
            \A a \in wave : apc[a] \in ApcSettled

\* An ABORT failure is one of the last wave, and before the loop is left
\* cascade_skipped is empty.
AbortsInWave ==
    /\ AbortFailed \subseteq wave
    /\ pc = "next_wave" => AbortFailed = {}
    /\ pc \in PcPreflight \cup {"store_running", "next_wave", "gather"} => cascade = {}
    /\ pc = "skip" =>
            cascade = UNION {Descendants(plan.dependsOn, d) : d \in AbortFailed}

\* The final status is decided when every descendant of an ABORT failure has
\* been skipped and stored, and only those are skipped outside a wave.
Cascaded ==
    /\ pc \in {"store_final", "done"} =>
        \A d \in AbortFailed : \A a \in Descendants(plan.dependsOn, d) :
            memAct[a] = "skipped" /\ apc[a] = "done"
    /\ \A a \in remaining : apc[a] = "store_skip" => a \in cascade
    /\ pc \in {"store_final", "done"} => \A a \in remaining : apc[a] # "store_skip"

\* The rows of the actions.
Stored ==
    \A a \in Action :
        /\ dbAct[a] \in Terminal => dbAct[a] = memAct[a]
        /\ apc[a] \in {"rollback", "done"} => dbAct[a] = memAct[a]
        /\ apc[a] = "idle" => dbAct[a] = "pending"

\* The status of the plan.
PlanStatuses ==
    /\ pc \in PcPreflight \cup {"store_running"} => memPlan = "pending"
    /\ pc \in {"next_wave", "gather", "skip"} => memPlan = "running"
    /\ memPlan \in {"pending", "running", "completed", "failed"}
    /\ memPlan = "completed" => AllCompleted /\ pc \in {"store_final"} \cup PcEnded
    /\ dbPlan = "completed" => memPlan = "completed"

ExecutorInv ==
    /\ TypeOK
    /\ Positions
    /\ WavesCut
    /\ AbortsInWave
    /\ Cascaded
    /\ Stored
    /\ PlanStatuses
    /\ UpstreamTemplatesResolve

(***************************************************************************)
(* Facts about plans and graphs.                                           *)
(***************************************************************************)

\* The fields of a submitted plan have their types, and every action may be
\* attempted at least once.
LEMMA PlanFields ==
    ASSUME plan \in Plan
    PROVE  /\ plan.dependsOn \in [Action -> SUBSET Action]
           /\ plan.onError \in [Action -> OnErrorBehavior]
           /\ plan.refs \in [Action -> SUBSET Action]
           /\ \A a \in Action : MaxAttempts(a) \in Nat /\ MaxAttempts(a) >= 1
  BY PlanAssumption DEF PlanType, Graph, MaxAttempts

\* A set that holds the successors of d and is closed under successors holds
\* the descendants of d (nx.descendants is the least such set).
LEMMA DescendantsLeast ==
    ASSUME NEW dep, NEW d, NEW S \in SUBSET Action,
           Successors(dep, d) \subseteq S,
           \A c \in S : Successors(dep, c) \subseteq S
    PROVE  Descendants(dep, d) \subseteq S
  BY DEF Descendants

\* Likewise for the ancestors.
LEMMA AncestorsLeast ==
    ASSUME NEW dep, NEW a, NEW S \in SUBSET Action,
           dep[a] \subseteq S,
           \A c \in S : dep[c] \subseteq S
    PROVE  Ancestors(dep, a) \subseteq S
  BY DEF Ancestors

\* Nothing downstream of an action of the current wave has been yielded.
LEMMA DownstreamRemains ==
    ASSUME TypeOK, WavesCut, NEW d \in wave
    PROVE  Descendants(plan.dependsOn, d) \subseteq remaining
<1>1. plan.dependsOn \in [Action -> SUBSET Action]
  BY PlanFields DEF TypeOK
<1>2. Successors(plan.dependsOn, d) \subseteq remaining
  BY <1>1 DEF TypeOK, WavesCut, Successors
<1>3. \A c \in remaining : Successors(plan.dependsOn, c) \subseteq remaining
  BY <1>1 DEF TypeOK, WavesCut, Successors
<1> QED
  BY <1>2, <1>3, DescendantsLeast DEF TypeOK

\* Everything upstream of an action that has been yielded is over.
LEMMA UpstreamOver ==
    ASSUME TypeOK, WavesCut, Positions, NEW a \in Action \ remaining
    PROVE  \A d \in Ancestors(plan.dependsOn, a) :
                d \in Action /\ d \notin wave /\ apc[d] \in ApcSettled /\ memAct[d] \in Terminal
<1> DEFINE S == Action \ (remaining \cup wave)
<1>1. plan.dependsOn \in [Action -> SUBSET Action]
  BY PlanFields DEF TypeOK
<1>2. plan.dependsOn[a] \subseteq S
  BY <1>1 DEF WavesCut
<1>3. \A c \in S : plan.dependsOn[c] \subseteq S
  BY <1>1 DEF WavesCut
<1>4. Ancestors(plan.dependsOn, a) \subseteq S
  BY <1>2, <1>3, AncestorsLeast
<1> QED
  BY <1>4 DEF WavesCut, PositionOf, Positions, ApcSettled, Terminal

(***************************************************************************)
(* The invariant holds initially.                                          *)
(***************************************************************************)
\* A plan that has just been submitted satisfies the invariant.
LEMMA InitInv == Init => ExecutorInv
<1> SUFFICES ASSUME Init PROVE ExecutorInv
  OBVIOUS
<1> USE DEF Init
<1>0. \A a \in Action : MaxAttempts(a) \in Nat /\ MaxAttempts(a) >= 1
  BY PlanFields
<1>1. TypeOK
  BY <1>0 DEF TypeOK, Pc, PcPreflight, Apc, PlanStatus, ActionStatus
<1>2. Positions
  BY DEF PositionOf, Positions
<1>3. WavesCut
  BY DEF WavesCut, Untouched
<1>4. AbortsInWave
  BY DEF AbortsInWave, AbortFailed
<1>5. Cascaded
  BY DEF Cascaded
<1>6. Stored
  BY DEF Stored, Terminal
<1>7. PlanStatuses
  BY DEF PlanStatuses, PcEnded
<1>8. UpstreamTemplatesResolve
  BY NoneAssumption DEF UpstreamTemplatesResolve, ErrorKind
<1> QED
  BY <1>1, <1>2, <1>3, <1>4, <1>5, <1>6, <1>7, <1>8 DEF ExecutorInv

(***************************************************************************)
(* Every step preserves the invariant: the steps of the plan's coroutine.  *)
(***************************************************************************)
\* The pre-flight steps and the first store write preserve the invariant.
LEMMA PreflightInv ==
    ASSUME ExecutorInv,
           CreatePlan \/ Authorize \/ ScanInput \/ VerifyIntent \/ RejectPlan \/ StoreRunning
    PROVE  ExecutorInv'
<1> USE DEF ExecutorInv, CreatePlan, Authorize, ScanInput, VerifyIntent, RejectPlan,
            StoreRunning, ctlVars, loopVars, actVars
<1>1. /\ UNCHANGED <<ctlVars, loopVars, actVars, dbAct, delete>>
      /\ pc \in PcPreflight \cup {"store_running"}
      /\ pc' \in PcPreflight \cup {"store_running", "next_wave", "store_final"}
  BY DEF PcPreflight
<1>2. TypeOK'
  BY <1>1 DEF TypeOK, Pc, PcPreflight, PlanStatus, MaxAttempts
<1>3. Positions'
  BY <1>1 DEF PositionOf, Positions, MaxAttempts
<1>4. WavesCut'
  BY <1>1 DEF WavesCut, Untouched, PcPreflight
<1>5. AbortsInWave' /\ Cascaded'
  <2>1. AbortFailed = {} /\ AbortFailed' = {}
    BY <1>1 DEF AbortFailed, AbortsInWave, WavesCut, PcPreflight
  <2> QED
    BY <1>1, <2>1 DEF AbortsInWave, Cascaded, PcPreflight
<1>6. Stored'
  BY <1>1 DEF Stored
<1>7. PlanStatuses'
  BY <1>1 DEF PlanStatuses, PcPreflight, PcEnded
<1>8. UpstreamTemplatesResolve'
  BY <1>1 DEF UpstreamTemplatesResolve
<1> QED
  BY <1>2, <1>3, <1>4, <1>5, <1>6, <1>7, <1>8

\* The next wave: cascade_skipped is empty, so all of it is scheduled.
LEMMA NextWaveInv ==
    ASSUME ExecutorInv, NextWave
    PROVE  ExecutorInv'
<1> USE DEF ExecutorInv
<1>1. cascade = {}
  BY DEF NextWave, AbortsInWave
<1>2. PICK W \in NextWaves(plan.dependsOn, remaining, plan.mode) :
        /\ wave' = W
        /\ remaining' = remaining \ W
        /\ memAct' = [a \in Action |-> memAct[a]]
        /\ dbAct' = [a \in Action |-> dbAct[a]]
        /\ apc' = [a \in Action |-> IF a \in W THEN "start" ELSE apc[a]]
  BY <1>1 DEF NextWave
<1>3. memAct' = memAct /\ dbAct' = dbAct
  BY <1>2 DEF TypeOK
<1>4. W \subseteq remaining /\ \A a \in W : plan.dependsOn[a] \cap remaining = {}
  BY DEF NextWaves, Ready
<1>5. /\ pc = "next_wave" /\ pc' = "gather"
      /\ UNCHANGED <<ctlVars, cascade, attempt, error, results, compensated,
                     memPlan, dbPlan, delete>>
  BY DEF NextWave
<1> HIDE DEF ExecutorInv
<1> USE <1>1, <1>2, <1>3, <1>4, <1>5 DEF ctlVars
<1>6. TypeOK'
  BY DEF ExecutorInv, TypeOK, Pc, Apc, MaxAttempts
<1>7. Positions'
  BY DEF ExecutorInv, TypeOK, PositionOf, Positions, WavesCut, MaxAttempts
<1>8. WavesCut'
  BY PlanFields DEF ExecutorInv, TypeOK, WavesCut, Untouched, PcPreflight
<1>9. AbortsInWave' /\ Cascaded'
  <2>1. AbortsInWave'
    BY DEF ExecutorInv, AbortsInWave, AbortFailed, PcPreflight
  <2>2. \A a \in remaining' : apc'[a] = "idle"
    BY DEF ExecutorInv, TypeOK, WavesCut
  <2> QED
    BY <2>1, <2>2 DEF Cascaded
<1>10. Stored'
  BY DEF ExecutorInv, TypeOK, Stored, WavesCut, PositionOf, Positions, Terminal
<1>11. PlanStatuses'
  BY DEF ExecutorInv, PlanStatuses, PcPreflight, PcEnded
<1>12. UpstreamTemplatesResolve'
  BY DEF ExecutorInv, UpstreamTemplatesResolve
<1> QED
  BY <1>6, <1>7, <1>8, <1>9, <1>10, <1>11, <1>12 DEF ExecutorInv

\* The look back after a wave.
LEMMA AfterWaveInv ==
    ASSUME ExecutorInv, AfterWave
    PROVE  ExecutorInv'
<1> USE DEF ExecutorInv
<1>1. /\ pc = "gather" /\ pc' \in {"skip", "next_wave"}
      /\ \A a \in wave : apc[a] \in ApcSettled
      /\ UNCHANGED <<ctlVars, remaining, wave, actVars, memPlan, dbPlan, dbAct, delete>>
      /\ AbortFailed' = AbortFailed
  BY DEF AfterWave, AbortFailed, ctlVars, actVars
<1>2. cascade = {}
  BY DEF AfterWave, AbortsInWave
<1>3. cascade' = UNION {Descendants(plan.dependsOn, d) : d \in AbortFailed}
  BY <1>2 DEF AfterWave
<1>4. TypeOK'
  <2>1. cascade' \subseteq Action
    BY <1>3 DEF Descendants
  <2> QED
    BY <1>1, <2>1 DEF TypeOK, Pc, MaxAttempts, ctlVars, actVars
<1>5. Positions'
  BY <1>1 DEF PositionOf, Positions, MaxAttempts, ctlVars, actVars
<1>6. WavesCut'
  BY <1>1 DEF WavesCut, Untouched, PcPreflight, ctlVars, actVars
<1>7. AbortsInWave'
  <2>1. CASE AbortFailed = {}
    BY <1>1, <1>3, <2>1 DEF AbortsInWave, PcPreflight, ctlVars
  <2>2. CASE AbortFailed # {}
    <3>1. pc' = "skip"
      BY <2>2 DEF AfterWave
    <3> QED
      BY <1>1, <1>3, <3>1 DEF AbortsInWave, PcPreflight, ctlVars
  <2> QED
    BY <2>1, <2>2
<1>8. Cascaded' /\ Stored'
  <2>1. \A a \in remaining : apc[a] = "idle"
    BY <1>1 DEF WavesCut
  <2> QED
    BY <1>1, <2>1 DEF Cascaded, Stored, actVars
<1>9. PlanStatuses'
  BY <1>1 DEF PlanStatuses, PcPreflight, PcEnded
<1>10. UpstreamTemplatesResolve'
  BY <1>1 DEF UpstreamTemplatesResolve, ctlVars, actVars
<1> QED
  BY <1>4, <1>5, <1>6, <1>7, <1>8, <1>9, <1>10

\* One descendant of an ABORT failure is skipped; it is still in the graph.
LEMMA SkipDescendantInv ==
    ASSUME ExecutorInv, NEW a \in Action, SkipDescendant(a)
    PROVE  ExecutorInv'
<1> USE DEF ExecutorInv
<1>1. /\ pc = "skip" /\ pc' = "skip" /\ memAct[a] = "pending"
      /\ memAct' = [memAct EXCEPT ![a] = "skipped"]
      /\ apc' = [apc EXCEPT ![a] = "store_skip"]
      /\ UNCHANGED <<ctlVars, loopVars, attempt, error, results, compensated,
                     memPlan, dbPlan, dbAct, delete>>
  BY DEF SkipDescendant
<1>2. a \in remaining /\ a \notin wave /\ attempt[a] = 0
  BY <1>1 DEF TypeOK, WavesCut, PositionOf, Positions, Untouched, ApcSettled, Terminal
<1>3. AbortFailed' = AbortFailed
  BY <1>1 DEF AbortFailed, TypeOK, ctlVars
<1> HIDE DEF ExecutorInv
<1> USE <1>1, <1>2, <1>3 DEF ctlVars, loopVars
<1>4. TypeOK'
  BY DEF ExecutorInv, TypeOK, Apc, ApcStore, ActionStatus, MaxAttempts
<1>5. Positions'
  BY DEF ExecutorInv, TypeOK, PositionOf, Positions, MaxAttempts, Terminal
<1>6. WavesCut'
  BY DEF ExecutorInv, TypeOK, WavesCut, Untouched, PcPreflight
<1>7. AbortsInWave' /\ Cascaded'
  <2>1. a \in cascade
    BY DEF SkipDescendant
  <2> QED
    BY <2>1 DEF ExecutorInv, TypeOK, AbortsInWave, Cascaded, PcPreflight
<1>8. Stored'
  BY DEF ExecutorInv, TypeOK, Stored, Terminal
<1>9. PlanStatuses'
  BY DEF ExecutorInv, PlanStatuses, PcPreflight, PcEnded
<1>10. UpstreamTemplatesResolve'
  BY DEF ExecutorInv, TypeOK, UpstreamTemplatesResolve
<1> QED
  BY <1>4, <1>5, <1>6, <1>7, <1>8, <1>9, <1>10 DEF ExecutorInv

\* The final status, decided and then stored.
LEMMA FinishInv ==
    ASSUME ExecutorInv, Finish \/ StoreFinal
    PROVE  ExecutorInv'
<1> USE DEF ExecutorInv
<1>1. /\ UNCHANGED <<ctlVars, loopVars, actVars, dbAct, delete>>
      /\ AbortFailed' = AbortFailed
      /\ pc \in {"next_wave", "skip", "store_final"} /\ pc' \in {"store_final", "done"}
  BY DEF Finish, StoreFinal, AbortFailed, ctlVars, actVars
<1>2. memPlan' \in {"completed", "failed", memPlan}
  BY DEF Finish, StoreFinal, FinalStatus
<1>3. TypeOK'
  BY <1>1, <1>2 DEF TypeOK, Pc, PcEnded, PlanStatus, MaxAttempts, ctlVars, loopVars,
                    actVars, Finish, StoreFinal
<1>4. Positions' /\ Stored'
  BY <1>1 DEF PositionOf, Positions, Stored, MaxAttempts, ctlVars, actVars
<1>5. WavesCut'
  BY <1>1 DEF WavesCut, Untouched, PcPreflight, ctlVars, loopVars, actVars
<1>6. AbortsInWave'
  BY <1>1 DEF AbortsInWave, PcPreflight, ctlVars, loopVars
<1>7. Cascaded'
  <2>1. CASE pc = "store_final"
    BY <1>1, <2>1 DEF Cascaded, ctlVars, loopVars, actVars
  <2>2. CASE pc = "next_wave"
    <3>1. AbortFailed = {} /\ \A a \in remaining : apc[a] = "idle"
      BY <2>2 DEF AbortsInWave, WavesCut
    <3> QED
      BY <1>1, <3>1 DEF Cascaded, loopVars, actVars
  <2>3. CASE pc = "skip"
    <3>1. \A a \in cascade : memAct[a] # "pending" /\ apc[a] # "store_skip"
      BY <2>3 DEF Finish, StoreFinal
    <3>2. \A d \in AbortFailed : Descendants(plan.dependsOn, d) \subseteq remaining \cap cascade
      BY <2>3, DownstreamRemains DEF AbortsInWave
    <3>3. \A a \in remaining \cap cascade : memAct[a] = "skipped" /\ apc[a] = "done"
      BY <3>1 DEF WavesCut, Untouched, PositionOf, Positions, TypeOK
    <3> QED
      BY <1>1, <3>1, <3>2, <3>3 DEF Cascaded, ctlVars, loopVars, actVars
  <2> QED
    BY <1>1, <2>1, <2>2, <2>3
<1>8. PlanStatuses'
  BY <1>1 DEF PlanStatuses, PcPreflight, PcEnded, AllCompleted, Finish, StoreFinal,
              FinalStatus, actVars
<1>9. UpstreamTemplatesResolve'
  BY <1>1 DEF UpstreamTemplatesResolve, ctlVars, actVars
<1> QED
  BY <1>3, <1>4, <1>5, <1>6, <1>7, <1>8, <1>9

(***************************************************************************)
(* The steps of an action's coroutine.                                     *)
(***************************************************************************)

\* What a coroutine does between two awaits: it runs while gather waits (or
\* stores the skip of a descendant), it changes its own action only, never a
\* terminal status, and it leaves a status that goes with its position.
MoveFrame(a) ==
    /\ pc \in {"gather", "skip"}
    /\ apc[a] \notin {"idle", "done", "raised"}
    /\ pc = "skip" => apc[a] \in ApcStore /\ memAct' = memAct /\ apc'[a] = AfterStore(apc[a])
    /\ UNCHANGED planVars

MoveTypes(a) ==
    /\ apc' \in [Action -> Apc] /\ apc'[a] \notin {"idle", "start"}
    /\ memAct' \in [Action -> ActionStatus]
    /\ attempt' \in [Action -> Nat]
    /\ error' \in [Action -> ErrorKind \cup {None}]
    /\ dbAct' \in [Action -> ActionStatus]
    /\ results' \in {results, results \cup {a}}
    /\ compensated' \in SUBSET Action

MoveLocal(a) ==
    \A b \in Action \ {a} :
        /\ apc'[b] = apc[b] /\ memAct'[b] = memAct[b] /\ attempt'[b] = attempt[b]
        /\ error'[b] = error[b] /\ dbAct'[b] = dbAct[b]

MoveStatus(a) ==
    /\ PositionOf(a)'
    /\ attempt'[a] <= MaxAttempts(a)
    /\ memAct[a] \in Terminal => memAct'[a] = memAct[a] /\ error'[a] = error[a]
    /\ error'[a] = "unresolved" =>
            \/ error[a] = "unresolved"
            \/ memAct'[a] = "failed" /\ ~ plan.refs[a] \subseteq results
    /\ memAct'[a] # memAct[a] => memAct'[a] \in Lifecycle!Follows[memAct[a]]
    /\ \/ dbAct'[a] = dbAct[a]
       \/ dbAct'[a] = memAct[a] /\ memAct'[a] = memAct[a]
    /\ apc'[a] \in {"rollback", "done"} => dbAct'[a] = memAct'[a]

CoroutineMove(a) == MoveFrame(a) /\ MoveTypes(a) /\ MoveLocal(a) /\ MoveStatus(a)

\* Every step of _run_action is a CoroutineMove of its action.
LEMMA ActionStepMoves ==
    ASSUME ExecutorInv, NEW a \in Action, ActionStep(a)
    PROVE  CoroutineMove(a)
<1>0. /\ TypeOK /\ PositionOf(a)
      /\ MaxAttempts(a) \in Nat /\ MaxAttempts(a) >= 1
      /\ apc[a] = "rollback" => dbAct[a] = memAct[a]
  BY PlanFields DEF ExecutorInv, TypeOK, Positions, Stored
<1>a. plan' = plan /\ MaxAttempts(a)' = MaxAttempts(a)
  BY DEF ActionStep, BoundedStep, FailUnresolved, FailDenied, AwaitApproval, StartAction, Approved,
         ApprovalSkipped, ApprovalRejected, DispatchOk, Backoff, Retry, DispatchTimeout,
         DispatchRefused, DispatchError, Rollback, StoreAction, StoreRaises, Fail,
         BeginAttempt, planVars, ctlVars, MaxAttempts
<1> USE <1>0, <1>a DEF TypeOK, PositionOf, MoveFrame, MoveTypes, MoveLocal, MoveStatus,
                 CoroutineMove, At, Lifecycle!Follows, Apc, ApcStore, ApcSettled, ActionStatus, ErrorKind, Terminal
<1>1. CASE FailUnresolved(a) \/ FailDenied(a)
  BY <1>1, NoneAssumption DEF FailUnresolved, FailDenied, Fail
<1>2. CASE AwaitApproval(a)
  BY <1>2 DEF AwaitApproval
<1>3. CASE StartAction(a) \/ Approved(a) \/ Retry(a)
  BY <1>3 DEF StartAction, Approved, Retry, BeginAttempt
<1>4. CASE ApprovalSkipped(a)
  BY <1>4 DEF ApprovalSkipped
<1>5. CASE ApprovalRejected(a) \/ DispatchTimeout(a) \/ DispatchRefused(a)
  BY <1>5 DEF ApprovalRejected, DispatchTimeout, DispatchRefused, Fail
<1>6. CASE DispatchError(a)
  BY <1>6 DEF DispatchError, Fail
<1>7. CASE DispatchOk(a)
  BY <1>7 DEF DispatchOk
<1>8. CASE Backoff(a) \/ StoreRaises(a)
  BY <1>8 DEF Backoff, StoreRaises
<1>9. CASE Rollback(a)
  BY <1>9 DEF Rollback
<1>10. CASE StoreAction(a)
  BY <1>10 DEF StoreAction, AfterStore
<1> QED
  BY <1>1, <1>2, <1>3, <1>4, <1>5, <1>6, <1>7, <1>8, <1>9, <1>10 DEF ActionStep, BoundedStep

\* A CoroutineMove preserves the invariant.
LEMMA CoroutineMoveInv ==
    ASSUME ExecutorInv, NEW a \in Action, CoroutineMove(a)
    PROVE  ExecutorInv'
<1> USE DEF ExecutorInv, CoroutineMove, MoveFrame, MoveTypes, MoveLocal, MoveStatus
<1>0. UNCHANGED <<plan, origin, remaining, wave, cascade, pc, memPlan, dbPlan, delete>>
  BY DEF planVars, ctlVars, loopVars
<1>1. pc = "gather" => a \in wave
  BY DEF WavesCut, ApcSettled, PcPreflight
<1>2. pc = "skip" => a \in remaining /\ apc[a] = "store_skip" /\ apc'[a] = "done"
  BY DEF WavesCut, ApcSettled, ApcStore, Untouched, AfterStore
<1>3. remaining \cap wave = {}
  BY DEF WavesCut
<1>4. AbortFailed \subseteq AbortFailed' /\ AbortFailed' \subseteq AbortFailed \cup {a}
  BY <1>0 DEF AbortFailed, Terminal
<1>5. pc = "skip" => AbortFailed' = AbortFailed
  BY <1>0 DEF AbortFailed
<1>6. TypeOK'
  BY <1>0 DEF TypeOK, MaxAttempts
<1>7. Positions'
  BY <1>0 DEF Positions, PositionOf, MaxAttempts
<1>8. WavesCut'
  <2>1. \A b \in Action \ {a} : apc'[b] = apc[b] /\ memAct'[b] = memAct[b]
    OBVIOUS
  <2>2. remaining \subseteq Action /\ wave \subseteq Action
    BY DEF TypeOK
  <2>3. CASE pc = "gather"
    <3>1. a \in wave /\ a \notin remaining
      BY <1>1, <1>3, <2>3
    <3> HIDE DEF ExecutorInv, CoroutineMove
    <3> QED
      BY <1>0, <2>1, <2>2, <2>3, <3>1 DEF ExecutorInv, WavesCut, Untouched, PcPreflight
  <2>4. CASE pc = "skip"
    <3>1. /\ a \in remaining /\ a \notin wave
          /\ apc'[a] = "done" /\ memAct'[a] = memAct[a]
      BY <1>2, <1>3, <2>4
    <3> HIDE DEF ExecutorInv, CoroutineMove
    <3> QED
      BY <1>0, <2>1, <2>2, <2>4, <3>1 DEF ExecutorInv, WavesCut, Untouched, PcPreflight
  <2> QED
    BY <2>3, <2>4
<1>9. AbortsInWave'
  BY <1>0, <1>1, <1>4, <1>5 DEF AbortsInWave, PcPreflight
<1>10. Cascaded'
  BY <1>0, <1>1, <1>2, <1>3 DEF Cascaded, TypeOK
<1>11. Stored'
  BY DEF Stored, Terminal
<1>12. PlanStatuses'
  BY <1>0 DEF PlanStatuses, PcPreflight, PcEnded
<1>13. UpstreamTemplatesResolve'
  <2> SUFFICES ASSUME NEW b \in Action, error'[b] = "unresolved",
                      plan.refs[b] \subseteq Ancestors(plan.dependsOn, b)
               PROVE  \E r \in plan.refs[b] : memAct'[r] \in {"failed", "skipped"}
    BY <1>0 DEF UpstreamTemplatesResolve
  <2>1. \A r \in Action : memAct[r] \in {"failed", "skipped"} => memAct'[r] = memAct[r]
    BY DEF Terminal
  <2>2. plan.refs[b] \subseteq Action
    BY PlanFields DEF TypeOK
  <2>3. CASE error[b] = "unresolved"
    BY <2>1, <2>2, <2>3 DEF UpstreamTemplatesResolve
  <2>4. CASE error[b] # "unresolved"
    <3>1. b = a /\ memAct[a] \notin Terminal /\ ~ plan.refs[a] \subseteq results
      BY <2>4
    <3>2. pc = "gather" /\ a \in Action \ remaining
      BY <1>1, <1>2, <1>3, <3>1 DEF Positions, PositionOf, Terminal
    <3>3. PICK r \in plan.refs[a] : r \notin results
      BY <3>1
    <3>4. r \in Action /\ memAct[r] \in Terminal
      BY <2>2, <3>1, <3>2, UpstreamOver
    <3>5. memAct[r] \in {"failed", "skipped"}
      BY <3>3, <3>4 DEF Positions, PositionOf, Terminal
    <3> QED
      BY <2>1, <3>1, <3>3, <3>4, <3>5
  <2> QED
    BY <2>3, <2>4
<1> QED
  BY <1>6, <1>7, <1>8, <1>9, <1>10, <1>11, <1>12, <1>13

(***************************************************************************)
(* The run is ended from outside, the DELETE request, and stuttering.      *)
(***************************************************************************)
\* A cancellation, timeout or crash of the run preserves the invariant.
LEMMA EndInv ==
    ASSUME ExecutorInv, NEW how \in {"cancelled", "crashed"}, End(how),
           delete' \in {"idle", "read", "write", "replied"}
    PROVE  ExecutorInv'
<1>1. /\ pc' = how
      /\ UNCHANGED <<ctlVars, loopVars, actVars, memPlan>>
      /\ dbPlan' \in {dbPlan, PlanWrite}
      /\ AbortFailed' = AbortFailed
  BY DEF End, AbortFailed, ctlVars, actVars
<1>2. PICK S \in SUBSET {a \in Action : apc[a] \in ApcStore} :
        dbAct' = [a \in Action |-> IF a \in S THEN memAct[a] ELSE dbAct[a]]
  BY DEF End
<1>3. /\ dbPlan' \in PlanStatus \cup {"none"}
      /\ dbPlan' = "completed" => memPlan = "completed"
  BY <1>1 DEF PlanWrite, ExecutorInv, TypeOK, PlanStatus, PlanStatuses
<1>4. pc' \in PcEnded /\ pc' # "done"
  BY <1>1 DEF PcEnded
<1> USE DEF ctlVars, loopVars, actVars
<1>5. TypeOK'
  BY <1>1, <1>2, <1>3, <1>4 DEF ExecutorInv, TypeOK, Pc, MaxAttempts
<1>6. Positions'
  BY <1>1 DEF ExecutorInv, Positions, PositionOf, MaxAttempts
<1>7. WavesCut'
  BY <1>1 DEF ExecutorInv, WavesCut, Untouched, PcPreflight
<1>8. AbortsInWave' /\ Cascaded'
  BY <1>1 DEF ExecutorInv, AbortsInWave, Cascaded, PcPreflight
<1>9. Stored'
  BY <1>1, <1>2 DEF ExecutorInv, Stored, Terminal, ApcStore, TypeOK
<1>10. PlanStatuses'
  BY <1>1, <1>3, <1>4 DEF ExecutorInv, PlanStatuses, AllCompleted,
                          PcPreflight
<1>11. UpstreamTemplatesResolve'
  BY <1>1 DEF ExecutorInv, UpstreamTemplatesResolve
<1> QED
  BY <1>5, <1>6, <1>7, <1>8, <1>9, <1>10, <1>11 DEF ExecutorInv

\* Steps that change at most the row of the plan and the DELETE request.
LEMMA RequestInv ==
    ASSUME ExecutorInv,
           UNCHANGED <<ctlVars, loopVars, actVars, pc, memPlan, dbAct>>,
           dbPlan' \in {dbPlan, "cancelled"},
           delete' \in {"idle", "read", "write", "replied"}
    PROVE  ExecutorInv'
<1> USE DEF ctlVars, loopVars, actVars
<1>1. TypeOK'
  BY DEF ExecutorInv, TypeOK, MaxAttempts, PlanStatus
<1>2. Positions' /\ Stored'
  BY DEF ExecutorInv, Positions, PositionOf, MaxAttempts, Stored
<1>3. WavesCut'
  BY DEF ExecutorInv, WavesCut, Untouched
<1>4. AbortsInWave' /\ Cascaded'
  BY DEF ExecutorInv, AbortsInWave, Cascaded, AbortFailed
<1>5. PlanStatuses'
  BY DEF ExecutorInv, PlanStatuses, AllCompleted
<1>6. UpstreamTemplatesResolve'
  BY DEF ExecutorInv, UpstreamTemplatesResolve
<1> QED
  BY <1>1, <1>2, <1>3, <1>4, <1>5, <1>6 DEF ExecutorInv

\* Every step of the specification preserves the invariant.
LEMMA NextInv ==
    ASSUME ExecutorInv, [Next]_vars
    PROVE  ExecutorInv'
<1>0. delete \in {"idle", "read", "write", "replied"}
  BY DEF ExecutorInv, TypeOK
<1>1. CASE PlanStep
  BY <1>1, PreflightInv, NextWaveInv, AfterWaveInv, SkipDescendantInv, FinishInv DEF PlanStep
<1>2. CASE \E a \in Action : ActionStep(a)
  BY <1>2, ActionStepMoves, CoroutineMoveInv
<1>3. CASE CancelPlan \/ SyncTimeout
  BY <1>0, <1>3, EndInv DEF CancelPlan, SyncTimeout
<1>4. CASE Crash
  BY <1>0, <1>4, EndInv DEF Crash
<1>5. CASE DeletePlan
  BY <1>0, <1>5, EndInv, RequestInv DEF DeletePlan
<1>6. CASE DeleteReads \/ DeleteWrites
  BY <1>0, <1>6, RequestInv DEF DeleteReads, DeleteWrites
<1>7. CASE UNCHANGED vars
  BY <1>0, <1>7, RequestInv DEF vars
<1> QED
  BY <1>1, <1>2, <1>3, <1>4, <1>5, <1>6, <1>7 DEF Next, ExecutorStep, ClientStep

(***************************************************************************)
(* The theorems.                                                           *)
(***************************************************************************)

\* The inductive invariant holds in every reachable state.
THEOREM ExecutorInvariant == Spec => []ExecutorInv
<1>1. Init => ExecutorInv
  BY InitInv
<1>2. ExecutorInv /\ [Next]_vars => ExecutorInv'
  BY NextInv
<1> QED
  BY <1>1, <1>2, PTL DEF Spec

\* TypeOK for every plan: in particular the attempt loop never exceeds
\* MaxAttempts, whatever the interleaving.
THEOREM TypeCorrect == Spec => []TypeOK
<1>1. ExecutorInv => TypeOK
  BY DEF ExecutorInv
<1> QED
  BY <1>1, ExecutorInvariant, PTL

\* _run_action is scheduled for no action before its dependencies are over,
\* for every graph, mode and failure policy.
THEOREM DependenciesFirst == Spec => []StartedAfterDependencies
<1>1. ExecutorInv => StartedAfterDependencies
  <2> SUFFICES ASSUME ExecutorInv, NEW a \in Action, Started(a), NEW d \in plan.dependsOn[a]
               PROVE  apc[d] \in ApcSettled /\ memAct[d] \in Terminal
    BY DEF StartedAfterDependencies
  <2>1. a \notin remaining
    BY DEF ExecutorInv, WavesCut, Untouched, Positions, PositionOf, Started,
           Terminal, TypeOK
  <2>2. d \in Action \ (remaining \cup wave)
    BY <2>1, PlanFields DEF ExecutorInv, TypeOK, WavesCut
  <2> QED
    BY <2>2 DEF ExecutorInv, WavesCut, Positions, PositionOf, ApcSettled, Terminal
<1> QED
  BY <1>1, ExecutorInvariant, PTL

\* The two guards for actions an earlier cascade covers, at the head of the
\* wave loop and of _run_action, never fire: while actions are scheduled or
\* run, cascade_skipped is empty.
THEOREM CascadeGuardsAreDead == Spec => [](pc \in {"next_wave", "gather"} => cascade = {})
<1>1. ExecutorInv => (pc \in {"next_wave", "gather"} => cascade = {})
  BY DEF ExecutorInv, AbortsInWave
<1> QED
  BY <1>1, ExecutorInvariant, PTL

\* Nothing downstream of an ABORT failure is ever scheduled.
THEOREM AbortIsContained == Spec => []AbortContained
<1>1. ExecutorInv => AbortContained
  <2> SUFFICES ASSUME ExecutorInv, NEW d \in AbortFailed,
                      NEW a \in Descendants(plan.dependsOn, d)
               PROVE  attempt[a] = 0 /\ memAct[a] \in {"pending", "skipped"}
    BY DEF AbortContained
  <2>1. a \in remaining
    BY DownstreamRemains DEF ExecutorInv, AbortsInWave
  <2> QED
    BY <2>1 DEF ExecutorInv, TypeOK, WavesCut, Untouched, Positions, PositionOf, Terminal
<1> QED
  BY <1>1, ExecutorInvariant, PTL

\* When a run ends by itself the whole cascade of an ABORT failure is
\* SKIPPED, in memory and in the store.
THEOREM AbortDoesCascade == Spec => []AbortCascades
<1>1. ExecutorInv => AbortCascades
  BY DEF ExecutorInv, AbortCascades, Cascaded, Stored, Descendants
<1> QED
  BY <1>1, ExecutorInvariant, PTL

\* A plan stored as COMPLETED has no action pending, failed or running.
THEOREM CompletedIsSound == Spec => []CompletedPlanSound
<1>1. ExecutorInv => CompletedPlanSound
  BY DEF ExecutorInv, CompletedPlanSound, PlanStatuses, AllCompleted
<1> QED
  BY <1>1, ExecutorInvariant, PTL

\* A template on an upstream action never fails for a reason of timing.
THEOREM TemplatesResolve == Spec => []UpstreamTemplatesResolve
<1>1. ExecutorInv => UpstreamTemplatesResolve
  BY DEF ExecutorInv
<1> QED
  BY <1>1, ExecutorInvariant, PTL

\* The store never shows a terminal status the executor has not decided, and
\* a run that ends by itself leaves every status stored.
THEOREM StoreFollows == Spec => []StoreFollowsMemory
<1>1. ExecutorInv => StoreFollowsMemory
  <2> SUFFICES ASSUME ExecutorInv, NEW a \in Action, pc = "done", apc[a] # "raised"
               PROVE  dbAct[a] = memAct[a]
    BY DEF ExecutorInv, StoreFollowsMemory, Stored
  <2>1. apc[a] = "idle" \/ apc[a] = "done"
    BY DEF ExecutorInv, TypeOK, WavesCut, Untouched, Cascaded, ApcSettled
  <2> QED
    BY <2>1 DEF ExecutorInv, Stored, Positions, PositionOf
<1> QED
  BY <1>1, ExecutorInvariant, PTL

\* A terminal status of an action is never assigned again, in memory or in
\* the store, by no step of anyone.
THEOREM TerminalStays == Spec => TerminalIsFinal
<1> DEFINE Stays == \A a \in Action :
                /\ memAct[a] \in Terminal => memAct'[a] = memAct[a]
                /\ dbAct[a] \in Terminal => dbAct'[a] = dbAct[a]
<1>1. ASSUME ExecutorInv, [Next]_vars PROVE Stays
  <2>0. \A a \in Action : dbAct[a] \in Terminal => dbAct[a] = memAct[a]
    BY <1>1 DEF ExecutorInv, Stored
  <2>1. CASE NextWave
    <3>1. cascade = {}
      BY <1>1, <2>1 DEF ExecutorInv, AbortsInWave, NextWave
    <3> QED
      BY <2>1, <3>1 DEF NextWave
  <2>2. CASE \E a \in Action : SkipDescendant(a)
    BY <1>1, <2>2 DEF SkipDescendant, Terminal, ExecutorInv, TypeOK
  <2>3. CASE \E a \in Action : ActionStep(a)
    <3>1. PICK a \in Action : CoroutineMove(a)
      BY <1>1, <2>3, ActionStepMoves
    <3> QED
      BY <2>0, <3>1 DEF CoroutineMove, MoveLocal, MoveStatus
  <2>4. ASSUME NEW how, End(how) PROVE Stays
    BY <2>0, <2>4 DEF End, actVars
  <2>5. CASE UNCHANGED <<memAct, dbAct>>
    BY <2>5
  <2> QED
    BY <1>1, <2>1, <2>2, <2>3, <2>4, <2>5
    DEF Next, ExecutorStep, PlanStep, ClientStep, CreatePlan, Authorize, ScanInput,
        VerifyIntent, RejectPlan, StoreRunning, AfterWave, Finish, StoreFinal, CancelPlan,
        SyncTimeout, Crash, DeletePlan, DeleteReads, DeleteWrites, vars, actVars
<1>2. TerminalIsFinal <=> [][Stays]_vars
  BY PTL DEF TerminalIsFinal
<1> QED
  BY <1>1, <1>2, ExecutorInvariant, PTL DEF Spec

\* A DELETE that finds the task has ended the run before it does anything
\* else, and only a DELETE writes CANCELLED.
AsyncEnded ==
    /\ origin = "async" /\ delete # "idle" => pc \in PcEnded
    /\ dbPlan = "cancelled" => delete # "idle"

\* CANCELLED is never overwritten on the row of an asynchronous plan.
THEOREM AsyncCancelStays == Spec => AsyncCancelSticks
<1>1. Init => AsyncEnded
  BY DEF Init, AsyncEnded
<1>2. ExecutorInv /\ AsyncEnded /\ [Next]_vars => AsyncEnded'
  <2> SUFFICES ASSUME ExecutorInv, AsyncEnded, [Next]_vars PROVE AsyncEnded'
    OBVIOUS
  <2>1. memPlan # "cancelled" /\ PlanWrite \in {"pending", "running", memPlan, dbPlan}
    BY DEF ExecutorInv, PlanStatuses, PlanWrite
  <2>2. CASE PlanStep
    BY <2>1, <2>2
    DEF PlanStep, CreatePlan, Authorize, ScanInput, VerifyIntent, RejectPlan, StoreRunning,
        NextWave, AfterWave, Finish, StoreFinal, SkipDescendant, AsyncEnded, PcEnded,
        PcPreflight, ctlVars
  <2>3. CASE \E a \in Action : ActionStep(a)
    BY <2>3, ActionStepMoves DEF CoroutineMove, MoveFrame, planVars, ctlVars, AsyncEnded
  <2>4. CASE ClientStep \/ Crash
    BY <2>1, <2>4 DEF ClientStep, CancelPlan, SyncTimeout, Crash, DeletePlan, DeleteReads,
                      DeleteWrites, End, AsyncEnded, PcEnded, ctlVars
  <2>5. CASE UNCHANGED vars
    BY <2>5 DEF vars, AsyncEnded, ctlVars
  <2> QED
    BY <2>2, <2>3, <2>4, <2>5 DEF Next, ExecutorStep
<1>3. AsyncEnded /\ [Next]_vars =>
        [origin = "async" /\ dbPlan = "cancelled" => dbPlan' = "cancelled"]_vars
  <2> SUFFICES ASSUME AsyncEnded, Next, origin = "async", dbPlan = "cancelled"
               PROVE  dbPlan' = "cancelled"
    BY DEF vars
  <2>1. pc \in PcEnded
    BY DEF AsyncEnded
  <2> QED
    BY <2>1
    DEF Next, ExecutorStep, ClientStep, PlanStep, CreatePlan, Authorize, ScanInput,
        VerifyIntent, RejectPlan, StoreRunning, NextWave, AfterWave, Finish, StoreFinal,
        SkipDescendant, ActionStep, BoundedStep, FailUnresolved, FailDenied, AwaitApproval, StartAction,
        Approved, ApprovalSkipped, ApprovalRejected, DispatchOk, Backoff, Retry,
        DispatchTimeout, DispatchRefused, DispatchError, Rollback, StoreAction, StoreRaises,
        At, CancelPlan, SyncTimeout, Crash, DeletePlan, DeleteReads, DeleteWrites, End, PcEnded
<1> QED
  BY <1>1, <1>2, <1>3, ExecutorInvariant, PTL DEF Spec, AsyncCancelSticks

(***************************************************************************)
(* The refinement.                                                         *)
(***************************************************************************)

\* A coroutine that changes the status of its action makes a Move of the
\* life cycle: it is in the wave, so nothing upstream of it has aborted.
LEMMA CoroutineRefines ==
    ASSUME ExecutorInv, NEW a \in Action, CoroutineMove(a), memAct' # memAct
    PROVE  Lifecycle!Move(a)
<1>1. pc = "gather" /\ memPlan = "running" /\ UNCHANGED <<plan, memPlan>>
  BY DEF ExecutorInv, PlanStatuses, CoroutineMove, MoveFrame, planVars, ctlVars
<1>2. memAct' = [memAct EXCEPT ![a] = memAct'[a]] /\ memAct'[a] # memAct[a]
  BY DEF ExecutorInv, TypeOK, CoroutineMove, MoveTypes, MoveLocal
<1>3. memAct'[a] \in Lifecycle!Follows[memAct[a]]
  BY <1>2 DEF CoroutineMove, MoveStatus
<1>4. a \in wave /\ a \notin remaining
  BY <1>1 DEF ExecutorInv, WavesCut, CoroutineMove, MoveFrame, ApcSettled, PcPreflight
<1>5. \A d \in plan.dependsOn[a] : memAct[d] \in Lifecycle!Over
  <2> SUFFICES ASSUME NEW d \in plan.dependsOn[a] PROVE memAct[d] \in Lifecycle!Over
    OBVIOUS
  <2>1. d \in Action \ (remaining \cup wave)
    BY <1>4, PlanFields DEF ExecutorInv, TypeOK, WavesCut
  <2> QED
    BY <2>1 DEF ExecutorInv, WavesCut, Positions, PositionOf, ApcSettled, Terminal, Lifecycle!Over
<1>6. ~ Lifecycle!Aborted(a)
  <2> SUFFICES ASSUME NEW d \in AbortFailed, a \in Descendants(plan.dependsOn, d) PROVE FALSE
    BY DEF Lifecycle!Aborted, AbortFailed, Lifecycle!Descendants, Descendants,
           Lifecycle!Successors, Successors
  <2> QED
    BY <1>4, DownstreamRemains DEF ExecutorInv, AbortsInWave
<1> QED
  BY <1>1, <1>2, <1>3, <1>5, <1>6 DEF Lifecycle!Move

\* The end of the wave loop is the Conclude of the life cycle: no coroutine
\* is left between two statuses.
LEMMA FinishRefines ==
    ASSUME ExecutorInv, Finish
    PROVE  Lifecycle!Conclude
<1>1. memPlan = "running" /\ memPlan' = FinalStatus /\ UNCHANGED <<plan, memAct>>
  BY DEF ExecutorInv, PlanStatuses, Finish, ctlVars, actVars
<1>2. ASSUME NEW a \in Action PROVE memAct[a] \notin {"running", "awaiting_approval"}
  BY DEF ExecutorInv, Finish, TypeOK, WavesCut, Untouched, Positions, PositionOf, ApcSettled,
         Terminal
<1> QED
  BY <1>1, <1>2 DEF Lifecycle!Conclude, FinalStatus, AllCompleted

\* A descendant that is skipped is Aborted.
LEMMA SkipRefines ==
    ASSUME ExecutorInv, NEW a \in Action, SkipDescendant(a)
    PROVE  Lifecycle!Move(a)
<1>1. /\ memPlan = "running" /\ UNCHANGED <<plan, memPlan>> /\ memAct[a] = "pending"
      /\ memAct' = [memAct EXCEPT ![a] = "skipped"]
  BY DEF ExecutorInv, PlanStatuses, SkipDescendant, ctlVars
<1>2. \E d \in AbortFailed : a \in Descendants(plan.dependsOn, d)
  BY DEF ExecutorInv, AbortsInWave, SkipDescendant
<1>3. Lifecycle!Aborted(a)
  BY <1>2 DEF Lifecycle!Aborted, AbortFailed, Lifecycle!Descendants, Descendants,
              Lifecycle!Successors, Successors
<1>4. "skipped" \in Lifecycle!Follows[memAct[a]]
  BY <1>1 DEF Lifecycle!Follows
<1> QED
  BY <1>1, <1>3, <1>4 DEF Lifecycle!Move

\* The executor implements the life cycle: for every plan, a step of the
\* detailed specification is a step of PlanLifecycle or changes no status.
THEOREM LifecycleRefinement == Spec => ImplementsLifecycle
<1>1. Init => Lifecycle!LifecycleInit
  BY PlanFields DEF Init, Lifecycle!LifecycleInit, Lifecycle!Graph
<1>2. ASSUME ExecutorInv, [Next]_vars
      PROVE  [Lifecycle!LifecycleNext]_Lifecycle!lifecycleVars
  <2>1. CASE RejectPlan
    BY <1>2, <2>1 DEF RejectPlan, ExecutorInv, PlanStatuses, PcPreflight, ctlVars, actVars,
                Lifecycle!LifecycleNext, Lifecycle!Reject
  <2>2. CASE StoreRunning
    BY <1>2, <2>2 DEF StoreRunning, ExecutorInv, PlanStatuses, ctlVars, actVars,
                Lifecycle!LifecycleNext, Lifecycle!Begin
  <2>3. CASE Finish
    BY <1>2, <2>3, FinishRefines DEF Lifecycle!LifecycleNext
  <2>4. CASE \E a \in Action : SkipDescendant(a)
    BY <1>2, <2>4, SkipRefines DEF Lifecycle!LifecycleNext
  <2>5. CASE \E a \in Action : ActionStep(a)
    <3>1. PICK a \in Action : CoroutineMove(a)
      BY <1>2, <2>5, ActionStepMoves
    <3>2. CASE memAct' # memAct
      BY <1>2, <3>1, <3>2, CoroutineRefines DEF Lifecycle!LifecycleNext
    <3>3. CASE memAct' = memAct
      BY <3>1, <3>3 DEF CoroutineMove, MoveFrame, planVars, ctlVars, Lifecycle!lifecycleVars
    <3> QED
      BY <3>2, <3>3
  <2>6. CASE NextWave
    <3>1. cascade = {}
      BY <1>2, <2>6 DEF ExecutorInv, AbortsInWave, NextWave
    <3>2. memAct' = memAct
      BY <1>2, <2>6, <3>1 DEF NextWave, ExecutorInv, TypeOK
    <3> QED
      BY <2>6, <3>2 DEF NextWave, ctlVars, Lifecycle!lifecycleVars
  <2>7. CASE UNCHANGED <<plan, memPlan, memAct>>
    BY <2>7 DEF Lifecycle!lifecycleVars
  <2> QED
    BY <1>2, <2>1, <2>2, <2>3, <2>4, <2>5, <2>6, <2>7
    DEF Next, ExecutorStep, PlanStep, ClientStep, CreatePlan, Authorize, ScanInput,
        VerifyIntent, AfterWave, StoreFinal, CancelPlan, SyncTimeout, Crash, DeletePlan,
        DeleteReads, DeleteWrites, End, vars, ctlVars, actVars
<1> QED
  BY <1>1, <1>2, ExecutorInvariant, PTL DEF Spec, ImplementsLifecycle, Lifecycle!LifecycleSpec

=============================================================================
