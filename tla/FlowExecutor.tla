---------------------------- MODULE FlowExecutor ----------------------------
(***************************************************************************)
(* FlowExecutor (apps/flow_executor.py): the steps of a flow are a tree    *)
(* that execute walks, in as many tasks as parallel and race steps create, *)
(* with a checkpoint in the KV store after each step of the top level.     *)
(*                                                                         *)
(* A step is begun, is "on" until its _execute_step leaves, and then has   *)
(* an outcome the step around it consumes: a result that is a success or a *)
(* failure, an exception, CancelledError, FlowEndSignal, or FlowGotoSignal *)
(* (the outcome is then the step that is the target).                      *)
(*                                                                         *)
(* Abstractions.  Parameters, expressions and outputs are left out: a leaf *)
(* awaits, and then returns or raises as it likes, a branch takes any case,*)
(* until may hold after any iteration.  A case is one step, a try has at   *)
(* most one handler and that has a step; a step around others has at least *)
(* one.  A macro is a pipe; map and reduce are left out.  Within one task  *)
(* a step that leaves and the step around it that goes on are two steps of *)
(* the model.  The failures of the KV store the code logs and forgets are  *)
(* there.                                                                  *)
(***************************************************************************)
EXTENDS Naturals, Sequences, FiniteSets

CONSTANTS
    Step,           \* the steps of the flow
    None,           \* no step
    Named,          \* the steps with an id
    Top,            \* the steps of the top level
    Kind,           \* the kind of each step
    Kids,           \* the steps directly in each step, in order
    Catch,          \* try: the step of the handler that may match, or None
    Then,           \* try: what the handler does then, "continue" or "fail"
    Finally,        \* try: its finally steps
    OnError,        \* on_error of each step: "fail", or one that goes on
    Goto,           \* the target of each goto step
    MaxConcurrent,  \* parallel: max_concurrent
    MaxIterations,  \* loop: max_iterations
    MaxJumps,       \* max_goto_jumps
    MaxRuns         \* bound on how often the flow is executed

\* What the handler of a leaf can end with.  An "action" is also a dispatch, a
\* spawn and a wait, which end as actions do; the others return no failure:
\* "agent" is also an emit and an approval with a handler, and a "hang" is one
\* of these that may never return.
Outcomes(kind) == {"ok", "raised"} \union (IF kind = "action" THEN {"failed"} ELSE {})
Leaf == {"action", "agent", "hang"}
InOrder == {"sequence", "branch", "loop", "pipe"}
FanOut == {"gather", "failfast", "race"}
Waits == {"failfast", "race"}       \* they await asyncio.wait

\* What _execute_step can leave with, besides the target of a goto.
Left == {"ok", "failed", "raised", "end", "cancelled"}

TopSteps == {Top[j] : j \in 1..Len(Top)}

ASSUME TreeAssumption ==
    /\ IsFiniteSet(Step) /\ None \notin Step
    /\ Top \in Seq(Step)
    /\ Kind \in [Step -> Leaf \union InOrder \union FanOut \union {"end", "goto", "try"}]
    /\ Kids \in [Step -> Seq(Step)]
    /\ Catch \in [Step -> Step \union {None}]
    /\ Finally \in [Step -> Seq(Step)]
    /\ Goto \in [Step -> Step \union {None}]
    /\ Named \subseteq Step
ASSUME OptionAssumption ==
    /\ Then \in [Step -> {"continue", "fail"}]
    /\ OnError \in [Step -> {"fail", "continue"}]
    /\ MaxConcurrent \in Nat \ {0} /\ MaxIterations \in Nat \ {0}
    /\ MaxJumps \in Nat /\ MaxRuns \in Nat \ {0}

KidSet(p) == {Kids[p][k] : k \in 1..Len(Kids[p])}
FinallySet(p) == {Finally[p][k] : k \in 1..Len(Finally[p])}
Inside == [p \in Step |-> KidSet(p) \union FinallySet(p) \union ({Catch[p]} \ {None})]
Under(p) == Inside[p]

Around(s) == CHOOSE p \in Step : s \in Under(p)

\* The step the task that runs step s began with, its step of the top level,
\* and the steps around it, with itself.
Task[s \in Step] ==
    IF s \in TopSteps \/ Kind[Around(s)] \in FanOut THEN s ELSE Task[Around(s)]
TopOf[s \in Step] == IF s \in TopSteps THEN s ELSE TopOf[Around(s)]
Above[s \in Step] == {s} \union IF s \in TopSteps THEN {} ELSE Above[Around(s)]

Distinct(steps) == \A j, k \in 1..Len(steps) : steps[j] = steps[k] => j = k

\* The flow is a tree: a step is at one place, at the top or under one other
\* step.  The last three conjuncts unfold what is defined along it.
ASSUME ShapeAssumption ==
    /\ Step \intersect (Left \union {"off", "queued", "on"}) = {}
    /\ Distinct(Top)
    /\ \A p \in Step :
         /\ Distinct(Kids[p]) /\ Distinct(Finally[p])
         /\ KidSet(p) \intersect FinallySet(p) = {}
         /\ Catch[p] \notin KidSet(p) \union FinallySet(p)
         /\ p \notin Under(p) /\ Under(p) \intersect TopSteps = {}
         /\ \A q \in Step \ {p} : Under(p) \intersect Under(q) = {}
         /\ Kind[p] # "try" => Catch[p] = None /\ Finally[p] = <<>>
         /\ Kids[p] = <<>> <=> Kind[p] \in Leaf \union {"end", "goto"}
         /\ Kind[p] = "goto" => Goto[p] \in Step
    /\ \A s \in TopSteps : TopOf[s] = s /\ Above[s] = {s}
    /\ \A p \in Step : \A c \in Under(p) :
         TopOf[c] = TopOf[p] /\ Above[c] = {c} \union Above[p]
    /\ \A s \in Step :
         /\ s \in Above[s] /\ Above[s] \subseteq Step
         /\ \A a \in Above[s] : Above[a] \subseteq Above[s] /\ (a # s => s \notin Above[a])

VARIABLES
    run,        \* execute: "off", "running", "saving" (in _save_checkpoint), "over"
    runs,       \* how often the flow was executed
    i,          \* index of the step of the top level
    jumps,      \* goto_jumps
    stopped,    \* _stopped
    status,     \* what execute returned; "cancelling" when the run is cancelled
    st,         \* each step: "off", "queued", "on" or the outcome it left with
    pos,        \* where a step with children is in them, 0 when it begins
    phase,      \* where try, race and fail-fast parallel steps are
    pend,       \* the outcome they leave with after that
    clean,      \* no child has failed so far
    cancel,     \* the tasks asked to cancel, each by the step it begins with
    results,    \* _results: "none", "ok" or "failed"
    checkpoint  \* the checkpoint in the KV store: next index, results; 0 for none

vars == <<run, runs, i, jumps, stopped, status, st, pos, phase, pend, clean, cancel,
          results, checkpoint>>
flowVars == <<run, runs, i, jumps, stopped, status, checkpoint>>

NoCheckpoint == [index |-> 0, done |-> {}]

Init ==
    /\ run = "off"
    /\ runs = 0
    /\ i = 1
    /\ jumps = 0
    /\ stopped = FALSE
    /\ status = "none"
    /\ st = [s \in Step |-> "off"]
    /\ pos = [s \in Step |-> 0]
    /\ phase = [s \in Step |-> "body"]
    /\ pend = [s \in Step |-> "ok"]
    /\ clean = [s \in Step |-> TRUE]
    /\ cancel = {}
    /\ results = [s \in Step |-> "none"]
    /\ checkpoint = NoCheckpoint

Over(s) == st[s] \notin {"off", "queued", "on"}
Signal(o) == o = "end" \/ o \in Step    \* FlowEndSignal and FlowGotoSignal

\* CancelledError is raised where the task of s awaits.
Cancelled(s) == Task[s] \in cancel
-----------------------------------------------------------------------------
(* _execute_step *)

\* What step s leaves with when its handler ends with o, by its on_error.
Final(s, o) == IF o = "raised" /\ OnError[s] # "fail" THEN "failed" ELSE o

\* Step s leaves; the outcomes of its children kids have been consumed.
Leave(s, o, kids) ==
    /\ st' = [t \in Step |-> IF t = s THEN Final(s, o) ELSE IF t \in kids THEN "off" ELSE st[t]]
    /\ results' = IF s \in Named /\ Final(s, o) \in {"ok", "failed"}
                  THEN [results EXCEPT ![s] = Final(s, o)] ELSE results
    /\ cancel' = cancel \ IF Final(s, o) = "cancelled" THEN {Task[s]} ELSE {s}
    /\ pos' = [pos EXCEPT ![s] = 0]
    /\ phase' = [phase EXCEPT ![s] = "body"]
    /\ pend' = [pend EXCEPT ![s] = "ok"]
    /\ clean' = [clean EXCEPT ![s] = TRUE]
    /\ UNCHANGED flowVars

On(s) == st[s] = "on"

LeafReturns(s) ==
    /\ On(s) /\ Kind[s] \in Leaf /\ ~Cancelled(s)
    /\ \E o \in Outcomes(Kind[s]) : Leave(s, o, {})

LeafCancelled(s) ==
    /\ On(s) /\ Kind[s] \in Leaf /\ Cancelled(s)
    /\ Leave(s, "cancelled", {})

EndOrGoto(s) ==
    /\ On(s) /\ Kind[s] \in {"end", "goto"} /\ s \notin cancel
    /\ Leave(s, IF Kind[s] = "end" THEN "end" ELSE Goto[s], {})

\* A task that is cancelled before it runs at all.
CancelledAtOnce(s) ==
    /\ On(s) /\ Kind[s] \notin Leaf /\ pos[s] = 0 /\ s \in cancel
    /\ Leave(s, "cancelled", {})
-----------------------------------------------------------------------------
(* Steps that run their children one after the other *)

Child(p) == Kids[p][((pos[p] - 1) % Len(Kids[p])) + 1]
Last(p) == pos[p] = Len(Kids[p]) * (IF Kind[p] = "loop" THEN MaxIterations ELSE 1)
EndOfBody(p) == pos[p] % Len(Kids[p]) = 0

\* The child of p at k is begun, after the one before it was consumed.
Begin(p, k, consumed) ==
    LET next == Kids[p][((k - 1) % Len(Kids[p])) + 1]
    IN  /\ st' = [t \in Step |-> IF t = next THEN "on"
                                 ELSE IF t \in consumed THEN "off" ELSE st[t]]
        /\ pos' = [pos EXCEPT ![p] = k]
        /\ UNCHANGED <<flowVars, phase, pend, cancel, results>>

\* _stopped is looked at before each step of a sequence and each iteration.
Stops(p) == stopped /\ (Kind[p] = "sequence" \/ (Kind[p] = "loop" /\ EndOfBody(p)))

EnterInOrder(p) ==
    /\ On(p) /\ Kind[p] \in InOrder /\ pos[p] = 0 /\ p \notin cancel
    /\ \/ /\ Stops(p) \/ Kind[p] = "branch"     \* no case matches
          /\ Leave(p, "ok", {})
       \/ /\ ~Stops(p)
          /\ UNCHANGED clean
          /\ \E k \in (IF Kind[p] = "branch" THEN 1..Len(Kids[p]) ELSE {1}) :
                Begin(p, k, {})

\* Mutant: the last child decides.
LastFine(p) == st[Child(p)] = "ok"

\* all_ok, over the children that were executed.
Fine(p) == clean[p] /\ st[Child(p)] = "ok"

GoOn(p) ==
    /\ On(p) /\ Kind[p] \in InOrder /\ pos[p] > 0
    /\ LET c == Child(p)
       IN  /\ Over(c)
           /\ IF st[c] \notin {"ok", "failed"} THEN Leave(p, st[c], {c})
              ELSE \/ /\ \/ Last(p) \/ Kind[p] = "branch" \/ Stops(p)
                         \/ Kind[p] = "pipe" /\ st[c] = "failed"
                         \/ Kind[p] = "loop" /\ EndOfBody(p)    \* until
                      /\ Leave(p, IF Fine(p) THEN "ok" ELSE "failed", {c})
                   \/ /\ ~Last(p) /\ Kind[p] # "branch" /\ ~Stops(p)
                      /\ ~(Kind[p] = "pipe" /\ st[c] = "failed")
                      /\ clean' = [clean EXCEPT ![p] = Fine(p)]
                      /\ Begin(p, pos[p] + 1, {c})

-----------------------------------------------------------------------------
(* Steps that run their children in tasks of their own *)

KidsOver(p) == \A c \in KidSet(p) : Over(c)
Unfinished(p) == {c \in KidSet(p) : ~Over(c)}

\* create_task for every child; those of a parallel step wait for its semaphore.
\* A child an earlier race or fail-fast step left behind has ended by then.
EnterFanOut(p) ==
    /\ On(p) /\ Kind[p] \in FanOut /\ pos[p] = 0 /\ p \notin cancel
    /\ \A c \in KidSet(p) : st[c] = "off"
    /\ st' = [t \in Step |-> IF t \notin KidSet(p) THEN st[t]
                             ELSE IF Kind[p] = "race" THEN "on" ELSE "queued"]
    /\ pos' = [pos EXCEPT ![p] = 1]
    /\ UNCHANGED <<flowVars, phase, pend, clean, cancel, results>>

\* run_with_sem
GetsSemaphore(p, c) ==
    /\ Kind[p] \in FanOut
    /\ st[c] = "queued" /\ c \notin cancel
    /\ Cardinality({k \in KidSet(p) : st[k] = "on"}) < MaxConcurrent
    /\ st' = [st EXCEPT ![c] = "on"]
    /\ UNCHANGED <<flowVars, pos, phase, pend, clean, cancel, results>>

QueuedCancelled(c) ==
    /\ st[c] = "queued" /\ c \in cancel
    /\ st' = [st EXCEPT ![c] = "cancelled"]
    /\ cancel' = cancel \ {c}
    /\ UNCHANGED <<flowVars, pos, phase, pend, clean, results>>

\* Mutant: the children that are pending are awaited but not cancelled.
DecidesWithoutCancel(p, c) ==
    /\ On(p) /\ Kind[p] \in Waits /\ pos[p] = 1 /\ phase[p] = "body" /\ ~Cancelled(p)
    /\ Over(c)
    /\ Kind[p] = "failfast" => st[c] # "ok"
    /\ phase' = [phase EXCEPT ![p] = "cleanup"]
    /\ pend' = [pend EXCEPT ![p] = IF st[c] = "ok" THEN "ok" ELSE "failed"]
    /\ UNCHANGED <<flowVars, st, pos, clean, cancel, results>>

\* asyncio.wait comes back with a child that decides: the first one of a race,
\* or one that failed or raised in a fail-fast step.  The others are cancelled.
Decides(p, c) ==
    /\ On(p) /\ Kind[p] \in Waits /\ pos[p] = 1 /\ phase[p] = "body" /\ ~Cancelled(p)
    /\ Over(c)
    /\ Kind[p] = "failfast" => st[c] # "ok"
    /\ phase' = [phase EXCEPT ![p] = "cleanup"]
    /\ pend' = [pend EXCEPT ![p] = IF st[c] = "ok" THEN "ok" ELSE "failed"]
    /\ cancel' = cancel \union Unfinished(p)
    /\ UNCHANGED <<flowVars, st, pos, clean, results>>

\* All children are over and none is awaited any more.
Gathered(p) ==
    /\ On(p) /\ Kind[p] \in FanOut /\ pos[p] = 1 /\ KidsOver(p)
    /\ \/ phase[p] = "cleanup"
       \/ Kind[p] = "gather"
       \/ Kind[p] = "failfast" /\ \A c \in KidSet(p) : st[c] = "ok"
    /\ Leave(p, IF Cancelled(p) THEN "cancelled"
                ELSE IF phase[p] = "cleanup" \/ pend[p] = "cancelled" THEN pend[p]
                ELSE IF \A c \in KidSet(p) : st[c] = "ok" THEN "ok" ELSE "failed",
             KidSet(p))

\* Mutant: it leaves without waiting, as asyncio.wait does.
CancelGatherLeaves(p) ==
    /\ On(p) /\ (Kind[p] = "gather" \/ phase[p] = "cleanup")
    /\ pos[p] = 1 /\ Cancelled(p) /\ Unfinished(p) # {}
    /\ Leave(p, "cancelled", {c \in KidSet(p) : Over(c)})

\* gather passes a cancellation on to its children, waits for them and raises;
\* asyncio.wait only raises, and its tasks go on with nobody to await them.
CancelGather(p) ==
    /\ On(p) /\ (Kind[p] = "gather" \/ phase[p] = "cleanup")
    /\ pos[p] = 1 /\ Cancelled(p) /\ Unfinished(p) # {}
    /\ cancel' = (cancel \ {Task[p]}) \union Unfinished(p)
    /\ pend' = [pend EXCEPT ![p] = "cancelled"]
    /\ UNCHANGED <<flowVars, st, pos, phase, clean, results>>

CancelWait(p) ==
    /\ On(p) /\ Kind[p] \in Waits /\ pos[p] = 1 /\ phase[p] = "body" /\ Cancelled(p)
    /\ Leave(p, "cancelled", {c \in KidSet(p) : Over(c)})

\* The task of a child nobody awaits ends.
Abandoned(c) ==
    /\ Over(c) /\ c \notin TopSteps
    /\ \A p \in Step : c \in Under(p) => st[p] # "on"
    /\ st' = [st EXCEPT ![c] = "off"]
    /\ UNCHANGED <<flowVars, pos, phase, pend, clean, cancel, results>>
-----------------------------------------------------------------------------
(* try, catch, finally *)

Current(p) == IF phase[p] = "body" THEN Kids[p][pos[p]] ELSE Finally[p][pos[p]]

\* The handler is left with outcome o: the finally steps come first.
ToFinally(p, o, consumed) ==
    IF Finally[p] = <<>>
    THEN Leave(p, o, consumed)
    ELSE /\ st' = [t \in Step |-> IF t = Finally[p][1] THEN "on"
                                  ELSE IF t \in consumed THEN "off" ELSE st[t]]
         /\ phase' = [phase EXCEPT ![p] = "finally"]
         /\ pos' = [pos EXCEPT ![p] = 1]
         /\ pend' = [pend EXCEPT ![p] = o]
         /\ UNCHANGED <<flowVars, clean, cancel, results>>

EnterTry(p) ==
    /\ On(p) /\ Kind[p] = "try" /\ pos[p] = 0 /\ p \notin cancel
    /\ UNCHANGED clean
    /\ Begin(p, 1, {})

\* A try step succeeded.
TryGoesOn(p) ==
    /\ On(p) /\ Kind[p] = "try" /\ phase[p] = "body" /\ pos[p] > 0
    /\ st[Current(p)] = "ok"
    /\ IF pos[p] = Len(Kids[p]) THEN ToFinally(p, "ok", {Current(p)})
       ELSE Begin(p, pos[p] + 1, {Current(p)}) /\ UNCHANGED clean

\* A try step failed or raised; the signals of end and goto are exceptions too.
TryFails(p) ==
    /\ On(p) /\ Kind[p] = "try" /\ phase[p] = "body" /\ pos[p] > 0
    /\ LET o == st[Current(p)]
           again == IF o \in {"failed", "raised"} THEN "raised" ELSE o
       IN  /\ o \in {"failed", "raised"} \/ Signal(o)
           /\ \/ ToFinally(p, "failed", {Current(p)})     \* no handler matches
              \/ /\ Catch[p] # None
                 /\ st' = [st EXCEPT ![Current(p)] = "off", ![Catch[p]] = "on"]
                 /\ phase' = [phase EXCEPT ![p] = "catch"]
                 /\ clean' = [clean EXCEPT ![p] = o # "failed"]
                 /\ pend' = [pend EXCEPT ![p] = IF Then[p] = "fail" THEN again ELSE "ok"]
                 /\ UNCHANGED <<flowVars, pos, cancel, results>>

\* The step of the handler is over: then = "fail" raises what was caught again.
CatchEnds(p) ==
    /\ On(p) /\ Kind[p] = "try" /\ phase[p] = "catch"
    /\ LET o == st[Catch[p]]
       IN  /\ Over(Catch[p])
           /\ ToFinally(p, IF o \notin {"ok", "failed"} THEN o
                           ELSE IF pend[p] # "ok" THEN pend[p]
                           ELSE IF clean[p] /\ o = "ok" THEN "ok" ELSE "failed",
                        {Catch[p]})

\* CancelledError is no Exception: no handler, only the finally steps.
TryCancelled(p) ==
    /\ On(p) /\ Kind[p] = "try" /\ phase[p] = "body" /\ pos[p] > 0
    /\ st[Current(p)] = "cancelled"
    /\ ToFinally(p, "cancelled", {Current(p)})

FinallyGoesOn(p) ==
    /\ On(p) /\ Kind[p] = "try" /\ phase[p] = "finally"
    /\ LET c == Current(p)
           o == IF pend[p] = "ok" /\ st[c] = "failed" THEN "failed" ELSE pend[p]
       IN  /\ Over(c)
           /\ IF st[c] \notin {"ok", "failed"} THEN Leave(p, st[c], {c})
              ELSE IF pos[p] = Len(Finally[p]) THEN Leave(p, o, {c})
              ELSE /\ st' = [st EXCEPT ![c] = "off", ![Finally[p][pos[p] + 1]] = "on"]
                   /\ pos' = [pos EXCEPT ![p] = @ + 1]
                   /\ pend' = [pend EXCEPT ![p] = o]
                   /\ UNCHANGED <<flowVars, phase, clean, cancel, results>>
-----------------------------------------------------------------------------
(* execute *)

treeVars == <<st, pos, phase, pend, clean, cancel>>

\* A run that is not asked to resume, finds no checkpoint or cannot read it starts
\* at the first step with no results, and leaves the checkpoint where it is.
Execute ==
    /\ run = "off" /\ runs < MaxRuns
    /\ run' = "running"
    /\ runs' = runs + 1
    /\ \/ /\ checkpoint.index > 0
          /\ i' = checkpoint.index
          /\ results' = [s \in Step |-> IF s \in checkpoint.done THEN "ok" ELSE "none"]
       \/ /\ i' = 1
          /\ results' = [s \in Step |-> "none"]
    /\ jumps' = 0
    /\ stopped' = FALSE
    /\ status' = "none"
    /\ UNCHANGED <<treeVars, checkpoint>>

NextTopStep ==
    /\ run = "running" /\ i <= Len(Top) /\ st[Top[i]] = "off" /\ ~stopped
    /\ st' = [st EXCEPT ![Top[i]] = "on"]
    /\ UNCHANGED <<flowVars, pos, phase, pend, clean, cancel, results>>

\* A step of the top level has a result.
TopStepEnds ==
    /\ run = "running" /\ i <= Len(Top) /\ st[Top[i]] \in {"ok", "failed"}
    /\ st' = [st EXCEPT ![Top[i]] = "off"]
    /\ i' = i + 1
    /\ run' = "saving"
    /\ UNCHANGED <<runs, jumps, stopped, status, pos, phase, pend, clean, cancel,
                   results, checkpoint>>

\* Mutant: the index of the step that ended is saved.
SaveCurrentStep ==
    /\ run = "saving"
    /\ run' = "running"
    /\ \/ checkpoint' = [index |-> i - 1, done |-> {s \in Step : results[s] = "ok"}]
       \/ UNCHANGED checkpoint
    /\ UNCHANGED <<runs, i, jumps, stopped, status, treeVars, results>>

\* _save_checkpoint: the results that are successes, and the next index.  When
\* the store fails the flow goes on without.
SaveCheckpoint ==
    /\ run = "saving"
    /\ run' = "running"
    /\ \/ checkpoint' = [index |-> i, done |-> {s \in Step : results[s] = "ok"}]
       \/ UNCHANGED checkpoint
    /\ UNCHANGED <<runs, i, jumps, stopped, status, treeVars, results>>

Jump ==
    /\ run = "running" /\ i <= Len(Top) /\ st[Top[i]] \in TopSteps /\ jumps < MaxJumps
    /\ jumps' = jumps + 1
    /\ i' = CHOOSE j \in 1..Len(Top) : Top[j] = st[Top[i]]
    /\ st' = [st EXCEPT ![Top[i]] = "off"]
    /\ UNCHANGED <<run, runs, stopped, status, pos, phase, pend, clean, cancel,
                   results, checkpoint>>

\* execute returns; _clear_checkpoint deletes the checkpoint or fails to.
Return(how, clear) ==
    /\ run' = "over"
    /\ status' = how
    /\ \/ clear /\ checkpoint' = NoCheckpoint
       \/ UNCHANGED checkpoint
    /\ st' = IF i <= Len(Top) THEN [st EXCEPT ![Top[i]] = "off"] ELSE st
    /\ UNCHANGED <<runs, i, jumps, stopped, pos, phase, pend, clean, cancel, results>>

FlowReturns ==
    /\ run = "running"
    /\ \/ /\ i > Len(Top) \/ (i <= Len(Top) /\ stopped /\ st[Top[i]] = "off")
          /\ Return("success", TRUE)
       \/ /\ i <= Len(Top) /\ st[Top[i]] = "end"
          /\ Return("end", TRUE)
       \/ /\ i <= Len(Top) /\ st[Top[i]] \in Step
          /\ jumps = MaxJumps \/ st[Top[i]] \notin TopSteps
          /\ Return("failure", FALSE)
       \/ /\ i <= Len(Top) /\ st[Top[i]] \in {"raised", "cancelled"}
          /\ Return(IF st[Top[i]] = "raised" THEN "failure" ELSE "cancelled", FALSE)

\* The tasks of this run are gone.
Forget ==
    /\ st' = [s \in Step |-> "off"]
    /\ pos' = [s \in Step |-> 0]
    /\ phase' = [s \in Step |-> "body"]
    /\ pend' = [s \in Step |-> "ok"]
    /\ clean' = [s \in Step |-> TRUE]
    /\ cancel' = {}

\* The caller executes the flow again under its flow_id, as the contract of the
\* class has it: tasks of the last run that nobody awaits are left out of it.
Again ==
    /\ run = "over" /\ runs < MaxRuns
    /\ run' = "off"
    /\ Forget
    /\ UNCHANGED <<runs, i, jumps, stopped, status, results, checkpoint>>

\* The process dies: only the KV store is left.
Crash ==
    /\ run \in {"running", "saving"}
    /\ run' = "off"
    /\ status' = "crashed"
    /\ Forget
    /\ results' = [s \in Step |-> "none"]
    /\ UNCHANGED <<runs, i, jumps, stopped, checkpoint>>

\* stop
Stop ==
    /\ run \in {"running", "saving"} /\ ~stopped
    /\ stopped' = TRUE
    /\ UNCHANGED <<run, runs, i, jumps, status, treeVars, results, checkpoint>>

\* The task of the flow is cancelled, by the timeout of a spawn step say, at most
\* once in a run.
CancelFlow ==
    \/ /\ run = "running" /\ status = "none" /\ i <= Len(Top) /\ st[Top[i]] = "on"
       /\ status' = "cancelling"
       /\ cancel' = cancel \union {Top[i]}
       /\ UNCHANGED <<run, runs, i, jumps, stopped, checkpoint, st, pos, phase, pend,
                      clean, results>>
    \/ /\ run = "saving"
       /\ Return("cancelled", FALSE)

Control(s) ==
    \/ EndOrGoto(s) \/ CancelledAtOnce(s) \/ LeafCancelled(s)
    \/ EnterInOrder(s) \/ GoOn(s)
    \/ EnterFanOut(s) \/ QueuedCancelled(s) \/ Gathered(s) \/ CancelGather(s)
    \/ CancelWait(s) \/ Abandoned(s)
    \/ \E c \in KidSet(s) : GetsSemaphore(s, c) \/ Decides(s, c)
    \/ EnterTry(s) \/ TryGoesOn(s) \/ TryFails(s) \/ CatchEnds(s) \/ TryCancelled(s)
    \/ FinallyGoesOn(s)

TopLevel == Execute \/ NextTopStep \/ TopStepEnds \/ SaveCheckpoint \/ Jump \/ FlowReturns

Next ==
    \/ \E s \in Step : Control(s) \/ LeafReturns(s)
    \/ TopLevel \/ Again \/ Crash \/ Stop \/ CancelFlow

\* The event loop runs what is ready, and every leaf returns except a hanging one.
Fairness ==
    WF_vars(\/ \E s \in Step : Control(s) \/ (Kind[s] # "hang" /\ LeafReturns(s))
            \/ TopLevel)

Spec == Init /\ [][Next]_vars /\ Fairness
-----------------------------------------------------------------------------
TypeOK ==
    /\ run \in {"off", "running", "saving", "over"}
    /\ runs \in 0..MaxRuns
    /\ i \in 1..Len(Top) + 1
    /\ jumps \in 0..MaxJumps
    /\ stopped \in BOOLEAN
    /\ status \in {"none", "success", "end", "failure", "cancelled", "cancelling",
                    "crashed"}
    /\ st \in [Step -> {"off", "queued", "on"} \union Left \union Step]
    /\ pos \in [Step -> Nat]
    /\ phase \in [Step -> {"body", "cleanup", "catch", "finally"}]
    /\ pend \in [Step -> Left \union Step]
    /\ clean \in [Step -> BOOLEAN]
    /\ cancel \subseteq Step
    /\ results \in [Step -> {"none", "ok", "failed"}]
    /\ checkpoint \in [index : 0..Len(Top) + 1, done : SUBSET Step]

\* A step runs only while the step around it does: a sequence, a try or a
\* gather never leaves a child running behind it.  The children of a race or
\* of a fail-fast step that was itself cancelled are the only orphans.
OnlyWaitsLeaveOrphans ==
    \A p \in Step : \A c \in Under(p) :
        st[c] \in {"queued", "on"} => st[p] = "on" \/ Kind[p] \in Waits

\* The gotos of the flow only jump forward; step s is in no loop.
Forward ==
    \A g \in Step, t \in 1..Len(Top), u \in 1..Len(Top) :
        Kind[g] = "goto" /\ Goto[g] = Top[t] /\ TopOf[g] = Top[u] => u < t
Once(s) == \A a \in Above[s] \ {s} : Kind[a] # "loop"

\* In a flow that only jumps forward, the recorded result of a step in no loop is
\* a success only if no result of its children is a failure, also where on_error
\* lets the flow go on after one, in a run that was stopped, and after a resume.
\* (A step that runs more than once may keep the failure of an earlier time.)
AllOf == {"sequence", "pipe", "gather", "failfast"}
SuccessIsEarned ==
    Forward =>
        \A p \in Named :
            Kind[p] \in AllOf /\ Once(p) /\ results[p] = "ok" /\ st[p] # "on" =>
                \A c \in KidSet(p) : results[c] # "failed"

\* In a flow that only jumps forward, the checkpoint holds no result of a step of
\* the top level at or after its index, and a run none of one it has yet to come
\* to, whether it resumed or started over beside the checkpoint of an earlier run:
\* no step is executed again whose result was restored.
CheckpointAtCursor ==
    Forward =>
        /\ \A j \in 1..Len(Top) :
             j >= checkpoint.index => Top[j] \notin checkpoint.done
        /\ run \in {"running", "saving"} =>
             \A j \in 1..Len(Top) : j > i => results[Top[j]] = "none"

\* Every run of a flow ends, although a step of a race hangs, whatever jumps and is
\* stopped or cancelled, and whether the checkpoint is saved or not.
FlowEnds == run \in {"running", "saving"} ~> run \in {"off", "over"}
=============================================================================
