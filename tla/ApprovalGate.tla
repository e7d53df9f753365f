---------------------------- MODULE ApprovalGate ----------------------------
(***************************************************************************)
(* ApprovalGate (orchestration/approval.py) between the two components     *)
(* that wait at it, PlanExecutor._handle_approval and                      *)
(* DaemonToolExecutor._handle_approval (apps/daemon_executor.py), and the  *)
(* HTTP / WebSocket clients that decide.                                   *)
(*                                                                         *)
(* A request is one pass of an action through _handle_approval; its key    *)
(* (plan_id, action_id) in _pending is its own, since a plan_id is stored  *)
(* once and the tool executor draws a fresh action id.  asyncio.Event.set  *)
(* only schedules the waiting coroutine: until it resumes, the entry is    *)
(* still pending, so another decision can replace the first, and the timer *)
(* of wait_for can still win.                                              *)
(***************************************************************************)
EXTENDS Naturals, Sequences

CONSTANTS
    Request,        \* passes through _handle_approval
    Session,        \* run ids and plan ids under which APPROVE_ALWAYS is kept
    NoSession,      \* the run id ""
    Key,            \* the module.action pairs
    Info,           \* what each request is about, see RequestType
    Sent,           \* the decisions clients send, a subset of Decision
    MaxDecisions,   \* bound on the decisions sent for one request
    None            \* no response yet

Decision == {"approve", "reject", "skip", "modify", "approve_always", "message"}
Approving == {"approve", "modify", "approve_always"}

\* An app run has the run id of its scope, which is "" for a run that no
\* interactive route started.
RequestType ==
    [client    : {"plan", "app"},
     session   : Session,
     key       : Key,
     onTimeout : {"reject", "skip"}]

ASSUME InfoAssumption ==
    /\ Info \in [Request -> RequestType]
    /\ NoSession \in Session
    /\ \A r \in Request : Info[r].client = "plan" => Info[r].session # NoSession
ASSUME SentAssumption == Sent \subseteq Decision /\ MaxDecisions \in Nat
ASSUME NoneAssumption == None \notin Decision

VARIABLES
    pc,         \* where the waiting coroutine is
    pending,    \* the requests with an entry in _pending
    response,   \* entry.response
    always,     \* _auto_approve, as a set of <<session, key>>
    verdict,    \* what _handle_approval returned
    told        \* the decisions a client was told were applied, in order

vars == <<pc, pending, response, always, verdict, told>>

Waiting == {"waiting", "woken"}
Ended == {"returned", "cancelled"}

Init ==
    /\ pc = [r \in Request |-> "idle"]
    /\ pending = {}
    /\ response = [r \in Request |-> None]
    /\ always = {}
    /\ verdict = [r \in Request |-> "none"]
    /\ told = [r \in Request |-> <<>>]

\* is_auto_approved: the plan executor calls it without a run_id.
IsAutoApproved(r) ==
    <<IF Info[r].client = "plan" THEN NoSession ELSE Info[r].session, Info[r].key>> \in always

AutoApproved(r) ==
    /\ pc[r] = "idle"
    /\ IsAutoApproved(r)
    /\ pc' = [pc EXCEPT ![r] = "returned"]
    /\ verdict' = [verdict EXCEPT ![r] = "proceed"]
    /\ UNCHANGED <<pending, response, always, told>>

\* Not auto-approved: the status is stored (plan) or an event is emitted
\* (app), both awaits, before the gate is reached.
Announce(r) ==
    /\ pc[r] = "idle"
    /\ ~ IsAutoApproved(r)
    /\ pc' = [pc EXCEPT ![r] = "announce"]
    /\ UNCHANGED <<pending, response, always, verdict, told>>

\* request_approval up to its await.
RequestApproval(r) ==
    /\ pc[r] = "announce"
    /\ pc' = [pc EXCEPT ![r] = "waiting"]
    /\ pending' = pending \cup {r}
    /\ UNCHANGED <<response, always, verdict, told>>

\* Mutant: a decision does not replace the one that is there.
SubmitFirstDecision(r, d) ==
    /\ r \in pending
    /\ Len(told[r]) < MaxDecisions
    /\ always' = IF d = "approve_always"
                 THEN always \cup {<<Info[r].session, Info[r].key>>} ELSE always
    /\ response' = [response EXCEPT ![r] = IF @ = None THEN d ELSE @]
    /\ pc' = [pc EXCEPT ![r] = "woken"]
    /\ told' = [told EXCEPT ![r] = Append(@, d)]
    /\ UNCHANGED <<pending, verdict>>

\* Mutant: a plain APPROVE is remembered too.
SubmitRemembersApprove(r, d) ==
    /\ r \in pending
    /\ Len(told[r]) < MaxDecisions
    /\ always' = IF d \in Approving
                 THEN always \cup {<<Info[r].session, Info[r].key>>} ELSE always
    /\ response' = [response EXCEPT ![r] = d]
    /\ pc' = [pc EXCEPT ![r] = "woken"]
    /\ told' = [told EXCEPT ![r] = Append(@, d)]
    /\ UNCHANGED <<pending, verdict>>

\* submit_decision on a pending request: returns True.  On any other it
\* returns False and changes nothing (409 or 404), which is a stutter.
SubmitDecision(r, d) ==
    /\ r \in pending
    /\ Len(told[r]) < MaxDecisions
    /\ always' = IF d = "approve_always"
                 THEN always \cup {<<Info[r].session, Info[r].key>>} ELSE always
    /\ response' = [response EXCEPT ![r] = d]
    /\ pc' = [pc EXCEPT ![r] = "woken"]
    /\ told' = [told EXCEPT ![r] = Append(@, d)]
    /\ UNCHANGED <<pending, verdict>>

\* How _handle_approval reads the response.
Process(d) ==
    CASE d \in Approving -> "proceed"
      [] d = "skip"      -> "skip"
      [] OTHER           -> "refuse"

Return(r, d) ==
    /\ pc' = [pc EXCEPT ![r] = "returned"]
    /\ response' = [response EXCEPT ![r] = d]
    /\ verdict' = [verdict EXCEPT ![r] = Process(d)]
    /\ UNCHANGED <<always, told>>

\* The event was set and the coroutine resumes; the finally pops the entry.
Resume(r) ==
    /\ pc[r] = "woken"
    /\ pending' = pending \ {r}
    /\ Return(r, response[r])

\* Mutant: the timeout path does not remove the entry.
TimeOutKeepingEntry(r) ==
    /\ pc[r] \in Waiting
    /\ Return(r, Info[r].onTimeout)
    /\ UNCHANGED pending

\* Mutant: without a timeout of its own a request waits for a decision.
TimeOutOnlyDecided(r) ==
    /\ pc[r] = "woken"
    /\ pending' = pending \ {r}
    /\ Return(r, Info[r].onTimeout)

\* wait_for raises TimeoutError, even when the event has just been set:
\* a synthetic response replaces whatever is there.
TimeOut(r) ==
    /\ pc[r] \in Waiting
    /\ pending' = pending \ {r}
    /\ Return(r, Info[r].onTimeout)

\* Mutant: a cancelled wait leaves its entry.
CancelKeepingEntry(r) ==
    /\ pc[r] \in Waiting \cup {"announce"}
    /\ pc' = [pc EXCEPT ![r] = "cancelled"]
    /\ UNCHANGED <<pending, response, always, verdict, told>>

\* The task that waits is cancelled (DELETE, sync timeout, client gone).
Cancel(r) ==
    /\ pc[r] \in Waiting \cup {"announce"}
    /\ pc' = [pc EXCEPT ![r] = "cancelled"]
    /\ pending' = pending \ {r}
    /\ UNCHANGED <<response, always, verdict, told>>

GateStep(r) == AutoApproved(r) \/ Announce(r) \/ RequestApproval(r) \/ Resume(r) \/ TimeOut(r)

Next ==
    \E r \in Request :
        \/ GateStep(r)
        \/ Cancel(r)
        \/ \E d \in Sent : SubmitDecision(r, d)

\* The event loop resumes what is ready and every wait has a timer.
Fairness == \A r \in Request : WF_vars(GateStep(r))

Spec == Init /\ [][Next]_vars /\ Fairness

-----------------------------------------------------------------------------
\* Type invariant.
TypeOK ==
    /\ pc \in [Request -> {"idle", "announce"} \cup Waiting \cup Ended]
    /\ pending \in SUBSET Request
    /\ response \in [Request -> Decision \cup {None}]
    /\ always \in SUBSET (Session \X Key)
    /\ verdict \in [Request -> {"none", "proceed", "skip", "refuse"}]
    /\ told \in [Request -> Seq(Decision)]

LastTold(r) == told[r][Len(told[r])]

\* An action proceeds only if the last decision any client was told was
\* applied to it approves it, or if some request was answered
\* APPROVE_ALWAYS in the session it is looked up in: neither an earlier
\* decision that was replaced nor the timer lets it through.
ProceedsOnlyApproved ==
    \A r \in Request : verdict[r] = "proceed" =>
        \/ told[r] # <<>> /\ LastTold(r) \in Approving
        \/ told[r] = <<>> /\ IsAutoApproved(r)

\* Every auto-approval goes back to an APPROVE_ALWAYS that a client sent for
\* that module.action in that session, whatever became of the request.
AlwaysWasSaid ==
    \A s \in Session, k \in Key : <<s, k>> \in always =>
        \E r \in Request :
            /\ Info[r].session = s /\ Info[r].key = k
            /\ \E i \in 1..Len(told[r]) : told[r][i] = "approve_always"

\* The entries of _pending are exactly the coroutines that wait: none leaks
\* after a timeout or a cancellation, none is lost while somebody waits.
PendingIsWaiting == \A r \in Request : r \in pending <=> pc[r] \in Waiting

\* A decision that arrives after the wait has ended is refused: nobody is
\* told it was applied and it makes nothing auto-approved.
LateDecisionRefused ==
    [][\A r \in Request : pc[r] \in Ended => told'[r] = told[r] /\ pc'[r] = pc[r]]_vars

\* Every request that began ends, decided or not.
RequestsEnd == \A r \in Request : pc[r] # "idle" ~> pc[r] \in Ended

\* orchestration/approval.py: "when a user sends APPROVE_ALWAYS, subsequent
\* requests for the same module.action pair are automatically approved
\* without waiting."  Not so for the actions of a plan.
ApproveAlwaysHonoured ==
    [][\A r \in Request :
        pc[r] = "idle" /\ pc'[r] = "announce"
            => <<Info[r].session, Info[r].key>> \notin always]_vars
=============================================================================
