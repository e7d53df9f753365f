------------------------- MODULE ApprovalGateProofs -------------------------
(***************************************************************************)
(* Proofs about ApprovalGate for any number of requests, sessions and      *)
(* decisions.                                                              *)
(***************************************************************************)
EXTENDS ApprovalGate, TLAPS

\* What the position of a waiting coroutine says: nothing was decided before
\* it waits, and once it is woken the entry holds the last decision sent.
PositionOf(r) ==
    /\ pc[r] \in {"idle", "announce", "waiting"} => told[r] = <<>>
    /\ pc[r] = "woken" => told[r] # <<>> /\ response[r] = LastTold(r)
    /\ pc[r] # "returned" => verdict[r] = "none"

Positions == \A r \in Request : PositionOf(r)

GateInv ==
    /\ TypeOK
    /\ PendingIsWaiting
    /\ Positions
    /\ ProceedsOnlyApproved
    /\ AlwaysWasSaid

\* A decision appended to what was told is the last one, the others stay.
LEMMA AppendTold ==
    ASSUME NEW s \in Seq(Decision), NEW d \in Decision
    PROVE  /\ Append(s, d) \in Seq(Decision)
           /\ Append(s, d) # <<>>
           /\ Append(s, d)[Len(Append(s, d))] = d
           /\ Len(s) \in Nat /\ Len(Append(s, d)) = Len(s) + 1
           /\ \A i \in 1..Len(s) : Append(s, d)[i] = s[i]
  OBVIOUS

\* An empty gate satisfies the invariant.
LEMMA InitGate == Init => GateInv
  BY DEF Init, GateInv, TypeOK, PendingIsWaiting, Positions, PositionOf, ProceedsOnlyApproved,
         AlwaysWasSaid, Waiting, Ended

\* A step of a waiting coroutine: what it leaves behind.
LEMMA WaiterInv ==
    ASSUME GateInv, NEW r \in Request, GateStep(r) \/ Cancel(r)
    PROVE  GateInv'
<1>0. /\ Info[r].onTimeout \in {"reject", "skip"}
      /\ told' = told /\ always' = always
      /\ \A q \in Request : IsAutoApproved(q)' = IsAutoApproved(q)
  BY InfoAssumption DEF RequestType, GateStep, AutoApproved, Announce, RequestApproval, Resume,
                        TimeOut, Cancel, Return, IsAutoApproved
<1>1. TypeOK'
  BY <1>0 DEF GateInv, TypeOK, GateStep, AutoApproved, Announce, RequestApproval, Resume, TimeOut,
              Cancel, Return, Process, Waiting, Ended, Decision
<1>2. PendingIsWaiting'
  BY DEF GateInv, TypeOK, PendingIsWaiting, GateStep, AutoApproved, Announce, RequestApproval,
         Resume, TimeOut, Cancel, Return, Waiting, Ended
<1>3. Positions'
  BY <1>0 DEF GateInv, TypeOK, Positions, PositionOf, LastTold, GateStep, AutoApproved, Announce,
              RequestApproval, Resume, TimeOut, Cancel, Return, Waiting
<1>4. ProceedsOnlyApproved'
  <2>1. CASE AutoApproved(r)
    BY <1>0, <2>1 DEF GateInv, TypeOK, ProceedsOnlyApproved, Positions, PositionOf, LastTold,
                      AutoApproved
  <2>2. CASE Resume(r)
    BY <1>0, <2>2 DEF GateInv, TypeOK, ProceedsOnlyApproved, Positions, PositionOf, LastTold,
                      Resume, Return, Process
  <2>3. CASE TimeOut(r)
    BY <1>0, <2>3 DEF GateInv, TypeOK, ProceedsOnlyApproved, LastTold, TimeOut, Return, Process,
                      Approving
  <2>4. CASE UNCHANGED verdict
    BY <1>0, <2>4 DEF GateInv, ProceedsOnlyApproved, LastTold
  <2> QED
    BY <2>1, <2>2, <2>3, <2>4 DEF GateStep, Announce, RequestApproval, Cancel
<1>5. AlwaysWasSaid'
  BY <1>0 DEF GateInv, AlwaysWasSaid
<1> QED
  BY <1>1, <1>2, <1>3, <1>4, <1>5 DEF GateInv

\* A decision: it reaches only a coroutine that waits.
LEMMA DecisionInv ==
    ASSUME GateInv, NEW r \in Request, NEW d \in Sent, SubmitDecision(r, d)
    PROVE  GateInv'
<1>0. d \in Decision /\ Info[r].session \in Session /\ Info[r].key \in Key
  BY SentAssumption, InfoAssumption DEF RequestType
<1>1. r \in pending /\ pc[r] \in Waiting /\ verdict[r] = "none"
  BY DEF GateInv, SubmitDecision, PendingIsWaiting, Positions, PositionOf, Waiting, TypeOK
<1>2. /\ told'[r] = Append(told[r], d) /\ told[r] \in Seq(Decision)
      /\ \A q \in Request \ {r} : told'[q] = told[q] /\ response'[q] = response[q] /\ pc'[q] = pc[q]
      /\ pc'[r] = "woken" /\ response'[r] = d
      /\ UNCHANGED <<pending, verdict>>
      /\ always \subseteq always'
      /\ always' \subseteq always \cup {<<Info[r].session, Info[r].key>>}
      /\ d # "approve_always" => always' = always
  BY DEF GateInv, TypeOK, SubmitDecision
<1>3. /\ told'[r] \in Seq(Decision) /\ told'[r] # <<>> /\ LastTold(r)' = d
      /\ Len(told[r]) \in Nat /\ Len(told'[r]) = Len(told[r]) + 1
      /\ told'[r][Len(told[r]) + 1] = d
      /\ \A i \in 1..Len(told[r]) : told'[r][i] = told[r][i]
  BY <1>0, <1>2, AppendTold DEF LastTold
<1>4. TypeOK'
  BY <1>0, <1>2, <1>3 DEF GateInv, TypeOK, SubmitDecision, Waiting
<1>5. PendingIsWaiting'
  BY <1>1, <1>2 DEF GateInv, PendingIsWaiting, Waiting
<1>6. Positions'
  BY <1>1, <1>2, <1>3 DEF GateInv, Positions, PositionOf, LastTold
<1>7. ProceedsOnlyApproved'
  BY <1>1, <1>2 DEF GateInv, ProceedsOnlyApproved, IsAutoApproved, LastTold
<1>8. AlwaysWasSaid'
  <2> SUFFICES ASSUME NEW s \in Session, NEW k \in Key, <<s, k>> \in always'
               PROVE  \E q \in Request :
                        /\ Info[q].session = s /\ Info[q].key = k
                        /\ \E i \in 1..Len(told'[q]) : told'[q][i] = "approve_always"
    BY DEF AlwaysWasSaid
  <2>1. CASE <<s, k>> \in always
    <3>1. PICK q \in Request : /\ Info[q].session = s /\ Info[q].key = k
                               /\ \E i \in 1..Len(told[q]) : told[q][i] = "approve_always"
      BY <2>1 DEF GateInv, AlwaysWasSaid
    <3>2. CASE q = r
      BY <1>3, <3>1, <3>2
    <3>3. CASE q # r
      BY <1>2, <3>1, <3>3
    <3> QED
      BY <3>2, <3>3
  <2>2. CASE <<s, k>> \notin always
    <3>1. d = "approve_always" /\ Info[r].session = s /\ Info[r].key = k
      BY <1>2, <2>2
    <3>2. Len(told[r]) + 1 \in 1..Len(told'[r])
      BY <1>3
    <3> QED
      BY <1>3, <3>1, <3>2
  <2> QED
    BY <2>1, <2>2
<1> QED
  BY <1>4, <1>5, <1>6, <1>7, <1>8 DEF GateInv

\* Every step of the gate preserves the invariant.
LEMMA GateNext ==
    ASSUME GateInv, [Next]_vars
    PROVE  GateInv'
<1>1. CASE Next
  BY <1>1, WaiterInv, DecisionInv DEF Next
<1>2. CASE UNCHANGED vars
  BY <1>2 DEF vars, GateInv, TypeOK, PendingIsWaiting, Positions, PositionOf, LastTold,
              ProceedsOnlyApproved, IsAutoApproved, AlwaysWasSaid
<1> QED
  BY <1>1, <1>2

\* The inductive invariant holds in every reachable state.
THEOREM GateInvariant == Spec => []GateInv
  BY InitGate, GateNext, PTL DEF Spec

\* No action passes the gate unless the last decision applied to it, or an
\* earlier APPROVE_ALWAYS in the session it is looked up in, lets it.
THEOREM OnlyApprovedProceed == Spec => []ProceedsOnlyApproved
<1>1. GateInv => ProceedsOnlyApproved
  BY DEF GateInv
<1> QED
  BY <1>1, GateInvariant, PTL

\* _pending holds exactly the coroutines that wait.
THEOREM PendingExact == Spec => []PendingIsWaiting
<1>1. GateInv => PendingIsWaiting
  BY DEF GateInv
<1> QED
  BY <1>1, GateInvariant, PTL

\* Every auto-approval was asked for, in its session and for its pair.
THEOREM AlwaysHasSource == Spec => []AlwaysWasSaid
<1>1. GateInv => AlwaysWasSaid
  BY DEF GateInv
<1> QED
  BY <1>1, GateInvariant, PTL

\* Nobody is told that a decision was applied to a wait that has ended.
THEOREM LateIsRefused == Spec => LateDecisionRefused
<1> DEFINE Refused == \A r \in Request : pc[r] \in Ended => told'[r] = told[r] /\ pc'[r] = pc[r]
<1>1. ASSUME GateInv, [Next]_vars PROVE Refused
  <2>1. ASSUME NEW r \in Request, GateStep(r) \/ Cancel(r) PROVE Refused
    BY <1>1, <2>1 DEF GateInv, TypeOK, GateStep, AutoApproved, Announce, RequestApproval, Resume,
                      TimeOut, Cancel, Return, Waiting, Ended
  <2>2. ASSUME NEW r \in Request, NEW d \in Sent, SubmitDecision(r, d) PROVE Refused
    BY <1>1, <2>2 DEF GateInv, TypeOK, PendingIsWaiting, SubmitDecision, Waiting, Ended
  <2>3. CASE UNCHANGED vars
    BY <2>3 DEF vars
  <2> QED
    BY <1>1, <2>1, <2>2, <2>3 DEF Next
<1>2. LateDecisionRefused <=> [][Refused]_vars
  BY PTL DEF LateDecisionRefused
<1> QED
  BY <1>1, <1>2, GateInvariant, PTL DEF Spec

=============================================================================
