--------------------------- MODULE DispatchProofs ---------------------------
(***************************************************************************)
(* Proofs about Dispatch for any calls, modules, nodes and limits: the     *)
(* quarantine of nodes, the accounting of permits and slots, that Dispatch *)
(* implements Limiter with both, the loads the selector compares, and that *)
(* no call is sent to a node twice.                                        *)
(***************************************************************************)
EXTENDS Dispatch, FiniteSetTheorems, TLAPS

QuarantineType == [Node -> [count : Nat, until : {"none", "active", "over"}]]

\* Of a table q of failures: count and quarantine agree, and the local node has
\* neither.
Agrees(q) ==
    /\ q \in QuarantineType
    /\ \A n \in Node : q[n].until # "none" <=> q[n].count >= Threshold
    /\ q[Local] = NoFailures

\* is_quarantined forgets a quarantine together with its count.
LEMMA PurgeAgrees ==
    ASSUME NEW q, NEW S, Agrees(q)
    PROVE  Agrees(Purge(q, S))
<1>1. Purge(q, S) \in QuarantineType
  BY DEF Agrees, Purge, QuarantineType, NoFailures
<1>2. ASSUME NEW n \in Node
      PROVE  Purge(q, S)[n].until # "none" <=> Purge(q, S)[n].count >= Threshold
  BY <1>2, RoutingAssumption DEF Agrees, Purge, QuarantineType, NoFailures
<1>3. Purge(q, S)[Local] = NoFailures
  BY DEF Agrees, Purge, NoFailures, Node
<1> QED
  BY <1>1, <1>2, <1>3 DEF Agrees

\* record_failure of a remote node sets the quarantine when the count is reached.
LEMMA FailureAgrees ==
    ASSUME NEW q, NEW n, n # Local, Agrees(q)
    PROVE  Agrees(RecordFailure(q, n))
<1> DEFINE r == RecordFailure(q, n)
<1>1. CASE n \notin Node
  <2>1. r = q
    BY <1>1 DEF Agrees, QuarantineType, RecordFailure
  <2> QED BY <2>1
<1>2. CASE n \in Node
  <2>1. r \in QuarantineType
    BY <1>2 DEF Agrees, QuarantineType, RecordFailure
  <2>2. ASSUME NEW m \in Node
        PROVE  r[m].until # "none" <=> r[m].count >= Threshold
    BY <1>2, <2>2, RoutingAssumption DEF Agrees, QuarantineType, RecordFailure
  <2>3. r[Local] = NoFailures
    BY <1>2 DEF Agrees, QuarantineType, RecordFailure, Node
  <2> QED BY <2>1, <2>2, <2>3 DEF Agrees
<1> QED BY <1>1, <1>2

\* record_success forgets both.
LEMMA SuccessAgrees ==
    ASSUME NEW q, NEW n, Agrees(q)
    PROVE  Agrees(RecordSuccess(q, n))
<1> DEFINE r == RecordSuccess(q, n)
<1>1. r \in QuarantineType
  BY DEF Agrees, QuarantineType, RecordSuccess, NoFailures
<1>2. ASSUME NEW m \in Node
      PROVE  r[m].until # "none" <=> r[m].count >= Threshold
  BY <1>2, RoutingAssumption DEF Agrees, QuarantineType, RecordSuccess, NoFailures
<1>3. r[Local] = NoFailures
  BY DEF Agrees, QuarantineType, RecordSuccess, NoFailures, Node
<1> QED BY <1>1, <1>2, <1>3 DEF Agrees

\* The fallback chain only asks.
LEMMA RaiseAgrees ==
    ASSUME NEW c, NEW k, NEW q, NEW l, NEW av, NEW p,
           Agrees(q), NextModule(c, k, q, l, av, p)
    PROVE  Agrees(quarantine')
<1>1. quarantine' = q \/ quarantine' = Purge(q, Asked(c, av))
  BY DEF NextModule
<1> QED BY <1>1, PurgeAgrees

\* The table is only changed by record_failure for a remote node, record_success,
\* is_quarantined, and the end of a quarantine.
THEOREM QuarantineAgrees == Spec => []Agrees(quarantine)
<1>1. Init => Agrees(quarantine)
  <2> SUFFICES ASSUME Init PROVE Agrees(quarantine) OBVIOUS
  <2>1. quarantine \in QuarantineType
    BY RoutingAssumption, NodeAssumption DEF Init, QuarantineType, NoFailures, Node
  <2>2. ASSUME NEW n \in Node
        PROVE  quarantine[n].until # "none" <=> quarantine[n].count >= Threshold
    BY <2>2, RoutingAssumption, NodeAssumption DEF Init, NoFailures, Node
  <2>3. quarantine[Local] = NoFailures
    BY DEF Init, Node
  <2> QED BY <2>1, <2>2, <2>3 DEF Agrees
<1>2. Agrees(quarantine) /\ [Next]_vars => Agrees(quarantine)'
  <2> SUFFICES ASSUME Agrees(quarantine), [Next]_vars PROVE Agrees(quarantine')
    OBVIOUS
  <2>1. CASE UNCHANGED quarantine
    BY <2>1
  <2>2. ASSUME NEW c \in Call, CallStep(c) PROVE Agrees(quarantine')
    <3>1. CASE Submit(c) \/ LooseEnds(c)
      BY <3>1, <2>1 DEF Submit, LooseEnds, nodeVars
    <3>2. CASE GetPermit(c)
      BY <3>2, <2>1, RaiseAgrees DEF GetPermit, Raise
    <3>3. CASE Start(c)
      BY <3>3, PurgeAgrees DEF Start
    <3>4. CASE StartUnknownNode(c) \/ SlotTimeout(c)
      BY <3>4, RaiseAgrees DEF StartUnknownNode, SlotTimeout, Raise
    <3>5. CASE StartBackground(c)
      BY <3>5, <2>1 DEF StartBackground, nodeVars
    <3>6. CASE Succeed(c)
      BY <3>6, <2>1, SuccessAgrees DEF Succeed
    <3>7. CASE Unreachable(c)
      <4>1. Agrees(RecordFailure(quarantine, at[c]))
        BY <3>7, FailureAgrees DEF Unreachable
      <4>2. \A S : Agrees(Purge(RecordFailure(quarantine, at[c]), S))
        BY <4>1, PurgeAgrees
      <4> QED BY <3>7, <4>1, <4>2, RaiseAgrees DEF Unreachable, Raise
    <3>8. CASE Fail(c)
      BY <3>8, RaiseAgrees DEF Fail, Raise
    <3>9. CASE FallbackFails(c)
      BY <3>9, RaiseAgrees DEF FallbackFails
    <3>10. CASE Timeout(c)
      BY <3>10, <2>1 DEF Timeout
    <3> QED
      BY <2>2, <3>1, <3>2, <3>3, <3>4, <3>5, <3>6, <3>7, <3>8, <3>9, <3>10 DEF CallStep
  <2>3. CASE Others
    <3>1. ASSUME NEW n \in Remote, QuarantineEnds(n) PROVE Agrees(quarantine')
      <4>1. n \in Node /\ n # Local
        BY NodeAssumption DEF Node
      <4>2. quarantine' = [quarantine EXCEPT ![n].until = "over"]
            /\ quarantine[n].until = "active"
        BY <3>1 DEF QuarantineEnds
      <4>3. quarantine' \in QuarantineType
        BY <4>1, <4>2 DEF Agrees, QuarantineType
      <4>4. ASSUME NEW m \in Node
            PROVE  quarantine'[m].until # "none" <=> quarantine'[m].count >= Threshold
        BY <4>1, <4>2, <4>4 DEF Agrees, QuarantineType
      <4>5. quarantine'[Local] = NoFailures
        BY <4>1, <4>2 DEF Agrees, QuarantineType, Node
      <4> QED BY <4>3, <4>4, <4>5 DEF Agrees
    <3> QED
      BY <2>1, <2>3, <3>1
         DEF Others, CooldownEnds, ToggleModule, Heartbeat, Unregister, nodeVars
  <2> QED
    BY <2>1, <2>2, <2>3 DEF Next, vars, nodeVars
<1> QED
  BY <1>1, <1>2, PTL DEF Spec

\* A node is in quarantine exactly when its failures reached the threshold, and
\* the local node never is, however concurrent calls interleave on a node.
THEOREM QuarantineSound == Spec => []QuarantineMatchesFailures
<1>1. Agrees(quarantine) => QuarantineMatchesFailures
  BY DEF Agrees, QuarantineMatchesFailures
<1> QED
  BY <1>1, QuarantineAgrees, PTL
-----------------------------------------------------------------------------
(* Permits and slots *)

Place == {"idle", "permit", "slot", "run", "alt", "fallback", "done"}
WithPermit == {"slot", "run", "alt", "fallback"}
WithSlot == {"run", "alt"}

\* 1 for a place among W.
In(place, W) == IF place \in W THEN 1 ELSE 0

\* The calls of module m at a place in W, when they are where q says.
Holding(q, W, m) == {c \in Call : Mod(c) = m /\ q[c] \in W}

Moves(c, x) == pc \in [Call -> Place] /\ pc' = [pc EXCEPT ![c] = x]

Accounts ==
    /\ profile \in Profiles
    /\ pc \in [Call -> Place]
    /\ permits \in [Module -> Nat]
    /\ slots \in [Module -> Nat]
    /\ LimitsAccounted

\* A cardinality to count with: there are finitely many calls.
LEMMA HoldingFinite ==
    ASSUME NEW q, NEW W, NEW m
    PROVE  IsFiniteSet(Holding(q, W, m)) /\ Cardinality(Holding(q, W, m)) \in Nat
<1>1. Holding(q, W, m) \subseteq Call
  BY DEF Holding
<1> QED
  BY <1>1, CallAssumption, FS_Subset, FS_CardinalityType

\* A call that goes to place x changes the number of those in W by one at most,
\* and for its own module only.
LEMMA HoldingMoves ==
    ASSUME NEW c \in Call, NEW x, NEW W, NEW m, Moves(c, x)
    PROVE  Cardinality(Holding(pc', W, m)) =
               IF m = Mod(c) THEN Cardinality(Holding(pc, W, m)) + In(x, W) - In(pc[c], W)
               ELSE Cardinality(Holding(pc, W, m))
<1> DEFINE H == Holding(pc, W, m)
           G == Holding(pc', W, m)
<1>0. IsFiniteSet(H) /\ Cardinality(H) \in Nat
  BY HoldingFinite
<1>2. G = {d \in Call : Mod(d) = m /\ pc'[d] \in W}
  BY DEF Holding
<1>3. CASE m # Mod(c) \/ (pc[c] \in W <=> x \in W)
  <2>1. G = H
    BY <1>2, <1>3 DEF Holding, Moves
  <2> QED BY <1>0, <1>3, <2>1 DEF In
<1>4. CASE m = Mod(c) /\ pc[c] \notin W /\ x \in W
  <2>1. G = H \union {c} /\ c \notin H
    BY <1>2, <1>4 DEF Holding, Moves
  <2>2. Cardinality(G) = Cardinality(H) + 1
    BY <1>0, <2>1, FS_AddElement
  <2> QED BY <1>0, <1>4, <2>2 DEF In
<1>5. CASE m = Mod(c) /\ pc[c] \in W /\ x \notin W
  <2>1. G = H \ {c} /\ c \in H
    BY <1>2, <1>5 DEF Holding, Moves
  <2>2. Cardinality(G) = Cardinality(H) - 1
    BY <1>0, <2>1, FS_RemoveElement
  <2> QED BY <1>0, <1>5, <2>2 DEF In
<1> QED BY <1>3, <1>4, <1>5

\* What each step has to do to permits and slots when call c goes to place x.
Balanced(c, x) ==
    /\ x \in Place
    /\ pc' = [pc EXCEPT ![c] = x]
    /\ profile' = profile
    /\ permits' \in [Module -> Nat]
    /\ slots' \in [Module -> Nat]
    /\ \A m \in Module :
          /\ permits'[m] = IF m = Mod(c)
                           THEN permits[m] + In(pc[c], WithPermit) - In(x, WithPermit)
                           ELSE permits[m]
          /\ MaxParallel[m] > 0 =>
                slots'[m] = IF m = Mod(c)
                            THEN slots[m] + In(pc[c], WithSlot) - In(x, WithSlot)
                            ELSE slots[m]

\* Such a step keeps the accounts.
LEMMA BalancedAccounts ==
    ASSUME NEW c \in Call, NEW x, Accounts, Balanced(c, x)
    PROVE  Accounts'
<1>1. Mod(c) \in Module
  BY CallAssumption DEF Accounts, Mod
<1>2. pc' \in [Call -> Place] /\ profile' \in Profiles
  BY DEF Accounts, Balanced
<1>3. permits' \in [Module -> Nat] /\ slots' \in [Module -> Nat]
  BY <1>1 DEF Accounts, Balanced, In
<1>4. ASSUME NEW m \in Module
      PROVE  /\ permits'[m] = Limit[m] - Cardinality(PermitHolders(m)')
             /\ MaxParallel[m] > 0 =>
                    slots'[m] = MaxParallel[m] - Cardinality(SlotHolders(m)')
  <2>1. /\ PermitHolders(m) = Holding(pc, WithPermit, m)
        /\ SlotHolders(m) = Holding(pc, WithSlot, m)
        /\ PermitHolders(m)' = Holding(pc', WithPermit, m)
        /\ SlotHolders(m)' = Holding(pc', WithSlot, m)
    BY DEF Balanced, Mod, PermitHolders, SlotHolders, Holding, WithPermit, WithSlot
  <2>2. /\ Cardinality(Holding(pc, WithPermit, m)) \in Nat
        /\ Cardinality(Holding(pc, WithSlot, m)) \in Nat
    BY HoldingFinite
  <2>3. /\ permits[m] = Limit[m] - Cardinality(Holding(pc, WithPermit, m))
        /\ MaxParallel[m] > 0 =>
               slots[m] = MaxParallel[m] - Cardinality(Holding(pc, WithSlot, m))
    BY <1>4, <2>1 DEF Accounts, LimitsAccounted
  <2>4. Moves(c, x)
    BY DEF Accounts, Balanced, Moves
  <2>5. Cardinality(Holding(pc', WithPermit, m)) =
            IF m = Mod(c) THEN Cardinality(Holding(pc, WithPermit, m)) + In(x, WithPermit)
                                   - In(pc[c], WithPermit)
            ELSE Cardinality(Holding(pc, WithPermit, m))
    BY <2>4, HoldingMoves
  <2>6. Cardinality(Holding(pc', WithSlot, m)) =
            IF m = Mod(c) THEN Cardinality(Holding(pc, WithSlot, m)) + In(x, WithSlot)
                                   - In(pc[c], WithSlot)
            ELSE Cardinality(Holding(pc, WithSlot, m))
    BY <2>4, HoldingMoves
  <2>7. Limit[m] \in Nat /\ MaxParallel[m] \in Nat
    BY <1>4, LimitAssumption
  <2>8. permits'[m] = IF m = Mod(c)
                      THEN permits[m] + In(pc[c], WithPermit) - In(x, WithPermit)
                      ELSE permits[m]
    BY <1>1, <1>4 DEF Accounts, Balanced
  <2>9. MaxParallel[m] > 0 =>
            slots'[m] = IF m = Mod(c)
                        THEN slots[m] + In(pc[c], WithSlot) - In(x, WithSlot)
                        ELSE slots[m]
    BY <1>1, <1>4 DEF Accounts, Balanced
  <2>10. \A y, W : In(y, W) \in Int
    BY DEF In
  <2> QED
    BY <2>1, <2>2, <2>3, <2>5, <2>6, <2>7, <2>8, <2>9, <2>10
<1> QED
  BY <1>2, <1>3, <1>4 DEF Accounts, LimitsAccounted

\* The fallback chain ends with the permit given back, or goes on with it.
LEMMA NextModuleMoves ==
    ASSUME NEW c, NEW k, NEW q, NEW l, NEW av, NEW p, NextModule(c, k, q, l, av, p)
    PROVE  \/ /\ pc' = [pc EXCEPT ![c] = "done"]
              /\ permits' = [p EXCEPT ![Mod(c)] = @ + 1]
           \/ /\ pc' = [pc EXCEPT ![c] = "fallback"]
              /\ permits' = p
BY DEF NextModule, Finish

\* An exception outside the slot's try: the call leaves a place without a slot.
LEMMA RaiseBalanced ==
    ASSUME Accounts, NEW c \in Call, NEW k, NEW q, NEW l, NEW av,
           NextModule(c, k, q, l, av, permits),
           profile' = profile,
           \/ pc[c] \in {"slot", "fallback"} /\ slots' = slots
           \/ pc[c] \in {"run", "alt"} /\ ReleaseSlot(c)
    PROVE  \E x : Balanced(c, x)
<1>1. Mod(c) \in Module /\ pc[c] \in Place
  BY CallAssumption DEF Accounts, Mod
<1>2. CASE /\ pc' = [pc EXCEPT ![c] = "done"]
           /\ permits' = [permits EXCEPT ![Mod(c)] = @ + 1]
  <2>1. Balanced(c, "done")
    BY <1>1, <1>2, LimitAssumption
       DEF Accounts, Balanced, ReleaseSlot, In, Place, WithPermit, WithSlot
  <2> QED BY <2>1
<1>3. CASE /\ pc' = [pc EXCEPT ![c] = "fallback"]
           /\ permits' = permits
  <2>1. Balanced(c, "fallback")
    BY <1>1, <1>3, LimitAssumption
       DEF Accounts, Balanced, ReleaseSlot, In, Place, WithPermit, WithSlot
  <2> QED BY <2>1
<1> QED BY <1>2, <1>3, NextModuleMoves

\* Every step of a call is balanced, or moves no call.
LEMMA StepBalanced ==
    ASSUME Accounts, NEW c \in Call, CallStep(c)
    PROVE  (\E x : Balanced(c, x)) \/ UNCHANGED <<profile, pc, permits, slots>>
<1>1. Mod(c) \in Module /\ pc[c] \in Place
  BY CallAssumption DEF Accounts, Mod
<1>2. CASE Submit(c)
  <2>1. Balanced(c, "permit")
    BY <1>1, <1>2 DEF Submit, Accounts, Balanced, In, Place, WithPermit, WithSlot
  <2> QED BY <2>1
<1>3. CASE GetPermit(c)
  <2> DEFINE p == [permits EXCEPT ![Mod(c)] = @ - 1]
  <2>1. /\ pc[c] = "permit" /\ permits[Mod(c)] > 0 /\ slots' = slots /\ profile' = profile
        /\ \/ Raise(c, quarantine, load, avail, p)
           \/ pc' = [pc EXCEPT ![c] = "slot"] /\ permits' = p
    BY <1>3 DEF GetPermit
  <2>2. \/ pc' = [pc EXCEPT ![c] = "done"] /\ permits' = [p EXCEPT ![Mod(c)] = @ + 1]
        \/ pc' = [pc EXCEPT ![c] = "fallback"] /\ permits' = p
        \/ pc' = [pc EXCEPT ![c] = "slot"] /\ permits' = p
    BY <2>1, NextModuleMoves DEF Raise
  <2>3. Balanced(c, "done") \/ Balanced(c, "fallback") \/ Balanced(c, "slot")
    BY <1>1, <2>1, <2>2 DEF Accounts, Balanced, In, Place, WithPermit, WithSlot
  <2> QED BY <2>3
<1>4. CASE Start(c)
  <2>1. Balanced(c, "run")
    BY <1>1, <1>4
       DEF Start, TakeSlot, SlotsTaken, Accounts, Balanced, In, Place, WithPermit, WithSlot
  <2> QED BY <2>1
<1>5. CASE StartUnknownNode(c)
  BY <1>5, RaiseBalanced DEF StartUnknownNode, TakeSlot, Raise
<1>6. CASE StartBackground(c)
  <2>1. Balanced(c, "done")
    BY <1>1, <1>6
       DEF StartBackground, TakeSlot, Finish, Accounts, Balanced, In, Place, WithPermit, WithSlot
  <2> QED BY <2>1
<1>7. CASE SlotTimeout(c)
  BY <1>7, RaiseBalanced DEF SlotTimeout, Raise
<1>8. CASE Succeed(c)
  <2>1. Balanced(c, "done")
    BY <1>1, <1>8
       DEF Succeed, Finish, ReleaseSlot, Accounts, Balanced, In, Place, WithPermit, WithSlot
  <2> QED BY <2>1
<1>9. CASE Unreachable(c)
  <2>1. pc[c] \in {"run", "alt"} /\ profile' = profile
    BY <1>9 DEF Unreachable
  <2>2. CASE pc' = [pc EXCEPT ![c] = "alt"] /\ permits' = permits /\ slots' = slots
    <3>1. Balanced(c, "alt")
      BY <1>1, <2>1, <2>2 DEF Accounts, Balanced, In, Place, WithPermit, WithSlot
    <3> QED BY <3>1
  <2>3. ASSUME NEW q, NEW l, NEW av, ReleaseSlot(c), Raise(c, q, l, av, permits)
        PROVE  \E x : Balanced(c, x)
    BY <2>1, <2>3, RaiseBalanced DEF Raise
  <2> QED BY <1>9, <2>2, <2>3 DEF Unreachable
<1>10. CASE Fail(c)
  BY <1>10, RaiseBalanced DEF Fail, Raise
<1>11. CASE FallbackFails(c)
  BY <1>11, RaiseBalanced DEF FallbackFails
<1>12. CASE Timeout(c)
  <2>1. Balanced(c, "done")
    BY <1>1, <1>12
       DEF Timeout, Finish, ReleaseSlot, Accounts, Balanced, In, Place, WithPermit, WithSlot
  <2> QED BY <2>1
<1>13. CASE LooseEnds(c)
  BY <1>13 DEF LooseEnds
<1> QED
  BY <1>2, <1>3, <1>4, <1>5, <1>6, <1>7, <1>8, <1>9, <1>10, <1>11, <1>12, <1>13
     DEF CallStep

\* When nothing moves but other variables, the accounts stay.
LEMMA IdleAccounts ==
    ASSUME Accounts, UNCHANGED <<profile, pc, permits, slots>>
    PROVE  Accounts' /\ \A m : PermitHolders(m)' = PermitHolders(m)
                            /\ SlotHolders(m)' = SlotHolders(m)
<1>1. \A m : /\ PermitHolders(m)' = PermitHolders(m)
             /\ SlotHolders(m)' = SlotHolders(m)
  BY DEF PermitHolders, SlotHolders, Mod
<1>2. LimitsAccounted'
  BY <1>1 DEF Accounts, LimitsAccounted
<1> QED BY <1>1, <1>2 DEF Accounts

\* Others do not touch the calls or the limits.
LEMMA StepMoves ==
    ASSUME Accounts, [Next]_vars
    PROVE  \/ \E c \in Call : \E x : Balanced(c, x)
           \/ UNCHANGED <<profile, pc, permits, slots>>
<1>1. CASE \E c \in Call : CallStep(c)
  BY <1>1, StepBalanced
<1>2. CASE Others
  BY <1>2 DEF Others, CooldownEnds, ToggleModule, QuarantineEnds, Heartbeat, Unregister,
              otherVars, callVars
<1>3. CASE UNCHANGED vars
  BY <1>3 DEF vars, callVars
<1> QED BY <1>1, <1>2, <1>3 DEF Next

\* Nobody holds anything when the calls begin.
LEMMA InitAccounts ==
    ASSUME Init
    PROVE  Accounts /\ \A m : PermitHolders(m) = {} /\ SlotHolders(m) = {}
<1>1. \A m : PermitHolders(m) = {} /\ SlotHolders(m) = {}
  BY DEF Init, PermitHolders, SlotHolders
<1>2. LimitsAccounted
  <2>1. Cardinality({}) = 0
    BY FS_EmptySet
  <2>2. ASSUME NEW m \in Module
        PROVE  permits[m] = Limit[m] - 0 /\ slots[m] = MaxParallel[m] - 0
    BY <2>2, LimitAssumption DEF Init
  <2> QED BY <1>1, <2>1, <2>2 DEF LimitsAccounted
<1>3. pc \in [Call -> Place] /\ permits \in [Module -> Nat] /\ slots \in [Module -> Nat]
  BY LimitAssumption DEF Init, Place
<1> QED BY <1>1, <1>2, <1>3 DEF Init, Accounts

\* The accounts are inductive by themselves.
THEOREM AccountsKept == Spec => []Accounts
<1>1. Init => Accounts
  BY InitAccounts
<1>2. Accounts /\ [Next]_vars => Accounts'
  BY StepMoves, BalancedAccounts, IdleAccounts
<1> QED
  BY <1>1, <1>2, PTL DEF Spec

\* Permits and slots are given back once however a dispatch ends - result, error,
\* refusal, fallback, timeout in any of its awaits.
THEOREM LimitsSound == Spec => []LimitsAccounted
<1>1. Accounts => LimitsAccounted
  BY DEF Accounts
<1> QED
  BY <1>1, AccountsKept, PTL
-----------------------------------------------------------------------------
(* The refinement of Limiter, once for permits and once for slots *)

\* The calls of each module at a place in W, when they are where q says.
Use(q, W) == [m \in Module |-> Holding(q, W, m)]

\* A balanced step moves its call in or out, for its own module.
LEMMA UseMoves ==
    ASSUME Accounts, NEW c \in Call, NEW x, NEW W, Moves(c, x)
    PROVE  Use(pc', W) = [Use(pc, W) EXCEPT ![Mod(c)] =
                              IF x \in W THEN @ \union {c} ELSE @ \ {c}]
<1> DEFINE G == [Use(pc, W) EXCEPT ![Mod(c)] = IF x \in W THEN @ \union {c} ELSE @ \ {c}]
<1>1. Mod(c) \in Module
  BY CallAssumption DEF Accounts, Mod
<1>2. \A d \in Call : pc'[d] = IF d = c THEN x ELSE pc[d]
  BY DEF Moves
<1>3. ASSUME NEW m \in Module
      PROVE  Holding(pc', W, m) = G[m]
  <2>1. CASE m # Mod(c)
    <3>1. G[m] = Holding(pc, W, m)
      BY <2>1 DEF Use
    <3>2. Holding(pc', W, m) = Holding(pc, W, m)
      BY <1>2, <2>1 DEF Holding
    <3> QED BY <3>1, <3>2
  <2>2. CASE m = Mod(c)
    <3>1. G[m] = IF x \in W THEN Holding(pc, W, m) \union {c} ELSE Holding(pc, W, m) \ {c}
      BY <2>2 DEF Use
    <3>2. Holding(pc', W, m) = IF x \in W THEN Holding(pc, W, m) \union {c}
                               ELSE Holding(pc, W, m) \ {c}
      BY <1>2, <2>2 DEF Holding
    <3> QED BY <3>1, <3>2
  <2> QED BY <2>1, <2>2
<1>4. G = [m \in Module |-> G[m]]
  BY DEF Use
<1> QED BY <1>3, <1>4 DEF Use

\* Where the limit still holds afterwards, there was room for the call.
LEMMA UseSteps ==
    ASSUME Accounts, NEW c \in Call, NEW x, NEW W, Moves(c, x),
           NEW L \in [Module -> Nat],
           \A m \in Module : L[m] > 0 => Cardinality(Holding(pc', W, m)) <= L[m]
    PROVE  \/ Use(pc', W) = Use(pc, W)
           \/ \E m \in Module :
                 /\ c \notin Use(pc, W)[m]
                 /\ L[m] > 0 => Cardinality(Use(pc, W)[m]) < L[m]
                 /\ Use(pc', W) = [Use(pc, W) EXCEPT ![m] = @ \union {c}]
           \/ \E m \in Module :
                 /\ c \in Use(pc, W)[m]
                 /\ Use(pc', W) = [Use(pc, W) EXCEPT ![m] = @ \ {c}]
<1> DEFINE M == Mod(c)
           H == Holding(pc, W, M)
<1>1. M \in Module
  BY CallAssumption DEF Accounts, Mod
<1>2. IsFiniteSet(H) /\ Cardinality(H) \in Nat /\ Use(pc, W)[M] = H
  BY <1>1, HoldingFinite DEF Use
<1>3. Use(pc', W)[M] = Holding(pc', W, M)
  BY <1>1 DEF Use
<1>4. CASE x \in W /\ c \notin H
  <2>1. Use(pc', W) = [Use(pc, W) EXCEPT ![M] = @ \union {c}]
    BY <1>4, UseMoves
  <2>2. Holding(pc', W, M) = H \union {c}
    BY <1>1, <1>2, <1>3, <2>1 DEF Use
  <2>3. Cardinality(Holding(pc', W, M)) = Cardinality(H) + 1
    BY <1>2, <1>4, <2>2, FS_AddElement
  <2>4. L[M] > 0 => Cardinality(H) < L[M]
    BY <1>1, <1>2, <2>3
  <2> QED BY <1>1, <1>2, <1>4, <2>1, <2>4
<1>5. CASE x \notin W /\ c \in H
  BY <1>1, <1>2, <1>5, UseMoves
<1>6. CASE x \in W <=> c \in H
  <2>1. (IF x \in W THEN Use(pc, W)[M] \union {c} ELSE Use(pc, W)[M] \ {c}) = Use(pc, W)[M]
    BY <1>2, <1>6
  <2>2. Use(pc', W) = [Use(pc, W) EXCEPT ![M] = Use(pc, W)[M]]
    BY <2>1, UseMoves
  <2>3. Use(pc', W) = Use(pc, W)
    BY <2>2 DEF Use
  <2> QED BY <2>3
<1> QED BY <1>4, <1>5, <1>6

\* The holders of permits and slots are the calls at such places.
LEMMA HoldersAreUse ==
    /\ [m \in Module |-> PermitHolders(m)] = Use(pc, WithPermit)
    /\ [m \in Module |-> SlotHolders(m)] = Use(pc, WithSlot)
    /\ profile' = profile =>
          /\ [m \in Module |-> PermitHolders(m)]' = Use(pc', WithPermit)
          /\ [m \in Module |-> SlotHolders(m)]' = Use(pc', WithSlot)
BY DEF Use, Holding, PermitHolders, SlotHolders, WithPermit, WithSlot, Mod

\* What the accounts say of the number of holders after a balanced step.
LEMMA WithinLimits ==
    ASSUME Accounts', profile' = profile, NEW m \in Module
    PROVE  /\ Cardinality(Holding(pc', WithPermit, m)) <= Limit[m]
           /\ MaxParallel[m] > 0 =>
                 Cardinality(Holding(pc', WithSlot, m)) <= MaxParallel[m]
<1>1. /\ PermitHolders(m)' = Holding(pc', WithPermit, m)
      /\ SlotHolders(m)' = Holding(pc', WithSlot, m)
  BY DEF Mod, PermitHolders, SlotHolders, Holding, WithPermit, WithSlot
<1>2. /\ permits'[m] = Limit[m] - Cardinality(Holding(pc', WithPermit, m))
      /\ MaxParallel[m] > 0 =>
            slots'[m] = MaxParallel[m] - Cardinality(Holding(pc', WithSlot, m))
  BY <1>1 DEF Accounts, LimitsAccounted
<1>3. permits'[m] \in Nat /\ slots'[m] \in Nat
  BY DEF Accounts
<1>4. /\ Cardinality(Holding(pc', WithPermit, m)) \in Nat
      /\ Cardinality(Holding(pc', WithSlot, m)) \in Nat
  BY HoldingFinite
<1> QED
  BY <1>2, <1>3, <1>4, LimitAssumption

\* Limiter counts with the Cardinality of its own instance, which is the same.
LEMMA LimiterCardinality ==
    \A S : Permits!Cardinality(S) = Cardinality(S) /\ Slots!Cardinality(S) = Cardinality(S)
BY Zenon DEF Cardinality, Permits!Cardinality, Slots!Cardinality

\* A step of Dispatch is a step of both limiters.
LEMMA LimiterSteps ==
    ASSUME Accounts, Accounts', [Next]_vars
    PROVE  /\ [Permits!Next]_[m \in Module |-> PermitHolders(m)]
           /\ [Slots!Next]_[m \in Module |-> SlotHolders(m)]
<1>1. CASE UNCHANGED <<profile, pc, permits, slots>>
  <2>1. /\ [m \in Module |-> PermitHolders(m)]' = [m \in Module |-> PermitHolders(m)]
        /\ [m \in Module |-> SlotHolders(m)]' = [m \in Module |-> SlotHolders(m)]
    BY <1>1, HoldersAreUse
  <2> QED BY <2>1
<1>2. ASSUME NEW c \in Call, NEW x, Balanced(c, x)
      PROVE  /\ [Permits!Next]_[m \in Module |-> PermitHolders(m)]
             /\ [Slots!Next]_[m \in Module |-> SlotHolders(m)]
  <2>1. Moves(c, x) /\ profile' = profile
    BY <1>2 DEF Accounts, Balanced, Moves
  <2>2. Limit \in [Module -> Nat] /\ MaxParallel \in [Module -> Nat]
    BY LimitAssumption
  <2>3. [Permits!Next]_[m \in Module |-> PermitHolders(m)]
    <3>1. \A m \in Module : Limit[m] > 0 =>
              Cardinality(Holding(pc', WithPermit, m)) <= Limit[m]
      BY <2>1, WithinLimits
    <3>2. CASE Use(pc', WithPermit) = Use(pc, WithPermit)
      BY <2>1, <3>2, HoldersAreUse
    <3>3. CASE \E m \in Module :
                  /\ c \notin Use(pc, WithPermit)[m]
                  /\ Limit[m] > 0 => Cardinality(Use(pc, WithPermit)[m]) < Limit[m]
                  /\ Use(pc', WithPermit) = [Use(pc, WithPermit) EXCEPT ![m] = @ \union {c}]
      <4> DEFINE H == [m \in Module |-> PermitHolders(m)]
      <4>1. H = Use(pc, WithPermit) /\ H' = Use(pc', WithPermit)
        BY <2>1, HoldersAreUse
      <4> HIDE DEF H
      <4>2. PICK m \in Module : /\ c \notin H[m]
                                /\ Limit[m] > 0 => Cardinality(H[m]) < Limit[m]
                                /\ H' = [H EXCEPT ![m] = @ \union {c}]
        BY <3>3, <4>1
      <4>3. Limit[m] > 0 => Permits!Cardinality(H[m]) < Limit[m]
        BY <4>2, LimiterCardinality
      <4>4. Permits!Enter(c, m)
        BY <4>2, <4>3, Zenon DEF H, Permits!Enter
      <4> QED BY <4>4 DEF Permits!Next
    <3>4. CASE \E m \in Module :
                  /\ c \in Use(pc, WithPermit)[m]
                  /\ Use(pc', WithPermit) = [Use(pc, WithPermit) EXCEPT ![m] = @ \ {c}]
      <4>1. \E m \in Module : Permits!Leave(c, m)
        BY <2>1, <3>4, HoldersAreUse DEF Permits!Leave
      <4> QED BY <4>1 DEF Permits!Next
    <3> QED BY <2>1, <2>2, <3>1, <3>2, <3>3, <3>4, UseSteps
  <2>4. [Slots!Next]_[m \in Module |-> SlotHolders(m)]
    <3>1. \A m \in Module : MaxParallel[m] > 0 =>
              Cardinality(Holding(pc', WithSlot, m)) <= MaxParallel[m]
      BY <2>1, WithinLimits
    <3>2. CASE Use(pc', WithSlot) = Use(pc, WithSlot)
      BY <2>1, <3>2, HoldersAreUse
    <3>3. CASE \E m \in Module :
                  /\ c \notin Use(pc, WithSlot)[m]
                  /\ MaxParallel[m] > 0 => Cardinality(Use(pc, WithSlot)[m]) < MaxParallel[m]
                  /\ Use(pc', WithSlot) = [Use(pc, WithSlot) EXCEPT ![m] = @ \union {c}]
      <4> DEFINE H == [m \in Module |-> SlotHolders(m)]
      <4>1. H = Use(pc, WithSlot) /\ H' = Use(pc', WithSlot)
        BY <2>1, HoldersAreUse
      <4> HIDE DEF H
      <4>2. PICK m \in Module : /\ c \notin H[m]
                                /\ MaxParallel[m] > 0 => Cardinality(H[m]) < MaxParallel[m]
                                /\ H' = [H EXCEPT ![m] = @ \union {c}]
        BY <3>3, <4>1
      <4>3. MaxParallel[m] > 0 => Slots!Cardinality(H[m]) < MaxParallel[m]
        BY <4>2, LimiterCardinality
      <4>4. Slots!Enter(c, m)
        BY <4>2, <4>3, Zenon DEF H, Slots!Enter
      <4> QED BY <4>4 DEF Slots!Next
    <3>4. CASE \E m \in Module :
                  /\ c \in Use(pc, WithSlot)[m]
                  /\ Use(pc', WithSlot) = [Use(pc, WithSlot) EXCEPT ![m] = @ \ {c}]
      <4>1. \E m \in Module : Slots!Leave(c, m)
        BY <2>1, <3>4, HoldersAreUse DEF Slots!Leave
      <4> QED BY <4>1 DEF Slots!Next
    <3> QED BY <2>1, <2>2, <3>1, <3>2, <3>3, <3>4, UseSteps
  <2> QED BY <2>3, <2>4
<1> QED BY <1>1, <1>2, StepMoves

\* The calls that hold a permit, and those that hold a slot, come and go one by
\* one and never exceed the limit, for any limits, calls and modules.
THEOREM LimiterImplemented == Spec => ImplementsLimiter
<1>1. Init => Permits!Init /\ Slots!Init
  BY InitAccounts DEF Permits!Init, Slots!Init
<1>2. Accounts /\ Accounts' /\ [Next]_vars =>
          /\ [Permits!Next]_[m \in Module |-> PermitHolders(m)]
          /\ [Slots!Next]_[m \in Module |-> SlotHolders(m)]
  BY LimiterSteps
<1> QED
  BY <1>1, <1>2, AccountsKept, PTL DEF Spec, ImplementsLimiter, Permits!Spec, Slots!Spec
-----------------------------------------------------------------------------
(* Nodes and loads *)

\* Where a call is says which nodes it knows: before and after the dispatch none;
\* on its first node that one, if it counts in its load; on an alternate node the
\* nodes that were unreachable, the first among them, and those still to try.
Placed(q, a, f, tr, td) ==
    /\ q \notin {"run", "alt"} => f = None /\ tr = {} /\ td = {}
    /\ q = "run" => a \in Node /\ f \in {None, a} /\ tr = {} /\ td = {}
    /\ q = "alt" =>
          /\ a \in Node /\ f \in Node
          /\ f \in tr
          /\ a \notin tr \union td
          /\ tr \intersect td = {}
          /\ Cardinality(tr \union td) <= MaxNodeRetries

\* The calls that count for node n, when places and nodes are q, a and f.
Counted(q, a, f, n) == {c \in Call : f[c] = n \/ (q[c] = "alt" /\ a[c] = n)}

NodesType ==
    /\ profile \in Profiles
    /\ strategy \in Strategies
    /\ pc \in [Call -> Place]
    /\ at \in [Call -> Node \union {None}]
    /\ prim \in [Call -> Node \union {None}]
    /\ tried \in [Call -> SUBSET Node]
    /\ todo \in [Call -> SUBSET Node]
    /\ load \in [Node -> Nat]
    /\ registered \subseteq Node

NodesInv ==
    /\ NodesType
    /\ \A c \in Call : Placed(pc[c], at[c], prim[c], tried[c], todo[c])
    /\ LoadAccounted

\* A cardinality to count with.
LEMMA CountedFinite ==
    ASSUME NEW q, NEW a, NEW f, NEW n
    PROVE  IsFiniteSet(Counted(q, a, f, n)) /\ Cardinality(Counted(q, a, f, n)) \in Nat
<1>1. Counted(q, a, f, n) \subseteq Call
  BY DEF Counted
<1> QED
  BY <1>1, CallAssumption, FS_Subset, FS_CardinalityType

\* Whether call c counts for n.
Counts(q, a, f, n) == IF f = n \/ (q = "alt" /\ a = n) THEN 1 ELSE 0

\* Only call c moves.
Elsewhere(c, q, a, f, r, b, g) ==
    \A d \in Call \ {c} : r[d] = q[d] /\ b[d] = a[d] /\ g[d] = f[d]

\* The count of a node changes by what the call that moves counted and counts.
LEMMA CountedMoves ==
    ASSUME NEW q, NEW a, NEW f, NEW r, NEW b, NEW g, NEW n, NEW c \in Call,
           Elsewhere(c, q, a, f, r, b, g)
    PROVE  Cardinality(Counted(r, b, g, n)) =
               Cardinality(Counted(q, a, f, n)) + Counts(r[c], b[c], g[c], n)
                                                - Counts(q[c], a[c], f[c], n)
<1> DEFINE H == Counted(q, a, f, n)
           G == Counted(r, b, g, n)
<1>1. IsFiniteSet(H) /\ Cardinality(H) \in Nat
  BY CountedFinite
<1>2. \A d \in Call \ {c} : d \in G <=> d \in H
  BY DEF Counted, Elsewhere
<1>3. /\ c \in H <=> Counts(q[c], a[c], f[c], n) = 1
      /\ c \notin H <=> Counts(q[c], a[c], f[c], n) = 0
      /\ c \in G <=> Counts(r[c], b[c], g[c], n) = 1
      /\ c \notin G <=> Counts(r[c], b[c], g[c], n) = 0
  BY DEF Counted, Counts
<1>4. G \subseteq Call /\ H \subseteq Call
  BY DEF Counted
<1>5. CASE c \in H <=> c \in G
  <2>1. G = H
    BY <1>2, <1>4, <1>5
  <2> QED BY <1>1, <1>3, <1>5, <2>1
<1>6. CASE c \notin H /\ c \in G
  <2>1. G = H \union {c}
    BY <1>2, <1>4, <1>6
  <2>2. Cardinality(G) = Cardinality(H) + 1
    BY <1>1, <1>6, <2>1, FS_AddElement
  <2> QED BY <1>1, <1>3, <1>6, <2>2
<1>7. CASE c \in H /\ c \notin G
  <2>1. G = H \ {c}
    BY <1>2, <1>4, <1>7
  <2>2. Cardinality(G) = Cardinality(H) - 1
    BY <1>1, <1>7, <2>1, FS_RemoveElement
  <2> QED BY <1>1, <1>3, <1>7, <2>2
<1> QED BY <1>5, <1>6, <1>7

CallMoves(c) ==
    \A d \in Call \ {c} :
        /\ pc'[d] = pc[d] /\ at'[d] = at[d] /\ prim'[d] = prim[d]
        /\ tried'[d] = tried[d] /\ todo'[d] = todo[d]

\* The load of a node changes by what call c counted and counts.
LoadMoves(c) ==
    \A n \in Node : load'[n] = load[n] + Counts(pc'[c], at'[c], prim'[c], n)
                                       - Counts(pc[c], at[c], prim[c], n)

\* What a step of call c has to do to keep the invariant.
LEMMA NodesMove ==
    ASSUME NodesInv, NEW c \in Call, NodesType', CallMoves(c), LoadMoves(c),
           Placed(pc'[c], at'[c], prim'[c], tried'[c], todo'[c])
    PROVE  NodesInv'
<1>1. \A d \in Call : Placed(pc'[d], at'[d], prim'[d], tried'[d], todo'[d])
  BY DEF NodesInv, CallMoves
<1>2. ASSUME NEW n \in Node
      PROVE  load'[n] = Cardinality(CallsOn(n)')
  <2>1. CallsOn(n) = Counted(pc, at, prim, n) /\ CallsOn(n)' = Counted(pc', at', prim', n)
    BY DEF CallsOn, Counted
  <2>2. Cardinality(Counted(pc', at', prim', n)) =
            Cardinality(Counted(pc, at, prim, n)) + Counts(pc'[c], at'[c], prim'[c], n)
                                                  - Counts(pc[c], at[c], prim[c], n)
    <3>1. Elsewhere(c, pc, at, prim, pc', at', prim')
      BY DEF CallMoves, Elsewhere
    <3> QED BY <3>1, CountedMoves
  <2>3. load[n] = Cardinality(Counted(pc, at, prim, n))
    BY <2>1 DEF NodesInv, LoadAccounted
  <2> QED BY <2>1, <2>2, <2>3 DEF LoadMoves
<1> QED
  BY <1>1, <1>2 DEF NodesInv, LoadAccounted

\* What call c counts in is there, so that decrement never meets its lower bound.
LEMMA CountedIsThere ==
    ASSUME NodesInv, NEW c \in Call, NEW n \in Node
    PROVE  load[n] \in Nat /\ load[n] >= Counts(pc[c], at[c], prim[c], n)
<1>1. load[n] = Cardinality(Counted(pc, at, prim, n)) /\ load[n] \in Nat
  BY DEF NodesInv, NodesType, LoadAccounted, CallsOn, Counted
<1>2. CASE Counts(pc[c], at[c], prim[c], n) = 1
  <2>1. c \in Counted(pc, at, prim, n)
    BY <1>2 DEF Counts, Counted
  <2>2. Counted(pc, at, prim, n) # {}
    BY <2>1
  <2>3. Cardinality(Counted(pc, at, prim, n)) # 0
    BY <2>2, CountedFinite, FS_EmptySet
  <2> QED BY <1>1, <1>2, <2>3
<1>3. CASE Counts(pc[c], at[c], prim[c], n) = 0
  BY <1>1, <1>3
<1> QED BY <1>2, <1>3 DEF Counts

\* LoadWithout takes exactly what the call counts, on two nodes or one or none.
LEMMA LoadWithoutExact ==
    ASSUME NodesInv, NEW c \in Call
    PROVE  /\ LoadWithout(c) \in [Node -> Nat]
           /\ \A n \in Node :
                 LoadWithout(c)[n] = load[n] - Counts(pc[c], at[c], prim[c], n)
<1>1. /\ load \in [Node -> Nat]
      /\ Placed(pc[c], at[c], prim[c], tried[c], todo[c])
      /\ pc[c] \in Place /\ prim[c] \in Node \union {None} /\ at[c] \in Node \union {None}
  BY DEF NodesInv, NodesType
<1>2. \A n \in Node : load[n] \in Nat /\ load[n] >= Counts(pc[c], at[c], prim[c], n)
  BY CountedIsThere
<1>3. CASE pc[c] = "alt"
  <2>1. at[c] \in Node /\ prim[c] \in Node /\ at[c] # prim[c] /\ prim[c] # None
    BY <1>1, <1>3, NodeAssumption DEF Placed
  <2>2. LoadWithout(c) = Decrement(Decrement(load, at[c]), prim[c])
    BY <1>3, <2>1 DEF LoadWithout
  <2>3. \A n \in Node :
            Counts(pc[c], at[c], prim[c], n) = IF n = at[c] \/ n = prim[c] THEN 1 ELSE 0
    BY <1>3 DEF Counts
  <2> QED BY <1>1, <1>2, <2>1, <2>2, <2>3 DEF Decrement
<1>4. CASE pc[c] # "alt" /\ prim[c] # None
  <2>1. LoadWithout(c) = Decrement(load, prim[c])
    BY <1>4 DEF LoadWithout
  <2>2. \A n \in Node : Counts(pc[c], at[c], prim[c], n) = IF n = prim[c] THEN 1 ELSE 0
    BY <1>4 DEF Counts
  <2> QED BY <1>1, <1>2, <1>4, <2>1, <2>2 DEF Decrement
<1>5. CASE pc[c] # "alt" /\ prim[c] = None
  <2>1. LoadWithout(c) = load
    BY <1>5 DEF LoadWithout
  <2>2. \A n \in Node : Counts(pc[c], at[c], prim[c], n) = 0
    BY <1>5, NodeAssumption DEF Counts
  <2> QED BY <1>1, <2>1, <2>2
<1> QED BY <1>3, <1>4, <1>5

\* A call that leaves its nodes behind, for a fallback module or for good.
LEMMA GoneKeepsNodes ==
    ASSUME NodesInv, NEW c \in Call, NEW x \in {"permit", "slot", "fallback", "done"},
           NEW y \in Node \union {None},
           pc' = [pc EXCEPT ![c] = x], at' = [at EXCEPT ![c] = y],
           ForgetNodes(c), load' = LoadWithout(c),
           profile' = profile, strategy' = strategy, registered' = registered
    PROVE  NodesInv'
<1>1. NodesType'
  <2>1. load' \in [Node -> Nat]
    BY LoadWithoutExact
  <2> QED BY <2>1 DEF NodesInv, NodesType, ForgetNodes, Place
<1>2. CallMoves(c)
  BY DEF NodesInv, NodesType, CallMoves, ForgetNodes
<1>3. pc'[c] = x /\ prim'[c] = None /\ tried'[c] = {} /\ todo'[c] = {}
  BY DEF NodesInv, NodesType, ForgetNodes
<1>4. LoadMoves(c)
  <2>1. \A n \in Node : Counts(pc'[c], at'[c], prim'[c], n) = 0
    BY <1>3, NodeAssumption DEF Counts
  <2>2. \A n \in Node : load'[n] = load[n] - Counts(pc[c], at[c], prim[c], n)
    BY LoadWithoutExact
  <2>3. \A n \in Node : load[n] \in Nat /\ Counts(pc[c], at[c], prim[c], n) \in Nat
    BY DEF NodesInv, NodesType, Counts
  <2> QED BY <2>1, <2>2, <2>3 DEF LoadMoves
<1>5. Placed(pc'[c], at'[c], prim'[c], tried'[c], todo'[c])
  BY <1>3 DEF Placed
<1> QED BY <1>1, <1>2, <1>4, <1>5, NodesMove

\* What a call without nodes counts and forgets.
LEMMA NothingToForget ==
    ASSUME NodesInv, NEW c \in Call, pc[c] \notin {"run", "alt"}
    PROVE  /\ LoadWithout(c) = load
           /\ prim = [prim EXCEPT ![c] = None]
           /\ tried = [tried EXCEPT ![c] = {}]
           /\ todo = [todo EXCEPT ![c] = {}]
           /\ at = [at EXCEPT ![c] = at[c]] /\ at[c] \in Node \union {None}
<1>1. prim[c] = None /\ tried[c] = {} /\ todo[c] = {}
  BY DEF NodesInv, Placed
<1> QED
  BY <1>1 DEF NodesInv, NodesType, LoadWithout

\* resolve_for_action finds a node that is registered, or the local one.
LEMMA ResolveNode ==
    ASSUME NodesInv, NEW c \in Call, NEW q, NEW l, NEW av
    PROVE  Resolve(c, q, l, av) \subseteq Node
<1> DEFINE C == {n \in FindCapable(Mod(c), av) : q[n].until # "active"}
<1>1. C \subseteq Node
  BY DEF NodesInv, NodesType, FindCapable
<1>2. Select(C, Mod(c), l) \subseteq C \union {Local}
  <2>1. strategy \in {"local_first", "round_robin", "least_loaded", "affinity"}
    BY RoutingAssumption DEF NodesInv, NodesType
  <2> HIDE DEF C
  <2> QED BY <2>1 DEF Select, LocalFirst
<1>3. Local \in Node /\ registered \subseteq Node
  BY DEF Node, NodesInv, NodesType
<1> QED BY <1>1, <1>2, <1>3 DEF Resolve

\* The fallback chain leaves the nodes of the call.
LEMMA NextModuleNodes ==
    ASSUME NodesInv, NEW c \in Call, NEW k, NEW q, NEW l, NEW av, NEW p,
           NextModule(c, k, q, l, av, p)
    PROVE  /\ load' = l
           /\ ForgetNodes(c)
           /\ \E x \in {"fallback", "done"} : pc' = [pc EXCEPT ![c] = x]
           /\ \E y \in Node \union {None} : at' = [at EXCEPT ![c] = y]
<1>1. load' = l /\ ForgetNodes(c)
  BY DEF NextModule
<1>2. CASE Finish(c, "error", p)
  BY <1>1, <1>2 DEF Finish
<1>3. CASE /\ \E n \in Resolve(c, q, l, av) : StartOn(c, n, av)
           /\ pc' = [pc EXCEPT ![c] = "fallback"]
  <2>1. PICK n \in Resolve(c, q, l, av) : StartOn(c, n, av)
    BY <1>3
  <2>2. n \in Node
    BY ResolveNode
  <2> QED BY <1>1, <1>3, <2>1, <2>2 DEF StartOn
<1> QED BY <1>2, <1>3 DEF NextModule

\* It keeps the invariant if it starts with the load without the call.
LEMMA RaiseKeepsNodes ==
    ASSUME NodesInv, NEW c \in Call, NEW k, NEW q, NEW av, NEW p,
           NextModule(c, k, q, LoadWithout(c), av, p),
           profile' = profile, strategy' = strategy, registered' = registered
    PROVE  NodesInv'
<1>1. /\ load' = LoadWithout(c)
      /\ ForgetNodes(c)
      /\ \E x \in {"fallback", "done"} : pc' = [pc EXCEPT ![c] = x]
      /\ \E y \in Node \union {None} : at' = [at EXCEPT ![c] = y]
  BY NextModuleNodes
<1>2. PICK x \in {"fallback", "done"} : pc' = [pc EXCEPT ![c] = x]
  BY <1>1
<1>3. PICK y \in Node \union {None} : at' = [at EXCEPT ![c] = y]
  BY <1>1
<1> QED BY <1>1, <1>2, <1>3, GoneKeepsNodes

\* A dispatch that executes on its first node.
LEMMA StartKeepsNodes ==
    ASSUME NodesInv, NEW c \in Call, Start(c)
    PROVE  NodesInv'
<1>1. PICK n \in Resolve(c, quarantine, load, avail) :
         /\ StartOn(c, n, avail)
         /\ IF Mode(c) = "async"
            THEN prim' = [prim EXCEPT ![c] = n] /\ load' = Increment(load, n)
            ELSE UNCHANGED <<prim, load>>
  BY DEF Start
<1>2. n \in Node /\ n # None
  BY ResolveNode, NodeAssumption
<1>3. /\ pc[c] = "slot" /\ pc' = [pc EXCEPT ![c] = "run"]
      /\ at' = [at EXCEPT ![c] = n]
      /\ UNCHANGED <<profile, strategy, tried, todo, registered>>
  BY <1>1 DEF Start, TakeSlot, StartOn
<1>4. prim[c] = None /\ tried[c] = {} /\ todo[c] = {}
  BY <1>3 DEF NodesInv, Placed
<1>5. CASE prim' = [prim EXCEPT ![c] = n] /\ load' = Increment(load, n)
  <2>1. NodesType'
    BY <1>2, <1>3, <1>5 DEF NodesInv, NodesType, Place, Increment
  <2>2. CallMoves(c)
    BY <1>3, <1>5 DEF NodesInv, NodesType, CallMoves
  <2>3. pc'[c] = "run" /\ at'[c] = n /\ prim'[c] = n /\ tried'[c] = {} /\ todo'[c] = {}
    BY <1>3, <1>4, <1>5 DEF NodesInv, NodesType
  <2>4. LoadMoves(c)
    BY <1>2, <1>3, <1>4, <1>5, <2>3, NodeAssumption
       DEF NodesInv, NodesType, LoadMoves, Counts, Increment
  <2>5. Placed(pc'[c], at'[c], prim'[c], tried'[c], todo'[c])
    BY <1>2, <2>3 DEF Placed
  <2> QED BY <2>1, <2>2, <2>4, <2>5, NodesMove
<1>6. CASE UNCHANGED <<prim, load>>
  <2>1. NodesType'
    BY <1>2, <1>3, <1>6 DEF NodesInv, NodesType, Place
  <2>2. CallMoves(c)
    BY <1>3, <1>6 DEF NodesInv, NodesType, CallMoves
  <2>3. pc'[c] = "run" /\ at'[c] = n /\ prim'[c] = None /\ tried'[c] = {} /\ todo'[c] = {}
    BY <1>3, <1>4, <1>6 DEF NodesInv, NodesType
  <2>4. LoadMoves(c)
    BY <1>2, <1>3, <1>4, <1>6, <2>3, NodeAssumption
       DEF NodesInv, NodesType, LoadMoves, Counts
  <2>5. Placed(pc'[c], at'[c], prim'[c], tried'[c], todo'[c])
    BY <1>2, <2>3 DEF Placed
  <2> QED BY <2>1, <2>2, <2>4, <2>5, NodesMove
<1> QED BY <1>1, <1>5, <1>6

\* The alternates of a first node: other nodes, max_node_retries at most.
LEMMA AlternatesBounded ==
    ASSUME NodesInv, NEW c \in Call, NEW q, NEW av,
           NEW T \in AtMost(MaxNodeRetries, Alternates(c, q, av))
    PROVE  T \subseteq Node /\ at[c] \notin T /\ Cardinality(T) <= MaxNodeRetries
<1> DEFINE S == Alternates(c, q, av)
<1>1. S \subseteq Node /\ at[c] \notin S
  BY DEF Alternates, FindCapable, NodesInv, NodesType
<1>2. IsFiniteSet(Node)
  BY NodeAssumption, FS_AddElement DEF Node
<1>3. IsFiniteSet(S) /\ Cardinality(S) \in Nat
  BY <1>1, <1>2, FS_Subset, FS_CardinalityType
<1>4. T \in SUBSET S /\ Cardinality(T) = IF Cardinality(S) < MaxNodeRetries
                                         THEN Cardinality(S) ELSE MaxNodeRetries
  BY DEF AtMost
<1> HIDE DEF S
<1> QED BY <1>1, <1>3, <1>4, RoutingAssumption

\* One node is exchanged for another among those that are tried or to be tried.
LEMMA ExchangeNode ==
    ASSUME NEW S \in SUBSET Node, NEW a \in Node, NEW n \in S, a \notin S
    PROVE  Cardinality((S \union {a}) \ {n}) = Cardinality(S)
<1>1. IsFiniteSet(S)
  <2>1. IsFiniteSet(Node)
    BY NodeAssumption, FS_AddElement DEF Node
  <2> QED BY <2>1, FS_Subset
<1>2. IsFiniteSet(S \union {a}) /\ Cardinality(S \union {a}) = Cardinality(S) + 1
  BY <1>1, FS_AddElement
<1>3. Cardinality((S \union {a}) \ {n}) = Cardinality(S \union {a}) - 1
  BY <1>2, FS_RemoveElement
<1>4. Cardinality(S) \in Nat
  BY <1>1, FS_CardinalityType
<1> QED BY <1>2, <1>3, <1>4

\* What changes when call c goes on to the alternate node n of those in T.
GoesOn(c, n, T, l) ==
    /\ pc' = [pc EXCEPT ![c] = "alt"]
    /\ at' = [at EXCEPT ![c] = n]
    /\ load' = Increment(l, n)
    /\ todo' = [todo EXCEPT ![c] = T \ {n}]
    /\ tried' = [tried EXCEPT ![c] = @ \union {at[c]}]
    /\ UNCHANGED <<profile, strategy, prim, registered>>

\* From the first node to an alternate.
LEMMA FirstAlternate ==
    ASSUME NodesInv, NEW c \in Call, NEW T, NEW n \in T,
           pc[c] = "run", prim[c] # None, GoesOn(c, n, T, load),
           T \subseteq Node, at[c] \notin T, Cardinality(T) <= MaxNodeRetries
    PROVE  NodesInv'
<1>1. at[c] \in Node /\ prim[c] = at[c] /\ tried[c] = {} /\ n \in Node /\ n # at[c]
  BY DEF NodesInv, Placed
<1>2. NodesType'
  BY <1>1 DEF NodesInv, NodesType, Place, GoesOn, Increment
<1>3. CallMoves(c)
  BY DEF NodesInv, NodesType, CallMoves, GoesOn
<1>4. /\ pc'[c] = "alt" /\ at'[c] = n /\ prim'[c] = at[c] /\ tried'[c] = {at[c]}
      /\ todo'[c] = T \ {n}
  BY <1>1 DEF NodesInv, NodesType, GoesOn
<1>5. LoadMoves(c)
  BY <1>1, <1>4 DEF NodesInv, NodesType, LoadMoves, Counts, GoesOn, Increment
<1>6. Placed(pc'[c], at'[c], prim'[c], tried'[c], todo'[c])
  <2>1. (T \union {at[c]}) \ {n} = {at[c]} \union (T \ {n})
    BY <1>1
  <2>2. Cardinality({at[c]} \union (T \ {n})) = Cardinality(T)
    BY <1>1, <2>1, ExchangeNode
  <2> QED BY <1>1, <1>4, <2>2 DEF Placed
<1> QED BY <1>2, <1>3, <1>5, <1>6, NodesMove

\* From an alternate to the next one.
LEMMA NextAlternate ==
    ASSUME NodesInv, NEW c \in Call, NEW n \in todo[c],
           pc[c] = "alt", GoesOn(c, n, todo[c], Decrement(load, at[c]))
    PROVE  NodesInv'
<1> DEFINE S == tried[c] \union todo[c]
<1>1. /\ at[c] \in Node /\ prim[c] \in tried[c] /\ prim[c] \in Node
      /\ at[c] \notin S /\ tried[c] \intersect todo[c] = {}
      /\ Cardinality(S) <= MaxNodeRetries /\ S \subseteq Node
  BY DEF NodesInv, NodesType, Placed
<1>2. n \in Node /\ n # at[c] /\ n # prim[c] /\ n \notin tried[c] /\ at[c] # prim[c]
  BY <1>1
<1>3. NodesType'
  <2>1. Decrement(load, at[c]) \in [Node -> Nat]
    BY <1>1 DEF NodesInv, NodesType, Decrement
  <2> QED BY <1>1, <1>2, <2>1 DEF NodesInv, NodesType, Place, GoesOn, Increment
<1>4. CallMoves(c)
  BY DEF NodesInv, NodesType, CallMoves, GoesOn
<1>5. /\ pc'[c] = "alt" /\ at'[c] = n /\ prim'[c] = prim[c]
      /\ tried'[c] = tried[c] \union {at[c]} /\ todo'[c] = todo[c] \ {n}
  BY DEF NodesInv, NodesType, GoesOn
<1>6. LoadMoves(c)
  <2>1. load[at[c]] \in Nat /\ load[at[c]] >= 1
    <3>1. Counts(pc[c], at[c], prim[c], at[c]) = 1
      BY DEF Counts
    <3> QED BY <1>1, <3>1, CountedIsThere
  <2>2. \A k \in Node : Decrement(load, at[c])[k] = load[k] - (IF k = at[c] THEN 1 ELSE 0)
    BY <1>1, <2>1 DEF NodesInv, NodesType, Decrement
  <2>3. \A k \in Node : load'[k] = Decrement(load, at[c])[k] + (IF k = n THEN 1 ELSE 0)
    BY <1>2, <2>1 DEF NodesInv, NodesType, Decrement, GoesOn, Increment
  <2>4. /\ \A k \in Node : Counts(pc[c], at[c], prim[c], k) =
                               (IF k = at[c] \/ k = prim[c] THEN 1 ELSE 0)
        /\ \A k \in Node : Counts(pc'[c], at'[c], prim'[c], k) =
                               (IF k = n \/ k = prim[c] THEN 1 ELSE 0)
    BY <1>5 DEF Counts
  <2>5. \A k \in Node : load[k] \in Nat
    BY DEF NodesInv, NodesType
  <2> QED BY <1>2, <2>2, <2>3, <2>4, <2>5 DEF LoadMoves
<1>7. Placed(pc'[c], at'[c], prim'[c], tried'[c], todo'[c])
  <2>1. (S \union {at[c]}) \ {n} = (tried[c] \union {at[c]}) \union (todo[c] \ {n})
    BY <1>2
  <2>2. Cardinality((tried[c] \union {at[c]}) \union (todo[c] \ {n})) = Cardinality(S)
    BY <1>1, <2>1, ExchangeNode
  <2> QED BY <1>1, <1>2, <1>5, <2>2 DEF Placed
<1> QED BY <1>3, <1>4, <1>6, <1>7, NodesMove

\* An unreachable node sends the call to an alternate, or to the fallback chain.
LEMMA UnreachableKeepsNodes ==
    ASSUME NodesInv, NEW c \in Call, Unreachable(c)
    PROVE  NodesInv'
<1>1. /\ pc[c] \in {"run", "alt"} /\ prim[c] # None
      /\ UNCHANGED <<profile, strategy, registered>>
  BY DEF Unreachable
<1> DEFINE first == pc[c] = "run"
           q == RecordFailure(quarantine, at[c])
           l == IF first THEN load ELSE Decrement(load, at[c])
           asked(av) == IF first THEN FindCapable(Mod(c), av) \ {at[c]} ELSE {}
           Choices(av) == IF first THEN AtMost(MaxNodeRetries, Alternates(c, q, av))
                                   ELSE {todo[c]}
<1>2. PICK av : \E T \in Choices(av) :
         \/ /\ \E n \in T :
                  /\ StartOn(c, n, av)
                  /\ load' = Increment(l, n)
                  /\ todo' = [todo EXCEPT ![c] = T \ {n}]
            /\ tried' = [tried EXCEPT ![c] = @ \union {at[c]}]
            /\ pc' = [pc EXCEPT ![c] = "alt"]
            /\ UNCHANGED prim
         \/ Raise(c, IF NodeFallback THEN Purge(q, asked(av)) ELSE q,
                  LoadWithout(c), av, permits)
  BY DEF Unreachable
<1>3. CASE Raise(c, IF NodeFallback THEN Purge(q, asked(av)) ELSE q,
                 LoadWithout(c), av, permits)
  BY <1>1, <1>3, RaiseKeepsNodes DEF Raise
<1>4. ASSUME NEW T \in Choices(av), NEW n \in T, StartOn(c, n, av), load' = Increment(l, n),
             todo' = [todo EXCEPT ![c] = T \ {n}],
             tried' = [tried EXCEPT ![c] = @ \union {at[c]}],
             pc' = [pc EXCEPT ![c] = "alt"], UNCHANGED prim
      PROVE  NodesInv'
  <2>1. GoesOn(c, n, T, l)
    BY <1>1, <1>4 DEF GoesOn, StartOn
  <2>2. CASE pc[c] = "run"
    <3>1. T \in AtMost(MaxNodeRetries, Alternates(c, q, av)) /\ l = load
      BY <2>2
    <3>2. T \subseteq Node /\ at[c] \notin T /\ Cardinality(T) <= MaxNodeRetries
      BY <3>1, AlternatesBounded
    <3> QED BY <1>1, <2>1, <2>2, <3>1, <3>2, FirstAlternate
  <2>3. CASE pc[c] = "alt"
    <3>1. T = todo[c] /\ l = Decrement(load, at[c])
      BY <2>3
    <3> QED BY <2>1, <2>3, <3>1, NextAlternate
  <2> QED BY <1>1, <2>2, <2>3
<1> QED BY <1>2, <1>3, <1>4

\* Every step of a call moves it among its nodes as NodesMove asks.
LEMMA StepKeepsNodes ==
    ASSUME NodesInv, NEW c \in Call, CallStep(c)
    PROVE  NodesInv'
<1>1. pc[c] \notin {"run", "alt"} => LoadWithout(c) = load
  BY NothingToForget
<1> DEFINE Waits(x) == /\ pc[c] \notin {"run", "alt"}
                       /\ pc' = [pc EXCEPT ![c] = x]
                       /\ UNCHANGED <<profile, strategy, at, prim, tried, todo, load, registered>>
<1>2. CASE \E x \in {"permit", "slot"} : Waits(x)
  <2>1. PICK x \in {"permit", "slot"} : Waits(x)
    BY <1>2
  <2> QED BY <2>1, NothingToForget, GoneKeepsNodes DEF ForgetNodes
<1>3. CASE GetPermit(c) /\ Raise(c, quarantine, load, avail,
                                 [permits EXCEPT ![Mod(c)] = @ - 1])
  <2>1. pc[c] = "permit" /\ UNCHANGED <<profile, strategy, registered>>
    BY <1>3 DEF GetPermit
  <2> QED BY <1>1, <1>3, <2>1, RaiseKeepsNodes DEF Raise
<1>4. CASE Start(c)
  BY <1>4, StartKeepsNodes
<1>5. CASE StartUnknownNode(c)
  <2>1. /\ pc[c] = "slot" /\ UNCHANGED <<profile, strategy, registered>>
        /\ Raise(c, quarantine, load, avail, permits)
    BY <1>5 DEF StartUnknownNode, TakeSlot
  <2> QED BY <1>1, <2>1, RaiseKeepsNodes DEF Raise
<1>6. CASE StartBackground(c)
  <2>1. pc[c] = "slot" /\ UNCHANGED <<profile, strategy, prim, tried, todo, load, registered>>
    BY <1>6 DEF StartBackground, TakeSlot, nodeVars
  <2>2. pc' = [pc EXCEPT ![c] = "done"] /\ at' = [at EXCEPT ![c] = None]
    BY <1>6 DEF StartBackground, Finish
  <2> QED
    BY <2>1, <2>2, NothingToForget, GoneKeepsNodes DEF ForgetNodes
<1>7. CASE SlotTimeout(c)
  <2>1. /\ pc[c] = "slot" /\ UNCHANGED <<profile, strategy, registered>>
        /\ Raise(c, quarantine, load, avail, permits)
    BY <1>7 DEF SlotTimeout
  <2> QED BY <1>1, <2>1, RaiseKeepsNodes DEF Raise
<1>8. CASE Succeed(c) \/ Timeout(c)
  <2>1. /\ load' = LoadWithout(c) /\ ForgetNodes(c)
        /\ UNCHANGED <<profile, strategy, registered>>
        /\ pc' = [pc EXCEPT ![c] = "done"] /\ at' = [at EXCEPT ![c] = None]
    BY <1>8 DEF Succeed, Timeout, Finish
  <2> QED BY <2>1, GoneKeepsNodes
<1>9. CASE Unreachable(c)
  BY <1>9, UnreachableKeepsNodes
<1>10. CASE Fail(c)
  <2>1. PICK av : Raise(c, quarantine, LoadWithout(c), av, permits)
    BY <1>10 DEF Fail
  <2>2. UNCHANGED <<profile, strategy, registered>>
    BY <1>10 DEF Fail
  <2> QED BY <2>1, <2>2, RaiseKeepsNodes DEF Raise
<1>11. CASE FallbackFails(c)
  <2>1. PICK av : NextModule(c, left[c], quarantine, load, av, permits)
    BY <1>11 DEF FallbackFails
  <2>2. pc[c] = "fallback" /\ UNCHANGED <<profile, strategy, registered>>
    BY <1>11 DEF FallbackFails
  <2> QED BY <1>1, <2>1, <2>2, RaiseKeepsNodes
<1>12. CASE LooseEnds(c)
  BY <1>12 DEF LooseEnds, nodeVars, NodesInv, NodesType, LoadAccounted, CallsOn
<1>13. Submit(c) => Waits("permit")
  BY DEF Submit, nodeVars
<1>14. GetPermit(c) =>
          \/ Raise(c, quarantine, load, avail, [permits EXCEPT ![Mod(c)] = @ - 1])
          \/ Waits("slot")
  BY DEF GetPermit
<1> HIDE DEF Waits
<1> QED
  BY <1>2, <1>3, <1>4, <1>5, <1>6, <1>7, <1>8, <1>9, <1>10, <1>11, <1>12, <1>13, <1>14
     DEF CallStep

\* The loads and the nodes of the calls fit, whatever happens to calls and nodes.
THEOREM NodesInvariant == Spec => []NodesInv
<1>1. Init => NodesInv
  <2> SUFFICES ASSUME Init PROVE NodesInv
    OBVIOUS
  <2>1. NodesType /\ \A c \in Call : Placed(pc[c], at[c], prim[c], tried[c], todo[c])
    BY DEF Init, NodesType, Placed, Place
  <2>2. ASSUME NEW n \in Node
        PROVE  load[n] = Cardinality(CallsOn(n))
    <3>1. CallsOn(n) = {}
      BY <2>2, NodeAssumption DEF Init, CallsOn
    <3> QED BY <3>1, FS_EmptySet DEF Init
  <2> QED BY <2>1, <2>2 DEF NodesInv, LoadAccounted
<1>2. NodesInv /\ [Next]_vars => NodesInv'
  <2> SUFFICES ASSUME NodesInv, [Next]_vars PROVE NodesInv'
    OBVIOUS
  <2>1. CASE \E c \in Call : CallStep(c)
    BY <2>1, StepKeepsNodes
  <2>2. CASE Others
    <3>1. UNCHANGED otherVars /\ load' = load /\ registered' \subseteq registered
      BY <2>2 DEF Others, CooldownEnds, ToggleModule, QuarantineEnds, Heartbeat,
                  Unregister, nodeVars
    <3> QED BY <3>1 DEF otherVars, callVars, NodesInv, NodesType, LoadAccounted, CallsOn
  <2>3. CASE UNCHANGED vars
    BY <2>3 DEF vars, callVars, nodeVars, NodesInv, NodesType, LoadAccounted, CallsOn
  <2> QED BY <2>1, <2>2, <2>3 DEF Next
<1> QED
  BY <1>1, <1>2, PTL DEF Spec

\* The load the selector compares is the number of async calls at a node: counting
\* up and down on the way through primary, alternates, errors and timeouts is exact.
THEOREM LoadsSound == Spec => []LoadAccounted
<1>1. NodesInv => LoadAccounted
  BY DEF NodesInv
<1> QED BY <1>1, NodesInvariant, PTL

\* A call that goes through alternate nodes sends its action to none of them twice
\* and to max_node_retries besides the first at most.
THEOREM NodesOnce == Spec => []EachNodeOnce
<1>1. NodesInv => EachNodeOnce
  BY DEF NodesInv, Placed, EachNodeOnce
<1> QED BY <1>1, NodesInvariant, PTL
=============================================================================
