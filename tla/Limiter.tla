------------------------------ MODULE Limiter ------------------------------
(***************************************************************************)
(* What concurrency limits promise: at most Limit[s] of the users are in a *)
(* section s, each enters once at a time, and who leaves makes room for    *)
(* one other.  Dispatch implements it twice, with the semaphores of the    *)
(* ResourceManager and with the slots of the module policies.              *)
(***************************************************************************)
EXTENDS Naturals, FiniteSets

CONSTANTS
    User,       \* who may be in a section
    Section,    \* the sections
    Limit       \* how many may be in each, 0 for no limit

VARIABLE inUse  \* the users in each section

Init == inUse = [s \in Section |-> {}]

Enter(u, s) ==
    /\ u \notin inUse[s]
    /\ Limit[s] > 0 => Cardinality(inUse[s]) < Limit[s]
    /\ inUse' = [inUse EXCEPT ![s] = @ \union {u}]

Leave(u, s) ==
    /\ u \in inUse[s]
    /\ inUse' = [inUse EXCEPT ![s] = @ \ {u}]

Next == \E u \in User, s \in Section : Enter(u, s) \/ Leave(u, s)

Spec == Init /\ [][Next]_inUse
=============================================================================
