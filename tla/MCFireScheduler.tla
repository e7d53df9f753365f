--------------------------- MODULE MCFireScheduler ---------------------------
(***************************************************************************)
(* Three triggers that differ in priority, conflict policy and rate limit; *)
(* for QueueDrains, triggers as AppTriggerBridge registers them.           *)
(***************************************************************************)
EXTENDS FireScheduler, TLC

CONSTANTS t1, t2, t3

MCInfo ==
    (t1 :> [priority |-> 3, policy |-> "reject", perHour |-> 0]) @@
    (t2 :> [priority |-> 2, policy |-> "queue", perHour |-> 0]) @@
    (t3 :> [priority |-> 2, policy |-> "preempt", perHour |-> 1])

AppInfo == [t \in Trigger |-> [priority |-> 2, policy |-> "queue", perHour |-> 0]]
=============================================================================
