--------------------------- MODULE MCApprovalGate ---------------------------
(***************************************************************************)
(* Two actions of one plan on the same module.action, and a run of an app  *)
(* without a run id on it too.                                             *)
(***************************************************************************)
EXTENDS ApprovalGate, TLC

CONSTANTS r1, r2, r3, p1, k1

MCInfo ==
    (r1 :> [client |-> "plan", session |-> p1, key |-> k1, onTimeout |-> "reject"]) @@
    (r2 :> [client |-> "plan", session |-> p1, key |-> k1, onTimeout |-> "skip"]) @@
    (r3 :> [client |-> "app", session |-> NoSession, key |-> k1, onTimeout |-> "reject"])
=============================================================================
