--------------------------- MODULE MCDagScheduler ---------------------------
(***************************************************************************)
(* Every graph of four actions, cyclic ones too, in both kinds of mode.    *)
(***************************************************************************)
EXTENDS DagScheduler
=============================================================================
