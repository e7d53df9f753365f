---------------------------- MODULE MCIsolation ----------------------------
(* Two calls beside the monitor, a call beside a start of the module manager, *)
(* and the monitor beside its start and stop, with up to two workers.         *)
EXTENDS Isolation

Plans(c, d, monitor, manager) ==
    [t \in Task |-> CASE t = 1 -> c [] t = 2 -> d
                     [] t = Monitor -> monitor [] t = Manager -> manager]
MCAgendas == {Plans(1, 1, 1, 0), Plans(1, 0, 0, 1), Plans(0, 0, 1, 2)}
=============================================================================
