---------------------------- MODULE MCDispatch ----------------------------
(***************************************************************************)
(* Two calls and two remote nodes.  Two calls of m1 wait for its permit,   *)
(* two calls of m2 for its slot.  Module m2 has a cooldown and two         *)
(* fallback modules.                                                       *)
(***************************************************************************)
EXTENDS Dispatch, TLC

CONSTANTS a, b, m1, m2, n1, n2

P(x, y, mode, target) ==
    [module |-> (a :> x) @@ (b :> y),
     mode |-> (a :> "async") @@ (b :> mode),
     target |-> (a :> None) @@ (b :> target)]

MCProfiles ==
    {P(m1, m1, "async", n1), P(m1, m2, "async", n1), P(m2, m2, "sync", n1),
     P(m2, m1, "background", None)}
MCAffinity == (m1 :> n1) @@ (m2 :> n2)
MCCapable == (m1 :> {n1, n2, Local}) @@ (m2 :> {n1})
MCCharged == (n1 :> 1) @@ (n2 :> 0)
MCLimit == (m1 :> 1) @@ (m2 :> 2)
MCMaxParallel == (m1 :> 0) @@ (m2 :> 1)
MCCooldown == (m1 :> FALSE) @@ (m2 :> TRUE)
MCFallbacks == (m1 :> 0) @@ (m2 :> 2)
=============================================================================
