------------------------- MODULE FlowExecutorProofs -------------------------
(***************************************************************************)
(* For every flow that is a tree: which steps run while others do, what    *)
(* the checkpoint holds, and when a recorded success is one.               *)
(*                                                                         *)
(* Every action on a step has one of six shapes (Shape).  Two invariants   *)
(* are kept shape by shape: TreeInv says which children of a step may be   *)
(* running, from its place alone; RunInv says of a flow that only jumps    *)
(* forward that what is still ahead of the run was not begun in it.        *)
(***************************************************************************)
EXTENDS FlowExecutor, TLAPS

Live(s) == st[s] \in {"queued", "on"}

\* Where a step can be among its children.
Positions(p) ==
    /\ phase[p] # "body" => pos[p] > 0
    /\ phase[p] = "cleanup" => Kind[p] \in Waits
    /\ phase[p] \in {"catch", "finally"} => Kind[p] = "try"
    /\ phase[p] = "catch" => Catch[p] # None
    /\ phase[p] = "finally" => pos[p] <= Len(Finally[p])
    /\ phase[p] = "body" /\ Kind[p] \notin FanOut \union {"loop"} => pos[p] <= Len(Kids[p])
    /\ Kind[p] \in FanOut => pos[p] \in {0, 1}
    /\ Kind[p] = "failfast" /\ phase[p] = "cleanup" => pend[p] # "ok"

\* The children of p that may run, when p awaits all of its tasks.
Active(p) ==
    IF st[p] # "on" \/ pos[p] = 0 THEN {}
    ELSE IF Kind[p] \in InOrder THEN {Child(p)}
    ELSE IF Kind[p] = "try" THEN IF phase[p] = "catch" THEN {Catch[p]} ELSE {Current(p)}
    ELSE Under(p)

Nested(p) == Kind[p] \notin Waits => \A c \in Under(p) : Live(c) => c \in Active(p)

\* A step that is not on is at its beginning.
Rewound(p) == st[p] # "on" => pos[p] = 0 /\ phase[p] = "body"

\* One step of the top level runs, in a run, and none before the run.
OneTop ==
    /\ \A j \in 1..Len(Top) : Live(Top[j]) => run = "running" /\ j = i
    /\ run = "off" => \A s \in Step : st[s] = "off"

\* A target of a goto that step s has left with is one of a goto in s.
From(o, s) ==
    o \in Step => \E g \in Step : Kind[g] = "goto" /\ Goto[g] = o /\ TopOf[g] = TopOf[s]

\* Which children run, by the place of each step.
TreeInv ==
    /\ TypeOK
    /\ OneTop
    /\ \A p \in Step : Positions(p) /\ Nested(p) /\ Rewound(p)
    /\ \A s \in Step : From(st[s], s) /\ From(pend[s], s)
-----------------------------------------------------------------------------
(* The tree *)

\* What is under a step is a step, and under no other one.
LEMMA UnderSteps ==
    ASSUME NEW p \in Step
    PROVE  /\ Under(p) \subseteq Step /\ KidSet(p) \subseteq Under(p)
           /\ FinallySet(p) \subseteq Under(p)
           /\ p \notin Under(p)
           /\ \A q \in Step \ {p} : \A c \in Under(p) : c \notin Under(q)
           /\ \A j \in 1..Len(Top) : Top[j] \in Step /\ Top[j] \notin Under(p)
           /\ \A c \in Under(p) : TopOf[c] = TopOf[p]
<1>1. Kids[p] \in Seq(Step) /\ Finally[p] \in Seq(Step) /\ Catch[p] \in Step \union {None}
  BY TreeAssumption
<1>2. KidSet(p) \subseteq Step /\ FinallySet(p) \subseteq Step
  BY <1>1 DEF KidSet, FinallySet
<1>3. \A j \in 1..Len(Top) : Top[j] \in Step /\ Top[j] \in TopSteps
  BY TreeAssumption DEF TopSteps
<1> QED  BY <1>1, <1>2, <1>3, ShapeAssumption DEF Under, Inside

\* The place of a child, also in an iteration of a loop.
LEMMA Places ==
    ASSUME NEW p \in Step
    PROVE  /\ \A k \in 1..Len(Kids[p]) : Kids[p][k] \in KidSet(p)
           /\ \A k \in 1..Len(Finally[p]) : Finally[p][k] \in FinallySet(p)
           /\ Kind[p] \in InOrder \union {"try"} \union FanOut => Len(Kids[p]) \in Nat \ {0}
           /\ Kind[p] \in Leaf \union {"end", "goto"} => Under(p) = {}
           /\ Kind[p] \in FanOut \union InOrder => Under(p) = KidSet(p)
<1>1. Kids[p] \in Seq(Step) /\ Finally[p] \in Seq(Step)
  BY TreeAssumption
<1>2. /\ Kind[p] # "try" => Catch[p] = None /\ Finally[p] = <<>>
      /\ Kids[p] = <<>> <=> Kind[p] \in Leaf \union {"end", "goto"}
  BY ShapeAssumption
<1>3. Kind[p] \in InOrder \union {"try"} \union FanOut => Len(Kids[p]) \in Nat \ {0}
  BY <1>1, <1>2 DEF InOrder, FanOut, Leaf
<1>4. Kind[p] \in Leaf \union {"end", "goto"} => Under(p) = {}
  BY <1>1, <1>2 DEF Leaf, Under, Inside, KidSet, FinallySet
<1>5. Kind[p] \in FanOut \union InOrder => Under(p) = KidSet(p)
  BY <1>2 DEF FanOut, InOrder, Under, Inside, KidSet, FinallySet
<1> QED  BY <1>3, <1>4, <1>5 DEF KidSet, FinallySet

\* The remainder is an index of a sequence of n.
LEMMA Remainder ==
    ASSUME NEW k \in Nat, k > 0, NEW n \in Nat, n > 0
    PROVE  /\ ((k - 1) % n) + 1 \in 1..n
           /\ k <= n => ((k - 1) % n) + 1 = k
<1>1. PICK a \in Nat : a = k - 1
  OBVIOUS
<1>2. a % n \in 0..n - 1 /\ (a < n => a % n = a)
  OBVIOUS
<1>3. (a % n) + 1 \in 1..n /\ (k <= n => (a % n) + 1 = k)
  BY <1>1, <1>2
<1> QED  BY <1>1, <1>3

\* The step a loop comes to at k is one of its children, in its first iteration
\* the one at k.
LEMMA Turn ==
    ASSUME NEW p \in Step, Kind[p] \in InOrder \union {"try"}, NEW k \in Nat, k > 0
    PROVE  /\ Kids[p][((k - 1) % Len(Kids[p])) + 1] \in KidSet(p)
           /\ k <= Len(Kids[p]) => Kids[p][((k - 1) % Len(Kids[p])) + 1] = Kids[p][k]
<1>1. PICK n \in Nat : n = Len(Kids[p]) /\ n > 0
  BY Places
<1>2. ((k - 1) % n) + 1 \in 1..n /\ (k <= n => ((k - 1) % n) + 1 = k)
  BY <1>1, Remainder
<1> QED  BY <1>1, <1>2, Places
-----------------------------------------------------------------------------
(* The shapes of the actions on one step *)

Calm(s) == \A c \in Under(s) : ~Live(c)

\* What is known of the children where a step leaves with "ok".
Deserves(s) ==
    /\ Kind[s] \in {"sequence", "pipe"} => pos[s] = 0 \/ (clean[s] /\ st[Child(s)] = "ok")
    /\ Kind[s] \in {"gather", "failfast"} => \A c \in KidSet(s) : st[c] = "ok"

\* It leaves, with no child running except those of a race or fail-fast step.
LeavesWith(s, o, kids) ==
    /\ On(s) /\ Leave(s, o, kids)
    /\ kids \subseteq Under(s) /\ \A c \in kids : Over(c)
    /\ o \in Left \union Step /\ From(o, s)
    /\ Kind[s] \notin Waits => Calm(s)
    /\ o = "ok" => Deserves(s)
Leaves(s) == \E o \in Left \union Step, kids \in SUBSET Step : LeavesWith(s, o, kids)

\* The places of all steps but s are kept.
KeepsPlaces(s) ==
    /\ pos' \in [Step -> Nat]
    /\ phase' \in [Step -> {"body", "cleanup", "catch", "finally"}]
    /\ pend' \in [Step -> Left \union Step]
    /\ clean' \in [Step -> BOOLEAN]
    /\ \A p \in Step \ {s} : /\ pos'[p] = pos[p] /\ phase'[p] = phase[p]
                             /\ pend'[p] = pend[p] /\ clean'[p] = clean[p]

\* The children of a step that are still to come.
ToCome(p) ==
    IF Kind[p] \in {"sequence", "pipe"} THEN {Kids[p][k] : k \in pos[p] + 1..Len(Kids[p])}
    ELSE IF Kind[p] = "try"
    THEN IF phase[p] = "body"
         THEN {Kids[p][k] : k \in pos[p] + 1..Len(Kids[p])} \union FinallySet(p)
              \union {Catch[p]}
         ELSE IF phase[p] = "catch" THEN FinallySet(p)
         ELSE {Finally[p][k] : k \in pos[p] + 1..Len(Finally[p])}
    ELSE IF pos[p] = 0 THEN KidSet(p) ELSE {}

\* Its next child x is begun.
GoesTo(s, x, kids) ==
    /\ On(s) /\ Kind[s] \in InOrder \union {"try"}
    /\ x \in Under(s) /\ Calm(s)
    /\ kids \subseteq Under(s) /\ \A c \in kids : Over(c)
    /\ st' = [t \in Step |-> IF t = x THEN "on" ELSE IF t \in kids THEN "off" ELSE st[t]]
    /\ KeepsPlaces(s) /\ Positions(s)'
    /\ UNCHANGED <<flowVars, cancel, results>>
    /\ st'[s] = "on" => Active(s)' = {x}
    /\ From(pend'[s], s)
    /\ Kind[s] # "loop" => x \in ToCome(s) /\ ToCome(s)' \subseteq ToCome(s) \ {x}
    /\ Kind[s] \in {"sequence", "pipe"} =>
         /\ pos'[s] = pos[s] + 1
         /\ clean'[s] => pos[s] = 0 \/ (clean[s] /\ st[Child(s)] = "ok")
Goes(s) == \E x \in Step, kids \in SUBSET Step : GoesTo(s, x, kids)

\* A task that is not running ends, or the outcome it left is dropped.
Ends(s) ==
    /\ st[s] # "on"
    /\ \/ st[s] = "queued" /\ st' = [st EXCEPT ![s] = "cancelled"]
       \/ s \notin TopSteps /\ st' = [st EXCEPT ![s] = "off"]
    /\ cancel' \subseteq cancel
    /\ UNCHANGED <<flowVars, pos, phase, pend, clean, results>>

\* A step decides what it will leave with, and cancels its children.
Settles(s) ==
    /\ On(s) /\ Kind[s] \in FanOut /\ pos[s] = 1
    /\ KeepsPlaces(s) /\ Positions(s)'
    /\ pos' = pos /\ clean' = clean
    /\ pend'[s] \in {"ok", "failed", "cancelled"}
    /\ cancel' \subseteq Step
    /\ UNCHANGED <<flowVars, st, results>>

Shape(s) ==
    \/ Leaves(s) \/ Goes(s) \/ EnterFanOut(s) \/ Ends(s) \/ Settles(s)
    \/ \E c \in KidSet(s) : GetsSemaphore(s, c)

\* No child of a step runs where it has not begun one, or the one that may is over.
LEMMA CalmWhenOver ==
    ASSUME TreeInv, NEW s \in Step, Kind[s] \notin Waits,
           \A c \in Active(s) : Over(c)
    PROVE  Calm(s)
BY DEF TreeInv, Nested, Calm, Over, Live

\* The child a step that has begun one is at.
LEMMA ChildIn ==
    ASSUME TypeOK, NEW s \in Step, Kind[s] \in InOrder, pos[s] > 0
    PROVE  /\ Child(s) \in KidSet(s) /\ Child(s) \in Under(s) /\ Child(s) \in Step
           /\ pos[s] <= Len(Kids[s]) => Child(s) = Kids[s][pos[s]]
<1>1. PICK k \in Nat : k = pos[s]
  BY DEF TypeOK
<1>2. /\ Kids[s][((k - 1) % Len(Kids[s])) + 1] \in KidSet(s)
      /\ k <= Len(Kids[s]) => Kids[s][((k - 1) % Len(Kids[s])) + 1] = Kids[s][k]
  BY <1>1, Turn
<1> QED  BY <1>1, <1>2, UnderSteps DEF Child

\* A child that is begun at k makes the shape Goes.
LEMMA BeginGoes ==
    ASSUME TreeInv, NEW s \in Step, NEW k \in Nat, NEW kids \in SUBSET Step,
           On(s), Kind[s] \in InOrder \union {"try"}, phase[s] = "body",
           k > pos[s], Kind[s] # "loop" => k <= Len(Kids[s]),
           Kind[s] \in {"sequence", "pipe"} =>
             /\ k = pos[s] + 1
             /\ clean'[s] => pos[s] = 0 \/ (clean[s] /\ st[Child(s)] = "ok"),
           Kind[s] = "branch" => pos[s] = 0,
           Calm(s), kids \subseteq Under(s), \A c \in kids : Over(c),
           clean' \in [Step -> BOOLEAN], \A p \in Step \ {s} : clean'[p] = clean[p],
           Begin(s, k, kids)
    PROVE  Goes(s)
<1> DEFINE x == Kids[s][((k - 1) % Len(Kids[s])) + 1]
<1>1. /\ TypeOK /\ Positions(s) /\ From(pend[s], s)
  BY DEF TreeInv
<1>2. pos[s] \in Nat /\ k > 0
  BY <1>1 DEF TypeOK
<1>3. x \in KidSet(s) /\ (k <= Len(Kids[s]) => x = Kids[s][k])
  BY <1>2, Turn
<1>4. x \in Under(s) /\ x \in Step /\ s \notin Under(s)
  BY <1>3, UnderSteps
<1>5. /\ st' = [t \in Step |-> IF t = x THEN "on" ELSE IF t \in kids THEN "off" ELSE st[t]]
      /\ pos' = [pos EXCEPT ![s] = k]
      /\ UNCHANGED <<flowVars, phase, pend, cancel, results>>
  BY DEF Begin
<1> HIDE DEF x
<1>6. KeepsPlaces(s)
  <2>1. /\ pos' \in [Step -> Nat]
        /\ phase' \in [Step -> {"body", "cleanup", "catch", "finally"}]
        /\ pend' \in [Step -> Left \union Step]
        /\ \A p \in Step \ {s} : pos'[p] = pos[p] /\ phase'[p] = phase[p] /\ pend'[p] = pend[p]
    BY <1>1, <1>5 DEF TypeOK
  <2> QED  BY <2>1 DEF KeepsPlaces
<1>7. pos'[s] = k /\ phase'[s] = "body" /\ pend'[s] = pend[s]
  BY <1>1, <1>5 DEF TypeOK
<1>8. Positions(s)'
  BY <1>1, <1>2, <1>7 DEF Positions, InOrder, FanOut
<1>9. Active(s)' = {x} \/ st'[s] # "on"
  BY <1>2, <1>7, <1>3 DEF Active, Child, Current, x, InOrder
<1>10. Kind[s] # "loop" => x \in ToCome(s) /\ ToCome(s)' \subseteq ToCome(s) \ {x}
  <2> SUFFICES ASSUME Kind[s] # "loop"
               PROVE  x \in ToCome(s) /\ ToCome(s)' \subseteq ToCome(s) \ {x}
    OBVIOUS
  <2>1. k \in 1..Len(Kids[s]) /\ x = Kids[s][k] /\ Len(Kids[s]) \in Nat
    BY <1>2, <1>3, Places
  <2>2. /\ Distinct(Kids[s]) /\ KidSet(s) \intersect FinallySet(s) = {}
        /\ Catch[s] \notin KidSet(s)
    BY ShapeAssumption
  <2>3. CASE Kind[s] \in {"sequence", "pipe"}
    BY <2>1, <2>2, <2>3, <1>2, <1>7 DEF ToCome, Distinct
  <2>4. CASE Kind[s] = "branch"
    BY <2>1, <2>4, <1>2, <1>3, <1>7 DEF ToCome
  <2>5. CASE Kind[s] = "try"
    <3>1. /\ ToCome(s) = {Kids[s][n] : n \in pos[s] + 1..Len(Kids[s])} \union FinallySet(s)
                            \union {Catch[s]}
          /\ ToCome(s)' = {Kids[s][n] : n \in k + 1..Len(Kids[s])} \union FinallySet(s)
                            \union {Catch[s]}
      BY <2>5, <1>7 DEF ToCome, FinallySet
    <3>2. x \notin FinallySet(s) \union {Catch[s]}
      BY <2>2, <1>3
    <3> QED  BY <3>1, <3>2, <2>1, <2>2, <1>2 DEF Distinct
  <2> QED  BY <2>3, <2>4, <2>5 DEF InOrder
<1>11. GoesTo(s, x, kids)
  BY <1>1, <1>4, <1>5, <1>6, <1>7, <1>8, <1>9, <1>10 DEF GoesTo
<1> QED  BY <1>4, <1>11 DEF Goes

\* A step that runs its children in order enters and goes on in one of two shapes.
LEMMA InOrderShape ==
    ASSUME TreeInv, NEW s \in Step, EnterInOrder(s) \/ GoOn(s)
    PROVE  Leaves(s) \/ Goes(s)
<1>1. TypeOK /\ Positions(s) /\ Kind[s] \notin Waits /\ Kind[s] \in InOrder /\ On(s)
  BY DEF TreeInv, EnterInOrder, GoOn, InOrder, Waits
<1>2. pos[s] \in Nat /\ phase[s] = "body" /\ Len(Kids[s]) \in Nat \ {0}
  BY <1>1, Places DEF TypeOK, Positions, InOrder, Waits
<1>3. CASE EnterInOrder(s)
  <2>1. Calm(s)
    BY <1>1, <1>3, CalmWhenOver DEF EnterInOrder, Active
  <2>2. CASE Leave(s, "ok", {})
    <3>1. From("ok", s)
      BY ShapeAssumption DEF From, Left
    <3>2. LeavesWith(s, "ok", {})
      BY <3>1, <2>1, <2>2, <1>1, <1>3 DEF LeavesWith, Left, Deserves, EnterInOrder, InOrder
    <3> QED  BY <3>2 DEF Leaves, Left
  <2>3. ASSUME NEW k \in (IF Kind[s] = "branch" THEN 1..Len(Kids[s]) ELSE {1}),
               Begin(s, k, {}), clean' = clean
        PROVE  Goes(s)
    <3>1. /\ k \in Nat /\ k > pos[s] /\ k <= Len(Kids[s]) /\ pos[s] = 0
          /\ Kind[s] # "branch" => k = pos[s] + 1
      BY <1>2, <1>3, <2>3 DEF EnterInOrder
    <3>2. clean' \in [Step -> BOOLEAN] /\ \A p \in Step \ {s} : clean'[p] = clean[p]
      BY <2>3, <1>1 DEF TypeOK
    <3> QED  BY <3>1, <3>2, <2>1, <2>3, <1>1, <1>2, BeginGoes
  <2> QED  BY <1>3, <2>2, <2>3 DEF EnterInOrder
<1>4. CASE GoOn(s)
  <2> DEFINE c == Child(s)
  <2>1. pos[s] > 0 /\ Over(c)
    BY <1>4 DEF GoOn
  <2>2. c \in KidSet(s) /\ c \in Under(s) /\ c \in Step
    BY <2>1, <1>1, ChildIn
  <2>3. Calm(s)
    BY <2>1, <1>1, CalmWhenOver DEF Active
  <2>4. st[c] \in Left \union Step /\ From(st[c], s)
    <3>1. st[c] \in {"off", "queued", "on"} \union Left \union Step
      BY <2>2, <1>1 DEF TypeOK
    <3>2. From(st[c], c) /\ TopOf[c] = TopOf[s]
      BY <2>2, UnderSteps DEF TreeInv
    <3> QED  BY <3>1, <3>2, <2>1 DEF Over, From
  <2>5. ASSUME NEW o \in Left \union Step, Leave(s, o, {c}), From(o, s), o = "ok" => Fine(s)
        PROVE  Leaves(s)
    <3>1. LeavesWith(s, o, {c})
      BY <2>5, <2>1, <2>2, <2>3, <1>1 DEF LeavesWith, Deserves, Fine, InOrder
    <3> QED  BY <3>1, <2>2 DEF Leaves
  <2>6. CASE st[c] \notin {"ok", "failed"}
    BY <2>4, <2>5, <2>6, <1>4 DEF GoOn
  <2>7. CASE Leave(s, IF Fine(s) THEN "ok" ELSE "failed", {c})
    <3>1. From("ok", s) /\ From("failed", s) /\ {"ok", "failed"} \subseteq Left
      BY ShapeAssumption DEF From, Left
    <3> QED  BY <3>1, <2>5, <2>7
  <2>8. CASE /\ ~Last(s) /\ Kind[s] # "branch" /\ ~Stops(s)
             /\ clean' = [clean EXCEPT ![s] = Fine(s)]
             /\ Begin(s, pos[s] + 1, {c})
    <3>1. Kind[s] # "loop" => pos[s] + 1 <= Len(Kids[s])
      BY <2>8, <1>1, <1>2 DEF Last, Positions, InOrder, FanOut
    <3>2. clean' \in [Step -> BOOLEAN] /\ \A p \in Step \ {s} : clean'[p] = clean[p]
      <4>1. Fine(s) \in BOOLEAN
        BY <1>1 DEF Fine, TypeOK
      <4> QED  BY <4>1, <2>8, <1>1 DEF TypeOK
    <3>3. clean'[s] => clean[s] /\ st[c] = "ok"
      BY <2>8, <1>1 DEF TypeOK, Fine
    <3>4. PICK k \in Nat : k = pos[s] + 1
      BY <1>2
    <3>5. k > pos[s] /\ {c} \in SUBSET Step /\ {c} \subseteq Under(s) /\ Begin(s, k, {c})
      BY <3>4, <2>2, <2>8, <1>2
    <3>6. /\ Kind[s] # "loop" => k <= Len(Kids[s])
          /\ Kind[s] \in {"sequence", "pipe"} =>
               /\ k = pos[s] + 1
               /\ clean'[s] => pos[s] = 0 \/ (clean[s] /\ st[Child(s)] = "ok")
      BY <3>1, <3>3, <3>4
    <3> QED  BY <3>2, <3>5, <3>6, <2>1, <2>3, <2>8, <1>1, <1>2, BeginGoes
  <2> QED  BY <1>4, <2>6, <2>7, <2>8 DEF GoOn
<1> QED  BY <1>3, <1>4

\* Only the target of a goto needs a goto that it comes from.
LEMMA LeftIsNoStep ==
    ASSUME NEW o \in Left, NEW s \in Step
    PROVE  From(o, s)
BY ShapeAssumption DEF From

\* A leaf, an end and a goto leave.
LEMMA LeafShape ==
    ASSUME TreeInv, NEW s \in Step, LeafReturns(s) \/ LeafCancelled(s) \/ EndOrGoto(s)
    PROVE  Leaves(s)
<1>1. On(s) /\ Kind[s] \in Leaf \union {"end", "goto"}
  BY DEF LeafReturns, LeafCancelled, EndOrGoto
<1>2. Under(s) = {} /\ Calm(s)
  BY <1>1, Places DEF Calm
<1>3. ASSUME NEW o \in Left \union Step, Leave(s, o, {}), From(o, s)
      PROVE  Leaves(s)
  <2>1. LeavesWith(s, o, {})
    BY <1>1, <1>2, <1>3 DEF LeavesWith, Deserves, Leaf
  <2> QED  BY <2>1 DEF Leaves
<1>4. CASE LeafReturns(s)
  <2>1. Outcomes(Kind[s]) \subseteq Left
    BY DEF Outcomes, Left
  <2> QED  BY <2>1, <1>3, <1>4, LeftIsNoStep DEF LeafReturns
<1>5. CASE LeafCancelled(s)
  BY <1>3, <1>5, LeftIsNoStep DEF LeafCancelled, Left
<1>6. CASE EndOrGoto(s)
  <2>1. CASE Kind[s] = "end"
    BY <1>3, <1>6, <2>1, LeftIsNoStep DEF EndOrGoto, Left
  <2>2. CASE Kind[s] = "goto"
    <3>1. Goto[s] \in Step
      BY <2>2, ShapeAssumption
    <3>2. From(Goto[s], s)
      BY <3>1, <2>2 DEF From
    <3> QED  BY <1>3, <1>6, <2>2, <3>1, <3>2 DEF EndOrGoto
  <2> QED  BY <1>6, <2>1, <2>2 DEF EndOrGoto
<1> QED  BY <1>4, <1>5, <1>6

\* A step that is cancelled before it began leaves.
LEMMA AtOnceShape ==
    ASSUME TreeInv, NEW s \in Step, CancelledAtOnce(s)
    PROVE  Leaves(s)
<1>1. On(s) /\ pos[s] = 0 /\ Leave(s, "cancelled", {})
  BY DEF CancelledAtOnce
<1>2. Kind[s] \notin Waits => Calm(s)
  BY <1>1, CalmWhenOver DEF Active
<1>3. LeavesWith(s, "cancelled", {})
  BY <1>1, <1>2, LeftIsNoStep DEF LeavesWith, Left
<1> QED  BY <1>3 DEF Leaves, Left

\* The steps with tasks of their own leave, or settle what they leave with.
LEMMA FanOutShape ==
    ASSUME TreeInv, NEW s \in Step,
           \/ Gathered(s) \/ CancelGather(s) \/ CancelWait(s)
           \/ \E c \in KidSet(s) : Decides(s, c)
    PROVE  Leaves(s) \/ Settles(s)
<1>1. TypeOK /\ Positions(s)
  BY DEF TreeInv
<1>2. Kind[s] \in FanOut /\ On(s) /\ pos[s] = 1
  BY <1>1 DEF Gathered, CancelGather, CancelWait, Decides, Positions, FanOut, Waits
<1>3. KidSet(s) = Under(s) /\ Under(s) \subseteq Step
  BY <1>2, Places, UnderSteps
<1>4. ASSUME NEW o \in Left \union Step, From(o, s),
             NEW kids \in SUBSET KidSet(s), Leave(s, o, kids), \A c \in kids : Over(c), Kind[s] \notin Waits => KidsOver(s),
             o = "ok" => Deserves(s)
      PROVE  Leaves(s)
  <2>1. Kind[s] \notin Waits => Calm(s)
    BY <1>3, <1>4 DEF KidsOver, Calm, Over, Live
  <2>2. LeavesWith(s, o, kids)
    BY <2>1, <1>2, <1>3, <1>4 DEF LeavesWith
  <2> QED  BY <2>2, <1>3 DEF Leaves
<1>5. CASE Gathered(s)
  <2> DEFINE o == IF Cancelled(s) THEN "cancelled"
                  ELSE IF phase[s] = "cleanup" \/ pend[s] = "cancelled" THEN pend[s]
                  ELSE IF \A c \in KidSet(s) : st[c] = "ok" THEN "ok" ELSE "failed"
  <2>1. KidsOver(s) /\ Leave(s, o, KidSet(s))
    BY <1>5 DEF Gathered
  <2>2. pend[s] \in Left \union Step /\ From(pend[s], s)
    BY <1>1 DEF TreeInv, TypeOK
  <2>3. o \in Left \union Step /\ From(o, s)
    BY <2>2, LeftIsNoStep DEF Left
  <2>4. o = "ok" => Deserves(s)
    <3>1. Kind[s] = "gather" => phase[s] # "cleanup"
      BY <1>1 DEF Positions, Waits
    <3>2. Kind[s] = "failfast" /\ phase[s] = "cleanup" => pend[s] # "ok"
      BY <1>1 DEF Positions
    <3> QED  BY <3>1, <3>2, <1>2 DEF Deserves, FanOut
  <2> HIDE DEF o
  <2> QED  BY <2>1, <2>3, <2>4, <1>4 DEF KidsOver
<1>6. CASE CancelWait(s)
  <2>1. /\ Leave(s, "cancelled", {c \in KidSet(s) : Over(c)}) /\ Kind[s] \in Waits
        /\ "cancelled" \in Left
    BY <1>6 DEF CancelWait, Left
  <2> QED  BY <2>1, <1>4, LeftIsNoStep
<1>7. CASE CancelGather(s)
  <2>1. /\ cancel' \subseteq Step
        /\ pend' = [pend EXCEPT ![s] = "cancelled"]
        /\ UNCHANGED <<flowVars, st, pos, phase, clean, results>>
    BY <1>1, <1>3, <1>7 DEF CancelGather, Unfinished, TypeOK
  <2>2. pend' \in [Step -> Left \union Step] /\ pend'[s] = "cancelled"
    BY <1>1, <2>1 DEF TypeOK, Left
  <2>3. KeepsPlaces(s)
    BY <1>1, <2>1, <2>2 DEF KeepsPlaces, TypeOK
  <2>4. Positions(s)'
    BY <1>1, <2>1, <2>2 DEF Positions
  <2> QED  BY <1>2, <2>1, <2>2, <2>3, <2>4 DEF Settles
<1>8. ASSUME NEW c \in KidSet(s), Decides(s, c)
      PROVE  Settles(s)
  <2>1. /\ cancel' \subseteq Step
        /\ phase' = [phase EXCEPT ![s] = "cleanup"]
        /\ pend' = [pend EXCEPT ![s] = IF st[c] = "ok" THEN "ok" ELSE "failed"]
        /\ UNCHANGED <<flowVars, st, pos, clean, results>>
        /\ Kind[s] \in Waits /\ (Kind[s] = "failfast" => st[c] # "ok")
    BY <1>1, <1>3, <1>8 DEF Decides, Unfinished, TypeOK
  <2>2. /\ pend' \in [Step -> Left \union Step]
        /\ pend'[s] = IF st[c] = "ok" THEN "ok" ELSE "failed"
        /\ phase' \in [Step -> {"body", "cleanup", "catch", "finally"}] /\ phase'[s] = "cleanup"
    BY <1>1, <2>1 DEF TypeOK, Left
  <2>3. KeepsPlaces(s)
    BY <1>1, <2>1, <2>2 DEF KeepsPlaces, TypeOK
  <2>4. Positions(s)'
    BY <1>2, <2>1, <2>2 DEF Positions, Waits, FanOut
  <2> QED  BY <1>2, <2>1, <2>2, <2>3, <2>4 DEF Settles
<1> QED  BY <1>5, <1>6, <1>7, <1>8

\* A queued task that is cancelled, and one nobody awaits, end.
LEMMA EndShape ==
    ASSUME TreeInv, NEW s \in Step, QueuedCancelled(s) \/ Abandoned(s)
    PROVE  Ends(s)
<1>1. CASE QueuedCancelled(s)
  BY <1>1 DEF QueuedCancelled, Ends
<1>2. CASE Abandoned(s)
  BY <1>2 DEF Abandoned, Ends, Over
<1> QED  BY <1>1, <1>2

\* Where a try step comes to its finally steps it begins the first, or leaves.
LEMMA ToFinallyShape ==
    ASSUME TreeInv, NEW s \in Step, NEW o \in Left \union Step, NEW c \in Under(s),
           On(s), Kind[s] = "try", phase[s] \in {"body", "catch"}, Over(c), Calm(s),
           From(o, s), ToFinally(s, o, {c})
    PROVE  Leaves(s) \/ Goes(s)
<1>1. TypeOK /\ Kind[s] \notin Waits /\ c \in Step /\ FinallySet(s) \subseteq Under(s)
  BY UnderSteps DEF TreeInv, Waits
<1>2. CASE Finally[s] = <<>>
  <2>1. LeavesWith(s, o, {c})
    BY <1>1, <1>2 DEF ToFinally, LeavesWith, Deserves
  <2> QED  BY <2>1, <1>1 DEF Leaves
<1>3. CASE Finally[s] # <<>>
  <2> DEFINE x == Finally[s][1]
  <2>1. Finally[s] \in Seq(Step)
    BY TreeAssumption
  <2>2. Len(Finally[s]) \in Nat \ {0}
    BY <2>1, <1>3
  <2>3. x \in FinallySet(s)
    BY <2>2, Places
  <2>4. x \in Under(s) /\ x \in Step
    BY <2>3, <1>1, UnderSteps
  <2>5. /\ st' = [t \in Step |-> IF t = x THEN "on" ELSE IF t \in {c} THEN "off" ELSE st[t]]
        /\ phase' = [phase EXCEPT ![s] = "finally"]
        /\ pos' = [pos EXCEPT ![s] = 1]
        /\ pend' = [pend EXCEPT ![s] = o]
        /\ UNCHANGED <<flowVars, clean, cancel, results>>
    BY <1>3 DEF ToFinally
  <2> HIDE DEF x
  <2>6. phase'[s] = "finally" /\ pos'[s] = 1 /\ pend'[s] = o
    BY <2>5, <1>1 DEF TypeOK
  <2>7. KeepsPlaces(s)
    BY <2>5, <1>1 DEF KeepsPlaces, TypeOK
  <2>8. Positions(s)'
    BY <2>2, <2>6 DEF Positions, Waits, FanOut
  <2>9. st'[s] = "on" => Active(s)' = {x}
    BY <2>6 DEF Active, Current, x, InOrder
  <2>10. x \in ToCome(s) /\ ToCome(s)' \subseteq ToCome(s) \ {x}
    <3>1. /\ FinallySet(s) \subseteq ToCome(s)
          /\ ToCome(s)' = {Finally[s][k] : k \in 2..Len(Finally[s])}
      BY <2>6 DEF ToCome
    <3>2. \A k \in 2..Len(Finally[s]) : Finally[s][k] # x
      BY <2>2, ShapeAssumption DEF Distinct, x
    <3> QED  BY <3>1, <3>2, <2>3, Places
  <2>11. GoesTo(s, x, {c})
    BY <1>1, <2>4, <2>5, <2>6, <2>7, <2>8, <2>9, <2>10 DEF GoesTo
  <2> QED  BY <2>4, <2>11, <1>1 DEF Goes
<1> QED  BY <1>2, <1>3

\* A try step goes on from its body.
LEMMA TryBodyShape ==
    ASSUME TreeInv, NEW s \in Step,
           EnterTry(s) \/ TryGoesOn(s) \/ TryFails(s) \/ TryCancelled(s)
    PROVE  Leaves(s) \/ Goes(s)
<1>1. /\ TypeOK /\ Positions(s) /\ Kind[s] = "try" /\ Kind[s] \notin Waits /\ On(s)
      /\ pos[s] \in Nat /\ Len(Kids[s]) \in Nat \ {0}
  BY Places DEF TreeInv, EnterTry, TryGoesOn, TryFails, TryCancelled, Waits, TypeOK
<1>2. CASE EnterTry(s)
  <2>1. Calm(s)
    BY <1>1, <1>2, CalmWhenOver DEF EnterTry, Active
  <2>2. phase[s] = "body" /\ pos[s] = 0
    BY <1>1, <1>2 DEF Positions, EnterTry, TypeOK
  <2>3. clean' \in [Step -> BOOLEAN] /\ \A p \in Step \ {s} : clean'[p] = clean[p]
    BY <1>1, <1>2 DEF EnterTry, TypeOK
  <2>4. PICK k \in Nat : k = 1
    OBVIOUS
  <2>5. PICK kids \in SUBSET Step : kids = {}
    OBVIOUS
  <2>6. /\ Begin(s, k, kids) /\ k > pos[s] /\ k <= Len(Kids[s])
        /\ kids \subseteq Under(s) /\ \A c \in kids : Over(c)
    BY <1>1, <1>2, <2>2, <2>4, <2>5 DEF EnterTry
  <2> QED  BY <1>1, <2>1, <2>2, <2>3, <2>6, BeginGoes
<1>3. ASSUME pos[s] > 0, phase[s] = "body", st[Current(s)] \notin {"off", "queued", "on"}
      PROVE  /\ Calm(s) /\ Current(s) \in Under(s) /\ Current(s) \in Step /\ Over(Current(s))
             /\ st[Current(s)] \in Left \union Step
             /\ From(st[Current(s)], s)
  <2>1. Current(s) \in Under(s) /\ Current(s) \in Step
    BY <1>1, <1>3, Places, UnderSteps DEF Current, Positions, FanOut
  <2>2. Calm(s) /\ Over(Current(s))
    BY <1>1, <1>3, CalmWhenOver DEF Active, Over, InOrder
  <2>3. From(st[Current(s)], Current(s)) /\ TopOf[Current(s)] = TopOf[s]
    BY <2>1, UnderSteps DEF TreeInv
  <2> QED  BY <2>1, <2>2, <2>3, <1>1, <1>3 DEF TypeOK, From
<1>4. CASE TryCancelled(s)
  <2>1. /\ pos[s] > 0 /\ phase[s] = "body" /\ st[Current(s)] \notin {"off", "queued", "on"}
        /\ ToFinally(s, "cancelled", {Current(s)})
    BY <1>4 DEF TryCancelled
  <2> QED  BY <1>1, <1>3, <2>1, ToFinallyShape, LeftIsNoStep DEF Left
<1>5. CASE TryGoesOn(s)
  <2>1. pos[s] > 0 /\ phase[s] = "body" /\ st[Current(s)] \notin {"off", "queued", "on"}
    BY <1>5 DEF TryGoesOn
  <2>2. CASE pos[s] = Len(Kids[s])
    <3>1. ToFinally(s, "ok", {Current(s)})
      BY <1>5, <2>2 DEF TryGoesOn
    <3> QED  BY <1>1, <1>3, <2>1, <3>1, ToFinallyShape, LeftIsNoStep DEF Left
  <2>3. CASE pos[s] # Len(Kids[s])
    <3>1. Begin(s, pos[s] + 1, {Current(s)}) /\ clean' = clean
      BY <1>5, <2>3 DEF TryGoesOn
    <3>2. PICK k \in Nat : k = pos[s] + 1
      BY <1>1
    <3>3. k > pos[s] /\ k <= Len(Kids[s]) /\ Begin(s, k, {Current(s)})
      BY <3>1, <3>2, <2>1, <2>3, <1>1 DEF Positions, FanOut
    <3>4. clean' \in [Step -> BOOLEAN] /\ \A p \in Step \ {s} : clean'[p] = clean[p]
      BY <1>1, <3>1 DEF TypeOK
    <3>5. {Current(s)} \in SUBSET Step /\ {Current(s)} \subseteq Under(s) /\ Calm(s)
          /\ \A c \in {Current(s)} : Over(c)
      BY <1>3, <2>1
    <3> QED  BY <1>1, <2>1, <3>3, <3>4, <3>5, BeginGoes
  <2> QED  BY <2>2, <2>3
<1>6. CASE TryFails(s)
  <2> DEFINE o == st[Current(s)]
             again == IF o \in {"failed", "raised"} THEN "raised" ELSE o
             x == Catch[s]
  <2>1. /\ pos[s] > 0 /\ phase[s] = "body"
        /\ o \in {"failed", "raised"} \/ o = "end" \/ o \in Step
    BY <1>6 DEF TryFails, Signal
  <2>2. o \notin {"off", "queued", "on"}
    BY <2>1, ShapeAssumption
  <2>3. CASE ToFinally(s, "failed", {Current(s)})
    BY <1>1, <1>3, <2>1, <2>2, <2>3, ToFinallyShape, LeftIsNoStep DEF Left
  <2>4. CASE /\ x # None
             /\ st' = [st EXCEPT ![Current(s)] = "off", ![x] = "on"]
             /\ phase' = [phase EXCEPT ![s] = "catch"]
             /\ clean' = [clean EXCEPT ![s] = o # "failed"]
             /\ pend' = [pend EXCEPT ![s] = IF Then[s] = "fail" THEN again ELSE "ok"]
             /\ UNCHANGED <<flowVars, pos, cancel, results>>
    <3>1. /\ x \in Under(s) /\ x \in Step /\ Current(s) \in Under(s) /\ Current(s) \in Step
          /\ Calm(s) /\ Over(Current(s))
      BY <2>1, <2>2, <2>4, <1>3, UnderSteps DEF Under, Inside
    <3>2. st' = [t \in Step |-> IF t = x THEN "on" ELSE IF t \in {Current(s)} THEN "off" ELSE st[t]]
      <4>1. st = [t \in Step |-> st[t]]
        BY <1>1 DEF TypeOK
      <4> HIDE DEF x, o, again
      <4> QED  BY <4>1, <3>1, <2>4
    <3>3. again \in Left \union Step /\ From(again, s)
      BY <2>1, <2>2, <1>3, LeftIsNoStep DEF Left
    <3>4. "ok" \in Left /\ From("ok", s)
      BY LeftIsNoStep DEF Left
    <3> DEFINE then == IF Then[s] = "fail" THEN again ELSE "ok"
    <3>5. then \in Left \union Step /\ From(then, s)
      BY <3>3, <3>4
    <3> HIDE DEF then, again
    <3>6. phase'[s] = "catch" /\ pos'[s] = pos[s] /\ pend'[s] = then
      BY <2>4, <1>1 DEF TypeOK, then
    <3>7. clean' \in [Step -> BOOLEAN] /\ \A p \in Step \ {s} : clean'[p] = clean[p]
      BY <2>4, <1>1 DEF TypeOK
    <3>8. /\ pos' \in [Step -> Nat]
          /\ phase' \in [Step -> {"body", "cleanup", "catch", "finally"}]
          /\ pend' \in [Step -> Left \union Step]
          /\ \A p \in Step \ {s} : pos'[p] = pos[p] /\ phase'[p] = phase[p] /\ pend'[p] = pend[p]
      BY <2>4, <3>5, <1>1 DEF TypeOK, then
    <3>9. KeepsPlaces(s)
      BY <3>7, <3>8 DEF KeepsPlaces
    <3>10. Positions(s)'
      BY <3>6, <2>1, <2>4, <1>1 DEF Positions, Waits, FanOut
    <3>11. st'[s] = "on" => Active(s)' = {x}
      BY <3>6, <2>1, <1>1 DEF Active, InOrder
    <3>12. x \in ToCome(s) /\ ToCome(s)' \subseteq ToCome(s) \ {x}
      <4>1. FinallySet(s) \union {x} \subseteq ToCome(s) /\ ToCome(s)' = FinallySet(s)
        BY <3>6, <2>1, <1>1 DEF ToCome, FinallySet
      <4>2. x \notin FinallySet(s)
        BY ShapeAssumption
      <4> QED  BY <4>1, <4>2
    <3>13. GoesTo(s, x, {Current(s)})
      <4> HIDE DEF x, o
      <4>1. UNCHANGED <<flowVars, cancel, results>>
        BY <2>4
      <4> QED  BY <1>1, <3>1, <3>2, <3>5, <3>6, <3>9, <3>10, <3>11, <3>12, <4>1 DEF GoesTo
    <3> QED  BY <3>13, <3>1 DEF Goes
  <2> QED  BY <1>6, <2>3, <2>4 DEF TryFails
<1> QED  BY <1>2, <1>4, <1>5, <1>6

\* A try step goes on from its handler.
LEMMA CatchShape ==
    ASSUME TreeInv, NEW s \in Step, CatchEnds(s)
    PROVE  Leaves(s) \/ Goes(s)
<1> DEFINE c == Catch[s]
           o == IF st[c] \notin {"ok", "failed"} THEN st[c]
                ELSE IF pend[s] # "ok" THEN pend[s]
                ELSE IF clean[s] /\ st[c] = "ok" THEN "ok" ELSE "failed"
<1>1. /\ TypeOK /\ Positions(s) /\ Kind[s] = "try" /\ Kind[s] \notin Waits /\ On(s)
      /\ phase[s] = "catch" /\ Over(c) /\ ToFinally(s, o, {c})
  BY DEF TreeInv, CatchEnds, Waits
<1>2. c \in Under(s) /\ c \in Step
  BY <1>1, UnderSteps DEF Positions, Under, Inside
<1>3. Calm(s)
  BY <1>1, CalmWhenOver DEF Active, InOrder
<1>4. /\ st[c] \in Left \union Step /\ From(st[c], s)
      /\ pend[s] \in Left \union Step /\ From(pend[s], s)
  <2>1. From(st[c], c) /\ TopOf[c] = TopOf[s] /\ From(pend[s], s)
    BY <1>2, UnderSteps DEF TreeInv
  <2>2. st[c] \in Left \union Step /\ pend[s] \in Left \union Step
    BY <1>1, <1>2 DEF TypeOK, Over
  <2> QED  BY <2>1, <2>2 DEF From
<1>5. o \in Left \union Step /\ From(o, s)
  BY <1>4, LeftIsNoStep DEF Left
<1> HIDE DEF o, c
<1> QED  BY <1>1, <1>2, <1>3, <1>5, ToFinallyShape

\* A try step goes on in its finally steps.
LEMMA FinallyShape ==
    ASSUME TreeInv, NEW s \in Step, FinallyGoesOn(s)
    PROVE  Leaves(s) \/ Goes(s)
<1> DEFINE c == Current(s)
           o == IF pend[s] = "ok" /\ st[c] = "failed" THEN "failed" ELSE pend[s]
           x == Finally[s][pos[s] + 1]
<1>1. /\ TypeOK /\ Positions(s) /\ Kind[s] = "try" /\ Kind[s] \notin Waits /\ On(s)
      /\ phase[s] = "finally" /\ Over(c)
  BY DEF TreeInv, FinallyGoesOn, Waits
<1>2. pos[s] \in 1..Len(Finally[s]) /\ Len(Finally[s]) \in Nat /\ c = Finally[s][pos[s]]
  BY <1>1, TreeAssumption DEF Positions, TypeOK, Current
<1>3. c \in Under(s) /\ c \in Step
  BY <1>2, Places, UnderSteps
<1>4. Calm(s)
  BY <1>1, CalmWhenOver DEF Active, InOrder
<1>5. /\ st[c] \in Left \union Step /\ From(st[c], s)
      /\ pend[s] \in Left \union Step /\ From(pend[s], s)
  <2>1. From(st[c], c) /\ TopOf[c] = TopOf[s] /\ From(pend[s], s)
    BY <1>3, UnderSteps DEF TreeInv
  <2>2. st[c] \in Left \union Step /\ pend[s] \in Left \union Step
    BY <1>1, <1>3 DEF TypeOK, Over
  <2> QED  BY <2>1, <2>2 DEF From
<1>6. o \in Left \union Step /\ From(o, s)
  BY <1>5, LeftIsNoStep DEF Left
<1>7. ASSUME NEW r \in Left \union Step, From(r, s), Leave(s, r, {c})
      PROVE  Leaves(s)
  <2>1. LeavesWith(s, r, {c})
    BY <1>1, <1>3, <1>4, <1>7 DEF LeavesWith, Deserves
  <2> QED  BY <2>1, <1>3 DEF Leaves
<1>8. CASE Leave(s, st[c], {c})
  BY <1>5, <1>7, <1>8
<1>9. CASE Leave(s, o, {c})
  BY <1>6, <1>7, <1>9
<1>10. CASE /\ pos[s] # Len(Finally[s])
            /\ st' = [st EXCEPT ![c] = "off", ![x] = "on"]
            /\ pos' = [pos EXCEPT ![s] = @ + 1]
            /\ pend' = [pend EXCEPT ![s] = o]
            /\ UNCHANGED <<flowVars, phase, clean, cancel, results>>
  <2>1. PICK k \in Nat : k = pos[s] + 1 /\ k \in 1..Len(Finally[s])
    BY <1>2, <1>10
  <2>2. x = Finally[s][k] /\ x \in FinallySet(s) /\ x \in Under(s) /\ x \in Step
    BY <2>1, Places, UnderSteps
  <2> HIDE DEF c, o, x
  <2>3. st' = [t \in Step |-> IF t = x THEN "on" ELSE IF t \in {c} THEN "off" ELSE st[t]]
    <3>1. st = [t \in Step |-> st[t]]
      BY <1>1 DEF TypeOK
    <3> QED  BY <3>1, <1>3, <2>2, <1>10
  <2>4. phase'[s] = "finally" /\ pos'[s] = k /\ pend'[s] = o
    BY <1>1, <1>10, <2>1 DEF TypeOK
  <2>5. KeepsPlaces(s)
    <3>1. pos' = [pos EXCEPT ![s] = k]
      BY <1>1, <1>10, <2>1 DEF TypeOK
    <3> QED  BY <3>1, <1>1, <1>6, <1>10 DEF KeepsPlaces, TypeOK
  <2>6. Positions(s)'
    BY <1>1, <2>1, <2>4 DEF Positions, Waits, FanOut
  <2>7. st'[s] = "on" => Active(s)' = {x}
    BY <1>1, <2>1, <2>2, <2>4 DEF Active, Current, InOrder
  <2>8. x \in ToCome(s) /\ ToCome(s)' \subseteq ToCome(s) \ {x}
    <3>1. /\ ToCome(s) = {Finally[s][n] : n \in pos[s] + 1..Len(Finally[s])}
          /\ ToCome(s)' = {Finally[s][n] : n \in k + 1..Len(Finally[s])}
      BY <1>1, <2>4 DEF ToCome
    <3>2. Distinct(Finally[s])
      BY ShapeAssumption
    <3> QED  BY <3>1, <3>2, <2>1, <2>2, <1>2 DEF Distinct
  <2>9. GoesTo(s, x, {c})
    <3>1. UNCHANGED <<flowVars, cancel, results>>
      BY <1>10
    <3> QED  BY <1>1, <1>3, <1>4, <1>6, <2>2, <2>3, <2>4, <2>5, <2>6, <2>7, <2>8, <3>1
             DEF GoesTo
  <2> QED  BY <2>9, <2>2, <1>3 DEF Goes
<1> QED  BY <1>8, <1>9, <1>10 DEF FinallyGoesOn

\* Every action on a step has one of the shapes.
LEMMA ActionShape ==
    ASSUME TreeInv, NEW s \in Step, Control(s) \/ LeafReturns(s)
    PROVE  Shape(s)
<1>1. CASE EndOrGoto(s) \/ LeafCancelled(s) \/ LeafReturns(s)
  BY <1>1, LeafShape DEF Shape
<1>2. CASE CancelledAtOnce(s)
  BY <1>2, AtOnceShape DEF Shape
<1>3. CASE EnterInOrder(s) \/ GoOn(s)
  BY <1>3, InOrderShape DEF Shape
<1>4. CASE \/ Gathered(s) \/ CancelGather(s) \/ CancelWait(s)
           \/ \E c \in KidSet(s) : Decides(s, c)
  BY <1>4, FanOutShape DEF Shape
<1>5. CASE QueuedCancelled(s) \/ Abandoned(s)
  BY <1>5, EndShape DEF Shape
<1>6. CASE EnterTry(s) \/ TryGoesOn(s) \/ TryFails(s) \/ TryCancelled(s)
  BY <1>6, TryBodyShape DEF Shape
<1>7. CASE CatchEnds(s) \/ FinallyGoesOn(s)
  BY <1>7, CatchShape, FinallyShape DEF Shape
<1>8. CASE EnterFanOut(s) \/ \E c \in KidSet(s) : GetsSemaphore(s, c)
  BY <1>8 DEF Shape
<1> QED  BY <1>1, <1>2, <1>3, <1>4, <1>5, <1>6, <1>7, <1>8 DEF Control
-----------------------------------------------------------------------------
(* TreeInv is kept *)

\* An action on step s begins no step but its children, and leaves all others
\* where they are.
Alone(s) ==
    /\ UNCHANGED flowVars
    /\ \A p \in Step \ {s} : /\ pos'[p] = pos[p] /\ phase'[p] = phase[p]
                             /\ pend'[p] = pend[p]
                             /\ st[p] = "on" => st'[p] = "on"
    /\ \A c \in Step \ Under(s) : Live(c)' => Live(c)
    /\ run = "off" => \A p \in Step : st'[p] = "off"
    /\ \A p \in Step : From(st'[p], p)

\* Such an action keeps the invariant if it does at s.
LEMMA AloneKeepsTree ==
    ASSUME TreeInv, NEW s \in Step, Alone(s), TypeOK',
           Positions(s)', Nested(s)', Rewound(s)', From(pend'[s], s)
    PROVE  TreeInv'
<1>1. ASSUME NEW p \in Step, p # s
      PROVE  Positions(p)' /\ Nested(p)' /\ Rewound(p)'
  <2>1. /\ pos'[p] = pos[p] /\ phase'[p] = phase[p] /\ pend'[p] = pend[p]
        /\ st[p] = "on" => st'[p] = "on"
        /\ Positions(p) /\ Nested(p) /\ Rewound(p)
    BY <1>1 DEF Alone, TreeInv
  <2>2. Positions(p)' /\ Rewound(p)'
    BY <2>1 DEF Positions, Rewound
  <2>3. ASSUME Kind[p] \notin Waits, NEW c \in Under(p), Live(c)'
        PROVE  c \in Active(p)'
    <3>1. c \in Step \ Under(s)
      BY <1>1, UnderSteps
    <3>2. c \in Active(p)
      BY <2>1, <2>3, <3>1 DEF Alone, Nested
    <3>3. st[p] = "on"
      BY <3>2 DEF Active
    <3> QED  BY <2>1, <3>2, <3>3 DEF Active, Child, Current
  <2>4. Nested(p)'
    BY <2>3 DEF Nested
  <2> QED  BY <2>2, <2>4
<1>2. OneTop'
  <2>1. \A j \in 1..Len(Top) : Live(Top[j])' => Live(Top[j])
    BY UnderSteps DEF Alone
  <2> QED  BY <2>1 DEF OneTop, TreeInv, Alone, flowVars
<1>3. \A p \in Step : From(st'[p], p) /\ From(pend'[p], p)
  BY DEF Alone, TreeInv
<1>4. \A p \in Step : Positions(p)' /\ Nested(p)' /\ Rewound(p)'
  BY <1>1
<1>5. \A p \in Step : From(st[p], p)' /\ From(pend[p], p)'
  BY <1>3 DEF From
<1> QED  BY <1>2, <1>4, <1>5 DEF TreeInv

\* A run in which a step is not off is not off.
LEMMA RunIsOn ==
    ASSUME TreeInv, NEW s \in Step, st[s] # "off"
    PROVE  run # "off"
BY DEF TreeInv, OneTop

\* A step leaves.
LEMMA LeavesKeepsTree ==
    ASSUME TreeInv, NEW s \in Step, Leaves(s)
    PROVE  TreeInv' /\ Alone(s)
<1>1. PICK o \in Left \union Step, kids \in SUBSET Step : LeavesWith(s, o, kids)
  BY DEF Leaves
<1> DEFINE f == Final(s, o)
<1>2. /\ TypeOK /\ On(s) /\ kids \subseteq Under(s) /\ \A c \in kids : Over(c)
      /\ f \in Left \union Step /\ From(f, s)
  BY <1>1, LeftIsNoStep DEF LeavesWith, Final, TreeInv, Left
<1>3. f \notin {"off", "queued", "on"}
  BY <1>2, ShapeAssumption DEF Left
<1>4. /\ st' = [t \in Step |-> IF t = s THEN f ELSE IF t \in kids THEN "off" ELSE st[t]]
      /\ results' = IF s \in Named /\ f \in {"ok", "failed"}
                    THEN [results EXCEPT ![s] = f] ELSE results
      /\ cancel' \subseteq cancel
      /\ pos' = [pos EXCEPT ![s] = 0]
      /\ phase' = [phase EXCEPT ![s] = "body"]
      /\ pend' = [pend EXCEPT ![s] = "ok"]
      /\ clean' = [clean EXCEPT ![s] = TRUE]
      /\ UNCHANGED flowVars
  BY <1>1 DEF LeavesWith, Leave
<1> HIDE DEF f
<1>5. TypeOK'
  <2>1. st' \in [Step -> {"off", "queued", "on"} \union Left \union Step]
    BY <1>2, <1>4 DEF TypeOK
  <2>2. results' \in [Step -> {"none", "ok", "failed"}]
    BY <1>2, <1>4 DEF TypeOK
  <2>3. pos' \in [Step -> Nat] /\ clean' \in [Step -> BOOLEAN] /\ cancel' \subseteq Step
    BY <1>2, <1>4 DEF TypeOK
  <2>4. /\ phase' \in [Step -> {"body", "cleanup", "catch", "finally"}]
        /\ pend' \in [Step -> Left \union Step]
    BY <1>2, <1>4 DEF TypeOK, Left
  <2> QED  BY <1>2, <1>4, <2>1, <2>2, <2>3, <2>4 DEF TypeOK, flowVars
<1>6. Alone(s)
  <2>1. \A p \in Step \ {s} : pos'[p] = pos[p] /\ phase'[p] = phase[p] /\ pend'[p] = pend[p]
    BY <1>2, <1>4 DEF TypeOK
  <2>2. \A p \in Step : st'[p] = IF p = s THEN f ELSE IF p \in kids THEN "off" ELSE st[p]
    BY <1>4
  <2>3. \A p \in Step \ {s} : st[p] = "on" => st'[p] = "on"
    BY <1>2, <2>2 DEF Over
  <2>4. \A c \in Step \ Under(s) : Live(c)' => Live(c)
    BY <1>2, <1>3, <2>2 DEF Live
  <2>5. \A p \in Step : From(st'[p], p)
    <3>1. From("off", s)
      BY ShapeAssumption DEF From
    <3> QED  BY <1>2, <2>2, ShapeAssumption DEF TreeInv, From
  <2>6. run # "off"
    BY <1>2, RunIsOn DEF On
  <2> QED  BY <1>4, <2>1, <2>3, <2>4, <2>5, <2>6 DEF Alone
<1>7. Positions(s)' /\ Rewound(s)' /\ From(pend'[s], s)
  <2>1. pos'[s] = 0 /\ phase'[s] = "body" /\ pend'[s] = "ok"
    BY <1>2, <1>4 DEF TypeOK
  <2>2. Len(Kids[s]) \in Nat
    BY TreeAssumption
  <2> QED  BY <2>1, <2>2, LeftIsNoStep DEF Positions, Rewound, Left
<1>8. Nested(s)'
  <2>1. Kind[s] \notin Waits => \A c \in Under(s) : ~Live(c)'
    BY <1>1, <1>3, <1>4, UnderSteps DEF LeavesWith, Calm, Live
  <2> QED  BY <2>1 DEF Nested
<1> QED  BY <1>5, <1>6, <1>7, <1>8, AloneKeepsTree

\* A step begins its next child.
LEMMA GoesKeepsTree ==
    ASSUME TreeInv, NEW s \in Step, Goes(s)
    PROVE  TreeInv' /\ Alone(s)
<1>1. PICK x \in Step, kids \in SUBSET Step : GoesTo(s, x, kids)
  BY DEF Goes
<1>2. /\ TypeOK /\ On(s) /\ kids \subseteq Under(s) /\ (\A c \in kids : Over(c))
      /\ x \in Under(s) /\ Calm(s) /\ KeepsPlaces(s) /\ Positions(s)' /\ From(pend'[s], s)
      /\ st' = [t \in Step |-> IF t = x THEN "on" ELSE IF t \in kids THEN "off" ELSE st[t]]
      /\ UNCHANGED <<flowVars, cancel, results>>
      /\ st'[s] = "on" => Active(s)' = {x}
      /\ Kind[s] \in InOrder \union {"try"}
  BY <1>1 DEF GoesTo, TreeInv
<1>3. \A p \in Step : st'[p] = IF p = x THEN "on" ELSE IF p \in kids THEN "off" ELSE st[p]
  BY <1>2
<1>4. s \notin Under(s) /\ st'[s] = "on"
  BY <1>2, <1>3, UnderSteps DEF On
<1>5. TypeOK'
  <2>1. st' \in [Step -> {"off", "queued", "on"} \union Left \union Step]
    BY <1>2 DEF TypeOK
  <2> QED  BY <2>1, <1>2 DEF TypeOK, KeepsPlaces, flowVars
<1>6. Alone(s)
  <2>1. \A p \in Step \ {s} : st[p] = "on" => st'[p] = "on"
    BY <1>2, <1>3 DEF Over
  <2>2. \A c \in Step \ Under(s) : Live(c)' => Live(c)
    BY <1>2, <1>3 DEF Live
  <2>3. \A p \in Step : From(st'[p], p)
    BY <1>3, ShapeAssumption DEF TreeInv, From
  <2>4. run # "off"
    BY <1>2, RunIsOn DEF On
  <2> QED  BY <1>2, <2>1, <2>2, <2>3, <2>4 DEF Alone, KeepsPlaces
<1>7. Nested(s)'
  <2>1. \A c \in Under(s) : Live(c)' => c = x
    BY <1>2, <1>3, UnderSteps DEF Calm, Live
  <2> QED  BY <2>1, <1>2, <1>4 DEF Nested
<1>8. Rewound(s)'
  BY <1>4 DEF Rewound
<1> QED  BY <1>2, <1>5, <1>6, <1>7, <1>8, AloneKeepsTree

\* A step creates the tasks of its children.
LEMMA FanOutKeepsTree ==
    ASSUME TreeInv, NEW s \in Step, EnterFanOut(s)
    PROVE  TreeInv' /\ Alone(s)
<1> DEFINE v == IF Kind[s] = "race" THEN "on" ELSE "queued"
<1>1. /\ TypeOK /\ On(s) /\ Kind[s] \in FanOut /\ pos[s] = 0
      /\ \A c \in KidSet(s) : st[c] = "off"
      /\ st' = [t \in Step |-> IF t \notin KidSet(s) THEN st[t] ELSE v]
      /\ pos' = [pos EXCEPT ![s] = 1]
      /\ UNCHANGED <<flowVars, phase, pend, clean, cancel, results>>
  BY DEF EnterFanOut, TreeInv
<1>2. KidSet(s) = Under(s) /\ s \notin Under(s)
  BY <1>1, Places, UnderSteps
<1>3. \A p \in Step : st'[p] = IF p \notin Under(s) THEN st[p] ELSE v
  BY <1>1, <1>2
<1>4. v \in {"on", "queued"}
  OBVIOUS
<1> HIDE DEF v
<1>5. pos'[s] = 1 /\ \A p \in Step \ {s} : pos'[p] = pos[p]
  BY <1>1 DEF TypeOK
<1>6. TypeOK'
  BY <1>1, <1>4 DEF TypeOK, flowVars
<1>7. Alone(s)
  <2>1. \A p \in Step \ {s} : st[p] = "on" => st'[p] = "on"
    BY <1>1, <1>2, <1>3
  <2>2. \A c \in Step \ Under(s) : Live(c)' => Live(c)
    BY <1>3 DEF Live
  <2>3. \A p \in Step : From(st'[p], p)
    BY <1>3, <1>4, ShapeAssumption DEF TreeInv, From
  <2>4. run # "off"
    BY <1>1, RunIsOn DEF On
  <2> QED  BY <1>1, <1>5, <2>1, <2>2, <2>3, <2>4 DEF Alone
<1>8. Positions(s)' /\ From(pend'[s], s)
  BY <1>1, <1>5 DEF TreeInv, Positions, FanOut
<1>9. st'[s] = "on"
  BY <1>1, <1>2, <1>3 DEF On
<1>10. Nested(s)' /\ Rewound(s)'
  BY <1>1, <1>5, <1>9 DEF Nested, Rewound, Active, FanOut, InOrder
<1> QED  BY <1>6, <1>7, <1>8, <1>10, AloneKeepsTree

\* A queued child gets the semaphore.
LEMMA SemaphoreKeepsTree ==
    ASSUME TreeInv, NEW s \in Step, NEW c \in KidSet(s), GetsSemaphore(s, c)
    PROVE  TreeInv' /\ Alone(c)
<1>1. /\ TypeOK /\ c \in Step /\ st[c] = "queued" /\ st' = [st EXCEPT ![c] = "on"]
      /\ UNCHANGED <<flowVars, pos, phase, pend, clean, cancel, results>>
  BY UnderSteps DEF GetsSemaphore, TreeInv
<1>2. \A p \in Step : st'[p] = IF p = c THEN "on" ELSE st[p]
  BY <1>1 DEF TypeOK
<1>3. TypeOK'
  BY <1>1 DEF TypeOK, flowVars
<1>4. Alone(c)
  <2>1. \A p \in Step : From(st'[p], p)
    BY <1>2, ShapeAssumption DEF TreeInv, From
  <2>2. run # "off"
    BY <1>1, RunIsOn
  <2> QED  BY <1>1, <1>2, <2>1, <2>2 DEF Alone, Live
<1>5. Positions(c)' /\ From(pend'[c], c)
  BY <1>1 DEF TreeInv, Positions
<1>6. Nested(c)' /\ Rewound(c)'
  <2>1. Kind[c] \notin Waits => \A d \in Under(c) : ~Live(d)
    BY <1>1 DEF TreeInv, Nested, Active
  <2>2. \A d \in Under(c) : d # c /\ d \in Step
    BY <1>1, UnderSteps
  <2> QED  BY <1>1, <1>2, <2>1, <2>2 DEF Nested, Live, Rewound
<1> QED  BY <1>1, <1>3, <1>4, <1>5, <1>6, AloneKeepsTree

\* A task ends.
LEMMA EndsKeepsTree ==
    ASSUME TreeInv, NEW s \in Step, Ends(s)
    PROVE  TreeInv' /\ Alone(s)
<1>1. PICK v \in {"cancelled", "off"} :
        /\ st' = [st EXCEPT ![s] = v]
        /\ v = "cancelled" => st[s] = "queued"
  BY DEF Ends
<1>2. TypeOK /\ st[s] # "on"
  BY DEF TreeInv, Ends
<1>3. \A p \in Step : st'[p] = IF p = s THEN v ELSE st[p]
  BY <1>1, <1>2 DEF TypeOK
<1>4. cancel' \subseteq cancel /\ UNCHANGED <<flowVars, pos, phase, pend, clean, results>>
  BY DEF Ends
<1>5. TypeOK'
  BY <1>1, <1>2, <1>4 DEF TypeOK, flowVars, Left
<1>6. Alone(s)
  <2>1. \A p \in Step : From(st'[p], p)
    BY <1>3, ShapeAssumption DEF TreeInv, From, Left
  <2>2. run = "off" => v = "off"
    BY <1>1, RunIsOn
  <2>3. run = "off" => \A p \in Step : st'[p] = "off"
    BY <1>3, <2>2 DEF TreeInv, OneTop
  <2> QED  BY <1>2, <1>3, <1>4, <2>1, <2>3 DEF Alone, Live
<1>7. Positions(s)' /\ Rewound(s)' /\ From(pend'[s], s)
  BY <1>2, <1>4 DEF TreeInv, Positions, Rewound
<1>8. Nested(s)'
  <2>1. Kind[s] \notin Waits => \A d \in Under(s) : ~Live(d)
    BY <1>2 DEF TreeInv, Nested, Active
  <2>2. \A d \in Under(s) : d # s /\ d \in Step
    BY UnderSteps
  <2> QED  BY <1>3, <2>1, <2>2 DEF Nested, Live
<1> QED  BY <1>5, <1>6, <1>7, <1>8, AloneKeepsTree

\* A step settles what it will leave with.
LEMMA SettlesKeepsTree ==
    ASSUME TreeInv, NEW s \in Step, Settles(s)
    PROVE  TreeInv' /\ Alone(s)
<1>1. /\ TypeOK /\ On(s) /\ KeepsPlaces(s) /\ Positions(s)' /\ Kind[s] \in FanOut
      /\ pos' = pos /\ pend'[s] \in {"ok", "failed", "cancelled"} /\ cancel' \subseteq Step
      /\ UNCHANGED <<flowVars, st, results>>
  BY DEF Settles, TreeInv
<1>2. TypeOK'
  BY <1>1 DEF TypeOK, KeepsPlaces, flowVars
<1>3. Alone(s)
  <2>1. \A p \in Step : From(st'[p], p)
    BY <1>1 DEF TreeInv
  <2>2. run # "off"
    BY <1>1, RunIsOn DEF On
  <2> QED  BY <1>1, <2>1, <2>2 DEF Alone, KeepsPlaces, Live
<1>4. From(pend'[s], s)
  BY <1>1, LeftIsNoStep DEF Left
<1>5. Nested(s)' /\ Rewound(s)'
  BY <1>1 DEF TreeInv, Nested, Rewound, Active, Live, On, FanOut, InOrder
<1> QED  BY <1>1, <1>2, <1>3, <1>4, <1>5, AloneKeepsTree

\* So does every action on a step.
LEMMA StepKeepsTree ==
    ASSUME TreeInv, NEW s \in Step, Control(s) \/ LeafReturns(s)
    PROVE  TreeInv'
BY ActionShape, LeavesKeepsTree, GoesKeepsTree, FanOutKeepsTree, SemaphoreKeepsTree,
   EndsKeepsTree, SettlesKeepsTree DEF Shape

\* The steps of the top level are steps, each at one index.
LEMMA TopIs ==
    /\ Len(Top) \in Nat
    /\ \A j \in 1..Len(Top) : Top[j] \in Step /\ Top[j] \in TopSteps
    /\ \A j, k \in 1..Len(Top) : Top[j] = Top[k] => j = k
BY TreeAssumption, ShapeAssumption DEF TopSteps, Distinct

\* Only a step of the top level changes, that was not running.
LEMMA TopKeepsTree ==
    ASSUME TreeInv, TypeOK', OneTop', NEW t \in TopSteps, st[t] # "on",
           st' = [st EXCEPT ![t] = "on"] \/ st' = [st EXCEPT ![t] = "off"],
           UNCHANGED <<pos, phase, pend>>
    PROVE  TreeInv'
<1>1. t \in Step /\ TypeOK
  BY TopIs DEF TopSteps, TreeInv
<1>2. PICK v \in {"on", "off"} : \A p \in Step : st'[p] = IF p = t THEN v ELSE st[p]
  BY <1>1 DEF TypeOK
<1>3. ASSUME NEW p \in Step
      PROVE  Positions(p)' /\ Nested(p)' /\ Rewound(p)'
  <2>1. Positions(p) /\ Nested(p) /\ Rewound(p)
    BY DEF TreeInv
  <2>2. Positions(p)' /\ Rewound(p)'
    BY <1>2, <2>1 DEF Positions, Rewound
  <2>3. \A c \in Under(p) : Live(c)' => Live(c)
    BY <1>2, UnderSteps DEF Live, TopSteps
  <2>4. st[p] = "on" => st'[p] = "on"
    BY <1>2
  <2>5. \A c : c \in Active(p) => c \in Active(p)'
    BY <2>4 DEF Active, Child, Current
  <2>6. Nested(p)'
    BY <2>1, <2>3, <2>5 DEF Nested
  <2> QED  BY <2>2, <2>6
<1>4. \A p \in Step : From(st[p], p)' /\ From(pend[p], p)'
  BY <1>2, ShapeAssumption DEF TreeInv, From
<1> QED  BY <1>3, <1>4 DEF TreeInv

\* No step changes.
LEMMA FlowKeepsTree ==
    ASSUME TreeInv, TypeOK', OneTop', UNCHANGED <<st, pos, phase, pend>>
    PROVE  TreeInv'
BY DEF TreeInv, Positions, Nested, Rewound, From, Active, Child, Current, Live

\* All steps are off again.
LEMMA ForgetKeepsTree ==
    ASSUME Forget, run' = "off", TypeOK'
    PROVE  TreeInv'
<1>1. \A p \in Step : st'[p] = "off" /\ pos'[p] = 0 /\ phase'[p] = "body" /\ pend'[p] = "ok"
  BY DEF Forget
<1>2. OneTop'
  BY <1>1, TopIs DEF OneTop, Live
<1>3. ASSUME NEW p \in Step
      PROVE  Positions(p)' /\ Nested(p)' /\ Rewound(p)'
  <2>1. \A c \in Under(p) : ~Live(c)'
    BY <1>1, UnderSteps DEF Live
  <2>2. Len(Kids[p]) \in Nat
    BY TreeAssumption
  <2> QED  BY <1>1, <2>1, <2>2 DEF Positions, Nested, Rewound
<1>4. \A p \in Step : From(st[p], p)' /\ From(pend[p], p)'
  BY <1>1, ShapeAssumption DEF From, Left
<1> QED  BY <1>2, <1>3, <1>4 DEF TreeInv

\* execute returns where no step of the top level runs.
LEMMA ReturnKeepsTree ==
    ASSUME TreeInv, run # "off", \A j \in 1..Len(Top) : ~Live(Top[j]),
           NEW how \in {"success", "end", "failure", "cancelled"},
           NEW clear \in BOOLEAN, Return(how, clear)
    PROVE  TreeInv'
<1>1. /\ TypeOK /\ run' = "over" /\ status' = how
      /\ checkpoint' = NoCheckpoint \/ checkpoint' = checkpoint
      /\ st' = IF i <= Len(Top) THEN [st EXCEPT ![Top[i]] = "off"] ELSE st
      /\ UNCHANGED <<runs, i, jumps, stopped, pos, phase, pend, clean, cancel, results>>
  BY DEF Return, TreeInv
<1>2. NoCheckpoint \in [index : 0..Len(Top) + 1, done : SUBSET Step]
  BY TopIs DEF NoCheckpoint
<1>3. i <= Len(Top) => i \in 1..Len(Top) /\ Top[i] \in Step /\ Top[i] \in TopSteps
  BY <1>1, TopIs DEF TypeOK
<1>4. TypeOK'
  BY <1>1, <1>2, <1>3 DEF TypeOK
<1>5. \A j \in 1..Len(Top) : ~Live(Top[j])'
  BY <1>1, <1>3, TopIs DEF TypeOK, Live
<1>6. OneTop'
  BY <1>1, <1>5 DEF OneTop
<1>7. CASE i <= Len(Top)
  <2>1. st[Top[i]] # "on"
    BY <1>3, <1>7 DEF Live
  <2> QED  BY <1>1, <1>3, <1>4, <1>6, <1>7, <2>1, TopKeepsTree
<1>8. CASE ~(i <= Len(Top))
  BY <1>1, <1>4, <1>6, <1>8, FlowKeepsTree
<1> QED  BY <1>7, <1>8

\* The actions of execute itself.
LEMMA RunKeepsTree ==
    ASSUME TreeInv, TopLevel \/ Again \/ Crash \/ Stop \/ CancelFlow
    PROVE  TreeInv'
<1>1. TypeOK /\ OneTop
  BY DEF TreeInv
<1>2. i <= Len(Top) => i \in 1..Len(Top) /\ Top[i] \in Step /\ Top[i] \in TopSteps
  BY <1>1, TopIs DEF TypeOK
<1>3. CASE Execute
  <2>1. TypeOK'
    <3>1. runs + 1 \in 0..MaxRuns /\ 0 \in 0..MaxJumps /\ 1 \in 1..Len(Top) + 1
      BY <1>1, <1>3, TopIs, OptionAssumption DEF Execute, TypeOK
    <3>2. checkpoint.index > 0 => checkpoint.index \in 1..Len(Top) + 1
      BY <1>1 DEF TypeOK
    <3> QED  BY <1>1, <1>3, <3>1, <3>2 DEF Execute, TypeOK, treeVars
  <2>2. OneTop'
    BY <1>1, <1>3, TopIs DEF Execute, OneTop, Live, treeVars
  <2> QED  BY <1>3, <2>1, <2>2, FlowKeepsTree DEF Execute, treeVars
<1>4. CASE NextTopStep
  <2>1. /\ run = "running" /\ i \in 1..Len(Top) /\ Top[i] \in TopSteps /\ Top[i] \in Step
        /\ st[Top[i]] = "off" /\ st' = [st EXCEPT ![Top[i]] = "on"]
        /\ UNCHANGED <<flowVars, pos, phase, pend, clean, cancel, results>>
    BY <1>2, <1>4 DEF NextTopStep
  <2>2. TypeOK'
    BY <1>1, <2>1 DEF TypeOK, flowVars
  <2>3. OneTop'
    <3>1. \A j \in 1..Len(Top) : j # i => st'[Top[j]] = st[Top[j]]
      BY <1>1, <2>1, TopIs DEF TypeOK
    <3>2. run' = "running" /\ i' = i
      BY <2>1 DEF flowVars
    <3> QED  BY <1>1, <2>1, <3>1, <3>2 DEF OneTop, Live
  <2> QED  BY <2>1, <2>2, <2>3, TopKeepsTree
<1>5. CASE TopStepEnds
  <2>1. /\ run = "running" /\ i \in 1..Len(Top) /\ Top[i] \in TopSteps /\ Top[i] \in Step
        /\ st[Top[i]] # "on" /\ st' = [st EXCEPT ![Top[i]] = "off"]
        /\ i' = i + 1 /\ run' = "saving"
        /\ UNCHANGED <<runs, jumps, stopped, status, pos, phase, pend, clean, cancel,
                       results, checkpoint>>
    BY <1>2, <1>5 DEF TopStepEnds
  <2>2. TypeOK'
    BY <1>1, <2>1, TopIs DEF TypeOK
  <2>3. OneTop'
    BY <1>1, <2>1, TopIs DEF OneTop, Live, TypeOK
  <2> QED  BY <2>1, <2>2, <2>3, TopKeepsTree
<1>6. CASE SaveCheckpoint
  <2>1. TypeOK'
    <3>1. {s \in Step : results[s] = "ok"} \in SUBSET Step
      OBVIOUS
    <3>2. checkpoint' \in [index : 0..Len(Top) + 1, done : SUBSET Step]
      BY <1>1, <1>6, <3>1, TopIs DEF SaveCheckpoint, TypeOK
    <3> QED  BY <1>1, <1>6, <3>2 DEF SaveCheckpoint, TypeOK, treeVars
  <2>2. OneTop'
    BY <1>1, <1>6 DEF SaveCheckpoint, OneTop, Live, treeVars
  <2> QED  BY <1>6, <2>1, <2>2, FlowKeepsTree DEF SaveCheckpoint, treeVars
<1>7. CASE Jump
  <2>1. /\ run = "running" /\ i \in 1..Len(Top) /\ Top[i] \in TopSteps /\ Top[i] \in Step
        /\ st[Top[i]] \in TopSteps /\ st[Top[i]] \in Step /\ st' = [st EXCEPT ![Top[i]] = "off"]
        /\ jumps' = jumps + 1 /\ jumps < MaxJumps
        /\ i' = CHOOSE j \in 1..Len(Top) : Top[j] = st[Top[i]]
        /\ UNCHANGED <<run, runs, stopped, status, pos, phase, pend, clean, cancel,
                       results, checkpoint>>
    BY <1>2, <1>7, TopIs DEF Jump, TopSteps
  <2>2. st[Top[i]] # "on" /\ i' \in 1..Len(Top)
    BY <2>1, ShapeAssumption DEF TopSteps
  <2>3. TypeOK'
    BY <1>1, <2>1, <2>2, TopIs, OptionAssumption DEF TypeOK
  <2>4. OneTop'
    BY <1>1, <2>1, <2>2, TopIs DEF OneTop, Live, TypeOK
  <2> QED  BY <2>1, <2>2, <2>3, <2>4, TopKeepsTree
<1>8. CASE FlowReturns
  <2>1. i <= Len(Top) => ~Live(Top[i])
    <3>1. i \in Nat /\ Len(Top) \in Nat
      BY <1>1, TopIs DEF TypeOK
    <3>2. i <= Len(Top) => ~(i > Len(Top))
      BY <3>1
    <3>3. i <= Len(Top) => st[Top[i]] \in {"off", "end", "raised", "cancelled"} \union Step
      BY <3>2, <1>8, Zenon DEF FlowReturns
    <3>4. {"queued", "on"} \intersect Step = {}
      BY ShapeAssumption
    <3> QED  BY <3>3, <3>4 DEF Live
  <2>2. run = "running" /\ \A j \in 1..Len(Top) : ~Live(Top[j])
    BY <1>1, <1>8, <2>1 DEF FlowReturns, OneTop
  <2>3. ASSUME NEW how \in {"success", "end", "failure", "cancelled"},
               NEW clear \in BOOLEAN, Return(how, clear)
        PROVE  TreeInv'
    BY <2>2, <2>3, ReturnKeepsTree
  <2>4. \/ Return("success", TRUE) \/ Return("end", TRUE) \/ Return("failure", FALSE)
        \/ Return("cancelled", FALSE)
    BY <1>8 DEF FlowReturns
  <2> QED  BY <2>3, <2>4
<1>9. CASE Again
  <2>1. TypeOK'
    BY <1>1, <1>9 DEF Again, Forget, TypeOK, Left
  <2> QED  BY <1>9, <2>1, ForgetKeepsTree DEF Again
<1>10. CASE Crash
  <2>1. TypeOK'
    BY <1>1, <1>10 DEF Crash, Forget, TypeOK, Left
  <2> QED  BY <1>10, <2>1, ForgetKeepsTree DEF Crash
<1>11. CASE Stop
  <2>1. TypeOK' /\ OneTop'
    BY <1>1, <1>11 DEF Stop, TypeOK, OneTop, Live, treeVars
  <2> QED  BY <1>11, <2>1, FlowKeepsTree DEF Stop, treeVars
<1>12. CASE CancelFlow
  <2>1. CASE run = "saving" /\ Return("cancelled", FALSE)
    <3>1. \A j \in 1..Len(Top) : ~Live(Top[j])
      BY <1>1, <2>1 DEF OneTop
    <3> QED  BY <2>1, <3>1, ReturnKeepsTree
  <2>2. CASE ~(run = "saving" /\ Return("cancelled", FALSE))
    <3>1. /\ i \in 1..Len(Top) /\ Top[i] \in Step
          /\ status' = "cancelling" /\ cancel' = cancel \union {Top[i]}
          /\ UNCHANGED <<run, runs, i, jumps, stopped, checkpoint, st, pos, phase, pend,
                         clean, results>>
      BY <1>2, <1>12, <2>2 DEF CancelFlow
    <3>2. TypeOK' /\ OneTop'
      BY <1>1, <3>1 DEF TypeOK, OneTop, Live
    <3> QED  BY <3>1, <3>2, FlowKeepsTree
  <2> QED  BY <2>1, <2>2
<1> QED  BY <1>3, <1>4, <1>5, <1>6, <1>7, <1>8, <1>9, <1>10, <1>11, <1>12 DEF TopLevel

\* TreeInv holds at first.
LEMMA InitTree == Init => TreeInv
<1> SUFFICES ASSUME Init PROVE TreeInv
  OBVIOUS
<1>1. TypeOK
  <2>1. 0 \in 0..MaxRuns /\ 0 \in 0..MaxJumps /\ 1 \in 1..Len(Top) + 1
    BY TopIs, OptionAssumption
  <2>2. NoCheckpoint \in [index : 0..Len(Top) + 1, done : SUBSET Step]
    BY TopIs DEF NoCheckpoint
  <2> QED  BY <2>1, <2>2 DEF Init, TypeOK, Left
<1>2. OneTop
  BY TopIs DEF Init, OneTop, Live
<1>3. ASSUME NEW p \in Step
      PROVE  Positions(p) /\ Nested(p) /\ Rewound(p)
  <2>1. \A c \in Under(p) : ~Live(c)
    BY UnderSteps DEF Init, Live
  <2>2. Len(Kids[p]) \in Nat
    BY TreeAssumption
  <2> QED  BY <2>1, <2>2 DEF Init, Positions, Nested, Rewound
<1>4. \A p \in Step : From(st[p], p) /\ From(pend[p], p)
  BY ShapeAssumption DEF Init, From, Left
<1> QED  BY <1>1, <1>2, <1>3, <1>4 DEF TreeInv

\* Every step of the system keeps it.
LEMMA NextTree == TreeInv /\ [Next]_vars => TreeInv'
<1> SUFFICES ASSUME TreeInv, [Next]_vars PROVE TreeInv'
  OBVIOUS
<1>1. CASE UNCHANGED vars
  BY <1>1, FlowKeepsTree DEF vars, TreeInv, TypeOK, OneTop, Live
<1> QED  BY <1>1, StepKeepsTree, RunKeepsTree DEF Next

\* The types of the flow's variables, and which steps may run while others do, in
\* every state of every flow: TreeInv is inductive.
THEOREM FlowInvariant == Spec => []TreeInv
BY InitTree, NextTree, PTL DEF Spec

\* The tree of steps and the run keep to their types.
THEOREM FlowTypeCorrect == Spec => []TypeOK
<1>1. TreeInv => TypeOK
  BY DEF TreeInv
<1> QED  BY <1>1, FlowInvariant, PTL

\* Only a race or a fail-fast step leaves children running behind it, whatever is
\* nested in what and wherever a cancellation arrives.
THEOREM OrphansOnlyOfWaits == Spec => []OnlyWaitsLeaveOrphans
<1>1. TreeInv => OnlyWaitsLeaveOrphans
  BY DEF TreeInv, OnlyWaitsLeaveOrphans, Nested, Active, Live
<1> QED  BY <1>1, FlowInvariant, PTL
-----------------------------------------------------------------------------
(* What is ahead of the run *)

\* Step a is still to be begun in this run, if the step around it is live.
AheadAtTop(a) ==
    \E j \in i..Len(Top) :
        a = Top[j] /\ \/ run = "saving"
                      \/ run = "running" /\ (j > i \/ st[a] = "off")
AheadInside(a) == \E p \in Step : a \in Under(p) /\ Live(p) /\ a \in ToCome(p)
Ahead(a) == AheadAtTop(a) \/ AheadInside(a)

Fresh(c) == st[c] = "off" /\ results[c] = "none"

\* A step in no loop that is ahead, or in one that is, was not begun in this run
\* and has no result, not even one restored from the checkpoint.
NotBegun == \A c \in Step : Once(c) => \A a \in Above[c] : Ahead(a) => Fresh(c)

\* The checkpoint restores no result of what is to be executed after it.
Saved ==
    \A c \in checkpoint.done : Once(c) =>
        \A j \in 1..Len(Top) : j >= checkpoint.index => Top[j] \notin Above[c]

Recorded ==
    \A s \in Step : /\ results[s] = "failed" => s \in Named
                    /\ st[s] = "ok" => results[s] # "failed"

Unmarked == \A p \in Step : Once(p) /\ Live(p) => results[p] = "none"

\* Where no child has failed so far, no result of one is a failure.
SoFar ==
    \A p \in Step :
        Once(p) /\ st[p] = "on" /\ Kind[p] \in {"sequence", "pipe"} /\ clean[p] =>
            \A k \in 1..Len(Kids[p]) : k < pos[p] => results[Kids[p][k]] # "failed"

Earned ==
    \A p \in Step : Once(p) /\ Kind[p] \in AllOf /\ results[p] = "ok" /\ st[p] # "on" =>
        \A c \in KidSet(p) : results[c] # "failed" /\ ~Live(c)

RunInv == NotBegun /\ Saved /\ Recorded /\ Unmarked /\ SoFar /\ Earned

\* What is above a step, and who is in no loop.
LEMMA AboveSteps ==
    ASSUME NEW s \in Step
    PROVE  /\ s \in Above[s] /\ Above[s] \subseteq Step
           /\ \A a \in Above[s] : Above[a] \subseteq Above[s] /\ (Once(s) => Once(a))
           /\ \A c \in Under(s) : /\ Above[c] = {c} \union Above[s] /\ c # s
                                  /\ Once(c) <=> Once(s) /\ Kind[s] # "loop"
<1>1. /\ s \in Above[s] /\ Above[s] \subseteq Step
      /\ \A a \in Above[s] : Above[a] \subseteq Above[s] /\ (a # s => s \notin Above[a])
  BY ShapeAssumption
<1>2. \A a \in Above[s] : Once(s) => Once(a)
  BY <1>1 DEF Once
<1>3. ASSUME NEW c \in Under(s)
      PROVE  /\ Above[c] = {c} \union Above[s] /\ c # s
             /\ Once(c) <=> Once(s) /\ Kind[s] # "loop"
  <2>1. c \in Step /\ c # s /\ Above[c] = {c} \union Above[s]
    BY UnderSteps, ShapeAssumption
  <2>2. s \in Above[c] \ {c}
    BY <2>1, <1>1
  <2>3. c \notin Above[s]
    BY <2>1, <2>2, ShapeAssumption
  <2> QED  BY <2>1, <2>2, <2>3 DEF Once
<1> QED  BY <1>1, <1>2, <1>3

\* Step c is begun by the step around it, which it was still to come in.
Begun(c) ==
    \E q \in Step : /\ c \in Under(q) /\ st[q] = "on"
                    /\ Kind[q] # "loop" => c \in ToCome(q) /\ c \notin ToCome(q)'

\* What an action on step s may do to what is ahead and to the results.
Modest(s) ==
    /\ \A p \in Step \ {s} : clean'[p] = clean[p]
    /\ \A c \in Step : Live(c)' => Live(c) \/ Begun(c)
    /\ \A p \in Step : Live(p)' /\ Kind[p] # "loop" => ToCome(p)' \subseteq ToCome(p)
    /\ \A t \in TopSteps : st'[t] = "off" => st[t] = "off"
    /\ \A c \in Step : st'[c] # "off" => st[c] # "off" \/ Live(c)'
    /\ \A c \in Step : results'[c] # results[c] => c = s /\ st[c] = "on" /\ ~Live(c)'
    /\ \A c \in Step : results'[c] = "failed" => results[c] = "failed" \/ c \in Named
    /\ \A c \in Step : st'[c] = "ok" /\ st[c] # "ok" =>
         results'[c] = IF c \in Named THEN "ok" ELSE results[c]
    /\ st'[s] = "on" /\ Kind[s] \in {"sequence", "pipe"} =>
         \/ pos'[s] = pos[s] /\ clean'[s] = clean[s]
         \/ /\ pos'[s] = pos[s] + 1
            /\ clean'[s] => pos[s] = 0 \/ (clean[s] /\ st[Child(s)] = "ok")
    /\ st[s] = "on" /\ st'[s] # "on" =>
         /\ \A c \in Step : Live(c)' => Live(c)
         /\ Kind[s] \notin Waits => \A c \in Under(s) : ~Live(c)'
         /\ results[s] # "ok" /\ results'[s] = "ok" => Deserves(s)

\* A step leaves.
LEMMA LeavesModest ==
    ASSUME TreeInv, NEW s \in Step, Leaves(s)
    PROVE  Modest(s)
<1>1. PICK o \in Left \union Step, kids \in SUBSET Step : LeavesWith(s, o, kids)
  BY DEF Leaves
<1> DEFINE f == Final(s, o)
<1>2. /\ TypeOK /\ st[s] = "on" /\ kids \subseteq Under(s) /\ \A c \in kids : Over(c)
      /\ f \in Left \union Step
  BY <1>1 DEF LeavesWith, Final, TreeInv, Left, On
<1>3. /\ f \notin {"off", "queued", "on"} /\ (f = "ok" => o = "ok")
  BY <1>2, ShapeAssumption DEF Left, Final
<1>4. /\ st' = [t \in Step |-> IF t = s THEN f ELSE IF t \in kids THEN "off" ELSE st[t]]
      /\ results' = IF s \in Named /\ f \in {"ok", "failed"}
                    THEN [results EXCEPT ![s] = f] ELSE results
      /\ pos' = [pos EXCEPT ![s] = 0]
      /\ phase' = [phase EXCEPT ![s] = "body"]
      /\ clean' = [clean EXCEPT ![s] = TRUE]
  BY <1>1 DEF LeavesWith, Leave
<1> HIDE DEF f
<1>5. \A p \in Step : st'[p] = IF p = s THEN f ELSE IF p \in kids THEN "off" ELSE st[p]
  BY <1>4
<1>6. /\ \A c \in Step \ {s} : results'[c] = results[c]
      /\ results'[s] = IF s \in Named /\ f \in {"ok", "failed"} THEN f ELSE results[s]
  BY <1>2, <1>4 DEF TypeOK
<1>7. \A c \in Step : Live(c)' => Live(c) /\ c # s
  BY <1>3, <1>5 DEF Live
<1>8. \A p \in Step \ {s} : pos'[p] = pos[p] /\ phase'[p] = phase[p] /\ clean'[p] = clean[p]
  BY <1>2, <1>4 DEF TypeOK
<1>9. \A p \in Step : Live(p)' => ToCome(p)' \subseteq ToCome(p)
  BY <1>7, <1>8 DEF ToCome, KidSet, FinallySet
<1>10. /\ \A t \in TopSteps : st'[t] = "off" => st[t] = "off"
       /\ \A c \in Step : st'[c] # "off" => st[c] # "off"
       /\ st'[s] # "on"
  BY <1>2, <1>3, <1>5, UnderSteps DEF TopSteps
<1>11. \A c \in Step : st'[c] = "ok" /\ st[c] # "ok" =>
         results'[c] = IF c \in Named THEN "ok" ELSE results[c]
  BY <1>5, <1>6
<1>12. /\ \A c \in Step : results'[c] # results[c] => c = s /\ st[c] = "on" /\ ~Live(c)'
       /\ \A c \in Step : results'[c] = "failed" => results[c] = "failed" \/ c \in Named
       /\ results[s] # "ok" /\ results'[s] = "ok" => Deserves(s)
  BY <1>1, <1>2, <1>3, <1>6, <1>7 DEF LeavesWith
<1>13. Kind[s] \notin Waits => \A c \in Under(s) : ~Live(c)'
  BY <1>1, <1>7, UnderSteps DEF LeavesWith, Calm
<1> QED  BY <1>7, <1>8, <1>9, <1>10, <1>11, <1>12, <1>13 DEF Modest

\* A step begins its next child.
LEMMA GoesModest ==
    ASSUME TreeInv, NEW s \in Step, Goes(s)
    PROVE  Modest(s)
<1>1. PICK x \in Step, kids \in SUBSET Step : GoesTo(s, x, kids)
  BY DEF Goes
<1>2. /\ st[s] = "on" /\ kids \subseteq Under(s) /\ (\A c \in kids : Over(c))
      /\ x \in Under(s) /\ KeepsPlaces(s)
      /\ st' = [t \in Step |-> IF t = x THEN "on" ELSE IF t \in kids THEN "off" ELSE st[t]]
      /\ results' = results
      /\ Kind[s] # "loop" => x \in ToCome(s) /\ ToCome(s)' \subseteq ToCome(s) \ {x}
      /\ Kind[s] \in {"sequence", "pipe"} =>
           /\ pos'[s] = pos[s] + 1
           /\ clean'[s] => pos[s] = 0 \/ (clean[s] /\ st[Child(s)] = "ok")
  BY <1>1 DEF GoesTo, On
<1>3. \A p \in Step : st'[p] = IF p = x THEN "on" ELSE IF p \in kids THEN "off" ELSE st[p]
  BY <1>2
<1>4. st'[s] = "on"
  BY <1>2, <1>3, UnderSteps
<1>5. \A p \in Step \ {s} : pos'[p] = pos[p] /\ phase'[p] = phase[p] /\ clean'[p] = clean[p]
  BY <1>2 DEF KeepsPlaces
<1>6. \A c \in Step : Live(c)' => Live(c) \/ Begun(c)
  BY <1>2, <1>3 DEF Live, Begun
<1>7. \A p \in Step : Live(p)' /\ Kind[p] # "loop" => ToCome(p)' \subseteq ToCome(p)
  <2>1. \A p \in Step \ {s} : ToCome(p)' \subseteq ToCome(p)
    BY <1>5 DEF ToCome, KidSet, FinallySet
  <2> QED  BY <2>1, <1>2
<1>8. /\ \A t \in TopSteps : st'[t] = "off" => st[t] = "off"
      /\ \A c \in Step : st'[c] # "off" => st[c] # "off" \/ Live(c)'
      /\ \A c \in Step : st'[c] = "ok" => st[c] = "ok"
  BY <1>2, <1>3, UnderSteps DEF TopSteps, Live
<1> HIDE DEF Begun
<1> QED  BY <1>2, <1>4, <1>5, <1>6, <1>7, <1>8 DEF Modest

\* A step creates the tasks of its children.
LEMMA FanOutModest ==
    ASSUME TreeInv, NEW s \in Step, EnterFanOut(s)
    PROVE  Modest(s)
<1> DEFINE v == IF Kind[s] = "race" THEN "on" ELSE "queued"
<1>1. /\ TypeOK /\ st[s] = "on" /\ Kind[s] \in FanOut /\ pos[s] = 0
      /\ st' = [t \in Step |-> IF t \notin KidSet(s) THEN st[t] ELSE v]
      /\ pos' = [pos EXCEPT ![s] = 1]
      /\ UNCHANGED <<phase, clean, results>>
  BY DEF EnterFanOut, TreeInv, On
<1>2. KidSet(s) = Under(s) /\ s \notin Under(s)
  BY <1>1, Places, UnderSteps
<1>3. \A p \in Step : st'[p] = IF p \notin Under(s) THEN st[p] ELSE v
  BY <1>1, <1>2
<1>4. v \in {"on", "queued"}
  OBVIOUS
<1> HIDE DEF v
<1>5. pos'[s] = 1 /\ \A p \in Step \ {s} : pos'[p] = pos[p]
  BY <1>1 DEF TypeOK
<1>6. ToCome(s) = KidSet(s) /\ ToCome(s)' = {}
  BY <1>1, <1>5 DEF ToCome, FanOut
<1>7. \A p \in Step : ToCome(p)' \subseteq ToCome(p)
  <2>1. \A p \in Step \ {s} : ToCome(p)' \subseteq ToCome(p)
    BY <1>1, <1>5 DEF ToCome, KidSet, FinallySet
  <2> QED  BY <2>1, <1>6
<1>8. \A c \in Step : Live(c)' => Live(c) \/ Begun(c)
  BY <1>1, <1>2, <1>3, <1>6 DEF Live, Begun
<1>9. /\ \A t \in TopSteps : st'[t] = "off" => st[t] = "off"
      /\ \A c \in Step : st'[c] # "off" => st[c] # "off" \/ Live(c)'
      /\ \A c \in Step : st'[c] = "ok" => st[c] = "ok"
      /\ st'[s] = "on"
  BY <1>1, <1>2, <1>3, <1>4, UnderSteps DEF TopSteps, Live
<1>10. Kind[s] \notin {"sequence", "pipe"}
  BY <1>1 DEF FanOut
<1> HIDE DEF Begun
<1> QED  BY <1>1, <1>7, <1>8, <1>9, <1>10 DEF Modest

\* A task gets the semaphore, ends, or settles what it leaves with.
LEMMA OtherModest ==
    ASSUME TreeInv, NEW s \in Step,
           \/ Ends(s) \/ Settles(s) \/ \E q \in Step : s \in KidSet(q) /\ GetsSemaphore(q, s)
    PROVE  Modest(s)
<1>1. TypeOK
  BY DEF TreeInv
<1>2. CASE Settles(s)
  <2>1. /\ st[s] = "on" /\ Kind[s] \in FanOut /\ pos' = pos /\ clean' = clean /\ KeepsPlaces(s)
        /\ UNCHANGED <<st, results>>
    BY <1>2 DEF Settles, On
  <2>2. \A p \in Step : ToCome(p)' \subseteq ToCome(p)
    BY <2>1 DEF ToCome, KidSet, FinallySet, KeepsPlaces, FanOut
  <2> QED  BY <2>1, <2>2 DEF Modest, Live
<1>3. CASE \/ Ends(s) \/ \E q \in Step : s \in KidSet(q) /\ GetsSemaphore(q, s)
  <2>1. PICK v \in {"cancelled", "off", "on"} :
          /\ st' = [st EXCEPT ![s] = v]
          /\ v # "off" => st[s] = "queued"
          /\ s \in TopSteps => v # "off"
    BY <1>3, UnderSteps DEF Ends, GetsSemaphore, TopSteps
  <2>2. /\ st[s] # "on" /\ UNCHANGED <<pos, phase, clean, results>>
    BY <1>3 DEF Ends, GetsSemaphore
  <2>3. \A p \in Step : st'[p] = IF p = s THEN v ELSE st[p]
    BY <2>1, <1>1 DEF TypeOK
  <2>4. \A p \in Step : ToCome(p)' \subseteq ToCome(p)
    BY <2>2 DEF ToCome, KidSet, FinallySet
  <2> QED  BY <2>1, <2>2, <2>3, <2>4 DEF Modest, Live
<1> QED  BY <1>2, <1>3

\* Every action on a step is modest about one.
LEMMA ActionModest ==
    ASSUME TreeInv, NEW s \in Step, Control(s) \/ LeafReturns(s)
    PROVE  \E c \in Step : Modest(c) /\ Alone(c)
<1>1. Shape(s)
  BY ActionShape
<1>2. CASE Leaves(s) \/ Goes(s) \/ EnterFanOut(s) \/ Ends(s) \/ Settles(s)
  BY <1>2, LeavesModest, GoesModest, FanOutModest, OtherModest, LeavesKeepsTree, GoesKeepsTree,
     FanOutKeepsTree, EndsKeepsTree, SettlesKeepsTree
<1>3. ASSUME NEW c \in KidSet(s), GetsSemaphore(s, c)
      PROVE  \E d \in Step : Modest(d) /\ Alone(d)
  <2>1. c \in Step
    BY UnderSteps
  <2>2. Modest(c) /\ Alone(c)
    BY <1>3, <2>1, OtherModest, SemaphoreKeepsTree
  <2> QED  BY <2>1, <2>2
<1> QED  BY <1>1, <1>2, <1>3 DEF Shape
-----------------------------------------------------------------------------
(* RunInv is kept *)

\* What is ahead after such an action is, or is in what was, ahead before it.
LEMMA AheadShrinks ==
    ASSUME TreeInv, NEW s \in Step, Alone(s), Modest(s),
           NEW a \in Step, Once(a), Ahead(a)'
    PROVE  \E b \in Above[a] : Ahead(b)
<1>1. a \in Above[a]
  BY AboveSteps
<1>2. run' = run /\ i' = i
  BY DEF Alone, flowVars
<1>3. CASE AheadAtTop(a)'
  <2>1. AheadAtTop(a)
    BY <1>2, <1>3, TopIs DEF AheadAtTop, Modest, TreeInv, TypeOK
  <2> QED  BY <1>1, <2>1 DEF Ahead
<1>4. CASE AheadInside(a)'
  <2>1. PICK p \in Step : a \in Under(p) /\ Live(p)' /\ a \in ToCome(p)'
    BY <1>4 DEF AheadInside
  <2>2. Kind[p] # "loop" /\ Once(p) /\ p \in Above[a]
    BY <2>1, AboveSteps
  <2>3. a \in ToCome(p)
    BY <2>1, <2>2 DEF Modest
  <2>4. CASE Live(p)
    BY <1>1, <2>1, <2>3, <2>4 DEF Ahead, AheadInside
  <2>5. CASE ~Live(p)
    <3>1. PICK q \in Step : /\ p \in Under(q) /\ st[q] = "on"
                            /\ Kind[q] # "loop" => p \in ToCome(q)
      BY <2>1, <2>5 DEF Modest, Begun
    <3>2. Ahead(p)
      BY <3>1, <2>2, AboveSteps DEF Ahead, AheadInside, Live
    <3> QED  BY <2>2, <3>2
  <2> QED  BY <2>4, <2>5
<1> QED  BY <1>3, <1>4 DEF Ahead

\* What is ahead stays untouched: who is begun is not ahead any more.
LEMMA ModestKeepsAhead ==
    ASSUME TreeInv, NotBegun, NEW s \in Step, Alone(s), Modest(s)
    PROVE  NotBegun'
<1> SUFFICES ASSUME NEW c \in Step, Once(c), NEW a \in Above[c], Ahead(a)'
             PROVE  Fresh(c)'
  BY DEF NotBegun
<1>1. a \in Step /\ Once(a) /\ Above[a] \subseteq Above[c]
  BY AboveSteps
<1>2. PICK b \in Above[a] : Ahead(b)
  BY <1>1, AheadShrinks
<1>3. Fresh(c)
  BY <1>1, <1>2 DEF NotBegun
<1>4. results'[c] = "none"
  BY <1>3 DEF Modest, Fresh
<1>5. ASSUME st'[c] # "off"
      PROVE  FALSE
  <2>1. Live(c)' /\ ~Live(c)
    BY <1>3, <1>5 DEF Modest, Fresh, Live
  <2>2. PICK q \in Step : /\ c \in Under(q) /\ st[q] = "on"
                          /\ Kind[q] # "loop" => c \in ToCome(q) /\ c \notin ToCome(q)'
    BY <2>1 DEF Modest, Begun
  <2>3. Kind[q] # "loop" /\ Once(q) /\ Above[c] = {c} \union Above[q]
    BY <2>2, AboveSteps
  <2>4. CASE a = c
    <3>1. ~AheadAtTop(c)'
      BY <2>2, UnderSteps DEF AheadAtTop, TreeInv, TypeOK, Alone, flowVars
    <3>2. ~AheadInside(c)'
      BY <2>2, <2>3, UnderSteps DEF AheadInside
    <3> QED  BY <2>4, <3>1, <3>2 DEF Ahead
  <2>5. CASE a # c
    <3>1. a \in Above[q] /\ b \in Above[q]
      BY <1>2, <2>3, <2>5, AboveSteps
    <3>2. Fresh(q)
      BY <1>2, <2>3, <3>1 DEF NotBegun
    <3> QED  BY <2>2, <3>2 DEF Fresh
  <2> QED  BY <2>4, <2>5
<1> QED  BY <1>4, <1>5 DEF Fresh

\* A step that is begun, and is in no loop, has no result.
LEMMA BegunIsFresh ==
    ASSUME NotBegun, NEW c \in Step, Once(c), Begun(c)
    PROVE  results[c] = "none"
<1>1. PICK q \in Step : /\ c \in Under(q) /\ st[q] = "on"
                        /\ Kind[q] # "loop" => c \in ToCome(q)
  BY DEF Begun
<1>2. Ahead(c)
  BY <1>1, AboveSteps DEF Ahead, AheadInside, Live
<1>3. c \in Above[c]
  BY AboveSteps
<1> QED  BY <1>2, <1>3 DEF NotBegun, Fresh

\* The results that are recorded keep their meaning.
LEMMA ModestKeepsResults ==
    ASSUME TreeInv, RunInv, NEW s \in Step, Alone(s), Modest(s), TypeOK'
    PROVE  Recorded' /\ Unmarked' /\ Saved'
<1>1. Recorded'
  <2>1. ASSUME NEW c \in Step
        PROVE  /\ results'[c] = "failed" => c \in Named
               /\ st'[c] = "ok" => results'[c] # "failed"
    <3>1. results'[c] = "failed" => c \in Named
      BY DEF RunInv, Recorded, Modest
    <3>2. st[c] = "ok" => results'[c] # "failed"
      BY DEF RunInv, Recorded, Modest
    <3>3. st'[c] = "ok" /\ st[c] # "ok" => results'[c] # "failed"
      BY DEF RunInv, Recorded, Modest
    <3> QED  BY <3>1, <3>2, <3>3
  <2> QED  BY <2>1 DEF Recorded
<1>2. Unmarked'
  <2> SUFFICES ASSUME NEW p \in Step, Once(p), Live(p)' PROVE results'[p] = "none"
    BY DEF Unmarked
  <2>1. results[p] = "none"
    BY BegunIsFresh DEF RunInv, Unmarked, Modest
  <2> QED  BY <2>1 DEF Modest
<1>3. Saved'
  BY DEF RunInv, Saved, Alone, flowVars
<1> QED  BY <1>1, <1>2, <1>3

\* A step in no loop that runs has no result, so that it is not "ok" yet.
LEMMA ModestKeepsSoFar ==
    ASSUME TreeInv, RunInv, NEW s \in Step, Alone(s), Modest(s)
    PROVE  SoFar'
<1> SUFFICES ASSUME NEW p \in Step, Once(p), st'[p] = "on", Kind[p] \in {"sequence", "pipe"},
                    clean'[p], NEW k \in 1..Len(Kids[p]), k < pos'[p]
             PROVE  results'[Kids[p][k]] # "failed"
  BY DEF SoFar
<1> DEFINE c == Kids[p][k]
<1>1. /\ TypeOK /\ Positions(p) /\ Nested(p) /\ Rewound(p) /\ Kind[p] \in InOrder
      /\ Kind[p] \notin Waits \union FanOut \union {"loop"}
  BY DEF TreeInv, InOrder, Waits, FanOut
<1>2. c \in Under(p) /\ c \in Step /\ pos[p] \in Nat /\ Len(Kids[p]) \in Nat
  BY <1>1, Places, UnderSteps, TreeAssumption DEF TypeOK
<1>3. st[p] = "on" \/ pos[p] = 0
  BY <1>1 DEF Rewound
<1>4. phase[p] = "body" /\ pos[p] <= Len(Kids[p])
  BY <1>1, <1>2 DEF Positions, InOrder, Waits, TypeOK
<1>5. pos[p] > 0 => Child(p) = Kids[p][pos[p]] /\ Child(p) \in Step
  BY <1>1, <1>4, ChildIn
<1>6. \/ pos'[p] = pos[p] /\ clean'[p] = clean[p]
      \/ /\ p = s /\ pos'[p] = pos[p] + 1
         /\ clean'[p] => pos[p] = 0 \/ (clean[p] /\ st[Child(p)] = "ok")
  BY DEF Alone, Modest
<1>7. pos[p] > 0 /\ pos[p] # 0 /\ st[p] = "on" /\ pos'[p] \in {pos[p], pos[p] + 1}
  <2>1. pos'[p] \in {pos[p], pos[p] + 1}
    BY <1>6, Zenon
  <2> QED  BY <2>1, <1>2, <1>3
<1>8. results[c] # "failed"
  <2>1. CASE k < pos[p]
    <3>1. clean[p]
      BY <1>6, <1>7, Zenon
    <3> QED  BY <2>1, <3>1, <1>7 DEF RunInv, SoFar
  <2>2. CASE ~(k < pos[p])
    <3>1. k = pos[p] /\ pos'[p] # pos[p]
      BY <2>2, <1>2, <1>7
    <3>2. st[Child(p)] = "ok"
      BY <3>1, <1>6, <1>7, Zenon
    <3> QED  BY <3>1, <3>2, <1>5, <1>7 DEF RunInv, Recorded
  <2> QED  BY <2>1, <2>2
<1>9. ASSUME results'[c] # results[c]
      PROVE  FALSE
  <2>1. c = s /\ st[c] = "on" /\ c # p
    BY <1>2, <1>9, UnderSteps DEF Modest
  <2>2. c = Child(p)
    BY <2>1, <1>1, <1>2, <1>7 DEF Nested, Active, Live
  <2>3. k = pos[p]
    BY <2>2, <1>2, <1>4, <1>5, <1>7, ShapeAssumption DEF Distinct
  <2>4. pos'[p] = pos[p]
    BY <2>1, <1>6, Zenon
  <2> QED  BY <2>3, <2>4, <1>2
<1> QED  BY <1>8, <1>9

\* A success stays one, and one that is recorded is one.
LEMMA ModestKeepsEarned ==
    ASSUME TreeInv, RunInv, NEW s \in Step, Alone(s), Modest(s), TypeOK'
    PROVE  Earned'
<1> SUFFICES ASSUME NEW p \in Step, Once(p), Kind[p] \in AllOf, results'[p] = "ok",
                    st'[p] # "on", NEW c \in KidSet(p)
             PROVE  results'[c] # "failed" /\ ~Live(c)'
  BY DEF Earned
<1>1. TypeOK /\ Kind[p] \in FanOut \union InOrder /\ Kind[p] # "loop"
  BY DEF TreeInv, AllOf, FanOut, InOrder
<1>2. c \in Under(p) /\ c \in Step /\ c # p
  BY UnderSteps
<1>3. ~Begun(c) \/ st[p] = "on"
  <2>1. \A q \in Step : c \in Under(q) => q = p
    BY <1>2, UnderSteps
  <2> QED  BY <2>1 DEF Begun
<1>4. CASE st[p] # "on"
  <2>1. results[p] = "ok"
    BY <1>4 DEF Modest
  <2>2. results[c] # "failed" /\ ~Live(c)
    BY <2>1, <1>4 DEF RunInv, Earned
  <2>3. ~Live(c)'
    BY <2>2, <1>2, <1>3, <1>4 DEF Modest
  <2>4. results'[c] = results[c]
    BY <2>2, <1>2 DEF Modest, Live
  <2> QED  BY <2>2, <2>3, <2>4
<1>5. CASE st[p] = "on"
  <2>1. p = s /\ results[p] = "none"
    BY <1>5 DEF Alone, RunInv, Unmarked, Live
  <2>2. Deserves(p) /\ (Kind[p] \notin Waits => ~Live(c)')
    BY <2>1, <1>2, <1>5 DEF Modest
  <2>3. results'[c] = results[c]
    BY <2>1, <1>2 DEF Modest
  <2>4. CASE Kind[p] \in {"gather", "failfast"}
    <3>1. st[c] = "ok"
      BY <2>2, <2>4 DEF Deserves
    <3>2. results[c] # "failed"
      BY <3>1, <1>2 DEF RunInv, Recorded
    <3>3. ~Live(c)'
      BY <3>1, <2>1, <1>2, <1>5 DEF Modest, Live
    <3> QED  BY <2>3, <3>2, <3>3
  <2>5. CASE Kind[p] \in {"sequence", "pipe"}
    <3>1. Positions(p) /\ Kind[p] \notin Waits \union FanOut /\ pos[p] \in Nat /\ Kind[p] \in InOrder
          /\ Len(Kids[p]) \in Nat
      BY <2>5, <1>1, TreeAssumption DEF TreeInv, Waits, FanOut, InOrder, TypeOK
    <3>2. PICK k \in 1..Len(Kids[p]) : c = Kids[p][k]
      BY DEF KidSet
    <3>3. pos[p] > 0 => Child(p) = Kids[p][pos[p]]
      <4>1. pos[p] <= Len(Kids[p])
        BY <3>1, <2>5, <1>1 DEF Positions, Waits, TypeOK
      <4> QED  BY <4>1, <3>1, <1>1, ChildIn
    <3>4. CASE k > pos[p]
      <4>1. Ahead(c)
        <5>1. k \in pos[p] + 1..Len(Kids[p])
          BY <3>1, <3>2, <3>4
        <5>2. c \in ToCome(p)
          BY <5>1, <3>2, <2>5 DEF ToCome
        <5> QED  BY <5>2, <1>2, <1>5 DEF Ahead, AheadInside, Live
      <4>2. c \in Above[c] /\ Once(c)
        BY <1>1, <1>2, AboveSteps
      <4> QED  BY <4>1, <4>2, <2>2, <2>3, <3>1, <1>2 DEF RunInv, NotBegun, Fresh
    <3>5. CASE k <= pos[p]
      <4>1. clean[p] /\ st[Child(p)] = "ok"
        BY <3>1, <3>5, <2>2, <2>5 DEF Deserves
      <4>2. k = pos[p] => results[c] # "failed"
        BY <4>1, <3>1, <3>2, <3>3, <1>2 DEF RunInv, Recorded
      <4>3. k < pos[p] => results[c] # "failed"
        BY <4>1, <3>2, <2>5, <1>5 DEF RunInv, SoFar
      <4> QED  BY <4>2, <4>3, <2>2, <2>3, <3>1, <3>5
    <3> QED  BY <3>1, <3>2, <3>4, <3>5
  <2> QED  BY <2>4, <2>5 DEF AllOf
<1> QED  BY <1>4, <1>5

\* A step of the top level is above itself only.
LEMMA AboveTop ==
    ASSUME NEW t \in TopSteps
    PROVE  t \in Step /\ Above[t] = {t} /\ Once(t) /\ \A p \in Step : t \notin Under(p)
<1>1. t \in Step /\ Above[t] = {t}
  BY TopIs, ShapeAssumption DEF TopSteps
<1> QED  BY <1>1, ShapeAssumption DEF Once

\* The run comes to or leaves a step of the top level, and goes forward.
Onward ==
    /\ UNCHANGED <<pos, phase, clean, results>>
    /\ \A p \in Step : st'[p] # st[p] =>
         /\ p \in TopSteps /\ ~Live(p) /\ st'[p] \in {"off", "on"}
         /\ st'[p] = "on" => AheadAtTop(p) /\ ~AheadAtTop(p)'
    /\ \A a \in Step : AheadAtTop(a)' => AheadAtTop(a)

\* Then no step that is ahead is touched.
LEMMA OnwardKeepsRun ==
    ASSUME TreeInv, RunInv, Onward
    PROVE  NotBegun' /\ Recorded' /\ Unmarked' /\ SoFar' /\ Earned'
<1>1. \A p \in Step : ToCome(p)' = ToCome(p)
  BY DEF ToCome, KidSet, FinallySet, Onward
<1>2. ASSUME NEW p \in Step, Live(p)', ~Live(p)
      PROVE  p \in TopSteps /\ AheadAtTop(p) /\ ~AheadAtTop(p)' /\ Fresh(p)
  <2>1. p \in TopSteps /\ AheadAtTop(p) /\ ~AheadAtTop(p)'
    BY <1>2 DEF Onward, Live
  <2>2. p \in Above[p] /\ Once(p)
    BY <2>1, AboveTop
  <2> QED  BY <2>1, <2>2 DEF RunInv, NotBegun, Ahead
<1>3. NotBegun'
  <2> SUFFICES ASSUME NEW c \in Step, Once(c), NEW a \in Above[c], Ahead(a)'
               PROVE  Fresh(c)'
    BY DEF NotBegun
  <2>1. a \in Step /\ Above[a] \subseteq Above[c] /\ a \in Above[a]
    BY AboveSteps
  <2>2. \E b \in Above[a] : Ahead(b)
    <3>1. CASE AheadAtTop(a)'
      BY <2>1, <3>1 DEF Ahead, Onward
    <3>2. CASE AheadInside(a)'
      <4>1. PICK p \in Step : a \in Under(p) /\ Live(p)' /\ a \in ToCome(p)
        BY <3>2, <1>1 DEF AheadInside
      <4>2. p \in Above[a]
        BY <4>1, AboveSteps
      <4>3. CASE Live(p)
        BY <2>1, <4>1, <4>3 DEF Ahead, AheadInside
      <4>4. CASE ~Live(p)
        BY <1>2, <4>1, <4>2, <4>4 DEF Ahead
      <4> QED  BY <4>3, <4>4
    <3> QED  BY <3>1, <3>2 DEF Ahead
  <2>3. Fresh(c)
    BY <2>1, <2>2 DEF RunInv, NotBegun
  <2>4. ASSUME st'[c] # "off"
        PROVE  FALSE
    <3>1. c \in TopSteps /\ ~AheadAtTop(c)'
      BY <2>3, <2>4 DEF Onward, Fresh
    <3>2. a = c /\ ~AheadInside(c)'
      BY <3>1, AboveTop DEF AheadInside
    <3> QED  BY <3>1, <3>2 DEF Ahead
  <2> QED  BY <2>3, <2>4 DEF Fresh, Onward
<1>4. Recorded'
  BY DEF RunInv, Recorded, Onward
<1>5. Unmarked'
  BY <1>2 DEF RunInv, Unmarked, Fresh, Onward
<1>6. SoFar'
  <2>1. \A p \in Step : st'[p] = "on" => st[p] = "on" \/ pos[p] = 0
    BY DEF TreeInv, Rewound
  <2>2. \A p \in Step : pos[p] = 0 => \A k \in 1..Len(Kids[p]) : ~(k < pos[p])
    BY TreeAssumption
  <2> QED  BY <2>1, <2>2, Zenon DEF RunInv, SoFar, Onward
<1>7. Earned'
  <2>1. \A p \in Step : \A c \in Under(p) : st'[c] = st[c]
    BY UnderSteps, AboveTop DEF Onward
  <2>2. \A p \in Step : st'[p] # "on" => st[p] # "on"
    BY DEF Onward, Live
  <2> QED  BY <2>1, <2>2, UnderSteps DEF RunInv, Earned, Onward, Live
<1> QED  BY <1>3, <1>4, <1>5, <1>6, <1>7

\* All steps are off again, and no run goes on.
LEMMA ForgetKeepsRun ==
    ASSUME TreeInv, RunInv, Forget, run' = "off", checkpoint' = checkpoint,
           results' = results \/ results' = [s \in Step |-> "none"]
    PROVE  RunInv'
<1>1. \A p \in Step : st'[p] = "off"
  BY DEF Forget
<1>2. \A p \in Step : ~Live(p)' /\ results'[p] \in {results[p], "none"}
  BY <1>1 DEF Live
<1>3. NotBegun'
  BY <1>2, AboveSteps DEF NotBegun, Ahead, AheadAtTop, AheadInside
<1>4. Saved'
  BY DEF RunInv, Saved
<1>5. Recorded' /\ Unmarked' /\ SoFar'
  BY <1>1, <1>2 DEF RunInv, Recorded, Unmarked, SoFar
<1>6. Earned'
  <2> SUFFICES ASSUME NEW p \in Step, Once(p), Kind[p] \in AllOf, results'[p] = "ok",
                      NEW c \in KidSet(p)
               PROVE  results'[c] # "failed" /\ ~Live(c)'
    BY DEF Earned
  <2>1. results[p] = "ok" /\ c \in Step
    BY <1>2, UnderSteps
  <2>2. st[p] # "on"
    BY <2>1 DEF RunInv, Unmarked, Live
  <2>3. results[c] # "failed"
    BY <2>1, <2>2 DEF RunInv, Earned
  <2> QED  BY <1>2, <2>1, <2>3
<1> QED  BY <1>3, <1>4, <1>5, <1>6 DEF RunInv

\* A run starts, from the checkpoint or from the first step, with nothing begun.
LEMMA ExecuteKeepsRun ==
    ASSUME TreeInv, RunInv, Execute
    PROVE  RunInv'
<1>1. /\ TypeOK /\ TypeOK' /\ run = "off" /\ run' = "running"
      /\ UNCHANGED <<st, pos, phase, clean, checkpoint>>
  BY RunKeepsTree DEF TreeInv, Execute, TopLevel, treeVars
<1>2. \A p \in Step : st'[p] = "off" /\ ~Live(p)'
  BY <1>1 DEF TreeInv, OneTop, Live
<1>3. \A p \in Step :
        \/ results'[p] = "none"
        \/ i' = checkpoint.index /\ p \in checkpoint.done /\ results'[p] = "ok"
  BY DEF Execute
<1>4. NotBegun'
  <2> SUFFICES ASSUME NEW c \in Step, Once(c), NEW a \in Above[c], Ahead(a)',
                      i' = checkpoint.index, c \in checkpoint.done
               PROVE  FALSE
    BY <1>2, <1>3 DEF NotBegun, Fresh
  <2>1. AheadAtTop(a)'
    BY <1>2 DEF Ahead, AheadInside
  <2>2. PICK j \in i'..Len(Top) : a = Top[j]
    BY <2>1 DEF AheadAtTop
  <2>3. j \in 1..Len(Top) /\ j >= checkpoint.index
    BY <1>1, TopIs DEF TypeOK
  <2> QED  BY <2>2, <2>3 DEF RunInv, Saved
<1>5. Saved'
  BY <1>1 DEF RunInv, Saved
<1>6. Recorded' /\ Unmarked' /\ SoFar' /\ Earned'
  <2>1. \A p \in Step : \A c \in KidSet(p) : c \in Step
    BY UnderSteps
  <2> QED  BY <1>2, <1>3, <2>1 DEF Recorded, Unmarked, SoFar, Earned
<1> QED  BY <1>4, <1>5, <1>6 DEF RunInv

\* The checkpoint is saved with the results of what is not ahead.
LEMMA SaveKeepsRun ==
    ASSUME TreeInv, RunInv, SaveCheckpoint
    PROVE  RunInv'
<1>1. /\ TypeOK /\ run = "saving" /\ run' = "running"
      /\ checkpoint' \in {checkpoint, [index |-> i, done |-> {s \in Step : results[s] = "ok"}]}
      /\ UNCHANGED <<i, st, pos, phase, clean, results>>
  BY DEF TreeInv, SaveCheckpoint, treeVars
<1>2. Onward
  BY <1>1 DEF Onward, AheadAtTop
<1>3. Saved'
  <2>1. CASE checkpoint' = checkpoint
    BY <1>1, <2>1 DEF RunInv, Saved
  <2>2. CASE checkpoint' = [index |-> i, done |-> {s \in Step : results[s] = "ok"}]
    <3>1. i \in Nat /\ checkpoint'.index = i /\ i' = i
      BY <1>1, <2>2 DEF TypeOK
    <3>2. ASSUME NEW c \in Step, results[c] = "ok", Once(c),
                 NEW j \in 1..Len(Top), j >= i, Top[j] \in Above[c]
          PROVE  FALSE
      <4>1. j \in i..Len(Top)
        BY <3>1, <3>2
      <4>2. Ahead(Top[j])
        BY <1>1, <4>1 DEF Ahead, AheadAtTop
      <4> QED  BY <3>2, <4>2 DEF RunInv, NotBegun, Fresh
    <3> QED  BY <2>2, <3>1, <3>2 DEF Saved
  <2> QED  BY <1>1, <2>1, <2>2
<1> QED  BY <1>2, <1>3, OnwardKeepsRun DEF RunInv

\* execute goes on, or returns.
LEMMA OnwardRun ==
    ASSUME TreeInv, RunInv, Forward, NextTopStep \/ TopStepEnds \/ Jump
    PROVE  RunInv'
<1>1. /\ TypeOK /\ run = "running" /\ i \in 1..Len(Top) /\ Len(Top) \in Nat
      /\ Top[i] \in Step /\ Top[i] \in TopSteps
  BY TopIs DEF TreeInv, TypeOK, NextTopStep, TopStepEnds, Jump
<1>2. ASSUME checkpoint' = checkpoint PROVE Saved'
  BY <1>2 DEF RunInv, Saved
<1>3. CASE NextTopStep
  <2>1. /\ st[Top[i]] = "off" /\ st' = [st EXCEPT ![Top[i]] = "on"]
        /\ UNCHANGED <<run, i, checkpoint, pos, phase, clean, results>>
    BY <1>3 DEF NextTopStep, flowVars
  <2>2. \A p \in Step : st'[p] = IF p = Top[i] THEN "on" ELSE st[p]
    BY <1>1, <2>1 DEF TypeOK
  <2>3. AheadAtTop(Top[i]) /\ ~AheadAtTop(Top[i])'
    <3>1. i \in i..Len(Top)
      BY <1>1
    <3>2. AheadAtTop(Top[i])
      BY <1>1, <2>1, <3>1 DEF AheadAtTop
    <3>3. \A j \in i..Len(Top) : Top[j] = Top[i] => j = i
      BY <1>1, TopIs
    <3>4. ~AheadAtTop(Top[i])'
      BY <1>1, <2>1, <2>2, <3>3 DEF AheadAtTop
    <3> QED  BY <3>2, <3>4
  <2>4. \A a \in Step : AheadAtTop(a)' => AheadAtTop(a)
    BY <1>1, <2>1, <2>2 DEF AheadAtTop
  <2>5. Onward
    <3> HIDE DEF AheadAtTop
    <3>1. \A p \in Step : st'[p] # st[p] =>
            /\ p \in TopSteps /\ ~Live(p) /\ st'[p] \in {"off", "on"}
            /\ st'[p] = "on" => AheadAtTop(p) /\ ~AheadAtTop(p)'
      BY <1>1, <2>1, <2>2, <2>3 DEF Live
    <3> QED  BY <2>1, <2>4, <3>1 DEF Onward
  <2>6. Saved'
    BY <1>1, <1>2, <2>1
  <2> QED  BY <2>5, <2>6, OnwardKeepsRun DEF RunInv
<1>4. ASSUME run' \in {"running", "saving"}, i' \in Nat, i' > i, ~Live(Top[i]),
             st' = [st EXCEPT ![Top[i]] = "off"],
             UNCHANGED <<checkpoint, pos, phase, clean, results>>
      PROVE  RunInv'
  <2>1. \A p \in Step : st'[p] = IF p = Top[i] THEN "off" ELSE st[p]
    BY <1>1, <1>4 DEF TypeOK
  <2>2. \A a \in Step : AheadAtTop(a)' => AheadAtTop(a)
    BY <1>1, <1>4 DEF AheadAtTop
  <2>3. Onward
    BY <1>1, <1>4, <2>1, <2>2 DEF Onward
  <2>4. Saved'
    BY <1>1, <1>2, <1>4
  <2> QED  BY <2>3, <2>4, OnwardKeepsRun DEF RunInv
<1>5. CASE TopStepEnds
  BY <1>1, <1>4, <1>5 DEF TopStepEnds, Live
<1>6. CASE Jump
  <2>1. /\ st[Top[i]] \in TopSteps /\ i' = CHOOSE j \in 1..Len(Top) : Top[j] = st[Top[i]]
        /\ run' = run /\ st' = [st EXCEPT ![Top[i]] = "off"]
        /\ UNCHANGED <<checkpoint, pos, phase, clean, results>>
    BY <1>6 DEF Jump
  <2>2. i' \in 1..Len(Top) /\ Top[i'] = st[Top[i]]
    BY <2>1 DEF TopSteps
  <2>3. st[Top[i]] \in Step /\ ~Live(Top[i])
    BY <2>1, TopIs, ShapeAssumption DEF TopSteps, Live
  <2>4. PICK g \in Step : Kind[g] = "goto" /\ Goto[g] = st[Top[i]] /\ TopOf[g] = TopOf[Top[i]]
    BY <1>1, <2>3 DEF TreeInv, From
  <2>5. TopOf[Top[i]] = Top[i]
    BY <1>1, ShapeAssumption
  <2>6. i < i'
    BY <1>1, <2>2, <2>4, <2>5 DEF Forward
  <2> QED  BY <1>1, <1>4, <2>1, <2>2, <2>3, <2>6
<1> QED  BY <1>3, <1>5, <1>6

\* execute has returned: nothing of the top level is ahead any more.
LEMMA ReturnRun ==
    ASSUME TreeInv, RunInv, FlowReturns \/ (run = "saving" /\ Return("cancelled", FALSE))
    PROVE  RunInv'
<1>1. TypeOK /\ OneTop /\ i \in Nat /\ Len(Top) \in Nat
  BY TopIs DEF TreeInv, TypeOK
<1>2. /\ run' = "over" /\ (checkpoint' = NoCheckpoint \/ checkpoint' = checkpoint)
      /\ st' = IF i <= Len(Top) THEN [st EXCEPT ![Top[i]] = "off"] ELSE st
      /\ UNCHANGED <<pos, phase, clean, results>>
  BY DEF FlowReturns, Return
<1>3. i <= Len(Top) => Top[i] \in Step /\ Top[i] \in TopSteps /\ ~Live(Top[i])
  <2>1. i <= Len(Top) => i \in 1..Len(Top)
    BY <1>1 DEF TypeOK
  <2>2. i <= Len(Top) => ~(i > Len(Top))
    BY <1>1
  <2>3. CASE FlowReturns
    <3>1. i <= Len(Top) => st[Top[i]] \in {"off", "end", "raised", "cancelled"} \union Step
      BY <2>2, <2>3, Zenon DEF FlowReturns
    <3>2. {"queued", "on"} \intersect Step = {}
      BY ShapeAssumption
    <3> QED  BY <2>1, <3>1, <3>2, TopIs DEF Live
  <2>4. CASE run = "saving"
    BY <1>1, <2>1, <2>4, TopIs DEF OneTop
  <2> QED  BY <2>3, <2>4
<1>4. \A p \in Step : st'[p] # st[p] => p \in TopSteps /\ ~Live(p) /\ st'[p] = "off"
  BY <1>1, <1>2, <1>3 DEF TypeOK
<1>5. Onward
  BY <1>2, <1>4 DEF Onward, AheadAtTop
<1>6. Saved'
  BY <1>2 DEF RunInv, Saved, NoCheckpoint
<1> QED  BY <1>5, <1>6, OnwardKeepsRun DEF RunInv

\* No step changes, nor what is ahead of the run.
LEMMA RestKeepsRun ==
    ASSUME TreeInv, RunInv, UNCHANGED <<run, i, checkpoint, st, pos, phase, clean, results>>
    PROVE  RunInv'
<1>1. Onward
  BY DEF Onward, AheadAtTop
<1>2. Saved'
  BY DEF RunInv, Saved
<1> QED  BY <1>1, <1>2, OnwardKeepsRun DEF RunInv

\* The action on a step keeps it.
LEMMA ActionKeepsRun ==
    ASSUME TreeInv, RunInv, NEW s \in Step, Control(s) \/ LeafReturns(s)
    PROVE  RunInv'
<1>1. PICK c \in Step : Modest(c) /\ Alone(c)
  BY ActionModest
<1>2. TypeOK'
  BY StepKeepsTree DEF TreeInv
<1> QED  BY <1>1, <1>2, ModestKeepsAhead, ModestKeepsResults, ModestKeepsSoFar,
            ModestKeepsEarned DEF RunInv

\* It holds before the first run.
LEMMA InitRun == Init => RunInv
<1> SUFFICES ASSUME Init PROVE RunInv
  OBVIOUS
<1>1. \A p \in Step : st[p] = "off" /\ results[p] = "none" /\ ~Live(p)
  BY DEF Init, Live
<1>2. NotBegun
  BY <1>1, AboveSteps DEF NotBegun, Fresh
<1>3. Saved
  BY DEF Init, Saved, NoCheckpoint
<1>4. Recorded /\ Unmarked /\ SoFar /\ Earned
  BY <1>1 DEF Recorded, Unmarked, SoFar, Earned
<1> QED  BY <1>2, <1>3, <1>4 DEF RunInv

\* Every step of the system keeps it.
LEMMA NextRun ==
    ASSUME TreeInv, RunInv, Forward, [Next]_vars
    PROVE  RunInv'
<1>1. CASE UNCHANGED vars
  BY <1>1, RestKeepsRun DEF vars
<1>2. CASE \E s \in Step : Control(s) \/ LeafReturns(s)
  BY <1>2, ActionKeepsRun
<1>3. CASE TopLevel
  BY <1>3, ExecuteKeepsRun, OnwardRun, SaveKeepsRun, ReturnRun DEF TopLevel
<1>4. CASE Again \/ Crash
  BY <1>4, ForgetKeepsRun DEF Again, Crash
<1>5. CASE Stop
  BY <1>5, RestKeepsRun DEF Stop, treeVars
<1>6. CASE CancelFlow
  <2>1. CASE run = "saving" /\ Return("cancelled", FALSE)
    BY <2>1, ReturnRun
  <2>2. CASE UNCHANGED <<run, i, checkpoint, st, pos, phase, clean, results>>
    BY <2>2, RestKeepsRun
  <2> QED  BY <1>6, <2>1, <2>2 DEF CancelFlow
<1> QED  BY <1>1, <1>2, <1>3, <1>4, <1>5, <1>6 DEF Next

\* In a flow that only jumps forward, what is ahead of the run was not begun in it
\* and has no result, in every state: RunInv is inductive relative to TreeInv.
THEOREM RunInvariant == Spec => [](Forward => RunInv)
<1>1. Init => (Forward => RunInv)
  BY InitRun
<1>2. TreeInv /\ (Forward => RunInv) /\ [Next]_vars => (Forward => RunInv)'
  <2> SUFFICES ASSUME TreeInv, Forward => RunInv, [Next]_vars, Forward'
               PROVE  RunInv'
    OBVIOUS
  <2>1. Forward
    BY DEF Forward
  <2> QED  BY <2>1, NextRun
<1> QED  BY <1>1, <1>2, FlowInvariant, PTL DEF Spec

\* No step of the top level is executed again whose result was restored, whether a
\* run resumed or started over beside an old checkpoint: for every tree of steps.
THEOREM CheckpointSound == Spec => []CheckpointAtCursor
<1>1. TreeInv /\ (Forward => RunInv) => CheckpointAtCursor
  <2> SUFFICES ASSUME TreeInv, RunInv, NEW j \in 1..Len(Top)
               PROVE  /\ j >= checkpoint.index => Top[j] \notin checkpoint.done
                      /\ run \in {"running", "saving"} /\ j > i => results[Top[j]] = "none"
    BY DEF CheckpointAtCursor
  <2>1. Top[j] \in Step /\ Top[j] \in Above[Top[j]] /\ Once(Top[j])
    BY TopIs, AboveTop
  <2>2. j >= checkpoint.index => Top[j] \notin checkpoint.done
    BY <2>1 DEF RunInv, Saved
  <2>3. ASSUME run \in {"running", "saving"}, j > i PROVE results[Top[j]] = "none"
    <3>1. j \in i..Len(Top)
      BY <2>3, TopIs DEF TreeInv, TypeOK
    <3>2. Ahead(Top[j])
      BY <2>3, <3>1 DEF Ahead, AheadAtTop
    <3> QED  BY <2>1, <3>2 DEF RunInv, NotBegun, Fresh
  <2> QED  BY <2>2, <2>3
<1> QED  BY <1>1, FlowInvariant, RunInvariant, PTL

\* A step that is recorded as a success, and is in no loop, has no child that is
\* recorded as a failure, through on_error, stop, cancellation, crash and resume.
THEOREM SuccessesEarned == Spec => []SuccessIsEarned
<1>1. (Forward => RunInv) => SuccessIsEarned
  BY TreeAssumption DEF SuccessIsEarned, RunInv, Earned
<1> QED  BY <1>1, RunInvariant, PTL
=============================================================================
