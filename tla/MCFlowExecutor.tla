--------------------------- MODULE MCFlowExecutor ---------------------------
(* One flow with a step of every kind: a branch that jumps over the next    *)
(* step, ends the flow, pipes, or races a parallel step; a try around a     *)
(* fail-fast step with a race that hangs in it; and an action.              *)
EXTENDS FlowExecutor, TLC

Table ==
    "br" :> <<"branch", <<"go", "halt", "pipe", "r">>>> @@
        "go" :> <<"goto", <<>>>> @@ "halt" :> <<"end", <<>>>> @@
        "pipe" :> <<"pipe", <<"d", "lost">>>> @@
            "d" :> <<"action", <<>>>> @@ "lost" :> <<"goto", <<>>>> @@
        "r" :> <<"race", <<"par", "e">>>> @@
            "par" :> <<"gather", <<"loop", "f">>>> @@
                "loop" :> <<"loop", <<"g">>>> @@ "g" :> <<"agent", <<>>>> @@
                "f" :> <<"agent", <<>>>> @@
            "e" :> <<"agent", <<>>>> @@
    "t" :> <<"try", <<"ff">>>> @@
        "ff" :> <<"failfast", <<"seq", "race">>>> @@
            "seq" :> <<"sequence", <<"a", "b">>>> @@
                "a" :> <<"action", <<>>>> @@ "b" :> <<"agent", <<>>>> @@
            "race" :> <<"race", <<"h", "c">>>> @@
                "h" :> <<"hang", <<>>>> @@ "c" :> <<"agent", <<>>>> @@
        "catch" :> <<"agent", <<>>>> @@ "fin" :> <<"agent", <<>>>> @@
    "last" :> <<"agent", <<>>>>

MCStep == DOMAIN Table
MCTop == <<"br", "t", "last">>
MCKind == [s \in MCStep |-> Table[s][1]]
MCKids == [s \in MCStep |-> Table[s][2]]
MCNamed == {"t", "ff", "seq", "a"}
MCCatch == [s \in MCStep |-> IF s = "t" THEN "catch" ELSE None]
MCThen == [s \in MCStep |-> "fail"]
MCFinally == [s \in MCStep |-> IF s = "t" THEN <<"fin">> ELSE <<>>]
MCOnError == [s \in MCStep |-> IF s = "br" THEN "continue" ELSE "fail"]
MCGoto == [s \in MCStep |-> IF s = "go" THEN "last" ELSE IF s = "lost" THEN "d" ELSE None]
=============================================================================
