------------------------------- MODULE MCGateway -------------------------------
(* Gateway on small instances.                                                  *)
EXTENDS Gateway, TLC

CONSTANTS t1, t2, w1, w2        \* tokens and workers

OneToken == t1 :> w1
Same == t1 :> w1 @@ t2 :> w1

GithubOnly == <<[type |-> "github", provider |-> "generic"]>>

ThreeServices == {<<"llm", "google">>, <<"github", "generic">>, <<"matrix", "generic">>}
NotMatrix == {<<w1, "llm">>, <<w1, "github">>}

(* Two instances in one: in the first no append breaks off; in the second one   *)
(* may, at any line, and no token is revoked or loaded and nothing is imported. *)
VARIABLE part

(* Bound: one append breaks off.                                                *)
Mended == UNCHANGED <<file, cut>> \/ buffer' = << >>

MCInit == Init /\ part \in {"tokens", "log"}

MCNext ==
    /\ Next
    /\ \/ part = "tokens" /\ ~ broke'
       \/ part = "log" /\ UNCHANGED <<mirror, client>> /\ (broke => Mended)
    /\ UNCHANGED part

MCSpec == MCInit /\ [][MCNext]_<<vars, part>> /\ Timers /\ ShutdownTimer
=============================================================================
