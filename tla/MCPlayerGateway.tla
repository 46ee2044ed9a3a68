-------------------------- MODULE MCPlayerGateway --------------------------
(* Instance of PlayerGateway for TLC.  What tokens do is explored with two, which expire
   one after the other, and one publication; what runtimes do with two publications and
   the token that lasts longer. *)
EXTENDS PlayerGateway, TLC

CONSTANTS t1, t2

VARIABLE part

gatewayVars == <<part, vars>>

GatewayInit == part \in {"tokens", "runtimes"} /\ Init

GatewayNext ==
    /\ UNCHANGED part
    /\ Next
    /\ \/ part = "tokens" /\ version' <= 1
       \/ /\ part = "runtimes" /\ revokedAt'[t1] = Never
          /\ \A r \in Requests : request'[r].token # t1

GatewaySpec == GatewayInit /\ [][GatewayNext]_gatewayVars

MCTokenExpiry == [t \in Tokens |-> IF t = t1 THEN 2 ELSE 3]
Symmetry == Permutations(Requests)
=============================================================================
