---------------------------- MODULE MCAppBridge ----------------------------
(* One or two clients, which are alike, up to three goals and patrols, on   *)
(* which TLC checks AppBridge.                                              *)
EXTENDS AppBridge, TLC

CONSTANTS a, b

OneClient == {a}
TwoClients == {a, b}
ClientSymmetry == Permutations(TwoClients)
One == {1}
Two == 1..2
Three == 1..3
Nobody == {}
=============================================================================
