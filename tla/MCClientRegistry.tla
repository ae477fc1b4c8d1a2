-------------------------- MODULE MCClientRegistry --------------------------
(* A heartbeat each tick, three ticks to the timeout: 10 s and 30 s.       *)
EXTENDS ClientRegistry

CONSTANTS c1, c2

TwoClients == {c1, c2}
=============================================================================
