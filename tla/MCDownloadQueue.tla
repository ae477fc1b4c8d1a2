-------------------------- MODULE MCDownloadQueue --------------------------
(* One client or two, behind one address or at two.                        *)
EXTENDS DownloadQueue, TLC

CONSTANTS c1, c2, ip1, ip2

TwoClients == {c1, c2}
OneClient  == {c1}
OwnIps     == c1 :> ip1 @@ c2 :> ip2
SharedIp   == c1 :> ip1 @@ c2 :> ip1

(* Nothing goes wrong, and no answer is late. *)
Smooth(clients, requests) ==
    [clients |-> clients, requests |-> requests, lossy |-> FALSE, drops |-> FALSE,
     away |-> FALSE, late |-> 0]

Rough(s)   == [s EXCEPT !.drops = TRUE, !.away = TRUE]
Lossy(s)   == [s EXCEPT !.lossy = TRUE]
Delayed(s) == [s EXCEPT !.late = 1]

All    == {Delayed(Rough(Smooth(OneClient, 2))), Lossy(Rough(Smooth(OneClient, 2))),
           Delayed(Smooth(OneClient, 3)), Smooth(TwoClients, 2),
           Rough(Smooth(TwoClients, 1)), Lossy(Smooth(TwoClients, 1)),
           Delayed(Smooth(TwoClients, 1))}
Shared == {Smooth(TwoClients, 1)}
=============================================================================
