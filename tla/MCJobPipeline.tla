--------------------------- MODULE MCJobPipeline ---------------------------
(* One client or two, the smaller file first or last to be asked for.      *)
EXTENDS JobPipeline, TLC

CONSTANTS c1, c2, w1, w2, w3

TwoClients == {c1, c2}
OneClient  == {c1}
MCSizeOf   == [j \in Jobs |-> IF Owner(j) = c1 THEN 1 ELSE 2]

TwoWorkers   == {w1, w2}
ThreeWorkers == {w1, w2, w3}

(* The admin kicks nobody and leaves the limit alone, or it may do one.    *)
Setting(clients, workers, jobs, attempts, cut) ==
    [clients |-> clients, workers |-> workers, jobs |-> jobs, attempts |-> attempts,
     cut |-> cut, kick |-> FALSE, limits |-> {}]

WithKicks(s)       == [s EXCEPT !.kick = TRUE]
Limited(s, limits) == [s EXCEPT !.limits = limits]

(* Two clients, with everything that may go wrong or with little of it. *)
Rough  == Setting(TwoClients, TwoWorkers, 1, 2, TRUE)
Smooth == Setting(TwoClients, TwoWorkers, 1, 1, FALSE)

(* One client with two jobs, each UPLOAD_REQ sent up to twice. *)
TwoJobs == Setting(OneClient, TwoWorkers, 2, 2, FALSE)

(* The same with UPLOAD_REQs sent once; one job with as many as there are. *)
TwoPlainJobs == Setting(OneClient, TwoWorkers, 2, 1, FALSE)
ThreeTries   == Setting(OneClient, ThreeWorkers, 1, 3, FALSE)

Lone      == Setting(OneClient, TwoWorkers, 1, 1, FALSE)
ThreeJobs == Setting(OneClient, TwoWorkers, 3, 1, FALSE)

Safe     == {Rough, TwoJobs, Limited(WithKicks(TwoPlainJobs), {0, 1, 2})}
Fair     == {Smooth, ThreeTries, WithKicks(TwoPlainJobs), Limited(TwoPlainJobs, {1}),
             Limited(Lone, {0})}
Cross    == {Smooth}
NotFound == {Lone}
Late     == {ThreeJobs}

WorkerSymmetry == Permutations(Workers)
=============================================================================
