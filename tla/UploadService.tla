--------------------------- MODULE UploadService ---------------------------
(***************************************************************************)
(* What the upload pool promises to the rest of the server, without        *)
(* threads, mutexes or condition variables: a bag of waiting uploads, from *)
(* which a smallest one is started at a time, and at most Slots running.   *)
(***************************************************************************)
EXTENDS Naturals, FiniteSets

CONSTANTS
    Uploads,   \* the uploads that may be requested
    SizeOf,    \* the size of each
    Slots      \* how many may run together

VARIABLES waiting, running

vars == <<waiting, running>>

Init == waiting = {} /\ running = {}

Submit(u) ==
    /\ u \notin waiting \cup running
    /\ waiting' = waiting \cup {u}
    /\ UNCHANGED running

Start(u) ==
    /\ u \in waiting
    /\ \A w \in waiting : SizeOf[u] <= SizeOf[w]
    /\ Cardinality(running) < Slots
    /\ waiting' = waiting \ {u}
    /\ running' = running \cup {u}

End(u) ==
    /\ u \in running
    /\ running' = running \ {u}
    /\ UNCHANGED waiting

Next == \E u \in Uploads : Submit(u) \/ Start(u) \/ End(u)

Spec == Init /\ [][Next]_vars
=============================================================================
