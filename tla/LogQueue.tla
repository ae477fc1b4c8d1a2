------------------------------ MODULE LogQueue ------------------------------
(***************************************************************************)
(* The ring buffer between the threads that log and the admin thread that  *)
(* streams the log to the admin console (src/server/log_queue.c).          *)
(*                                                                         *)
(* log_queue_push runs under the queue's mutex from beginning to end.      *)
(* log_queue_pop_timed gives the mutex up only inside the wait, so a call  *)
(* is split there.  There is one consumer, the admin thread.               *)
(***************************************************************************)
EXTENDS Naturals, Sequences

CONSTANTS
    LOG_QUEUE_SIZE,  \* the slots of the ring
    Entries,         \* what may be logged
    None             \* no entry

ASSUME SizeAssumption == LOG_QUEUE_SIZE \in Nat \ {0}
ASSUME NoneAssumption == None \notin Entries

VARIABLES
    entries,   \* the slots
    head,      \* next read index
    tail,      \* next write index
    count,     \* slots in use
    consumer,  \* "out", "waiting" in the condition wait, or "woken" from it
    forever,   \* whether that call's timeout_ms is negative
    popped     \* what the last call returned: an entry, or None for a timeout

vars == <<entries, head, tail, count, consumer, forever, popped>>

Slots == 0 .. LOG_QUEUE_SIZE - 1
After(index) == (index + 1) % LOG_QUEUE_SIZE

Init ==
    /\ entries = [s \in Slots |-> None]
    /\ head = 0
    /\ tail = 0
    /\ count = 0
    /\ consumer = "out"
    /\ forever = FALSE
    /\ popped = None

Woken(state) == IF state = "waiting" THEN "woken" ELSE state

(***************************************************************************)
(* Definitions named ...Bug are the mistakes the properties below must     *)
(* catch; no action uses them.                                             *)
(***************************************************************************)
FullNotNoticedBug(e) ==
    /\ head' = head
    /\ count' = count + 1
    /\ entries' = [entries EXCEPT ![tail] = e]
    /\ tail' = After(tail)
    /\ consumer' = Woken(consumer)
    /\ UNCHANGED <<forever, popped>>

HeadStaysBug(e) ==
    /\ head' = head
    /\ count' = IF count = LOG_QUEUE_SIZE THEN count ELSE count + 1
    /\ entries' = [entries EXCEPT ![tail] = e]
    /\ tail' = After(tail)
    /\ consumer' = Woken(consumer)
    /\ UNCHANGED <<forever, popped>>

NotSignalledBug(e) ==
    /\ head' = IF count = LOG_QUEUE_SIZE THEN After(head) ELSE head
    /\ count' = IF count = LOG_QUEUE_SIZE THEN count ELSE count + 1
    /\ entries' = [entries EXCEPT ![tail] = e]
    /\ tail' = After(tail)
    /\ UNCHANGED <<consumer, forever, popped>>

(* log_queue_push: a full queue loses its oldest entry. *)
Push(e) ==
    /\ IF count = LOG_QUEUE_SIZE
       THEN head' = After(head) /\ count' = count
       ELSE head' = head /\ count' = count + 1
    /\ entries' = [entries EXCEPT ![tail] = e]
    /\ tail' = After(tail)
    /\ consumer' = Woken(consumer)
    /\ UNCHANGED <<forever, popped>>

(* log_queue_pop_timed, called or woken, and the queue is not empty. *)
PopEntry ==
    /\ consumer \in {"out", "woken"}
    /\ count > 0
    /\ popped' = entries[head]
    /\ head' = After(head)
    /\ count' = count - 1
    /\ consumer' = "out"
    /\ UNCHANGED <<entries, tail, forever>>

(* The queue is empty: wait, with or without a limit, or wait again. *)
Wait ==
    /\ count = 0
    /\ \/ consumer = "out" /\ forever' \in BOOLEAN
       \/ consumer = "woken" /\ UNCHANGED forever
    /\ consumer' = "waiting"
    /\ UNCHANGED <<entries, head, tail, count, popped>>

(***************************************************************************)
(* The wait ends with ETIMEDOUT, and the call returns 0 without another    *)
(* look at the queue, even if an entry has come in the meantime.           *)
(***************************************************************************)
TimeOut ==
    /\ ~forever
    /\ consumer \in {"waiting", "woken"}
    /\ consumer' = "out"
    /\ popped' = None
    /\ UNCHANGED <<entries, head, tail, count, forever>>

SpuriousWake ==
    /\ consumer = "waiting"
    /\ consumer' = "woken"
    /\ UNCHANGED <<entries, head, tail, count, forever, popped>>

Next ==
    \/ \E e \in Entries : Push(e)
    \/ PopEntry \/ Wait \/ TimeOut \/ SpuriousWake

Spec == Init /\ [][Next]_vars

-----------------------------------------------------------------------------
TypeOK ==
    /\ entries \in [Slots -> Entries \cup {None}]
    /\ head \in Slots
    /\ tail \in Slots
    /\ count \in 0 .. LOG_QUEUE_SIZE
    /\ consumer \in {"out", "waiting", "woken"}
    /\ forever \in BOOLEAN
    /\ popped \in Entries \cup {None}

(***************************************************************************)
(* The consumer does not sleep over an entry: between its look at the      *)
(* count and its wait no push can pass unheard.                            *)
(***************************************************************************)
NoSleepOverEntries == consumer = "waiting" => count = 0

(***************************************************************************)
(* The ring is a bounded list that drops its oldest entry: nothing is      *)
(* reordered, doubled, or dropped while there is room.                     *)
(***************************************************************************)
Contents == [k \in 1 .. count |-> entries[(head + k - 1) % LOG_QUEUE_SIZE]]

Abstract == INSTANCE BoundedLog WITH Capacity <- LOG_QUEUE_SIZE, log <- Contents

ImplementsBoundedLog == Abstract!Spec
=============================================================================
