----------------------------- MODULE BoundedLog -----------------------------
(***************************************************************************)
(* What the log queue promises: a first-in first-out list of at most       *)
(* Capacity entries that never refuses an entry, but drops the oldest one  *)
(* to make room.                                                           *)
(***************************************************************************)
EXTENDS Naturals, Sequences

CONSTANTS Capacity, Entries, None

VARIABLES
    log,     \* the entries kept, oldest first
    popped   \* what the last pop returned: an entry, or None after a timeout

Init == log = <<>> /\ popped = None

Push(e) ==
    /\ log' = Append(IF Len(log) = Capacity THEN Tail(log) ELSE log, e)
    /\ UNCHANGED popped

Pop ==
    /\ log # <<>>
    /\ popped' = Head(log)
    /\ log' = Tail(log)

Timeout ==
    /\ popped' = None
    /\ UNCHANGED log

Next == (\E e \in Entries : Push(e)) \/ Pop \/ Timeout

Spec == Init /\ [][Next]_<<log, popped>>
=============================================================================
