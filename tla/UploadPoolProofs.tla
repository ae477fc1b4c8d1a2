-------------------------- MODULE UploadPoolProofs --------------------------
(***************************************************************************)
(* What holds of the upload pool for any number of threads, any set of     *)
(* uploads of any sizes and whatever the admin types.                      *)
(***************************************************************************)
EXTENDS UploadPool, SequenceLemmas, FiniteSetTheorems

(***************************************************************************)
(* A signal moves at most one thread, from the wait to the lock.           *)
(***************************************************************************)
LEMMA SignalledProperties ==
    ASSUME NEW p \in [Threads -> Places], NEW q \in Signalled(p)
    PROVE  /\ q \in [Threads -> Places]
           /\ \/ q = p /\ \A t \in Threads : p[t] # "blocked"
              \/ \E t \in Threads : p[t] = "blocked" /\ q = [p EXCEPT ![t] = "lock"]
BY DEF Signalled, Places

(***************************************************************************)
(* The threads' places agree with the mutexes and the counter.             *)
(***************************************************************************)
PlacesAgree ==
    /\ \A t \in Threads : pc[t] \in {"test", "compare", "sleep", "take"} <=> mutex = t
    /\ \A t \in Threads : pc[t] = "signal" <=> active_mutex = t
    /\ \A t \in Threads : pc[t] = "upload" <=> job[t] # None
    /\ \A t \in Threads : pc[t] \in {"compare", "take"} => queue # <<>>

Inv == TypeOK /\ PlacesAgree /\ CounterExact

LEMMA InvInitially == Init => Inv
<1> SUFFICES ASSUME Init PROVE Inv
  OBVIOUS
<1>1. MAX_UPLOADS \in Nat
  BY ThreadsAssumption, FS_CardinalityType DEF MAX_UPLOADS
<1>2. TypeOK
  BY <1>1 DEF Init, TypeOK, Places
<1>3. PlacesAgree
  BY NoneAssumption DEF Init, PlacesAgree
<1>4. At({"upload"}) = {}
  BY DEF Init, At
<1>5. CounterExact
  BY <1>4, FS_EmptySet DEF Init, CounterExact
<1> QED
  BY <1>2, <1>3, <1>5 DEF Inv

(***************************************************************************)
(* A step that moves no thread into or out of process_upload leaves the    *)
(* counter exact.                                                          *)
(***************************************************************************)
LEMMA SameBusy ==
    ASSUME CounterExact, active_uploads' = active_uploads,
           \A t \in Threads : pc'[t] = "upload" <=> pc[t] = "upload"
    PROVE  CounterExact'
<1>1. At({"upload"})' = At({"upload"})
  BY DEF At
<1> QED
  BY <1>1 DEF CounterExact

(***************************************************************************)
(* What the invariant needs of a signal: it wakes nobody but waiters.      *)
(***************************************************************************)
LEMMA SignalMovesWaiters ==
    ASSUME NEW p \in [Threads -> Places], NEW q \in Signalled(p)
    PROVE  /\ q \in [Threads -> Places]
           /\ \A t \in Threads : q[t] = p[t] \/ (p[t] = "blocked" /\ q[t] = "lock")
BY SignalledProperties

LEMMA InvPreserved == Inv /\ [Next]_vars => Inv'
<1> SUFFICES ASSUME Inv, [Next]_vars PROVE Inv'
  OBVIOUS
<1>0. admin' = admin
  BY DEF Next, vars
<1> USE <1>0
<1> USE NoneAssumption DEF Inv
<1>1. ASSUME NEW u \in Uploads, Enqueue(u) PROVE Inv'
  <2>1. PICK k \in 0 .. Len(queue) : queue' = InsertAt(queue, k + 1, u)
    BY <1>1 DEF Enqueue
  <2>0. queue \in Seq(Uploads)
    BY DEF TypeOK
  <2>2. queue' \in Seq(Uploads) /\ Len(queue') = Len(queue) + 1
    BY <2>0, <2>1, InsertAtProperties
  <2>3. queue' # <<>>
    BY <2>2, LenProperties DEF TypeOK
  <2>4. /\ pc' \in [Threads -> Places]
        /\ \A t \in Threads : pc'[t] = pc[t] \/ (pc[t] = "blocked" /\ pc'[t] = "lock")
    BY <1>1, SignalMovesWaiters DEF Enqueue, TypeOK
  <2>5. TypeOK'
    BY <1>1, <2>2, <2>4 DEF Enqueue, TypeOK, MAX_UPLOADS
  <2>6. PlacesAgree'
    BY <1>1, <2>3, <2>4 DEF Enqueue, PlacesAgree, TypeOK
  <2>7. CounterExact'
    BY <1>1, <2>4, SameBusy DEF Enqueue
  <2> QED
    BY <2>5, <2>6, <2>7
<1>2. ASSUME NEW t \in Threads, Lock(t) PROVE Inv'
  <2>1. TypeOK' /\ PlacesAgree'
    BY <1>2 DEF Lock, TypeOK, PlacesAgree, Places, MAX_UPLOADS
  <2>2. CounterExact'
    BY <1>2, SameBusy DEF Lock, TypeOK
  <2> QED
    BY <2>1, <2>2
<1>3. ASSUME NEW t \in Threads, Test(t) PROVE Inv'
  <2>1. TypeOK' /\ PlacesAgree'
    BY <1>3 DEF Test, TypeOK, PlacesAgree, Places, MAX_UPLOADS
  <2>2. CounterExact'
    BY <1>3, SameBusy DEF Test, TypeOK
  <2> QED
    BY <2>1, <2>2
<1>4. ASSUME NEW t \in Threads, Compare(t) PROVE Inv'
  <2>1. TypeOK' /\ PlacesAgree'
    BY <1>4 DEF Compare, TypeOK, PlacesAgree, Places, MAX_UPLOADS
  <2>2. CounterExact'
    BY <1>4, SameBusy DEF Compare, TypeOK
  <2> QED
    BY <2>1, <2>2
<1>5. ASSUME NEW t \in Threads, Sleep(t) PROVE Inv'
  <2>1. TypeOK' /\ PlacesAgree'
    BY <1>5 DEF Sleep, TypeOK, PlacesAgree, Places, MAX_UPLOADS
  <2>2. CounterExact'
    BY <1>5, SameBusy DEF Sleep, TypeOK
  <2> QED
    BY <2>1, <2>2
<1>6. ASSUME NEW t \in Threads, SpuriousWake(t) PROVE Inv'
  <2>1. TypeOK' /\ PlacesAgree'
    BY <1>6 DEF SpuriousWake, TypeOK, PlacesAgree, Places, MAX_UPLOADS
  <2>2. CounterExact'
    BY <1>6, SameBusy DEF SpuriousWake, TypeOK
  <2> QED
    BY <2>1, <2>2
<1>7. ASSUME NEW t \in Threads, Take(t) PROVE Inv'
  <2>1. queue # <<>>
    BY <1>7 DEF Take, PlacesAgree
  <2>2. Head(queue) \in Uploads /\ Tail(queue) \in Seq(Uploads)
    BY <2>1, HeadTailProperties DEF TypeOK
  <2>3. TypeOK' /\ PlacesAgree'
    BY <1>7, <2>2 DEF Take, TypeOK, PlacesAgree, Places, MAX_UPLOADS
  <2>4. /\ At({"upload"})' = At({"upload"}) \cup {t}
        /\ t \notin At({"upload"})
    BY <1>7 DEF Take, At, TypeOK
  <2>5. IsFiniteSet(At({"upload"}))
    BY ThreadsAssumption, FS_Subset DEF At
  <2>6. CounterExact'
    BY <1>7, <2>4, <2>5, FS_AddElement DEF Take, CounterExact
  <2> QED
    BY <2>3, <2>6
<1>8. ASSUME NEW t \in Threads, Finish(t) PROVE Inv'
  <2>1. TypeOK' /\ PlacesAgree'
    BY <1>8 DEF Finish, TypeOK, PlacesAgree, Places, MAX_UPLOADS
  <2>2. /\ At({"upload"})' = At({"upload"}) \ {t}
        /\ t \in At({"upload"})
    BY <1>8 DEF Finish, At, TypeOK
  <2>3. IsFiniteSet(At({"upload"}))
    BY ThreadsAssumption, FS_Subset DEF At
  <2>4. CounterExact'
    BY <1>8, <2>2, <2>3, FS_RemoveElement DEF Finish, CounterExact
  <2> QED
    BY <2>1, <2>4
<1>9. ASSUME NEW t \in Threads, Signal(t) PROVE Inv'
  <2> DEFINE p == [pc EXCEPT ![t] = "lock"]
  <2>1. p \in [Threads -> Places] /\ pc' \in Signalled(p)
    BY <1>9 DEF Signal, TypeOK, Places
  <2>2. /\ pc' \in [Threads -> Places]
        /\ \A v \in Threads : pc'[v] = p[v] \/ (p[v] = "blocked" /\ pc'[v] = "lock")
    BY <2>1, SignalMovesWaiters
  <2>3. pc[t] = "signal" /\ active_mutex = t /\ mutex # t
    BY <1>9 DEF Signal, PlacesAgree
  <2>4. TypeOK'
    BY <1>9, <2>2 DEF Signal, TypeOK, MAX_UPLOADS
  <2>5. PlacesAgree'
    <3>1. pc'[t] = "lock"
      BY <2>2, <2>3 DEF TypeOK
    <3>2. \A v \in Threads : v # t => pc'[v] = pc[v] \/ (pc[v] = "blocked" /\ pc'[v] = "lock")
      BY <2>2 DEF TypeOK
    <3>3. /\ mutex' = mutex /\ active_mutex' = None /\ job' = job /\ queue' = queue
          /\ job[t] = None
      BY <1>9, <2>3 DEF Signal, PlacesAgree
    <3>4. \A v \in Threads : pc'[v] # "signal" /\ active_mutex' # v
      BY <2>3, <3>1, <3>2, <3>3 DEF PlacesAgree
    <3> QED
      <4>1. \A v \in Threads :
               pc'[v] \in {"test", "compare", "sleep", "take"} <=> mutex' = v
        BY <2>3, <3>1, <3>2, <3>3 DEF PlacesAgree
      <4>2. \A v \in Threads : pc'[v] = "upload" <=> job'[v] # None
        BY <2>3, <3>1, <3>2, <3>3 DEF PlacesAgree
      <4>3. \A v \in Threads : pc'[v] \in {"compare", "take"} => queue' # <<>>
        BY <2>3, <3>1, <3>2, <3>3 DEF PlacesAgree
      <4> QED
        BY <3>4, <4>1, <4>2, <4>3 DEF PlacesAgree
  <2>6. CounterExact'
    BY <1>9, <2>2, <2>3, SameBusy DEF Signal, TypeOK
  <2> QED
    BY <2>4, <2>5, <2>6
<1>10. ASSUME NEW n \in Limits, SetMaxUploads(n) PROVE Inv'
  <2>1. Cardinality(Threads) \in Nat /\ n \in Int
    BY ThreadsAssumption, LimitsAssumption, FS_CardinalityType
  <2>2. TypeOK'
    BY <1>10, <2>1 DEF SetMaxUploads, TypeOK, MAX_UPLOADS
  <2>3. PlacesAgree' /\ CounterExact'
    BY <1>10 DEF SetMaxUploads, PlacesAgree, CounterExact, At
  <2> QED
    BY <2>2, <2>3
<1>11. ASSUME UNCHANGED vars PROVE Inv'
  BY <1>11 DEF vars, TypeOK, PlacesAgree, CounterExact, At, MAX_UPLOADS
<1> QED
  BY <1>1, <1>2, <1>3, <1>4, <1>5, <1>6, <1>7, <1>8, <1>9, <1>10, <1>11
     DEF Next, ServerNext, PoolStep

(***************************************************************************)
(* The state is well typed, and the threads' places agree with the two     *)
(* mutexes and with what the threads hold: one thread at a time is between *)
(* the lock and the unlock of upload_queue.mutex, none takes from an empty *)
(* queue, and those in process_upload are those that have an upload        *)
(* (upload_handler.c:66-95).                                               *)
(***************************************************************************)
THEOREM PlacesAreRight == Spec => [](TypeOK /\ PlacesAgree)
<1>1. Inv => TypeOK /\ PlacesAgree
  BY DEF Inv
<1> QED
  BY <1>1, InvInitially, InvPreserved, PTL DEF Spec

(***************************************************************************)
(* The upload counter is exact at all times (upload_handler.c:81, 92).     *)
(***************************************************************************)
THEOREM CounterIsExact == Spec => []CounterExact
<1>1. Inv => CounterExact
  BY DEF Inv
<1> QED
  BY <1>1, InvInitially, InvPreserved, PTL DEF Spec

-----------------------------------------------------------------------------
(***************************************************************************)
(* The limit.  A thread past its test has seen room that only it can use   *)
(* up, because it holds the queue's mutex.                                 *)
(***************************************************************************)
RoomSeen ==
    /\ \A t \in Threads : pc[t] = "compare" => active_uploads <= seen
    /\ \A t \in Threads : pc[t] = "take" => active_uploads < max_uploads

LimitInv == UnderLimit /\ RoomSeen

LEMMA LimitInvInitially == Init => LimitInv
<1>1. MAX_UPLOADS \in Nat
  BY ThreadsAssumption, FS_CardinalityType DEF MAX_UPLOADS
<1> QED
  BY <1>1 DEF Init, LimitInv, UnderLimit, RoomSeen

LEMMA LimitInvPreserved ==
    Inv /\ admin = "careful" /\ LimitInv /\ [Next]_vars => LimitInv'
<1> SUFFICES ASSUME Inv, admin = "careful", LimitInv, [Next]_vars PROVE LimitInv'
  OBVIOUS
<1> USE NoneAssumption DEF LimitInv, UnderLimit, RoomSeen
<1>1. /\ active_uploads \in Int /\ seen \in Int /\ max_uploads \in Int
      /\ pc \in [Threads -> Places]
  <2>1. Cardinality(Threads) \in Nat
    BY ThreadsAssumption, FS_CardinalityType
  <2> QED
    BY <2>1 DEF Inv, TypeOK, MAX_UPLOADS
<1>2. \A t, v \in Threads :
         pc[t] \in {"test", "compare", "sleep", "take"} /\ v # t
           => pc[v] \notin {"test", "compare", "sleep", "take"}
  BY DEF Inv, PlacesAgree
<1>3. ASSUME NEW u \in Uploads, Enqueue(u) PROVE LimitInv'
  <2>1. \A t \in Threads : pc'[t] = pc[t] \/ (pc[t] = "blocked" /\ pc'[t] = "lock")
    BY <1>1, <1>3, SignalMovesWaiters DEF Enqueue
  <2> QED
    BY <1>3, <2>1 DEF Enqueue
<1>4. ASSUME NEW t \in Threads, PoolStep(t) \/ Finish(t) \/ SpuriousWake(t) PROVE LimitInv'
  <2>1. CASE Lock(t)
    BY <2>1, <1>1 DEF Lock
  <2>2. CASE Test(t)
    BY <2>2, <1>1, <1>2 DEF Test
  <2>3. CASE Compare(t)
    BY <2>3, <1>1, <1>2 DEF Compare
  <2>4. CASE Sleep(t)
    BY <2>4, <1>1 DEF Sleep
  <2>5. CASE Take(t)
    BY <2>5, <1>1, <1>2 DEF Take
  <2>6. CASE Signal(t)
    <3> DEFINE p == [pc EXCEPT ![t] = "lock"]
    <3>1. p \in [Threads -> Places] /\ pc' \in Signalled(p)
      BY <2>6, <1>1 DEF Signal, Places
    <3>2. \A v \in Threads : pc'[v] = p[v] \/ (p[v] = "blocked" /\ pc'[v] = "lock")
      BY <3>1, SignalMovesWaiters
    <3> QED
      BY <2>6, <1>1, <3>2 DEF Signal
  <2>7. CASE Finish(t)
    BY <2>7, <1>1 DEF Finish
  <2>8. CASE SpuriousWake(t)
    BY <2>8, <1>1 DEF SpuriousWake
  <2> QED
    BY <1>4, <2>1, <2>2, <2>3, <2>4, <2>5, <2>6, <2>7, <2>8 DEF PoolStep
<1>5. ASSUME NEW n \in Limits, SetMaxUploads(n),
             n >= max_uploads \/ (mutex = None /\ n >= active_uploads)
      PROVE  LimitInv'
  <2>1. n \in Int
    BY LimitsAssumption
  <2>2. mutex = None => \A t \in Threads : pc[t] \notin {"compare", "take"}
    BY DEF Inv, PlacesAgree
  <2> QED
    BY <1>1, <1>5, <2>1, <2>2 DEF SetMaxUploads
<1>6. ASSUME UNCHANGED vars PROVE LimitInv'
  BY <1>6 DEF vars
<1> QED
  BY <1>3, <1>4, <1>5, <1>6 DEF Next, ServerNext, Allowed

(***************************************************************************)
(* The limit the admin sets holds at all times, if it is never lowered     *)
(* below what runs or under a deciding thread (upload_handler.c:69).       *)
(***************************************************************************)
THEOREM LimitIsHonoured == Spec => []LimitHonoured
<1> DEFINE CarefulInv == Inv /\ (admin = "careful" => LimitInv)
<1>1. Init => CarefulInv
  BY InvInitially, LimitInvInitially
<1>2. CarefulInv /\ [Next]_vars => CarefulInv'
  <2>1. [Next]_vars => admin' = admin
    BY DEF Next, vars
  <2> QED
    BY <2>1, InvPreserved, LimitInvPreserved
<1>3. CarefulInv => LimitHonoured
  BY DEF LimitInv, LimitHonoured
<1> QED
  BY <1>1, <1>2, <1>3, PTL DEF Spec

-----------------------------------------------------------------------------
(* What the queue is after an insertion behind position k. *)
IsInsertion(q, k, u, r) ==
    /\ Len(r) = Len(q) + 1
    /\ \A i \in 1 .. Len(r) :
          r[i] = IF i <= k THEN q[i] ELSE IF i = k + 1 THEN u ELSE q[i - 1]

(* InsertAt is what the loop of handle_upload_request does to the array. *)
LEMMA InsertionIsInsertion ==
    ASSUME NEW q \in Seq(Uploads), NEW u \in Uploads, NEW k \in 0 .. Len(q)
    PROVE  IsInsertion(q, k, u, InsertAt(q, k + 1, u))
BY InsertAtProperties DEF IsInsertion

(***************************************************************************)
(* The queue stays sorted: insertion is behind the last upload that is not *)
(* larger, and the head is all that is ever removed.                       *)
(***************************************************************************)
LEMMA SortedPreserved == TypeOK /\ TypeOK' /\ PlacesAgree /\ ShortestFirst /\ [Next]_vars => ShortestFirst'
<1> SUFFICES ASSUME TypeOK, TypeOK', PlacesAgree, ShortestFirst, [Next]_vars
             PROVE  ShortestFirst'
  OBVIOUS
<1>1. Len(queue) \in Nat /\ \A i \in 1 .. Len(queue) : SizeOf[queue[i]] \in Nat
  BY SizesAssumption, LenProperties, ElementOfSeq DEF TypeOK
<1>2. ASSUME NEW u \in Uploads, Enqueue(u) PROVE ShortestFirst'
  <2>1. PICK k \in 0 .. Len(queue) :
           BehindPosition(u, k) /\ queue' = InsertAt(queue, k + 1, u)
    BY <1>2 DEF Enqueue
  <2>0. queue \in Seq(Uploads)
    BY DEF TypeOK
  <2>a. IsInsertion(queue, k, u, InsertAt(queue, k + 1, u))
    BY <2>0, InsertionIsInsertion
  <2>b. IsInsertion(queue, k, u, queue')
    BY <2>1, <2>a
  <2>2. /\ Len(queue') = Len(queue) + 1
        /\ \A i \in 1 .. Len(queue') :
              queue'[i] = IF i <= k THEN queue[i] ELSE IF i = k + 1 THEN u ELSE queue[i - 1]
    BY <2>b DEF IsInsertion
  <2>3. SizeOf[u] \in Nat
    BY SizesAssumption
  <2>4. \A i \in 1 .. Len(queue) : i <= k => SizeOf[queue[i]] <= SizeOf[u]
    <3> TAKE i \in 1 .. Len(queue)
    <3> HAVE i <= k
    <3>1. k \in 1 .. Len(queue) /\ SizeOf[queue[k]] <= SizeOf[u]
      BY <1>1, <2>1 DEF BehindPosition
    <3>2. i = k \/ SizeOf[queue[i]] <= SizeOf[queue[k]]
      BY <1>1, <3>1 DEF ShortestFirst
    <3> QED
      BY <1>1, <2>3, <3>1, <3>2
  <2>5. \A i \in 1 .. Len(queue) : i > k => SizeOf[queue[i]] > SizeOf[u]
    BY <1>1, <2>1 DEF BehindPosition
  <2>6. ASSUME NEW i \in 1 .. Len(queue'), NEW j \in 1 .. Len(queue'), i < j
        PROVE  SizeOf[queue'[i]] <= SizeOf[queue'[j]]
    <3>1. CASE j <= k
      <4>1. queue'[i] = queue[i] /\ queue'[j] = queue[j] /\ i \in 1 .. Len(queue) /\ j \in 1 .. Len(queue)
        BY <1>1, <2>2, <2>6, <3>1
      <4> QED
        BY <4>1, <2>6 DEF ShortestFirst
    <3>2. CASE j = k + 1
      <4>1. queue'[i] = queue[i] /\ queue'[j] = u /\ i \in 1 .. Len(queue) /\ i <= k
        BY <1>1, <2>2, <2>6, <3>2
      <4> QED
        BY <4>1, <2>4
    <3>3. CASE j > k + 1
      <4>1. queue'[j] = queue[j - 1] /\ j - 1 \in 1 .. Len(queue) /\ j - 1 > k
        BY <1>1, <2>2, <3>3
      <4>2. CASE i <= k
        <5>1. queue'[i] = queue[i] /\ i \in 1 .. Len(queue) /\ i < j - 1
          BY <1>1, <2>2, <3>3, <4>2
        <5> QED
          BY <4>1, <5>1 DEF ShortestFirst
      <4>3. CASE i = k + 1
        <5>1. queue'[i] = u
          BY <1>1, <2>2, <4>3
        <5> QED
          BY <1>1, <2>3, <2>5, <4>1, <5>1
      <4>4. CASE i > k + 1
        <5>1. queue'[i] = queue[i - 1] /\ i - 1 \in 1 .. Len(queue) /\ i - 1 < j - 1
          BY <1>1, <2>2, <2>6, <4>4
        <5> QED
          BY <4>1, <5>1 DEF ShortestFirst
      <4> QED
        BY <1>1, <2>2, <4>2, <4>3, <4>4
    <3> QED
      BY <1>1, <2>2, <3>1, <3>2, <3>3
  <2> QED
    BY <2>6 DEF ShortestFirst
<1>3. ASSUME NEW t \in Threads, Take(t) PROVE ShortestFirst'
  <2>1. queue # <<>> /\ queue' = Tail(queue)
    BY <1>3 DEF Take, PlacesAgree
  <2>2. /\ Len(queue') = Len(queue) - 1
        /\ \A i \in 1 .. Len(queue') : queue'[i] = queue[i + 1]
    BY <2>1, HeadTailProperties DEF TypeOK
  <2>3. ASSUME NEW i \in 1 .. Len(queue'), NEW j \in 1 .. Len(queue'), i < j
        PROVE  SizeOf[queue'[i]] <= SizeOf[queue'[j]]
    <3>1. i + 1 \in 1 .. Len(queue) /\ j + 1 \in 1 .. Len(queue) /\ i + 1 < j + 1
      BY <1>1, <2>2, <2>3
    <3> QED
      BY <2>2, <3>1 DEF ShortestFirst
  <2> QED
    BY <2>3 DEF ShortestFirst
<1>4. ASSUME UNCHANGED queue PROVE ShortestFirst'
  BY <1>4 DEF ShortestFirst
<1> QED
  BY <1>2, <1>3, <1>4
     DEF Next, ServerNext, PoolStep, vars, Lock, Test, Compare, Sleep, SpuriousWake,
         Finish, Signal, SetMaxUploads

(***************************************************************************)
(* The queue is sorted at all times, smallest file first                   *)
(* (upload_handler.c:218-226).                                             *)
(***************************************************************************)
THEOREM QueueIsSorted == Spec => []ShortestFirst
<1>1. Init => ShortestFirst
  BY EmptySeq DEF Init, ShortestFirst
<1>2. Inv /\ ShortestFirst /\ [Next]_vars => ShortestFirst'
  BY InvPreserved, SortedPreserved DEF Inv
<1> QED
  BY <1>1, <1>2, InvInitially, InvPreserved, PTL DEF Spec

-----------------------------------------------------------------------------
(***************************************************************************)
(* No lost wakeup.  A thread past its load of the counter may have missed  *)
(* decrements; each of them left a finished thread that comes back to the  *)
(* queue, and none of those is stopped while the mutex is held.            *)
(***************************************************************************)
Returning == At({"lock", "signal"})

MissedAreReturning ==
    \A t \in Threads : pc[t] = "compare" => seen - active_uploads <= Cardinality(Returning)

WakeInv == EnoughAlert /\ MissedAreReturning

LEMMA ThreadSets ==
    /\ \A S \in SUBSET Threads : IsFiniteSet(S) /\ Cardinality(S) \in Nat
    /\ \A S, T \in SUBSET Threads : S \subseteq T => Cardinality(S) <= Cardinality(T)
    /\ \A S \in SUBSET Threads : \A t \in Threads :
          /\ t \notin S => Cardinality(S \cup {t}) = Cardinality(S) + 1
          /\ t \in S => Cardinality(S \ {t}) = Cardinality(S) - 1
<1>1. \A S \in SUBSET Threads : IsFiniteSet(S) /\ Cardinality(S) \in Nat
  BY ThreadsAssumption, FS_Subset, FS_CardinalityType
<1>2. \A S, T \in SUBSET Threads : S \subseteq T => Cardinality(S) <= Cardinality(T)
  BY <1>1, FS_Subset
<1>3. \A S \in SUBSET Threads : \A t \in Threads :
          /\ t \notin S => Cardinality(S \cup {t}) = Cardinality(S) + 1
          /\ t \in S => Cardinality(S \ {t}) = Cardinality(S) - 1
  BY <1>1, FS_AddElement, FS_RemoveElement
<1> QED
  BY <1>1, <1>2, <1>3

LEMMA WakeInvInitially == Init => WakeInv
<1> SUFFICES ASSUME Init PROVE WakeInv
  OBVIOUS
<1>1. Cardinality(Alert) \in Nat /\ MAX_UPLOADS \in Nat
  BY ThreadSets DEF Alert, At, MAX_UPLOADS
<1>2. Startable = 0
  BY <1>1, EmptySeq DEF Init, Startable
<1> QED
  BY <1>1, <1>2 DEF WakeInv, EnoughAlert, MissedAreReturning, Init

LEMMA WakeInvPreserved ==
    Inv /\ Inv' /\ admin = "lowering" /\ WakeInv /\ [Next]_vars => WakeInv'
<1> SUFFICES ASSUME Inv, Inv', admin = "lowering", WakeInv, [Next]_vars PROVE WakeInv'
  OBVIOUS
<1> DEFINE alert == Cardinality(Alert)
           returning == Cardinality(Returning)
<1>1. /\ Alert \subseteq Threads /\ Alert' \subseteq Threads
      /\ Returning \subseteq Threads /\ Returning' \subseteq Threads
      /\ Returning \subseteq Alert /\ Returning' \subseteq Alert'
  BY DEF Alert, Returning, At
<1>2. /\ alert \in Nat /\ alert' \in Nat /\ returning \in Nat /\ returning' \in Nat
      /\ returning <= alert /\ returning' <= alert'
  BY <1>1, ThreadSets
<1>3. /\ active_uploads \in Int /\ active_uploads' \in Int
      /\ max_uploads \in Int /\ max_uploads' \in Int
      /\ max_uploads <= MAX_UPLOADS /\ MAX_UPLOADS \in Nat
      /\ seen \in Int /\ seen' \in Int
      /\ Len(queue) \in Nat /\ Len(queue') \in Nat
      /\ pc \in [Threads -> Places] /\ pc' \in [Threads -> Places]
  <2>1. MAX_UPLOADS \in Nat /\ MAX_UPLOADS' = MAX_UPLOADS
    BY ThreadSets DEF MAX_UPLOADS
  <2>2. Len(queue) \in Nat /\ Len(queue') \in Nat
    BY LenProperties DEF Inv, TypeOK
  <2> QED
    BY <2>1, <2>2 DEF Inv, TypeOK
<1>4. \A t, v \in Threads :
         pc[t] \in {"test", "compare", "sleep", "take"} /\ v # t
           => pc[v] \notin {"test", "compare", "sleep", "take"}
  BY NoneAssumption DEF Inv, PlacesAgree
<1>5. /\ EnoughAlert <=> (Len(queue) <= alert \/ max_uploads - active_uploads <= alert)
      /\ EnoughAlert' <=> (Len(queue') <= alert' \/ max_uploads' - active_uploads' <= alert')
  BY <1>2, <1>3 DEF EnoughAlert, Startable
<1> HIDE DEF alert, returning
<1>6. ASSUME NEW u \in Uploads, Enqueue(u) PROVE WakeInv'
  <2>1. /\ mutex = None /\ mutex' = None /\ seen' = seen
        /\ max_uploads' = max_uploads /\ active_uploads' = active_uploads
        /\ Len(queue') = Len(queue) + 1
    BY <1>6, InsertAtProperties DEF Enqueue, Inv, TypeOK
  <2>2. \A t \in Threads : pc[t] \in {"lock", "blocked", "upload", "signal"}
    BY <1>3, <2>1, NoneAssumption DEF Inv, PlacesAgree, Places
  <2>3. \A t \in Threads : pc'[t] # "compare"
    BY <1>6, <1>3, <2>2, SignalMovesWaiters DEF Enqueue
  <2>4. CASE pc' = pc /\ \A t \in Threads : pc[t] # "blocked"
    <3>1. Threads \ At({"upload"}) \subseteq Alert'
      BY <2>2, <2>4 DEF At, Alert
    <3>2. Cardinality(Threads \ At({"upload"})) = MAX_UPLOADS - active_uploads
      <4>1. Threads \cap At({"upload"}) = At({"upload"})
        BY DEF At
      <4>2. Cardinality(Threads \ At({"upload"}))
              = Cardinality(Threads) - Cardinality(Threads \cap At({"upload"}))
        BY ThreadsAssumption, FS_Difference
      <4> QED
        BY <4>1, <4>2 DEF MAX_UPLOADS, Inv, CounterExact
    <3>3. MAX_UPLOADS - active_uploads <= alert'
      BY <3>1, <3>2, <1>1, ThreadSets DEF alert
    <3> QED
      BY <1>2, <1>3, <1>5, <2>1, <2>3, <3>3 DEF WakeInv, MissedAreReturning
  <2>5. CASE \E t \in Threads : pc[t] = "blocked" /\ pc' = [pc EXCEPT ![t] = "lock"]
    <3>1. PICK t \in Threads : pc[t] = "blocked" /\ pc' = [pc EXCEPT ![t] = "lock"]
      BY <2>5
    <3>2. Alert' = Alert \cup {t} /\ t \notin Alert
      BY <1>3, <2>1, <3>1 DEF Alert, At
    <3>3. alert' = alert + 1
      BY <1>1, <3>2, ThreadSets DEF alert
    <3> QED
      BY <1>2, <1>3, <1>5, <2>1, <2>3, <3>3 DEF WakeInv, MissedAreReturning
  <2> QED
    BY <1>6, <1>3, <2>4, <2>5, SignalledProperties DEF Enqueue
<1>7. ASSUME NEW t \in Threads, Lock(t) \/ Sleep(t) PROVE WakeInv'
  <2>1. Alert' = Alert
    BY <1>3, <1>4, <1>7, NoneAssumption DEF Lock, Sleep, Alert, At, Inv, PlacesAgree
  <2>2. \A v \in Threads : pc'[v] # "compare"
    BY <1>3, <1>4, <1>7, NoneAssumption DEF Lock, Sleep, Inv, PlacesAgree
  <2> QED
    BY <1>5, <1>7, <2>1, <2>2 DEF Lock, Sleep, WakeInv, MissedAreReturning, alert
<1>8. ASSUME NEW t \in Threads, Test(t) PROVE WakeInv'
  <2>1. CASE queue = <<>>
    <3>1. Len(queue') = 0 /\ \A v \in Threads : pc'[v] # "compare"
      BY <1>3, <1>4, <1>8, <2>1, EmptySeq DEF Test
    <3>2. MissedAreReturning'
      BY <3>1 DEF MissedAreReturning
    <3>3. Len(queue') <= alert'
      BY <1>2, <3>1
    <3> QED
      BY <1>5, <3>2, <3>3 DEF WakeInv
  <2>2. CASE queue # <<>>
    <3>1. /\ seen' = active_uploads /\ active_uploads' = active_uploads
          /\ max_uploads' = max_uploads /\ queue' = queue
          /\ pc' = [pc EXCEPT ![t] = "compare"]
      BY <1>8, <2>2 DEF Test
    <3>2. MissedAreReturning'
      BY <1>2, <1>3, <3>1 DEF MissedAreReturning, returning
    <3>3. active_uploads < max_uploads => Alert' = Alert
      BY <1>3, <1>4, <1>8, <3>1 DEF Test, Alert, At
    <3> QED
      BY <1>2, <1>3, <1>5, <3>1, <3>2, <3>3 DEF WakeInv, alert
  <2> QED
    BY <2>1, <2>2
<1>9. ASSUME NEW t \in Threads, Compare(t) PROVE WakeInv'
  <2>1. Alert' = Alert /\ \A v \in Threads : pc'[v] # "compare"
    BY <1>3, <1>4, <1>9 DEF Compare, Alert, At
  <2> QED
    BY <1>5, <1>9, <2>1 DEF Compare, WakeInv, MissedAreReturning, alert
<1>10. ASSUME NEW t \in Threads, SpuriousWake(t) PROVE WakeInv'
  <2>1. Alert \subseteq Alert' /\ Returning \subseteq Returning'
    BY <1>3, <1>10 DEF SpuriousWake, Alert, Returning, At
  <2>2. alert <= alert' /\ returning <= returning'
    BY <1>1, <2>1, ThreadSets DEF alert, returning
  <2>3. \A v \in Threads : pc'[v] = "compare" => pc[v] = "compare"
    BY <1>3, <1>10 DEF SpuriousWake
  <2> QED
    BY <1>2, <1>3, <1>5, <1>10, <2>2, <2>3
       DEF SpuriousWake, WakeInv, MissedAreReturning, returning
<1>11. ASSUME NEW t \in Threads, Take(t) PROVE WakeInv'
  <2>1. Len(queue') = Len(queue) - 1
    BY <1>11, HeadTailProperties DEF Take, Inv, PlacesAgree, TypeOK
  <2>2. /\ Alert' = Alert \ {t} /\ t \in Alert
        /\ \A v \in Threads : pc'[v] # "compare"
    BY <1>3, <1>4, <1>11 DEF Take, Alert, At
  <2>3. alert' = alert - 1
    BY <1>1, <2>2, ThreadSets DEF alert
  <2> QED
    BY <1>2, <1>3, <1>5, <1>11, <2>1, <2>2, <2>3 DEF Take, WakeInv, MissedAreReturning
<1>12. ASSUME NEW t \in Threads, Finish(t) PROVE WakeInv'
  <2>1. /\ Alert' = Alert \cup {t} /\ t \notin Alert
        /\ Returning' = Returning \cup {t} /\ t \notin Returning
    BY <1>3, <1>12 DEF Finish, Alert, Returning, At
  <2>2. alert' = alert + 1 /\ returning' = returning + 1
    BY <1>1, <2>1, ThreadSets DEF alert, returning
  <2>3. \A v \in Threads : pc'[v] = "compare" => pc[v] = "compare"
    BY <1>3, <1>12 DEF Finish
  <2> QED
    BY <1>2, <1>3, <1>5, <1>12, <2>2, <2>3
       DEF Finish, WakeInv, MissedAreReturning, returning
<1>13. ASSUME NEW t \in Threads, Signal(t) PROVE WakeInv'
  <2> DEFINE p == [pc EXCEPT ![t] = "lock"]
  <2>1. p \in [Threads -> Places] /\ pc' \in Signalled(p)
    BY <1>3, <1>13 DEF Signal, Places
  <2>2. \A v \in Threads : pc'[v] = p[v] \/ (p[v] = "blocked" /\ pc'[v] = "lock")
    BY <2>1, SignalMovesWaiters
  <2>3. \A v \in Threads : \/ pc'[v] = pc[v]
                           \/ pc[v] \in {"signal", "blocked"} /\ pc'[v] = "lock"
    BY <1>3, <1>13, <2>2 DEF Signal
  <2>4. Alert \subseteq Alert' /\ Returning \subseteq Returning'
    BY <1>13, <2>3 DEF Signal, Alert, Returning, At
  <2>5. alert <= alert' /\ returning <= returning'
    BY <1>1, <2>4, ThreadSets DEF alert, returning
  <2> QED
    BY <1>2, <1>3, <1>5, <1>13, <2>3, <2>5
       DEF Signal, WakeInv, MissedAreReturning, returning
<1>14. ASSUME NEW n \in Limits, n <= max_uploads, SetMaxUploads(n) PROVE WakeInv'
  <2>1. /\ max_uploads' <= max_uploads /\ active_uploads' = active_uploads
        /\ queue' = queue /\ pc' = pc /\ seen' = seen
    BY <1>3, <1>14, LimitsAssumption DEF SetMaxUploads
  <2>2. Returning' = Returning /\ returning' = returning
    BY <2>1 DEF Returning, At, returning
  <2>3. MissedAreReturning'
    BY <2>1, <2>2 DEF WakeInv, MissedAreReturning, returning
  <2>4. CASE Alert' = Alert
    BY <1>2, <1>3, <1>5, <2>1, <2>3, <2>4 DEF WakeInv, alert
  <2>5. CASE Alert' # Alert
    <3>1. PICK t \in Threads : pc[t] = "compare" /\ max_uploads' <= seen
      BY <1>3, <2>1, <2>5 DEF Alert, At
    <3>2. seen - active_uploads <= returning
      BY <3>1 DEF WakeInv, MissedAreReturning, returning
    <3>3. max_uploads' - active_uploads' <= alert'
      <4>1. max_uploads' \in Int /\ active_uploads \in Int /\ seen \in Int
        BY <1>3
      <4>2. max_uploads' <= seen /\ active_uploads' = active_uploads
        BY <2>1, <3>1
      <4>3. alert' \in Int /\ returning \in Int /\ returning <= alert'
        BY <1>2, <2>2
      <4>4. \A limit, loaded, active, back, all \in Int :
               limit <= loaded /\ loaded - active <= back /\ back <= all
                 => limit - active <= all
        OBVIOUS
      <4>5. max_uploads' - active_uploads <= alert'
        BY <4>1, <4>2, <4>3, <4>4, <3>2
      <4> QED
        BY <4>2, <4>5
    <3> QED
      BY <1>5, <2>3, <3>3 DEF WakeInv
  <2> QED
    BY <2>4, <2>5
<1>15. ASSUME UNCHANGED vars PROVE WakeInv'
  BY <1>15 DEF vars, WakeInv, EnoughAlert, MissedAreReturning, Startable, Alert,
               Returning, At
<1> QED
  BY <1>6, <1>7, <1>8, <1>9, <1>10, <1>11, <1>12, <1>13, <1>14, <1>15
     DEF Next, ServerNext, PoolStep, Allowed

(***************************************************************************)
(* While the limit is not raised, enough threads are on their way to the   *)
(* queue for every upload that may start (upload_handler.c:69-72, 90-95).  *)
(***************************************************************************)
THEOREM NoUploadIsStranded == Spec => []NoStrandedUpload
<1> DEFINE LoweringInv == Inv /\ (admin = "lowering" => WakeInv)
<1>1. Init => LoweringInv
  BY InvInitially, WakeInvInitially
<1>2. LoweringInv /\ [Next]_vars => LoweringInv'
  <2>1. [Next]_vars => admin' = admin
    BY DEF Next, vars
  <2> QED
    BY <2>1, InvPreserved, WakeInvPreserved
<1>3. LoweringInv => NoStrandedUpload
  BY DEF WakeInv, NoStrandedUpload
<1> QED
  BY <1>1, <1>2, <1>3, PTL DEF Spec
=============================================================================
