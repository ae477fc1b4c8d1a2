------------------------ MODULE UploadServiceProofs ------------------------
(***************************************************************************)
(* What the clients of the upload pool see, for any number of threads and  *)
(* any uploads: none is lost or started twice, none is overtaken by one    *)
(* that is not smaller, and the pool implements module UploadService.      *)
(***************************************************************************)
EXTENDS UploadPoolProofs

(***************************************************************************)
(* What is in a sequence, and in its tail when nothing is in it twice.     *)
(***************************************************************************)
LEMMA ToSetProperties ==
    ASSUME NEW S, NEW q \in Seq(S)
    PROVE  /\ ToSet(q) \subseteq S
           /\ \A x : x \in ToSet(q) <=> \E i \in 1 .. Len(q) : q[i] = x
<1>1. ToSet(q) = {q[i] : i \in 1 .. Len(q)}
  BY LenProperties DEF ToSet
<1>2. \A i \in 1 .. Len(q) : q[i] \in S
  BY ElementOfSeq
<1> QED
  BY <1>1, <1>2

Distinct(q) == \A i, k \in 1 .. Len(q) : i # k => q[i] # q[k]

LEMMA TailProperties ==
    ASSUME NEW S, NEW q \in Seq(S), q # <<>>, Distinct(q)
    PROVE  /\ Head(q) \in ToSet(q)
           /\ ToSet(Tail(q)) = ToSet(q) \ {Head(q)}
           /\ Distinct(Tail(q))
<1>1. /\ Tail(q) \in Seq(S) /\ Len(Tail(q)) = Len(q) - 1
      /\ \A i \in 1 .. Len(Tail(q)) : Tail(q)[i] = q[i + 1]
  BY HeadTailProperties
<1>2. Len(q) \in Nat \ {0} /\ Head(q) = q[1]
  BY EmptySeq
<1>3. Head(q) \in ToSet(q)
  BY <1>2, ToSetProperties
<1>4. ASSUME NEW x PROVE x \in ToSet(Tail(q)) <=> x \in ToSet(q) \ {Head(q)}
  <2>1. ASSUME NEW i \in 1 .. Len(Tail(q)), Tail(q)[i] = x
        PROVE  x \in ToSet(q) /\ x # Head(q)
    <3>1. i + 1 \in 1 .. Len(q) /\ i + 1 # 1 /\ 1 \in 1 .. Len(q) /\ q[i + 1] = x
      BY <1>1, <1>2, <2>1
    <3> QED
      BY <1>2, <3>1, ToSetProperties DEF Distinct
  <2>2. ASSUME NEW i \in 1 .. Len(q), q[i] = x, x # Head(q)
        PROVE  x \in ToSet(Tail(q))
    <3>1. i - 1 \in 1 .. Len(Tail(q)) /\ (i - 1) + 1 = i
      BY <1>1, <1>2, <2>2
    <3>2. Tail(q)[i - 1] = x
      BY <1>1, <2>2, <3>1
    <3> QED
      BY <1>1, <3>1, <3>2, ToSetProperties
  <2>3. /\ x \in ToSet(q) <=> \E i \in 1 .. Len(q) : q[i] = x
        /\ x \in ToSet(Tail(q)) <=> \E i \in 1 .. Len(Tail(q)) : Tail(q)[i] = x
    BY <1>1, ToSetProperties
  <2> QED
    BY <2>1, <2>2, <2>3
<1>5. Distinct(Tail(q))
  <2> SUFFICES ASSUME NEW i \in 1 .. Len(Tail(q)), NEW k \in 1 .. Len(Tail(q)), i # k
               PROVE  Tail(q)[i] # Tail(q)[k]
    BY DEF Distinct
  <2>1. i + 1 \in 1 .. Len(q) /\ k + 1 \in 1 .. Len(q) /\ i + 1 # k + 1
    BY <1>1, <1>2
  <2> QED
    BY <1>1, <2>1 DEF Distinct
<1> QED
  BY <1>3, <1>4, <1>5

(***************************************************************************)
(* Inserting what is not there adds that and nothing else.                 *)
(***************************************************************************)
LEMMA InsertionProperties ==
    ASSUME NEW q \in Seq(Uploads), NEW u \in Uploads, NEW k \in 0 .. Len(q),
           u \notin ToSet(q), Distinct(q),
           NEW r, r = InsertAt(q, k + 1, u)
    PROVE  /\ ToSet(r) = ToSet(q) \cup {u}
           /\ Distinct(r)
<1>1. /\ r \in Seq(Uploads) /\ Len(r) = Len(q) + 1
      /\ \A i \in 1 .. Len(r) :
            r[i] = IF i <= k THEN q[i] ELSE IF i = k + 1 THEN u ELSE q[i - 1]
  <2>1. IsInsertion(q, k, u, r)
    BY InsertionIsInsertion
  <2>2. r \in Seq(Uploads)
    BY InsertAtProperties
  <2> QED
    BY <2>1, <2>2 DEF IsInsertion
<1>2. Len(q) \in Nat /\ k \in Nat /\ k <= Len(q)
  BY LenProperties
<1>3. \A i \in 1 .. Len(q) : q[i] # u
  BY ToSetProperties
<1> DEFINE back(i) == IF i <= k THEN i ELSE i - 1
<1>4. \A i \in 1 .. Len(r) : i # k + 1 => back(i) \in 1 .. Len(q) /\ r[i] = q[back(i)]
  BY <1>1, <1>2
<1>5. \A i, j \in 1 .. Len(r) : i # k + 1 /\ j # k + 1 /\ i # j => back(i) # back(j)
  BY <1>1, <1>2
<1>6. k + 1 \in 1 .. Len(r) /\ r[k + 1] = u
  BY <1>1, <1>2
<1>7. \A j \in 1 .. Len(q) : \E i \in 1 .. Len(r) : r[i] = q[j]
  <2> TAKE j \in 1 .. Len(q)
  <2>1. CASE j <= k
    BY <1>1, <1>2, <2>1
  <2>2. CASE j > k
    <3>1. j + 1 \in 1 .. Len(r) /\ r[j + 1] = q[j + 1 - 1] /\ j + 1 - 1 = j
      BY <1>1, <1>2, <2>2
    <3> QED
      BY <3>1
  <2> QED
    BY <1>2, <2>1, <2>2
<1> HIDE DEF back
<1>8. Distinct(r)
  BY <1>3, <1>4, <1>5, <1>6 DEF Distinct
<1>9. ASSUME NEW x PROVE x \in ToSet(r) <=> x \in ToSet(q) \cup {u}
  <2>1. /\ x \in ToSet(q) <=> \E i \in 1 .. Len(q) : q[i] = x
        /\ x \in ToSet(r) <=> \E i \in 1 .. Len(r) : r[i] = x
    BY <1>1, ToSetProperties
  <2> QED
    BY <2>1, <1>4, <1>6, <1>7
<1> QED
  BY <1>8, <1>9

-----------------------------------------------------------------------------
(***************************************************************************)
(* Only three actions touch the queue or the threads' jobs.                *)
(***************************************************************************)
LEMMA QueueSteps ==
    ASSUME Inv, [Next]_vars
    PROVE  \/ \E u \in Uploads : Enqueue(u)
           \/ \E t \in Threads : Take(t) \/ Finish(t)
           \/ UNCHANGED <<queue, job>>
BY DEF Next, ServerNext, PoolStep, vars, Lock, Test, Compare, Sleep, SpuriousWake,
       Signal, SetMaxUploads

(* A request that enters the queue was in nobody's hands. *)
LEMMA EnqueueProperties ==
    ASSUME Inv, OnePlace, NEW u \in Uploads, Enqueue(u)
    PROVE  /\ ToSet(queue') = ToSet(queue) \cup {u}
           /\ Distinct(queue')
           /\ u \notin ToSet(queue)
           /\ \A t \in Threads : job[t] # u
           /\ job' = job
<1>1. queue \in Seq(Uploads) /\ Distinct(queue)
  BY DEF Inv, TypeOK, OnePlace, Distinct
<1>2. PICK k \in 0 .. Len(queue) : queue' = InsertAt(queue, k + 1, u)
  BY DEF Enqueue
<1>3. u \notin ToSet(queue) /\ (\A t \in Threads : job[t] # u) /\ job' = job
  BY DEF Enqueue
<1> QED
  BY <1>1, <1>2, <1>3, InsertionProperties

LEMMA TakeProperties ==
    ASSUME Inv, OnePlace, NEW t \in Threads, Take(t)
    PROVE  /\ Head(queue) \in ToSet(queue)
           /\ Head(queue) \in Uploads
           /\ ToSet(queue') = ToSet(queue) \ {Head(queue)}
           /\ Distinct(queue')
           /\ job[t] = None
           /\ job' = [job EXCEPT ![t] = Head(queue)]
<1>1. queue \in Seq(Uploads) /\ Distinct(queue) /\ queue # <<>>
  BY DEF Inv, TypeOK, OnePlace, Distinct, PlacesAgree, Take
<1>2. job[t] = None /\ job' = [job EXCEPT ![t] = Head(queue)] /\ queue' = Tail(queue)
  BY DEF Inv, TypeOK, PlacesAgree, Take
<1> QED
  BY <1>1, <1>2, TailProperties, HeadTailProperties

LEMMA OnePlacePreserved == Inv /\ OnePlace /\ [Next]_vars => OnePlace'
<1> SUFFICES ASSUME Inv, OnePlace, [Next]_vars PROVE OnePlace'
  OBVIOUS
<1>1. /\ job \in [Threads -> Uploads \cup {None}]
      /\ ToSet(queue) \subseteq Uploads
      /\ None \notin Uploads
  BY ToSetProperties, NoneAssumption DEF Inv, TypeOK
<1>2. OnePlace' <=> /\ Distinct(queue')
                    /\ \A t, v \in Threads : job'[t] # None /\ t # v => job'[t] # job'[v]
                    /\ \A t \in Threads : job'[t] \notin ToSet(queue')
  BY DEF OnePlace, Distinct, ToSet
<1>3. ASSUME NEW u \in Uploads, Enqueue(u) PROVE OnePlace'
  <2>1. /\ Distinct(queue') /\ ToSet(queue') = ToSet(queue) \cup {u}
        /\ \A t \in Threads : job[t] # u
        /\ job' = job
    BY <1>3, EnqueueProperties
  <2> QED
    BY <1>2, <2>1 DEF OnePlace
<1>4. ASSUME NEW t \in Threads, Take(t) PROVE OnePlace'
  <2>1. /\ Distinct(queue') /\ ToSet(queue') = ToSet(queue) \ {Head(queue)}
        /\ Head(queue) \in ToSet(queue)
        /\ job' = [job EXCEPT ![t] = Head(queue)]
    BY <1>4, TakeProperties
  <2>2. \A v \in Threads : job[v] \notin ToSet(queue)
    BY DEF OnePlace
  <2>3. \A v, w \in Threads : job'[v] # None /\ v # w => job'[v] # job'[w]
    BY <1>1, <2>1, <2>2 DEF OnePlace
  <2>4. \A v \in Threads : job'[v] \notin ToSet(queue')
    BY <1>1, <2>1, <2>2
  <2> QED
    BY <1>2, <2>1, <2>3, <2>4
<1>5. ASSUME NEW t \in Threads, Finish(t) PROVE OnePlace'
  <2>1. job' = [job EXCEPT ![t] = None] /\ queue' = queue
    BY <1>5 DEF Finish
  <2>2. Distinct(queue')
    BY <2>1 DEF OnePlace, Distinct
  <2> QED
    BY <1>1, <1>2, <2>1, <2>2 DEF OnePlace
<1>6. ASSUME UNCHANGED <<queue, job>> PROVE OnePlace'
  BY <1>6 DEF OnePlace
<1> QED
  BY <1>3, <1>4, <1>5, <1>6, QueueSteps

LEMMA OnePlaceInitially == Init => OnePlace
<1> SUFFICES ASSUME Init PROVE OnePlace
  OBVIOUS
<1>1. queue = <<>> /\ Len(queue) = 0 /\ \A t \in Threads : job[t] = None
  BY EmptySeq DEF Init
<1>2. ToSet(queue) = {}
  BY <1>1 DEF ToSet
<1> QED
  BY <1>1, <1>2 DEF OnePlace

(***************************************************************************)
(* An upload is pending once, and one thread serves it                     *)
(* (upload_handler.c:75-81, 203-227).                                      *)
(***************************************************************************)
THEOREM UploadsAreInOnePlace == Spec => []OnePlace
BY InvInitially, InvPreserved, OnePlaceInitially, OnePlacePreserved, PTL DEF Spec

-----------------------------------------------------------------------------
(***************************************************************************)
(* A step puts u before an upload that is queued already only if it was    *)
(* there before or is strictly smaller.                                    *)
(***************************************************************************)
LEMMA OvertakingStep ==
    ASSUME Inv, [Next]_vars, NEW u \in Uploads, NEW v \in Uploads,
           Before(queue', u, v), v \in ToSet(queue)
    PROVE  Before(queue, u, v) \/ SizeOf[u] < SizeOf[v]
<1>1. queue \in Seq(Uploads) /\ Len(queue) \in Nat
  BY LenProperties DEF Inv, TypeOK
<1>2. PICK i \in 1 .. Len(queue'), j \in 1 .. Len(queue') :
         i < j /\ queue'[i] = u /\ queue'[j] = v
  BY DEF Before
<1>3. ASSUME NEW w \in Uploads, Enqueue(w)
      PROVE  Before(queue, u, v) \/ SizeOf[u] < SizeOf[v]
  <2>1. PICK k \in 0 .. Len(queue) :
           BehindPosition(w, k) /\ queue' = InsertAt(queue, k + 1, w)
    BY <1>3 DEF Enqueue
  <2>2. /\ Len(queue') = Len(queue) + 1
        /\ \A n \in 1 .. Len(queue') :
              queue'[n] = IF n <= k THEN queue[n] ELSE IF n = k + 1 THEN w ELSE queue[n - 1]
    <3>1. IsInsertion(queue, k, w, queue')
      BY <1>1, <2>1, InsertionIsInsertion
    <3> QED
      BY <3>1 DEF IsInsertion
  <2>3. j # k + 1
    <3>1. v # w
      BY <1>3 DEF Enqueue
    <3> QED
      BY <1>1, <1>2, <2>2, <3>1
  <2> DEFINE back(n) == IF n <= k THEN n ELSE n - 1
  <2>4. back(j) \in 1 .. Len(queue) /\ queue[back(j)] = v
    BY <1>1, <1>2, <2>2, <2>3
  <2>5. CASE i = k + 1
    <3>1. u = w /\ back(j) \in k + 1 .. Len(queue)
      BY <1>1, <1>2, <2>2, <2>4, <2>5
    <3>2. SizeOf[queue[back(j)]] > SizeOf[w]
      BY <2>1, <3>1 DEF BehindPosition
    <3>3. SizeOf[u] \in Nat /\ SizeOf[v] \in Nat
      BY SizesAssumption
    <3> HIDE DEF back
    <3> QED
      BY <2>4, <3>1, <3>2, <3>3
  <2>6. CASE i # k + 1
    <3>1. back(i) \in 1 .. Len(queue) /\ queue[back(i)] = u /\ back(i) < back(j)
      BY <1>1, <1>2, <2>2, <2>3, <2>6
    <3> HIDE DEF back
    <3> QED
      BY <2>4, <3>1 DEF Before
  <2> QED
    BY <2>5, <2>6
<1>4. ASSUME NEW t \in Threads, Take(t) PROVE Before(queue, u, v)
  <2>1. queue # <<>> /\ queue' = Tail(queue)
    BY <1>4 DEF Take, Inv, PlacesAgree
  <2>2. /\ Len(queue') = Len(queue) - 1
        /\ \A n \in 1 .. Len(queue') : queue'[n] = queue[n + 1]
    BY <1>1, <2>1, HeadTailProperties
  <2>3. /\ i + 1 \in 1 .. Len(queue) /\ j + 1 \in 1 .. Len(queue) /\ i + 1 < j + 1
        /\ queue[i + 1] = u /\ queue[j + 1] = v
    BY <1>1, <1>2, <2>2
  <2> QED
    BY <2>3 DEF Before
<1>5. ASSUME queue' = queue PROVE Before(queue, u, v)
  BY <1>5
<1> QED
  BY <1>3, <1>4, <1>5, QueueSteps DEF Finish

(***************************************************************************)
(* Once queued, an upload is overtaken only by strictly smaller ones:      *)
(* equals are served in the order of their requests                        *)
(* (upload_handler.c:218-226).                                             *)
(***************************************************************************)
THEOREM OnlySmallerOvertake == Spec => OvertakenOnlyBySmaller
<1>1. Inv /\ [Next]_vars
        => [\A u, v \in Uploads : Before(queue', u, v) /\ v \in ToSet(queue)
               => Before(queue, u, v) \/ SizeOf[u] < SizeOf[v]]_queue
  BY OvertakingStep
<1> QED
  BY <1>1, InvInitially, InvPreserved, PTL DEF Spec, OvertakenOnlyBySmaller

-----------------------------------------------------------------------------
(***************************************************************************)
(* A thread without an upload is room: the uploads under way are no more   *)
(* than the threads that have one.                                         *)
(***************************************************************************)
LEMMA RoomForOne ==
    ASSUME TypeOK, NEW t \in Threads, job[t] = None
    PROVE  Cardinality(InFlight) < MAX_UPLOADS
<1> DEFINE busy == {v \in Threads : job[v] # None}
           f == [v \in busy |-> job[v]]
<1>1. f \in Surjection(busy, InFlight)
  BY DEF Surjection, InFlight
<1>2. IsFiniteSet(busy)
  BY ThreadSets
<1>3. Cardinality(InFlight) <= Cardinality(busy) /\ IsFiniteSet(InFlight)
  BY <1>1, <1>2, FS_Surjection
<1>4. Cardinality(busy) <= Cardinality(Threads \ {t})
  BY ThreadSets
<1>5. Cardinality(Threads \ {t}) = MAX_UPLOADS - 1 /\ MAX_UPLOADS \in Nat
  BY ThreadSets DEF MAX_UPLOADS
<1>6. Cardinality(InFlight) \in Nat /\ Cardinality(busy) \in Nat
  BY <1>2, <1>3, FS_CardinalityType
<1> QED
  BY <1>3, <1>4, <1>5, <1>6

(***************************************************************************)
(* The queue, the threads and the counter implement module UploadService:  *)
(* what is asked for is started once, smallest first, and never more at a  *)
(* time than there are threads (upload_handler.c:63-98, 203-232).          *)
(***************************************************************************)
THEOREM PoolIsUploadService == Spec => ImplementsService
<1> DEFINE SInv == Inv /\ OnePlace /\ ShortestFirst
<1>1. Init => Service!Init
  <2> SUFFICES ASSUME Init PROVE ToSet(queue) = {} /\ InFlight = {}
    BY DEF Service!Init
  <2>1. ToSet(queue) = {}
    BY EmptySeq DEF Init, ToSet
  <2> QED
    BY <2>1 DEF Init, InFlight
<1>2. SInv /\ [Next]_vars => [Service!Next]_(Service!vars)
  <2> SUFFICES ASSUME Inv, OnePlace, ShortestFirst, [Next]_vars
               PROVE  Service!Next \/ UNCHANGED Service!vars
    OBVIOUS
  <2>1. /\ job \in [Threads -> Uploads \cup {None}] /\ None \notin Uploads
        /\ \A x : x \in InFlight <=> x # None /\ \E v \in Threads : job[v] = x
        /\ \A x : x \in InFlight' <=> x # None /\ \E v \in Threads : job'[v] = x
    BY NoneAssumption DEF Inv, TypeOK, InFlight
  <2>2. ASSUME NEW u \in Uploads, Enqueue(u) PROVE Service!Submit(u)
    <3>1. /\ ToSet(queue)' = ToSet(queue) \cup {u}
          /\ u \notin ToSet(queue)
          /\ \A v \in Threads : job[v] # u
          /\ job' = job
      BY <2>2, EnqueueProperties DEF ToSet
    <3> QED
      BY <2>1, <3>1 DEF Service!Submit, InFlight
  <2>3. ASSUME NEW t \in Threads, Take(t) PROVE Service!Start(Head(queue))
    <3>1. /\ Head(queue) \in ToSet(queue) /\ Head(queue) \in Uploads
          /\ ToSet(queue)' = ToSet(queue) \ {Head(queue)}
          /\ job[t] = None
          /\ job' = [job EXCEPT ![t] = Head(queue)]
      BY <2>3, TakeProperties DEF ToSet
    <3>2. \A w \in ToSet(queue) : SizeOf[Head(queue)] <= SizeOf[w]
      <4>1. queue \in Seq(Uploads) /\ queue # <<>>
        BY <2>3 DEF Inv, TypeOK, PlacesAgree, Take
      <4>2. Len(queue) \in Nat \ {0} /\ Head(queue) = queue[1]
        BY <4>1, EmptySeq
      <4> TAKE w \in ToSet(queue)
      <4>3. PICK i \in 1 .. Len(queue) : queue[i] = w
        BY <4>1, ToSetProperties
      <4>4. CASE i = 1
        BY <3>1, <4>2, <4>3, <4>4, SizesAssumption
      <4>5. CASE 1 < i
        BY <4>2, <4>3, <4>5 DEF ShortestFirst
      <4> QED
        BY <4>2, <4>3, <4>4, <4>5
    <3>3. Cardinality(InFlight) < MAX_UPLOADS
      BY <3>1, RoomForOne DEF Inv
    <3>4. InFlight' = InFlight \cup {Head(queue)}
      BY <2>1, <3>1
    <3> QED
      BY <3>1, <3>2, <3>3, <3>4 DEF Service!Start, Service!Cardinality, Cardinality
  <2>4. ASSUME NEW t \in Threads, Finish(t) PROVE Service!End(job[t]) /\ job[t] \in Uploads
    <3>1. job[t] # None /\ job' = [job EXCEPT ![t] = None] /\ queue' = queue
      BY <2>4 DEF Finish, Inv, PlacesAgree
    <3>2. \A v \in Threads : v # t => job[v] # job[t]
      BY <3>1 DEF OnePlace
    <3>3. InFlight' = InFlight \ {job[t]} /\ job[t] \in InFlight
      BY <2>1, <3>1, <3>2
    <3> QED
      BY <2>1, <3>1, <3>3 DEF Service!End, ToSet
  <2>5. ASSUME UNCHANGED <<queue, job>> PROVE UNCHANGED Service!vars
    BY <2>5 DEF Service!vars, ToSet, InFlight
  <2>6. \A t \in Threads : Take(t) => Head(queue) \in Uploads
    BY TakeProperties
  <2> QED
    BY <2>2, <2>3, <2>4, <2>5, <2>6, QueueSteps DEF Service!Next
<1>3. Init => ShortestFirst
  BY EmptySeq DEF Init, ShortestFirst
<1>4. SInv /\ [Next]_vars => SInv'
  BY InvPreserved, OnePlacePreserved, SortedPreserved DEF Inv
<1> QED
  BY <1>1, <1>2, <1>3, <1>4, InvInitially, OnePlaceInitially, PTL
     DEF Spec, ImplementsService, Service!Spec
=============================================================================
