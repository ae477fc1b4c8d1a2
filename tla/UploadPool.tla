----------------------------- MODULE UploadPool -----------------------------
(***************************************************************************)
(* The upload queue of the server and the pool of threads that serve it    *)
(* (src/server/upload_handler.c), together with the admin command that     *)
(* changes the limit on simultaneous uploads (src/server/admin_handler.c). *)
(*                                                                         *)
(* The UDP thread puts accepted UPLOAD_REQs in the queue, smallest first.  *)
(* Each pool thread takes the head of the queue once fewer than            *)
(* max_uploads transfers run.  Three mutexes are involved: the one of the  *)
(* queue, which the condition variable upload_available is waited on with, *)
(* the one of the counter active_uploads, and max_limits_mutex, which only *)
(* the admin takes.  The counter and the limit are read by the threads     *)
(* without their mutexes, so the test is modelled one load at a time.      *)
(*                                                                         *)
(* The transfer itself (process_upload) is one long step here: a thread    *)
(* stays at "upload" until it returns, which may be never.  Module         *)
(* JobPipeline opens it.                                                   *)
(***************************************************************************)
EXTENDS Integers, Sequences, FiniteSets, SequencesExt

CONSTANTS
    Threads,   \* the pool threads; the code creates MAX_UPLOADS of them
    Uploads,   \* the UPLOAD_REQs that may be pending at one time
    SizeOf,    \* file_size of each upload
    Limits,    \* the numbers the admin types after SET_MAX_UPLOADS
    None       \* no thread, or no upload

ASSUME ThreadsAssumption == IsFiniteSet(Threads) /\ Threads # {}
ASSUME SizesAssumption   == SizeOf \in [Uploads -> Nat]
ASSUME LimitsAssumption  == Limits \subseteq Int
ASSUME NoneAssumption    == None \notin Threads \cup Uploads

MAX_UPLOADS == Cardinality(Threads)

VARIABLES
    queue,           \* upload_queue.jobs[0 .. size-1]
    active_uploads,  \* the counter of running transfers
    max_uploads,     \* the limit
    mutex,           \* holder of upload_queue.mutex
    active_mutex,    \* holder of active_uploads_mutex, when it is not
                     \* released in the step that takes it
    pc,              \* where each thread of the pool is
    job,             \* the local variable job of each thread
    seen,            \* active_uploads as loaded by the thread at "compare"
    admin            \* how the admin uses SET_MAX_UPLOADS, see Allowed

vars == <<queue, active_uploads, max_uploads, mutex, active_mutex, pc, job, seen, admin>>

(***************************************************************************)
(* The places a thread can be at:                                          *)
(*   lock     about to lock upload_queue.mutex, at the top of the loop or  *)
(*            on its way out of pthread_cond_wait                          *)
(*   test     evaluating upload_queue.size == 0                            *)
(*   compare  evaluating active_uploads >= max_uploads, first half loaded  *)
(*   sleep    about to call pthread_cond_wait                              *)
(*   blocked  in pthread_cond_wait                                         *)
(*   take     past the while, about to take the head of the queue          *)
(*   upload   in process_upload                                            *)
(*   signal   active_uploads decremented, about to signal                  *)
(***************************************************************************)
Places == {"lock", "test", "compare", "sleep", "blocked", "take", "upload", "signal"}

At(places) == {t \in Threads : pc[t] \in places}

Init ==
    /\ queue = <<>>
    /\ active_uploads = 0
    /\ max_uploads = MAX_UPLOADS
    /\ mutex = None
    /\ active_mutex = None
    /\ pc = [t \in Threads |-> "lock"]
    /\ job = [t \in Threads |-> None]
    /\ seen = 0
    /\ admin \in {"free", "lowering", "careful"}

-----------------------------------------------------------------------------
(***************************************************************************)
(* Definitions named ...Bug are the mistakes the properties below must     *)
(* catch; no action uses them.                                             *)
(***************************************************************************)
NobodySignalledBug(p) == {p}

(***************************************************************************)
(* pthread_cond_signal(&upload_available) with the threads at p: one       *)
(* blocked thread, if there is one, goes to reacquire the queue's mutex.   *)
(***************************************************************************)
Signalled(p) ==
    LET blocked == {t \in Threads : p[t] = "blocked"}
    IN  IF blocked = {} THEN {p} ELSE {[p EXCEPT ![t] = "lock"] : t \in blocked}

LargestFirstBug(u, k) ==
    /\ k > 0 => SizeOf[queue[k]] >= SizeOf[u]
    /\ \A i \in k + 1 .. Len(queue) : SizeOf[queue[i]] < SizeOf[u]

EqualsOvertakeBug(u, k) ==
    /\ k > 0 => SizeOf[queue[k]] < SizeOf[u]
    /\ \A i \in k + 1 .. Len(queue) : SizeOf[queue[i]] >= SizeOf[u]

(***************************************************************************)
(* The insertion loop runs from the back of the queue over the uploads     *)
(* that are larger than u (priority is 1 / file_size) and stops at the     *)
(* first that is not: u goes right behind position k.                      *)
(***************************************************************************)
BehindPosition(u, k) ==
    /\ k > 0 => SizeOf[queue[k]] <= SizeOf[u]
    /\ \A i \in k + 1 .. Len(queue) : SizeOf[queue[i]] > SizeOf[u]

(***************************************************************************)
(* handle_upload_request: the UDP thread enqueues an upload under the      *)
(* queue's mutex and signals.  The doubling of the array is left out.  An  *)
(* upload stands for one request, so it is not pending twice.              *)
(***************************************************************************)
Enqueue(u) ==
    /\ mutex = None
    /\ u \notin ToSet(queue)
    /\ \A t \in Threads : job[t] # u
    /\ \E k \in 0 .. Len(queue) :
          /\ BehindPosition(u, k)
          /\ queue' = InsertAt(queue, k + 1, u)
    /\ pc' \in Signalled(pc)
    /\ UNCHANGED <<active_uploads, max_uploads, mutex, active_mutex, job, seen>>

(* upload_thread_func: lock the queue. *)
Lock(t) ==
    /\ pc[t] = "lock"
    /\ mutex = None
    /\ mutex' = t
    /\ pc' = [pc EXCEPT ![t] = "test"]
    /\ UNCHANGED <<queue, active_uploads, max_uploads, active_mutex, job, seen>>

(* The while condition, left operand, and the load of active_uploads. *)
Test(t) ==
    /\ pc[t] = "test"
    /\ \/ /\ queue = <<>>
          /\ pc' = [pc EXCEPT ![t] = "sleep"]
          /\ UNCHANGED seen
       \/ /\ queue # <<>>
          /\ pc' = [pc EXCEPT ![t] = "compare"]
          /\ seen' = active_uploads
    /\ UNCHANGED <<queue, active_uploads, max_uploads, mutex, active_mutex, job>>

OneTooManyBug(t) ==
    /\ pc[t] = "compare"
    /\ pc' = [pc EXCEPT ![t] = IF seen > max_uploads THEN "sleep" ELSE "take"]
    /\ seen' = 0
    /\ UNCHANGED <<queue, active_uploads, max_uploads, mutex, active_mutex, job>>

(* The while condition, right operand: the load of max_uploads. *)
Compare(t) ==
    /\ pc[t] = "compare"
    /\ \/ /\ seen >= max_uploads
          /\ pc' = [pc EXCEPT ![t] = "sleep"]
       \/ /\ seen < max_uploads
          /\ pc' = [pc EXCEPT ![t] = "take"]
    /\ seen' = 0
    /\ UNCHANGED <<queue, active_uploads, max_uploads, mutex, active_mutex, job>>

(* pthread_cond_wait: release the mutex and block, in one step. *)
Sleep(t) ==
    /\ pc[t] = "sleep"
    /\ mutex' = None
    /\ pc' = [pc EXCEPT ![t] = "blocked"]
    /\ UNCHANGED <<queue, active_uploads, max_uploads, active_mutex, job, seen>>

(* pthread_cond_wait may also return unasked. *)
SpuriousWake(t) ==
    /\ pc[t] = "blocked"
    /\ pc' = [pc EXCEPT ![t] = "lock"]
    /\ UNCHANGED <<queue, active_uploads, max_uploads, mutex, active_mutex, job, seen>>

HeadNotRemovedBug(t) ==
    /\ pc[t] = "take"
    /\ active_mutex = None
    /\ job' = [job EXCEPT ![t] = Head(queue)]
    /\ active_uploads' = active_uploads + 1
    /\ mutex' = None
    /\ pc' = [pc EXCEPT ![t] = "upload"]
    /\ UNCHANGED <<queue, max_uploads, active_mutex, seen>>

LastTakenBug(t) ==
    /\ pc[t] = "take"
    /\ active_mutex = None
    /\ job' = [job EXCEPT ![t] = Last(queue)]
    /\ queue' = Front(queue)
    /\ active_uploads' = active_uploads + 1
    /\ mutex' = None
    /\ pc' = [pc EXCEPT ![t] = "upload"]
    /\ UNCHANGED <<max_uploads, active_mutex, seen>>

(* Take the head of the queue, count it, unlock, call process_upload. *)
Take(t) ==
    /\ pc[t] = "take"
    /\ active_mutex = None
    /\ job' = [job EXCEPT ![t] = Head(queue)]
    /\ queue' = Tail(queue)
    /\ active_uploads' = active_uploads + 1
    /\ mutex' = None
    /\ pc' = [pc EXCEPT ![t] = "upload"]
    /\ UNCHANGED <<max_uploads, active_mutex, seen>>

NotDecrementedBug(t) ==
    /\ pc[t] = "upload"
    /\ active_mutex = None
    /\ active_mutex' = t
    /\ job' = [job EXCEPT ![t] = None]
    /\ pc' = [pc EXCEPT ![t] = "signal"]
    /\ UNCHANGED <<queue, active_uploads, max_uploads, mutex, seen>>

(* process_upload returned: decrement under active_uploads_mutex. *)
Finish(t) ==
    /\ pc[t] = "upload"
    /\ active_mutex = None
    /\ active_mutex' = t
    /\ active_uploads' = active_uploads - 1
    /\ job' = [job EXCEPT ![t] = None]
    /\ pc' = [pc EXCEPT ![t] = "signal"]
    /\ UNCHANGED <<queue, max_uploads, mutex, seen>>

NotUnlockedBug(t) ==
    /\ pc[t] = "signal"
    /\ pc' \in Signalled([pc EXCEPT ![t] = "lock"])
    /\ UNCHANGED <<queue, active_uploads, max_uploads, mutex, active_mutex, job, seen>>

(* Signal, not holding the queue's mutex, and go round the loop. *)
Signal(t) ==
    /\ pc[t] = "signal"
    /\ active_mutex' = None
    /\ pc' \in Signalled([pc EXCEPT ![t] = "lock"])
    /\ UNCHANGED <<queue, active_uploads, max_uploads, mutex, job, seen>>

RangeNotCheckedBug(n) ==
    /\ max_uploads' = n
    /\ UNCHANGED <<queue, active_uploads, mutex, active_mutex, pc, job, seen>>

(* set_max_uploads: values out of range are ignored, no thread is woken. *)
SetMaxUploads(n) ==
    /\ max_uploads' = IF n < 0 \/ n > MAX_UPLOADS THEN max_uploads ELSE n
    /\ UNCHANGED <<queue, active_uploads, mutex, active_mutex, pc, job, seen>>

-----------------------------------------------------------------------------
PoolStep(t) == Lock(t) \/ Test(t) \/ Compare(t) \/ Sleep(t) \/ Take(t) \/ Signal(t)

ServerNext ==
    \/ \E u \in Uploads : Enqueue(u)
    \/ \E t \in Threads : PoolStep(t) \/ Finish(t) \/ SpuriousWake(t)

(***************************************************************************)
(* Some properties hold only with an admin who restrains himself.  One who *)
(* is lowering never raises the limit.  A careful one lowers it only when  *)
(* that contradicts nothing under way: no more transfers run than the new  *)
(* limit allows, and no thread is between its test and the increment.      *)
(***************************************************************************)
Allowed(n) ==
    CASE admin = "free"     -> TRUE
      [] admin = "lowering" -> n <= max_uploads
      [] admin = "careful"  -> n >= max_uploads \/ (mutex = None /\ n >= active_uploads)

Next ==
    /\ \/ ServerNext
       \/ \E n \in Limits : Allowed(n) /\ SetMaxUploads(n)
    /\ UNCHANGED admin

Spec == Init /\ [][Next]_vars

(***************************************************************************)
(* The scheduler runs every thread that can run.  Nothing is promised of   *)
(* process_upload, which may wait in accept or recv forever, nor of        *)
(* clients, admins and spurious wakeups.                                   *)
(***************************************************************************)
Fairness == \A t \in Threads : WF_vars(PoolStep(t) /\ UNCHANGED admin)

FairSpec == Spec /\ Fairness

-----------------------------------------------------------------------------
TypeOK ==
    /\ queue \in Seq(Uploads)
    /\ active_uploads \in Int
    /\ max_uploads \in 0 .. MAX_UPLOADS
    /\ mutex \in Threads \cup {None}
    /\ active_mutex \in Threads \cup {None}
    /\ pc \in [Threads -> Places]
    /\ job \in [Threads -> Uploads \cup {None}]
    /\ seen \in Int
    /\ admin \in {"free", "lowering", "careful"}

(***************************************************************************)
(* The counter is exact: it is the number of threads in process_upload,    *)
(* although it is tested without its mutex and changed under another one   *)
(* than the queue.                                                         *)
(***************************************************************************)
CounterExact == active_uploads = Cardinality(At({"upload"}))

(***************************************************************************)
(* An upload is in one place: not twice in the queue, in the hands of one  *)
(* thread, and not in the queue once a thread has it.                      *)
(***************************************************************************)
OnePlace ==
    /\ \A i, k \in 1 .. Len(queue) : i # k => queue[i] # queue[k]
    /\ \A t, v \in Threads : job[t] # None /\ t # v => job[t] # job[v]
    /\ \A t \in Threads : job[t] \notin ToSet(queue)

(***************************************************************************)
(* The queue is sorted, smallest file first (upload_handler.c:218-226).    *)
(***************************************************************************)
ShortestFirst ==
    \A i, k \in 1 .. Len(queue) : i < k => SizeOf[queue[i]] <= SizeOf[queue[k]]

(***************************************************************************)
(* Once queued, an upload is overtaken only by strictly smaller ones:      *)
(* equals leave in the order of their requests.                            *)
(***************************************************************************)
Before(q, u, v) == \E i, k \in 1 .. Len(q) : i < k /\ q[i] = u /\ q[k] = v

OvertakenOnlyBySmaller ==
    [][\A u, v \in Uploads :
          Before(queue', u, v) /\ v \in ToSet(queue)
            => Before(queue, u, v) \/ SizeOf[u] < SizeOf[v]]_queue

(***************************************************************************)
(* The pool implements module UploadService: uploads are started smallest  *)
(* first, one start per upload, and never more than there are threads.     *)
(***************************************************************************)
InFlight == {job[t] : t \in Threads} \ {None}

Service == INSTANCE UploadService
    WITH Slots <- MAX_UPLOADS, waiting <- ToSet(queue), running <- InFlight

ImplementsService == Service!Spec

(***************************************************************************)
(* A thread that is going to look at the queue, whatever the others do:    *)
(* it is on its way to the test, or past it with room seen.                *)
(***************************************************************************)
Alert ==
    At({"lock", "test", "take", "signal"})
      \cup {t \in At({"compare"}) : seen < max_uploads}

Startable ==
    IF Len(queue) <= max_uploads - active_uploads
    THEN Len(queue)
    ELSE max_uploads - active_uploads

(***************************************************************************)
(* No lost wakeup.  There are always at least as many alert threads as     *)
(* uploads that could start, although a finishing thread decrements and    *)
(* signals without the mutex that the waiters test under, so that its      *)
(* signal can fall between a thread's test and its wait.  Holds as long    *)
(* as the limit is not raised, which wakes nobody.                         *)
(***************************************************************************)
EnoughAlert == Cardinality(Alert) >= Startable

NoStrandedUpload == admin = "lowering" => EnoughAlert

(***************************************************************************)
(* Unless the limit is lowered below what runs or while a thread decides,  *)
(* it is never exceeded, although the test reads the counter and the limit *)
(* one after the other and without their mutexes.                          *)
(***************************************************************************)
UnderLimit == active_uploads <= max_uploads

LimitHonoured == admin = "careful" => UnderLimit

(***************************************************************************)
(* "Set the maximum number of simultaneous uploads."                       *)
(* (admin_handler.c:253): as many as that may run.  So a queued upload     *)
(* than which none is smaller does not stay in the queue while there is    *)
(* room: it is taken, or all the allowed transfers run.                    *)
(***************************************************************************)
Smallest(u) == \A v \in Uploads : SizeOf[u] <= SizeOf[v]

IsServed(u) ==
    u \in ToSet(queue) ~> u \notin ToSet(queue) \/ active_uploads >= max_uploads

RoomIsUsed == \A u \in {v \in Uploads : Smallest(v)} : IsServed(u)

(***************************************************************************)
(* So it is as long as the limit is not raised, which wakes no thread.     *)
(***************************************************************************)
SmallestServed == admin = "lowering" => RoomIsUsed
=============================================================================
