--------------------------- MODULE LogQueueProofs ---------------------------
(***************************************************************************)
(* The ring of src/server/log_queue.c, of any size and for any entries, is *)
(* a bounded list, and its consumer does not sleep over an entry.          *)
(***************************************************************************)
EXTENDS LogQueue, Integers, SequenceTheorems, TLAPS

(***************************************************************************)
(* head, tail and count agree, after any number of turns round the ring    *)
(* and overwritten entries.  Without it a push could write over an entry   *)
(* that is still to be read.                                               *)
(***************************************************************************)
RingConsistent == tail = (head + count) % LOG_QUEUE_SIZE

Inv == TypeOK /\ RingConsistent /\ NoSleepOverEntries

(***************************************************************************)
(* Slot head + k of the ring, for k up to one whole turn.                  *)
(***************************************************************************)
Slot(h, k) == (h + k) % LOG_QUEUE_SIZE

LEMMA SlotProperties ==
    ASSUME NEW h \in Slots, NEW k \in 0 .. LOG_QUEUE_SIZE
    PROVE  /\ Slot(h, k) \in Slots
           /\ Slot(h, k) = IF h + k < LOG_QUEUE_SIZE THEN h + k
                                                     ELSE h + k - LOG_QUEUE_SIZE
           /\ After(h) \in Slots
           /\ After(h) = Slot(h, 1)
           /\ k < LOG_QUEUE_SIZE => Slot(After(h), k) = Slot(h, k + 1)
           /\ After(Slot(h, k)) = IF k < LOG_QUEUE_SIZE THEN Slot(h, k + 1) ELSE After(h)
<1>1. /\ LOG_QUEUE_SIZE \in Nat \ {0}
      /\ h \in 0 .. LOG_QUEUE_SIZE - 1
      /\ \A i \in Slots : i % LOG_QUEUE_SIZE = i
  BY SizeAssumption DEF Slots
<1>2. Slot(h, k) = IF h + k < LOG_QUEUE_SIZE THEN h + k ELSE h + k - LOG_QUEUE_SIZE
  BY <1>1 DEF Slot
<1>3. After(h) = IF h + 1 < LOG_QUEUE_SIZE THEN h + 1 ELSE 0
  BY <1>1 DEF After
<1>4. Slot(h, k) \in Slots /\ After(h) \in Slots
  BY <1>1, <1>2, <1>3 DEF Slots
<1>5. After(h) = Slot(h, 1)
  BY DEF After, Slot
<1>6. ASSUME k < LOG_QUEUE_SIZE
      PROVE  Slot(After(h), k) = Slot(h, k + 1) /\ After(Slot(h, k)) = Slot(h, k + 1)
  <2>1. Slot(h, k + 1) = IF h + k + 1 < LOG_QUEUE_SIZE THEN h + k + 1
                                                       ELSE h + k + 1 - LOG_QUEUE_SIZE
    BY <1>1, <1>6 DEF Slot
  <2>2. Slot(After(h), k) = IF After(h) + k < LOG_QUEUE_SIZE THEN After(h) + k
                                                             ELSE After(h) + k - LOG_QUEUE_SIZE
    BY <1>1, <1>4, <1>6, SMTT(30) DEF Slot, Slots
  <2>3. After(Slot(h, k)) = IF Slot(h, k) + 1 < LOG_QUEUE_SIZE THEN Slot(h, k) + 1 ELSE 0
    BY <1>1, <1>4 DEF After, Slots
  <2>4. Slot(After(h), k) = Slot(h, k + 1)
    BY <1>1, <1>3, <1>6, <2>1, <2>2
  <2>5. After(Slot(h, k)) = Slot(h, k + 1)
    BY <1>1, <1>2, <1>6, <2>1, <2>3
  <2> QED
    BY <2>4, <2>5
<1>7. k = LOG_QUEUE_SIZE => Slot(h, k) = h
  BY <1>1, <1>2
<1> QED
  BY <1>1, <1>2, <1>4, <1>5, <1>6, <1>7

LEMMA InvInitially == Init => Inv
<1> SUFFICES ASSUME Init PROVE Inv
  OBVIOUS
<1>1. TypeOK /\ NoSleepOverEntries
  <2>1. entries \in [Slots -> Entries \cup {None}]
    BY DEF Init
  <2>2. 0 \in Slots /\ 0 \in 0 .. LOG_QUEUE_SIZE
    BY SizeAssumption DEF Slots
  <2> QED
    BY <2>1, <2>2 DEF Init, TypeOK, NoSleepOverEntries
<1>2. tail = head + count /\ head + count \in 0 .. LOG_QUEUE_SIZE - 1
  BY SizeAssumption DEF Init
<1>3. \A i \in 0 .. LOG_QUEUE_SIZE - 1 : i % LOG_QUEUE_SIZE = i
  BY SizeAssumption
<1> QED
  BY <1>1, <1>2, <1>3 DEF Inv, RingConsistent

LEMMA InvPreserved == Inv /\ [Next]_vars => Inv'
<1> SUFFICES ASSUME Inv, [Next]_vars PROVE Inv'
  OBVIOUS
<1> USE DEF Inv, TypeOK, RingConsistent, NoSleepOverEntries
<1>1. ASSUME NEW e \in Entries, Push(e) PROVE Inv'
  <2>1. tail = Slot(head, count) /\ count \in 0 .. LOG_QUEUE_SIZE /\ head \in Slots
    BY DEF Slot
  <2>2. TypeOK'
    BY <1>1, <2>1, SlotProperties, SizeAssumption DEF Push, Woken
  <2>3. RingConsistent'
    <3>1. CASE count = LOG_QUEUE_SIZE
      <4>1. tail = head /\ head' = After(head) /\ tail' = After(head) /\ count' = count
        BY <1>1, <2>1, <3>1, SlotProperties, SizeAssumption DEF Push, Slots
      <4>2. After(head) \in Slots
        BY <2>1, SlotProperties
      <4>3. Slot(After(head), LOG_QUEUE_SIZE) = After(head)
        BY <4>2, SizeAssumption DEF Slot, Slots
      <4> QED
        BY <3>1, <4>1, <4>3 DEF Slot
    <3>2. CASE count < LOG_QUEUE_SIZE
      <4>1. head' = head /\ count' = count + 1 /\ tail' = After(tail)
        BY <1>1, <3>2, SizeAssumption DEF Push
      <4> QED
        BY <2>1, <3>2, <4>1, SlotProperties DEF Slot
    <3> QED
      BY <2>1, <3>1, <3>2, SizeAssumption
  <2>4. NoSleepOverEntries'
    BY <1>1 DEF Push, Woken
  <2> QED
    BY <2>2, <2>3, <2>4
<1>2. CASE PopEntry
  <2>1. TypeOK'
    BY <1>2, SlotProperties, SizeAssumption DEF PopEntry
  <2>2. RingConsistent'
    <3>1. /\ count - 1 \in 0 .. LOG_QUEUE_SIZE
          /\ count - 1 < LOG_QUEUE_SIZE
          /\ (count - 1) + 1 = count
      BY <1>2, SizeAssumption DEF PopEntry
    <3>2. Slot(After(head), count - 1) = Slot(head, count)
      BY <3>1, SlotProperties
    <3> QED
      BY <1>2, <3>2 DEF PopEntry, Slot
  <2>3. NoSleepOverEntries'
    BY <1>2 DEF PopEntry
  <2> QED
    BY <2>1, <2>2, <2>3
<1>3. CASE Wait
  BY <1>3 DEF Wait
<1>4. CASE TimeOut
  BY <1>4 DEF TimeOut
<1>5. CASE SpuriousWake
  BY <1>5 DEF SpuriousWake
<1>6. CASE UNCHANGED vars
  BY <1>6 DEF vars
<1> QED
  BY <1>1, <1>2, <1>3, <1>4, <1>5, <1>6 DEF Next

(***************************************************************************)
(* head, tail and count stay in range and agree, whatever is logged        *)
(* (log_queue.c:17-30, 62-67).                                             *)
(***************************************************************************)
THEOREM RingIsConsistent == Spec => [](TypeOK /\ RingConsistent)
<1>1. Inv => TypeOK /\ RingConsistent
  BY DEF Inv
<1> QED
  BY <1>1, InvInitially, InvPreserved, PTL DEF Spec

(***************************************************************************)
(* No wakeup is lost: the consumer never waits while there is an entry     *)
(* (log_queue.c:28, 40).                                                   *)
(***************************************************************************)
THEOREM ConsumerIsWoken == Spec => []NoSleepOverEntries
<1>1. Inv => NoSleepOverEntries
  BY DEF Inv
<1> QED
  BY <1>1, InvInitially, InvPreserved, PTL DEF Spec

-----------------------------------------------------------------------------
(***************************************************************************)
(* Entry k of the list is slot head + k - 1.                               *)
(***************************************************************************)
ContentsAreSlots ==
    /\ Contents \in Seq(Entries \cup {None})
    /\ Len(Contents) = count
    /\ \A k \in 1 .. count : Contents[k] = entries[Slot(head, k - 1)]

LEMMA ContentsProperties == TypeOK => ContentsAreSlots
<1> SUFFICES ASSUME TypeOK PROVE ContentsAreSlots
  OBVIOUS
<1>1. count \in Nat
  BY SizeAssumption DEF TypeOK
<1>2. \A k \in 1 .. count : (head + k - 1) % LOG_QUEUE_SIZE = Slot(head, k - 1)
  BY <1>1, SizeAssumption DEF Slot, TypeOK, Slots
<1>3. \A k \in 1 .. count : entries[(head + k - 1) % LOG_QUEUE_SIZE] \in Entries \cup {None}
  <2> TAKE k \in 1 .. count
  <2>1. k - 1 \in 0 .. LOG_QUEUE_SIZE
    BY <1>1, SizeAssumption DEF TypeOK
  <2>2. Slot(head, k - 1) \in Slots
    BY <2>1, SlotProperties DEF TypeOK
  <2> QED
    BY <2>2, <1>2 DEF TypeOK
<1>4. Contents \in [1 .. count -> Entries \cup {None}]
  BY <1>3 DEF Contents
<1>5. Contents \in Seq(Entries \cup {None}) /\ Len(Contents) = count
  BY <1>1, <1>4
<1> QED
  BY <1>2, <1>5 DEF Contents, ContentsAreSlots

(***************************************************************************)
(* A push adds to the list, at the cost of its first entry if it is full.  *)
(***************************************************************************)
LEMMA PushAppends ==
    ASSUME Inv, Inv', NEW e \in Entries, Push(e)
    PROVE  Contents' = Append(IF Len(Contents) = LOG_QUEUE_SIZE
                              THEN Tail(Contents) ELSE Contents, e)
<1> DEFINE S == Entries \cup {None}
           kept == IF Len(Contents) = LOG_QUEUE_SIZE THEN Tail(Contents) ELSE Contents
<1>1. /\ Contents \in Seq(S) /\ Len(Contents) = count
      /\ \A k \in 1 .. count : Contents[k] = entries[Slot(head, k - 1)]
  BY ContentsProperties DEF Inv, ContentsAreSlots
<1>2. /\ Contents' \in Seq(S) /\ Len(Contents') = count'
      /\ \A k \in 1 .. count' : Contents'[k] = entries'[Slot(head', k - 1)]
  <2>1. TypeOK' => ContentsAreSlots'
    BY ContentsProperties, PTL
  <2> QED
    BY <2>1 DEF Inv, ContentsAreSlots, Slot
<1>3. /\ head \in Slots /\ tail \in Slots /\ count \in 0 .. LOG_QUEUE_SIZE
      /\ tail = Slot(head, count) /\ entries \in [Slots -> S]
      /\ LOG_QUEUE_SIZE \in Nat \ {0}
  BY SizeAssumption DEF Inv, TypeOK, RingConsistent, Slot
<1>4. entries' = [entries EXCEPT ![tail] = e]
  BY DEF Push
<1>5. kept \in Seq(S) /\ Len(kept) = count' - 1 /\ count' \in Nat \ {0}
      /\ \A k \in 1 .. count' - 1 : kept[k] = Contents'[k]
  <2>1. CASE count = LOG_QUEUE_SIZE
    <3>1. count' = count /\ head' = After(head) /\ tail = head
      BY <1>3, <2>1, SlotProperties DEF Push, Slots
    <3>2. Contents # <<>>
      BY <1>1, <1>3, <2>1
    <3>3. kept \in Seq(S) /\ Len(kept) = count - 1
          /\ \A k \in 1 .. count - 1 : kept[k] = Contents[k + 1]
      BY <1>1, <2>1, <3>2, HeadTailProperties
    <3>4. ASSUME NEW k \in 1 .. count - 1
          PROVE  Contents[k + 1] = Contents'[k]
      <4>1. k \in 0 .. LOG_QUEUE_SIZE /\ k - 1 \in 0 .. LOG_QUEUE_SIZE /\ k < LOG_QUEUE_SIZE
        BY <1>3
      <4>2. Slot(After(head), k - 1) = Slot(head, k)
        BY <4>1, <1>3, SlotProperties
      <4>3. Slot(head, k) # head /\ Slot(head, k) \in Slots
        <5>1. /\ Slot(head, k) \in Slots
              /\ Slot(head, k) = IF head + k < LOG_QUEUE_SIZE
                                 THEN head + k ELSE head + k - LOG_QUEUE_SIZE
          BY <4>1, <1>3, SlotProperties
        <5> QED
          BY <4>1, <5>1, <1>3 DEF Slots
      <4>4. Contents'[k] = entries'[Slot(head, k)]
        BY <1>2, <3>1, <4>2
      <4>5. Contents[k + 1] = entries[Slot(head, k)]
        BY <1>1, <1>3
      <4> QED
        BY <1>3, <1>4, <3>1, <4>3, <4>4, <4>5
    <3> QED
      BY <1>3, <2>1, <3>1, <3>3, <3>4
  <2>2. CASE count < LOG_QUEUE_SIZE
    <3>1. count' = count + 1 /\ head' = head
      BY <1>3, <2>2 DEF Push
    <3>2. kept = Contents
      BY <1>1, <1>3, <2>2
    <3>3. ASSUME NEW k \in 1 .. count
          PROVE  Contents[k] = Contents'[k]
      <4>1. k - 1 \in 0 .. LOG_QUEUE_SIZE /\ k - 1 < count /\ k \in 1 .. count'
        BY <1>3, <3>1
      <4>2. Slot(head, k - 1) # tail /\ Slot(head, k - 1) \in Slots
        <5>1. /\ Slot(head, k - 1) \in Slots
              /\ Slot(head, k - 1) = IF head + (k - 1) < LOG_QUEUE_SIZE
                                     THEN head + (k - 1) ELSE head + (k - 1) - LOG_QUEUE_SIZE
          BY <4>1, <1>3, SlotProperties
        <5>2. tail = IF head + count < LOG_QUEUE_SIZE
                     THEN head + count ELSE head + count - LOG_QUEUE_SIZE
          BY <1>3, SlotProperties
        <5> QED
          BY <4>1, <5>1, <5>2, <1>3, <2>2 DEF Slots
      <4> QED
        BY <1>1, <1>2, <1>3, <1>4, <3>1, <4>1, <4>2
    <3> QED
      BY <1>1, <1>3, <3>1, <3>2, <3>3
  <2> QED
    BY <1>3, <2>1, <2>2
<1>6. Contents'[count'] = e
  <2>1. Slot(head', count' - 1) = tail
    <3>1. CASE count = LOG_QUEUE_SIZE
      <4>1. count' = count /\ head' = After(head) /\ tail = head
        BY <1>3, <3>1, SlotProperties DEF Push, Slots
      <4>2. count - 1 \in 0 .. LOG_QUEUE_SIZE /\ count - 1 < LOG_QUEUE_SIZE
            /\ (count - 1) + 1 = count
        BY <1>3, <3>1
      <4>3. Slot(After(head), count - 1) = Slot(head, count)
        BY <1>3, <4>2, SlotProperties
      <4> QED
        BY <1>3, <4>1, <4>3
    <3>2. CASE count < LOG_QUEUE_SIZE
      BY <1>3, <3>2 DEF Push
    <3> QED
      BY <1>3, <3>1, <3>2
  <2> QED
    BY <1>2, <1>3, <1>4, <1>5, <2>1
<1> HIDE DEF kept
<1>7. /\ Append(kept, e) \in Seq(S)
      /\ Len(Append(kept, e)) = count'
      /\ \A k \in 1 .. count' - 1 : Append(kept, e)[k] = kept[k]
      /\ Append(kept, e)[count'] = e
  <2>1. e \in S /\ kept \in Seq(S)
    BY <1>5
  <2>2. /\ Append(kept, e) \in Seq(S)
        /\ Len(Append(kept, e)) = Len(kept) + 1
        /\ \A k \in 1 .. Len(kept) : Append(kept, e)[k] = kept[k]
        /\ Append(kept, e)[Len(kept) + 1] = e
    BY <2>1, AppendProperties
  <2>3. Len(kept) + 1 = count'
    BY <1>5
  <2> QED
    BY <1>5, <2>2, <2>3
<1>8. \A k \in 1 .. count' : Contents'[k] = Append(kept, e)[k]
  <2>1. \A k \in 1 .. count' : k \in 1 .. count' - 1 \/ k = count'
    BY <1>5
  <2> QED
    BY <2>1, <1>5, <1>6, <1>7
<1>9. Contents' = Append(kept, e)
  BY <1>2, <1>5, <1>7, <1>8, SeqEqual
<1> QED
  BY <1>9 DEF kept

(***************************************************************************)
(* A pop returns the first entry and leaves the rest.                      *)
(***************************************************************************)
LEMMA PopTakesFirst ==
    ASSUME Inv, Inv', PopEntry
    PROVE  /\ Contents # <<>>
           /\ popped' = Head(Contents)
           /\ Contents' = Tail(Contents)
<1> DEFINE S == Entries \cup {None}
<1>1. /\ Contents \in Seq(S) /\ Len(Contents) = count
      /\ \A k \in 1 .. count : Contents[k] = entries[Slot(head, k - 1)]
  BY ContentsProperties DEF Inv, ContentsAreSlots
<1>2. /\ Contents' \in Seq(S) /\ Len(Contents') = count'
      /\ \A k \in 1 .. count' : Contents'[k] = entries'[Slot(head', k - 1)]
  <2>1. TypeOK' => ContentsAreSlots'
    BY ContentsProperties, PTL
  <2> QED
    BY <2>1 DEF Inv, ContentsAreSlots, Slot
<1>3. /\ head \in Slots /\ count \in 1 .. LOG_QUEUE_SIZE
      /\ LOG_QUEUE_SIZE \in Nat \ {0}
      /\ count' = count - 1 /\ head' = After(head) /\ entries' = entries
      /\ popped' = entries[head]
  BY SizeAssumption DEF Inv, TypeOK, PopEntry
<1>4. Contents # <<>>
  BY <1>1, <1>3
<1>5. popped' = Head(Contents)
  <2>1. Slot(head, 0) = head
    BY <1>3, SlotProperties DEF Slots
  <2>2. Contents[1] = entries[head]
    BY <1>1, <1>3, <2>1
  <2> QED
    BY <1>1, <1>3, <1>4, <2>2
<1>6. Contents' = Tail(Contents)
  <2>1. /\ Tail(Contents) \in Seq(S) /\ Len(Tail(Contents)) = count'
        /\ \A k \in 1 .. count' : Tail(Contents)[k] = Contents[k + 1]
    BY <1>1, <1>3, <1>4, HeadTailProperties
  <2>2. ASSUME NEW k \in 1 .. count'
        PROVE  Contents'[k] = Contents[k + 1]
    <3>1. k - 1 \in 0 .. LOG_QUEUE_SIZE /\ k - 1 < LOG_QUEUE_SIZE /\ k + 1 \in 1 .. count
      BY <1>3
    <3>2. Slot(After(head), k - 1) = Slot(head, k)
      BY <1>3, <3>1, SlotProperties
    <3> QED
      BY <1>1, <1>2, <1>3, <3>1, <3>2
  <2> QED
    BY <1>2, <2>1, <2>2, SeqEqual
<1> QED
  BY <1>4, <1>5, <1>6

(***************************************************************************)
(* The ring implements the list of module BoundedLog: entries come out in  *)
(* the order in which they went in, none twice, and none is lost but the   *)
(* oldest ones of a full queue (log_queue.c:17-30, 62-67).                 *)
(***************************************************************************)
THEOREM RingIsBoundedLog == Spec => ImplementsBoundedLog
<1>1. Init => Abstract!Init
  <2> SUFFICES ASSUME Init PROVE Contents = <<>> /\ popped = None
    BY DEF Abstract!Init
  <2>1. TypeOK /\ count = 0
    BY InvInitially DEF Inv, Init
  <2> QED
    BY <2>1, ContentsProperties, EmptySeq DEF Init, ContentsAreSlots
<1>2. Inv /\ Inv' /\ [Next]_vars => [Abstract!Next]_<<Contents, popped>>
  <2> SUFFICES ASSUME Inv, Inv', [Next]_vars
               PROVE  Abstract!Next \/ UNCHANGED <<Contents, popped>>
    OBVIOUS
  <2>1. ASSUME NEW e \in Entries, Push(e) PROVE Abstract!Push(e)
    BY <2>1, PushAppends DEF Abstract!Push, Push
  <2>2. CASE PopEntry
    BY <2>2, PopTakesFirst DEF Abstract!Next, Abstract!Pop
  <2>3. CASE TimeOut
    BY <2>3 DEF TimeOut, Abstract!Next, Abstract!Timeout, Contents
  <2>4. CASE Wait \/ SpuriousWake \/ UNCHANGED vars
    BY <2>4 DEF Wait, SpuriousWake, vars, Contents
  <2> QED
    BY <2>1, <2>2, <2>3, <2>4 DEF Next, Abstract!Next
<1> QED
  BY <1>1, <1>2, InvInitially, InvPreserved, PTL
  DEF Spec, ImplementsBoundedLog, Abstract!Spec
=============================================================================
