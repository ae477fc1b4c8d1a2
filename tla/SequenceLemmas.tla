--------------------------- MODULE SequenceLemmas ---------------------------
(***************************************************************************)
(* What the operators do that put an entry into the middle of a list or    *)
(* take one out of it, and that a set of positions has a first one: the    *)
(* arrays of the server are searched and changed in these ways, and the    *)
(* library's theorems do not cover them.                                   *)
(***************************************************************************)
EXTENDS Integers, Sequences, SequencesExt, SequenceTheorems, WellFoundedInduction, TLAPS

(***************************************************************************)
(* Inserting u behind position k (the upload queue, upload_handler.c:218-  *)
(* 227).                                                                   *)
(***************************************************************************)
LEMMA InsertAtProperties ==
    ASSUME NEW S, NEW q \in Seq(S), NEW u \in S, NEW k \in 0 .. Len(q),
           NEW r, r = InsertAt(q, k + 1, u)
    PROVE  /\ r \in Seq(S)
           /\ Len(r) = Len(q) + 1
           /\ \A i \in 1 .. Len(r) :
                 r[i] = IF i <= k THEN q[i] ELSE IF i = k + 1 THEN u ELSE q[i - 1]
<1> DEFINE front == SubSeq(q, 1, k)
           back  == SubSeq(q, k + 1, Len(q))
           rest  == <<u>> \o back
<1>1. Len(q) \in Nat /\ k \in Nat
  BY LenProperties
<1>2. /\ front \in Seq(S)
      /\ Len(front) = k
      /\ \A i \in 1 .. k : front[i] = q[i]
  <2>1. \A i \in 1 .. k : q[i] \in S
    BY <1>1, ElementOfSeq
  <2>2. /\ front \in Seq(S)
        /\ Len(front) = IF 1 <= k THEN k - 1 + 1 ELSE 0
        /\ \A i \in 1 .. k - 1 + 1 : front[i] = q[1 + i - 1]
    BY <1>1, <2>1, SubSeqProperties, 1 \in Int, k \in Int
  <2> QED
    BY <1>1, <2>2
<1>3. /\ back \in Seq(S)
      /\ Len(back) = Len(q) - k
      /\ \A i \in 1 .. Len(q) - k : back[i] = q[k + i]
  <2>1. \A i \in k + 1 .. Len(q) : q[i] \in S
    BY <1>1, ElementOfSeq
  <2>2. /\ back \in Seq(S)
        /\ Len(back) = IF k + 1 <= Len(q) THEN Len(q) - (k + 1) + 1 ELSE 0
        /\ \A i \in 1 .. Len(q) - (k + 1) + 1 : back[i] = q[(k + 1) + i - 1]
    BY <1>1, <2>1, SubSeqProperties, k + 1 \in Int, Len(q) \in Int
  <2> QED
    BY <1>1, <2>2
<1>4. /\ rest \in Seq(S)
      /\ Len(rest) = Len(q) - k + 1
      /\ \A i \in 1 .. Len(q) - k + 1 : rest[i] = IF i = 1 THEN u ELSE q[k + i - 1]
  <2>1. <<u>> \in Seq(S) /\ Len(<<u>>) = 1 /\ <<u>>[1] = u
    OBVIOUS
  <2>2. /\ rest \in Seq(S)
        /\ Len(rest) = 1 + Len(back)
        /\ \A i \in 1 .. 1 + Len(back) : rest[i] = IF i <= 1 THEN <<u>>[i] ELSE back[i - 1]
    BY <2>1, <1>3, ConcatProperties
  <2> QED
    BY <1>1, <1>3, <2>1, <2>2
<1> HIDE DEF front, back, rest
<1>5. r = front \o rest
  <2>1. (k + 1) - 1 = k
    BY <1>1
  <2>2. r = (SubSeq(q, 1, (k + 1) - 1) \o <<u>>) \o SubSeq(q, k + 1, Len(q))
    BY Zenon DEF InsertAt
  <2>3. (front \o <<u>>) \o back = front \o (<<u>> \o back)
    <3>1. \A a, b, c \in Seq(S) : (a \o b) \o c = a \o (b \o c)
      BY ConcatAssociative, SMTT(60)
    <3>2. front \in Seq(S) /\ back \in Seq(S) /\ <<u>> \in Seq(S)
      BY <1>2, <1>3
    <3> QED
      BY <3>1, <3>2, Zenon
  <2> QED
    BY <2>1, <2>2, <2>3, Zenon DEF front, back, rest
<1>6. /\ r \in Seq(S)
      /\ Len(r) = Len(front) + Len(rest)
      /\ \A i \in 1 .. Len(front) + Len(rest) :
            r[i] = IF i <= Len(front) THEN front[i] ELSE rest[i - Len(front)]
  <2>1. front \in Seq(S) /\ rest \in Seq(S)
    BY <1>2, <1>4
  <2>2. /\ front \o rest \in Seq(S)
        /\ Len(front \o rest) = Len(front) + Len(rest)
        /\ \A i \in 1 .. Len(front) + Len(rest) :
              (front \o rest)[i] = IF i <= Len(front) THEN front[i] ELSE rest[i - Len(front)]
    BY <2>1, ConcatProperties, Zenon
  <2> QED
    BY <2>2, <1>5, Zenon
<1>7. Len(r) = Len(q) + 1
  BY <1>1, <1>2, <1>4, <1>6
<1>8. \A i \in 1 .. Len(r) :
         r[i] = IF i <= k THEN q[i] ELSE IF i = k + 1 THEN u ELSE q[i - 1]
  <2> TAKE i \in 1 .. Len(r)
  <2>1. i \in Int /\ Len(front) + Len(rest) = Len(r)
    BY <1>1, <1>6, <1>7
  <2>2. CASE i <= k
    BY <2>1, <2>2, <1>1, <1>2, <1>6
  <2>3. CASE i > k
    <3>1. i - k \in 1 .. Len(q) - k + 1
      BY <2>1, <2>3, <1>1, <1>7
    <3>2. r[i] = rest[i - k]
      BY <2>1, <2>3, <1>1, <1>2, <1>6
    <3>3. k + (i - k) - 1 = i - 1 /\ (i - k = 1 <=> i = k + 1)
      BY <2>1, <1>1
    <3> QED
      BY <3>1, <3>2, <3>3, <2>1, <2>3, <1>1, <1>4
  <2> QED
    BY <2>1, <2>2, <2>3, <1>1
<1> QED
  BY <1>6, <1>7, <1>8

(***************************************************************************)
(* Removing position k (kick_client_by_id, admin_handler.c:151-155, and    *)
(* the list of jobs, processing.c:90-92).                                  *)
(***************************************************************************)
LEMMA RemoveAtProperties ==
    ASSUME NEW S, NEW q \in Seq(S), NEW k \in 1 .. Len(q),
           NEW r, r = RemoveAt(q, k)
    PROVE  /\ r \in Seq(S)
           /\ Len(r) = Len(q) - 1
           /\ \A i \in 1 .. Len(r) : r[i] = IF i < k THEN q[i] ELSE q[i + 1]
<1> DEFINE front == SubSeq(q, 1, k - 1)
           back  == SubSeq(q, k + 1, Len(q))
<1>1. Len(q) \in Nat /\ k \in Nat
  BY LenProperties
<1>2. /\ front \in Seq(S)
      /\ Len(front) = k - 1
      /\ \A i \in 1 .. k - 1 : front[i] = q[i]
  <2>1. \A i \in 1 .. k - 1 : q[i] \in S
    BY <1>1, ElementOfSeq
  <2>2. /\ front \in Seq(S)
        /\ Len(front) = IF 1 <= k - 1 THEN (k - 1) - 1 + 1 ELSE 0
        /\ \A i \in 1 .. (k - 1) - 1 + 1 : front[i] = q[1 + i - 1]
    BY <1>1, <2>1, SubSeqProperties, 1 \in Int, k - 1 \in Int
  <2> QED
    BY <1>1, <2>2
<1>3. /\ back \in Seq(S)
      /\ Len(back) = Len(q) - k
      /\ \A i \in 1 .. Len(q) - k : back[i] = q[k + i]
  <2>1. \A i \in k + 1 .. Len(q) : q[i] \in S
    BY <1>1, ElementOfSeq
  <2>2. /\ back \in Seq(S)
        /\ Len(back) = IF k + 1 <= Len(q) THEN Len(q) - (k + 1) + 1 ELSE 0
        /\ \A i \in 1 .. Len(q) - (k + 1) + 1 : back[i] = q[(k + 1) + i - 1]
    BY <1>1, <2>1, SubSeqProperties, k + 1 \in Int, Len(q) \in Int
  <2> QED
    BY <1>1, <2>2
<1> HIDE DEF front, back
<1>4. /\ r \in Seq(S)
      /\ Len(r) = Len(front) + Len(back)
      /\ \A i \in 1 .. Len(front) + Len(back) :
            r[i] = IF i <= Len(front) THEN front[i] ELSE back[i - Len(front)]
  <2>1. r = front \o back
    BY Zenon DEF front, back, RemoveAt
  <2>2. front \in Seq(S) /\ back \in Seq(S)
    BY <1>2, <1>3
  <2>3. /\ front \o back \in Seq(S)
        /\ Len(front \o back) = Len(front) + Len(back)
        /\ \A i \in 1 .. Len(front) + Len(back) :
              (front \o back)[i] = IF i <= Len(front) THEN front[i] ELSE back[i - Len(front)]
    BY <2>2, ConcatProperties, Zenon
  <2> QED
    BY <2>1, <2>3, Zenon
<1>5. Len(r) = Len(q) - 1
  BY <1>1, <1>2, <1>3, <1>4
<1>6. ASSUME NEW i \in 1 .. Len(r)
      PROVE  r[i] = IF i < k THEN q[i] ELSE q[i + 1]
  <2>1. CASE i < k
    BY <2>1, <1>1, <1>2, <1>4, <1>5
  <2>2. CASE i >= k
    <3>1. i - (k - 1) \in 1 .. Len(q) - k
      BY <2>2, <1>1, <1>5
    <3>2. r[i] = back[i - (k - 1)]
      BY <2>2, <1>1, <1>2, <1>3, <1>4, <1>5
    <3>3. k + (i - (k - 1)) = i + 1
      BY <1>1
    <3> QED
      BY <3>1, <3>2, <3>3, <2>2, <1>1, <1>3
  <2> QED
    BY <2>1, <2>2, <1>1
<1> QED
  BY <1>4, <1>5, <1>6

(***************************************************************************)
(* A queue or an inbox seen as its places: what joins takes a new place at *)
(* the end, what is taken leaves the first place, and the others move up.  *)
(***************************************************************************)
LEMMA AppendPlaces ==
    ASSUME NEW S, NEW q \in Seq(S), NEW e \in S,
           NEW r, r = Append(q, e)
    PROVE  /\ r \in Seq(S)
           /\ Len(q) + 1 \notin DOMAIN q
           /\ DOMAIN r = DOMAIN q \cup {Len(q) + 1}
           /\ \A k \in DOMAIN q : r[k] = q[k]
           /\ r[Len(q) + 1] = e
           /\ r # <<>>
<1>1. /\ r \in Seq(S)
      /\ Len(r) = Len(q) + 1
      /\ \A k \in 1 .. Len(q) : r[k] = q[k]
      /\ r[Len(q) + 1] = e
  BY AppendProperties
<1>2. DOMAIN q = 1 .. Len(q) /\ Len(q) \in Nat /\ DOMAIN r = 1 .. Len(r)
  BY <1>1, LenProperties
<1>3. DOMAIN r = DOMAIN q \cup {Len(q) + 1} /\ Len(q) + 1 \notin DOMAIN q
  <2> DEFINE n == Len(q)
  <2>1. n \in Nat /\ DOMAIN q = 1 .. n /\ DOMAIN r = 1 .. n + 1
    BY <1>1, <1>2
  <2> HIDE DEF n
  <2>2. 1 .. n + 1 = 1 .. n \cup {n + 1} /\ n + 1 \notin 1 .. n
    BY <2>1
  <2> QED
    BY <2>1, <2>2, Zenon DEF n
<1> QED
  BY <1>1, <1>2, <1>3, EmptySeq

LEMMA TailPlaces ==
    ASSUME NEW S, NEW q \in Seq(S), q # <<>>,
           NEW r, r = Tail(q)
    PROVE  /\ r \in Seq(S)
           /\ 1 \in DOMAIN q /\ Head(q) = q[1] /\ Head(q) \in S
           /\ \A k \in DOMAIN r : k \in Nat /\ k # 0 /\ k + 1 \in DOMAIN q /\ r[k] = q[k + 1]
           /\ \A k \in DOMAIN q : k \in Nat /\ (k # 1 => k - 1 \in DOMAIN r)
<1>1. /\ Head(q) \in S /\ Head(q) = q[1]
      /\ r \in Seq(S)
      /\ Len(r) = Len(q) - 1
      /\ \A k \in 1 .. Len(r) : r[k] = q[k + 1]
  BY HeadTailProperties
<1>2. /\ DOMAIN q = 1 .. Len(q) /\ Len(q) \in Nat /\ Len(q) # 0
      /\ DOMAIN r = 1 .. Len(q) - 1
  BY <1>1, LenProperties, EmptySeq
<1> DEFINE n == Len(q)
<1>3. /\ n \in Nat /\ n # 0 /\ DOMAIN q = 1 .. n /\ DOMAIN r = 1 .. n - 1
      /\ \A k \in 1 .. n - 1 : r[k] = q[k + 1]
  BY <1>1, <1>2
<1> HIDE DEF n
<1>4. /\ \A k \in 1 .. n - 1 : k \in Nat /\ k # 0 /\ k + 1 \in 1 .. n
      /\ \A k \in 1 .. n : k \in Nat /\ (k # 1 => k - 1 \in 1 .. n - 1)
      /\ 1 \in 1 .. n
  BY <1>3
<1>5. DOMAIN q = 1 .. n /\ DOMAIN r = 1 .. n - 1 /\ \A k \in 1 .. n - 1 : r[k] = q[k + 1]
  BY <1>3
<1> QED
  BY <1>1, <1>4, <1>5, Zenon

(***************************************************************************)
(* What is left when position k was removed stood before, elsewhere than   *)
(* at k, and keeps its order.                                              *)
(***************************************************************************)
LEMMA RemovePlaces ==
    ASSUME NEW S, NEW q \in Seq(S), NEW k \in DOMAIN q,
           NEW r, r = RemoveAt(q, k)
    PROVE  /\ r \in Seq(S)
           /\ \A m \in DOMAIN r :
                 /\ m \in Nat
                 /\ m < k => m \in DOMAIN q /\ r[m] = q[m]
                 /\ m >= k => m + 1 \in DOMAIN q /\ r[m] = q[m + 1]
           /\ \A m \in DOMAIN q :
                 /\ m \in Nat
                 /\ m < k => m \in DOMAIN r
                 /\ m > k => m - 1 \in DOMAIN r
<1>1. DOMAIN q = 1 .. Len(q) /\ Len(q) \in Nat
  BY LenProperties
<1>2. k \in 1 .. Len(q)
  BY <1>1
<1>3. /\ r \in Seq(S)
      /\ Len(r) = Len(q) - 1
      /\ \A m \in 1 .. Len(r) : r[m] = IF m < k THEN q[m] ELSE q[m + 1]
  BY <1>2, RemoveAtProperties
<1>4. DOMAIN r = 1 .. Len(q) - 1
  BY <1>3, LenProperties
<1> DEFINE n == Len(q)
<1>5. /\ n \in Nat /\ k \in 1 .. n /\ DOMAIN q = 1 .. n /\ DOMAIN r = 1 .. n - 1
      /\ \A m \in 1 .. n - 1 : r[m] = IF m < k THEN q[m] ELSE q[m + 1]
  BY <1>1, <1>2, <1>3, <1>4
<1> HIDE DEF n
<1>6. ASSUME NEW m \in 1 .. n - 1
      PROVE  /\ m \in Nat
             /\ m < k => m \in 1 .. n /\ r[m] = q[m]
             /\ m >= k => m + 1 \in 1 .. n /\ r[m] = q[m + 1]
  BY <1>5
<1>7. ASSUME NEW m \in 1 .. n
      PROVE  /\ m \in Nat
             /\ m < k => m \in 1 .. n - 1
             /\ m > k => m - 1 \in 1 .. n - 1
  BY <1>5
<1>8. DOMAIN q = 1 .. n /\ DOMAIN r = 1 .. n - 1
  BY <1>5
<1> QED
  BY <1>3, <1>6, <1>7, <1>8, Zenon

(***************************************************************************)
(* A set of positions has a first one.                                     *)
(***************************************************************************)
LEMMA LeastElement ==
    ASSUME NEW S, S \subseteq Nat, S # {}
    PROVE  \E x \in S : \A y \in S : x <= y
<1> DEFINE R == {ss \in Nat \X Nat : ss[1] < ss[2]}
<1>1. IsWellFoundedOn(R, Nat)
  BY NatLessThanWellFounded DEF OpToRel
<1>2. PICK x \in S : \A y \in S : ~ (<<y, x>> \in R)
  <2> HIDE DEF R
  <2> QED BY <1>1, WFMin
<1>3. ASSUME NEW y \in S PROVE x <= y
  <2>1. x \in Nat /\ y \in Nat
    OBVIOUS
  <2>2. <<y, x>> \in Nat \X Nat /\ <<y, x>>[1] = y /\ <<y, x>>[2] = x
    BY <2>1
  <2>3. y < x => <<y, x>> \in R
    BY <2>2
  <2> QED
    BY <1>2, <2>1, <2>3
<1> QED
  BY <1>3
=============================================================================
