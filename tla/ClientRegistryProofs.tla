------------------------ MODULE ClientRegistryProofs ------------------------
(***************************************************************************)
(* What holds of the list of clients for any number of clients, any        *)
(* heartbeat interval and timeout and however long a cleaner waits.        *)
(***************************************************************************)
EXTENDS ClientRegistry, SequenceLemmas, FiniteSetTheorems

Entries == [id : Ids, addr : Clients, age : 0 .. MaxAge]

(***************************************************************************)
(* No two entries have one id: as the ids given out by one process differ  *)
(* (GeneratedIds), and a restarted server begins with an empty list.       *)
(***************************************************************************)
DistinctIds ==
    \A k, m \in DOMAIN clients : clients[k].id = clients[m].id => k = m

LEMMA EntryTypes ==
    /\ Cardinality(Clients) \in Nat
    /\ Ids \subseteq Nat \ {0}
    /\ None \notin Ids
    /\ MaxAge \in Nat
    /\ \A e \in Entries : e.id \in Ids /\ e.addr \in Clients /\ e.age \in 0 .. MaxAge
    /\ \A d \in Datagrams : d.type \in {"CLIENT_ID_REQ", "HEARTBEAT"} /\ d.addr \in Clients
<1>1. Cardinality(Clients) \in Nat
  BY ClientsAssumption, FS_CardinalityType
<1> QED
  BY <1>1, NoneAssumption, TimesAssumption DEF Entries, Datagrams, Ids, MaxAge

(***************************************************************************)
(* What leaves the list leaves the rest of it in order: each entry of the  *)
(* new list is one of the old, and no two are the same.                    *)
(***************************************************************************)
Thinned(new, old) ==
    \E g \in [DOMAIN new -> DOMAIN old] :
        /\ \A i, j \in DOMAIN new : g[i] = g[j] => i = j
        /\ \A i \in DOMAIN new : new[i] = old[g[i]]

(***************************************************************************)
(* cleanup_dead_clients keeps every entry that is alive, and invents none. *)
(***************************************************************************)
LEMMA CleanupProperties ==
    ASSUME clients \in Seq(Entries), NEW k \in Cleaners, Cleanup(k)
    PROVE  /\ clients' \in Seq(Entries)
           /\ Thinned(clients', clients)
           /\ \A n \in DOMAIN clients :
                 Alive(clients[n], lag[k]) => \E m \in DOMAIN clients' : clients'[m] = clients[n]
<1> DEFINE places == {n \in DOMAIN clients : Alive(clients[n], lag[k])}
           N == Cardinality(places)
<1>1. PICK f \in InOrder(places) : clients' = [i \in DOMAIN f |-> clients[f[i]]]
  BY DEF Cleanup
<1>2. DOMAIN clients = 1 .. Len(clients) /\ Len(clients) \in Nat
  BY LenProperties
<1>3. N \in Nat
  <2>1. IsFiniteSet(1 .. Len(clients))
    BY <1>2, FS_Interval
  <2>2. IsFiniteSet(places)
    BY <1>2, <2>1, FS_Subset
  <2> QED
    BY <2>2, FS_CardinalityType
<1>4. /\ f \in [1 .. N -> places]
      /\ \A i, j \in 1 .. N : f[i] = f[j] => i = j
      /\ \A n \in places : \E i \in 1 .. N : f[i] = n
  <2>1. f \in Bijection(1 .. N, places)
    BY <1>1 DEF InOrder
  <2>2. f \in [1 .. N -> places] /\ IsInjective(f)
    BY <2>1 DEF Bijection, Injection
  <2>3. \A n \in places : \E i \in 1 .. N : f[i] = n
    BY <2>1 DEF Bijection, Surjection
  <2> QED
    BY <2>2, <2>3 DEF IsInjective
<1> HIDE DEF N
<1>5. \A n \in places : n \in DOMAIN clients /\ clients[n] \in Entries
  BY <1>2, ElementOfSeq
<1>6. DOMAIN f = 1 .. N
  BY <1>4
<1>7. clients' = [i \in 1 .. N |-> clients[f[i]]]
  BY <1>1, <1>6
<1>8. clients' \in [1 .. N -> Entries]
  BY <1>4, <1>5, <1>7
<1>9. clients' \in Seq(Entries)
  BY <1>3, <1>8, SeqDef
<1>10. DOMAIN clients' = 1 .. N
  BY <1>8
<1>11. Thinned(clients', clients)
  <2>1. f \in [DOMAIN clients' -> DOMAIN clients]
    BY <1>4, <1>10
  <2>2. \A i \in DOMAIN clients' : clients'[i] = clients[f[i]]
    BY <1>7, <1>10
  <2>3. \A i, j \in DOMAIN clients' : f[i] = f[j] => i = j
    BY <1>4, <1>10
  <2> HIDE DEF places
  <2> QED
    BY <2>1, <2>2, <2>3, Zenon DEF Thinned
<1>12. ASSUME NEW n \in DOMAIN clients, Alive(clients[n], lag[k])
       PROVE  \E m \in DOMAIN clients' : clients'[m] = clients[n]
  <2>1. PICK i \in 1 .. N : f[i] = n
    BY <1>4, <1>12
  <2> QED
    BY <2>1, <1>7, <1>10
<1> QED
  BY <1>9, <1>11, <1>12

(***************************************************************************)
(* kick_client_by_id removes one entry, with the id, and no other.         *)
(***************************************************************************)
LEMMA KickProperties ==
    ASSUME clients \in Seq(Entries), NEW id \in Ids, Kick(id)
    PROVE  /\ clients' \in Seq(Entries)
           /\ Thinned(clients', clients)
           /\ \A n \in DOMAIN clients :
                 clients[n].id # id => \E m \in DOMAIN clients' : clients'[m] = clients[n]
<1>1. PICK k \in DOMAIN clients : clients[k].id = id /\ clients' = RemoveAt(clients, k)
  <2> DEFINE k == CHOOSE n \in DOMAIN clients : clients[n].id = id
  <2>1. k \in DOMAIN clients /\ clients[k].id = id
    BY DEF Kick, Listed
  <2>2. clients' = RemoveAt(clients, k)
    BY DEF Kick
  <2> QED
    BY <2>1, <2>2, Zenon
<1>2. DOMAIN clients = 1 .. Len(clients) /\ Len(clients) \in Nat
  BY LenProperties
<1>3. k \in 1 .. Len(clients)
  BY <1>2
<1>4. /\ clients' \in Seq(Entries)
      /\ Len(clients') = Len(clients) - 1
      /\ \A i \in 1 .. Len(clients') :
            clients'[i] = IF i < k THEN clients[i] ELSE clients[i + 1]
  <2> DEFINE r == RemoveAt(clients, k)
  <2>1. clients' = r
    BY <1>1
  <2>2. /\ r \in Seq(Entries)
        /\ Len(r) = Len(clients) - 1
        /\ \A i \in 1 .. Len(r) : r[i] = IF i < k THEN clients[i] ELSE clients[i + 1]
    <3>1. r = RemoveAt(clients, k)
      OBVIOUS
    <3> HIDE DEF r
    <3> QED
      BY <1>3, <3>1, RemoveAtProperties
  <2> HIDE DEF r
  <2> QED
    BY <2>1, <2>2
<1>5. DOMAIN clients' = 1 .. Len(clients')
  BY <1>4, LenProperties
<1>6. Thinned(clients', clients)
  <2> DEFINE g == [i \in 1 .. Len(clients') |-> IF i < k THEN i ELSE i + 1]
  <2>1. g \in [DOMAIN clients' -> DOMAIN clients]
    BY <1>2, <1>3, <1>4, <1>5
  <2>2. \A i, j \in DOMAIN clients' : g[i] = g[j] => i = j
    BY <1>2, <1>3, <1>5
  <2>3. \A i \in DOMAIN clients' : clients'[i] = clients[g[i]]
    BY <1>4, <1>5
  <2> HIDE DEF g
  <2> QED
    BY <2>1, <2>2, <2>3 DEF Thinned
<1>7. ASSUME NEW n \in DOMAIN clients, clients[n].id # id
      PROVE  \E m \in DOMAIN clients' : clients'[m] = clients[n]
  <2>1. n # k /\ n \in 1 .. Len(clients)
    BY <1>1, <1>2, <1>7
  <2>2. CASE n < k
    <3>1. n \in 1 .. Len(clients')
      BY <2>1, <2>2, <1>2, <1>3, <1>4
    <3> QED
      BY <3>1, <2>2, <1>4, <1>5
  <2>3. CASE n > k
    <3>1. n - 1 \in 1 .. Len(clients') /\ ~(n - 1 < k) /\ (n - 1) + 1 = n
      BY <2>1, <2>3, <1>2, <1>3, <1>4
    <3>2. clients'[n - 1] = clients[(n - 1) + 1]
      BY <3>1, <1>4
    <3> QED
      BY <3>1, <3>2, <1>5
  <2> QED
    BY <2>1, <2>2, <2>3, <1>2, <1>3
<1> QED
  BY <1>4, <1>6, <1>7

(***************************************************************************)
(* A heartbeat changes at most the entry with its id (server.c:208-217),   *)
(* where no two entries have one.                                          *)
(***************************************************************************)
LEMMA RefreshedProperties ==
    ASSUME clients \in Seq(Entries), DistinctIds, NEW hb \in Datagrams
    PROVE  /\ Refreshed(hb) \in Seq(Entries)
           /\ DOMAIN Refreshed(hb) = DOMAIN clients
           /\ \A k \in DOMAIN clients :
                 /\ Refreshed(hb)[k].id = clients[k].id
                 /\ clients[k].id = hb.id =>
                       Refreshed(hb)[k].addr = hb.addr /\ Refreshed(hb)[k].age = 0
                 /\ clients[k].id # hb.id => Refreshed(hb)[k] = clients[k]
<1> DEFINE new == Refreshed(hb)
<1>1. DOMAIN clients = 1 .. Len(clients) /\ Len(clients) \in Nat
  BY LenProperties
<1>2. \A k \in DOMAIN clients : clients[k] \in Entries
  BY <1>1, ElementOfSeq
<1>3. ASSUME NEW k \in DOMAIN clients
      PROVE  /\ new[k] \in Entries
             /\ new[k].id = clients[k].id
             /\ clients[k].id = hb.id => new[k].addr = hb.addr /\ new[k].age = 0
             /\ clients[k].id # hb.id => new[k] = clients[k]
  <2>1. CASE clients[k].id = hb.id
    <3>1. \A m \in 1 .. k - 1 : clients[m].id # hb.id
      BY <2>1, <1>1 DEF DistinctIds
    <3>2. new[k] = [clients[k] EXCEPT !.addr = hb.addr, !.age = 0]
      BY <3>1, <2>1 DEF Refreshed
    <3>3. hb.addr \in Clients /\ 0 \in 0 .. MaxAge
      BY EntryTypes
    <3> QED
      BY <3>2, <3>3, <2>1, <1>2 DEF Entries
  <2>2. CASE clients[k].id # hb.id
    <3>1. new[k] = clients[k]
      BY <2>2 DEF Refreshed
    <3> QED
      BY <3>1, <2>2, <1>2
  <2> QED
    BY <2>1, <2>2
<1>4. DOMAIN new = 1 .. Len(clients) /\ new = [k \in 1 .. Len(clients) |-> new[k]]
  BY <1>1 DEF Refreshed
<1> HIDE DEF new
<1>5. new \in [1 .. Len(clients) -> Entries]
  BY <1>1, <1>3, <1>4
<1>6. new \in Seq(Entries)
  BY <1>1, <1>5, SeqDef
<1> QED
  BY <1>1, <1>3, <1>4, <1>6 DEF new

(***************************************************************************)
(* Time passes: the entries stay and grow older by a tick at most.         *)
(***************************************************************************)
LEMMA TickProperties ==
    ASSUME clients \in Seq(Entries), Tick
    PROVE  /\ clients' \in Seq(Entries)
           /\ DOMAIN clients' = DOMAIN clients
           /\ \A k \in DOMAIN clients :
                 /\ clients'[k].id = clients[k].id
                 /\ clients'[k].addr = clients[k].addr
                 /\ clients'[k].age <= clients[k].age + 1
<1>1. DOMAIN clients = 1 .. Len(clients) /\ Len(clients) \in Nat
  BY LenProperties
<1>2. clients' = [k \in 1 .. Len(clients) |-> [clients[k] EXCEPT !.age = Older(@)]]
  BY <1>1 DEF Tick
<1>3. ASSUME NEW k \in 1 .. Len(clients)
      PROVE  /\ clients'[k] \in Entries
             /\ clients'[k].id = clients[k].id
             /\ clients'[k].addr = clients[k].addr
             /\ clients'[k].age <= clients[k].age + 1
  <2>1. clients[k] \in Entries
    BY <1>1, ElementOfSeq
  <2>2. clients'[k] = [clients[k] EXCEPT !.age = Older(clients[k].age)]
    BY <1>2
  <2>3. clients[k].age \in 0 .. MaxAge /\ MaxAge \in Nat
    BY <2>1, EntryTypes
  <2>4. Older(clients[k].age) \in 0 .. MaxAge /\ Older(clients[k].age) <= clients[k].age + 1
    BY <2>3 DEF Older
  <2> QED
    BY <2>1, <2>2, <2>4 DEF Entries
<1>4. clients' \in [1 .. Len(clients) -> Entries]
  BY <1>2, <1>3
<1>5. clients' \in Seq(Entries)
  BY <1>1, <1>4, SeqDef
<1> QED
  BY <1>1, <1>3, <1>4, <1>5

(***************************************************************************)
(* Type correctness and the list of clients itself: its ids were all       *)
(* given out since the server started, and no two entries have one.        *)
(***************************************************************************)
IdsGiven == \A k \in DOMAIN clients : clients[k].id \in given

ListInv == TypeOK /\ DistinctIds /\ IdsGiven

LEMMA ListInitially == Init => ListInv
<1> SUFFICES ASSUME Init PROVE ListInv
  OBVIOUS
<1>1. clients = <<>> /\ DOMAIN clients = {}
  BY DEF Init
<1>2. clients \in Seq(Entries) /\ udp \in Seq(Datagrams) /\ Len(udp) <= Buffer
  BY BoundsAssumption, EmptySeq DEF Init
<1>3. /\ lag \in [Cleaners -> 0 .. MaxLag \cup {None}]
      /\ state \in [Clients -> {"new", "asking", "running", "gone"}]
      /\ ack \in [Clients -> Ids \cup {None}]
      /\ held \in [Clients -> Ids \cup {None}]
      /\ since \in [Clients -> 0 .. Interval]
      /\ lost \in [Clients -> 0 .. MaxLosses]
  BY TimesAssumption, BoundsAssumption DEF Init
<1>4. TypeOK
  BY <1>2, <1>3, BoundsAssumption DEF Init, TypeOK, Entries
<1> QED
  BY <1>1, <1>4 DEF ListInv, DistinctIds, IdsGiven

LEMMA ClientTypes ==
    ASSUME TypeOK, NEW c \in Clients, ClientStep(c) \/ Leave(c), UNCHANGED prompt
    PROVE  TypeOK'
<1> USE DEF TypeOK, serverVars, clientVars
<1>1. CASE AskForId(c)
  <2>1. [type |-> "CLIENT_ID_REQ", addr |-> c, id |-> None] \in Datagrams
    BY DEF Datagrams
  <2>2. udp' \in Seq(Datagrams) /\ Len(udp') = Len(udp) + 1
    BY <1>1, <2>1, AppendProperties DEF AskForId
  <2>3. Len(udp) \in Nat
    BY LenProperties
  <2>4. state' \in [Clients -> {"new", "asking", "running", "gone"}]
    BY <1>1 DEF AskForId
  <2> QED
    BY <1>1, <2>2, <2>3, <2>4, BoundsAssumption DEF AskForId
<1>2. CASE ReceiveId(c)
  <2>1. state' \in [Clients -> {"new", "asking", "running", "gone"}]
    BY <1>2 DEF ReceiveId
  <2>2. held' \in [Clients -> Ids \cup {None}] /\ ack' \in [Clients -> Ids \cup {None}]
    BY <1>2 DEF ReceiveId
  <2>3. since' \in [Clients -> 0 .. Interval]
    BY <1>2, TimesAssumption DEF ReceiveId
  <2> QED
    BY <1>2, <2>1, <2>2, <2>3 DEF ReceiveId
<1>3. CASE SendHeartbeat(c)
  <2>1. since' \in [Clients -> 0 .. Interval]
    BY <1>3, TimesAssumption DEF SendHeartbeat
  <2>2. CASE Len(udp) < Buffer
             /\ udp' = Append(udp, [type |-> "HEARTBEAT", addr |-> c, id |-> held[c]])
             /\ lost' = [lost EXCEPT ![c] = 0]
    <3>1. [type |-> "HEARTBEAT", addr |-> c, id |-> held[c]] \in Datagrams
      BY DEF Datagrams
    <3>2. udp' \in Seq(Datagrams) /\ Len(udp') = Len(udp) + 1
      BY <2>2, <3>1, AppendProperties
    <3>3. Len(udp) \in Nat
      BY LenProperties
    <3>4. lost' \in [Clients -> 0 .. MaxLosses]
      BY <2>2, BoundsAssumption
    <3> QED
      BY <1>3, <2>1, <2>2, <3>2, <3>3, <3>4, BoundsAssumption DEF SendHeartbeat
  <2>3. CASE lost[c] < MaxLosses /\ lost' = [lost EXCEPT ![c] = @ + 1] /\ UNCHANGED udp
    <3>1. lost' \in [Clients -> 0 .. MaxLosses]
      BY <2>3, BoundsAssumption
    <3> QED
      BY <1>3, <2>1, <2>3, <3>1 DEF SendHeartbeat
  <2> QED
    BY <1>3, <2>2, <2>3 DEF SendHeartbeat
<1>4. CASE Leave(c)
  <2>1. /\ state' \in [Clients -> {"new", "asking", "running", "gone"}]
        /\ ack' \in [Clients -> Ids \cup {None}]
    BY <1>4 DEF Leave
  <2>2. since' \in [Clients -> 0 .. Interval] /\ lost' \in [Clients -> 0 .. MaxLosses]
    BY <1>4, TimesAssumption, BoundsAssumption DEF Leave
  <2> QED
    BY <1>4, <2>1, <2>2 DEF Leave
<1> QED
  BY <1>1, <1>2, <1>3, <1>4 DEF ClientStep

LEMMA BeginningTypes ==
    ASSUME TypeOK, NEW k \in Cleaners
    PROVE  [lag EXCEPT ![k] = 0] \in [Cleaners -> 0 .. MaxLag \cup {None}]
<1>1. 0 \in 0 .. MaxLag \cup {None}
  BY TimesAssumption
<1>2. lag \in [Cleaners -> 0 .. MaxLag \cup {None}]
  BY DEF TypeOK
<1> QED
  BY <1>1, <1>2, Zenon

(***************************************************************************)
(* What the two handlers of the UDP thread have in common.                 *)
(***************************************************************************)
LEMMA DatagramProperties ==
    ASSUME TypeOK, NEW t, NextDatagram(t), MayBeginCleanup
    PROVE  /\ Head(udp) \in Datagrams
           /\ udp' \in Seq(Datagrams) /\ Len(udp') <= Buffer
           /\ Len(udp) \in Nat \ {0} /\ Len(udp') = Len(udp) - 1
           /\ \A n \in 1 .. Len(udp) - 1 : udp'[n] = udp[n + 1]
           /\ Head(udp) = udp[1] /\ udp[1].type = t
           /\ lag' \in [Cleaners -> 0 .. MaxLag \cup {None}]
<1>1. udp \in Seq(Datagrams) /\ udp # <<>> /\ udp' = Tail(udp) /\ Head(udp).type = t
  BY DEF TypeOK, NextDatagram
<1>2. /\ Head(udp) \in Datagrams /\ Tail(udp) \in Seq(Datagrams)
      /\ Len(Tail(udp)) = Len(udp) - 1
      /\ \A n \in 1 .. Len(Tail(udp)) : Tail(udp)[n] = udp[n + 1]
  BY <1>1, HeadTailProperties
<1>3. Len(udp) \in Nat \ {0} /\ Len(udp) <= Buffer /\ Buffer \in Nat
  BY <1>1, LenProperties, EmptySeq, BoundsAssumption DEF TypeOK
<1>4. lag' \in [Cleaners -> 0 .. MaxLag \cup {None}]
  <2>1. "udp" \in Cleaners
    BY DEF Cleaners
  <2>2. [lag EXCEPT !["udp"] = 0] \in [Cleaners -> 0 .. MaxLag \cup {None}]
    BY <2>1, BeginningTypes
  <2> QED
    BY <2>2 DEF TypeOK, MayBeginCleanup
<1> QED
  BY <1>1, <1>2, <1>3, <1>4

LEMMA ServerTypes ==
    ASSUME TypeOK, DistinctIds, UNCHANGED prompt,
           \/ UdpThread
           \/ Watcher
           \/ \E id \in Ids : Kick(id)
           \/ Restart
           \/ Tick
    PROVE  TypeOK'
<1> USE DEF TypeOK, clientVars
<1>1. clients \in Seq(Entries)
  BY DEF Entries
<1>2. CASE HandleClientIdReq
  <2>1. PICK id \in GeneratedIds :
           LET c == Head(udp).addr
           IN  /\ clients' = Append(clients, [id |-> id, addr |-> c, age |-> 0])
               /\ ack' = IF state[c] = "asking" THEN [ack EXCEPT ![c] = id] ELSE ack
               /\ given' = given \cup {id}
    BY <1>2 DEF HandleClientIdReq
  <2>2. /\ NextDatagram("CLIENT_ID_REQ") /\ MayBeginCleanup
        /\ UNCHANGED <<kicked, restarts, state, held, since, lost>>
    BY <1>2 DEF HandleClientIdReq
  <2>3. /\ Head(udp) \in Datagrams
        /\ udp' \in Seq(Datagrams) /\ Len(udp') <= Buffer
        /\ lag' \in [Cleaners -> 0 .. MaxLag \cup {None}]
    BY <2>2, DatagramProperties
  <2>4. id \in Ids /\ Head(udp).addr \in Clients
    BY <2>3, EntryTypes DEF GeneratedIds
  <2>5. [id |-> id, addr |-> Head(udp).addr, age |-> 0] \in Entries
    BY <2>4, EntryTypes DEF Entries
  <2>6. clients' \in Seq(Entries)
    <3>1. Append(clients, [id |-> id, addr |-> Head(udp).addr, age |-> 0]) \in Seq(Entries)
      BY <1>1, <2>5, AppendProperties
    <3> QED
      BY <2>1, <3>1
  <2>7. ack' \in [Clients -> Ids \cup {None}] /\ given' \subseteq Ids
    BY <2>1, <2>4
  <2> QED
    BY <2>2, <2>3, <2>6, <2>7 DEF Entries
<1>3. CASE HandleHeartbeat
  <2>1. /\ Head(udp) \in Datagrams
        /\ udp' \in Seq(Datagrams) /\ Len(udp') <= Buffer
        /\ lag' \in [Cleaners -> 0 .. MaxLag \cup {None}]
    BY <1>3, DatagramProperties DEF HandleHeartbeat
  <2>2. clients' \in Seq(Entries)
    BY <1>1, <1>3, <2>1, RefreshedProperties DEF HandleHeartbeat
  <2> QED
    BY <1>3, <2>1, <2>2 DEF HandleHeartbeat, Entries
<1>4. CASE BeginCleanup
  <2>1. lag' \in [Cleaners -> 0 .. MaxLag \cup {None}]
    <3>1. "watcher" \in Cleaners
      BY DEF Cleaners
    <3>2. [lag EXCEPT !["watcher"] = 0] \in [Cleaners -> 0 .. MaxLag \cup {None}]
      BY <3>1, BeginningTypes
    <3> QED
      BY <1>4, <3>2 DEF BeginCleanup
  <2> QED
    BY <1>4, <2>1 DEF BeginCleanup
<1>5. ASSUME NEW k \in Cleaners, Cleanup(k)
      PROVE  TypeOK'
  <2>1. clients' \in Seq(Entries)
    BY <1>1, <1>5, CleanupProperties
  <2>2. lag' \in [Cleaners -> 0 .. MaxLag \cup {None}]
    BY <1>5 DEF Cleanup
  <2> QED
    BY <1>5, <2>1, <2>2 DEF Cleanup, Entries
<1>6. ASSUME NEW id \in Ids, Kick(id)
      PROVE  TypeOK'
  <2>1. clients' \in Seq(Entries)
    BY <1>1, <1>6, KickProperties
  <2> QED
    BY <1>6, <2>1 DEF Kick, Entries
<1>7. CASE Restart
  <2>1. lag' \in [Cleaners -> 0 .. MaxLag \cup {None}]
    BY <1>7 DEF Restart
  <2>2. clients' \in Seq(Entries) /\ udp' \in Seq(Datagrams) /\ Len(udp') <= Buffer
    BY <1>7, BoundsAssumption, EmptySeq DEF Restart
  <2> QED
    BY <1>7, <2>1, <2>2, BoundsAssumption DEF Restart, Entries
<1>8. CASE Tick
  <2>1. clients' \in Seq(Entries)
    BY <1>1, <1>8, TickProperties
  <2>2. lag' \in [Cleaners -> 0 .. MaxLag \cup {None}]
    <3>1. \A k \in Cleaners : lag[k] # None => lag[k] + 1 \in 0 .. MaxLag
      BY <1>8, TimesAssumption DEF Tick
    <3> QED
      BY <1>8, <3>1 DEF Tick
  <2>3. since' \in [Clients -> 0 .. Interval]
    <3>1. \A c \in Clients : state[c] = "running" => since[c] + 1 \in 0 .. Interval
      BY <1>8, TimesAssumption DEF Tick
    <3> QED
      BY <1>8, <3>1 DEF Tick
  <2> QED
    BY <1>8, <2>1, <2>2, <2>3 DEF Tick, Entries
<1> QED
  BY <1>2, <1>3, <1>4, <1>5, <1>6, <1>7, <1>8 DEF UdpThread, Watcher, Cleaners

LEMMA TypesPreserved == TypeOK /\ DistinctIds /\ [Next]_vars => TypeOK'
<1> SUFFICES ASSUME TypeOK, DistinctIds, [Next]_vars PROVE TypeOK'
  OBVIOUS
<1>1. CASE UNCHANGED vars
  BY <1>1 DEF TypeOK, vars, serverVars, clientVars
<1>2. CASE Next
  BY <1>2, ClientTypes, ServerTypes DEF Next
<1> QED
  BY <1>1, <1>2

(***************************************************************************)
(* How a step may change the list: nothing new, one more entry with an id  *)
(* that nobody has, or an empty list.                                      *)
(***************************************************************************)
LEMMA ThinnedIds ==
    ASSUME DistinctIds, IdsGiven, Thinned(clients', clients), given' = given
    PROVE  DistinctIds' /\ IdsGiven'
<1>1. PICK g \in [DOMAIN clients' -> DOMAIN clients] :
         /\ \A i, j \in DOMAIN clients' : g[i] = g[j] => i = j
         /\ \A i \in DOMAIN clients' : clients'[i] = clients[g[i]]
  BY DEF Thinned
<1> QED
  BY <1>1 DEF DistinctIds, IdsGiven

LEMMA SameIds ==
    ASSUME DistinctIds, IdsGiven, DOMAIN clients' = DOMAIN clients, given' = given,
           \A k \in DOMAIN clients : clients'[k].id = clients[k].id
    PROVE  DistinctIds' /\ IdsGiven'
BY DEF DistinctIds, IdsGiven

LEMMA RegisteredProperties ==
    ASSUME TypeOK, HandleClientIdReq
    PROVE  \E id \in Ids :
              LET c == Head(udp).addr
              IN  /\ c \in Clients
                  /\ id \notin given
                  /\ given' = given \cup {id}
                  /\ ack' = IF state[c] = "asking" THEN [ack EXCEPT ![c] = id] ELSE ack
                  /\ DOMAIN clients' = DOMAIN clients \cup {Len(clients) + 1}
                  /\ Len(clients) + 1 \notin DOMAIN clients
                  /\ \A k \in DOMAIN clients : clients'[k] = clients[k]
                  /\ clients'[Len(clients) + 1] = [id |-> id, addr |-> c, age |-> 0]
<1>1. PICK id \in GeneratedIds :
         LET c == Head(udp).addr
         IN  /\ clients' = Append(clients, [id |-> id, addr |-> c, age |-> 0])
             /\ ack' = IF state[c] = "asking" THEN [ack EXCEPT ![c] = id] ELSE ack
             /\ given' = given \cup {id}
  BY DEF HandleClientIdReq
<1>2. Head(udp) \in Datagrams
  BY DatagramProperties DEF HandleClientIdReq
<1>3. Head(udp).addr \in Clients /\ id \in Ids /\ id \notin given
  BY <1>2, EntryTypes DEF GeneratedIds
<1> DEFINE e == [id |-> id, addr |-> Head(udp).addr, age |-> 0]
<1>4. e \in Entries /\ clients \in Seq(Entries)
  BY <1>3, EntryTypes DEF Entries, TypeOK
<1> HIDE DEF e
<1>5. /\ Append(clients, e) \in Seq(Entries)
      /\ Len(Append(clients, e)) = Len(clients) + 1
      /\ \A k \in 1 .. Len(clients) : Append(clients, e)[k] = clients[k]
      /\ Append(clients, e)[Len(clients) + 1] = e
  BY <1>4, AppendProperties
<1>6. /\ DOMAIN clients = 1 .. Len(clients) /\ Len(clients) \in Nat
      /\ DOMAIN Append(clients, e) = 1 .. Len(clients) + 1
  BY <1>4, <1>5, LenProperties
<1>7. clients' = Append(clients, e)
  BY <1>1 DEF e
<1>8. /\ DOMAIN clients' = DOMAIN clients \cup {Len(clients) + 1}
      /\ Len(clients) + 1 \notin DOMAIN clients
      /\ \A k \in DOMAIN clients : clients'[k] = clients[k]
  BY <1>5, <1>6, <1>7
<1>9. clients'[Len(clients) + 1] = [id |-> id, addr |-> Head(udp).addr, age |-> 0]
  BY <1>5, <1>7 DEF e
<1> QED
  BY <1>1, <1>3, <1>8, <1>9

LEMMA ListPreserved == ListInv /\ [Next]_vars => ListInv'
<1> SUFFICES ASSUME ListInv, [Next]_vars PROVE DistinctIds' /\ IdsGiven'
  BY TypesPreserved DEF ListInv
<1> USE DEF ListInv
<1>1. clients \in Seq(Entries)
  BY DEF TypeOK, Entries
<1>2. CASE UNCHANGED <<clients, given>>
  BY <1>2 DEF DistinctIds, IdsGiven
<1>3. CASE HandleClientIdReq
  <2>1. PICK id \in Ids :
           /\ id \notin given
           /\ given' = given \cup {id}
           /\ DOMAIN clients' = DOMAIN clients \cup {Len(clients) + 1}
           /\ \A k \in DOMAIN clients : clients'[k] = clients[k]
           /\ clients'[Len(clients) + 1] = [id |-> id, addr |-> Head(udp).addr, age |-> 0]
    <3>1. TypeOK
      OBVIOUS
    <3> QED
      BY <1>3, <3>1, RegisteredProperties, Zenon
  <2>2. clients'[Len(clients) + 1].id = id
    BY <2>1
  <2> QED
    BY <2>1, <2>2 DEF DistinctIds, IdsGiven
<1>4. CASE HandleHeartbeat
  <2>1. Head(udp) \in Datagrams
    BY <1>4, DatagramProperties DEF HandleHeartbeat
  <2>2. /\ DOMAIN clients' = DOMAIN clients
        /\ \A k \in DOMAIN clients : clients'[k].id = clients[k].id
    BY <1>1, <1>4, <2>1, RefreshedProperties DEF HandleHeartbeat
  <2> QED
    BY <1>4, <2>2, SameIds DEF HandleHeartbeat
<1>5. ASSUME NEW k \in Cleaners, Cleanup(k)
      PROVE  DistinctIds' /\ IdsGiven'
  <2>1. Thinned(clients', clients)
    BY <1>1, <1>5, CleanupProperties
  <2> QED
    BY <1>5, <2>1, ThinnedIds DEF Cleanup
<1>6. ASSUME NEW id \in Ids, Kick(id)
      PROVE  DistinctIds' /\ IdsGiven'
  <2>1. Thinned(clients', clients)
    BY <1>1, <1>6, KickProperties
  <2> QED
    BY <1>6, <2>1, ThinnedIds DEF Kick
<1>7. CASE Restart
  <2>1. DOMAIN clients' = {}
    BY <1>7 DEF Restart
  <2> QED
    BY <2>1 DEF DistinctIds, IdsGiven
<1>8. CASE Tick
  <2>1. /\ DOMAIN clients' = DOMAIN clients
        /\ \A k \in DOMAIN clients : clients'[k].id = clients[k].id
    BY <1>1, <1>8, TickProperties
  <2> QED
    BY <1>8, <2>1, SameIds DEF Tick
<1>9. ASSUME NEW c \in Clients, ClientStep(c) \/ Leave(c)
      PROVE  UNCHANGED <<clients, given>>
  BY <1>9 DEF ClientStep, AskForId, ReceiveId, SendHeartbeat, Leave, serverVars
<1>10. CASE BeginCleanup
  BY <1>2, <1>10 DEF BeginCleanup
<1>11. CASE UNCHANGED vars
  BY <1>2, <1>11 DEF vars, serverVars
<1> QED
  BY <1>2, <1>3, <1>4, <1>5, <1>6, <1>7, <1>8, <1>9, <1>10, <1>11
     DEF Next, UdpThread, Watcher, Cleaners

(***************************************************************************)
(* Type correctness: whatever the clients send and whenever the server is  *)
(* restarted, the list is a list of clients with ids that were given out   *)
(* (clients, client_count and the states of the clients).                  *)
(***************************************************************************)
THEOREM RegistryTypes == Spec => []TypeOK
<1>1. ListInv => TypeOK
  BY DEF ListInv
<1> QED
  BY ListInitially, ListPreserved, <1>1, PTL DEF Spec

(***************************************************************************)
(* An entry leaves the list only after HEARTBEAT_TIMEOUT of silence, by a  *)
(* kick or with the server: time that passes while a cleaner waits for the *)
(* mutex never counts against a client (server.c:317-322).                 *)
(***************************************************************************)
THEOREM OnlySilentRemoved == Spec => RemovedOnlyWhenSilent
<1> DEFINE Step == \A k \in DOMAIN clients :
                      \/ clients[k].age >= Timeout
                      \/ \E m \in DOMAIN clients' : clients'[m].id = clients[k].id
                      \/ clients[k].id \in kicked'
                      \/ restarts' # restarts
<1>1. ListInv /\ [Next]_vars => [Step]_vars
  <2> SUFFICES ASSUME ListInv, Next, NEW k \in DOMAIN clients
               PROVE  \/ clients[k].age >= Timeout
                      \/ \E m \in DOMAIN clients' : clients'[m].id = clients[k].id
                      \/ clients[k].id \in kicked'
                      \/ restarts' # restarts
    OBVIOUS
  <2>1. TypeOK /\ DistinctIds /\ clients \in Seq(Entries)
    BY DEF ListInv, TypeOK, Entries
  <2>2. CASE UNCHANGED clients
    BY <2>2
  <2>3. CASE HandleClientIdReq
    BY <2>1, <2>3, RegisteredProperties
  <2>4. CASE HandleHeartbeat
    <3>1. Head(udp) \in Datagrams
      BY <2>1, <2>4, DatagramProperties DEF HandleHeartbeat
    <3> QED
      BY <2>1, <2>4, <3>1, RefreshedProperties DEF HandleHeartbeat
  <2>5. ASSUME NEW c \in Cleaners, Cleanup(c)
        PROVE  clients[k].age >= Timeout \/ \E m \in DOMAIN clients' : clients'[m] = clients[k]
    <3>1. Alive(clients[k], lag[c]) => \E m \in DOMAIN clients' : clients'[m] = clients[k]
      BY <2>1, <2>5, CleanupProperties
    <3>2. lag[c] \in Nat
      BY <2>1, <2>5, TimesAssumption DEF TypeOK, Cleanup
    <3>3. clients[k].age \in Nat
      <4>1. clients[k] \in Entries
        BY <2>1, ElementOfSeq, LenProperties
      <4> QED
        BY <4>1, EntryTypes
    <3> QED
      BY <3>1, <3>2, <3>3, TimesAssumption DEF Alive
  <2>6. ASSUME NEW id \in Ids, Kick(id)
        PROVE  \/ \E m \in DOMAIN clients' : clients'[m] = clients[k]
               \/ clients[k].id \in kicked'
    <3>1. clients[k].id # id => \E m \in DOMAIN clients' : clients'[m] = clients[k]
      BY <2>1, <2>6, KickProperties
    <3> QED
      BY <2>6, <3>1 DEF Kick
  <2>7. CASE Restart
    <3>1. restarts' # restarts
      BY <2>1, <2>7, BoundsAssumption DEF Restart, TypeOK
    <3> QED
      BY <3>1
  <2>8. CASE Tick
    BY <2>1, <2>8, TickProperties
  <2>9. ASSUME NEW c \in Clients, ClientStep(c) \/ Leave(c)
        PROVE  UNCHANGED clients
    BY <2>9 DEF ClientStep, AskForId, ReceiveId, SendHeartbeat, Leave, serverVars
  <2>10. CASE BeginCleanup
    BY <2>2, <2>10 DEF BeginCleanup
  <2> QED
    BY <2>2, <2>3, <2>4, <2>5, <2>6, <2>7, <2>8, <2>9, <2>10
       DEF Next, UdpThread, Watcher, Cleaners
<1> QED
  BY ListInitially, ListPreserved, <1>1, PTL DEF Spec, RemovedOnlyWhenSilent

-----------------------------------------------------------------------------
(***************************************************************************)
(* Whose id is whose, as long as the server is not restarted: two clients  *)
(* never have one id, an entry holds the address of the client that has    *)
(* its id, and a heartbeat in the socket carries its sender's id.          *)
(***************************************************************************)
Has(c) == {ack[c], held[c]} \ {None}

Progress(c) ==
    /\ state[c] \in {"new", "asking"} => held[c] = None
    /\ state[c] = "running" => held[c] # None
    /\ ack[c] # None => state[c] = "asking"

IdsApart ==
    /\ \A c \in Clients : Has(c) \subseteq given
    /\ \A c, d \in Clients : c # d => Has(c) \cap Has(d) = {}

AddressesRight ==
    \A k \in DOMAIN clients, c \in Clients : clients[k].id \in Has(c) => clients[k].addr = c

BeatsRight ==
    \A n \in DOMAIN udp :
        udp[n].type = "HEARTBEAT" => udp[n].id = held[udp[n].addr] /\ udp[n].id # None

OwnIds == IdsApart /\ AddressesRight /\ BeatsRight

AddressInv == (\A c \in Clients : Progress(c)) /\ (restarts = 0 => OwnIds)

LEMMA AddressInitially == Init => AddressInv
BY DEF Init, AddressInv, Progress, OwnIds, IdsApart, AddressesRight, BeatsRight, Has

LEMMA ProgressPreserved ==
    ASSUME TypeOK, \A c \in Clients : Progress(c), [Next]_vars
    PROVE  \A c \in Clients : Progress(c)'
<1> USE DEF Progress
<1>1. CASE UNCHANGED <<state, ack, held>>
  BY <1>1
<1>2. ASSUME NEW c \in Clients, AskForId(c)
      PROVE  \A d \in Clients : Progress(d)'
  BY <1>2 DEF AskForId, TypeOK
<1>3. ASSUME NEW c \in Clients, ReceiveId(c)
      PROVE  \A d \in Clients : Progress(d)'
  BY <1>3 DEF ReceiveId, TypeOK
<1>4. ASSUME NEW c \in Clients, Leave(c)
      PROVE  \A d \in Clients : Progress(d)'
  BY <1>4 DEF Leave, TypeOK
<1>5. ASSUME NEW c \in Clients, SendHeartbeat(c)
      PROVE  UNCHANGED <<state, ack, held>>
  BY <1>5 DEF SendHeartbeat
<1>6. CASE HandleClientIdReq
  <2>1. UNCHANGED <<state, held>>
    BY <1>6 DEF HandleClientIdReq
  <2>2. \A c \in Clients : ack'[c] # ack[c] => state[c] = "asking"
    <3>1. PICK id \in Ids, c \in Clients :
             ack' = IF state[c] = "asking" THEN [ack EXCEPT ![c] = id] ELSE ack
      BY <1>6, RegisteredProperties
    <3> QED
      BY <3>1 DEF TypeOK
  <2> QED
    BY <2>1, <2>2
<1>7. CASE \/ HandleHeartbeat
           \/ Cleanup("udp")
           \/ Watcher
           \/ \E id \in Ids : Kick(id)
           \/ Restart
           \/ Tick
           \/ UNCHANGED vars
  BY <1>1, <1>7
     DEF HandleHeartbeat, Watcher, BeginCleanup, Cleanup, Kick, Restart, Tick, vars, clientVars
<1> QED
  BY <1>1, <1>2, <1>3, <1>4, <1>5, <1>6, <1>7 DEF Next, ClientStep, UdpThread

(***************************************************************************)
(* Ids that clients give up and entries that leave disturb nothing.        *)
(***************************************************************************)
LEMMA ApartKept ==
    ASSUME IdsApart, given' = given, \A c \in Clients : Has(c)' \subseteq Has(c)
    PROVE  IdsApart'
BY DEF IdsApart

LEMMA AddressesKept ==
    ASSUME AddressesRight, \A c \in Clients : Has(c)' \subseteq Has(c),
           \A k \in DOMAIN clients' : \E n \in DOMAIN clients :
              clients'[k].id = clients[n].id /\ clients'[k].addr = clients[n].addr
    PROVE  AddressesRight'
BY DEF AddressesRight

LEMMA BeatsKept ==
    ASSUME TypeOK, BeatsRight, udp' = Tail(udp), udp # <<>>, UNCHANGED held
    PROVE  BeatsRight'
<1>1. udp \in Seq(Datagrams)
  BY DEF TypeOK
<1>2. /\ Tail(udp) \in Seq(Datagrams)
      /\ Len(Tail(udp)) = Len(udp) - 1
      /\ \A n \in 1 .. Len(Tail(udp)) : Tail(udp)[n] = udp[n + 1]
  BY <1>1, HeadTailProperties
<1>3. /\ DOMAIN udp = 1 .. Len(udp) /\ Len(udp) \in Nat
      /\ DOMAIN Tail(udp) = 1 .. Len(Tail(udp))
  BY <1>1, <1>2, LenProperties
<1>4. \A n \in DOMAIN udp' : n + 1 \in DOMAIN udp /\ udp'[n] = udp[n + 1]
  BY <1>2, <1>3
<1> QED
  BY <1>4 DEF BeatsRight

LEMMA BeatsAppended ==
    ASSUME TypeOK, BeatsRight, UNCHANGED held, NEW d \in Datagrams, udp' = Append(udp, d),
           d.type = "HEARTBEAT" => d.id = held[d.addr] /\ d.id # None
    PROVE  BeatsRight'
<1>1. udp \in Seq(Datagrams)
  BY DEF TypeOK
<1>2. /\ Append(udp, d) \in Seq(Datagrams)
      /\ Len(Append(udp, d)) = Len(udp) + 1
      /\ \A n \in 1 .. Len(udp) : Append(udp, d)[n] = udp[n]
      /\ Append(udp, d)[Len(udp) + 1] = d
  BY <1>1, AppendProperties
<1>3. /\ DOMAIN udp = 1 .. Len(udp) /\ Len(udp) \in Nat
      /\ DOMAIN Append(udp, d) = 1 .. Len(Append(udp, d))
  BY <1>1, <1>2, LenProperties
<1>4. \A n \in DOMAIN udp' : (n \in DOMAIN udp /\ udp'[n] = udp[n]) \/ udp'[n] = d
  BY <1>2, <1>3
<1> QED
  BY <1>4 DEF BeatsRight

LEMMA SameLists ==
    ASSUME OwnIds, UNCHANGED <<clients, given, udp, ack, held>>
    PROVE  OwnIds'
BY DEF OwnIds, IdsApart, AddressesRight, BeatsRight, Has

LEMMA AddressPreserved == ListInv /\ AddressInv /\ [Next]_vars => AddressInv'
<1> SUFFICES ASSUME ListInv, AddressInv, [Next]_vars, restarts' = 0
             PROVE  OwnIds'
  BY ProgressPreserved DEF AddressInv, ListInv
<1>1. TypeOK /\ DistinctIds /\ IdsGiven /\ clients \in Seq(Entries)
  BY DEF ListInv, TypeOK, Entries
<1>2. \A c \in Clients : Progress(c)
  BY DEF AddressInv
<1>3. restarts = 0
  <2>1. restarts' = restarts \/ Restart
    BY DEF Next, ClientStep, AskForId, ReceiveId, SendHeartbeat, Leave, UdpThread, Watcher,
           HandleClientIdReq, HandleHeartbeat, BeginCleanup, Cleanup, Kick, Tick,
           vars, serverVars
  <2>2. Restart => restarts' # 0
    BY <1>1 DEF Restart, TypeOK
  <2> QED
    BY <2>1, <2>2
<1>4. IdsApart /\ AddressesRight /\ BeatsRight
  BY <1>3 DEF AddressInv, OwnIds
<1>5. ~Restart
  BY <1>1, <1>3 DEF Restart
<1>6. ASSUME NEW c \in Clients, AskForId(c)
      PROVE  OwnIds'
  <2>1. [type |-> "CLIENT_ID_REQ", addr |-> c, id |-> None] \in Datagrams
    BY DEF Datagrams
  <2>2. BeatsRight'
    BY <1>1, <1>4, <1>6, <2>1, BeatsAppended DEF AskForId
  <2>3. UNCHANGED <<clients, given, ack, held>>
    BY <1>6 DEF AskForId
  <2> QED
    BY <1>4, <2>2, <2>3 DEF OwnIds, IdsApart, AddressesRight, Has
<1>7. ASSUME NEW c \in Clients, ReceiveId(c)
      PROVE  OwnIds'
  <2>1. UNCHANGED <<clients, given, udp>>
    BY <1>7 DEF ReceiveId, serverVars
  <2>2. \A d \in Clients : Has(d)' \subseteq Has(d)
    BY <1>1, <1>7 DEF ReceiveId, Has, TypeOK
  <2>3. held[c] = None /\ \A d \in Clients \ {c} : held'[d] = held[d]
    BY <1>1, <1>2, <1>7 DEF ReceiveId, Progress, TypeOK
  <2>4. \A n \in DOMAIN udp : udp[n].addr \in Clients
    <3>1. udp \in Seq(Datagrams)
      BY <1>1 DEF TypeOK
    <3>2. \A n \in DOMAIN udp : udp[n] \in Datagrams
      BY <3>1, ElementOfSeq, LenProperties
    <3> QED
      BY <3>2, EntryTypes
  <2>5. BeatsRight'
    BY <1>4, <2>1, <2>3, <2>4 DEF BeatsRight
  <2> QED
    BY <1>4, <2>1, <2>2, <2>5, ApartKept, AddressesKept DEF OwnIds
<1>8. ASSUME NEW c \in Clients, SendHeartbeat(c)
      PROVE  OwnIds'
  <2>1. UNCHANGED <<clients, given, ack, held>>
    BY <1>8 DEF SendHeartbeat
  <2>2. BeatsRight'
    <3>1. CASE UNCHANGED udp
      BY <1>4, <2>1, <3>1 DEF BeatsRight
    <3>2. CASE udp' = Append(udp, [type |-> "HEARTBEAT", addr |-> c, id |-> held[c]])
      <4>1. [type |-> "HEARTBEAT", addr |-> c, id |-> held[c]] \in Datagrams
        BY <1>1 DEF Datagrams, TypeOK
      <4>2. held[c] # None
        BY <1>2, <1>8 DEF SendHeartbeat, Progress
      <4> QED
        BY <1>1, <1>4, <2>1, <3>2, <4>1, <4>2, BeatsAppended
    <3> QED
      BY <1>8, <3>1, <3>2 DEF SendHeartbeat
  <2> QED
    BY <1>4, <2>1, <2>2 DEF OwnIds, IdsApart, AddressesRight, Has
<1>9. ASSUME NEW c \in Clients, Leave(c)
       PROVE  OwnIds'
  <2>1. UNCHANGED <<clients, given, udp, held>>
    BY <1>9 DEF Leave, serverVars
  <2>2. \A d \in Clients : Has(d)' \subseteq Has(d)
    BY <1>1, <1>9 DEF Leave, Has, TypeOK
  <2>3. BeatsRight'
    BY <1>4, <2>1 DEF BeatsRight
  <2> QED
    BY <1>4, <2>1, <2>2, <2>3, ApartKept, AddressesKept DEF OwnIds
<1>10. CASE HandleClientIdReq
  <2>1. PICK id \in Ids, c \in Clients :
           /\ id \notin given
           /\ given' = given \cup {id}
           /\ ack' = IF state[c] = "asking" THEN [ack EXCEPT ![c] = id] ELSE ack
           /\ DOMAIN clients' = DOMAIN clients \cup {Len(clients) + 1}
           /\ \A k \in DOMAIN clients : clients'[k] = clients[k]
           /\ clients'[Len(clients) + 1] = [id |-> id, addr |-> c, age |-> 0]
    BY <1>1, <1>10, RegisteredProperties, Zenon
  <2>2. /\ UNCHANGED held
        /\ BeatsRight'
    BY <1>1, <1>4, <1>10, BeatsKept DEF HandleClientIdReq, NextDatagram
  <2>3. \A d \in Clients : Has(d) \subseteq given /\ (d # c => Has(d)' = Has(d))
    BY <1>1, <1>4, <2>1, <2>2 DEF Has, TypeOK, IdsApart
  <2>4. Has(c)' \subseteq Has(c) \cup {id}
    BY <1>1, <2>1, <2>2 DEF Has, TypeOK
  <2>5. IdsApart'
    BY <1>4, <2>1, <2>3, <2>4 DEF IdsApart
  <2>6. \A k \in DOMAIN clients : clients[k].id # id
    BY <1>1, <2>1 DEF IdsGiven
  <2>7. clients'[Len(clients) + 1].id = id /\ clients'[Len(clients) + 1].addr = c
    BY <2>1
  <2>8. \A d \in Clients : d # c => id \notin Has(d)'
    BY <2>1, <2>3
  <2>9. AddressesRight'
    BY <1>4, <2>1, <2>3, <2>4, <2>6, <2>7, <2>8 DEF AddressesRight
  <2> QED
    BY <2>2, <2>5, <2>9 DEF OwnIds
<1>11. CASE HandleHeartbeat
  <2> DEFINE hb == Head(udp)
  <2>1. UNCHANGED <<given, ack, held>> /\ BeatsRight'
    BY <1>1, <1>4, <1>11, BeatsKept DEF HandleHeartbeat, NextDatagram, clientVars
  <2>2. hb \in Datagrams /\ hb = udp[1] /\ 1 \in DOMAIN udp /\ hb.type = "HEARTBEAT"
    <3>1. Len(udp) \in Nat \ {0} /\ hb \in Datagrams /\ hb = udp[1] /\ udp[1].type = "HEARTBEAT"
      BY <1>1, <1>11, DatagramProperties DEF HandleHeartbeat
    <3>2. DOMAIN udp = 1 .. Len(udp)
      BY <1>1, LenProperties DEF TypeOK
    <3> QED
      BY <3>1, <3>2
  <2>3. hb.addr \in Clients /\ hb.id \in Has(hb.addr)
    BY <1>4, <2>2, EntryTypes DEF BeatsRight, Has
  <2>4. /\ DOMAIN clients' = DOMAIN clients
        /\ \A k \in DOMAIN clients :
              /\ clients'[k].id = clients[k].id
              /\ clients[k].id = hb.id => clients'[k].addr = hb.addr
              /\ clients[k].id # hb.id => clients'[k] = clients[k]
    BY <1>1, <1>11, <2>2, RefreshedProperties DEF HandleHeartbeat
  <2>5. \A c \in Clients : hb.id \in Has(c) => c = hb.addr
    BY <1>4, <2>3 DEF IdsApart
  <2>6. \A c \in Clients : Has(c)' = Has(c)
    BY <2>1 DEF Has
  <2> HIDE DEF hb
  <2>7. AddressesRight'
    BY <1>4, <2>4, <2>5, <2>6 DEF AddressesRight
  <2>8. IdsApart'
    BY <1>4, <2>1, <2>6, ApartKept
  <2> QED
    BY <2>1, <2>7, <2>8 DEF OwnIds
<1>12. ASSUME Thinned(clients', clients), UNCHANGED <<given, udp, ack, held>>
       PROVE  OwnIds'
  <2>1. \A k \in DOMAIN clients' : \E n \in DOMAIN clients : clients'[k] = clients[n]
    BY <1>12 DEF Thinned
  <2>2. \A c \in Clients : Has(c)' = Has(c)
    BY <1>12 DEF Has
  <2>3. AddressesRight'
    BY <1>4, <2>1, <2>2, AddressesKept
  <2> QED
    BY <1>4, <1>12, <2>2, <2>3, ApartKept DEF OwnIds, BeatsRight
<1>13. ASSUME NEW k \in Cleaners, Cleanup(k)
       PROVE  OwnIds'
  BY <1>1, <1>12, <1>13, CleanupProperties DEF Cleanup, clientVars
<1>14. ASSUME NEW id \in Ids, Kick(id)
       PROVE  OwnIds'
  BY <1>1, <1>12, <1>14, KickProperties DEF Kick, clientVars
<1>15. CASE Tick
  <2>1. /\ DOMAIN clients' = DOMAIN clients
        /\ \A k \in DOMAIN clients :
              clients'[k].id = clients[k].id /\ clients'[k].addr = clients[k].addr
    BY <1>1, <1>15, TickProperties
  <2>2. UNCHANGED <<given, udp, ack, held>>
    BY <1>15 DEF Tick
  <2> QED
    BY <1>4, <2>1, <2>2 DEF OwnIds, IdsApart, AddressesRight, BeatsRight, Has
<1>16. CASE BeginCleanup
  BY <1>4, <1>16, SameLists DEF BeginCleanup, clientVars, OwnIds
<1>17. CASE UNCHANGED vars
  BY <1>4, <1>17, SameLists DEF vars, serverVars, clientVars, OwnIds
<1> QED
  BY <1>5, <1>6, <1>7, <1>8, <1>9, <1>10, <1>11, <1>13, <1>14, <1>15, <1>16, <1>17
     DEF Next, ClientStep, UdpThread, Watcher, Cleaners

(***************************************************************************)
(* Who an entry belongs to, through restarts and ids that come again: it   *)
(* has the address of a client that has its id, or of one that left before *)
(* it got it.  Each client asks once, so at most one of its requests is in *)
(* the socket, and it has no id yet.                                       *)
(***************************************************************************)
Requests(c) == {n \in DOMAIN udp : udp[n].type = "CLIENT_ID_REQ" /\ udp[n].addr = c}

AsksOnce(c) ==
    /\ Requests(c) # {} => state[c] # "new" /\ Has(c) = {}
    /\ \A m, n \in Requests(c) : m = n

EntriesHeld(c) ==
    \A k \in DOMAIN clients : clients[k].addr = c =>
        clients[k].id \in Has(c) \/ (state[c] = "gone" /\ held[c] = None)

HolderInv == BeatsRight /\ \A c \in Clients : AsksOnce(c) /\ EntriesHeld(c)

LEMMA HolderInitially == Init => HolderInv
BY DEF Init, HolderInv, BeatsRight, AsksOnce, Requests, EntriesHeld

LEMMA RequestsTaken ==
    ASSUME TypeOK, NEW t, NextDatagram(t), MayBeginCleanup, UNCHANGED state,
           NEW c \in Clients, AsksOnce(c),
           Has(c)' = Has(c) \/ (t = "CLIENT_ID_REQ" /\ c = Head(udp).addr)
    PROVE  AsksOnce(c)'
<1>1. /\ Len(udp) \in Nat \ {0} /\ Len(udp') = Len(udp) - 1
      /\ \A n \in 1 .. Len(udp) - 1 : udp'[n] = udp[n + 1]
      /\ Head(udp) = udp[1] /\ udp[1].type = t
      /\ udp' \in Seq(Datagrams)
  BY DatagramProperties
<1>2. DOMAIN udp = 1 .. Len(udp) /\ DOMAIN udp' = 1 .. Len(udp')
  BY <1>1, LenProperties DEF TypeOK
<1>3. \A n \in Requests(c)' : n + 1 \in Requests(c) /\ n \in Nat /\ n + 1 # 1
  BY <1>1, <1>2 DEF Requests
<1>4. \A m, n \in Requests(c)' : m = n
  BY <1>3 DEF AsksOnce
<1>5. ASSUME NEW n \in Requests(c)'
      PROVE  ~(t = "CLIENT_ID_REQ" /\ c = Head(udp).addr)
  <2>1. t = "CLIENT_ID_REQ" /\ c = Head(udp).addr => 1 \in Requests(c)
    BY <1>1, <1>2 DEF Requests
  <2> QED
    BY <1>3, <1>5, <2>1 DEF AsksOnce
<1>6. Requests(c)' # {} => state'[c] # "new" /\ Has(c)' = {}
  BY <1>3, <1>5 DEF AsksOnce
<1> QED
  BY <1>4, <1>6 DEF AsksOnce

LEMMA RequestsAppended ==
    ASSUME TypeOK, NEW d \in Datagrams, udp' = Append(udp, d), NEW c \in Clients, AsksOnce(c),
           \/ /\ d.type # "CLIENT_ID_REQ" \/ d.addr # c
              /\ state'[c] = state[c]
           \/ Requests(c) = {} /\ state'[c] # "new" /\ Has(c) = {},
           UNCHANGED <<ack, held>>
    PROVE  AsksOnce(c)'
<1>1. udp \in Seq(Datagrams)
  BY DEF TypeOK
<1>2. /\ Append(udp, d) \in Seq(Datagrams)
      /\ Len(Append(udp, d)) = Len(udp) + 1
      /\ \A n \in 1 .. Len(udp) : Append(udp, d)[n] = udp[n]
      /\ Append(udp, d)[Len(udp) + 1] = d
  BY <1>1, AppendProperties
<1>3. /\ DOMAIN udp = 1 .. Len(udp) /\ Len(udp) \in Nat
      /\ DOMAIN Append(udp, d) = 1 .. Len(Append(udp, d))
  BY <1>1, <1>2, LenProperties
<1>4. \A n \in DOMAIN udp' :
         \/ n \in DOMAIN udp /\ udp'[n] = udp[n]
         \/ n = Len(udp) + 1 /\ udp'[n] = d
  BY <1>2, <1>3
<1>5. \A n \in Requests(c)' :
         \/ n \in Requests(c)
         \/ n = Len(udp) + 1 /\ d.type = "CLIENT_ID_REQ" /\ d.addr = c
  BY <1>4 DEF Requests
<1>6. Has(c)' = Has(c)
  BY DEF Has
<1> QED
  BY <1>5, <1>6 DEF AsksOnce

LEMMA RequestsSame ==
    ASSUME NEW c \in Clients, AsksOnce(c), UNCHANGED udp,
           Has(c)' \subseteq Has(c), state'[c] # state[c] => state'[c] # "new"
    PROVE  AsksOnce(c)'
<1>1. Requests(c)' = Requests(c)
  BY DEF Requests
<1> QED
  BY <1>1 DEF AsksOnce

LEMMA HolderPreserved ==
    ASSUME ListInv, \A c \in Clients : Progress(c), HolderInv, [Next]_vars
    PROVE  HolderInv'
<1>1. TypeOK /\ DistinctIds /\ clients \in Seq(Entries)
  BY DEF ListInv, TypeOK, Entries
<1>2. BeatsRight
  BY DEF HolderInv
<1>3. \A c \in Clients : AsksOnce(c) /\ EntriesHeld(c)
  BY DEF HolderInv
<1>4. ASSUME NEW c \in Clients, Has(c)' = Has(c), held'[c] = held[c],
             state[c] = "gone" => state'[c] = "gone",
             \A k \in DOMAIN clients' : clients'[k].addr = c =>
                \E n \in DOMAIN clients :
                   clients'[k].id = clients[n].id /\ clients'[k].addr = clients[n].addr
      PROVE  EntriesHeld(c)'
  <2>1. EntriesHeld(c)
    BY <1>3
  <2> QED
    BY <1>4, <2>1 DEF EntriesHeld
<1>5. ASSUME NEW d \in Clients, AskForId(d)
      PROVE  HolderInv'
  <2> DEFINE r == [type |-> "CLIENT_ID_REQ", addr |-> d, id |-> None]
  <2>1. r \in Datagrams /\ r.type = "CLIENT_ID_REQ" /\ r.addr = d
    BY DEF Datagrams
  <2>2. udp' = Append(udp, r) /\ UNCHANGED <<clients, ack, held>>
    BY <1>5 DEF AskForId
  <2> HIDE DEF r
  <2>3. BeatsRight'
    BY <1>1, <1>2, <2>1, <2>2, BeatsAppended
  <2>4. ASSUME NEW c \in Clients
        PROVE  AsksOnce(c)' /\ EntriesHeld(c)'
    <3>1. IF c = d THEN state[c] = "new" /\ state'[c] = "asking" ELSE state'[c] = state[c]
      BY <1>1, <1>5 DEF AskForId, TypeOK
    <3>2. Has(c)' = Has(c) /\ held'[c] = held[c]
      BY <2>2 DEF Has
    <3>3. EntriesHeld(c)'
      BY <1>4, <2>2, <3>1, <3>2
    <3>4. c = d => Has(c) = {} /\ Requests(c) = {}
      <4>1. Progress(c) /\ AsksOnce(c)
        BY <1>3
      <4> QED
        BY <3>1, <4>1 DEF Progress, AsksOnce, Has
    <3>5. AsksOnce(c)'
      BY <1>1, <1>3, <2>1, <2>2, <3>1, <3>4, RequestsAppended
    <3> QED
      BY <3>3, <3>5
  <2> QED
    BY <2>3, <2>4 DEF HolderInv
<1>6. ASSUME NEW d \in Clients, ReceiveId(d)
      PROVE  HolderInv'
  <2>1. UNCHANGED <<clients, udp>>
    BY <1>6 DEF ReceiveId, serverVars
  <2>2. Progress(d) /\ held[d] = None
    BY <1>6 DEF ReceiveId, Progress
  <2>3. BeatsRight'
    <3>1. \A c \in Clients \ {d} : held'[c] = held[c]
      BY <1>1, <1>6 DEF ReceiveId, TypeOK
    <3>2. \A n \in DOMAIN udp : udp[n].addr \in Clients
      <4>1. udp \in Seq(Datagrams)
        BY <1>1 DEF TypeOK
      <4>2. \A n \in DOMAIN udp : udp[n] \in Datagrams
        BY <4>1, ElementOfSeq, LenProperties
      <4> QED
        BY <4>2, EntryTypes
    <3> QED
      BY <1>2, <2>1, <2>2, <3>1, <3>2 DEF BeatsRight
  <2>4. ASSUME NEW c \in Clients
        PROVE  AsksOnce(c)' /\ EntriesHeld(c)'
    <3>1. CASE c = d
      <4>1. /\ ack[c] # None /\ held'[c] = ack[c] /\ ack'[c] = None /\ held[c] = None
            /\ state[c] = "asking" /\ state'[c] = "running"
        BY <1>1, <1>6, <2>2, <3>1 DEF ReceiveId, TypeOK
      <4>2. Has(c)' = Has(c)
        BY <4>1 DEF Has
      <4>3. AsksOnce(c)'
        BY <1>3, <2>1, <4>1, <4>2, RequestsSame
      <4>4. EntriesHeld(c)
        BY <1>3
      <4>5. EntriesHeld(c)'
        BY <2>1, <4>1, <4>2, <4>4 DEF EntriesHeld
      <4> QED
        BY <4>3, <4>5
    <3>2. CASE c # d
      <4>1. UNCHANGED <<state[c], ack[c], held[c]>>
        BY <1>1, <1>6, <3>2 DEF ReceiveId, TypeOK
      <4>2. Has(c)' = Has(c)
        BY <4>1 DEF Has
      <4>3. AsksOnce(c)'
        BY <1>3, <2>1, <4>1, <4>2, RequestsSame
      <4>4. EntriesHeld(c)'
        BY <1>4, <2>1, <4>1, <4>2
      <4> QED
        BY <4>3, <4>4
    <3> QED
      BY <3>1, <3>2
  <2> QED
    BY <2>3, <2>4 DEF HolderInv
<1>7. ASSUME NEW d \in Clients, SendHeartbeat(d)
      PROVE  HolderInv'
  <2> DEFINE b == [type |-> "HEARTBEAT", addr |-> d, id |-> held[d]]
  <2>1. UNCHANGED <<clients, state, ack, held>>
    BY <1>7 DEF SendHeartbeat
  <2>2. b \in Datagrams /\ b.type = "HEARTBEAT" /\ b.id = held[b.addr]
    BY <1>1 DEF Datagrams, TypeOK
  <2>3. b.id # None
    <3>1. Progress(d)
      OBVIOUS
    <3> QED
      BY <1>7, <3>1 DEF SendHeartbeat, Progress
  <2>4. UNCHANGED udp \/ udp' = Append(udp, b)
    BY <1>7 DEF SendHeartbeat
  <2> HIDE DEF b
  <2>5. BeatsRight'
    <3>1. CASE UNCHANGED udp
      BY <1>2, <2>1, <3>1 DEF BeatsRight
    <3>2. CASE udp' = Append(udp, b)
      BY <1>1, <1>2, <2>1, <2>2, <2>3, <3>2, BeatsAppended
    <3> QED
      BY <2>4, <3>1, <3>2
  <2>6. ASSUME NEW c \in Clients
        PROVE  AsksOnce(c)' /\ EntriesHeld(c)'
    <3>1. Has(c)' = Has(c) /\ state'[c] = state[c] /\ held'[c] = held[c]
      BY <2>1 DEF Has
    <3>2. EntriesHeld(c)'
      BY <1>4, <2>1, <3>1
    <3>3. CASE UNCHANGED udp
      BY <1>3, <3>1, <3>2, <3>3, RequestsSame
    <3>4. CASE udp' = Append(udp, b)
      <4>1. b.type # "CLIENT_ID_REQ"
        BY <2>2
      <4>2. AsksOnce(c)'
        BY <1>1, <1>3, <2>1, <2>2, <3>1, <3>4, <4>1, RequestsAppended
      <4> QED
        BY <3>2, <4>2
    <3> QED
      BY <2>4, <3>3, <3>4
  <2> QED
    BY <2>5, <2>6 DEF HolderInv
<1>8. ASSUME NEW d \in Clients, Leave(d)
      PROVE  HolderInv'
  <2>1. UNCHANGED <<clients, udp, held>>
    BY <1>8 DEF Leave, serverVars
  <2>2. BeatsRight'
    BY <1>2, <2>1 DEF BeatsRight
  <2>3. ASSUME NEW c \in Clients
        PROVE  AsksOnce(c)' /\ EntriesHeld(c)'
    <3>1. \/ c = d /\ ack'[c] = None /\ state'[c] = "gone"
          \/ UNCHANGED <<state[c], ack[c]>>
      BY <1>1, <1>8 DEF Leave, TypeOK
    <3>2. Has(c)' \subseteq Has(c)
      BY <2>1, <3>1 DEF Has
    <3>3. AsksOnce(c)'
      BY <1>3, <2>1, <3>1, <3>2, RequestsSame
    <3>4. EntriesHeld(c) /\ Progress(c)
      BY <1>3
    <3>5. ASSUME NEW k \in DOMAIN clients, clients[k].addr = c
          PROVE  clients[k].id \in Has(c)' \/ (state'[c] = "gone" /\ held[c] = None)
      <4>1. clients[k].id \in Has(c) \/ (state[c] = "gone" /\ held[c] = None)
        BY <3>4, <3>5 DEF EntriesHeld
      <4>2. ack[c] # None => held[c] = None
        BY <3>4 DEF Progress
      <4>3. clients[k].id = held[c] /\ held[c] # None => clients[k].id \in Has(c)'
        BY <2>1 DEF Has
      <4>4. clients[k].id = ack[c] /\ ack[c] # None =>
               clients[k].id \in Has(c)' \/ (state'[c] = "gone" /\ held[c] = None)
        BY <3>1, <4>2 DEF Has
      <4> QED
        BY <3>1, <4>1, <4>3, <4>4 DEF Has
    <3>6. EntriesHeld(c)'
      BY <2>1, <3>5 DEF EntriesHeld
    <3> QED
      BY <3>3, <3>6
  <2> QED
    BY <2>2, <2>3 DEF HolderInv
<1>9. CASE HandleClientIdReq
  <2> DEFINE d == Head(udp).addr
  <2>1. PICK id \in Ids :
           /\ d \in Clients
           /\ ack' = IF state[d] = "asking" THEN [ack EXCEPT ![d] = id] ELSE ack
           /\ DOMAIN clients' = DOMAIN clients \cup {Len(clients) + 1}
           /\ \A k \in DOMAIN clients : clients'[k] = clients[k]
           /\ clients'[Len(clients) + 1] = [id |-> id, addr |-> d, age |-> 0]
    BY <1>1, <1>9, RegisteredProperties, Zenon
  <2>2. UNCHANGED <<state, held>>
    BY <1>9 DEF HandleClientIdReq
  <2>3. BeatsRight'
    BY <1>1, <1>2, <1>9, BeatsKept DEF HandleClientIdReq, NextDatagram
  <2>4. NextDatagram("CLIENT_ID_REQ") /\ MayBeginCleanup
    BY <1>9 DEF HandleClientIdReq
  <2>5. Has(d) = {} /\ state[d] # "new"
    <3>1. Len(udp) \in Nat \ {0} /\ Head(udp) = udp[1] /\ udp[1].type = "CLIENT_ID_REQ"
      BY <1>1, <2>4, DatagramProperties
    <3>2. DOMAIN udp = 1 .. Len(udp)
      BY <1>1, LenProperties DEF TypeOK
    <3>3. 1 \in Requests(d)
      BY <3>1, <3>2 DEF Requests
    <3>4. AsksOnce(d)
      BY <1>3, <2>1
    <3> QED
      BY <3>3, <3>4 DEF AsksOnce
  <2>6. id # None
    BY EntryTypes
  <2>7. ASSUME NEW c \in Clients
        PROVE  AsksOnce(c)' /\ EntriesHeld(c)'
    <3>1. c # d => Has(c)' = Has(c)
      BY <1>1, <2>1, <2>2 DEF Has, TypeOK
    <3>2. AsksOnce(c)'
      <4>1. Has(c)' = Has(c) \/ c = Head(udp).addr
        BY <3>1
      <4> HIDE DEF d
      <4>2. AsksOnce(c)
        BY <1>3
      <4>3. UNCHANGED state
        BY <2>2
      <4> QED
        BY <1>1, <2>4, <4>1, <4>2, <4>3, RequestsTaken
    <3> HIDE DEF d
    <3>3. CASE c # d
      <4>1. clients'[Len(clients) + 1].addr = d
        BY <2>1
      <4>2. \A k \in DOMAIN clients' : clients'[k].addr = c =>
               \E n \in DOMAIN clients :
                  clients'[k].id = clients[n].id /\ clients'[k].addr = clients[n].addr
        BY <2>1, <3>3, <4>1
      <4> QED
        BY <1>4, <2>2, <3>1, <3>2, <3>3, <4>2
    <3>4. CASE c = d
      <4>1. EntriesHeld(c) /\ Progress(c)
        BY <1>3
      <4>2. CASE state[c] = "asking"
        <5>1. \A k \in DOMAIN clients : clients[k].addr # c
          BY <2>5, <3>4, <4>1, <4>2 DEF EntriesHeld
        <5>2. ack'[c] = id
          BY <1>1, <2>1, <3>4, <4>2 DEF TypeOK
        <5>3. id \in Has(c)'
          BY <2>6, <5>2 DEF Has
        <5>4. clients'[Len(clients) + 1].id = id
          BY <2>1
        <5>5. EntriesHeld(c)'
          BY <2>1, <5>1, <5>3, <5>4 DEF EntriesHeld
        <5> QED
          BY <3>2, <5>5
      <4>3. CASE state[c] # "asking"
        <5>1. held[c] = None
          BY <2>5, <3>4 DEF Has
        <5>2. state[c] \in {"new", "asking", "running", "gone"}
          BY <1>1 DEF TypeOK
        <5>3. state[c] = "gone"
          BY <2>5, <3>4, <4>1, <4>3, <5>1, <5>2 DEF Progress
        <5>4. EntriesHeld(c)'
          BY <2>2, <5>1, <5>3 DEF EntriesHeld
        <5> QED
          BY <3>2, <5>4
      <4> QED
        BY <4>2, <4>3
    <3> QED
      BY <3>3, <3>4
  <2> QED
    BY <2>3, <2>7 DEF HolderInv
<1>10. CASE HandleHeartbeat
  <2> DEFINE hb == Head(udp)
  <2>1. UNCHANGED <<state, ack, held>> /\ BeatsRight'
    BY <1>1, <1>2, <1>10, BeatsKept DEF HandleHeartbeat, NextDatagram, clientVars
  <2>2. hb \in Datagrams /\ hb = udp[1] /\ 1 \in DOMAIN udp /\ hb.type = "HEARTBEAT"
    <3>1. Len(udp) \in Nat \ {0} /\ hb \in Datagrams /\ hb = udp[1] /\ udp[1].type = "HEARTBEAT"
      BY <1>1, <1>10, DatagramProperties DEF HandleHeartbeat
    <3>2. DOMAIN udp = 1 .. Len(udp)
      BY <1>1, LenProperties DEF TypeOK
    <3> QED
      BY <3>1, <3>2
  <2>3. hb.id \in Has(hb.addr)
    BY <1>2, <2>2 DEF BeatsRight, Has
  <2>4. /\ DOMAIN clients' = DOMAIN clients
        /\ \A k \in DOMAIN clients :
              /\ clients'[k].id = clients[k].id
              /\ clients[k].id = hb.id => clients'[k].addr = hb.addr
              /\ clients[k].id # hb.id => clients'[k] = clients[k]
    BY <1>1, <1>10, <2>2, RefreshedProperties DEF HandleHeartbeat
  <2> HIDE DEF hb
  <2>5. ASSUME NEW c \in Clients
        PROVE  AsksOnce(c)' /\ EntriesHeld(c)'
    <3>1. Has(c)' = Has(c)
      BY <2>1 DEF Has
    <3>2. AsksOnce(c)'
      <4>1. NextDatagram("HEARTBEAT") /\ MayBeginCleanup
        BY <1>10 DEF HandleHeartbeat
      <4> QED
        BY <1>1, <1>3, <2>1, <3>1, <4>1, RequestsTaken
    <3>3. EntriesHeld(c)
      BY <1>3
    <3>4. EntriesHeld(c)'
      BY <2>1, <2>3, <2>4, <3>1, <3>3 DEF EntriesHeld
    <3> QED
      BY <3>2, <3>4
  <2> QED
    BY <2>1, <2>5 DEF HolderInv
<1>11. ASSUME UNCHANGED <<udp, state, ack, held>>,
              \A k \in DOMAIN clients' : \E n \in DOMAIN clients :
                 clients'[k].id = clients[n].id /\ clients'[k].addr = clients[n].addr
       PROVE  HolderInv'
  <2>1. BeatsRight'
    BY <1>2, <1>11 DEF BeatsRight
  <2>2. ASSUME NEW c \in Clients
        PROVE  AsksOnce(c)' /\ EntriesHeld(c)'
    <3>1. Has(c)' = Has(c) /\ state'[c] = state[c] /\ held'[c] = held[c]
      BY <1>11 DEF Has
    <3>2. EntriesHeld(c)'
      BY <1>4, <1>11, <3>1
    <3>3. AsksOnce(c)'
      BY <1>3, <1>11, <3>1, RequestsSame
    <3> QED
      BY <3>2, <3>3
  <2> QED
    BY <2>1, <2>2 DEF HolderInv
<1>12. ASSUME NEW k \in Cleaners, Cleanup(k)
       PROVE  HolderInv'
  <2>1. \A m \in DOMAIN clients' : \E n \in DOMAIN clients : clients'[m] = clients[n]
    BY <1>1, <1>12, CleanupProperties DEF Thinned
  <2>2. UNCHANGED <<udp, state, ack, held>>
    BY <1>12 DEF Cleanup, clientVars
  <2> QED
    BY <1>11, <2>1, <2>2
<1>13. ASSUME NEW id \in Ids, Kick(id)
       PROVE  HolderInv'
  <2>1. \A m \in DOMAIN clients' : \E n \in DOMAIN clients : clients'[m] = clients[n]
    BY <1>1, <1>13, KickProperties DEF Thinned
  <2>2. UNCHANGED <<udp, state, ack, held>>
    BY <1>13 DEF Kick, clientVars
  <2> QED
    BY <1>11, <2>1, <2>2
<1>14. CASE Restart
  <2>1. DOMAIN clients' = {} /\ DOMAIN udp' = {}
    BY <1>14 DEF Restart
  <2> QED
    BY <2>1 DEF HolderInv, BeatsRight, AsksOnce, Requests, EntriesHeld
<1>15. CASE Tick
  <2>1. /\ DOMAIN clients' = DOMAIN clients
        /\ \A k \in DOMAIN clients :
              clients'[k].id = clients[k].id /\ clients'[k].addr = clients[k].addr
    BY <1>1, <1>15, TickProperties
  <2>2. UNCHANGED <<udp, state, ack, held>>
    BY <1>15 DEF Tick
  <2> QED
    BY <1>11, <2>1, <2>2
<1>16. CASE BeginCleanup \/ UNCHANGED vars
  <2>1. UNCHANGED <<clients, udp, state, ack, held>>
    BY <1>16 DEF BeginCleanup, vars, serverVars, clientVars
  <2> QED
    BY <1>11, <2>1
<1> QED
  BY <1>5, <1>6, <1>7, <1>8, <1>9, <1>10, <1>12, <1>13, <1>14, <1>15, <1>16
     DEF Next, ClientStep, UdpThread, Watcher, Cleaners

(***************************************************************************)
(* Whatever restarts, ids that come again and heartbeats do to the list,   *)
(* an entry never has the address of a client that holds another id, and   *)
(* without a restart it has that of the client with its id: the kick       *)
(* message (admin_handler.c:149-151) and the check of a download           *)
(* connection (server.c:389-395) rely on it.                               *)
(***************************************************************************)
THEOREM AddressesAreOwn == Spec => []OwnAddress
<1>1. ListInv /\ AddressInv /\ HolderInv => OwnAddress
  <2> SUFFICES ASSUME ListInv, AddressInv, HolderInv, NEW k \in DOMAIN clients
               PROVE  /\ held[clients[k].addr] \in {None, clients[k].id}
                      /\ restarts = 0 =>
                            \A c \in Clients : held[c] = clients[k].id => clients[k].addr = c
    BY DEF OwnAddress
  <2>1. clients[k].id # None /\ clients[k].addr \in Clients
    <3>1. clients \in Seq(Entries)
      BY DEF ListInv, TypeOK, Entries
    <3>2. clients[k] \in Entries
      BY <3>1, ElementOfSeq, LenProperties
    <3> QED
      BY <3>2, EntryTypes
  <2>2. restarts = 0 => \A c \in Clients : held[c] = clients[k].id => clients[k].addr = c
    BY <2>1 DEF AddressInv, OwnIds, AddressesRight, Has
  <2> DEFINE c == clients[k].addr
  <2>3. EntriesHeld(c) /\ Progress(c)
    BY <2>1 DEF HolderInv, AddressInv
  <2>4. clients[k].id \in Has(c) \/ held[c] = None
    BY <2>3 DEF EntriesHeld
  <2>5. ack[c] # None => held[c] = None
    BY <2>3 DEF Progress
  <2>6. held[c] \in {None, clients[k].id}
    BY <2>4, <2>5 DEF Has
  <2> QED
    BY <2>2, <2>6
<1>2. ListInv /\ AddressInv /\ HolderInv /\ [Next]_vars => HolderInv'
  BY HolderPreserved DEF AddressInv
<1> QED
  BY ListInitially, ListPreserved, AddressInitially, AddressPreserved, HolderInitially,
     <1>1, <1>2, PTL DEF Spec

-----------------------------------------------------------------------------
(***************************************************************************)
(* How old the entry of a running client can be, where datagrams are       *)
(* answered within the tick and the server is not restarted: as old as the *)
(* heartbeats lost in a row make it, and the time since the last, unless   *)
(* one is in the socket.                                                   *)
(***************************************************************************)
Limit  == (MaxLosses + 1) * Interval
Due(c) == lost[c] * Interval + since[c]

LossesTolerated == Limit < Timeout

Beating(c) == \E n \in DOMAIN udp : udp[n].type = "HEARTBEAT" /\ udp[n].addr = c

Fresh(c, k) ==
    /\ clients[k].id = held[c]
    /\ clients[k].age <= Limit
    /\ Beating(c) \/ clients[k].age <= Due(c)

InTime(c) ==
    /\ ack[c] # None /\ ack[c] \notin kicked =>
          \E k \in DOMAIN clients : clients[k].id = ack[c] /\ clients[k].age = 0
    /\ state[c] = "running" /\ held[c] \notin kicked => \E k \in DOMAIN clients : Fresh(c, k)

TimeInv == prompt /\ restarts = 0 => \A c \in Clients : InTime(c)

LEMMA TimeInitially == Init => TimeInv
BY DEF Init, TimeInv, InTime

LEMMA LimitProperties ==
    /\ Limit \in Nat
    /\ \A l \in 0 .. MaxLosses :
          /\ l * Interval \in Nat
          /\ l * Interval + Interval <= Limit
          /\ (l + 1) * Interval = l * Interval + Interval
<1>1. Interval \in Nat /\ MaxLosses \in Nat
  BY TimesAssumption, BoundsAssumption
<1>2. \A m, n \in Nat : m * n \in Nat
  OBVIOUS
<1>3. \A l \in Nat : (l + 1) * Interval = l * Interval + Interval
  BY <1>1
<1>4. ASSUME NEW l \in 0 .. MaxLosses
      PROVE  l * Interval + Interval <= Limit
  <2>1. MaxLosses - l \in Nat /\ MaxLosses = l + (MaxLosses - l)
    BY <1>1
  <2>2. \A d \in Nat : (l + d) * Interval = l * Interval + d * Interval
    BY <1>1
  <2>3. MaxLosses * Interval = l * Interval + (MaxLosses - l) * Interval
    BY <2>1, <2>2, Zenon
  <2>4. (MaxLosses - l) * Interval \in Nat /\ l * Interval \in Nat /\ MaxLosses * Interval \in Nat
    BY <1>1, <1>2, <2>1
  <2>5. Limit = MaxLosses * Interval + Interval
    BY <1>1, <1>3 DEF Limit
  <2> QED
    BY <1>1, <2>3, <2>4, <2>5
<1>5. Limit \in Nat
  <2>1. MaxLosses + 1 \in Nat
    BY <1>1
  <2> QED
    BY <1>1, <1>2, <2>1 DEF Limit
<1>6. \A l \in 0 .. MaxLosses : l \in Nat /\ l * Interval \in Nat
  BY <1>1, <1>2
<1> QED
  BY <1>3, <1>4, <1>5, <1>6

LEMMA DueProperties ==
    ASSUME TypeOK, NEW c \in Clients
    PROVE  /\ Due(c) \in Nat /\ Due(c) <= Limit
           /\ lost[c] \in 0 .. MaxLosses /\ since[c] \in 0 .. Interval
           /\ lost[c] * Interval \in Nat
<1>1. lost[c] \in 0 .. MaxLosses /\ since[c] \in 0 .. Interval
  BY DEF TypeOK
<1>2. /\ Limit \in Nat
      /\ lost[c] * Interval \in Nat
      /\ lost[c] * Interval + Interval <= Limit
  BY <1>1, LimitProperties
<1> QED
  BY <1>1, <1>2, TimesAssumption DEF Due

LEMMA AgeTypes ==
    ASSUME TypeOK
    PROVE  /\ clients \in Seq(Entries)
           /\ \A k \in DOMAIN clients : clients[k] \in Entries /\ clients[k].age \in Nat
<1>1. clients \in Seq(Entries)
  BY DEF TypeOK, Entries
<1>2. \A k \in DOMAIN clients : clients[k] \in Entries
  BY <1>1, ElementOfSeq, LenProperties
<1> QED
  BY <1>1, <1>2, EntryTypes

(***************************************************************************)
(* Heartbeats stay in the socket until they are handled.                   *)
(***************************************************************************)
LEMMA BeatingAppended ==
    ASSUME TypeOK, NEW d \in Datagrams, udp' = Append(udp, d)
    PROVE  /\ \A c \in Clients : Beating(c) => Beating(c)'
           /\ d.type = "HEARTBEAT" => Beating(d.addr)'
<1>1. udp \in Seq(Datagrams)
  BY DEF TypeOK
<1>2. /\ Append(udp, d) \in Seq(Datagrams)
      /\ Len(Append(udp, d)) = Len(udp) + 1
      /\ \A n \in 1 .. Len(udp) : Append(udp, d)[n] = udp[n]
      /\ Append(udp, d)[Len(udp) + 1] = d
  BY <1>1, AppendProperties
<1>3. /\ DOMAIN udp = 1 .. Len(udp) /\ Len(udp) \in Nat
      /\ DOMAIN Append(udp, d) = 1 .. Len(Append(udp, d))
  BY <1>1, <1>2, LenProperties
<1>4. /\ \A n \in DOMAIN udp : n \in DOMAIN udp' /\ udp'[n] = udp[n]
      /\ Len(udp) + 1 \in DOMAIN udp' /\ udp'[Len(udp) + 1] = d
  BY <1>2, <1>3
<1> QED
  BY <1>4 DEF Beating

LEMMA BeatingHandled ==
    ASSUME TypeOK, NEW t, NextDatagram(t), MayBeginCleanup, NEW c \in Clients, Beating(c),
           t # "HEARTBEAT" \/ Head(udp).addr # c
    PROVE  Beating(c)'
<1>1. /\ Len(udp) \in Nat \ {0} /\ Len(udp') = Len(udp) - 1
      /\ \A n \in 1 .. Len(udp) - 1 : udp'[n] = udp[n + 1]
      /\ Head(udp) = udp[1] /\ udp[1].type = t
      /\ udp' \in Seq(Datagrams)
  BY DatagramProperties
<1>2. DOMAIN udp = 1 .. Len(udp) /\ DOMAIN udp' = 1 .. Len(udp')
  BY <1>1, LenProperties DEF TypeOK
<1>3. PICK n \in DOMAIN udp : udp[n].type = "HEARTBEAT" /\ udp[n].addr = c
  BY DEF Beating
<1>4. n # 1
  BY <1>1, <1>3
<1>5. n - 1 \in DOMAIN udp' /\ udp'[n - 1] = udp[n]
  BY <1>1, <1>2, <1>4
<1> QED
  BY <1>3, <1>5 DEF Beating

(***************************************************************************)
(* A step that neither takes the entry of c away, nor makes it older, nor  *)
(* takes its heartbeat.                                                    *)
(***************************************************************************)
LEMMA CarriedOn ==
    ASSUME TypeOK, NEW c \in Clients, InTime(c),
           \A k \in DOMAIN clients :
              clients[k].id \notin kicked' /\ clients[k].age <= Limit =>
                 \E m \in DOMAIN clients' :
                    /\ clients'[m].id = clients[k].id
                    /\ clients'[m].age = clients[k].age \/ clients'[m].age = 0,
           kicked \subseteq kicked',
           state'[c] = "running" => state[c] = "running",
           UNCHANGED <<ack[c], held[c], lost[c], since[c]>>,
           Beating(c) => Beating(c)'
    PROVE  InTime(c)'
<1>1. Limit \in Nat /\ Due(c) \in Nat /\ Due(c)' = Due(c)
  BY LimitProperties, DueProperties DEF Due
<1>2. ASSUME ack'[c] # None, ack'[c] \notin kicked'
      PROVE  \E m \in DOMAIN clients' : clients'[m].id = ack'[c] /\ clients'[m].age = 0
  <2>1. PICK k \in DOMAIN clients : clients[k].id = ack[c] /\ clients[k].age = 0
    BY <1>2 DEF InTime
  <2>2. 0 <= Limit
    BY <1>1
  <2> QED
    BY <1>2, <2>1, <2>2
<1>3. ASSUME state'[c] = "running", held'[c] \notin kicked'
      PROVE  \E m \in DOMAIN clients' : Fresh(c, m)'
  <2>1. PICK k \in DOMAIN clients : Fresh(c, k)
    BY <1>3 DEF InTime
  <2>2. PICK m \in DOMAIN clients' :
           /\ clients'[m].id = clients[k].id
           /\ clients'[m].age = clients[k].age \/ clients'[m].age = 0
    BY <1>3, <2>1 DEF Fresh
  <2>3. Fresh(c, m)'
    BY <1>1, <2>1, <2>2 DEF Fresh
  <2> QED
    BY <2>3
<1> QED
  BY <1>2, <1>3 DEF InTime

LEMMA TimePreserved ==
    ASSUME LossesTolerated
    PROVE  ListInv /\ AddressInv /\ TimeInv /\ [Next]_vars => TimeInv'
<1> SUFFICES ASSUME ListInv, AddressInv, TimeInv, [Next]_vars,
                    prompt', restarts' = 0, NEW c \in Clients
             PROVE  InTime(c)'
  BY DEF TimeInv
<1>1. TypeOK /\ DistinctIds /\ clients \in Seq(Entries)
  BY AgeTypes DEF ListInv
<1>2. restarts = 0 /\ ~Restart
  <2>1. restarts' = restarts \/ Restart
    BY DEF Next, ClientStep, AskForId, ReceiveId, SendHeartbeat, Leave, UdpThread, Watcher,
           HandleClientIdReq, HandleHeartbeat, BeginCleanup, Cleanup, Kick, Tick,
           vars, serverVars
  <2>2. Restart => restarts' # 0
    BY <1>1 DEF Restart, TypeOK
  <2> QED
    BY <2>1, <2>2
<1>3. prompt
  BY DEF Next, vars
<1>4. InTime(c) /\ OwnIds /\ Progress(c)
  BY <1>2, <1>3 DEF TimeInv, AddressInv
<1>5. /\ Limit \in Nat /\ Limit < Timeout /\ Timeout \in Nat
      /\ Due(c) \in Nat /\ Due(c) <= Limit
      /\ lost[c] \in 0 .. MaxLosses /\ since[c] \in 0 .. Interval
      /\ lost[c] * Interval \in Nat
      /\ \A k \in DOMAIN clients : clients[k].age \in Nat
  BY <1>1, LimitProperties, DueProperties, AgeTypes, TimesAssumption DEF LossesTolerated
<1>6. ASSUME UNCHANGED <<clients, kicked>>
      PROVE  /\ \A k \in DOMAIN clients :
                   clients[k].id \notin kicked' /\ clients[k].age <= Limit =>
                      \E m \in DOMAIN clients' :
                         /\ clients'[m].id = clients[k].id
                         /\ clients'[m].age = clients[k].age \/ clients'[m].age = 0
             /\ kicked \subseteq kicked'
  BY <1>6
<1>7. ASSUME NEW d \in Clients, AskForId(d)
      PROVE  InTime(c)'
  <2>1. [type |-> "CLIENT_ID_REQ", addr |-> d, id |-> None] \in Datagrams
    BY DEF Datagrams
  <2>2. Beating(c) => Beating(c)'
    BY <1>1, <1>7, <2>1, BeatingAppended DEF AskForId
  <2>3. state'[c] = "running" => state[c] = "running"
    BY <1>1, <1>7 DEF AskForId, TypeOK
  <2>4. UNCHANGED <<clients, kicked, ack[c], held[c], lost[c], since[c]>>
    BY <1>7 DEF AskForId
  <2> QED
    BY <1>1, <1>4, <1>6, <2>2, <2>3, <2>4, CarriedOn
<1>8. ASSUME NEW d \in Clients, ReceiveId(d)
      PROVE  InTime(c)'
  <2>1. UNCHANGED <<clients, kicked, udp>>
    BY <1>8 DEF ReceiveId, serverVars
  <2>2. CASE c # d
    <3>1. UNCHANGED <<state[c], ack[c], held[c], lost[c], since[c]>>
      BY <1>1, <1>8, <2>2 DEF ReceiveId, TypeOK
    <3>2. Beating(c) => Beating(c)'
      BY <2>1 DEF Beating
    <3> QED
      BY <1>1, <1>4, <1>6, <2>1, <3>1, <3>2, CarriedOn
  <2>3. CASE c = d
    <3>1. /\ ack[c] # None /\ held'[c] = ack[c] /\ ack'[c] = None
          /\ since'[c] = Interval /\ lost'[c] = lost[c]
      BY <1>1, <1>8, <2>3 DEF ReceiveId, TypeOK
    <3>2. ASSUME held'[c] \notin kicked'
          PROVE  \E k \in DOMAIN clients' : Fresh(c, k)'
      <4>1. PICK k \in DOMAIN clients : clients[k].id = ack[c] /\ clients[k].age = 0
        BY <1>4, <2>1, <3>1, <3>2 DEF InTime
      <4>2. Due(c)' = lost[c] * Interval + Interval /\ Interval \in Nat
        BY <3>1, TimesAssumption DEF Due
      <4>3. Fresh(c, k)'
        BY <1>5, <2>1, <3>1, <4>1, <4>2 DEF Fresh
      <4> QED
        BY <2>1, <4>1, <4>3
    <3> QED
      BY <3>1, <3>2 DEF InTime
  <2> QED
    BY <2>2, <2>3
<1>9. ASSUME NEW d \in Clients, SendHeartbeat(d)
      PROVE  InTime(c)'
  <2>1. UNCHANGED <<clients, kicked, state, ack, held>>
    BY <1>9 DEF SendHeartbeat
  <2>2. [type |-> "HEARTBEAT", addr |-> d, id |-> held[d]] \in Datagrams
    BY <1>1 DEF Datagrams, TypeOK
  <2>3. \/ udp' = Append(udp, [type |-> "HEARTBEAT", addr |-> d, id |-> held[d]])
        \/ lost' = [lost EXCEPT ![d] = @ + 1] /\ lost[d] < MaxLosses /\ UNCHANGED udp
    BY <1>9 DEF SendHeartbeat
  <2>4. Beating(c) => Beating(c)'
    <3>1. UNCHANGED udp => (Beating(c) => Beating(c)')
      BY DEF Beating
    <3> QED
      BY <1>1, <2>2, <2>3, <3>1, BeatingAppended
  <2>5. CASE c # d
    <3>1. UNCHANGED <<lost[c], since[c]>>
      BY <1>1, <1>9, <2>5 DEF SendHeartbeat, TypeOK
    <3> QED
      BY <1>1, <1>4, <1>6, <2>1, <2>4, <3>1, CarriedOn
  <2>6. CASE c = d
    <3>1. since[c] = Interval /\ since'[c] = 0
      BY <1>1, <1>9, <2>6 DEF SendHeartbeat, TypeOK
    <3>2. Beating(c)' \/ lost'[c] = lost[c] + 1
      <4>1. CASE udp' = Append(udp, [type |-> "HEARTBEAT", addr |-> d, id |-> held[d]])
        BY <1>1, <2>2, <2>6, <4>1, BeatingAppended
      <4>2. CASE lost' = [lost EXCEPT ![d] = @ + 1]
        BY <1>1, <2>6, <4>2 DEF TypeOK
      <4> QED
        BY <2>3, <4>1, <4>2
    <3>3. Beating(c)' \/ Due(c)' = Due(c)
      <4>1. (lost[c] + 1) * Interval = lost[c] * Interval + Interval
        BY <1>5, LimitProperties
      <4>2. Interval \in Nat
        BY TimesAssumption
      <4> QED
        BY <1>5, <3>1, <3>2, <4>1, <4>2 DEF Due
    <3>4. ASSUME NEW k \in DOMAIN clients, Fresh(c, k)
          PROVE  Fresh(c, k)'
      BY <2>1, <2>4, <3>3, <3>4 DEF Fresh
    <3> QED
      BY <1>4, <2>1, <3>4 DEF InTime
  <2> QED
    BY <2>5, <2>6
<1>10. ASSUME NEW d \in Clients, Leave(d)
       PROVE  InTime(c)'
  <2>1. UNCHANGED <<clients, kicked, udp, held>>
    BY <1>10 DEF Leave, serverVars
  <2>2. CASE c # d
    <3>1. UNCHANGED <<state[c], ack[c], lost[c], since[c]>>
      BY <1>1, <1>10, <2>2 DEF Leave, TypeOK
    <3>2. Beating(c) => Beating(c)'
      BY <2>1 DEF Beating
    <3> QED
      BY <1>1, <1>4, <1>6, <2>1, <3>1, <3>2, CarriedOn
  <2>3. CASE c = d
    BY <1>1, <1>10, <2>3 DEF Leave, TypeOK, InTime
  <2> QED
    BY <2>2, <2>3
<1>11. CASE HandleClientIdReq
  <2>1. PICK id \in Ids, d \in Clients :
           /\ ack' = IF state[d] = "asking" THEN [ack EXCEPT ![d] = id] ELSE ack
           /\ DOMAIN clients' = DOMAIN clients \cup {Len(clients) + 1}
           /\ \A k \in DOMAIN clients : clients'[k] = clients[k]
           /\ clients'[Len(clients) + 1] = [id |-> id, addr |-> d, age |-> 0]
    BY <1>1, <1>11, RegisteredProperties, Zenon
  <2>2. UNCHANGED <<kicked, state, held, since, lost>>
    BY <1>11 DEF HandleClientIdReq
  <2>3. Beating(c) => Beating(c)'
    BY <1>1, <1>11, BeatingHandled DEF HandleClientIdReq
  <2>4. CASE ack'[c] = ack[c]
    BY <1>1, <1>4, <2>1, <2>2, <2>3, <2>4, CarriedOn
  <2>5. CASE ack'[c] # ack[c]
    <3>1. ack'[c] = id /\ state[c] = "asking"
      BY <1>1, <2>1, <2>5 DEF TypeOK
    <3>2. clients'[Len(clients) + 1].id = id /\ clients'[Len(clients) + 1].age = 0
      BY <2>1
    <3> QED
      BY <2>1, <2>2, <3>1, <3>2 DEF InTime
  <2> QED
    BY <2>4, <2>5
<1>12. CASE HandleHeartbeat
  <2> DEFINE hb == Head(udp)
  <2>1. UNCHANGED <<kicked, state, ack, held, since, lost>>
    BY <1>12 DEF HandleHeartbeat, clientVars
  <2>2. hb \in Datagrams /\ hb.id = held[hb.addr]
    <3>1. /\ Len(udp) \in Nat \ {0} /\ hb \in Datagrams
          /\ hb = udp[1] /\ udp[1].type = "HEARTBEAT"
      BY <1>1, <1>12, DatagramProperties DEF HandleHeartbeat
    <3>2. 1 \in DOMAIN udp
      BY <1>1, <3>1, LenProperties DEF TypeOK
    <3> QED
      BY <1>4, <3>1, <3>2 DEF OwnIds, BeatsRight
  <2>3. /\ DOMAIN clients' = DOMAIN clients
        /\ \A k \in DOMAIN clients :
              /\ clients'[k].id = clients[k].id
              /\ clients[k].id = hb.id => clients'[k].age = 0
              /\ clients[k].id # hb.id => clients'[k] = clients[k]
    BY <1>1, <1>12, <2>2, RefreshedProperties DEF HandleHeartbeat
  <2>4. hb.addr # c /\ Beating(c) => Beating(c)'
    BY <1>1, <1>12, BeatingHandled DEF HandleHeartbeat
  <2> HIDE DEF hb
  <2>5. CASE hb.addr # c
    BY <1>1, <1>4, <2>1, <2>3, <2>4, <2>5, CarriedOn
  <2>6. CASE hb.addr = c
    <3>1. ASSUME NEW k \in DOMAIN clients, Fresh(c, k)
          PROVE  Fresh(c, k)'
      <4>1. clients'[k].id = held'[c] /\ clients'[k].age = 0
        BY <2>1, <2>2, <2>3, <2>6, <3>1 DEF Fresh
      <4>2. Due(c)' = Due(c)
        BY <2>1 DEF Due
      <4> QED
        BY <1>5, <4>1, <4>2 DEF Fresh
    <3>2. \A k \in DOMAIN clients : clients[k].age = 0 => clients'[k].age = 0
      BY <2>3
    <3> QED
      BY <1>4, <2>1, <2>3, <3>1, <3>2 DEF InTime
  <2> QED
    BY <2>5, <2>6
<1>13. ASSUME NEW k \in Cleaners, Cleanup(k)
       PROVE  InTime(c)'
  <2>1. \A n \in DOMAIN clients :
           Alive(clients[n], lag[k]) => \E m \in DOMAIN clients' : clients'[m] = clients[n]
    BY <1>1, <1>13, CleanupProperties
  <2>2. lag[k] \in Nat
    BY <1>1, <1>13, TimesAssumption DEF TypeOK, Cleanup
  <2>3. \A n \in DOMAIN clients : clients[n].age <= Limit => Alive(clients[n], lag[k])
    BY <1>5, <2>2 DEF Alive
  <2>4. UNCHANGED <<kicked, udp, state, ack, held, since, lost>>
    BY <1>13 DEF Cleanup, clientVars
  <2>5. Beating(c) => Beating(c)'
    BY <2>4 DEF Beating
  <2> QED
    BY <1>1, <1>4, <2>1, <2>3, <2>4, <2>5, CarriedOn
<1>14. ASSUME NEW id \in Ids, Kick(id)
       PROVE  InTime(c)'
  <2>1. \A n \in DOMAIN clients :
           clients[n].id # id => \E m \in DOMAIN clients' : clients'[m] = clients[n]
    BY <1>1, <1>14, KickProperties
  <2>2. kicked' = kicked \cup {id} /\ UNCHANGED <<udp, state, ack, held, since, lost>>
    BY <1>14 DEF Kick, clientVars
  <2>3. Beating(c) => Beating(c)'
    BY <2>2 DEF Beating
  <2> QED
    BY <1>1, <1>4, <2>1, <2>2, <2>3, CarriedOn
<1>15. CASE Tick
  <2>1. /\ DOMAIN clients' = DOMAIN clients
        /\ \A k \in DOMAIN clients :
              clients'[k].id = clients[k].id /\ clients'[k].age <= clients[k].age + 1
    BY <1>1, <1>15, TickProperties
  <2>2. /\ udp = <<>> /\ ack[c] = None
        /\ UNCHANGED <<kicked, udp, state, ack, held, lost>>
    BY <1>3, <1>15 DEF Tick
  <2>3. ~Beating(c)
    BY <2>2 DEF Beating
  <2>4. ASSUME state[c] = "running", NEW k \in DOMAIN clients, Fresh(c, k)
        PROVE  Fresh(c, k)'
    <3>1. since[c] < Interval /\ since'[c] = since[c] + 1
      BY <1>15, <2>4 DEF Tick
    <3>2. Due(c)' = Due(c) + 1
      BY <1>5, <2>2, <3>1 DEF Due
    <3>3. Due(c) + 1 <= Limit
      <4>1. lost[c] * Interval + Interval <= Limit
        BY <1>5, LimitProperties
      <4> QED
        BY <1>5, <3>1, <4>1, TimesAssumption DEF Due
    <3>4. clients'[k].age \in Nat
      <4>1. clients' \in Seq(Entries)
        BY <1>1, <1>15, TickProperties
      <4>2. clients'[k] \in Entries
        BY <2>1, <4>1, ElementOfSeq, LenProperties
      <4> QED
        BY <4>2, EntryTypes
    <3> QED
      BY <1>5, <2>1, <2>2, <2>3, <2>4, <3>2, <3>3, <3>4 DEF Fresh
  <2> QED
    BY <1>4, <2>1, <2>2, <2>4 DEF InTime
<1>16. CASE BeginCleanup \/ UNCHANGED vars
  <2>1. UNCHANGED <<clients, kicked, udp, state, ack, held, since, lost>>
    BY <1>16 DEF BeginCleanup, vars, serverVars, clientVars
  <2>2. Beating(c) => Beating(c)'
    BY <2>1 DEF Beating
  <2> QED
    BY <1>1, <1>4, <1>6, <2>1, <2>2, CarriedOn
<1> QED
  BY <1>2, <1>7, <1>8, <1>9, <1>10, <1>11, <1>12, <1>13, <1>14, <1>15, <1>16
     DEF Next, ClientStep, UdpThread, Watcher, Cleaners

(***************************************************************************)
(* A client that runs stays listed, if the heartbeats that may be lost in  *)
(* a row leave less than HEARTBEAT_TIMEOUT between two that arrive (two    *)
(* with 10 s and 30 s would be one too many), datagrams are answered in    *)
(* time and the server is not restarted.                                   *)
(***************************************************************************)
THEOREM RunningClientsStay ==
    ASSUME LossesTolerated
    PROVE  Spec => []LiveClientsListed
<1>1. TimeInv => LiveClientsListed
  BY DEF TimeInv, InTime, Fresh, LiveClientsListed, Listed
<1>2. ListInv /\ AddressInv /\ TimeInv /\ [Next]_vars => TimeInv'
  BY TimePreserved
<1> QED
  BY ListInitially, ListPreserved, AddressInitially, AddressPreserved,
     TimeInitially, <1>1, <1>2, PTL DEF Spec
=============================================================================
