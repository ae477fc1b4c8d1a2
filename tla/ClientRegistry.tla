--------------------------- MODULE ClientRegistry ---------------------------
(***************************************************************************)
(* The server's list of clients: registration, heartbeats, the removal of  *)
(* clients that have fallen silent, and the administrator's kick           *)
(* (src/server/server.c, admin_handler.c), with the clients that register  *)
(* and send heartbeats (src/client/client.c).                              *)
(*                                                                         *)
(* Time passes in ticks.  What the code stores as a point of time is kept  *)
(* here as the time since: last_heartbeat as the age of an entry, and the  *)
(* "now" that cleanup_dead_clients reads before it has the mutex as the    *)
(* cleaner's lag, so that now - last_heartbeat is age - lag.               *)
(*                                                                         *)
(* The critical sections of clients_mutex are single steps.  The admin's   *)
(* `list` holds it while it writes to a socket: a cleaner may have to wait *)
(* up to MaxLag ticks.                                                     *)
(***************************************************************************)
EXTENDS Integers, Sequences, SequencesExt, FiniteSets

CONSTANTS
    Clients,      \* client processes, each at an address of its own
    Interval,     \* HEARTBEAT_INTERVAL
    Timeout,      \* HEARTBEAT_TIMEOUT
    MaxLag,       \* how long a cleaner may wait for clients_mutex
    Buffer,       \* datagrams the server's socket holds
    MaxLosses,    \* heartbeats of one client that may be lost in a row
    MaxRestarts,  \* how often the server may be restarted
    None          \* nothing

ASSUME TimesAssumption == /\ Interval \in Nat \ {0}
                          /\ Timeout \in Nat \ {0}
                          /\ MaxLag \in Nat
ASSUME BoundsAssumption == /\ Buffer \in Nat \ {0}
                           /\ MaxLosses \in Nat
                           /\ MaxRestarts \in Nat
ASSUME ClientsAssumption == IsFiniteSet(Clients)
ASSUME NoneAssumption == None \notin Nat

Cleaners == {"watcher", "udp"}
MaxAge   == Timeout + MaxLag  \* an age beyond this one is no different
Ids      == 1 .. Cardinality(Clients)  \* each client asks for one

VARIABLES
    prompt,    \* whether datagrams are answered within the tick: chosen once
    (* the server *)
    clients,   \* sequence of [id, addr, age]
    given,     \* ids generated since the server started
    lag,       \* time since each cleaner read the clock, None when it is not cleaning
    udp,       \* datagrams in the server's socket
    kicked,    \* ids the administrator removed
    restarts,  \* how often the server was restarted
    (* the clients *)
    state,     \* "new", "asking" for an id, "running", "gone"
    ack,       \* the id in a CLIENT_ID_ACK on its way
    held,      \* the id a client has
    since,     \* time since its last heartbeat
    lost       \* its heartbeats lost in a row

serverVars == <<clients, given, lag, udp, kicked, restarts>>
clientVars == <<state, ack, held, since, lost>>
vars == <<prompt, serverVars, clientVars>>

Datagrams == [type : {"CLIENT_ID_REQ", "HEARTBEAT"}, addr : Clients, id : Ids \cup {None}]

Init ==
    /\ prompt \in BOOLEAN
    /\ clients = <<>>
    /\ given = {}
    /\ lag = [k \in Cleaners |-> None]
    /\ udp = <<>>
    /\ kicked = {}
    /\ restarts = 0
    /\ state = [c \in Clients |-> "new"]
    /\ ack = [c \in Clients |-> None]
    /\ held = [c \in Clients |-> None]
    /\ since = [c \in Clients |-> 0]
    /\ lost = [c \in Clients |-> 0]

Listed(id) == \E k \in DOMAIN clients : clients[k].id = id

-----------------------------------------------------------------------------
(* The clients.                                                            *)

(***************************************************************************)
(* get_client_id: the request, and a wait for the answer that has no end   *)
(* when the answer does not come.                                          *)
(***************************************************************************)
AskForId(c) ==
    /\ state[c] = "new"
    /\ Len(udp) < Buffer
    /\ udp' = Append(udp, [type |-> "CLIENT_ID_REQ", addr |-> c, id |-> None])
    /\ state' = [state EXCEPT ![c] = "asking"]
    /\ UNCHANGED <<clients, given, lag, kicked, restarts, ack, held, since, lost>>

(* The heartbeat thread starts, and its first heartbeat is due at once. *)
ReceiveId(c) ==
    /\ state[c] = "asking"
    /\ ack[c] # None
    /\ held' = [held EXCEPT ![c] = ack[c]]
    /\ ack' = [ack EXCEPT ![c] = None]
    /\ since' = [since EXCEPT ![c] = Interval]
    /\ state' = [state EXCEPT ![c] = "running"]
    /\ UNCHANGED <<serverVars, lost>>

(* heartbeat_thread: a datagram may get lost, on its way or in a full buffer. *)
SendHeartbeat(c) ==
    /\ state[c] = "running"
    /\ since[c] = Interval
    /\ since' = [since EXCEPT ![c] = 0]
    /\ \/ /\ Len(udp) < Buffer
          /\ udp' = Append(udp, [type |-> "HEARTBEAT", addr |-> c, id |-> held[c]])
          /\ lost' = [lost EXCEPT ![c] = 0]
       \/ /\ lost[c] < MaxLosses
          /\ lost' = [lost EXCEPT ![c] = @ + 1]
          /\ UNCHANGED udp
    /\ UNCHANGED <<clients, given, lag, kicked, restarts, state, ack, held>>

(* The program ends, in whatever state it is. *)
Leave(c) ==
    /\ state[c] # "gone"
    /\ state' = [state EXCEPT ![c] = "gone"]
    /\ ack' = [ack EXCEPT ![c] = None]
    /\ since' = [since EXCEPT ![c] = 0]
    /\ lost' = [lost EXCEPT ![c] = 0]
    /\ UNCHANGED <<serverVars, held>>

-----------------------------------------------------------------------------
(* The UDP thread: client_thread and handle_udp_message.                   *)

NextDatagram(type) ==
    /\ lag["udp"] = None
    /\ udp # <<>>
    /\ Head(udp).type = type
    /\ udp' = Tail(udp)

(* After a datagram, one time in twenty: the thread begins to clean up. *)
MayBeginCleanup ==
    \/ UNCHANGED lag
    \/ lag' = [lag EXCEPT !["udp"] = 0]

(***************************************************************************)
(* generate_client_id: sixteen bytes of rand(), which nothing compares     *)
(* with the ids in the list.  That no two of them are alike while one      *)
(* process runs is an assumption on rand(), on which every property below  *)
(* that finds an entry by its id rests.  The generator is never seeded,    *)
(* and between two ids it is drawn from once per datagram, so after a      *)
(* restart an id of before may come again.                                 *)
(***************************************************************************)
GeneratedIds == Ids \ given

HandleClientIdReq ==
    /\ NextDatagram("CLIENT_ID_REQ")
    /\ \E id \in GeneratedIds :
          LET c == Head(udp).addr
          IN  /\ clients' = Append(clients, [id |-> id, addr |-> c, age |-> 0])
              /\ ack' = IF state[c] = "asking" THEN [ack EXCEPT ![c] = id] ELSE ack
              /\ given' = given \cup {id}
    /\ MayBeginCleanup
    /\ UNCHANGED <<kicked, restarts, state, held, since, lost>>

(***************************************************************************)
(* Definitions named ...Bug are the mistakes the properties below must     *)
(* catch; no action uses them.                                             *)
(***************************************************************************)
EveryEntryBug(hb) ==
    [k \in DOMAIN clients |-> [clients[k] EXCEPT !.age = 0]]

AheadOfClockBug(hb) ==
    [k \in DOMAIN clients |->
        IF clients[k].id = hb.id THEN [clients[k] EXCEPT !.age = @ - 1] ELSE clients[k]]

NewestEntryBug(hb) ==
    [k \in DOMAIN clients |->
        IF k = Len(clients) THEN [clients[k] EXCEPT !.addr = hb.addr, !.age = 0]
        ELSE clients[k]]

(* The entry with the id gets the time and the sender's address. *)
Refreshed(hb) ==
    [k \in DOMAIN clients |->
        IF clients[k].id = hb.id /\ \A m \in 1 .. k - 1 : clients[m].id # hb.id
        THEN [clients[k] EXCEPT !.addr = hb.addr, !.age = 0]
        ELSE clients[k]]

(* A heartbeat with an unknown id changes nothing: nobody is registered again. *)
HandleHeartbeat ==
    /\ NextDatagram("HEARTBEAT")
    /\ clients' = Refreshed(Head(udp))
    /\ MayBeginCleanup
    /\ UNCHANGED <<given, kicked, restarts, clientVars>>

-----------------------------------------------------------------------------
(* cleanup_dead_clients, by the watcher and by the UDP thread.             *)

(* watcher_thread wakes and reads the clock. *)
BeginCleanup ==
    /\ lag["watcher"] = None
    /\ lag' = [lag EXCEPT !["watcher"] = 0]
    /\ UNCHANGED <<clients, given, udp, kicked, restarts, clientVars>>

UnsignedBug(entry, behind) == entry.age >= behind /\ entry.age - behind < Timeout
LastTickBug(entry, behind) == entry.age - behind < Timeout - 1

(* The difference is signed: a heartbeat may be younger than "now". *)
Alive(entry, behind) == entry.age - behind < Timeout

InOrder(places) ==
    {f \in Bijection(1 .. Cardinality(places), places) :
        \A i, j \in DOMAIN f : i < j => f[i] < f[j]}

(* With the mutex, and with the time read before it: the rest moves up, in order. *)
Cleanup(k) ==
    /\ lag[k] # None
    /\ \E f \in InOrder({n \in DOMAIN clients : Alive(clients[n], lag[k])}) :
          clients' = [i \in DOMAIN f |-> clients[f[i]]]
    /\ lag' = [lag EXCEPT ![k] = None]
    /\ UNCHANGED <<given, udp, kicked, restarts, clientVars>>

-----------------------------------------------------------------------------
(* kick_client_by_id: the entry goes, the client is told and goes on. *)
Kick(id) ==
    /\ Listed(id)
    /\ clients' = RemoveAt(clients, CHOOSE k \in DOMAIN clients : clients[k].id = id)
    /\ kicked' = kicked \cup {id}
    /\ UNCHANGED <<given, lag, udp, restarts, clientVars>>

(* Everything the server knows is in its memory; clients do not notice. *)
Restart ==
    /\ restarts < MaxRestarts
    /\ restarts' = restarts + 1
    /\ clients' = <<>>
    /\ given' = {}
    /\ lag' = [k \in Cleaners |-> None]
    /\ udp' = <<>>
    /\ kicked' = {}
    /\ UNCHANGED clientVars

Older(age) == IF age < MaxAge THEN age + 1 ELSE age

(***************************************************************************)
(* Time passes.  No running client is late with its heartbeat, no cleaner  *)
(* waits longer than MaxLag, and where datagrams are answered promptly     *)
(* none is left over.                                                      *)
(***************************************************************************)
Tick ==
    /\ \A c \in Clients : state[c] = "running" => since[c] < Interval
    /\ \A k \in Cleaners : lag[k] # None => lag[k] < MaxLag
    /\ prompt => udp = <<>> /\ \A c \in Clients : ack[c] = None
    /\ clients' = [k \in DOMAIN clients |-> [clients[k] EXCEPT !.age = Older(@)]]
    /\ lag' = [k \in Cleaners |-> IF lag[k] = None THEN None ELSE lag[k] + 1]
    /\ since' = [c \in Clients |-> IF state[c] = "running" THEN since[c] + 1 ELSE since[c]]
    /\ UNCHANGED <<given, udp, kicked, restarts, state, ack, held, lost>>

ClientStep(c) == AskForId(c) \/ ReceiveId(c) \/ SendHeartbeat(c)
UdpThread == HandleClientIdReq \/ HandleHeartbeat \/ Cleanup("udp")
Watcher   == BeginCleanup \/ Cleanup("watcher")

Next ==
    /\ UNCHANGED prompt
    /\ \/ \E c \in Clients : ClientStep(c) \/ Leave(c)
       \/ UdpThread
       \/ Watcher
       \/ \E id \in Ids : Kick(id)
       \/ Restart
       \/ Tick

Spec == Init /\ [][Next]_vars

(* Threads run and time passes; no client need ever start, leave or be kicked. *)
Runs(step) == step /\ UNCHANGED prompt

Fairness ==
    /\ \A c \in Clients : WF_vars(Runs(ReceiveId(c) \/ SendHeartbeat(c)))
    /\ WF_vars(Runs(UdpThread))
    /\ WF_vars(Runs(Watcher))
    /\ WF_vars(Runs(Tick))

FairSpec == Spec /\ Fairness

-----------------------------------------------------------------------------
TypeOK ==
    /\ prompt \in BOOLEAN
    /\ clients \in Seq([id : Ids, addr : Clients, age : 0 .. MaxAge])
    /\ given \subseteq Ids
    /\ lag \in [Cleaners -> 0 .. MaxLag \cup {None}]
    /\ udp \in Seq(Datagrams) /\ Len(udp) <= Buffer
    /\ kicked \subseteq Ids
    /\ restarts \in 0 .. MaxRestarts
    /\ state \in [Clients -> {"new", "asking", "running", "gone"}]
    /\ ack \in [Clients -> Ids \cup {None}]
    /\ held \in [Clients -> Ids \cup {None}]
    /\ since \in [Clients -> 0 .. Interval]
    /\ lost \in [Clients -> 0 .. MaxLosses]

(***************************************************************************)
(* An entry never has the address of a client that holds another id.  So   *)
(* when a restarted server gives out an id of before, the entry that two   *)
(* clients then refresh by turns has the address of one of them; without a *)
(* restart, it has that of the only client with its id.  The kick message  *)
(* and the check of a download connection (server.c:389-395) use this      *)
(* address.                                                                *)
(***************************************************************************)
OwnAddress ==
    \A k \in DOMAIN clients :
        /\ held[clients[k].addr] \in {None, clients[k].id}
        /\ restarts = 0 =>
              \A c \in Clients : held[c] = clients[k].id => clients[k].addr = c

(***************************************************************************)
(* An entry disappears only when it has not been refreshed for             *)
(* HEARTBEAT_TIMEOUT, by a kick, or with the server.  The time the cleaner *)
(* compares with may be older than the last heartbeat (server.c:317-322).  *)
(***************************************************************************)
RemovedOnlyWhenSilent ==
    [][\A k \in DOMAIN clients :
          \/ clients[k].age >= Timeout
          \/ \E m \in DOMAIN clients' : clients'[m].id = clients[k].id
          \/ clients[k].id \in kicked'
          \/ restarts' # restarts]_vars

(***************************************************************************)
(* A client that runs stays listed, whichever heartbeats are lost, as long *)
(* as less than HEARTBEAT_TIMEOUT lies between two that arrive, the UDP    *)
(* thread answers in time and the server is not restarted.                 *)
(***************************************************************************)
LiveClientsListed ==
    prompt /\ restarts = 0 =>
        \A c \in Clients :
            state[c] = "running" /\ held[c] \notin kicked => Listed(held[c])

(***************************************************************************)
(* A client that is gone is dropped some time, with others still beating   *)
(* (after a restart its id may be another client's).                       *)
(***************************************************************************)
GoneClientsDropped ==
    \A c \in Clients :
        state[c] = "gone" /\ held[c] # None ~> ~Listed(held[c]) \/ restarts > 0
=============================================================================
