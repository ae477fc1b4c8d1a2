--------------------------- MODULE DownloadQueue ---------------------------
(***************************************************************************)
(* The way of an output file back to its client: DOWNLOAD_REQ and its      *)
(* answer, the queue of downloads, and the thread that accepts download    *)
(* connections and pairs each of them with the job at the head of the      *)
(* queue (src/server/server.c download_thread, upload_handler.c            *)
(* handle_download_request, src/client/client.c download_file).            *)
(*                                                                         *)
(* A client asks for its files one after the other, by number, and runs    *)
(* submit_job before each of them, which module JobPipeline models: here   *)
(* it is one that takes whatever comes, and its own answers are of         *)
(* interest when they come late.  The bytes on a connection do not say     *)
(* whose file they are: the client stores them under the name it read in   *)
(* the DOWNLOAD_ACK.                                                       *)
(***************************************************************************)
EXTENDS Naturals, Sequences, FiniteSets

CONSTANTS
    Clients,
    Ip,                \* the IP address of each client
    MaxRequests,       \* the most files a client asks for
    InitialCapacity,   \* slots of the queue before it first grows
    Settings,          \* what may happen in a behaviour: see SettingsAssumption
    None               \* no connection, no job

ASSUME RequestsAssumption == MaxRequests \in Nat \ {0}
ASSUME CapacityAssumption == InitialCapacity \in Nat \ {0}

(***************************************************************************)
(* In a setting only some clients act, and ask for so many files; answers  *)
(* may be lost; clients may be dropped; jobs may run, in another working   *)
(* directory; and so many answers of the pipeline may be in an inbox at a  *)
(* time (a bound).                                                         *)
(***************************************************************************)
ASSUME SettingsAssumption ==
    Settings \subseteq [clients : SUBSET Clients, requests : 1 .. MaxRequests,
                       lossy : BOOLEAN, drops : BOOLEAN, away : BOOLEAN, late : Nat]

(***************************************************************************)
(* What a client may receive, as download_file reads it: ok is the status  *)
(* it finds in there, number the file that is named (0: none of its        *)
(* files).  A JOB_RESULT has an uninitialized byte in the place of the     *)
(* status and the text of its message for a name.  A TEXT is anything else *)
(* in which no STATUS_OK can be found: a JOB_ACK without a usable name, an *)
(* UPLOAD_ACK, or what a kick sends.                                       *)
(***************************************************************************)
DownloadAck(ok, n) == [type |-> "DOWNLOAD_ACK", ok |-> ok, number |-> n]
JobResult(ok)      == [type |-> "JOB_RESULT", ok |-> ok, number |-> 0]
Text               == [type |-> "TEXT", ok |-> FALSE, number |-> 0]

Numbered == 1 .. MaxRequests
Files    == [client : Clients, number : Numbered]
Messages == [type : {"DOWNLOAD_ACK"}, ok : BOOLEAN, number : Numbered]
            \cup [type : {"JOB_RESULT"}, ok : BOOLEAN, number : {0}]
            \cup [type : {"TEXT"}, ok : {FALSE}, number : {0}]

(* open: the client waits for the file; else it has closed its end again. *)
Connections == [client : Clients, name : 0 .. MaxRequests, open : BOOLEAN]

ASSUME NoneAssumption == None \notin Files \cup Connections

File(c, n) == [client |-> c, number |-> n]

VARIABLES
    setting,    \* chosen once
    (* the clients *)
    client,     \* "idle", "submitting", "asked" for a file, "connected"
    asked,      \* how many files each client asked for
    inbox,      \* the messages in its socket
    stored,     \* what it stored: [name, holds]
    (* the server *)
    listed,     \* the clients in the list of clients
    away,       \* whether the working directory is a job's directory
    udp,        \* DOWNLOAD_REQs in the server's socket
    handling,   \* the file answered for and not yet queued
    queue,      \* download_queue.jobs
    capacity,   \* download_queue.capacity
    backlog,    \* connections not yet accepted: [client, name]
    thread,     \* where download_thread is
    conn,       \* its connection
    job,        \* its job
    (* history *)
    eaten,      \* clients whose submit_job took a DOWNLOAD_ACK
    misled      \* clients that connected on something else

clientVars == <<client, asked, inbox, stored>>
udpVars    == <<udp, handling>>
queueVars  == <<queue, capacity>>
threadVars == <<thread, conn, job>>
historyVars == <<eaten, misled>>
vars == <<setting, clientVars, listed, away, udpVars, queueVars, backlog, threadVars,
          historyVars>>

Init ==
    /\ setting \in Settings
    /\ client = [c \in Clients |-> "idle"]
    /\ asked = [c \in Clients |-> 0]
    /\ inbox = [c \in Clients |-> <<>>]
    /\ stored = [c \in Clients |-> {}]
    /\ listed = Clients
    /\ away = FALSE
    /\ udp = <<>>
    /\ handling = None
    /\ queue = <<>>
    /\ capacity = InitialCapacity
    /\ backlog = <<>>
    /\ thread = "accept"
    /\ conn = None
    /\ job = None
    /\ eaten = {}
    /\ misled = {}

(* download_thread ends only with its process. *)
Running == thread # "killed"

-----------------------------------------------------------------------------
(* The clients: process_menu_choice, submit_job, download_file.            *)

Become(c, state) == client' = [client EXCEPT ![c] = state]
Received(c)      == inbox' = [inbox EXCEPT ![c] = Tail(@)]

Submit(c) ==
    /\ client[c] = "idle"
    /\ c \in setting.clients
    /\ asked[c] < setting.requests
    /\ Become(c, "submitting")
    /\ UNCHANGED <<asked, inbox, stored, listed, away, udpVars, queueVars, backlog,
                   threadVars, historyVars>>

(* The job has run, and download_file sends its DOWNLOAD_REQ. *)
AskForFile(c) ==
    /\ asked' = [asked EXCEPT ![c] = @ + 1]
    /\ udp' = Append(udp, File(c, asked[c] + 1))
    /\ Become(c, "asked")

(***************************************************************************)
(* submit_job gets its answers, which come behind all that is there.       *)
(***************************************************************************)
Submitted(c) ==
    /\ client[c] = "submitting"
    /\ inbox[c] = <<>>
    /\ AskForFile(c)
    /\ UNCHANGED <<inbox, stored, listed, away, handling, queueVars, backlog, threadVars,
                   historyVars>>

(* It runs into a timeout, or a transfer fails. *)
SubmitFails(c) ==
    /\ client[c] = "submitting"
    /\ inbox[c] = <<>>
    /\ Become(c, "idle")
    /\ UNCHANGED <<asked, inbox, stored, listed, away, udpVars, queueVars, backlog,
                   threadVars, historyVars>>

(***************************************************************************)
(* It takes what comes for an answer of its own, goes on or fails; only a  *)
(* JOB_RESULT, the one of an earlier job included, ends it with success.   *)
(***************************************************************************)
TakenBySubmit(c) ==
    /\ client[c] = "submitting"
    /\ inbox[c] # <<>>
    /\ Received(c)
    /\ \/ UNCHANGED <<client, asked, udp>>
       \/ Become(c, "idle") /\ UNCHANGED <<asked, udp>>
       \/ Head(inbox[c]).type = "JOB_RESULT" /\ AskForFile(c)
    /\ eaten' = IF Head(inbox[c]).ok /\ Head(inbox[c]).type = "DOWNLOAD_ACK"
                THEN eaten \cup {c} ELSE eaten
    /\ UNCHANGED <<stored, listed, away, handling, queueVars, backlog, threadVars,
                   misled>>

(***************************************************************************)
(* download_file takes what comes first, the answer to an earlier request  *)
(* included: neither type nor message_id is looked at, and its name is     *)
(* used.  Where no such file can be created, the client closes the         *)
(* connection at once.                                                     *)
(***************************************************************************)
Connect(c, name) ==
    \E open \in BOOLEAN :
       /\ backlog' = Append(backlog, [client |-> c, name |-> name, open |-> open])
       /\ Become(c, IF open THEN "connected" ELSE "idle")

ReceiveAck(c) ==
    /\ client[c] = "asked"
    /\ inbox[c] # <<>>
    /\ Received(c)
    /\ \/ /\ Head(inbox[c]).ok
          /\ Running
          /\ Connect(c, Head(inbox[c]).number)
          /\ misled' = IF Head(inbox[c]).number = 0 THEN misled \cup {c} ELSE misled
       \/ /\ ~(Head(inbox[c]).ok /\ Running)
          /\ Become(c, "idle")
          /\ UNCHANGED <<backlog, misled>>
    /\ UNCHANGED <<asked, stored, listed, away, udpVars, queueVars, threadVars, eaten>>

(* No answer within RESPONSE_TIMEOUT.  It may still come. *)
GiveUp(c) ==
    /\ client[c] = "asked"
    /\ inbox[c] = <<>>
    /\ Become(c, "idle")
    /\ UNCHANGED <<asked, inbox, stored, listed, away, udpVars, queueVars, backlog,
                   threadVars, historyVars>>

-----------------------------------------------------------------------------
(* The UDP thread: handle_download_request.                                *)

(* The answer to c, which may get lost. *)
Answer(c, ok, n) ==
    \/ inbox' = [inbox EXCEPT ![c] = Append(@, DownloadAck(ok, n))]
    \/ setting.lossy /\ UNCHANGED inbox

(* stat, relative to the working directory, and DOWNLOAD_ACK, before the job is queued. *)
AnswerRequest ==
    /\ Running
    /\ handling = None
    /\ udp # <<>>
    /\ udp' = Tail(udp)
    /\ Answer(Head(udp).client, ~away, Head(udp).number)
    /\ handling' = IF away THEN None ELSE Head(udp)
    /\ UNCHANGED <<client, asked, stored, listed, away, queueVars, backlog, threadVars,
                   historyVars>>

Signalled == IF thread = "waiting" THEN "test" ELSE thread

(***************************************************************************)
(* Definitions named ...Bug are the mistakes the properties below must     *)
(* catch; no action uses them.                                             *)
(***************************************************************************)
NotSignalledBug ==
    /\ Running
    /\ handling # None
    /\ capacity' = IF Len(queue) = capacity THEN 2 * capacity ELSE capacity
    /\ queue' = Append(queue, handling)
    /\ handling' = None
    /\ UNCHANGED <<clientVars, listed, away, udp, backlog, threadVars, historyVars>>

GrownTooLateBug ==
    /\ Running
    /\ handling # None
    /\ capacity' = IF Len(queue) > capacity THEN 2 * capacity ELSE capacity
    /\ queue' = Append(queue, handling)
    /\ thread' = Signalled
    /\ handling' = None
    /\ UNCHANGED <<clientVars, listed, away, udp, backlog, conn, job, historyVars>>

(* The queue grows when it is full; one thread waits, and is woken. *)
Enqueue ==
    /\ Running
    /\ handling # None
    /\ capacity' = IF Len(queue) = capacity THEN 2 * capacity ELSE capacity
    /\ queue' = Append(queue, handling)
    /\ thread' = Signalled
    /\ handling' = None
    /\ UNCHANGED <<clientVars, listed, away, udp, backlog, conn, job, historyVars>>

-----------------------------------------------------------------------------
(* download_thread.                                                        *)

Accept ==
    /\ thread = "accept"
    /\ backlog # <<>>
    /\ conn' = Head(backlog)
    /\ backlog' = Tail(backlog)
    /\ thread' = "test"
    /\ UNCHANGED <<clientVars, listed, away, udpVars, queueVars, job, historyVars>>

(* With the queue's mutex: wait while it is empty ... *)
WaitForJob ==
    /\ thread = "test"
    /\ queue = <<>>
    /\ thread' = "waiting"
    /\ UNCHANGED <<clientVars, listed, away, udpVars, queueVars, backlog, conn, job,
                   historyVars>>

SpuriousWake ==
    /\ thread = "waiting"
    /\ thread' = "test"
    /\ UNCHANGED <<clientVars, listed, away, udpVars, queueVars, backlog, conn, job,
                   historyVars>>

LastTakenBug ==
    /\ thread = "test"
    /\ queue # <<>>
    /\ job' = queue[Len(queue)]
    /\ queue' = SubSeq(queue, 1, Len(queue) - 1)
    /\ thread' = "verify"
    /\ UNCHANGED <<clientVars, listed, away, udpVars, capacity, backlog, conn,
                   historyVars>>

TakenUntestedBug ==
    /\ thread = "test"
    /\ job' = IF queue = <<>> THEN None ELSE Head(queue)
    /\ queue' = IF queue = <<>> THEN queue ELSE Tail(queue)
    /\ thread' = "verify"
    /\ UNCHANGED <<clientVars, listed, away, udpVars, capacity, backlog, conn,
                   historyVars>>

(* ... and take the job at the head, whoever it is that connected. *)
TakeJob ==
    /\ thread = "test"
    /\ queue # <<>>
    /\ job' = Head(queue)
    /\ queue' = Tail(queue)
    /\ thread' = "verify"
    /\ UNCHANGED <<clientVars, listed, away, udpVars, capacity, backlog, conn,
                   historyVars>>

OnlyListedBug == job.client \in listed

(* The job's client is listed with the address the connection comes from. *)
ClientValid ==
    /\ job.client \in listed
    /\ Ip[job.client] = Ip[conn.client]

(* The connection is closed, and the recv loop of a client that waits on it ends. *)
Close ==
    /\ thread' = "accept"
    /\ conn' = None
    /\ job' = None
    /\ IF conn.open THEN Become(conn.client, "idle") ELSE UNCHANGED client

Reject ==
    /\ thread = "verify"
    /\ ~ClientValid
    /\ Close
    /\ UNCHANGED <<asked, inbox, stored, listed, away, udpVars, queueVars, backlog,
                   historyVars>>

Verified ==
    /\ thread = "verify"
    /\ ClientValid
    /\ thread' = "send"
    /\ UNCHANGED <<clientVars, listed, away, udpVars, queueVars, backlog, conn, job,
                   historyVars>>

(* open fails away from the root directory. *)
SendFile ==
    /\ thread = "send"
    /\ stored' = IF away \/ ~conn.open THEN stored
                 ELSE [stored EXCEPT ![conn.client] =
                          @ \cup {[name |-> conn.name, holds |-> job]}]
    /\ Close
    /\ UNCHANGED <<asked, inbox, listed, away, udpVars, queueVars, backlog, historyVars>>

(***************************************************************************)
(* The client has closed its end, which the first send may not notice, but *)
(* the next one does: SIGPIPE ends the server, and with it every           *)
(* connection.                                                             *)
(***************************************************************************)
BrokenPipe ==
    /\ thread = "send"
    /\ ~away
    /\ ~conn.open
    /\ thread' = "killed"
    /\ conn' = None
    /\ job' = None
    /\ backlog' = <<>>
    /\ client' = [c \in Clients |-> IF client[c] = "connected" THEN "idle" ELSE client[c]]
    /\ UNCHANGED <<asked, inbox, stored, listed, away, udpVars, queueVars, historyVars>>

-----------------------------------------------------------------------------
(* What the other threads do to this one. *)

(***************************************************************************)
(* cleanup_dead_clients or a kick, which sends its client a text that is   *)
(* long enough for any answer.                                             *)
(***************************************************************************)
DropClient(c) ==
    /\ setting.drops
    /\ Running
    /\ c \in listed
    /\ listed' = listed \ {c}
    /\ \/ UNCHANGED inbox
       \/ inbox' = [inbox EXCEPT ![c] = Append(@, Text)]
    /\ UNCHANGED <<client, asked, stored, away, udpVars, queueVars, backlog, threadVars,
                   historyVars>>

(***************************************************************************)
(* An answer of the pipeline, late or behind something else, to a client   *)
(* that has sent a JOB_REQ.                                                *)
(***************************************************************************)
Late(c) == {k \in DOMAIN inbox[c] : inbox[c][k].type # "DOWNLOAD_ACK"}

PipelineAnswers(c, m) ==
    /\ Running
    /\ client[c] # "idle" \/ asked[c] > 0
    /\ Cardinality(Late(c)) < setting.late
    /\ inbox' = [inbox EXCEPT ![c] = Append(@, m)]
    /\ UNCHANGED <<client, asked, stored, listed, away, udpVars, queueVars, backlog,
                   threadVars, historyVars>>

(* process_pending_jobs changes into a job's directory and back. *)
ChangeDirectory ==
    /\ setting.away
    /\ Running
    /\ away' = ~away
    /\ UNCHANGED <<clientVars, listed, udpVars, queueVars, backlog, threadVars,
                   historyVars>>

ClientStep(c) ==
    \/ Submit(c) \/ Submitted(c) \/ SubmitFails(c) \/ TakenBySubmit(c)
    \/ ReceiveAck(c) \/ GiveUp(c)

AnswersOfPipeline(c) ==
    \E m \in {JobResult(TRUE), JobResult(FALSE), Text} : PipelineAnswers(c, m)
UdpThread      == AnswerRequest \/ Enqueue
DownloadThread ==
    Accept \/ WaitForJob \/ TakeJob \/ Reject \/ Verified \/ SendFile \/ BrokenPipe

Next ==
    /\ UNCHANGED setting
    /\ \/ \E c \in Clients : ClientStep(c) \/ DropClient(c) \/ AnswersOfPipeline(c)
       \/ UdpThread
       \/ DownloadThread
       \/ SpuriousWake
       \/ ChangeDirectory

Spec == Init /\ [][Next]_vars

(* The server's threads run; a client need not do anything. *)
Fairness ==
    /\ WF_vars(UdpThread /\ UNCHANGED setting)
    /\ WF_vars(DownloadThread /\ UNCHANGED setting)

FairSpec == Spec /\ Fairness

-----------------------------------------------------------------------------
TypeOK ==
    /\ setting \in Settings
    /\ client \in [Clients -> {"idle", "submitting", "asked", "connected"}]
    /\ asked \in [Clients -> 0 .. MaxRequests]
    /\ inbox \in [Clients -> Seq(Messages)]
    /\ stored \in [Clients -> SUBSET [name : 0 .. MaxRequests, holds : Files]]
    /\ listed \subseteq Clients
    /\ away \in BOOLEAN
    /\ udp \in Seq(Files)
    /\ handling \in Files \cup {None}
    /\ queue \in Seq(Files)
    /\ capacity \in Nat \ {0}
    /\ backlog \in Seq(Connections)
    /\ thread \in {"accept", "test", "waiting", "verify", "send", "killed"}
    /\ conn \in Connections \cup {None}
    /\ job \in Files \cup {None}
    /\ conn # None <=> thread \notin {"accept", "killed"}
    /\ job # None <=> thread \in {"verify", "send"}
    /\ eaten \subseteq Clients
    /\ misled \subseteq Clients

(***************************************************************************)
(* The queue never outgrows its allocation (upload_handler.c:321-328).     *)
(***************************************************************************)
QueueFits == Len(queue) <= capacity

(***************************************************************************)
(* The thread does not sleep over a queued job, wherever it was when the   *)
(* job came: the answer is sent first, so the connection may be accepted   *)
(* before or after (server.c:374-377, upload_handler.c:307-330).           *)
(***************************************************************************)
NoSleepOverJobs == thread = "waiting" => queue = <<>>

(***************************************************************************)
(* A file reaches only clients at the address of the client that asked for *)
(* it, in whichever order requests, answers and connections come.          *)
(***************************************************************************)
FilesStayAtAddress ==
    \A c \in Clients : \A s \in stored[c] : Ip[s.holds.client] = Ip[c]

(***************************************************************************)
(* "Verify client IP and client_id" (server.c:386): a file reaches only    *)
(* the client that asked for it.                                           *)
(***************************************************************************)
FilesGoToTheirClient ==
    \A c \in Clients : \A s \in stored[c] : s.holds.client = c

(***************************************************************************)
(* Where no answer is lost, a client that is alone stores every file under *)
(* its own name: answers and jobs stay in step, late answers, given-up     *)
(* requests, failed opens and connections turned away notwithstanding.     *)
(* That ends when a message is taken for one of another kind: submit_job   *)
(* takes a late DOWNLOAD_ACK, whose job stays at the head of the queue     *)
(* (client.c:157, 201), or download_file connects on a JOB_RESULT          *)
(* (client.c:426).                                                         *)
(***************************************************************************)
Alone(c) == \A d \in Clients \ {c} : asked[d] = 0

NamesAreRight ==
    ~setting.lossy => \A c \in Clients \ (eaten \cup misled) : Alone(c) =>
                 \A s \in stored[c] : s.name = s.holds.number

(***************************************************************************)
(* Every connection is answered, with a file or by its end: there is a job *)
(* for each of them, lost answers included, so the thread does not wait    *)
(* for ever on one while others stay in the backlog.  There is none for a  *)
(* connection that a client opened on a JOB_RESULT.                        *)
(***************************************************************************)
ConnectionsAreAnswered ==
    \A c \in Clients :
       client[c] = "connected" ~> client[c] # "connected" \/ misled # {}
=============================================================================
