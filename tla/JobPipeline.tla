---------------------------- MODULE JobPipeline ----------------------------
(***************************************************************************)
(* The way of a job through the server: JOB_REQ, UPLOAD_REQ, the transfer, *)
(* the command, JOB_RESULT and DOWNLOAD_REQ, with the threads that take    *)
(* part in it.                                                             *)
(*                                                                         *)
(*   clients            src/client/client.c, submit_job and what it calls  *)
(*   the UDP thread     src/server/server.c, job_handler.c                 *)
(*   the upload threads src/server/upload_handler.c, process_upload        *)
(*   the processing thread  src/server/processing.c                        *)
(*   the admin thread       src/server/admin_handler.c, KICK_CLIENT and    *)
(*                          SET_MAX_UPLOADS                                *)
(*                                                                         *)
(* Every client submits jobs of one file, one after the other, as          *)
(* process_menu_choice does.  A job, its file and its pending entry are    *)
(* named <<client, number>>.                                               *)
(*                                                                         *)
(* A client takes the first datagram that is long enough for the answer it *)
(* waits for, whatever it is.  What it reads in it then is decided by the  *)
(* layout of the messages, which see Taken... below.                       *)
(*                                                                         *)
(* What the threads share besides pending_jobs is the working directory of *)
(* the process: all paths are relative ("processing/..."), and the         *)
(* processing thread changes into the job's directory while its command    *)
(* runs.  TCP connections carry no name: the listening socket hands them   *)
(* out in the order in which they were made.                               *)
(***************************************************************************)
EXTENDS Naturals, Sequences, SequencesExt, FiniteSets

CONSTANTS
    Clients,
    Workers,   \* the upload threads
    MaxJobs,   \* jobs of a client
    Settings,  \* what a behaviour may be like, see variable setting
    SizeOf,    \* the size of each job's file
    None       \* no job

Jobs == Clients \X (1 .. MaxJobs)

ASSUME JobsAssumption     == MaxJobs \in Nat
ASSUME SizesAssumption    == SizeOf \in [Jobs -> Nat]
ASSUME SettingsAssumption ==
    Settings \subseteq [clients : SUBSET Clients, workers : SUBSET Workers,
                        jobs : 0 .. MaxJobs, attempts : Nat \ {0}, cut : BOOLEAN,
                        kick : BOOLEAN, limits : SUBSET Nat]
ASSUME WorkersAssumption  == IsFiniteSet(Workers)
ASSUME NoneAssumption     == None \notin Jobs

VARIABLES
    setting,       \* chosen at the start: the clients and threads there are, the
                   \* jobs of a client, how often it sends an UPLOAD_REQ
                   \* (MAX_RETRIES), whether a transfer may end too early,
                   \* whether the admin may kick, and the limits it may set
    (* clients *)
    client,        \* where each client is in submit_job
    number,        \* how many jobs it has begun
    attempt,       \* how many UPLOAD_REQs it has sent for the last one
    inbox,         \* the answers in its UDP socket; for the text of a kick
                   \* see ReadKick
    strayed,       \* history: the first job in which a timeout ran out or an
                   \* answer of one kind was taken for another, or 0
    (* shared by the server's threads *)
    pending_jobs,  \* sequence of [job, files_received]
    cwd,           \* the job in whose directory it is, or None for its own
    upload_queue,  \* jobs of the accepted UPLOAD_REQs, in the order of arrival
    backlog,       \* TCP connections made and not yet accepted, by the file sent
    file,          \* what each job's input file holds
    output,        \* jobs whose command produced its output
    (* the UDP thread *)
    udp,           \* the datagrams in the server's UDP socket
    handling,      \* the request whose handler is half done
    (* the upload threads *)
    worker,        \* where each thread is in process_upload
    job,           \* the job whose upload it serves
    conn,          \* the job whose file comes in on its connection
    (* the processing thread *)
    processing,    \* where it is in process_pending_jobs
    i,             \* its index into pending_jobs
    runs,          \* for each job, what its file held at each run
    (* the admin thread *)
    kicked,        \* clients that have read that they were kicked
    max_uploads    \* how many uploads may be in progress

clientState == <<client, number, attempt, strayed>>
clientVars == <<clientState, inbox>>
sharedVars == <<pending_jobs, cwd, upload_queue, backlog, file, output>>
udpVars    == <<udp, handling>>
workerVars == <<worker, job, conn>>
procVars   == <<processing, i, runs>>
adminVars  == <<kicked, max_uploads>>
vars == <<setting, clientVars, sharedVars, udpVars, workerVars, procVars, adminVars>>

Job(c)   == <<c, number[c]>>
Owner(j) == j[1]

Message(type, j)   == [type |-> type, job |-> j]
Reply(type, j, ok) == [type |-> type, job |-> j, ok |-> ok]
Send(reply) == inbox' = [inbox EXCEPT ![Owner(reply.job)] = Append(@, reply)]

Requests == [type : {"JOB_REQ", "UPLOAD_REQ", "DOWNLOAD_REQ"}, job : Jobs]
Replies  == [type : {"JOB_ACK", "UPLOAD_ACK", "JOB_RESULT", "DOWNLOAD_ACK"}, job : Jobs,
             ok : BOOLEAN]
NoRequest == Message("none", None)

(* jobs_mutex: the other critical sections are single steps below. *)
JobsLocked == processing # "sleep"

(* Relative paths lead where they should. *)
AtRoot == cwd = None

Init ==
    /\ setting \in Settings
    /\ client = [c \in Clients |-> "menu"]
    /\ number = [c \in Clients |-> 0]
    /\ attempt = [c \in Clients |-> 0]
    /\ inbox = [c \in Clients |-> <<>>]
    /\ strayed = [c \in Clients |-> 0]
    /\ pending_jobs = <<>>
    /\ cwd = None
    /\ upload_queue = <<>>
    /\ backlog = <<>>
    /\ file = [j \in Jobs |-> "none"]
    /\ output = {}
    /\ udp = <<>>
    /\ handling = NoRequest
    /\ worker = [w \in Workers |-> "idle"]
    /\ job = [w \in Workers |-> None]
    /\ conn = [w \in Workers |-> None]
    /\ processing = "sleep"
    /\ i = 1
    /\ runs = [j \in Jobs |-> <<>>]
    /\ kicked = {}
    /\ max_uploads = Cardinality(setting.workers)

-----------------------------------------------------------------------------
(* The client: submit_job, upload_file and the request of download_file.   *)

Become(c, place) == client' = [client EXCEPT ![c] = place]
Request(type, c) == udp' = Append(udp, Message(type, Job(c)))
Received(c)      == inbox' = [inbox EXCEPT ![c] = Tail(@)]
Stray(c)         == strayed' = [strayed EXCEPT ![c] = IF @ = 0 THEN number[c] ELSE @]

(* What client.c takes for granted at lines 160, 285, 211 and 426. *)
Awaited ==
    [job |-> "JOB_ACK", upload |-> "UPLOAD_ACK", result |-> "JOB_RESULT",
     download |-> "DOWNLOAD_ACK"]

TakeAtItsWord(c) ==
    IF Head(inbox[c]).type = Awaited[client[c]] THEN UNCHANGED strayed ELSE Stray(c)

(* Back at the menu, with how the last job ended. *)
AtMenu == {"menu", "refused", "failed", "given up", "done"}

SubmitJob(c) ==
    /\ c \in setting.clients
    /\ client[c] \in AtMenu
    /\ number[c] < setting.jobs
    /\ number' = [number EXCEPT ![c] = @ + 1]
    /\ attempt' = [attempt EXCEPT ![c] = 0]
    /\ udp' = Append(udp, Message("JOB_REQ", <<c, number[c] + 1>>))
    /\ Become(c, "job")
    /\ UNCHANGED <<inbox, strayed, sharedVars, handling, workerVars, procVars>>

(***************************************************************************)
(* What a wait may make of datagram m, TRUE for success.  In place of the  *)
(* status of a JobResponse an UPLOAD_ACK has a byte of the client's        *)
(* address; the other two have one that is never initialized.              *)
(***************************************************************************)
TakenForJobAck(m) ==
    CASE m.type = "JOB_ACK"    -> {m.ok}
      [] m.type = "UPLOAD_ACK" -> {FALSE}
      [] OTHER                 -> BOOLEAN

(***************************************************************************)
(* A JOB_RESULT has uninitialized bytes for the status and the port of an  *)
(* UploadResponse.  The others have no port that anyone listens on.        *)
(***************************************************************************)
TakenForUploadAck(m) ==
    CASE m.type = "UPLOAD_ACK" -> {TRUE}
      [] m.type = "JOB_RESULT" -> BOOLEAN
      [] OTHER                 -> {FALSE}

(***************************************************************************)
(* An UPLOAD_ACK has its name_len for the status of a DownloadResponse, a  *)
(* JOB_RESULT an uninitialized byte.  A JOB_ACK leaves no usable name.     *)
(***************************************************************************)
TakenForDownloadAck(m) ==
    CASE m.type = "DOWNLOAD_ACK" -> {m.ok}
      [] m.type = "JOB_RESULT"   -> BOOLEAN
      [] OTHER                   -> {FALSE}

(* JOB_ACK.  On STATUS_OK the first UPLOAD_REQ is sent. *)
ReceiveJobAck(c) ==
    /\ client[c] = "job"
    /\ inbox[c] # <<>>
    /\ Received(c)
    /\ \/ /\ TRUE \in TakenForJobAck(Head(inbox[c]))
          /\ Request("UPLOAD_REQ", c)
          /\ attempt' = [attempt EXCEPT ![c] = 1]
          /\ Become(c, "upload")
       \/ /\ FALSE \in TakenForJobAck(Head(inbox[c]))
          /\ Become(c, "refused")
          /\ UNCHANGED <<udp, attempt>>
    /\ TakeAtItsWord(c)
    /\ UNCHANGED <<number, sharedVars, handling, workerVars, procVars>>

(* UPLOAD_ACK.  On success the client connects and sends its file. *)
ReceiveUploadAck(c) ==
    /\ client[c] = "upload"
    /\ inbox[c] # <<>>
    /\ Received(c)
    /\ \/ /\ TRUE \in TakenForUploadAck(Head(inbox[c]))
          /\ backlog' = Append(backlog, Job(c))
          /\ Become(c, "result")
       \/ /\ FALSE \in TakenForUploadAck(Head(inbox[c]))
          /\ Become(c, "failed")
          /\ UNCHANGED backlog
    /\ TakeAtItsWord(c)
    /\ UNCHANGED <<number, attempt, pending_jobs, cwd, upload_queue, file, output,
                   udpVars, workerVars, procVars>>

(***************************************************************************)
(* Definitions named ...Bug are the mistakes the properties below must     *)
(* catch; no action uses them.                                             *)
(***************************************************************************)
UnlimitedRetriesBug(c) ==
    /\ client[c] = "upload"
    /\ inbox[c] = <<>>
    /\ attempt' = [attempt EXCEPT ![c] = @ + 1]
    /\ Request("UPLOAD_REQ", c)
    /\ Stray(c)
    /\ UNCHANGED <<client, number, inbox, sharedVars, handling, workerVars,
                   procVars>>

(* No answer within RESPONSE_TIMEOUT: the same request once more. *)
RetryUpload(c) ==
    /\ client[c] = "upload"
    /\ inbox[c] = <<>>
    /\ attempt[c] < setting.attempts
    /\ attempt' = [attempt EXCEPT ![c] = @ + 1]
    /\ Request("UPLOAD_REQ", c)
    /\ Stray(c)
    /\ UNCHANGED <<client, number, inbox, sharedVars, handling, workerVars,
                   procVars>>

(***************************************************************************)
(* The loop around recvfrom skips what is not a JOB_RESULT, and takes the  *)
(* first that is one for the result of its job.                            *)
(***************************************************************************)
ReceiveResult(c) ==
    /\ client[c] = "result"
    /\ inbox[c] # <<>>
    /\ Received(c)
    /\ \/ /\ Head(inbox[c]).type # "JOB_RESULT"
          /\ UNCHANGED <<client, udp>>
       \/ /\ Head(inbox[c]).type = "JOB_RESULT"
          /\ Head(inbox[c]).ok
          /\ Request("DOWNLOAD_REQ", c)
          /\ Become(c, "download")
       \/ /\ Head(inbox[c]).type = "JOB_RESULT"
          /\ ~Head(inbox[c]).ok
          /\ Become(c, "failed")
          /\ UNCHANGED udp
    /\ UNCHANGED <<number, attempt, strayed, sharedVars, handling, workerVars,
                   procVars>>

(* DOWNLOAD_ACK.  The transfer that follows is module DownloadQueue. *)
ReceiveDownloadAck(c) ==
    /\ client[c] = "download"
    /\ inbox[c] # <<>>
    /\ Received(c)
    /\ \E ok \in TakenForDownloadAck(Head(inbox[c])) :
          Become(c, IF ok THEN "done" ELSE "failed")
    /\ TakeAtItsWord(c)
    /\ UNCHANGED <<number, attempt, sharedVars, udpVars, workerVars, procVars>>

(* No JOB_ACK, UPLOAD_ACK (last attempt), JOB_RESULT or DOWNLOAD_ACK in time. *)
GiveUp(c) ==
    /\ \/ client[c] \in {"job", "result", "download"}
       \/ client[c] = "upload" /\ attempt[c] = setting.attempts
    /\ inbox[c] = <<>>
    /\ Become(c, "given up")
    /\ Stray(c)
    /\ UNCHANGED <<number, attempt, inbox, sharedVars, udpVars, workerVars,
                   procVars>>

(***************************************************************************)
(* "You have been kicked by the admin.", 35 bytes that reach the client in *)
(* the middle of its answers and are long enough for every one of them.    *)
(* What they put in the place of a status is never STATUS_OK; only the     *)
(* loop that waits for a JOB_RESULT skips them.  kick_client_by_id runs in *)
(* the admin thread, at any moment, so that the place of the text among    *)
(* the answers is free: the one step for it is the one that reads it.  A   *)
(* client registers once, and can be kicked once.                          *)
(***************************************************************************)
KickTakenFor(place) == IF place = "job" THEN "refused" ELSE "failed"

ReadKick(c) ==
    /\ setting.kick
    /\ c \in setting.clients \ kicked
    /\ kicked' = kicked \cup {c}
    /\ \/ /\ client[c] \in {"job", "upload", "download"}
          /\ Become(c, KickTakenFor(client[c]))
          /\ Stray(c)
       \/ /\ client[c] = "result"
          /\ UNCHANGED <<client, strayed>>
    /\ UNCHANGED <<number, attempt, inbox, sharedVars, udpVars, workerVars, procVars,
                   max_uploads>>

-----------------------------------------------------------------------------
(* The UDP thread: handle_udp_message, one datagram after the other.       *)

Arrived(type) == handling = NoRequest /\ udp # <<>> /\ Head(udp).type = type

RefusedAndAddedBug ==
    /\ Arrived("JOB_REQ")
    /\ udp' = Tail(udp)
    /\ handling' = Head(udp)
    /\ \/ AtRoot /\ UNCHANGED inbox
       \/ ~AtRoot /\ Send(Reply("JOB_ACK", Head(udp).job, FALSE))
    /\ UNCHANGED <<clientState, sharedVars, workerVars, procVars>>

(***************************************************************************)
(* create_job, first half: make the job's directory, or find it there.     *)
(* Away from the root the path leads nowhere and JOB_ACK says so.          *)
(***************************************************************************)
MakeDirectory ==
    /\ Arrived("JOB_REQ")
    /\ udp' = Tail(udp)
    /\ \/ /\ AtRoot
          /\ handling' = Head(udp)
          /\ UNCHANGED inbox
       \/ /\ ~AtRoot
          /\ Send(Reply("JOB_ACK", Head(udp).job, FALSE))
          /\ UNCHANGED handling
    /\ UNCHANGED <<clientState, sharedVars, workerVars, procVars>>

(* create_job, second half, under jobs_mutex, and JOB_ACK. *)
AddJob ==
    /\ handling.type = "JOB_REQ"
    /\ ~JobsLocked
    /\ pending_jobs' = Append(pending_jobs, [job |-> handling.job, files_received |-> 0])
    /\ Send(Reply("JOB_ACK", handling.job, TRUE))
    /\ handling' = NoRequest
    /\ UNCHANGED <<clientState, cwd, upload_queue, backlog, file, output, udp,
                   workerVars, procVars>>

(* handle_upload_request: enqueue for the upload threads, then UPLOAD_ACK. *)
EnqueueUpload ==
    /\ Arrived("UPLOAD_REQ")
    /\ udp' = Tail(udp)
    /\ handling' = Head(udp)
    /\ upload_queue' = Append(upload_queue, Head(udp).job)
    /\ UNCHANGED <<clientVars, pending_jobs, cwd, backlog, file, output, workerVars,
                   procVars>>

AckUpload ==
    /\ handling.type = "UPLOAD_REQ"
    /\ Send(Reply("UPLOAD_ACK", handling.job, TRUE))
    /\ handling' = NoRequest
    /\ UNCHANGED <<clientState, sharedVars, udp, workerVars, procVars>>

(***************************************************************************)
(* handle_download_request: stat of the output, relative to the working    *)
(* directory.  The transfer that follows is module DownloadQueue.          *)
(***************************************************************************)
HandleDownload ==
    /\ Arrived("DOWNLOAD_REQ")
    /\ udp' = Tail(udp)
    /\ LET j == Head(udp).job
       IN  Send(Reply("DOWNLOAD_ACK", j, AtRoot /\ j \in output))
    /\ UNCHANGED <<clientState, sharedVars, handling, workerVars, procVars>>

-----------------------------------------------------------------------------
(* The upload threads: process_upload.                                     *)

Go(w, place) == worker' = [worker EXCEPT ![w] = place]

(***************************************************************************)
(* The pool hands out the first of the smallest uploads, unless as many    *)
(* as are allowed are in progress.  How the threads sleep and are woken is *)
(* module UploadPool.                                                      *)
(***************************************************************************)
FirstSmallest(k) ==
    /\ \A m \in 1 .. Len(upload_queue) : SizeOf[upload_queue[k]] <= SizeOf[upload_queue[m]]
    /\ \A m \in 1 .. k - 1 : SizeOf[upload_queue[k]] < SizeOf[upload_queue[m]]

Uploading == {w \in Workers : worker[w] # "idle"}

TakeUpload(w) ==
    /\ w \in setting.workers
    /\ worker[w] = "idle"
    /\ Cardinality(Uploading) < max_uploads
    /\ \E k \in 1 .. Len(upload_queue) :
          /\ FirstSmallest(k)
          /\ job' = [job EXCEPT ![w] = upload_queue[k]]
          /\ upload_queue' = RemoveAt(upload_queue, k)
    /\ Go(w, "find")
    /\ UNCHANGED <<clientVars, pending_jobs, cwd, backlog, file, output, udpVars,
                   conn, procVars>>

(* Is there still a pending job for it?  If not, return. *)
Pending(j) == \E e \in ToSet(pending_jobs) : e.job = j

FoundMeansReturnBug(w) ==
    /\ worker[w] = "find"
    /\ ~JobsLocked
    /\ Go(w, IF Pending(job[w]) THEN "idle" ELSE "accept")
    /\ job' = [job EXCEPT ![w] = IF Pending(job[w]) THEN None ELSE @]
    /\ UNCHANGED <<clientVars, sharedVars, udpVars, conn, procVars>>

FindJob(w) ==
    /\ worker[w] = "find"
    /\ ~JobsLocked
    /\ \/ /\ Pending(job[w])
          /\ Go(w, "accept")
          /\ UNCHANGED job
       \/ /\ ~Pending(job[w])
          /\ Go(w, "idle")
          /\ job' = [job EXCEPT ![w] = None]
    /\ UNCHANGED <<clientVars, sharedVars, udpVars, conn, procVars>>

(* accept: whichever connection is next. *)
Accept(w) ==
    /\ worker[w] = "accept"
    /\ backlog # <<>>
    /\ conn' = [conn EXCEPT ![w] = Head(backlog)]
    /\ backlog' = Tail(backlog)
    /\ Go(w, "open")
    /\ UNCHANGED <<clientVars, pending_jobs, cwd, upload_queue, file, output,
                   udpVars, job, procVars>>

(* open with O_TRUNC; when the path leads nowhere, close the connection.   *)
OpenFile(w) ==
    /\ worker[w] = "open"
    /\ \/ /\ AtRoot
          /\ file' = [file EXCEPT ![job[w]] = "empty"]
          /\ Go(w, "receive")
          /\ UNCHANGED <<job, conn>>
       \/ /\ ~AtRoot
          /\ Go(w, "idle")
          /\ job' = [job EXCEPT ![w] = None]
          /\ conn' = [conn EXCEPT ![w] = None]
          /\ UNCHANGED file
    /\ UNCHANGED <<clientVars, pending_jobs, cwd, upload_queue, backlog, output,
                   udpVars, procVars>>

(***************************************************************************)
(* The receive loop, to its end.  It ends with the last byte expected, or  *)
(* when the connection does.  A second thread that has the same file open, *)
(* or had it since this one truncated it, may or may not have spoilt it.   *)
(***************************************************************************)
Undisturbed(w) ==
    /\ file[job[w]] = "empty"
    /\ \A v \in Workers \ {w} : ~(worker[v] = "receive" /\ job[v] = job[w])

Contents(w) ==
    IF conn[w] # job[w]
    THEN {"wrong"}
    ELSE (IF setting.cut \/ ~Undisturbed(w) THEN {"wrong"} ELSE {}) \cup {"whole"}

ReceiveFile(w) ==
    /\ worker[w] = "receive"
    /\ \E contents \in Contents(w) : file' = [file EXCEPT ![job[w]] = contents]
    /\ conn' = [conn EXCEPT ![w] = None]
    /\ Go(w, "count")
    /\ UNCHANGED <<clientVars, pending_jobs, cwd, upload_queue, backlog, output,
                   udpVars, job, procVars>>

(* files_received of the first entry of the job, under jobs_mutex. *)
FirstEntry(j, k) ==
    /\ pending_jobs[k].job = j
    /\ \A m \in 1 .. k - 1 : pending_jobs[m].job # j

NotCountedBug(w) ==
    /\ worker[w] = "count"
    /\ ~JobsLocked
    /\ Go(w, "idle")
    /\ job' = [job EXCEPT ![w] = None]
    /\ UNCHANGED <<clientVars, sharedVars, udpVars, conn, procVars>>

CountFile(w) ==
    /\ worker[w] = "count"
    /\ ~JobsLocked
    /\ \/ \E k \in 1 .. Len(pending_jobs) :
             /\ FirstEntry(job[w], k)
             /\ pending_jobs' = [pending_jobs EXCEPT ![k].files_received = @ + 1]
       \/ ~Pending(job[w]) /\ UNCHANGED pending_jobs
    /\ Go(w, "idle")
    /\ job' = [job EXCEPT ![w] = None]
    /\ UNCHANGED <<clientVars, cwd, upload_queue, backlog, file, output, udpVars,
                   conn, procVars>>

-----------------------------------------------------------------------------
(* The processing thread: process_pending_jobs, once a second.             *)

ReadyAtOnceBug(e) == e.files_received >= 0

Ready(e) == e.files_received >= 1

(* A pass over an empty array is left out: it changes nothing. *)
BeginPass ==
    /\ processing = "sleep"
    /\ pending_jobs # <<>>
    /\ processing' = "scan"
    /\ i' = 1
    /\ UNCHANGED <<clientVars, sharedVars, udpVars, workerVars, runs>>

SkipTwoBug ==
    /\ processing = "scan"
    /\ i <= Len(pending_jobs)
    /\ ~Ready(pending_jobs[i])
    /\ i' = i + 2
    /\ UNCHANGED <<clientVars, sharedVars, udpVars, workerVars, processing, runs>>

SkipJob ==
    /\ processing = "scan"
    /\ i <= Len(pending_jobs)
    /\ ~Ready(pending_jobs[i])
    /\ i' = i + 1
    /\ UNCHANGED <<clientVars, sharedVars, udpVars, workerVars, processing, runs>>

(* chdir, which succeeds because create_job made the directory; system. *)
StartCommand ==
    /\ processing = "scan"
    /\ i <= Len(pending_jobs)
    /\ Ready(pending_jobs[i])
    /\ LET j == pending_jobs[i].job
       IN  /\ cwd' = j
           /\ runs' = [runs EXCEPT ![j] = Append(@, file[j])]
    /\ processing' = "run"
    /\ UNCHANGED <<clientVars, pending_jobs, upload_queue, backlog, file, output,
                   udpVars, workerVars, i>>

AlwaysOkBug ==
    /\ processing = "run"
    /\ LET j == pending_jobs[i].job
       IN  \E ok \in BOOLEAN :
              /\ output' = IF ok THEN output \cup {j} ELSE output
              /\ Send(Reply("JOB_RESULT", j, TRUE))
    /\ processing' = "sent"
    /\ UNCHANGED <<clientState, pending_jobs, cwd, upload_queue, backlog, file,
                   udpVars, workerVars, i, runs>>

(* system returns; JOB_RESULT goes to the address in the entry. *)
EndCommand ==
    /\ processing = "run"
    /\ LET j == pending_jobs[i].job
       IN  \E ok \in BOOLEAN :
              /\ output' = IF ok THEN output \cup {j} ELSE output
              /\ Send(Reply("JOB_RESULT", j, ok))
    /\ processing' = "sent"
    /\ UNCHANGED <<clientState, pending_jobs, cwd, upload_queue, backlog, file,
                   udpVars, workerVars, i, runs>>

NotRemovedBug ==
    /\ processing = "sent"
    /\ cwd' = None
    /\ i' = i + 1
    /\ processing' = "scan"
    /\ UNCHANGED <<clientVars, pending_jobs, upload_queue, backlog, file, output,
                   udpVars, workerVars, runs>>

FirstRemovedBug ==
    /\ processing = "sent"
    /\ pending_jobs' = Tail(pending_jobs)
    /\ cwd' = None
    /\ i' = i + 1
    /\ processing' = "scan"
    /\ UNCHANGED <<clientVars, upload_queue, backlog, file, output, udpVars,
                   workerVars, runs>>

(***************************************************************************)
(* Remove the entry, change back, and go on with i + 1: the entry that has *)
(* moved into place i waits for the next pass.                             *)
(***************************************************************************)
RemoveJob ==
    /\ processing = "sent"
    /\ pending_jobs' = RemoveAt(pending_jobs, i)
    /\ cwd' = None
    /\ i' = i + 1
    /\ processing' = "scan"
    /\ UNCHANGED <<clientVars, upload_queue, backlog, file, output, udpVars,
                   workerVars, runs>>

EndPass ==
    /\ processing = "scan"
    /\ i > Len(pending_jobs)
    /\ processing' = "sleep"
    /\ i' = 1
    /\ UNCHANGED <<clientVars, sharedVars, udpVars, workerVars, runs>>

-----------------------------------------------------------------------------
(* The admin thread: set_max_uploads.                                      *)

SetMaxUploads(n) ==
    /\ n \in setting.limits
    /\ n <= Cardinality(setting.workers)
    /\ max_uploads' = n
    /\ UNCHANGED <<clientVars, sharedVars, udpVars, workerVars, procVars, kicked>>

-----------------------------------------------------------------------------
ClientStep(c) ==
    \/ SubmitJob(c) \/ ReceiveJobAck(c) \/ ReceiveUploadAck(c) \/ ReceiveResult(c)
    \/ ReceiveDownloadAck(c)
Timeout(c)     == RetryUpload(c) \/ GiveUp(c)
UdpThread      == MakeDirectory \/ AddJob \/ EnqueueUpload \/ AckUpload \/ HandleDownload
UploadThread(w) ==
    \/ TakeUpload(w) \/ FindJob(w) \/ Accept(w) \/ OpenFile(w) \/ ReceiveFile(w)
    \/ CountFile(w)
ProcessingThread ==
    BeginPass \/ SkipJob \/ StartCommand \/ EndCommand \/ RemoveJob \/ EndPass

AdminThread ==
    (\E c \in Clients : ReadKick(c)) \/ (\E n \in setting.limits : SetMaxUploads(n))

Next ==
    /\ \/ /\ \/ \E c \in Clients : ClientStep(c) \/ Timeout(c)
             \/ UdpThread
             \/ \E w \in Workers : UploadThread(w)
             \/ ProcessingThread
          /\ UNCHANGED adminVars
       \/ AdminThread
    /\ UNCHANGED setting

Spec == Init /\ [][Next]_vars

(***************************************************************************)
(* The scheduler runs every thread that can run, transfers and commands    *)
(* come to an end, and clients read what they are sent.  A thread that     *)
(* wants jobs_mutex gets it, because the processing thread sleeps for a    *)
(* second between two passes: hence strong fairness.  No timeout is bound  *)
(* to happen, no client is bound to start, no admin to do anything.  That  *)
(* a thread with room to start does start is so while the limit is only    *)
(* lowered: raising it wakes no thread (UploadPool.RoomIsUsed), and the    *)
(* settings checked under this fairness have a single limit to set.        *)
(***************************************************************************)
Outside == <<setting, adminVars>>

Fairness ==
    /\ SF_vars(UdpThread /\ UNCHANGED Outside)
    /\ WF_vars(ProcessingThread /\ UNCHANGED Outside)
    /\ \A w \in Workers : SF_vars(UploadThread(w) /\ UNCHANGED Outside)
    /\ \A c \in Clients : WF_vars(ClientStep(c) /\ ~SubmitJob(c) /\ UNCHANGED Outside)

FairSpec == Spec /\ Fairness

-----------------------------------------------------------------------------
Places == AtMenu \cup {"job", "upload", "result", "download"}

TypeOK ==
    /\ setting \in Settings
    /\ client \in [Clients -> Places]
    /\ number \in [Clients -> 0 .. setting.jobs]
    /\ attempt \in [Clients -> 0 .. setting.attempts]
    /\ inbox \in [Clients -> Seq(Replies)]
    /\ strayed \in [Clients -> 0 .. setting.jobs]
    /\ pending_jobs \in Seq([job : Jobs, files_received : Nat])
    /\ cwd \in Jobs \cup {None}
    /\ upload_queue \in Seq(Jobs)
    /\ backlog \in Seq(Jobs)
    /\ file \in [Jobs -> {"none", "empty", "whole", "wrong"}]
    /\ output \in SUBSET Jobs
    /\ udp \in Seq(Requests)
    /\ handling \in Requests \cup {NoRequest}
    /\ worker \in [Workers -> {"idle", "find", "accept", "open", "receive", "count"}]
    /\ job \in [Workers -> Jobs \cup {None}]
    /\ conn \in [Workers -> Jobs \cup {None}]
    /\ processing \in {"sleep", "scan", "run", "sent"}
    /\ i \in Nat \ {0}
    /\ runs \in [Jobs -> Seq({"none", "empty", "whole", "wrong"})]
    /\ kicked \in SUBSET Clients
    /\ max_uploads \in Nat

(***************************************************************************)
(* The command of a job runs at most once, although UPLOAD_REQs are sent   *)
(* again, uploads are counted after the job has gone, and entries move in  *)
(* the array under the scan.                                               *)
(***************************************************************************)
RunsAtMostOnce == \A j \in Jobs : Len(runs[j]) <= 1

(***************************************************************************)
(* The client has the server to itself; until the job it is at, no timeout *)
(* ran out on it and every answer it took was of the kind it awaited: not  *)
(* of another kind, and not the text of a kick.                            *)
(***************************************************************************)
Alone(c) == setting.clients = {c}
Calm(c)  == strayed[c] \in {0, number[c]}

(***************************************************************************)
(* A client that got STATUS_OK in a JOB_RESULT can rely on it: its command *)
(* ran and succeeded, and the entry is gone or about to go (client.c:211,  *)
(* where the job_id in the JOB_RESULT is not looked at).  This holds while *)
(* it has not strayed in an earlier job.  A timeout is not needed for that *)
(* to happen: the connection of another client can make a job run before   *)
(* its UPLOAD_ACK is sent.                                                 *)
(***************************************************************************)
ResultsAreTrue ==
    \A c \in Clients : client[c] \in {"download", "done"} /\ Calm(c) =>
        /\ Job(c) \in output
        /\ Len(runs[Job(c)]) = 1
        /\ Pending(Job(c)) => processing = "sent" /\ pending_jobs[i].job = Job(c)

(***************************************************************************)
(* No accepted job is dropped: an entry leaves pending_jobs only after its *)
(* command ran, and only the one that ran leaves.                          *)
(***************************************************************************)
LeavesOnlyAfterRun ==
    [][\A j \in Jobs : Pending(j) /\ ~Pending(j)' => cwd = j /\ runs[j] # <<>>]_vars

(***************************************************************************)
(* A command does not run on a missing, truncated or foreign file.  So it  *)
(* is for a client that has the server to itself, whatever it repeats in   *)
(* its current job, if no connection breaks (upload_handler.c counts a     *)
(* file after any end of the receive loop, line 156, so otherwise it does).*)
(***************************************************************************)
OnlyWholeFilesRun ==
    \A c \in Clients : Alone(c) /\ Calm(c) /\ ~setting.cut =>
        \A n \in 1 .. number[c] : ToSet(runs[<<c, n>>]) \subseteq {"whole"}

(***************************************************************************)
(* The answers that arrive are to what was asked last, as client.c takes   *)
(* for granted at lines 160, 285, 211 and 426.  So it is, job after job,   *)
(* for a client that is alone, until a timeout runs out on it or it takes  *)
(* the text of a kick for an answer (which is no answer to anything, and   *)
(* is not in inbox).  A kick that the wait for a JOB_RESULT skips does not *)
(* disturb it.                                                             *)
(***************************************************************************)
InStep ==
    \A c \in Clients : Alone(c) /\ strayed[c] = 0 =>
        /\ Len(inbox[c]) <= 1
        /\ \A m \in ToSet(inbox[c]) :
              client[c] \notin AtMenu /\ m.type = Awaited[client[c]] /\ m.job = Job(c)

(***************************************************************************)
(* "Waiting for JOB_RESULT for job" (client.c:200): the result a client    *)
(* goes on with is that of the job it waits for.                           *)
(***************************************************************************)
ResultIsOfThisJob ==
    [][\A c \in Clients :
          client[c] = "result" /\ client'[c] \in {"download", "failed"}
              => Head(inbox[c]).job = Job(c)]_vars

(***************************************************************************)
(* "Waiting for client connection for job_id" (upload_handler.c:122): the  *)
(* connection a thread accepts is the one for its job.                     *)
(***************************************************************************)
OwnConnection == \A w \in Workers : conn[w] \in {None, job[w]}

(***************************************************************************)
(* STATUS_FILE_NOT_FOUND (protocol.h:33) says that the file is not there.  *)
(***************************************************************************)
NotFoundMeansMissing ==
    \A j \in output : Reply("DOWNLOAD_ACK", j, FALSE) \notin ToSet(inbox[Owner(j)])

(***************************************************************************)
(* A job whose file was counted is run and leaves the array, although the  *)
(* scan passes over the neighbour of every job it removes.                 *)
(***************************************************************************)
ReadyJobsRun ==
    \A j \in Jobs :
        (\E e \in ToSet(pending_jobs) : e.job = j /\ Ready(e)) ~> ~Pending(j)

(***************************************************************************)
(* No connection waits in the backlog for ever: for each there is or will  *)
(* be a thread in accept, if not the one meant for it (upload_handler.c:   *)
(* 125), unless the admin allows no upload at all.  Not so after a timeout *)
(* in an earlier job: a late JOB_ACK makes the client send a file for a    *)
(* job that was refused, and no thread comes.  Nor with several clients    *)
(* over several jobs: one of them that has strayed can take the thread     *)
(* that another's connection would need.                                   *)
(***************************************************************************)
ConnectionsAreAccepted ==
    \A j \in Jobs :
        j \in ToSet(backlog) /\ Calm(Owner(j)) /\ (Alone(Owner(j)) \/ setting.jobs = 1)
            ~> j \notin ToSet(backlog) \/ max_uploads = 0

(***************************************************************************)
(* A client that has the server to itself and waits gets its job run, on   *)
(* the file it sent, however often it repeats its UPLOAD_REQ and however   *)
(* low the admin sets the limit, short of 0.  A job after the first may be *)
(* refused: its JOB_REQ can overtake the processing thread's way back to   *)
(* its own directory (processing.c:83, 96).  A kick can end the wait of a  *)
(* client for any of its answers.                                          *)
(***************************************************************************)
LoneClientServed ==
    \A c \in Clients, n \in 1 .. MaxJobs :
        Alone(c) /\ Calm(c) /\ number[c] = n /\ client[c] = "job" ~>
            \/ runs[<<c, n>>] = <<"whole">>
            \/ client[c] = "given up"
            \/ n > 1 /\ client[c] = "refused"
            \/ c \in kicked
            \/ max_uploads = 0
=============================================================================
