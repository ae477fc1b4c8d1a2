------------------------- MODULE JobPipelineProofs -------------------------
(***************************************************************************)
(* What holds of the way of a job through the server for any number of     *)
(* clients, upload threads, jobs and retries, and any sizes of the files.  *)
(***************************************************************************)
EXTENDS JobPipeline, SequenceLemmas, FiniteSetTheorems

(***************************************************************************)
(* Where a place says more about the rest than its type.                   *)
(***************************************************************************)
Executing == processing \in {"run", "sent"}

PlacesInv ==
    /\ \A c \in Clients : client[c] # "menu" => number[c] # 0
    /\ \A c \in Clients : c \notin setting.clients => number[c] = 0
    /\ \A w \in Workers : worker[w] # "idle" => job[w] \in Jobs
    /\ \A w \in Workers : worker[w] \in {"open", "receive"} => conn[w] \in Jobs
    /\ Executing => i \in DOMAIN pending_jobs /\ cwd = pending_jobs[i].job
    /\ ~Executing => cwd = None

-----------------------------------------------------------------------------
LEMMA TypesInitially == Init => TypeOK /\ PlacesInv
<1> SUFFICES ASSUME Init PROVE TypeOK /\ PlacesInv
  OBVIOUS
<1>1. /\ setting \in Settings
      /\ setting.jobs \in Nat /\ setting.attempts \in Nat
  BY SettingsAssumption DEF Init
<1>2. /\ client \in [Clients -> Places]
      /\ number \in [Clients -> 0 .. setting.jobs]
      /\ attempt \in [Clients -> 0 .. setting.attempts]
      /\ strayed \in [Clients -> 0 .. setting.jobs]
  BY <1>1 DEF Init, Places, AtMenu
<1>3. /\ inbox \in [Clients -> Seq(Replies)]
      /\ pending_jobs \in Seq([job : Jobs, files_received : Nat])
      /\ upload_queue \in Seq(Jobs) /\ backlog \in Seq(Jobs)
      /\ udp \in Seq(Requests)
      /\ runs \in [Jobs -> Seq({"none", "empty", "whole", "wrong"})]
  BY EmptySeq DEF Init
<1>4. PlacesInv
  BY DEF Init, PlacesInv, Executing
<1>5. max_uploads \in Nat
  BY <1>1, SettingsAssumption, WorkersAssumption, FS_Subset, FS_CardinalityType DEF Init
<1> QED
  BY <1>1, <1>2, <1>3, <1>4, <1>5 DEF Init, TypeOK

(***************************************************************************)
(* Type correctness, thread by thread.                                     *)
(***************************************************************************)
LEMMA SettingTypes ==
    ASSUME TypeOK
    PROVE  /\ setting.clients \subseteq Clients /\ setting.workers \subseteq Workers
           /\ setting.jobs \in 0 .. MaxJobs
           /\ setting.attempts \in Nat \ {0}
           /\ setting.cut \in BOOLEAN
BY SettingsAssumption DEF TypeOK

LEMMA JobTypes ==
    ASSUME TypeOK, PlacesInv, NEW c \in Clients, client[c] # "menu"
    PROVE  /\ Job(c) \in Jobs
           /\ number[c] \in 1 .. setting.jobs /\ setting.jobs \in 0 .. MaxJobs
<1>1. number[c] \in 0 .. setting.jobs /\ number[c] # 0 /\ setting.jobs \in 0 .. MaxJobs
  BY SettingTypes DEF TypeOK, PlacesInv
<1>2. number[c] \in 1 .. setting.jobs
  BY <1>1
<1>3. number[c] \in 1 .. MaxJobs
  BY <1>1, JobsAssumption
<1> QED
  BY <1>1, <1>2, <1>3 DEF Job, Jobs

LEMMA RequestTypes ==
    ASSUME TypeOK, NEW c \in Clients, NEW j \in Jobs,
           NEW type \in {"JOB_REQ", "UPLOAD_REQ", "DOWNLOAD_REQ"}
    PROVE  Message(type, j) \in Requests /\ Append(udp, Message(type, j)) \in Seq(Requests)
<1>1. Message(type, j) \in Requests
  BY DEF Message, Requests
<1> QED
  BY <1>1, AppendProperties DEF TypeOK

LEMMA ReplyTypes ==
    ASSUME TypeOK, NEW j \in Jobs, NEW ok \in BOOLEAN,
           NEW type \in {"JOB_ACK", "UPLOAD_ACK", "JOB_RESULT", "DOWNLOAD_ACK"},
           Send(Reply(type, j, ok))
    PROVE  /\ Reply(type, j, ok) \in Replies
           /\ Owner(j) \in Clients
           /\ inbox' = [inbox EXCEPT ![Owner(j)] = Append(inbox[Owner(j)], Reply(type, j, ok))]
           /\ inbox' \in [Clients -> Seq(Replies)]
<1>1. Reply(type, j, ok) \in Replies /\ Owner(j) \in Clients
      /\ Reply(type, j, ok).job = j
  BY DEF Reply, Replies, Owner, Jobs
<1>2. inbox[Owner(j)] \in Seq(Replies)
  BY <1>1 DEF TypeOK
<1>3. Append(inbox[Owner(j)], Reply(type, j, ok)) \in Seq(Replies)
  BY <1>1, <1>2, AppendProperties
<1>4. inbox' = [inbox EXCEPT ![Owner(j)] = Append(inbox[Owner(j)], Reply(type, j, ok))]
  BY <1>1 DEF Send
<1> QED
  BY <1>1, <1>3, <1>4 DEF TypeOK

LEMMA ReceivedTypes ==
    ASSUME TypeOK, NEW c \in Clients, inbox[c] # <<>>, Received(c)
    PROVE  /\ Head(inbox[c]) \in Replies
           /\ inbox' \in [Clients -> Seq(Replies)]
<1>1. Head(inbox[c]) \in Replies /\ Tail(inbox[c]) \in Seq(Replies)
  BY HeadTailProperties DEF TypeOK
<1> QED
  BY <1>1 DEF TypeOK, Received

LEMMA StrayTypes ==
    ASSUME TypeOK, NEW c \in Clients, Stray(c) \/ TakeAtItsWord(c)
    PROVE  strayed' \in [Clients -> 0 .. setting.jobs]
<1>1. strayed \in [Clients -> 0 .. setting.jobs] /\ number[c] \in 0 .. setting.jobs
  BY DEF TypeOK
<1>2. UNCHANGED strayed \/ Stray(c)
  BY DEF TakeAtItsWord
<1>3. (IF strayed[c] = 0 THEN number[c] ELSE strayed[c]) \in 0 .. setting.jobs
  BY <1>1
<1> QED
  BY <1>1, <1>2, <1>3 DEF Stray

LEMMA ClientTypes ==
    ASSUME TypeOK, PlacesInv, UNCHANGED Outside,
           NEW c \in Clients, ClientStep(c) \/ Timeout(c)
    PROVE  TypeOK'
<1> USE DEF Outside, adminVars, clientVars, clientState, sharedVars, udpVars, workerVars, procVars
<1>1. CASE SubmitJob(c)
  <2>1. number[c] + 1 \in 0 .. setting.jobs /\ <<c, number[c] + 1>> \in Jobs
    <3>1. number[c] \in 0 .. setting.jobs /\ setting.jobs \in 0 .. MaxJobs
          /\ number[c] < setting.jobs
      BY <1>1, SettingTypes DEF TypeOK, SubmitJob
    <3>2. number[c] + 1 \in 1 .. setting.jobs /\ setting.jobs \in Nat /\ setting.jobs <= MaxJobs
      BY <3>1
    <3>3. number[c] + 1 \in 1 .. MaxJobs
      BY <3>2, JobsAssumption
    <3> QED
      BY <3>2, <3>3 DEF Jobs
  <2>2. udp' \in Seq(Requests)
    BY <1>1, <2>1, RequestTypes DEF SubmitJob
  <2>3. 0 \in 0 .. setting.attempts
    BY SettingTypes
  <2>4. /\ number' \in [Clients -> 0 .. setting.jobs]
        /\ attempt' \in [Clients -> 0 .. setting.attempts]
        /\ client' \in [Clients -> Places]
    BY <1>1, <2>1, <2>3 DEF SubmitJob, TypeOK, Become, Places
  <2> QED
    BY <1>1, <2>2, <2>4 DEF SubmitJob, TypeOK
<1>2. CASE ReceiveJobAck(c)
  <2>1. inbox' \in [Clients -> Seq(Replies)] /\ strayed' \in [Clients -> 0 .. setting.jobs]
    BY <1>2, ReceivedTypes, StrayTypes DEF ReceiveJobAck
  <2>2. Job(c) \in Jobs
    BY <1>2, JobTypes DEF ReceiveJobAck
  <2>3. udp' \in Seq(Requests)
    BY <1>2, <2>2, RequestTypes DEF ReceiveJobAck, Request, TypeOK
  <2>4. 1 \in 0 .. setting.attempts
    BY SettingTypes
  <2>5. attempt' \in [Clients -> 0 .. setting.attempts] /\ client' \in [Clients -> Places]
    BY <1>2, <2>4 DEF ReceiveJobAck, TypeOK, Become, Places, AtMenu
  <2> QED
    BY <1>2, <2>1, <2>3, <2>5 DEF ReceiveJobAck, TypeOK
<1>3. CASE ReceiveUploadAck(c)
  <2>1. inbox' \in [Clients -> Seq(Replies)] /\ strayed' \in [Clients -> 0 .. setting.jobs]
    BY <1>3, ReceivedTypes, StrayTypes DEF ReceiveUploadAck
  <2>2. Job(c) \in Jobs
    BY <1>3, JobTypes DEF ReceiveUploadAck
  <2>3. backlog' \in Seq(Jobs)
    <3>1. backlog \in Seq(Jobs) /\ Append(backlog, Job(c)) \in Seq(Jobs)
      BY <2>2, AppendProperties DEF TypeOK
    <3> QED
      BY <1>3, <3>1 DEF ReceiveUploadAck
  <2>4. client' \in [Clients -> Places]
    BY <1>3 DEF ReceiveUploadAck, TypeOK, Become, Places, AtMenu
  <2> QED
    BY <1>3, <2>1, <2>3, <2>4 DEF ReceiveUploadAck, TypeOK
<1>4. CASE ReceiveResult(c)
  <2>1. inbox' \in [Clients -> Seq(Replies)]
    BY <1>4, ReceivedTypes DEF ReceiveResult
  <2>2. Job(c) \in Jobs
    BY <1>4, JobTypes DEF ReceiveResult
  <2>3. udp' \in Seq(Requests)
    BY <1>4, <2>2, RequestTypes DEF ReceiveResult, Request, TypeOK
  <2>4. client' \in [Clients -> Places]
    <3>1. client' = client \/ Become(c, "download") \/ Become(c, "failed")
      BY <1>4 DEF ReceiveResult
    <3> QED
      BY <3>1 DEF TypeOK, Become, Places, AtMenu
  <2>5. UNCHANGED <<number, attempt, strayed, sharedVars, handling, workerVars, procVars>>
    BY <1>4 DEF ReceiveResult
  <2> QED
    BY <2>1, <2>3, <2>4, <2>5 DEF TypeOK
<1>5. CASE ReceiveDownloadAck(c)
  <2>1. inbox' \in [Clients -> Seq(Replies)] /\ strayed' \in [Clients -> 0 .. setting.jobs]
    BY <1>5, ReceivedTypes, StrayTypes DEF ReceiveDownloadAck
  <2>2. client' \in [Clients -> Places]
    BY <1>5 DEF ReceiveDownloadAck, TypeOK, Become, Places, AtMenu
  <2> QED
    BY <1>5, <2>1, <2>2 DEF ReceiveDownloadAck, TypeOK
<1>6. CASE RetryUpload(c)
  <2>1. strayed' \in [Clients -> 0 .. setting.jobs]
    BY <1>6, StrayTypes DEF RetryUpload
  <2>2. Job(c) \in Jobs
    BY <1>6, JobTypes DEF RetryUpload
  <2>3. udp' \in Seq(Requests)
    BY <1>6, <2>2, RequestTypes DEF RetryUpload, Request
  <2>4. attempt' \in [Clients -> 0 .. setting.attempts]
    <3>1. attempt[c] + 1 \in 0 .. setting.attempts
      <4>1. setting.attempts \in Nat
        BY SettingTypes
      <4>2. attempt[c] \in 0 .. setting.attempts /\ attempt[c] < setting.attempts
        BY <1>6 DEF RetryUpload, TypeOK
      <4> QED
        BY <4>1, <4>2
    <3> QED
      BY <1>6, <3>1 DEF RetryUpload, TypeOK
  <2> QED
    BY <1>6, <2>1, <2>3, <2>4 DEF RetryUpload, TypeOK
<1>7. CASE GiveUp(c)
  <2>1. strayed' \in [Clients -> 0 .. setting.jobs]
    BY <1>7, StrayTypes DEF GiveUp
  <2>2. client' \in [Clients -> Places]
    BY <1>7 DEF GiveUp, TypeOK, Become, Places, AtMenu
  <2> QED
    BY <1>7, <2>1, <2>2 DEF GiveUp, TypeOK
<1> QED
  BY <1>1, <1>2, <1>3, <1>4, <1>5, <1>6, <1>7 DEF ClientStep, Timeout

LEMMA ArrivedTypes ==
    ASSUME TypeOK, NEW type, Arrived(type)
    PROVE  /\ udp # <<>> /\ Head(udp) \in Requests /\ Head(udp).type = type
           /\ Head(udp).job \in Jobs /\ Tail(udp) \in Seq(Requests)
<1>1. udp # <<>> /\ Head(udp).type = type
  BY DEF Arrived
<1>2. Head(udp) \in Requests /\ Tail(udp) \in Seq(Requests)
  BY <1>1, HeadTailProperties DEF TypeOK
<1> QED
  BY <1>1, <1>2 DEF Requests

LEMMA HandlingTypes ==
    ASSUME TypeOK, handling # NoRequest \/ handling.type # "none"
    PROVE  handling \in Requests /\ handling.job \in Jobs
BY DEF TypeOK, NoRequest, Message, Requests

LEMMA UdpTypes ==
    ASSUME TypeOK, UNCHANGED Outside, UdpThread
    PROVE  TypeOK'
<1> USE DEF Outside, adminVars, clientVars, clientState, sharedVars, udpVars, workerVars, procVars
<1>1. CASE MakeDirectory
  <2>1. /\ Head(udp) \in Requests /\ Head(udp).job \in Jobs /\ Tail(udp) \in Seq(Requests)
    BY <1>1, ArrivedTypes DEF MakeDirectory
  <2>2. inbox' \in [Clients -> Seq(Replies)]
    BY <1>1, <2>1, ReplyTypes DEF MakeDirectory, TypeOK
  <2>3. udp' \in Seq(Requests) /\ handling' \in Requests \cup {NoRequest}
    BY <1>1, <2>1 DEF MakeDirectory, TypeOK
  <2> QED
    BY <1>1, <2>2, <2>3 DEF MakeDirectory, TypeOK
<1>2. CASE AddJob
  <2>1. handling.job \in Jobs
    BY <1>2, HandlingTypes DEF AddJob
  <2>2. inbox' \in [Clients -> Seq(Replies)]
    BY <1>2, <2>1, ReplyTypes DEF AddJob
  <2>3. pending_jobs' \in Seq([job : Jobs, files_received : Nat])
    <3>1. [job |-> handling.job, files_received |-> 0] \in [job : Jobs, files_received : Nat]
      BY <2>1
    <3> QED
      BY <1>2, <3>1, AppendProperties DEF AddJob, TypeOK
  <2> QED
    BY <1>2, <2>2, <2>3 DEF AddJob, TypeOK
<1>3. CASE EnqueueUpload
  <2>1. /\ Head(udp) \in Requests /\ Head(udp).job \in Jobs /\ Tail(udp) \in Seq(Requests)
    BY <1>3, ArrivedTypes DEF EnqueueUpload
  <2>2. upload_queue' \in Seq(Jobs)
    BY <1>3, <2>1, AppendProperties DEF EnqueueUpload, TypeOK
  <2> QED
    BY <1>3, <2>1, <2>2 DEF EnqueueUpload, TypeOK
<1>4. CASE AckUpload
  <2>1. handling.job \in Jobs
    BY <1>4, HandlingTypes DEF AckUpload
  <2>2. inbox' \in [Clients -> Seq(Replies)]
    BY <1>4, <2>1, ReplyTypes DEF AckUpload
  <2> QED
    BY <1>4, <2>2 DEF AckUpload, TypeOK
<1>5. CASE HandleDownload
  <2>1. /\ Head(udp) \in Requests /\ Head(udp).job \in Jobs /\ Tail(udp) \in Seq(Requests)
    BY <1>5, ArrivedTypes DEF HandleDownload
  <2>2. inbox' \in [Clients -> Seq(Replies)]
    <3>1. (AtRoot /\ Head(udp).job \in output) \in BOOLEAN
      BY DEF AtRoot
    <3> QED
      BY <1>5, <2>1, <3>1, ReplyTypes DEF HandleDownload
  <2> QED
    BY <1>5, <2>1, <2>2 DEF HandleDownload, TypeOK
<1> QED
  BY <1>1, <1>2, <1>3, <1>4, <1>5 DEF UdpThread

LEMMA OneMoreFile ==
    ASSUME NEW e \in [job : Jobs, files_received : Nat]
    PROVE  /\ [e EXCEPT !.files_received = @ + 1] \in [job : Jobs, files_received : Nat]
           /\ [e EXCEPT !.files_received = @ + 1].job = e.job
           /\ [e EXCEPT !.files_received = @ + 1].files_received = e.files_received + 1
OBVIOUS

LEMMA UploadTypes ==
    ASSUME TypeOK, PlacesInv, UNCHANGED Outside, NEW w \in Workers, UploadThread(w)
    PROVE  TypeOK'
<1> USE DEF Outside, adminVars, clientVars, clientState, sharedVars, udpVars, workerVars, procVars, TypeOK
<1>1. CASE TakeUpload(w)
  <2>1. PICK k \in 1 .. Len(upload_queue) :
           /\ job' = [job EXCEPT ![w] = upload_queue[k]]
           /\ upload_queue' = RemoveAt(upload_queue, k)
    BY <1>1 DEF TakeUpload
  <2>2. k \in DOMAIN upload_queue /\ upload_queue[k] \in Jobs
    BY LenProperties, ElementOfSeq
  <2>3. upload_queue' \in Seq(Jobs)
    BY <2>1, <2>2, RemovePlaces
  <2> QED
    BY <1>1, <2>1, <2>2, <2>3 DEF TakeUpload, Go
<1>2. CASE FindJob(w)
  BY <1>2 DEF FindJob, Go
<1>3. CASE Accept(w)
  <2>1. Head(backlog) \in Jobs /\ Tail(backlog) \in Seq(Jobs)
    BY <1>3, HeadTailProperties DEF Accept
  <2> QED
    BY <1>3, <2>1 DEF Accept, Go
<1>4. CASE OpenFile(w)
  BY <1>4 DEF OpenFile, Go
<1>5. CASE ReceiveFile(w)
  <2>1. Contents(w) \subseteq {"none", "empty", "whole", "wrong"}
    BY DEF Contents
  <2> QED
    BY <1>5, <2>1 DEF ReceiveFile, Go
<1>6. CASE CountFile(w)
  <2>1. pending_jobs' \in Seq([job : Jobs, files_received : Nat])
    <3>1. CASE pending_jobs' = pending_jobs
      BY <3>1
    <3>2. ASSUME NEW k \in 1 .. Len(pending_jobs),
                 pending_jobs' = [pending_jobs EXCEPT ![k].files_received = @ + 1]
          PROVE  pending_jobs' \in Seq([job : Jobs, files_received : Nat])
      <4>1. k \in DOMAIN pending_jobs /\ pending_jobs[k] \in [job : Jobs, files_received : Nat]
        BY LenProperties, ElementOfSeq
      <4> DEFINE e == [pending_jobs[k] EXCEPT !.files_received = @ + 1]
      <4>2. pending_jobs' = [pending_jobs EXCEPT ![k] = e]
        BY <3>2, <4>1
      <4>3. e \in [job : Jobs, files_received : Nat]
        BY <4>1, OneMoreFile
      <4> HIDE DEF e
      <4> QED
        BY <4>1, <4>2, <4>3, ExceptSeq
    <3> QED
      BY <1>6, <3>1, <3>2 DEF CountFile
  <2> QED
    BY <1>6, <2>1 DEF CountFile, Go
<1> QED
  BY <1>1, <1>2, <1>3, <1>4, <1>5, <1>6 DEF UploadThread

(* The entry that the processing thread is at. *)
LEMMA EntryTypes ==
    ASSUME TypeOK, NEW k \in DOMAIN pending_jobs
    PROVE  /\ pending_jobs[k].job \in Jobs /\ Owner(pending_jobs[k].job) \in Clients
           /\ pending_jobs[k].files_received \in Nat
<1> DEFINE Entry == [job : Jobs, files_received : Nat]
<1>1. pending_jobs[k] \in Entry
  <2>1. pending_jobs \in Seq(Entry)
    BY DEF TypeOK
  <2> HIDE DEF Entry
  <2>2. k \in 1 .. Len(pending_jobs)
    BY <2>1, LenProperties
  <2> QED
    BY <2>1, <2>2, ElementOfSeq
<1> QED
  BY <1>1 DEF Owner, Jobs

LEMMA ScanTypes ==
    ASSUME TypeOK, i <= Len(pending_jobs)
    PROVE  i \in DOMAIN pending_jobs
BY LenProperties DEF TypeOK

LEMMA ProcessingTypes ==
    ASSUME TypeOK, PlacesInv, UNCHANGED Outside, ProcessingThread
    PROVE  TypeOK'
<1> USE DEF Outside, adminVars, clientVars, clientState, sharedVars, udpVars, workerVars, procVars, TypeOK
<1>1. CASE BeginPass
  BY <1>1 DEF BeginPass
<1>2. CASE SkipJob
  <2>1. i' \in Nat \ {0}
    BY <1>2 DEF SkipJob
  <2>2. UNCHANGED <<clientVars, sharedVars, udpVars, workerVars, processing, runs>>
    BY <1>2 DEF SkipJob
  <2> QED
    BY <2>1, <2>2
<1>3. CASE StartCommand
  <2>1. pending_jobs[i].job \in Jobs
    BY <1>3, ScanTypes, EntryTypes DEF StartCommand
  <2> DEFINE j == pending_jobs[i].job
  <2>2. cwd' = j /\ runs' = [runs EXCEPT ![j] = Append(runs[j], file[j])]
    BY <1>3, <2>1 DEF StartCommand
  <2>3. j \in Jobs /\ runs[j] \in Seq({"none", "empty", "whole", "wrong"})
        /\ file[j] \in {"none", "empty", "whole", "wrong"}
    BY <2>1
  <2> HIDE DEF j
  <2>4. Append(runs[j], file[j]) \in Seq({"none", "empty", "whole", "wrong"})
    BY <2>3, AppendProperties
  <2>5. runs' \in [Jobs -> Seq({"none", "empty", "whole", "wrong"})] /\ cwd' \in Jobs \cup {None}
    BY <2>2, <2>3, <2>4
  <2> QED
    BY <1>3, <2>5 DEF StartCommand
<1>4. CASE EndCommand
  <2>1. pending_jobs[i].job \in Jobs
    BY <1>4, EntryTypes DEF EndCommand, PlacesInv, Executing
  <2>2. PICK ok \in BOOLEAN :
           /\ output' = IF ok THEN output \cup {pending_jobs[i].job} ELSE output
           /\ Send(Reply("JOB_RESULT", pending_jobs[i].job, ok))
    BY <1>4 DEF EndCommand
  <2>3. inbox' \in [Clients -> Seq(Replies)]
    BY <2>1, <2>2, ReplyTypes
  <2> QED
    BY <1>4, <2>1, <2>2, <2>3 DEF EndCommand
<1>5. CASE RemoveJob
  <2>1. i \in DOMAIN pending_jobs
    BY <1>5 DEF RemoveJob, PlacesInv, Executing
  <2>2. pending_jobs' \in Seq([job : Jobs, files_received : Nat])
    BY <1>5, <2>1, RemovePlaces DEF RemoveJob
  <2> QED
    BY <1>5, <2>2 DEF RemoveJob
<1>6. CASE EndPass
  BY <1>6 DEF EndPass
<1> QED
  BY <1>1, <1>2, <1>3, <1>4, <1>5, <1>6 DEF ProcessingThread

(***************************************************************************)
(* The admin thread disturbs nothing but the place of a client.            *)
(***************************************************************************)
restVars == <<number, attempt, inbox, sharedVars, udpVars, workerVars, procVars>>

LEMMA AdminKeepsRest ==
    ASSUME AdminThread \/ UNCHANGED vars
    PROVE  UNCHANGED restVars
BY DEF AdminThread, ReadKick, SetMaxUploads, restVars, vars, adminVars, clientVars, clientState,
       sharedVars, udpVars, workerVars, procVars

LEMMA AdminTypes ==
    ASSUME TypeOK, UNCHANGED setting, AdminThread
    PROVE  TypeOK'
<1>1. UNCHANGED restVars
  BY AdminKeepsRest
<1>2. CASE \E c \in Clients : ReadKick(c)
  <2>1. PICK c \in Clients : ReadKick(c)
    BY <1>2
  <2>2. strayed' \in [Clients -> 0 .. setting.jobs]
    BY <2>1, StrayTypes DEF ReadKick, TypeOK
  <2>3. client' \in [Clients -> Places]
    <3>1. client \in [Clients -> Places]
      BY DEF TypeOK
    <3>2. KickTakenFor(client[c]) \in Places
      BY DEF KickTakenFor, Places, AtMenu
    <3>3. UNCHANGED client \/ Become(c, KickTakenFor(client[c]))
      BY <2>1 DEF ReadKick
    <3> QED
      BY <3>1, <3>2, <3>3 DEF Become
  <2>4. kicked' \in SUBSET Clients /\ max_uploads' \in Nat
    BY <2>1 DEF ReadKick, TypeOK
  <2> QED
    BY <1>1, <2>2, <2>3, <2>4
       DEF TypeOK, restVars, sharedVars, udpVars, workerVars, procVars
<1>3. CASE \E n \in setting.limits : SetMaxUploads(n)
  <2>1. PICK n \in setting.limits : SetMaxUploads(n)
    BY <1>3
  <2>2. n \in Nat
    BY SettingsAssumption DEF TypeOK
  <2> QED
    BY <1>1, <2>1, <2>2
       DEF SetMaxUploads, TypeOK, restVars, clientVars, clientState, sharedVars, udpVars,
           workerVars, procVars
<1> QED
  BY <1>2, <1>3 DEF AdminThread

LEMMA TypesPreserved == TypeOK /\ PlacesInv /\ [Next]_vars => TypeOK'
<1> SUFFICES ASSUME TypeOK, PlacesInv, [Next]_vars PROVE TypeOK'
  OBVIOUS
<1>1. CASE UNCHANGED vars
  BY <1>1
     DEF TypeOK, vars, clientVars, clientState, sharedVars, udpVars, workerVars, procVars, adminVars
<1>2. CASE AdminThread /\ UNCHANGED setting
  BY <1>2, AdminTypes
<1>3. ASSUME UNCHANGED Outside,
             \/ \E c \in Clients : ClientStep(c) \/ Timeout(c)
             \/ UdpThread
             \/ \E w \in Workers : UploadThread(w)
             \/ ProcessingThread
      PROVE  TypeOK'
  BY <1>3, ClientTypes, UdpTypes, UploadTypes, ProcessingTypes
<1> QED
  BY <1>1, <1>2, <1>3 DEF Next, Outside

-----------------------------------------------------------------------------
(***************************************************************************)
(* The upload threads change nothing that the others look at, but for the  *)
(* count of the files in an entry.                                         *)
(***************************************************************************)
courseVars == <<client, number, strayed, inbox, cwd, output, udp, handling, processing, i, runs>>

SameEntries ==
    /\ DOMAIN pending_jobs' = DOMAIN pending_jobs
    /\ \A k \in DOMAIN pending_jobs : pending_jobs'[k].job = pending_jobs[k].job

LEMMA CountProperties ==
    ASSUME TypeOK, NEW w \in Workers, CountFile(w)
    PROVE  /\ SameEntries
           /\ \A k \in DOMAIN pending_jobs :
                 pending_jobs'[k].files_received # pending_jobs[k].files_received =>
                    pending_jobs[k].job = job[w]
<1>1. CASE pending_jobs' = pending_jobs
  BY <1>1 DEF SameEntries
<1>2. ASSUME NEW k \in 1 .. Len(pending_jobs), FirstEntry(job[w], k),
             pending_jobs' = [pending_jobs EXCEPT ![k].files_received = @ + 1]
      PROVE  /\ SameEntries
             /\ \A m \in DOMAIN pending_jobs :
                 pending_jobs'[m].files_received # pending_jobs[m].files_received =>
                    pending_jobs[m].job = job[w]
  <2>1. k \in DOMAIN pending_jobs /\ pending_jobs[k] \in [job : Jobs, files_received : Nat]
    BY LenProperties, ElementOfSeq DEF TypeOK
  <2> DEFINE e == [pending_jobs[k] EXCEPT !.files_received = @ + 1]
  <2>2. pending_jobs' = [pending_jobs EXCEPT ![k] = e]
    BY <1>2, <2>1
  <2>3. e.job = pending_jobs[k].job /\ pending_jobs[k].job = job[w]
    BY <1>2, <2>1, OneMoreFile DEF FirstEntry
  <2> HIDE DEF e
  <2>4. DOMAIN pending_jobs' = DOMAIN pending_jobs /\ pending_jobs'[k] = e
        /\ \A m \in DOMAIN pending_jobs : m # k => pending_jobs'[m] = pending_jobs[m]
    BY <2>1, <2>2
  <2>5. \A m \in DOMAIN pending_jobs : pending_jobs'[m].job = pending_jobs[m].job
    BY <2>3, <2>4
  <2> QED
    BY <2>3, <2>4, <2>5 DEF SameEntries
<1> QED
  BY <1>1, <1>2 DEF CountFile

LEMMA UploadsKeepCourse ==
    ASSUME TypeOK, NEW w \in Workers, UploadThread(w)
    PROVE  /\ UNCHANGED courseVars
           /\ SameEntries
           /\ ~CountFile(w) => UNCHANGED pending_jobs
<1> USE DEF clientVars, clientState, sharedVars, udpVars, workerVars, procVars, courseVars
<1>1. CASE CountFile(w)
  <2>1. SameEntries
    BY <1>1, CountProperties
  <2> QED
    BY <1>1, <2>1 DEF CountFile
<1>2. CASE ~CountFile(w)
  <2>1. UNCHANGED courseVars /\ UNCHANGED pending_jobs
    BY <1>2 DEF UploadThread, TakeUpload, FindJob, Accept, OpenFile, ReceiveFile
  <2> QED
    BY <2>1 DEF SameEntries
<1> QED
  BY <1>1, <1>2

(***************************************************************************)
(* What a client does, as the server sees it.                              *)
(***************************************************************************)
LEMMA ClientsKeepServer ==
    ASSUME NEW c \in Clients, ClientStep(c) \/ Timeout(c)
    PROVE  /\ UNCHANGED <<pending_jobs, cwd, upload_queue, file, output, handling, workerVars,
                          procVars>>
           /\ ~SubmitJob(c) => UNCHANGED number
BY DEF ClientStep, Timeout, SubmitJob, ReceiveJobAck, ReceiveUploadAck, ReceiveResult,
       ReceiveDownloadAck, RetryUpload, GiveUp, clientVars, clientState, sharedVars, udpVars,
       workerVars, procVars

LEMMA PlacesPreserved == TypeOK /\ PlacesInv /\ [Next]_vars => PlacesInv'
<1> SUFFICES ASSUME TypeOK, PlacesInv, [Next]_vars PROVE PlacesInv'
  OBVIOUS
<1> USE DEF clientVars, clientState, sharedVars, udpVars, workerVars, procVars
<1>1. CASE UNCHANGED vars
  BY <1>1 DEF vars, PlacesInv, Executing
<1>2. ASSUME NEW c \in Clients, ClientStep(c) \/ Timeout(c), UNCHANGED setting
      PROVE  PlacesInv'
  <2>1. UNCHANGED <<worker, job, conn, processing, i, pending_jobs, cwd>>
    BY <1>2, ClientsKeepServer
  <2>2. CASE SubmitJob(c)
    <3>1. /\ number' = [number EXCEPT ![c] = @ + 1] /\ client' = [client EXCEPT ![c] = "job"]
          /\ number[c] \in Nat /\ c \in setting.clients
      BY <2>2, SettingTypes DEF SubmitJob, Become, TypeOK
    <3> QED
      BY <1>2, <2>1, <3>1 DEF PlacesInv, Executing, TypeOK
  <2>3. CASE ~SubmitJob(c)
    <3>1. /\ number' = number
          /\ \A d \in Clients : client'[d] = client[d] \/ (d = c /\ client[d] # "menu")
      BY <1>2, <2>3, ClientsKeepServer
         DEF ClientStep, Timeout, ReceiveJobAck, ReceiveUploadAck, ReceiveResult,
             ReceiveDownloadAck, RetryUpload, GiveUp, Become, TypeOK
    <3> QED
      BY <1>2, <2>1, <3>1 DEF PlacesInv, Executing
  <2> QED
    BY <2>2, <2>3
<1>3. CASE UdpThread /\ UNCHANGED setting
  <2>1. UNCHANGED <<client, number, worker, job, conn, processing, i, cwd>>
    BY <1>3 DEF UdpThread, MakeDirectory, AddJob, EnqueueUpload, AckUpload, HandleDownload
  <2>2. Executing => pending_jobs' = pending_jobs
    BY <1>3 DEF UdpThread, MakeDirectory, AddJob, EnqueueUpload, AckUpload, HandleDownload,
                JobsLocked, Executing
  <2> QED
    BY <1>3, <2>1, <2>2 DEF PlacesInv, Executing
<1>4. ASSUME NEW w \in Workers, UploadThread(w), UNCHANGED setting
      PROVE  PlacesInv'
  <2>1. UNCHANGED courseVars /\ SameEntries
    BY <1>4, UploadsKeepCourse
  <2>2. \A v \in Workers : worker'[v] # "idle" => job'[v] \in Jobs
    <3>1. ASSUME NEW v \in Workers, v # w PROVE worker'[v] = worker[v] /\ job'[v] = job[v]
      BY <1>4, <3>1 DEF UploadThread, TakeUpload, FindJob, Accept, OpenFile, ReceiveFile,
                        CountFile, Go, TypeOK
    <3>2. worker'[w] # "idle" => job'[w] \in Jobs
      <4>1. CASE TakeUpload(w)
        <5>1. PICK k \in 1 .. Len(upload_queue) : job' = [job EXCEPT ![w] = upload_queue[k]]
          BY <4>1 DEF TakeUpload
        <5>2. upload_queue[k] \in Jobs
          BY ElementOfSeq DEF TypeOK
        <5> QED
          BY <5>1, <5>2 DEF TypeOK
      <4>2. CASE ~TakeUpload(w)
        <5>1. worker[w] # "idle" /\ (job'[w] = job[w] \/ worker'[w] = "idle")
          BY <1>4, <4>2 DEF UploadThread, FindJob, Accept, OpenFile, ReceiveFile, CountFile, Go,
                            TypeOK
        <5> QED
          BY <5>1 DEF PlacesInv
      <4> QED
        BY <4>1, <4>2
    <3> QED
      BY <3>1, <3>2 DEF PlacesInv
  <2>3. \A v \in Workers : worker'[v] \in {"open", "receive"} => conn'[v] \in Jobs
    <3>1. ASSUME NEW v \in Workers, v # w PROVE worker'[v] = worker[v] /\ conn'[v] = conn[v]
      BY <1>4, <3>1 DEF UploadThread, TakeUpload, FindJob, Accept, OpenFile, ReceiveFile,
                        CountFile, Go, TypeOK
    <3>2. worker'[w] \in {"open", "receive"} => conn'[w] \in Jobs
      <4>1. CASE Accept(w)
        <5>1. Head(backlog) \in Jobs
          BY <4>1, HeadTailProperties DEF Accept, TypeOK
        <5> QED
          BY <4>1, <5>1 DEF Accept, TypeOK
      <4>2. CASE OpenFile(w)
        BY <4>2 DEF OpenFile, Go, PlacesInv, TypeOK
      <4>3. CASE ~Accept(w) /\ ~OpenFile(w)
        <5>1. worker'[w] \notin {"open", "receive"}
          BY <1>4, <4>3 DEF UploadThread, TakeUpload, FindJob, ReceiveFile, CountFile, Go, TypeOK
        <5> QED
          BY <5>1
      <4> QED
        BY <4>1, <4>2, <4>3
    <3> QED
      BY <3>1, <3>2 DEF PlacesInv
  <2> QED
    BY <1>4, <2>1, <2>2, <2>3 DEF PlacesInv, SameEntries, courseVars, Executing
<1>5. CASE ProcessingThread /\ UNCHANGED setting
  <2>1. UNCHANGED <<client, number, worker, job, conn>>
    BY <1>5 DEF ProcessingThread, BeginPass, SkipJob, StartCommand, EndCommand, RemoveJob, EndPass
  <2>2. CASE StartCommand
    <3>1. i \in DOMAIN pending_jobs
      BY <2>2, ScanTypes DEF StartCommand
    <3> QED
      BY <1>5, <2>1, <2>2, <3>1 DEF StartCommand, PlacesInv, Executing
  <2>3. CASE ~StartCommand
    BY <1>5, <2>1, <2>3
       DEF ProcessingThread, BeginPass, SkipJob, EndCommand, RemoveJob, EndPass, PlacesInv,
           Executing
  <2> QED
    BY <2>2, <2>3
<1>6. ASSUME NEW c \in Clients, ReadKick(c), UNCHANGED setting
      PROVE  PlacesInv'
  <2>1. \A d \in Clients : client'[d] = client[d] \/ (d = c /\ client[d] # "menu")
    BY <1>6 DEF ReadKick, Become, TypeOK
  <2> QED
    BY <1>6, <2>1 DEF ReadKick, PlacesInv, Executing
<1>7. ASSUME NEW n, SetMaxUploads(n), UNCHANGED setting
      PROVE  PlacesInv'
  BY <1>7 DEF SetMaxUploads, PlacesInv, Executing
<1> QED
  BY <1>1, <1>2, <1>3, <1>4, <1>5, <1>6, <1>7 DEF Next, AdminThread

(***************************************************************************)
(* Type correctness.                                                       *)
(***************************************************************************)
THEOREM PipelineTypes == Spec => []TypeOK
BY TypesInitially, TypesPreserved, PlacesPreserved, PTL DEF Spec

-----------------------------------------------------------------------------
(***************************************************************************)
(* A job is in one place at a time: in its JOB_REQ, which is sent once, in *)
(* the half-done handler, in its entry, or behind it.                      *)
(***************************************************************************)
Begun(j) == j[2] <= number[Owner(j)]
Listed(j) == \E k \in DOMAIN pending_jobs : pending_jobs[k].job = j
Fresh(j) == ~Listed(j) /\ runs[j] = <<>>

BegunInv ==
    /\ \A p \in DOMAIN udp : Begun(udp[p].job)
    /\ handling # NoRequest => Begun(handling.job)
    /\ \A k \in DOMAIN pending_jobs : Begun(pending_jobs[k].job)
    /\ \A j \in Jobs : runs[j] # <<>> => Begun(j)

DistinctRequests ==
    \A p, q \in DOMAIN udp :
        udp[p].type = "JOB_REQ" /\ udp[q].type = "JOB_REQ" /\ udp[p].job = udp[q].job => p = q

FreshRequests ==
    \A p \in DOMAIN udp : udp[p].type = "JOB_REQ" =>
        Fresh(udp[p].job) /\ (handling.type = "JOB_REQ" => handling.job # udp[p].job)

FreshHandling == handling.type = "JOB_REQ" => Fresh(handling.job)

DistinctEntries ==
    \A k, m \in DOMAIN pending_jobs : pending_jobs[k].job = pending_jobs[m].job => k = m

EntriesNotRun ==
    \A k \in DOMAIN pending_jobs :
        runs[pending_jobs[k].job] # <<>> => Executing /\ k = i

OnceInv ==
    /\ DistinctRequests /\ FreshRequests /\ FreshHandling
    /\ DistinctEntries /\ EntriesNotRun
    /\ Executing => Len(runs[cwd]) = 1
    /\ RunsAtMostOnce

LEMMA BegunInitially == Init => BegunInv /\ OnceInv
<1> SUFFICES ASSUME Init PROVE BegunInv /\ OnceInv
  OBVIOUS
<1>1. DOMAIN udp = {} /\ DOMAIN pending_jobs = {} /\ \A j \in Jobs : runs[j] = <<>> /\ Len(runs[j]) = 0
  BY DEF Init
<1>2. handling = NoRequest /\ handling.type # "JOB_REQ" /\ ~Executing
  BY DEF Init, NoRequest, Message, Executing
<1> QED
  BY <1>1, <1>2 DEF BegunInv, OnceInv, DistinctRequests, FreshRequests, FreshHandling,
                    DistinctEntries, EntriesNotRun, RunsAtMostOnce

(***************************************************************************)
(* The places of pending_jobs and of the server's socket.                  *)
(***************************************************************************)
LEMMA PendingPlaces ==
    /\ \A j : Pending(j) <=> Listed(j)
    /\ \A j : Pending(j)' <=> Listed(j)'
BY DEF Pending, Listed, ToSet

LEMMA UdpPlaces ==
    ASSUME TypeOK
    PROVE  \A p \in DOMAIN udp : udp[p] \in Requests /\ udp[p].job \in Jobs /\ Owner(udp[p].job) \in Clients
<1>1. \A p \in DOMAIN udp : udp[p] \in Requests
  <2>1. udp \in Seq(Requests)
    BY DEF TypeOK
  <2> QED
    BY <2>1, LenProperties, ElementOfSeq
<1> QED
  BY <1>1 DEF Requests, Jobs, Owner

LEMMA ArrivedPlaces ==
    ASSUME TypeOK, NEW type, Arrived(type), udp' = Tail(udp)
    PROVE  /\ 1 \in DOMAIN udp /\ Head(udp) = udp[1] /\ udp[1].type = type
           /\ udp[1] \in Requests /\ udp[1].job \in Jobs /\ Owner(udp[1].job) \in Clients
           /\ \A p \in DOMAIN udp' : p \in Nat /\ p # 0 /\ p + 1 \in DOMAIN udp /\ udp'[p] = udp[p + 1]
           /\ handling = NoRequest /\ handling.type = "none"
<1>1. udp # <<>> /\ Head(udp).type = type /\ udp \in Seq(Requests)
  BY DEF Arrived, TypeOK
<1>2. /\ 1 \in DOMAIN udp /\ Head(udp) = udp[1]
      /\ \A p \in DOMAIN udp' : p \in Nat /\ p # 0 /\ p + 1 \in DOMAIN udp /\ udp'[p] = udp[p + 1]
  BY <1>1, TailPlaces
<1>3. handling = NoRequest /\ handling.type = "none"
  BY DEF Arrived, NoRequest, Message
<1> QED
  BY <1>1, <1>2, <1>3, UdpPlaces

(* A request that is sent takes a new place. *)
LEMMA SentPlaces ==
    ASSUME TypeOK, NEW c \in Clients, NEW j \in Jobs,
           NEW type \in {"JOB_REQ", "UPLOAD_REQ", "DOWNLOAD_REQ"},
           udp' = Append(udp, Message(type, j))
    PROVE  /\ Len(udp) + 1 \notin DOMAIN udp
           /\ DOMAIN udp' = DOMAIN udp \cup {Len(udp) + 1}
           /\ \A p \in DOMAIN udp : udp'[p] = udp[p]
           /\ udp'[Len(udp) + 1].type = type /\ udp'[Len(udp) + 1].job = j
<1>1. Message(type, j) \in Requests /\ udp \in Seq(Requests)
  BY RequestTypes DEF TypeOK
<1>2. /\ Len(udp) + 1 \notin DOMAIN udp
      /\ DOMAIN udp' = DOMAIN udp \cup {Len(udp) + 1}
      /\ \A p \in DOMAIN udp : udp'[p] = udp[p]
      /\ udp'[Len(udp) + 1] = Message(type, j)
  BY <1>1, AppendPlaces
<1>3. Message(type, j).type = type /\ Message(type, j).job = j
  BY DEF Message
<1> QED
  BY <1>2, <1>3

LEMMA ClientSends ==
    ASSUME TypeOK, PlacesInv, NEW c \in Clients, ClientStep(c) \/ Timeout(c), ~SubmitJob(c)
    PROVE  \/ udp' = udp
           \/ /\ Job(c) \in Jobs
              /\ \E type \in {"UPLOAD_REQ", "DOWNLOAD_REQ"} : udp' = Append(udp, Message(type, Job(c)))
<1>1. client[c] # "menu"
  BY DEF ClientStep, Timeout, ReceiveJobAck, ReceiveUploadAck, ReceiveResult,
         ReceiveDownloadAck, RetryUpload, GiveUp
<1>2. Job(c) \in Jobs
  BY <1>1, JobTypes
<1> QED
  BY <1>2 DEF ClientStep, Timeout, ReceiveJobAck, ReceiveUploadAck, ReceiveResult,
              ReceiveDownloadAck, RetryUpload, GiveUp, Request, udpVars

LEMMA SubmitProperties ==
    ASSUME TypeOK, NEW c \in Clients, SubmitJob(c)
    PROVE  /\ <<c, number[c] + 1>> \in Jobs
           /\ number[c] \in Nat
           /\ \A d \in Clients : number'[d] = IF d = c THEN number[c] + 1 ELSE number[d]
           /\ udp' = Append(udp, Message("JOB_REQ", <<c, number[c] + 1>>))
<1>1. /\ number[c] \in 0 .. setting.jobs /\ number[c] < setting.jobs
      /\ setting.jobs \in 0 .. MaxJobs
  BY SettingTypes DEF TypeOK, SubmitJob
<1>2. number[c] + 1 \in 1 .. MaxJobs
  BY <1>1, JobsAssumption
<1> QED
  BY <1>1, <1>2 DEF SubmitJob, TypeOK, Jobs

(***************************************************************************)
(* The entry that leaves in RemoveJob is the one that ran; the others keep *)
(* their order.                                                            *)
(***************************************************************************)
LEMMA RemovedEntry ==
    ASSUME TypeOK, PlacesInv, RemoveJob
    PROVE  /\ i \in DOMAIN pending_jobs /\ cwd = pending_jobs[i].job
           /\ \A m \in DOMAIN pending_jobs' : \E k \in DOMAIN pending_jobs :
                 pending_jobs'[m] = pending_jobs[k] /\ k # i
           /\ \A k \in DOMAIN pending_jobs : k # i =>
                 \E m \in DOMAIN pending_jobs' : pending_jobs'[m] = pending_jobs[k]
           /\ \A m \in DOMAIN pending_jobs' :
                 /\ m \in Nat
                 /\ m < i => m \in DOMAIN pending_jobs /\ pending_jobs'[m] = pending_jobs[m]
                 /\ m >= i => m + 1 \in DOMAIN pending_jobs /\ pending_jobs'[m] = pending_jobs[m + 1]
<1>1. i \in DOMAIN pending_jobs /\ i \in Nat /\ cwd = pending_jobs[i].job
  BY DEF RemoveJob, PlacesInv, Executing, TypeOK
<1> DEFINE S == [job : Jobs, files_received : Nat]
           q == pending_jobs
           r == pending_jobs'
<1>a. q \in Seq(S) /\ i \in DOMAIN q
  BY <1>1 DEF TypeOK
<1>b. r = RemoveAt(q, i)
  BY DEF RemoveJob
<1>c. /\ \A m \in DOMAIN r :
            /\ m \in Nat
            /\ m < i => m \in DOMAIN q /\ r[m] = q[m]
            /\ m >= i => m + 1 \in DOMAIN q /\ r[m] = q[m + 1]
      /\ \A m \in DOMAIN q :
            /\ m \in Nat
            /\ m < i => m \in DOMAIN r
            /\ m > i => m - 1 \in DOMAIN r
  <2> HIDE DEF S, q, r
  <2> QED
    BY <1>a, <1>b, RemovePlaces
<1>2. /\ \A m \in DOMAIN pending_jobs' :
            /\ m \in Nat
            /\ m < i => m \in DOMAIN pending_jobs /\ pending_jobs'[m] = pending_jobs[m]
            /\ m >= i => m + 1 \in DOMAIN pending_jobs /\ pending_jobs'[m] = pending_jobs[m + 1]
      /\ \A m \in DOMAIN pending_jobs :
            /\ m \in Nat
            /\ m < i => m \in DOMAIN pending_jobs'
            /\ m > i => m - 1 \in DOMAIN pending_jobs'
  BY <1>c
<1>3. ASSUME NEW k \in DOMAIN pending_jobs, k # i
      PROVE  \E m \in DOMAIN pending_jobs' : pending_jobs'[m] = pending_jobs[k]
  <2>1. CASE k < i
    BY <1>2, <2>1
  <2>2. CASE k > i
    <3>1. k - 1 \in DOMAIN pending_jobs' /\ k - 1 >= i /\ (k - 1) + 1 = k
      BY <1>1, <1>2, <2>2
    <3> QED
      BY <1>2, <3>1
  <2> QED
    BY <1>1, <1>2, <1>3, <2>1, <2>2
<1>4. ASSUME NEW m \in DOMAIN pending_jobs'
      PROVE  \E k \in DOMAIN pending_jobs : pending_jobs'[m] = pending_jobs[k] /\ k # i
  BY <1>1, <1>2
<1> QED
  BY <1>1, <1>2, <1>3, <1>4

(* Begun in the next state. *)
BegunThen(j) == j[2] <= number'[Owner(j)]

LEMMA BegunGrows ==
    ASSUME TypeOK, [Next]_vars
    PROVE  \A j \in Jobs : Begun(j) => BegunThen(j)
<1>1. ASSUME NEW c \in Clients, SubmitJob(c)
      PROVE  \A j \in Jobs : Begun(j) => BegunThen(j)
  <2>1. \A d \in Clients : number'[d] = number[d] \/ (d = c /\ number'[d] = number[d] + 1)
    BY <1>1, SubmitProperties
  <2>2. \A d \in Clients : number[d] \in Nat
    BY SettingTypes DEF TypeOK
  <2>3. ASSUME NEW j \in Jobs PROVE Owner(j) \in Clients /\ j[2] \in Nat
    BY DEF Owner, Jobs
  <2> QED
    BY <2>1, <2>2, <2>3 DEF Begun, BegunThen
<1>2. number' = number => \A j \in Jobs : Begun(j) => BegunThen(j)
  BY DEF Begun, BegunThen
<1>3. ASSUME NEW c \in Clients, ~SubmitJob(c), ClientStep(c) \/ Timeout(c)
      PROVE  number' = number
  BY <1>3, ClientsKeepServer
<1>4. ASSUME NEW w \in Workers, UploadThread(w)
      PROVE  number' = number
  BY <1>4, UploadsKeepCourse DEF courseVars
<1>5. CASE UdpThread \/ ProcessingThread \/ UNCHANGED restVars
  BY <1>2, <1>5
     DEF UdpThread, MakeDirectory, AddJob, EnqueueUpload, AckUpload, HandleDownload,
         ProcessingThread, BeginPass, SkipJob, StartCommand, EndCommand, RemoveJob, EndPass,
         clientVars, clientState, restVars
<1> QED
  BY <1>1, <1>2, <1>3, <1>4, <1>5, AdminKeepsRest DEF Next, ClientStep

LEMMA BegunPreserved == TypeOK /\ PlacesInv /\ BegunInv /\ [Next]_vars => BegunInv'
<1> SUFFICES ASSUME TypeOK, PlacesInv, BegunInv, [Next]_vars PROVE BegunInv'
  OBVIOUS
<1> USE DEF clientVars, clientState, sharedVars, udpVars, workerVars, procVars
<1>1. \A j \in Jobs : Begun(j) => BegunThen(j)
  BY BegunGrows
<1>2. /\ \A p \in DOMAIN udp : udp[p].job \in Jobs /\ Begun(udp[p].job)
      /\ handling # NoRequest => handling.job \in Jobs /\ Begun(handling.job)
      /\ \A k \in DOMAIN pending_jobs : pending_jobs[k].job \in Jobs /\ Begun(pending_jobs[k].job)
  BY UdpPlaces, HandlingTypes, EntryTypes DEF BegunInv
<1>3. ASSUME UNCHANGED <<pending_jobs, runs, handling>>,
             \A p \in DOMAIN udp' : udp'[p].job \in Jobs /\ BegunThen(udp'[p].job)
      PROVE  BegunInv'
  BY <1>1, <1>2, <1>3 DEF BegunInv, Begun, BegunThen
<1>4. ASSUME NEW c \in Clients, ClientStep(c) \/ Timeout(c)
      PROVE  BegunInv'
  <2>1. UNCHANGED <<pending_jobs, runs, handling>>
    BY <1>4, ClientsKeepServer
  <2>2. CASE udp' = udp
    BY <1>1, <1>2, <1>3, <2>1, <2>2
  <2>3. ASSUME NEW j \in Jobs, BegunThen(j), NEW type \in {"JOB_REQ", "UPLOAD_REQ", "DOWNLOAD_REQ"},
               udp' = Append(udp, Message(type, j))
        PROVE  BegunInv'
    <3>1. /\ DOMAIN udp' = DOMAIN udp \cup {Len(udp) + 1}
          /\ \A p \in DOMAIN udp : udp'[p] = udp[p]
          /\ udp'[Len(udp) + 1].job = j
      BY <2>3, SentPlaces
    <3> QED
      BY <1>1, <1>2, <1>3, <2>1, <2>3, <3>1
  <2>4. CASE SubmitJob(c)
    <3>1. BegunThen(<<c, number[c] + 1>>)
      <4>1. number'[c] = number[c] + 1 /\ number[c] \in Nat
        BY <2>4, SubmitProperties
      <4> QED
        BY <4>1 DEF BegunThen, Owner
    <3> QED
      BY <2>3, <2>4, <3>1, SubmitProperties
  <2>5. CASE ~SubmitJob(c)
    <3>1. number' = number
      BY <1>4, <2>5, ClientsKeepServer
    <3>2. BegunThen(Job(c))
      BY <3>1, SettingTypes DEF BegunThen, Job, Owner, TypeOK
    <3> QED
      BY <1>4, <2>2, <2>3, <2>5, <3>2, ClientSends
  <2> QED
    BY <2>4, <2>5
<1>5. CASE UdpThread
  <2>1. UNCHANGED runs
    BY <1>5 DEF UdpThread, MakeDirectory, AddJob, EnqueueUpload, AckUpload, HandleDownload
  <2>2. \A p \in DOMAIN udp' : udp'[p].job \in Jobs /\ BegunThen(udp'[p].job)
    <3>1. CASE udp' = udp
      BY <1>1, <1>2, <3>1
    <3>2. ASSUME NEW type, Arrived(type), udp' = Tail(udp)
          PROVE  \A p \in DOMAIN udp' : udp'[p].job \in Jobs /\ BegunThen(udp'[p].job)
      BY <1>1, <1>2, <3>2, ArrivedPlaces
    <3> QED
      BY <1>5, <3>1, <3>2
         DEF UdpThread, MakeDirectory, AddJob, EnqueueUpload, AckUpload, HandleDownload
  <2>3. handling' # NoRequest => handling'.job \in Jobs /\ BegunThen(handling'.job)
    <3>1. CASE handling' = handling \/ handling' = NoRequest
      BY <1>1, <1>2, <3>1
    <3>2. ASSUME NEW type, Arrived(type), udp' = Tail(udp), handling' = Head(udp)
          PROVE  handling'.job \in Jobs /\ BegunThen(handling'.job)
      BY <1>1, <1>2, <3>2, ArrivedPlaces
    <3> QED
      BY <1>5, <3>1, <3>2
         DEF UdpThread, MakeDirectory, AddJob, EnqueueUpload, AckUpload, HandleDownload
  <2>4. \A k \in DOMAIN pending_jobs' :
           pending_jobs'[k].job \in Jobs /\ BegunThen(pending_jobs'[k].job)
    <3>1. CASE pending_jobs' = pending_jobs
      BY <1>1, <1>2, <3>1
    <3>2. CASE AddJob
      <4>1. handling.job \in Jobs /\ handling # NoRequest
        BY <3>2, HandlingTypes DEF AddJob, NoRequest, Message
      <4> DEFINE e == [job |-> handling.job, files_received |-> 0]
      <4>2. e \in [job : Jobs, files_received : Nat] /\ e.job = handling.job
        BY <4>1
      <4>3. pending_jobs' = Append(pending_jobs, e)
            /\ pending_jobs \in Seq([job : Jobs, files_received : Nat])
        BY <3>2 DEF AddJob, TypeOK
      <4> HIDE DEF e
      <4>4. /\ DOMAIN pending_jobs' = DOMAIN pending_jobs \cup {Len(pending_jobs) + 1}
            /\ \A k \in DOMAIN pending_jobs : pending_jobs'[k] = pending_jobs[k]
            /\ pending_jobs'[Len(pending_jobs) + 1] = e
        BY <4>2, <4>3, AppendPlaces
      <4> QED
        BY <1>1, <1>2, <4>1, <4>2, <4>4
    <3> QED
      BY <1>5, <3>1, <3>2
         DEF UdpThread, MakeDirectory, EnqueueUpload, AckUpload, HandleDownload
  <2> QED
    BY <1>1, <2>1, <2>2, <2>3, <2>4 DEF BegunInv, Begun, BegunThen
<1>6. ASSUME NEW w \in Workers, UploadThread(w)
      PROVE  BegunInv'
  <2>1. UNCHANGED courseVars /\ SameEntries
    BY <1>6, UploadsKeepCourse
  <2> QED
    BY <1>1, <1>2, <2>1 DEF BegunInv, Begun, BegunThen, courseVars, SameEntries
<1>7. CASE ProcessingThread
  <2>1. UNCHANGED <<udp, handling>>
    BY <1>7 DEF ProcessingThread, BeginPass, SkipJob, StartCommand, EndCommand, RemoveJob, EndPass
  <2>2. CASE StartCommand
    <3>1. i \in DOMAIN pending_jobs /\ pending_jobs' = pending_jobs
      BY <2>2, ScanTypes DEF StartCommand
    <3>2. \A j \in Jobs : runs'[j] # runs[j] => j = pending_jobs[i].job
      BY <2>2 DEF StartCommand, TypeOK
    <3> QED
      BY <1>1, <1>2, <2>1, <3>1, <3>2 DEF BegunInv, Begun, BegunThen
  <2>3. CASE RemoveJob
    <3>1. i \in DOMAIN pending_jobs /\ runs' = runs
      BY <2>3 DEF RemoveJob, PlacesInv, Executing
    <3>2. \A m \in DOMAIN pending_jobs' : \E k \in DOMAIN pending_jobs : pending_jobs'[m] = pending_jobs[k]
      BY <2>3, RemovedEntry
    <3> QED
      BY <1>1, <1>2, <2>1, <3>1, <3>2 DEF BegunInv, Begun, BegunThen
  <2>4. CASE ~StartCommand /\ ~RemoveJob
    <3>1. UNCHANGED <<pending_jobs, runs>>
      BY <1>7, <2>4 DEF ProcessingThread, BeginPass, SkipJob, EndCommand, EndPass
    <3> QED
      BY <1>1, <1>2, <2>1, <3>1 DEF BegunInv, Begun, BegunThen
  <2> QED
    BY <2>2, <2>3, <2>4
<1>8. CASE UNCHANGED restVars
  BY <1>1, <1>2, <1>8 DEF BegunInv, Begun, BegunThen, restVars
<1> QED
  BY <1>4, <1>5, <1>6, <1>7, <1>8, AdminKeepsRest DEF Next

LEMMA OncePreserved == TypeOK /\ PlacesInv /\ BegunInv /\ OnceInv /\ [Next]_vars => OnceInv'
<1> SUFFICES ASSUME TypeOK, PlacesInv, BegunInv, OnceInv, [Next]_vars PROVE OnceInv'
  OBVIOUS
<1> USE DEF clientVars, clientState, sharedVars, udpVars, workerVars, procVars
<1>1. ASSUME UNCHANGED <<handling, runs, processing, i, cwd>>, SameEntries,
             DistinctRequests', FreshRequests'
      PROVE  OnceInv'
  BY <1>1 DEF OnceInv, SameEntries, FreshHandling, DistinctEntries, EntriesNotRun, RunsAtMostOnce,
              Fresh, Listed, Executing
<1>2. ASSUME NEW c \in Clients, ClientStep(c) \/ Timeout(c)
      PROVE  OnceInv'
  <2>1. UNCHANGED <<pending_jobs, cwd, handling, processing, i, runs>> /\ SameEntries
    BY <1>2, ClientsKeepServer DEF SameEntries
  <2>2. CASE udp' = udp
    BY <1>1, <2>1, <2>2 DEF OnceInv, DistinctRequests, FreshRequests, Fresh, Listed
  <2>3. ASSUME NEW type \in {"UPLOAD_REQ", "DOWNLOAD_REQ"}, NEW j \in Jobs,
               udp' = Append(udp, Message(type, j))
        PROVE  OnceInv'
    <3>1. /\ DOMAIN udp' = DOMAIN udp \cup {Len(udp) + 1}
          /\ \A p \in DOMAIN udp : udp'[p] = udp[p]
          /\ udp'[Len(udp) + 1].type # "JOB_REQ"
      BY <2>3, SentPlaces
    <3> QED
      BY <1>1, <2>1, <3>1 DEF OnceInv, DistinctRequests, FreshRequests, Fresh, Listed
  <2>4. CASE SubmitJob(c)
    <3> DEFINE j == <<c, number[c] + 1>>
               n == Len(udp) + 1
    <3>1. j \in Jobs /\ udp' = Append(udp, Message("JOB_REQ", j)) /\ ~Begun(j)
      BY <2>4, SubmitProperties DEF Begun, Owner
    <3> HIDE DEF j
    <3>2. /\ n \notin DOMAIN udp
          /\ DOMAIN udp' = DOMAIN udp \cup {n}
          /\ \A p \in DOMAIN udp : udp'[p] = udp[p]
          /\ udp'[n].type = "JOB_REQ" /\ udp'[n].job = j
      BY <3>1, SentPlaces
    <3> HIDE DEF n
    <3>3. Fresh(j) /\ (handling.type = "JOB_REQ" => handling.job # j)
      BY <3>1 DEF BegunInv, Fresh, Listed, NoRequest, Message
    <3>4. \A p \in DOMAIN udp : udp[p].job # j
      BY <3>1 DEF BegunInv
    <3>5. DistinctRequests'
      BY <3>2, <3>4 DEF OnceInv, DistinctRequests
    <3>6. FreshRequests'
      BY <2>1, <3>2, <3>3 DEF OnceInv, FreshRequests, Fresh, Listed
    <3> QED
      BY <1>1, <2>1, <3>5, <3>6
  <2> QED
    BY <1>2, <2>2, <2>3, <2>4, ClientSends
<1>3. ASSUME NEW w \in Workers, UploadThread(w)
      PROVE  OnceInv'
  <2>1. UNCHANGED courseVars /\ SameEntries
    BY <1>3, UploadsKeepCourse
  <2> QED
    BY <1>1, <2>1 DEF courseVars, OnceInv, DistinctRequests, FreshRequests, Fresh, Listed, SameEntries
<1>4. ASSUME NEW type, Arrived(type), udp' = Tail(udp), UNCHANGED <<pending_jobs, runs>>,
             handling' = Head(udp) \/ handling' = handling
      PROVE  DistinctRequests' /\ FreshRequests' /\ FreshHandling'
  <2>1. /\ 1 \in DOMAIN udp /\ Head(udp) = udp[1]
        /\ \A p \in DOMAIN udp' : p \in Nat /\ p # 0 /\ p + 1 \in DOMAIN udp /\ udp'[p] = udp[p + 1]
        /\ handling.type = "none"
    BY <1>4, ArrivedPlaces
  <2>2. DistinctRequests'
    BY <2>1 DEF OnceInv, DistinctRequests
  <2>3. \A p \in DOMAIN udp' : udp'[p].type = "JOB_REQ" /\ udp[1].type = "JOB_REQ" => udp'[p].job # udp[1].job
    BY <2>1 DEF OnceInv, DistinctRequests
  <2>4. FreshRequests'
    BY <1>4, <2>1, <2>3 DEF OnceInv, FreshRequests, Fresh, Listed
  <2>5. FreshHandling'
    BY <1>4, <2>1 DEF OnceInv, FreshRequests, FreshHandling, Fresh, Listed
  <2> QED
    BY <2>2, <2>4, <2>5
<1>5. CASE UdpThread
  <2>1. UNCHANGED <<runs, processing, i, cwd>>
    BY <1>5 DEF UdpThread, MakeDirectory, AddJob, EnqueueUpload, AckUpload, HandleDownload
  <2>2. CASE MakeDirectory \/ EnqueueUpload \/ HandleDownload
    <3>1. /\ \E type : Arrived(type)
          /\ udp' = Tail(udp) /\ UNCHANGED pending_jobs
          /\ handling' = Head(udp) \/ handling' = handling
      BY <2>2 DEF MakeDirectory, EnqueueUpload, HandleDownload
    <3>2. DistinctRequests' /\ FreshRequests' /\ FreshHandling'
      BY <1>4, <2>1, <3>1
    <3> QED
      BY <2>1, <3>1, <3>2 DEF OnceInv, DistinctEntries, EntriesNotRun, RunsAtMostOnce, Executing
  <2>3. CASE AckUpload
    <3>1. UNCHANGED <<udp, pending_jobs>> /\ handling'.type # "JOB_REQ"
      BY <2>3 DEF AckUpload, NoRequest, Message
    <3> QED
      BY <2>1, <3>1
         DEF OnceInv, DistinctRequests, FreshRequests, FreshHandling, DistinctEntries, EntriesNotRun,
             RunsAtMostOnce, Executing, Fresh, Listed
  <2>4. CASE AddJob
    <3> DEFINE n == Len(pending_jobs) + 1
    <3>1. /\ n \notin DOMAIN pending_jobs
          /\ DOMAIN pending_jobs' = DOMAIN pending_jobs \cup {n}
          /\ \A k \in DOMAIN pending_jobs : pending_jobs'[k] = pending_jobs[k]
          /\ pending_jobs'[n].job = handling.job
      <4> DEFINE e == [job |-> handling.job, files_received |-> 0]
      <4>1. e \in [job : Jobs, files_received : Nat] /\ e.job = handling.job
        BY <2>4, HandlingTypes DEF AddJob
      <4>2. pending_jobs' = Append(pending_jobs, e)
            /\ pending_jobs \in Seq([job : Jobs, files_received : Nat])
        BY <2>4 DEF AddJob, TypeOK
      <4> HIDE DEF e
      <4> QED
        BY <4>1, <4>2, AppendPlaces
    <3> HIDE DEF n
    <3>2. udp' = udp /\ handling'.type # "JOB_REQ" /\ handling.type = "JOB_REQ" /\ ~Executing
      BY <2>4 DEF AddJob, NoRequest, Message, JobsLocked, Executing
    <3>3. Fresh(handling.job)
      BY <3>2 DEF OnceInv, FreshHandling
    <3>4. DistinctRequests' /\ FreshHandling'
      BY <3>2 DEF OnceInv, DistinctRequests, FreshHandling
    <3>5. FreshRequests'
      BY <2>1, <3>1, <3>2 DEF OnceInv, FreshRequests, Fresh, Listed
    <3>6. DistinctEntries'
      BY <3>1, <3>3 DEF OnceInv, DistinctEntries, Fresh, Listed
    <3>7. EntriesNotRun'
      BY <2>1, <3>1, <3>2, <3>3 DEF OnceInv, EntriesNotRun, Executing, Fresh
    <3> QED
      BY <2>1, <3>2, <3>4, <3>5, <3>6, <3>7 DEF OnceInv, RunsAtMostOnce, Executing
  <2> QED
    BY <1>5, <2>2, <2>3, <2>4 DEF UdpThread
<1>6. CASE ProcessingThread
  <2>1. UNCHANGED <<udp, handling>>
    BY <1>6 DEF ProcessingThread, BeginPass, SkipJob, StartCommand, EndCommand, RemoveJob, EndPass
  <2>2. CASE BeginPass \/ SkipJob \/ EndPass
    <3>1. UNCHANGED <<pending_jobs, runs, cwd>> /\ ~Executing /\ ~Executing'
      BY <2>2 DEF BeginPass, SkipJob, EndPass, Executing
    <3> QED
      BY <2>1, <3>1
         DEF OnceInv, DistinctRequests, FreshRequests, FreshHandling, DistinctEntries, EntriesNotRun,
             RunsAtMostOnce, Fresh, Listed
  <2>3. CASE StartCommand
    <3> DEFINE j == pending_jobs[i].job
    <3>1. /\ i \in DOMAIN pending_jobs /\ j \in Jobs /\ ~Executing /\ Executing'
          /\ cwd' = j /\ UNCHANGED <<pending_jobs, i>>
          /\ runs' = [runs EXCEPT ![j] = Append(runs[j], file[j])]
      BY <2>3, ScanTypes, EntryTypes DEF StartCommand, Executing
    <3>2. runs[j] = <<>>
      BY <3>1 DEF OnceInv, EntriesNotRun
    <3>3. Len(runs'[j]) = 1 /\ \A k \in Jobs : k # j => runs'[k] = runs[k]
      <4>1. Len(Append(runs[j], file[j])) = 1
        BY <3>2
      <4> QED
        BY <3>1, <4>1 DEF TypeOK
    <3>4. Listed(j)
      BY <3>1 DEF Listed
    <3> HIDE DEF j
    <3>5. \A k \in Jobs : Fresh(k) => k # j /\ ~Listed(k)' /\ runs'[k] = <<>>
      BY <3>1, <3>3, <3>4 DEF Fresh, Listed
    <3>6. FreshRequests'
      BY <2>1, <3>5, UdpPlaces DEF OnceInv, FreshRequests, Fresh, Listed
    <3>7. FreshHandling'
      <4>1. handling.type = "JOB_REQ" => handling.job \in Jobs
        BY HandlingTypes
      <4> QED
        BY <2>1, <3>5, <4>1 DEF OnceInv, FreshHandling, Fresh, Listed
    <3>8. DistinctEntries'
      BY <3>1 DEF OnceInv, DistinctEntries
    <3>9. EntriesNotRun'
      <4>1. \A k \in DOMAIN pending_jobs : pending_jobs[k].job \in Jobs /\ (k # i => pending_jobs[k].job # j)
        BY <3>1, EntryTypes DEF OnceInv, DistinctEntries, j
      <4> QED
        BY <3>1, <3>3, <4>1 DEF OnceInv, EntriesNotRun
    <3> QED
      BY <2>1, <3>1, <3>3, <3>6, <3>7, <3>8, <3>9 DEF OnceInv, DistinctRequests, RunsAtMostOnce
  <2>4. CASE EndCommand
    <3>1. UNCHANGED <<pending_jobs, runs, cwd, i>> /\ Executing /\ Executing'
      BY <2>4 DEF EndCommand, Executing
    <3> QED
      BY <2>1, <3>1
         DEF OnceInv, DistinctRequests, FreshRequests, FreshHandling, DistinctEntries, EntriesNotRun,
             RunsAtMostOnce, Fresh, Listed
  <2>5. CASE RemoveJob
    <3>1. i \in DOMAIN pending_jobs /\ UNCHANGED runs /\ Executing /\ ~Executing' /\ i \in Nat
      BY <2>5 DEF RemoveJob, PlacesInv, Executing, TypeOK
    <3>2. \A m \in DOMAIN pending_jobs' :
               /\ m \in Nat
               /\ m < i => m \in DOMAIN pending_jobs /\ pending_jobs'[m] = pending_jobs[m]
               /\ m >= i => m + 1 \in DOMAIN pending_jobs /\ pending_jobs'[m] = pending_jobs[m + 1]
      BY <2>5, RemovedEntry
    <3>3. \A m \in DOMAIN pending_jobs' : \E k \in DOMAIN pending_jobs :
             pending_jobs'[m] = pending_jobs[k] /\ k # i
      BY <2>5, RemovedEntry
    <3>4. \A k : Fresh(k) => Fresh(k)'
      BY <3>1, <3>3 DEF Fresh, Listed
    <3>5. FreshRequests' /\ FreshHandling'
      BY <2>1, <3>1, <3>3 DEF OnceInv, FreshRequests, FreshHandling, Fresh, Listed
    <3>6. DistinctEntries'
      BY <3>1, <3>2 DEF OnceInv, DistinctEntries
    <3>7. EntriesNotRun'
      BY <3>1, <3>3 DEF OnceInv, EntriesNotRun
    <3> QED
      BY <2>1, <3>1, <3>5, <3>6, <3>7 DEF OnceInv, DistinctRequests, RunsAtMostOnce
  <2> QED
    BY <1>6, <2>2, <2>3, <2>4, <2>5 DEF ProcessingThread
<1>7. CASE UNCHANGED restVars
  BY <1>7 DEF restVars, OnceInv, DistinctRequests, FreshRequests, FreshHandling, DistinctEntries,
              EntriesNotRun, RunsAtMostOnce, Fresh, Listed, Executing
<1> QED
  BY <1>2, <1>3, <1>5, <1>6, <1>7, AdminKeepsRest DEF Next

(***************************************************************************)
(* The command of a job runs at most once, whatever is sent again and      *)
(* however the entries move under the scan (processing.c:28-98).           *)
(***************************************************************************)
THEOREM CommandsRunOnce == Spec => []RunsAtMostOnce
<1>1. OnceInv => RunsAtMostOnce
  BY DEF OnceInv
<1> QED
  BY TypesInitially, TypesPreserved, PlacesPreserved, BegunInitially, BegunPreserved,
     OncePreserved, <1>1, PTL DEF Spec

(***************************************************************************)
(* Entries join in AddJob and leave in RemoveJob.                          *)
(***************************************************************************)
ListedThen(j) == \E k \in DOMAIN pending_jobs' : pending_jobs'[k].job = j

LEMMA EntriesKept ==
    ASSUME TypeOK, PlacesInv, [Next]_vars, ~AddJob, ~RemoveJob
    PROVE  SameEntries
<1> USE DEF clientVars, clientState, sharedVars, udpVars, workerVars, procVars
<1>1. UNCHANGED pending_jobs => SameEntries
  BY DEF SameEntries
<1>2. ASSUME NEW c \in Clients, ClientStep(c) \/ Timeout(c)
      PROVE  SameEntries
  BY <1>1, <1>2, ClientsKeepServer
<1>3. ASSUME NEW w \in Workers, UploadThread(w)
      PROVE  SameEntries
  BY <1>3, UploadsKeepCourse
<1>4. CASE UdpThread \/ ProcessingThread \/ UNCHANGED restVars
  BY <1>1, <1>4
     DEF UdpThread, MakeDirectory, EnqueueUpload, AckUpload, HandleDownload,
         ProcessingThread, BeginPass, SkipJob, StartCommand, EndCommand, EndPass, restVars
<1> QED
  BY <1>2, <1>3, <1>4, AdminKeepsRest DEF Next

LEMMA AddedEntry ==
    ASSUME TypeOK, AddJob
    PROVE  /\ handling.type = "JOB_REQ" /\ handling.job \in Jobs /\ ~Executing
           /\ Len(pending_jobs) + 1 \notin DOMAIN pending_jobs
           /\ DOMAIN pending_jobs' = DOMAIN pending_jobs \cup {Len(pending_jobs) + 1}
           /\ \A k \in DOMAIN pending_jobs : pending_jobs'[k] = pending_jobs[k]
           /\ pending_jobs'[Len(pending_jobs) + 1].job = handling.job
           /\ pending_jobs'[Len(pending_jobs) + 1].files_received = 0
<1> DEFINE e == [job |-> handling.job, files_received |-> 0]
<1>1. e \in [job : Jobs, files_received : Nat] /\ e.job = handling.job /\ e.files_received = 0
  BY HandlingTypes DEF AddJob
<1>2. pending_jobs' = Append(pending_jobs, e)
      /\ pending_jobs \in Seq([job : Jobs, files_received : Nat])
  BY DEF AddJob, TypeOK
<1>3. handling.type = "JOB_REQ" /\ handling.job \in Jobs /\ ~Executing
  BY HandlingTypes DEF AddJob, JobsLocked, Executing
<1> HIDE DEF e
<1> QED
  BY <1>1, <1>2, <1>3, AppendPlaces

LEMMA EntriesJoin ==
    ASSUME TypeOK, PlacesInv, [Next]_vars
    PROVE  \A j : ListedThen(j) => Listed(j) \/ (AddJob /\ j = handling.job)
<1>1. CASE AddJob
  BY <1>1, AddedEntry DEF Listed, ListedThen
<1>2. CASE RemoveJob
  BY <1>2, RemovedEntry DEF Listed, ListedThen
<1>3. CASE ~AddJob /\ ~RemoveJob
  BY <1>3, EntriesKept DEF Listed, ListedThen, SameEntries
<1> QED
  BY <1>1, <1>2, <1>3

LEMMA EntriesLeave ==
    ASSUME TypeOK, PlacesInv, [Next]_vars
    PROVE  \A j : Listed(j) => ListedThen(j) \/ (RemoveJob /\ j = cwd)
<1>1. CASE AddJob
  BY <1>1, AddedEntry DEF Listed, ListedThen
<1>2. CASE RemoveJob
  <2> SUFFICES ASSUME NEW k \in DOMAIN pending_jobs
               PROVE  ListedThen(pending_jobs[k].job) \/ pending_jobs[k].job = cwd
    BY <1>2 DEF Listed
  <2>1. CASE k = i
    BY <1>2, <2>1, RemovedEntry
  <2>2. CASE k # i
    BY <1>2, <2>2, RemovedEntry DEF ListedThen
  <2> QED
    BY <2>1, <2>2
<1>3. CASE ~AddJob /\ ~RemoveJob
  BY <1>3, EntriesKept DEF Listed, ListedThen, SameEntries
<1> QED
  BY <1>1, <1>2, <1>3

(***************************************************************************)
(* No accepted job is dropped: an entry leaves only after its command ran, *)
(* and only the one that ran leaves (processing.c:89-91).                  *)
(***************************************************************************)
THEOREM NoJobIsDropped == Spec => LeavesOnlyAfterRun
<1>1. TypeOK /\ PlacesInv /\ OnceInv /\ [Next]_vars =>
         [\A j \in Jobs : Pending(j) /\ ~Pending(j)' => cwd = j /\ runs[j] # <<>>]_vars
  <2> SUFFICES ASSUME TypeOK, PlacesInv, OnceInv, [Next]_vars,
                      NEW j \in Jobs, Pending(j), ~Pending(j)'
               PROVE  cwd = j /\ runs[j] # <<>>
    OBVIOUS
  <2>1. Listed(j) /\ ~ListedThen(j)
    BY PendingPlaces DEF Listed, ListedThen
  <2>2. RemoveJob /\ cwd = j
    BY <2>1, EntriesLeave
  <2>3. Len(runs[j]) = 1
    BY <2>2 DEF OnceInv, RemoveJob, Executing
  <2> QED
    BY <2>2, <2>3
<1> QED
  BY TypesInitially, TypesPreserved, PlacesPreserved, BegunInitially, BegunPreserved,
     OncePreserved, <1>1, PTL DEF Spec, LeavesOnlyAfterRun

-----------------------------------------------------------------------------
(***************************************************************************)
(* Uploads come from the socket and go from the queue to the threads.      *)
(***************************************************************************)
Busy(w) == worker[w] # "idle"

LEMMA UploadPlaces ==
    ASSUME TypeOK
    PROVE  \A k \in DOMAIN upload_queue : upload_queue[k] \in Jobs
<1>1. upload_queue \in Seq(Jobs)
  BY DEF TypeOK
<1> QED
  BY <1>1, LenProperties, ElementOfSeq

LEMMA UploadsMove ==
    ASSUME TypeOK, [Next]_vars
    PROVE  /\ \A k \in DOMAIN upload_queue' :
                 \/ \E m \in DOMAIN upload_queue : upload_queue'[k] = upload_queue[m]
                 \/ /\ 1 \in DOMAIN udp /\ udp[1].type = "UPLOAD_REQ"
                    /\ upload_queue'[k] = udp[1].job
           /\ \A w \in Workers : worker'[w] # "idle" =>
                 \/ Busy(w) /\ job'[w] = job[w]
                 \/ \E m \in DOMAIN upload_queue : job'[w] = upload_queue[m]
<1> DEFINE QueueMoves ==
              \A k \in DOMAIN upload_queue' :
                 \/ \E m \in DOMAIN upload_queue : upload_queue'[k] = upload_queue[m]
                 \/ /\ 1 \in DOMAIN udp /\ udp[1].type = "UPLOAD_REQ"
                    /\ upload_queue'[k] = udp[1].job
           ThreadsMove ==
              \A w \in Workers : worker'[w] # "idle" =>
                 \/ Busy(w) /\ job'[w] = job[w]
                 \/ \E m \in DOMAIN upload_queue : job'[w] = upload_queue[m]
<1> SUFFICES QueueMoves /\ ThreadsMove
  OBVIOUS
<1> USE DEF clientVars, clientState, sharedVars, udpVars, workerVars, procVars
<1>1. upload_queue \in Seq(Jobs)
  BY DEF TypeOK
<1>2. UNCHANGED upload_queue => QueueMoves
  OBVIOUS
<1>3. UNCHANGED workerVars => ThreadsMove
  BY DEF Busy
<1>4. ASSUME NEW c \in Clients, ClientStep(c) \/ Timeout(c)
      PROVE  QueueMoves /\ ThreadsMove
  BY <1>2, <1>3, <1>4, ClientsKeepServer
<1>5. CASE EnqueueUpload
  <2>1. /\ 1 \in DOMAIN udp /\ Head(udp) = udp[1] /\ udp[1].type = "UPLOAD_REQ" /\ udp[1].job \in Jobs
        /\ upload_queue' = Append(upload_queue, udp[1].job)
    BY <1>5, ArrivedPlaces DEF EnqueueUpload
  <2>2. /\ DOMAIN upload_queue' = DOMAIN upload_queue \cup {Len(upload_queue) + 1}
        /\ \A k \in DOMAIN upload_queue : upload_queue'[k] = upload_queue[k]
        /\ upload_queue'[Len(upload_queue) + 1] = udp[1].job
    BY <1>1, <2>1, AppendPlaces
  <2>3. QueueMoves
    BY <2>1, <2>2
  <2> QED
    BY <1>3, <1>5, <2>3 DEF EnqueueUpload
<1>6. CASE UdpThread /\ ~EnqueueUpload
  BY <1>2, <1>3, <1>6 DEF UdpThread, MakeDirectory, AddJob, AckUpload, HandleDownload
<1>7. ASSUME NEW w \in Workers, TakeUpload(w)
      PROVE  QueueMoves /\ ThreadsMove
  <2>1. PICK k \in 1 .. Len(upload_queue) :
           /\ job' = [job EXCEPT ![w] = upload_queue[k]]
           /\ upload_queue' = RemoveAt(upload_queue, k)
    BY <1>7 DEF TakeUpload
  <2>2. k \in DOMAIN upload_queue /\ k \in Nat
    BY <1>1, LenProperties
  <2>3. \A m \in DOMAIN upload_queue' :
           /\ m \in Nat
           /\ m < k => m \in DOMAIN upload_queue /\ upload_queue'[m] = upload_queue[m]
           /\ m >= k => m + 1 \in DOMAIN upload_queue /\ upload_queue'[m] = upload_queue[m + 1]
    BY <1>1, <2>1, <2>2, RemovePlaces
  <2>4. QueueMoves
    BY <2>2, <2>3
  <2>5. \A v \in Workers : v # w => worker'[v] = worker[v] /\ job'[v] = job[v]
    BY <1>7, <2>1 DEF TakeUpload, Go, TypeOK
  <2>6. job'[w] = upload_queue[k]
    BY <2>1 DEF TypeOK
  <2>7. ThreadsMove
    BY <2>2, <2>5, <2>6 DEF Busy
  <2> QED
    BY <2>4, <2>7
<1>8. ASSUME NEW w \in Workers, UploadThread(w), ~TakeUpload(w)
      PROVE  QueueMoves /\ ThreadsMove
  <2>1. UNCHANGED upload_queue
    BY <1>8 DEF UploadThread, FindJob, Accept, OpenFile, ReceiveFile, CountFile
  <2>2. \A v \in Workers : v # w => worker'[v] = worker[v] /\ job'[v] = job[v]
    BY <1>8 DEF UploadThread, FindJob, Accept, OpenFile, ReceiveFile, CountFile, Go, TypeOK
  <2>3. Busy(w) /\ (worker'[w] # "idle" => job'[w] = job[w])
    BY <1>8 DEF UploadThread, FindJob, Accept, OpenFile, ReceiveFile, CountFile, Go, TypeOK, Busy
  <2>4. ThreadsMove
    BY <2>2, <2>3 DEF Busy
  <2> QED
    BY <1>2, <2>1, <2>4
<1>9. CASE ProcessingThread \/ UNCHANGED restVars
  BY <1>2, <1>3, <1>9
     DEF ProcessingThread, BeginPass, SkipJob, StartCommand, EndCommand, RemoveJob, EndPass,
          restVars
<1> HIDE DEF QueueMoves, ThreadsMove
<1> QED
  BY <1>4, <1>5, <1>6, <1>7, <1>8, <1>9, AdminKeepsRest DEF Next

(***************************************************************************)
(* Uploads are for jobs that were begun; and while a client waits for its  *)
(* JOB_ACK, nothing of that job has been uploaded.                         *)
(***************************************************************************)
Untouched(j) ==
    /\ \A p \in DOMAIN udp : udp[p].type = "UPLOAD_REQ" => udp[p].job # j
    /\ handling.type = "UPLOAD_REQ" => handling.job # j
    /\ \A k \in DOMAIN upload_queue : upload_queue[k] # j
    /\ \A w \in Workers : Busy(w) => job[w] # j
    /\ \A k \in DOMAIN pending_jobs : pending_jobs[k].job = j => pending_jobs[k].files_received = 0
    /\ runs[j] = <<>>

UploadInv ==
    /\ \A k \in DOMAIN upload_queue : Begun(upload_queue[k])
    /\ \A w \in Workers : Busy(w) => Begun(job[w])
    /\ \A c \in Clients : client[c] = "job" => Untouched(Job(c))

LEMMA UploadInitially == Init => UploadInv
BY DEF Init, UploadInv, Busy

LEMMA UntouchedStays ==
    ASSUME TypeOK, PlacesInv, [Next]_vars, NEW j \in Jobs, Untouched(j),
           \A p \in DOMAIN udp' : udp'[p].type = "UPLOAD_REQ" => udp'[p].job # j
    PROVE  Untouched(j)'
<1> USE DEF clientVars, clientState, sharedVars, udpVars, workerVars, procVars
<1>1. \A k \in DOMAIN upload_queue' : upload_queue'[k] # j
  BY UploadsMove DEF Untouched
<1>2. \A w \in Workers : worker'[w] # "idle" => job'[w] # j
  BY UploadsMove DEF Untouched
<1>3. ASSUME handling' = handling \/ handling'.type # "UPLOAD_REQ",
             runs'[j] = <<>>,
             \A k \in DOMAIN pending_jobs' : pending_jobs'[k].job = j => pending_jobs'[k].files_received = 0
      PROVE  Untouched(j)'
  BY <1>1, <1>2, <1>3 DEF Untouched, Busy
<1>4. ASSUME NEW c \in Clients, ClientStep(c) \/ Timeout(c)
      PROVE  Untouched(j)'
  BY <1>3, <1>4, ClientsKeepServer DEF Untouched
<1>5. CASE MakeDirectory \/ AckUpload \/ HandleDownload
  <2>1. handling' = handling \/ handling' = NoRequest \/ (handling' = Head(udp) /\ Head(udp).type = "JOB_REQ")
    BY <1>5 DEF MakeDirectory, AckUpload, HandleDownload, Arrived
  <2>2. handling' = handling \/ handling'.type # "UPLOAD_REQ"
    BY <2>1 DEF NoRequest, Message
  <2>3. UNCHANGED <<runs, pending_jobs>>
    BY <1>5 DEF MakeDirectory, AckUpload, HandleDownload
  <2> QED
    BY <1>3, <2>2, <2>3 DEF Untouched
<1>6. CASE AddJob
  <2>1. handling'.type # "UPLOAD_REQ" /\ runs' = runs
    BY <1>6 DEF AddJob, NoRequest, Message
  <2>2. \A k \in DOMAIN pending_jobs' : pending_jobs'[k].job = j => pending_jobs'[k].files_received = 0
    BY <1>6, AddedEntry DEF Untouched
  <2> QED
    BY <1>3, <2>1, <2>2 DEF Untouched
<1>7. CASE EnqueueUpload
  <2>1. handling' = udp[1] /\ 1 \in DOMAIN udp
    BY <1>7, ArrivedPlaces DEF EnqueueUpload
  <2>2. handling'.type = "UPLOAD_REQ" => handling'.job # j
    BY <2>1 DEF Untouched
  <2>3. UNCHANGED <<runs, pending_jobs>>
    BY <1>7 DEF EnqueueUpload
  <2> QED
    BY <1>1, <1>2, <2>2, <2>3 DEF Untouched, Busy
<1>8. ASSUME NEW w \in Workers, UploadThread(w)
      PROVE  Untouched(j)'
  <2>1. UNCHANGED <<handling, runs>> /\ SameEntries
    BY <1>8, UploadsKeepCourse DEF courseVars
  <2>2. CASE CountFile(w)
    <3>1. job[w] # j
      BY <2>2 DEF CountFile, Untouched, Busy
    <3>2. \A k \in DOMAIN pending_jobs :
             pending_jobs'[k].files_received # pending_jobs[k].files_received =>
                pending_jobs[k].job = job[w]
      BY <2>2, CountProperties
    <3> QED
      BY <1>3, <2>1, <3>1, <3>2 DEF Untouched, SameEntries
  <2>3. CASE ~CountFile(w)
    <3>1. UNCHANGED pending_jobs
      BY <1>8, <2>3, UploadsKeepCourse
    <3> QED
      BY <1>3, <2>1, <3>1 DEF Untouched
  <2> QED
    BY <2>2, <2>3
<1>9. CASE StartCommand
  <2>1. /\ i \in DOMAIN pending_jobs /\ Ready(pending_jobs[i]) /\ UNCHANGED <<handling, pending_jobs>>
        /\ runs' = [runs EXCEPT ![pending_jobs[i].job] = Append(@, file[pending_jobs[i].job])]
    BY <1>9, ScanTypes DEF StartCommand
  <2>2. pending_jobs[i].job # j
    <3>1. pending_jobs[i].files_received >= 1
      BY <2>1 DEF Ready
    <3> QED
      BY <2>1, <3>1 DEF Untouched
  <2>3. runs'[j] = runs[j]
    BY <2>1, <2>2 DEF TypeOK
  <2> QED
    BY <1>3, <2>1, <2>3 DEF Untouched
<1>10. CASE RemoveJob
  <2>1. UNCHANGED <<handling, runs>>
    BY <1>10 DEF RemoveJob
  <2>2. \A k \in DOMAIN pending_jobs' : pending_jobs'[k].job = j => pending_jobs'[k].files_received = 0
    BY <1>10, RemovedEntry DEF Untouched
  <2> QED
    BY <1>3, <2>1, <2>2 DEF Untouched
<1>11. CASE BeginPass \/ SkipJob \/ EndCommand \/ EndPass \/ UNCHANGED restVars
  BY <1>3, <1>11 DEF BeginPass, SkipJob, EndCommand, EndPass, restVars, Untouched
<1> QED
  BY <1>4, <1>5, <1>6, <1>7, <1>8, <1>9, <1>10, <1>11, AdminKeepsRest
     DEF Next, UdpThread, ProcessingThread

LEMMA UploadsBegunPreserved ==
    ASSUME TypeOK, PlacesInv, BegunInv, UploadInv, [Next]_vars
    PROVE  /\ \A k \in DOMAIN upload_queue' : BegunThen(upload_queue'[k])
           /\ \A w \in Workers : worker'[w] # "idle" => BegunThen(job'[w])
<1>1. \A j \in Jobs : Begun(j) => BegunThen(j)
  BY BegunGrows
<1>2. \A k \in DOMAIN upload_queue : upload_queue[k] \in Jobs /\ Begun(upload_queue[k])
  BY UploadPlaces DEF UploadInv
<1>3. \A p \in DOMAIN udp : udp[p].job \in Jobs /\ Begun(udp[p].job)
  BY UdpPlaces DEF BegunInv
<1>4. \A w \in Workers : Busy(w) => job[w] \in Jobs /\ Begun(job[w])
  BY DEF UploadInv, PlacesInv, Busy
<1> QED
  BY <1>1, <1>2, <1>3, <1>4, UploadsMove

(***************************************************************************)
(* Whoever sends a request then waits for its answer.                      *)
(***************************************************************************)
Asked == [job |-> "JOB_REQ", upload |-> "UPLOAD_REQ", download |-> "DOWNLOAD_REQ"]

LEMMA ClientAsks ==
    ASSUME TypeOK, PlacesInv, NEW c \in Clients, ClientStep(c) \/ Timeout(c)
    PROVE  \/ udp' = udp
           \/ \E j \in Jobs :
                 /\ j = <<c, number'[c]>>
                 /\ client'[c] \in DOMAIN Asked
                 /\ udp' = Append(udp, Message(Asked[client'[c]], j))
<1>1. CASE SubmitJob(c)
  <2>1. <<c, number[c] + 1>> \in Jobs /\ number'[c] = number[c] + 1
        /\ udp' = Append(udp, Message("JOB_REQ", <<c, number[c] + 1>>))
    BY <1>1, SubmitProperties
  <2>2. client'[c] = "job"
    BY <1>1 DEF SubmitJob, Become, TypeOK
  <2> QED
    BY <2>1, <2>2 DEF Asked
<1>2. CASE ~SubmitJob(c)
  <2>1. number' = number /\ client[c] # "menu"
    BY <1>2, ClientsKeepServer
       DEF ClientStep, Timeout, ReceiveJobAck, ReceiveUploadAck, ReceiveResult,
           ReceiveDownloadAck, RetryUpload, GiveUp
  <2>2. Job(c) \in Jobs /\ Job(c) = <<c, number'[c]>>
    BY <2>1, JobTypes DEF Job
  <2>3. \/ udp' = udp
        \/ client'[c] = "upload" /\ udp' = Append(udp, Message("UPLOAD_REQ", Job(c)))
        \/ client'[c] = "download" /\ udp' = Append(udp, Message("DOWNLOAD_REQ", Job(c)))
    BY <1>2 DEF ClientStep, Timeout, ReceiveJobAck, ReceiveUploadAck, ReceiveResult,
                ReceiveDownloadAck, RetryUpload, GiveUp, Become, Request, udpVars, TypeOK
  <2> QED
    BY <2>2, <2>3 DEF Asked
<1> QED
  BY <1>1, <1>2

LEMMA UdpMoves ==
    ASSUME TypeOK, PlacesInv, [Next]_vars
    PROVE  \A p \in DOMAIN udp' :
              \/ \E q \in DOMAIN udp : udp'[p] = udp[q]
              \/ \E c \in Clients :
                    /\ udp'[p].job = <<c, number'[c]>>
                    /\ client'[c] \in DOMAIN Asked
                    /\ udp'[p].type = Asked[client'[c]]
<1>1. ASSUME NEW c \in Clients, ClientStep(c) \/ Timeout(c), NEW p \in DOMAIN udp',
             \A q \in DOMAIN udp : udp'[p] # udp[q]
      PROVE  /\ udp'[p].job = <<c, number'[c]>>
             /\ client'[c] \in DOMAIN Asked
             /\ udp'[p].type = Asked[client'[c]]
  <2>1. udp' # udp
    BY <1>1
  <2>2. PICK j \in Jobs :
           /\ j = <<c, number'[c]>>
           /\ client'[c] \in DOMAIN Asked
           /\ udp' = Append(udp, Message(Asked[client'[c]], j))
    BY <1>1, <2>1, ClientAsks
  <2>3. Asked[client'[c]] \in {"JOB_REQ", "UPLOAD_REQ", "DOWNLOAD_REQ"}
    BY <2>2 DEF Asked
  <2>4. /\ DOMAIN udp' = DOMAIN udp \cup {Len(udp) + 1}
        /\ \A q \in DOMAIN udp : udp'[q] = udp[q]
        /\ udp'[Len(udp) + 1].type = Asked[client'[c]] /\ udp'[Len(udp) + 1].job = j
    BY <2>2, <2>3, SentPlaces
  <2>5. p = Len(udp) + 1
    BY <1>1, <2>4
  <2> QED
    BY <2>2, <2>4, <2>5
<1>2. udp' = udp => \A p \in DOMAIN udp' : \E q \in DOMAIN udp : udp'[p] = udp[q]
  OBVIOUS
<1>3. ASSUME NEW type, Arrived(type), udp' = Tail(udp)
      PROVE  \A p \in DOMAIN udp' : \E q \in DOMAIN udp : udp'[p] = udp[q]
  BY <1>3, ArrivedPlaces
<1>4. CASE UdpThread
  BY <1>2, <1>3, <1>4
     DEF UdpThread, MakeDirectory, AddJob, EnqueueUpload, AckUpload, HandleDownload
<1>5. ASSUME NEW w \in Workers, UploadThread(w)
      PROVE  udp' = udp
  BY <1>5, UploadsKeepCourse DEF courseVars
<1>6. CASE ProcessingThread \/ UNCHANGED restVars
  BY <1>2, <1>6
     DEF ProcessingThread, BeginPass, SkipJob, StartCommand, EndCommand, RemoveJob, EndPass,
          restVars, udpVars
<1> QED
  BY <1>1, <1>2, <1>4, <1>5, <1>6, AdminKeepsRest DEF Next

(***************************************************************************)
(* The places of the clients, step by step.                                *)
(***************************************************************************)
(* A kick either changes nothing or ends the job. *)
LEMMA KickEndsJob ==
    ASSUME TypeOK, PlacesInv, NEW c \in Clients, ReadKick(c)
    PROVE  \/ UNCHANGED <<client[c], number[c], strayed[c]>>
           \/ /\ client[c] \in {"job", "upload", "download"} /\ client'[c] \in {"refused", "failed"}
              /\ number'[c] = number[c] /\ strayed'[c] # 0
              /\ strayed'[c] = strayed[c] \/ (strayed[c] = 0 /\ strayed'[c] = number[c])
<1>1. number'[c] = number[c]
  BY DEF ReadKick
<1>2. CASE client[c] \in {"job", "upload", "download"} /\ Become(c, KickTakenFor(client[c])) /\ Stray(c)
  <2>1. client'[c] \in {"refused", "failed"}
    BY <1>2 DEF Become, KickTakenFor, TypeOK
  <2>2. number[c] # 0
    BY <1>2 DEF PlacesInv
  <2>3. strayed'[c] = IF strayed[c] = 0 THEN number[c] ELSE strayed[c]
    BY <1>2 DEF Stray, TypeOK
  <2> QED
    BY <1>1, <1>2, <2>1, <2>2, <2>3
<1>3. CASE UNCHANGED <<client, strayed>>
  BY <1>1, <1>3
<1> QED
  BY <1>2, <1>3 DEF ReadKick

LEMMA ClientsMove ==
    ASSUME TypeOK, [Next]_vars, NEW c \in Clients
    PROVE  \/ UNCHANGED <<client[c], number[c], strayed[c]>>
           \/ ClientStep(c) \/ Timeout(c) \/ ReadKick(c)
<1>1. ASSUME NEW d \in Clients, d # c, ClientStep(d) \/ Timeout(d)
      PROVE  UNCHANGED <<client[c], number[c], strayed[c]>>
  <2>1. /\ client'[c] = client[c]
        /\ number'[c] = number[c]
    BY <1>1 DEF ClientStep, Timeout, SubmitJob, ReceiveJobAck, ReceiveUploadAck, ReceiveResult,
                ReceiveDownloadAck, RetryUpload, GiveUp, Become, TypeOK
  <2>2. strayed'[c] = strayed[c]
    BY <1>1 DEF ClientStep, Timeout, SubmitJob, ReceiveJobAck, ReceiveUploadAck, ReceiveResult,
                ReceiveDownloadAck, RetryUpload, GiveUp, Stray, TakeAtItsWord, TypeOK
  <2> QED
    BY <2>1, <2>2
<1>2. ASSUME NEW w \in Workers, UploadThread(w)
      PROVE  UNCHANGED <<client, number, strayed>>
  BY <1>2, UploadsKeepCourse DEF courseVars
<1>3. CASE UdpThread \/ ProcessingThread \/ UNCHANGED vars
  <2>1. UNCHANGED <<client, number, strayed>>
    BY <1>3
       DEF UdpThread, MakeDirectory, AddJob, EnqueueUpload, AckUpload, HandleDownload,
           ProcessingThread, BeginPass, SkipJob, StartCommand, EndCommand, RemoveJob, EndPass,
           clientVars, clientState, vars
  <2> QED
    BY <2>1
<1>4. ASSUME NEW d \in Clients, d # c, ReadKick(d)
      PROVE  UNCHANGED <<client[c], number[c], strayed[c]>>
  BY <1>4 DEF ReadKick, Become, Stray, TypeOK
<1>5. ASSUME NEW n, SetMaxUploads(n)
      PROVE  UNCHANGED <<client[c], number[c], strayed[c]>>
  BY <1>5 DEF SetMaxUploads, clientVars, clientState
<1> QED
  BY <1>1, <1>2, <1>3, <1>4, <1>5 DEF Next, AdminThread

LEMMA JobsThen ==
    ASSUME TypeOK', PlacesInv', NEW c \in Clients, client'[c] # "menu"
    PROVE  <<c, number'[c]>> \in Jobs /\ number'[c] # 0
<1>1. setting' \in Settings /\ number' \in [Clients -> 0 .. setting'.jobs] /\ number'[c] # 0
  BY DEF TypeOK, PlacesInv
<1>2. setting'.jobs \in 0 .. MaxJobs
  BY <1>1, SettingsAssumption
<1>3. number'[c] \in 0 .. setting'.jobs
  BY <1>1
<1>4. number'[c] \in 1 .. MaxJobs
  BY <1>1, <1>2, <1>3, JobsAssumption
<1> QED
  BY <1>1, <1>4 DEF Jobs

LEMMA UploadPreserved == TypeOK /\ PlacesInv /\ BegunInv /\ UploadInv /\ [Next]_vars => UploadInv'
<1> SUFFICES ASSUME TypeOK, PlacesInv, BegunInv, UploadInv, [Next]_vars PROVE UploadInv'
  OBVIOUS
<1>1. ASSUME NEW c \in Clients, client'[c] = "job", NEW j \in Jobs, j = <<c, number'[c]>>
      PROVE  Untouched(j)'
  <2>1. \A p \in DOMAIN udp' :
           \/ \E q \in DOMAIN udp : udp'[p] = udp[q]
           \/ udp'[p].job = j => udp'[p].type = "JOB_REQ"
    <3>1. \A d \in Clients : <<d, number'[d]>> = j => d = c
      BY <1>1
    <3> QED
      BY <1>1, <3>1, UdpMoves DEF Asked
  <2>2. Untouched(j)
    <3>1. CASE SubmitJob(c)
      <4>1. ~Begun(j)
        <5>1. number'[c] = number[c] + 1 /\ number[c] \in Nat
          BY <3>1, SubmitProperties
        <5>2. j[1] = c /\ j[2] = number[c] + 1
          BY <1>1, <5>1
        <5> QED
          BY <5>1, <5>2 DEF Begun, Owner
      <4>2. runs[j] = <<>>
        BY <4>1 DEF BegunInv
      <4>3. handling.type = "UPLOAD_REQ" => handling.job # j
        BY <4>1 DEF BegunInv, NoRequest, Message
      <4> QED
        BY <4>1, <4>2, <4>3 DEF BegunInv, UploadInv, Untouched
    <3>2. CASE ~SubmitJob(c)
      <4>1. client[c] = "job" /\ number'[c] = number[c]
        BY <1>1, <3>2, ClientsMove, KickEndsJob, ClientsKeepServer
           DEF ClientStep, Timeout, ReceiveJobAck, ReceiveUploadAck, ReceiveResult,
               ReceiveDownloadAck, RetryUpload, GiveUp, Become, TypeOK, AtMenu
      <4> QED
        BY <1>1, <4>1 DEF UploadInv, Job
    <3> QED
      BY <3>1, <3>2
  <2>3. \A p \in DOMAIN udp' : udp'[p].type = "UPLOAD_REQ" => udp'[p].job # j
    BY <2>1, <2>2 DEF Untouched
  <2> QED
    BY <2>2, <2>3, UntouchedStays
<1>2. ASSUME NEW c \in Clients, client'[c] = "job"
      PROVE  <<c, number'[c]>> \in Jobs
  BY <1>2, TypesPreserved, PlacesPreserved, JobsThen
<1> QED
  BY <1>1, <1>2, UploadsBegunPreserved DEF UploadInv, Begun, BegunThen, Untouched, Busy, Job

-----------------------------------------------------------------------------
(***************************************************************************)
(* What a client is sent, and when nothing more is under way for a job.    *)
(***************************************************************************)
LEMMA InboxPlaces ==
    ASSUME TypeOK, NEW c \in Clients
    PROVE  \A k \in DOMAIN inbox[c] : inbox[c][k] \in Replies /\ inbox[c][k].job \in Jobs
<1>1. inbox[c] \in Seq(Replies)
  BY DEF TypeOK
<1>2. \A k \in DOMAIN inbox[c] : inbox[c][k] \in Replies
  BY <1>1, LenProperties, ElementOfSeq
<1> QED
  BY <1>2 DEF Replies

(* An answer that is sent takes a new place. *)
LEMMA ReplyPlaces ==
    ASSUME TypeOK, NEW j \in Jobs, NEW ok \in BOOLEAN,
           NEW type \in {"JOB_ACK", "UPLOAD_ACK", "JOB_RESULT", "DOWNLOAD_ACK"},
           Send(Reply(type, j, ok)), NEW c \in Clients
    PROVE  /\ c # Owner(j) => inbox'[c] = inbox[c]
           /\ c = Owner(j) =>
                 /\ Len(inbox[c]) + 1 \notin DOMAIN inbox[c]
                 /\ DOMAIN inbox'[c] = DOMAIN inbox[c] \cup {Len(inbox[c]) + 1}
                 /\ \A k \in DOMAIN inbox[c] : inbox'[c][k] = inbox[c][k]
                 /\ inbox'[c][Len(inbox[c]) + 1].type = type
                 /\ inbox'[c][Len(inbox[c]) + 1].job = j
                 /\ inbox'[c][Len(inbox[c]) + 1].ok = ok
<1>1. /\ Reply(type, j, ok) \in Replies
      /\ inbox' = [inbox EXCEPT ![Owner(j)] = Append(inbox[Owner(j)], Reply(type, j, ok))]
      /\ inbox \in [Clients -> Seq(Replies)]
  BY ReplyTypes DEF TypeOK
<1>2. CASE c # Owner(j)
  BY <1>1, <1>2
<1>3. CASE c = Owner(j)
  <2> DEFINE e == Reply(type, j, ok)
  <2>1. e.type = type /\ e.job = j /\ e.ok = ok /\ e \in Replies
    BY <1>1 DEF Reply
  <2>2. inbox'[c] = Append(inbox[c], e) /\ inbox[c] \in Seq(Replies)
    BY <1>1, <1>3
  <2> HIDE DEF e
  <2>3. /\ Len(inbox[c]) + 1 \notin DOMAIN inbox[c]
        /\ DOMAIN inbox'[c] = DOMAIN inbox[c] \cup {Len(inbox[c]) + 1}
        /\ \A k \in DOMAIN inbox[c] : inbox'[c][k] = inbox[c][k]
        /\ inbox'[c][Len(inbox[c]) + 1] = e
    BY <2>1, <2>2, AppendPlaces
  <2> QED
    BY <1>3, <2>1, <2>3
<1> QED
  BY <1>2, <1>3

(* An answer that is taken leaves its place to the next. *)
LEMMA TakenPlaces ==
    ASSUME TypeOK, NEW c \in Clients, inbox[c] # <<>>, Received(c)
    PROVE  /\ \A d \in Clients : d # c => inbox'[d] = inbox[d]
           /\ 1 \in DOMAIN inbox[c] /\ Head(inbox[c]) = inbox[c][1]
           /\ \A k \in DOMAIN inbox'[c] :
                 k \in Nat /\ k # 0 /\ k + 1 \in DOMAIN inbox[c] /\ inbox'[c][k] = inbox[c][k + 1]
<1>1. inbox[c] \in Seq(Replies) /\ inbox'[c] = Tail(inbox[c])
      /\ \A d \in Clients : d # c => inbox'[d] = inbox[d]
  BY DEF TypeOK, Received
<1> QED
  BY <1>1, TailPlaces

(* What the server sends to c: an answer, or the result of a command. *)
AnswerTo == [JOB_REQ |-> "JOB_ACK", UPLOAD_REQ |-> "UPLOAD_ACK", DOWNLOAD_REQ |-> "DOWNLOAD_ACK"]

AtOnce(m) ==
    /\ 1 \in DOMAIN udp /\ handling = NoRequest
    /\ udp[1].type \in {"JOB_REQ", "DOWNLOAD_REQ"}
    /\ m.job = udp[1].job
    /\ m.type = AnswerTo[udp[1].type]
    /\ udp' = Tail(udp) /\ handling' = handling

Later(m) ==
    /\ handling.type \in {"JOB_REQ", "UPLOAD_REQ"}
    /\ m.job = handling.job
    /\ m.type = AnswerTo[handling.type]
    /\ m.ok
    /\ udp' = udp /\ handling' = NoRequest

ResultOf(m) ==
    /\ processing = "run"
    /\ EndCommand
    /\ m.job = cwd
    /\ m.type = "JOB_RESULT"
    /\ m.ok => cwd \in output'

Answer(c, m) ==
    /\ m.job \in Jobs /\ Owner(m.job) = c
    /\ AtOnce(m) \/ Later(m) \/ ResultOf(m)

LEMMA InboxMoves ==
    ASSUME TypeOK, PlacesInv, [Next]_vars, NEW c \in Clients
    PROVE  \/ inbox'[c] = inbox[c]
           \/ /\ ClientStep(c)
              /\ \A k \in DOMAIN inbox'[c] :
                    k \in Nat /\ k # 0 /\ k + 1 \in DOMAIN inbox[c] /\ inbox'[c][k] = inbox[c][k + 1]
           \/ \E n : /\ n \notin DOMAIN inbox[c]
                     /\ DOMAIN inbox'[c] = DOMAIN inbox[c] \cup {n}
                     /\ \A k \in DOMAIN inbox[c] : inbox'[c][k] = inbox[c][k]
                     /\ Answer(c, inbox'[c][n])
                     /\ UdpThread \/ ProcessingThread
<1> USE DEF clientVars, clientState, sharedVars, udpVars, workerVars, procVars
<1> DEFINE Taken ==
              /\ ClientStep(c)
              /\ \A k \in DOMAIN inbox'[c] :
                    k \in Nat /\ k # 0 /\ k + 1 \in DOMAIN inbox[c] /\ inbox'[c][k] = inbox[c][k + 1]
           Grown(n) ==
              /\ n \notin DOMAIN inbox[c]
              /\ DOMAIN inbox'[c] = DOMAIN inbox[c] \cup {n}
              /\ \A k \in DOMAIN inbox[c] : inbox'[c][k] = inbox[c][k]
           Told == \E n : Grown(n) /\ Answer(c, inbox'[c][n]) /\ (UdpThread \/ ProcessingThread)
<1> SUFFICES inbox'[c] = inbox[c] \/ Taken \/ Told
  OBVIOUS
<1>1. ASSUME NEW d \in Clients, ClientStep(d) \/ Timeout(d)
      PROVE  inbox'[c] = inbox[c] \/ Taken
  <2>1. inbox' = inbox \/ (inbox[d] # <<>> /\ Received(d) /\ ClientStep(d))
    BY <1>1 DEF ClientStep, Timeout, SubmitJob, ReceiveJobAck, ReceiveUploadAck, ReceiveResult,
                ReceiveDownloadAck, RetryUpload, GiveUp
  <2>2. CASE inbox[d] # <<>> /\ Received(d) /\ ClientStep(d)
    <3>1. CASE c = d
      BY <2>2, <3>1, TakenPlaces
    <3>2. CASE c # d
      BY <2>2, <3>2, TakenPlaces
    <3> QED
      BY <3>1, <3>2
  <2> QED
    BY <2>1, <2>2
<1>2. ASSUME NEW j \in Jobs, NEW ok \in BOOLEAN,
             NEW type \in {"JOB_ACK", "UPLOAD_ACK", "JOB_RESULT", "DOWNLOAD_ACK"},
             Send(Reply(type, j, ok))
      PROVE  \/ inbox'[c] = inbox[c]
             \/ /\ c = Owner(j)
                /\ \E n : /\ Grown(n)
                          /\ inbox'[c][n].job = j /\ inbox'[c][n].type = type /\ inbox'[c][n].ok = ok
  <2>1. CASE c = Owner(j)
    BY <1>2, <2>1, ReplyPlaces
  <2>2. CASE c # Owner(j)
    BY <1>2, <2>2, ReplyPlaces
  <2> QED
    BY <2>1, <2>2
<1> HIDE DEF Taken, Grown
<1>3. CASE MakeDirectory \/ HandleDownload
  <2>1. 1 \in DOMAIN udp /\ Head(udp) = udp[1] /\ udp[1].job \in Jobs /\ handling = NoRequest
        /\ udp' = Tail(udp)
    BY <1>3, ArrivedPlaces DEF MakeDirectory, HandleDownload
  <2>2. CASE MakeDirectory
    <3>1. udp[1].type = "JOB_REQ"
      BY <2>1, <2>2 DEF MakeDirectory, Arrived
    <3>2. inbox' = inbox \/ (handling' = handling /\ Send(Reply("JOB_ACK", udp[1].job, FALSE)))
      BY <2>1, <2>2 DEF MakeDirectory
    <3>3. CASE handling' = handling /\ Send(Reply("JOB_ACK", udp[1].job, FALSE))
      <4>1. inbox'[c] = inbox[c]
           \/ (c = Owner(udp[1].job) /\ \E n : Grown(n)
               /\ inbox'[c][n].job = udp[1].job /\ inbox'[c][n].type = "JOB_ACK")
        <5>1. PICK ok \in BOOLEAN : Send(Reply("JOB_ACK", udp[1].job, ok))
          BY <3>3
        <5> QED
          BY <1>2, <2>1, <5>1
      <4>2. "JOB_ACK" = AnswerTo["JOB_REQ"] /\ UdpThread
        BY <2>2 DEF AnswerTo, UdpThread
      <4>3. ASSUME NEW m, m.job = udp[1].job, m.type = "JOB_ACK", c = Owner(udp[1].job)
            PROVE  Answer(c, m)
        BY <2>1, <3>1, <3>3, <4>2, <4>3 DEF Answer, AtOnce
      <4>4. ASSUME NEW n, Grown(n), inbox'[c][n].job = udp[1].job, inbox'[c][n].type = "JOB_ACK",
                   c = Owner(udp[1].job)
            PROVE  Told
        <5>1. Answer(c, inbox'[c][n])
          BY <4>3, <4>4
        <5> QED
          BY <4>2, <4>4, <5>1
      <4> HIDE DEF Told
      <4> QED
        BY <4>1, <4>4
    <3> QED
      BY <3>2, <3>3
  <2>3. CASE HandleDownload
    <3>1. udp[1].type = "DOWNLOAD_REQ" /\ handling' = handling
      BY <2>1, <2>3 DEF HandleDownload, Arrived
    <3>2. PICK ok \in BOOLEAN : Send(Reply("DOWNLOAD_ACK", udp[1].job, ok))
      <4>1. (AtRoot /\ udp[1].job \in output) \in BOOLEAN
        BY DEF AtRoot
      <4> QED
        BY <2>1, <2>3, <4>1 DEF HandleDownload
    <3>3. inbox'[c] = inbox[c]
         \/ (c = Owner(udp[1].job) /\ \E n : Grown(n)
             /\ inbox'[c][n].job = udp[1].job /\ inbox'[c][n].type = "DOWNLOAD_ACK")
      BY <1>2, <2>1, <3>2
    <3>4. "DOWNLOAD_ACK" = AnswerTo["DOWNLOAD_REQ"] /\ UdpThread
      BY <2>3 DEF AnswerTo, UdpThread
    <3>5. ASSUME NEW m, m.job = udp[1].job, m.type = "DOWNLOAD_ACK", c = Owner(udp[1].job)
          PROVE  Answer(c, m)
      BY <2>1, <3>1, <3>4, <3>5 DEF Answer, AtOnce
    <3>6. ASSUME NEW n, Grown(n), inbox'[c][n].job = udp[1].job, inbox'[c][n].type = "DOWNLOAD_ACK",
                 c = Owner(udp[1].job)
          PROVE  Told
      <4>1. Answer(c, inbox'[c][n])
        BY <3>5, <3>6
      <4> QED
        BY <3>4, <3>6, <4>1
    <3> HIDE DEF Told
    <3> QED
      BY <3>3, <3>6
  <2> QED
    BY <1>3, <2>2, <2>3
<1>4. CASE AddJob \/ AckUpload
  <2>1. handling.type \in {"JOB_REQ", "UPLOAD_REQ"} /\ udp' = udp /\ handling' = NoRequest
    BY <1>4 DEF AddJob, AckUpload
  <2>2. handling.job \in Jobs
    BY <2>1, HandlingTypes
  <2>3. AnswerTo[handling.type] \in {"JOB_ACK", "UPLOAD_ACK"}
    BY <2>1 DEF AnswerTo
  <2>4. Send(Reply(AnswerTo[handling.type], handling.job, TRUE))
    <3>1. CASE AddJob
      <4>1. AnswerTo[handling.type] = "JOB_ACK"
        BY <3>1 DEF AddJob, AnswerTo
      <4> QED
        BY <3>1, <4>1 DEF AddJob
    <3>2. CASE AckUpload
      <4>1. AnswerTo[handling.type] = "UPLOAD_ACK"
        BY <3>2 DEF AckUpload, AnswerTo
      <4> QED
        BY <3>2, <4>1 DEF AckUpload
    <3> QED
      BY <1>4, <3>1, <3>2
  <2>5. inbox'[c] = inbox[c]
        \/ (c = Owner(handling.job) /\ \E n : Grown(n) /\ inbox'[c][n].job = handling.job
              /\ inbox'[c][n].type = AnswerTo[handling.type] /\ inbox'[c][n].ok = TRUE)
    <3>1. PICK ok \in BOOLEAN, type \in {"JOB_ACK", "UPLOAD_ACK", "JOB_RESULT", "DOWNLOAD_ACK"},
               j \in Jobs :
             /\ ok = TRUE /\ type = AnswerTo[handling.type] /\ j = handling.job
             /\ Send(Reply(type, j, ok))
      BY <2>2, <2>3, <2>4
    <3>2. inbox'[c] = inbox[c]
          \/ (c = Owner(j) /\ \E n : Grown(n) /\ inbox'[c][n].job = j
                /\ inbox'[c][n].type = type /\ inbox'[c][n].ok = ok)
      <4>1. Send(Reply(type, j, ok))
        BY <3>1
      <4> QED
        BY <1>2, <4>1
    <3> QED
      BY <3>1, <3>2
  <2>6. ASSUME NEW m, m.job = handling.job, m.type = AnswerTo[handling.type], m.ok = TRUE,
               c = Owner(handling.job)
        PROVE  Answer(c, m)
    BY <2>1, <2>2, <2>6 DEF Answer, Later
  <2>7. UdpThread
    BY <1>4 DEF UdpThread
  <2>8. ASSUME NEW n, Grown(n), inbox'[c][n].job = handling.job,
               inbox'[c][n].type = AnswerTo[handling.type], inbox'[c][n].ok = TRUE,
               c = Owner(handling.job)
        PROVE  Told
    <3>1. Answer(c, inbox'[c][n])
      BY <2>6, <2>8
    <3> QED
      BY <2>7, <2>8, <3>1
  <2> HIDE DEF Told
  <2> QED
    BY <2>5, <2>8
<1>5. CASE EndCommand
  <2>1. processing = "run" /\ i \in DOMAIN pending_jobs /\ cwd = pending_jobs[i].job /\ cwd \in Jobs
    BY <1>5, EntryTypes DEF EndCommand, PlacesInv, Executing
  <2>2. PICK ok \in BOOLEAN :
           /\ output' = IF ok THEN output \cup {cwd} ELSE output
           /\ Send(Reply("JOB_RESULT", cwd, ok))
    BY <1>5, <2>1 DEF EndCommand
  <2>3. inbox'[c] = inbox[c]
        \/ (c = Owner(cwd) /\ \E n : Grown(n) /\ inbox'[c][n].job = cwd
              /\ inbox'[c][n].type = "JOB_RESULT" /\ inbox'[c][n].ok = ok)
    BY <1>2, <2>1, <2>2
  <2> QED
    BY <1>5, <2>1, <2>2, <2>3 DEF Answer, ResultOf, ProcessingThread
<1>6. CASE EnqueueUpload \/ (ProcessingThread /\ ~EndCommand) \/ UNCHANGED restVars
  <2>1. inbox' = inbox
    BY <1>6
       DEF EnqueueUpload, ProcessingThread, BeginPass, SkipJob, StartCommand, RemoveJob, EndPass,
            restVars
  <2> QED
    BY <2>1
<1>7. ASSUME NEW w \in Workers, UploadThread(w)
      PROVE  inbox' = inbox
  BY <1>7, UploadsKeepCourse DEF courseVars
<1> HIDE DEF Told
<1> QED
  BY <1>1, <1>3, <1>4, <1>5, <1>6, <1>7, AdminKeepsRest DEF Next, UdpThread

(* The entry of j is gone, or the next step of the processing thread removes it. *)
Over(j) == Listed(j) => processing = "sent" /\ cwd = j

LEMMA OverStays ==
    ASSUME TypeOK, PlacesInv, OnceInv, [Next]_vars, NEW j \in Jobs, Over(j), ~(AddJob /\ handling.job = j)
    PROVE  Over(j)'
<1> USE DEF clientVars, clientState, sharedVars, udpVars, workerVars, procVars
<1>1. ListedThen(j) => Listed(j)
  BY EntriesJoin
<1>2. CASE Listed(j)
  <2>1. processing = "sent" /\ cwd = j
    BY <1>2 DEF Over
  <2>2. CASE RemoveJob
    <3>1. i \in DOMAIN pending_jobs /\ cwd = pending_jobs[i].job
          /\ \A m \in DOMAIN pending_jobs' : \E k \in DOMAIN pending_jobs :
                 pending_jobs'[m] = pending_jobs[k] /\ k # i
      BY <2>2, RemovedEntry
    <3>2. ~ListedThen(j)
      BY <2>1, <3>1 DEF ListedThen, OnceInv, DistinctEntries
    <3> QED
      BY <3>2 DEF Over, Listed, ListedThen
  <2>3. CASE ~RemoveJob
    <3>1. UNCHANGED <<processing, cwd>>
      <4>1. ASSUME NEW c \in Clients, ClientStep(c) \/ Timeout(c)
            PROVE  UNCHANGED <<processing, cwd>>
        BY <4>1, ClientsKeepServer
      <4>2. ASSUME NEW w \in Workers, UploadThread(w)
            PROVE  UNCHANGED <<processing, cwd>>
        BY <4>2, UploadsKeepCourse DEF courseVars
      <4>3. CASE UdpThread \/ ProcessingThread \/ UNCHANGED restVars
        BY <2>1, <2>3, <4>3
           DEF UdpThread, MakeDirectory, AddJob, EnqueueUpload, AckUpload, HandleDownload,
               ProcessingThread, BeginPass, SkipJob, StartCommand, EndCommand, EndPass, restVars
      <4> QED
        BY <4>1, <4>2, <4>3, AdminKeepsRest DEF Next
    <3> QED
      BY <2>1, <3>1 DEF Over
  <2> QED
    BY <2>2, <2>3
<1>3. CASE ~Listed(j)
  BY <1>1, <1>3 DEF Over, Listed, ListedThen
<1> QED
  BY <1>2, <1>3

LEMMA RunsStay ==
    ASSUME TypeOK, PlacesInv, [Next]_vars, NEW j \in Jobs, Over(j)
    PROVE  runs'[j] = runs[j] /\ (j \in output => j \in output')
<1> USE DEF clientVars, clientState, sharedVars, udpVars, workerVars, procVars
<1>1. CASE StartCommand
  <2>1. /\ i \in DOMAIN pending_jobs /\ processing = "scan" /\ output' = output
        /\ runs' = [runs EXCEPT ![pending_jobs[i].job] = Append(@, file[pending_jobs[i].job])]
    BY <1>1, ScanTypes DEF StartCommand
  <2>2. j # pending_jobs[i].job
    BY <2>1 DEF Over, Listed
  <2> QED
    BY <2>1, <2>2 DEF TypeOK
<1>2. ASSUME NEW c \in Clients, ClientStep(c) \/ Timeout(c)
      PROVE  UNCHANGED <<runs, output>>
  BY <1>2, ClientsKeepServer
<1>3. ASSUME NEW w \in Workers, UploadThread(w)
      PROVE  UNCHANGED <<runs, output>>
  BY <1>3, UploadsKeepCourse DEF courseVars
<1>4. CASE EndCommand
  BY <1>4 DEF EndCommand
<1>5. CASE UdpThread \/ (ProcessingThread /\ ~StartCommand /\ ~EndCommand) \/ UNCHANGED restVars
  <2>1. UNCHANGED <<runs, output>>
    BY <1>5
       DEF UdpThread, MakeDirectory, AddJob, EnqueueUpload, AckUpload, HandleDownload,
           ProcessingThread, BeginPass, SkipJob, RemoveJob, EndPass, restVars
  <2> QED
    BY <2>1
<1> QED
  BY <1>1, <1>2, <1>3, <1>4, <1>5, AdminKeepsRest DEF Next

(***************************************************************************)
(* What a JOB_RESULT on its way says is so, and there is one for a job.    *)
(***************************************************************************)
Sound(c, m) ==
    /\ Owner(m.job) = c
    /\ Begun(m.job)
    /\ m.type = "JOB_RESULT" =>
          /\ Len(runs[m.job]) = 1
          /\ m.ok => m.job \in output
          /\ Over(m.job)

DistinctResults(c) ==
    \A k, m \in DOMAIN inbox[c] :
        /\ inbox[c][k].type = "JOB_RESULT" /\ inbox[c][m].type = "JOB_RESULT"
        /\ inbox[c][k].job = inbox[c][m].job
        => k = m

ResultInv ==
    \A c \in Clients :
        /\ \A k \in DOMAIN inbox[c] : Sound(c, inbox[c][k])
        /\ DistinctResults(c)

LEMMA ResultsInitially == Init => ResultInv
<1> SUFFICES ASSUME Init, NEW c \in Clients PROVE DOMAIN inbox[c] = {}
  BY DEF ResultInv, DistinctResults
<1> QED
  BY DEF Init

(* In the next state. *)
OverThen(j) == ListedThen(j) => processing' = "sent" /\ cwd' = j

SoundThen(c, m) ==
    /\ Owner(m.job) = c
    /\ BegunThen(m.job)
    /\ m.type = "JOB_RESULT" =>
          /\ Len(runs'[m.job]) = 1
          /\ m.ok => m.job \in output'
          /\ OverThen(m.job)

LEMMA SoundStays ==
    ASSUME TypeOK, PlacesInv, BegunInv, OnceInv, [Next]_vars,
           NEW c \in Clients, NEW m, m.job \in Jobs, Sound(c, m)
    PROVE  SoundThen(c, m)
<1>1. BegunThen(m.job)
  BY BegunGrows DEF Sound
<1>2. CASE m.type # "JOB_RESULT"
  BY <1>1, <1>2 DEF Sound, SoundThen
<1>3. CASE m.type = "JOB_RESULT"
  <2>1. PICK j \in Jobs : j = m.job
    OBVIOUS
  <2>2. Len(runs[j]) = 1 /\ Over(j) /\ (m.ok => j \in output)
    BY <1>3, <2>1 DEF Sound
  <2>3. runs'[j] = runs[j] /\ (j \in output => j \in output')
    BY <2>2, RunsStay
  <2>4. ~(AddJob /\ handling.job = j)
    <3>1. runs[j] # <<>>
      BY <2>2
    <3> QED
      BY <3>1 DEF AddJob, OnceInv, FreshHandling, Fresh
  <2>5. OverThen(j)
    BY <2>2, <2>4, OverStays DEF Over, OverThen, Listed, ListedThen
  <2> QED
    BY <1>1, <2>1, <2>2, <2>3, <2>5 DEF Sound, SoundThen
<1> QED
  BY <1>2, <1>3

LEMMA AnswersAreSound ==
    ASSUME TypeOK, PlacesInv, BegunInv, OnceInv, [Next]_vars,
           NEW c \in Clients, NEW m, Answer(c, m)
    PROVE  SoundThen(c, m)
<1>1. m.job \in Jobs /\ Owner(m.job) = c
  BY DEF Answer
<1>2. CASE AtOnce(m)
  <2>1. Begun(m.job) /\ m.type # "JOB_RESULT"
    BY <1>2 DEF AtOnce, BegunInv, AnswerTo
  <2> QED
    BY <1>1, <2>1, SoundStays DEF Sound
<1>3. CASE Later(m)
  <2>1. handling # NoRequest /\ m.type # "JOB_RESULT"
    BY <1>3 DEF Later, AnswerTo, NoRequest, Message
  <2>2. Begun(m.job)
    BY <1>3, <2>1 DEF Later, BegunInv
  <2> QED
    BY <1>1, <2>1, <2>2, SoundStays DEF Sound
<1>4. CASE ResultOf(m)
  <2>1. /\ m.job = cwd /\ processing' = "sent" /\ cwd' = cwd /\ runs' = runs
        /\ (m.ok => cwd \in output') /\ Executing
    BY <1>4 DEF ResultOf, EndCommand, Executing
  <2>2. Len(runs[cwd]) = 1
    BY <2>1 DEF OnceInv
  <2>3. Begun(cwd)
    BY <1>1, <2>1, <2>2 DEF BegunInv
  <2>4. BegunThen(cwd)
    BY <1>1, <2>1, <2>3, BegunGrows
  <2> QED
    BY <1>1, <2>1, <2>2, <2>4 DEF SoundThen, OverThen
<1> QED
  BY <1>2, <1>3, <1>4 DEF Answer

LEMMA ResultsPreserved ==
    TypeOK /\ PlacesInv /\ BegunInv /\ OnceInv /\ ResultInv /\ [Next]_vars => ResultInv'
<1> SUFFICES ASSUME TypeOK, PlacesInv, BegunInv, OnceInv, ResultInv, [Next]_vars
             PROVE  ResultInv'
  OBVIOUS
<1>1. ASSUME NEW c \in Clients
      PROVE  /\ \A k \in DOMAIN inbox'[c] : SoundThen(c, inbox'[c][k])
             /\ DistinctResults(c)'
  <2>1. \A k \in DOMAIN inbox[c] : SoundThen(c, inbox[c][k])
    BY InboxPlaces, SoundStays DEF ResultInv
  <2>2. DistinctResults(c)
    BY DEF ResultInv
  <2>3. CASE inbox'[c] = inbox[c]
    BY <2>1, <2>2, <2>3 DEF DistinctResults
  <2>4. CASE \A k \in DOMAIN inbox'[c] :
                k \in Nat /\ k # 0 /\ k + 1 \in DOMAIN inbox[c] /\ inbox'[c][k] = inbox[c][k + 1]
    <3>1. \A k \in DOMAIN inbox'[c] : SoundThen(c, inbox'[c][k])
      BY <2>1, <2>4
    <3>2. DistinctResults(c)'
      BY <2>2, <2>4 DEF DistinctResults
    <3> QED
      BY <3>1, <3>2
  <2>5. ASSUME NEW n, n \notin DOMAIN inbox[c], DOMAIN inbox'[c] = DOMAIN inbox[c] \cup {n},
               \A k \in DOMAIN inbox[c] : inbox'[c][k] = inbox[c][k],
               Answer(c, inbox'[c][n])
        PROVE  /\ \A k \in DOMAIN inbox'[c] : SoundThen(c, inbox'[c][k])
               /\ DistinctResults(c)'
    <3>1. SoundThen(c, inbox'[c][n])
      BY <2>5, AnswersAreSound
    <3>2. \A k \in DOMAIN inbox'[c] : SoundThen(c, inbox'[c][k])
      BY <2>1, <2>5, <3>1
    <3>3. CASE inbox'[c][n].type # "JOB_RESULT"
      BY <2>2, <2>5, <3>2, <3>3 DEF DistinctResults
    <3>4. CASE inbox'[c][n].type = "JOB_RESULT"
      <4>1. ResultOf(inbox'[c][n])
        BY <2>5, <3>4 DEF Answer, AtOnce, Later, AnswerTo
      <4>2. inbox'[c][n].job = cwd /\ processing = "run"
        BY <4>1 DEF ResultOf
      <4>3. Listed(cwd)
        BY <4>2 DEF PlacesInv, Executing, Listed
      <4>4. ~Over(cwd)
        BY <4>2, <4>3 DEF Over
      <4>5. \A k \in DOMAIN inbox[c] : inbox[c][k].type = "JOB_RESULT" => inbox[c][k].job # cwd
        BY <4>4 DEF ResultInv, Sound
      <4> QED
        BY <2>2, <2>5, <3>2, <4>2, <4>5 DEF DistinctResults
    <3> QED
      BY <3>3, <3>4
  <2> QED
    BY <2>3, <2>4, <2>5, InboxMoves
<1> QED
  BY <1>1 DEF ResultInv, Sound, SoundThen, Begun, BegunThen, Over, OverThen, Listed, ListedThen

-----------------------------------------------------------------------------
(***************************************************************************)
(* Requests on their way: sent by a client, or taken by the UDP thread.    *)
(***************************************************************************)
LEMMA RequestsMove ==
    ASSUME TypeOK, PlacesInv, [Next]_vars
    PROVE  \/ udp' = udp /\ (handling' = handling \/ handling' = NoRequest)
           \/ /\ 1 \in DOMAIN udp /\ handling = NoRequest
              /\ \A p \in DOMAIN udp' : p \in Nat /\ p # 0 /\ p + 1 \in DOMAIN udp /\ udp'[p] = udp[p + 1]
              /\ handling' = handling \/ handling' = udp[1]
           \/ \E d \in Clients : \E n :
                 /\ ClientStep(d) \/ Timeout(d)
                 /\ handling' = handling
                 /\ n \notin DOMAIN udp /\ DOMAIN udp' = DOMAIN udp \cup {n}
                 /\ \A p \in DOMAIN udp : udp'[p] = udp[p]
                 /\ udp'[n].job = <<d, number'[d]>>
                 /\ client'[d] \in DOMAIN Asked
                 /\ udp'[n].type = Asked[client'[d]]
<1> USE DEF clientVars, clientState, sharedVars, udpVars, workerVars, procVars
<1>1. ASSUME NEW d \in Clients, ClientStep(d) \/ Timeout(d), udp' # udp
      PROVE  \E n :
                 /\ handling' = handling
                 /\ n \notin DOMAIN udp /\ DOMAIN udp' = DOMAIN udp \cup {n}
                 /\ \A p \in DOMAIN udp : udp'[p] = udp[p]
                 /\ udp'[n].job = <<d, number'[d]>>
                 /\ client'[d] \in DOMAIN Asked
                 /\ udp'[n].type = Asked[client'[d]]
  <2>1. handling' = handling
    BY <1>1, ClientsKeepServer
  <2>2. PICK j \in Jobs :
           /\ j = <<d, number'[d]>>
           /\ client'[d] \in DOMAIN Asked
           /\ udp' = Append(udp, Message(Asked[client'[d]], j))
    BY <1>1, ClientAsks
  <2>3. Asked[client'[d]] \in {"JOB_REQ", "UPLOAD_REQ", "DOWNLOAD_REQ"}
    BY <2>2 DEF Asked
  <2>4. /\ Len(udp) + 1 \notin DOMAIN udp
        /\ DOMAIN udp' = DOMAIN udp \cup {Len(udp) + 1}
        /\ \A q \in DOMAIN udp : udp'[q] = udp[q]
        /\ udp'[Len(udp) + 1].type = Asked[client'[d]] /\ udp'[Len(udp) + 1].job = j
    BY <1>1, <2>2, <2>3, SentPlaces
  <2> QED
    BY <2>1, <2>2, <2>4
<1>2. ASSUME NEW d \in Clients, ClientStep(d) \/ Timeout(d), udp' = udp
      PROVE  handling' = handling
  BY <1>2, ClientsKeepServer
<1>3. CASE MakeDirectory \/ EnqueueUpload \/ HandleDownload
  <2>1. PICK type : Arrived(type) /\ udp' = Tail(udp)
    BY <1>3 DEF MakeDirectory, EnqueueUpload, HandleDownload
  <2>2. handling' = handling \/ handling' = Head(udp)
    BY <1>3 DEF MakeDirectory, EnqueueUpload, HandleDownload
  <2> QED
    BY <2>1, <2>2, ArrivedPlaces
<1>4. CASE AddJob \/ AckUpload
  BY <1>4 DEF AddJob, AckUpload
<1>5. ASSUME NEW w \in Workers, UploadThread(w)
      PROVE  udp' = udp /\ handling' = handling
  BY <1>5, UploadsKeepCourse DEF courseVars
<1>6. CASE ProcessingThread \/ UNCHANGED restVars
  BY <1>6
     DEF ProcessingThread, BeginPass, SkipJob, StartCommand, EndCommand, RemoveJob, EndPass,
          restVars
<1> QED
  BY <1>1, <1>2, <1>3, <1>4, <1>5, <1>6, AdminKeepsRest DEF Next, UdpThread

(* Nothing is under way for j any more. *)
Silent(j) ==
    /\ \A p \in DOMAIN udp : udp[p].job # j
    /\ handling.job # j
    /\ \A k \in DOMAIN inbox[Owner(j)] : inbox[Owner(j)][k].job # j
    /\ Over(j)

LEMMA SilentStays ==
    ASSUME TypeOK, PlacesInv, OnceInv, [Next]_vars, NEW j \in Jobs, Silent(j),
           number'[Owner(j)] # j[2]
    PROVE  Silent(j)'
<1>1. \A d : <<d, number'[d]>> # j
  BY DEF Owner
<1>2. NoRequest.job # j
  BY NoneAssumption DEF NoRequest, Message
<1>3. \A p \in DOMAIN udp' : udp'[p].job # j
  BY <1>1, UdpMoves DEF Silent
<1>4. handling'.job # j
  BY <1>2, RequestsMove DEF Silent
<1>5. Owner(j) \in Clients
  BY DEF Owner, Jobs
<1>6. \A m : Answer(Owner(j), m) => m.job # j
  <2>1. processing = "run" => Listed(cwd)
    BY DEF PlacesInv, Executing, Listed
  <2> QED
    BY <2>1 DEF Answer, AtOnce, Later, ResultOf, Silent, Over
<1>7. \A k \in DOMAIN inbox'[Owner(j)] : inbox'[Owner(j)][k].job # j
  <2>1. PICK c \in Clients : c = Owner(j)
    BY <1>5
  <2>2. \A k \in DOMAIN inbox[c] : inbox[c][k].job # j
    BY <2>1 DEF Silent
  <2>3. \A m : Answer(c, m) => m.job # j
    BY <1>6, <2>1
  <2>4. \A k \in DOMAIN inbox'[c] : inbox'[c][k].job # j
    BY <2>2, <2>3, InboxMoves
  <2> QED
    BY <2>1, <2>4
<1>8. Over(j)'
  BY OverStays DEF Silent
<1> QED
  BY <1>3, <1>4, <1>7, <1>8 DEF Silent

(***************************************************************************)
(* A client that has not strayed has one request or one answer under way,  *)
(* the one it waits for, and perhaps an early JOB_RESULT; and when it is   *)
(* back at the menu, or goes to fetch its output, its job is over.         *)
(***************************************************************************)
Unanswered(c) ==
    /\ client[c] \in DOMAIN Asked
    /\ \A k \in DOMAIN inbox[c] : inbox[c][k].type # Awaited[client[c]]

OneRequest(c) ==
    /\ \A p \in DOMAIN udp : Owner(udp[p].job) = c =>
          /\ Unanswered(c)
          /\ udp[p].type = Asked[client[c]]
          /\ handling # NoRequest => Owner(handling.job) # c
          /\ \A q \in DOMAIN udp : Owner(udp[q].job) = c => q = p
    /\ handling # NoRequest /\ Owner(handling.job) = c =>
          Unanswered(c) /\ handling.type = Asked[client[c]]

OneAnswer(c) ==
    \A k \in DOMAIN inbox[c] :
        /\ client[c] \notin AtMenu
        /\ \/ inbox[c][k].type = Awaited[client[c]]
           \/ client[c] = "upload" /\ inbox[c][k].type = "JOB_RESULT"
        /\ \A m \in DOMAIN inbox[c] : inbox[c][m].type = inbox[c][k].type => m = k
        /\ inbox[c][k].type = "JOB_ACK" /\ ~inbox[c][k].ok => ~Listed(inbox[c][k].job)

Orderly(c) ==
    /\ OneRequest(c)
    /\ OneAnswer(c)
    /\ client[c] \in AtMenu \cup {"download"} => Over(Job(c))

CalmInv ==
    \A c \in Clients :
        /\ strayed[c] <= number[c]
        /\ Calm(c) => \A n \in 1 .. number[c] - 1 : Silent(<<c, n>>)
        /\ strayed[c] = 0 => Orderly(c)

LEMMA CalmInitially == Init => CalmInv
<1> SUFFICES ASSUME Init, NEW c \in Clients
             PROVE  strayed[c] = 0 /\ number[c] = 0 /\ Orderly(c)
  BY DEF CalmInv
<1>1. strayed[c] = 0 /\ number[c] = 0
  BY DEF Init
<1>2. DOMAIN udp = {} /\ DOMAIN inbox[c] = {} /\ handling = NoRequest /\ DOMAIN pending_jobs = {}
  BY DEF Init
<1> QED
  BY <1>1, <1>2 DEF Orderly, OneRequest, OneAnswer, Over, Listed

(* What is still under way for a client is for its last job. *)
LEMMA LastJob ==
    ASSUME TypeOK, CalmInv, NEW c \in Clients, Calm(c),
           NEW j \in Jobs, Owner(j) = c, Begun(j), ~Silent(j)
    PROVE  j = Job(c)
<1>1. j = <<c, j[2]>> /\ j[2] \in 1 .. MaxJobs /\ MaxJobs \in Nat
  BY JobsAssumption DEF Jobs, Owner
<1>2. number[c] \in Nat /\ j[2] <= number[c]
  BY SettingTypes DEF TypeOK, Begun
<1>3. CASE j[2] = number[c]
  BY <1>1, <1>3 DEF Job
<1>4. CASE j[2] # number[c]
  <2>1. j[2] \in 1 .. number[c] - 1
    BY <1>1, <1>2, <1>4
  <2>2. Silent(<<c, j[2]>>)
    BY <2>1 DEF CalmInv
  <2> QED
    BY <1>1, <2>2
<1> QED
  BY <1>3, <1>4

LEMMA StrayMoves ==
    ASSUME TypeOK, PlacesInv, [Next]_vars, NEW c \in Clients
    PROVE  \/ /\ number'[c] = number[c]
              /\ strayed'[c] = strayed[c] \/ (strayed[c] = 0 /\ strayed'[c] = number[c])
           \/ SubmitJob(c) /\ number'[c] = number[c] + 1 /\ strayed'[c] = strayed[c]
<1>1. CASE SubmitJob(c)
  <2>1. number'[c] = number[c] + 1
    BY <1>1, SubmitProperties
  <2>2. strayed' = strayed
    BY <1>1 DEF SubmitJob
  <2> QED
    BY <1>1, <2>1, <2>2
<1>2. CASE (ClientStep(c) \/ Timeout(c)) /\ ~SubmitJob(c)
  <2>1. number' = number
    BY <1>2, ClientsKeepServer
  <2>2. strayed' = strayed \/ Stray(c)
    BY <1>2 DEF ClientStep, Timeout, ReceiveJobAck, ReceiveUploadAck, ReceiveResult,
                ReceiveDownloadAck, RetryUpload, GiveUp, TakeAtItsWord
  <2>3. Stray(c) => strayed'[c] = strayed[c] \/ (strayed[c] = 0 /\ strayed'[c] = number[c])
    BY DEF Stray, TypeOK
  <2> QED
    BY <2>1, <2>2, <2>3
<1>3. CASE ReadKick(c)
  BY <1>3, KickEndsJob
<1> QED
  BY <1>1, <1>2, <1>3, ClientsMove

LEMMA OverHeld ==
    ASSUME TypeOK, PlacesInv, OnceInv, [Next]_vars, NEW c \in Clients, ClientStep(c) \/ Timeout(c),
           NEW j \in Jobs, Over(j)
    PROVE  Over(j)'
<1>1. handling' = handling
  BY ClientsKeepServer
<1>2. NoRequest.type = "none"
  BY DEF NoRequest, Message
<1>3. AddJob => handling.type = "JOB_REQ" /\ handling' = NoRequest
  BY DEF AddJob
<1>4. ~AddJob
  BY <1>1, <1>2, <1>3
<1> QED
  BY <1>4, OverStays

(* At the menu, an orderly client has nothing under way. *)
LEMMA NothingAtMenu ==
    ASSUME TypeOK, NEW c \in Clients, Orderly(c), client[c] \in AtMenu
    PROVE  /\ \A p \in DOMAIN udp : Owner(udp[p].job) # c
           /\ handling = NoRequest \/ Owner(handling.job) # c
           /\ DOMAIN inbox[c] = {}
<1>1. client[c] \notin DOMAIN Asked
  BY DEF AtMenu, Asked
<1> QED
  BY <1>1 DEF Orderly, OneRequest, OneAnswer, Unanswered

LEMMA SilencePreserved ==
    ASSUME TypeOK, PlacesInv, BegunInv, OnceInv, CalmInv, [Next]_vars,
           NEW c \in Clients, strayed'[c] \in {0, number'[c]}, NEW n \in 1 .. number'[c] - 1,
           <<c, n>> \in Jobs
    PROVE  Silent(<<c, n>>)'
<1> DEFINE j == <<c, n>>
<1>1. Owner(j) = c /\ j[2] = n /\ n \in Nat /\ number[c] \in Nat
  BY SettingTypes DEF Owner, TypeOK
<1>2. number'[c] # n /\ number'[c] \in Nat
  <2>1. number'[c] = number[c] \/ number'[c] = number[c] + 1
    BY StrayMoves
  <2> QED
    BY <1>1, <2>1
<1>3. SUFFICES Silent(j)
  BY <1>1, <1>2, SilentStays
<1>4. strayed[c] <= number[c] /\ strayed[c] \in Nat
  BY SettingTypes DEF CalmInv, TypeOK
<1>5. CASE number'[c] = number[c]
  <2>1. Calm(c)
    BY <1>4, <1>5, StrayMoves DEF Calm
  <2> QED
    BY <1>5, <2>1 DEF CalmInv
<1>6. CASE SubmitJob(c) /\ number'[c] = number[c] + 1 /\ strayed'[c] = strayed[c]
  <2>1. strayed[c] = 0
    BY <1>1, <1>4, <1>6
  <2>2. CASE n < number[c]
    <3>1. n \in 1 .. number[c] - 1
      BY <1>1, <1>6, <2>2
    <3> QED
      BY <2>1, <3>1 DEF CalmInv, Calm
  <2>3. CASE n = number[c]
    <3>1. Orderly(c) /\ client[c] \in AtMenu /\ j = Job(c)
      BY <1>6, <2>1, <2>3 DEF CalmInv, SubmitJob, Job
    <3>2. Over(j)
      BY <3>1 DEF Orderly
    <3>3. handling.job # j
      <4>1. NoRequest.job # j
        BY NoneAssumption DEF NoRequest, Message
      <4> QED
        BY <1>1, <3>1, <4>1, NothingAtMenu
    <3> QED
      BY <1>1, <3>1, <3>2, <3>3, NothingAtMenu DEF Silent
  <2> QED
    BY <1>1, <1>6, <2>2, <2>3
<1> QED
  BY <1>5, <1>6, StrayMoves

(* What an orderly client takes is what it waits for. *)
Receive(c) ==
    ReceiveJobAck(c) \/ ReceiveUploadAck(c) \/ ReceiveResult(c) \/ ReceiveDownloadAck(c)

LEMMA StayingOrderly ==
    ASSUME TypeOK, PlacesInv, NEW c \in Clients, ClientStep(c) \/ Timeout(c), Orderly(c),
           strayed'[c] = 0, ~SubmitJob(c)
    PROVE  /\ Receive(c) /\ inbox[c] # <<>> /\ Received(c)
           /\ client[c] \in DOMAIN Awaited
           /\ 1 \in DOMAIN inbox[c] /\ Head(inbox[c]) = inbox[c][1]
           /\ inbox[c][1].type = Awaited[client[c]]
<1>1. client[c] # "menu" /\ number[c] # 0
  <2>1. client[c] # "menu"
    BY DEF ClientStep, Timeout, ReceiveJobAck, ReceiveUploadAck, ReceiveResult, ReceiveDownloadAck,
           RetryUpload, GiveUp
  <2> QED
    BY <2>1 DEF PlacesInv
<1>2. ~Stray(c)
  BY <1>1 DEF Stray, TypeOK
<1>3. ~Timeout(c)
  BY <1>2 DEF Timeout, RetryUpload, GiveUp
<1>4. Receive(c)
  BY <1>3 DEF ClientStep, Receive
<1>5. inbox[c] # <<>> /\ Received(c) /\ client[c] \in DOMAIN Awaited
  BY <1>4
     DEF Receive, ReceiveJobAck, ReceiveUploadAck, ReceiveResult, ReceiveDownloadAck, Awaited
<1>6. 1 \in DOMAIN inbox[c] /\ Head(inbox[c]) = inbox[c][1]
  BY <1>5, TakenPlaces
<1>7. CASE ReceiveResult(c)
  <2>1. client[c] = "result"
    BY <1>7 DEF ReceiveResult
  <2> QED
    BY <1>4, <1>5, <1>6, <2>1 DEF Orderly, OneAnswer
<1>8. CASE ~ReceiveResult(c)
  <2>1. TakeAtItsWord(c)
    BY <1>4, <1>8 DEF Receive, ReceiveJobAck, ReceiveUploadAck, ReceiveDownloadAck
  <2>2. Head(inbox[c]).type = Awaited[client[c]]
    BY <1>2, <2>1 DEF TakeAtItsWord
  <2> QED
    BY <1>4, <1>5, <1>6, <2>2
<1> QED
  BY <1>7, <1>8

(* A client that has nothing under way may ask for something. *)
LEMMA AskingIsOrderly ==
    ASSUME TypeOK, NEW c \in Clients,
           \A p \in DOMAIN udp : Owner(udp[p].job) # c,
           handling = NoRequest \/ Owner(handling.job) # c, handling' = handling,
           \/ udp' = udp
           \/ /\ client'[c] \in DOMAIN Asked
              /\ DOMAIN inbox'[c] = {}
              /\ \E j \in Jobs : udp' = Append(udp, Message(Asked[client'[c]], j))
    PROVE  OneRequest(c)'
<1>1. CASE udp' = udp
  BY <1>1 DEF OneRequest
<1>2. CASE /\ client'[c] \in DOMAIN Asked
           /\ DOMAIN inbox'[c] = {}
           /\ \E j \in Jobs : udp' = Append(udp, Message(Asked[client'[c]], j))
  <2>1. PICK j \in Jobs : udp' = Append(udp, Message(Asked[client'[c]], j))
    BY <1>2
  <2>2. Asked[client'[c]] \in {"JOB_REQ", "UPLOAD_REQ", "DOWNLOAD_REQ"}
    BY <1>2 DEF Asked
  <2>3. /\ DOMAIN udp' = DOMAIN udp \cup {Len(udp) + 1}
        /\ \A q \in DOMAIN udp : udp'[q] = udp[q]
        /\ udp'[Len(udp) + 1].type = Asked[client'[c]]
    BY <2>1, <2>2, SentPlaces
  <2>4. \A p \in DOMAIN udp' : Owner(udp'[p].job) = c => p = Len(udp) + 1
    BY <2>3
  <2> HIDE <1>2
  <2>5. Unanswered(c)'
    BY <1>2 DEF Unanswered
  <2> QED
    BY <2>3, <2>4, <2>5 DEF OneRequest
<1> QED
  BY <1>1, <1>2

LEMMA SubmittingIsOrderly ==
    ASSUME TypeOK, NEW c \in Clients, SubmitJob(c), Orderly(c)
    PROVE  Orderly(c)'
<1>1. client[c] \in AtMenu /\ client'[c] = "job" /\ inbox' = inbox /\ handling' = handling
  BY DEF SubmitJob, Become, TypeOK
<1>2. DOMAIN inbox'[c] = {}
  BY <1>1, NothingAtMenu
<1>3. \E j \in Jobs : udp' = Append(udp, Message(Asked[client'[c]], j))
  <2>1. Asked[client'[c]] = "JOB_REQ"
    BY <1>1 DEF Asked
  <2>2. <<c, number[c] + 1>> \in Jobs /\ udp' = Append(udp, Message("JOB_REQ", <<c, number[c] + 1>>))
    BY SubmitProperties
  <2> QED
    BY <2>1, <2>2
<1>4. OneRequest(c)'
  <2>1. client'[c] \in DOMAIN Asked
    BY <1>1 DEF Asked
  <2> QED
    BY <1>1, <1>2, <1>3, <2>1, NothingAtMenu, AskingIsOrderly
<1> QED
  BY <1>1, <1>2, <1>4 DEF Orderly, OneAnswer, AtMenu

(* Where the answer it waits for takes an orderly client. *)
LEMMA ReceivingClient ==
    ASSUME TypeOK, PlacesInv, NEW c \in Clients, Receive(c)
    PROVE  /\ handling' = handling
           /\ \/ client[c] = "job" /\ client'[c] = "upload" /\ udp' = Append(udp, Message("UPLOAD_REQ", Job(c)))
              \/ client[c] = "job" /\ client'[c] = "refused" /\ udp' = udp
                 /\ FALSE \in TakenForJobAck(Head(inbox[c]))
              \/ client[c] = "upload" /\ client'[c] = "result" /\ udp' = udp
              \/ client[c] = "upload" /\ client'[c] = "failed" /\ udp' = udp
                 /\ FALSE \in TakenForUploadAck(Head(inbox[c]))
              \/ client[c] = "result" /\ client'[c] = "result" /\ udp' = udp
                 /\ Head(inbox[c]).type # "JOB_RESULT"
              \/ client[c] = "result" /\ client'[c] = "download"
                 /\ udp' = Append(udp, Message("DOWNLOAD_REQ", Job(c)))
              \/ client[c] = "result" /\ client'[c] = "failed" /\ udp' = udp
              \/ client[c] = "download" /\ client'[c] \in {"done", "failed"} /\ udp' = udp
<1>1. ClientStep(c)
  BY DEF Receive, ClientStep
<1>2. handling' = handling
  BY <1>1, ClientsKeepServer
<1>3. client \in [Clients -> Places]
  BY DEF TypeOK
<1>4. CASE ReceiveJobAck(c)
  BY <1>2, <1>3, <1>4 DEF ReceiveJobAck, Become, Request
<1>5. CASE ReceiveUploadAck(c)
  BY <1>2, <1>3, <1>5 DEF ReceiveUploadAck, Become, udpVars
<1>6. CASE ReceiveResult(c)
  BY <1>2, <1>3, <1>6 DEF ReceiveResult, Become, Request
<1>7. CASE ReceiveDownloadAck(c)
  <2>1. PICK ok : Become(c, IF ok THEN "done" ELSE "failed")
    BY <1>7 DEF ReceiveDownloadAck
  <2>2. client'[c] = IF ok THEN "done" ELSE "failed"
    BY <1>3, <2>1 DEF Become
  <2>3. client[c] = "download" /\ udp' = udp
    BY <1>7 DEF ReceiveDownloadAck, udpVars
  <2> QED
    BY <1>2, <2>2, <2>3
<1> QED
  BY <1>4, <1>5, <1>6, <1>7 DEF Receive

LEMMA ReceivingIsOrderly ==
    ASSUME TypeOK, PlacesInv, BegunInv, OnceInv, ResultInv, CalmInv, [Next]_vars,
           NEW c \in Clients, ClientStep(c) \/ Timeout(c), ~SubmitJob(c),
           strayed[c] = 0, strayed'[c] = 0
    PROVE  Orderly(c)'
<1>1. Orderly(c) /\ Calm(c)
  BY DEF CalmInv, Calm
<1>2. /\ Receive(c) /\ inbox[c] # <<>> /\ Received(c)
      /\ client[c] \in DOMAIN Awaited
      /\ 1 \in DOMAIN inbox[c] /\ Head(inbox[c]) = inbox[c][1]
      /\ inbox[c][1].type = Awaited[client[c]]
  BY <1>1, StayingOrderly
<1>3. \A k \in DOMAIN inbox'[c] :
         k \in Nat /\ k # 0 /\ k + 1 \in DOMAIN inbox[c] /\ inbox'[c][k] = inbox[c][k + 1]
  BY <1>2, TakenPlaces
<1>4. \A k \in DOMAIN inbox'[c] : client[c] = "upload" /\ inbox'[c][k].type = "JOB_RESULT"
  <2> SUFFICES ASSUME NEW k \in DOMAIN inbox'[c]
               PROVE  client[c] = "upload" /\ inbox'[c][k].type = "JOB_RESULT"
    OBVIOUS
  <2>1. k + 1 \in DOMAIN inbox[c] /\ k + 1 # 1 /\ inbox'[c][k] = inbox[c][k + 1]
    BY <1>3
  <2>2. inbox[c][k + 1].type # Awaited[client[c]]
    BY <1>1, <1>2, <2>1 DEF Orderly, OneAnswer
  <2> QED
    BY <1>1, <2>1, <2>2 DEF Orderly, OneAnswer
<1>5. ~Unanswered(c)
  BY <1>2 DEF Unanswered
<1>6. /\ \A p \in DOMAIN udp : Owner(udp[p].job) # c
      /\ handling = NoRequest \/ Owner(handling.job) # c
  BY <1>1, <1>5 DEF Orderly, OneRequest
<1>7. Job(c) \in Jobs /\ number' = number /\ number'[c] = number[c]
  BY <1>2, JobTypes, ClientsKeepServer DEF Awaited
<1>8. handling' = handling
  BY <1>2, ReceivingClient
<1>9. OneRequest(c)'
  <2>1. CASE udp' = udp
    BY <1>6, <1>8, <2>1, AskingIsOrderly
  <2>2. CASE client[c] = "job" /\ client'[c] = "upload" /\ udp' = Append(udp, Message("UPLOAD_REQ", Job(c)))
    <3>1. client'[c] \in DOMAIN Asked /\ Asked[client'[c]] = "UPLOAD_REQ"
      BY <2>2 DEF Asked
    <3>2. DOMAIN inbox'[c] = {}
      BY <1>4, <2>2
    <3> QED
      BY <1>6, <1>7, <1>8, <2>2, <3>1, <3>2, AskingIsOrderly
  <2>3. CASE client[c] = "result" /\ client'[c] = "download"
             /\ udp' = Append(udp, Message("DOWNLOAD_REQ", Job(c)))
    <3>1. client'[c] \in DOMAIN Asked /\ Asked[client'[c]] = "DOWNLOAD_REQ"
      BY <2>3 DEF Asked
    <3>2. DOMAIN inbox'[c] = {}
      BY <1>4, <2>3
    <3> QED
      BY <1>6, <1>7, <1>8, <2>3, <3>1, <3>2, AskingIsOrderly
  <2> QED
    BY <1>2, <2>1, <2>2, <2>3, ReceivingClient
<1>10. inbox[c][1].job = Job(c)
  <2>1. inbox[c][1].job \in Jobs /\ Owner(inbox[c][1].job) = c /\ Begun(inbox[c][1].job)
    BY <1>2, InboxPlaces DEF ResultInv, Sound
  <2>2. ~Silent(inbox[c][1].job)
    BY <1>2, <2>1 DEF Silent
  <2> QED
    BY <1>1, <2>1, <2>2, LastJob
<1>11. client[c] = "result" => Over(Job(c))
  <2> SUFFICES ASSUME client[c] = "result" PROVE Over(Job(c))
    OBVIOUS
  <2>1. inbox[c][1].type = "JOB_RESULT"
    BY <1>2 DEF Awaited
  <2> QED
    BY <1>2, <1>10, <2>1 DEF ResultInv, Sound
<1>12. client[c] = "job" /\ client'[c] = "refused" => Over(Job(c))
  <2> SUFFICES ASSUME client[c] = "job", client'[c] = "refused" PROVE Over(Job(c))
    OBVIOUS
  <2>1. inbox[c][1].type = "JOB_ACK"
    BY <1>2 DEF Awaited
  <2>2. FALSE \in TakenForJobAck(inbox[c][1])
    BY <1>2, ReceivingClient
  <2>3. ~inbox[c][1].ok
    BY <2>1, <2>2 DEF TakenForJobAck
  <2> QED
    BY <1>1, <1>2, <1>10, <2>1, <2>3 DEF Orderly, OneAnswer, Over
<1>13. ~(client[c] = "upload" /\ client'[c] = "failed")
  <2> SUFFICES ASSUME client[c] = "upload", client'[c] = "failed" PROVE FALSE
    OBVIOUS
  <2>1. inbox[c][1].type = "UPLOAD_ACK"
    BY <1>2 DEF Awaited
  <2>2. FALSE \in TakenForUploadAck(inbox[c][1])
    BY <1>2, ReceivingClient
  <2> QED
    BY <2>1, <2>2 DEF TakenForUploadAck
<1>14. client[c] = "upload" => client'[c] = "result"
  BY <1>2, <1>13, ReceivingClient
<1>15. OneAnswer(c)'
  <2> SUFFICES ASSUME NEW k \in DOMAIN inbox'[c]
               PROVE  /\ client'[c] \notin AtMenu
                      /\ inbox'[c][k].type = Awaited[client'[c]] /\ inbox'[c][k].type # "JOB_ACK"
                      /\ \A m \in DOMAIN inbox'[c] : inbox'[c][m].type = inbox'[c][k].type => m = k
    BY DEF OneAnswer
  <2>1. client'[c] = "result" /\ inbox'[c][k].type = "JOB_RESULT"
    BY <1>4, <1>14
  <2>2. \A m \in DOMAIN inbox'[c] : inbox'[c][m].type = inbox'[c][k].type => m = k
    <3> SUFFICES ASSUME NEW m \in DOMAIN inbox'[c], inbox'[c][m].type = inbox'[c][k].type
                 PROVE  m = k
      OBVIOUS
    <3>1. k + 1 = m + 1
      BY <1>1, <1>3 DEF Orderly, OneAnswer
    <3> QED
      BY <1>3, <3>1
  <2> QED
    BY <2>1, <2>2 DEF Awaited, AtMenu
<1>16. client'[c] \in AtMenu \cup {"download"} => Over(Job(c))'
  <2> SUFFICES ASSUME client'[c] \in AtMenu \cup {"download"} PROVE Over(Job(c))'
    OBVIOUS
  <2>1. Over(Job(c))
    BY <1>1, <1>2, <1>11, <1>12, <1>13, ReceivingClient DEF Orderly, AtMenu
  <2>2. PICK j \in Jobs : j = Job(c)
    BY <1>7
  <2>3. Over(j)'
    BY <2>1, <2>2, OverHeld
  <2>4. Job(c)' = j
    BY <1>7, <2>2 DEF Job
  <2> QED
    BY <2>3, <2>4
<1> QED
  BY <1>9, <1>15, <1>16 DEF Orderly

(***************************************************************************)
(* Steps of the others.  Requests of c only go from the socket to the      *)
(* handler, and from there they become an answer.                          *)
(***************************************************************************)
LEMMA OthersKeepRequest ==
    ASSUME TypeOK, PlacesInv, [Next]_vars, NEW c \in Clients, ~ClientStep(c), ~Timeout(c),
           OneRequest(c), Unanswered(c) => Unanswered(c)', client'[c] = client[c]
    PROVE  OneRequest(c)'
<1>1. CASE udp' = udp /\ (handling' = handling \/ handling' = NoRequest)
  BY <1>1 DEF OneRequest
<1>2. CASE /\ 1 \in DOMAIN udp /\ handling = NoRequest
           /\ \A p \in DOMAIN udp' : p \in Nat /\ p # 0 /\ p + 1 \in DOMAIN udp /\ udp'[p] = udp[p + 1]
           /\ handling' = handling \/ handling' = udp[1]
  <2>1. ASSUME NEW p \in DOMAIN udp', Owner(udp'[p].job) = c
        PROVE  /\ Unanswered(c)'
               /\ udp'[p].type = Asked[client'[c]]
               /\ handling' # NoRequest => Owner(handling'.job) # c
               /\ \A q \in DOMAIN udp' : Owner(udp'[q].job) = c => q = p
    <3>1. p + 1 \in DOMAIN udp /\ p + 1 # 1 /\ udp'[p] = udp[p + 1] /\ p \in Nat
      BY <1>2
    <3>2. Owner(udp[1].job) # c
      BY <1>2, <2>1, <3>1 DEF OneRequest
    <3>3. \A q \in DOMAIN udp' : Owner(udp'[q].job) = c => q = p
      <4> SUFFICES ASSUME NEW q \in DOMAIN udp', Owner(udp'[q].job) = c
                   PROVE  q = p
        OBVIOUS
      <4>1. q + 1 \in DOMAIN udp /\ udp'[q] = udp[q + 1] /\ q \in Nat
        BY <1>2
      <4>2. q + 1 = p + 1
        BY <2>1, <3>1, <4>1 DEF OneRequest
      <4> QED
        BY <3>1, <4>1, <4>2
    <3> QED
      BY <1>2, <2>1, <3>1, <3>2, <3>3 DEF OneRequest
  <2>2. handling' # NoRequest /\ Owner(handling'.job) = c =>
           Unanswered(c)' /\ handling'.type = Asked[client'[c]]
    BY <1>2 DEF OneRequest
  <2> QED
    BY <2>1, <2>2 DEF OneRequest
<1>3. ASSUME NEW d \in Clients, NEW n,
             ClientStep(d) \/ Timeout(d), handling' = handling,
             n \notin DOMAIN udp, DOMAIN udp' = DOMAIN udp \cup {n},
             \A p \in DOMAIN udp : udp'[p] = udp[p],
             udp'[n].job = <<d, number'[d]>>
      PROVE  OneRequest(c)'
  <2>1. d # c
    BY <1>3
  <2>2. Owner(udp'[n].job) # c
    BY <1>3, <2>1 DEF Owner
  <2>3. \A p \in DOMAIN udp' : Owner(udp'[p].job) = c => p \in DOMAIN udp /\ udp'[p] = udp[p]
    BY <1>3, <2>2
  <2> QED
    BY <1>3, <2>3 DEF OneRequest
<1> QED
  BY <1>1, <1>2, <1>3, RequestsMove

(* An answer takes the place of the request. *)
LEMMA AnsweredRequest ==
    ASSUME TypeOK, PlacesInv, NEW c \in Clients, OneRequest(c), NEW m, m.job \in Jobs, Owner(m.job) = c,
           AtOnce(m) \/ Later(m)
    PROVE  /\ \A p \in DOMAIN udp' : Owner(udp'[p].job) # c
           /\ handling' = NoRequest \/ Owner(handling'.job) # c
           /\ Unanswered(c)
           /\ m.type = Awaited[client[c]] /\ m.type # "JOB_RESULT"
<1>1. \A x \in DOMAIN Asked : AnswerTo[Asked[x]] = Awaited[x] /\ Awaited[x] # "JOB_RESULT"
  BY DEF AnswerTo, Asked, Awaited
<1>2. CASE AtOnce(m)
  <2>1. /\ 1 \in DOMAIN udp /\ Owner(udp[1].job) = c /\ handling = NoRequest /\ handling' = handling
        /\ m.type = AnswerTo[udp[1].type] /\ udp' = Tail(udp)
    BY <1>2 DEF AtOnce
  <2>2. \A p \in DOMAIN udp' : p \in Nat /\ p # 0 /\ p + 1 \in DOMAIN udp /\ udp'[p] = udp[p + 1]
    <3>1. udp \in Seq(Requests) /\ udp # <<>>
      BY <2>1 DEF TypeOK
    <3> QED
      BY <2>1, <3>1, TailPlaces
  <2>3. \A p \in DOMAIN udp' : Owner(udp'[p].job) # c
    <3> SUFFICES ASSUME NEW p \in DOMAIN udp', Owner(udp'[p].job) = c PROVE FALSE
      OBVIOUS
    <3>1. p + 1 \in DOMAIN udp /\ p + 1 # 1 /\ udp'[p] = udp[p + 1]
      BY <2>2
    <3> QED
      BY <2>1, <3>1 DEF OneRequest
  <2>4. Unanswered(c) /\ udp[1].type = Asked[client[c]]
    BY <2>1 DEF OneRequest
  <2> QED
    BY <1>1, <2>1, <2>3, <2>4 DEF Unanswered
<1>3. CASE Later(m)
  <2>1. handling # NoRequest
    BY <1>3 DEF Later, NoRequest, Message
  <2>2. /\ Owner(handling.job) = c /\ udp' = udp /\ handling' = NoRequest
        /\ m.type = AnswerTo[handling.type]
    BY <1>3 DEF Later
  <2>3. Unanswered(c) /\ handling.type = Asked[client[c]]
    BY <2>1, <2>2 DEF OneRequest
  <2>4. \A p \in DOMAIN udp' : Owner(udp'[p].job) # c
    BY <2>1, <2>2 DEF OneRequest
  <2> QED
    BY <1>1, <2>2, <2>3, <2>4 DEF Unanswered
<1> QED
  BY <1>2, <1>3

(* The result of an orderly client's job finds it waiting. *)
LEMMA ResultArrives ==
    ASSUME TypeOK, PlacesInv, BegunInv, OnceInv, UploadInv, ResultInv, CalmInv,
           NEW c \in Clients, Calm(c), Orderly(c),
           NEW m, m.job \in Jobs, Owner(m.job) = c, ResultOf(m)
    PROVE  /\ client[c] \in {"upload", "result"}
           /\ \A k \in DOMAIN inbox[c] : inbox[c][k].type # "JOB_RESULT"
<1>1. /\ m.job = cwd /\ processing = "run" /\ cwd \in Jobs /\ Owner(cwd) = c
  BY DEF ResultOf
<1>2. Listed(cwd) /\ ~Over(cwd) /\ Len(runs[cwd]) = 1
  BY <1>1 DEF PlacesInv, Executing, Listed, Over, OnceInv
<1>3. Begun(cwd) /\ runs[cwd] # <<>>
  <2>1. PICK k \in DOMAIN pending_jobs : pending_jobs[k].job = cwd
    BY <1>2 DEF Listed
  <2>2. Begun(pending_jobs[k].job)
    BY DEF BegunInv
  <2>3. Begun(cwd)
    BY <2>1, <2>2
  <2>4. runs[cwd] # <<>>
    BY <1>2
  <2> QED
    BY <2>3, <2>4
<1>4. cwd = Job(c)
  BY <1>1, <1>2, <1>3, LastJob DEF Silent
<1>5. client[c] \notin AtMenu \cup {"download"}
  BY <1>2, <1>4 DEF Orderly
<1>6. client[c] # "job"
  BY <1>3, <1>4 DEF UploadInv, Untouched
<1>7. client[c] \in Places
  BY DEF TypeOK
<1>8. ASSUME NEW k \in DOMAIN inbox[c], inbox[c][k].type = "JOB_RESULT"
      PROVE  FALSE
  <2>1. /\ inbox[c][k].job \in Jobs /\ Owner(inbox[c][k].job) = c /\ Begun(inbox[c][k].job)
        /\ Over(inbox[c][k].job)
    BY <1>8, InboxPlaces DEF ResultInv, Sound
  <2>2. ~Silent(inbox[c][k].job)
    BY <2>1 DEF Silent
  <2>3. inbox[c][k].job = cwd
    BY <1>4, <2>1, <2>2, LastJob
  <2> QED
    BY <1>2, <2>1, <2>3
<1> QED
  BY <1>5, <1>6, <1>7, <1>8 DEF Places

(* A refused job stays refused. *)
LEMMA RefusedStays ==
    ASSUME TypeOK, PlacesInv, [Next]_vars, NEW c \in Clients, OneRequest(c), OneAnswer(c),
           NEW k \in DOMAIN inbox[c], inbox[c][k].type = "JOB_ACK", ~inbox[c][k].ok,
           Owner(inbox[c][k].job) = c
    PROVE  ~ListedThen(inbox[c][k].job)
<1>1. ~Listed(inbox[c][k].job)
  BY DEF OneAnswer
<1>2. ASSUME AddJob, Owner(handling.job) = c
      PROVE  FALSE
  <2>1. handling # NoRequest /\ handling.type = "JOB_REQ"
    BY <1>2 DEF AddJob, NoRequest, Message
  <2>2. Unanswered(c) /\ Asked[client[c]] = "JOB_REQ"
    BY <1>2, <2>1 DEF OneRequest
  <2>3. client[c] = "job"
    BY <2>2 DEF Unanswered, Asked
  <2> QED
    BY <2>2, <2>3 DEF Unanswered, Awaited
<1> QED
  BY <1>1, <1>2, EntriesJoin

LEMMA OthersKeepOrder ==
    ASSUME TypeOK, PlacesInv, BegunInv, OnceInv, UploadInv, ResultInv, CalmInv, [Next]_vars,
           NEW c \in Clients, ~ClientStep(c), ~Timeout(c), strayed[c] = 0, strayed'[c] = 0
    PROVE  Orderly(c)'
<1>1. Calm(c) /\ Orderly(c) /\ OneRequest(c) /\ OneAnswer(c)
  BY DEF CalmInv, Calm, Orderly
<1>2. client'[c] = client[c] /\ number'[c] = number[c]
  BY ClientsMove, KickEndsJob
<1>3. client'[c] \in AtMenu \cup {"download"} => Over(Job(c))'
  <2> SUFFICES ASSUME client[c] \in AtMenu \cup {"download"} PROVE Over(Job(c))'
    BY <1>2
  <2>1. Over(Job(c))
    BY <1>1 DEF Orderly
  <2>2. CASE Job(c) \in Jobs
    <3>1. PICK j \in Jobs : j = Job(c)
      BY <2>2
    <3>2. ~(AddJob /\ handling.job = j)
      <4> SUFFICES ASSUME AddJob, handling.job = j PROVE FALSE
        OBVIOUS
      <4>1. handling # NoRequest /\ handling.type = "JOB_REQ" /\ Owner(handling.job) = c
        BY <3>1 DEF AddJob, NoRequest, Message, Job, Owner
      <4>2. Unanswered(c) /\ Asked[client[c]] = "JOB_REQ"
        BY <1>1, <4>1 DEF OneRequest
      <4>3. client[c] = "job"
        BY <4>2 DEF Unanswered, Asked
      <4> QED
        BY <4>3 DEF AtMenu
    <3>3. Over(j)'
      BY <2>1, <3>1, <3>2, OverStays
    <3>4. Job(c)' = j
      BY <1>2, <3>1 DEF Job
    <3> QED
      BY <3>3, <3>4
  <2>3. CASE Job(c) \notin Jobs
    <3>1. Job(c)' \notin Jobs
      BY <1>2, <2>3 DEF Job
    <3>2. \A k \in DOMAIN pending_jobs' : pending_jobs'[k].job \in Jobs
      <4> DEFINE S == [job : Jobs, files_received : Nat]
                 r == pending_jobs'
      <4>1. r \in Seq(S)
        BY TypesPreserved DEF TypeOK
      <4>2. \A k \in DOMAIN r : r[k] \in S
        <5> HIDE DEF S, r
        <5> QED
          BY <4>1, LenProperties, ElementOfSeq
      <4> QED
        BY <4>2
    <3> QED
      BY <3>1, <3>2 DEF Over, Listed
  <2> QED
    BY <2>2, <2>3
<1>4. ASSUME NEW k \in DOMAIN inbox[c], inbox[c][k].type = "JOB_ACK", ~inbox[c][k].ok
      PROVE  ~ListedThen(inbox[c][k].job)
  BY <1>1, <1>4, RefusedStays DEF ResultInv, Sound
<1>5. CASE inbox'[c] = inbox[c]
  <2>1. Unanswered(c) => Unanswered(c)'
    BY <1>2, <1>5 DEF Unanswered
  <2>2. OneRequest(c)'
    BY <1>1, <1>2, <2>1, OthersKeepRequest
  <2>3. OneAnswer(c)'
    BY <1>1, <1>2, <1>4, <1>5 DEF OneAnswer, Listed, ListedThen
  <2> QED
    BY <1>3, <2>2, <2>3 DEF Orderly
<1>6. ASSUME NEW n, n \notin DOMAIN inbox[c], DOMAIN inbox'[c] = DOMAIN inbox[c] \cup {n},
             \A k \in DOMAIN inbox[c] : inbox'[c][k] = inbox[c][k],
             Answer(c, inbox'[c][n])
      PROVE  Orderly(c)'
  <2> DEFINE m == inbox'[c][n]
  <2>1. m.job \in Jobs /\ Owner(m.job) = c
    BY <1>6 DEF Answer
  <2>2. ASSUME OneRequest(c)',
               /\ client[c] \notin AtMenu
               /\ m.type = Awaited[client[c]] \/ (client[c] = "upload" /\ m.type = "JOB_RESULT")
               /\ \A k \in DOMAIN inbox[c] : inbox[c][k].type # m.type
               /\ m.type = "JOB_ACK" /\ ~m.ok => ~ListedThen(m.job)
        PROVE  Orderly(c)'
    <3>1. OneAnswer(c)'
      BY <1>1, <1>2, <1>4, <1>6, <2>2 DEF OneAnswer, Listed, ListedThen
    <3> QED
      BY <1>3, <2>2, <3>1 DEF Orderly
  <2>3. CASE AtOnce(m) \/ Later(m)
    <3>1. /\ \A p \in DOMAIN udp' : Owner(udp'[p].job) # c
          /\ handling' = NoRequest \/ Owner(handling'.job) # c
          /\ Unanswered(c)
          /\ m.type = Awaited[client[c]] /\ m.type # "JOB_RESULT"
      BY <1>1, <2>1, <2>3, AnsweredRequest
    <3>2. OneRequest(c)'
      BY <3>1 DEF OneRequest
    <3>3. client[c] \notin AtMenu
      BY <3>1 DEF Unanswered, Asked, AtMenu
    <3>4. \A k \in DOMAIN inbox[c] : inbox[c][k].type # m.type
      BY <3>1 DEF Unanswered
    <3>5. m.type = "JOB_ACK" /\ ~m.ok => ~ListedThen(m.job)
      <4> SUFFICES ASSUME m.type = "JOB_ACK", ~m.ok PROVE ~ListedThen(m.job)
        OBVIOUS
      <4>1. AtOnce(m)
        BY <2>3 DEF Later
      <4>2. udp[1].type = "JOB_REQ" /\ 1 \in DOMAIN udp /\ handling = NoRequest /\ m.job = udp[1].job
        BY <4>1 DEF AtOnce, AnswerTo
      <4>3. ~Listed(m.job)
        BY <4>2 DEF OnceInv, FreshRequests, Fresh
      <4>4. ~AddJob
        BY <4>2 DEF AddJob, NoRequest, Message
      <4> QED
        BY <4>3, <4>4, EntriesJoin
    <3> QED
      BY <2>2, <3>1, <3>2, <3>3, <3>4, <3>5
  <2>4. CASE ResultOf(m)
    <3>1. /\ client[c] \in {"upload", "result"} /\ m.type = "JOB_RESULT"
          /\ \A k \in DOMAIN inbox[c] : inbox[c][k].type # "JOB_RESULT"
      BY <1>1, <2>1, <2>4, ResultArrives DEF ResultOf
    <3>2. Unanswered(c) => Unanswered(c)'
      BY <1>2, <1>6, <3>1 DEF Unanswered, Asked, Awaited
    <3>3. OneRequest(c)'
      BY <1>1, <1>2, <3>2, OthersKeepRequest
    <3>4. client[c] \notin AtMenu
      BY <3>1 DEF AtMenu
    <3>5. m.type = Awaited[client[c]] \/ (client[c] = "upload" /\ m.type = "JOB_RESULT")
      BY <3>1 DEF Awaited
    <3>6. /\ \A k \in DOMAIN inbox[c] : inbox[c][k].type # m.type
          /\ m.type # "JOB_ACK"
      BY <3>1
    <3> HIDE DEF m
    <3> QED
      BY <2>2, <3>3, <3>4, <3>5, <3>6
  <2> QED
    BY <1>6, <2>3, <2>4 DEF Answer
<1>7. CASE inbox'[c] # inbox[c]
  <2>1. PICK n : /\ n \notin DOMAIN inbox[c]
                 /\ DOMAIN inbox'[c] = DOMAIN inbox[c] \cup {n}
                 /\ \A k \in DOMAIN inbox[c] : inbox'[c][k] = inbox[c][k]
                 /\ Answer(c, inbox'[c][n])
    BY <1>7, InboxMoves
  <2> QED
    BY <1>6, <2>1
<1> QED
  BY <1>5, <1>7

LEMMA CalmPreserved ==
    TypeOK /\ PlacesInv /\ BegunInv /\ OnceInv /\ UploadInv /\ ResultInv /\ CalmInv /\ [Next]_vars
        => CalmInv'
<1> SUFFICES ASSUME TypeOK, PlacesInv, BegunInv, OnceInv, UploadInv, ResultInv, CalmInv, [Next]_vars,
                    NEW c \in Clients
             PROVE  /\ strayed'[c] <= number'[c]
                    /\ strayed'[c] \in {0, number'[c]} =>
                          \A n \in 1 .. number'[c] - 1 : Silent(<<c, n>>)'
                    /\ strayed'[c] = 0 => Orderly(c)'
  BY DEF CalmInv, Calm
<1>1. /\ number[c] \in Nat /\ strayed[c] \in Nat /\ strayed[c] <= number[c]
      /\ strayed[c] = 0 => Orderly(c)
  BY SettingTypes DEF TypeOK, CalmInv
<1>2. strayed'[c] <= number'[c]
  BY <1>1, StrayMoves
<1>3. ASSUME strayed'[c] \in {0, number'[c]}, NEW n \in 1 .. number'[c] - 1
      PROVE  Silent(<<c, n>>)'
  <2>1. <<c, n>> \in Jobs
    <3>1. number'[c] \in 0 .. setting'.jobs /\ setting'.jobs \in 0 .. MaxJobs
      BY TypesPreserved, SettingsAssumption DEF TypeOK
    <3>2. n \in 1 .. MaxJobs
      BY <3>1, JobsAssumption
    <3> QED
      BY <3>2 DEF Jobs
  <2> QED
    BY <1>3, <2>1, SilencePreserved
<1>4. ASSUME strayed'[c] = 0
      PROVE  Orderly(c)'
  <2>1. strayed[c] = 0
    BY <1>4, StrayMoves
  <2>2. CASE SubmitJob(c)
    BY <1>1, <2>1, <2>2, SubmittingIsOrderly
  <2>3. CASE (ClientStep(c) \/ Timeout(c)) /\ ~SubmitJob(c)
    BY <1>4, <2>1, <2>3, ReceivingIsOrderly
  <2>4. CASE ~ClientStep(c) /\ ~Timeout(c)
    BY <1>4, <2>1, <2>4, OthersKeepOrder
  <2> QED
    BY <2>2, <2>3, <2>4
<1> QED
  BY <1>2, <1>3, <1>4

(***************************************************************************)
(* A client that has got STATUS_OK can rely on it.                         *)
(***************************************************************************)
Delivered(j) == j \in output /\ Len(runs[j]) = 1 /\ Over(j)

DoneInv == \A c \in Clients : client[c] \in {"download", "done"} /\ Calm(c) => Delivered(Job(c))

LEMMA DoneInitially == Init => DoneInv
BY DEF Init, DoneInv

LEMMA DeliveredStays ==
    ASSUME TypeOK, PlacesInv, OnceInv, [Next]_vars, NEW j \in Jobs, Delivered(j)
    PROVE  Delivered(j)'
<1>1. Len(runs[j]) = 1 /\ j \in output /\ Over(j)
  BY DEF Delivered
<1>2. runs'[j] = runs[j] /\ j \in output'
  BY <1>1, RunsStay
<1>3. ~(AddJob /\ handling.job = j)
  <2>1. runs[j] # <<>>
    BY <1>1
  <2> QED
    BY <2>1 DEF AddJob, OnceInv, FreshHandling, Fresh
<1>4. Over(j)'
  BY <1>1, <1>3, OverStays
<1> QED
  BY <1>1, <1>2, <1>4 DEF Delivered

LEMMA DonePreserved ==
    TypeOK /\ PlacesInv /\ BegunInv /\ OnceInv /\ ResultInv /\ CalmInv /\ DoneInv /\ [Next]_vars
        => DoneInv'
<1> SUFFICES ASSUME TypeOK, PlacesInv, BegunInv, OnceInv, ResultInv, CalmInv, DoneInv, [Next]_vars,
                    NEW c \in Clients, client'[c] \in {"download", "done"},
                    strayed'[c] \in {0, number'[c]}
             PROVE  Delivered(Job(c))'
  BY DEF DoneInv, Calm
<1>1. ~SubmitJob(c)
  BY DEF SubmitJob, Become, TypeOK
<1>2. number'[c] = number[c] /\ Calm(c)
  BY <1>1, StrayMoves DEF Calm
<1>3. \/ client[c] \in {"download", "done"}
      \/ /\ client[c] = "result" /\ inbox[c] # <<>> /\ Received(c)
         /\ Head(inbox[c]).type = "JOB_RESULT" /\ Head(inbox[c]).ok
  <2>1. CASE client'[c] = client[c]
    BY <2>1
  <2>2. CASE client'[c] # client[c]
    <3>1. ClientStep(c) \/ Timeout(c)
      BY <2>2, ClientsMove, KickEndsJob
    <3> QED
      BY <1>1, <3>1
         DEF ClientStep, Timeout, ReceiveJobAck, ReceiveUploadAck, ReceiveResult, ReceiveDownloadAck,
             RetryUpload, GiveUp, Become, TypeOK
  <2> QED
    BY <2>1, <2>2
<1>4. Job(c) \in Jobs
  BY <1>3, JobTypes
<1>5. Delivered(Job(c))
  <2>1. CASE client[c] \in {"download", "done"}
    BY <1>2, <2>1 DEF DoneInv
  <2>2. CASE /\ client[c] = "result" /\ inbox[c] # <<>> /\ Received(c)
             /\ Head(inbox[c]).type = "JOB_RESULT" /\ Head(inbox[c]).ok
    <3>1. 1 \in DOMAIN inbox[c] /\ Head(inbox[c]) = inbox[c][1]
      BY <2>2, TakenPlaces
    <3>2. /\ inbox[c][1].job \in Jobs /\ Owner(inbox[c][1].job) = c /\ Begun(inbox[c][1].job)
          /\ Delivered(inbox[c][1].job)
      BY <2>2, <3>1, InboxPlaces DEF ResultInv, Sound, Delivered
    <3>3. ~Silent(inbox[c][1].job)
      BY <3>1, <3>2 DEF Silent
    <3>4. inbox[c][1].job = Job(c)
      BY <1>2, <3>2, <3>3, LastJob
    <3> QED
      BY <3>2, <3>4
  <2> QED
    BY <1>3, <2>1, <2>2
<1>6. PICK j \in Jobs : j = Job(c)
  BY <1>4
<1>7. Delivered(j)'
  BY <1>5, <1>6, DeliveredStays
<1>8. Job(c)' = j
  BY <1>2, <1>6 DEF Job
<1> QED
  BY <1>7, <1>8

(***************************************************************************)
(* A JOB_RESULT is believed without a look at its job_id (client.c:211).   *)
(* A client that has not strayed in an earlier job may do so: the command  *)
(* of its last job ran, once, and succeeded, and the entry is gone or on   *)
(* its way out.                                                            *)
(***************************************************************************)
THEOREM ResultsCanBeTrusted == Spec => []ResultsAreTrue
<1>1. TypeOK /\ PlacesInv /\ DoneInv => ResultsAreTrue
  <2> SUFFICES ASSUME TypeOK, PlacesInv, DoneInv,
                      NEW c \in Clients, client[c] \in {"download", "done"}, Calm(c)
               PROVE  /\ Job(c) \in output
                      /\ Len(runs[Job(c)]) = 1
                      /\ Pending(Job(c)) => processing = "sent" /\ pending_jobs[i].job = Job(c)
    BY DEF ResultsAreTrue
  <2>1. Delivered(Job(c))
    BY DEF DoneInv
  <2>2. Pending(Job(c)) => processing = "sent" /\ pending_jobs[i].job = Job(c)
    BY <2>1, PendingPlaces DEF Delivered, Over, PlacesInv, Executing
  <2> QED
    BY <2>1, <2>2 DEF Delivered
<1> QED
  BY TypesInitially, TypesPreserved, PlacesPreserved, BegunInitially, BegunPreserved,
     OncePreserved, UploadInitially, UploadPreserved, ResultsInitially, ResultsPreserved,
     CalmInitially, CalmPreserved, DoneInitially, DonePreserved, <1>1, PTL DEF Spec

-----------------------------------------------------------------------------
(***************************************************************************)
(* A client that has the server to itself: all uploads are for its last    *)
(* job, and there is one connection for it, wherever that is.  As long as  *)
(* it has not strayed there is one upload, and none once it is counted.    *)
(***************************************************************************)
Receiving(w) == worker[w] \in {"open", "receive", "count"}
Unconnected == backlog = <<>> /\ \A w \in Workers : ~Receiving(w)
Quiet == upload_queue = <<>> /\ backlog = <<>> /\ \A w \in Workers : ~Busy(w)
Counted(j) == \E k \in DOMAIN pending_jobs :
                 pending_jobs[k].job = j /\ pending_jobs[k].files_received # 0
Served(j) == Counted(j) \/ runs[j] # <<>>

OwnUploads(c) ==
    /\ \A k \in DOMAIN upload_queue : upload_queue[k] = Job(c)
    /\ \A k \in DOMAIN backlog : backlog[k] = Job(c)
    /\ \A w \in Workers : Busy(w) => job[w] = Job(c)
    /\ \A w \in Workers : worker[w] \in {"open", "receive"} => conn[w] = Job(c)

OneConnection(c) ==
    /\ \A k, m \in DOMAIN backlog : k = m
    /\ backlog # <<>> => \A w \in Workers : ~Receiving(w)
    /\ \A v, w \in Workers : Receiving(v) /\ Receiving(w) => v = w
    /\ Served(Job(c)) => Unconnected
    /\ client[c] \in {"job", "upload"} => Unconnected /\ ~Served(Job(c))

WholeFile(c) ==
    /\ \A w \in Workers : worker[w] = "receive" => file[Job(c)] = "empty"
    /\ \A w \in Workers : worker[w] = "count" => file[Job(c)] = "whole"
    /\ Counted(Job(c)) => file[Job(c)] = "whole"
    /\ \A n \in 1 .. number[c] : \A k \in DOMAIN runs[<<c, n>>] : runs[<<c, n>>][k] = "whole"

OneUpload(c) ==
    /\ \A k, m \in DOMAIN upload_queue : k = m
    /\ upload_queue # <<>> => \A w \in Workers : ~Busy(w)
    /\ \A v, w \in Workers : Busy(v) /\ Busy(w) => v = w
    /\ \A p \in DOMAIN udp : udp[p].type = "UPLOAD_REQ" => Quiet
    /\ client[c] \in AtMenu \cup {"job"} => Quiet
    /\ Served(Job(c)) => Quiet

Lone(c) ==
    /\ number[c] # 0 /\ Calm(c) =>
          OwnUploads(c) /\ OneConnection(c) /\ (~setting.cut => WholeFile(c))
    /\ strayed[c] = 0 => (number[c] = 0 => Quiet) /\ (number[c] # 0 => OneUpload(c))

LoneInv == \A c \in Clients : Alone(c) => Lone(c)

LEMMA LoneInitially == Init => LoneInv
BY DEF Init, LoneInv, Lone, Quiet, Busy

LEMMA OnlyClient ==
    ASSUME TypeOK, PlacesInv, NEW c \in Clients, Alone(c)
    PROVE  /\ \A d \in Clients : ClientStep(d) \/ Timeout(d) => d = c
           /\ \A j \in Jobs : Begun(j) => Owner(j) = c /\ number[c] # 0
<1>1. ASSUME NEW d \in Clients, ClientStep(d) \/ Timeout(d)
      PROVE  d = c
  <2>1. d \in setting.clients
    BY <1>1
       DEF ClientStep, Timeout, SubmitJob, ReceiveJobAck, ReceiveUploadAck, ReceiveResult,
           ReceiveDownloadAck, RetryUpload, GiveUp, PlacesInv
  <2> QED
    BY <2>1 DEF Alone
<1>2. ASSUME NEW j \in Jobs, Begun(j)
      PROVE  Owner(j) = c /\ number[c] # 0
  <2>1. Owner(j) \in Clients /\ j[2] \in 1 .. MaxJobs /\ number[Owner(j)] \in 0 .. setting.jobs
    BY DEF Jobs, Owner, TypeOK
  <2>2. number[Owner(j)] # 0
    BY <1>2, <2>1, JobsAssumption DEF Begun
  <2>3. Owner(j) \in setting.clients
    BY <2>1, <2>2 DEF PlacesInv
  <2> QED
    BY <2>2, <2>3 DEF Alone
<1> QED
  BY <1>1, <1>2

(* In the next state. *)
CountedThen(j) == \E k \in DOMAIN pending_jobs' :
                     pending_jobs'[k].job = j /\ pending_jobs'[k].files_received # 0

(* Steps that leave the uploads and connections alone. *)
LEMMA LoneStays ==
    ASSUME NEW c \in Clients, Lone(c),
           UNCHANGED <<setting, client, number, strayed, upload_queue, backlog, worker, job, conn,
                       file, runs>>,
           \A j : CountedThen(j) => Counted(j),
           \A p \in DOMAIN udp' : udp'[p].type = "UPLOAD_REQ" =>
              \E q \in DOMAIN udp : udp[q].type = "UPLOAD_REQ"
    PROVE  Lone(c)'
<1>1. /\ Job(c)' = Job(c) /\ Calm(c)' = Calm(c) /\ Quiet' = Quiet /\ Unconnected' = Unconnected
  BY DEF Job, Calm, Quiet, Unconnected, Busy, Receiving
<1>2. Counted(Job(c))' => Counted(Job(c))
  BY <1>1 DEF Counted, CountedThen
<1>3. Served(Job(c))' => Served(Job(c))
  BY <1>1, <1>2 DEF Served
<1>4. OwnUploads(c) => OwnUploads(c)'
  BY <1>1 DEF OwnUploads, Busy
<1>5. OneConnection(c) => OneConnection(c)'
  BY <1>1, <1>3 DEF OneConnection, Receiving
<1>6. WholeFile(c) => WholeFile(c)'
  BY <1>1, <1>2 DEF WholeFile
<1>7. OneUpload(c) => OneUpload(c)'
  BY <1>1, <1>3 DEF OneUpload, Busy
<1> QED
  BY <1>1, <1>4, <1>5, <1>6, <1>7 DEF Lone

LEMMA SubmitKeepsLone ==
    ASSUME TypeOK, PlacesInv, BegunInv, CalmInv, NEW c \in Clients, Lone(c),
           UNCHANGED setting, SubmitJob(c)
    PROVE  Lone(c)'
<1>1. /\ number[c] \in Nat /\ number'[c] = number[c] + 1 /\ client[c] \in AtMenu /\ client'[c] = "job"
      /\ strayed' = strayed /\ strayed[c] \in Nat /\ strayed[c] <= number[c]
      /\ UNCHANGED <<pending_jobs, upload_queue, backlog, worker, job, conn, file, runs>>
  <2>1. number[c] \in Nat /\ number'[c] = number[c] + 1
    BY SubmitProperties
  <2>2. strayed[c] \in Nat /\ strayed[c] <= number[c]
    BY SettingTypes DEF TypeOK, CalmInv
  <2>3. client[c] \in AtMenu /\ client'[c] = "job"
    BY DEF SubmitJob, Become, TypeOK
  <2>4. /\ strayed' = strayed
        /\ UNCHANGED <<pending_jobs, upload_queue, backlog, worker, job, conn, file, runs>>
    BY DEF SubmitJob, sharedVars, workerVars, procVars
  <2> QED
    BY <2>1, <2>2, <2>3, <2>4
<1>2. CASE strayed[c] # 0
  BY <1>1, <1>2 DEF Lone, Calm
<1>3. CASE strayed[c] = 0
  <2>1. Quiet
    BY <1>1, <1>3 DEF Lone, OneUpload
  <2>2. Quiet'
    BY <1>1, <2>1 DEF Quiet, Busy
  <2> DEFINE j == <<c, number[c] + 1>>
  <2>3. j \in Jobs /\ ~Begun(j)
    BY <1>1, SubmitProperties DEF Begun, Owner
  <2>4. (\A k \in DOMAIN pending_jobs : pending_jobs[k].job # j) /\ runs[j] = <<>>
    BY <2>3 DEF BegunInv
  <2>5. Job(c)' = j
    BY <1>1 DEF Job
  <2>6. ~Served(Job(c))'
    BY <1>1, <2>4, <2>5 DEF Served, Counted
  <2>7. OneUpload(c)'
    BY <2>2 DEF OneUpload, Quiet
  <2>8. /\ upload_queue' = <<>> /\ backlog' = <<>>
        /\ \A w \in Workers : ~Busy(w)' /\ ~Receiving(w)' /\ worker'[w] \notin {"open", "receive", "count"}
    BY <2>2 DEF Quiet, Busy, Receiving
  <2>9. OwnUploads(c)'
    BY <2>8 DEF OwnUploads
  <2>10. OneConnection(c)'
    BY <2>6, <2>8 DEF OneConnection, Unconnected
  <2>11. ASSUME ~setting.cut PROVE WholeFile(c)'
    <3>1. ASSUME NEW n \in 1 .. number'[c], NEW k \in DOMAIN runs[<<c, n>>]
          PROVE  runs[<<c, n>>][k] = "whole"
      <4>1. CASE n = number[c] + 1
        BY <2>4, <4>1
      <4>2. CASE n # number[c] + 1
        <5>1. n \in 1 .. number[c] /\ number[c] # 0
          BY <1>1, <4>2
        <5>2. WholeFile(c)
          BY <1>3, <2>11, <5>1 DEF Lone, Calm
        <5> QED
          BY <5>1, <5>2 DEF WholeFile
      <4> QED
        BY <4>1, <4>2
    <3>2. ~Counted(Job(c))'
      BY <2>6 DEF Served
    <3> QED
      BY <1>1, <2>8, <3>1, <3>2 DEF WholeFile
  <2> QED
    BY <1>1, <2>7, <2>9, <2>10, <2>11 DEF Lone
<1> QED
  BY <1>2, <1>3

(* What the other steps of a client may do to the uploads. *)
LEMMA ClientConnects ==
    ASSUME TypeOK, NEW c \in Clients, ClientStep(c) \/ Timeout(c), ~SubmitJob(c)
    PROVE  /\ number' = number
           /\ UNCHANGED <<pending_jobs, upload_queue, worker, job, conn, file, runs>>
           /\ \/ backlog' = backlog
              \/ client[c] = "upload" /\ client'[c] = "result" /\ backlog' = Append(backlog, Job(c))
           /\ client'[c] \in {"job", "upload"} => client[c] \in {"job", "upload"}
<1>1. /\ number' = number
      /\ UNCHANGED <<pending_jobs, upload_queue, worker, job, conn, file, runs>>
  BY ClientsKeepServer DEF workerVars, procVars
<1>2. \/ backlog' = backlog
      \/ client[c] = "upload" /\ client'[c] = "result" /\ backlog' = Append(backlog, Job(c))
  BY DEF ClientStep, Timeout, ReceiveJobAck, ReceiveUploadAck, ReceiveResult, ReceiveDownloadAck,
         RetryUpload, GiveUp, Become, sharedVars, TypeOK
<1>3. client'[c] \in {"job", "upload"} => client[c] \in {"job", "upload"}
  <2>1. CASE ReceiveDownloadAck(c)
    <3>1. PICK ok : client' = [client EXCEPT ![c] = IF ok THEN "done" ELSE "failed"]
      BY <2>1 DEF ReceiveDownloadAck, Become
    <3> QED
      BY <3>1 DEF TypeOK
  <2>2. CASE ~ReceiveDownloadAck(c)
    BY <2>2 DEF ClientStep, Timeout, ReceiveJobAck, ReceiveUploadAck, ReceiveResult,
                RetryUpload, GiveUp, Become, TypeOK
  <2> QED
    BY <2>1, <2>2
<1> QED
  BY <1>1, <1>2, <1>3

(* An orderly client connects once, and is at the menu only when all is quiet. *)
LEMMA ClientKeepsOneUpload ==
    ASSUME TypeOK, PlacesInv, BegunInv, OnceInv, ResultInv, CalmInv, DoneInv,
           NEW c \in Clients, Alone(c), Lone(c), ClientStep(c) \/ Timeout(c), ~SubmitJob(c),
           strayed[c] = 0, strayed'[c] = 0, number[c] # 0
    PROVE  OneUpload(c)'
<1>1. Orderly(c) /\ Calm(c) /\ OneUpload(c) /\ OneConnection(c)
  BY DEF CalmInv, Calm, Lone
<1>2. /\ Receive(c) /\ inbox[c] # <<>>
      /\ client[c] \in DOMAIN Awaited /\ 1 \in DOMAIN inbox[c] /\ Head(inbox[c]) = inbox[c][1]
      /\ inbox[c][1].type = Awaited[client[c]]
  BY <1>1, StayingOrderly
<1>3. /\ UNCHANGED <<pending_jobs, upload_queue, worker, job, conn, file, runs>>
      /\ number' = number /\ Job(c)' = Job(c)
      /\ \/ backlog' = backlog
         \/ client[c] = "upload" /\ client'[c] = "result" /\ backlog' = Append(backlog, Job(c))
  BY ClientConnects DEF Job
<1>4. Served(Job(c))' = Served(Job(c))
  BY <1>3 DEF Served, Counted
<1>5. CASE client[c] # "upload"
  <2>1. Quiet
    <3>1. CASE client[c] = "job"
      BY <1>1, <3>1 DEF OneUpload
    <3>2. CASE client[c] # "job"
      <4>1. Len(runs[Job(c)]) = 1
        <5>1. CASE client[c] = "result"
          <6>1. inbox[c][1].type = "JOB_RESULT"
            BY <1>2, <5>1 DEF Awaited
          <6>2. /\ inbox[c][1].job \in Jobs /\ Owner(inbox[c][1].job) = c /\ Begun(inbox[c][1].job)
                /\ Len(runs[inbox[c][1].job]) = 1
            BY <1>2, <6>1, InboxPlaces DEF ResultInv, Sound
          <6>3. ~Silent(inbox[c][1].job)
            BY <1>2, <6>2 DEF Silent
          <6> QED
            BY <1>1, <6>2, <6>3, LastJob
        <5>2. CASE client[c] = "download"
          BY <1>1, <5>2 DEF DoneInv, Delivered
        <5> QED
          BY <1>2, <1>5, <3>2, <5>1, <5>2 DEF Awaited
      <4>2. Served(Job(c))
        BY <4>1 DEF Served
      <4> QED
        BY <1>1, <4>2 DEF OneUpload
    <3> QED
      BY <3>1, <3>2
  <2>2. Quiet'
    BY <1>3, <1>5, <2>1 DEF Quiet, Busy
  <2> QED
    BY <2>2 DEF OneUpload, Quiet
<1>6. CASE client[c] = "upload"
  <2>1. /\ ~Served(Job(c))'
        /\ \A k, m \in DOMAIN upload_queue' : k = m
        /\ upload_queue' # <<>> => \A w \in Workers : ~Busy(w)'
        /\ \A v, w \in Workers : Busy(v)' /\ Busy(w)' => v = w
    BY <1>1, <1>3, <1>4, <1>6 DEF OneConnection, OneUpload, Busy
  <2>2. udp' = udp /\ client'[c] \in {"result", "failed"}
    BY <1>2, <1>6, ReceivingClient
  <2>3. client'[c] # "failed"
    <3>1. inbox[c][1].type = "UPLOAD_ACK"
      BY <1>2, <1>6 DEF Awaited
    <3>2. client'[c] = "failed" => FALSE \in TakenForUploadAck(inbox[c][1])
      BY <1>2, <1>6, ReceivingClient
    <3> QED
      BY <3>1, <3>2 DEF TakenForUploadAck
  <2>4. DOMAIN udp' = {}
    <3>1. ~Unanswered(c)
      BY <1>2 DEF Unanswered
    <3>2. \A p \in DOMAIN udp : Owner(udp[p].job) # c
      BY <1>1, <3>1 DEF Orderly, OneRequest
    <3>3. \A p \in DOMAIN udp : Owner(udp[p].job) = c
      BY UdpPlaces, OnlyClient DEF BegunInv
    <3> QED
      BY <2>2, <3>2, <3>3
  <2> QED
    BY <2>1, <2>2, <2>3, <2>4 DEF OneUpload, AtMenu
<1> QED
  BY <1>5, <1>6

LEMMA ClientKeepsLone ==
    ASSUME TypeOK, PlacesInv, BegunInv, OnceInv, ResultInv, CalmInv, DoneInv, [Next]_vars,
           NEW c \in Clients, Alone(c), Lone(c), ClientStep(c) \/ Timeout(c), ~SubmitJob(c),
           UNCHANGED setting
    PROVE  Lone(c)'
<1>1. /\ UNCHANGED <<pending_jobs, upload_queue, worker, job, conn, file, runs>>
      /\ number' = number /\ Job(c)' = Job(c) /\ number'[c] = number[c]
      /\ \/ backlog' = backlog
         \/ client[c] = "upload" /\ client'[c] = "result" /\ backlog' = Append(backlog, Job(c))
      /\ client'[c] \in {"job", "upload"} => client[c] \in {"job", "upload"}
  BY ClientConnects DEF Job
<1>2. number[c] # 0
  BY DEF ClientStep, Timeout, ReceiveJobAck, ReceiveUploadAck, ReceiveResult, ReceiveDownloadAck,
         RetryUpload, GiveUp, PlacesInv
<1>3. Counted(Job(c))' = Counted(Job(c)) /\ Served(Job(c))' = Served(Job(c))
  BY <1>1 DEF Served, Counted
<1>4. ASSUME Calm(c)'
      PROVE  OwnUploads(c)' /\ OneConnection(c)' /\ (~setting.cut => WholeFile(c)')
  <2>1. Calm(c)
    BY <1>1, <1>4, StrayMoves DEF Calm
  <2>2. OwnUploads(c) /\ OneConnection(c) /\ (~setting.cut => WholeFile(c))
    BY <1>2, <2>1 DEF Lone
  <2>3. WholeFile(c) => WholeFile(c)'
    BY <1>1, <1>3 DEF WholeFile
  <2>4. CASE backlog' = backlog
    <3>1. OwnUploads(c)'
      BY <1>1, <2>2, <2>4 DEF OwnUploads, Busy
    <3>2. OneConnection(c)'
      BY <1>1, <1>3, <2>2, <2>4 DEF OneConnection, Unconnected, Receiving
    <3> QED
      BY <2>2, <2>3, <3>1, <3>2
  <2>5. CASE client[c] = "upload" /\ client'[c] = "result" /\ backlog' = Append(backlog, Job(c))
    <3>1. Unconnected /\ ~Served(Job(c))
      BY <2>2, <2>5 DEF OneConnection
    <3>2. DOMAIN backlog' = {1} /\ backlog'[1] = Job(c)
      <4>1. Job(c) \in Jobs
        BY <2>5, JobTypes
      <4>2. backlog = <<>> /\ backlog \in Seq(Jobs)
        BY <3>1 DEF Unconnected, TypeOK
      <4> QED
        BY <2>5, <4>1, <4>2
    <3>3. OwnUploads(c)'
      BY <1>1, <2>2, <3>2 DEF OwnUploads, Busy
    <3>4. OneConnection(c)'
      BY <1>1, <1>3, <2>5, <3>1, <3>2 DEF OneConnection, Unconnected, Receiving
    <3> QED
      BY <2>2, <2>3, <3>3, <3>4
  <2> QED
    BY <1>1, <2>4, <2>5
<1>5. ASSUME strayed'[c] = 0
      PROVE  OneUpload(c)'
  <2>1. strayed[c] = 0
    BY <1>5, StrayMoves
  <2> QED
    BY <1>2, <1>5, <2>1, ClientKeepsOneUpload
<1> QED
  BY <1>1, <1>2, <1>4, <1>5 DEF Lone

LEMMA EnqueueKeepsLone ==
    ASSUME TypeOK, PlacesInv, BegunInv, CalmInv, NEW c \in Clients, Alone(c), Lone(c),
           UNCHANGED setting, EnqueueUpload
    PROVE  Lone(c)'
<1>1. /\ UNCHANGED <<client, number, strayed, pending_jobs, backlog, worker, job, conn, file, runs>>
      /\ upload_queue' = Append(upload_queue, Head(udp).job)
      /\ Arrived("UPLOAD_REQ") /\ udp' = Tail(udp)
  BY DEF EnqueueUpload, clientVars, clientState, workerVars, procVars
<1>2. /\ 1 \in DOMAIN udp /\ Head(udp) = udp[1] /\ udp[1].type = "UPLOAD_REQ" /\ udp[1].job \in Jobs
      /\ \A p \in DOMAIN udp' : p \in Nat /\ p # 0 /\ p + 1 \in DOMAIN udp /\ udp'[p] = udp[p + 1]
  BY <1>1, ArrivedPlaces
<1>3. Begun(udp[1].job) /\ Owner(udp[1].job) = c /\ number[c] # 0
  BY <1>2, OnlyClient DEF BegunInv
<1>4. /\ Job(c)' = Job(c) /\ number'[c] = number[c]
      /\ Counted(Job(c))' = Counted(Job(c)) /\ Served(Job(c))' = Served(Job(c))
  BY <1>1 DEF Job, Counted, Served
<1>5. /\ DOMAIN upload_queue' = DOMAIN upload_queue \cup {Len(upload_queue) + 1}
      /\ \A k \in DOMAIN upload_queue : upload_queue'[k] = upload_queue[k]
      /\ upload_queue'[Len(upload_queue) + 1] = udp[1].job
  <2>1. upload_queue \in Seq(Jobs)
    BY DEF TypeOK
  <2> QED
    BY <1>1, <1>2, <2>1, AppendPlaces
<1>6. ASSUME Calm(c)
      PROVE  OwnUploads(c)' /\ OneConnection(c)' /\ (~setting.cut => WholeFile(c)')
  <2>1. OwnUploads(c) /\ OneConnection(c) /\ (~setting.cut => WholeFile(c))
    BY <1>3, <1>6 DEF Lone
  <2>2. udp[1].job = Job(c)
    <3>1. ~Silent(udp[1].job)
      BY <1>2 DEF Silent
    <3> QED
      BY <1>2, <1>3, <1>6, <3>1, LastJob
  <2>3. OwnUploads(c)'
    BY <1>1, <1>4, <1>5, <2>1, <2>2 DEF OwnUploads, Busy
  <2>4. OneConnection(c)'
    BY <1>1, <1>4, <2>1 DEF OneConnection, Unconnected, Receiving
  <2>5. WholeFile(c) => WholeFile(c)'
    BY <1>1, <1>4 DEF WholeFile
  <2> QED
    BY <2>1, <2>3, <2>4, <2>5
<1>7. ASSUME strayed[c] = 0
      PROVE  OneUpload(c)'
  <2>1. OneUpload(c) /\ OneConnection(c) /\ OneRequest(c)
    BY <1>3, <1>7 DEF Lone, Calm, CalmInv, Orderly
  <2>2. Quiet
    BY <1>2, <2>1 DEF OneUpload
  <2>3. DOMAIN upload_queue' = {1}
    BY <1>5, <2>2 DEF Quiet
  <2>4. \A w \in Workers : ~Busy(w)'
    BY <1>1, <2>2 DEF Quiet, Busy
  <2>5. DOMAIN udp' = {}
    <3> SUFFICES ASSUME NEW p \in DOMAIN udp' PROVE FALSE
      OBVIOUS
    <3>1. p + 1 \in DOMAIN udp /\ p + 1 # 1
      BY <1>2
    <3>2. Owner(udp[p + 1].job) = c
      BY <3>1, UdpPlaces, OnlyClient DEF BegunInv
    <3> QED
      BY <1>2, <1>3, <2>1, <3>1, <3>2 DEF OneRequest
  <2>6. client[c] = "upload"
    <3>1. client[c] \in DOMAIN Asked /\ Asked[client[c]] = "UPLOAD_REQ"
      BY <1>2, <1>3, <2>1 DEF OneRequest, Unanswered
    <3> QED
      BY <3>1 DEF Asked
  <2>7. ~Served(Job(c))'
    BY <1>4, <2>1, <2>6 DEF OneConnection
  <2> QED
    BY <1>1, <2>3, <2>4, <2>5, <2>6, <2>7 DEF OneUpload, AtMenu
<1>8. Calm(c)' = Calm(c)
  BY <1>1 DEF Calm
<1> QED
  BY <1>1, <1>3, <1>6, <1>7, <1>8 DEF Lone

LEMMA UdpKeepsLone ==
    ASSUME TypeOK, PlacesInv, BegunInv, CalmInv, NEW c \in Clients, Alone(c), Lone(c),
           UNCHANGED setting, UdpThread
    PROVE  Lone(c)'
<1> USE DEF clientVars, clientState, sharedVars, workerVars, procVars
<1>1. CASE EnqueueUpload
  BY <1>1, EnqueueKeepsLone
<1>2. CASE MakeDirectory \/ HandleDownload
  <2>1. /\ UNCHANGED <<client, number, strayed, upload_queue, backlog, worker, job, conn, file, runs,
                       pending_jobs>>
        /\ udp' = Tail(udp) /\ \E type : Arrived(type)
    BY <1>2 DEF MakeDirectory, HandleDownload
  <2>2. \A p \in DOMAIN udp' : udp'[p].type = "UPLOAD_REQ" =>
           \E q \in DOMAIN udp : udp[q].type = "UPLOAD_REQ"
    BY <2>1, ArrivedPlaces
  <2>3. \A j : CountedThen(j) => Counted(j)
    BY <2>1 DEF CountedThen, Counted
  <2> QED
    BY <2>1, <2>2, <2>3, LoneStays
<1>3. CASE AddJob \/ AckUpload
  <2>1. /\ UNCHANGED <<client, number, strayed, upload_queue, backlog, worker, job, conn, file, runs>>
        /\ udp' = udp
        /\ AckUpload => pending_jobs' = pending_jobs
    BY <1>3 DEF AddJob, AckUpload, NoRequest, Message
  <2>2. \A j : CountedThen(j) => Counted(j)
    <3>1. CASE AddJob
      BY <3>1, AddedEntry DEF CountedThen, Counted
    <3>2. CASE AckUpload
      BY <2>1, <3>2 DEF CountedThen, Counted
    <3> QED
      BY <1>3, <3>1, <3>2
  <2> QED
    BY <2>1, <2>2, LoneStays
<1> QED
  BY <1>1, <1>2, <1>3 DEF UdpThread

LEMMA ProcessingKeepsLone ==
    ASSUME TypeOK, PlacesInv, BegunInv, OnceInv, CalmInv, NEW c \in Clients, Alone(c), Lone(c),
           UNCHANGED setting, ProcessingThread
    PROVE  Lone(c)'
<1> USE DEF clientVars, clientState, sharedVars, udpVars, workerVars, procVars
<1>1. CASE ~StartCommand
  <2>1. UNCHANGED <<client, number, strayed, upload_queue, backlog, worker, job, conn, file, runs, udp>>
    BY <1>1 DEF ProcessingThread, BeginPass, SkipJob, EndCommand, RemoveJob, EndPass
  <2>2. \A j : CountedThen(j) => Counted(j)
    <3>1. CASE RemoveJob
      BY <3>1, RemovedEntry DEF CountedThen, Counted
    <3>2. CASE ~RemoveJob
      <4>1. pending_jobs' = pending_jobs
        BY <1>1, <3>2 DEF ProcessingThread, BeginPass, SkipJob, EndCommand, EndPass
      <4> QED
        BY <4>1 DEF CountedThen, Counted
    <3> QED
      BY <3>1, <3>2
  <2> QED
    BY <2>1, <2>2, LoneStays
<1>2. CASE StartCommand
  <2> DEFINE j == pending_jobs[i].job
  <2>1. /\ i \in DOMAIN pending_jobs /\ pending_jobs[i].files_received >= 1 /\ processing = "scan"
        /\ runs' = [runs EXCEPT ![j] = Append(@, file[j])]
        /\ UNCHANGED <<client, number, strayed, upload_queue, backlog, worker, job, conn, file, udp,
                       pending_jobs>>
    BY <1>2, ScanTypes DEF StartCommand, Ready
  <2>2. j \in Jobs
    BY <2>1, EntryTypes
  <2>3. Begun(j) /\ Counted(j) /\ Listed(j) /\ Owner(j) = c /\ number[c] # 0
    BY <2>1, <2>2, OnlyClient DEF BegunInv, Counted, Listed
  <2>4. Calm(c) => j = Job(c)
    <3>1. ~Silent(j)
      BY <2>1, <2>3 DEF Silent, Over
    <3> QED
      BY <2>2, <2>3, <3>1, LastJob
  <2>5. runs[j] = <<>> /\ Executing' /\ runs'[j] = <<file[j]>> /\ \A k \in Jobs : k # j => runs'[k] = runs[k]
    <3>1. ~Executing
      BY <2>1 DEF Executing
    <3>2. runs[j] = <<>>
      BY <2>1, <3>1 DEF OnceInv, EntriesNotRun
    <3>3. processing' = "run"
      BY <1>2 DEF StartCommand
    <3>4. runs'[j] = Append(runs[j], file[j]) /\ \A k \in Jobs : k # j => runs'[k] = runs[k]
      BY <2>1, <2>2 DEF TypeOK
    <3> QED
      BY <3>2, <3>3, <3>4 DEF Executing
  <2> HIDE DEF j
  <2>6. /\ Job(c)' = Job(c) /\ Quiet' = Quiet /\ Unconnected' = Unconnected /\ Calm(c)' = Calm(c)
        /\ Counted(Job(c))' = Counted(Job(c))
    BY <2>1 DEF Job, Quiet, Unconnected, Busy, Receiving, Calm, Counted
  <2>7. Calm(c) => Served(Job(c))' = Served(Job(c))
    BY <2>3, <2>4, <2>6 DEF Served
  <2>8. OwnUploads(c) => OwnUploads(c)'
    BY <2>1, <2>6 DEF OwnUploads, Busy
  <2>9. Calm(c) /\ OneConnection(c) => OneConnection(c)'
    BY <2>1, <2>6, <2>7 DEF OneConnection, Receiving
  <2>10. ASSUME Calm(c), WholeFile(c) PROVE WholeFile(c)'
    <3>1. file[j] = "whole"
      BY <2>3, <2>4, <2>10 DEF WholeFile
    <3>2. ASSUME NEW n \in 1 .. number[c], NEW k \in DOMAIN runs'[<<c, n>>]
          PROVE  runs'[<<c, n>>][k] = "whole"
      <4>1. CASE <<c, n>> = j
        <5>1. runs'[<<c, n>>] = <<"whole">>
          BY <2>5, <3>1, <4>1
        <5> QED
          BY <3>2, <5>1
      <4>2. CASE <<c, n>> # j
        <5>1. <<c, n>> \in Jobs
          <6>1. number[c] \in 0 .. setting.jobs /\ setting.jobs \in 0 .. MaxJobs
            BY SettingTypes DEF TypeOK
          <6>2. n \in 1 .. MaxJobs
            BY <6>1, JobsAssumption
          <6> QED
            BY <6>2 DEF Jobs
        <5> QED
          BY <2>5, <2>10, <3>2, <4>2, <5>1 DEF WholeFile
      <4> QED
        BY <4>1, <4>2
    <3> QED
      BY <2>1, <2>6, <2>10, <3>2 DEF WholeFile
  <2>11. Calm(c) /\ OneUpload(c) => OneUpload(c)'
    BY <2>1, <2>6, <2>7 DEF OneUpload, Busy
  <2> QED
    BY <2>1, <2>3, <2>6, <2>8, <2>9, <2>10, <2>11 DEF Lone, Calm
<1> QED
  BY <1>1, <1>2

(* What an upload thread does to the uploads. *)
Others(w) ==
    \A v \in Workers : v # w => worker'[v] = worker[v] /\ job'[v] = job[v] /\ conn'[v] = conn[v]

LEMMA ThreadMoves ==
    ASSUME TypeOK, NEW w \in Workers, UploadThread(w)
    PROVE  /\ UNCHANGED <<client, number, strayed, runs, udp>>
           /\ Others(w)
           /\ Busy(w) \/ upload_queue # <<>>
           /\ UNCHANGED upload_queue \/ (TakeUpload(w) /\ ~Busy(w) /\ upload_queue # <<>>)
           /\ UNCHANGED file \/ OpenFile(w) \/ ReceiveFile(w)
           /\ ~CountFile(w) => UNCHANGED pending_jobs
<1>1. UNCHANGED <<client, number, strayed, runs, udp>> /\ (~CountFile(w) => UNCHANGED pending_jobs)
  BY UploadsKeepCourse DEF courseVars
<1>2. Others(w)
  <2>1. \A v \in Workers : v # w => worker'[v] = worker[v]
    BY DEF UploadThread, TakeUpload, FindJob, Accept, OpenFile, ReceiveFile, CountFile, Go, TypeOK
  <2>2. \A v \in Workers : v # w => job'[v] = job[v]
    BY DEF UploadThread, TakeUpload, FindJob, Accept, OpenFile, ReceiveFile, CountFile, TypeOK
  <2>3. \A v \in Workers : v # w => conn'[v] = conn[v]
    BY DEF UploadThread, TakeUpload, FindJob, Accept, OpenFile, ReceiveFile, CountFile, TypeOK, udpVars
  <2> QED
    BY <2>1, <2>2, <2>3 DEF Others
<1>3. Busy(w) \/ upload_queue # <<>>
  <2>1. CASE TakeUpload(w)
    <3>1. PICK k \in 1 .. Len(upload_queue) : FirstSmallest(k)
      BY <2>1 DEF TakeUpload
    <3> QED
      BY <3>1
  <2>2. CASE ~TakeUpload(w)
    BY <2>2 DEF UploadThread, FindJob, Accept, OpenFile, ReceiveFile, CountFile, Busy
  <2> QED
    BY <2>1, <2>2
<1>4. UNCHANGED upload_queue \/ (TakeUpload(w) /\ ~Busy(w))
  BY DEF UploadThread, TakeUpload, FindJob, Accept, OpenFile, ReceiveFile, CountFile, Busy, sharedVars
<1>5. UNCHANGED file \/ OpenFile(w) \/ ReceiveFile(w)
  BY DEF UploadThread, TakeUpload, FindJob, Accept, CountFile, sharedVars
<1> QED
  BY <1>1, <1>2, <1>3, <1>4, <1>5

LEMMA TakenUpload ==
    ASSUME TypeOK, NEW w \in Workers, TakeUpload(w)
    PROVE  /\ worker[w] = "idle" /\ worker'[w] = "find" /\ conn' = conn /\ backlog' = backlog
           /\ \E k \in DOMAIN upload_queue : job'[w] = upload_queue[k]
           /\ \A m \in DOMAIN upload_queue' : \E n \in DOMAIN upload_queue : upload_queue'[m] = upload_queue[n]
           /\ (\A k, m \in DOMAIN upload_queue : k = m) => DOMAIN upload_queue' = {}
<1>1. PICK k \in 1 .. Len(upload_queue) :
         job' = [job EXCEPT ![w] = upload_queue[k]] /\ upload_queue' = RemoveAt(upload_queue, k)
  BY DEF TakeUpload
<1>2. upload_queue \in Seq(Jobs)
  BY DEF TypeOK
<1>3. k \in DOMAIN upload_queue /\ k \in Nat
  BY <1>2, LenProperties
<1>4. \A m \in DOMAIN upload_queue' :
          /\ m \in Nat
          /\ m < k => m \in DOMAIN upload_queue /\ upload_queue'[m] = upload_queue[m]
          /\ m >= k => m + 1 \in DOMAIN upload_queue /\ upload_queue'[m] = upload_queue[m + 1]
  BY <1>1, <1>2, <1>3, RemovePlaces
<1>5. worker[w] = "idle" /\ worker'[w] = "find" /\ conn' = conn /\ backlog' = backlog
  BY DEF TakeUpload, Go, TypeOK
<1>6. job'[w] = upload_queue[k]
  BY <1>1 DEF TypeOK
<1>7. ASSUME NEW m \in DOMAIN upload_queue'
      PROVE  \E n \in DOMAIN upload_queue : upload_queue'[m] = upload_queue[n] /\ n # k
  <2>1. CASE m < k
    BY <1>3, <1>4, <2>1
  <2>2. CASE m >= k
    BY <1>3, <1>4, <2>2
  <2> QED
    BY <1>3, <1>4, <2>1, <2>2
<1> QED
  BY <1>3, <1>5, <1>6, <1>7

(* One upload at most, as long as the client has not strayed. *)
LEMMA ThreadKeepsOneUpload ==
    ASSUME TypeOK, NEW c \in Clients, NEW w \in Workers, UploadThread(w),
           OneUpload(c), OneConnection(c)
    PROVE  OneUpload(c)'
<1>1. /\ UNCHANGED <<client, number, strayed, runs, udp>>
      /\ Others(w)
      /\ Busy(w) \/ upload_queue # <<>>
      /\ UNCHANGED upload_queue \/ (TakeUpload(w) /\ ~Busy(w) /\ upload_queue # <<>>)
      /\ ~CountFile(w) => UNCHANGED pending_jobs
  BY ThreadMoves
<1>2. Job(c)' = Job(c)
  BY <1>1 DEF Job
<1>3. ~Quiet
  BY <1>1 DEF Quiet
<1>4. /\ \A p \in DOMAIN udp' : udp'[p].type # "UPLOAD_REQ"
      /\ client'[c] \notin AtMenu \cup {"job"}
      /\ ~Served(Job(c))
  BY <1>1, <1>3 DEF OneUpload
<1>5. \A v \in Workers \ {w} : Busy(v)' = Busy(v)
  BY <1>1 DEF Others, Busy
<1>6. CASE TakeUpload(w)
  <2>1. DOMAIN upload_queue' = {}
    BY <1>6, TakenUpload DEF OneUpload
  <2>2. upload_queue' = <<>>
    <3>1. upload_queue' \in Seq(Jobs)
      <4>1. PICK k \in 1 .. Len(upload_queue) : upload_queue' = RemoveAt(upload_queue, k)
        BY <1>6 DEF TakeUpload
      <4>2. upload_queue \in Seq(Jobs)
        BY DEF TypeOK
      <4>3. k \in DOMAIN upload_queue
        BY <4>2, LenProperties
      <4> QED
        BY <4>1, <4>2, <4>3, RemovePlaces
    <3>2. Len(upload_queue') = 0
      BY <2>1, <3>1, LenProperties
    <3> QED
      BY <3>1, <3>2, EmptySeq
  <2>3. \A v \in Workers : ~Busy(v)
    BY <1>6, TakenUpload DEF OneUpload, Busy
  <2>4. \A v \in Workers : Busy(v)' => v = w
    BY <1>5, <2>3
  <2>5. ~Served(Job(c))'
    <3>1. pending_jobs' = pending_jobs
      BY <1>6 DEF TakeUpload
    <3> QED
      BY <1>1, <1>2, <1>4, <3>1 DEF Served, Counted
  <2> QED
    BY <1>1, <1>4, <2>1, <2>2, <2>4, <2>5 DEF OneUpload
<1>7. CASE ~TakeUpload(w)
  <2>1. Busy(w) /\ upload_queue' = upload_queue
    <3>1. upload_queue' = upload_queue
      BY <1>1, <1>7
    <3>2. Busy(w)
      BY <1>7 DEF UploadThread, FindJob, Accept, OpenFile, ReceiveFile, CountFile, Busy
    <3> QED
      BY <3>1, <3>2
  <2>2. upload_queue = <<>> /\ \A v \in Workers : Busy(v) => v = w
    BY <2>1 DEF OneUpload
  <2>3. \A v \in Workers : Busy(v)' => v = w
    BY <1>5, <2>2
  <2>4. Served(Job(c))' => Quiet'
    <3>1. CASE CountFile(w)
      <4>1. worker[w] = "count" /\ worker'[w] = "idle" /\ backlog' = backlog
        BY <3>1 DEF CountFile, Go, TypeOK
      <4>2. backlog = <<>>
        BY <4>1 DEF OneConnection, Receiving
      <4> QED
        BY <2>1, <2>2, <2>3, <4>1, <4>2 DEF Quiet, Busy
    <3>2. CASE ~CountFile(w)
      <4>1. pending_jobs' = pending_jobs
        BY <1>1, <3>2
      <4> QED
        BY <1>1, <1>2, <1>4, <4>1 DEF Served, Counted
    <3> QED
      BY <3>1, <3>2
  <2> QED
    BY <1>1, <1>4, <2>1, <2>2, <2>3, <2>4 DEF OneUpload
<1> QED
  BY <1>6, <1>7

LEMMA ThreadKeepsOwnUploads ==
    ASSUME TypeOK, NEW c \in Clients, NEW w \in Workers, UploadThread(w), OwnUploads(c)
    PROVE  OwnUploads(c)'
<1>1. /\ UNCHANGED <<client, number, strayed, runs, udp>>
      /\ Others(w)
      /\ UNCHANGED upload_queue \/ (TakeUpload(w) /\ ~Busy(w) /\ upload_queue # <<>>)
  BY ThreadMoves
<1>2. Job(c)' = Job(c)
  BY <1>1 DEF Job
<1>3. SUFFICES /\ \A k \in DOMAIN upload_queue' : upload_queue'[k] = Job(c)
               /\ \A k \in DOMAIN backlog' : backlog'[k] = Job(c)
               /\ Busy(w)' => job'[w] = Job(c)
               /\ worker'[w] \in {"open", "receive"} => conn'[w] = Job(c)
  BY <1>1, <1>2 DEF OwnUploads, Others, Busy
<1>4. CASE TakeUpload(w)
  BY <1>4, TakenUpload DEF OwnUploads
<1>5. CASE FindJob(w)
  BY <1>5 DEF OwnUploads, FindJob, Busy, Go, sharedVars, TypeOK
<1>6. CASE Accept(w)
  <2>1. /\ backlog # <<>> /\ backlog \in Seq(Jobs) /\ backlog' = Tail(backlog)
        /\ conn'[w] = Head(backlog) /\ job' = job /\ upload_queue' = upload_queue /\ Busy(w)
    BY <1>6 DEF Accept, Busy, TypeOK
  <2>2. /\ 1 \in DOMAIN backlog /\ Head(backlog) = backlog[1]
        /\ \A k \in DOMAIN backlog' : k + 1 \in DOMAIN backlog /\ backlog'[k] = backlog[k + 1]
    BY <2>1, TailPlaces
  <2> QED
    BY <2>1, <2>2 DEF OwnUploads
<1>7. CASE OpenFile(w)
  BY <1>7 DEF OwnUploads, OpenFile, Busy, Go, TypeOK
<1>8. CASE ReceiveFile(w) \/ CountFile(w)
  <2>1. /\ worker'[w] \notin {"open", "receive"} /\ Busy(w)
        /\ Busy(w)' => job'[w] = job[w]
        /\ UNCHANGED <<upload_queue, backlog>>
    BY <1>8 DEF ReceiveFile, CountFile, Busy, Go, TypeOK
  <2> QED
    BY <2>1 DEF OwnUploads
<1> QED
  BY <1>4, <1>5, <1>6, <1>7, <1>8 DEF UploadThread

LEMMA ThreadKeepsOneConnection ==
    ASSUME TypeOK, NEW c \in Clients, NEW w \in Workers, UploadThread(w), OneConnection(c)
    PROVE  OneConnection(c)'
<1>1. /\ UNCHANGED <<client, number, strayed, runs, udp>>
      /\ Others(w)
      /\ ~CountFile(w) => UNCHANGED pending_jobs
  BY ThreadMoves
<1>2. Job(c)' = Job(c)
  BY <1>1 DEF Job
<1>3. \A v \in Workers : v # w => (Receiving(v)' <=> Receiving(v))
  BY <1>1 DEF Others, Receiving
<1>4. ~CountFile(w) => Served(Job(c))' = Served(Job(c))
  BY <1>1, <1>2 DEF Served, Counted
<1>5. CASE Receiving(w)
  <2>1. /\ backlog = <<>> /\ ~Unconnected /\ client'[c] \notin {"job", "upload"}
        /\ ~Served(Job(c)) /\ \A v \in Workers : Receiving(v) => v = w
    BY <1>1, <1>5 DEF OneConnection, Unconnected
  <2>2. backlog' = <<>>
    BY <1>5, <2>1 DEF UploadThread, TakeUpload, FindJob, Accept, OpenFile, ReceiveFile, CountFile,
                      Receiving
  <2>3. \A v \in Workers : Receiving(v)' => v = w
    BY <1>3, <2>1
  <2>4. Served(Job(c))' => Unconnected'
    <3>1. CASE CountFile(w)
      <4>1. ~Receiving(w)'
        BY <3>1 DEF CountFile, Go, Receiving, TypeOK
      <4> QED
        BY <2>2, <2>3, <4>1 DEF Unconnected
    <3> QED
      BY <1>4, <2>1, <3>1
  <2> QED
    BY <2>1, <2>2, <2>3, <2>4 DEF OneConnection
<1>6. CASE ~Receiving(w) /\ ~Accept(w)
  <2>1. ~CountFile(w) /\ ~Receiving(w)' /\ backlog' = backlog
    <3>1. TakeUpload(w) \/ FindJob(w)
      BY <1>6 DEF UploadThread, OpenFile, ReceiveFile, CountFile, Receiving
    <3> QED
      BY <1>6, <3>1 DEF TakeUpload, FindJob, CountFile, Receiving, Go, sharedVars, TypeOK
  <2>2. ASSUME NEW v \in Workers PROVE Receiving(v)' <=> Receiving(v)
    <3>1. CASE v = w
      BY <1>6, <2>1, <3>1
    <3>2. CASE v # w
      BY <1>3, <3>2
    <3> QED
      BY <3>1, <3>2
  <2>3. Unconnected' <=> Unconnected
    BY <2>1, <2>2 DEF Unconnected
  <2> QED
    BY <1>1, <1>2, <1>4, <2>1, <2>2, <2>3 DEF OneConnection
<1>7. CASE Accept(w)
  <2>1. /\ backlog # <<>> /\ backlog \in Seq(Jobs) /\ backlog' = Tail(backlog) /\ ~CountFile(w)
    BY <1>7 DEF Accept, CountFile, TypeOK
  <2>2. /\ \A v \in Workers : ~Receiving(v)
        /\ ~Served(Job(c)) /\ client'[c] \notin {"job", "upload"}
    BY <1>1, <2>1 DEF OneConnection, Unconnected
  <2>3. backlog' = <<>>
    <3>1. /\ 1 \in DOMAIN backlog /\ backlog' \in Seq(Jobs)
          /\ \A k \in DOMAIN backlog' : k # 0 /\ k \in Nat /\ k + 1 \in DOMAIN backlog
      BY <2>1, TailPlaces
    <3>2. DOMAIN backlog' = {}
      BY <3>1 DEF OneConnection
    <3>3. Len(backlog') = 0
      BY <3>1, <3>2, LenProperties
    <3> QED
      BY <3>1, <3>3, EmptySeq
  <2>4. \A v \in Workers : Receiving(v)' => v = w
    BY <1>3, <2>2
  <2>5. ~Served(Job(c))'
    BY <1>4, <2>1, <2>2
  <2> QED
    BY <2>2, <2>3, <2>4, <2>5 DEF OneConnection
<1> QED
  BY <1>5, <1>6, <1>7

LEMMA ThreadKeepsWholeFile ==
    ASSUME TypeOK, PlacesInv, NEW c \in Clients, NEW w \in Workers, UploadThread(w), ~setting.cut,
           OwnUploads(c), OneConnection(c), WholeFile(c)
    PROVE  WholeFile(c)'
<1>1. /\ UNCHANGED <<client, number, strayed, runs, udp>>
      /\ Others(w)
      /\ UNCHANGED file \/ OpenFile(w) \/ ReceiveFile(w)
      /\ ~CountFile(w) => UNCHANGED pending_jobs
  BY ThreadMoves
<1>2. Job(c)' = Job(c)
  BY <1>1 DEF Job
<1>3. \A n \in 1 .. number'[c] : \A k \in DOMAIN runs'[<<c, n>>] : runs'[<<c, n>>][k] = "whole"
  BY <1>1 DEF WholeFile
<1>4. ~CountFile(w) => Counted(Job(c))' = Counted(Job(c))
  BY <1>1, <1>2 DEF Counted
<1>5. CASE Receiving(w)
  <2>1. (\A v \in Workers : Receiving(v) => v = w) /\ ~Counted(Job(c))
    BY <1>5 DEF OneConnection, Unconnected, Served
  <2>2. \A v \in Workers : worker'[v] \in {"receive", "count"} => v = w
    BY <1>1, <2>1 DEF Others, Receiving
  <2>3. CASE CountFile(w)
    <3>1. worker[w] = "count" /\ worker'[w] = "idle" /\ file' = file
      BY <2>3 DEF CountFile, Go, TypeOK
    <3>2. file[Job(c)] = "whole"
      BY <3>1 DEF WholeFile
    <3> QED
      BY <1>2, <1>3, <2>2, <3>1, <3>2 DEF WholeFile
  <2>4. CASE OpenFile(w)
    <3>1. worker[w] = "open" /\ ~CountFile(w) /\ worker'[w] # "count"
      BY <2>4 DEF OpenFile, CountFile, Go, TypeOK
    <3>2. job[w] = Job(c) /\ Job(c) \in Jobs
      BY <3>1 DEF OwnUploads, Busy, PlacesInv
    <3>3. worker'[w] = "receive" => file'[Job(c)] = "empty"
      BY <2>4, <3>2 DEF OpenFile, Go, TypeOK
    <3> QED
      BY <1>2, <1>3, <1>4, <2>1, <2>2, <3>1, <3>3 DEF WholeFile
  <2>5. CASE ReceiveFile(w)
    <3>1. worker[w] = "receive" /\ ~CountFile(w) /\ worker'[w] = "count"
      BY <2>5 DEF ReceiveFile, CountFile, Go, TypeOK
    <3>2. job[w] = Job(c) /\ conn[w] = Job(c) /\ Job(c) \in Jobs /\ file[Job(c)] = "empty"
      BY <3>1 DEF OwnUploads, Busy, PlacesInv, WholeFile
    <3>3. Undisturbed(w)
      BY <2>1, <3>2 DEF Undisturbed, Receiving
    <3>4. Contents(w) = {"whole"}
      BY <3>2, <3>3 DEF Contents
    <3>5. file' = [file EXCEPT ![job[w]] = "whole"]
      BY <2>5, <3>4 DEF ReceiveFile
    <3>6. file'[Job(c)] = "whole"
      BY <3>2, <3>5 DEF TypeOK
    <3> QED
      BY <1>2, <1>3, <1>4, <2>1, <2>2, <3>1, <3>6 DEF WholeFile
  <2> QED
    BY <1>5, <2>3, <2>4, <2>5
       DEF UploadThread, TakeUpload, FindJob, Accept, Receiving
<1>6. CASE ~Receiving(w)
  <2>1. ~CountFile(w) /\ worker'[w] \notin {"receive", "count"} /\ file' = file
    <3>1. TakeUpload(w) \/ FindJob(w) \/ Accept(w)
      BY <1>6 DEF UploadThread, OpenFile, ReceiveFile, CountFile, Receiving
    <3> QED
      BY <1>6, <3>1 DEF TakeUpload, FindJob, Accept, CountFile, Receiving, Go, sharedVars, TypeOK
  <2>2. \A v \in Workers : worker'[v] \in {"receive", "count"} => v # w /\ worker'[v] = worker[v]
    BY <1>1, <2>1 DEF Others
  <2> QED
    BY <1>2, <1>3, <1>4, <2>1, <2>2 DEF WholeFile
<1> QED
  BY <1>5, <1>6

LEMMA ThreadKeepsLone ==
    ASSUME TypeOK, PlacesInv, UploadInv, NEW c \in Clients, Alone(c), Lone(c), UNCHANGED setting,
           NEW w \in Workers, UploadThread(w)
    PROVE  Lone(c)'
<1>1. UNCHANGED <<client, number, strayed>> /\ (Busy(w) \/ upload_queue # <<>>)
  BY ThreadMoves
<1>2. number[c] # 0
  <2>1. CASE Busy(w)
    BY <2>1, OnlyClient DEF UploadInv, PlacesInv, Busy
  <2>2. CASE upload_queue # <<>>
    <3>1. 1 \in DOMAIN upload_queue /\ upload_queue[1] \in Jobs
      <4>1. upload_queue \in Seq(Jobs)
        BY DEF TypeOK
      <4>2. 1 \in DOMAIN upload_queue
        BY <2>2, <4>1, TailPlaces
      <4> QED
        BY <4>2, UploadPlaces
    <3> QED
      BY <3>1, OnlyClient DEF UploadInv
  <2> QED
    BY <1>1, <2>1, <2>2
<1>3. Calm(c)' = Calm(c)
  BY <1>1 DEF Calm
<1>4. Calm(c) => OwnUploads(c)' /\ OneConnection(c)' /\ (~setting.cut => WholeFile(c)')
  BY <1>2, ThreadKeepsOwnUploads, ThreadKeepsOneConnection, ThreadKeepsWholeFile DEF Lone
<1>5. strayed[c] = 0 => OneUpload(c)'
  BY <1>2, ThreadKeepsOneUpload DEF Lone, Calm
<1> QED
  BY <1>1, <1>2, <1>3, <1>4, <1>5 DEF Lone

LEMMA KickKeepsLone ==
    ASSUME TypeOK, PlacesInv, [Next]_vars, NEW c \in Clients, Lone(c), ReadKick(c), UNCHANGED setting
    PROVE  Lone(c)'
<1>1. /\ UNCHANGED <<number, upload_queue, backlog, worker, job, conn, file, runs>>
      /\ pending_jobs' = pending_jobs /\ udp' = udp
  BY DEF ReadKick, sharedVars, udpVars, workerVars, procVars
<1>2. \A j : CountedThen(j) => Counted(j)
  BY <1>1 DEF CountedThen, Counted
<1>3. CASE UNCHANGED <<client, strayed>>
  BY <1>1, <1>2, <1>3, LoneStays
<1>4. CASE client'[c] \in {"refused", "failed"} /\ strayed'[c] # 0
  <2>1. Calm(c)' => Calm(c)
    BY <1>1, StrayMoves DEF Calm
  <2>2. Job(c)' = Job(c) /\ Counted(Job(c))' = Counted(Job(c)) /\ Served(Job(c))' = Served(Job(c))
    BY <1>1 DEF Job, Served, Counted
  <2>3. OwnUploads(c) => OwnUploads(c)'
    BY <1>1, <2>2 DEF OwnUploads, Busy
  <2>4. OneConnection(c) => OneConnection(c)'
    BY <1>1, <1>4, <2>2 DEF OneConnection, Unconnected, Receiving
  <2>5. WholeFile(c) => WholeFile(c)'
    BY <1>1, <2>2 DEF WholeFile
  <2> QED
    BY <1>1, <1>4, <2>1, <2>3, <2>4, <2>5 DEF Lone
<1>5. CASE Become(c, KickTakenFor(client[c])) /\ client[c] \in {"job", "upload", "download"}
  <2>1. client'[c] \in {"refused", "failed"}
    BY <1>5 DEF Become, KickTakenFor, TypeOK
  <2>2. client'[c] # client[c]
    BY <1>5, <2>1
  <2> QED
    BY <1>4, <2>1, <2>2, KickEndsJob
<1> QED
  BY <1>3, <1>5 DEF ReadKick

LEMMA LonePreserved ==
    TypeOK /\ PlacesInv /\ BegunInv /\ OnceInv /\ UploadInv /\ ResultInv /\ CalmInv /\ DoneInv
           /\ LoneInv /\ [Next]_vars
        => LoneInv'
<1> SUFFICES ASSUME TypeOK, PlacesInv, BegunInv, OnceInv, UploadInv, ResultInv, CalmInv, DoneInv,
                    LoneInv, [Next]_vars, NEW c \in Clients, Alone(c)'
             PROVE  Lone(c)'
  BY DEF LoneInv
<1>1. UNCHANGED setting
  BY DEF Next, vars
<1>2. Alone(c) /\ Lone(c)
  <2>1. Alone(c)
    BY <1>1 DEF Alone
  <2> QED
    BY <2>1 DEF LoneInv
<1>3. ASSUME NEW d \in Clients, ClientStep(d) \/ Timeout(d)
      PROVE  Lone(c)'
  <2>1. d = c
    BY <1>2, <1>3, OnlyClient
  <2>2. CASE SubmitJob(c)
    BY <1>1, <1>2, <2>2, SubmitKeepsLone
  <2>3. CASE ~SubmitJob(c)
    BY <1>1, <1>2, <1>3, <2>1, <2>3, ClientKeepsLone
  <2> QED
    BY <2>2, <2>3
<1>4. CASE UdpThread
  BY <1>1, <1>2, <1>4, UdpKeepsLone
<1>5. ASSUME NEW w \in Workers, UploadThread(w)
      PROVE  Lone(c)'
  BY <1>1, <1>2, <1>5, ThreadKeepsLone
<1>6. CASE ProcessingThread
  BY <1>1, <1>2, <1>6, ProcessingKeepsLone
<1>7. CASE UNCHANGED vars
  <2>1. /\ UNCHANGED <<setting, client, number, strayed, upload_queue, backlog, worker, job, conn,
                       file, runs>>
        /\ pending_jobs' = pending_jobs /\ udp' = udp
    BY <1>7 DEF vars, clientVars, clientState, sharedVars, udpVars, workerVars, procVars
  <2>2. \A j : CountedThen(j) => Counted(j)
    BY <2>1 DEF CountedThen, Counted
  <2> QED
    BY <1>2, <2>1, <2>2, LoneStays
<1>8. ASSUME NEW d \in Clients, ReadKick(d)
      PROVE  Lone(c)'
  <2>1. d = c
    BY <1>2, <1>8 DEF ReadKick, Alone
  <2> QED
    BY <1>1, <1>2, <1>8, <2>1, KickKeepsLone
<1>9. ASSUME NEW n, SetMaxUploads(n)
      PROVE  Lone(c)'
  <2>1. /\ UNCHANGED <<setting, client, number, strayed, upload_queue, backlog, worker, job, conn,
                       file, runs>>
        /\ pending_jobs' = pending_jobs /\ udp' = udp
    BY <1>1, <1>9
       DEF SetMaxUploads, clientVars, clientState, sharedVars, udpVars, workerVars, procVars
  <2>2. \A j : CountedThen(j) => Counted(j)
    BY <2>1 DEF CountedThen, Counted
  <2> QED
    BY <1>2, <2>1, <2>2, LoneStays
<1> QED
  BY <1>3, <1>4, <1>5, <1>6, <1>7, <1>8, <1>9 DEF Next, AdminThread

(***************************************************************************)
(* No command runs on part of a file, although the job is counted as       *)
(* complete by connections and not by bytes (upload_handler.c:156), as     *)
(* long as there is one client and no transfer breaks off.                 *)
(***************************************************************************)
THEOREM LoneClientsFilesAreWhole == Spec => []OnlyWholeFilesRun
<1>1. TypeOK /\ LoneInv => OnlyWholeFilesRun
  <2> SUFFICES ASSUME TypeOK, LoneInv, NEW c \in Clients, Alone(c), Calm(c), ~setting.cut,
                      NEW n \in 1 .. number[c]
               PROVE  ToSet(runs[<<c, n>>]) \subseteq {"whole"}
    BY DEF OnlyWholeFilesRun
  <2>1. number[c] # 0
    BY SettingTypes DEF TypeOK
  <2>2. WholeFile(c)
    BY <2>1 DEF LoneInv, Lone
  <2>3. \A k \in DOMAIN runs[<<c, n>>] : runs[<<c, n>>][k] = "whole"
    BY <2>2 DEF WholeFile
  <2> QED
    BY <2>3 DEF ToSet
<1> QED
  BY TypesInitially, TypesPreserved, PlacesPreserved, BegunInitially, BegunPreserved,
     OncePreserved, UploadInitially, UploadPreserved, ResultsInitially, ResultsPreserved,
     CalmInitially, CalmPreserved, DoneInitially, DonePreserved, LoneInitially, LonePreserved, <1>1,
     PTL DEF Spec

(***************************************************************************)
(* The answers that wait at a client that is alone and has not strayed are *)
(* one, of the type it reads next, for its last job: what client.c takes   *)
(* for granted where it reads (lines 160, 285, 211 and 426).  The admin    *)
(* may kick it at any time: skipped by the wait for a JOB_RESULT that does *)
(* it no harm, anywhere else the client strays with it.                    *)
(***************************************************************************)
THEOREM LoneClientsKeepInStep == Spec => []InStep
<1>1. TypeOK /\ PlacesInv /\ ResultInv /\ CalmInv /\ LoneInv => InStep
  <2> SUFFICES ASSUME TypeOK, PlacesInv, ResultInv, CalmInv, LoneInv,
                      NEW c \in Clients, Alone(c), strayed[c] = 0
               PROVE  /\ Len(inbox[c]) <= 1
                      /\ \A m \in ToSet(inbox[c]) :
                            client[c] \notin AtMenu /\ m.type = Awaited[client[c]] /\ m.job = Job(c)
    BY DEF InStep
  <2>1. OneAnswer(c)
    BY DEF CalmInv, Orderly
  <2>2. ASSUME NEW k \in DOMAIN inbox[c]
        PROVE  /\ client[c] \notin AtMenu
               /\ inbox[c][k].type = Awaited[client[c]]
               /\ inbox[c][k].job = Job(c)
    <3>1. inbox[c][k].job \in Jobs /\ Sound(c, inbox[c][k])
      BY InboxPlaces DEF ResultInv
    <3>2. ~Silent(inbox[c][k].job)
      BY <3>1 DEF Silent, Sound
    <3>3. inbox[c][k].job = Job(c)
      BY <3>1, <3>2, LastJob DEF Sound, Calm
    <3>4. ~(client[c] = "upload" /\ inbox[c][k].type = "JOB_RESULT")
      <4>1. SUFFICES ASSUME client[c] = "upload", inbox[c][k].type = "JOB_RESULT"
                     PROVE  FALSE
        OBVIOUS
      <4>2. Served(Job(c))
        <5>1. Len(runs[Job(c)]) = 1
          BY <3>1, <3>3, <4>1 DEF Sound
        <5> QED
          BY <5>1 DEF Served
      <4>3. number[c] # 0 /\ Calm(c)
        BY <4>1 DEF PlacesInv, Calm
      <4> QED
        BY <4>1, <4>2, <4>3 DEF LoneInv, Lone, OneConnection
    <3> QED
      BY <2>1, <3>3, <3>4 DEF OneAnswer
  <2>3. \A k, m \in DOMAIN inbox[c] : k = m
    BY <2>1, <2>2 DEF OneAnswer
  <2>4. Len(inbox[c]) <= 1
    <3>1. inbox[c] \in Seq(Replies)
      BY DEF TypeOK
    <3>2. Len(inbox[c]) \in Nat /\ DOMAIN inbox[c] = 1 .. Len(inbox[c])
      BY <3>1, LenProperties
    <3>3. 1 \in DOMAIN inbox[c] /\ 2 \in DOMAIN inbox[c] => FALSE
      BY <2>3
    <3> QED
      BY <3>2, <3>3
  <2> QED
    BY <2>2, <2>4 DEF ToSet
<1> QED
  BY TypesInitially, TypesPreserved, PlacesPreserved, BegunInitially, BegunPreserved,
     OncePreserved, UploadInitially, UploadPreserved, ResultsInitially, ResultsPreserved,
     CalmInitially, CalmPreserved, DoneInitially, DonePreserved, LoneInitially, LonePreserved, <1>1,
     PTL DEF Spec

-----------------------------------------------------------------------------
(***************************************************************************)
(* What remains of two promises of the log that do not hold in general     *)
(* (upload_handler.c:122 and client.c:200).                                *)
(***************************************************************************)
ConnInv == \A w \in Workers : worker[w] \notin {"open", "receive"} => conn[w] = None

LEMMA ConnInitially == Init => ConnInv
BY DEF Init, ConnInv

LEMMA ConnPreserved == TypeOK /\ PlacesInv /\ ConnInv /\ [Next]_vars => ConnInv'
<1> SUFFICES ASSUME TypeOK, PlacesInv, ConnInv, [Next]_vars PROVE ConnInv'
  OBVIOUS
<1>1. CASE UNCHANGED workerVars
  BY <1>1 DEF workerVars, ConnInv
<1>2. ASSUME NEW w \in Workers, UploadThread(w)
      PROVE  ConnInv'
  <2>1. Others(w)
    BY <1>2, ThreadMoves
  <2>2. worker'[w] \notin {"open", "receive"} => conn'[w] = None
    BY <1>2
       DEF UploadThread, TakeUpload, FindJob, Accept, OpenFile, ReceiveFile, CountFile, Go, TypeOK,
           ConnInv
  <2> QED
    BY <2>1, <2>2 DEF ConnInv, Others
<1>3. CASE UdpThread \/ ProcessingThread
  BY <1>1, <1>3
     DEF UdpThread, MakeDirectory, AddJob, EnqueueUpload, AckUpload, HandleDownload,
         ProcessingThread, BeginPass, SkipJob, StartCommand, EndCommand, RemoveJob, EndPass
<1>4. ASSUME NEW c \in Clients, ClientStep(c) \/ Timeout(c)
      PROVE  ConnInv'
  BY <1>1, <1>4
     DEF ClientStep, Timeout, SubmitJob, ReceiveJobAck, ReceiveUploadAck, ReceiveResult,
         ReceiveDownloadAck, RetryUpload, GiveUp
<1>5. UNCHANGED restVars => UNCHANGED workerVars
  BY DEF restVars
<1> QED
  BY <1>1, <1>2, <1>3, <1>4, <1>5, AdminKeepsRest DEF Next

(***************************************************************************)
(* The connection a thread accepts is the one for its job, for a client    *)
(* that is alone and did not stray in an earlier job.                      *)
(***************************************************************************)
LoneOwnConnection == \A c \in Clients : Alone(c) /\ Calm(c) => OwnConnection

THEOREM LoneClientsOwnConnections == Spec => []LoneOwnConnection
<1>1. TypeOK /\ ConnInv /\ LoneInv => LoneOwnConnection
  <2> SUFFICES ASSUME TypeOK, ConnInv, LoneInv, NEW c \in Clients, Alone(c), Calm(c),
                      NEW w \in Workers
               PROVE  conn[w] \in {None, job[w]}
    BY DEF LoneOwnConnection, OwnConnection
  <2>1. Lone(c)
    BY DEF LoneInv
  <2>2. CASE worker[w] \in {"open", "receive"}
    <3>1. Busy(w)
      BY <2>2 DEF Busy
    <3>2. number[c] # 0
      BY <2>1, <3>1 DEF Lone, Calm, Quiet
    <3>3. conn[w] = Job(c) /\ job[w] = Job(c)
      BY <2>1, <2>2, <3>1, <3>2 DEF Lone, OwnUploads
    <3> QED
      BY <3>3
  <2>3. CASE worker[w] \notin {"open", "receive"}
    BY <2>3 DEF ConnInv
  <2> QED
    BY <2>2, <2>3
<1> QED
  BY TypesInitially, TypesPreserved, PlacesPreserved, BegunInitially, BegunPreserved,
     OncePreserved, UploadInitially, UploadPreserved, ResultsInitially, ResultsPreserved,
     CalmInitially, CalmPreserved, DoneInitially, DonePreserved, LoneInitially, LonePreserved,
     ConnInitially, ConnPreserved, <1>1, PTL DEF Spec

(***************************************************************************)
(* The JOB_RESULT a client goes on with is that of the job it waits for,   *)
(* whoever else is there, if it did not stray in an earlier job.           *)
(***************************************************************************)
CalmResultIsOfThisJob ==
    [][\A c \in Clients :
          Calm(c) /\ client[c] = "result" /\ client'[c] \in {"download", "failed"}
              => Head(inbox[c]).job = Job(c)]_vars

THEOREM CalmClientsTakeTheirResults == Spec => CalmResultIsOfThisJob
<1>1. TypeOK /\ PlacesInv /\ ResultInv /\ CalmInv /\ [Next]_vars
        => [\A c \in Clients :
               Calm(c) /\ client[c] = "result" /\ client'[c] \in {"download", "failed"}
                   => Head(inbox[c]).job = Job(c)]_vars
  <2> SUFFICES ASSUME TypeOK, PlacesInv, ResultInv, CalmInv, [Next]_vars,
                      NEW c \in Clients, Calm(c), client[c] = "result",
                      client'[c] \in {"download", "failed"}
               PROVE  Head(inbox[c]).job = Job(c)
    OBVIOUS
  <2>1. ClientStep(c) \/ Timeout(c)
    BY ClientsMove, KickEndsJob
  <2>2. inbox[c] # <<>> /\ Received(c) /\ Head(inbox[c]).type = "JOB_RESULT"
    BY <2>1
       DEF ClientStep, Timeout, SubmitJob, ReceiveJobAck, ReceiveUploadAck, ReceiveResult,
           ReceiveDownloadAck, RetryUpload, GiveUp, Become, AtMenu, TypeOK
  <2>3. 1 \in DOMAIN inbox[c] /\ Head(inbox[c]) = inbox[c][1]
    BY <2>2, TakenPlaces
  <2>4. inbox[c][1].job \in Jobs /\ Owner(inbox[c][1].job) = c /\ Begun(inbox[c][1].job)
    BY <2>3, InboxPlaces DEF ResultInv, Sound
  <2>5. ~Silent(inbox[c][1].job)
    BY <2>3, <2>4 DEF Silent
  <2> QED
    BY <2>3, <2>4, <2>5, LastJob
<1> QED
  BY TypesInitially, TypesPreserved, PlacesPreserved, BegunInitially, BegunPreserved,
     OncePreserved, UploadInitially, UploadPreserved, ResultsInitially, ResultsPreserved,
     CalmInitially, CalmPreserved, <1>1, PTL DEF Spec, CalmResultIsOfThisJob
=============================================================================
