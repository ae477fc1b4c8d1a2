------------------------ MODULE DownloadQueueProofs ------------------------
(***************************************************************************)
(* What holds of the way of a file back to its client, for any number of   *)
(* clients at any addresses, any number of requests and any initial size   *)
(* of the queue.                                                           *)
(***************************************************************************)
EXTENDS DownloadQueue, Integers, SequenceTheorems, TLAPS

(***************************************************************************)
(* What verification established still holds when the file is sent.  The   *)
(* client may have left the list in between, so that is not part of it.    *)
(***************************************************************************)
SentToAddress == thread = "send" => Ip[job.client] = Ip[conn.client]

(* A client submits a job only while it may ask for a file, and counts its requests. *)
AskedCounted ==
    \A c \in Clients : /\ client[c] = "submitting" => asked[c] < setting.requests
                       /\ client[c] = "asked" => asked[c] # 0

Inv ==
    /\ TypeOK /\ QueueFits /\ NoSleepOverJobs
    /\ SentToAddress /\ FilesStayAtAddress /\ AskedCounted

LEMMA InvInitially == Init => Inv
<1> SUFFICES ASSUME Init PROVE Inv
  OBVIOUS
<1> USE DEF Init
<1>1. /\ queue = <<>> /\ udp = <<>> /\ backlog = <<>>
      /\ \A c \in Clients : inbox[c] = <<>> /\ stored[c] = {} /\ client[c] = "idle"
  OBVIOUS
<1>2. TypeOK
  <2>1. /\ client \in [Clients -> {"idle", "submitting", "asked", "connected"}]
        /\ asked \in [Clients -> 0 .. MaxRequests]
        /\ inbox \in [Clients -> Seq(Messages)]
        /\ stored \in [Clients -> SUBSET [name : 0 .. MaxRequests, holds : Files]]
    BY RequestsAssumption
  <2>2. setting \in Settings /\ capacity \in Nat \ {0}
    BY CapacityAssumption
  <2>3. /\ listed = Clients /\ away = FALSE /\ handling = None
        /\ thread = "accept" /\ conn = None /\ job = None /\ eaten = {} /\ misled = {}
    OBVIOUS
  <2>4. queue \in Seq(Files) /\ udp \in Seq(Files) /\ backlog \in Seq(Connections)
    BY <1>1, EmptySeq
  <2> HIDE DEF Init
  <2> QED
    BY <2>1, <2>2, <2>3, <2>4 DEF TypeOK
<1>3. QueueFits
  BY <1>1, CapacityAssumption, EmptySeq DEF QueueFits
<1> QED
  BY <1>1, <1>2, <1>3 DEF Inv, NoSleepOverJobs, SentToAddress, FilesStayAtAddress, AskedCounted

(***************************************************************************)
(* Type correctness, action by action.                                     *)
(***************************************************************************)
LEMMA RecordTypes ==
    /\ \A c \in Clients, n \in 1 .. MaxRequests : File(c, n) \in Files
    /\ \A f \in Files : f.client \in Clients /\ f.number \in 1 .. MaxRequests
    /\ \A k \in Connections :
          k.client \in Clients /\ k.name \in 0 .. MaxRequests /\ k.open \in BOOLEAN
    /\ None \notin Files /\ None \notin Connections
BY NoneAssumption DEF File, Files, Connections, Numbered

LEMMA MessageTypes ==
    /\ \A ok \in BOOLEAN, n \in 1 .. MaxRequests :
          /\ DownloadAck(ok, n) \in Messages
          /\ DownloadAck(ok, n).ok = ok /\ DownloadAck(ok, n).number = n
    /\ \A ok \in BOOLEAN : JobResult(ok) \in Messages /\ JobResult(ok).number = 0
    /\ Text \in Messages /\ ~Text.ok /\ Text.number = 0
    /\ \A a \in Messages : a.ok \in BOOLEAN /\ a.number \in 0 .. MaxRequests
    /\ \A a \in Messages : a.ok /\ a.number # 0 => a.type = "DOWNLOAD_ACK"
<1>1. MaxRequests \in Nat \ {0}
  BY RequestsAssumption
<1>2. ASSUME NEW ok \in BOOLEAN, NEW n \in 1 .. MaxRequests
      PROVE  /\ DownloadAck(ok, n) \in Messages
             /\ DownloadAck(ok, n).ok = ok /\ DownloadAck(ok, n).number = n
  BY DEF DownloadAck, Messages, Numbered
<1>3. ASSUME NEW ok \in BOOLEAN PROVE JobResult(ok) \in Messages /\ JobResult(ok).number = 0
  BY DEF JobResult, Messages
<1>4. Text \in Messages /\ ~Text.ok /\ Text.number = 0
  BY DEF Text, Messages
<1>5. ASSUME NEW a \in Messages
      PROVE  /\ a.ok \in BOOLEAN /\ a.number \in 0 .. MaxRequests
             /\ a.ok /\ a.number # 0 => a.type = "DOWNLOAD_ACK"
  <2>1. CASE a \in [type : {"DOWNLOAD_ACK"}, ok : BOOLEAN, number : Numbered]
    BY <1>1, <2>1 DEF Numbered
  <2>2. CASE a \in [type : {"JOB_RESULT"}, ok : BOOLEAN, number : {0}]
    BY <1>1, <2>2
  <2>3. CASE a \in [type : {"TEXT"}, ok : {FALSE}, number : {0}]
    <3>1. a.ok = FALSE /\ a.number = 0
      BY <2>3
    <3>2. a.ok \in BOOLEAN
      BY <3>1, Zenon
    <3>3. a.number \in 0 .. MaxRequests
      BY <1>1, <3>1
    <3> QED
      BY <3>1, <3>2, <3>3, Zenon
  <2> QED
    BY <2>1, <2>2, <2>3 DEF Messages
<1> QED
  BY <1>2, <1>3, <1>4, <1>5

(* A message taken, or one put behind the others. *)
LEMMA InboxTypes ==
    ASSUME TypeOK, NEW c \in Clients
    PROVE  /\ inbox[c] # <<>> =>
                 /\ Head(inbox[c]) \in Messages
                 /\ [inbox EXCEPT ![c] = Tail(inbox[c])] \in [Clients -> Seq(Messages)]
           /\ \A m \in Messages :
                 [inbox EXCEPT ![c] = Append(inbox[c], m)] \in [Clients -> Seq(Messages)]
<1>1. inbox \in [Clients -> Seq(Messages)] /\ inbox[c] \in Seq(Messages)
  BY DEF TypeOK
<1>2. inbox[c] # <<>> => Head(inbox[c]) \in Messages /\ Tail(inbox[c]) \in Seq(Messages)
  BY <1>1, HeadTailProperties
<1>3. \A m \in Messages : Append(inbox[c], m) \in Seq(Messages)
  BY <1>1, AppendProperties
<1> QED
  BY <1>1, <1>2, <1>3

LEMMA AskedTypes ==
    ASSUME TypeOK, AskedCounted, NEW c \in Clients, client[c] = "submitting"
    PROVE  asked[c] + 1 \in 1 .. MaxRequests
<1>1. asked[c] \in Nat /\ setting.requests \in 1 .. MaxRequests
  BY RequestsAssumption, SettingsAssumption DEF TypeOK
<1>2. asked[c] < setting.requests
  BY DEF AskedCounted
<1> QED
  BY <1>1, <1>2, RequestsAssumption

LEMMA ClientTypes ==
    ASSUME TypeOK, AskedCounted, NEW c \in Clients, ClientStep(c), UNCHANGED setting
    PROVE  TypeOK'
<1> USE DEF TypeOK, Become, Received, clientVars, udpVars, queueVars, threadVars, historyVars
<1>1. CASE Submit(c) \/ SubmitFails(c) \/ GiveUp(c)
  BY <1>1 DEF Submit, SubmitFails, GiveUp
<1>2. ASSUME AskForFile(c), client[c] = "submitting"
      PROVE  /\ udp' \in Seq(Files) /\ asked' \in [Clients -> 0 .. MaxRequests]
             /\ client' \in [Clients -> {"idle", "submitting", "asked", "connected"}]
  <2>1. asked[c] + 1 \in 1 .. MaxRequests
    BY <1>2, AskedTypes
  <2>2. udp' \in Seq(Files)
    BY <1>2, <2>1, RecordTypes, AppendProperties DEF AskForFile
  <2>3. asked' \in [Clients -> 0 .. MaxRequests]
    BY <1>2, <2>1, RequestsAssumption DEF AskForFile
  <2> QED
    BY <1>2, <2>2, <2>3 DEF AskForFile
<1>3. CASE Submitted(c)
  <2>1. AskForFile(c) /\ client[c] = "submitting"
    BY <1>3 DEF Submitted
  <2> QED
    BY <1>2, <1>3, <2>1 DEF Submitted
<1>4. CASE TakenBySubmit(c)
  <2>1. /\ client[c] = "submitting"
        /\ inbox' \in [Clients -> Seq(Messages)]
        /\ eaten' \subseteq Clients
    BY <1>4, InboxTypes DEF TakenBySubmit
  <2>2. /\ udp' \in Seq(Files) /\ asked' \in [Clients -> 0 .. MaxRequests]
        /\ client' \in [Clients -> {"idle", "submitting", "asked", "connected"}]
    BY <1>2, <1>4, <2>1 DEF TakenBySubmit
  <2> QED
    BY <1>4, <2>1, <2>2 DEF TakenBySubmit
<1>5. CASE ReceiveAck(c)
  <2>1. Head(inbox[c]) \in Messages /\ inbox' \in [Clients -> Seq(Messages)]
    BY <1>5, InboxTypes DEF ReceiveAck
  <2>2. Head(inbox[c]).number \in 0 .. MaxRequests
    BY <2>1, MessageTypes
  <2>3. ASSUME Connect(c, Head(inbox[c]).number)
        PROVE  /\ backlog' \in Seq(Connections)
               /\ client' \in [Clients -> {"idle", "submitting", "asked", "connected"}]
    <3>1. PICK open \in BOOLEAN :
             /\ backlog' = Append(backlog, [client |-> c, name |-> Head(inbox[c]).number,
                                            open |-> open])
             /\ client' = [client EXCEPT ![c] = IF open THEN "connected" ELSE "idle"]
      BY <2>3 DEF Connect
    <3>2. [client |-> c, name |-> Head(inbox[c]).number, open |-> open] \in Connections
      BY <2>2 DEF Connections
    <3>3. backlog' \in Seq(Connections)
      BY <3>1, <3>2, AppendProperties
    <3> QED
      BY <3>1, <3>3
  <2>4. /\ backlog' \in Seq(Connections)
        /\ client' \in [Clients -> {"idle", "submitting", "asked", "connected"}]
        /\ misled' \subseteq Clients
    BY <1>5, <2>3 DEF ReceiveAck
  <2> QED
    BY <1>5, <2>1, <2>4 DEF ReceiveAck
<1> QED
  BY <1>1, <1>3, <1>4, <1>5 DEF ClientStep

LEMMA OutsideTypes ==
    ASSUME TypeOK, NEW c \in Clients, DropClient(c) \/ AnswersOfPipeline(c), UNCHANGED setting
    PROVE  TypeOK'
<1> USE DEF TypeOK, udpVars, queueVars, threadVars, historyVars
<1>0. /\ inbox \in [Clients -> Seq(Messages)]
      /\ \A m \in Messages :
            [inbox EXCEPT ![c] = Append(inbox[c], m)] \in [Clients -> Seq(Messages)]
  BY InboxTypes
<1>1. CASE DropClient(c)
  <2>1. inbox' \in [Clients -> Seq(Messages)]
    <3>1. Text \in Messages
      BY MessageTypes
    <3>2. inbox' = inbox \/ inbox' = [inbox EXCEPT ![c] = Append(inbox[c], Text)]
      BY <1>1 DEF DropClient
    <3> QED
      BY <1>0, <3>1, <3>2
  <2> QED
    BY <1>1, <2>1 DEF DropClient
<1>2. CASE AnswersOfPipeline(c)
  <2>1. PICK m \in Messages : PipelineAnswers(c, m)
    BY <1>2, MessageTypes DEF AnswersOfPipeline
  <2>2. inbox' \in [Clients -> Seq(Messages)]
    BY <1>0, <2>1 DEF PipelineAnswers
  <2> QED
    BY <2>1, <2>2 DEF PipelineAnswers
<1> QED
  BY <1>1, <1>2

LEMMA UdpTypes ==
    ASSUME TypeOK, UdpThread, UNCHANGED setting
    PROVE  TypeOK'
<1> USE DEF TypeOK, clientVars, udpVars, queueVars, threadVars, historyVars
<1>1. CASE AnswerRequest
  <2>1. Head(udp) \in Files /\ Tail(udp) \in Seq(Files)
    BY <1>1, HeadTailProperties DEF AnswerRequest
  <2> DEFINE c == Head(udp).client
             ack == DownloadAck(~away, Head(udp).number)
  <2>2. c \in Clients /\ ack \in Messages
    BY <2>1, RecordTypes, MessageTypes
  <2>3. inbox' = [inbox EXCEPT ![c] = Append(inbox[c], ack)] \/ inbox' = inbox
    BY <1>1 DEF AnswerRequest, Answer
  <2> HIDE DEF c, ack
  <2>4. inbox' \in [Clients -> Seq(Messages)]
    <3>1. [inbox EXCEPT ![c] = Append(inbox[c], ack)] \in [Clients -> Seq(Messages)]
      BY <2>2, InboxTypes
    <3> QED
      BY <2>3, <3>1
  <2> QED
    BY <1>1, <2>1, <2>4 DEF AnswerRequest
<1>2. CASE Enqueue
  <2>1. handling \in Files
    BY <1>2 DEF Enqueue
  <2>2. queue' \in Seq(Files)
    BY <1>2, <2>1, AppendProperties DEF Enqueue
  <2>3. capacity' \in Nat \ {0}
    BY <1>2 DEF Enqueue
  <2>4. /\ thread' \in {"accept", "test", "waiting", "verify", "send", "killed"}
        /\ thread' \in {"accept", "killed"} <=> thread \in {"accept", "killed"}
        /\ thread' \in {"verify", "send"} <=> thread \in {"verify", "send"}
    BY <1>2 DEF Enqueue, Signalled
  <2> QED
    BY <1>2, <2>2, <2>3, <2>4 DEF Enqueue
<1> QED
  BY <1>1, <1>2 DEF UdpThread

LEMMA ThreadTypes ==
    ASSUME TypeOK, DownloadThread \/ SpuriousWake \/ ChangeDirectory, UNCHANGED setting
    PROVE  TypeOK'
<1> USE DEF TypeOK, Become, clientVars, udpVars, queueVars, threadVars, historyVars
<1>1. CASE Accept
  <2>1. Head(backlog) \in Connections /\ Tail(backlog) \in Seq(Connections)
    BY <1>1, HeadTailProperties DEF Accept
  <2>2. conn' \in Connections /\ conn' # None
    BY <1>1, <2>1, RecordTypes DEF Accept
  <2> QED
    BY <1>1, <2>1, <2>2 DEF Accept
<1>2. CASE WaitForJob \/ SpuriousWake \/ Verified
  BY <1>2 DEF WaitForJob, SpuriousWake, Verified
<1>3. CASE TakeJob
  <2>1. Head(queue) \in Files /\ Tail(queue) \in Seq(Files)
    BY <1>3, HeadTailProperties DEF TakeJob
  <2>2. job' \in Files /\ job' # None
    BY <1>3, <2>1, RecordTypes DEF TakeJob
  <2> QED
    BY <1>3, <2>1, <2>2 DEF TakeJob
<1>4. CASE Reject
  <2>1. conn.client \in Clients
    BY <1>4, RecordTypes DEF Reject
  <2> QED
    BY <1>4, <2>1 DEF Reject, Close
<1>5. CASE SendFile
  <2>1. conn \in Connections /\ job \in Files
    BY <1>5 DEF SendFile
  <2>2. conn.client \in Clients
        /\ [name |-> conn.name, holds |-> job] \in [name : 0 .. MaxRequests, holds : Files]
    BY <2>1, RecordTypes
  <2>3. stored' \in [Clients -> SUBSET [name : 0 .. MaxRequests, holds : Files]]
    BY <1>5, <2>2 DEF SendFile
  <2> QED
    BY <1>5, <2>2, <2>3 DEF SendFile, Close
<1>6. CASE BrokenPipe
  <2>1. backlog' \in Seq(Connections)
    BY <1>6, EmptySeq DEF BrokenPipe
  <2>2. client' \in [Clients -> {"idle", "submitting", "asked", "connected"}]
    BY <1>6 DEF BrokenPipe
  <2> QED
    BY <1>6, <2>1, <2>2 DEF BrokenPipe
<1>7. CASE ChangeDirectory
  BY <1>7 DEF ChangeDirectory
<1> QED
  BY <1>1, <1>2, <1>3, <1>4, <1>5, <1>6, <1>7 DEF DownloadThread

LEMMA TypesPreserved == TypeOK /\ AskedCounted /\ [Next]_vars => TypeOK'
<1> SUFFICES ASSUME TypeOK, AskedCounted, [Next]_vars PROVE TypeOK'
  OBVIOUS
<1>1. CASE UNCHANGED vars
  BY <1>1 DEF vars, clientVars, udpVars, queueVars, threadVars, historyVars, TypeOK
<1>2. CASE Next
  BY <1>2, ClientTypes, OutsideTypes, UdpTypes, ThreadTypes DEF Next
<1> QED
  BY <1>1, <1>2

(***************************************************************************)
(* Only Submit makes a client submit, and only the request makes it ask.   *)
(***************************************************************************)
LEMMA CountPreserved == TypeOK /\ AskedCounted /\ [Next]_vars => AskedCounted'
<1> SUFFICES ASSUME TypeOK, AskedCounted, [Next]_vars PROVE AskedCounted'
  OBVIOUS
<1> USE DEF clientVars, udpVars, queueVars, threadVars, historyVars
<1>1. UNCHANGED setting /\ client \in [Clients -> {"idle", "submitting", "asked", "connected"}]
      /\ asked \in [Clients -> 0 .. MaxRequests]
  BY DEF Next, vars, TypeOK
<1> DEFINE Quiet == /\ asked' = asked
                    /\ \A e \in Clients : client'[e] = client[e]
                                          \/ client'[e] \in {"idle", "connected"}
<1>2. Quiet => AskedCounted'
  BY <1>1 DEF AskedCounted
<1> HIDE DEF Quiet
<1>3. ASSUME NEW c \in Clients, AskForFile(c), client[c] = "submitting" PROVE AskedCounted'
  <2>1. /\ client' = [client EXCEPT ![c] = "asked"]
        /\ asked' = [asked EXCEPT ![c] = asked[c] + 1] /\ asked[c] \in Nat
    BY <1>1, <1>3, RequestsAssumption DEF AskForFile, Become
  <2> QED
    BY <1>1, <2>1 DEF AskedCounted
<1>4. ASSUME NEW c \in Clients, ClientStep(c) PROVE AskedCounted'
  <2>1. CASE Submit(c)
    BY <1>1, <2>1 DEF Submit, Become, AskedCounted
  <2>2. CASE Submitted(c)
    BY <1>3, <2>2 DEF Submitted
  <2>3. CASE TakenBySubmit(c)
    <3>1. AskForFile(c) \/ (asked' = asked /\ (client' = client \/ Become(c, "idle")))
      BY <2>3 DEF TakenBySubmit
    <3>2. CASE AskForFile(c)
      BY <1>3, <2>3, <3>2 DEF TakenBySubmit
    <3>3. CASE asked' = asked /\ (client' = client \/ Become(c, "idle"))
      <4>1. Quiet
        BY <1>1, <3>3 DEF Quiet, Become
      <4> QED
        BY <1>2, <4>1
    <3> QED
      BY <3>1, <3>2, <3>3
  <2>4. CASE SubmitFails(c) \/ GiveUp(c)
    <3>1. Quiet
      BY <1>1, <2>4 DEF SubmitFails, GiveUp, Become, Quiet
    <3> QED
      BY <1>2, <3>1
  <2>5. CASE ReceiveAck(c)
    <3>1. asked' = asked /\ (Become(c, "idle") \/ Become(c, "connected"))
      BY <2>5 DEF ReceiveAck, Connect
    <3>2. Quiet
      BY <1>1, <3>1 DEF Become, Quiet
    <3> QED
      BY <1>2, <3>2
  <2> QED
    BY <1>4, <2>1, <2>2, <2>3, <2>4, <2>5 DEF ClientStep
<1>5. CASE Reject \/ SendFile
  <2>1. asked' = asked /\ (client' = client \/ Become(conn.client, "idle"))
    BY <1>5 DEF Reject, SendFile, Close
  <2>2. Quiet
    BY <1>1, <2>1 DEF Become, Quiet
  <2> QED
    BY <1>2, <2>2
<1>6. CASE BrokenPipe
  <2>1. Quiet
    BY <1>1, <1>6 DEF BrokenPipe, Quiet
  <2> QED
    BY <1>2, <2>1
<1>7. CASE asked' = asked /\ client' = client
  BY <1>2, <1>7 DEF Quiet
<1>8. ASSUME NEW c \in Clients, DropClient(c) \/ AnswersOfPipeline(c)
      PROVE  asked' = asked /\ client' = client
  BY <1>8 DEF DropClient, AnswersOfPipeline, PipelineAnswers
<1>9. CASE \/ UdpThread \/ Accept \/ WaitForJob \/ TakeJob \/ Verified \/ SpuriousWake
           \/ ChangeDirectory \/ UNCHANGED vars
  <2>1. asked' = asked /\ client' = client
    BY <1>9 DEF UdpThread, AnswerRequest, Enqueue, Accept, WaitForJob, TakeJob, Verified,
                SpuriousWake, ChangeDirectory, vars
  <2> QED
    BY <1>7, <2>1
<1> QED
  BY <1>4, <1>5, <1>6, <1>7, <1>8, <1>9 DEF Next, DownloadThread

(***************************************************************************)
(* The rest of the invariant: only the queue's user, the thread and the    *)
(* addresses in stored matter to it.                                       *)
(***************************************************************************)
LEMMA InvPreserved == Inv /\ [Next]_vars => Inv'
<1> SUFFICES ASSUME Inv, [Next]_vars PROVE Inv'
  OBVIOUS
<1>1. TypeOK /\ TypeOK' /\ AskedCounted'
  BY TypesPreserved, CountPreserved DEF Inv
<1>2. QueueFits /\ NoSleepOverJobs /\ SentToAddress /\ FilesStayAtAddress
  BY DEF Inv
<1>3. Len(queue) \in Nat /\ capacity \in Nat \ {0}
  BY <1>1, LenProperties DEF TypeOK
<1> USE DEF clientVars, udpVars, queueVars, threadVars, historyVars
<1>4. CASE Enqueue
  <2>1. Len(queue') = Len(queue) + 1
    BY <1>1, <1>4, AppendProperties DEF Enqueue, TypeOK
  <2>2. QueueFits'
    BY <1>2, <1>3, <1>4, <2>1 DEF Enqueue, QueueFits
  <2>3. NoSleepOverJobs' /\ SentToAddress' /\ FilesStayAtAddress'
    BY <1>2, <1>4 DEF Enqueue, Signalled, NoSleepOverJobs, SentToAddress, FilesStayAtAddress
  <2> QED
    BY <1>1, <2>2, <2>3 DEF Inv
<1>5. CASE TakeJob
  <2>1. Len(queue') = Len(queue) - 1
    BY <1>1, <1>5, HeadTailProperties DEF TakeJob, TypeOK
  <2>2. QueueFits'
    BY <1>2, <1>3, <1>5, <2>1 DEF TakeJob, QueueFits
  <2>3. NoSleepOverJobs' /\ SentToAddress' /\ FilesStayAtAddress'
    BY <1>2, <1>5 DEF TakeJob, NoSleepOverJobs, SentToAddress, FilesStayAtAddress
  <2> QED
    BY <1>1, <2>2, <2>3 DEF Inv
<1>6. CASE SendFile
  <2>1. QueueFits' /\ NoSleepOverJobs' /\ SentToAddress'
    BY <1>2, <1>6 DEF SendFile, Close, QueueFits, NoSleepOverJobs, SentToAddress
  <2>2. FilesStayAtAddress'
    <3>1. Ip[job.client] = Ip[conn.client]
      BY <1>2, <1>6 DEF SendFile, SentToAddress
    <3>2. SUFFICES ASSUME NEW c \in Clients, NEW s \in stored'[c]
                   PROVE  Ip[s.holds.client] = Ip[c]
      BY DEF FilesStayAtAddress
    <3>3. CASE s \in stored[c]
      BY <1>2, <3>3 DEF FilesStayAtAddress
    <3>4. CASE s \notin stored[c]
      <4>1. c = conn.client /\ s = [name |-> conn.name, holds |-> job]
        BY <1>1, <1>6, <3>4 DEF SendFile, TypeOK
      <4> QED
        BY <3>1, <4>1
    <3> QED
      BY <3>3, <3>4
  <2> QED
    BY <1>1, <2>1, <2>2 DEF Inv
<1>7. CASE Verified
  BY <1>1, <1>2, <1>7 DEF Verified, ClientValid, Inv, QueueFits, NoSleepOverJobs,
                          SentToAddress, FilesStayAtAddress
<1>8. CASE Accept \/ WaitForJob \/ SpuriousWake \/ Reject \/ BrokenPipe
  BY <1>1, <1>2, <1>8 DEF Accept, WaitForJob, SpuriousWake, Reject, BrokenPipe, Close, Inv,
                          QueueFits, NoSleepOverJobs, SentToAddress, FilesStayAtAddress
<1>9. CASE UNCHANGED <<stored, queueVars, threadVars>>
  BY <1>1, <1>2, <1>9 DEF Inv, QueueFits, NoSleepOverJobs, SentToAddress, FilesStayAtAddress
<1>10. ASSUME NEW c \in Clients, ClientStep(c) \/ DropClient(c) \/ AnswersOfPipeline(c)
       PROVE  UNCHANGED <<stored, queueVars, threadVars>>
  BY <1>10 DEF ClientStep, Submit, Submitted, SubmitFails, TakenBySubmit, ReceiveAck, GiveUp,
               DropClient, AnswersOfPipeline, PipelineAnswers
<1>11. CASE AnswerRequest \/ ChangeDirectory \/ UNCHANGED vars
  <2>1. UNCHANGED <<stored, queueVars, threadVars>>
    BY <1>11 DEF AnswerRequest, ChangeDirectory, vars
  <2> QED
    BY <1>9, <2>1
<1> QED
  BY <1>4, <1>5, <1>6, <1>7, <1>8, <1>9, <1>10, <1>11 DEF Next, UdpThread, DownloadThread

(***************************************************************************)
(* The state is well typed: the thread has a connection unless it waits in *)
(* accept, and a job once it has taken one (server.c:340-456).             *)
(***************************************************************************)
THEOREM DownloadTypes == Spec => []TypeOK
<1>1. Inv => TypeOK
  BY DEF Inv
<1> QED
  BY <1>1, InvInitially, InvPreserved, PTL DEF Spec

(***************************************************************************)
(* The queue never outgrows its allocation, whatever its first size        *)
(* (upload_handler.c:321-328).                                             *)
(***************************************************************************)
THEOREM QueueAlwaysFits == Spec => []QueueFits
<1>1. Inv => QueueFits
  BY DEF Inv
<1> QED
  BY <1>1, InvInitially, InvPreserved, PTL DEF Spec

(***************************************************************************)
(* No wakeup is lost: download_thread never waits while a job is queued,   *)
(* wherever it was when the job came (server.c:374-377).                   *)
(***************************************************************************)
THEOREM JobsWakeTheThread == Spec => []NoSleepOverJobs
<1>1. Inv => NoSleepOverJobs
  BY DEF Inv
<1> QED
  BY <1>1, InvInitially, InvPreserved, PTL DEF Spec

(***************************************************************************)
(* A file reaches only clients at the address of the one that asked for it *)
(* (server.c:386-407).                                                     *)
(***************************************************************************)
THEOREM FilesStay == Spec => []FilesStayAtAddress
<1>1. Inv => FilesStayAtAddress
  BY DEF Inv
<1> QED
  BY <1>1, InvInitially, InvPreserved, PTL DEF Spec

-----------------------------------------------------------------------------
(***************************************************************************)
(* The numbers in a queue of requests, connections or answers, as key      *)
(* gives them; 0 is no number.                                             *)
(***************************************************************************)
Numbers(q, key) == {key[q[i]] : i \in 1 .. Len(q)} \ {0}

Rising(q, key) ==
    \A i, j \in 1 .. Len(q) :
       i < j /\ key[q[i]] # 0 /\ key[q[j]] # 0 => key[q[i]] < key[q[j]]

Less(M, N) == \A m \in M, n \in N : m < n

LEMMA RisingTail ==
    ASSUME NEW S, NEW key \in [S -> Nat], NEW q \in Seq(S), q # <<>>, Rising(q, key)
    PROVE  /\ Rising(Tail(q), key)
           /\ Numbers(Tail(q), key) = Numbers(q, key) \ {key[Head(q)]}
           /\ key[Head(q)] # 0 => /\ key[Head(q)] \in Numbers(q, key)
                                 /\ Less({key[Head(q)]}, Numbers(Tail(q), key))
<1>1. /\ Tail(q) \in Seq(S) /\ Len(Tail(q)) = Len(q) - 1
      /\ \A i \in 1 .. Len(Tail(q)) : Tail(q)[i] = q[i + 1]
  BY HeadTailProperties
<1>2. Len(q) \in Nat \ {0} /\ Head(q) = q[1]
  BY EmptySeq
<1>3. \A i \in 1 .. Len(Tail(q)) : i + 1 \in 1 .. Len(q) /\ 1 < i + 1
  BY <1>1, <1>2
<1>4. \A i \in 1 .. Len(q) : i = 1 \/ (i - 1 \in 1 .. Len(Tail(q)) /\ Tail(q)[i - 1] = q[i])
  <2> TAKE i \in 1 .. Len(q)
  <2>1. i = 1 \/ (i - 1 \in 1 .. Len(Tail(q)) /\ (i - 1) + 1 = i)
    BY <1>1, <1>2
  <2> QED
    BY <1>1, <2>1
<1>5. Rising(Tail(q), key)
  BY <1>1, <1>3 DEF Rising
<1>6. 1 \in 1 .. Len(q) /\ \A i \in 1 .. Len(q) : key[q[i]] \in Nat
  BY <1>2, ElementOfSeq
<1>7. key[Head(q)] # 0 => /\ key[Head(q)] \in Numbers(q, key)
                         /\ Less({key[Head(q)]}, Numbers(Tail(q), key))
  <2> SUFFICES ASSUME key[Head(q)] # 0, NEW i \in 1 .. Len(Tail(q)), key[Tail(q)[i]] # 0
               PROVE  key[Head(q)] < key[Tail(q)[i]]
    BY <1>2, <1>6 DEF Numbers, Less
  <2> QED
    BY <1>1, <1>2, <1>3, <1>6 DEF Rising
<1>8. ASSUME NEW n
      PROVE  n \in Numbers(Tail(q), key) <=> n \in Numbers(q, key) /\ n # key[Head(q)]
  <2>1. ASSUME n \in Numbers(Tail(q), key)
        PROVE  n \in Numbers(q, key) /\ n # key[Head(q)]
    <3>1. PICK i \in 1 .. Len(Tail(q)) : n = key[Tail(q)[i]] /\ n # 0
      BY <2>1 DEF Numbers
    <3>2. n = key[q[i + 1]] /\ i + 1 \in 1 .. Len(q) /\ 1 < i + 1
      BY <1>1, <1>3, <3>1
    <3>3. n # key[q[1]]
      BY <1>6, <3>1, <3>2 DEF Rising
    <3> QED
      BY <1>2, <3>1, <3>2, <3>3 DEF Numbers
  <2>2. ASSUME n \in Numbers(q, key), n # key[Head(q)]
        PROVE  n \in Numbers(Tail(q), key)
    <3>1. PICK i \in 1 .. Len(q) : n = key[q[i]] /\ n # 0
      BY <2>2 DEF Numbers
    <3>2. i # 1
      BY <1>2, <2>2, <3>1
    <3> QED
      BY <1>4, <3>1, <3>2 DEF Numbers
  <2> QED
    BY <2>1, <2>2
<1> QED
  BY <1>5, <1>7, <1>8

LEMMA RisingAppend ==
    ASSUME NEW S, NEW key \in [S -> Nat], NEW q \in Seq(S), NEW e \in S, Rising(q, key),
           Less(Numbers(q, key), {key[e]} \ {0})
    PROVE  /\ Rising(Append(q, e), key)
           /\ Numbers(Append(q, e), key) = Numbers(q, key) \cup ({key[e]} \ {0})
<1>1. /\ Len(Append(q, e)) = Len(q) + 1
      /\ \A i \in 1 .. Len(q) : Append(q, e)[i] = q[i]
      /\ Append(q, e)[Len(q) + 1] = e
  BY AppendProperties
<1>2. Len(q) \in Nat
  BY LenProperties
<1>3. \A i \in 1 .. Len(q) + 1 : i \in 1 .. Len(q) \/ i = Len(q) + 1
  BY <1>2
<1>4. Len(q) + 1 \in 1 .. Len(q) + 1 /\ 1 .. Len(q) \subseteq 1 .. Len(q) + 1
  BY <1>2
<1>5. \A i \in 1 .. Len(q) : key[q[i]] \in Nat
  BY ElementOfSeq
<1>6. Rising(Append(q, e), key)
  <2> SUFFICES ASSUME NEW i \in 1 .. Len(q) + 1, NEW j \in 1 .. Len(q) + 1, i < j,
                      key[Append(q, e)[i]] # 0, key[Append(q, e)[j]] # 0
               PROVE  key[Append(q, e)[i]] < key[Append(q, e)[j]]
    BY <1>1 DEF Rising
  <2>1. i \in 1 .. Len(q)
    BY <1>2
  <2>2. CASE j \in 1 .. Len(q)
    BY <1>1, <2>1, <2>2 DEF Rising
  <2>3. CASE j = Len(q) + 1
    <3>1. key[q[i]] \in Numbers(q, key) /\ key[e] # 0
      BY <1>1, <2>1, <2>3 DEF Numbers
    <3> QED
      BY <1>1, <2>1, <2>3, <3>1 DEF Less
  <2> QED
    BY <1>3, <2>2, <2>3
<1>7. ASSUME NEW n
      PROVE  n \in Numbers(Append(q, e), key) <=> n \in Numbers(q, key) \cup ({key[e]} \ {0})
  BY <1>1, <1>3, <1>4 DEF Numbers
<1> QED
  BY <1>6, <1>7

number   == [f \in Files |-> f.number]
name     == [k \in Connections |-> k.name]
okNumber == [a \in Messages |-> IF a.ok THEN a.number ELSE 0]

LEMMA KeyTypes ==
    /\ number \in [Files -> Nat] /\ \A f \in Files : number[f] = f.number /\ f.number \in Nat \ {0}
    /\ name \in [Connections -> Nat]
    /\ \A k \in Connections : name[k] = k.name /\ k.name \in Nat
    /\ okNumber \in [Messages -> Nat]
    /\ \A a \in Messages : /\ okNumber[a] = IF a.ok THEN a.number ELSE 0
                           /\ a.number \in Nat /\ a.ok \in BOOLEAN
BY RecordTypes, MessageTypes, RequestsAssumption DEF number, name, okNumber

(***************************************************************************)
(* The names under which client c is going to store files, and the files   *)
(* it is going to be sent, from the request to the close.                  *)
(***************************************************************************)
NumbersAsked   == Numbers(udp, number)
NumberHandled  == IF handling = None THEN {} ELSE {handling.number}
NumbersQueued  == Numbers(queue, number)
NumberTaken    == IF job = None THEN {} ELSE {job.number}
NamesTold(c)   == Numbers(inbox[c], okNumber)
NamesComing    == Numbers(backlog, name)
NameConnected  == IF conn = None THEN {} ELSE {conn.name}

NamesDue(c) == NameConnected \cup NamesComing \cup NamesTold(c)
FilesDue    == NumberTaken \cup NumbersQueued \cup NumberHandled

(* When c is alone, all requests and all answers with a name are its own. *)
AllIts(c) ==
    /\ \A i \in 1 .. Len(udp) : udp[i].client = c
    /\ \A d \in Clients \ {c} : NamesTold(d) = {}

(***************************************************************************)
(* Names and files are due in the order of the requests, and for each name *)
(* that is due there is its file.                                          *)
(***************************************************************************)
InOrder(c) ==
    /\ Rising(udp, number) /\ Rising(queue, number)
    /\ Rising(backlog, name) /\ Rising(inbox[c], okNumber)
    /\ \A i \in 1 .. Len(backlog) : backlog[i].name # 0
    /\ Less(NameConnected, NamesComing) /\ Less(NameConnected, NamesTold(c))
    /\ Less(NamesComing, NamesTold(c))
    /\ Less(NumberTaken, NumbersQueued) /\ Less(NumberTaken, NumberHandled)
    /\ Less(NumbersQueued, NumberHandled)
    /\ Less(NamesDue(c), NumbersAsked)
    /\ \A n \in NamesDue(c) \cup NumbersAsked : n <= asked[c]
    /\ NamesDue(c) = FilesDue

StoredRight(c) == \A s \in stored[c] : s.name = s.holds.number

(* No message was lost, or taken for one of another kind. *)
InKind(c)   == ~setting.lossy /\ c \notin eaten \cup misled
OnCourse(c) == Running /\ InKind(c)

InStep(c)     == Alone(c) => AllIts(c) /\ (OnCourse(c) => InOrder(c))
NamesRight(c) == Alone(c) /\ InKind(c) => StoredRight(c)

LEMMA StepInitially == ASSUME Init, NEW c \in Clients PROVE InStep(c) /\ NamesRight(c)
<1>1. /\ udp = <<>> /\ queue = <<>> /\ backlog = <<>> /\ \A d \in Clients : inbox[d] = <<>>
      /\ handling = None /\ conn = None /\ job = None /\ stored[c] = {}
  BY DEF Init
<1>2. \A key : Numbers(<<>>, key) = {} /\ Rising(<<>>, key)
  BY EmptySeq DEF Numbers, Rising
<1>3. Len(<<>>) = 0
  BY EmptySeq
<1> QED
  BY <1>1, <1>2, <1>3 DEF InStep, NamesRight, AllIts, InOrder, StoredRight, Less, NumbersAsked,
         NumberHandled, NumbersQueued, NumberTaken, NamesTold, NamesComing, NameConnected,
         NamesDue, FilesDue

LEMMA NumbersAreNumbers ==
    ASSUME NEW S, NEW key \in [S -> Nat], NEW q \in Seq(S)
    PROVE  Numbers(q, key) \subseteq Nat \ {0}
BY ElementOfSeq DEF Numbers

LEMMA DueAreNumbers ==
    ASSUME TypeOK, NEW c \in Clients
    PROVE  /\ NameConnected \subseteq Nat /\ NamesComing \subseteq Nat /\ NamesTold(c) \subseteq Nat
           /\ NumberTaken \subseteq Nat /\ NumbersQueued \subseteq Nat /\ NumberHandled \subseteq Nat
           /\ NumbersAsked \subseteq Nat
           /\ asked[c] \in Nat
<1>1. /\ NamesComing \subseteq Nat /\ NamesTold(c) \subseteq Nat
      /\ NumbersQueued \subseteq Nat /\ NumbersAsked \subseteq Nat
  BY KeyTypes, NumbersAreNumbers DEF TypeOK, NamesComing, NamesTold, NumbersQueued, NumbersAsked
<1>2. NameConnected \subseteq Nat /\ NumberTaken \subseteq Nat /\ NumberHandled \subseteq Nat
  BY KeyTypes DEF TypeOK, NameConnected, NumberTaken, NumberHandled
<1>3. asked[c] \in Nat
  BY RequestsAssumption DEF TypeOK
<1> QED
  BY <1>1, <1>2, <1>3

(***************************************************************************)
(* The number of the connection at hand is that of the job at hand: each   *)
(* is the first of what is due.                                            *)
(***************************************************************************)
LEMMA HeadsAgree ==
    ASSUME TypeOK, NEW c \in Clients, InOrder(c), conn # None, job # None
    PROVE  /\ conn.name = job.number
           /\ conn.name \in Nat /\ NameConnected = {conn.name} /\ NumberTaken = {job.number}
           /\ conn.name \notin NamesComing \cup NamesTold(c)
           /\ job.number \notin NumbersQueued \cup NumberHandled
<1>1. conn \in Connections /\ job \in Files
  BY DEF TypeOK
<1>2. /\ NameConnected = {conn.name} /\ NumberTaken = {job.number}
      /\ conn.name \in Nat /\ job.number \in Nat
  BY <1>1, KeyTypes DEF NameConnected, NumberTaken
<1>3. /\ NamesComing \subseteq Nat /\ NamesTold(c) \subseteq Nat
      /\ NumbersQueued \subseteq Nat /\ NumberHandled \subseteq Nat
  BY DueAreNumbers
<1>4. /\ \A n \in NamesComing \cup NamesTold(c) : conn.name < n
      /\ \A n \in NumbersQueued \cup NumberHandled : job.number < n
  BY <1>2 DEF InOrder, Less
<1>5. {conn.name} \cup NamesComing \cup NamesTold(c)
        = {job.number} \cup NumbersQueued \cup NumberHandled
  BY <1>2 DEF NamesDue, FilesDue, InOrder
<1>6. conn.name = job.number
  BY <1>2, <1>3, <1>4, <1>5
<1> QED
  BY <1>2, <1>4, <1>6

(***************************************************************************)
(* A client that is alone now always was, and only it asks.                *)
(***************************************************************************)
LEMMA AloneBefore ==
    ASSUME TypeOK, [Next]_vars, NEW c \in Clients, Alone(c)'
    PROVE  /\ Alone(c)
           /\ \A d \in Clients : AskForFile(d) => d = c
<1> USE DEF clientVars, udpVars, queueVars, threadVars
<1>1. ASSUME NEW d \in Clients, AskForFile(d) PROVE d = c /\ Alone(c)
  <2>1. asked' = [asked EXCEPT ![d] = asked[d] + 1] /\ asked[d] \in Nat
    BY <1>1, RequestsAssumption DEF AskForFile, TypeOK
  <2>2. asked'[d] # 0
    BY <2>1 DEF TypeOK
  <2>3. d = c
    BY <2>2 DEF Alone
  <2> QED
    BY <2>1, <2>3 DEF Alone, TypeOK
<1>2. ASSUME asked' = asked PROVE Alone(c)
  BY <1>2 DEF Alone
<1>3. ASSUME NEW d \in Clients, ClientStep(d) \/ DropClient(d) \/ AnswersOfPipeline(d)
      PROVE  AskForFile(d) \/ asked' = asked
  BY <1>3 DEF ClientStep, Submit, Submitted, SubmitFails, TakenBySubmit, ReceiveAck, GiveUp,
              DropClient, AnswersOfPipeline, PipelineAnswers
<1>4. ASSUME UdpThread \/ DownloadThread \/ SpuriousWake \/ ChangeDirectory \/ UNCHANGED vars
      PROVE  asked' = asked
  BY <1>4 DEF vars, UdpThread, AnswerRequest, Enqueue, DownloadThread, Accept, WaitForJob,
              TakeJob, Reject, Verified, SendFile, BrokenPipe, SpuriousWake, ChangeDirectory
<1>5. (\E d \in Clients : AskForFile(d)) \/ asked' = asked
  BY <1>3, <1>4 DEF Next
<1> QED
  BY <1>1, <1>2, <1>5

(***************************************************************************)
(* Once off course, a client stays off it.                                 *)
(***************************************************************************)
LEMMA KindBefore ==
    ASSUME TypeOK, [Next]_vars, NEW c \in Clients
    PROVE  /\ InKind(c)' => InKind(c)
           /\ OnCourse(c)' => OnCourse(c)
<1>1. setting' = setting /\ eaten \subseteq eaten' /\ misled \subseteq misled'
  BY DEF Next, vars, historyVars, ClientStep, Submit, Submitted, SubmitFails, TakenBySubmit,
         ReceiveAck, GiveUp, DropClient, AnswersOfPipeline, PipelineAnswers, UdpThread,
         AnswerRequest, Enqueue, DownloadThread, Accept, WaitForJob, TakeJob, Reject, Verified,
         SendFile, BrokenPipe, SpuriousWake, ChangeDirectory
<1>2. Running' => Running
  BY DEF Running, Next, vars, threadVars, ClientStep, Submit, Submitted, SubmitFails,
         TakenBySubmit, ReceiveAck, GiveUp, DropClient, AnswersOfPipeline, PipelineAnswers,
         UdpThread, AnswerRequest, Enqueue, DownloadThread, Accept, WaitForJob, TakeJob,
         Reject, Verified, SendFile, BrokenPipe, SpuriousWake, ChangeDirectory, Close
<1> QED
  BY <1>1, <1>2 DEF InKind, OnCourse

(***************************************************************************)
(* What it is to take the message at the head of an inbox.                 *)
(***************************************************************************)
LEMMA InboxTaken ==
    ASSUME TypeOK, NEW d \in Clients, inbox[d] # <<>>,
           inbox' = [inbox EXCEPT ![d] = Tail(inbox[d])]
    PROVE  /\ Head(inbox[d]) \in Messages
           /\ \A e \in Clients : e # d => inbox'[e] = inbox[e] /\ NamesTold(e)' = NamesTold(e)
           /\ NamesTold(d)' \subseteq NamesTold(d)
           /\ Rising(inbox[d], okNumber) =>
                 /\ Rising(inbox'[d], okNumber)
                 /\ NamesTold(d)' = NamesTold(d) \ {okNumber[Head(inbox[d])]}
                 /\ okNumber[Head(inbox[d])] # 0 =>
                       /\ okNumber[Head(inbox[d])] \in NamesTold(d)
                       /\ Less({okNumber[Head(inbox[d])]}, NamesTold(d)')
<1>1. inbox[d] \in Seq(Messages) /\ inbox'[d] = Tail(inbox[d])
  BY DEF TypeOK
<1>2. Head(inbox[d]) \in Messages
  BY <1>1, HeadTailProperties
<1>3. ASSUME NEW e \in Clients, e # d PROVE inbox'[e] = inbox[e] /\ NamesTold(e)' = NamesTold(e)
  BY <1>3 DEF NamesTold, TypeOK
<1>4. NamesTold(d)' \subseteq NamesTold(d)
  <2>1. /\ Len(Tail(inbox[d])) = Len(inbox[d]) - 1 /\ Len(inbox[d]) \in Nat
        /\ \A i \in 1 .. Len(Tail(inbox[d])) : Tail(inbox[d])[i] = inbox[d][i + 1]
    BY <1>1, HeadTailProperties, LenProperties
  <2>2. \A i \in 1 .. Len(Tail(inbox[d])) : i + 1 \in 1 .. Len(inbox[d])
    BY <2>1
  <2> QED
    BY <1>1, <2>1, <2>2 DEF NamesTold, Numbers
<1>5. ASSUME Rising(inbox[d], okNumber)
      PROVE  /\ Rising(inbox'[d], okNumber)
             /\ NamesTold(d)' = NamesTold(d) \ {okNumber[Head(inbox[d])]}
             /\ okNumber[Head(inbox[d])] # 0 =>
                   /\ okNumber[Head(inbox[d])] \in NamesTold(d)
                   /\ Less({okNumber[Head(inbox[d])]}, NamesTold(d)')
  <2>1. /\ Rising(Tail(inbox[d]), okNumber)
        /\ Numbers(Tail(inbox[d]), okNumber)
             = Numbers(inbox[d], okNumber) \ {okNumber[Head(inbox[d])]}
        /\ okNumber[Head(inbox[d])] # 0
             => /\ okNumber[Head(inbox[d])] \in Numbers(inbox[d], okNumber)
                /\ Less({okNumber[Head(inbox[d])]}, Numbers(Tail(inbox[d]), okNumber))
    BY <1>1, <1>5, KeyTypes, RisingTail
  <2> QED
    BY <1>1, <2>1 DEF NamesTold
<1> QED
  BY <1>2, <1>3, <1>4, <1>5

(***************************************************************************)
(* A request: its number is greater than all that is due.                  *)
(***************************************************************************)
LEMMA AskedInOrder ==
    ASSUME TypeOK, AskedCounted, NEW c \in Clients, client[c] = "submitting", InOrder(c),
           AskForFile(c), NamesTold(c)' = NamesTold(c), Rising(inbox'[c], okNumber),
           UNCHANGED <<handling, queueVars, backlog, threadVars>>
    PROVE  InOrder(c)'
<1> DEFINE f == File(c, asked[c] + 1)
<1>1. /\ f \in Files /\ f.number = asked[c] + 1
      /\ udp' = Append(udp, f) /\ udp \in Seq(Files)
      /\ asked' = [asked EXCEPT ![c] = asked[c] + 1]
  <2>1. f \in Files /\ f.number = asked[c] + 1
    BY AskedTypes, RecordTypes DEF File
  <2> QED
    BY <2>1 DEF AskForFile, TypeOK
<1>2. /\ NameConnected' = NameConnected /\ NamesComing' = NamesComing
      /\ NumberTaken' = NumberTaken /\ NumbersQueued' = NumbersQueued
      /\ NumberHandled' = NumberHandled
      /\ queue' = queue /\ backlog' = backlog
  BY DEF queueVars, threadVars, NameConnected, NamesComing, NumberTaken, NumbersQueued,
         NumberHandled
<1>3. NamesDue(c)' = NamesDue(c) /\ FilesDue' = FilesDue
  BY <1>2 DEF NamesDue, FilesDue
<1>4. /\ NamesDue(c) \subseteq Nat /\ NumbersAsked \subseteq Nat /\ asked[c] \in Nat
      /\ asked'[c] = asked[c] + 1
  BY <1>1, DueAreNumbers DEF TypeOK, NamesDue
<1>5. number[f] = asked[c] + 1 /\ Less(NumbersAsked, {number[f]})
  BY <1>1, <1>4, KeyTypes DEF InOrder, Less
<1>6. Rising(udp', number) /\ NumbersAsked' = NumbersAsked \cup {asked[c] + 1}
  <2>1. Rising(udp, number) /\ Less(Numbers(udp, number), {number[f]} \ {0})
    BY <1>5 DEF InOrder, NumbersAsked, Less
  <2> HIDE DEF f
  <2>2. /\ Rising(Append(udp, f), number)
        /\ Numbers(Append(udp, f), number) = Numbers(udp, number) \cup ({number[f]} \ {0})
    <3>1. udp \in Seq(Files) /\ f \in Files /\ number \in [Files -> Nat]
      BY <1>1, KeyTypes
    <3> QED
      BY <2>1, <3>1, RisingAppend
  <2>3. {number[f]} \ {0} = {asked[c] + 1}
    BY <1>4, <1>5
  <2> QED
    BY <1>1, <2>2, <2>3 DEF NumbersAsked
<1>7. Less(NamesDue(c), NumbersAsked \cup {asked[c] + 1})
  BY <1>4 DEF InOrder, Less
<1>8. \A n \in NamesDue(c) \cup NumbersAsked \cup {asked[c] + 1} : n <= asked[c] + 1
  <2>1. \A n \in NamesDue(c) \cup NumbersAsked : n \in Nat /\ n <= asked[c]
    BY <1>4 DEF InOrder
  <2> QED
    BY <1>4, <2>1
<1> QED
  BY <1>2, <1>3, <1>4, <1>6, <1>7, <1>8 DEF InOrder

(***************************************************************************)
(* submit_job: what it takes was not the answer with a name, unless the    *)
(* client goes off course, and a request may follow.                       *)
(***************************************************************************)
LEMMA SubmitInStep ==
    ASSUME TypeOK, AskedCounted, NEW c \in Clients, Alone(c), InStep(c), NEW d \in Clients,
           Submitted(d) \/ TakenBySubmit(d), AskForFile(d) => d = c,
           OnCourse(c)' => OnCourse(c)
    PROVE  InStep(c)'
<1>1. /\ client[d] = "submitting" /\ inbox \in [Clients -> Seq(Messages)]
      /\ \/ inbox' = inbox
         \/ /\ inbox[d] # <<>>
            /\ inbox' = [inbox EXCEPT ![d] = Tail(inbox[d])]
            /\ eaten' = IF Head(inbox[d]).ok /\ Head(inbox[d]).type = "DOWNLOAD_ACK"
                        THEN eaten \cup {d} ELSE eaten
      /\ AskForFile(d) \/ (udp' = udp /\ asked' = asked)
      /\ UNCHANGED <<handling, queueVars, backlog, threadVars>>
  BY DEF Submitted, TakenBySubmit, Received, TypeOK
<1>2. ASSUME NEW e \in Clients PROVE NamesTold(e)' \subseteq NamesTold(e)
  BY <1>1, InboxTaken DEF NamesTold
<1>3. AllIts(c)'
  <2>1. AllIts(c)
    BY DEF InStep
  <2>2. \A i \in 1 .. Len(udp') : udp'[i].client = c
    <3>1. CASE udp' = udp
      BY <2>1, <3>1 DEF AllIts
    <3>2. CASE AskForFile(d)
      <4> DEFINE f == File(c, asked[c] + 1)
      <4>1. /\ f \in Files /\ f.client = c
            /\ udp' = Append(udp, f) /\ udp \in Seq(Files)
        <5>1. d = c /\ asked[c] + 1 \in 1 .. MaxRequests
          BY <1>1, <3>2, AskedTypes
        <5> QED
          BY <3>2, <5>1, RecordTypes DEF AskForFile, File, TypeOK
      <4> HIDE DEF f
      <4>2. /\ Len(udp') = Len(udp) + 1 /\ Len(udp) \in Nat /\ udp'[Len(udp) + 1] = f
            /\ \A i \in 1 .. Len(udp) : udp'[i] = udp[i]
        BY <4>1, AppendProperties, LenProperties
      <4>3. \A i \in 1 .. Len(udp') : i = Len(udp) + 1 \/ i \in 1 .. Len(udp)
        BY <4>2
      <4>4. \A i \in 1 .. Len(udp) : udp[i].client = c
        BY <2>1 DEF AllIts
      <4> QED
        BY <4>1, <4>2, <4>3, <4>4
    <3> QED
      BY <1>1, <3>1, <3>2
  <2> QED
    BY <1>2, <2>1, <2>2 DEF AllIts
<1>4. ASSUME OnCourse(c)' PROVE InOrder(c)'
  <2>1. InOrder(c) /\ Rising(inbox[c], okNumber)
    BY <1>4 DEF InStep, InOrder
  <2>2. NamesTold(c)' = NamesTold(c) /\ Rising(inbox'[c], okNumber)
    <3>1. CASE inbox' = inbox
      BY <2>1, <3>1 DEF NamesTold
    <3>2. CASE inbox' # inbox /\ d # c
      BY <1>1, <2>1, <3>2, InboxTaken
    <3>3. CASE inbox' # inbox /\ d = c
      <4>1. /\ Head(inbox[c]) \in Messages /\ Rising(inbox'[c], okNumber)
            /\ NamesTold(c)' = NamesTold(c) \ {okNumber[Head(inbox[c])]}
        BY <1>1, <2>1, <3>3, InboxTaken
      <4>2. ~(Head(inbox[c]).ok /\ Head(inbox[c]).type = "DOWNLOAD_ACK")
        BY <1>1, <1>4, <3>3 DEF OnCourse, InKind
      <4>3. okNumber[Head(inbox[c])] = 0
        BY <4>1, <4>2, KeyTypes, MessageTypes
      <4>4. 0 \notin NamesTold(c)
        BY DEF NamesTold, Numbers
      <4> QED
        BY <4>1, <4>3, <4>4
    <3> QED
      BY <3>1, <3>2, <3>3
  <2>3. CASE AskForFile(d)
    <3>1. d = c
      BY <2>3
    <3> QED
      BY <1>1, <2>1, <2>2, <2>3, <3>1, AskedInOrder
  <2>4. CASE udp' = udp /\ asked' = asked
    <3>1. /\ NameConnected' = NameConnected /\ NamesComing' = NamesComing
          /\ NumberTaken' = NumberTaken /\ NumbersQueued' = NumbersQueued
          /\ NumberHandled' = NumberHandled /\ NumbersAsked' = NumbersAsked
          /\ queue' = queue /\ backlog' = backlog
      BY <1>1, <2>4 DEF queueVars, threadVars, NameConnected, NamesComing, NumberTaken,
                        NumbersQueued, NumberHandled, NumbersAsked
    <3>2. NamesDue(c)' = NamesDue(c) /\ FilesDue' = FilesDue
      BY <2>2, <3>1 DEF NamesDue, FilesDue
    <3> QED
      BY <2>1, <2>2, <2>4, <3>1, <3>2 DEF InOrder
  <2> QED
    BY <1>1, <2>3, <2>4
<1> QED
  BY <1>3, <1>4 DEF InStep

(***************************************************************************)
(* download_file takes the answer with the first name that is told, or one *)
(* without a name.                                                         *)
(***************************************************************************)
LEMMA TakeAckInStep ==
    ASSUME TypeOK, AskedCounted, NEW c \in Clients, Alone(c), InStep(c), NEW d \in Clients,
           ReceiveAck(d), OnCourse(c)' => OnCourse(c)
    PROVE  InStep(c)'
<1> DEFINE a == Head(inbox[c])
<1>1. d = c
  BY DEF Alone, ReceiveAck, AskedCounted
<1>2. /\ inbox[c] # <<>> /\ inbox' = [inbox EXCEPT ![c] = Tail(inbox[c])]
      /\ a \in Messages /\ backlog \in Seq(Connections)
  <2>1. inbox[c] # <<>> /\ inbox' = [inbox EXCEPT ![c] = Tail(inbox[c])]
    BY <1>1 DEF ReceiveAck, Received
  <2> QED
    BY <2>1, InboxTaken DEF TypeOK
<1>3. /\ NameConnected' = NameConnected /\ NumbersAsked' = NumbersAsked
      /\ NumberTaken' = NumberTaken /\ NumbersQueued' = NumbersQueued
      /\ NumberHandled' = NumberHandled
      /\ queue' = queue /\ udp' = udp /\ asked' = asked
  BY DEF ReceiveAck, udpVars, queueVars, threadVars, NameConnected, NumberTaken, NumbersQueued,
         NumberHandled, NumbersAsked
<1>4. FilesDue' = FilesDue
  BY <1>3 DEF FilesDue
<1>5. \/ /\ a.ok /\ Connect(c, a.number)
         /\ misled' = IF a.number = 0 THEN misled \cup {c} ELSE misled
      \/ ~(a.ok /\ Running) /\ backlog' = backlog
  BY <1>1 DEF ReceiveAck
<1>6. okNumber[a] = IF a.ok THEN a.number ELSE 0
  BY <1>2, KeyTypes
<1>7. /\ \A e \in Clients : NamesTold(e)' \subseteq NamesTold(e)
      /\ Rising(inbox[c], okNumber) =>
            /\ Rising(inbox'[c], okNumber)
            /\ NamesTold(c)' = NamesTold(c) \ {okNumber[a]}
            /\ okNumber[a] # 0 => okNumber[a] \in NamesTold(c) /\ Less({okNumber[a]}, NamesTold(c)')
  BY <1>2, InboxTaken
<1> HIDE DEF a
<1>8. AllIts(c)'
  BY <1>3, <1>7 DEF InStep, AllIts
<1>9. ASSUME OnCourse(c)' PROVE InOrder(c)'
  <2>1. InOrder(c) /\ Rising(inbox[c], okNumber) /\ Running
    BY <1>9 DEF InStep, InOrder, OnCourse
  <2>2. CASE a.ok /\ Connect(c, a.number)
    <3>1. a.number \in Nat \ {0} /\ okNumber[a] = a.number /\ a.number \in NamesTold(c)
          /\ Less({a.number}, NamesTold(c)')
      BY <1>2, <1>5, <1>6, <1>7, <1>9, <2>1, <2>2, KeyTypes DEF OnCourse, InKind
    <3>2. PICK k \in Connections : backlog' = Append(backlog, k) /\ k.name = a.number
      <4>1. a.number \in 0 .. MaxRequests
        BY <1>2, MessageTypes
      <4>2. PICK open \in BOOLEAN :
               backlog' = Append(backlog, [client |-> c, name |-> a.number, open |-> open])
        BY <2>2 DEF Connect
      <4>3. [client |-> c, name |-> a.number, open |-> open] \in Connections
        BY <4>1 DEF Connections
      <4> QED
        BY <4>2, <4>3
    <3>3. name[k] = a.number /\ Less(NamesComing, {name[k]})
      <4>1. name[k] = a.number
        BY <3>2, KeyTypes
      <4> QED
        BY <2>1, <3>1, <4>1 DEF InOrder, Less
    <3>4. Rising(backlog', name) /\ NamesComing' = NamesComing \cup {a.number}
      <4>1. Rising(backlog, name) /\ Less(Numbers(backlog, name), {name[k]} \ {0})
        BY <2>1, <3>3 DEF InOrder, NamesComing, Less
      <4>2. /\ Rising(Append(backlog, k), name)
            /\ Numbers(Append(backlog, k), name) = Numbers(backlog, name) \cup ({name[k]} \ {0})
        <5>1. backlog \in Seq(Connections) /\ k \in Connections /\ name \in [Connections -> Nat]
          BY <1>2, KeyTypes
        <5> QED
          BY <4>1, <5>1, RisingAppend
      <4>3. {name[k]} \ {0} = {a.number}
        BY <3>1, <3>3
      <4> QED
        BY <3>2, <4>2, <4>3 DEF NamesComing
    <3>5. \A i \in 1 .. Len(backlog') : backlog'[i].name # 0
      <4>1. /\ Len(backlog') = Len(backlog) + 1 /\ Len(backlog) \in Nat
            /\ backlog'[Len(backlog) + 1] = k
            /\ \A i \in 1 .. Len(backlog) : backlog'[i] = backlog[i]
        BY <1>2, <3>2, AppendProperties, LenProperties
      <4>2. \A i \in 1 .. Len(backlog') : i = Len(backlog) + 1 \/ i \in 1 .. Len(backlog)
        BY <4>1
      <4>3. k.name # 0 /\ \A i \in 1 .. Len(backlog) : backlog[i].name # 0
        BY <2>1, <3>1, <3>2 DEF InOrder
      <4> QED
        BY <4>1, <4>2, <4>3
    <3>6. NamesTold(c)' = NamesTold(c) \ {a.number} /\ Rising(inbox'[c], okNumber)
      BY <1>7, <2>1, <3>1
    <3>7. NamesDue(c)' = NamesDue(c)
      BY <1>3, <3>1, <3>4, <3>6 DEF NamesDue
    <3>8. /\ Less(NameConnected, NamesComing') /\ Less(NameConnected, NamesTold(c)')
          /\ Less(NamesComing', NamesTold(c)')
      BY <2>1, <3>1, <3>4, <3>6 DEF InOrder, Less
    <3> QED
      BY <1>3, <1>4, <2>1, <3>4, <3>5, <3>6, <3>7, <3>8 DEF InOrder
  <2>3. CASE ~a.ok /\ backlog' = backlog
    <3>1. okNumber[a] = 0 /\ 0 \notin NamesTold(c)
      BY <1>6, <2>3 DEF NamesTold, Numbers
    <3>2. NamesTold(c)' = NamesTold(c) /\ Rising(inbox'[c], okNumber)
          /\ NamesComing' = NamesComing
      BY <1>7, <2>1, <2>3, <3>1 DEF NamesComing
    <3>3. NamesDue(c)' = NamesDue(c)
      BY <1>3, <3>2 DEF NamesDue
    <3> QED
      BY <1>3, <1>4, <2>1, <2>3, <3>2, <3>3 DEF InOrder
  <2> QED
    BY <1>5, <2>1, <2>2, <2>3
<1> QED
  BY <1>8, <1>9 DEF InStep

(***************************************************************************)
(* The answer is sent before the job is queued, and both follow all the    *)
(* earlier ones.                                                           *)
(***************************************************************************)
LEMMA AnswerInStep ==
    ASSUME TypeOK, NEW c \in Clients, Alone(c), InStep(c), AnswerRequest, OnCourse(c)' => OnCourse(c)
    PROVE  InStep(c)'
<1> DEFINE f == Head(udp)
           a == DownloadAck(~away, f.number)
<1>1. /\ udp \in Seq(Files) /\ udp # <<>> /\ f \in Files /\ udp' = Tail(udp)
      /\ f = udp[1] /\ Len(udp) \in Nat \ {0}
  <2>1. udp \in Seq(Files) /\ udp # <<>> /\ udp' = Tail(udp)
    BY DEF AnswerRequest, TypeOK
  <2> QED
    BY <2>1, HeadTailProperties, EmptySeq
<1>2. f.client = c
  <2>1. \A i \in 1 .. Len(udp) : udp[i].client = c
    BY DEF InStep, AllIts
  <2> QED
    BY <1>1, <2>1
<1>3. a \in Messages /\ okNumber[a] = (IF away THEN 0 ELSE f.number)
      /\ number[f] = f.number /\ f.number \in Nat \ {0}
  <2>1. f.number \in 1 .. MaxRequests /\ away \in BOOLEAN
    BY <1>1, RecordTypes DEF TypeOK
  <2>2. a \in Messages /\ a.ok = ~away /\ a.number = f.number
    BY <2>1, MessageTypes
  <2> QED
    BY <1>1, <2>2, KeyTypes
<1>4. /\ handling = None
      /\ handling' = IF away THEN None ELSE f
      /\ \/ inbox' = [inbox EXCEPT ![c] = Append(inbox[c], a)]
         \/ setting.lossy /\ inbox' = inbox
  BY <1>2 DEF AnswerRequest, Answer
<1> HIDE DEF f, a
<1>5. /\ NameConnected' = NameConnected /\ NamesComing' = NamesComing
      /\ NumberTaken' = NumberTaken /\ NumbersQueued' = NumbersQueued
      /\ queue' = queue /\ backlog' = backlog /\ asked' = asked
  BY DEF AnswerRequest, queueVars, threadVars, NameConnected, NamesComing, NumberTaken,
         NumbersQueued
<1>6. AllIts(c)'
  <2>1. \A d \in Clients \ {c} : NamesTold(d)' = {}
    BY <1>4 DEF InStep, AllIts, NamesTold, TypeOK
  <2>2. \A i \in 1 .. Len(udp') : i + 1 \in 1 .. Len(udp) /\ udp'[i] = udp[i + 1]
    <3>1. /\ Len(Tail(udp)) = Len(udp) - 1
          /\ \A i \in 1 .. Len(Tail(udp)) : Tail(udp)[i] = udp[i + 1]
      BY <1>1, HeadTailProperties
    <3> QED
      BY <1>1, <3>1
  <2>3. \A i \in 1 .. Len(udp') : udp'[i].client = c
    BY <2>2 DEF InStep, AllIts
  <2> QED
    BY <2>1, <2>3 DEF AllIts
<1>7. ASSUME OnCourse(c)' PROVE InOrder(c)'
  <2>1. InOrder(c) /\ ~setting.lossy
    BY <1>7 DEF InStep, OnCourse, InKind
  <2>2. inbox[c] \in Seq(Messages) /\ inbox'[c] = Append(inbox[c], a)
    BY <1>4, <2>1 DEF TypeOK
  <2>3. /\ Rising(udp', number)
        /\ NumbersAsked' = NumbersAsked \ {f.number}
        /\ f.number \in NumbersAsked /\ Less({f.number}, NumbersAsked')
    <3>1. Rising(udp, number) /\ number \in [Files -> Nat]
      BY <2>1, KeyTypes DEF InOrder
    <3>2. /\ Rising(Tail(udp), number)
          /\ Numbers(Tail(udp), number) = Numbers(udp, number) \ {number[Head(udp)]}
          /\ number[Head(udp)] # 0 => /\ number[Head(udp)] \in Numbers(udp, number)
                                     /\ Less({number[Head(udp)]}, Numbers(Tail(udp), number))
      BY <1>1, <3>1, RisingTail
    <3> QED
      BY <1>1, <1>3, <3>2 DEF NumbersAsked, f
  <2>4. /\ Less(NamesDue(c), {f.number}) /\ f.number <= asked[c]
        /\ Less(NamesDue(c), NumbersAsked')
    BY <2>1, <2>3 DEF InOrder, Less
  <2>5. Less(NamesTold(c), {f.number}) /\ Less(NamesComing, {f.number})
        /\ Less(NameConnected, {f.number})
    BY <2>4 DEF NamesDue, Less
  <2>6. /\ Rising(inbox'[c], okNumber)
        /\ NamesTold(c)' = NamesTold(c) \cup (IF away THEN {} ELSE {f.number})
    <3>1. /\ okNumber \in [Messages -> Nat] /\ Rising(inbox[c], okNumber)
          /\ Less(Numbers(inbox[c], okNumber), {okNumber[a]} \ {0})
      BY <1>3, <2>1, <2>5, KeyTypes DEF InOrder, NamesTold, Less
    <3>2. /\ Rising(Append(inbox[c], a), okNumber)
          /\ Numbers(Append(inbox[c], a), okNumber)
               = Numbers(inbox[c], okNumber) \cup ({okNumber[a]} \ {0})
      <4>1. a \in Messages /\ inbox[c] \in Seq(Messages)
        BY <1>3, <2>2
      <4> QED
        BY <3>1, <4>1, RisingAppend
    <3>3. {okNumber[a]} \ {0} = IF away THEN {} ELSE {f.number}
      BY <1>3
    <3> QED
      BY <2>2, <3>2, <3>3 DEF NamesTold
  <2>7. NumberHandled = {} /\ NumberHandled' = IF away THEN {} ELSE {f.number}
    <3>1. f # None
      BY <1>1, RecordTypes
    <3> QED
      BY <1>4, <3>1 DEF NumberHandled
  <2>8. /\ NamesDue(c)' = NamesDue(c) \cup (IF away THEN {} ELSE {f.number})
        /\ FilesDue' = FilesDue \cup (IF away THEN {} ELSE {f.number})
    BY <1>5, <2>6, <2>7 DEF NamesDue, FilesDue
  <2>9. /\ Less(NameConnected, NamesTold(c)') /\ Less(NamesComing, NamesTold(c)')
        /\ Less(NamesDue(c)', NumbersAsked')
    BY <2>1, <2>3, <2>4, <2>5, <2>6, <2>8 DEF InOrder, Less
  <2>10. Less(NumberTaken, NumberHandled') /\ Less(NumbersQueued, NumberHandled')
    <3>1. NumberTaken \subseteq NamesDue(c) /\ NumbersQueued \subseteq NamesDue(c)
      BY <2>1 DEF InOrder, FilesDue
    <3> QED
      BY <2>4, <2>7, <3>1 DEF Less
  <2>11. \A n \in NamesDue(c)' \cup NumbersAsked' : n <= asked[c]
    BY <2>1, <2>3, <2>4, <2>8 DEF InOrder
  <2>12. NamesDue(c)' = FilesDue'
    BY <2>1, <2>8 DEF InOrder
  <2>13. /\ Rising(queue', number) /\ Rising(backlog', name)
         /\ \A i \in 1 .. Len(backlog') : backlog'[i].name # 0
         /\ Less(NameConnected', NamesComing') /\ Less(NumberTaken', NumbersQueued')
    BY <1>5, <2>1 DEF InOrder
  <2> QED
    BY <1>5, <2>3, <2>6, <2>9, <2>10, <2>11, <2>12, <2>13 DEF InOrder
<1> QED
  BY <1>6, <1>7 DEF InStep

LEMMA EnqueueInStep ==
    ASSUME TypeOK, NEW c \in Clients, Alone(c), InStep(c), Enqueue, OnCourse(c)' => OnCourse(c)
    PROVE  InStep(c)'
<1>1. /\ handling \in Files /\ handling # None /\ handling' = None
      /\ queue \in Seq(Files) /\ queue' = Append(queue, handling)
  BY DEF Enqueue, TypeOK
<1>2. number[handling] = handling.number /\ handling.number \in Nat \ {0}
  BY <1>1, KeyTypes
<1>3. /\ NameConnected' = NameConnected /\ NamesComing' = NamesComing
      /\ \A d \in Clients : NamesTold(d)' = NamesTold(d)
      /\ NumberTaken' = NumberTaken /\ NumbersAsked' = NumbersAsked
      /\ udp' = udp /\ backlog' = backlog /\ inbox' = inbox
      /\ asked' = asked
  BY DEF Enqueue, clientVars, NameConnected, NamesComing, NamesTold, NumberTaken, NumbersAsked
<1>4. AllIts(c)'
  BY <1>3 DEF InStep, AllIts
<1>5. ASSUME OnCourse(c)' PROVE InOrder(c)'
  <2>1. InOrder(c)
    BY <1>5 DEF InStep
  <2>2. NumberHandled = {handling.number} /\ NumberHandled' = {}
    BY <1>1 DEF NumberHandled
  <2>3. Rising(queue', number) /\ NumbersQueued' = NumbersQueued \cup {handling.number}
    <3>1. /\ number \in [Files -> Nat] /\ Rising(queue, number)
          /\ Less(Numbers(queue, number), {number[handling]} \ {0})
      BY <1>2, <2>1, <2>2, KeyTypes DEF InOrder, NumbersQueued, Less
    <3>2. /\ Rising(Append(queue, handling), number)
          /\ Numbers(Append(queue, handling), number)
               = Numbers(queue, number) \cup ({number[handling]} \ {0})
      BY <1>1, <3>1, RisingAppend
    <3> QED
      BY <1>1, <1>2, <3>2 DEF NumbersQueued
  <2>4. NamesDue(c)' = NamesDue(c) /\ FilesDue' = FilesDue
    BY <1>3, <2>2, <2>3 DEF NamesDue, FilesDue
  <2>5. /\ Less(NumberTaken, NumbersQueued') /\ Less(NumberTaken, NumberHandled')
        /\ Less(NumbersQueued', NumberHandled')
    BY <2>1, <2>2, <2>3 DEF InOrder, Less
  <2> QED
    BY <1>3, <2>1, <2>3, <2>4, <2>5 DEF InOrder
<1> QED
  BY <1>4, <1>5 DEF InStep

(***************************************************************************)
(* The thread takes connections and jobs in the order they are due.        *)
(***************************************************************************)
LEMMA AcceptInStep ==
    ASSUME TypeOK, NEW c \in Clients, Alone(c), InStep(c), Accept, OnCourse(c)' => OnCourse(c)
    PROVE  InStep(c)'
<1>1. /\ backlog \in Seq(Connections) /\ backlog # <<>> /\ backlog' = Tail(backlog)
      /\ conn = None /\ conn' = Head(backlog)
  BY DEF Accept, TypeOK
<1>2. /\ conn' \in Connections /\ conn' # None
      /\ name[conn'] = conn'.name /\ conn'.name \in Nat
  <2>1. conn' \in Connections
    BY <1>1, HeadTailProperties
  <2> QED
    BY <2>1, RecordTypes, KeyTypes
<1>3. /\ NumberTaken' = NumberTaken /\ NumbersAsked' = NumbersAsked
      /\ NumberHandled' = NumberHandled /\ NumbersQueued' = NumbersQueued
      /\ \A d \in Clients : NamesTold(d)' = NamesTold(d)
      /\ udp' = udp /\ queue' = queue /\ inbox' = inbox
      /\ asked' = asked
  BY DEF Accept, clientVars, udpVars, queueVars, NamesTold, NumberTaken, NumbersAsked,
         NumberHandled, NumbersQueued
<1>4. AllIts(c)'
  BY <1>3 DEF InStep, AllIts
<1>5. ASSUME OnCourse(c)' PROVE InOrder(c)'
  <2>1. InOrder(c)
    BY <1>5 DEF InStep
  <2>2. NameConnected = {} /\ NameConnected' = {conn'.name}
    BY <1>1, <1>2 DEF NameConnected
  <2> DEFINE NoneUnnamed(q) == \A i \in 1 .. Len(q) : q[i].name # 0
  <2>6. conn'.name # 0 /\ NoneUnnamed(backlog')
    <3>1. /\ Len(Tail(backlog)) = Len(backlog) - 1 /\ Len(backlog) \in Nat \ {0}
          /\ Head(backlog) = backlog[1]
          /\ \A i \in 1 .. Len(Tail(backlog)) : Tail(backlog)[i] = backlog[i + 1]
      BY <1>1, HeadTailProperties, LenProperties, EmptySeq
    <3>2. 1 \in 1 .. Len(backlog)
          /\ \A i \in 1 .. Len(Tail(backlog)) : i + 1 \in 1 .. Len(backlog)
      BY <3>1
    <3> QED
      BY <1>1, <2>1, <3>1, <3>2 DEF InOrder
  <2>3. /\ Rising(backlog', name) /\ NamesComing' = NamesComing \ {conn'.name}
        /\ conn'.name \in NamesComing /\ Less({conn'.name}, NamesComing')
    <3>1. name \in [Connections -> Nat] /\ Rising(backlog, name)
      BY <2>1, KeyTypes DEF InOrder
    <3>2. /\ Rising(Tail(backlog), name)
          /\ Numbers(Tail(backlog), name) = Numbers(backlog, name) \ {name[Head(backlog)]}
          /\ name[Head(backlog)] # 0
               => /\ name[Head(backlog)] \in Numbers(backlog, name)
                  /\ Less({name[Head(backlog)]}, Numbers(Tail(backlog), name))
      BY <1>1, <3>1, RisingTail
    <3> QED
      BY <1>1, <1>2, <2>6, <3>2 DEF NamesComing
  <2>4. NamesDue(c)' = NamesDue(c) /\ FilesDue' = FilesDue
    BY <1>3, <2>2, <2>3 DEF NamesDue, FilesDue
  <2>5. /\ Less(NameConnected', NamesComing') /\ Less(NameConnected', NamesTold(c)')
        /\ Less(NamesComing', NamesTold(c)')
    BY <1>3, <2>1, <2>2, <2>3 DEF InOrder, Less
  <2> QED
    BY <1>3, <2>1, <2>3, <2>4, <2>5, <2>6 DEF InOrder
<1> QED
  BY <1>4, <1>5 DEF InStep

LEMMA TakeJobInStep ==
    ASSUME TypeOK, NEW c \in Clients, Alone(c), InStep(c), TakeJob, OnCourse(c)' => OnCourse(c)
    PROVE  InStep(c)'
<1>1. /\ queue \in Seq(Files) /\ queue # <<>> /\ queue' = Tail(queue)
      /\ job = None /\ job' = Head(queue)
  BY DEF TakeJob, TypeOK
<1>2. /\ job' \in Files /\ job' # None
      /\ number[job'] = job'.number /\ job'.number \in Nat \ {0}
  <2>1. job' \in Files
    BY <1>1, HeadTailProperties
  <2> QED
    BY <2>1, RecordTypes, KeyTypes
<1>3. /\ NumbersAsked' = NumbersAsked /\ NumberHandled' = NumberHandled
      /\ NameConnected' = NameConnected /\ NamesComing' = NamesComing
      /\ \A d \in Clients : NamesTold(d)' = NamesTold(d)
      /\ udp' = udp /\ backlog' = backlog /\ inbox' = inbox
      /\ asked' = asked
  BY DEF TakeJob, clientVars, udpVars, NamesTold, NumbersAsked, NumberHandled, NameConnected,
         NamesComing
<1>4. AllIts(c)'
  BY <1>3 DEF InStep, AllIts
<1>5. ASSUME OnCourse(c)' PROVE InOrder(c)'
  <2>1. InOrder(c)
    BY <1>5 DEF InStep
  <2>2. NumberTaken = {} /\ NumberTaken' = {job'.number}
    BY <1>1, <1>2 DEF NumberTaken
  <2>3. /\ Rising(queue', number) /\ NumbersQueued' = NumbersQueued \ {job'.number}
        /\ job'.number \in NumbersQueued /\ Less({job'.number}, NumbersQueued')
    <3>1. number \in [Files -> Nat] /\ Rising(queue, number)
      BY <2>1, KeyTypes DEF InOrder
    <3>2. /\ Rising(Tail(queue), number)
          /\ Numbers(Tail(queue), number) = Numbers(queue, number) \ {number[Head(queue)]}
          /\ number[Head(queue)] # 0
               => /\ number[Head(queue)] \in Numbers(queue, number)
                  /\ Less({number[Head(queue)]}, Numbers(Tail(queue), number))
      BY <1>1, <3>1, RisingTail
    <3> QED
      BY <1>1, <1>2, <3>2 DEF NumbersQueued
  <2>4. NamesDue(c)' = NamesDue(c) /\ FilesDue' = FilesDue
    BY <1>3, <2>2, <2>3 DEF NamesDue, FilesDue
  <2>5. /\ Less(NumberTaken', NumbersQueued') /\ Less(NumberTaken', NumberHandled')
        /\ Less(NumbersQueued', NumberHandled')
    BY <1>3, <2>1, <2>2, <2>3 DEF InOrder, Less
  <2> QED
    BY <1>3, <2>1, <2>3, <2>4, <2>5 DEF InOrder
<1> QED
  BY <1>4, <1>5 DEF InStep

(***************************************************************************)
(* The close removes the first name and the first file of what is due.     *)
(***************************************************************************)
LEMMA CloseInStep ==
    ASSUME TypeOK, NEW c \in Clients, Alone(c), InStep(c), Reject \/ SendFile,
           OnCourse(c)' => OnCourse(c)
    PROVE  InStep(c)'
<1>1. conn # None /\ conn' = None /\ job # None /\ job' = None
  BY DEF Reject, SendFile, Close, TypeOK
<1>2. /\ NumbersAsked' = NumbersAsked /\ NumberHandled' = NumberHandled
      /\ NumbersQueued' = NumbersQueued /\ NamesComing' = NamesComing
      /\ \A d \in Clients : NamesTold(d)' = NamesTold(d)
      /\ udp' = udp /\ queue' = queue /\ backlog' = backlog /\ inbox' = inbox
      /\ asked' = asked
  BY DEF Reject, SendFile, Close, udpVars, queueVars, NamesTold, NumbersAsked, NumberHandled,
         NumbersQueued, NamesComing
<1>3. AllIts(c)'
  BY <1>2 DEF InStep, AllIts
<1>4. ASSUME OnCourse(c)' PROVE InOrder(c)'
  <2>1. InOrder(c)
    BY <1>4 DEF InStep
  <2>2. NameConnected' = {} /\ NumberTaken' = {}
    BY <1>1 DEF NameConnected, NumberTaken
  <2>3. /\ conn.name = job.number
        /\ NamesDue(c) = {conn.name} \cup NamesDue(c)'
        /\ FilesDue = {job.number} \cup FilesDue'
        /\ conn.name \notin NamesDue(c)' /\ job.number \notin FilesDue'
    BY <1>1, <1>2, <2>1, <2>2, HeadsAgree DEF NamesDue, FilesDue
  <2>4. NamesDue(c)' = FilesDue' /\ NamesDue(c)' \subseteq NamesDue(c)
    <3>1. NamesDue(c) = FilesDue
      BY <2>1 DEF InOrder
    <3> HIDE DEF NamesDue, FilesDue
    <3> QED
      BY <2>3, <3>1
  <2>5. /\ Less(NameConnected', NamesComing') /\ Less(NameConnected', NamesTold(c)')
        /\ Less(NumberTaken', NumbersQueued') /\ Less(NumberTaken', NumberHandled')
    BY <2>2 DEF Less
  <2>6. Less(NamesDue(c)', NumbersAsked')
        /\ \A n \in NamesDue(c)' \cup NumbersAsked' : n <= asked'[c]
    BY <1>2, <2>1, <2>4 DEF InOrder, Less
  <2> QED
    BY <1>2, <2>1, <2>4, <2>5, <2>6 DEF InOrder
<1> QED
  BY <1>3, <1>4 DEF InStep

(***************************************************************************)
(* What a kick sends, and what the pipeline answers, names no file.        *)
(***************************************************************************)
LEMMA OutsideInStep ==
    ASSUME TypeOK, NEW c \in Clients, Alone(c), InStep(c), NEW d \in Clients,
           DropClient(d) \/ AnswersOfPipeline(d), OnCourse(c)' => OnCourse(c)
    PROVE  InStep(c)'
<1>1. PICK m \in Messages :
         okNumber[m] = 0
         /\ (inbox' = inbox \/ inbox' = [inbox EXCEPT ![d] = Append(inbox[d], m)])
  <2>1. ASSUME NEW m \in {JobResult(TRUE), JobResult(FALSE), Text}
        PROVE  m \in Messages /\ okNumber[m] = 0
    <3>1. /\ JobResult(TRUE) \in Messages /\ JobResult(TRUE).number = 0
          /\ JobResult(FALSE) \in Messages /\ JobResult(FALSE).number = 0
          /\ Text \in Messages /\ Text.number = 0
      BY MessageTypes
    <3>2. m \in Messages /\ m.number = 0
      BY <3>1
    <3> QED
      BY <3>2, KeyTypes
  <2> QED
    BY <2>1 DEF DropClient, AnswersOfPipeline, PipelineAnswers
<1>2. inbox \in [Clients -> Seq(Messages)]
  BY DEF TypeOK
<1>3. ASSUME NEW e \in Clients
      PROVE  NamesTold(e)' = NamesTold(e)
             /\ (Rising(inbox[e], okNumber) => Rising(inbox'[e], okNumber))
  <2>1. CASE inbox'[e] = inbox[e]
    BY <2>1 DEF NamesTold
  <2>2. CASE inbox'[e] = Append(inbox[e], m)
    <3>1. /\ inbox[e] \in Seq(Messages) /\ okNumber \in [Messages -> Nat]
      BY <1>2, KeyTypes
    <3>2. Rising(inbox[e], okNumber) => Rising(Append(inbox[e], m), okNumber)
      <4>1. Less(Numbers(inbox[e], okNumber), {okNumber[m]} \ {0})
        BY <1>1 DEF Less
      <4> QED
        BY <3>1, <4>1, RisingAppend
    <3>3. Numbers(Append(inbox[e], m), okNumber) = Numbers(inbox[e], okNumber)
      <4>1. /\ Len(Append(inbox[e], m)) = Len(inbox[e]) + 1 /\ Len(inbox[e]) \in Nat
            /\ \A i \in 1 .. Len(inbox[e]) : Append(inbox[e], m)[i] = inbox[e][i]
            /\ Append(inbox[e], m)[Len(inbox[e]) + 1] = m
        BY <3>1, AppendProperties, LenProperties
      <4>2. \A i \in 1 .. Len(inbox[e]) + 1 : i \in 1 .. Len(inbox[e]) \/ i = Len(inbox[e]) + 1
        BY <4>1
      <4>3. \A i \in 1 .. Len(inbox[e]) : i \in 1 .. Len(inbox[e]) + 1
        BY <4>1
      <4> QED
        BY <1>1, <4>1, <4>2, <4>3 DEF Numbers
    <3> QED
      BY <2>2, <3>2, <3>3 DEF NamesTold
  <2> QED
    BY <1>1, <1>2, <2>1, <2>2
<1>4. /\ NameConnected' = NameConnected /\ NumbersAsked' = NumbersAsked
      /\ NumberTaken' = NumberTaken /\ NumbersQueued' = NumbersQueued
      /\ NumberHandled' = NumberHandled /\ NamesComing' = NamesComing
      /\ queue' = queue /\ udp' = udp /\ backlog' = backlog /\ asked' = asked
  BY DEF DropClient, AnswersOfPipeline, PipelineAnswers, udpVars, queueVars, threadVars,
         NameConnected, NumberTaken, NumbersQueued, NumberHandled, NumbersAsked, NamesComing
<1>5. NamesDue(c)' = NamesDue(c) /\ FilesDue' = FilesDue /\ NamesTold(c)' = NamesTold(c)
      /\ (Rising(inbox[c], okNumber) => Rising(inbox'[c], okNumber))
  BY <1>3, <1>4 DEF NamesDue, FilesDue
<1>6. AllIts(c)'
  BY <1>3, <1>4 DEF InStep, AllIts
<1>7. ASSUME OnCourse(c)' PROVE InOrder(c)'
  <2>1. InOrder(c)
    BY <1>7 DEF InStep
  <2> QED
    BY <1>4, <1>5, <2>1 DEF InOrder
<1> QED
  BY <1>6, <1>7 DEF InStep

(* The other steps move nothing that is due, or end the server. *)
LEMMA OtherInStep ==
    ASSUME NEW c \in Clients, InStep(c), Alone(c), OnCourse(c)' => OnCourse(c),
           UNCHANGED <<asked, inbox, udpVars, queueVars, backlog, conn, job>>
    PROVE  InStep(c)'
BY DEF InStep, AllIts, InOrder, Alone, NumbersAsked, NumberHandled, NumbersQueued, NumberTaken,
       NamesTold, NamesComing, NameConnected, NamesDue, FilesDue, udpVars, queueVars

LEMMA KilledInStep ==
    ASSUME NEW c \in Clients, InStep(c), Alone(c), BrokenPipe
    PROVE  InStep(c)'
<1>1. inbox' = inbox /\ udp' = udp /\ ~Running'
  BY DEF BrokenPipe, udpVars, Running
<1> QED
  BY <1>1 DEF InStep, OnCourse, AllIts, NamesTold

LEMMA InStepPreserved ==
    ASSUME TypeOK, AskedCounted, [Next]_vars, NEW c \in Clients, InStep(c)
    PROVE  InStep(c)'
<1> SUFFICES ASSUME Alone(c)' PROVE InStep(c)'
  BY DEF InStep
<1>1. Alone(c) /\ \A d \in Clients : AskForFile(d) => d = c
  BY AloneBefore
<1>2. OnCourse(c)' => OnCourse(c)
  BY KindBefore
<1>3. CASE \/ \E d \in Clients : Submit(d) \/ SubmitFails(d) \/ GiveUp(d)
           \/ WaitForJob \/ SpuriousWake \/ Verified \/ ChangeDirectory \/ UNCHANGED vars
  <2>1. UNCHANGED <<asked, inbox, udpVars, queueVars, backlog, conn, job>>
    BY <1>3 DEF Submit, SubmitFails, GiveUp, WaitForJob, SpuriousWake, Verified,
                ChangeDirectory, vars, clientVars, threadVars
  <2> QED
    BY <1>1, <1>2, <2>1, OtherInStep
<1>4. ASSUME NEW d \in Clients, Submitted(d) \/ TakenBySubmit(d) PROVE InStep(c)'
  BY <1>1, <1>2, <1>4, SubmitInStep
<1>5. ASSUME NEW d \in Clients, ReceiveAck(d) PROVE InStep(c)'
  BY <1>1, <1>2, <1>5, TakeAckInStep
<1>6. ASSUME NEW d \in Clients, DropClient(d) \/ AnswersOfPipeline(d) PROVE InStep(c)'
  BY <1>1, <1>2, <1>6, OutsideInStep
<1>7. CASE AnswerRequest \/ Enqueue
  BY <1>1, <1>2, <1>7, AnswerInStep, EnqueueInStep
<1>8. CASE Accept \/ TakeJob
  BY <1>1, <1>2, <1>8, AcceptInStep, TakeJobInStep
<1>9. CASE Reject \/ SendFile
  BY <1>1, <1>2, <1>9, CloseInStep
<1>10. CASE BrokenPipe
  BY <1>1, <1>10, KilledInStep
<1> QED
  BY <1>3, <1>4, <1>5, <1>6, <1>7, <1>8, <1>9, <1>10
     DEF Next, ClientStep, UdpThread, DownloadThread

(***************************************************************************)
(* A file is stored as long as the server runs, with the connection and    *)
(* the job at hand in step.                                                *)
(***************************************************************************)
LEMMA NamesRightPreserved ==
    ASSUME TypeOK, [Next]_vars, NEW c \in Clients, InStep(c), NamesRight(c)
    PROVE  NamesRight(c)'
<1> SUFFICES ASSUME Alone(c)', InKind(c)' PROVE StoredRight(c)'
  BY DEF NamesRight
<1>1. Alone(c) /\ InKind(c) /\ StoredRight(c)
  BY AloneBefore, KindBefore DEF NamesRight
<1>2. CASE stored' = stored
  BY <1>1, <1>2 DEF StoredRight
<1>3. CASE SendFile
  <2>1. conn # None /\ job # None /\ Running /\ conn \in Connections
    BY <1>3 DEF SendFile, TypeOK, Running
  <2>2. conn.name = job.number
    BY <1>1, <2>1, HeadsAgree DEF InStep, OnCourse
  <2>3. ASSUME NEW x \in stored'[c], x \notin stored[c] PROVE x.name = x.holds.number
    <3>1. x = [name |-> conn.name, holds |-> job]
      BY <1>3, <2>3 DEF SendFile, TypeOK
    <3> QED
      BY <2>2, <3>1
  <2> QED
    BY <1>1, <2>3 DEF StoredRight
<1>4. SendFile \/ stored' = stored
  BY DEF Next, vars, clientVars, ClientStep, Submit, Submitted, SubmitFails, TakenBySubmit,
         ReceiveAck, GiveUp, DropClient, AnswersOfPipeline, PipelineAnswers, UdpThread,
         AnswerRequest, Enqueue, DownloadThread, Accept, WaitForJob, TakeJob, Reject, Verified,
         BrokenPipe, SpuriousWake, ChangeDirectory
<1> QED
  BY <1>2, <1>3, <1>4

(***************************************************************************)
(* Where no answer is lost, a client that is alone stores every file under *)
(* its own name until one of its messages is taken for one of another      *)
(* kind: nothing on a connection says which file it is for, but answers    *)
(* and jobs stay in step, through late answers of the pipeline, requests   *)
(* given up, failed opens and connections turned away                      *)
(* (client.c:380-489, upload_handler.c:307-330, server.c:363-436).         *)
(***************************************************************************)
THEOREM NamesStayRight == Spec => []NamesAreRight
<1> DEFINE StepInv == Inv /\ \A c \in Clients : InStep(c) /\ NamesRight(c)
<1>1. Init => StepInv
  BY InvInitially, StepInitially
<1>2. StepInv /\ [Next]_vars => StepInv'
  BY InvPreserved, InStepPreserved, NamesRightPreserved DEF Inv
<1>3. StepInv => NamesAreRight
  BY DEF NamesRight, InKind, StoredRight, NamesAreRight
<1> QED
  BY <1>1, <1>2, <1>3, PTL DEF Spec
=============================================================================
