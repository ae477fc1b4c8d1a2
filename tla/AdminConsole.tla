---------------------------- MODULE AdminConsole ----------------------------
(***************************************************************************)
(* The admin console: the admin thread of the server (src/server/          *)
(* admin_handler.c) and the front ends that connect to it (src/            *)
(* c-admin-client/c-admin-client.c), one session at a time, with the log   *)
(* streamed to whoever asked for it.                                       *)
(*                                                                         *)
(* The log is the bounded list of module BoundedLog, which LogQueue        *)
(* implements; its lines are numbered as they are logged.  What the        *)
(* commands SET_MAX_UPLOADS and KICK_CLIENT change is in UploadPool and    *)
(* ClientRegistry: here they are commands that only answer.                *)
(*                                                                         *)
(* The front end sends a line without its newline, so lines that are read  *)
(* by one recv are run together.                                           *)
(***************************************************************************)
EXTENDS Naturals, Sequences, SequencesExt, FiniteSets

CONSTANTS
    Admins,    \* front ends, one session each
    Capacity,  \* entries in the log queue
    Buffer,    \* messages that fit into the socket's send buffer
    MaxUnread, \* bound: lines an admin types ahead of the server
    MaxLogged, \* bound: lines logged
    None       \* no admin, no line

ASSUME BufferAssumption == Buffer \in Nat \ {0} /\ Capacity \in Nat \ {0}
ASSUME BoundsAssumption == MaxUnread \in Nat /\ MaxLogged \in Nat
ASSUME NoneAssumption   == None \notin Admins \cup Nat

VARIABLES
    (* the admin thread *)
    server,       \* where it is in admin_thread, or "killed" with its process
    session,      \* the admin it serves
    show_logs,
    expired,      \* INACTIVITY_TIMEOUT_MS have passed since last_activity
    revents,      \* poll has said that the socket is readable
    logline,      \* what it popped last
    (* the front ends *)
    admin,        \* where each is
    in_log_mode,
    (* between them *)
    waiting,      \* connections made and not yet accepted
    toServer,     \* lines sent and not yet read
    toAdmin,      \* how many messages have not been read
    closed,       \* admins whose connection the server has closed
    (* the other threads *)
    log,          \* the log queue
    logged,       \* how many lines were logged
    (* history *)
    sent,         \* log lines sent, and to whom
    overwritten,  \* log lines that gave way to newer ones
    broken,       \* log lines popped whose send failed, and to whom
    misread       \* its front end and the server took a line of the session differently

threadVars  == <<server, session, show_logs, expired, revents>>
adminVars   == <<admin, in_log_mode>>
socketVars  == <<waiting, toServer, toAdmin, closed>>
logVars     == <<log, logged, logline, overwritten>>
historyVars == <<sent, broken, misread>>
vars == <<threadVars, adminVars, socketVars, logVars, historyVars>>

Log == INSTANCE BoundedLog WITH popped <- logline, Entries <- 1 .. MaxLogged

(***************************************************************************)
(* What may be typed.  Those with a blank behind the word, or a second     *)
(* word, only the server recognizes: the front end compares the whole      *)
(* line, the server its first word.  "HELP" stands for all commands that   *)
(* only answer; " " is a line of blanks.  Ctrl-C sends STOP_LOGS with a    *)
(* newline.                                                                *)
(***************************************************************************)
Spaced  == {"SHOW_LOGS ", "STOP_LOGS ", "EXIT "}
Lines   == {"SHOW_LOGS", "STOP_LOGS", "SHOW_QUEUE", "HELP", "EXIT", " "} \cup Spaced
CtrlC   == "STOP_LOGS\n"
Input   == (Lines \ {"EXIT"}) \cup {CtrlC}

Init ==
    /\ server = "accept"
    /\ session = None
    /\ show_logs = FALSE
    /\ expired = FALSE
    /\ revents = FALSE
    /\ logline = None
    /\ admin = [a \in Admins |-> "out"]
    /\ in_log_mode = [a \in Admins |-> FALSE]
    /\ waiting = <<>>
    /\ toServer = [a \in Admins |-> <<>>]
    /\ toAdmin = [a \in Admins |-> 0]
    /\ closed = {}
    /\ log = <<>>
    /\ logged = 0
    /\ sent = <<>>
    /\ overwritten = {}
    /\ broken = {}
    /\ misread = FALSE

Running == server # "killed"

-----------------------------------------------------------------------------
(* The front end: connect_to_server, event_loop, handle_sigint.            *)

Become(a, place) == admin' = [admin EXCEPT ![a] = place]

(* Its process ends: what it knew is gone, and what it had yet to read. *)
Finish(a, place) ==
    /\ Become(a, place)
    /\ in_log_mode' = [in_log_mode EXCEPT ![a] = FALSE]
    /\ toAdmin' = [toAdmin EXCEPT ![a] = 0]

Connect(a) ==
    /\ Running
    /\ admin[a] = "out"
    /\ Become(a, "waiting")
    /\ waiting' = Append(waiting, a)
    /\ UNCHANGED <<threadVars, in_log_mode, toServer, toAdmin, closed,
                   logVars, historyVars>>

Hangup(a) == a \in closed \/ ~Running

(***************************************************************************)
(* The first recv, for the welcome; then the messages, and after each the  *)
(* look whether poll has reported a hangup, too.                           *)
(***************************************************************************)
ReadMessage(a) ==
    /\ admin[a] \in {"waiting", "in"}
    /\ toAdmin[a] > 0
    /\ \/ /\ Become(a, "in")
          /\ toAdmin' = [toAdmin EXCEPT ![a] = @ - 1]
          /\ UNCHANGED in_log_mode
       \/ admin[a] = "in" /\ Hangup(a) /\ Finish(a, "over")
    /\ UNCHANGED <<threadVars, waiting, toServer, closed, logVars, historyVars>>

(* recv returns 0. *)
EndOfFile(a) ==
    /\ admin[a] \in {"waiting", "in"}
    /\ toAdmin[a] = 0
    /\ Hangup(a)
    /\ Finish(a, "over")
    /\ UNCHANGED <<threadVars, waiting, toServer, closed, logVars, historyVars>>

(* A line that the front end sends; on EXIT (or Ctrl-D) it leaves without a word. *)
Type(a, line) ==
    /\ Running
    /\ admin[a] = "in"
    /\ a \notin closed
    /\ Len(toServer[a]) < MaxUnread
    /\ \/ line = "EXIT" /\ Finish(a, "left") /\ UNCHANGED toServer
       \/ /\ line # "EXIT"
          /\ in_log_mode' = [in_log_mode EXCEPT
                                ![a] = line = "SHOW_LOGS" \/ (@ /\ line # "STOP_LOGS")]
          /\ toServer' = [toServer EXCEPT ![a] = Append(@, line)]
          /\ UNCHANGED <<admin, toAdmin>>
    /\ misread' = (misread \/ line \in {"SHOW_LOGS ", "STOP_LOGS "})
    /\ UNCHANGED <<threadVars, waiting, closed, logVars, sent, broken>>

(* Ctrl-C stops the log, or else the front end. *)
Interrupt(a) ==
    /\ Running
    /\ admin[a] \in {"waiting", "in"}
    /\ a \notin closed
    /\ \/ /\ in_log_mode[a]
          /\ toServer' = [toServer EXCEPT ![a] = Append(@, CtrlC)]
          /\ in_log_mode' = [in_log_mode EXCEPT ![a] = FALSE]
          /\ UNCHANGED <<admin, toAdmin>>
       \/ /\ ~in_log_mode[a]
          /\ Finish(a, "left")
          /\ UNCHANGED toServer
    /\ UNCHANGED <<threadVars, waiting, closed, logVars, historyVars>>

-----------------------------------------------------------------------------
(* The admin thread: admin_thread, handle_admin_command.                   *)

(***************************************************************************)
(* send on the non-blocking socket of the session.  When the other end is  *)
(* closed SIGPIPE ends the process; when the buffer is full nothing is     *)
(* sent, which only the streaming of log lines looks at.                   *)
(***************************************************************************)
PeerLeft   == admin[session] \in {"left", "over"}
BufferFull == toAdmin[session] = Buffer

Answer(next) ==
    IF PeerLeft
    THEN server' = "killed" /\ UNCHANGED toAdmin
    ELSE /\ server' = next
         /\ toAdmin' = [toAdmin EXCEPT ![session] = IF BufferFull THEN @ ELSE @ + 1]

(* close: what the admin has sent and was not read is lost. *)
Disconnect ==
    /\ session' = None
    /\ closed' = closed \cup {session}
    /\ toServer' = [toServer EXCEPT ![session] = <<>>]

(***************************************************************************)
(* Definitions named ...Bug are the mistakes the properties below must     *)
(* catch; no action uses them.                                             *)
(***************************************************************************)
ShowLogsKeptBug ==
    /\ server = "accept"
    /\ waiting # <<>>
    /\ waiting' = Tail(waiting)
    /\ LET a == Head(waiting)
       IN  \/ /\ admin[a] = "left"
              /\ server' = "killed"
              /\ UNCHANGED <<session, expired, toAdmin>>
           \/ /\ admin[a] # "left"
              /\ server' = "top"
              /\ session' = a
              /\ expired' = FALSE
              /\ toAdmin' = [toAdmin EXCEPT ![a] = 1]
    /\ misread' = FALSE
    /\ UNCHANGED <<show_logs, revents, adminVars, toServer, closed, logVars, sent,
                   broken>>

(* accept, the welcome, and a new session. *)
Accept ==
    /\ server = "accept"
    /\ waiting # <<>>
    /\ waiting' = Tail(waiting)
    /\ LET a == Head(waiting)
       IN  \/ /\ admin[a] = "left"
              /\ server' = "killed"
              /\ UNCHANGED <<session, show_logs, expired, toAdmin>>
           \/ /\ admin[a] # "left"
              /\ server' = "top"
              /\ session' = a
              /\ show_logs' = FALSE
              /\ expired' = FALSE
              /\ toAdmin' = [toAdmin EXCEPT ![a] = 1]
    /\ misread' = FALSE
    /\ UNCHANGED <<revents, adminVars, toServer, closed, logVars, sent, broken>>

TimeoutNotSeenBug ==
    /\ server = "top"
    /\ server' = "poll"
    /\ UNCHANGED <<session, show_logs, expired, revents, adminVars, socketVars,
                   logVars, historyVars>>

(* The timeout for poll is computed, or has passed: "Disconnected". *)
Top ==
    /\ server = "top"
    /\ \/ /\ show_logs \/ ~expired
          /\ server' = "poll"
          /\ UNCHANGED <<session, toServer, toAdmin, closed>>
       \/ /\ ~show_logs /\ expired
          /\ Answer("accept")
          /\ Disconnect
    /\ UNCHANGED <<show_logs, expired, revents, adminVars, waiting, logVars,
                   historyVars>>

(* poll returns with something to read, or after its timeout. *)
Readable == toServer[session] # <<>> \/ PeerLeft

Poll ==
    /\ server = "poll"
    /\ Readable \/ show_logs \/ expired
    /\ revents' = Readable
    /\ server' = IF show_logs THEN "stream" ELSE "read"
    /\ UNCHANGED <<session, show_logs, expired, adminVars, socketVars, logVars,
                   historyVars>>

(***************************************************************************)
(* "Send available logs": a line is popped, then sent.                     *)
(***************************************************************************)
FailedSendIgnoredBug ==
    /\ server = "stream"
    /\ Log!Pop
    /\ \/ /\ PeerLeft
          /\ server' = "killed"
          /\ broken' = broken \cup {[to |-> session, line |-> logline']}
          /\ UNCHANGED <<expired, toAdmin, sent>>
       \/ /\ ~PeerLeft /\ BufferFull
          /\ broken' = broken \cup {[to |-> session, line |-> logline']}
          /\ UNCHANGED <<server, expired, toAdmin, sent>>
       \/ /\ ~PeerLeft /\ ~BufferFull
          /\ toAdmin' = [toAdmin EXCEPT ![session] = @ + 1]
          /\ sent' = Append(sent, [to |-> session, line |-> logline'])
          /\ expired' = FALSE
          /\ UNCHANGED <<server, broken>>
    /\ UNCHANGED <<session, show_logs, revents, adminVars, waiting, toServer,
                   closed, logged, overwritten, misread>>

StreamLine ==
    /\ server = "stream"
    /\ Log!Pop
    /\ \/ /\ PeerLeft
          /\ server' = "killed"
          /\ broken' = broken \cup {[to |-> session, line |-> logline']}
          /\ UNCHANGED <<session, expired, toServer, toAdmin, closed, sent>>
       \/ /\ ~PeerLeft /\ BufferFull
          /\ server' = "accept"
          /\ Disconnect
          /\ broken' = broken \cup {[to |-> session, line |-> logline']}
          /\ UNCHANGED <<expired, toAdmin, sent>>
       \/ /\ ~PeerLeft /\ ~BufferFull
          /\ toAdmin' = [toAdmin EXCEPT ![session] = @ + 1]
          /\ sent' = Append(sent, [to |-> session, line |-> logline'])
          /\ expired' = FALSE
          /\ UNCHANGED <<server, session, toServer, closed, broken>>
    /\ UNCHANGED <<show_logs, revents, adminVars, waiting, logged, overwritten, misread>>

BlockingPopBug ==
    /\ server = "stream"
    /\ log = <<>>
    /\ UNCHANGED vars

TimeoutSentBug ==
    /\ server = "stream"
    /\ log = <<>>
    /\ ~PeerLeft
    /\ ~BufferFull
    /\ logline # None
    /\ toAdmin' = [toAdmin EXCEPT ![session] = @ + 1]
    /\ sent' = Append(sent, [to |-> session, line |-> logline])
    /\ server' = "read"
    /\ UNCHANGED <<session, show_logs, expired, revents, adminVars, waiting, toServer,
                   closed, logVars, broken, misread>>

StreamEnds ==
    /\ server = "stream"
    /\ log = <<>>
    /\ Log!Timeout
    /\ server' = "read"
    /\ UNCHANGED <<session, show_logs, expired, revents, adminVars, socketVars,
                   logged, overwritten, historyVars>>

(***************************************************************************)
(* The command in what one recv returned: blanks in front are skipped, a   *)
(* newline or a blank ends it, and lines that run together are unknown,    *)
(* which is answered like HELP.  Without a command strcasecmp gets NULL.   *)
(***************************************************************************)
Command(input) ==
    LET Words  == {k \in DOMAIN input : input[k] # " "}
        k      == CHOOSE m \in Words : \A n \in Words : m <= n
        Apart  == input[k] \in Spaced \cup {CtrlC} \/ k = Len(input) \/ input[k + 1] = " "
    IN  IF Words = {} THEN " " ELSE IF Apart THEN input[k] ELSE "HELP"

NothingToRead ==
    /\ server = "read"
    /\ ~revents
    /\ server' = "top"
    /\ UNCHANGED <<session, show_logs, expired, revents, adminVars, socketVars,
                   logVars, historyVars>>

ClosedGoesOnBug ==
    /\ server = "read"
    /\ revents
    /\ toServer[session] = <<>>
    /\ server' = "top"
    /\ revents' = FALSE
    /\ Disconnect
    /\ UNCHANGED <<show_logs, expired, adminVars, waiting, toAdmin,
                   logVars, historyVars>>

(* recv returns 0. *)
PeerClosed ==
    /\ server = "read"
    /\ revents
    /\ toServer[session] = <<>>
    /\ server' = "accept"
    /\ revents' = FALSE
    /\ Disconnect
    /\ UNCHANGED <<show_logs, expired, adminVars, waiting, toAdmin,
                   logVars, historyVars>>

(* Everything there is to read, and the command that is found in it. *)
Recv(commands) ==
    /\ server = "read"
    /\ revents
    /\ toServer[session] # <<>>
    /\ Command(toServer[session]) \in commands
    /\ misread' = (misread \/ Len(toServer[session]) > 1)
    /\ revents' = FALSE
    /\ UNCHANGED <<adminVars, waiting, logVars, sent, broken>>

Drained == toServer' = [toServer EXCEPT ![session] = <<>>]

OnlyAnswer ==
    /\ Recv({"HELP"})
    /\ Drained
    /\ Answer("top")
    /\ expired' = FALSE
    /\ UNCHANGED <<session, show_logs, closed>>

ShowLogs ==
    /\ Recv({"SHOW_LOGS", "SHOW_LOGS "})
    /\ Drained
    /\ show_logs' = TRUE
    /\ Answer("top")
    /\ expired' = FALSE
    /\ UNCHANGED <<session, closed>>

StopLogs ==
    /\ Recv({"STOP_LOGS", "STOP_LOGS ", CtrlC})
    /\ Drained
    /\ show_logs' = FALSE
    /\ server' = "top"
    /\ expired' = FALSE
    /\ UNCHANGED <<session, toAdmin, closed>>

ExitGoesOnBug ==
    /\ Recv({"EXIT "})
    /\ Drained
    /\ Answer("top")
    /\ closed' = closed \cup {session}
    /\ UNCHANGED <<session, show_logs, expired>>

Exit ==
    /\ Recv({"EXIT "})
    /\ Answer("accept")
    /\ Disconnect
    /\ UNCHANGED <<show_logs, expired>>

Blank ==
    /\ Recv({" "})
    /\ server' = "killed"
    /\ UNCHANGED <<session, show_logs, expired, toServer, toAdmin, closed>>

(* show_processing_queue waits for jobs_mutex, while commands run. *)
ShowQueue ==
    /\ Recv({"SHOW_QUEUE"})
    /\ Drained
    /\ server' = "queue"
    /\ UNCHANGED <<session, show_logs, expired, toAdmin, closed>>

AnswerQueue ==
    /\ server = "queue"
    /\ Answer("top")
    /\ expired' = FALSE
    /\ UNCHANGED <<session, show_logs, revents, adminVars, waiting, toServer,
                   closed, logVars, historyVars>>

-----------------------------------------------------------------------------
(* The rest of the server.                                                 *)

(* log_append by any thread. *)
LogAppend ==
    /\ Running
    /\ logged < MaxLogged
    /\ logged' = logged + 1
    /\ Log!Push(logged + 1)
    /\ overwritten' =
          IF Len(log) = Capacity THEN overwritten \cup {Head(log)} ELSE overwritten
    /\ UNCHANGED <<threadVars, adminVars, socketVars, historyVars>>

(* A minute without activity. *)
Expire ==
    /\ Running
    /\ session # None
    /\ ~expired
    /\ expired' = TRUE
    /\ UNCHANGED <<server, session, show_logs, revents, adminVars, socketVars,
                   logVars, historyVars>>

-----------------------------------------------------------------------------
AdminThread ==
    \/ Accept \/ Top \/ Poll \/ StreamLine \/ StreamEnds \/ NothingToRead \/ PeerClosed
    \/ OnlyAnswer \/ ShowLogs \/ StopLogs \/ Exit \/ Blank \/ ShowQueue \/ AnswerQueue

FrontEnd(a) ==
    \/ Connect(a) \/ ReadMessage(a) \/ EndOfFile(a) \/ Interrupt(a)
    \/ \E line \in Lines : Type(a, line)

Next ==
    \/ AdminThread
    \/ \E a \in Admins : FrontEnd(a)
    \/ LogAppend \/ Expire

Spec == Init /\ [][Next]_vars

(***************************************************************************)
(* The admin thread runs when it can, and gets jobs_mutex some day,        *)
(* because commands end and the processing thread sleeps for a second      *)
(* between its passes; time passes; a front end reads its welcome and      *)
(* notices the end.  It is not bound to read anything else (the terminal   *)
(* may be stopped), and nobody is bound to type or to log.                 *)
(***************************************************************************)
FairSpec ==
    /\ Spec
    /\ WF_vars(AdminThread)
    /\ WF_vars(Expire)
    /\ \A a \in Admins :
          WF_vars(ReadMessage(a) /\ admin[a] = "waiting") /\ WF_vars(EndOfFile(a))

-----------------------------------------------------------------------------
TypeOK ==
    /\ server \in {"accept", "top", "poll", "stream", "read", "queue", "killed"}
    /\ session \in Admins \cup {None}
    /\ server \in {"top", "poll", "stream", "read", "queue"} => session # None
    /\ show_logs \in BOOLEAN
    /\ expired \in BOOLEAN
    /\ revents \in BOOLEAN
    /\ logline \in 1 .. MaxLogged \cup {None}
    /\ admin \in [Admins -> {"out", "waiting", "in", "left", "over"}]
    /\ in_log_mode \in [Admins -> BOOLEAN]
    /\ waiting \in Seq(Admins)
    /\ toServer \in [Admins -> Seq(Input)]
    /\ toAdmin \in [Admins -> 0 .. Buffer]
    /\ closed \in SUBSET Admins
    /\ log \in Seq(1 .. MaxLogged)
    /\ logged \in 0 .. MaxLogged
    /\ sent \in Seq([to : Admins, line : 1 .. MaxLogged])
    /\ overwritten \in SUBSET (1 .. MaxLogged)
    /\ broken \in SUBSET [to : Admins, line : 1 .. MaxLogged]
    /\ misread \in BOOLEAN

(***************************************************************************)
(* Over all sessions together no log line is sent twice or out of order:   *)
(* the next admin goes on where the last one was cut off                   *)
(* (admin_handler.c:407).                                                  *)
(***************************************************************************)
LinesInOrder == \A k, m \in DOMAIN sent : k < m => sent[k].line < sent[m].line

(***************************************************************************)
(* Every line logged is in the queue, was sent, gave way to a newer one,   *)
(* or was in hand when its session ended, which costs a session no more    *)
(* than one line (admin_handler.c:407-410).                                *)
(***************************************************************************)
LinesAccountedFor ==
    /\ logged = Len(log) + Len(sent) + Cardinality(overwritten) + Cardinality(broken)
    /\ \A x, y \in broken : x.to = y.to => x = y
    /\ \A x \in broken : x.to \in closed \/ server = "killed"

(***************************************************************************)
(* The front end's hint "Type STOP_LOGS or Ctrl+C to stop log streaming"   *)
(* (c-admin-client.c:175) and what Ctrl-C does (:23) agree with what the   *)
(* server does, once it has read all that was typed, and whatever the      *)
(* session before has left behind (admin_handler.c:370).  Two things put   *)
(* them apart, and are excluded: lines that were read at once, and a mode  *)
(* command that only the server recognizes, such as "SHOW_LOGS " (the      *)
(* front end compares the whole line, c-admin-client.c:117-120; the server *)
(* its first word, admin_handler.c:231-238).                               *)
(***************************************************************************)
ModesAgree ==
    \A a \in Admins :
        session = a /\ admin[a] = "in" /\ Running /\ toServer[a] = <<>> /\ ~misread =>
            in_log_mode[a] = show_logs

(***************************************************************************)
(* Only an admin who leaves on his own, or types nothing but blanks, can   *)
(* end the server: whoever waits for the end of his session does not.      *)
(* (SIGPIPE is not ignored, and strtok may return NULL, which line 241     *)
(* does not expect.)                                                       *)
(***************************************************************************)
KilledByLeavers ==
    server = "killed" =>
        \E a \in Admins : admin[a] = "left" \/ " " \in ToSet(toServer[a])

(***************************************************************************)
(* What an admin has typed is read, or his session ends: neither streaming *)
(* nor waiting for jobs_mutex keeps a command waiting for ever             *)
(* (admin_handler.c:407, 170).                                             *)
(***************************************************************************)
CommandsAreRead ==
    \A a \in Admins : toServer[a] # <<>> ~> toServer[a] = <<>> \/ ~Running

(***************************************************************************)
(* A second admin is not rejected, as lines 355-360 would have it, but     *)
(* gets his turn when the session before him is over, which it is some day *)
(* unless an admin goes on streaming or typing: log lines are sent without *)
(* an end, and every command starts the minute anew (:415, :429).          *)
(***************************************************************************)
Active == session # None /\ (show_logs \/ toServer[session] # <<>>)

NextAdminGreeted ==
    <>[]~Active =>
        \A a \in Admins : admin[a] = "waiting" ~> admin[a] # "waiting" \/ ~Running
=============================================================================
