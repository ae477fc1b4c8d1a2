------------------------- MODULE AdminConsoleProofs -------------------------
(***************************************************************************)
(* What holds of the admin console for any number of front ends, however   *)
(* much they type and however much is logged.                              *)
(***************************************************************************)
EXTENDS AdminConsole, SequenceLemmas, FiniteSetTheorems

Sessions == {"top", "poll", "stream", "read", "queue"}

LEMMA TypesInitially == Init => TypeOK
<1> SUFFICES ASSUME Init PROVE TypeOK
  OBVIOUS
<1>1. /\ waiting \in Seq(Admins) /\ log \in Seq(1 .. MaxLogged)
      /\ sent \in Seq([to : Admins, line : 1 .. MaxLogged])
  BY EmptySeq DEF Init
<1>2. toServer \in [Admins -> Seq(Input)]
  BY EmptySeq DEF Init
<1>3. /\ toAdmin \in [Admins -> 0 .. Buffer]
      /\ logged \in 0 .. MaxLogged
      /\ in_log_mode \in [Admins -> BOOLEAN]
      /\ admin \in [Admins -> {"out", "waiting", "in", "left", "over"}]
  BY BufferAssumption, BoundsAssumption DEF Init
<1> QED
  BY <1>1, <1>2, <1>3 DEF Init, TypeOK

(***************************************************************************)
(* Type correctness, action by action.                                     *)
(***************************************************************************)
LEMMA AnswerTypes ==
    ASSUME TypeOK, session \in Admins, NEW next, Answer(next)
    PROVE  toAdmin' \in [Admins -> 0 .. Buffer] /\ server' \in {next, "killed"}
<1>1. ~BufferFull => toAdmin[session] + 1 \in 0 .. Buffer
  BY BufferAssumption DEF TypeOK, BufferFull
<1> QED
  BY <1>1 DEF Answer, TypeOK

LEMMA DisconnectTypes ==
    ASSUME TypeOK, session \in Admins, Disconnect
    PROVE  /\ session' = None
           /\ closed' \in SUBSET Admins
           /\ toServer' \in [Admins -> Seq(Input)]
<1>1. <<>> \in Seq(Input)
  BY EmptySeq
<1> QED
  BY <1>1 DEF Disconnect, TypeOK

LEMMA DrainedTypes ==
    ASSUME TypeOK, session \in Admins, Drained
    PROVE  toServer' \in [Admins -> Seq(Input)]
<1>1. <<>> \in Seq(Input)
  BY EmptySeq
<1> QED
  BY <1>1 DEF Drained, TypeOK

LEMMA RecvTypes ==
    ASSUME TypeOK, NEW commands, Recv(commands)
    PROVE  /\ session \in Admins /\ session # None
           /\ misread' \in BOOLEAN
           /\ revents' = FALSE
        /\ UNCHANGED <<adminVars, waiting, logVars, sent, broken>>
BY DEF TypeOK, Recv

LEMMA FinishTypes ==
    ASSUME TypeOK, NEW a \in Admins, NEW place \in {"left", "over"}, Finish(a, place)
    PROVE  /\ admin' \in [Admins -> {"out", "waiting", "in", "left", "over"}]
           /\ in_log_mode' \in [Admins -> BOOLEAN]
           /\ toAdmin' \in [Admins -> 0 .. Buffer]
<1>1. 0 \in 0 .. Buffer
  BY BufferAssumption
<1> QED
  BY <1>1 DEF Finish, Become, TypeOK

LEMMA FrontEndTypes ==
    ASSUME TypeOK, NEW a \in Admins, FrontEnd(a)
    PROVE  TypeOK'
<1> USE DEF TypeOK, threadVars, adminVars, socketVars, logVars, historyVars
<1>1. CASE Connect(a)
  <2>1. waiting' \in Seq(Admins)
    BY <1>1, AppendProperties DEF Connect
  <2> QED
    BY <1>1, <2>1 DEF Connect, Become
<1>2. CASE ReadMessage(a)
  <2>1. CASE Become(a, "in") /\ toAdmin' = [toAdmin EXCEPT ![a] = toAdmin[a] - 1]
             /\ UNCHANGED in_log_mode
    <3>1. toAdmin[a] - 1 \in 0 .. Buffer
      BY <1>2, BufferAssumption DEF ReadMessage
    <3>2. toAdmin' \in [Admins -> 0 .. Buffer]
      BY <2>1, <3>1
    <3> QED
      BY <1>2, <2>1, <3>2 DEF ReadMessage, Become
  <2>2. CASE Finish(a, "over")
    BY <1>2, <2>2, FinishTypes DEF ReadMessage
  <2> QED
    BY <1>2, <2>1, <2>2 DEF ReadMessage
<1>3. CASE EndOfFile(a)
  BY <1>3, FinishTypes DEF EndOfFile
<1>4. CASE Interrupt(a)
  <2>1. Append(toServer[a], CtrlC) \in Seq(Input)
    BY AppendProperties DEF Input
  <2>2. UNCHANGED <<threadVars, waiting, closed, logVars, historyVars>>
    BY <1>4 DEF Interrupt
  <2>3. CASE Finish(a, "left") /\ UNCHANGED toServer
    BY <2>2, <2>3, FinishTypes
  <2>4. CASE /\ toServer' = [toServer EXCEPT ![a] = Append(toServer[a], CtrlC)]
             /\ in_log_mode' = [in_log_mode EXCEPT ![a] = FALSE]
             /\ UNCHANGED <<admin, toAdmin>>
    <3>1. toServer' \in [Admins -> Seq(Input)]
      BY <2>1, <2>4
    <3>2. in_log_mode' \in [Admins -> BOOLEAN]
      BY <2>4
    <3> QED
      BY <2>2, <2>4, <3>1, <3>2
  <2> QED
    BY <1>4, <2>3, <2>4 DEF Interrupt
<1>5. ASSUME NEW line \in Lines, Type(a, line)
      PROVE  TypeOK'
  <2>1. UNCHANGED <<threadVars, waiting, closed, logVars, sent, broken>>
    BY <1>5 DEF Type
  <2>2. misread' \in BOOLEAN
    BY <1>5 DEF Type
  <2>3. CASE Finish(a, "left") /\ UNCHANGED toServer
    BY <2>1, <2>2, <2>3, FinishTypes
  <2> DEFINE mode == line = "SHOW_LOGS" \/ (in_log_mode[a] /\ line # "STOP_LOGS")
  <2>4. CASE /\ line # "EXIT"
             /\ in_log_mode' = [in_log_mode EXCEPT ![a] = mode]
             /\ toServer' = [toServer EXCEPT ![a] = Append(toServer[a], line)]
             /\ UNCHANGED <<admin, toAdmin>>
    <3>1. mode \in BOOLEAN
      OBVIOUS
    <3>2. Append(toServer[a], line) \in Seq(Input)
      BY <2>4, AppendProperties DEF Input
    <3> HIDE DEF mode
    <3>3. in_log_mode' \in [Admins -> BOOLEAN] /\ toServer' \in [Admins -> Seq(Input)]
      BY <2>4, <3>1, <3>2
    <3> QED
      BY <2>1, <2>2, <2>4, <3>3
  <2> QED
    BY <1>5, <2>3, <2>4 DEF Type
<1> QED
  BY <1>1, <1>2, <1>3, <1>4, <1>5 DEF FrontEnd

LEMMA ThreadTypes ==
    ASSUME TypeOK, AdminThread
    PROVE  TypeOK'
<1> USE DEF TypeOK, threadVars, adminVars, socketVars, logVars, historyVars
<1>1. CASE Accept
  <2>1. Head(waiting) \in Admins /\ Tail(waiting) \in Seq(Admins)
    BY <1>1, HeadTailProperties DEF Accept
  <2> DEFINE a == Head(waiting)
  <2>2. /\ \/ server' = "killed" /\ UNCHANGED <<session, show_logs, expired, toAdmin>>
           \/ /\ server' = "top" /\ session' = a /\ show_logs' = FALSE /\ expired' = FALSE
              /\ toAdmin' = [toAdmin EXCEPT ![a] = 1]
        /\ waiting' = Tail(waiting)
        /\ misread' = FALSE
        /\ UNCHANGED <<revents, adminVars, toServer, closed, logVars, sent, broken>>
    BY <1>1 DEF Accept
  <2>3. 1 \in 0 .. Buffer
    BY BufferAssumption
  <2>4. toAdmin' \in [Admins -> 0 .. Buffer]
    BY <2>2, <2>3
  <2>5. a \in Admins /\ a # None
    BY <2>1, NoneAssumption
  <2> HIDE DEF a
  <2> QED
    BY <2>1, <2>2, <2>4, <2>5
<1>2. CASE Top
  <2>1. session \in Admins
    BY <1>2 DEF Top
  <2>2. CASE ~show_logs /\ expired /\ Answer("accept") /\ Disconnect
    <3>1. toAdmin' \in [Admins -> 0 .. Buffer] /\ server' \in {"accept", "killed"}
      BY <2>1, <2>2, AnswerTypes
    <3>2. session' = None /\ closed' \in SUBSET Admins /\ toServer' \in [Admins -> Seq(Input)]
      BY <2>1, <2>2, DisconnectTypes
    <3>3. UNCHANGED <<show_logs, expired, revents, adminVars, waiting, logVars, historyVars>>
      BY <1>2 DEF Top
    <3> QED
      BY <3>1, <3>2, <3>3
  <2>3. CASE server' = "poll" /\ UNCHANGED <<session, toServer, toAdmin, closed>>
    BY <1>2, <2>1, <2>3 DEF Top
  <2> QED
    BY <1>2, <2>2, <2>3 DEF Top
<1>3. CASE Poll
  BY <1>3 DEF Poll, Readable, PeerLeft
<1>4. CASE StreamLine
  <2>1. session \in Admins /\ log # <<>> /\ logline' = Head(log) /\ log' = Tail(log)
    BY <1>4 DEF StreamLine, Log!Pop
  <2>2. Head(log) \in 1 .. MaxLogged /\ Tail(log) \in Seq(1 .. MaxLogged)
    BY <2>1, HeadTailProperties
  <2>3. [to |-> session, line |-> logline'] \in [to : Admins, line : 1 .. MaxLogged]
    BY <2>1, <2>2
  <2>4. Append(sent, [to |-> session, line |-> logline'])
           \in Seq([to : Admins, line : 1 .. MaxLogged])
    BY <2>3, AppendProperties
  <2>5. /\ broken' \in SUBSET [to : Admins, line : 1 .. MaxLogged]
        /\ sent' \in Seq([to : Admins, line : 1 .. MaxLogged])
    BY <1>4, <2>3, <2>4 DEF StreamLine
  <2>6. toAdmin' \in [Admins -> 0 .. Buffer]
    <3>1. ~BufferFull => toAdmin[session] + 1 \in 0 .. Buffer
      BY <2>1, BufferAssumption DEF BufferFull
    <3> QED
      BY <1>4, <2>1, <3>1 DEF StreamLine
  <2>7. CASE Disconnect /\ server' = "accept"
    BY <1>4, <2>1, <2>2, <2>5, <2>6, <2>7, DisconnectTypes DEF StreamLine
  <2>8. CASE UNCHANGED <<session, toServer, closed>>
    BY <1>4, <2>1, <2>2, <2>5, <2>6, <2>8 DEF StreamLine
  <2> QED
    BY <1>4, <2>7, <2>8 DEF StreamLine
<1>5. CASE StreamEnds
  BY <1>5 DEF StreamEnds, Log!Timeout
<1>6. CASE NothingToRead
  BY <1>6 DEF NothingToRead
<1>7. CASE PeerClosed
  <2>1. session \in Admins
    BY <1>7 DEF PeerClosed
  <2> QED
    BY <1>7, <2>1, DisconnectTypes DEF PeerClosed
<1>8. CASE OnlyAnswer \/ ShowLogs
  <2>1. /\ session \in Admins /\ session # None
        /\ misread' \in BOOLEAN
        /\ revents' = FALSE
        /\ UNCHANGED <<adminVars, waiting, logVars, sent, broken>>
    BY <1>8, RecvTypes DEF OnlyAnswer, ShowLogs
  <2>2. toServer' \in [Admins -> Seq(Input)]
    BY <1>8, <2>1, DrainedTypes DEF OnlyAnswer, ShowLogs
  <2>3. toAdmin' \in [Admins -> 0 .. Buffer] /\ server' \in {"top", "killed"}
    BY <1>8, <2>1, AnswerTypes DEF OnlyAnswer, ShowLogs
  <2> QED
    BY <1>8, <2>1, <2>2, <2>3 DEF OnlyAnswer, ShowLogs
<1>9. CASE StopLogs \/ ShowQueue
  <2>1. /\ session \in Admins /\ session # None
        /\ misread' \in BOOLEAN
        /\ revents' = FALSE
        /\ UNCHANGED <<adminVars, waiting, logVars, sent, broken>>
    BY <1>9, RecvTypes DEF StopLogs, ShowQueue
  <2>2. toServer' \in [Admins -> Seq(Input)]
    BY <1>9, <2>1, DrainedTypes DEF StopLogs, ShowQueue
  <2> QED
    BY <1>9, <2>1, <2>2 DEF StopLogs, ShowQueue
<1>10. CASE Exit
  <2>1. /\ session \in Admins /\ session # None
        /\ misread' \in BOOLEAN
        /\ revents' = FALSE
        /\ UNCHANGED <<adminVars, waiting, logVars, sent, broken>>
    BY <1>10, RecvTypes DEF Exit
  <2>2. toAdmin' \in [Admins -> 0 .. Buffer] /\ server' \in {"accept", "killed"}
    BY <1>10, <2>1, AnswerTypes DEF Exit
  <2>3. session' = None /\ closed' \in SUBSET Admins /\ toServer' \in [Admins -> Seq(Input)]
    BY <1>10, <2>1, DisconnectTypes DEF Exit
  <2> QED
    BY <1>10, <2>1, <2>2, <2>3 DEF Exit
<1>11. CASE Blank
  <2>1. /\ session \in Admins /\ session # None
        /\ misread' \in BOOLEAN
        /\ revents' = FALSE
        /\ UNCHANGED <<adminVars, waiting, logVars, sent, broken>>
    BY <1>11, RecvTypes DEF Blank
  <2>2. server' = "killed" /\ UNCHANGED <<session, show_logs, expired, toServer, toAdmin, closed>>
    BY <1>11 DEF Blank
  <2> QED
    BY <2>1, <2>2
<1>12. CASE AnswerQueue
  <2>1. session \in Admins
    BY <1>12 DEF AnswerQueue
  <2> QED
    BY <1>12, <2>1, AnswerTypes DEF AnswerQueue
<1> QED
  BY <1>1, <1>2, <1>3, <1>4, <1>5, <1>6, <1>7, <1>8, <1>9, <1>10, <1>11, <1>12
     DEF AdminThread

LEMMA TypesPreserved == TypeOK /\ [Next]_vars => TypeOK'
<1> SUFFICES ASSUME TypeOK, [Next]_vars PROVE TypeOK'
  OBVIOUS
<1> USE DEF TypeOK, threadVars, adminVars, socketVars, logVars, historyVars
<1>1. CASE LogAppend
  <2>1. logged + 1 \in 1 .. MaxLogged
    BY <1>1, BoundsAssumption DEF LogAppend
  <2>2. log # <<>> => Head(log) \in 1 .. MaxLogged /\ Tail(log) \in Seq(1 .. MaxLogged)
    BY HeadTailProperties
  <2>3. Len(log) = Capacity => log # <<>>
    BY BufferAssumption, EmptySeq
  <2>4. log' \in Seq(1 .. MaxLogged)
    <3> DEFINE kept == IF Len(log) = Capacity THEN Tail(log) ELSE log
    <3>1. kept \in Seq(1 .. MaxLogged)
      BY <2>2, <2>3
    <3>2. Append(kept, logged + 1) \in Seq(1 .. MaxLogged)
      BY <2>1, <3>1, AppendProperties
    <3> QED
      BY <1>1, <3>2 DEF LogAppend, Log!Push
  <2>5. overwritten' \in SUBSET (1 .. MaxLogged)
    BY <1>1, <2>2, <2>3 DEF LogAppend
  <2> QED
    BY <1>1, <2>1, <2>4, <2>5 DEF LogAppend, Log!Push
<1>2. CASE Expire
  BY <1>2 DEF Expire
<1>3. CASE UNCHANGED vars
  BY <1>3 DEF vars
<1> QED
  BY <1>1, <1>2, <1>3, FrontEndTypes, ThreadTypes DEF Next

(***************************************************************************)
(* Type correctness: a session is served whenever the admin thread is      *)
(* anywhere but in accept, and no send buffer holds more than it can.      *)
(***************************************************************************)
THEOREM ConsoleTypes == Spec => []TypeOK
BY TypesInitially, TypesPreserved, PTL DEF Spec

-----------------------------------------------------------------------------
(***************************************************************************)
(* Who is where: nobody is served whose connection was closed, an admin    *)
(* who waits was not served yet and could not send anything, and while the *)
(* server runs only those have seen the end whose connection it closed.    *)
(***************************************************************************)
Queued(a) == \E k \in DOMAIN waiting : waiting[k] = a

Untouched(a) ==
    /\ toServer[a] = <<>>
    /\ toAdmin[a] = 0
    /\ ~in_log_mode[a]
    /\ a \notin closed
    /\ session # a

OneTurnEach == \A j, k \in DOMAIN waiting : waiting[j] = waiting[k] => j = k

Turn(a) ==
    /\ Queued(a) => Untouched(a) /\ admin[a] \in {"waiting", "left", "over"}
    /\ admin[a] = "out" => Untouched(a) /\ ~Queued(a)
    /\ Running /\ admin[a] = "over" => a \in closed

Turns == session \notin closed /\ OneTurnEach /\ \A a \in Admins : Turn(a)

LEMMA TurnsInitially == Init => Turns
<1> SUFFICES ASSUME Init PROVE Turns
  OBVIOUS
<1>1. DOMAIN waiting = {}
  BY DEF Init
<1>2. session = None /\ closed = {}
  BY DEF Init
<1>3. ASSUME NEW a \in Admins PROVE Turn(a)
  <2>1. ~Queued(a) /\ admin[a] = "out"
    BY <1>1 DEF Init, Queued
  <2>2. toServer[a] = <<>> /\ toAdmin[a] = 0 /\ ~in_log_mode[a]
    BY DEF Init
  <2> QED
    BY <1>2, <2>1, <2>2, NoneAssumption DEF Turn, Untouched
<1> QED
  BY <1>1, <1>2, <1>3 DEF Turns, OneTurnEach

LEMMA WaitingTail ==
    ASSUME TypeOK, OneTurnEach, waiting # <<>>, waiting' = Tail(waiting)
    PROVE  /\ OneTurnEach'
           /\ Queued(Head(waiting))
           /\ \A a : Queued(a)' => Queued(a) /\ a # Head(waiting)
<1>1. waiting \in Seq(Admins)
  BY DEF TypeOK
<1>2. /\ Tail(waiting) \in Seq(Admins)
      /\ Len(Tail(waiting)) = Len(waiting) - 1
      /\ \A k \in 1 .. Len(Tail(waiting)) : Tail(waiting)[k] = waiting[k + 1]
      /\ Head(waiting) = waiting[1]
  BY <1>1, HeadTailProperties
<1>3. /\ DOMAIN waiting = 1 .. Len(waiting) /\ Len(waiting) \in Nat \ {0}
      /\ DOMAIN Tail(waiting) = 1 .. Len(Tail(waiting))
  BY <1>1, <1>2, LenProperties, EmptySeq
<1>4. \A k \in DOMAIN waiting' :
         k \in Int /\ k + 1 \in DOMAIN waiting /\ k + 1 # 1 /\ waiting'[k] = waiting[k + 1]
  BY <1>2, <1>3
<1>5. 1 \in DOMAIN waiting
  BY <1>3
<1>6. OneTurnEach'
  <2> SUFFICES ASSUME NEW j \in DOMAIN waiting', NEW k \in DOMAIN waiting',
                      waiting'[j] = waiting'[k]
               PROVE  j = k
    BY DEF OneTurnEach
  <2>1. j + 1 = k + 1
    BY <1>4 DEF OneTurnEach
  <2> QED
    BY <1>4, <2>1
<1>7. \A a : Queued(a)' => Queued(a) /\ a # Head(waiting)
  BY <1>2, <1>4, <1>5 DEF OneTurnEach, Queued
<1> QED
  BY <1>2, <1>5, <1>6, <1>7 DEF Queued

LEMMA WaitingAppend ==
    ASSUME TypeOK, OneTurnEach, NEW a \in Admins, ~Queued(a), waiting' = Append(waiting, a)
    PROVE  /\ OneTurnEach'
           /\ \A b : Queued(b)' => Queued(b) \/ b = a
<1>1. waiting \in Seq(Admins)
  BY DEF TypeOK
<1>2. /\ Append(waiting, a) \in Seq(Admins)
      /\ Len(Append(waiting, a)) = Len(waiting) + 1
      /\ \A k \in 1 .. Len(waiting) : Append(waiting, a)[k] = waiting[k]
      /\ Append(waiting, a)[Len(waiting) + 1] = a
  BY <1>1, AppendProperties
<1>3. /\ DOMAIN waiting = 1 .. Len(waiting) /\ Len(waiting) \in Nat
      /\ DOMAIN Append(waiting, a) = 1 .. Len(Append(waiting, a))
  BY <1>1, <1>2, LenProperties
<1>4. \A k \in DOMAIN waiting' :
         \/ k \in DOMAIN waiting /\ waiting'[k] = waiting[k]
         \/ k = Len(waiting) + 1 /\ waiting'[k] = a
  BY <1>2, <1>3
<1> QED
  BY <1>4 DEF OneTurnEach, Queued

(***************************************************************************)
(* What the admin thread does in a session concerns the admin it serves.   *)
(***************************************************************************)
InSession ==
    \/ Top \/ Poll \/ StreamLine \/ StreamEnds \/ NothingToRead \/ PeerClosed
    \/ OnlyAnswer \/ ShowLogs \/ StopLogs \/ Exit \/ Blank \/ ShowQueue \/ AnswerQueue

LEMMA SessionProperties ==
    ASSUME TypeOK, InSession
    PROVE  /\ Running /\ session \in Admins
           /\ UNCHANGED <<adminVars, waiting>>
           /\ \/ session' = session /\ closed' = closed
              \/ session' = None /\ closed' = closed \cup {session}
           /\ \A a \in Admins \ {session} :
                 toServer'[a] = toServer[a] /\ toAdmin'[a] = toAdmin[a]
<1>1. Running /\ session \in Admins
  BY DEF TypeOK, Running, InSession, Top, Poll, StreamLine, StreamEnds, NothingToRead, PeerClosed,
         OnlyAnswer, ShowLogs, StopLogs, Exit, Blank, ShowQueue, AnswerQueue, Recv
<1>2. UNCHANGED <<adminVars, waiting>>
  BY DEF InSession, Top, Poll, StreamLine, StreamEnds, NothingToRead, PeerClosed,
         OnlyAnswer, ShowLogs, StopLogs, Exit, Blank, ShowQueue, AnswerQueue, Recv, socketVars
<1>3. \/ session' = session /\ closed' = closed
      \/ session' = None /\ closed' = closed \cup {session}
  BY DEF InSession, Top, Poll, StreamLine, StreamEnds, NothingToRead, PeerClosed,
         OnlyAnswer, ShowLogs, StopLogs, Exit, Blank, ShowQueue, AnswerQueue, socketVars,
         Disconnect
<1>4. \/ UNCHANGED toServer
      \/ toServer' = [toServer EXCEPT ![session] = <<>>]
  BY DEF InSession, Top, Poll, StreamLine, StreamEnds, NothingToRead, PeerClosed,
         OnlyAnswer, ShowLogs, StopLogs, Exit, Blank, ShowQueue, AnswerQueue, socketVars,
         Disconnect, Drained
<1>5. \/ UNCHANGED toAdmin
      \/ \E n \in Nat : toAdmin' = [toAdmin EXCEPT ![session] = n]
  <2>1. toAdmin[session] \in Nat /\ toAdmin[session] + 1 \in Nat
    BY <1>1, BufferAssumption DEF TypeOK
  <2>2. ASSUME NEW next, Answer(next)
        PROVE  UNCHANGED toAdmin \/ \E n \in Nat : toAdmin' = [toAdmin EXCEPT ![session] = n]
    BY <2>1, <2>2 DEF Answer
  <2>3. StreamLine =>
           UNCHANGED toAdmin \/ toAdmin' = [toAdmin EXCEPT ![session] = toAdmin[session] + 1]
    BY DEF StreamLine
  <2> QED
    BY <2>1, <2>2, <2>3
       DEF InSession, Top, Poll, StreamEnds, NothingToRead, PeerClosed,
           OnlyAnswer, ShowLogs, StopLogs, Exit, Blank, ShowQueue, AnswerQueue, socketVars
<1> QED
  BY <1>1, <1>2, <1>3, <1>4, <1>5 DEF TypeOK

LEMMA TurnsPreserved == TypeOK /\ Turns /\ [Next]_vars => Turns'
<1> SUFFICES ASSUME TypeOK, Turns, [Next]_vars PROVE Turns'
  OBVIOUS
<1> USE DEF Turns, threadVars, adminVars, socketVars, logVars, historyVars
<1>1. CASE InSession
  <2>1. /\ Running /\ session \in Admins
        /\ UNCHANGED <<adminVars, waiting>>
        /\ \/ session' = session /\ closed' = closed
           \/ session' = None /\ closed' = closed \cup {session}
        /\ \A a \in Admins \ {session} :
              toServer'[a] = toServer[a] /\ toAdmin'[a] = toAdmin[a]
    BY <1>1, SessionProperties
  <2>2. session' \notin closed'
    BY <2>1, NoneAssumption DEF TypeOK
  <2>3. ASSUME NEW a \in Admins PROVE Turn(a)'
    <3>1. Queued(a)' <=> Queued(a)
      BY <2>1 DEF Queued
    <3>2. Untouched(a) => Untouched(a)'
      BY <2>1, NoneAssumption DEF Untouched
    <3> QED
      BY <2>1, <3>1, <3>2 DEF Turn
  <2> QED
    BY <2>1, <2>2, <2>3 DEF OneTurnEach
<1>2. CASE Accept
  <2> DEFINE h == Head(waiting)
  <2>1. /\ OneTurnEach'
        /\ Queued(h)
        /\ \A a : Queued(a)' => Queued(a) /\ a # h
    BY <1>2, WaitingTail DEF Accept
  <2>2. h \in Admins
    BY <1>2, HeadTailProperties DEF Accept, TypeOK
  <2>3. /\ Running /\ UNCHANGED <<adminVars, toServer, closed>>
        /\ session' \in {session, h}
        /\ \A a \in Admins \ {h} : toAdmin'[a] = toAdmin[a]
    BY <1>2, <2>2 DEF Accept, TypeOK, Running
  <2>4. session' \notin closed'
    BY <2>1, <2>2, <2>3 DEF Turn, Untouched
  <2> HIDE DEF h
  <2>5. ASSUME NEW a \in Admins PROVE Turn(a)'
    <3>1. a # h /\ Untouched(a) => Untouched(a)'
      BY <2>3 DEF Untouched
    <3>2. admin[a] = "out" => a # h
      BY <2>1 DEF Turn
    <3> QED
      BY <2>1, <2>3, <3>1, <3>2 DEF Turn
  <2> QED
    BY <2>1, <2>4, <2>5
<1>3. ASSUME NEW a \in Admins, Connect(a)
      PROVE  Turns'
  <2>1. ~Queued(a) /\ Untouched(a)
    BY <1>3 DEF Connect, Turn
  <2>2. OneTurnEach' /\ \A b : Queued(b)' => Queued(b) \/ b = a
    BY <1>3, <2>1, WaitingAppend DEF Connect
  <2>3. ASSUME NEW b \in Admins PROVE Turn(b)'
    <3>1. Untouched(b)' <=> Untouched(b)
      BY <1>3 DEF Connect, Untouched
    <3>2. Running' <=> Running
      BY <1>3 DEF Connect, Running
    <3>3. admin'[b] = IF b = a THEN "waiting" ELSE admin[b]
      BY <1>3 DEF Connect, Become, TypeOK
    <3>4. closed' = closed
      BY <1>3 DEF Connect
    <3> QED
      BY <2>1, <2>2, <3>1, <3>2, <3>3, <3>4 DEF Turn
  <2> QED
    BY <1>3, <2>2, <2>3 DEF Connect
<1>4. ASSUME NEW a \in Admins, ReadMessage(a) \/ EndOfFile(a) \/ Interrupt(a)
                               \/ \E line \in Lines : Type(a, line)
      PROVE  Turns'
  <2>1. UNCHANGED <<server, session, waiting, closed>>
    BY <1>4 DEF ReadMessage, EndOfFile, Interrupt, Type
  <2>2. /\ admin[a] \in {"waiting", "in"}
        /\ admin'[a] \in {"in", "over", "left", "waiting"}
        /\ \A b \in Admins \ {a} :
              /\ admin'[b] = admin[b]
              /\ toServer'[b] = toServer[b] /\ toAdmin'[b] = toAdmin[b]
              /\ in_log_mode'[b] = in_log_mode[b]
    BY <1>4 DEF ReadMessage, EndOfFile, Interrupt, Type, Become, Finish, TypeOK
  <2>3. Running /\ admin'[a] = "over" => a \in closed
    BY <1>4 DEF ReadMessage, EndOfFile, Interrupt, Type, Become, Finish, TypeOK, Hangup
  <2>4. Queued(a) =>
           /\ UNCHANGED <<toServer[a], toAdmin[a], in_log_mode[a]>>
           /\ admin'[a] \in {"waiting", "left", "over"}
    <3>1. Queued(a) => admin[a] = "waiting" /\ toAdmin[a] = 0 /\ ~in_log_mode[a]
      BY <2>2 DEF Turn, Untouched
    <3>2. CASE ReadMessage(a)
      BY <3>1, <3>2, BufferAssumption DEF ReadMessage
    <3>3. CASE EndOfFile(a)
      BY <3>1, <3>3 DEF EndOfFile, Become, Finish, TypeOK
    <3>4. CASE Interrupt(a)
      BY <3>1, <3>4 DEF Interrupt, Become, Finish, TypeOK
    <3>5. CASE \E line \in Lines : Type(a, line)
      BY <3>1, <3>5 DEF Type
    <3> QED
      BY <1>4, <3>2, <3>3, <3>4, <3>5
  <2>5. ASSUME NEW b \in Admins PROVE Turn(b)'
    <3>1. Queued(b)' <=> Queued(b)
      BY <2>1 DEF Queued
    <3>2. Running' <=> Running
      BY <2>1 DEF Running
    <3>3. CASE b # a
      BY <2>1, <2>2, <3>1, <3>2, <3>3 DEF Turn, Untouched
    <3>4. CASE b = a
      BY <2>1, <2>2, <2>3, <2>4, <3>1, <3>2, <3>4 DEF Turn, Untouched
    <3> QED
      BY <3>3, <3>4
  <2> QED
    BY <2>1, <2>5 DEF OneTurnEach
<1>5. CASE LogAppend \/ Expire \/ UNCHANGED vars
  BY <1>5 DEF LogAppend, Expire, vars, OneTurnEach, Turn, Untouched, Queued, Running
<1> QED
  BY <1>1, <1>2, <1>3, <1>4, <1>5 DEF Next, AdminThread, FrontEnd, InSession

-----------------------------------------------------------------------------
(***************************************************************************)
(* Where the lines are: those in the queue are the newest, one after the   *)
(* other, and all that were sent, overwritten or broken off are older.     *)
(***************************************************************************)
Gone == logged - Len(log)

NewestQueued ==
    /\ Len(log) <= logged /\ Len(log) <= Capacity
    /\ \A k \in DOMAIN log : log[k] = Gone + k

OlderGone ==
    /\ \A k \in DOMAIN sent : sent[k].line <= Gone
    /\ \A n \in overwritten : n <= Gone
    /\ \A x \in broken : x.line <= Gone

LogInv == NewestQueued /\ OlderGone /\ LinesInOrder /\ IsFiniteSet(broken) /\ LinesAccountedFor

LEMMA LogInitially == Init => LogInv
<1> SUFFICES ASSUME Init PROVE LogInv
  OBVIOUS
<1>1. log = <<>> /\ sent = <<>> /\ logged = 0 /\ overwritten = {} /\ broken = {}
  BY DEF Init
<1>2. Len(log) = 0 /\ Len(sent) = 0 /\ DOMAIN log = {} /\ DOMAIN sent = {}
  BY <1>1
<1>3. IsFiniteSet(broken) /\ Cardinality(broken) = 0 /\ Cardinality(overwritten) = 0
  BY <1>1, FS_EmptySet
<1> QED
  BY <1>1, <1>2, <1>3, BufferAssumption
     DEF LogInv, NewestQueued, OlderGone, LinesInOrder, LinesAccountedFor

LEMMA LogTypes ==
    ASSUME TypeOK
    PROVE  /\ log \in Seq(1 .. MaxLogged) /\ DOMAIN log = 1 .. Len(log)
           /\ Len(log) \in Nat /\ logged \in Nat /\ Gone \in Int
           /\ sent \in Seq([to : Admins, line : 1 .. MaxLogged])
           /\ DOMAIN sent = 1 .. Len(sent) /\ Len(sent) \in Nat
           /\ \A k \in DOMAIN sent : sent[k].line \in Nat
           /\ \A n \in overwritten : n \in Nat
           /\ \A x \in broken : x.line \in Nat
           /\ IsFiniteSet(overwritten) /\ Cardinality(overwritten) \in Nat
<1>1. log \in Seq(1 .. MaxLogged) /\ sent \in Seq([to : Admins, line : 1 .. MaxLogged])
  BY DEF TypeOK
<1>2. /\ DOMAIN log = 1 .. Len(log) /\ Len(log) \in Nat
      /\ DOMAIN sent = 1 .. Len(sent) /\ Len(sent) \in Nat
  BY <1>1, LenProperties
<1>3. \A k \in DOMAIN sent : sent[k] \in [to : Admins, line : 1 .. MaxLogged]
  BY <1>1, <1>2, ElementOfSeq
<1>4. IsFiniteSet(overwritten)
  <2>1. IsFiniteSet(1 .. MaxLogged)
    BY FS_Interval, BoundsAssumption
  <2> QED
    BY <2>1, FS_Subset DEF TypeOK
<1>5. Cardinality(overwritten) \in Nat
  BY <1>4, FS_CardinalityType
<1> QED
  <2>1. logged \in 0 .. MaxLogged
    BY DEF TypeOK
  <2>2. logged \in Nat /\ Gone \in Int
    BY <1>2, <2>1, BoundsAssumption DEF Gone
  <2>3. \A k \in DOMAIN sent : sent[k].line \in Nat
    <3>1. \A x \in [to : Admins, line : 1 .. MaxLogged] : x.line \in Nat
      BY BoundsAssumption
    <3> QED
      BY <1>3, <3>1
  <2>4. (\A n \in overwritten : n \in Nat) /\ \A x \in broken : x.line \in Nat
    BY BoundsAssumption DEF TypeOK
  <2> QED
    BY <1>1, <1>2, <1>4, <1>5, <2>2, <2>3, <2>4

LEMMA NewestProperties ==
    ASSUME TypeOK, NewestQueued
    PROVE  /\ Len(log) <= logged /\ Len(log) <= Capacity
           /\ \A k \in 1 .. Len(log) : log[k] = Gone + k
           /\ log # <<>> =>
                 /\ Len(log) > 0 /\ Head(log) = Gone + 1 /\ Head(log) \in 1 .. MaxLogged
                 /\ Tail(log) \in Seq(1 .. MaxLogged) /\ Len(Tail(log)) = Len(log) - 1
                 /\ \A k \in 1 .. Len(log) - 1 : Tail(log)[k] = Gone + 1 + k
<1>1. /\ log \in Seq(1 .. MaxLogged) /\ DOMAIN log = 1 .. Len(log)
      /\ Len(log) \in Nat /\ Gone \in Int
  BY LogTypes
<1>2. /\ Len(log) <= logged /\ Len(log) <= Capacity
      /\ \A k \in 1 .. Len(log) : log[k] = Gone + k
  BY <1>1 DEF NewestQueued
<1>3. ASSUME log # <<>>
      PROVE  /\ Len(log) > 0 /\ Head(log) = Gone + 1 /\ Head(log) \in 1 .. MaxLogged
             /\ Tail(log) \in Seq(1 .. MaxLogged) /\ Len(Tail(log)) = Len(log) - 1
             /\ \A k \in 1 .. Len(log) - 1 : Tail(log)[k] = Gone + 1 + k
  <2>1. /\ Head(log) = log[1] /\ Head(log) \in 1 .. MaxLogged
        /\ Tail(log) \in Seq(1 .. MaxLogged) /\ Len(Tail(log)) = Len(log) - 1
        /\ \A k \in 1 .. Len(Tail(log)) : Tail(log)[k] = log[k + 1]
    <3> DEFINE S == 1 .. MaxLogged
    <3>1. log \in Seq(S) /\ log # <<>>
      BY <1>1, <1>3
    <3> HIDE DEF S
    <3>2. /\ Head(log) = log[1] /\ Head(log) \in S
          /\ Tail(log) \in Seq(S) /\ Len(Tail(log)) = Len(log) - 1
          /\ \A k \in 1 .. Len(Tail(log)) : Tail(log)[k] = log[k + 1]
      BY <3>1, HeadTailProperties
    <3> QED
      BY <3>2 DEF S
  <2>2. Len(log) # 0
    BY <1>1, <1>3, EmptySeq
  <2>3. 1 \in 1 .. Len(log) /\ Len(log) > 0
    BY <1>1, <2>2
  <2>4. \A k \in 1 .. Len(log) - 1 : Tail(log)[k] = Gone + 1 + k
    <3>1. \A k \in 1 .. Len(log) - 1 : k + 1 \in 1 .. Len(log) /\ Gone + (k + 1) = Gone + 1 + k
      BY <1>1
    <3> QED
      BY <1>2, <2>1, <3>1
  <2> QED
    BY <1>2, <2>1, <2>3, <2>4
<1> QED
  BY <1>2, <1>3

(***************************************************************************)
(* log_append: a full queue gives up its oldest line (log_queue.c).        *)
(***************************************************************************)
LEMMA AppendKeepsLines ==
    ASSUME TypeOK, LogInv, LogAppend
    PROVE  LogInv'
<1>1. /\ log' = Append(IF Len(log) = Capacity THEN Tail(log) ELSE log, logged + 1)
      /\ logged' = logged + 1
      /\ overwritten' = IF Len(log) = Capacity THEN overwritten \cup {Head(log)} ELSE overwritten
      /\ UNCHANGED <<sent, broken, closed, server>>
  BY DEF LogAppend, Log!Push, threadVars, socketVars, historyVars
<1>2. /\ log \in Seq(1 .. MaxLogged)
      /\ Len(log) \in Nat /\ logged \in Nat
      /\ \A k \in DOMAIN sent : sent[k].line \in Nat
      /\ \A n \in overwritten : n \in Nat
      /\ \A x \in broken : x.line \in Nat
      /\ IsFiniteSet(overwritten) /\ Cardinality(overwritten) \in Nat
      /\ Len(sent) \in Nat
  BY LogTypes
<1>3. Gone = logged - Len(log)
  BY DEF Gone
<1>4. logged + 1 \in 1 .. MaxLogged
  BY BoundsAssumption DEF LogAppend, TypeOK
<1>5. OlderGone /\ LinesInOrder /\ IsFiniteSet(broken) /\ LinesAccountedFor
  BY DEF LogInv
<1>6. /\ Len(log) <= logged /\ Len(log) <= Capacity
      /\ \A k \in 1 .. Len(log) : log[k] = Gone + k
  BY NewestProperties DEF LogInv
<1>7. Cardinality(broken) \in Nat /\ Capacity \in Nat \ {0}
  BY <1>5, FS_CardinalityType, BufferAssumption
<1>8. LinesInOrder' /\ IsFiniteSet(broken')
  BY <1>1, <1>5 DEF LinesInOrder
<1>9. CASE Len(log) = Capacity
  <2>1. log # <<>>
    BY <1>7, <1>9, EmptySeq
  <2> DEFINE rest == Tail(log)
  <2>2. /\ Head(log) = Gone + 1
        /\ rest \in Seq(1 .. MaxLogged) /\ Len(rest) = Len(log) - 1
        /\ \A k \in 1 .. Len(log) - 1 : rest[k] = Gone + 1 + k
    BY <2>1, NewestProperties DEF LogInv
  <2>3. log' = Append(rest, logged + 1) /\ overwritten' = overwritten \cup {Head(log)}
    BY <1>1, <1>9
  <2> HIDE DEF rest
  <2>4. /\ log' \in Seq(1 .. MaxLogged)
        /\ Len(log') = Len(rest) + 1
        /\ \A k \in 1 .. Len(rest) : log'[k] = rest[k]
        /\ log'[Len(rest) + 1] = logged + 1
    BY <1>4, <2>2, <2>3, AppendProperties
  <2>5. /\ Len(log') = Len(log) /\ DOMAIN log' = 1 .. Len(log)
        /\ \A k \in 1 .. Len(log) - 1 : log'[k] = Gone + 1 + k
        /\ log'[Len(log)] = logged + 1
    <3>1. Len(log') = Len(log) /\ Len(rest) + 1 = Len(log)
      BY <1>2, <2>2, <2>4
    <3> QED
      BY <2>2, <2>4, <3>1, LenProperties
  <2>6. Gone' = Gone + 1 /\ Gone \in Nat
    <3>1. Gone' = logged' - Len(log') /\ logged' = logged + 1 /\ Len(log') = Len(log)
      BY <1>1, <2>5 DEF Gone
    <3> QED
      BY <1>2, <1>3, <1>6, <3>1
  <2>7. NewestQueued'
    <3>1. ASSUME NEW k \in 1 .. Len(log) PROVE log'[k] = Gone' + k
      <4>1. CASE k = Len(log)
        BY <1>2, <1>3, <2>5, <2>6, <4>1
      <4>2. CASE k # Len(log)
        <5>1. k \in 1 .. Len(log) - 1
          BY <1>2, <4>2
        <5> QED
          BY <2>5, <2>6, <5>1
      <4> QED
        BY <4>1, <4>2
    <3>2. Len(log) <= logged'
      BY <1>1, <1>2, <1>6
    <3> QED
      BY <1>6, <2>5, <3>1, <3>2 DEF NewestQueued
  <2>8. OlderGone'
    BY <1>1, <1>2, <1>5, <2>2, <2>3, <2>6 DEF OlderGone
  <2>9. Cardinality(overwritten') = Cardinality(overwritten) + 1
    <3>1. Head(log) \notin overwritten
      BY <1>2, <1>5, <2>2, <2>6 DEF OlderGone
    <3> QED
      BY <1>2, <2>3, <3>1, FS_AddElement
  <2>10. LinesAccountedFor'
    <3>1. logged = Len(log) + Len(sent) + Cardinality(overwritten) + Cardinality(broken)
      BY <1>5 DEF LinesAccountedFor
    <3>2. logged' = Len(log') + Len(sent') + Cardinality(overwritten') + Cardinality(broken')
      <4>1. logged' = logged + 1 /\ sent' = sent /\ broken' = broken /\ Len(log') = Len(log)
        BY <1>1, <2>5
      <4> QED
        BY <1>2, <1>7, <2>9, <3>1, <4>1
    <3> QED
      BY <1>1, <1>5, <3>2 DEF LinesAccountedFor
  <2> QED
    BY <1>8, <2>7, <2>8, <2>10 DEF LogInv
<1>10. CASE Len(log) # Capacity
  <2>1. log' = Append(log, logged + 1) /\ overwritten' = overwritten
    BY <1>1, <1>10
  <2>2. /\ log' \in Seq(1 .. MaxLogged)
        /\ Len(log') = Len(log) + 1
        /\ \A k \in 1 .. Len(log) : log'[k] = log[k]
        /\ log'[Len(log) + 1] = logged + 1
    BY <1>2, <1>4, <2>1, AppendProperties
  <2>3. DOMAIN log' = 1 .. Len(log) + 1
    BY <2>2, LenProperties
  <2>4. Gone' = Gone
    BY <1>1, <1>2, <1>3, <2>2 DEF Gone
  <2>5. NewestQueued'
    <3>1. ASSUME NEW k \in 1 .. Len(log) + 1 PROVE log'[k] = Gone' + k
      <4>1. CASE k = Len(log) + 1
        BY <1>2, <1>3, <2>2, <2>4, <4>1
      <4>2. CASE k # Len(log) + 1
        <5>1. k \in 1 .. Len(log)
          BY <1>2, <4>2
        <5> QED
          BY <1>6, <2>2, <2>4, <5>1
      <4> QED
        BY <4>1, <4>2
    <3>2. Len(log') <= logged' /\ Len(log') <= Capacity
      BY <1>1, <1>2, <1>6, <1>7, <1>10, <2>2
    <3> QED
      BY <2>3, <3>1, <3>2 DEF NewestQueued
  <2>6. OlderGone'
    BY <1>1, <1>5, <2>1, <2>4 DEF OlderGone
  <2>7. LinesAccountedFor'
    BY <1>1, <1>2, <1>5, <1>7, <2>1, <2>2 DEF LinesAccountedFor
  <2> QED
    BY <1>8, <2>5, <2>6, <2>7 DEF LogInv
<1> QED
  BY <1>9, <1>10

(***************************************************************************)
(* A line that is popped is sent, or breaks the session off                *)
(* (admin_handler.c:407-410).                                              *)
(***************************************************************************)
LEMMA StreamKeepsLines ==
    ASSUME TypeOK, Turns, LogInv, StreamLine
    PROVE  LogInv'
<1>1. /\ log # <<>> /\ logline' = Head(log) /\ log' = Tail(log)
      /\ UNCHANGED <<logged, overwritten>> /\ server = "stream"
  BY DEF StreamLine, Log!Pop
<1>2. /\ log \in Seq(1 .. MaxLogged) /\ DOMAIN log = 1 .. Len(log)
      /\ Len(log) \in Nat /\ logged \in Nat /\ Gone = logged - Len(log)
      /\ sent \in Seq([to : Admins, line : 1 .. MaxLogged])
      /\ DOMAIN sent = 1 .. Len(sent) /\ Len(sent) \in Nat
      /\ \A k \in DOMAIN sent : sent[k].line \in Nat
      /\ \A n \in overwritten : n \in Nat
      /\ \A x \in broken : x.line \in Nat
      /\ Cardinality(overwritten) \in Nat
  BY LogTypes DEF Gone
<1>3. Cardinality(broken) \in Nat
  BY FS_CardinalityType DEF LogInv
<1>4. /\ Head(log) = Gone + 1 /\ Head(log) \in 1 .. MaxLogged
      /\ log' \in Seq(1 .. MaxLogged) /\ Len(log') = Len(log) - 1 /\ Len(log) > 0
      /\ \A k \in 1 .. Len(log) - 1 : log'[k] = Gone + 1 + k
      /\ Len(log) <= logged /\ Len(log) <= Capacity
  BY <1>1, NewestProperties DEF LogInv
<1>5. DOMAIN log' = 1 .. Len(log) - 1 /\ Gone' = Gone + 1 /\ logline' = Gone + 1
  <2>1. DOMAIN log' = 1 .. Len(log) - 1
    BY <1>4, LenProperties
  <2>2. Gone' = Gone + 1
    BY <1>1, <1>2, <1>4 DEF Gone
  <2> QED
    BY <1>1, <1>4, <2>1, <2>2
<1>6. NewestQueued'
  <2>1. \A k \in 1 .. Len(log) - 1 : log'[k] = Gone' + k
    BY <1>4, <1>5
  <2>2. Len(log') <= logged' /\ Len(log') <= Capacity
    BY <1>1, <1>2, <1>4, BufferAssumption
  <2> QED
    BY <1>5, <2>1, <2>2 DEF NewestQueued
<1> DEFINE new == [to |-> session, line |-> logline']
<1>7. /\ new \in [to : Admins, line : 1 .. MaxLogged]
      /\ new.to = session /\ new.line = Gone + 1 /\ session \in Admins
  BY <1>1, <1>4, <1>5 DEF TypeOK
<1>d. \A k \in 1 .. Len(sent) : sent[k].line \in Nat /\ sent[k].line <= Gone
  BY <1>2 DEF LogInv, OlderGone
<1>8. CASE sent' = Append(sent, new) /\ UNCHANGED <<broken, closed, server>>
  <2> HIDE DEF new
  <2>1. /\ Len(sent') = Len(sent) + 1
        /\ \A k \in 1 .. Len(sent) : sent'[k] = sent[k]
        /\ sent'[Len(sent) + 1] = new
        /\ DOMAIN sent' = 1 .. Len(sent) + 1
    <3>1. /\ Append(sent, new) \in Seq([to : Admins, line : 1 .. MaxLogged])
          /\ Len(Append(sent, new)) = Len(sent) + 1
          /\ \A k \in 1 .. Len(sent) : Append(sent, new)[k] = sent[k]
          /\ Append(sent, new)[Len(sent) + 1] = new
      BY <1>2, <1>7, AppendProperties
    <3> QED
      BY <1>8, <3>1, LenProperties
  <2>2. OlderGone'
    <3>1. ASSUME NEW k \in 1 .. Len(sent) + 1 PROVE sent'[k].line <= Gone + 1
      <4>1. CASE k \in 1 .. Len(sent)
        BY <1>2, <1>d, <2>1, <4>1
      <4>2. CASE k \notin 1 .. Len(sent)
        <5>1. k = Len(sent) + 1
          BY <1>2, <4>2
        <5> QED
          BY <1>2, <1>7, <2>1, <5>1
      <4> QED
        BY <4>1, <4>2
    <3> QED
      BY <1>1, <1>2, <1>5, <1>8, <2>1, <3>1 DEF LogInv, OlderGone
  <2>3. LinesInOrder'
    <3> SUFFICES ASSUME NEW k \in 1 .. Len(sent) + 1, NEW m \in 1 .. Len(sent) + 1, k < m
                 PROVE  sent'[k].line < sent'[m].line
      BY <2>1 DEF LinesInOrder
    <3>1. k \in 1 .. Len(sent)
      BY <1>2
    <3>2. CASE m \in 1 .. Len(sent)
      BY <1>2, <2>1, <3>1, <3>2 DEF LogInv, LinesInOrder
    <3>3. CASE m = Len(sent) + 1
      <4>1. sent'[k].line = sent[k].line /\ sent'[m].line = Gone + 1
        BY <1>7, <2>1, <3>1, <3>3
      <4> QED
        BY <1>2, <1>d, <3>1, <4>1
    <3>4. Len(sent) \in Nat
      BY <1>2
    <3>5. m \in 1 .. Len(sent) \/ m = Len(sent) + 1
      BY <3>4
    <3> QED
      BY <3>2, <3>3, <3>5
  <2>4. LinesAccountedFor'
    <3>1. logged' = Len(log') + Len(sent') + Cardinality(overwritten') + Cardinality(broken')
      <4>1. logged = Len(log) + Len(sent) + Cardinality(overwritten) + Cardinality(broken)
        BY DEF LogInv, LinesAccountedFor
      <4> QED
        BY <1>1, <1>2, <1>3, <1>4, <1>8, <2>1, <4>1
    <3>2. /\ \A x, y \in broken : x.to = y.to => x = y
          /\ \A x \in broken : x.to \in closed \/ server = "killed"
      BY DEF LogInv, LinesAccountedFor
    <3> QED
      BY <1>8, <3>1, <3>2 DEF LinesAccountedFor
  <2> QED
    BY <1>6, <1>8, <2>2, <2>3, <2>4 DEF LogInv
<1>9. CASE /\ broken' = broken \cup {new} /\ UNCHANGED sent
           /\ \/ server' = "killed" /\ UNCHANGED closed
              \/ closed' = closed \cup {session}
  <2> HIDE DEF new
  <2>1. new \notin broken
    BY <1>2, <1>7 DEF LogInv, OlderGone
  <2>2. IsFiniteSet(broken') /\ Cardinality(broken') = Cardinality(broken) + 1
    BY <1>9, <2>1, FS_AddElement DEF LogInv
  <2>3. OlderGone'
    BY <1>1, <1>2, <1>5, <1>7, <1>9 DEF LogInv, OlderGone
  <2>4. \A x \in broken : x.to # session
    BY <1>1 DEF LogInv, LinesAccountedFor, Turns
  <2>5. \A x, y \in broken' : x.to = y.to => x = y
    BY <1>7, <1>9, <2>4 DEF LogInv, LinesAccountedFor
  <2>6. \A x \in broken' : x.to \in closed' \/ server' = "killed"
    BY <1>1, <1>7, <1>9 DEF LogInv, LinesAccountedFor
  <2>7. logged' = Len(log') + Len(sent') + Cardinality(overwritten') + Cardinality(broken')
    BY <1>1, <1>2, <1>3, <1>4, <1>9, <2>2 DEF LogInv, LinesAccountedFor
  <2>8. LinesInOrder'
    BY <1>9 DEF LogInv, LinesInOrder
  <2> QED
    BY <1>6, <2>2, <2>3, <2>5, <2>6, <2>7, <2>8 DEF LogInv, LinesAccountedFor
<1> QED
  BY <1>8, <1>9 DEF StreamLine, Disconnect

LEMMA LogPreserved == TypeOK /\ Turns /\ LogInv /\ [Next]_vars => LogInv'
<1> SUFFICES ASSUME TypeOK, Turns, LogInv, [Next]_vars PROVE LogInv'
  OBVIOUS
<1>1. ASSUME UNCHANGED <<log, logged, sent, overwritten, broken>>,
             closed \subseteq closed',
             server = "killed" => server' = "killed"
      PROVE  LogInv'
  BY <1>1 DEF LogInv, NewestQueued, OlderGone, LinesInOrder, LinesAccountedFor, Gone
<1>2. CASE InSession /\ ~StreamLine
  <2>1. Running /\ closed \subseteq closed'
    BY <1>2, SessionProperties
  <2>2. UNCHANGED <<log, logged, sent, overwritten, broken>>
    BY <1>2 DEF InSession, Top, Poll, StreamEnds, NothingToRead, PeerClosed, OnlyAnswer,
                ShowLogs, StopLogs, Exit, Blank, ShowQueue, AnswerQueue, Recv,
                logVars, historyVars, Log!Timeout
  <2> QED
    BY <1>1, <2>1, <2>2 DEF Running
<1>3. CASE Accept
  BY <1>1, <1>3 DEF Accept, logVars, historyVars
<1>4. ASSUME NEW a \in Admins, FrontEnd(a)
      PROVE  LogInv'
  BY <1>1, <1>4 DEF FrontEnd, Connect, ReadMessage, EndOfFile, Interrupt, Type,
                    threadVars, socketVars, logVars, historyVars
<1>5. CASE Expire \/ UNCHANGED vars
  BY <1>1, <1>5 DEF Expire, vars, threadVars, socketVars, logVars, historyVars
<1> QED
  BY <1>2, <1>3, <1>4, <1>5, AppendKeepsLines, StreamKeepsLines DEF Next, AdminThread, InSession

(***************************************************************************)
(* Over all sessions together no log line is sent twice or out of order.   *)
(***************************************************************************)
THEOREM LinesGoInOrder == Spec => []LinesInOrder
<1>1. LogInv => LinesInOrder
  BY DEF LogInv
<1> QED
  BY TypesInitially, TypesPreserved, TurnsInitially, TurnsPreserved, LogInitially, LogPreserved,
     <1>1, PTL DEF Spec

(***************************************************************************)
(* No log line vanishes: it is in the queue, was sent, gave way to a newer *)
(* one, or was in hand when its session ended, one line a session at most. *)
(***************************************************************************)
THEOREM NoLineVanishes == Spec => []LinesAccountedFor
<1>1. LogInv => LinesAccountedFor
  BY DEF LogInv
<1> QED
  BY TypesInitially, TypesPreserved, TurnsInitially, TurnsPreserved, LogInitially, LogPreserved,
     <1>1, PTL DEF Spec

-----------------------------------------------------------------------------
(***************************************************************************)
(* The command in what was read: one line is that command, and only blanks *)
(* are no command.                                                         *)
(***************************************************************************)
LEMMA OneLineCommand ==
    ASSUME NEW input, Len(input) = 1, DOMAIN input = {1}
    PROVE  Command(input) = input[1]
<1> DEFINE Words == {k \in DOMAIN input : input[k] # " "}
           first == CHOOSE m \in Words : \A n \in Words : m <= n
<1>1. CASE input[1] = " "
  <2>1. Words = {}
    BY <1>1
  <2> QED
    BY <1>1, <2>1, Zenon DEF Command
<1>2. CASE input[1] # " "
  <2>1. Words = {1}
    BY <1>2
  <2>2. first = 1
    <3>1. \E m \in Words : \A n \in Words : m <= n
      <4> HIDE DEF Words
      <4>1. 1 \in Words /\ \A n \in Words : 1 <= n
        BY <2>1
      <4> QED
        BY <4>1
    <3>2. first \in Words
      <4> HIDE DEF Words
      <4> QED
        BY <3>1
    <3> HIDE DEF first
    <3> QED
      BY <2>1, <3>2
  <2>3. Command(input) =
           IF Words = {} THEN " "
           ELSE IF input[first] \in Spaced \cup {CtrlC} \/ first = Len(input) \/ input[first + 1] = " "
                THEN input[first] ELSE "HELP"
    BY Zenon DEF Command
  <2> HIDE DEF first
  <2> QED
    BY <2>1, <2>2, <2>3
<1> QED
  BY <1>1, <1>2

LEMMA PlacesOfNonempty ==
    ASSUME NEW n \in Nat \ {0}
    PROVE  1 \in 1 .. n /\ 1 .. n \subseteq Nat
OBVIOUS

LEMMA NoCommand ==
    ASSUME NEW input \in Seq(Input), input # <<>>, Command(input) = " "
    PROVE  " " \in ToSet(input)
<1> DEFINE Words == {k \in DOMAIN input : input[k] # " "}
           first == CHOOSE m \in Words : \A n \in Words : m <= n
<1>1. DOMAIN input = 1 .. Len(input) /\ Len(input) \in Nat \ {0}
  BY LenProperties, EmptySeq
<1>2. CASE Words = {}
  <2>1. 1 \in DOMAIN input
    <3> DEFINE n == Len(input)
    <3>1. n \in Nat \ {0} /\ DOMAIN input = 1 .. n
      BY <1>1
    <3> HIDE DEF n
    <3>2. 1 \in 1 .. n
      BY <3>1, PlacesOfNonempty, Zenon
    <3> QED
      BY <3>1, <3>2, Zenon
  <2>2. 1 \notin Words
    <3> HIDE DEF Words
    <3> QED
      BY <1>2
  <2>3. input[1] = " "
    BY <2>1, <2>2, Zenon
  <2> QED
    BY <2>1, <2>3, Zenon DEF ToSet
<1>3. CASE Words # {}
  <2>1. \E m \in Words : \A n \in Words : m <= n
    <3>1. Words \subseteq Nat
      <4>1. Words \subseteq DOMAIN input
        OBVIOUS
      <4> DEFINE n == Len(input)
      <4>2. n \in Nat \ {0} /\ DOMAIN input = 1 .. n
        BY <1>1
      <4> HIDE DEF Words, n
      <4>3. 1 .. n \subseteq Nat
        BY <4>2, PlacesOfNonempty, Zenon
      <4> QED
        BY <4>1, <4>2, <4>3, Zenon
    <3> HIDE DEF Words
    <3> QED
      BY <1>3, <3>1, LeastElement
  <2>2. first \in Words
    <3> HIDE DEF Words
    <3> QED
      BY <2>1
  <2>3. Command(input) =
           IF Words = {} THEN " "
           ELSE IF input[first] \in Spaced \cup {CtrlC} \/ first = Len(input) \/ input[first + 1] = " "
                THEN input[first] ELSE "HELP"
    BY Zenon DEF Command
  <2>4. input[first] # " "
    BY <2>2
  <2> HIDE DEF Words, first
  <2> QED
    BY <1>3, <2>3, <2>4
<1> QED
  BY <1>2, <1>3

(***************************************************************************)
(* What the admin's mode will be, once the server has read the only line   *)
(* there is to read.                                                       *)
(***************************************************************************)
Effect(line) ==
    \/ line \in {"SHOW_LOGS", "SHOW_LOGS "}
    \/ show_logs /\ line \notin {"STOP_LOGS", "STOP_LOGS ", CtrlC}

Agrees(a) ==
    /\ toServer[a] = <<>> => (in_log_mode[a] <=> show_logs)
    /\ Len(toServer[a]) = 1 => (in_log_mode[a] <=> Effect(toServer[a][1]))

Here(a) == admin[a] \in {"waiting", "in"}

ModesInv == \A a \in Admins : session = a /\ Here(a) /\ Running /\ ~misread => Agrees(a)

LEMMA ModesInitially == Init => ModesInv
BY NoneAssumption DEF Init, ModesInv

LEMMA ModesPreserved == TypeOK /\ Turns /\ ModesInv /\ [Next]_vars => ModesInv'
<1> SUFFICES ASSUME TypeOK, Turns, ModesInv, [Next]_vars,
                    NEW a \in Admins, session' = a, Here(a)', Running', ~misread'
             PROVE  Agrees(a)'
  BY DEF ModesInv
<1> USE DEF threadVars, adminVars, socketVars, logVars, historyVars
<1>1. /\ session \in Admins \cup {None} /\ show_logs \in BOOLEAN
      /\ in_log_mode \in [Admins -> BOOLEAN] /\ toServer \in [Admins -> Seq(Input)]
      /\ admin \in [Admins -> {"out", "waiting", "in", "left", "over"}]
  BY DEF TypeOK
<1>2. ASSUME UNCHANGED <<session, show_logs, toServer[a], in_log_mode[a]>>, Here(a),
             Running, ~misread
      PROVE  Agrees(a)'
  BY <1>2 DEF ModesInv, Agrees, Effect
<1>3. CASE InSession
  <2>1. /\ Running /\ session = a /\ session \in Admins /\ UNCHANGED in_log_mode /\ Here(a)
    BY <1>3, SessionProperties, NoneAssumption DEF Here
  <2>2. CASE UNCHANGED <<show_logs, toServer, misread>>
    BY <1>2, <2>1, <2>2
  <2>3. ASSUME NEW commands, Recv(commands), Drained
        PROVE  /\ toServer'[a] = <<>>
               /\ in_log_mode[a] <=> Effect(toServer[a][1])
               /\ toServer[a][1] \in commands
    <3>1. toServer[a] # <<>> /\ Command(toServer[a]) \in commands
      BY <2>1, <2>3 DEF Recv
    <3>2. toServer[a] \in Seq(Input) /\ Len(toServer[a]) \in Nat
          /\ DOMAIN toServer[a] = 1 .. Len(toServer[a])
      BY <1>1, <2>1, LenProperties
    <3>3. ~misread /\ ~(Len(toServer[a]) > 1)
      BY <2>1, <2>3 DEF Recv
    <3>4. Len(toServer[a]) # 0
      BY <3>1, <3>2, EmptySeq
    <3>5. Len(toServer[a]) = 1 /\ DOMAIN toServer[a] = {1}
      <4> DEFINE n == Len(toServer[a])
      <4>1. n = 1
        <5>1. n \in Nat /\ n # 0 /\ ~(n > 1)
          BY <3>2, <3>3, <3>4
        <5> HIDE DEF n
        <5> QED
          BY <5>1
      <4>2. 1 .. 1 = {1}
        OBVIOUS
      <4> QED
        BY <3>2, <4>1, <4>2
    <3>6. Command(toServer[a]) = toServer[a][1]
      BY <3>5, OneLineCommand
    <3>7. in_log_mode[a] <=> Effect(toServer[a][1])
      BY <2>1, <3>3, <3>5 DEF ModesInv, Agrees
    <3>8. toServer'[a] = <<>>
      BY <1>1, <2>1, <2>3 DEF Drained
    <3> QED
      BY <3>1, <3>6, <3>7, <3>8
  <2>4. ASSUME toServer'[a] = <<>>, in_log_mode[a] <=> show_logs'
        PROVE  Agrees(a)'
    <3>1. Len(toServer'[a]) # 1
      BY <2>4
    <3>2. in_log_mode'[a] <=> show_logs'
      BY <2>1, <2>4, Zenon
    <3> QED
      BY <2>4, <3>1, <3>2, Zenon DEF Agrees
  <2>5. CASE OnlyAnswer
    <3>1. Recv({"HELP"}) /\ Drained /\ show_logs' = show_logs
      BY <2>5 DEF OnlyAnswer
    <3>2. /\ toServer'[a] = <<>>
          /\ in_log_mode[a] <=> Effect(toServer[a][1])
          /\ toServer[a][1] \in {"HELP"}
      BY <2>3, <3>1
    <3>3. Effect(toServer[a][1]) <=> show_logs
      BY <3>2 DEF Effect, CtrlC
    <3> QED
      BY <2>4, <3>1, <3>2, <3>3
  <2>6. CASE ShowLogs
    <3>1. Recv({"SHOW_LOGS", "SHOW_LOGS "}) /\ Drained /\ show_logs' = TRUE
      BY <2>6 DEF ShowLogs
    <3>2. /\ toServer'[a] = <<>>
          /\ in_log_mode[a] <=> Effect(toServer[a][1])
          /\ toServer[a][1] \in {"SHOW_LOGS", "SHOW_LOGS "}
      BY <2>3, <3>1
    <3>3. Effect(toServer[a][1])
      BY <3>2, Zenon DEF Effect
    <3> QED
      BY <2>4, <3>1, <3>2, <3>3
  <2>7. CASE StopLogs
    <3>1. Recv({"STOP_LOGS", "STOP_LOGS ", CtrlC}) /\ Drained /\ show_logs' = FALSE
      BY <2>7 DEF StopLogs
    <3>2. /\ toServer'[a] = <<>>
          /\ in_log_mode[a] <=> Effect(toServer[a][1])
          /\ toServer[a][1] \in {"STOP_LOGS", "STOP_LOGS ", CtrlC}
      BY <2>3, <3>1
    <3>3. ~Effect(toServer[a][1])
      BY <3>2 DEF Effect, CtrlC
    <3> QED
      BY <2>4, <3>1, <3>2, <3>3
  <2>8. CASE ShowQueue
    <3>1. Recv({"SHOW_QUEUE"}) /\ Drained /\ show_logs' = show_logs
      BY <2>8 DEF ShowQueue
    <3>2. /\ toServer'[a] = <<>>
          /\ in_log_mode[a] <=> Effect(toServer[a][1])
          /\ toServer[a][1] \in {"SHOW_QUEUE"}
      BY <2>3, <3>1
    <3>3. Effect(toServer[a][1]) <=> show_logs
      BY <3>2 DEF Effect, CtrlC
    <3> QED
      BY <2>4, <3>1, <3>2, <3>3
  <2>9. ~Blank /\ ~(InSession /\ Disconnect)
    <3>1. Disconnect => session' = None
      BY DEF Disconnect
    <3>2. Blank => ~Running'
      BY DEF Blank, Running
    <3> QED
      BY <3>1, <3>2, NoneAssumption
  <2>10. CASE Top \/ Poll \/ StreamLine \/ StreamEnds \/ NothingToRead \/ AnswerQueue
    BY <1>3, <2>2, <2>9, <2>10 DEF Top, Poll, StreamLine, StreamEnds, NothingToRead, AnswerQueue
  <2> QED
    BY <1>3, <2>5, <2>6, <2>7, <2>8, <2>9, <2>10 DEF InSession, Exit, PeerClosed
<1>4. CASE Accept
  <2> DEFINE h == Head(waiting)
  <2>1. h = a /\ show_logs' = FALSE /\ UNCHANGED <<toServer, in_log_mode>>
    BY <1>4 DEF Accept, Running
  <2>2. Queued(h)
    BY <1>4, WaitingTail DEF Accept, Turns
  <2>3. Untouched(a)
    BY <2>1, <2>2 DEF Turns, Turn
  <2>4. toServer'[a] = <<>> /\ Len(toServer'[a]) # 1
    BY <2>1, <2>3 DEF Untouched
  <2> QED
    BY <2>1, <2>3, <2>4 DEF Agrees, Untouched
<1>5. ASSUME NEW b \in Admins, FrontEnd(b), b # a
      PROVE  Agrees(a)'
  <2>1. UNCHANGED <<session, show_logs, server>> /\ ~misread
    <3>1. UNCHANGED <<session, show_logs, server>>
      BY <1>5 DEF FrontEnd, Connect, ReadMessage, EndOfFile, Interrupt, Type
    <3>2. UNCHANGED misread \/ \E line \in Lines : Type(b, line)
      BY <1>5 DEF FrontEnd, Connect, ReadMessage, EndOfFile, Interrupt
    <3>3. (\E line \in Lines : Type(b, line)) => ~misread
      BY DEF Type
    <3> QED
      BY <3>1, <3>2, <3>3
  <2>2. \/ UNCHANGED toServer
        \/ \E line : toServer' = [toServer EXCEPT ![b] = Append(toServer[b], line)]
    BY <1>5 DEF FrontEnd, Connect, ReadMessage, EndOfFile, Interrupt, Type
  <2>3. UNCHANGED in_log_mode \/ \E mode : in_log_mode' = [in_log_mode EXCEPT ![b] = mode]
    <3>1. ASSUME NEW place, Finish(b, place)
          PROVE  in_log_mode' = [in_log_mode EXCEPT ![b] = FALSE]
      BY <3>1 DEF Finish
    <3>2. CASE \E line \in Lines : Type(b, line)
      <4>1. PICK line \in Lines : Type(b, line)
        BY <3>2
      <4>2. \/ Finish(b, "left")
            \/ in_log_mode' = [in_log_mode EXCEPT
                    ![b] = line = "SHOW_LOGS" \/ (in_log_mode[b] /\ line # "STOP_LOGS")]
        BY <4>1 DEF Type
      <4> QED
        BY <3>1, <4>2, Zenon
    <3>3. CASE Interrupt(b)
      BY <3>1, <3>3, Zenon DEF Interrupt
    <3>4. CASE Connect(b)
      BY <3>4 DEF Connect
    <3>5. CASE ReadMessage(b)
      BY <3>1, <3>5, Zenon DEF ReadMessage
    <3>6. CASE EndOfFile(b)
      BY <3>1, <3>6, Zenon DEF EndOfFile
    <3> QED
      BY <1>5, <3>2, <3>3, <3>4, <3>5, <3>6 DEF FrontEnd
  <2>4. UNCHANGED admin \/ \E place : admin' = [admin EXCEPT ![b] = place]
    BY <1>5 DEF FrontEnd, Connect, ReadMessage, EndOfFile, Interrupt, Type, Become, Finish
  <2>5. UNCHANGED <<toServer[a], in_log_mode[a], admin[a]>>
    BY <1>1, <1>5, <2>2, <2>3, <2>4
  <2> QED
    BY <1>2, <2>1, <2>5 DEF Running, Here
<1>11. ASSUME Connect(a)
       PROVE  Agrees(a)'
  <2>1. admin[a] = "out" /\ session = a
    BY <1>11 DEF Connect
  <2> QED
    BY <2>1 DEF Turns, Turn, Untouched
<1>6. ASSUME ReadMessage(a) \/ EndOfFile(a)
      PROVE  Agrees(a)'
  <2>1. ~Finish(a, "over")
    BY <1>1 DEF Finish, Become, Here
  <2> QED
    BY <1>2, <1>6, <2>1 DEF ReadMessage, EndOfFile, Running, Here
<1>7. ASSUME NEW line \in Input, Running, UNCHANGED <<session, show_logs>>, Here(a), ~misread,
             toServer' = [toServer EXCEPT ![a] = Append(@, line)],
             line \notin {"SHOW_LOGS ", "STOP_LOGS "},
             in_log_mode'[a] <=>
                (line = "SHOW_LOGS" \/ (in_log_mode[a] /\ line \notin {"STOP_LOGS", CtrlC}))
      PROVE  Agrees(a)'
  <2>1. toServer[a] \in Seq(Input) /\ toServer'[a] = Append(toServer[a], line)
    BY <1>1, <1>7
  <2>2. /\ Len(toServer'[a]) = Len(toServer[a]) + 1 /\ Len(toServer[a]) \in Nat
        /\ toServer'[a][Len(toServer[a]) + 1] = line /\ toServer'[a] # <<>>
    BY <2>1, AppendProperties, LenProperties
  <2>3. ASSUME Len(toServer'[a]) = 1
        PROVE  in_log_mode'[a] <=> Effect(toServer[a][1])'
    <3>1. toServer[a] = <<>> /\ toServer'[a][1] = line
      BY <2>1, <2>2, <2>3, EmptySeq
    <3>2. in_log_mode[a] <=> show_logs
      BY <1>7, <3>1 DEF ModesInv, Agrees
    <3>3. Effect(toServer[a][1])' <=>
             line = "SHOW_LOGS" \/ (show_logs /\ line \notin {"STOP_LOGS", CtrlC})
      <4>1. show_logs' = show_logs /\ line \notin {"SHOW_LOGS ", "STOP_LOGS "}
        BY <1>7
      <4> QED
        BY <3>1, <4>1, Zenon DEF Effect, CtrlC
    <3> QED
      BY <1>7, <3>2, <3>3, Zenon
  <2> QED
    BY <2>2, <2>3, Zenon DEF Agrees
<1>8. CASE Interrupt(a)
  <2>1. ~Finish(a, "left")
    BY <1>1 DEF Finish, Become, Here
  <2>2. CASE /\ toServer' = [toServer EXCEPT ![a] = Append(@, CtrlC)]
             /\ in_log_mode' = [in_log_mode EXCEPT ![a] = FALSE]
    <3>1. CtrlC \in Input /\ CtrlC # "SHOW_LOGS" /\ ~in_log_mode'[a]
      BY <1>1, <2>2 DEF Input, CtrlC
    <3>2. Running /\ UNCHANGED <<session, show_logs>> /\ Here(a) /\ ~misread
      BY <1>8 DEF Interrupt, Here
    <3>3. CtrlC \notin {"SHOW_LOGS ", "STOP_LOGS "}
      BY DEF CtrlC
    <3> QED
      BY <1>7, <2>2, <3>1, <3>2, <3>3
  <2> QED
    BY <1>8, <2>1, <2>2 DEF Interrupt
<1>9. ASSUME NEW line \in Lines, Type(a, line)
      PROVE  Agrees(a)'
  <2>1. ~Finish(a, "left")
    BY <1>1 DEF Finish, Become, Here
  <2>2. /\ Running /\ UNCHANGED <<session, show_logs>> /\ Here(a)
        /\ ~misread /\ line \notin {"SHOW_LOGS ", "STOP_LOGS "}
    BY <1>9 DEF Type, Here
  <2>3. /\ line # "EXIT" /\ toServer' = [toServer EXCEPT ![a] = Append(@, line)]
        /\ in_log_mode'[a] <=> (line = "SHOW_LOGS" \/ (in_log_mode[a] /\ line # "STOP_LOGS"))
    BY <1>1, <1>9, <2>1 DEF Type
  <2>4. line \in Input /\ line # CtrlC
    BY <2>3 DEF Input, Lines, Spaced, CtrlC
  <2> QED
    BY <1>7, <2>2, <2>3, <2>4
<1>10. CASE LogAppend \/ Expire \/ UNCHANGED vars
  BY <1>2, <1>10 DEF LogAppend, Expire, vars, Running, Here
<1> QED
  BY <1>3, <1>4, <1>5, <1>6, <1>8, <1>9, <1>10, <1>11 DEF Next, AdminThread, FrontEnd, InSession

(***************************************************************************)
(* The hint of the front end and what Ctrl-C does agree with what the      *)
(* server does, once all that was typed is read, unless in this session    *)
(* two lines were read at once, or a mode command was typed that only the  *)
(* server recognizes (c-admin-client.c:23, 117-120, 175,                   *)
(* admin_handler.c:231-238, 370).                                          *)
(***************************************************************************)
THEOREM FrontEndAgrees == Spec => []ModesAgree
<1>1. TypeOK /\ ModesInv => ModesAgree
  <2> SUFFICES ASSUME TypeOK, ModesInv, NEW a \in Admins, session = a, admin[a] = "in",
                      Running, toServer[a] = <<>>, ~misread
               PROVE  in_log_mode[a] = show_logs
    BY DEF ModesAgree
  <2>1. in_log_mode[a] <=> show_logs
    BY DEF ModesInv, Agrees, Here
  <2>2. in_log_mode[a] \in BOOLEAN /\ show_logs \in BOOLEAN
    BY DEF TypeOK
  <2> QED
    BY <2>1, <2>2
<1> QED
  BY TypesInitially, TypesPreserved, TurnsInitially, TurnsPreserved,
     ModesInitially, ModesPreserved, <1>1, PTL DEF Spec

-----------------------------------------------------------------------------
LEMMA KilledPreserved == TypeOK /\ Turns /\ KilledByLeavers /\ [Next]_vars => KilledByLeavers'
<1> SUFFICES ASSUME TypeOK, Turns, KilledByLeavers, [Next]_vars, server' = "killed"
             PROVE  \E a \in Admins : admin'[a] = "left" \/ " " \in ToSet(toServer'[a])
  BY DEF KilledByLeavers
<1> USE DEF threadVars, adminVars, socketVars, logVars, historyVars
<1>1. admin \in [Admins -> {"out", "waiting", "in", "left", "over"}]
      /\ toServer \in [Admins -> Seq(Input)]
  BY DEF TypeOK
<1>2. CASE InSession
  <2>1. Running /\ session \in Admins /\ UNCHANGED admin
    BY <1>2, SessionProperties
  <2>2. PeerLeft => admin[session] = "left"
    BY <2>1 DEF PeerLeft, Turns, Turn
  <2>3. ASSUME NEW next, Answer(next), next # "killed"
        PROVE  PeerLeft
    BY <2>3 DEF Answer
  <2>4. CASE Blank
    <3>1. /\ toServer[session] # <<>> /\ toServer[session] \in Seq(Input)
          /\ Command(toServer[session]) = " "
      BY <1>1, <2>1, <2>4 DEF Blank, Recv
    <3>2. " " \in ToSet(toServer[session])
      BY <3>1, NoCommand
    <3>3. toServer' = toServer
      BY <2>4 DEF Blank
    <3> QED
      BY <2>1, <3>2, <3>3
  <2>5. CASE StreamLine
    <3>1. PeerLeft
      BY <2>1, <2>5 DEF StreamLine, Running
    <3> QED
      BY <2>1, <2>2, <3>1
  <2>6. ~Poll /\ ~StreamEnds /\ ~NothingToRead /\ ~PeerClosed /\ ~StopLogs /\ ~ShowQueue
    BY DEF Poll, StreamEnds, NothingToRead, PeerClosed, StopLogs, ShowQueue
  <2>7. Top \/ OnlyAnswer \/ ShowLogs \/ Exit \/ AnswerQueue => PeerLeft
    BY <2>3 DEF Top, OnlyAnswer, ShowLogs, Exit, AnswerQueue
  <2> QED
    BY <1>2, <2>1, <2>2, <2>4, <2>5, <2>6, <2>7 DEF InSession
<1>3. CASE Accept
  <2>1. admin[Head(waiting)] = "left" /\ UNCHANGED admin
    BY <1>3 DEF Accept
  <2>2. Head(waiting) \in Admins
    BY <1>3, HeadTailProperties DEF Accept, TypeOK
  <2> QED
    BY <2>1, <2>2
<1>4. ASSUME NEW b \in Admins, FrontEnd(b)
      PROVE  \E a \in Admins : admin'[a] = "left" \/ " " \in ToSet(toServer'[a])
  <2>1. server = "killed"
    BY <1>4 DEF FrontEnd, Connect, ReadMessage, EndOfFile, Interrupt, Type
  <2>2. PICK a \in Admins : admin[a] = "left" \/ " " \in ToSet(toServer[a])
    BY <2>1 DEF KilledByLeavers
  <2>3. ~Connect(b) /\ ~Interrupt(b) /\ \A line \in Lines : ~Type(b, line)
    BY <2>1 DEF Connect, Interrupt, Type, Running
  <2>4. UNCHANGED toServer /\ (admin[a] = "left" => admin'[a] = "left")
    BY <1>1, <1>4, <2>3 DEF FrontEnd, ReadMessage, EndOfFile, Become, Finish
  <2> QED
    BY <2>2, <2>4
<1>5. CASE LogAppend \/ Expire \/ UNCHANGED vars
  BY <1>5 DEF LogAppend, Expire, vars, KilledByLeavers
<1> QED
  BY <1>2, <1>3, <1>4, <1>5 DEF Next, AdminThread, InSession

(***************************************************************************)
(* Only an admin who leaves on his own, or types nothing but blanks, can   *)
(* end the server; whoever waits for the end of his session does not       *)
(* (admin_handler.c:241, and every send of the admin thread).              *)
(***************************************************************************)
THEOREM OnlyLeaversKill == Spec => []KilledByLeavers
<1>1. Init => KilledByLeavers
  BY DEF Init, KilledByLeavers
<1> QED
  BY TypesInitially, TypesPreserved, TurnsInitially, TurnsPreserved, <1>1, KilledPreserved,
     PTL DEF Spec
=============================================================================
