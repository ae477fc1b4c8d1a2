# Verification of the file-processing server

TLA+ models of the client-server application in this repository: a C server
that accepts jobs (a command and an input file) over UDP and TCP, runs the
commands, and hands the results back. Paths below are relative to the
repository (`src/server/...`); in `PROJECT.json` they have the prefix `src/`.

## 1. The system

### Threads of the server

| thread | code | does |
|---|---|---|
| UDP thread | `server.c` `client_thread`, `handle_udp_message` | answers every datagram, one after the other; one time in twenty it also cleans up the client list |
| upload threads (20) | `upload_handler.c` `upload_thread_func`, `process_upload` | take an accepted upload, accept a TCP connection, store the file |
| processing thread | `server.c` `processing_thread`, `processing.c` | once a second runs the command of every job whose files have come |
| download thread | `server.c` `download_thread` | accepts a connection, takes the head of the download queue, sends the file |
| watcher | `server.c` `watcher_thread` | removes clients that have been silent for 30 s |
| admin thread | `admin_handler.c` | one console session at a time over a UNIX socket; streams the log |

### Components, their state and operations

| component | state | operations | what makes it correct |
|---|---|---|---|
| upload queue and pool (`upload_handler.c`) | `upload_queue`, `active_uploads`, `max_uploads`, what each thread does | enqueue by size, take, finish and signal, `set_max_uploads` | exact counter, order, nothing lost or doubled, no lost wakeup, limit honoured |
| jobs (`job_handler.c`, `processing.c`, `process_upload`) | `pending_jobs`, the job directories, the **working directory of the process** | create, find, count a file, run, remove | a command runs once, on the right and whole file; accepted jobs are not dropped; a result is true |
| downloads (`server.c`, `upload_handler.c`) | `download_queue` | answer, enqueue, accept, take, verify, send | a file goes to the client that asked for it; every connection is answered |
| client registry (`server.c`) | `clients`, `client_count` | register, heartbeat, clean up, kick, list | an entry has the address of a client with its id; only silent clients go, and all of them go |
| log queue (`log_queue.c`) | ring of 100 entries | push, timed pop | a bounded list, no sleep over entries |
| admin console (`admin_handler.c`, `c-admin-client.c`) | session, inactivity timer, `show_logs`; in the front end `in_log_mode` | commands, streaming, Ctrl-C | sessions do not leak into each other; log lines in order and accounted for; commands are read, the next admin gets his turn |
| client (`client.c`) | its id, one UDP socket | register, heartbeat, submit, upload, wait, download | it may rely on what it is told |

### How they interact

* `jobs_mutex` guards `pending_jobs`. The processing thread holds it over a whole
  pass, **while commands run**. The UDP thread (JOB_REQ), upload threads (look up,
  count) and SHOW_QUEUE wait for it.
* `upload_queue.mutex` goes with the condition `upload_available`;
  `active_uploads_mutex` guards the counter for writers only, `max_limits_mutex`
  the limit for its one writer only.
* `download_queue.mutex` goes with its own condition; `clients_mutex` guards the
  list of clients; the log queue has a mutex and a condition.
* The working directory is shared by all threads. The processing thread changes
  into a job's directory for the time of its command; every other thread uses
  paths relative to the server's own.
* A TCP connection says neither whose it is nor what it is for. Upload threads
  and the download thread pair connections with jobs by order alone.
* A client has one UDP socket for all answers and takes the first datagram that
  is long enough for the one it waits for. A kick sends its text to the same socket.

What is hard to test here is interleaving (three mutexes around one queue,
condition variables signalled without the waiters' mutex), ordering (datagrams
against connections against queue entries), timeouts that race late answers, and
shared process state (the working directory). `PROJECT.json` lists each hazard at
its line with the properties about it.

## 2. The modules

| module | models | checked by | proved in |
|---|---|---|---|
| `UploadPool` | upload queue, pool threads, `set_max_uploads` | `MCUploadPool`, two cfgs | `UploadPoolProofs` |
| `UploadService` | abstract: a bag of uploads started smallest first, at most so many at a time | refined by `UploadPool` | `UploadServiceProofs` |
| `JobPipeline` | clients, UDP thread, `process_upload`, processing thread | `MCJobPipeline`, five cfgs | `JobPipelineProofs` |
| `DownloadQueue` | `download_file`, `handle_download_request`, `download_thread` | `MCDownloadQueue`, two cfgs | `DownloadQueueProofs` |
| `ClientRegistry` | registration, heartbeats, cleanup, kick, restart | `MCClientRegistry`, one cfg | `ClientRegistryProofs` |
| `LogQueue` | `log_queue.c` | `MCLogQueue`, one cfg | `LogQueueProofs` |
| `BoundedLog` | abstract: a bounded list that drops its oldest entry | refined by `LogQueue`, used by `AdminConsole` | `LogQueueProofs` |
| `AdminConsole` | admin thread, admin client, the log between them | `MCAdminConsole`, one cfg | `AdminConsoleProofs` |
| `SequenceLemmas` | what insertion, removal, Append and Tail do to the places of a sequence | | used by the proofs |

The `MC` modules only give constants their values. Definitions named `...Bug` are
single mistakes in the translated code, each next to the definition it would
replace; no action uses them. They document which mistake each property catches.

### UploadPool

`queue`, `active_uploads`, `max_uploads` are the code's variables. `mutex` and
`active_mutex` are the holders of the two mutexes. `pc` says where in
`upload_thread_func` a thread is; the while condition, which reads the counter and
the limit without their mutexes, is two steps (`Test`, `Compare`) with the loaded
value in `seen`. `pthread_cond_wait` is `Sleep` (release and block in one step),
then `lock` again after a signal or a spurious wakeup. `Take` holds both mutexes in
the code and is one step, because whatever reads the counter meanwhile either
holds the queue's mutex or (`Finish`) needs the mutex of the counter. `Finish` and
`Signal` are two steps: that is where a wakeup could get lost. An upload that is
neither queued nor running may be asked for again at any time. The doubling of the
array is left out here (`DownloadQueue` has the same code and models it).

Some properties need an admin who restrains himself. The variable `admin` is chosen
at the start and says which admin a behaviour has: one who is "free" to type any
number, one who only goes on "lowering" the limit, or a "careful" one who lowers
it only when no more uploads run than the new limit allows and no thread is
between its test and the increment (`Allowed`). A property that needs one of them
names it; all others hold for every admin.

### JobPipeline

Every client submits jobs of one file, one after the other, as
`process_menu_choice` does; a job, its file and its entry in `pending_jobs` are
named `<<client, number>>`. `setting` is chosen at the start and says what a
behaviour is like: which clients and threads there are, how many jobs a client
submits, how often it sends an UPLOAD_REQ, whether transfers may break off, whether
the admin may kick, and which upload limits it may set. So one run covers several
kinds of behaviour. `udp` and `inbox` are the sockets'
buffers, in order. A handler that needs a mutex half way or answers after it has
changed shared state is two steps (`MakeDirectory`/`AddJob`,
`EnqueueUpload`/`AckUpload`), with the request in `handling`. `worker[w]` is the
place in `process_upload`; `backlog` is the listening socket's queue of
connections. `JobsLocked` is `jobs_mutex` held by the processing thread; all other
critical sections of it are single steps. `cwd` is the working directory: a
relative path works only when it is the server's own (`AtRoot`). A file is "none",
"empty" (truncated by open), "whole" or "wrong". A file that two threads have open
at once may end either way. `GiveUp` and `RetryUpload` are the timeouts, possible
whenever nothing has arrived; the server's answer may still come afterwards.
`strayed[c]` remembers the first job in which one of them happened, or in which the
client took an answer of one kind for one of another or the text of a kick for any
(`Stray`, `TakeAtItsWord`, `ReadKick`).
`Alone(c)` says that there is no other client, `Calm(c)` that `c` did not stray in an
earlier job; it may in its last one.

A client takes whatever comes first for the answer it waits for. What it makes of
it follows from the message structs in `protocol.h` and is in three tables:
`TakenForJobAck`, `TakenForUploadAck`, `TakenForDownloadAck`. An UPLOAD_ACK read as
a JobResponse, for example, has the first byte of the client's address where the
status is read, which is not STATUS_OK; a JOB_RESULT read as an UploadResponse has
parts of the client id, which the server never fills in there, for the status and
the port, so either outcome may happen. Only the wait for JOB_RESULT looks at the type, and
none at the `message_id` or the `job_id`.

The text of a kick (`admin_handler.c:150-152`) is long enough for every answer, and is a
refusal in each place but the wait for JOB_RESULT, which skips it (`KickTakenFor`).
Since the admin thread sends it at any moment, its place among the answers is free, and
sending and reading it are one step, `ReadKick`. `TakeUpload` tests `active_uploads`
against `max_uploads`, which `SetMaxUploads` changes; the mutexes around that test are
the subject of `UploadPool`.

### DownloadQueue

A client runs `submit_job` before each download, as `process_menu_choice` does. Here
that is one state, "submitting", which takes whatever comes (`TakenBySubmit`), a late
DOWNLOAD_ACK included, and ends with its own answers (`Submitted`) or without them
(`SubmitFails`); only a JOB_RESULT, its own or an earlier one, leads to a DOWNLOAD_REQ.
`PipelineAnswers` puts the late answers of the pipeline into the inbox, at most
`setting.late` at a time, so that `download_file` too can take something else for its
DOWNLOAD_ACK. A message is what it reads in it: a JOB_RESULT has an uninitialized byte where
the status is, so it may open a connection; a TEXT cannot. `eaten` and `misled` are history: whose
`submit_job` took a DOWNLOAD_ACK, and who connected on something else.

The answer to DOWNLOAD_REQ (`AnswerRequest`) precedes the job's arrival in the
queue (`Enqueue`), as in the code, so the client may connect in between. The thread
is at `accept`, `test`/`waiting` (the while around the condition), `verify`, or
`send`. A connection carries the name the client read in the answer it took, which
may be a late one; a stored file records that name and the job it came from. A client
that cannot create a file of that name hangs up at once (`open` is false), and a send to it
may end the server with SIGPIPE (`BrokenPipe`, `thread` is "killed"). `setting` says which
clients act and how often they ask, whether the network loses answers (`lossy`), whether
clients are dropped or kicked (`drops`), whether jobs run (`away`), and how many late answers
there are (`late`). The variable `away` is the working directory, which makes `stat` and
`open` fail.

### ClientRegistry

Times are ages: `age` of an entry since its last heartbeat, `lag` since a cleaner
read the clock, so `now - last_heartbeat` is `age - lag` (which may be negative, as
in the code). `Tick` is the passing of time; ages stop growing at
`Timeout + MaxLag`, beyond which nothing distinguishes them. `prompt` is chosen at
the start: whether the UDP thread answers every datagram within the tick.
`generate_client_id` draws sixteen bytes from `rand()` and compares them with nothing
(`server.c:310-314`). That two draws of one process differ is an **assumption** of the
model, not a result; what finds an entry by its id rests on it. The generator is not
seeded, and how often it was drawn from depends on the datagrams of before, so after
`Restart` an id may or may not be one that was given out earlier, and two clients may
then hold the same one. The text that a kick sends to the client is left out here; where
it is long enough to be taken for an answer it is in `JobPipeline` (`ReadKick`) and in
`DownloadQueue` (`DropClient`).
A client that asks for an id has no timeout; a lost request or answer looks like a
client that stays in `asking`.

### LogQueue

`Push` is one critical section. `log_queue_pop_timed` is split at the wait:
`consumer` is `out`, `waiting` or `woken`, and `forever` says whether the call has
no timeout. With one, the call may return without a further look at the queue, as
the code does on ETIMEDOUT.

### AdminConsole

`server` is the place of the admin thread: in `accept`, at the top of its inner
loop, in `poll`, in the streaming loop, at the `recv`, or waiting for `jobs_mutex`
(`queue`). `revents` is what poll reported, which the streaming in between may make
old. `expired` stands for the comparison with `last_activity`. The process can be
`killed`, by SIGPIPE or by a line of blanks, for which `strtok` returns NULL.
`toServer[a]` holds the lines on the way; one `recv` takes them all, and because
the front end sends a line without a newline, `Command` finds at most one command
in them, none if words have run together. The front end compares the whole line, the
server trims it and takes its first word, so a line of `Spaced`, such as "SHOW_LOGS ",
is a command only to the server. Admins type without end; only the lines that are not yet
read are bounded (`MaxUnread`). `toAdmin[a]` counts messages in the
other direction against a small send buffer, because the socket is non-blocking and
only the streaming of lines looks at whether `send` worked. The log is `BoundedLog`
with numbered lines, the interface that `LogQueue` is shown to implement. Commands
that only answer are one (`HELP`); what SET_MAX_UPLOADS and KICK_CLIENT do is in
`UploadPool`, `ClientRegistry`, `JobPipeline` and `DownloadQueue`.

`sent`, `overwritten` and `broken` are history: what became of every log line.
`misread` says that front end and server took a line of the session differently: several
lines were read by one `recv`, or a mode command had a blank behind it.

## 3. Runs and bounds

| cfg | bounds | shows |
|---|---|---|
| `UploadPool` | 3 threads, 4 uploads of sizes 0, 1, 2, 2, limits -1..4, the three admins | types, `CounterExact`, `OnePlace`, `ShortestFirst`, `OvertakenOnlyBySmaller`, refinement of `UploadService`; for a lowering admin `NoStrandedUpload` (no lost wakeup) and `SmallestServed` (liveness); for a careful one `LimitHonoured` |
| `UploadPoolRaised` | 3 threads, 2 uploads, any admin | **violated** `RoomIsUsed`: raising the limit wakes nobody |
| `JobPipeline` | 2 upload threads, 2 attempts; either 2 clients, one job each, transfers may break; or 1 client with 2 jobs and whole transfers; or the same with 1 attempt, a kick, and limits 0..2 set at any time | `RunsAtMostOnce`, `ResultsAreTrue`, `LeavesOnlyAfterRun`; for a lone client `OnlyWholeFilesRun` and, until it strays, `InStep` |
| `JobPipelineFair` | 2 clients, 1 attempt; or 1 client, 3 threads, 3 attempts; or 1 client with 2 jobs and a kick, or with 2 jobs and a limit lowered to 1, or with 1 job and a limit of 0; whole transfers | `ReadyJobsRun`; unless the limit is 0 `ConnectionsAreAccepted` and, for a client that is not kicked, `LoneClientServed` (liveness) |
| `JobPipelineCross` | 2 clients | **violated** `OwnConnection`: a thread serves the other client's connection |
| `JobPipelineNotFound` | 1 client | **violated** `NotFoundMeansMissing`: STATUS_FILE_NOT_FOUND for a file that exists |
| `JobPipelineLate` | 1 client, 3 jobs | **violated** `ResultIsOfThisJob`: an earlier job's JOB_RESULT is taken for this one's |
| `DownloadQueue` | seven settings of 1 client with 2 or 3 requests or 2 clients at 2 addresses with 1 or 2, first capacity 1, at most 1 late answer of the pipeline at a time, jobs running, clients dropped, answers lost or not | `QueueFits`, `NoSleepOverJobs`, `FilesStayAtAddress`; `ConnectionsAreAnswered` (liveness) while nobody connects on a JOB_RESULT; `NamesAreRight` while one client is alone, no answer is lost and none is taken for one of another kind |
| `DownloadQueueShared` | 2 clients behind one address | **violated** `FilesGoToTheirClient`: the file goes to the wrong client |
| `ClientRegistry` | 2 clients, interval 1, timeout 3, lag up to 1, 2 datagrams, one heartbeat in a row lost, one restart | `RemovedOnlyWhenSilent` and `OwnAddress`, also after a restart; before one, `GoneClientsDropped` (liveness) and, with a prompt UDP thread, `LiveClientsListed` |
| `LogQueue` | 4 slots, 3 kinds of entries | `NoSleepOverEntries`, refinement of `BoundedLog` |
| `AdminConsole` | 2 admins, any number of lines typed, of which 1 is unread when the next is typed, 2 lines logged, 1 entry in the queue, 1 message in the send buffer | `LinesInOrder`, `LinesAccountedFor`, `ModesAgree` while no line is misread, `KilledByLeavers`; `CommandsAreRead` and, unless a session streams or types for ever, `NextAdminGreeted` (liveness) |

Why the bounds are enough. Three pool threads are one that finishes, one that
decides and one that sleeps, which is every race around the signal; four uploads
are more than threads, two of one size and one of size 0. Two clients suffice for
every crossing of connections and datagrams; three attempts (MAX_RETRIES) with
three threads leave as many stale queue entries as the code can produce for a file.
A first capacity of 1 makes the download queue double, and two requests of a
client are enough for an answer that comes after the next question; with three there is
one for `submit_job` to take as well. One late answer of the pipeline at a time is
enough to be taken for a DOWNLOAD_ACK, by a request before which nothing went wrong. A
kick comes at most once, since a client registers once. Limits of 0, 1 and 2 are none,
one and all of the threads. A client's
second job is the first that meets what an earlier one has left behind (entry,
connection, thread, late answer); the third is needed once, to fall a whole job
behind. Interval 1 and timeout
3 are the code's 10 s and 30 s. Four ring slots wrap round with the consumer at
every place. In `AdminConsole` one unread line and a Ctrl-C behind it are two that run
together; what is typed in the course of a session is not bounded. Two log lines overfill
the queue of one, and one message fills the buffer.

Deadlock is checked for the pool, the registry and the log. The pipeline, the
download queue and the console quiesce when nobody has anything more to ask, so
there the cfgs switch it off and liveness properties say what must not be left undone.

### Fairness

Weak fairness of a thread means that the scheduler runs it when it can run. It is
assumed of the pool's own steps, the processing, download and watcher threads and
the UDP thread, and of clients reading what has arrived, never of a client
starting, a timeout, the admin, a spurious wakeup or, in `UploadPool`, the end of a
transfer. In `JobPipeline` transfers and commands end (a client sends or closes;
ffmpeg terminates), and the threads that need `jobs_mutex` get strong fairness: the
processing thread releases it for one second between two passes, which is far
longer than a woken thread needs to take it. `Tick` and, in `AdminConsole`, `Expire` are
fair because time passes. The admin thread gets `jobs_mutex` in the end for the same
reason as the others. A pool thread with room to start does start while the limit is only
lowered; raising it wakes none (section 4), so the settings of `JobPipelineFair` have
a single limit to set. A front end reads its welcome and notices a hangup; it is not
bound to read anything else, to type, or to leave.

`CommandsAreRead` rests on a log that pauses: the streaming loop does not look at
the socket while there are lines, and the model logs `MaxLogged` of them in all. A log that
is always faster than the socket ends in a full buffer and so in the end of the
session; one that is exactly as fast keeps even STOP_LOGS waiting. `NextAdminGreeted`
is conditional on the session before neither streaming nor typing for ever
(`<>[]~Active`): the inactivity timeout does not apply while lines are streamed, and every
command starts the minute anew (`admin_handler.c:415`, `:429`). An admin who types HELP
once a minute keeps the next one waiting without end.

`LiveClientsListed` is stated for behaviours with `prompt`: datagrams are handled
within a heartbeat interval. The code does not guarantee this. A JOB_REQ that arrives while
a command runs leaves the UDP thread waiting for `jobs_mutex` until the command
ends; if that is more than 30 s, the watcher drops every client, running or not,
and as `HandleHeartbeat` ignores unknown ids they stay dropped.

## 4. What the violated properties say

1. `SET_MAX_UPLOADS` with a higher number wakes no thread (`admin_handler.c:139`).
   Uploads stay queued until another one is enqueued or finishes; after `0` there
   is none to finish.
2. An upload thread accepts any connection (`upload_handler.c:125`) although it
   says it waits for that of its job: with two clients, files are swapped.
3. `STATUS_FILE_NOT_FOUND` for an existing file, between JOB_RESULT and the return
   to the server's directory (`processing.c:83`, `:96`).
4. The download check (`server.c:386`) compares the client id of the *job* with the
   list, so any client behind the same address passes.
5. A client that gave up on a job can stay one answer behind: it takes a late
   JOB_ACK for that of its next job, and then the JOB_RESULT of that job for that of
   the one after (`client.c:211`), although it says for which job it waits
   (`client.c:200`).

Several conditions of the properties that hold say as much. `LimitHonoured` needs the
careful admin, because an upload can start above a limit that was set between a thread's
test and its increment (`upload_handler.c:69`, `:81`). `OnlyWholeFilesRun` needs
connections that do not break, because a transfer cut short is announced as complete and
counted like a whole one (`upload_handler.c:156`, `:175`, `:185`).
`ConnectionsAreAccepted`, `ResultsAreTrue` and `LoneClientServed` need a client that did
not stray in an earlier job. A timeout is one way to stray: a late JOB_ACK can make the
client send a file for a job that was refused, and that connection stays in the backlog.
The text of a kick, taken for an answer, is another (`admin_handler.c:150-152`): the
client gives up on what it asked for, and the true answer comes late. The connection of
another client is a third way, without timeout or kick: it is accepted by the thread
that waits for this client's file, the job runs before its UPLOAD_ACK is sent, and the
JOB_RESULT comes while the client waits for the UPLOAD_ACK and is taken for it; from
then on the client is one answer behind, and the JOB_RESULT it believes in a later job
is not that job's. No run is large enough to have two clients with two jobs each; it
came to light when the proof that a condition on timeouts alone suffices failed, and the
condition was changed. `ConnectionsAreAccepted` is for the same reason stated of a
client that is alone or submits one job: with several clients and several jobs a client
that has strayed can use up the thread of another. Both need a limit above 0, since with
SET_MAX_UPLOADS 0 no upload starts (`upload_handler.c:69`) and nothing tells the client
so; and a client that is kicked may read the text in place of any answer. And
`LoneClientServed` allows a second job to be refused, because its JOB_REQ can overtake
the processing thread's way back to its directory (`processing.c:83`, `:96`).

`NamesAreRight` needs a client that took no answer for one of another kind, because in
all waits but one messages are told apart by length alone. A DOWNLOAD_ACK that comes
after the timeout is taken by the next `submit_job` (`client.c:157`, `:201`); its job
stays at the head of the queue, and from then on every download stores an earlier file
under the name of the one asked for. And a JOB_RESULT that comes late may be taken for a DOWNLOAD_ACK
(`client.c:426`), because the server leaves uninitialized what is read as the status.
The connection it opens may have no job, and `download_thread` waits at it with all
others behind it: hence the condition of `ConnectionsAreAnswered`.

`ModesAgree` needs lines that front end and server take alike: not run together, and
without a blank or a second word behind SHOW_LOGS or STOP_LOGS, which the server trims
and the front end does not (`admin_handler.c:231-238`, `c-admin-client.c:117-120`). And
`KilledByLeavers` says who can end the server: an admin who leaves, also while he waits
for his turn, by SIGPIPE, or one who types only blanks (`admin_handler.c:241`).

## 5. Proofs

Every invariant, every action property and both refinements that the passing runs
check are theorems: they hold for every value of the constants that meets the named
`ASSUME`s of the module, where a run shows them for a few. The assumptions say that
sizes, bounds and limits are numbers and `None` is no element of what it stands
beside; those that say more are named below. Each theorem is proved by an inductive
invariant, because the property itself hardly ever is one.

### UploadPoolProofs

Assumes that the set of threads is finite and not empty; uploads, their sizes and the limits
are arbitrary.

* `PlacesAreRight`: `TypeOK` and `PlacesAgree`, which says that who holds which mutex
  is at which place, a thread has a job exactly while it uploads, and a thread that
  passed its test finds the queue not empty.
* `CounterIsExact` (`CounterExact`): each step moves at most one thread into or out
  of "upload", and a signal moves only a blocked one (`SignalledProperties`).
* `QueueIsSorted` (`ShortestFirst`), from what an insertion behind the last
  not-larger entry does to a sequence (`InsertAtProperties`).
* `LimitIsHonoured` (`LimitHonoured`). The strengthening is `RoomSeen`: a thread past
  its test has seen room, and the counter cannot have grown since, because only the
  holder of the queue's mutex increments it.
* `NoUploadIsStranded` (`NoStrandedUpload`), the absence of lost wakeups: the
  number of alert threads is at least the number of uploads that could start. The
  critical step is a finish that falls between another thread's look and its wait.
  `MissedAreReturning` says that the decrements a thread at "compare" has missed are at
  most the threads on their way back to the queue, each of which is alert.

### UploadServiceProofs

* `UploadsAreInOnePlace` (`OnePlace`): no entry is in the queue twice, none is
  both queued and running, no two threads have the same one.
* `OnlySmallerOvertake` (`OvertakenOnlyBySmaller`), an action property, from the sorted
  queue.
* `PoolIsUploadService` (`ImplementsService`): the refinement. `Enqueue`, `Take` and
  `Finish` are the service's steps; everything a thread does around the mutexes and the
  condition variable is a stutter. The head of the sorted queue is a smallest upload.

### LogQueueProofs

For a ring of any size, over any entries.

* `RingIsConsistent`: `TypeOK` and `RingConsistent`, that is `tail = (head + count) %
  LOG_QUEUE_SIZE`. Without it a push could write over an entry that is not read yet.
* `ConsumerIsWoken` (`NoSleepOverEntries`).
* `RingIsBoundedLog` (`ImplementsBoundedLog`): the refinement. `ContentsAreSlots` says
  which slot an entry of the list is in; a push into a full ring is the abstract list's
  drop of its oldest entry, and waiting and waking are stutters.

### DownloadQueueProofs

For any clients at any addresses, any number of requests and any first capacity.

* `DownloadTypes`, `QueueAlwaysFits` (`QueueFits`), `JobsWakeTheThread` (`NoSleepOverJobs`).
* `FilesStay` (`FilesStayAtAddress`). What carries it is `SentToAddress`: what `verify`
  found about the address still holds when the file is sent, although the client may
  have left the list by then.
* `NamesStayRight` (`NamesAreRight`), for a client that is alone and, in a network that
  loses nothing, took no answer for one of another kind (neither `eaten` nor `misled`).
  The pairing of connections with queue entries is by order alone, so the invariant
  `InStep` is about orders (`InOrder`): the numbers in the requests, the queue, the
  backlog and the answers rise (`Rising`), those that are further on are smaller than
  those that follow (`Less`), and the names under which a file will be stored are
  exactly the files that will be sent (`NamesDue(c) = FilesDue`). Late answers of the
  pipeline have no number and are passed over. `HeadsAgree` concludes that the
  connection at hand and the job at the head of the queue are of one number. What was
  stored under a right name stays so when the server is killed, where the orders end.

### ClientRegistryProofs

Assumes a finite set of clients; interval, timeout, lag, and the numbers of
losses and restarts are arbitrary.

* `RegistryTypes` and `OnlySilentRemoved` (`RemovedOnlyWhenSilent`, an action property).
  `ListInv` adds that every id in the list was given out since the last start, and, from
  the assumption on `rand()`, that no two entries have the same. A cleanup removes any
  number of entries in one step; the lemmas about it say that what is left is the old
  list thinned out, in order.
* `AddressesAreOwn` (`OwnAddress`), from two invariants. `OwnIds` holds before a
  restart: the ids of two clients are apart, also while an answer is under way, and a
  heartbeat carries its sender's. After a restart two clients may hold one id, and a
  heartbeat of the one moves the entry of the other to its own address. `HolderInv`
  holds all the same: a client asks for an id once (`AsksOnce`), heartbeats carry the id
  their sender holds (`BeatsRight`), so an entry's address is that of a client that has
  its id or is about to get it (`EntriesHeld`).
* `RunningClientsStay` (`LiveClientsListed`) has the hypothesis `LossesTolerated`,
  `(MaxLosses + 1) * Interval < Timeout`, about the network rather than the code:
  10 s and 30 s tolerate one lost heartbeat in a row, and with two the property is
  false. `InTime` bounds the age of a running client's entry by the heartbeats lost in a row
  and the time since the last, unless one is in the socket.

### AdminConsoleProofs

For any number of front ends and any bounds on unread lines, lines logged, and buffers.

* `ConsoleTypes`.
* `LinesGoInOrder` (`LinesInOrder`), `NoLineVanishes` (`LinesAccountedFor`). `LogInv`: the
  lines in the queue are the newest ones, consecutive, and all that were sent, overwritten
  or broken off are older.
* `FrontEndAgrees` (`ModesAgree`), for a session in which no line was misread. `Agrees`
  says what the mode will be once the server has read the line that is under way; that
  it also holds at the start of a session is why the server resets `show_logs` there
  (`admin_handler.c:370`). `Turns` says that an admin who waits was not served yet, and
  that no connection that was closed is served.
* `OnlyLeaversKill` (`KilledByLeavers`), from `Turns`.

### JobPipelineProofs

For any clients, upload threads, jobs, attempts and settings; the strengthenings
build on each other.

* `PipelineTypes`: `TypeOK` and `PlacesInv` (who is where, whose job it has, and that the
  working directory is a job's exactly while its command runs or its result is sent).
* `CommandsRunOnce` (`RunsAtMostOnce`). `OnceInv`: a job is in one place, its JOB_REQ,
  the half-done handler, its entry, or behind it; an entry whose command ran is the one
  at `i`, on its way out. Files counted twice, retries and the scan that skips a
  neighbour cannot make it run again.
* `NoJobIsDropped` (`LeavesOnlyAfterRun`), an action property about what `RemoveJob`
  removes.
* `ResultsCanBeTrusted` (`ResultsAreTrue`), for any number of clients. The client
  believes whichever JOB_RESULT comes. `UploadInv` says that nothing of a job is
  uploaded while its JOB_ACK is awaited; `ResultInv` that every JOB_RESULT on its way is
  true of the job it names, and there is one per job; `CalmInv` that for a client that
  did not stray in an earlier job nothing of an earlier job is under way any more
  (`Silent`), and that until it strays there is one question or its one answer
  (`Orderly`). `DoneInv` concludes.
* `LoneClientsFilesAreWhole` (`OnlyWholeFilesRun`). `LoneInv` is about a client that is
  alone: all uploads, queue entries and connections are for its last job, there is at
  most one connection, in the backlog or with a thread, and none once the job is
  counted; so the file is whole when it is counted, and nobody truncates it afterwards.
* `LoneClientsKeepInStep` (`InStep`), from `LoneInv` and `CalmInv`: a JOB_RESULT cannot
  come before its UPLOAD_ACK, because the client connects only after that. This also
  shows that a lone client strays only by a timeout or by a kick's text that it takes
  for an answer; a kick while it waits for the JOB_RESULT leaves it in step.
* Two theorems about properties that section 4 shows to be violated say under which
  condition they hold: `LoneClientsOwnConnections` (`OwnConnection` for a client that is
  alone and did not stray in an earlier job, from `LoneInv`) and
  `CalmClientsTakeTheirResults` (`ResultIsOfThisJob` for a client that did not stray in
  an earlier job, whoever else is there, from `ResultInv` and `CalmInv`).

### Only model-checked

* The eight liveness properties (`SmallestServed`, `ReadyJobsRun`,
  `ConnectionsAreAccepted`, `LoneClientServed`, `ConnectionsAreAnswered`,
  `GoneClientsDropped`, `CommandsAreRead`, `NextAdminGreeted`): they rest on fairness,
  and fairness on ENABLED, which the prover does not handle.
* The five violated properties of section 4, which are counterexamples by their nature.

## 6. Not modelled

* Menus and ffmpeg command strings (a command is opaque to the server), the
  editing of the admin's input line, the text of answers, the Python clients, the
  build files.
* Running out of memory, failing socket calls, the length of names, and SIGPIPE in
  upload threads. In the download thread and in the admin console, where a peer that
  leaves can end the server, it is modelled.
* How `rand()` draws ids. The model assumes that one process never draws the same
  sixteen bytes twice.
* Byte layouts, except where one answer is taken for another.
* Several files per job and repeated JOB_REQs: the C client sends neither.
* Two clients with several jobs each: the state space is out of reach. What one
  client's earlier job does to its next is checked with one client, and what clients
  do to each other with one job each.

## 7. Plan

1. The invariants behind the liveness properties, where they do not need fairness: what a
   scan of the processing thread still has to visit, and the measure that each pass lowers
   (`ReadyJobsRun`); how old an entry can get before a cleanup sees it (`GoneClientsDropped`);
   that a thread is on its way for every connection (`ConnectionsAreAccepted`).
2. That the log as `AdminConsole` uses it is the one `LogQueue` implements, with the console as its
   one consumer.
3. `NotFoundMeansMissing` under the condition that leaves it true: no command of another client
   runs, and the processing thread is back in the server's directory.
