# TLA+ models of severCode

The repository holds two Linux servers for a collection of teaching material,
built on a vendored and slightly changed copy of the muduo network library:

* the **IM server** (`ServerMain.cpp`, `IMServer.cpp`, `ClientSession.cpp`)
  answers JSON requests: register, log in, list and upload videos, audio and
  texts, keep a history and bookmarks.  Its data is in MySQL and, in full, in
  caches of the process (`UserManager.cpp`);
* the **file server** (`FileServer/`) takes uploads of files on a bare TCP
  connection and serves them over HTTP.

This directory models the parts of that code whose mistakes a test would hardly
reach, checks them with TLC and proves the central ones with TLAPS.

## 1. Inventory

| Part | State | Operations | What makes it hard | What makes it correct |
|---|---|---|---|---|
| Event loop (`net/EventLoop.cc`) | `quit_`, `pendingFunctors_`, `callingPendingFunctors_`, eventfd | `loop`, `quit`, `runInLoop`, `queueInLoop`, `wakeup`, `handleRead`, `doPendingFunctors` | other threads push and quit while the loop thread is anywhere, also just before poll | no lost wakeup, no lost quit, functors once and in order, everything queued runs |
| Connections (`net/TcpServer.cc`, `TcpConnection.cc`, `Channel.cc`, `poller/EPollPoller.cc`) | `connections_`, `state_`, `events_`, `index_`, `outputBuffer_` | accept, `connectEstablished`, `handleRead/Write/Close`, `send`, `forceClose`, `connectDestroyed` | several callbacks for one event, the earlier of which closes the connection; functors queued before and run after the close; objects kept alive only by queued functors | no assert fails, no dangling callback, output in order and never forgotten, everything reclaimed |
| Session registries (`IMServer.cpp`, `FileServer/FileServer.cpp`) | `m_mapclient`, `m_sessions`, keyed by the object's address | `OnConnection`, `OnClose` | addresses are reused; callbacks hold raw pointers | one session per connection |
| Uploads and downloads (`FileServer/FileSession.cpp`) | `m_isState`, `m_fp`, `m_offset`, `m_filesize`, stdio's buffers, the disk | `OnRead`, `Process`, `OnUploadFileResponse`, `OnHttpResponse`, destructor, `exit()` | no framing, five error returns, two sessions on one file, streams nobody closes | the four variables agree; what is acknowledged is on disk, stays there and is served |
| Users and resources (`UserManager.cpp`, `ClientSession.cpp`, `mysqltool.cpp`) | tables, caches, the MySQL handle | register, log in, upload, visit, bookmark, list, load on start | outages, lost answers, reconnection, crashes, ids made from the clock | acknowledged data is stored and, after any restart, shown |
| Schema (`MySqlManager.cpp`) | tables and columns | `Init`, `CheckDatabase`, `CheckTable`, `CreateTable` | starts interrupted anywhere, tables of other versions | a connected start succeeds and leaves what is needed |
| Acceptor (`net/Acceptor.cc`) | `idleFd_` | accept, refuse | no descriptor is left | clients are served or turned away |
| Loop threads (`net/EventLoopThread*.cc`) | `loop_`, `exiting_`, `loops_`, `next_` | `startLoop`, `start`, `getNextLoop`, destructor | the destructor reads `loop_` unprotected; `quit()` can come before `loop()`; loops end by themselves | loops handed out exist, threads end |
| Timers (`net/TimerQueue.cc`) | `timers_`, `activeTimers_`, `cancelingTimers_`, timerfd | add, cancel, expire, reset | cancellation from within a callback; addresses are reused; the clock is set | a cancelled timer stays cancelled, the others fire |
| Connector, TcpClient (`net/`) | `state_`, `connect_`, `channel_`, retry delay | connect, retry, stop, disconnect, restart | a stop against retry timers and queued functors; descriptor numbers are reused | one attempt at a time, retries until stopped |
| Asynchronous logging (`base/AsyncLogging.cc`, `LogFile.cc`) | two buffers in front, two behind, a queue, the files | append, threadFunc, rollFile, stop | swap under lock against writers; backlogs; a clock that jumps | no line lost or repeated, in order |
| Pool of threads (`base/ThreadPool.cc`) | queue, two condition variables, `running_` | run, take, start, stop | bounded queue, stop against sleepers, spurious wakeups | FIFO, nobody sleeps over work or room |
| Buffer (`net/Buffer.*`) | two indices | append, retrieve, makeSpace | off-by-one at the edges | bytes preserved |
| Latches, queues, threads, log formatting (`base/`) | - | wait, put, take | - | - |
| Binary protocol, message cache, title similarity | - | pure functions and two lists | - | inverse functions, reference definition |

Components call each other directly within the loop thread.  The crossings
between threads are `queueInLoop`/`quit`, the handshake of `startLoop`, and the
mutexes of the logger and the pool of threads; the crossings between processes are
the sockets and MySQL.  `IMServer` and `FileServer` never call
`setThreadNum`, so all callbacks of a server run in one thread.

`PROJECT.json` lists every part with its status, every hazard at its line, and
for each definition the lines it translates.

## 2. Plan

Order, the most important behaviour first:

1. `TaskQueue`, `EventLoop`, `EventLoopProofs` - done;
2. `TcpServer`, with the acceptor and the session registries composed into it - done;
3. `FileUpload`, with stdio, `exit()` and downloads - done;
4. `UserStore`, `MySqlSchema` - done;
5. `TimerQueue`, `LoopThreads`, `TcpClient` - done;
6. `AsyncLogging`, `ThreadPool` - done;
7. the invariants, action properties and refinements of all of them proved - done.

The abstract specification is `TaskQueue`, a FIFO queue; the event loop and the
pool of threads both implement it.

## 3. Conventions

State variables carry the code's names.  Each operation is one action, guards
are the code's conditions and early returns.  A definition introduced by
`Slip:` is a plausible mistake in the definition that follows it (a dropped
guard, a missing reset, a wrong order).  No specification uses a slip; each one
is listed under `mutants` with the property that notices it, which shows that the
property depends on that line of the code.

The `MC*` modules extend a module with the functions its configurations need;
the `.cfg` files give the constants their values.  Where one run stands for
several instances (both servers, several sizes of a pool, several mixes of
requests), the instance is a variable that `Init` chooses from a constant set and
no step changes.

Related invariants are checked as one conjunction of named parts, each with a
comment of its own: `TimersConsistent` is `TypeOK`, `SetsAgree`, `HeapOwned` and
`TimerfdArmed`, and so on.

## 4. Modules

### TaskQueue and EventLoop

`TaskQueue` is what `queueInLoop` promises: a FIFO queue, each task executed once.
`EventLoop` is the reactor.  The variable `pc` says where the loop thread is
(`LoopStates`), `tpc` whether another thread stands between its `push_back` (or
`quit_ = true`) and its `wakeup()`.  Critical sections under `mutex_` are single
steps.  The eventfd is a Boolean (a counter above zero).  A callback or functor
is a state in which `QueueInLoop` and `Quit` may happen any number of times.
Functors are handed over once each, so that histories (`enqueued`, `executed`)
can name them.

### TcpServer

One loop thread, so every step is a step of it, except that the peer closes and
the kernel decides what is ready, what a write takes and which address the
allocator returns.  A connection's event goes through the stages of
`Channel::handleEventWithGuard` (close, read, write) one at a time, with
the replies of a session between read and write.  `Live` spells out who holds a
`shared_ptr`: `connections_`, a queued functor, the session (`ClientSession` only:
`sessionOwns`), the guard of `handleEvent`.  A failed `assert`, or a message
to a destroyed session, sets `aborted`.  A peer that closes may leave bytes
unread (`closing`).  A message is a number; a part of it that was not written
stays in `outputBuffer_` as that number.

`Servers` gives the servers to choose from: whether sessions own their connection
and how many descriptors there are (`limit`) beside the one `idleFd_` holds.
Files other threads have open (`others`) count as well.  A connection that finds
no descriptor is refused with the help of `idleFd_`; another thread can take the
descriptor between the `close` and the `open` of `Acceptor::handleRead`, and
`idleFd_` is then lost for good.

`forceClose` follows a `Process` that answers false.  Both servers' `Process`
answers true on every path today; the code behind the answer is there and is
modelled.

### FileUpload

A byte is a token that says to which upload it belongs, and what a read that begins
with it looks like: an HTTP request line, a JSON value, or neither (`looks`).  A read is
what arrived since the last one: for an `orderly` client exactly one send, otherwise
any cut of any length.  The JSON reader ignores what follows the first value, so a read
whose beginning is a complete head is a head, and what follows it in the same read is
dropped.  A read that begins with a value that is no object parses as well; where a
head is expected `isMember` then throws and the process ends (`HeadThrows`).
Answers reach the client at once.  `m_offset` is an `int32_t`, scaled to
`IntMax`.  What `fwrite` takes may reach the disk at once or stay in the stream
(`buffer`) until `fclose`, whose failure the code does not look at.  A session that
goes away in the middle of an upload leaves its stream behind (`leaked`), and
`exit()` in the signal handler flushes it.  `kept` is what a file held when its upload
was last answered with success, `rivals` who else had it open at that moment.  A negative `fileSize` is not
modelled.  The answer `html`, `Next` or `Ok` depends on the file's kind and is
one answer here.

`OnHttpResponse` is what a request for a file is answered with: a page in one
answer with its length, a video with its playlist, a `download/` request with the
bare bytes and then an answer on top, a missing file not at all.

### UserStore

`tab_*` are the tables, `m_cache*` the caches, `m_mysql` the handle: usable,
stale (the server hung up) or null (a failed `connect` resets it).  `Execute`
gives every outcome of `MySQLTool::Execute`: stored and acknowledged, refused,
stored with the answer lost, not sent; `QueryMarks` the same for the queries of history
and bookmarks, which list nothing if they fail.  The test of the first reconnection is
inverted in the code (`mysqltool.cpp:110`): with a null handle a successful
reconnection refuses the statement, and a failed one sends it to a null
pointer, which ends the process (`QueryNull`).  `TableID` is made from the clock:
rows of one second have one id, and `Stamp` gives the order of ids, which is not
that of time because the digits are not padded.  Restart loads the caches in key
order.  A behaviour begins before the first start.  `Loadable` says when the process
comes up at all: the load functions of the three resource tables read a row before they
ask whether there is one.  `Init` chooses which of these tables have a row
(`SeedUser`, `SeedTitle`): on those `MySqlManager` has just created the process never
runs.  A database without strict mode is assumed: with it the insertion of a bookmark
fails always, because it leaves out the columns of `tab_textData` that `tab_assetsCollect` was
given as `NOT NULL` (`MySqlManager.cpp:52-66`), and nothing is bookmarked.  The resource a client names in an upload has the kind of
the handler that stores it.  Names are not empty.  Answers are abstracted to what
they list.  `Mixes` gives the sets of requests a behaviour is made of: requests
on disjoint tables are checked apart.

### MySqlSchema

One step per statement of `MySqlManager::Init`.  `odd` holds columns whose type
`DESC` prints differently from the declaration; `u_sex`, declared `bit` and printed
`bit(1)`, always does.  The scan of `DESC` is translated with its quirks: it stops at
the first odd column, takes the columns behind it for missing, and repeats the
same row for ever at a column nobody declared.  Table declarations are the
constructor's, with the keys that refer to `tab_user(u_id)` (`Creatable`) and the columns of `tab_textData` that end up in
`tab_assetsCollect` because that table's insertion is commented out.

### TimerQueue

The heap is explicit: `heap` maps an address to the `Timer` that lives there, and
a new `Timer` may get any free address, in particular that of one just deleted.
`timers` and `activeTimers` are the two sets, `expired` and `rest` the running
batch and what is left of it, during which callbacks add and cancel.  A foreign
`addTimer` is two steps, the hand-over and the reading of `sequence()` for the
`TimerId`.  `now` is the wall clock, `timerfd` counts down on its own clock;
`SetClock` changes the former only.  `issued`, `added`, `cancelled` and `ran` are
histories.

### LoopThreads

An owner starts the threads one by one, hands out loops and destroys the pool; a
thread constructs its loop, publishes it, enters `loop()`, leaves and resets
`loop_`.  `SelfQuit` is a functor that calls `quit()` on its own loop.  The
destructor's test of `loop_`, the two halves of its `quit()` (`quit_ = true`, `wakeup()`) and
its join are four steps.  `usedDead` and `wokenDead` record the loops that were gone when
`quit_` was set and when `wakeup()` was called, `forgotten` the loops that cleared a
`quit_` of the destructor as they entered `loop()`.

### TcpClient

The loop thread (events, the retry timer, functors in batches) against one user
thread.  `clientConnect` and `connect` are the two `connect_` flags.  Descriptors
are small numbers that the next socket gets again once they are closed; `channel`
is the descriptor of `channel_` and `polled` whether it is still enabled.
`restarting` is the place between the test in `removeConnection` and
`Connector::restart`.  The retry timer, due after 500 ms or more, is assumed not to overtake the
functors queued in the round that set it.

### AsyncLogging

`append` is one critical section.  The logging thread goes through test, lock,
wait, swap, drop, write and recycle; the wait may end by a notification, by its
timeout or by itself.  Pointers that may be null are `Null`.  `files` holds the
lines of each log file in the order of their names; `rollFile` opens a new file
only if the second is later than the last one.  `fwrite` may fail at any line of a buffer;
`AppendFile::append` then reports to `stderr`, gives the rest up and counts nothing.  `dropped`
is a history of the lines that went with a backlog or were refused by `fwrite`.

### ThreadPool

`wpc` and `ppc` say which worker and which producer sleeps on which condition;
`notify` wakes any one sleeper, `notifyAll` all, and a sleeper may wake by itself.
`maxQueueSize` is chosen from `MaxQueueSizes`, zero meaning no bound.  `taken` is
the order in which tasks left the queue, the `executed` of `TaskQueue`.

## 5. Runs

| Run | Instance | Checks |
|---|---|---|
| `loop` | 2 threads, 3 functors, 1 channel; 58,729 states | `TypeOK`, `NoLostWakeup`, `NoLostQuit`, `ExactlyOnceInOrder`, `ImplementsTaskQueue`, `LoopResponds` |
| `connections` | 2 connections, 2 addresses, two replies on one of them; an IM server with descriptors for both and a file server with one; 148,702 states | `ChannelsConsistent`, `NoAbort`, `DestroyedCleanly`, `SessionPerConnection`, `RepliesInOrder`, `NoWriteAfterClose`, `ConnectionsReclaimed`, `ClientsServed` |
| `timers` | 2 timers, 2 addresses, 1 foreign thread, 3 ticks, clock set once; 143,992 states | `TimersConsistent`, `CancelIsFinal`, `NothingLost`, `TimersFire` |
| `timers_foreign` | 2 timers at 1 address | `IdNamesItsTimer` is violated |
| `loop_threads` | 0, 1 and 3 threads; 24,902 states | `LoopsConsistent`, `DeadLoopsExplained`, `ThreadsRespond` |
| `client` | 2 descriptors, with and without `retry_`; 942 states | `AttemptsConsistent`, `StopHolds`, `Connects` |
| `logging` | 6 lines, buffers of two, files of about one, backlog limit 2, 3 seconds in periods of 2; 199,456 states | `BuffersConsistent`, `LogComplete`, `LoggerResponds` |
| `pool` | 2 workers, 2 producers of 2 tasks, queues unbounded, of 1 and 2; 32,446 states | `QueueConsistent`, `ImplementsTaskQueue`, `PoolResponds` |
| `uploads` | 2 orderly clients on one video, with a page, an empty page and a bad head; 2 with files that look like JSON or HTTP; 1 client that does not wait, any cut of reads, with an empty file or odd ones; 209,122 states | `SessionsConsistent`, `StoredCompletely`, `StoredIsKept`, `UploadsAnswered` |
| `store` | 2 names, 2 titles, 2 seconds with ids out of order, resource table empty or not; 282,376 states | `CacheConsistent`, `AckedIsStored`, `AckedIsServed`, `Recovers` |
| `schema_start` | 3 starts; 66,309 states | `StartsSound`, `InitEnds` |
| `schema_columns` | 2 starts | `MissingColumnsAdded` is violated |

What the passing runs show, beyond the names: a wakeup or a quit is never slept
over, and a functor queued by another thread does not even wait for the poll
timeout (`loop`); whatever mix of hangup, end of file and forced close a
connection meets, no assert fails and nothing of it stays (`connections`); reusing
the address of a deleted `Timer` never lets a `cancel` hit the wrong timer
(`timers`); an upload answered with success is on disk unless another
session opened the file or `fclose` failed, and the only things that can damage it
later are a session that had it open as well and the flush of an abandoned stream by
`exit()` (`uploads`); a registration answered with success survives outages, lost answers
and crashes, and the process finds its way back to the database from all of them
(`store`); the owner of a pool of loops hangs in two cases only, and the code's comments
name all the ways a destructor can meet a loop that is gone (`loop_threads`).

Why the bounds are enough.  *Loop*: a lost wakeup needs one thread in the gap
before its `wakeup()` and one functor in each of the two vectors; the second
thread and the third functor add the case that one thread's wakeup is consumed
for another's functor.  *Connections*: properties relate a connection to a
successor at the same address or to one that holds the last descriptor, so two
suffice for one generation of reuse; two replies are the least for which order
means something.  *Timers*: a timer and one that lives where it lived; two ticks
let one wait while the other expires and repeats.  *Loop threads*: three, as in the
library's own test; the threads only meet the owner.  *Client*: with two descriptors the
next socket gets the number just closed.  *Logging*: buffers of two lines can be written in
part; three of them make a backlog.  *Pool*: both sides can
have one sleeper too many and one too few.  *Uploads*: files of up to three bytes
can be cut in every way; the second session is there to open the same file, and a
piece that looks like something else can come first or last.
*Store*: one row per second and table is what the primary key admits, two
seconds give up to three rows with the seed, and a crash between any two requests is
reached because `Kill` is always enabled.  *Schema*: the third start meets what a
second one left of what a first one left.

Bounds have names: `MaxMessages`, `limit`, `IntMax`, `MaxTime`, `MaxCollect`,
`MaxStarts`, `MaxTimers`, `NumAddrs`, `MaxClockSets`, `MaxUses`, `NumFds`, `MaxDelay`,
`MaxLines`, `MaxSec`, `DropLimit`, `MaxTasks`.  `MaxCollect` bounds the cache of
bookmarks, which otherwise grows because removal takes one entry from the cache
and all matching rows from the table.

Deadlock is checked where the system runs for ever (the event loop, the
connections, the store); the others come to an end when their bounded timers,
lines, tasks, uploads or starts are used up, or when they are stopped.

**Fairness.**  *EventLoop*: the scheduler runs the loop thread, callbacks and functors
return, and a thread that entered `queueInLoop` or `quit` finishes it; the poll
timeout is assumed only in `FunctorsRunEventually`, as the hypothesis
`WF_vars(PollTimeout)`.  *TcpServer*: the loop thread runs.  *TimerQueue*: the
loop thread runs and time passes.  *LoopThreads*: owner and threads run, as far
as they do not wait for each other.  *TcpClient*: the loop thread runs; that the
network lets a connect succeed which is tried again and again (two strong
fairness conditions) is an assumption about the peer, without which no client
connects.  *AsyncLogging*: the logging thread runs and its timed wait ends;
`stop()` goes on.  *ThreadPool*: workers and calls of `run` and `stop` go on unless
they sleep, and tasks return.  *FileUpload*: what has arrived is read, and a client
that sent a head sends its file.  *UserStore*: a database that is down is
started, a process that died is started again and again until that
succeeds, and clients go on asking for their history, since only a request makes
`MySQLTool` connect again.  *MySqlSchema*: a start that is not interrupted goes on.  Nobody is
obliged to call, append, connect, close or fail.

## 6. Where code and words disagree

Two disagreements have a run of their own (`findings` quotes the lines):

* `runAt` and its kin are said to be safe to call from other threads
  (`EventLoop.h:83`), but `addTimer` reads the `Timer` after it has given it away:
  the `TimerId` it returns can name another timer (`timers_foreign`);
* missing columns are not added and the start succeeds nevertheless
  (`schema_columns`): the statement says `add colum`.

Others, met while modelling:

* `quit()` before `loop()` is forgotten (`EventLoop.cc:108`, marked `FIXME`), and
  `~EventLoopThread` then joins a thread that never ends, although
  `EventLoopThread_unittest.cc:33` says "dtor calls quit()".  `LoopResponds` speaks of a loop
  that has been entered; `ThreadsRespond` names this as the one case in which the join lasts
  for ever.  `startLoop` waits for ever if the loop ends itself before `startLoop` has seen it;
* `~EventLoopThread` touches a loop that is gone when a functor ended the loop after the test of
  `loop_`, and also, with no functor at work, when the loop sees `quit_` and ends before
  `quit()` has come to its `wakeup()`; the comments there and in `EventLoop::quit` say so.
  `DeadLoopsExplained` says that there is no third way;
* two sessions may upload one name at the same time; the one that is answered first may find
  its file damaged by the other (`FileSession.cpp:228`).  `StoredIsKept` says that nothing but
  this and `exit()` does it;
* a piece of a file that begins like an HTTP request line is taken for one
  (`FileSession.cpp:121`) and the upload is never answered; an empty file is only complete when
  something else arrives.  `UploadsAnswered` excepts both;
* a read that begins with a JSON number, string or array where a head is expected, a piece of
  a file after a failed upload for instance, makes `isMember` throw and ends the server;
* `fclose`'s failure is not seen: success is answered and the end of the file may be missing
  (`FileSession.cpp:273`);
* a history or a list of bookmarks whose query fails is sent as an empty list
  (`UserManager.cpp:201`, `ClientSession.cpp:689`), and the first statement after the handle
  became null is refused because the test of the reconnection is inverted
  (`mysqltool.cpp:110`): the handle is made anew, and only the next statement is sent.
  `AckedIsServed` speaks of visits while the database answers;
* on the empty tables `MySqlManager` makes, the IM server does not come up
  (`UserManager.cpp:606`); `Recovers` excepts it;
* ids are not in the order of time, so that after a restart a name may resolve to another
  user of that name (`ClientSession.cpp:62`); `RegisteredCanLogin` speaks of names one user
  alone has;
* if `tab_user` has lost its column `u_id`, every other table that is missing cannot be created
  and `Init` fails, since the column is not added; `InitSucceeds` excepts it.  A column nobody
  declared keeps `CheckTable` in its loop for ever (`MySqlManager.cpp:222`); `InitEnds` excepts it;
* an `idleFd_` another thread got in the way of is lost for good (`Acceptor.cc:82`), and clients
  then wait in the listen queue until a descriptor is free; `ClientsServed` excepts it;
* an error of `fwrite` loses log lines with a message to `stderr` only (`FileUtil.cc:40`);
* a `stop()` between the test of `removeConnection` and `Connector::restart` is
  undone by the latter's `connect_ = true` (`TcpClient.cc:174`); `StopHolds` excepts it;
* a `cancel` on the loop thread overtakes the queued `addTimerInLoop` of another
  thread, and the timer fires; `CancelIsFinal` speaks of timers that were added;
* the sex of a user does not survive a restart: the column is a `BIT`, its value
  arrives as a raw byte and is read with `atoi` (`UserManager.cpp:77`);
* a missing database is not created: `Init` connects to it first
  (`MySqlManager.cpp:90`);
* the playlist of a video leaks an `AVFormatContext` per request
  (`FileSession.cpp:1076`); a `download/` request is answered twice, a request for a
  missing file not at all;
* the file server starts a pool of four loops nobody uses (`FileServer/main.cpp:306`);
* users are said to be loaded in descending order but the query has no `ORDER BY`
  (`UserManager.cpp:53-56`); uploaded files are said to be named by their md5
  (`FileServer/FileManager.h:24`) but take the client's name; `tab_textData` is read
  at the start but never created (`MySqlManager.cpp:58`).

## 7. Proofs

Each `...Proofs` module extends its component and proves theorems for every value of
the constants: any sets of threads, connections, addresses and names, any sizes,
limits and lengths of a run.  The bounds of the runs (`MaxLines`, `MaxTime` and the
like) are parameters there.  Two modules hold the proofs of two components each:
`ThreadPoolProofs` those of the two kinds of pools, `UserStoreProofs` those of the store
and of the schema it is kept in.  For that `LoopThreads` and `MySqlSchema` call their
specifications `LoopsSpec` and `SchemaSpec`.

Every invariant and every safety property that a passing run checks is stated by one of
these theorems.

| Module | Theorem | Statement |
|---|---|---|
| `EventLoopProofs` | `TypeCorrect` | `Spec => []TypeOK` |
| | `LostWakeupImpossible` | `Spec => []NoLostWakeup` |
| | `LostQuitImpossible` | `Spec => []NoLostQuit` |
| | `FunctorsExactlyOnceInOrder` | `Spec => []ExactlyOnceInOrder` |
| | `Refinement` | `Spec => ImplementsTaskQueue` |
| `TcpServerProofs` | `NoAssertFails` | `Spec => []NoAbort` |
| | `OneSessionEach` | `Spec => []SessionPerConnection` |
| | `ChannelsAgree` | `Spec => []ChannelsConsistent` |
| | `DestructorsFindOrder` | `Spec => []DestroyedCleanly` |
| | `ClosedMeansSilent` | `Spec => NoWriteAfterClose` |
| | `RepliesStayInOrder` | `Spec => []RepliesInOrder` |
| `TimerQueueProofs` | `TimersAgree` | `Spec => []TimersConsistent` |
| | `CancelledStaysOut` | `Spec => []CancelIsFinal` |
| | `CancelHitsItsOwn` | `Spec => []NothingLost` |
| `TcpClientProofs` | `OneAttemptAtATime` | `Spec => []AttemptsConsistent` |
| | `StopIsFinal` | `Spec => []StopHolds` |
| `AsyncLoggingProofs` | `SpareBuffersAreThere` | `Spec => []BuffersConsistent` |
| | `EveryLineIsAccountedFor` | `Spec => []LogComplete` |
| `ThreadPoolProofs` | `PoolConsistent` | `Spec => []QueueConsistent` |
| | `Refinement` | `Spec => ImplementsTaskQueue` |
| | `PoolOfLoopsSound` | `LoopsSpec => []LoopsConsistent` |
| | `DeadLoopsAreExplained` | `LoopsSpec => []DeadLoopsExplained` |
| `FileUploadProofs` | `SessionsAreConsistent` | `Spec => []SessionsConsistent` |
| | `SuccessMeansStored` | `Spec => []StoredCompletely` |
| | `StoredFilesAreKept` | `Spec => []StoredIsKept` |
| `UserStoreProofs` | `CachesAgree` | `Spec => []CacheConsistent` |
| | `AcknowledgedIsKept` | `Spec => []AckedIsStored` |
| | `AcknowledgedIsServed` | `Spec => []AckedIsServed` |
| | `StartsAreSound` | `SchemaSpec => []StartsSound` |

For every component but the first one inductive invariant is proved (`ServerInv`,
`TimerInv`, `ClientInv`, `LoggerInv`, `PoolInv`, `LoopThreadsInv`, `UploadInv`, `StoreInv`,
`SchemaInv`), with one step or lemma per action or group of actions, and the properties are
derived from it.  TLC checked each of these invariants
on the component's run before it was proved.

**EventLoop.**  `NoLostWakeup` is not inductive, because it only speaks of poll.  The
invariant proved (`WakeupInv`, with `TypeOK` and `CallingInv`) says for every
place of the loop thread why a pending functor will be seen: a swap is
still due before the next poll (`SwapDue`), or a wakeup is coming, or the functor
is one the loop thread queued before `loop()`.  `CallingInv` says that
`callingPendingFunctors_` is set exactly inside `doPendingFunctors`, which is what
`queueInLoop` relies on when it leaves the wakeup out.  A similar argument covers
`quit_`, which is tested again between any callback and the next poll.
`ExactlyOnceInOrder` is inductive with `TypeOK`; its proof and the refinement rest on
two lemmas about sequences (`MoveHead`, `TailOfConcat`).  Assumption: `wakeupChannel_`
is not one of the other channels.

**TcpServer.**  That no assert fails rests on facts no single class states: a
connection is in `connections_` exactly while it is up, and then the poller watches it
(`LifeInv`); within a round of the loop only the channel being handled can have lost
its connection (`EventInv`); `connectDestroyed` is queued once for each connection that was
closed and not yet destroyed (`QueueInv`); a socket that was shut down has no output
(`ShutInv`).  `SessionPerConnection` is part of the invariant, because an allocator may
reuse an address as soon as nothing keeps the old object alive.  `RepliesInOrder` needs one
more fact (`OrderInv`): all that was ever put on the wire or in the buffer is older
than the next message.  Assumptions: a server has a limit on descriptors of at least 1,
`None` is neither a connection nor an address.

**TimerQueue.**  The code knows a `Timer` by its address, by (expiration, address) and by
(address, sequence).  `SetsInv`, `OwnerInv` and `QueueInv` say address by address that the three
agree and that every Timer has one owner; `IdInv` says that a sequence is given out
once, which is why a reused address does not make an old `TimerId` name a new
timer.  `ArmedInv` carries the timerfd.  That `timers_.begin()` is the earliest entry is the
least-number principle (`LeastNat`).  The theorems do not say that the `TimerId` another thread
gets is the right one; `timers_foreign` shows that it need not be.

**LoopThreads.**  The properties speak of single moments (a loop is handed out, the
destructor reads `loop_`, the pool is gone).  `LoopsInv` and `PublishInv` say which threads
`startLoop` has seen and that `loop_` is set exactly while `loop()` may run, `QuitInv` that
only a functor or the destructor ends a loop, `ForgottenInv` that a loop which has cleared the
destructor's `quit_` is ended by a functor only, `UsesInv` that the loops before `next_` are one use ahead of the others.

**TcpClient.**  No function of `Connector` checks that there is one attempt; it follows from
where an attempt can come from.  The invariant says that each `startInLoop`, `resetChannel` and
`connectDestroyed` is queued once (`Distinct`), what each place an attempt starts from may
rely on (`AttemptInv`), that the `resetChannel` of an attempt has run before its
connection can be removed (`ResetInv`: it runs in its own batch of functors), and that a
`stop()` that was not overtaken keeps `connect_` down (`StopInv`).

**AsyncLogging.**  `EachLineOnce` and `FilesInOrder` speak of concatenations of buffers and of files,
so the proof begins with what `FlattenSeq` computes: for appended buffers, for concatenations,
for empty files, and for lines added to the last file that is not empty
(`FlattenExtend`).  Then a swap, a write and an append move lines without changing their order
(`LogOf`); a drop takes away the end of the backlog, a failed write the end of a buffer
(`LinesGone`).  `RoundInv` says that
`nextBuffer_` is only missing while a full buffer waits, which is why enough buffers are left
to replace the ones handed in; `FileInv` says that no file behind the current one was opened,
which is why a clock that is set back does no harm.  Assumption: the threshold of a
backlog (25 in the code) is at least the two buffers that are kept.

**ThreadPool.**  That nobody sleeps over a task or a place is inductive once it is known that
producers wait only if the queue is bounded (`PhaseInv`).  That each task is in one place
(`PlacesInv`) is stated with the queue free of duplicates and without counting.  Assumption:
finitely many workers and producers, at least one worker.

**FileUpload.**  Nothing in `FileSession.cpp` says why the count of bytes can be trusted; the
invariant `UploadInv` does.  For a client of any kind: without a file the four variables are
at rest (`SessionInv`); `m_offset` never exceeds what the stream was given, because it wraps
only downwards (`CountInv`, `WrapFacts`); a file that one session alone has open is as long
as the position of its stream (`AloneInv`), and sessions that share one are marked
(`SharedIsMarked`).  So at least the announced bytes are there when the count reaches the
size.  For an orderly client `OrderlyInv` says that the packets on their way are consecutive
pieces of the file (`InTransit`), and that disk and buffer hold its beginning unless a
piece was taken for an HTTP request; in that case the count lags behind what is still
to come and the upload is never answered with success, so a file with a hole is never
reported as stored.  `KeptInv` says that nobody who is still connected has a stored file open, but for its `rivals`.
The flush at `exit()` is a recursive function over the streams in any order; `AfterFacts`
shows that a file none of whose streams holds bytes comes out as it was, and by `KeptInv`
only a rival and an abandoned stream are left to damage a stored one.  The proof needs what
`FlattenSeq` makes of one packet and what a write does to a file (`WriteAtFacts`,
`WriteAtEnd`).  Assumptions: `IntMax` is a natural number, there are finitely many sessions,
`NoFile` is no name, and the uploads of a script have sizes an `int32_t` holds.

**UserStore.**  `CacheConsistent` is inductive once the tables that are read in key order are known to be
finite and to have a key (`KeyInv`).  That what was acknowledged is served needs that it is
stored and that its user is in the list of users (`ServedInv`), since the restart fills the
caches from the tables.  The order of the key exists because the rows can be ranked by the
number of smaller keys (`SortingPermutation`).  Assumptions: a clock that maps into the natural numbers,
a user who made the first resources, a value `Nobody` that is no user.

**MySqlSchema.**  That Init does not fail for a reason of its own, unless `tab_user` has lost
`u_id`, depends on the order of the checks: every other table refers to `tab_user`, which is
checked first.  `CheckedInv` says that
the tables before the one being checked exist, whatever earlier starts left, and
`AlteredInv` that a column is only altered in a table that exists.  Assumption: at least one
start.  That the columns are complete is not claimed: `schema_columns` refutes it.

The library's induction theorems take an operator as a parameter, which the provers
cannot instantiate.  Where a fact about all lengths is needed, the proofs take the least
length for which it fails (`LeastNat`, from the well-foundedness of `<`) and derive a
contradiction.

Only model-checked:

* every liveness property (fairness and `ENABLED` are out of the prover's reach):
  `LoopResponds`, `ConnectionsReclaimed`, `ClientsServed`, `TimersFire`, `ThreadsRespond`, `Connects`,
  `LoggerResponds`, `PoolResponds`, `UploadsAnswered`, `Recovers`, `InitEnds`;
* the two disagreements of section 6, which are counterexamples.

## 8. Not modelled

`PROJECT.json` gives the reason for each part.

* Third-party code: cpp-httplib, of which nothing is used, and three copies of
  jsoncpp, of which `FileUpload` keeps what a parse decides.  They are more than
  half of the lines under `src/`.
* The HTTP, inspection and RPC add-ons and the examples of the library, which
  neither server links; the `poll(2)` backend, which is off unless an environment
  variable asks for it.
* Sequential code whose state does not outlive a call or belongs to one thread:
  `Buffer` (covered by its own unit test), log formatting, time zones, the cursor of
  a query result, thin wrappers of system calls.  A model would repeat the code.
* Code no server reaches: the binary protocol, the message cache, title
  similarity, `BlockingQueue` and `BoundedBlockingQueue` (the two conditions of
  `ThreadPool` over again), `streamMedia` and its kin.
* Option parsing, daemon set-up; what libavformat does.
* Within the modelled parts: `shutdown()`, `stopRead()`, `forceCloseWithDelay()` and
  high-water marks, which no server uses; several I/O loops; the destruction of
  a running `TcpServer` or `TcpClient`; a second `connect()` of a client; ERR and NVAL
  events, which only log; tasks that call `run()` of their own pool; a `handleRead` of the
  timer queue after another callback of the same round has set the timerfd again (it takes
  the same entries early); what stdio keeps of a log file, and a line torn by a failing write.
