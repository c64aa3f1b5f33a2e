----------------------------- MODULE TcpClient -----------------------------
(***************************************************************************)
(* The client side of a connection: Connector (net/Connector.cc) opens a   *)
(* socket and tries again with a growing delay, TcpClient                  *)
(* (net/TcpClient.cc) keeps the connection and may start over when it is   *)
(* closed.                                                                 *)
(*                                                                         *)
(* The loop thread alternates between events (of the socket, of the        *)
(* connection, of the retry timer) and a batch of the functors queued so   *)
(* far.  A user thread calls connect, disconnect and stop, whose           *)
(* assignments to the two connect_ flags are steps of their own.  A file   *)
(* descriptor is free again once it is closed, and the next socket gets    *)
(* one of the free ones.  The life of the TcpConnection itself is module   *)
(* TcpServer's; here it is up, then its connectDestroyed is queued, then   *)
(* it is gone.  A round of the loop takes less than the first retry delay  *)
(* (500 ms): the retry timer does not overtake what the loop thread itself *)
(* has queued.                                                             *)
(***************************************************************************)
EXTENDS Naturals, Sequences

CONSTANTS
  NumFds,      \* descriptors the process may use
  InitDelay,   \* kInitRetryDelayMs
  MaxDelay,    \* kMaxRetryDelayMs
  Retries      \* values of retry_ to look at

ASSUME ClientAssumption ==
  /\ NumFds \in Nat /\ InitDelay \in Nat /\ MaxDelay \in Nat
  /\ 0 < InitDelay /\ InitDelay <= MaxDelay
  /\ Retries \subseteq BOOLEAN

VARIABLES
  retry,         \* TcpClient::retry_
  clientConnect, \* TcpClient::connect_
  connect,       \* Connector::connect_
  state,         \* Connector::state_
  channel,       \* fd of Connector::channel_, 0: null
  polled,        \* is channel_ registered with the poller?
  retryDelay,    \* retryDelayMs_
  timer,         \* number of retry timers waiting
  functors,      \* pendingFunctors_ of the loop: <<operation, fd>>
  batch,         \* functors of the running batch, 0: the loop handles events
  connection,    \* fd of TcpClient::connection_, 0: null
  fresh,         \* was a descriptor registered after the poll of this round?
  restarting,    \* is removeConnection between its test and restart()?
  openFds,       \* descriptors that are open
  upc,           \* where the user thread is
  stopLost,      \* history: restart() has set connect_ again after a stop()
  doubleClose,   \* history: a closed descriptor was closed again
  gaveUp         \* history: the last ::connect met an error that is not tried again

vars == <<retry, clientConnect, connect, state, channel, polled, retryDelay, timer, functors,
          batch, connection, fresh, restarting, openFds, upc, stopLost, doubleClose, gaveUp>>

Fds == 1..NumFds
InLoop == batch = 0 /\ ~restarting
Queue(op, fd) == functors' = Append(functors, <<op, fd>>)

\* The constructors, and enableRetry.
Init ==
  /\ retry \in Retries
  /\ clientConnect = TRUE
  /\ connect = FALSE
  /\ state = "disconnected"
  /\ channel = 0
  /\ polled = FALSE
  /\ retryDelay = InitDelay
  /\ timer = 0
  /\ functors = << >>
  /\ batch = 0
  /\ connection = 0
  /\ fresh = FALSE
  /\ restarting = FALSE
  /\ openFds = {}
  /\ upc = "new"
  /\ stopLost = FALSE
  /\ doubleClose = FALSE
  /\ gaveUp = FALSE

-----------------------------------------------------------------------------
(* Connector, on the loop thread *)

Close(fd) ==
  /\ openFds' = openFds \ {fd}
  /\ doubleClose' = (doubleClose \/ fd \notin openFds)

\* Slip: no timer is started.
RetryNoTimer(fd) ==
  /\ Close(fd)
  /\ state' = "disconnected"
  /\ UNCHANGED <<timer, retryDelay>>

\* retry(sockfd)
Retry(fd) ==
  /\ Close(fd)
  /\ state' = "disconnected"
  /\ IF connect
     THEN /\ timer' = timer + 1
          /\ retryDelay' = IF 2 * retryDelay < MaxDelay THEN 2 * retryDelay ELSE MaxDelay
     ELSE UNCHANGED <<timer, retryDelay>>

\* connect() and connecting(): a new socket, and what ::connect makes of it:
\* under way, to be tried again (ECONNREFUSED...), or given up (EACCES...).
\* delay is retryDelay_ as the caller leaves it.
ConnectSocket(delay, waiting) ==
  \E fd \in Fds \ openFds :
    \/ /\ channel' = fd /\ polled' = TRUE
       /\ state' = "connecting"
       /\ openFds' = openFds \union {fd}
       /\ retryDelay' = delay /\ timer' = waiting
       /\ gaveUp' = FALSE
    \/ /\ state' = "disconnected"
       /\ timer' = waiting + 1
       /\ retryDelay' = IF 2 * delay < MaxDelay THEN 2 * delay ELSE MaxDelay
       /\ gaveUp' = FALSE
       /\ UNCHANGED <<channel, polled, openFds>>
    \/ /\ state' = "disconnected"
       /\ retryDelay' = delay /\ timer' = waiting
       /\ gaveUp' = TRUE
       /\ UNCHANGED <<channel, polled, openFds>>

\* Slip: connect_ is not looked at.
StartInLoopAnyway(waiting) == ConnectSocket(retryDelay, waiting)

\* startInLoop, for connect() and for the retry timer.
StartInLoop(waiting) ==
  \/ /\ connect
     /\ ConnectSocket(retryDelay, waiting)
  \/ /\ ~connect
     /\ timer' = waiting
     /\ UNCHANGED <<channel, polled, state, openFds, retryDelay, gaveUp>>

\* Slip: channel_ is reset on the spot, while its handleEvent runs.
ResetAtOnce(op, fd) == UNCHANGED functors

\* removeAndResetChannel leaves the reset to the end of the round.
QueueReset(op, fd) == Queue(op, fd)

RemoveAndResetChannel ==
  /\ polled' = FALSE
  /\ QueueReset("reset", 0)
  /\ UNCHANGED channel

\* handleWrite of a socket that is not connected (SO_ERROR, or connected to
\* itself), and handleError, which is followed by a handleWrite that finds
\* state_ == kDisconnected and does nothing.
HandleFailure ==
  /\ InLoop /\ polled /\ ~fresh
  /\ RemoveAndResetChannel
  /\ Retry(channel)
  /\ UNCHANGED <<retry, clientConnect, connect, fresh, batch, connection, restarting, upc, stopLost, gaveUp>>

\* handleWrite's if (connect_)
Wanted == connect

\* handleWrite of a connected socket: newConnection of TcpClient, or close.
HandleSuccess ==
  /\ InLoop /\ polled /\ ~fresh
  /\ RemoveAndResetChannel
  /\ state' = "connected"
  /\ fresh' = TRUE
  /\ \/ Wanted /\ connection' = channel /\ UNCHANGED <<openFds, doubleClose>>
     \/ ~Wanted /\ Close(channel) /\ UNCHANGED connection
  /\ UNCHANGED <<retry, clientConnect, connect, retryDelay, timer, batch, restarting, upc, stopLost, gaveUp>>

\* The retry timer fires.  Its delay, 500 ms or more, is longer than a round: what the
\* loop thread queued in the round that set it has run.
TimerFires ==
  /\ InLoop
  /\ \A i \in DOMAIN functors : functors[i][1] \notin {"reset", "destroy"}
  /\ timer > 0
  /\ StartInLoop(timer - 1)
  /\ fresh' = TRUE
  /\ UNCHANGED <<retry, clientConnect, connect, functors, batch, connection, restarting, upc,
                 stopLost, doubleClose>>

-----------------------------------------------------------------------------
(* TcpClient, on the loop thread *)

\* The connection is closed: removeConnection up to its test of retry_ and
\* connect_.
RemoveConnection ==
  /\ InLoop /\ ~fresh
  /\ connection # 0
  /\ Queue("destroy", connection)
  /\ connection' = 0
  /\ restarting' = (retry /\ clientConnect)
  /\ UNCHANGED <<retry, clientConnect, connect, fresh, state, channel, polled, retryDelay, timer, batch,
                 openFds, upc, stopLost, doubleClose, gaveUp>>

\* connector_->restart()
Restart ==
  /\ restarting
  /\ restarting' = FALSE
  /\ connect' = TRUE
  /\ ConnectSocket(InitDelay, timer)
  /\ fresh' = TRUE
  /\ stopLost' = (stopLost \/ upc \in {"stopping", "stopped"})
  /\ UNCHANGED <<retry, clientConnect, functors, batch, connection, upc, doubleClose>>

-----------------------------------------------------------------------------
(* The functors *)

\* The events of this round are handled; the functors queued so far follow, and
\* then the next poll.
BeginBatch ==
  /\ InLoop
  /\ functors # << >> \/ fresh
  /\ batch' = Len(functors)
  /\ fresh' = FALSE
  /\ UNCHANGED <<retry, clientConnect, connect, state, channel, polled, retryDelay, timer,
                 functors, connection, restarting, openFds, upc, stopLost, doubleClose, gaveUp>>

\* The next functor of the batch is op.
Runs(op) ==
  /\ batch > 0
  /\ Head(functors)[1] = op
  /\ batch' = batch - 1

\* startInLoop of connect().
RunStart ==
  /\ Runs("start")
  /\ functors' = Tail(functors)
  /\ StartInLoop(timer)
  /\ UNCHANGED <<retry, clientConnect, connect, fresh, connection, restarting, upc, stopLost, doubleClose>>

\* stopInLoop
RunStop ==
  /\ Runs("stop")
  /\ \/ /\ state = "connecting"
        /\ polled' = FALSE
        /\ functors' = Append(Tail(functors), <<"reset", 0>>)
        /\ Retry(channel)
     \/ /\ state # "connecting"
        /\ functors' = Tail(functors)
        /\ UNCHANGED <<polled, state, openFds, doubleClose, timer, retryDelay>>
  /\ UNCHANGED <<retry, clientConnect, connect, fresh, channel, connection, restarting, upc, stopLost, gaveUp>>

\* resetChannel
RunReset ==
  /\ Runs("reset")
  /\ functors' = Tail(functors)
  /\ channel' = 0
  /\ UNCHANGED <<retry, clientConnect, connect, fresh, state, polled, retryDelay, timer, connection,
                 restarting, openFds, upc, stopLost, doubleClose, gaveUp>>

\* connectDestroyed; the TcpConnection goes with its last reference and closes
\* the socket.
RunDestroy ==
  /\ Runs("destroy")
  /\ functors' = Tail(functors)
  /\ Close(Head(functors)[2])
  /\ UNCHANGED <<retry, clientConnect, connect, fresh, state, channel, polled, retryDelay, timer,
                 connection, restarting, upc, stopLost, gaveUp>>

-----------------------------------------------------------------------------
(* The user thread: connect(), then perhaps disconnect() or stop() *)

UserConnects ==
  /\ upc = "new"
  /\ upc' = "connected"
  /\ clientConnect' = TRUE
  /\ connect' = TRUE
  /\ Queue("start", 0)
  /\ UNCHANGED <<retry, fresh, state, channel, polled, retryDelay, timer, batch, connection, restarting,
                 openFds, stopLost, doubleClose, gaveUp>>

\* disconnect(): shutdown of the connection makes its peer close it sooner or
\* later, which RemoveConnection allows anyway.
UserDisconnects ==
  /\ upc = "connected"
  /\ upc' = "disconnected"
  /\ clientConnect' = FALSE
  /\ UNCHANGED <<retry, fresh, connect, state, channel, polled, retryDelay, timer, functors, batch,
                 connection, restarting, openFds, stopLost, doubleClose, gaveUp>>

\* stop(): TcpClient's flag first.
UserStops ==
  /\ upc \in {"connected", "disconnected"}
  /\ upc' = "stopping"
  /\ clientConnect' = FALSE
  /\ UNCHANGED <<retry, fresh, connect, state, channel, polled, retryDelay, timer, functors, batch,
                 connection, restarting, openFds, stopLost, doubleClose, gaveUp>>

\* Then Connector::stop.
ConnectorStops ==
  /\ upc = "stopping"
  /\ upc' = "stopped"
  /\ connect' = FALSE
  /\ stopLost' = FALSE
  /\ Queue("stop", 0)
  /\ UNCHANGED <<retry, clientConnect, fresh, state, channel, polled, retryDelay, timer, batch, connection,
                 restarting, openFds, doubleClose, gaveUp>>

Functor == BeginBatch \/ RunStart \/ RunStop \/ RunReset \/ RunDestroy

Next ==
  \/ HandleFailure
  \/ HandleSuccess
  \/ TimerFires
  \/ RemoveConnection
  \/ Restart
  \/ BeginBatch
  \/ RunStart
  \/ RunStop
  \/ RunReset
  \/ RunDestroy
  \/ UserConnects
  \/ UserDisconnects
  \/ UserStops
  \/ ConnectorStops

Spec == Init /\ [][Next]_vars

\* The loop thread goes on and a stop() begun is finished.  The two strong
\* conditions are about the network: of attempts made again and again, one gets
\* past ::connect, and of those one succeeds.
FairSpec ==
  /\ Spec
  /\ WF_vars(Functor) /\ WF_vars(Restart) /\ WF_vars(TimerFires)
  /\ WF_vars(HandleFailure \/ HandleSuccess)
  /\ SF_vars(TimerFires /\ polled') /\ SF_vars(HandleSuccess)
  /\ WF_vars(ConnectorStops)

-----------------------------------------------------------------------------
(* Properties *)

\* The type invariant.
TypeOK ==
  /\ retry \in Retries
  /\ clientConnect \in BOOLEAN
  /\ connect \in BOOLEAN
  /\ state \in {"disconnected", "connecting", "connected"}
  /\ channel \in 0..NumFds
  /\ polled \in BOOLEAN
  /\ retryDelay \in InitDelay..MaxDelay
  /\ timer \in Nat
  /\ functors \in Seq({"start", "stop", "reset", "destroy"} \X (0..NumFds))
  /\ batch \in 0..Len(functors)
  /\ connection \in 0..NumFds
  /\ fresh \in BOOLEAN
  /\ restarting \in BOOLEAN
  /\ openFds \subseteq Fds
  /\ upc \in {"new", "connected", "disconnected", "stopping", "stopped"}
  /\ stopLost \in BOOLEAN
  /\ doubleClose \in BOOLEAN
  /\ gaveUp \in BOOLEAN

\* Descriptors of connections whose connectDestroyed is queued.
Dying == {functors[i][2] : i \in {j \in DOMAIN functors : functors[j][1] = "destroy"}}

\* Every open descriptor belongs to the channel of a connect under way, to the
\* connection or to a connection about to go; no two share one, none is closed
\* twice and none is leaked, however often it is tried again.
FdsOwned ==
  /\ openFds = (IF polled THEN {channel} ELSE {}) \union ({connection} \ {0}) \union Dying
  /\ polled => channel \notin Dying \union {connection}
  /\ connection \notin Dying
  /\ ~doubleClose

\* There is one attempt at a time: a connect under way excludes a retry timer,
\* a connection and a queued startInLoop, so that the asserts of startInLoop
\* (state_ == kDisconnected) and connecting (!channel_) hold when they are met.
OneAttempt ==
  LET queued(op) == {i \in DOMAIN functors : functors[i][1] = op} IN
  /\ polled <=> state = "connecting"
  /\ connection # 0 => state = "connected"
  /\ timer <= 1
  /\ timer = 1 => state = "disconnected"
  /\ (queued("start") # {} \/ restarting) => timer = 0 /\ ~polled /\ channel = 0
  /\ (channel # 0 /\ ~polled) <=> queued("reset") # {}

\* Descriptors, channel, timer, connection and queued functors belong to one
\* attempt at most, through any number of refusals and reconnections.
AttemptsConsistent == TypeOK /\ FdsOwned /\ OneAttempt

\* Once the stopInLoop of stop() has run, no socket is under way and none is
\* opened again, whatever timer or startInLoop was waiting; unless the loop thread
\* was between removeConnection's test and restart(), which sets connect_ again.
StopHolds ==
  (upc = "stopped" /\ ~stopLost /\ \A i \in DOMAIN functors : functors[i][1] # "stop") => ~polled

\* As long as nobody calls disconnect or stop, a client that is to connect (the
\* first time, or again after its connection is closed if retry_ is set) gets a
\* connection, or meets an error that Connector::connect gives up on.
Connects ==
  (upc = "connected" /\ connection = 0 /\ (retry \/ state # "connected")) ~>
    (connection # 0 \/ upc # "connected" \/ gaveUp)
=============================================================================
