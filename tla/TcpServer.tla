----------------------------- MODULE TcpServer -----------------------------
(***************************************************************************)
(* Life and death of a connection: Acceptor, TcpServer, TcpConnection,     *)
(* Channel and EPollPoller of net/, and the session registry IMServer and  *)
(* FileServer keep on top of them.  Both servers leave the number of I/O   *)
(* threads at zero, so everything below happens in the one loop thread, in *)
(* the order EventLoop::loop() imposes: poll, the events of the active     *)
(* channels, the functors queued meanwhile.                                *)
(*                                                                         *)
(* A connection object is created once; its address may be the address of  *)
(* an earlier connection that is gone, and the registries are keyed by     *)
(* that address.  A failed assert() is recorded in "aborted"; a callback   *)
(* into a session that is gone is recorded there too.                      *)
(*                                                                         *)
(* Left out: ERR and NVAL events (they only log), shutdown(), stopRead()   *)
(* and forceCloseWithDelay(), which neither server calls, and the          *)
(* destruction of TcpServer itself.                                        *)
(*                                                                         *)
(* A definition introduced by "Slip:" is a plausible mistake in the code   *)
(* that follows it; no specification uses it.                              *)
(***************************************************************************)
EXTENDS Naturals, Sequences, FiniteSets

CONSTANTS
  Conns,            \* TcpConnection objects, in the order of no importance
  Addrs,            \* addresses the allocator can give them
  None,             \* no address, no session, no current channel
  Servers,          \* the kinds of server to look at: [sessionOwns, limit] records
  MaxMessages       \* bound: send() calls of each connection

ASSUME ServersAssumption == Servers \subseteq [sessionOwns : BOOLEAN, limit : Nat \ {0}]
ASSUME MessagesAssumption == MaxMessages \in [Conns -> Nat]
ASSUME NoneAssumption == None \notin Conns \cup Addrs

VARIABLES
  sessionOwns,  \* does a session hold a shared_ptr to its connection?
                \* ClientSession::m_conn of IMServer does, TcpSession::tmpConn_ of
                \* FileServer does not
  limit,        \* RLIMIT_NOFILE, less what the process has open for itself
  idleFd,       \* is Acceptor::idleFd_ open?
  others,       \* descriptors of that number which another thread has got hold of
  acceptable,   \* did the poll report the listening socket?
  state,        \* state_; before newConnection "none", then "waiting" in the listen
                \* queue, "refused" if the acceptor turned it away
  addr,         \* where the object lies
  events,       \* Channel::events_: subset of {"read", "write"}
  index,        \* Channel::index_ for EPollPoller
  connections,  \* TcpServer::connections_
  sessions,     \* m_mapclient / m_sessions: address -> connection of the session
  output,       \* outputBuffer_: numbers of the messages not handed to the kernel
  wire,         \* history: numbers of the messages handed to the kernel
  sent,         \* history: number of send() calls that got past state_
  shut,         \* connections whose socket is shut down for writing
  peer,         \* the other end: "open", "closing" (it has closed and bytes it
                \* sent are still to be read) or "closed"
  pending,      \* EventLoop::pendingFunctors_
  functors,     \* the functors doPendingFunctors still has to call
  phase,        \* "events", or "functors": poll comes when none is left
  revents,      \* revents_ of the active channels not handled yet
  current,      \* currentActiveChannel_
  stage,        \* which callback of handleEventWithGuard comes next
  aborted       \* has an assert failed or a dead session been called?

connVars == <<state, addr, connections, sessions>>
chanVars == <<events, index>>
outVars == <<output, wire, sent, shut>>
loopVars == <<pending, functors>>
acceptVars == <<idleFd, others, acceptable>>
fixed == <<sessionOwns, limit>>
vars == <<fixed, acceptVars, state, addr, events, index, connections, sessions, output, wire,
          sent, shut, peer, pending, functors, phase, revents, current, stage, aborted>>

Up == {"kConnected", "kDisconnecting"}
Born == Up \cup {"kDisconnected"}

Init ==
  /\ \E s \in Servers : sessionOwns = s.sessionOwns /\ limit = s.limit
  /\ idleFd = TRUE
  /\ others = 0
  /\ acceptable = FALSE
  /\ state = [c \in Conns |-> "none"]
  /\ addr = [c \in Conns |-> None]
  /\ events = [c \in Conns |-> {}]
  /\ index = [c \in Conns |-> "kNew"]
  /\ connections = {}
  /\ sessions = [a \in Addrs |-> None]
  /\ output = [c \in Conns |-> << >>]
  /\ wire = [c \in Conns |-> << >>]
  /\ sent = [c \in Conns |-> 0]
  /\ shut = {}
  /\ peer = [c \in Conns |-> "open"]
  /\ pending = << >>
  /\ functors = << >>
  /\ phase = "functors"
  /\ revents = [c \in Conns |-> {}]
  /\ current = None
  /\ stage = "none"
  /\ aborted = FALSE

-----------------------------------------------------------------------------
(* Object lifetimes *)

SessionAlive(c) == \E a \in Addrs : sessions[a] = c

\* A shared_ptr to the connection exists: in connections_, in a queued functor,
\* in its session, or in the guard of Channel::handleEvent.
Live(c) ==
  /\ state[c] \in Born
  /\ \/ c \in connections
     \/ \E i \in DOMAIN pending : pending[i].conn = c
     \/ \E i \in DOMAIN functors : functors[i].conn = c
     \/ sessionOwns /\ SessionAlive(c)
     \/ current = c

-----------------------------------------------------------------------------
(* Channel::update and EPollPoller::updateChannel *)

\* A channel that is new or was taken out of the epoll set is added, whatever its
\* events; one that is in it leaves it when no event is left.
UpdateChannel(c, evs) ==
  /\ events' = [events EXCEPT ![c] = evs]
  /\ index' = [index EXCEPT ![c] =
                 IF @ = "kAdded" /\ evs = {} THEN "kDeleted" ELSE "kAdded"]

-----------------------------------------------------------------------------
(* TcpConnection and TcpServer *)

\* Slip: the session stays in the map.
OnCloseKeepsSession(c) == UNCHANGED sessions

\* IMServer::OnClose and FileServer::OnClose: the session found under the
\* connection's address goes.
OnClose(c) == sessions' = [sessions EXCEPT ![addr[c]] = None]

\* removeConnectionInLoop, called in the same thread: the connection leaves the
\* map, which HandleClose asserts to hold it, and connectDestroyed is queued.
RemoveConnection(c) ==
  /\ connections' = connections \ {c}
  /\ pending' = Append(pending, [op |-> "connectDestroyed", conn |-> c])

\* handleClose: assert the state, disable the channel, tell the server
\* (OnConnection -> OnClose), then removeConnection.
HandleClose(c) ==
  /\ aborted' = (aborted \/ state[c] \notin Up \/ c \notin connections)
  /\ state' = [state EXCEPT ![c] = "kDisconnected"]
  /\ UpdateChannel(c, {})
  /\ OnClose(c)
  /\ RemoveConnection(c)
  /\ UNCHANGED addr

\* std::map::insert leaves an entry that is already there alone; the new session
\* then dies at once.
InsertSession(a, c) ==
  sessions' = [sessions EXCEPT ![a] = IF @ = None THEN c ELSE @]

\* connectEstablished: kConnected, tie and enableReading, then the server's
\* OnConnection.
ConnectEstablished(c, a) ==
  /\ state' = [state EXCEPT ![c] = "kConnected"]
  /\ UpdateChannel(c, {"read"})
  /\ InsertSession(a, c)

\* Is there a descriptor for accept()?  A connection keeps its own until it is
\* destroyed.
FdFree ==
  Cardinality({c \in Conns : Live(c)}) + others + (IF idleFd THEN 1 ELSE 0) < limit

\* Acceptor::handleRead is next.
Acceptable == phase = "events" /\ current = None /\ acceptable /\ acceptable' = FALSE

\* Acceptor::handleRead accepts a socket: TcpServer::newConnection,
\* connectEstablished (in the same thread, so at once) and OnConnection.
NewConnection(c, a) ==
  /\ Acceptable
  /\ FdFree
  /\ state[c] = "waiting"
  /\ \A d \in Conns : Live(d) => addr[d] # a
  /\ addr' = [addr EXCEPT ![c] = a]
  /\ connections' = connections \cup {c}
  /\ ConnectEstablished(c, a)
  /\ UNCHANGED <<idleFd, others, outVars, peer, loopVars, phase, revents, current, stage, aborted,
                 fixed>>

\* Slip: no descriptor is given up for the connection that cannot be served.
RefuseNot(c) ==
  /\ Acceptable
  /\ ~FdFree
  /\ UNCHANGED <<idleFd, others, connVars, chanVars, outVars, peer, loopVars, phase, revents,
                 current, stage, aborted, fixed>>

\* accept() fails with EMFILE: idleFd_ is closed, its place taken by the connection,
\* which is closed too, and by idleFd_ again.  Between two of these calls another
\* thread may be faster: then idleFd_ is -1 and stays so, and the connection is
\* refused only if it had been accepted.
Refuse(c) ==
  /\ Acceptable
  /\ ~FdFree
  /\ state[c] = "waiting"
  /\ IF idleFd
     THEN \/ /\ state' = [state EXCEPT ![c] = "refused"]
             /\ UNCHANGED <<idleFd, others>>
          \/ /\ state' \in {state, [state EXCEPT ![c] = "refused"]}
             /\ idleFd' = FALSE
             /\ others' = others + 1
     ELSE UNCHANGED <<state, idleFd, others>>
  /\ UNCHANGED <<addr, connections, sessions, chanVars, outVars, peer, loopVars, phase, revents,
                 current, stage, aborted, fixed>>

-----------------------------------------------------------------------------
(* EventLoop::loop *)

\* What epoll reports for a channel: readable or hung up once the peer has
\* closed; writable only if the channel asks for it.
Reported(c) ==
  IF index[c] # "kAdded" THEN {{}}
  ELSE {r \in SUBSET {"IN", "OUT", "HUP"} :
          /\ "IN" \in r => "read" \in events[c]
          /\ "OUT" \in r => "write" \in events[c]
          /\ "HUP" \in r => peer[c] # "open"
          /\ peer[c] = "closing" /\ "read" \in events[c] => "IN" \in r
          /\ peer[c] = "closed" /\ "read" \in events[c] => r \cap {"IN", "HUP"} # {}}

Poll ==
  /\ phase = "functors"
  /\ functors = << >>
  /\ \E r \in [Conns -> SUBSET {"IN", "OUT", "HUP"}] :
       /\ \A c \in Conns : r[c] \in Reported(c)
       /\ revents' = r
  /\ acceptable' = (\E c \in Conns : state[c] = "waiting")
  /\ phase' = "events"
  /\ UNCHANGED <<idleFd, others, connVars, chanVars, outVars, peer, loopVars, current, stage,
                 aborted, fixed>>

\* Slip: a hangup closes the connection although there is input to read.
StageCloseAlways(c) ==
  IF "HUP" \in revents[c]
  THEN HandleClose(c)
  ELSE UNCHANGED <<connVars, chanVars, pending, aborted>>

\* handleEventWithGuard, first test: hung up and nothing to read.
StageClose(c) ==
  IF "HUP" \in revents[c] /\ "IN" \notin revents[c]
  THEN HandleClose(c)
  ELSE UNCHANGED <<connVars, chanVars, pending, aborted>>

\* Channel::handleEvent, entered for one of the active channels.
HandleEvent(c) ==
  /\ phase = "events"
  /\ current = None
  /\ revents[c] # {}
  /\ IF Live(c)
     THEN /\ current' = c
          /\ stage' = "read"
          /\ StageClose(c)
          /\ UNCHANGED revents
     ELSE /\ revents' = [revents EXCEPT ![c] = {}]
          /\ UNCHANGED <<current, stage, connVars, chanVars, pending, aborted>>
  /\ UNCHANGED <<outVars, peer, functors, phase, acceptVars, fixed>>

\* The bytes that were left in the socket are gone.
NothingUnread(c) ==
  peer' = [peer EXCEPT ![c] = IF @ = "closing" THEN "closed" ELSE @]

\* handleRead got bytes: messageCallback_ goes to the session through the raw
\* pointer that OnConnection bound.
ReadMessage(c) ==
  /\ current = c
  /\ stage = "read"
  /\ "IN" \in revents[c]
  /\ peer[c] # "closed"
  /\ NothingUnread(c)
  /\ stage' = "message"
  /\ aborted' = (aborted \/ ~SessionAlive(c))
  /\ UNCHANGED <<connVars, chanVars, outVars, loopVars, phase, revents, current,
                 acceptVars, fixed>>

\* Slip: a read of 0 bytes is taken for an error, and only logged.
ReadEofLogged(c) ==
  /\ current = c
  /\ stage = "read"
  /\ "IN" \in revents[c]
  /\ peer[c] = "closed"
  /\ stage' = "write"
  /\ UNCHANGED <<connVars, chanVars, outVars, peer, loopVars, phase, revents, current, aborted,
                 acceptVars, fixed>>

\* handleRead got 0 bytes.
ReadEof(c) ==
  /\ current = c
  /\ stage = "read"
  /\ "IN" \in revents[c]
  /\ peer[c] = "closed"
  /\ HandleClose(c)
  /\ stage' = "write"
  /\ UNCHANGED <<outVars, peer, functors, phase, revents, current, acceptVars, fixed>>

\* The event is not about input; or handleRead failed (a reset drops the bytes
\* that were left), and handleError only logs.
ReadNothing(c) ==
  /\ current = c
  /\ stage = "read"
  /\ IF "IN" \in revents[c]
     THEN peer[c] # "closed" /\ NothingUnread(c)
     ELSE UNCHANGED peer
  /\ stage' = "write"
  /\ UNCHANGED <<connVars, chanVars, outVars, loopVars, phase, revents, current, aborted,
                 acceptVars, fixed>>

\* Slip: the direct write does not look at outputBuffer_.
SendJumpsQueue(c) ==
  /\ current = c
  /\ stage = "message"
  /\ state[c] = "kConnected"
  /\ sent[c] < MaxMessages[c]
  /\ sent' = [sent EXCEPT ![c] = @ + 1]
  /\ \/ /\ wire' = [wire EXCEPT ![c] = Append(@, sent[c] + 1)]
        /\ UNCHANGED <<output, chanVars>>
     \/ /\ output' = [output EXCEPT ![c] = Append(@, sent[c] + 1)]
        /\ UpdateChannel(c, events[c] \cup {"write"})
        /\ UNCHANGED wire
  /\ UNCHANGED <<connVars, shut, peer, loopVars, phase, revents, current, stage, aborted,
                 acceptVars, fixed>>

\* Slip: what is queued does not ask for POLLOUT.
SendForgetsPollout(c) ==
  /\ current = c
  /\ stage = "message"
  /\ state[c] = "kConnected"
  /\ sent[c] < MaxMessages[c]
  /\ sent' = [sent EXCEPT ![c] = @ + 1]
  /\ output' = [output EXCEPT ![c] = Append(@, sent[c] + 1)]
  /\ UNCHANGED <<connVars, chanVars, wire, shut, peer, loopVars, phase, revents,
                 current, stage, aborted, acceptVars, fixed>>

\* The session sends a reply: send() in the loop thread, hence sendInLoop.  With
\* nothing queued the kernel takes the message or refuses it (would block: queue
\* the rest and enable writing; EPIPE or ECONNRESET: drop it).
Send(c) ==
  /\ current = c
  /\ stage = "message"
  /\ state[c] = "kConnected"
  /\ sent[c] < MaxMessages[c]
  /\ sent' = [sent EXCEPT ![c] = @ + 1]
  /\ \/ /\ "write" \notin events[c] /\ output[c] = << >>
        /\ \/ wire' = [wire EXCEPT ![c] = Append(@, sent[c] + 1)]
           \/ UNCHANGED wire
        /\ UNCHANGED <<output, chanVars>>
     \/ /\ output' = [output EXCEPT ![c] = Append(@, sent[c] + 1)]
        /\ UpdateChannel(c, events[c] \cup {"write"})
        /\ UNCHANGED wire
  /\ UNCHANGED <<connVars, shut, peer, loopVars, phase, revents, current, stage, aborted,
                 acceptVars, fixed>>

\* OnRead returns after Process answered false: forceClose.  (Process answers
\* true on every path of both servers today.)
ProcessFails(c) ==
  /\ current = c
  /\ stage = "message"
  /\ stage' = "write"
  /\ IF state[c] \in Up
     THEN /\ state' = [state EXCEPT ![c] = "kDisconnecting"]
          /\ pending' = Append(pending, [op |-> "forceCloseInLoop", conn |-> c])
     ELSE UNCHANGED <<state, pending>>
  /\ UNCHANGED <<addr, connections, sessions, chanVars, outVars, peer, functors, phase,
                 revents, current, aborted, acceptVars, fixed>>

\* OnRead returns after Process answered true.
ProcessSucceeds(c) ==
  /\ current = c
  /\ stage = "message"
  /\ stage' = "write"
  /\ UNCHANGED <<connVars, chanVars, outVars, peer, loopVars, phase, revents, current, aborted,
                 acceptVars, fixed>>

\* The end of handleEvent: the guard goes.
EventDone(c) ==
  /\ stage' = "none"
  /\ current' = None
  /\ revents' = [revents EXCEPT ![c] = {}]

\* Slip: handleWrite writes even though the channel is not writing any more.
WriteAnyway(c) ==
  /\ current = c
  /\ stage = "write"
  /\ "OUT" \in revents[c]
  /\ output[c] # << >>
  /\ wire' = [wire EXCEPT ![c] = @ \o output[c]]
  /\ output' = [output EXCEPT ![c] = << >>]
  /\ UpdateChannel(c, events[c] \ {"write"})
  /\ EventDone(c)
  /\ UNCHANGED <<connVars, sent, shut, peer, loopVars, phase, aborted, acceptVars, fixed>>

\* handleWrite hands n > 0 messages to the kernel; when none is left it stops
\* writing and, if the connection is being closed, shuts the socket down.
StageWrite(c) ==
  /\ current = c
  /\ stage = "write"
  /\ "OUT" \in revents[c]
  /\ "write" \in events[c]
  /\ \E n \in 1 .. Len(output[c]) :
       /\ wire' = [wire EXCEPT ![c] = @ \o SubSeq(output[c], 1, n)]
       /\ output' = [output EXCEPT ![c] = SubSeq(@, n + 1, Len(@))]
  /\ IF output'[c] = << >>
     THEN /\ UpdateChannel(c, events[c] \ {"write"})
          /\ shut' = IF state[c] = "kDisconnecting" THEN shut \cup {c} ELSE shut
     ELSE UNCHANGED <<chanVars, shut>>
  /\ EventDone(c)
  /\ UNCHANGED <<connVars, sent, peer, loopVars, phase, aborted, acceptVars, fixed>>

\* Nothing to write, the channel is down, or the kernel refused.
WriteNothing(c) ==
  /\ current = c
  /\ stage = "write"
  /\ EventDone(c)
  /\ UNCHANGED <<connVars, chanVars, outVars, peer, loopVars, phase, aborted,
                 acceptVars, fixed>>

\* doPendingFunctors takes the queue over once all events are handled.
DoPendingFunctors ==
  /\ phase = "events"
  /\ current = None
  /\ ~acceptable
  /\ \A c \in Conns : revents[c] = {}
  /\ functors' = pending
  /\ pending' = << >>
  /\ phase' = "functors"
  /\ UNCHANGED <<connVars, chanVars, outVars, peer, revents, current, stage, aborted,
                 acceptVars, fixed>>

\* forceCloseInLoop, "as if we received 0 byte in handleRead()".
ForceCloseInLoop ==
  /\ phase = "functors"
  /\ functors # << >>
  /\ Head(functors).op = "forceCloseInLoop"
  /\ LET c == Head(functors).conn IN
       IF state[c] \in Up
       THEN HandleClose(c)
       ELSE UNCHANGED <<connVars, chanVars, pending, aborted>>
  /\ functors' = Tail(functors)
  /\ UNCHANGED <<outVars, peer, phase, revents, current, stage, acceptVars, fixed>>

\* Slip: the channel is not removed from the poller.
ConnectDestroyedKeepsChannel ==
  /\ phase = "functors"
  /\ functors # << >>
  /\ Head(functors).op = "connectDestroyed"
  /\ functors' = Tail(functors)
  /\ UNCHANGED <<connVars, chanVars, outVars, peer, pending, phase, revents, current, stage, aborted,
                 acceptVars, fixed>>

\* Channel::remove and EPollPoller::removeChannel: assert that no event is left
\* and that the poller knows the channel.
RemoveChannel(c) ==
  /\ aborted' = (aborted \/ state[c] = "kConnected" \/ events[c] # {} \/ index[c] = "kNew")
  /\ index' = [index EXCEPT ![c] = "kNew"]

\* connectDestroyed of a connection handleClose has been through.
ConnectDestroyed ==
  /\ phase = "functors"
  /\ functors # << >>
  /\ Head(functors).op = "connectDestroyed"
  /\ RemoveChannel(Head(functors).conn)
  /\ functors' = Tail(functors)
  /\ UNCHANGED <<connVars, events, outVars, peer, pending, phase, revents, current, stage,
                 acceptVars, fixed>>

-----------------------------------------------------------------------------

\* A client connects; the kernel puts it into the listen queue, which only the next
\* poll looks at.
PeerConnects(c) ==
  /\ phase = "functors"
  /\ functors = << >>
  /\ state[c] = "none"
  /\ state' = [state EXCEPT ![c] = "waiting"]
  /\ UNCHANGED <<addr, connections, sessions, chanVars, outVars, peer, loopVars, phase, revents,
                 current, stage, aborted, acceptVars, fixed>>

\* The other thread closes its descriptor; the next round may use it.
OtherCloses ==
  /\ phase = "functors"
  /\ functors = << >>
  /\ others > 0
  /\ others' = others - 1
  /\ UNCHANGED <<idleFd, acceptable, connVars, chanVars, outVars, peer, loopVars, phase, revents,
                 current, stage, aborted, fixed>>

\* The other end closes, before or after the last of its bytes was read, or its
\* machine goes down and keep-alive notices.  (Closing while still in the listen
\* queue looks like closing right after accept().)
PeerCloses(c) ==
  /\ state[c] \in Born
  /\ peer[c] = "open"
  /\ \E p \in {"closing", "closed"} : peer' = [peer EXCEPT ![c] = p]
  /\ UNCHANGED <<connVars, chanVars, outVars, loopVars, phase, revents, current, stage, aborted,
                 acceptVars, fixed>>

ReadStep(c) == ReadMessage(c) \/ ReadEof(c) \/ ReadNothing(c)

MessageStep(c) == ProcessFails(c) \/ ProcessSucceeds(c)

\* Events and functors that are not the acceptor's.
ConnStep ==
  \/ DoPendingFunctors
  \/ ForceCloseInLoop
  \/ ConnectDestroyed
  \/ \E c \in Conns : \/ HandleEvent(c)
                      \/ ReadStep(c)
                      \/ MessageStep(c)
                      \/ StageWrite(c)
                      \/ WriteNothing(c)

LoopStep ==
  \/ Poll
  \/ ConnStep
  \/ \E c \in Conns : Refuse(c) \/ \E a \in Addrs : NewConnection(c, a)

Next ==
  \/ LoopStep
  \/ \E c \in Conns : Send(c) \/ PeerConnects(c) \/ PeerCloses(c)
  \/ OtherCloses

Spec == Init /\ [][Next]_vars

\* The loop thread runs.
FairSpec == Spec /\ WF_vars(LoopStep)

-----------------------------------------------------------------------------
(* Properties *)

Functor == [op : {"forceCloseInLoop", "connectDestroyed"}, conn : Conns]

\* The type invariant.
TypeOK ==
  /\ [sessionOwns |-> sessionOwns, limit |-> limit] \in Servers
  /\ idleFd \in BOOLEAN
  /\ others \in Nat
  /\ acceptable \in BOOLEAN
  /\ state \in [Conns -> {"none", "waiting", "refused"} \cup Born]
  /\ addr \in [Conns -> Addrs \cup {None}]
  /\ events \in [Conns -> SUBSET {"read", "write"}]
  /\ index \in [Conns -> {"kNew", "kAdded", "kDeleted"}]
  /\ connections \in SUBSET Conns
  /\ sessions \in [Addrs -> Conns \cup {None}]
  /\ \A c \in Conns : /\ output[c] \in Seq(1 .. MaxMessages[c])
                      /\ wire[c] \in Seq(1 .. MaxMessages[c])
                      /\ sent[c] \in 0 .. MaxMessages[c]
  /\ shut \in SUBSET Conns
  /\ peer \in [Conns -> {"open", "closing", "closed"}]
  /\ pending \in Seq(Functor)
  /\ functors \in Seq(Functor)
  /\ phase \in {"events", "functors"}
  /\ revents \in [Conns -> SUBSET {"IN", "OUT", "HUP"}]
  /\ current \in Conns \cup {None}
  /\ stage \in {"none", "read", "message", "write"}
  /\ aborted \in BOOLEAN

\* No assert of TcpConnection, TcpServer, Channel or EPollPoller fails, and no
\* message goes to a session that has been destroyed, whatever mix of hangups,
\* end of file, forced closes and queued functors a connection meets.
NoAbort == ~aborted

\* Destructors find what they assert: when the last shared_ptr to a connection
\* is gone it is kDisconnected, its channel is unknown to the poller and has no
\* event left to be handled.
DestroyedCleanly ==
  \A c \in Conns :
    state[c] \in Born /\ ~Live(c) =>
      state[c] = "kDisconnected" /\ index[c] = "kNew" /\ revents[c] = {}

\* One session per connection that is up, under its own address, and no session
\* of a connection that is down: the reuse of an address never makes two
\* connections share a registry entry or leaves one without a session.
SessionPerConnection ==
  /\ \A c \in Conns : state[c] \in Up => sessions[addr[c]] = c
  /\ \A a \in Addrs :
       sessions[a] # None => state[sessions[a]] \in Up /\ addr[sessions[a]] = a

\* Replies leave in the order they were sent, partial writes, refused writes and
\* direct writes mixed as they come.
RepliesInOrder ==
  \A c \in Conns :
    LET all == wire[c] \o output[c]
    IN  \A i, j \in DOMAIN all : i < j => all[i] < all[j]

\* Queued output is never forgotten: as long as the connection is up the channel
\* asks for POLLOUT exactly while outputBuffer_ holds something.
OutputIsPolled ==
  \A c \in Conns : state[c] \in Up => (output[c] # << >> <=> "write" \in events[c])

\* The epoll set holds exactly the channels that ask for events.
PollerConsistent ==
  \A c \in Conns : index[c] = "kAdded" <=> events[c] # {}

\* Connection, Channel, EPollPoller and epoll set agree on what is watched, after
\* every update, in every stage of an event.
ChannelsConsistent == TypeOK /\ OutputIsPolled /\ PollerConsistent

\* Nothing is written to a connection after handleClose, nor after its socket
\* was shut down for writing.
NoWriteAfterClose ==
  [][\A c \in Conns :
       wire'[c] # wire[c] => state[c] \in Up /\ c \notin shut]_vars

\* A connection whose peer is gone is taken apart completely: closed, its
\* session erased, the object destroyed.
ClosedPeersReclaimed ==
  \A c \in Conns : (state[c] \in Born /\ peer[c] # "open") ~> ~Live(c)

\* A forced close is carried out even if the peer stays.
ForcedCloseHappens ==
  \A c \in Conns : (state[c] = "kDisconnecting") ~> ~Live(c)

\* No connection stays behind: neither one whose peer is gone nor one that the
\* server wants closed.
ConnectionsReclaimed == ClosedPeersReclaimed /\ ForcedCloseHappens

\* A client in the listen queue is served, or turned away when the descriptors are
\* used up, however long other connections stay; unless another thread has
\* snatched the descriptor that idleFd_ kept.
ClientsServed ==
  \A c \in Conns : (state[c] = "waiting") ~> (state[c] # "waiting" \/ ~idleFd)
=============================================================================
