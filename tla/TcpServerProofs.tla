-------------------------- MODULE TcpServerProofs --------------------------
(***************************************************************************)
(* Proofs about TcpServer, for every set of connections and addresses, any *)
(* limit on descriptors and any number of messages.                        *)
(*                                                                         *)
(* The asserts of TcpConnection, TcpServer, Channel and EPollPoller hold   *)
(* because of facts that no single class states: a connection is in        *)
(* connections_ exactly while it is up and then watched by the poller      *)
(* (LifeInv); only the channel being handled can have lost its connection  *)
(* within a round of the loop (EventInv); connectDestroyed is queued once  *)
(* for every connection that was closed and not yet destroyed (QueueInv).  *)
(* SessionPerConnection joins them because the allocator's choice of an    *)
(* address is only as good as Live.                                        *)
(***************************************************************************)
EXTENDS TcpServer, TLAPS, SequenceTheorems

\* The buffers and counters as functions.
OutInv ==
  /\ output \in [Conns -> Seq(Nat)]
  /\ wire \in [Conns -> Seq(Nat)]
  /\ sent \in [Conns -> Nat]

\* What the state of a connection says about its channel and its map entry.
Life(c) ==
  /\ c \in connections <=> state[c] \in Up
  /\ state[c] \in Up =>
       /\ index[c] = "kAdded" /\ "read" \in events[c] /\ addr[c] \in Addrs
       /\ "write" \in events[c] <=> output[c] # << >>
  /\ state[c] = "kDisconnected" => events[c] = {} /\ index[c] # "kAdded"
  /\ state[c] \notin Born =>
       events[c] = {} /\ index[c] = "kNew" /\ output[c] = << >> /\ c \notin shut

LifeInv == \A c \in Conns : Life(c)

\* What an event that is still to be handled, or is being handled, may rely on.
Event(c) ==
  /\ revents[c] # {} => state[c] \in Up \/ current = c
  /\ phase = "functors" => revents[c] = {}
  /\ current = c =>
       /\ phase = "events"
       /\ state[c] \in Born
       /\ stage = "read" /\ "IN" \in revents[c] => state[c] \in Up
       /\ stage = "message" => state[c] \in Up

EventInv == \A c \in Conns : Event(c)

\* connectDestroyed of c is in the queue s.
Destroys(s, c) == \E i \in DOMAIN s : s[i].op = "connectDestroyed" /\ s[i].conn = c

\* No connection is to be destroyed twice by the queue s.
DestroysOnce(s) ==
  \A i, j \in DOMAIN s :
    s[i].op = "connectDestroyed" /\ s[j].op = "connectDestroyed" /\ s[i].conn = s[j].conn => i = j

Queued(c) ==
  /\ index[c] = "kDeleted" <=> (Destroys(pending, c) \/ Destroys(functors, c))
  /\ index[c] = "kDeleted" => state[c] = "kDisconnected"
  /\ ~(Destroys(pending, c) /\ Destroys(functors, c))

QueueInv ==
  /\ phase = "events" => functors = << >>
  /\ DestroysOnce(pending) /\ DestroysOnce(functors)
  /\ \A c \in Conns : Queued(c)

\* What a socket that was shut down cannot have any more.
ShutInv == \A c \in shut : output[c] = << >> /\ state[c] # "kConnected"

ServerInv ==
  TypeOK /\ OutInv /\ LifeInv /\ EventInv /\ QueueInv /\ ShutInv /\ SessionPerConnection /\ NoAbort

-----------------------------------------------------------------------------
(* Queues of functors *)

\* Appending a functor other than connectDestroyed, or the first connectDestroyed
\* of a connection.
LEMMA DestroysAppend ==
  ASSUME NEW s \in Seq(Functor), NEW f \in Functor
  PROVE  /\ Append(s, f) \in Seq(Functor)
         /\ \A d : Destroys(Append(s, f), d) <=>
                     Destroys(s, d) \/ (f.op = "connectDestroyed" /\ f.conn = d)
         /\ DestroysOnce(s) /\ (f.op = "connectDestroyed" => ~Destroys(s, f.conn))
              => DestroysOnce(Append(s, f))
<1> DEFINE t == Append(s, f)
<1>1. /\ t \in Seq(Functor)
      /\ DOMAIN s = 1..Len(s) /\ Len(s) \in Nat /\ DOMAIN t = 1..(Len(s) + 1)
      /\ \A i \in 1..Len(s) : t[i] = s[i]
      /\ t[Len(s) + 1] = f
  BY AppendProperties
<1> HIDE DEF t
<1>2. \A d : Destroys(t, d) <=> Destroys(s, d) \/ (f.op = "connectDestroyed" /\ f.conn = d)
  BY <1>1 DEF Destroys
<1>3. ASSUME DestroysOnce(s), f.op = "connectDestroyed" => ~Destroys(s, f.conn)
      PROVE  DestroysOnce(t)
  <2>1. \A i \in DOMAIN t : i \in DOMAIN s \/ i = Len(s) + 1 BY <1>1
  <2> QED BY <1>1, <1>3, <2>1 DEF DestroysOnce, Destroys
<1> QED BY <1>1, <1>2, <1>3 DEF t

\* Taking the first functor off a queue.
LEMMA DestroysTail ==
  ASSUME NEW s \in Seq(Functor), s # << >>, DestroysOnce(s)
  PROVE  /\ Head(s) \in Functor
         /\ Tail(s) \in Seq(Functor)
         /\ DestroysOnce(Tail(s))
         /\ \A d : Destroys(s, d) <=> Destroys(Tail(s), d)
                                        \/ (Head(s).op = "connectDestroyed" /\ Head(s).conn = d)
         /\ Head(s).op = "connectDestroyed" => ~Destroys(Tail(s), Head(s).conn)
<1> DEFINE t == Tail(s)
<1>1. /\ Head(s) \in Functor /\ t \in Seq(Functor)
      /\ DOMAIN s = 1..Len(s) /\ Len(s) \in Nat \ {0} /\ Head(s) = s[1]
      /\ DOMAIN t = 1..(Len(s) - 1)
      /\ \A i \in 1..(Len(s) - 1) : t[i] = s[i + 1]
  BY HeadTailProperties
<1> HIDE DEF t
<1>2. \A i \in DOMAIN t : i + 1 \in DOMAIN s /\ i + 1 # 1 /\ t[i] = s[i + 1] BY <1>1
<1>3. \A j \in DOMAIN s : j # 1 => j - 1 \in DOMAIN t /\ t[j - 1] = s[j] BY <1>1
<1>4. \A d : Destroys(s, d) <=>
               Destroys(t, d) \/ (Head(s).op = "connectDestroyed" /\ Head(s).conn = d)
  <2> SUFFICES ASSUME NEW d
               PROVE  Destroys(s, d) <=>
                        Destroys(t, d) \/ (Head(s).op = "connectDestroyed" /\ Head(s).conn = d)
    OBVIOUS
  <2>1. ASSUME Destroys(s, d)
        PROVE  Destroys(t, d) \/ (Head(s).op = "connectDestroyed" /\ Head(s).conn = d)
    <3>1. PICK j \in DOMAIN s : s[j].op = "connectDestroyed" /\ s[j].conn = d
      BY <2>1 DEF Destroys
    <3>2. CASE j = 1 BY <1>1, <3>1, <3>2
    <3>3. CASE j # 1 BY <1>3, <3>1, <3>3 DEF Destroys
    <3> QED BY <3>2, <3>3
  <2>2. Destroys(t, d) => Destroys(s, d) BY <1>2 DEF Destroys
  <2>3. Head(s).op = "connectDestroyed" /\ Head(s).conn = d => Destroys(s, d)
    BY <1>1 DEF Destroys
  <2> QED BY <2>1, <2>2, <2>3
<1>5. DestroysOnce(t) BY <1>1, <1>2 DEF DestroysOnce
<1>6. Head(s).op = "connectDestroyed" => ~Destroys(t, Head(s).conn)
  BY <1>1, <1>2 DEF DestroysOnce, Destroys
<1> QED BY <1>1, <1>4, <1>5, <1>6 DEF t

-----------------------------------------------------------------------------
(* Types *)

\* handleClose keeps the types it touches.
LEMMA HandleCloseTypes ==
  ASSUME TypeOK, NEW c \in Conns, HandleClose(c)
  PROVE  /\ state' \in [Conns -> {"none", "waiting", "refused"} \cup Born]
         /\ addr' \in [Conns -> Addrs \cup {None}]
         /\ events' \in [Conns -> SUBSET {"read", "write"}]
         /\ index' \in [Conns -> {"kNew", "kAdded", "kDeleted"}]
         /\ connections' \in SUBSET Conns
         /\ sessions' \in [Addrs -> Conns \cup {None}]
         /\ pending' \in Seq(Functor)
         /\ aborted' \in BOOLEAN
<1>1. [op |-> "connectDestroyed", conn |-> c] \in Functor BY DEF Functor
<1>2. pending' \in Seq(Functor) BY <1>1 DEF TypeOK, HandleClose, RemoveConnection
<1>3. aborted' \in BOOLEAN BY DEF HandleClose
<1> QED BY <1>2, <1>3
        DEF TypeOK, HandleClose, UpdateChannel, OnClose, RemoveConnection, Up, Born

\* A buffer may be replaced by one with messages of the same connection.
LEMMA BufferUpdate ==
  ASSUME NEW f \in [Conns -> Seq(Nat)],
         \A d \in Conns : f[d] \in Seq(1 .. MaxMessages[d]),
         NEW c \in Conns, NEW x, x \in Seq(Nat), x \in Seq(1 .. MaxMessages[c])
  PROVE  /\ [f EXCEPT ![c] = x] \in [Conns -> Seq(Nat)]
         /\ \A d \in Conns : [f EXCEPT ![c] = x][d] \in Seq(1 .. MaxMessages[d])
<1> DEFINE g == [f EXCEPT ![c] = x]
<1>1. g \in [Conns -> Seq(Nat)] OBVIOUS
<1>2. g[c] = x /\ \A d \in Conns : d # c => g[d] = f[d] OBVIOUS
<1> HIDE DEF g
<1>3. \A d \in Conns : g[d] \in Seq(1 .. MaxMessages[d]) BY <1>2
<1> QED BY <1>1, <1>3 DEF g

\* A partial write splits a buffer.
LEMMA SplitTypes ==
  ASSUME NEW S, NEW s \in Seq(S), NEW n \in 0 .. Len(s)
  PROVE  SubSeq(s, 1, n) \in Seq(S) /\ SubSeq(s, n + 1, Len(s)) \in Seq(S)
<1>1. Len(s) \in Nat /\ \A i \in 1 .. Len(s) : s[i] \in S OBVIOUS
<1>2. \A i \in 1 .. n : s[i] \in S BY <1>1
<1>3. \A i \in n + 1 .. Len(s) : s[i] \in S BY <1>1
<1>4. SubSeq(s, 1, n) \in Seq(S) BY <1>1, <1>2, SubSeqProperties
<1>5. SubSeq(s, n + 1, Len(s)) \in Seq(S) BY <1>1, <1>3, SubSeqProperties
<1> QED BY <1>4, <1>5

\* One step keeps the types.
LEMMA TypeStep ==
  ASSUME TypeOK, OutInv, [Next]_vars
  PROVE  TypeOK' /\ OutInv'
<1> USE DEF TypeOK, connVars, chanVars, outVars, loopVars, acceptVars, fixed
<1>0. \A c \in Conns : MaxMessages[c] \in Nat BY MessagesAssumption
<1>1. ASSUME NEW c \in Conns, NEW a \in Addrs, NewConnection(c, a) PROVE TypeOK' /\ OutInv'
  BY <1>1 DEF NewConnection, Acceptable, ConnectEstablished, UpdateChannel, InsertSession, Up,
              Born, OutInv
<1>2. ASSUME NEW c \in Conns, Refuse(c) PROVE TypeOK' /\ OutInv'
  <2>1. /\ state' \in {state, [state EXCEPT ![c] = "refused"]}
        /\ idleFd' \in BOOLEAN /\ others' \in {others, others + 1} /\ acceptable' = FALSE
        /\ UNCHANGED <<addr, connections, sessions, chanVars, outVars, peer, loopVars, phase,
                       revents, current, stage, aborted, fixed>>
    BY <1>2 DEF Refuse, Acceptable
  <2>2. others' \in Nat BY <2>1
  <2>3. [state EXCEPT ![c] = "refused"] \in [Conns -> {"none", "waiting", "refused"} \cup Born]
    OBVIOUS
  <2>4. state' \in [Conns -> {"none", "waiting", "refused"} \cup Born] BY <2>1, <2>3
  <2> QED BY <2>1, <2>2, <2>4 DEF OutInv
<1>3. CASE Poll BY <1>3 DEF Poll, OutInv
<1>4. ASSUME NEW c \in Conns, HandleEvent(c) PROVE TypeOK' /\ OutInv'
  <2>1. CASE HandleClose(c)
    BY <1>4, <2>1, HandleCloseTypes DEF HandleEvent, OutInv
  <2>2. CASE UNCHANGED <<connVars, chanVars, pending, aborted>>
    BY <1>4, <2>2 DEF HandleEvent, OutInv
  <2> QED BY <1>4, <2>1, <2>2 DEF HandleEvent, StageClose
<1>5. ASSUME NEW c \in Conns, ReadMessage(c) PROVE TypeOK' /\ OutInv'
  BY <1>5 DEF ReadMessage, NothingUnread, OutInv
<1>6. ASSUME NEW c \in Conns, ReadEof(c) PROVE TypeOK' /\ OutInv'
  BY <1>6, HandleCloseTypes DEF ReadEof, OutInv
<1>7. ASSUME NEW c \in Conns, ReadNothing(c) PROVE TypeOK' /\ OutInv'
  <2>1. UNCHANGED <<connVars, chanVars, outVars, loopVars, phase, revents, current, aborted,
                    acceptVars, fixed>> /\ stage' = "write"
    BY <1>7 DEF ReadNothing
  <2>2. peer' \in [Conns -> {"open", "closing", "closed"}]
    <3>1. peer \in [Conns -> {"open", "closing", "closed"}] OBVIOUS
    <3> HIDE DEF TypeOK
    <3>2. peer' = peer \/ peer' = [peer EXCEPT ![c] = IF @ = "closing" THEN "closed" ELSE @]
      BY <1>7 DEF ReadNothing, NothingUnread
    <3> QED BY <3>1, <3>2
  <2> QED BY <2>1, <2>2 DEF OutInv
<1>8. ASSUME NEW c \in Conns, Send(c) PROVE TypeOK' /\ OutInv'
  <2>1. sent[c] + 1 \in 1 .. MaxMessages[c] /\ sent[c] + 1 \in Nat
    BY <1>0, <1>8 DEF Send
  <2>2. /\ Append(wire[c], sent[c] + 1) \in Seq(1 .. MaxMessages[c])
        /\ Append(output[c], sent[c] + 1) \in Seq(1 .. MaxMessages[c])
    BY <2>1
  <2>3. /\ Append(wire[c], sent[c] + 1) \in Seq(Nat)
        /\ Append(output[c], sent[c] + 1) \in Seq(Nat)
    BY <2>1 DEF OutInv
  <2>4. /\ sent' \in [Conns -> Nat]
        /\ \A d \in Conns : sent'[d] \in 0 .. MaxMessages[d]
    BY <1>0, <1>8, <2>1 DEF Send, OutInv
  <2>5. /\ wire' \in [Conns -> Seq(Nat)] /\ output' \in [Conns -> Seq(Nat)]
        /\ \A d \in Conns : /\ wire'[d] \in Seq(1 .. MaxMessages[d])
                            /\ output'[d] \in Seq(1 .. MaxMessages[d])
    <3> DEFINE w == [wire EXCEPT ![c] = Append(wire[c], sent[c] + 1)]
               o == [output EXCEPT ![c] = Append(output[c], sent[c] + 1)]
    <3>1. wire' \in {wire, w} /\ output' \in {output, o}
      BY <1>8 DEF Send
    <3>2. w \in [Conns -> Seq(Nat)] /\ \A d \in Conns : w[d] \in Seq(1 .. MaxMessages[d])
      <4> HIDE DEF TypeOK
      <4>1. \A d \in Conns : wire[d] \in Seq(1 .. MaxMessages[d]) BY DEF TypeOK
      <4>2. wire \in [Conns -> Seq(Nat)] BY DEF OutInv
      <4> QED BY <2>2, <2>3, <4>1, <4>2, BufferUpdate
    <3>3. o \in [Conns -> Seq(Nat)] /\ \A d \in Conns : o[d] \in Seq(1 .. MaxMessages[d])
      <4> HIDE DEF TypeOK
      <4>1. \A d \in Conns : output[d] \in Seq(1 .. MaxMessages[d]) BY DEF TypeOK
      <4>2. output \in [Conns -> Seq(Nat)] BY DEF OutInv
      <4> QED BY <2>2, <2>3, <4>1, <4>2, BufferUpdate
    <3> HIDE DEF w, o
    <3> QED BY <3>1, <3>2, <3>3 DEF OutInv
  <2>6. /\ events' \in [Conns -> SUBSET {"read", "write"}]
        /\ index' \in [Conns -> {"kNew", "kAdded", "kDeleted"}]
    <3>1. events[c] \cup {"write"} \in SUBSET {"read", "write"} OBVIOUS
    <3>2. CASE UNCHANGED chanVars BY <3>2
    <3>3. CASE UpdateChannel(c, events[c] \cup {"write"}) BY <3>1, <3>3 DEF UpdateChannel
    <3> QED BY <1>8, <3>2, <3>3 DEF Send
  <2> QED BY <1>8, <2>4, <2>5, <2>6 DEF Send, OutInv
<1>9. ASSUME NEW c \in Conns, ProcessFails(c) PROVE TypeOK' /\ OutInv'
  <2>1. [op |-> "forceCloseInLoop", conn |-> c] \in Functor BY DEF Functor
  <2>2. pending' \in Seq(Functor)
    <3>1. pending' \in {pending, Append(pending, [op |-> "forceCloseInLoop", conn |-> c])}
      BY <1>9 DEF ProcessFails
    <3>2. Append(pending, [op |-> "forceCloseInLoop", conn |-> c]) \in Seq(Functor)
      <4>1. pending \in Seq(Functor) OBVIOUS
      <4> QED BY <2>1, <4>1, AppendProperties
    <3> QED BY <3>1, <3>2
  <2> QED BY <1>9, <2>2 DEF ProcessFails, OutInv, Up, Born
<1>10. ASSUME NEW c \in Conns, ProcessSucceeds(c) PROVE TypeOK' /\ OutInv'
  BY <1>10 DEF ProcessSucceeds, OutInv
<1>11. ASSUME NEW c \in Conns, StageWrite(c) PROVE TypeOK' /\ OutInv'
  <2>1. PICK n \in 1 .. Len(output[c]) :
          /\ wire' = [wire EXCEPT ![c] = wire[c] \o SubSeq(output[c], 1, n)]
          /\ output' = [output EXCEPT ![c] = SubSeq(output[c], n + 1, Len(output[c]))]
    BY <1>11 DEF StageWrite
  <2>2. /\ SubSeq(output[c], 1, n) \in Seq(1 .. MaxMessages[c])
        /\ SubSeq(output[c], n + 1, Len(output[c])) \in Seq(1 .. MaxMessages[c])
        /\ wire[c] \in Seq(1 .. MaxMessages[c])
        /\ SubSeq(output[c], 1, n) \in Seq(Nat)
        /\ SubSeq(output[c], n + 1, Len(output[c])) \in Seq(Nat)
        /\ wire[c] \in Seq(Nat)
    <3>1. /\ output[c] \in Seq(1 .. MaxMessages[c]) /\ output[c] \in Seq(Nat)
          /\ n \in 0 .. Len(output[c])
      BY DEF OutInv
    <3> QED BY <3>1, SplitTypes DEF OutInv
  <2>3. /\ wire[c] \o SubSeq(output[c], 1, n) \in Seq(1 .. MaxMessages[c])
        /\ wire[c] \o SubSeq(output[c], 1, n) \in Seq(Nat)
    BY <2>2, ConcatProperties
  <2>5. /\ wire' \in [Conns -> Seq(Nat)] /\ output' \in [Conns -> Seq(Nat)]
        /\ \A d \in Conns : /\ wire'[d] \in Seq(1 .. MaxMessages[d])
                            /\ output'[d] \in Seq(1 .. MaxMessages[d])
    <3> HIDE DEF TypeOK
    <3>1. /\ \A d \in Conns : wire[d] \in Seq(1 .. MaxMessages[d])
          /\ \A d \in Conns : output[d] \in Seq(1 .. MaxMessages[d])
      BY DEF TypeOK
    <3>2. wire \in [Conns -> Seq(Nat)] /\ output \in [Conns -> Seq(Nat)] BY DEF OutInv
    <3>3. /\ wire' \in [Conns -> Seq(Nat)]
          /\ \A d \in Conns : wire'[d] \in Seq(1 .. MaxMessages[d])
      BY <2>1, <2>3, <3>1, <3>2, BufferUpdate
    <3>4. /\ output' \in [Conns -> Seq(Nat)]
          /\ \A d \in Conns : output'[d] \in Seq(1 .. MaxMessages[d])
      BY <2>1, <2>2, <3>1, <3>2, BufferUpdate
    <3> QED BY <3>3, <3>4
  <2>6. /\ events' \in [Conns -> SUBSET {"read", "write"}]
        /\ index' \in [Conns -> {"kNew", "kAdded", "kDeleted"}]
        /\ shut' \in SUBSET Conns
    <3>1. events[c] \ {"write"} \in SUBSET {"read", "write"} OBVIOUS
    <3>2. CASE UNCHANGED chanVars BY <1>11, <3>2 DEF StageWrite
    <3>3. CASE UpdateChannel(c, events[c] \ {"write"})
      BY <1>11, <3>1, <3>3 DEF StageWrite, UpdateChannel
    <3> QED BY <1>11, <3>2, <3>3 DEF StageWrite
  <2>7. /\ stage' = "none" /\ current' = None
        /\ revents' \in [Conns -> SUBSET {"IN", "OUT", "HUP"}]
        /\ UNCHANGED <<connVars, sent, peer, loopVars, phase, aborted, acceptVars, fixed>>
    BY <1>11 DEF StageWrite, EventDone
  <2> QED BY <2>5, <2>6, <2>7 DEF OutInv
<1>12. ASSUME NEW c \in Conns, WriteNothing(c) PROVE TypeOK' /\ OutInv'
  BY <1>12 DEF WriteNothing, EventDone, OutInv
<1>13. CASE DoPendingFunctors BY <1>13 DEF DoPendingFunctors, OutInv
<1>14. CASE ForceCloseInLoop
  <2>1. Head(functors) \in Functor /\ functors' \in Seq(Functor)
    BY <1>14, HeadTailProperties DEF ForceCloseInLoop
  <2>2. Head(functors).conn \in Conns BY <2>1 DEF Functor
  <2>3. CASE HandleClose(Head(functors).conn)
    <3>1. UNCHANGED <<outVars, peer, phase, revents, current, stage, acceptVars, fixed>>
      BY <1>14 DEF ForceCloseInLoop
    <3> QED BY <2>1, <2>2, <2>3, <3>1, HandleCloseTypes DEF OutInv
  <2>4. CASE UNCHANGED <<connVars, chanVars, pending, aborted>>
    BY <1>14, <2>1, <2>4 DEF ForceCloseInLoop, OutInv
  <2> QED BY <1>14, <2>3, <2>4 DEF ForceCloseInLoop
<1>15. CASE ConnectDestroyed
  <2>1. Head(functors) \in Functor /\ functors' \in Seq(Functor)
    BY <1>15, HeadTailProperties DEF ConnectDestroyed
  <2>2. Head(functors).conn \in Conns BY <2>1 DEF Functor
  <2> QED BY <1>15, <2>1, <2>2 DEF ConnectDestroyed, RemoveChannel, OutInv
<1>16. ASSUME NEW c \in Conns, PeerConnects(c) PROVE TypeOK' /\ OutInv'
  BY <1>16 DEF PeerConnects, OutInv
<1>17. CASE OtherCloses BY <1>17 DEF OtherCloses, OutInv
<1>18. ASSUME NEW c \in Conns, PeerCloses(c) PROVE TypeOK' /\ OutInv'
  BY <1>18 DEF PeerCloses, OutInv
<1>19. CASE UNCHANGED vars BY <1>19 DEF vars, OutInv
<1> QED BY <1>1, <1>2, <1>3, <1>4, <1>5, <1>6, <1>7, <1>8, <1>9, <1>10, <1>11, <1>12, <1>13,
           <1>14, <1>15, <1>16, <1>17, <1>18, <1>19
        DEF Next, LoopStep, ConnStep, ReadStep, MessageStep

-----------------------------------------------------------------------------
(* What the steps do to connections and channels *)

\* handleClose of a connection that is up: its asserts hold and its effect is
\* this.
CloseStep(c) ==
  /\ state[c] \in Up
  /\ HandleClose(c)
  /\ UNCHANGED outVars

\* What handleClose does to its connection, and that it leaves the others alone.
LEMMA CloseEffect ==
  ASSUME ServerInv, NEW c \in Conns, state[c] \in Up, HandleClose(c)
  PROVE  /\ ~aborted'
         /\ state'[c] = "kDisconnected" /\ index'[c] = "kDeleted" /\ events'[c] = {}
         /\ \A d \in Conns : d # c => /\ state'[d] = state[d]
                                      /\ index'[d] = index[d]
                                      /\ events'[d] = events[d]
         /\ connections' = connections \ {c}
         /\ addr' = addr
         /\ sessions' = [sessions EXCEPT ![addr[c]] = None]
         /\ pending' = Append(pending, [op |-> "connectDestroyed", conn |-> c])
<1>1. c \in connections /\ index[c] = "kAdded" BY DEF ServerInv, LifeInv, Life
<1>2. ~aborted BY DEF ServerInv, NoAbort
<1>3. ~aborted' BY <1>1, <1>2 DEF HandleClose
<1>4. /\ state' = [state EXCEPT ![c] = "kDisconnected"]
      /\ events' = [events EXCEPT ![c] = {}]
      /\ index' = [index EXCEPT ![c] = "kDeleted"]
      /\ connections' = connections \ {c}
      /\ addr' = addr
      /\ sessions' = [sessions EXCEPT ![addr[c]] = None]
      /\ pending' = Append(pending, [op |-> "connectDestroyed", conn |-> c])
  BY <1>1 DEF HandleClose, UpdateChannel, OnClose, RemoveConnection
<1> QED BY <1>3, <1>4 DEF ServerInv, TypeOK

\* A functor at the head of the queue is about a connection, and a
\* connectDestroyed there about one that is closed and still in the poller.
LEMMA HeadFacts ==
  ASSUME ServerInv, functors # << >>
  PROVE  /\ Head(functors).conn \in Conns
         /\ Head(functors).op = "connectDestroyed" =>
              LET c == Head(functors).conn IN
                state[c] = "kDisconnected" /\ index[c] = "kDeleted" /\ events[c] = {}
<1>1. functors \in Seq(Functor) /\ DestroysOnce(functors)
  BY DEF ServerInv, TypeOK, QueueInv
<1>2. /\ Head(functors) \in Functor
      /\ Head(functors).op = "connectDestroyed" => Destroys(functors, Head(functors).conn)
  BY <1>1, DestroysTail
<1>3. Head(functors).conn \in Conns BY <1>2 DEF Functor
<1> QED BY <1>2, <1>3 DEF ServerInv, QueueInv, Queued, LifeInv, Life

\* The steps, as far as connections, channels and buffers are concerned.  An
\* event is only handled, and the end of a stream only read, while the
\* connection is up.
LEMMA StepCases ==
  ASSUME ServerInv, [Next]_vars
  PROVE  \/ \E c \in Conns : \E a \in Addrs : NewConnection(c, a)
         \/ \E c \in Conns : \/ Refuse(c) \/ PeerConnects(c)
                             \/ CloseStep(c)
                             \/ Send(c)
                             \/ ProcessFails(c)
                             \/ StageWrite(c)
         \/ ConnectDestroyed
         \/ UNCHANGED <<connVars, chanVars, outVars>>
<1>1. ASSUME NEW c \in Conns, HandleEvent(c)
      PROVE  CloseStep(c) \/ UNCHANGED <<connVars, chanVars, outVars>>
  <2>1. state[c] \in Up
    BY <1>1, NoneAssumption DEF HandleEvent, ServerInv, EventInv, Event
  <2> QED BY <1>1, <2>1 DEF HandleEvent, StageClose, CloseStep
<1>2. ASSUME NEW c \in Conns, ReadEof(c) PROVE CloseStep(c)
  BY <1>2 DEF ReadEof, CloseStep, ServerInv, EventInv, Event
<1>3. CASE ForceCloseInLoop
  <2>1. Head(functors).conn \in Conns BY <1>3, HeadFacts DEF ForceCloseInLoop
  <2> QED BY <1>3, <2>1 DEF ForceCloseInLoop, CloseStep
<1> QED BY <1>1, <1>2, <1>3
        DEF Next, LoopStep, ConnStep, ReadStep, MessageStep, Poll, ReadMessage, ReadNothing,
            ProcessSucceeds, WriteNothing, DoPendingFunctors, OtherCloses, PeerCloses, vars,
            connVars, chanVars, outVars

-----------------------------------------------------------------------------
(* Connections and their channels *)

\* One step keeps state_, channel, poller and connections_ in agreement.
LEMMA LifeStep ==
  ASSUME ServerInv, TypeOK', [Next]_vars
  PROVE  LifeInv'
<1> SUFFICES ASSUME NEW d \in Conns PROVE Life(d)'
  BY DEF LifeInv
<1>0. Life(d) /\ TypeOK /\ OutInv BY DEF ServerInv, LifeInv
<1> USE DEF Up, Born
<1>1. ASSUME NEW c \in Conns, NEW a \in Addrs, NewConnection(c, a) PROVE Life(d)'
  <2>1. /\ connections' = connections \cup {c} /\ UNCHANGED <<output, shut>>
        /\ state' = [state EXCEPT ![c] = "kConnected"] /\ state[c] = "waiting"
        /\ addr' = [addr EXCEPT ![c] = a]
        /\ events' = [events EXCEPT ![c] = {"read"}]
        /\ index' = [index EXCEPT ![c] = IF @ = "kAdded" /\ {"read"} = {} THEN "kDeleted"
                                                                          ELSE "kAdded"]
    BY <1>1 DEF NewConnection, ConnectEstablished, UpdateChannel, outVars
  <2>2. CASE d = c
    <3>1. output[d] = << >> BY <1>0, <2>1, <2>2 DEF Life
    <3>2. /\ state'[d] = "kConnected" /\ addr'[d] = a /\ events'[d] = {"read"}
          /\ index'[d] = "kAdded" /\ d \in connections'
      BY <1>0, <2>1, <2>2 DEF TypeOK
    <3> QED BY <2>1, <3>1, <3>2 DEF Life
  <2>3. CASE d # c
    <3>1. /\ state'[d] = state[d] /\ addr'[d] = addr[d] /\ events'[d] = events[d]
          /\ index'[d] = index[d] /\ (d \in connections' <=> d \in connections)
      BY <1>0, <2>1, <2>3 DEF TypeOK
    <3> QED BY <1>0, <2>1, <3>1 DEF Life
  <2> QED BY <2>2, <2>3
<1>2. ASSUME NEW c \in Conns, Refuse(c) \/ PeerConnects(c) PROVE Life(d)'
  <2>1. /\ UNCHANGED <<addr, connections, events, index, output, shut>>
        /\ state'[d] = state[d]
           \/ (state[d] \in {"none", "waiting"} /\ state'[d] \in {"waiting", "refused"})
    <3>1. UNCHANGED <<addr, connections, events, index, output, shut>>
      BY <1>2 DEF Refuse, PeerConnects, chanVars, outVars
    <3>2. \/ UNCHANGED state
          \/ state[c] = "waiting" /\ state' = [state EXCEPT ![c] = "refused"]
          \/ state[c] = "none" /\ state' = [state EXCEPT ![c] = "waiting"]
      BY <1>2 DEF Refuse, PeerConnects
    <3> QED BY <1>0, <3>1, <3>2 DEF TypeOK
  <2> QED BY <1>0, <2>1 DEF Life
<1>3. ASSUME NEW c \in Conns, CloseStep(c) PROVE Life(d)'
  <2>1. UNCHANGED <<output, shut>> BY <1>3 DEF CloseStep, outVars
  <2> QED BY <1>0, <1>3, <2>1, CloseEffect DEF CloseStep, Life
<1>4. ASSUME NEW c \in Conns, Send(c) PROVE Life(d)'
  <2>1. UNCHANGED <<state, addr, connections, shut>> /\ state[c] = "kConnected"
    BY <1>4 DEF Send, connVars
  <2>2. CASE UNCHANGED <<output, events, index>> BY <1>0, <2>1, <2>2 DEF Life
  <2>3. CASE /\ output' = [output EXCEPT ![c] = Append(@, sent[c] + 1)]
             /\ UpdateChannel(c, events[c] \cup {"write"})
    <3>1. CASE d = c
      <4>1. output'[d] = Append(output[d], sent[c] + 1) /\ output[d] \in Seq(Nat)
        BY <1>0, <2>3, <3>1 DEF OutInv
      <4>3. output'[d] # << >>
        <5>1. sent[c] + 1 \in Nat BY <1>0 DEF OutInv
        <5> QED BY <4>1, <5>1, AppendProperties
      <4>2. events'[d] = events[d] \cup {"write"} /\ index'[d] = "kAdded"
        BY <1>0, <2>3, <3>1 DEF UpdateChannel, TypeOK
      <4> QED BY <1>0, <2>1, <3>1, <4>2, <4>3 DEF Life
    <3>2. CASE d # c
      <4>1. output'[d] = output[d] /\ events'[d] = events[d] /\ index'[d] = index[d]
        BY <1>0, <2>3, <3>2 DEF UpdateChannel, TypeOK, OutInv
      <4> QED BY <1>0, <2>1, <4>1 DEF Life
    <3> QED BY <3>1, <3>2
  <2> QED BY <1>4, <2>2, <2>3 DEF Send, chanVars
<1>5. ASSUME NEW c \in Conns, ProcessFails(c) PROVE Life(d)'
  <2>1. /\ UNCHANGED <<addr, connections, events, index, output, shut>>
        /\ state'[d] = state[d] \/ (state[d] \in Up /\ state'[d] = "kDisconnecting")
    BY <1>0, <1>5 DEF ProcessFails, TypeOK, chanVars, outVars
  <2> QED BY <1>0, <2>1 DEF Life
<1>6. ASSUME NEW c \in Conns, StageWrite(c) PROVE Life(d)'
  <2>1. /\ UNCHANGED <<state, addr, connections>> /\ "write" \in events[c]
        /\ shut' \in {shut, shut \cup {c}}
        /\ \E n \in 1 .. Len(output[c]) :
             output' = [output EXCEPT ![c] = SubSeq(@, n + 1, Len(@))]
    BY <1>6 DEF StageWrite, connVars
  <2>2. CASE d # c
    <3>1. events'[d] = events[d] /\ index'[d] = index[d]
      <4>1. CASE UpdateChannel(c, events[c] \ {"write"})
        BY <1>0, <2>2, <4>1 DEF UpdateChannel, TypeOK
      <4>2. CASE UNCHANGED chanVars BY <4>2 DEF chanVars
      <4> QED BY <1>6, <4>1, <4>2 DEF StageWrite
    <3>2. output'[d] = output[d] /\ (d \in shut' <=> d \in shut)
      BY <1>0, <2>1, <2>2 DEF OutInv
    <3> QED BY <1>0, <2>1, <3>1, <3>2 DEF Life
  <2>3. CASE d = c
    <3>1. state[c] \in Up
      <4>1. state[c] \in {"none", "waiting", "refused"} \cup Born BY <1>0 DEF TypeOK
      <4> QED BY <1>0, <2>1, <2>3, <4>1 DEF Life
    <3>2. CASE output'[c] = << >>
      <4>1. events'[c] = events[c] \ {"write"} /\ "read" \in events[c] /\ index[c] = "kAdded"
        BY <1>0, <1>6, <2>3, <3>1, <3>2 DEF StageWrite, UpdateChannel, TypeOK, Life
      <4>2. index'[c] = "kAdded"
        BY <1>0, <1>6, <3>2, <4>1 DEF StageWrite, UpdateChannel, TypeOK
      <4> QED BY <1>0, <2>1, <2>3, <3>1, <3>2, <4>1, <4>2 DEF Life
    <3>3. CASE output'[c] # << >>
      <4>1. events'[c] = events[c] /\ index'[c] = index[c]
        BY <1>6, <3>3 DEF StageWrite, chanVars
      <4> QED BY <1>0, <2>1, <2>3, <3>1, <3>3, <4>1 DEF Life
    <3> QED BY <3>2, <3>3
  <2> QED BY <2>2, <2>3
<1>7. CASE ConnectDestroyed
  <2>1. /\ UNCHANGED <<state, addr, connections, events, output, shut>>
        /\ index' = [index EXCEPT ![Head(functors).conn] = "kNew"]
    BY <1>7 DEF ConnectDestroyed, RemoveChannel, connVars, outVars
  <2>2. /\ Head(functors).conn \in Conns
        /\ state[Head(functors).conn] = "kDisconnected"
    BY <1>7, HeadFacts DEF ConnectDestroyed
  <2>3. index'[d] = index[d] \/ (state[d] = "kDisconnected" /\ index'[d] = "kNew")
    BY <1>0, <2>1, <2>2 DEF TypeOK
  <2> QED BY <1>0, <2>1, <2>3 DEF Life
<1>8. CASE UNCHANGED <<connVars, chanVars, outVars>>
  BY <1>0, <1>8 DEF Life, connVars, chanVars, outVars
<1> QED BY <1>1, <1>2, <1>3, <1>4, <1>5, <1>6, <1>7, <1>8, StepCases

-----------------------------------------------------------------------------
(* Events *)

\* One step keeps what the events of this round rely on.
LEMMA EventStep ==
  ASSUME ServerInv, TypeOK', [Next]_vars
  PROVE  EventInv'
<1> SUFFICES ASSUME NEW d \in Conns PROVE Event(d)'
  BY DEF EventInv
<1>0. Event(d) /\ Life(d) /\ TypeOK /\ None \notin Conns
  BY NoneAssumption DEF ServerInv, EventInv, LifeInv
<1> USE DEF Up, Born
<1>1. ASSUME NEW c \in Conns, NEW a \in Addrs, NewConnection(c, a) PROVE Event(d)'
  <2>1. /\ UNCHANGED <<revents, phase, current, stage>>
        /\ state'[d] = state[d] \/ (state[d] = "waiting" /\ state'[d] = "kConnected")
    BY <1>0, <1>1 DEF NewConnection, ConnectEstablished, TypeOK
  <2> QED BY <1>0, <2>1 DEF Event
<1>2. ASSUME NEW c \in Conns, Refuse(c) \/ PeerConnects(c) PROVE Event(d)'
  <2>1. UNCHANGED <<revents, phase, current, stage>>
    BY <1>2 DEF Refuse, PeerConnects
  <2>2. \/ UNCHANGED state
        \/ state[c] = "waiting" /\ state' = [state EXCEPT ![c] = "refused"]
        \/ state[c] = "none" /\ state' = [state EXCEPT ![c] = "waiting"]
    BY <1>2 DEF Refuse, PeerConnects
  <2>3. \/ state'[d] = state[d]
        \/ state[d] \in {"none", "waiting"} /\ state'[d] \in {"waiting", "refused"}
    BY <1>0, <2>2 DEF TypeOK
  <2> QED BY <1>0, <2>1, <2>3 DEF Event
<1>3. CASE Poll
  <2>1. /\ phase = "functors" /\ phase' = "events"
        /\ UNCHANGED <<state, current, stage>>
        /\ revents'[d] \in Reported(d)
    BY <1>3 DEF Poll, connVars
  <2>2. current # d BY <1>0, <2>1 DEF Event
  <2>3. revents'[d] # {} => index[d] = "kAdded" BY <2>1 DEF Reported
  <2>4. index[d] = "kAdded" => state[d] \in Up
    BY <1>0 DEF Life, TypeOK
  <2> QED BY <1>0, <2>1, <2>2, <2>3, <2>4 DEF Event
<1>4. ASSUME NEW c \in Conns, HandleEvent(c) PROVE Event(d)'
  <2>1. phase = "events" /\ phase' = phase /\ current = None /\ revents[c] # {}
    BY <1>4 DEF HandleEvent
  <2>2. state[c] \in Up
    BY <1>0, <2>1 DEF ServerInv, EventInv, Event
  <2>3. Live(c) BY <2>2 DEF Live, ServerInv, LifeInv, Life
  <2>4. /\ current' = c /\ stage' = "read" /\ revents' = revents /\ StageClose(c)
    BY <1>4, <2>3 DEF HandleEvent
  <2>5. \/ UNCHANGED state
        \/ "IN" \notin revents[c] /\ state' = [state EXCEPT ![c] = "kDisconnected"]
    BY <2>4 DEF StageClose, HandleClose, connVars
  <2>6. CASE d = c BY <1>0, <2>1, <2>2, <2>4, <2>5, <2>6 DEF Event, TypeOK
  <2>7. CASE d # c BY <1>0, <2>1, <2>4, <2>5, <2>7 DEF Event, TypeOK
  <2> QED BY <2>6, <2>7
<1>5. ASSUME NEW c \in Conns, ReadMessage(c) PROVE Event(d)'
  <2>1. /\ current = c /\ stage = "read" /\ "IN" \in revents[c] /\ stage' = "message"
        /\ UNCHANGED <<state, phase, revents, current>>
    BY <1>5 DEF ReadMessage, connVars
  <2> QED BY <1>0, <2>1 DEF Event
<1>6. ASSUME NEW c \in Conns, ReadEof(c) PROVE Event(d)'
  <2>1. /\ current = c /\ stage' = "write" /\ UNCHANGED <<phase, revents, current>>
        /\ state' = [state EXCEPT ![c] = "kDisconnected"]
    BY <1>6 DEF ReadEof, HandleClose
  <2>2. CASE d = c BY <1>0, <2>1, <2>2 DEF Event, TypeOK
  <2>3. CASE d # c BY <1>0, <2>1, <2>3 DEF Event, TypeOK
  <2> QED BY <2>2, <2>3
<1>7. ASSUME NEW c \in Conns, ReadNothing(c) \/ ProcessSucceeds(c) PROVE Event(d)'
  <2>1. stage' = "write" /\ UNCHANGED <<state, phase, revents, current>>
    BY <1>7 DEF ReadNothing, ProcessSucceeds, connVars
  <2> QED BY <1>0, <2>1 DEF Event
<1>8. ASSUME NEW c \in Conns, ProcessFails(c) PROVE Event(d)'
  <2>1. stage' = "write" /\ UNCHANGED <<phase, revents, current>>
    BY <1>8 DEF ProcessFails
  <2>2. \/ UNCHANGED state
        \/ state[c] \in Up /\ state' = [state EXCEPT ![c] = "kDisconnecting"]
    BY <1>8 DEF ProcessFails
  <2>3. state'[d] = state[d] \/ (state[d] \in Up /\ state'[d] = "kDisconnecting")
    BY <1>0, <2>2 DEF TypeOK
  <2> QED BY <1>0, <2>1, <2>3 DEF Event
<1>9. ASSUME NEW c \in Conns, StageWrite(c) \/ WriteNothing(c) PROVE Event(d)'
  <2>1. /\ current = c /\ current' = None /\ revents' = [revents EXCEPT ![c] = {}]
        /\ UNCHANGED <<state, phase>>
    BY <1>9 DEF StageWrite, WriteNothing, EventDone, connVars
  <2>2. CASE d = c BY <1>0, <2>1, <2>2 DEF Event, TypeOK
  <2>3. CASE d # c BY <1>0, <2>1, <2>3 DEF Event, TypeOK
  <2> QED BY <2>2, <2>3
<1>10. CASE DoPendingFunctors
  <2>1. /\ current = None /\ revents[d] = {} /\ UNCHANGED <<state, revents, current, stage>>
    BY <1>10 DEF DoPendingFunctors, connVars
  <2> QED BY <1>0, <2>1 DEF Event
<1>11. CASE ForceCloseInLoop
  <2>1. phase = "functors" /\ UNCHANGED <<phase, revents, current, stage>>
    BY <1>11 DEF ForceCloseInLoop
  <2>2. revents[d] = {} /\ current # d BY <1>0, <2>1 DEF Event
  <2> QED BY <2>1, <2>2 DEF Event
<1>12. CASE UNCHANGED <<state, phase, revents, current, stage>>
  BY <1>0, <1>12 DEF Event
<1> QED BY <1>1, <1>2, <1>3, <1>4, <1>5, <1>6, <1>7, <1>8, <1>9, <1>10, <1>11, <1>12
        DEF Next, LoopStep, ConnStep, ReadStep, MessageStep, ConnectDestroyed, Send, OtherCloses,
            PeerCloses, vars, connVars

-----------------------------------------------------------------------------
(* Functors *)

\* A step that touches neither the queues nor a channel's place in the poller.
LEMMA QueueUnchanged ==
  ASSUME ServerInv, UNCHANGED <<pending, functors, index>>,
         phase' = phase \/ (phase' = "events" /\ functors = << >>),
         \A c \in Conns : index[c] = "kDeleted" => state'[c] = state[c]
  PROVE  QueueInv'
BY DEF ServerInv, QueueInv, Queued

\* A functor is appended: connectDestroyed exactly for the connection that
\* handleClose has taken out of the epoll set.
LEMMA QueueAfterClose ==
  ASSUME ServerInv, TypeOK', NEW c \in Conns, state[c] \in Up, HandleClose(c), phase' = phase
  PROVE  /\ UNCHANGED functors => QueueInv'
         /\ phase = "functors" /\ functors # << >> /\ Head(functors).op = "forceCloseInLoop"
              /\ functors' = Tail(functors) => QueueInv'
<1> DEFINE f == [op |-> "connectDestroyed", conn |-> c]
<1>1. f \in Functor /\ f.op = "connectDestroyed" /\ f.conn = c BY DEF Functor
<1>2. pending' = Append(pending, f) /\ pending \in Seq(Functor) BY CloseEffect DEF ServerInv, TypeOK
<1> HIDE DEF f
<1>3. ~Destroys(pending, c) /\ ~Destroys(functors, c)
  BY DEF ServerInv, QueueInv, Queued, Up
<1>4. DestroysOnce(pending) BY DEF ServerInv, QueueInv
<1>5. /\ DestroysOnce(pending')
      /\ \A d : Destroys(pending', d) <=> Destroys(pending, d) \/ d = c
  BY <1>1, <1>2, <1>3, <1>4, DestroysAppend
<1>6. ASSUME NEW d \in Conns, Destroys(functors', d) <=> Destroys(functors, d) PROVE Queued(d)'
  <2>1. CASE d = c BY <1>3, <1>5, <1>6, <2>1, CloseEffect DEF Queued
  <2>2. CASE d # c
    <3>1. Queued(d) BY DEF ServerInv, QueueInv
    <3> QED BY <1>5, <1>6, <2>2, <3>1, CloseEffect DEF Queued
  <2> QED BY <2>1, <2>2
<1>7. UNCHANGED functors => QueueInv'
  BY <1>5, <1>6 DEF QueueInv, ServerInv
<1>8. ASSUME phase = "functors", functors # << >>, Head(functors).op = "forceCloseInLoop",
             functors' = Tail(functors)
      PROVE  QueueInv'
  <2>1. functors \in Seq(Functor) /\ DestroysOnce(functors) BY DEF ServerInv, TypeOK, QueueInv
  <2>2. DestroysOnce(functors') /\ \A d : Destroys(functors', d) <=> Destroys(functors, d)
    BY <1>8, <2>1, DestroysTail
  <2> QED BY <1>5, <1>6, <1>8, <2>2 DEF QueueInv
<1> QED BY <1>7, <1>8

\* One step keeps one connectDestroyed for every connection closed and not yet
\* destroyed.
LEMMA QueueStep ==
  ASSUME ServerInv, TypeOK', [Next]_vars
  PROVE  QueueInv'
<1>0. TypeOK /\ functors \in Seq(Functor) /\ pending \in Seq(Functor)
  BY DEF ServerInv, TypeOK
<1>1. ASSUME NEW c \in Conns, NEW a \in Addrs, NewConnection(c, a) PROVE QueueInv'
  <2>1. /\ UNCHANGED <<pending, functors, phase>>
        /\ state' = [state EXCEPT ![c] = "kConnected"] /\ state[c] = "waiting"
        /\ index' = [index EXCEPT ![c] = "kAdded"]
    <3>1. {"read"} # {} OBVIOUS
    <3> QED BY <1>1, <3>1 DEF NewConnection, ConnectEstablished, UpdateChannel, loopVars
  <2>2. index[c] = "kNew" BY <2>1 DEF ServerInv, LifeInv, Life, Up, Born
  <2>3. ~Destroys(pending, c) /\ ~Destroys(functors, c)
    BY <2>2 DEF ServerInv, QueueInv, Queued
  <2>4. ASSUME NEW d \in Conns PROVE Queued(d)'
    <3>1. Queued(d) BY DEF ServerInv, QueueInv
    <3>2. CASE d = c BY <1>0, <2>1, <2>3, <3>2 DEF Queued, TypeOK
    <3>3. CASE d # c BY <1>0, <2>1, <3>1, <3>3 DEF Queued, TypeOK
    <3> QED BY <3>2, <3>3
  <2> QED BY <2>1, <2>4 DEF ServerInv, QueueInv
<1>2. ASSUME NEW c \in Conns, Refuse(c) \/ PeerConnects(c) PROVE QueueInv'
  <2>1. /\ UNCHANGED <<pending, functors, index, phase>>
    BY <1>2 DEF Refuse, PeerConnects, loopVars, chanVars
  <2>2. \/ UNCHANGED state
        \/ state[c] = "waiting" /\ state' = [state EXCEPT ![c] = "refused"]
        \/ state[c] = "none" /\ state' = [state EXCEPT ![c] = "waiting"]
    BY <1>2 DEF Refuse, PeerConnects
  <2>3. \A d \in Conns : index[d] = "kDeleted" => state[d] = "kDisconnected"
    BY DEF ServerInv, QueueInv, Queued
  <2>4. \A d \in Conns : index[d] = "kDeleted" => state'[d] = state[d]
    BY <1>0, <2>2, <2>3 DEF TypeOK
  <2> QED BY <2>1, <2>4, QueueUnchanged
<1>3. CASE Poll
  BY <1>3, QueueUnchanged DEF Poll, loopVars, connVars, chanVars
<1>4. ASSUME NEW c \in Conns, HandleEvent(c) PROVE QueueInv'
  <2>1. state[c] \in Up
    BY <1>4, NoneAssumption DEF HandleEvent, ServerInv, EventInv, Event
  <2>2. UNCHANGED <<phase, functors>> BY <1>4 DEF HandleEvent
  <2>3. CASE HandleClose(c) BY <2>1, <2>2, <2>3, QueueAfterClose
  <2>4. CASE UNCHANGED <<connVars, chanVars, pending>>
    BY <2>2, <2>4, QueueUnchanged DEF connVars, chanVars
  <2> QED BY <1>4, <2>3, <2>4 DEF HandleEvent, StageClose
<1>5. ASSUME NEW c \in Conns, ReadEof(c) PROVE QueueInv'
  <2>1. state[c] \in Up BY <1>5 DEF ReadEof, ServerInv, EventInv, Event
  <2> QED BY <1>5, <2>1, QueueAfterClose DEF ReadEof
<1>6. ASSUME NEW c \in Conns, Send(c) PROVE QueueInv'
  <2>1. UNCHANGED <<pending, functors, phase, state>> /\ state[c] = "kConnected"
    BY <1>6 DEF Send, loopVars, connVars
  <2>2. index[c] = "kAdded" BY <2>1 DEF ServerInv, LifeInv, Life, Up
  <2>3. index' = index
    <3>1. CASE UNCHANGED chanVars BY <3>1 DEF chanVars
    <3>2. CASE UpdateChannel(c, events[c] \cup {"write"})
      <4>1. events[c] \cup {"write"} # {} OBVIOUS
      <4> QED BY <1>0, <2>2, <3>2, <4>1 DEF UpdateChannel, TypeOK
    <3> QED BY <1>6, <3>1, <3>2 DEF Send
  <2> QED BY <2>1, <2>3, QueueUnchanged
<1>7. ASSUME NEW c \in Conns, ProcessFails(c) PROVE QueueInv'
  <2>1. UNCHANGED <<functors, phase, index>> BY <1>7 DEF ProcessFails, chanVars
  <2>2. CASE UNCHANGED <<state, pending>> BY <2>1, <2>2, QueueUnchanged
  <2>3. CASE /\ state[c] \in Up /\ state' = [state EXCEPT ![c] = "kDisconnecting"]
             /\ pending' = Append(pending, [op |-> "forceCloseInLoop", conn |-> c])
    <3> DEFINE f == [op |-> "forceCloseInLoop", conn |-> c]
    <3>1. f \in Functor /\ f.op # "connectDestroyed" BY DEF Functor
    <3>2. pending' = Append(pending, f) BY <2>3
    <3> HIDE DEF f
    <3>3. /\ DestroysOnce(pending) => DestroysOnce(pending')
          /\ \A d : Destroys(pending', d) <=> Destroys(pending, d)
      BY <1>0, <3>1, <3>2, DestroysAppend
    <3>4. \A d \in Conns : index[d] = "kDeleted" => state[d] = "kDisconnected"
      BY DEF ServerInv, QueueInv, Queued
    <3>5. \A d \in Conns : index[d] = "kDeleted" => state'[d] = state[d]
      BY <1>0, <2>3, <3>4 DEF TypeOK, Up
    <3> QED BY <2>1, <3>3, <3>5 DEF ServerInv, QueueInv, Queued
  <2> QED BY <1>7, <2>2, <2>3 DEF ProcessFails
<1>8. ASSUME NEW c \in Conns, StageWrite(c) PROVE QueueInv'
  <2>1. UNCHANGED <<pending, functors, phase, state>> /\ "write" \in events[c]
    BY <1>8 DEF StageWrite, loopVars, connVars
  <2>2. state[c] \in {"none", "waiting", "refused"} \cup Born BY <1>0 DEF TypeOK
  <2>3. index[c] = "kAdded" /\ "read" \in events[c]
    BY <2>1, <2>2 DEF ServerInv, LifeInv, Life, Up, Born
  <2>4. index' = index
    <3>1. CASE UNCHANGED chanVars BY <3>1 DEF chanVars
    <3>2. CASE UpdateChannel(c, events[c] \ {"write"})
      <4>1. events[c] \ {"write"} # {} BY <2>3
      <4> QED BY <1>0, <2>3, <3>2, <4>1 DEF UpdateChannel, TypeOK
    <3> QED BY <1>8, <3>1, <3>2 DEF StageWrite
  <2> QED BY <2>1, <2>4, QueueUnchanged
<1>9. CASE DoPendingFunctors
  <2>1. /\ functors' = pending /\ pending' = << >> /\ phase = "events"
        /\ UNCHANGED <<state, index>> /\ phase' = "functors"
    BY <1>9 DEF DoPendingFunctors, connVars, chanVars
  <2>2. functors = << >> BY <2>1 DEF ServerInv, QueueInv
  <2>3. \A d : ~Destroys(functors, d) /\ ~Destroys(pending', d) BY <2>1, <2>2 DEF Destroys
  <2>4. DestroysOnce(pending') BY <2>1 DEF DestroysOnce
  <2> QED BY <2>1, <2>3, <2>4 DEF ServerInv, QueueInv, Queued
<1>10. CASE ForceCloseInLoop
  <2>1. /\ phase = "functors" /\ functors # << >> /\ Head(functors).op = "forceCloseInLoop"
        /\ functors' = Tail(functors) /\ UNCHANGED phase
    BY <1>10 DEF ForceCloseInLoop
  <2>2. Head(functors).conn \in Conns BY <2>1, HeadFacts
  <2>3. CASE state[Head(functors).conn] \in Up
    BY <1>10, <2>1, <2>2, <2>3, QueueAfterClose DEF ForceCloseInLoop
  <2>4. CASE state[Head(functors).conn] \notin Up
    <3>1. UNCHANGED <<state, index, pending>>
      BY <1>10, <2>4 DEF ForceCloseInLoop, connVars, chanVars
    <3>2. DestroysOnce(functors') /\ \A d : Destroys(functors', d) <=> Destroys(functors, d)
      BY <1>0, <2>1, DestroysTail DEF ServerInv, QueueInv
    <3> QED BY <2>1, <3>1, <3>2 DEF ServerInv, QueueInv, Queued
  <2> QED BY <2>3, <2>4
<1>11. CASE ConnectDestroyed
  <2> DEFINE c == Head(functors).conn
  <2>1. /\ phase = "functors" /\ functors # << >> /\ Head(functors).op = "connectDestroyed"
        /\ functors' = Tail(functors) /\ UNCHANGED <<phase, pending, state>>
        /\ index' = [index EXCEPT ![c] = "kNew"]
    BY <1>11 DEF ConnectDestroyed, RemoveChannel, connVars
  <2>2. c \in Conns BY <2>1, HeadFacts
  <2>3. /\ DestroysOnce(functors') /\ ~Destroys(functors', c) /\ Destroys(functors, c)
        /\ \A d : Destroys(functors, d) <=> Destroys(functors', d) \/ d = c
    BY <1>0, <2>1, DestroysTail DEF ServerInv, QueueInv
  <2> HIDE DEF c
  <2>4. ASSUME NEW d \in Conns PROVE Queued(d)'
    <3>1. Queued(d) /\ Queued(c) BY <2>2 DEF ServerInv, QueueInv
    <3>2. CASE d = c BY <1>0, <2>1, <2>2, <2>3, <3>1, <3>2 DEF Queued, TypeOK
    <3>3. CASE d # c BY <1>0, <2>1, <2>2, <2>3, <3>1, <3>3 DEF Queued, TypeOK
    <3> QED BY <3>2, <3>3
  <2> QED BY <2>1, <2>3, <2>4 DEF ServerInv, QueueInv
<1>12. CASE UNCHANGED <<pending, functors, index, phase, state>>
  BY <1>12, QueueUnchanged
<1> QED BY <1>1, <1>2, <1>3, <1>4, <1>5, <1>6, <1>7, <1>8, <1>9, <1>10, <1>11, <1>12
        DEF Next, LoopStep, ConnStep, ReadStep, MessageStep, ReadMessage, ReadNothing,
            ProcessSucceeds, WriteNothing, OtherCloses, PeerCloses, vars, connVars, chanVars,
            loopVars

-----------------------------------------------------------------------------
(* Sockets that were shut down, sessions, and the asserts *)

\* One step keeps a socket that was shut down without output.
LEMMA ShutStep ==
  ASSUME ServerInv, [Next]_vars
  PROVE  ShutInv'
<1>0. TypeOK /\ OutInv /\ ShutInv /\ shut \subseteq Conns BY DEF ServerInv, TypeOK
<1>1. ASSUME NEW c \in Conns, NEW a \in Addrs, NewConnection(c, a) PROVE ShutInv'
  <2>1. /\ UNCHANGED <<output, shut>> /\ state[c] = "waiting"
        /\ state' = [state EXCEPT ![c] = "kConnected"]
    BY <1>1 DEF NewConnection, ConnectEstablished, outVars
  <2>2. c \notin shut BY <2>1 DEF ServerInv, LifeInv, Life, Born, Up
  <2> QED BY <1>0, <2>1, <2>2 DEF ShutInv, TypeOK
<1>2. ASSUME NEW c \in Conns, Refuse(c) \/ PeerConnects(c) PROVE ShutInv'
  <2>1. UNCHANGED <<output, shut>> BY <1>2 DEF Refuse, PeerConnects, outVars
  <2>2. \/ UNCHANGED state
        \/ state' = [state EXCEPT ![c] = "refused"]
        \/ state' = [state EXCEPT ![c] = "waiting"]
    BY <1>2 DEF Refuse, PeerConnects
  <2> QED BY <1>0, <2>1, <2>2 DEF ShutInv, TypeOK
<1>3. ASSUME NEW c \in Conns, CloseStep(c) PROVE ShutInv'
  <2>1. UNCHANGED <<output, shut>> BY <1>3 DEF CloseStep, outVars
  <2> QED BY <1>0, <1>3, <2>1, CloseEffect DEF CloseStep, ShutInv
<1>4. ASSUME NEW c \in Conns, Send(c) PROVE ShutInv'
  <2>1. /\ UNCHANGED <<state, shut>> /\ state[c] = "kConnected"
        /\ output' \in {output, [output EXCEPT ![c] = Append(@, sent[c] + 1)]}
    BY <1>4 DEF Send, connVars
  <2>2. c \notin shut BY <1>0, <2>1 DEF ShutInv
  <2> QED BY <1>0, <2>1, <2>2 DEF ShutInv, OutInv
<1>5. ASSUME NEW c \in Conns, ProcessFails(c) PROVE ShutInv'
  <2>1. UNCHANGED <<output, shut>> BY <1>5 DEF ProcessFails, outVars
  <2>2. UNCHANGED state \/ state' = [state EXCEPT ![c] = "kDisconnecting"]
    BY <1>5 DEF ProcessFails
  <2> QED BY <1>0, <2>1, <2>2 DEF ShutInv, TypeOK
<1>6. ASSUME NEW c \in Conns, StageWrite(c) PROVE ShutInv'
  <2>1. PICK n \in 1 .. Len(output[c]) :
          output' = [output EXCEPT ![c] = SubSeq(@, n + 1, Len(@))]
    BY <1>6 DEF StageWrite
  <2>2. c \notin shut
    <3>1. output[c] \in Seq(Nat) /\ output[c] # << >> BY <1>0, <2>1 DEF OutInv
    <3> QED BY <1>0, <3>1 DEF ShutInv
  <2>3. UNCHANGED state BY <1>6 DEF StageWrite, connVars
  <2>4. shut' = shut \/ (shut' = shut \cup {c} /\ output'[c] = << >> /\ state[c] = "kDisconnecting")
    BY <1>6 DEF StageWrite
  <2>5. \A d \in Conns : d # c => output'[d] = output[d] BY <1>0, <2>1 DEF OutInv
  <2> QED BY <1>0, <2>2, <2>3, <2>4, <2>5 DEF ShutInv
<1>7. CASE ConnectDestroyed
  BY <1>0, <1>7 DEF ConnectDestroyed, ShutInv, connVars, outVars
<1>8. CASE UNCHANGED <<connVars, chanVars, outVars>>
  BY <1>0, <1>8 DEF ShutInv, connVars, outVars
<1> QED BY <1>1, <1>2, <1>3, <1>4, <1>5, <1>6, <1>7, <1>8, StepCases

\* One step keeps one session for every connection that is up.
LEMMA SessionStep ==
  ASSUME ServerInv, [Next]_vars
  PROVE  SessionPerConnection'
<1>0. TypeOK /\ SessionPerConnection /\ None \notin Conns /\ None \notin Addrs
  BY NoneAssumption DEF ServerInv
<1>a. \A d \in Conns : /\ d \in connections <=> state[d] \in Up
                       /\ state[d] \in Up => addr[d] \in Addrs
  BY DEF ServerInv, LifeInv, Life
<1>1. ASSUME NEW c \in Conns, NEW a \in Addrs, NewConnection(c, a) PROVE SessionPerConnection'
  <2>1. /\ addr' = [addr EXCEPT ![c] = a] /\ state[c] = "waiting"
        /\ state' = [state EXCEPT ![c] = "kConnected"]
        /\ sessions' = [sessions EXCEPT ![a] = IF @ = None THEN c ELSE @]
        /\ \A d \in Conns : Live(d) => addr[d] # a
    BY <1>1 DEF NewConnection, ConnectEstablished, InsertSession
  <2>2. \A d \in Conns : state[d] \in Up => Live(d) BY <1>a DEF Live, Born
  <2>3. sessions[a] = None
    <3>1. sessions[a] \in Conns \cup {None} BY <1>0 DEF TypeOK
    <3> QED BY <1>0, <2>1, <2>2, <3>1 DEF SessionPerConnection
  <2>4. sessions' = [sessions EXCEPT ![a] = c] BY <2>1, <2>3
  <2>5. /\ state'[c] = "kConnected" /\ addr'[c] = a /\ sessions'[a] = c
        /\ \A d \in Conns : d # c => state'[d] = state[d] /\ addr'[d] = addr[d]
        /\ \A b \in Addrs : b # a => sessions'[b] = sessions[b]
    BY <1>0, <2>1, <2>4 DEF TypeOK
  <2>6. \A d \in Conns : state'[d] \in Up => sessions'[addr'[d]] = d
    <3> SUFFICES ASSUME NEW d \in Conns, state'[d] \in Up PROVE sessions'[addr'[d]] = d
      OBVIOUS
    <3>1. CASE d = c BY <2>5, <3>1
    <3>2. CASE d # c
      <4>1. state[d] \in Up /\ addr[d] # a /\ addr[d] \in Addrs BY <1>a, <2>1, <2>2, <2>5, <3>2
      <4> QED BY <1>0, <2>5, <3>2, <4>1 DEF SessionPerConnection
    <3> QED BY <3>1, <3>2
  <2>7. \A b \in Addrs :
          sessions'[b] # None => state'[sessions'[b]] \in Up /\ addr'[sessions'[b]] = b
    <3> SUFFICES ASSUME NEW b \in Addrs, sessions'[b] # None
                 PROVE  state'[sessions'[b]] \in Up /\ addr'[sessions'[b]] = b
      OBVIOUS
    <3>1. CASE b = a BY <2>5, <3>1 DEF Up
    <3>2. CASE b # a
      <4>1. sessions'[b] = sessions[b] /\ sessions[b] \in Conns BY <1>0, <2>5, <3>2 DEF TypeOK
      <4>2. state[sessions[b]] \in Up /\ addr[sessions[b]] = b
        BY <1>0, <4>1 DEF SessionPerConnection
      <4>3. sessions[b] # c BY <2>1, <4>2 DEF Up
      <4> QED BY <2>5, <4>1, <4>2, <4>3
    <3> QED BY <3>1, <3>2
  <2> QED BY <2>6, <2>7 DEF SessionPerConnection
<1>2. ASSUME NEW c \in Conns, Refuse(c) \/ PeerConnects(c) PROVE SessionPerConnection'
  <2>1. UNCHANGED <<addr, sessions>> BY <1>2 DEF Refuse, PeerConnects
  <2>2. \/ UNCHANGED state
        \/ state[c] = "waiting" /\ state' = [state EXCEPT ![c] = "refused"]
        \/ state[c] = "none" /\ state' = [state EXCEPT ![c] = "waiting"]
    BY <1>2 DEF Refuse, PeerConnects
  <2>3. \A d \in Conns : state'[d] \in Up <=> state[d] \in Up BY <1>0, <2>2 DEF TypeOK, Up
  <2>4. \A b \in Addrs : sessions[b] \in Conns \cup {None} BY <1>0 DEF TypeOK
  <2> QED BY <1>0, <2>1, <2>3, <2>4 DEF SessionPerConnection
<1>3. ASSUME NEW c \in Conns, CloseStep(c) PROVE SessionPerConnection'
  <2>1. state[c] \in Up /\ addr[c] \in Addrs /\ sessions[addr[c]] = c
    BY <1>0, <1>3, <1>a DEF CloseStep, SessionPerConnection
  <2>2. /\ addr' = addr /\ state'[c] = "kDisconnected"
        /\ \A d \in Conns : d # c => state'[d] = state[d]
        /\ sessions' = [sessions EXCEPT ![addr[c]] = None]
    BY <1>3, CloseEffect DEF CloseStep
  <2>3. sessions'[addr[c]] = None /\ \A b \in Addrs : b # addr[c] => sessions'[b] = sessions[b]
    BY <1>0, <2>1, <2>2 DEF TypeOK
  <2>4. \A d \in Conns : state'[d] \in Up => sessions'[addr'[d]] = d
    <3> SUFFICES ASSUME NEW d \in Conns, state'[d] \in Up PROVE sessions'[addr[d]] = d
      BY <2>2
    <3>1. d # c BY <2>2 DEF Up
    <3>2. state[d] \in Up /\ addr[d] \in Addrs /\ sessions[addr[d]] = d
      BY <1>0, <1>a, <2>2, <3>1 DEF SessionPerConnection
    <3> QED BY <2>1, <2>3, <3>1, <3>2
  <2>5. \A b \in Addrs :
          sessions'[b] # None => state'[sessions'[b]] \in Up /\ addr'[sessions'[b]] = b
    <3> SUFFICES ASSUME NEW b \in Addrs, sessions'[b] # None
                 PROVE  state'[sessions'[b]] \in Up /\ addr'[sessions'[b]] = b
      OBVIOUS
    <3>1. b # addr[c] /\ sessions'[b] = sessions[b] BY <2>3
    <3>2. sessions[b] \in Conns /\ state[sessions[b]] \in Up /\ addr[sessions[b]] = b
      BY <1>0, <3>1 DEF SessionPerConnection, TypeOK
    <3>3. sessions[b] # c BY <3>1, <3>2
    <3> QED BY <2>2, <3>1, <3>2, <3>3
  <2> QED BY <2>4, <2>5 DEF SessionPerConnection
<1>4. ASSUME NEW c \in Conns, ProcessFails(c) PROVE SessionPerConnection'
  <2>1. UNCHANGED <<addr, sessions>> BY <1>4 DEF ProcessFails
  <2>2. \/ UNCHANGED state
        \/ state[c] \in Up /\ state' = [state EXCEPT ![c] = "kDisconnecting"]
    BY <1>4 DEF ProcessFails
  <2>3. \A d \in Conns : state'[d] \in Up <=> state[d] \in Up BY <1>0, <2>2 DEF TypeOK, Up
  <2>4. \A b \in Addrs : sessions[b] \in Conns \cup {None} BY <1>0 DEF TypeOK
  <2> QED BY <1>0, <2>1, <2>3, <2>4 DEF SessionPerConnection
<1>5. CASE UNCHANGED <<state, addr, sessions>>
  BY <1>0, <1>5 DEF SessionPerConnection
<1> QED BY <1>1, <1>2, <1>3, <1>4, <1>5, StepCases
        DEF Send, StageWrite, ConnectDestroyed, connVars

\* One step fails no assert and calls no session that is gone.
LEMMA AbortStep ==
  ASSUME ServerInv, [Next]_vars
  PROVE  NoAbort'
<1> SUFFICES ~aborted' BY DEF NoAbort
<1>0. ~aborted BY DEF ServerInv, NoAbort
<1>1. ASSUME NEW c \in Conns, HandleEvent(c) PROVE ~aborted'
  <2>1. state[c] \in Up
    BY <1>1, NoneAssumption DEF HandleEvent, ServerInv, EventInv, Event
  <2> QED BY <1>0, <1>1, <2>1, CloseEffect DEF HandleEvent, StageClose
<1>2. ASSUME NEW c \in Conns, ReadEof(c) PROVE ~aborted'
  <2>1. state[c] \in Up BY <1>2 DEF ReadEof, ServerInv, EventInv, Event
  <2> QED BY <1>2, <2>1, CloseEffect DEF ReadEof
<1>3. CASE ForceCloseInLoop
  <2>1. Head(functors).conn \in Conns BY <1>3, HeadFacts DEF ForceCloseInLoop
  <2> QED BY <1>0, <1>3, <2>1, CloseEffect DEF ForceCloseInLoop
<1>4. ASSUME NEW c \in Conns, ReadMessage(c) PROVE ~aborted'
  <2>1. state[c] \in Up BY <1>4 DEF ReadMessage, ServerInv, EventInv, Event
  <2>2. addr[c] \in Addrs /\ sessions[addr[c]] = c
    BY <2>1 DEF ServerInv, LifeInv, Life, SessionPerConnection
  <2> QED BY <1>0, <1>4, <2>2 DEF ReadMessage, SessionAlive
<1>5. CASE ConnectDestroyed
  <2>1. LET c == Head(functors).conn IN
          state[c] = "kDisconnected" /\ index[c] = "kDeleted" /\ events[c] = {}
    BY <1>5, HeadFacts DEF ConnectDestroyed
  <2> QED BY <1>0, <1>5, <2>1 DEF ConnectDestroyed, RemoveChannel
<1>6. CASE UNCHANGED aborted BY <1>0, <1>6
<1> QED BY <1>1, <1>2, <1>3, <1>4, <1>5, <1>6
        DEF Next, LoopStep, ConnStep, ReadStep, MessageStep, NewConnection, Refuse, Poll, ReadNothing,
            Send, ProcessFails, ProcessSucceeds, StageWrite, WriteNothing, DoPendingFunctors,
            PeerConnects, OtherCloses, PeerCloses, vars

-----------------------------------------------------------------------------
(* The theorems *)

\* ServerInv holds from the start of the server on.
THEOREM ServerInvariant == Spec => []ServerInv
<1>1. Init => ServerInv
  <2> SUFFICES ASSUME Init PROVE ServerInv OBVIOUS
  <2>1. << >> \in Seq(Functor) /\ << >> \in Seq(Nat) /\ \A n : << >> \in Seq(1 .. n) OBVIOUS
  <2>2. \A c \in Conns : MaxMessages[c] \in Nat BY MessagesAssumption
  <2>3. [sessionOwns |-> sessionOwns, limit |-> limit] \in Servers
    <3>1. PICK s \in Servers : sessionOwns = s.sessionOwns /\ limit = s.limit BY DEF Init
    <3>2. s = [sessionOwns |-> s.sessionOwns, limit |-> s.limit] BY ServersAssumption
    <3> QED BY <3>1, <3>2
  <2>4. \A c \in Conns : /\ output[c] \in Seq(1 .. MaxMessages[c])
                         /\ wire[c] \in Seq(1 .. MaxMessages[c])
                         /\ sent[c] \in 0 .. MaxMessages[c]
    BY <2>1, <2>2 DEF Init
  <2>5. TypeOK BY <2>1, <2>3, <2>4 DEF Init, TypeOK
  <2>6. OutInv BY <2>1 DEF Init, OutInv
  <2>7. LifeInv BY DEF Init, LifeInv, Life, Up, Born
  <2>8. EventInv BY NoneAssumption DEF Init, EventInv, Event
  <2>9. QueueInv BY DEF Init, QueueInv, Queued, DestroysOnce, Destroys
  <2>10. ShutInv BY DEF Init, ShutInv
  <2>11. SessionPerConnection BY DEF Init, SessionPerConnection, Up
  <2>12. NoAbort BY DEF Init, NoAbort
  <2> QED BY <2>5, <2>6, <2>7, <2>8, <2>9, <2>10, <2>11, <2>12 DEF ServerInv
<1>2. ServerInv /\ [Next]_vars => ServerInv'
  <2> SUFFICES ASSUME ServerInv, [Next]_vars PROVE ServerInv' OBVIOUS
  <2>1. TypeOK' /\ OutInv' BY TypeStep DEF ServerInv
  <2> QED BY <2>1, LifeStep, EventStep, QueueStep, ShutStep, SessionStep, AbortStep DEF ServerInv
<1> QED BY <1>1, <1>2, PTL DEF Spec

\* However hangups, ends of stream, forced closes and queued functors mix, with
\* any number of connections and any reuse of addresses: no assert of
\* TcpConnection, TcpServer, Channel or EPollPoller fails and no message goes to
\* a session that is gone.
THEOREM NoAssertFails == Spec => []NoAbort
<1>1. ServerInv => NoAbort BY DEF ServerInv
<1> QED BY <1>1, ServerInvariant, PTL

\* The registry of IMServer and FileServer holds exactly one session for every
\* connection that is up, under its own address.
THEOREM OneSessionEach == Spec => []SessionPerConnection
<1>1. ServerInv => SessionPerConnection BY DEF ServerInv
<1> QED BY <1>1, ServerInvariant, PTL

\* State, channel, poller and outputBuffer_ agree after every update.
THEOREM ChannelsAgree == Spec => []ChannelsConsistent
<1>1. ServerInv => ChannelsConsistent
  <2> SUFFICES ASSUME ServerInv PROVE ChannelsConsistent OBVIOUS
  <2>1. OutputIsPolled BY DEF ServerInv, LifeInv, Life, OutputIsPolled
  <2>2. PollerConsistent
    <3> SUFFICES ASSUME NEW c \in Conns PROVE index[c] = "kAdded" <=> events[c] # {}
      BY DEF PollerConsistent
    <3>1. state[c] \in {"none", "waiting", "refused"} \cup Born BY DEF ServerInv, TypeOK
    <3>2. Life(c) BY DEF ServerInv, LifeInv
    <3> QED BY <3>1, <3>2 DEF Life, Up, Born
  <2> QED BY <2>1, <2>2 DEF ServerInv, ChannelsConsistent
<1> QED BY <1>1, ServerInvariant, PTL

\* When the last shared_ptr to a connection goes, the destructors of
\* TcpConnection and Channel find what they assert.
THEOREM DestructorsFindOrder == Spec => []DestroyedCleanly
<1>1. ServerInv => DestroyedCleanly
  <2> SUFFICES ASSUME ServerInv, NEW c \in Conns, state[c] \in Born, ~Live(c)
               PROVE  state[c] = "kDisconnected" /\ index[c] = "kNew" /\ revents[c] = {}
    BY DEF DestroyedCleanly
  <2>1. /\ c \notin connections /\ current # c
        /\ \A i \in DOMAIN pending : pending[i].conn # c
        /\ \A i \in DOMAIN functors : functors[i].conn # c
    BY DEF Live
  <2>2. state[c] = "kDisconnected" BY <2>1 DEF ServerInv, LifeInv, Life, Born
  <2>3. index[c] # "kAdded" BY <2>2 DEF ServerInv, LifeInv, Life
  <2>4. ~Destroys(pending, c) /\ ~Destroys(functors, c) BY <2>1 DEF Destroys
  <2>5. index[c] # "kDeleted" BY <2>4 DEF ServerInv, QueueInv, Queued
  <2>6. index[c] \in {"kNew", "kAdded", "kDeleted"} BY DEF ServerInv, TypeOK
  <2>7. revents[c] = {} BY <2>1, <2>2 DEF ServerInv, EventInv, Event, Up
  <2> QED BY <2>2, <2>3, <2>5, <2>6, <2>7
<1> QED BY <1>1, ServerInvariant, PTL

\* Nothing is written to a socket after handleClose or after shutdownWrite.
THEOREM ClosedMeansSilent == Spec => NoWriteAfterClose
<1>1. ServerInv /\ [Next]_vars
        => [\A c \in Conns : wire'[c] # wire[c] => state[c] \in Up /\ c \notin shut]_vars
  <2> SUFFICES ASSUME ServerInv, [Next]_vars, NEW d \in Conns, wire'[d] # wire[d]
               PROVE  state[d] \in Up /\ d \notin shut
    OBVIOUS
  <2>0. TypeOK /\ OutInv /\ ShutInv BY DEF ServerInv
  <2>1. ASSUME NEW c \in Conns, Send(c) PROVE state[d] \in Up /\ d \notin shut
    <3>1. wire' \in {wire, [wire EXCEPT ![c] = Append(@, sent[c] + 1)]} /\ state[c] = "kConnected"
      BY <2>1 DEF Send
    <3>2. d = c BY <2>0, <3>1 DEF OutInv
    <3> QED BY <2>0, <3>1, <3>2 DEF ShutInv, Up
  <2>2. ASSUME NEW c \in Conns, StageWrite(c) PROVE state[d] \in Up /\ d \notin shut
    <3>1. PICK n \in 1 .. Len(output[c]) :
            wire' = [wire EXCEPT ![c] = @ \o SubSeq(output[c], 1, n)]
      BY <2>2 DEF StageWrite
    <3>2. d = c BY <2>0, <3>1 DEF OutInv
    <3>3. output[c] \in Seq(Nat) /\ output[c] # << >> BY <2>0, <3>1 DEF OutInv
    <3>4. d \notin shut BY <2>0, <3>2, <3>3 DEF ShutInv
    <3>5. "write" \in events[c] BY <2>2 DEF StageWrite
    <3>6. state[c] \in {"none", "waiting", "refused"} \cup Born BY <2>0 DEF TypeOK
    <3>7. state[c] \in Up BY <3>5, <3>6 DEF ServerInv, LifeInv, Life, Up, Born
    <3> QED BY <3>2, <3>4, <3>7
  <2>3. CASE UNCHANGED wire BY <2>3
  <2> QED BY <2>1, <2>2, <2>3, StepCases
          DEF NewConnection, Refuse, PeerConnects, CloseStep, ProcessFails, ConnectDestroyed, outVars
<1> QED BY <1>1, ServerInvariant, PTL DEF Spec, NoWriteAfterClose

-----------------------------------------------------------------------------
(* The order of replies *)

\* s increases and does not go beyond m.
Ordered(s, m) ==
  /\ \A i, j \in DOMAIN s : i < j => s[i] < s[j]
  /\ \A i \in DOMAIN s : s[i] <= m

\* Messages on the wire and in outputBuffer_ increase up to the last one sent.
OrderInv == \A c \in Conns : Ordered(wire[c] \o output[c], sent[c])

\* The next message is larger than all before it.
LEMMA OrderedAppend ==
  ASSUME NEW s \in Seq(Nat), NEW m \in Nat, Ordered(s, m)
  PROVE  Ordered(s, m + 1) /\ Ordered(Append(s, m + 1), m + 1)
<1> DEFINE t == Append(s, m + 1)
<1>1. /\ DOMAIN s = 1..Len(s) /\ Len(s) \in Nat /\ DOMAIN t = 1..(Len(s) + 1)
      /\ \A i \in 1..Len(s) : t[i] = s[i] /\ s[i] \in Nat
      /\ t[Len(s) + 1] = m + 1
  BY AppendProperties
<1> HIDE DEF t
<1>2. Ordered(s, m + 1) BY <1>1 DEF Ordered
<1>3. Ordered(t, m + 1)
  <2>1. \A i \in DOMAIN t : i \in DOMAIN s \/ i = Len(s) + 1 BY <1>1
  <2>2. ASSUME NEW i \in DOMAIN t PROVE t[i] <= m + 1
    <3>1. CASE i \in DOMAIN s
      <4>1. s[i] <= m /\ s[i] \in Nat /\ t[i] = s[i] BY <1>1, <3>1 DEF Ordered
      <4> QED BY <4>1
    <3>2. CASE i = Len(s) + 1 BY <1>1, <3>2
    <3> QED BY <2>1, <3>1, <3>2
  <2>3. ASSUME NEW i \in DOMAIN t, NEW j \in DOMAIN t, i < j PROVE t[i] < t[j]
    <3>1. i \in DOMAIN s BY <1>1, <2>3
    <3>2. CASE j \in DOMAIN s BY <1>1, <2>3, <3>1, <3>2 DEF Ordered
    <3>3. CASE j = Len(s) + 1 BY <1>1, <3>1, <3>3 DEF Ordered
    <3> QED BY <2>1, <3>2, <3>3
  <2> QED BY <2>2, <2>3 DEF Ordered
<1> QED BY <1>2, <1>3 DEF t

\* A message sent directly, or queued, comes after all others.
LEMMA SendAppends ==
  ASSUME NEW w \in Seq(Nat), NEW o \in Seq(Nat), NEW x \in Nat
  PROVE  /\ w \o Append(o, x) = Append(w \o o, x)
         /\ o = << >> => Append(w, x) \o o = Append(w \o o, x)
<1>1. w \o o \in Seq(Nat) /\ << x >> \in Seq(Nat) BY ConcatProperties
<1>2. /\ Append(o, x) = o \o << x >>
      /\ Append(w \o o, x) = (w \o o) \o << x >>
  BY <1>1, AppendIsConcat
<1>3. w \o Append(o, x) = Append(w \o o, x) BY <1>1, <1>2, ConcatAssociative
<1>4. ASSUME o = << >> PROVE Append(w, x) \o o = Append(w \o o, x)
  <2>1. Append(w, x) \in Seq(Nat) BY AppendProperties
  <2> QED BY <1>4, <2>1, ConcatEmptySeq
<1> QED BY <1>3, <1>4

Three(S, x, y, z) == x \in Seq(S) /\ y \in Seq(S) /\ z \in Seq(S)

\* Concatenation is associative, to be instantiated term by term.
LEMMA Associative ==
  ASSUME NEW S, NEW x, NEW y, NEW z, Three(S, x, y, z)
  PROVE  (x \o y) \o z = x \o (y \o z)
BY ConcatAssociative DEF Three

\* A partial write moves messages from the front of the buffer to the wire.
LEMMA WriteMoves ==
  ASSUME NEW w \in Seq(Nat), NEW o \in Seq(Nat), NEW n \in 0 .. Len(o)
  PROVE  (w \o SubSeq(o, 1, n)) \o SubSeq(o, n + 1, Len(o)) = w \o o
<1>1. SubSeq(o, 1, n) \in Seq(Nat) /\ SubSeq(o, n + 1, Len(o)) \in Seq(Nat) BY SplitTypes
<1>2. SubSeq(o, 1, n) \o SubSeq(o, n + 1, Len(o)) = SubSeq(o, 1, Len(o))
  <2>1. /\ Len(o) \in Nat /\ 1 \in 1 .. Len(o) + 1 /\ n \in 1 - 1 .. Len(o)
        /\ Len(o) \in n .. Len(o)
    OBVIOUS
  <2> QED BY <2>1, ConcatAdjacentSubSeq
<1>3. SubSeq(o, 1, Len(o)) = o BY SubSeqFull
<1>4. Three(Nat, w, SubSeq(o, 1, n), SubSeq(o, n + 1, Len(o))) BY <1>1 DEF Three
<1>5. (w \o SubSeq(o, 1, n)) \o SubSeq(o, n + 1, Len(o))
        = w \o (SubSeq(o, 1, n) \o SubSeq(o, n + 1, Len(o)))
  <2> DEFINE p == SubSeq(o, 1, n)
             q == SubSeq(o, n + 1, Len(o))
  <2> HIDE DEF p, q
  <2>1. Three(Nat, w, p, q) BY <1>4 DEF p, q
  <2>2. (w \o p) \o q = w \o (p \o q) BY <2>1, Associative
  <2> QED BY <2>2 DEF p, q
<1> QED BY <1>2, <1>3, <1>5

\* One step keeps the order.
LEMMA OrderStep ==
  ASSUME ServerInv, OrderInv, [Next]_vars
  PROVE  OrderInv'
<1>0. OutInv BY DEF ServerInv
<1>a. \A c \in Conns : /\ wire[c] \in Seq(Nat) /\ output[c] \in Seq(Nat) /\ sent[c] \in Nat
                       /\ wire[c] \o output[c] \in Seq(Nat)
  BY <1>0, ConcatProperties DEF OutInv
<1> SUFFICES ASSUME NEW d \in Conns PROVE Ordered(wire'[d] \o output'[d], sent'[d])
  BY DEF OrderInv
<1>b. Ordered(wire[d] \o output[d], sent[d]) BY DEF OrderInv
<1>1. ASSUME NEW c \in Conns, Send(c) PROVE Ordered(wire'[d] \o output'[d], sent'[d])
  <2>1. sent' = [sent EXCEPT ![c] = @ + 1] BY <1>1 DEF Send
  <2>2. \/ UNCHANGED <<wire, output>>
        \/ output[c] = << >> /\ UNCHANGED output
             /\ wire' = [wire EXCEPT ![c] = Append(@, sent[c] + 1)]
        \/ output' = [output EXCEPT ![c] = Append(@, sent[c] + 1)] /\ UNCHANGED wire
    BY <1>1 DEF Send
  <2>3. CASE d # c
    <3>1. wire'[d] = wire[d] /\ output'[d] = output[d] /\ sent'[d] = sent[d]
      BY <1>0, <2>1, <2>2, <2>3 DEF OutInv
    <3> QED BY <1>b, <3>1
  <2>4. CASE d = c
    <3>1. sent'[d] = sent[d] + 1 BY <1>0, <2>1, <2>4 DEF OutInv
    <3>2. \/ wire'[d] \o output'[d] = wire[d] \o output[d]
          \/ wire'[d] \o output'[d] = Append(wire[d] \o output[d], sent[d] + 1)
      <4>1. CASE UNCHANGED <<wire, output>> BY <4>1
      <4>2. CASE output[c] = << >> /\ UNCHANGED output
                   /\ wire' = [wire EXCEPT ![c] = Append(@, sent[c] + 1)]
        <5>1. /\ wire'[d] = Append(wire[d], sent[d] + 1)
              /\ output'[d] = output[d] /\ output[d] = << >>
          BY <1>0, <2>4, <4>2 DEF OutInv
        <5> QED BY <1>a, <5>1, SendAppends
      <4>3. CASE output' = [output EXCEPT ![c] = Append(@, sent[c] + 1)] /\ UNCHANGED wire
        <5>1. wire'[d] = wire[d] /\ output'[d] = Append(output[d], sent[d] + 1)
          BY <1>0, <2>4, <4>3 DEF OutInv
        <5>2. sent[d] + 1 \in Nat /\ wire[d] \in Seq(Nat) /\ output[d] \in Seq(Nat) BY <1>a
        <5>3. wire[d] \o Append(output[d], sent[d] + 1) = Append(wire[d] \o output[d], sent[d] + 1)
          BY <5>2, SendAppends
        <5> QED BY <5>1, <5>3
      <4> QED BY <2>2, <4>1, <4>2, <4>3
    <3> QED BY <1>a, <1>b, <3>1, <3>2, OrderedAppend
  <2> QED BY <2>3, <2>4
<1>2. ASSUME NEW c \in Conns, StageWrite(c) PROVE Ordered(wire'[d] \o output'[d], sent'[d])
  <2>1. PICK n \in 1 .. Len(output[c]) :
          /\ wire' = [wire EXCEPT ![c] = @ \o SubSeq(output[c], 1, n)]
          /\ output' = [output EXCEPT ![c] = SubSeq(@, n + 1, Len(@))]
    BY <1>2 DEF StageWrite
  <2>2. UNCHANGED sent BY <1>2 DEF StageWrite
  <2>3. CASE d # c
    <3>1. wire'[d] = wire[d] /\ output'[d] = output[d]
      BY <1>0, <2>1, <2>3 DEF OutInv
    <3> QED BY <1>b, <2>2, <3>1
  <2>4. CASE d = c
    <3>1. /\ wire'[d] = wire[d] \o SubSeq(output[d], 1, n)
          /\ output'[d] = SubSeq(output[d], n + 1, Len(output[d]))
      BY <1>0, <2>1, <2>4 DEF OutInv
    <3>2. n \in 0 .. Len(output[d]) BY <1>a, <2>4
    <3>3. (wire[d] \o SubSeq(output[d], 1, n)) \o SubSeq(output[d], n + 1, Len(output[d]))
            = wire[d] \o output[d]
      <4>1. wire[d] \in Seq(Nat) /\ output[d] \in Seq(Nat) BY <1>a
      <4> QED BY <3>2, <4>1, WriteMoves
    <3> QED BY <1>b, <2>2, <3>1, <3>3
  <2> QED BY <2>3, <2>4
<1>3. CASE UNCHANGED <<wire, output, sent>> BY <1>3, <1>b
<1> QED BY <1>1, <1>2, <1>3, StepCases
        DEF NewConnection, Refuse, PeerConnects, CloseStep, ProcessFails, ConnectDestroyed, outVars

\* Replies reach the kernel in the order send() was called, with partial writes,
\* refused writes and direct writes in any mixture.
THEOREM RepliesStayInOrder == Spec => []RepliesInOrder
<1>1. Init => OrderInv
  <2> SUFFICES ASSUME Init, NEW c \in Conns PROVE Ordered(wire[c] \o output[c], sent[c])
    BY DEF OrderInv
  <2>1. wire[c] \o output[c] = << >> BY DEF Init
  <2> QED BY <2>1 DEF Ordered
<1>2. ServerInv /\ OrderInv /\ [Next]_vars => OrderInv' BY OrderStep
<1>3. OrderInv => RepliesInOrder BY DEF OrderInv, Ordered, RepliesInOrder
<1> QED BY <1>1, <1>2, <1>3, ServerInvariant, PTL DEF Spec

=============================================================================
