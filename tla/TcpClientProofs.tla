-------------------------- MODULE TcpClientProofs --------------------------
(***************************************************************************)
(* Proofs about TcpClient, for any number of descriptors and any delays.   *)
(*                                                                         *)
(* That there is one attempt at a time is not what any function of         *)
(* Connector checks; it follows from where each attempt can come from.     *)
(* The invariant says it of the functors in the queue (each startInLoop,   *)
(* resetChannel and connectDestroyed waits once), of the moment            *)
(* removeConnection may decide to restart (no resetChannel waits then,     *)
(* because the round that queued it is over), and of connect_, which a     *)
(* stop() that was not overtaken leaves false.                             *)
(***************************************************************************)
EXTENDS TcpClient, TLAPS, SequenceTheorems

Functors == {"start", "stop", "reset", "destroy"} \X (0..NumFds)

\* A functor for op waits in q.
Has(q, op) == \E i \in DOMAIN q : q[i][1] = op

\* The descriptors the connectDestroyed functors of q close.
DyingIn(q) == {q[i][2] : i \in {j \in DOMAIN q : q[j][1] = "destroy"}}

\* Only connectDestroyed has a descriptor, and but for stopInLoop nothing is
\* queued twice.
Distinct(q) ==
  /\ \A i \in DOMAIN q : q[i][2] # 0 <=> q[i][1] = "destroy"
  /\ \A i, j \in DOMAIN q : q[i] = q[j] /\ q[i][1] # "stop" => i = j

\* What each of the places an attempt starts from may rely on.
AttemptInv ==
  /\ upc = "new" => /\ functors = << >> /\ timer = 0 /\ ~polled /\ channel = 0
                    /\ state = "disconnected" /\ ~restarting
  /\ Has(functors, "start") => state = "disconnected"
  /\ restarting => state = "connected" /\ connection = 0

\* A resetChannel left by the attempt the connection came from runs with the
\* functors of its own round.
ResetInv ==
  connection # 0 /\ ~fresh => \A i \in DOMAIN functors : functors[i][1] = "reset" => i <= batch

\* stop() holds connect_ down.
StopInv == upc = "stopped" /\ ~stopLost => ~connect

\* FdsOwned, OneAttempt and StopHolds, said with Has and DyingIn.
OwnedInv ==
  /\ openFds = (IF polled THEN {channel} ELSE {}) \union ({connection} \ {0})
               \union DyingIn(functors)
  /\ polled => channel \notin DyingIn(functors) \union {connection}
  /\ connection \notin DyingIn(functors)
  /\ ~doubleClose

OneInv ==
  /\ polled <=> state = "connecting"
  /\ connection # 0 => state = "connected"
  /\ timer <= 1
  /\ timer = 1 => state = "disconnected"
  /\ (Has(functors, "start") \/ restarting) => timer = 0 /\ ~polled /\ channel = 0
  /\ (channel # 0 /\ ~polled) <=> Has(functors, "reset")

HeldInv == upc = "stopped" /\ ~stopLost /\ ~Has(functors, "stop") => ~polled

ClientInv ==
  /\ TypeOK /\ OwnedInv /\ OneInv
  /\ Distinct(functors) /\ AttemptInv /\ ResetInv
  /\ StopInv /\ HeldInv

-----------------------------------------------------------------------------
(* The queue of functors *)

\* What queueInLoop does to it.
LEMMA AppendFacts ==
  ASSUME NEW q \in Seq(Functors), NEW e \in Functors
  PROVE  /\ Append(q, e) \in Seq(Functors) /\ Len(Append(q, e)) = Len(q) + 1
         /\ \A op : Has(Append(q, e), op) <=> (Has(q, op) \/ e[1] = op)
         /\ e[1] # "destroy" => DyingIn(Append(q, e)) = DyingIn(q)
         /\ e[1] = "destroy" => DyingIn(Append(q, e)) = DyingIn(q) \union {e[2]}
         /\ (/\ Distinct(q)
             /\ e[2] # 0 <=> e[1] = "destroy"
             /\ e[1] = "destroy" => e[2] \notin DyingIn(q)
             /\ e[1] \in {"start", "reset"} => ~Has(q, e[1])) => Distinct(Append(q, e))
<1> DEFINE t == Append(q, e)
<1>1. /\ t \in Seq(Functors) /\ Len(t) = Len(q) + 1 /\ Len(q) \in Nat
      /\ DOMAIN q = 1..Len(q) /\ DOMAIN t = 1..(Len(q) + 1)
      /\ \A i \in 1..Len(q) : t[i] = q[i]
      /\ t[Len(q) + 1] = e
  BY AppendProperties
<1>2. \A i \in DOMAIN q : q[i] \in Functors BY <1>1
<1> HIDE DEF t
<1>3. DOMAIN t = DOMAIN q \union {Len(q) + 1} /\ Len(q) + 1 \notin DOMAIN q BY <1>1
<1>4. \A op : Has(t, op) <=> (Has(q, op) \/ e[1] = op) BY <1>1, <1>3 DEF Has
<1>5. /\ e[1] # "destroy" => DyingIn(t) = DyingIn(q)
      /\ e[1] = "destroy" => DyingIn(t) = DyingIn(q) \union {e[2]}
  BY <1>1, <1>3 DEF DyingIn
<1>6. ASSUME Distinct(q), e[2] # 0 <=> e[1] = "destroy",
             e[1] = "destroy" => e[2] \notin DyingIn(q),
             e[1] \in {"start", "reset"} => ~Has(q, e[1])
      PROVE  Distinct(t)
  <2>1. \A i \in DOMAIN t : t[i][2] # 0 <=> t[i][1] = "destroy"
    BY <1>1, <1>3, <1>6 DEF Distinct
  <2>2. e[1] \in {"start", "stop", "reset", "destroy"} BY DEF Functors
  <2>3. ASSUME NEW i \in DOMAIN q, q[i] = e, e[1] # "stop" PROVE FALSE
    BY <1>6, <2>2, <2>3 DEF Has, DyingIn
  <2>4. \A i, j \in DOMAIN t : t[i] = t[j] /\ t[i][1] # "stop" => i = j
    BY <1>1, <1>3, <1>6, <2>3 DEF Distinct
  <2> QED BY <2>1, <2>4 DEF Distinct
<1> QED BY <1>1, <1>4, <1>5, <1>6 DEF t

\* What taking the next functor of a batch does to it.
LEMMA TailFacts ==
  ASSUME NEW q \in Seq(Functors), q # << >>, Distinct(q)
  PROVE  /\ Tail(q) \in Seq(Functors) /\ Len(Tail(q)) = Len(q) - 1 /\ Len(q) \in Nat \ {0}
         /\ Head(q) \in Functors /\ Has(q, Head(q)[1])
         /\ \A i \in DOMAIN Tail(q) : i + 1 \in DOMAIN q /\ Tail(q)[i] = q[i + 1]
         /\ \A op : /\ Has(Tail(q), op) => Has(q, op)
                    /\ op # Head(q)[1] /\ Has(q, op) => Has(Tail(q), op)
         /\ Head(q)[1] \in {"start", "reset"} => ~Has(Tail(q), Head(q)[1])
         /\ Head(q)[1] # "destroy" => DyingIn(Tail(q)) = DyingIn(q)
         /\ Head(q)[1] = "destroy" => /\ Head(q)[2] \in DyingIn(q)
                                      /\ DyingIn(Tail(q)) = DyingIn(q) \ {Head(q)[2]}
         /\ Distinct(Tail(q))
<1> DEFINE t == Tail(q)
           h == Head(q)
<1>1. /\ t \in Seq(Functors) /\ Len(t) = Len(q) - 1 /\ Len(q) \in Nat \ {0}
      /\ h = q[1] /\ h \in Functors
      /\ DOMAIN q = 1..Len(q) /\ DOMAIN t = 1..(Len(q) - 1)
      /\ \A i \in 1..(Len(q) - 1) : t[i] = q[i + 1]
  BY HeadTailProperties
<1> HIDE DEF t, h
<1>2. \A i \in DOMAIN t : i + 1 \in DOMAIN q /\ t[i] = q[i + 1] /\ i + 1 # 1 BY <1>1
<1>3. \A j \in DOMAIN q : j = 1 \/ (j - 1 \in DOMAIN t /\ t[j - 1] = q[j]) BY <1>1
<1>4. 1 \in DOMAIN q BY <1>1
<1>5. \A op : /\ Has(t, op) => Has(q, op)
              /\ op # h[1] /\ Has(q, op) => Has(t, op)
  BY <1>1, <1>2, <1>3 DEF Has
<1>6. Has(q, h[1]) BY <1>1, <1>4 DEF Has
<1>7. \A i \in DOMAIN q : q[i] = <<q[i][1], q[i][2]>> BY <1>1 DEF Functors
<1>8. \A i \in DOMAIN t : t[i] = h => h[1] = "stop" BY <1>1, <1>2, <1>4 DEF Distinct
<1>9. h[1] \in {"start", "reset"} => ~Has(t, h[1])
  <2> SUFFICES ASSUME h[1] \in {"start", "reset"}, NEW i \in DOMAIN t, t[i][1] = h[1]
               PROVE  FALSE
    BY DEF Has
  <2>1. t[i][2] = 0 /\ h[2] = 0 BY <1>1, <1>2, <1>4 DEF Distinct
  <2>2. t[i] = h BY <1>1, <1>2, <1>4, <1>7, <2>1
  <2> QED BY <1>8, <2>2
<1>10. h[1] # "destroy" => DyingIn(t) = DyingIn(q)
  <2> SUFFICES ASSUME h[1] # "destroy" PROVE DyingIn(t) = DyingIn(q) OBVIOUS
  <2>1. DyingIn(t) \subseteq DyingIn(q) BY <1>2 DEF DyingIn
  <2>2. DyingIn(q) \subseteq DyingIn(t) BY <1>1, <1>3 DEF DyingIn
  <2> QED BY <2>1, <2>2
<1>11. ASSUME h[1] = "destroy"
       PROVE  h[2] \in DyingIn(q) /\ DyingIn(t) = DyingIn(q) \ {h[2]}
  <2>1. h[2] \in DyingIn(q) BY <1>1, <1>4, <1>11 DEF DyingIn
  <2>2. DyingIn(t) \subseteq DyingIn(q) BY <1>2 DEF DyingIn
  <2>3. ASSUME NEW i \in DOMAIN t, t[i][1] = "destroy" PROVE t[i][2] # h[2]
    <3>1. t[i] = <<t[i][1], t[i][2]>> /\ h = <<h[1], h[2]>> BY <1>1, <1>2, <1>4, <1>7
    <3>2. t[i] # h BY <1>8, <1>11
    <3> QED BY <1>11, <2>3, <3>1, <3>2
  <2>4. DyingIn(q) \ {h[2]} \subseteq DyingIn(t) BY <1>1, <1>3 DEF DyingIn
  <2>5. h[2] \notin DyingIn(t) BY <2>3 DEF DyingIn
  <2> QED BY <2>1, <2>2, <2>4, <2>5
<1>12. Distinct(t)
  <2>1. \A i \in DOMAIN t : t[i][2] # 0 <=> t[i][1] = "destroy" BY <1>2 DEF Distinct
  <2>2. ASSUME NEW i \in DOMAIN t, NEW j \in DOMAIN t, t[i] = t[j], t[i][1] # "stop"
        PROVE  i = j
    <3>1. i + 1 = j + 1 BY <1>2, <2>2 DEF Distinct
    <3> QED BY <1>1, <3>1
  <2> QED BY <2>1, <2>2 DEF Distinct
<1> QED BY <1>1, <1>2, <1>5, <1>6, <1>9, <1>10, <1>11, <1>12 DEF t, h

-----------------------------------------------------------------------------
(* The steps *)

\* The first state.
LEMMA ClientInit == Init => ClientInv
<1> SUFFICES ASSUME Init PROVE ClientInv OBVIOUS
<1>1. functors = << >> /\ DOMAIN functors = {} BY DEF Init
<1>2. DyingIn(functors) = {} /\ Distinct(functors) /\ \A op : ~Has(functors, op)
  BY <1>1 DEF DyingIn, Distinct, Has
<1>3. TypeOK
  <2>1. functors \in Seq(Functors) /\ batch \in 0..Len(functors) BY <1>1 DEF Init
  <2>2. retryDelay \in InitDelay..MaxDelay BY ClientAssumption DEF Init
  <2>3. channel \in 0..NumFds /\ connection \in 0..NumFds BY ClientAssumption DEF Init
  <2> QED BY <2>1, <2>2, <2>3 DEF Init, TypeOK, Functors
<1> QED BY <1>1, <1>2, <1>3
        DEF Init, ClientInv, OwnedInv, OneInv, AttemptInv, ResetInv, StopInv, HeldInv

\* The scalars' types, and what the poller's channel is.
LEMMA Scalars ==
  ASSUME ClientInv
  PROVE  /\ functors \in Seq(Functors) /\ Len(functors) \in Nat
         /\ polled => channel \in Fds /\ channel \in openFds
         /\ connection # 0 => connection \in Fds /\ connection \in openFds
         /\ DyingIn(functors) \subseteq Fds
         /\ timer \in {0, 1}
         /\ 0 \notin Fds
<1>1. functors \in Seq(Functors) /\ Len(functors) \in Nat BY DEF ClientInv, TypeOK, Functors
<1>2. 0 \notin Fds BY ClientAssumption DEF Fds
<1>3. timer \in {0, 1} BY DEF ClientInv, TypeOK, OneInv
<1> QED BY <1>1, <1>2, <1>3 DEF ClientInv, TypeOK, OwnedInv

\* A failed attempt is put away and, if wanted, tried again later.
LEMMA FailureStep == ASSUME ClientInv, HandleFailure PROVE ClientInv'
<1> DEFINE e == <<"reset", 0>>
<1>1. e \in Functors /\ functors' = Append(functors, e)
  BY ClientAssumption DEF HandleFailure, RemoveAndResetChannel, QueueReset, Queue, Functors
<1>2. ~Has(functors, "reset") /\ polled /\ timer = 0
  BY Scalars DEF ClientInv, OneInv, HandleFailure
<1>3. /\ functors' \in Seq(Functors) /\ Len(functors') = Len(functors) + 1
      /\ \A op : Has(functors', op) <=> (Has(functors, op) \/ op = "reset")
      /\ DyingIn(functors') = DyingIn(functors)
      /\ Distinct(functors')
  BY <1>1, <1>2, Scalars, AppendFacts DEF ClientInv
<1>4. openFds' = openFds \ {channel} /\ doubleClose' = FALSE
  BY <1>2, Scalars DEF ClientInv, OwnedInv, HandleFailure, Retry, Close
<1>5. TypeOK'
  <2>1. functors' \in Seq(Functors) /\ batch' \in 0..Len(functors')
    BY <1>3, Scalars DEF ClientInv, TypeOK, HandleFailure
  <2>2. timer' \in Nat /\ retryDelay' \in InitDelay..MaxDelay
    BY ClientAssumption DEF ClientInv, TypeOK, HandleFailure, Retry
  <2> QED BY <1>4, <2>1, <2>2
          DEF ClientInv, TypeOK, HandleFailure, RemoveAndResetChannel, Retry, Functors
<1>6. OwnedInv'
  BY <1>2, <1>3, Scalars DEF ClientInv, OwnedInv, HandleFailure, RemoveAndResetChannel, Retry, Close
<1>7. OneInv'
  BY <1>2, <1>3, Scalars DEF ClientInv, OneInv, HandleFailure, RemoveAndResetChannel, Retry, Close
<1>8. AttemptInv' /\ ResetInv'
  BY <1>2, <1>3, Scalars
     DEF ClientInv, OneInv, AttemptInv, ResetInv, HandleFailure, RemoveAndResetChannel, Retry,
         Close, InLoop
<1>9. StopInv' /\ HeldInv'
  BY <1>3 DEF ClientInv, StopInv, HeldInv, HandleFailure, RemoveAndResetChannel
<1> QED BY <1>3, <1>5, <1>6, <1>7, <1>8, <1>9 DEF ClientInv

\* A finished attempt becomes the connection, or is closed.
LEMMA SuccessStep == ASSUME ClientInv, HandleSuccess PROVE ClientInv'
<1> DEFINE e == <<"reset", 0>>
<1>1. e \in Functors /\ functors' = Append(functors, e)
  BY ClientAssumption DEF HandleSuccess, RemoveAndResetChannel, QueueReset, Queue, Functors
<1>2. ~Has(functors, "reset") /\ polled /\ timer = 0 /\ connection = 0
  BY Scalars DEF ClientInv, OneInv, HandleSuccess
<1>3. /\ functors' \in Seq(Functors) /\ Len(functors') = Len(functors) + 1
      /\ \A op : Has(functors', op) <=> (Has(functors, op) \/ op = "reset")
      /\ DyingIn(functors') = DyingIn(functors)
      /\ Distinct(functors')
  BY <1>1, <1>2, Scalars, AppendFacts DEF ClientInv
<1>4. /\ doubleClose' = FALSE
      /\ \/ connection' = channel /\ openFds' = openFds
         \/ connection' = connection /\ openFds' = openFds \ {channel}
  <2>1. channel \in openFds /\ doubleClose = FALSE
    BY <1>2, Scalars DEF ClientInv, OwnedInv, TypeOK
  <2>2. CASE Wanted BY <2>1, <2>2 DEF HandleSuccess
  <2>3. CASE ~Wanted BY <2>1, <2>3 DEF HandleSuccess, Close
  <2> QED BY <2>2, <2>3
<1>5. TypeOK'
  <2>1. functors' \in Seq(Functors) /\ batch' \in 0..Len(functors')
    BY <1>3, Scalars DEF ClientInv, TypeOK, HandleSuccess
  <2> QED BY <1>4, <2>1
          DEF ClientInv, TypeOK, HandleSuccess, RemoveAndResetChannel, Functors
<1>6. OwnedInv'
  BY <1>2, <1>3, <1>4, Scalars DEF ClientInv, OwnedInv, HandleSuccess, RemoveAndResetChannel
<1>7. OneInv'
  BY <1>2, <1>3, Scalars DEF ClientInv, OneInv, HandleSuccess, RemoveAndResetChannel, Close
<1>8. AttemptInv' /\ ResetInv'
  BY <1>2, <1>3, Scalars
     DEF ClientInv, OneInv, AttemptInv, ResetInv, HandleSuccess, RemoveAndResetChannel, Close,
         InLoop
<1>9. StopInv' /\ HeldInv'
  BY <1>3 DEF ClientInv, StopInv, HeldInv, HandleSuccess, RemoveAndResetChannel
<1> QED BY <1>3, <1>5, <1>6, <1>7, <1>8, <1>9 DEF ClientInv

\* What a new socket makes of the attempt, when there is none: it is under way, put
\* off or given up.
Attempted ==
  /\ \/ /\ channel' \in Fds \ openFds /\ polled' = TRUE /\ state' = "connecting"
        /\ openFds' = openFds \union {channel'} /\ timer' = 0
     \/ /\ UNCHANGED <<channel, polled, openFds>> /\ state' = "disconnected"
        /\ timer' \in {0, 1}
  /\ retryDelay' \in InitDelay..MaxDelay
  /\ gaveUp' \in BOOLEAN

\* ConnectSocket from a state without an attempt makes one, retries or gives up.
LEMMA ConnectSocketFacts ==
  ASSUME NEW delay \in InitDelay..MaxDelay, ConnectSocket(delay, 0)
  PROVE  Attempted
<1>1. PICK fd \in Fds \ openFds :
        \/ /\ channel' = fd /\ polled' = TRUE
           /\ state' = "connecting"
           /\ openFds' = openFds \union {fd}
           /\ retryDelay' = delay /\ timer' = 0
           /\ gaveUp' = FALSE
        \/ /\ state' = "disconnected"
           /\ timer' = 0 + 1
           /\ retryDelay' = IF 2 * delay < MaxDelay THEN 2 * delay ELSE MaxDelay
           /\ gaveUp' = FALSE
           /\ UNCHANGED <<channel, polled, openFds>>
        \/ /\ state' = "disconnected"
           /\ retryDelay' = delay /\ timer' = 0
           /\ gaveUp' = TRUE
           /\ UNCHANGED <<channel, polled, openFds>>
  BY DEF ConnectSocket
<1>2. retryDelay' \in InitDelay..MaxDelay BY <1>1, ClientAssumption
<1>3. gaveUp' \in BOOLEAN BY <1>1
<1> QED BY <1>1, <1>2, <1>3 DEF Attempted

\* The same with startInLoop's test in front.
Started ==
  \/ connect /\ Attempted
  \/ timer' = 0 /\ UNCHANGED <<channel, polled, state, openFds, retryDelay, gaveUp>>

\* StartInLoop does so if connect_ is still set.
LEMMA StartInLoopFacts ==
  ASSUME TypeOK, StartInLoop(0)
  PROVE  Started
BY ConnectSocketFacts DEF TypeOK, StartInLoop, Started

\* What an attempt sets has its type.
LEMMA AttemptTypes ==
  ASSUME TypeOK, Attempted \/ Started
  PROVE  /\ channel' \in 0..NumFds /\ polled' \in BOOLEAN /\ openFds' \subseteq Fds
         /\ state' \in {"disconnected", "connecting", "connected"}
         /\ timer' \in Nat /\ retryDelay' \in InitDelay..MaxDelay /\ gaveUp' \in BOOLEAN
<1>1. Fds \subseteq 0..NumFds BY ClientAssumption DEF Fds
<1>2. CASE Attempted
  <2>1. channel' \in 0..NumFds BY <1>1, <1>2 DEF TypeOK, Attempted
  <2>2. openFds' \subseteq Fds BY <1>2 DEF TypeOK, Attempted
  <2>3. timer' \in Nat BY <1>2 DEF Attempted
  <2>4. polled' = TRUE \/ polled' = polled BY <1>2 DEF Attempted
  <2>5. polled' \in BOOLEAN BY <2>4 DEF TypeOK
  <2> QED BY <1>2, <2>1, <2>2, <2>3, <2>5 DEF Attempted
<1>3. CASE Started /\ ~Attempted BY <1>3 DEF TypeOK, Started
<1> QED BY <1>2, <1>3

\* The retry timer fires in a round that has nothing queued but stopInLoop.
LEMMA TimerStep == ASSUME ClientInv, TimerFires PROVE ClientInv'
<1>1. functors' = functors /\ timer = 1 /\ timer - 1 = 0 BY Scalars DEF TimerFires
<1>2. DyingIn(functors) = {} /\ ~Has(functors, "reset") /\ ~Has(functors, "start")
  <2>1. \A i \in DOMAIN functors : functors[i][1] # "reset" /\ functors[i][1] # "destroy"
    BY DEF TimerFires
  <2>2. ~Has(functors, "start") BY <1>1 DEF ClientInv, OneInv
  <2> QED BY <2>1, <2>2 DEF DyingIn, Has
<1>3. /\ state = "disconnected" /\ ~polled /\ channel = 0 /\ connection = 0 /\ ~restarting
      /\ upc # "new"
  BY <1>1, <1>2 DEF ClientInv, OneInv, AttemptInv
<1>4. Started
  <2>1. StartInLoop(0) BY <1>1 DEF TimerFires
  <2> QED BY <2>1, StartInLoopFacts DEF ClientInv
<1>5. TypeOK'
  <2>1. TypeOK BY DEF ClientInv
  <2> QED BY <1>1, <1>4, <2>1, AttemptTypes DEF TypeOK, TimerFires
<1>6. OwnedInv'
  BY <1>1, <1>2, <1>3, <1>4, Scalars DEF ClientInv, OwnedInv, TimerFires, Started, Attempted
<1>7. OneInv'
  BY <1>1, <1>2, <1>3, <1>4, Scalars DEF ClientInv, OneInv, TimerFires, Started, Attempted
<1>8. Distinct(functors') /\ AttemptInv' /\ ResetInv'
  BY <1>1, <1>2, <1>3 DEF ClientInv, AttemptInv, ResetInv, TimerFires
<1>9. StopInv' /\ HeldInv'
  BY <1>1, <1>3, <1>4 DEF ClientInv, StopInv, HeldInv, TimerFires, Started, Attempted
<1> QED BY <1>5, <1>6, <1>7, <1>8, <1>9 DEF ClientInv

\* The connection is closed; its descriptor waits for connectDestroyed.
LEMMA RemoveStep == ASSUME ClientInv, RemoveConnection PROVE ClientInv'
<1> DEFINE e == <<"destroy", connection>>
<1>1. e \in Functors /\ functors' = Append(functors, e)
  BY DEF RemoveConnection, Queue, Functors, ClientInv, TypeOK
<1>2. /\ connection # 0 /\ state = "connected" /\ timer = 0 /\ ~polled /\ batch = 0 /\ ~restarting
      /\ upc # "new" /\ ~Has(functors, "start")
  BY Scalars DEF ClientInv, OneInv, AttemptInv, RemoveConnection, InLoop
<1>3. /\ functors' \in Seq(Functors) /\ Len(functors') = Len(functors) + 1
      /\ \A op : Has(functors', op) <=> (Has(functors, op) \/ op = "destroy")
      /\ DyingIn(functors') = DyingIn(functors) \union {connection}
      /\ Distinct(functors')
  BY <1>1, <1>2, Scalars, AppendFacts DEF ClientInv, OwnedInv
<1>4. ~Has(functors, "reset")
  <2>1. \A i \in DOMAIN functors : ~(i <= batch) BY <1>2, Scalars
  <2>2. ResetInv /\ ~fresh BY DEF ClientInv, RemoveConnection
  <2> QED BY <1>2, <2>1, <2>2 DEF ResetInv, Has
<1>5. channel = 0 BY <1>2, <1>4 DEF ClientInv, OneInv
<1>6. TypeOK'
  <2>1. functors' \in Seq(Functors) /\ batch' \in 0..Len(functors')
    BY <1>3, Scalars DEF ClientInv, TypeOK, RemoveConnection
  <2>2. restarting' \in BOOLEAN /\ connection' \in 0..NumFds
    BY ClientAssumption DEF ClientInv, TypeOK, RemoveConnection
  <2> QED BY <2>1, <2>2 DEF ClientInv, TypeOK, RemoveConnection, Functors
<1>7. OwnedInv' BY <1>2, <1>3, Scalars DEF ClientInv, OwnedInv, RemoveConnection
<1>8. OneInv' BY <1>2, <1>3, <1>4, <1>5 DEF ClientInv, OneInv, RemoveConnection
<1>9. AttemptInv' /\ ResetInv'
  BY <1>2, <1>3 DEF ClientInv, AttemptInv, ResetInv, RemoveConnection
<1>10. StopInv' /\ HeldInv' BY <1>3 DEF ClientInv, StopInv, HeldInv, RemoveConnection
<1> QED BY <1>3, <1>6, <1>7, <1>8, <1>9, <1>10 DEF ClientInv

\* restart() opens a socket at once.
LEMMA RestartStep == ASSUME ClientInv, Restart PROVE ClientInv'
<1>1. /\ functors' = functors /\ timer = 0 /\ ~polled /\ channel = 0 /\ connection = 0
      /\ state = "connected" /\ upc # "new"
      /\ ~Has(functors, "start") /\ ~Has(functors, "reset")
  BY DEF ClientInv, OneInv, AttemptInv, Restart
<1>2. Attempted
  <2>1. ConnectSocket(InitDelay, 0) BY <1>1 DEF Restart
  <2>2. InitDelay \in InitDelay..MaxDelay BY ClientAssumption
  <2> QED BY <2>1, <2>2, ConnectSocketFacts
<1>3. stopLost' \in BOOLEAN /\ (upc = "stopped" => stopLost')
  BY DEF Restart, ClientInv, TypeOK
<1>4. TypeOK'
  <2>1. TypeOK BY DEF ClientInv
  <2> QED BY <1>1, <1>2, <1>3, <2>1, AttemptTypes DEF TypeOK, Restart
<1>5. OwnedInv' BY <1>1, <1>2, Scalars DEF ClientInv, OwnedInv, Restart, Attempted
<1>6. OneInv' BY <1>1, <1>2, Scalars DEF ClientInv, OneInv, Restart, Attempted
<1>7. Distinct(functors') /\ AttemptInv' /\ ResetInv'
  BY <1>1 DEF ClientInv, AttemptInv, ResetInv, Restart
<1>8. StopInv' /\ HeldInv' BY <1>3 DEF ClientInv, StopInv, HeldInv, Restart
<1> QED BY <1>4, <1>5, <1>6, <1>7, <1>8 DEF ClientInv

\* The functors queued so far become a batch.
LEMMA BatchStep == ASSUME ClientInv, BeginBatch PROVE ClientInv'
<1>1. functors' = functors /\ batch' = Len(functors) /\ fresh' = FALSE BY DEF BeginBatch
<1>2. TypeOK'
  <2>1. batch' \in 0..Len(functors') BY <1>1, Scalars
  <2>2. TypeOK BY DEF ClientInv
  <2>3. UNCHANGED <<retry, clientConnect, connect, state, channel, polled, retryDelay, timer,
                    connection, restarting, openFds, upc, stopLost, doubleClose, gaveUp>>
    BY DEF BeginBatch
  <2>4. functors' \in Seq({"start", "stop", "reset", "destroy"} \X (0..NumFds))
    BY <1>1, <2>2 DEF TypeOK
  <2>5. fresh' \in BOOLEAN BY <1>1
  <2> QED BY <2>1, <2>2, <2>3, <2>4, <2>5 DEF TypeOK
<1>3. ResetInv'
  <2>1. \A i \in DOMAIN functors : i <= Len(functors) BY Scalars
  <2> QED BY <1>1, <2>1 DEF ResetInv
<1>4. OwnedInv' /\ OneInv' BY <1>1 DEF ClientInv, OwnedInv, OneInv, BeginBatch
<1>5. Distinct(functors') /\ AttemptInv' BY <1>1 DEF ClientInv, AttemptInv, BeginBatch
<1>6. StopInv' /\ HeldInv' BY <1>1 DEF ClientInv, StopInv, HeldInv, BeginBatch
<1> QED BY <1>2, <1>3, <1>4, <1>5, <1>6 DEF ClientInv

\* The next functor of a batch leaves the queue.
LEMMA NextFunctor ==
  ASSUME ClientInv, NEW op, Runs(op)
  PROVE  /\ functors # << >> /\ Head(functors) \in Functors /\ Head(functors)[1] = op
         /\ batch - 1 \in 0..Len(Tail(functors))
         /\ \A i \in DOMAIN Tail(functors) :
              /\ i + 1 \in DOMAIN functors /\ Tail(functors)[i] = functors[i + 1]
              /\ i + 1 <= batch => i <= batch - 1
<1>1. functors # << >> /\ batch \in 1..Len(functors)
  <2>1. batch \in 1..Len(functors) BY Scalars DEF ClientInv, TypeOK, Runs
  <2> QED BY <2>1, Scalars
<1>2. Distinct(functors) BY DEF ClientInv
<1>3. \A i \in DOMAIN Tail(functors) : i \in Nat
  <2>1. Tail(functors) \in Seq(Functors) BY <1>1, <1>2, Scalars, TailFacts
  <2> QED BY <2>1
<1> QED BY <1>1, <1>2, <1>3, Scalars, TailFacts DEF Runs

\* ResetInv when the next functor is taken and nothing else is queued.
LEMMA ResetAfterTail ==
  ASSUME ClientInv, NEW op, Runs(op), functors' = Tail(functors),
         UNCHANGED <<connection, fresh>>
  PROVE  ResetInv'
<1> SUFFICES ASSUME connection' # 0, ~fresh', NEW i \in DOMAIN functors',
                    functors'[i][1] = "reset"
             PROVE  i <= batch'
  BY DEF ResetInv
<1>1. /\ i + 1 \in DOMAIN functors /\ functors[i + 1][1] = "reset"
      /\ i + 1 <= batch => i <= batch - 1
  BY NextFunctor
<1>2. i + 1 <= batch BY <1>1 DEF ClientInv, ResetInv
<1> QED BY <1>1, <1>2 DEF Runs

\* startInLoop of connect().
LEMMA StartStep == ASSUME ClientInv, RunStart PROVE ClientInv'
<1>1. /\ functors # << >> /\ Head(functors)[1] = "start" /\ functors' = Tail(functors)
      /\ batch' \in 0..Len(functors') /\ Distinct(functors)
  BY NextFunctor DEF RunStart, Runs, ClientInv
<1>2. /\ functors' \in Seq(Functors) /\ Distinct(functors')
      /\ Has(functors, "start") /\ ~Has(functors', "start")
      /\ \A op : op # "start" => (Has(functors', op) <=> Has(functors, op))
      /\ DyingIn(functors') = DyingIn(functors)
  BY <1>1, Scalars, TailFacts
<1>3. /\ state = "disconnected" /\ ~polled /\ channel = 0 /\ timer = 0 /\ connection = 0
      /\ ~restarting /\ upc # "new" /\ ~Has(functors, "reset")
  BY <1>1, <1>2 DEF ClientInv, OneInv, AttemptInv
<1>4. Started
  <2>1. StartInLoop(0) BY <1>3 DEF RunStart
  <2> QED BY <2>1, StartInLoopFacts DEF ClientInv
<1>5. TypeOK'
  <2>1. TypeOK BY DEF ClientInv
  <2> QED BY <1>1, <1>2, <1>4, <2>1, AttemptTypes DEF TypeOK, RunStart, Functors
<1>6. OwnedInv'
  BY <1>2, <1>3, <1>4, Scalars DEF ClientInv, OwnedInv, RunStart, Started, Attempted
<1>7. OneInv'
  BY <1>2, <1>3, <1>4, Scalars DEF ClientInv, OneInv, RunStart, Started, Attempted
<1>8. AttemptInv' BY <1>2, <1>3 DEF AttemptInv, RunStart
<1>9. ResetInv' BY <1>1, ResetAfterTail DEF RunStart
<1>10. StopInv' /\ HeldInv'
  BY <1>2, <1>3, <1>4 DEF ClientInv, StopInv, HeldInv, RunStart, Started, Attempted
<1> QED BY <1>2, <1>5, <1>6, <1>7, <1>8, <1>9, <1>10 DEF ClientInv

\* resetChannel
LEMMA ResetStep == ASSUME ClientInv, RunReset PROVE ClientInv'
<1>1. /\ functors # << >> /\ Head(functors)[1] = "reset" /\ functors' = Tail(functors)
      /\ batch' \in 0..Len(functors') /\ Distinct(functors)
  BY NextFunctor DEF RunReset, Runs, ClientInv
<1>2. /\ functors' \in Seq(Functors) /\ Distinct(functors')
      /\ Has(functors, "reset") /\ ~Has(functors', "reset")
      /\ \A op : op # "reset" => (Has(functors', op) <=> Has(functors, op))
      /\ DyingIn(functors') = DyingIn(functors)
  BY <1>1, Scalars, TailFacts
<1>3. ~polled /\ upc # "new" BY <1>1, <1>2 DEF ClientInv, OneInv, AttemptInv
<1>4. TypeOK'
  <2>1. channel' \in 0..NumFds BY ClientAssumption DEF RunReset
  <2> QED BY <1>1, <1>2, <2>1 DEF ClientInv, TypeOK, RunReset, Functors
<1>5. OwnedInv' BY <1>2, <1>3 DEF ClientInv, OwnedInv, RunReset
<1>6. OneInv' BY <1>2, <1>3 DEF ClientInv, OneInv, RunReset
<1>7. AttemptInv' BY <1>2, <1>3 DEF ClientInv, AttemptInv, RunReset
<1>8. ResetInv' BY <1>1, ResetAfterTail DEF RunReset
<1>9. StopInv' /\ HeldInv' BY <1>2 DEF ClientInv, StopInv, HeldInv, RunReset
<1> QED BY <1>2, <1>4, <1>5, <1>6, <1>7, <1>8, <1>9 DEF ClientInv

\* connectDestroyed closes a descriptor that is open and that nobody else has.
LEMMA DestroyStep == ASSUME ClientInv, RunDestroy PROVE ClientInv'
<1> DEFINE fd == Head(functors)[2]
<1>1. /\ functors # << >> /\ Head(functors)[1] = "destroy" /\ functors' = Tail(functors)
      /\ batch' \in 0..Len(functors') /\ Distinct(functors)
  BY NextFunctor DEF RunDestroy, Runs, ClientInv
<1>2. /\ functors' \in Seq(Functors) /\ Distinct(functors')
      /\ \A op : op # "destroy" => (Has(functors', op) <=> Has(functors, op))
      /\ fd \in DyingIn(functors) /\ DyingIn(functors') = DyingIn(functors) \ {fd}
  BY <1>1, Scalars, TailFacts
<1>3. upc # "new" BY <1>1 DEF ClientInv, AttemptInv
<1>4. openFds' = openFds \ {fd} /\ doubleClose' = FALSE
  BY <1>2 DEF ClientInv, OwnedInv, RunDestroy, Close
<1>5. TypeOK'
  <2>1. TypeOK BY DEF ClientInv
  <2>2. openFds' \subseteq Fds BY <1>4, <2>1 DEF TypeOK
  <2>3. functors' \in Seq({"start", "stop", "reset", "destroy"} \X (0..NumFds))
    BY <1>2 DEF Functors
  <2>4. UNCHANGED <<retry, clientConnect, connect, fresh, state, channel, polled, retryDelay,
                    timer, connection, restarting, upc, stopLost, gaveUp>>
    BY DEF RunDestroy
  <2>5. batch' \in 0..Len(functors') BY <1>1
  <2>6. doubleClose' \in BOOLEAN BY <1>4
  <2> HIDE DEF fd
  <2> QED BY <2>1, <2>2, <2>3, <2>4, <2>5, <2>6 DEF TypeOK
<1>6. OwnedInv' BY <1>2, <1>4 DEF ClientInv, OwnedInv, RunDestroy
<1>7. OneInv' BY <1>2 DEF ClientInv, OneInv, RunDestroy
<1>8. AttemptInv' BY <1>2, <1>3 DEF ClientInv, AttemptInv, RunDestroy
<1>9. ResetInv' BY <1>1, ResetAfterTail DEF RunDestroy
<1>10. StopInv' /\ HeldInv' BY <1>2 DEF ClientInv, StopInv, HeldInv, RunDestroy
<1> QED BY <1>2, <1>5, <1>6, <1>7, <1>8, <1>9, <1>10 DEF ClientInv

\* stopInLoop puts an attempt under way off, or finds none.
LEMMA StopStep == ASSUME ClientInv, RunStop PROVE ClientInv'
<1> DEFINE q == Tail(functors)
           e == <<"reset", 0>>
<1>1. /\ functors # << >> /\ Head(functors)[1] = "stop"
      /\ batch' \in 0..Len(q) /\ Distinct(functors)
  BY NextFunctor DEF RunStop, Runs, ClientInv
<1>2. /\ q \in Seq(Functors) /\ Distinct(q) /\ Len(q) \in Nat
      /\ \A op : op # "stop" => (Has(q, op) <=> Has(functors, op))
      /\ DyingIn(q) = DyingIn(functors)
  BY <1>1, Scalars, TailFacts
<1>3. upc # "new" BY <1>1 DEF ClientInv, AttemptInv
<1> HIDE DEF q
<1>4. CASE state = "connecting"
  <2>1. polled /\ timer = 0 /\ connection = 0 /\ ~restarting /\ ~Has(functors, "reset")
    BY <1>4, Scalars DEF ClientInv, OneInv, AttemptInv
  <2>2. functors' = Append(q, e) /\ e \in Functors /\ polled' = FALSE /\ Retry(channel)
    BY <1>4, ClientAssumption DEF RunStop, Functors, q
  <2>3. /\ functors' \in Seq(Functors) /\ Distinct(functors') /\ Len(functors') = Len(q) + 1
        /\ \A op : op # "stop" => (Has(functors', op) <=> (Has(functors, op) \/ op = "reset"))
        /\ DyingIn(functors') = DyingIn(functors)
    BY <1>2, <2>1, <2>2, AppendFacts
  <2>4. openFds' = openFds \ {channel} /\ doubleClose' = FALSE
    BY <2>1, <2>2, Scalars DEF ClientInv, OwnedInv, Retry, Close
  <2>5. TypeOK'
    <3>1. functors' \in Seq(Functors) /\ batch' \in 0..Len(functors') BY <1>1, <1>2, <2>3
    <3>2. timer' \in Nat /\ retryDelay' \in InitDelay..MaxDelay
      BY <2>2, ClientAssumption DEF ClientInv, TypeOK, Retry
    <3>3. state' = "disconnected" BY <2>2 DEF Retry
    <3> QED BY <2>2, <2>4, <3>1, <3>2, <3>3 DEF ClientInv, TypeOK, RunStop, Functors
  <2>6. OwnedInv' BY <2>1, <2>2, <2>3, <2>4, Scalars DEF ClientInv, OwnedInv, RunStop
  <2>7. OneInv'
    <3>1. state' = "disconnected" /\ timer' \in {0, 1} BY <2>1, <2>2 DEF Retry
    <3> QED BY <2>1, <2>2, <2>3, <3>1, Scalars DEF ClientInv, OneInv, RunStop
  <2>8. AttemptInv' /\ ResetInv'
    BY <1>3, <2>1, <2>2, <2>3 DEF ClientInv, AttemptInv, ResetInv, RunStop, Retry
  <2>9. StopInv' /\ HeldInv' BY <2>2 DEF ClientInv, StopInv, HeldInv, RunStop
  <2> QED BY <2>3, <2>5, <2>6, <2>7, <2>8, <2>9 DEF ClientInv
<1>5. CASE state # "connecting"
  <2>1. /\ functors' = q /\ ~polled
        /\ UNCHANGED <<polled, state, openFds, doubleClose, timer, retryDelay>>
    BY <1>5 DEF RunStop, ClientInv, OneInv, q
  <2>2. TypeOK' BY <1>1, <1>2, <2>1 DEF ClientInv, TypeOK, RunStop, Functors
  <2>3. OwnedInv' BY <1>2, <2>1 DEF ClientInv, OwnedInv, RunStop
  <2>4. OneInv' BY <1>2, <2>1 DEF ClientInv, OneInv, RunStop
  <2>5. AttemptInv' BY <1>2, <1>3, <2>1 DEF ClientInv, AttemptInv, RunStop
  <2>6. ResetInv' BY <2>1, ResetAfterTail DEF RunStop, q
  <2>7. StopInv' /\ HeldInv' BY <2>1 DEF ClientInv, StopInv, HeldInv, RunStop
  <2> QED BY <1>2, <2>1, <2>2, <2>3, <2>4, <2>5, <2>6, <2>7 DEF ClientInv
<1> QED BY <1>4, <1>5

\* connect() queues the one startInLoop.
LEMMA ConnectStep == ASSUME ClientInv, UserConnects PROVE ClientInv'
<1> DEFINE e == <<"start", 0>>
<1>1. e \in Functors /\ functors' = Append(functors, e)
  BY ClientAssumption DEF UserConnects, Queue, Functors
<1>2. /\ functors = << >> /\ timer = 0 /\ ~polled /\ channel = 0 /\ state = "disconnected"
      /\ ~restarting
  BY DEF ClientInv, AttemptInv, UserConnects
<1>3. ~Has(functors, "start") BY <1>2 DEF Has
<1>4. /\ functors' \in Seq(Functors) /\ Len(functors') = Len(functors) + 1
      /\ \A op : Has(functors', op) <=> (Has(functors, op) \/ op = "start")
      /\ DyingIn(functors') = DyingIn(functors)
      /\ Distinct(functors')
  BY <1>1, <1>3, Scalars, AppendFacts DEF ClientInv
<1>5. TypeOK'
  <2>1. functors' \in Seq(Functors) /\ batch' \in 0..Len(functors')
    BY <1>4, Scalars DEF ClientInv, TypeOK, UserConnects
  <2> QED BY <2>1 DEF ClientInv, TypeOK, UserConnects, Functors
<1>6. OwnedInv' BY <1>4 DEF ClientInv, OwnedInv, UserConnects
<1>7. OneInv' BY <1>2, <1>4 DEF ClientInv, OneInv, UserConnects
<1>8. AttemptInv' /\ ResetInv'
  BY <1>2, <1>4 DEF ClientInv, OneInv, AttemptInv, ResetInv, UserConnects
<1>9. StopInv' /\ HeldInv' BY DEF StopInv, HeldInv, UserConnects
<1> QED BY <1>4, <1>5, <1>6, <1>7, <1>8, <1>9 DEF ClientInv

\* Connector::stop queues a stopInLoop.
LEMMA ConnectorStopStep == ASSUME ClientInv, ConnectorStops PROVE ClientInv'
<1> DEFINE e == <<"stop", 0>>
<1>1. e \in Functors /\ functors' = Append(functors, e)
  BY ClientAssumption DEF ConnectorStops, Queue, Functors
<1>2. /\ functors' \in Seq(Functors) /\ Len(functors') = Len(functors) + 1
      /\ \A op : Has(functors', op) <=> (Has(functors, op) \/ op = "stop")
      /\ DyingIn(functors') = DyingIn(functors)
      /\ Distinct(functors')
  BY <1>1, Scalars, AppendFacts DEF ClientInv
<1>3. TypeOK'
  <2>1. functors' \in Seq(Functors) /\ batch' \in 0..Len(functors')
    BY <1>2, Scalars DEF ClientInv, TypeOK, ConnectorStops
  <2> QED BY <2>1 DEF ClientInv, TypeOK, ConnectorStops, Functors
<1>4. OwnedInv' BY <1>2 DEF ClientInv, OwnedInv, ConnectorStops
<1>5. OneInv' BY <1>2 DEF ClientInv, OneInv, ConnectorStops
<1>6. AttemptInv' BY <1>2 DEF ClientInv, AttemptInv, ConnectorStops
<1>7. ResetInv'
  <2> SUFFICES ASSUME connection # 0, ~fresh, NEW i \in DOMAIN functors',
                      functors'[i][1] = "reset"
               PROVE  i <= batch
    BY DEF ResetInv, ConnectorStops
  <2>1. i \in DOMAIN functors /\ functors[i][1] = "reset"
    BY <1>1, Scalars, AppendProperties
  <2> QED BY <2>1 DEF ClientInv, ResetInv
<1>8. StopInv' /\ HeldInv' BY <1>2 DEF StopInv, HeldInv, ConnectorStops
<1> QED BY <1>2, <1>3, <1>4, <1>5, <1>6, <1>7, <1>8 DEF ClientInv

\* disconnect() and the first half of stop() clear TcpClient's flag only.
LEMMA FlagStep == ASSUME ClientInv, UserDisconnects \/ UserStops PROVE ClientInv'
<1>1. /\ clientConnect' = FALSE /\ upc' \in {"disconnected", "stopping"}
      /\ UNCHANGED <<retry, fresh, connect, state, channel, polled, retryDelay, timer, functors,
                     batch, connection, restarting, openFds, stopLost, doubleClose, gaveUp>>
  BY DEF UserDisconnects, UserStops
<1>2. TypeOK' BY <1>1 DEF ClientInv, TypeOK
<1>3. OwnedInv' /\ OneInv' BY <1>1 DEF ClientInv, OwnedInv, OneInv
<1>4. Distinct(functors') /\ AttemptInv' /\ ResetInv'
  BY <1>1 DEF ClientInv, AttemptInv, ResetInv
<1>5. StopInv' /\ HeldInv' BY <1>1 DEF StopInv, HeldInv
<1> QED BY <1>2, <1>3, <1>4, <1>5 DEF ClientInv

\* A step that changes nothing.
LEMMA StutterStep == ASSUME ClientInv, UNCHANGED vars PROVE ClientInv'
<1>1. TypeOK' BY DEF ClientInv, TypeOK, vars
<1>2. OwnedInv' /\ OneInv' BY DEF ClientInv, OwnedInv, OneInv, vars
<1>3. Distinct(functors') /\ AttemptInv' /\ ResetInv'
  BY DEF ClientInv, AttemptInv, ResetInv, vars
<1>4. StopInv' /\ HeldInv' BY DEF ClientInv, StopInv, HeldInv, vars
<1> QED BY <1>1, <1>2, <1>3, <1>4 DEF ClientInv

-----------------------------------------------------------------------------
(* The theorems *)

\* The invariant above holds of every connector and client.
THEOREM ClientInvariant == Spec => []ClientInv
<1>1. Init => ClientInv BY ClientInit
<1>2. ClientInv /\ [Next]_vars => ClientInv'
  BY FailureStep, SuccessStep, TimerStep, RemoveStep, RestartStep, BatchStep, StartStep, StopStep,
     ResetStep, DestroyStep, ConnectStep, ConnectorStopStep, FlagStep, StutterStep
     DEF Next
<1> QED BY <1>1, <1>2, PTL DEF Spec

\* The descriptors, the channel, the retry timer, the connection and the queued
\* functors belong to one attempt at most, no descriptor is leaked or closed twice, and
\* the asserts of startInLoop and connecting hold: however often a connection is refused,
\* lost, tried again or stopped.
THEOREM OneAttemptAtATime == Spec => []AttemptsConsistent
<1>1. ClientInv => AttemptsConsistent
  <2> SUFFICES ASSUME ClientInv PROVE AttemptsConsistent OBVIOUS
  <2>1. Dying = DyingIn(functors) BY DEF Dying, DyingIn
  <2>2. FdsOwned BY <2>1 DEF ClientInv, OwnedInv, FdsOwned
  <2>3. OneAttempt BY DEF ClientInv, OneInv, OneAttempt, Has
  <2> QED BY <2>2, <2>3 DEF ClientInv, AttemptsConsistent
<1> QED BY <1>1, ClientInvariant, PTL

\* Once its stopInLoop has run, stop() is final: neither a retry timer nor a queued
\* startInLoop opens a socket again, unless restart() overtook it.
THEOREM StopIsFinal == Spec => []StopHolds
<1>1. ClientInv => StopHolds BY DEF ClientInv, HeldInv, StopHolds, Has
<1> QED BY <1>1, ClientInvariant, PTL

=============================================================================
