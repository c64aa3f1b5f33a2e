-------------------------- MODULE TimerQueueProofs --------------------------
(***************************************************************************)
(* Proofs about TimerQueue, for any number of threads, addresses, timers   *)
(* and settings of the clock.                                              *)
(*                                                                         *)
(* The code knows a Timer by its address, by an entry (expiration,         *)
(* address) and by an id (address, sequence).  The invariant says, address *)
(* by address, that the three agree: a Timer that exists is either waiting *)
(* in both sets, or in the batch of handleRead, or its addTimerInLoop is   *)
(* queued, and its id was in use for nothing else before.  That an id      *)
(* names one Timer for good, although addresses are used again, is what    *)
(* makes a cancel final and lets it stop no other timer.                   *)
(***************************************************************************)
EXTENDS TimerQueue, TLAPS, SequenceTheorems, WellFoundedInduction

\* How the Timer at an address is known in activeTimers_ and in timers_.
Id(a) == <<a, heap[a].sequence>>
Entry(a) == <<heap[a].expiration, a>>

Active(a) == Id(a) \in activeTimers
Batch(a) == Entry(a) \in expired

\* The functor q[k] is an addTimerInLoop for address a.
Adds(q, k, a) == q[k].op = "add" /\ q[k].id[1] = a
Queued(q, a) == \E k \in DOMAIN q : Adds(q, k, a)

\* timers_, activeTimers_ and the batch hold what the objects say.
SetsInv ==
  /\ \A x \in activeTimers : heap[x[1]] # Free /\ x = Id(x[1]) /\ Entry(x[1]) \in timers
  /\ \A e \in timers : e = Entry(e[2]) /\ Id(e[2]) \in activeTimers
  /\ \A e \in expired : heap[e[2]] # Free /\ e = Entry(e[2])

\* Every Timer has one owner.
OwnerInv ==
  \A a \in Addrs :
    /\ heap[a] # Free => Active(a) \/ Batch(a) \/ Queued(pending, a)
    /\ Queued(pending, a) => heap[a] # Free /\ ~Active(a) /\ ~Batch(a)
    /\ heap[a] # Free /\ Active(a) => ~Batch(a)

\* A queued addTimerInLoop is the only one for its address and names the Timer there,
\* which was never added before.
QueueInv ==
  \A k \in DOMAIN pending :
    pending[k].op = "add" =>
      /\ pending[k].id = Id(pending[k].id[1]) /\ pending[k].id \notin added
      /\ \A l \in DOMAIN pending : Adds(pending, l, pending[k].id[1]) => l = k

\* Sequences are given out once, and what waits or runs was added.
IdInv ==
  /\ \A a \in Addrs : heap[a] # Free => heap[a].sequence <= numCreated
  /\ \A x \in added : x[2] <= numCreated
  /\ activeTimers \subseteq added
  /\ \A e \in expired : Id(e[2]) \in added

\* The batch exists while handleRead calls back, and what it has called has run.
BatchInv ==
  /\ ~callingExpiredTimers => expired = {}
  /\ \A e \in expired \ rest : Id(e[2]) \in ran

\* CancelIsFinal and NothingLost.
CancelInv ==
  /\ \A x \in activeTimers : x \notin cancelled
  /\ \A e \in expired : Id(e[2]) \in cancelled => Id(e[2]) \in cancelingTimers

KeptInv ==
  \A x \in added : x \in cancelled \/ x \in activeTimers \/ x \in ran
                   \/ \E e \in expired : x = Id(e[2])

\* The timerfd is armed for no later than any waiting timer, or for the next tick.
ArmedInv ==
  ~callingExpiredTimers /\ timers # {} =>
    /\ timerfd # Disarmed
    /\ clockSets = 0 => \/ timerfd <= 1
                        \/ \A e \in timers : now + timerfd <= e[1]

TimerInv ==
  /\ TypeOK /\ SetsInv /\ OwnerInv /\ QueueInv /\ IdInv /\ BatchInv
  /\ CancelInv /\ KeptInv /\ ArmedInv

-----------------------------------------------------------------------------
(* The order of timers_ *)

\* A set of natural numbers that is not empty has a least element.
LEMMA LeastNat ==
  ASSUME NEW T, T \subseteq Nat, T # {}
  PROVE  \E m \in T : \A n \in T : m <= n
<1>1. IsWellFoundedOn(OpToRel(<, Nat), Nat) BY NatLessThanWellFounded
<1>2. PICK m \in T : \A n \in T : ~(<<n, m>> \in OpToRel(<, Nat)) BY <1>1, WFMin
<1>3. \A n \in T : ~(n < m) BY <1>2 DEF OpToRel
<1>4. \A n \in T : m <= n BY <1>3
<1> QED BY <1>4

\* timers_.begin() exists when timers_ is not empty, and nothing expires before it.
LEMMA FirstFacts ==
  ASSUME NEW S, S \subseteq Nat \X Addrs, S # {}
  PROVE  First(S) \in S /\ \A e \in S : First(S)[1] <= e[1]
<1>1. \A e \in S : e[1] \in Nat /\ e[2] \in Addrs /\ e = <<e[1], e[2]>> OBVIOUS
<1>2. Addrs \subseteq Nat BY BoundsAssumption DEF Addrs
<1> DEFINE T == {e[1] : e \in S}
<1>3. PICK m \in T : \A n \in T : m <= n
  <2>1. T \subseteq Nat /\ T # {} BY <1>1
  <2> HIDE DEF T
  <2> QED BY <2>1, LeastNat
<1> DEFINE U == {e[2] : e \in {f \in S : f[1] = m}}
<1>4. PICK b \in U : \A c \in U : b <= c
  <2>1. U \subseteq Nat /\ U # {} BY <1>1, <1>2
  <2> HIDE DEF U
  <2> QED BY <2>1, LeastNat
<1>5. <<m, b>> \in S BY <1>1, <1>4
<1>6. ASSUME NEW f \in S \ {<<m, b>>} PROVE Before(<<m, b>>, f)
  <2>1. f[1] \in T /\ m <= f[1] BY <1>3
  <2>2. f[1] = m => f[2] \in U OBVIOUS
  <2>3. f[1] = m => b <= f[2] BY <1>4, <2>2
  <2>4. f[1] = m => b # f[2] BY <1>1
  <2> HIDE DEF T, U
  <2>5. m \in Nat /\ b \in Nat /\ f[1] \in Nat /\ f[2] \in Nat BY <1>1, <1>2, <1>5
  <2> QED BY <2>1, <2>3, <2>4, <2>5 DEF Before
<1>7. First(S) \in S /\ \A f \in S \ {First(S)} : Before(First(S), f)
  BY <1>5, <1>6 DEF First
<1> HIDE DEF First
<1>8. ASSUME NEW e \in S PROVE First(S)[1] <= e[1]
  BY <1>1, <1>7 DEF Before
<1> QED BY <1>7, <1>8

-----------------------------------------------------------------------------
(* Queued functors *)

Functors == [op : {"add", "cancel"}, id : Addrs \X (0..MaxTimers)]

\* queueInLoop
LEMMA AppendFacts ==
  ASSUME NEW q \in Seq(Functors), NEW f \in Functors
  PROVE  /\ Append(q, f) \in Seq(Functors)
         /\ DOMAIN q = 1..Len(q) /\ Len(q) \in Nat
         /\ DOMAIN Append(q, f) = DOMAIN q \union {Len(q) + 1} /\ Len(q) + 1 \notin DOMAIN q
         /\ \A k \in DOMAIN q : Append(q, f)[k] = q[k]
         /\ Append(q, f)[Len(q) + 1] = f
         /\ \A a : Queued(Append(q, f), a) <=> (Queued(q, a) \/ (f.op = "add" /\ f.id[1] = a))
<1> DEFINE t == Append(q, f)
<1>1. /\ t \in Seq(Functors) /\ Len(q) \in Nat
      /\ DOMAIN q = 1..Len(q) /\ DOMAIN t = 1..(Len(q) + 1)
      /\ \A k \in 1..Len(q) : t[k] = q[k]
      /\ t[Len(q) + 1] = f
  BY AppendProperties
<1> HIDE DEF t
<1>2. DOMAIN t = DOMAIN q \union {Len(q) + 1} /\ Len(q) + 1 \notin DOMAIN q BY <1>1
<1>3. \A a : Queued(t, a) <=> (Queued(q, a) \/ (f.op = "add" /\ f.id[1] = a))
  BY <1>1, <1>2 DEF Queued, Adds
<1> QED BY <1>1, <1>2, <1>3 DEF t

\* The next functor leaves the queue; an addTimerInLoop is the only one of its address.
LEMMA TailFacts ==
  ASSUME NEW q \in Seq(Functors), q # << >>,
         Head(q).op = "add" =>
           \A l \in DOMAIN q : Adds(q, l, Head(q).id[1]) => l = 1
  PROVE  /\ Tail(q) \in Seq(Functors) /\ Head(q) \in Functors
         /\ 1 \in DOMAIN q /\ Head(q) = q[1]
         /\ \A k \in DOMAIN Tail(q) : /\ k \in Nat /\ k + 1 \in DOMAIN q
                                      /\ Tail(q)[k] = q[k + 1]
         /\ \A a : Queued(Tail(q), a) <=>
                   (Queued(q, a) /\ ~(Head(q).op = "add" /\ Head(q).id[1] = a))
<1> DEFINE t == Tail(q)
           h == Head(q)
<1>1. /\ t \in Seq(Functors) /\ Len(q) \in Nat \ {0}
      /\ h = q[1] /\ h \in Functors
      /\ DOMAIN q = 1..Len(q) /\ DOMAIN t = 1..(Len(q) - 1)
      /\ \A i \in 1..(Len(q) - 1) : t[i] = q[i + 1]
  BY HeadTailProperties
<1> HIDE DEF t, h
<1>2. \A k \in DOMAIN t : k \in Nat /\ k + 1 \in DOMAIN q /\ t[k] = q[k + 1] /\ k + 1 # 1
  BY <1>1
<1>3. \A j \in DOMAIN q : j = 1 \/ (j - 1 \in DOMAIN t /\ t[j - 1] = q[j]) BY <1>1
<1>4. 1 \in DOMAIN q BY <1>1
<1>5. h.op = "add" => \A l \in DOMAIN q : Adds(q, l, h.id[1]) => l = 1 BY DEF h
<1>6. ASSUME NEW a PROVE Queued(t, a) => Queued(q, a) /\ ~(h.op = "add" /\ h.id[1] = a)
  BY <1>2, <1>5 DEF Queued, Adds
<1>7. ASSUME NEW a PROVE Queued(q, a) /\ ~(h.op = "add" /\ h.id[1] = a) => Queued(t, a)
  BY <1>1, <1>3 DEF Queued, Adds
<1> QED BY <1>1, <1>2, <1>4, <1>6, <1>7 DEF t, h

-----------------------------------------------------------------------------
(* The steps *)

\* The constructor.
LEMMA TimerInit == Init => TimerInv
<1> SUFFICES ASSUME Init PROVE TimerInv OBVIOUS
<1>1. pending = << >> /\ DOMAIN pending = {} BY DEF Init
<1>2. heap \in [Addrs -> Timer \union {Free}] /\ \A a \in Addrs : heap[a] = Free BY DEF Init
<1>3. TypeOK
  <2>1. pending \in Seq(Functors) BY <1>1
  <2>2. /\ now \in 0..MaxTime /\ clockSets \in 0..MaxClockSets /\ numCreated \in 0..MaxTimers
        /\ batchNow \in 0..MaxTime
    BY BoundsAssumption DEF Init
  <2>3. tpc \in [Threads -> (Addrs \X Seqs) \union {Idle}] BY DEF Init
  <2>4. timerfd \in Nat \union {Disarmed} BY DEF Init
  <2> QED BY <1>2, <2>1, <2>2, <2>3, <2>4 DEF Init, TypeOK, Functors
<1>4. SetsInv /\ BatchInv /\ CancelInv /\ KeptInv /\ ArmedInv
  BY DEF Init, SetsInv, BatchInv, CancelInv, KeptInv, ArmedInv
<1>5. OwnerInv /\ QueueInv /\ IdInv
  BY <1>1, <1>2 DEF Init, OwnerInv, QueueInv, IdInv, Queued
<1> QED BY <1>3, <1>4, <1>5 DEF TimerInv

\* What the types say of an address, and that what the sets hold exists.
LEMMA HeapFacts ==
  ASSUME TypeOK, SetsInv
  PROVE  /\ \A a \in Addrs :
              heap[a] # Free => /\ heap[a] \in Timer /\ heap[a].sequence \in Seqs
                               /\ heap[a].expiration \in Nat /\ heap[a].interval \in Nat
         /\ \A a \in Addrs : Active(a) \/ Batch(a) => heap[a] # Free
         /\ \A x \in activeTimers : x[1] \in Addrs /\ Active(x[1])
         /\ \A e \in timers : e[1] \in Nat /\ e[2] \in Addrs /\ Active(e[2])
         /\ \A e \in expired : e[1] \in Nat /\ e[2] \in Addrs /\ Batch(e[2])
<1>1. heap \in [Addrs -> Timer \union {Free}] BY DEF TypeOK
<1>2. \A a \in Addrs : heap[a] # Free => heap[a] \in Timer BY <1>1
<1>3. \A t \in Timer : t.sequence \in Seqs /\ t.expiration \in Nat /\ t.interval \in Nat
  BY DEF Timer
<1>4. /\ \A x \in activeTimers : x[1] \in Addrs
      /\ \A e \in timers \union expired : e[1] \in Nat /\ e[2] \in Addrs
  BY DEF TypeOK
<1>5. \A a \in Addrs : Active(a) => heap[a] # Free BY DEF SetsInv, Active, Id
<1>6. \A a \in Addrs : Batch(a) => heap[a] # Free BY DEF SetsInv, Batch, Entry
<1>7. /\ \A x \in activeTimers : Active(x[1])
      /\ \A e \in timers : Active(e[2])
      /\ \A e \in expired : Batch(e[2])
  BY DEF SetsInv, Active, Batch
<1> QED BY <1>2, <1>3, <1>4, <1>5, <1>6, <1>7

\* A Timer at an address none of the sets holds is added under an id that was never
\* added before.
Adding(a) ==
  /\ heap'[a] # Free /\ ~Active(a) /\ ~Batch(a)
  /\ \A b \in Addrs : b # a => heap'[b] = heap[b]
  /\ timers' = timers \union {Entry(a)'}
  /\ activeTimers' = activeTimers \union {Id(a)'}
  /\ added' = added \union {Id(a)'}
  /\ Id(a)' \notin added
  /\ UNCHANGED <<cancelingTimers, callingExpiredTimers, expired, rest, cancelled, ran>>

\* A timer that was just allocated and inserted keeps the sets in agreement.
LEMMA AddingFacts ==
  ASSUME TimerInv, NEW a \in Addrs, Adding(a)
  PROVE  SetsInv' /\ BatchInv' /\ CancelInv' /\ KeptInv'
<1> USE DEF Adding
<1>1. TypeOK /\ SetsInv /\ BatchInv /\ CancelInv /\ KeptInv BY DEF TimerInv
<1>2. \A b \in Addrs : b # a => Id(b)' = Id(b) /\ Entry(b)' = Entry(b) BY DEF Id, Entry
<1>3. /\ \A x \in activeTimers : x[1] \in Addrs /\ x[1] # a
      /\ \A e \in timers : e[2] \in Addrs /\ e[2] # a
      /\ \A e \in expired : e[2] \in Addrs /\ e[2] # a
  BY <1>1, HeapFacts
<1>4. Id(a)'[1] = a /\ Entry(a)'[2] = a BY DEF Id, Entry
<1>5. SetsInv'
  <2>1. \A x \in activeTimers' :
          heap'[x[1]] # Free /\ x = Id(x[1])' /\ Entry(x[1])' \in timers'
    BY <1>1, <1>2, <1>3, <1>4 DEF SetsInv
  <2>2. \A e \in timers' : e = Entry(e[2])' /\ Id(e[2])' \in activeTimers'
    BY <1>1, <1>2, <1>3, <1>4 DEF SetsInv
  <2>3. \A e \in expired' : heap'[e[2]] # Free /\ e = Entry(e[2])'
    BY <1>1, <1>2, <1>3 DEF SetsInv
  <2> QED BY <2>1, <2>2, <2>3 DEF SetsInv
<1>6. BatchInv' BY <1>1, <1>2, <1>3 DEF BatchInv
<1>7. CancelInv'
  <2>1. Id(a)' \notin cancelled BY <1>1 DEF TypeOK
  <2> QED BY <1>1, <1>2, <1>3, <2>1 DEF CancelInv
<1>8. KeptInv'
  <2> SUFFICES ASSUME NEW x \in added'
               PROVE  x \in cancelled' \/ x \in activeTimers' \/ x \in ran'
                      \/ \E e \in expired' : x = Id(e[2])'
    BY DEF KeptInv
  <2>1. CASE x = Id(a)' BY <2>1
  <2>2. CASE x \in added BY <1>1, <1>2, <1>3, <2>2 DEF KeptInv
  <2> QED BY <2>1, <2>2
<1> QED BY <1>5, <1>6, <1>7, <1>8

\* insert arms the timerfd for a timer that comes before all others.
LEMMA ArmedByAdding ==
  ASSUME TimerInv, NEW when \in Nat, NEW a, UNCHANGED <<now, clockSets, callingExpiredTimers>>,
         timers' = timers \union {<<when, a>>},
         timerfd' = IF EarliestChanged(when) THEN HowMuchTimeFromNow(when) ELSE timerfd
  PROVE  ArmedInv' /\ timerfd' \in Nat \union {Disarmed}
<1>1. /\ TypeOK /\ ArmedInv /\ now \in Nat /\ timerfd \in Nat \union {Disarmed}
      /\ \A e \in timers : e[1] \in Nat
  BY BoundsAssumption DEF TimerInv, TypeOK
<1>2. CASE EarliestChanged(when)
  <2>1. timerfd' = HowMuchTimeFromNow(when) BY <1>2
  <2>2. timerfd' \in Nat /\ (timerfd' <= 1 \/ now + timerfd' = when)
    BY <1>1, <2>1 DEF HowMuchTimeFromNow
  <2>3. \A e \in timers' : when <= e[1] BY <1>1, <1>2 DEF EarliestChanged
  <2>4. timerfd' # Disarmed BY <2>2 DEF Disarmed
  <2>5. timerfd' <= 1 \/ \A e \in timers' : now' + timerfd' <= e[1] BY <1>1, <2>2, <2>3
  <2> QED BY <2>2, <2>4, <2>5 DEF ArmedInv
<1>3. CASE ~EarliestChanged(when)
  <2>1. timerfd' = timerfd BY <1>3
  <2>2. PICK f \in timers : ~(when < f[1]) BY <1>3 DEF EarliestChanged
  <2>3. f[1] \in Nat /\ f[1] <= when BY <1>1, <2>2
  <2> SUFFICES ASSUME ~callingExpiredTimers
               PROVE  /\ timerfd # Disarmed
                      /\ clockSets = 0 => \/ timerfd <= 1
                                          \/ \A e \in timers' : now + timerfd <= e[1]
    BY <1>1, <2>1 DEF ArmedInv
  <2>4. /\ timerfd # Disarmed
        /\ clockSets = 0 => \/ timerfd <= 1
                            \/ \A e \in timers : now + timerfd <= e[1]
    BY <1>1, <2>2 DEF ArmedInv
  <2>5. (\A e \in timers : now + timerfd <= e[1]) => now + timerfd <= when
    BY <1>1, <2>2, <2>3, <2>4 DEF Disarmed
  <2> QED BY <2>4, <2>5
<1> QED BY <1>2, <1>3

\* The types of what is queued.
LEMMA PendingFacts ==
  ASSUME TypeOK
  PROVE  /\ pending \in Seq(Functors)
         /\ \A k \in DOMAIN pending : pending[k] \in Functors /\ pending[k].id[1] \in Addrs
                                     /\ pending[k].id \in Addrs \X (0..MaxTimers)
<1>1. pending \in Seq(Functors) BY DEF TypeOK, Functors
<1>2. \A k \in DOMAIN pending : pending[k] \in Functors BY <1>1
<1>3. \A f \in Functors : f.id \in Addrs \X (0..MaxTimers) BY DEF Functors
<1>4. \A f \in Functors : f.id[1] \in Addrs BY <1>3
<1> QED BY <1>1, <1>2, <1>3, <1>4

\* new Timer: the object, and that nobody holds its address.
LEMMA NewTimerFacts ==
  ASSUME TimerInv, NEW a \in Addrs, NEW d \in Delays, NEW i \in Nat, NEW timer,
         timer = [sequence |-> numCreated + 1, expiration |-> now + d, interval |-> i],
         NewTimer(a, now + d, i, timer), heap' = [heap EXCEPT ![a] = timer]
  PROVE  /\ heap' \in [Addrs -> Timer \union {Free}] /\ heap'[a] = timer /\ timer # Free
         /\ \A b \in Addrs : b # a => heap'[b] = heap[b]
         /\ ~Active(a) /\ ~Batch(a) /\ ~Queued(pending, a)
         /\ timer.sequence = numCreated + 1 /\ numCreated' = numCreated + 1
         /\ numCreated \in Nat /\ numCreated + 1 \in Seqs
         /\ timer.expiration = now + d /\ now + d \in Nat
<1>1. /\ numCreated \in 0..MaxTimers /\ numCreated < MaxTimers /\ now \in 0..MaxTime
      /\ MaxTimers \in Nat /\ MaxTime \in Nat /\ d \in Nat
  BY BoundsAssumption DEF TimerInv, TypeOK, NewTimer
<1>2. numCreated \in Nat /\ numCreated + 1 \in Seqs /\ now + d \in Nat BY <1>1 DEF Seqs
<1>3. timer \in Timer BY <1>2 DEF Timer
<1>4. timer.sequence = numCreated + 1 /\ timer.expiration = now + d OBVIOUS
<1>5. timer # Free
  <2>1. Free.sequence = 0 BY DEF Free
  <2> QED BY <1>2, <1>4, <2>1
<1>6. heap \in [Addrs -> Timer \union {Free}] BY DEF TimerInv, TypeOK
<1>7. /\ heap' \in [Addrs -> Timer \union {Free}] /\ heap'[a] = timer
      /\ \A b \in Addrs : b # a => heap'[b] = heap[b]
  BY <1>3, <1>6
<1>8. heap[a] = Free /\ numCreated' = numCreated + 1 BY DEF NewTimer
<1>9. ~Active(a) /\ ~Batch(a) /\ ~Queued(pending, a)
  BY <1>8, HeapFacts DEF TimerInv, OwnerInv
<1> QED BY <1>2, <1>4, <1>5, <1>7, <1>8, <1>9

\* runAt, runAfter and runEvery on the loop thread.
LEMMA LoopAddStep ==
  ASSUME TimerInv, NEW a \in Addrs, NEW d \in Delays, NEW i \in Nat, LoopAdd(a, d, i)
  PROVE  TimerInv'
<1> DEFINE timer == [sequence |-> numCreated + 1, expiration |-> now + d, interval |-> i]
<1>1. /\ NewTimer(a, now + d, i, timer) /\ heap' = [heap EXCEPT ![a] = timer]
      /\ AddTimerInLoop(a, timer)
      /\ issued' = issued \union {[id |-> <<a, timer.sequence>>, for |-> timer.sequence]}
      /\ UNCHANGED <<now, clockSets, cancelingTimers, callingExpiredTimers, expired, rest,
                     batchNow, pending, tpc, cancelled, ran>>
  BY DEF LoopAdd
<1>2. /\ heap' \in [Addrs -> Timer \union {Free}] /\ heap'[a] = timer /\ timer # Free
      /\ \A b \in Addrs : b # a => heap'[b] = heap[b]
      /\ ~Active(a) /\ ~Batch(a) /\ ~Queued(pending, a)
      /\ timer.sequence = numCreated + 1 /\ numCreated' = numCreated + 1
      /\ numCreated \in Nat /\ numCreated + 1 \in Seqs
      /\ timer.expiration = now + d /\ now + d \in Nat
  BY <1>1, NewTimerFacts
<1> HIDE DEF timer
<1>3. /\ Id(a)' = <<a, numCreated + 1>> /\ Entry(a)' = <<now + d, a>>
      /\ timers' = timers \union {<<now + d, a>>}
      /\ activeTimers' = activeTimers \union {<<a, numCreated + 1>>}
      /\ added' = added \union {<<a, numCreated + 1>>}
      /\ timerfd' = IF EarliestChanged(now + d) THEN HowMuchTimeFromNow(now + d) ELSE timerfd
      /\ issued' = issued \union {[id |-> <<a, numCreated + 1>>, for |-> numCreated + 1]}
  BY <1>1, <1>2 DEF Id, Entry, AddTimerInLoop
<1>4. <<a, numCreated + 1>> \notin added
  <2>1. \A x \in added : x[2] <= numCreated BY DEF TimerInv, IdInv
  <2> QED BY <1>2, <2>1
<1>5. Adding(a) BY <1>1, <1>2, <1>3, <1>4 DEF Adding
<1>6. SetsInv' /\ BatchInv' /\ CancelInv' /\ KeptInv' BY <1>5, AddingFacts
<1>7. ArmedInv' /\ timerfd' \in Nat \union {Disarmed}
  BY <1>1, <1>2, <1>3, ArmedByAdding
<1>8. TypeOK'
  <2>1. numCreated + 1 \in 0..MaxTimers BY <1>2, BoundsAssumption DEF Seqs
  <2>2. [id |-> <<a, numCreated + 1>>, for |-> numCreated + 1]
          \in [id : Addrs \X (0..MaxTimers), for : Seqs]
    BY <1>2, <2>1
  <2>3. issued' \subseteq [id : Addrs \X (0..MaxTimers), for : Seqs]
    BY <1>3, <2>2 DEF TimerInv, TypeOK
  <2>4. /\ timers' \subseteq Nat \X Addrs /\ activeTimers' \subseteq Addrs \X Seqs
        /\ added' \subseteq Addrs \X Seqs
    BY <1>2, <1>3 DEF TimerInv, TypeOK
  <2>5. cancelled' \subseteq added' /\ ran' \subseteq added'
    BY <1>1, <1>3 DEF TimerInv, TypeOK
  <2>6. numCreated' \in 0..MaxTimers BY <1>2, <2>1
  <2> QED BY <1>1, <1>2, <1>7, <2>3, <2>4, <2>5, <2>6 DEF TimerInv, TypeOK
<1>9. \A b \in Addrs : b # a => /\ Id(b)' = Id(b) /\ Entry(b)' = Entry(b)
                                /\ Active(b)' <=> Active(b)
                                /\ Batch(b)' <=> Batch(b)
  <2> SUFFICES ASSUME NEW b \in Addrs, b # a
               PROVE  /\ Id(b)' = Id(b) /\ Entry(b)' = Entry(b)
                      /\ Active(b)' <=> Active(b)
                      /\ Batch(b)' <=> Batch(b)
    OBVIOUS
  <2>1. Id(b)' = Id(b) /\ Entry(b)' = Entry(b) BY <1>2 DEF Id, Entry
  <2>2. Id(b) # <<a, numCreated + 1>> BY DEF Id
  <2> QED BY <1>1, <1>3, <2>1, <2>2 DEF Active, Batch
<1>10. OwnerInv'
  <2>1. Active(a)' /\ heap'[a] # Free BY <1>2, <1>3 DEF Active
  <2>2. ~Batch(a)' BY <1>1, <1>2, <1>3, HeapFacts DEF Batch, TimerInv
  <2> QED BY <1>1, <1>2, <1>9, <2>1, <2>2 DEF TimerInv, OwnerInv
<1>11. QueueInv'
  <2> SUFFICES ASSUME NEW k \in DOMAIN pending, pending[k].op = "add"
               PROVE  /\ pending[k].id = Id(pending[k].id[1])' /\ pending[k].id \notin added'
                      /\ \A l \in DOMAIN pending : Adds(pending, l, pending[k].id[1]) => l = k
    BY <1>1 DEF QueueInv
  <2>1. pending[k].id[1] \in Addrs /\ pending[k].id[1] # a
    BY <1>2, PendingFacts DEF TimerInv, Queued, Adds
  <2>2. pending[k].id # <<a, numCreated + 1>> BY <2>1
  <2>3. /\ pending[k].id = Id(pending[k].id[1]) /\ pending[k].id \notin added
        /\ \A l \in DOMAIN pending : Adds(pending, l, pending[k].id[1]) => l = k
    BY DEF TimerInv, QueueInv
  <2> QED BY <1>1, <1>2, <1>3, <2>1, <2>2, <2>3 DEF Id
<1>12. IdInv'
  <2>1. \A b \in Addrs : heap'[b] # Free => heap'[b].sequence <= numCreated'
    <3> SUFFICES ASSUME NEW b \in Addrs, heap'[b] # Free PROVE heap'[b].sequence <= numCreated'
      OBVIOUS
    <3>1. CASE b = a BY <1>2, <3>1
    <3>2. CASE b # a
      <4>1. heap[b] # Free /\ heap'[b] = heap[b] BY <1>2, <3>2
      <4>2. heap[b].sequence <= numCreated /\ heap[b].sequence \in Seqs
        BY <4>1, HeapFacts DEF TimerInv, IdInv
      <4> QED BY <1>2, <4>1, <4>2 DEF Seqs
    <3> QED BY <3>1, <3>2
  <2>2. \A x \in added' : x[2] <= numCreated'
    <3>1. \A x \in added : x[2] <= numCreated /\ x[2] \in Nat
      BY DEF TimerInv, IdInv, TypeOK, Seqs
    <3> QED BY <1>2, <1>3, <3>1
  <2>3. activeTimers' \subseteq added' BY <1>3 DEF TimerInv, IdInv
  <2>4. \A e \in expired' : Id(e[2])' \in added'
    BY <1>1, <1>2, <1>3, <1>9, HeapFacts DEF TimerInv, IdInv
  <2> QED BY <2>1, <2>2, <2>3, <2>4 DEF IdInv
<1> QED BY <1>6, <1>7, <1>8, <1>10, <1>11, <1>12 DEF TimerInv

\* The same calls on another thread: the Timer exists, its functor is queued.
LEMMA ThreadAddStep ==
  ASSUME TimerInv, NEW t \in Threads, NEW a \in Addrs, NEW d \in Delays, NEW i \in Nat,
         ThreadAdd(t, a, d, i)
  PROVE  TimerInv'
<1> DEFINE timer == [sequence |-> numCreated + 1, expiration |-> now + d, interval |-> i]
           f == [op |-> "add", id |-> <<a, numCreated + 1>>]
<1>1. /\ NewTimer(a, now + d, i, timer) /\ heap' = [heap EXCEPT ![a] = timer]
      /\ pending' = Append(pending, [op |-> "add", id |-> <<a, timer.sequence>>])
      /\ tpc' = [tpc EXCEPT ![t] = <<a, timer.sequence>>]
      /\ UNCHANGED <<now, clockSets, timerfd, timers, activeTimers, cancelingTimers,
                     callingExpiredTimers, expired, rest, batchNow, issued, added, cancelled, ran>>
  BY DEF ThreadAdd
<1>2. /\ heap' \in [Addrs -> Timer \union {Free}] /\ heap'[a] = timer /\ timer # Free
      /\ \A b \in Addrs : b # a => heap'[b] = heap[b]
      /\ ~Active(a) /\ ~Batch(a) /\ ~Queued(pending, a)
      /\ timer.sequence = numCreated + 1 /\ numCreated' = numCreated + 1
      /\ numCreated \in Nat /\ numCreated + 1 \in Seqs
  BY <1>1, NewTimerFacts
<1> HIDE DEF timer
<1>3. pending' = Append(pending, f) /\ Id(a)' = <<a, numCreated + 1>> BY <1>1, <1>2 DEF Id
<1>4. numCreated + 1 \in 0..MaxTimers BY <1>2, BoundsAssumption DEF Seqs
<1>5. f \in Functors /\ f.op = "add" /\ f.id = <<a, numCreated + 1>> /\ f.id[1] = a
  BY <1>4 DEF Functors
<1> HIDE DEF f
<1>6. <<a, numCreated + 1>> \notin added
  <2>1. \A x \in added : x[2] <= numCreated BY DEF TimerInv, IdInv
  <2> QED BY <1>2, <2>1
<1>7. /\ \A x \in activeTimers : x[1] \in Addrs /\ x[1] # a
      /\ \A e \in timers : e[2] \in Addrs /\ e[2] # a
      /\ \A e \in expired : e[2] \in Addrs /\ e[2] # a
  BY <1>2, HeapFacts DEF TimerInv
<1>8. \A b \in Addrs : b # a => /\ Id(b)' = Id(b) /\ Entry(b)' = Entry(b)
                                /\ Active(b)' <=> Active(b)
                                /\ Batch(b)' <=> Batch(b)
  BY <1>1, <1>2 DEF Id, Entry, Active, Batch
<1>9. ~Active(a)' /\ ~Batch(a)'
  <2>1. Id(a)' \notin activeTimers BY <1>3, <1>6 DEF TimerInv, IdInv
  <2>2. Entry(a)' \notin expired BY <1>7 DEF Entry
  <2> QED BY <1>1, <2>1, <2>2 DEF Active, Batch
<1>10. /\ pending' \in Seq(Functors)
       /\ DOMAIN pending = 1..Len(pending) /\ Len(pending) \in Nat
       /\ DOMAIN pending' = DOMAIN pending \union {Len(pending) + 1}
       /\ Len(pending) + 1 \notin DOMAIN pending
       /\ \A k \in DOMAIN pending : pending'[k] = pending[k]
       /\ pending'[Len(pending) + 1] = f
       /\ \A b : Queued(pending', b) <=> (Queued(pending, b) \/ a = b)
  BY <1>3, <1>5, PendingFacts, AppendFacts DEF TimerInv
<1>11. TypeOK'
  <2>1. tpc' \in [Threads -> (Addrs \X Seqs) \union {Idle}]
    BY <1>1, <1>2 DEF TimerInv, TypeOK
  <2>2. numCreated' \in 0..MaxTimers BY <1>2, <1>4
  <2> QED BY <1>1, <1>2, <1>10, <2>1, <2>2 DEF TimerInv, TypeOK, Functors
<1>12. SetsInv' /\ BatchInv' /\ CancelInv' /\ KeptInv' /\ ArmedInv'
  <2>1. SetsInv' BY <1>1, <1>2, <1>7, <1>8 DEF TimerInv, SetsInv
  <2>2. BatchInv' BY <1>1, <1>7, <1>8 DEF TimerInv, BatchInv
  <2>3. CancelInv' BY <1>1, <1>7, <1>8 DEF TimerInv, CancelInv
  <2>4. KeptInv' BY <1>1, <1>7, <1>8 DEF TimerInv, KeptInv
  <2>5. ArmedInv' BY <1>1 DEF TimerInv, ArmedInv
  <2> QED BY <2>1, <2>2, <2>3, <2>4, <2>5
<1>13. OwnerInv' BY <1>1, <1>2, <1>8, <1>9, <1>10 DEF TimerInv, OwnerInv
<1>14. QueueInv'
  <2> SUFFICES ASSUME NEW k \in DOMAIN pending', pending'[k].op = "add",
                      NEW c, c = pending'[k].id[1]
               PROVE  /\ pending'[k].id = <<c, heap'[c].sequence>> /\ pending'[k].id \notin added'
                      /\ \A l \in DOMAIN pending' : Adds(pending', l, c) => l = k
    BY DEF QueueInv, Id
  <2>1. \A l \in DOMAIN pending : ~Adds(pending, l, a) BY <1>2 DEF Queued
  <2>2. \A l \in DOMAIN pending : \A b : Adds(pending', l, b) <=> Adds(pending, l, b)
    BY <1>10 DEF Adds
  <2>3. CASE k = Len(pending) + 1
    <3>1. c = a /\ pending'[k].id = <<a, numCreated + 1>> BY <1>5, <1>10, <2>3
    <3> QED BY <1>1, <1>2, <1>6, <1>10, <2>1, <2>2, <2>3, <3>1
  <2>4. CASE k \in DOMAIN pending
    <3>1. pending'[k] = pending[k] /\ c \in Addrs /\ c # a
      BY <1>10, <2>1, <2>4, PendingFacts DEF TimerInv, Adds
    <3>2. /\ pending[k].id = <<c, heap[c].sequence>> /\ pending[k].id \notin added
          /\ \A l \in DOMAIN pending : Adds(pending, l, c) => l = k
      BY <2>4, <3>1 DEF TimerInv, QueueInv, Id
    <3>3. ~Adds(pending', Len(pending) + 1, c) BY <1>5, <1>10, <3>1 DEF Adds
    <3> QED BY <1>1, <1>2, <1>10, <2>2, <3>1, <3>2, <3>3
  <2> QED BY <1>10, <2>3, <2>4
<1>15. IdInv'
  <2>1. \A b \in Addrs : heap'[b] # Free => heap'[b].sequence <= numCreated'
    <3> SUFFICES ASSUME NEW b \in Addrs, heap'[b] # Free PROVE heap'[b].sequence <= numCreated'
      OBVIOUS
    <3>1. CASE b = a BY <1>2, <3>1
    <3>2. CASE b # a
      <4>1. heap[b] # Free /\ heap'[b] = heap[b] BY <1>2, <3>2
      <4>2. heap[b].sequence <= numCreated /\ heap[b].sequence \in Seqs
        BY <4>1, HeapFacts DEF TimerInv, IdInv
      <4> QED BY <1>2, <4>1, <4>2 DEF Seqs
    <3> QED BY <3>1, <3>2
  <2>2. \A x \in added' : x[2] <= numCreated'
    <3>1. \A x \in added : x[2] <= numCreated /\ x[2] \in Nat
      BY DEF TimerInv, IdInv, TypeOK, Seqs
    <3> QED BY <1>1, <1>2, <3>1
  <2> QED BY <1>1, <1>7, <1>8, <2>1, <2>2 DEF TimerInv, IdInv
<1> QED BY <1>11, <1>12, <1>13, <1>14, <1>15 DEF TimerInv

\* Steps that touch neither the Timers, nor the sets, nor the queue, nor the clock.
LEMMA QuietStep ==
  ASSUME TimerInv, TypeOK',
         UNCHANGED <<now, clockSets, timerfd, heap, numCreated, timers, activeTimers,
                     cancelingTimers, callingExpiredTimers, expired, rest, pending, added,
                     cancelled, ran>>
  PROVE  TimerInv'
<1>1. \A a : Id(a)' = Id(a) /\ Entry(a)' = Entry(a) BY DEF Id, Entry
<1>2. SetsInv' /\ BatchInv' /\ CancelInv' /\ KeptInv' /\ ArmedInv'
  BY <1>1 DEF TimerInv, SetsInv, BatchInv, CancelInv, KeptInv, ArmedInv
<1>3. OwnerInv' BY <1>1 DEF TimerInv, OwnerInv, Active, Batch
<1>4. QueueInv' BY DEF TimerInv, QueueInv, Id
<1>5. IdInv' BY <1>1 DEF TimerInv, IdInv
<1> QED BY <1>2, <1>3, <1>4, <1>5 DEF TimerInv

\* The rest of addTimer reads whatever is at the address by then.
LEMMA ThreadReturnStep ==
  ASSUME TimerInv, NEW t \in Threads, ThreadReturn(t)
  PROVE  TimerInv'
<1>1. PICK s \in 0..MaxTimers :
        issued' = issued \union {[id |-> <<tpc[t][1], s>>, for |-> tpc[t][2]]}
  BY DEF ThreadReturn
<1>2. tpc[t] \in Addrs \X Seqs BY DEF ThreadReturn, TimerInv, TypeOK
<1>3. [id |-> <<tpc[t][1], s>>, for |-> tpc[t][2]] \in [id : Addrs \X (0..MaxTimers), for : Seqs]
  BY <1>2
<1>4. issued' \subseteq [id : Addrs \X (0..MaxTimers), for : Seqs]
  BY <1>1, <1>3 DEF TimerInv, TypeOK
<1>5. tpc' \in [Threads -> (Addrs \X Seqs) \union {Idle}]
  BY DEF ThreadReturn, TimerInv, TypeOK
<1>6. TypeOK' BY <1>4, <1>5 DEF ThreadReturn, TimerInv, TypeOK
<1> QED BY <1>6, QuietStep DEF ThreadReturn

\* cancel on another thread queues a cancelInLoop.
LEMMA ThreadCancelStep ==
  ASSUME TimerInv, NEW t \in Threads, NEW id \in Ids, ThreadCancel(t, id)
  PROVE  TimerInv'
<1> DEFINE f == [op |-> "cancel", id |-> id]
<1>1. /\ pending' = Append(pending, f)
      /\ UNCHANGED <<now, clockSets, timerfd, heap, numCreated, timers, activeTimers,
                     cancelingTimers, callingExpiredTimers, expired, rest, batchNow,
                     tpc, issued, added, cancelled, ran>>
  BY DEF ThreadCancel
<1>2. f \in Functors /\ f.op = "cancel" BY DEF Ids, TimerInv, TypeOK, Functors
<1> HIDE DEF f
<1>3. /\ pending' \in Seq(Functors)
      /\ DOMAIN pending' = DOMAIN pending \union {Len(pending) + 1}
      /\ \A k \in DOMAIN pending : pending'[k] = pending[k]
      /\ pending'[Len(pending) + 1] = f
      /\ \A b : Queued(pending', b) <=> Queued(pending, b)
  BY <1>1, <1>2, PendingFacts, AppendFacts DEF TimerInv
<1>4. \A a : Id(a)' = Id(a) /\ Entry(a)' = Entry(a) BY <1>1 DEF Id, Entry
<1>5. TypeOK' BY <1>1, <1>3 DEF TimerInv, TypeOK, Functors
<1>6. SetsInv' /\ BatchInv' /\ CancelInv' /\ KeptInv' /\ ArmedInv'
  BY <1>1, <1>4 DEF TimerInv, SetsInv, BatchInv, CancelInv, KeptInv, ArmedInv
<1>7. OwnerInv' BY <1>1, <1>3, <1>4 DEF TimerInv, OwnerInv, Active, Batch
<1>8. QueueInv'
  <2> SUFFICES ASSUME NEW k \in DOMAIN pending', pending'[k].op = "add",
                      NEW c, c = pending'[k].id[1]
               PROVE  /\ pending'[k].id = <<c, heap'[c].sequence>> /\ pending'[k].id \notin added'
                      /\ \A l \in DOMAIN pending' : Adds(pending', l, c) => l = k
    BY DEF QueueInv, Id
  <2>1. k \in DOMAIN pending /\ pending'[k] = pending[k] BY <1>2, <1>3
  <2>2. /\ pending[k].id = <<c, heap[c].sequence>> /\ pending[k].id \notin added
        /\ \A l \in DOMAIN pending : Adds(pending, l, c) => l = k
    BY <2>1 DEF TimerInv, QueueInv, Id
  <2>3. \A l \in DOMAIN pending' :
          Adds(pending', l, c) => l \in DOMAIN pending /\ Adds(pending, l, c)
    BY <1>2, <1>3 DEF Adds
  <2> QED BY <1>1, <2>1, <2>2, <2>3
<1>9. IdInv' BY <1>1, <1>4 DEF TimerInv, IdInv
<1> QED BY <1>5, <1>6, <1>7, <1>8, <1>9 DEF TimerInv

\* What doPendingFunctors leaves in the queue is as it was.
LEMMA QueueTail ==
  ASSUME TimerInv, pending # << >>, pending' = Tail(pending),
         \A a \in Addrs : Queued(Tail(pending), a) =>
                          heap'[a] = heap[a] /\ <<a, heap[a].sequence>> \notin added'
  PROVE  QueueInv'
<1> SUFFICES ASSUME NEW k \in DOMAIN pending', pending'[k].op = "add",
                    NEW c, c = pending'[k].id[1]
             PROVE  /\ pending'[k].id = <<c, heap'[c].sequence>> /\ pending'[k].id \notin added'
                    /\ \A l \in DOMAIN pending' : Adds(pending', l, c) => l = k
  BY DEF QueueInv, Id
<1>1. /\ 1 \in DOMAIN pending /\ Head(pending) = pending[1]
  BY PendingFacts, HeadTailProperties DEF TimerInv
<1>2. \A l \in DOMAIN pending' : l \in Nat /\ l + 1 \in DOMAIN pending
                                /\ pending'[l] = pending[l + 1]
  <2>1. Head(pending).op = "add" =>
          \A l \in DOMAIN pending : Adds(pending, l, Head(pending).id[1]) => l = 1
    BY <1>1 DEF TimerInv, QueueInv
  <2> QED BY <2>1, PendingFacts, TailFacts DEF TimerInv
<1>3. c \in Addrs /\ Queued(pending', c) BY <1>2, PendingFacts DEF TimerInv, Queued, Adds
<1>4. /\ pending'[k].id = <<c, heap[c].sequence>>
      /\ \A l \in DOMAIN pending : Adds(pending, l, c) => l = k + 1
  BY <1>2 DEF TimerInv, QueueInv, Id
<1>5. ASSUME NEW l \in DOMAIN pending', Adds(pending', l, c) PROVE l = k
  <2>1. Adds(pending, l + 1, c) BY <1>2, <1>5 DEF Adds
  <2>2. l + 1 = k + 1 BY <1>2, <1>4, <2>1
  <2> QED BY <1>2, <2>2
<1> QED BY <1>3, <1>4, <1>5

\* cancelInLoop: a waiting timer is deleted, one of the running batch is noted.
LEMMA CancelFacts ==
  ASSUME TimerInv, NEW id \in Addrs \X (0..MaxTimers), CancelInLoop(id),
         UNCHANGED <<now, clockSets, timerfd, numCreated, callingExpiredTimers, expired, rest,
                     added, ran>>
  PROVE  /\ SetsInv' /\ IdInv' /\ BatchInv' /\ CancelInv' /\ KeptInv' /\ ArmedInv'
         /\ heap' \in [Addrs -> Timer \union {Free}]
         /\ timers' \subseteq timers /\ activeTimers' \subseteq activeTimers
         /\ cancelingTimers' \subseteq Addrs \X (0..MaxTimers) /\ cancelled' \subseteq added
         /\ \A a \in Addrs :
              \/ Active(a) /\ heap'[a] = Free /\ ~Active(a)' /\ ~Batch(a)'
              \/ heap'[a] = heap[a] /\ (Active(a)' <=> Active(a)) /\ (Batch(a)' <=> Batch(a))
<1>1. cancelled' = cancelled \union ({id} \intersect added) BY DEF CancelInLoop
<1>2. cancelled' \subseteq added BY <1>1 DEF TimerInv, TypeOK
<1>3. ASSUME id \in activeTimers
      PROVE  /\ SetsInv' /\ IdInv' /\ BatchInv' /\ CancelInv' /\ KeptInv' /\ ArmedInv'
             /\ heap' \in [Addrs -> Timer \union {Free}]
             /\ timers' \subseteq timers /\ activeTimers' \subseteq activeTimers
             /\ cancelingTimers' \subseteq Addrs \X (0..MaxTimers)
             /\ \A a \in Addrs :
                  \/ Active(a) /\ heap'[a] = Free /\ ~Active(a)' /\ ~Batch(a)'
                  \/ heap'[a] = heap[a] /\ (Active(a)' <=> Active(a)) /\ (Batch(a)' <=> Batch(a))
  <2>1. PICK a \in Addrs : a = id[1] OBVIOUS
  <2>2. /\ timers' = timers \ {Entry(a)} /\ activeTimers' = activeTimers \ {id}
        /\ heap' = [heap EXCEPT ![a] = Free] /\ UNCHANGED cancelingTimers
    BY <1>3, <2>1 DEF CancelInLoop, Entry
  <2>3. id = Id(a) /\ Active(a) /\ heap[a] # Free /\ ~Batch(a) /\ id \in added
    BY <1>3, <2>1 DEF TimerInv, SetsInv, OwnerInv, IdInv, Active
  <2>4. /\ heap' \in [Addrs -> Timer \union {Free}] /\ heap'[a] = Free
        /\ \A b \in Addrs : b # a => heap'[b] = heap[b]
    BY <2>2 DEF TimerInv, TypeOK
  <2>5. \A b \in Addrs : b # a => Id(b)' = Id(b) /\ Entry(b)' = Entry(b)
                                 /\ Id(b) # id /\ Entry(b) # Entry(a)
    BY <2>3, <2>4 DEF Id, Entry
  <2>6. /\ \A x \in activeTimers' : x \in activeTimers /\ x # id /\ x[1] \in Addrs /\ x[1] # a
        /\ \A e \in timers' : e \in timers /\ e # Entry(a) /\ e[2] \in Addrs /\ e[2] # a
        /\ \A e \in expired : e[2] \in Addrs /\ e[2] # a
    BY <2>2, <2>3, HeapFacts DEF TimerInv, SetsInv
  <2>7. SetsInv'
    <3>1. \A x \in activeTimers' :
            heap'[x[1]] # Free /\ x = Id(x[1])' /\ Entry(x[1])' \in timers'
      BY <2>2, <2>4, <2>5, <2>6 DEF TimerInv, SetsInv
    <3>2. \A e \in timers' : e = Entry(e[2])' /\ Id(e[2])' \in activeTimers'
      BY <2>2, <2>5, <2>6 DEF TimerInv, SetsInv
    <3>3. \A e \in expired' : heap'[e[2]] # Free /\ e = Entry(e[2])'
      BY <2>4, <2>5, <2>6 DEF TimerInv, SetsInv
    <3> QED BY <3>1, <3>2, <3>3 DEF SetsInv
  <2>8. IdInv' BY <2>2, <2>4, <2>5, <2>6 DEF TimerInv, IdInv
  <2>9. BatchInv' BY <2>5, <2>6 DEF TimerInv, BatchInv
  <2>10. CancelInv'
    <3>1. \A x \in activeTimers' : x \notin cancelled' BY <1>1, <2>6 DEF TimerInv, CancelInv
    <3>2. \A e \in expired' : Id(e[2])' \in cancelled' => Id(e[2])' \in cancelingTimers'
      BY <1>1, <2>2, <2>5, <2>6 DEF TimerInv, CancelInv
    <3> QED BY <3>1, <3>2 DEF CancelInv
  <2>11. KeptInv'
    <3> SUFFICES ASSUME NEW x \in added
                 PROVE  x \in cancelled' \/ x \in activeTimers' \/ x \in ran
                        \/ \E e \in expired : x = Id(e[2])'
      BY DEF KeptInv
    <3>1. CASE x = id BY <1>1, <2>3, <3>1
    <3>2. CASE x # id BY <1>1, <2>2, <2>5, <2>6, <3>2 DEF TimerInv, KeptInv
    <3> QED BY <3>1, <3>2
  <2>12. ArmedInv' BY <2>2 DEF TimerInv, ArmedInv
  <2>13. ~Active(a)' /\ ~Batch(a)'
    <3>1. Id(a)' \notin activeTimers'
      <4>1. Id(a)'[1] = a BY DEF Id
      <4> QED BY <2>6, <4>1
    <3>2. Entry(a)' \notin expired'
      <4>1. Entry(a)'[2] = a BY DEF Entry
      <4> QED BY <2>6, <4>1
    <3> QED BY <3>1, <3>2 DEF Active, Batch
  <2>14. \A b \in Addrs : b # a => (Active(b)' <=> Active(b)) /\ (Batch(b)' <=> Batch(b))
    BY <2>2, <2>5 DEF Active, Batch
  <2>15. cancelingTimers' \subseteq Addrs \X (0..MaxTimers) BY <2>2 DEF TimerInv, TypeOK
  <2> QED BY <2>2, <2>3, <2>4, <2>7, <2>8, <2>9, <2>10, <2>11, <2>12, <2>13, <2>14, <2>15
<1>4. ASSUME id \notin activeTimers
      PROVE  /\ SetsInv' /\ IdInv' /\ BatchInv' /\ CancelInv' /\ KeptInv' /\ ArmedInv'
             /\ UNCHANGED <<timers, activeTimers, heap>>
             /\ cancelingTimers' \subseteq Addrs \X (0..MaxTimers)
             /\ \A a \in Addrs : (Active(a)' <=> Active(a)) /\ (Batch(a)' <=> Batch(a))
  <2>1. /\ UNCHANGED <<timers, activeTimers, heap>>
        /\ cancelingTimers' = IF callingExpiredTimers
                              THEN cancelingTimers \union {id} ELSE cancelingTimers
    BY <1>4 DEF CancelInLoop
  <2>2. \A a : Id(a)' = Id(a) /\ Entry(a)' = Entry(a) BY <2>1 DEF Id, Entry
  <2>3. SetsInv' /\ IdInv' /\ BatchInv' /\ ArmedInv'
    BY <2>1, <2>2 DEF TimerInv, SetsInv, IdInv, BatchInv, ArmedInv
  <2>4. CancelInv'
    <3>1. \A x \in activeTimers' : x \notin cancelled'
      BY <1>1, <1>4, <2>1 DEF TimerInv, CancelInv
    <3>2. \A e \in expired : Id(e[2]) \in cancelled' => Id(e[2]) \in cancelingTimers'
      BY <1>1, <2>1 DEF TimerInv, CancelInv, BatchInv
    <3> QED BY <2>2, <3>1, <3>2 DEF CancelInv
  <2>5. KeptInv' BY <1>1, <2>1, <2>2 DEF TimerInv, KeptInv
  <2>6. cancelingTimers' \subseteq Addrs \X (0..MaxTimers) BY <2>1 DEF TimerInv, TypeOK
  <2> QED BY <2>1, <2>2, <2>3, <2>4, <2>5, <2>6 DEF Active, Batch
<1>5. heap \in [Addrs -> Timer \union {Free}] BY DEF TimerInv, TypeOK
<1> QED BY <1>2, <1>3, <1>4, <1>5

\* cancel on the loop thread.
LEMMA LoopCancelStep ==
  ASSUME TimerInv, NEW id \in Ids, LoopCancel(id)
  PROVE  TimerInv'
<1>1. id \in Addrs \X (0..MaxTimers) BY DEF Ids, TimerInv, TypeOK
<1>2. /\ CancelInLoop(id)
      /\ UNCHANGED <<now, clockSets, timerfd, numCreated, callingExpiredTimers, expired, rest,
                     batchNow, pending, tpc, issued, added, ran>>
  BY DEF LoopCancel
<1>3. /\ SetsInv' /\ IdInv' /\ BatchInv' /\ CancelInv' /\ KeptInv' /\ ArmedInv'
      /\ heap' \in [Addrs -> Timer \union {Free}]
      /\ timers' \subseteq timers /\ activeTimers' \subseteq activeTimers
      /\ cancelingTimers' \subseteq Addrs \X (0..MaxTimers) /\ cancelled' \subseteq added
      /\ \A a \in Addrs :
           \/ Active(a) /\ heap'[a] = Free /\ ~Active(a)' /\ ~Batch(a)'
           \/ heap'[a] = heap[a] /\ (Active(a)' <=> Active(a)) /\ (Batch(a)' <=> Batch(a))
  BY <1>1, <1>2, CancelFacts
<1>4. TypeOK' BY <1>2, <1>3 DEF TimerInv, TypeOK
<1>5. OwnerInv' BY <1>2, <1>3 DEF TimerInv, OwnerInv
<1>6. QueueInv'
  <2>1. \A a \in Addrs : Queued(pending, a) => heap'[a] = heap[a] BY <1>3 DEF TimerInv, OwnerInv
  <2> SUFFICES ASSUME NEW k \in DOMAIN pending, pending[k].op = "add",
                      NEW c, c = pending[k].id[1]
               PROVE  /\ pending[k].id = <<c, heap'[c].sequence>> /\ pending[k].id \notin added
                      /\ \A l \in DOMAIN pending : Adds(pending, l, c) => l = k
    BY <1>2 DEF QueueInv, Id
  <2>2. c \in Addrs /\ Queued(pending, c) BY PendingFacts DEF TimerInv, Queued, Adds
  <2> QED BY <2>1, <2>2 DEF TimerInv, QueueInv, Id
<1> QED BY <1>3, <1>4, <1>5, <1>6 DEF TimerInv

\* doPendingFunctors runs an addTimerInLoop or a cancelInLoop.
LEMMA FunctorStep == ASSUME TimerInv, RunFunctor PROVE TimerInv'
<1> DEFINE f == Head(pending)
<1>1. /\ pending # << >> /\ pending' = Tail(pending) /\ ~callingExpiredTimers
      /\ UNCHANGED <<now, clockSets, numCreated, callingExpiredTimers, expired, rest, batchNow,
                     tpc, issued, ran>>
      /\ \/ /\ f.op = "add" /\ AddTimerInLoop(f.id[1], heap[f.id[1]])
            /\ UNCHANGED <<heap, cancelingTimers, cancelled>>
         \/ f.op = "cancel" /\ CancelInLoop(f.id) /\ UNCHANGED <<timerfd, added>>
  BY DEF RunFunctor
<1>2. 1 \in DOMAIN pending /\ f = pending[1]
  BY <1>1, PendingFacts, HeadTailProperties DEF TimerInv
<1>3. f.op = "add" => \A l \in DOMAIN pending : Adds(pending, l, f.id[1]) => l = 1
  BY <1>2 DEF TimerInv, QueueInv
<1>4. /\ Tail(pending) \in Seq(Functors)
      /\ f \in Functors /\ f.id[1] \in Addrs /\ f.id \in Addrs \X (0..MaxTimers)
      /\ \A a : Queued(Tail(pending), a) <=> (Queued(pending, a) /\ ~(f.op = "add" /\ f.id[1] = a))
  BY <1>1, <1>2, <1>3, PendingFacts, TailFacts DEF TimerInv
<1> HIDE DEF f
<1>5. CASE f.op = "add"
  <2>1. PICK a \in Addrs : a = f.id[1] BY <1>4
  <2>2. /\ heap' = heap /\ UNCHANGED <<cancelingTimers, cancelled>>
        /\ AddTimerInLoop(a, heap[a])
    BY <1>1, <1>5, <2>1
  <2>3. Queued(pending, a) /\ f.id = Id(a) /\ Id(a) \notin added
    BY <1>2, <1>5, <2>1 DEF Queued, Adds, TimerInv, QueueInv
  <2>4. heap[a] # Free /\ ~Active(a) /\ ~Batch(a) BY <2>3 DEF TimerInv, OwnerInv
  <2>5. \A b : Id(b)' = Id(b) /\ Entry(b)' = Entry(b) BY <2>2 DEF Id, Entry
  <2>6. /\ timers' = timers \union {Entry(a)} /\ activeTimers' = activeTimers \union {Id(a)}
        /\ added' = added \union {Id(a)}
        /\ timerfd' = IF EarliestChanged(heap[a].expiration)
                      THEN HowMuchTimeFromNow(heap[a].expiration) ELSE timerfd
    BY <2>2 DEF AddTimerInLoop, Entry, Id
  <2>7. Adding(a) BY <1>1, <2>2, <2>3, <2>4, <2>5, <2>6 DEF Adding
  <2>8. SetsInv' /\ BatchInv' /\ CancelInv' /\ KeptInv' BY <2>7, AddingFacts
  <2>9. heap[a].expiration \in Nat /\ heap[a].sequence \in Seqs
    BY <2>4, HeapFacts DEF TimerInv
  <2>10. ArmedInv' /\ timerfd' \in Nat \union {Disarmed}
    <3>1. timers' = timers \union {<<heap[a].expiration, a>>} BY <2>6 DEF Entry
    <3> QED BY <1>1, <2>6, <2>9, <3>1, ArmedByAdding
  <2>11. TypeOK'
    <3>1. Id(a) \in Addrs \X Seqs /\ Entry(a) \in Nat \X Addrs BY <2>9 DEF Id, Entry
    <3>2. /\ timers' \subseteq Nat \X Addrs /\ activeTimers' \subseteq Addrs \X Seqs
          /\ added' \subseteq Addrs \X Seqs /\ cancelled' \subseteq added' /\ ran' \subseteq added'
      BY <1>1, <2>2, <2>6, <3>1 DEF TimerInv, TypeOK
    <3> QED BY <1>1, <1>4, <2>2, <2>10, <3>2 DEF TimerInv, TypeOK, Functors
  <2>12. \A b \in Addrs : b # a => (Active(b)' <=> Active(b)) /\ (Batch(b)' <=> Batch(b))
    <3>1. \A b \in Addrs : b # a => Id(b) # Id(a) BY DEF Id
    <3> QED BY <1>1, <2>5, <2>6, <3>1 DEF Active, Batch
  <2>13. OwnerInv'
    <3>1. Active(a)' /\ ~Batch(a)' /\ ~Queued(pending', a)
      BY <1>1, <1>4, <1>5, <2>1, <2>4, <2>5, <2>6 DEF Active, Batch
    <3> QED BY <1>1, <1>4, <2>1, <2>2, <2>12, <3>1 DEF TimerInv, OwnerInv
  <2>14. QueueInv'
    <3>1. ASSUME NEW b \in Addrs, Queued(Tail(pending), b)
          PROVE  heap'[b] = heap[b] /\ <<b, heap[b].sequence>> \notin added'
      <4>1. Queued(pending, b) /\ b # a BY <1>4, <1>5, <2>1, <3>1
      <4>2. Id(b) \notin added BY <4>1 DEF Queued, Adds, TimerInv, QueueInv
      <4>3. Id(b) # Id(a) BY <4>1 DEF Id
      <4>4. Id(b) \notin added' BY <2>6, <4>2, <4>3
      <4> QED BY <2>2, <4>4 DEF Id
    <3> QED BY <1>1, <3>1, QueueTail
  <2>15. IdInv'
    <3>1. Id(a)[2] <= numCreated BY <2>4 DEF TimerInv, IdInv, Id
    <3>2. \A x \in added' : x[2] <= numCreated BY <2>6, <3>1 DEF TimerInv, IdInv
    <3> QED BY <1>1, <2>2, <2>5, <2>6, <3>2 DEF TimerInv, IdInv
  <2> QED BY <2>8, <2>10, <2>11, <2>13, <2>14, <2>15 DEF TimerInv
<1>6. CASE f.op = "cancel"
  <2>1. CancelInLoop(f.id) /\ UNCHANGED <<timerfd, added>> BY <1>1, <1>6
  <2>2. /\ SetsInv' /\ IdInv' /\ BatchInv' /\ CancelInv' /\ KeptInv' /\ ArmedInv'
        /\ heap' \in [Addrs -> Timer \union {Free}]
        /\ timers' \subseteq timers /\ activeTimers' \subseteq activeTimers
        /\ cancelingTimers' \subseteq Addrs \X (0..MaxTimers) /\ cancelled' \subseteq added
        /\ \A a \in Addrs :
             \/ Active(a) /\ heap'[a] = Free /\ ~Active(a)' /\ ~Batch(a)'
             \/ heap'[a] = heap[a] /\ (Active(a)' <=> Active(a)) /\ (Batch(a)' <=> Batch(a))
    BY <1>1, <1>4, <2>1, CancelFacts
  <2>3. TypeOK' BY <1>1, <1>4, <2>1, <2>2 DEF TimerInv, TypeOK, Functors
  <2>4. \A a : Queued(pending', a) <=> Queued(pending, a) BY <1>1, <1>4, <1>6
  <2>5. OwnerInv' BY <2>2, <2>4 DEF TimerInv, OwnerInv
  <2>6. QueueInv'
    <3>1. ASSUME NEW b \in Addrs, Queued(Tail(pending), b)
          PROVE  heap'[b] = heap[b] /\ <<b, heap[b].sequence>> \notin added'
      <4>1. Queued(pending, b) BY <1>4, <3>1
      <4>2. heap'[b] = heap[b] BY <2>2, <4>1 DEF TimerInv, OwnerInv
      <4>3. Id(b) \notin added BY <4>1 DEF Queued, Adds, TimerInv, QueueInv
      <4> QED BY <2>1, <4>2, <4>3 DEF Id
    <3> QED BY <1>1, <3>1, QueueTail
  <2> QED BY <2>2, <2>3, <2>5, <2>6 DEF TimerInv
<1> QED BY <1>1, <1>5, <1>6

\* handleRead takes what has expired out of both sets.
LEMMA ReadStep == ASSUME TimerInv, HandleRead PROVE TimerInv'
<1>1. /\ timerfd' = Disarmed /\ callingExpiredTimers' = TRUE /\ cancelingTimers' = {}
      /\ expired' = {e \in timers : e[1] <= now} /\ rest' = expired'
      /\ timers' = timers \ expired'
      /\ activeTimers' = activeTimers \ {Id(e[2]) : e \in expired'}
      /\ batchNow' = now
      /\ UNCHANGED <<now, clockSets, heap, numCreated, pending, tpc, issued, added, cancelled, ran>>
  BY DEF HandleRead, GetExpired, Id
<1>2. expired = {} BY DEF HandleRead, TimerInv, BatchInv
<1>3. \A a : Id(a)' = Id(a) /\ Entry(a)' = Entry(a) BY <1>1 DEF Id, Entry
<1>4. expired' \subseteq timers BY <1>1
<1>5. \A e \in timers : e = Entry(e[2]) /\ e[2] \in Addrs /\ Id(e[2]) \in activeTimers
                        /\ heap[e[2]] # Free
  BY HeapFacts DEF TimerInv, SetsInv, Active
<1>6. \A a \in Addrs : Active(a) => heap[a] # Free /\ Entry(a) \in timers
  BY DEF TimerInv, SetsInv, Active, Id
<1>7. \A a, b : (Id(a) = Id(b) => a = b) /\ (Entry(a) = Entry(b) => a = b) BY DEF Id, Entry
<1>8. \A a \in Addrs : /\ Batch(a)' => Active(a)
                       /\ Active(a)' <=> Active(a) /\ ~Batch(a)'
  <2> SUFFICES ASSUME NEW a \in Addrs
               PROVE  /\ Batch(a)' => Active(a)
                      /\ Active(a)' <=> Active(a) /\ ~Batch(a)'
    OBVIOUS
  <2>1. Batch(a)' <=> Entry(a) \in expired' BY <1>3 DEF Batch
  <2>2. Batch(a)' => Active(a)
    <3>1. Entry(a)[2] = a BY DEF Entry
    <3> QED BY <1>4, <1>5, <2>1, <3>1 DEF Active
  <2>3. Id(a) \in {Id(e[2]) : e \in expired'} <=> Entry(a) \in expired'
    <3>1. Entry(a)[2] = a BY DEF Entry
    <3>2. ASSUME NEW e \in expired', Id(a) = Id(e[2]) PROVE Entry(a) \in expired'
      BY <1>4, <1>5, <1>7, <3>2
    <3> QED BY <3>1, <3>2
  <2> QED BY <1>1, <1>3, <2>1, <2>2, <2>3 DEF Active
<1>9. TypeOK'
  <2>1. timers' \subseteq Nat \X Addrs /\ activeTimers' \subseteq Addrs \X Seqs
        /\ expired' \subseteq Nat \X Addrs
    BY <1>1, <1>4 DEF TimerInv, TypeOK
  <2> QED BY <1>1, <2>1 DEF TimerInv, TypeOK
<1>10. SetsInv'
  <2>1. ASSUME NEW x \in activeTimers'
        PROVE  heap'[x[1]] # Free /\ x = Id(x[1])' /\ Entry(x[1])' \in timers'
    <3>1. x \in activeTimers /\ x[1] \in Addrs BY <1>1, HeapFacts DEF TimerInv
    <3>2. x = Id(x[1]) /\ heap[x[1]] # Free /\ Entry(x[1]) \in timers
      BY <3>1 DEF TimerInv, SetsInv
    <3>3. Active(x[1])' BY <1>3, <2>1, <3>2 DEF Active
    <3>4. Entry(x[1]) \notin expired' BY <1>3, <1>8, <3>1, <3>3 DEF Batch
    <3> QED BY <1>1, <1>3, <3>2, <3>4
  <2>2. ASSUME NEW e \in timers' PROVE e = Entry(e[2])' /\ Id(e[2])' \in activeTimers'
    <3>1. e \in timers /\ e \notin expired' BY <1>1
    <3>2. Active(e[2]) /\ ~Batch(e[2])' BY <1>3, <1>5, <3>1 DEF Active, Batch
    <3>3. Active(e[2])' BY <1>5, <1>8, <3>1, <3>2
    <3> QED BY <1>3, <1>5, <3>1, <3>3 DEF Active
  <2>3. \A e \in expired' : heap'[e[2]] # Free /\ e = Entry(e[2])'
    BY <1>1, <1>3, <1>4, <1>5
  <2> QED BY <2>1, <2>2, <2>3 DEF SetsInv
<1>11. OwnerInv'
  <2>1. \A a \in Addrs : ~Batch(a) BY <1>2 DEF Batch
  <2> QED BY <1>1, <1>8, <2>1 DEF TimerInv, OwnerInv
<1>12. QueueInv' BY <1>1 DEF TimerInv, QueueInv, Id
<1>13. IdInv'
  <2>1. \A e \in expired' : Id(e[2]) \in added BY <1>4, <1>5 DEF TimerInv, IdInv
  <2> QED BY <1>1, <1>3, <2>1 DEF TimerInv, IdInv
<1>14. BatchInv' /\ ArmedInv' BY <1>1 DEF BatchInv, ArmedInv
<1>15. CancelInv'
  <2>1. \A e \in expired' : Id(e[2]) \notin cancelled BY <1>4, <1>5 DEF TimerInv, CancelInv
  <2> QED BY <1>1, <1>3, <2>1 DEF TimerInv, CancelInv
<1>16. KeptInv' BY <1>1, <1>2, <1>3 DEF TimerInv, KeptInv
<1> QED BY <1>9, <1>10, <1>11, <1>12, <1>13, <1>14, <1>15, <1>16 DEF TimerInv

\* The next callback of the batch.
LEMMA CallbackStep == ASSUME TimerInv, RunTimer PROVE TimerInv'
<1> DEFINE e == First(rest)
<1>1. /\ rest' = rest \ {e} /\ ran' = ran \union {Id(e[2])} /\ rest # {}
      /\ UNCHANGED <<now, clockSets, timerfd, heap, numCreated, timers, activeTimers,
                     cancelingTimers, callingExpiredTimers, expired, batchNow, pending,
                     tpc, issued, added, cancelled>>
  BY DEF RunTimer, Id
<1>2. e \in rest /\ e \in expired
  <2>1. rest \subseteq Nat \X Addrs /\ rest \subseteq expired BY DEF TimerInv, TypeOK
  <2>2. First(rest) \in rest BY <1>1, <2>1, FirstFacts
  <2> QED BY <2>1, <2>2
<1> HIDE DEF e
<1>3. Id(e[2]) \in added BY <1>2 DEF TimerInv, IdInv
<1>4. \A a : Id(a)' = Id(a) /\ Entry(a)' = Entry(a) BY <1>1 DEF Id, Entry
<1>5. TypeOK'
  <2>1. rest' \subseteq expired' /\ ran' \subseteq added' BY <1>1, <1>3 DEF TimerInv, TypeOK
  <2> QED BY <1>1, <2>1 DEF TimerInv, TypeOK
<1>6. SetsInv' /\ CancelInv' /\ KeptInv' /\ ArmedInv'
  BY <1>1, <1>4 DEF TimerInv, SetsInv, CancelInv, KeptInv, ArmedInv
<1>7. BatchInv'
  <2>1. \A g \in expired \ rest' : Id(g[2]) \in ran'
    <3> SUFFICES ASSUME NEW g \in expired \ rest' PROVE Id(g[2]) \in ran' OBVIOUS
    <3>1. g = e \/ g \in expired \ rest BY <1>1
    <3> QED BY <1>1, <3>1 DEF TimerInv, BatchInv
  <2> QED BY <1>1, <1>4, <2>1 DEF TimerInv, BatchInv
<1>8. OwnerInv' BY <1>1, <1>4 DEF TimerInv, OwnerInv, Active, Batch
<1>9. QueueInv' BY <1>1 DEF TimerInv, QueueInv, Id
<1>10. IdInv' BY <1>1, <1>4 DEF TimerInv, IdInv
<1> QED BY <1>5, <1>6, <1>7, <1>8, <1>9, <1>10 DEF TimerInv

\* The Timer at a goes on after the batch.
Goes(a) == Batch(a) /\ heap[a].interval > 0 /\ Id(a) \notin cancelingTimers

\* reset, address by address.
LEMMA ResetFacts ==
  ASSUME TimerInv, FinishBatch
  PROVE  /\ heap' \in [Addrs -> Timer \union {Free}]
         /\ \A a \in Addrs : Goes(a) =>
              /\ Id(a)' = Id(a) /\ Entry(a)' = <<batchNow + heap[a].interval, a>>
              /\ heap'[a] # Free /\ batchNow + heap[a].interval \in Nat
              /\ Id(a)' \in activeTimers' /\ Entry(a)' \in timers'
         /\ \A a \in Addrs : Batch(a) /\ ~Goes(a) => heap'[a] = Free
         /\ \A a \in Addrs : ~Batch(a) =>
              heap'[a] = heap[a] /\ Id(a)' = Id(a) /\ Entry(a)' = Entry(a)
         /\ activeTimers \subseteq activeTimers' /\ timers \subseteq timers'
         /\ \A x \in activeTimers' :
              x \in activeTimers \/ \E a \in Addrs : Goes(a) /\ x = Id(a)'
         /\ \A e \in timers' :
              e \in timers \/ \E a \in Addrs : Goes(a) /\ e = Entry(a)'
<1>1. /\ heap' = [a \in Addrs |-> RestartOrDelete(a)]
      /\ timers' = timers \union {<<batchNow + heap[e[2]].interval, e[2]>> : e \in Restarted}
      /\ activeTimers' = activeTimers \union {Id(e[2]) : e \in Restarted}
  BY DEF FinishBatch, Id
<1>2. \A e \in expired : e[2] \in Addrs /\ e = Entry(e[2]) /\ Batch(e[2])
  BY HeapFacts DEF TimerInv, SetsInv
<1>3. \A e \in Restarted : e \in expired /\ Goes(e[2]) /\ e[2] \in Addrs
  BY <1>2 DEF Restarted, Goes, Id
<1>4. \A a \in Addrs : Goes(a) => Entry(a) \in Restarted /\ Entry(a)[2] = a
  BY DEF Goes, Restarted, Batch, Id, Entry
<1>5. \A a \in Addrs : Batch(a) => Entry(a) \in expired /\ Entry(a)[2] = a BY DEF Batch, Entry
<1>6. ASSUME NEW a \in Addrs, Goes(a)
      PROVE  /\ heap'[a] \in Timer /\ heap'[a] # Free
             /\ Id(a)' = Id(a) /\ Entry(a)' = <<batchNow + heap[a].interval, a>>
             /\ batchNow + heap[a].interval \in Nat
             /\ Id(a)' \in activeTimers' /\ Entry(a)' \in timers'
  <2>1. heap[a] # Free /\ heap[a] \in Timer /\ heap[a].interval \in Nat
    BY <1>6, HeapFacts DEF TimerInv, Goes
  <2>2. batchNow + heap[a].interval \in Nat
    BY <2>1, BoundsAssumption DEF TimerInv, TypeOK
  <2>3. heap'[a] = [heap[a] EXCEPT !.expiration = batchNow + heap[a].interval]
    BY <1>1, <1>4, <1>6 DEF RestartOrDelete
  <2>4. /\ heap'[a] \in Timer /\ heap'[a].sequence = heap[a].sequence
        /\ heap'[a].expiration = batchNow + heap[a].interval
    BY <2>1, <2>2, <2>3 DEF Timer
  <2>5. heap'[a] # Free
    <3>1. Free.sequence = 0 /\ heap'[a].sequence \in Seqs BY <2>4 DEF Free, Timer
    <3> QED BY <3>1, BoundsAssumption DEF Seqs
  <2>6. Id(a)' = Id(a) /\ Entry(a)' = <<batchNow + heap[a].interval, a>>
    BY <2>4 DEF Id, Entry
  <2>7. Id(a) \in activeTimers' /\ <<batchNow + heap[a].interval, a>> \in timers'
    BY <1>1, <1>4, <1>6
  <2> QED BY <2>2, <2>4, <2>5, <2>6, <2>7
<1>7. ASSUME NEW a \in Addrs, Batch(a), ~Goes(a) PROVE heap'[a] = Free
  BY <1>1, <1>3, <1>5, <1>7 DEF RestartOrDelete
<1>8. ASSUME NEW a \in Addrs, ~Batch(a) PROVE heap'[a] = heap[a]
  BY <1>1, <1>2, <1>3, <1>8 DEF RestartOrDelete
<1>9. ASSUME NEW a \in Addrs, ~Batch(a) PROVE Id(a)' = Id(a) /\ Entry(a)' = Entry(a)
  BY <1>8, <1>9 DEF Id, Entry
<1>10. heap' \in [Addrs -> Timer \union {Free}]
  <2>1. \A a \in Addrs : heap[a] \in Timer \union {Free} BY DEF TimerInv, TypeOK
  <2>2. \A a \in Addrs : heap'[a] \in Timer \union {Free} BY <1>6, <1>7, <1>8, <2>1
  <2>3. heap' = [a \in Addrs |-> heap'[a]] BY <1>1
  <2> QED BY <2>2, <2>3
<1>11. ASSUME NEW x \in activeTimers'
       PROVE  x \in activeTimers \/ \E a \in Addrs : Goes(a) /\ x = Id(a)'
  BY <1>1, <1>3, <1>6
<1>12. ASSUME NEW g \in timers'
       PROVE  g \in timers \/ \E a \in Addrs : Goes(a) /\ g = Entry(a)'
  BY <1>1, <1>3, <1>6
<1>13. activeTimers \subseteq activeTimers' /\ timers \subseteq timers' BY <1>1
<1> QED BY <1>6, <1>7, <1>8, <1>9, <1>10, <1>11, <1>12, <1>13

\* The end of handleRead.
LEMMA FinishStep == ASSUME TimerInv, FinishBatch PROVE TimerInv'
<1>1. /\ callingExpiredTimers' = FALSE /\ expired' = {} /\ rest = {}
      /\ timerfd' = Rearmed(timers')
      /\ UNCHANGED <<now, clockSets, numCreated, cancelingTimers, rest, batchNow, pending,
                     tpc, issued, added, cancelled, ran>>
  BY DEF FinishBatch
<1>2. /\ heap' \in [Addrs -> Timer \union {Free}]
      /\ \A a \in Addrs : Goes(a) =>
           /\ Id(a)' = Id(a) /\ Entry(a)' = <<batchNow + heap[a].interval, a>>
           /\ heap'[a] # Free /\ batchNow + heap[a].interval \in Nat
           /\ Id(a)' \in activeTimers' /\ Entry(a)' \in timers'
      /\ \A a \in Addrs : Batch(a) /\ ~Goes(a) => heap'[a] = Free
      /\ \A a \in Addrs : ~Batch(a) =>
           heap'[a] = heap[a] /\ Id(a)' = Id(a) /\ Entry(a)' = Entry(a)
      /\ activeTimers \subseteq activeTimers' /\ timers \subseteq timers'
      /\ \A x \in activeTimers' :
           x \in activeTimers \/ \E a \in Addrs : Goes(a) /\ x = Id(a)'
      /\ \A e \in timers' :
           e \in timers \/ \E a \in Addrs : Goes(a) /\ e = Entry(a)'
  BY ResetFacts
<1>3. \A a \in Addrs : Goes(a) => /\ Batch(a) /\ heap[a] # Free
                                  /\ Id(a) \in added /\ Id(a) \notin cancelled
                                  /\ Id(a) \in Addrs \X Seqs
  <2> SUFFICES ASSUME NEW a \in Addrs, Goes(a)
               PROVE  /\ Batch(a) /\ heap[a] # Free
                      /\ Id(a) \in added /\ Id(a) \notin cancelled
                      /\ Id(a) \in Addrs \X Seqs
    OBVIOUS
  <2>1. Batch(a) /\ heap[a] # Free /\ Id(a) \notin cancelingTimers
    BY HeapFacts DEF Goes, TimerInv
  <2>2. Entry(a) \in expired /\ Entry(a)[2] = a BY <2>1 DEF Batch, Entry
  <2>3. Id(a) \in added /\ Id(a) \notin cancelled
    BY <2>1, <2>2 DEF TimerInv, IdInv, CancelInv
  <2> QED BY <2>1, <2>3 DEF TimerInv, TypeOK
<1>4. /\ \A x \in activeTimers : /\ x[1] \in Addrs /\ x = Id(x[1]) /\ heap[x[1]] # Free
                                 /\ Entry(x[1]) \in timers /\ ~Batch(x[1])
      /\ \A e \in timers : /\ e[2] \in Addrs /\ e = Entry(e[2])
                           /\ Id(e[2]) \in activeTimers /\ ~Batch(e[2])
  BY HeapFacts DEF TimerInv, SetsInv, OwnerInv
<1>5. \A a : Id(a)[1] = a /\ Id(a)'[1] = a /\ Entry(a)'[2] = a BY DEF Id, Entry
<1>6. SetsInv'
  <2>1. ASSUME NEW x \in activeTimers'
        PROVE  heap'[x[1]] # Free /\ x = Id(x[1])' /\ Entry(x[1])' \in timers'
    <3>1. CASE x \in activeTimers BY <1>2, <1>4, <3>1
    <3>2. CASE \E a \in Addrs : Goes(a) /\ x = Id(a)' BY <1>2, <1>5, <3>2
    <3> QED BY <1>2, <3>1, <3>2
  <2>2. ASSUME NEW e \in timers' PROVE e = Entry(e[2])' /\ Id(e[2])' \in activeTimers'
    <3>1. CASE e \in timers BY <1>2, <1>4, <3>1
    <3>2. CASE \E a \in Addrs : Goes(a) /\ e = Entry(a)' BY <1>2, <1>5, <3>2
    <3> QED BY <1>2, <3>1, <3>2
  <2> QED BY <1>1, <2>1, <2>2 DEF SetsInv
<1>7. timers' \subseteq Nat \X Addrs
  <2> SUFFICES ASSUME NEW e \in timers' PROVE e \in Nat \X Addrs OBVIOUS
  <2>1. CASE e \in timers BY <2>1 DEF TimerInv, TypeOK
  <2>2. CASE \E a \in Addrs : Goes(a) /\ e = Entry(a)' BY <1>2, <2>2
  <2> QED BY <1>2, <2>1, <2>2
<1>8. activeTimers' \subseteq Addrs \X Seqs /\ activeTimers' \subseteq added
  <2> SUFFICES ASSUME NEW x \in activeTimers' PROVE x \in Addrs \X Seqs /\ x \in added OBVIOUS
  <2>1. CASE x \in activeTimers BY <2>1 DEF TimerInv, TypeOK, IdInv
  <2>2. CASE \E a \in Addrs : Goes(a) /\ x = Id(a)' BY <1>2, <1>3, <2>2
  <2> QED BY <1>2, <2>1, <2>2
<1>9. ArmedInv' /\ timerfd' \in Nat \union {Disarmed}
  <2>1. now \in Nat /\ timerfd \in Nat \union {Disarmed}
    BY BoundsAssumption DEF TimerInv, TypeOK
  <2>2. CASE timers' = {}
    <3>1. timerfd' = timerfd BY <1>1, <2>2 DEF Rearmed
    <3> QED BY <2>1, <2>2, <3>1 DEF ArmedInv
  <2>3. CASE timers' # {}
    <3>1. First(timers') \in timers' /\ \A e \in timers' : First(timers')[1] <= e[1]
      BY <1>7, <2>3, FirstFacts
    <3>2. PICK n \in Nat : n = First(timers')[1] BY <1>7, <3>1
    <3>3. timerfd' = HowMuchTimeFromNow(n) BY <1>1, <2>3, <3>2 DEF Rearmed
    <3>4. timerfd' \in Nat /\ (timerfd' <= 1 \/ now + timerfd' = n)
      BY <2>1, <3>3 DEF HowMuchTimeFromNow
    <3>5. timerfd' # Disarmed BY <3>4 DEF Disarmed
    <3>6. timerfd' <= 1 \/ \A e \in timers' : now' + timerfd' <= e[1] BY <1>1, <3>1, <3>2, <3>4
    <3> QED BY <3>4, <3>5, <3>6 DEF ArmedInv
  <2> QED BY <2>2, <2>3
<1>10. TypeOK'
  <2>1. rest' \subseteq expired' /\ expired' \subseteq Nat \X Addrs BY <1>1
  <2> QED BY <1>1, <1>2, <1>7, <1>8, <1>9, <2>1 DEF TimerInv, TypeOK
<1>11. OwnerInv'
  <2> SUFFICES ASSUME NEW a \in Addrs
               PROVE  /\ heap'[a] # Free => Active(a)' \/ Queued(pending, a)
                      /\ Queued(pending, a) => heap'[a] # Free /\ ~Active(a)'
    BY <1>1 DEF OwnerInv, Batch
  <2>1. CASE Goes(a) BY <1>2, <1>3, <2>1 DEF Active, TimerInv, OwnerInv
  <2>2. CASE Batch(a) /\ ~Goes(a) BY <1>2, <2>2 DEF TimerInv, OwnerInv
  <2>3. CASE ~Batch(a)
    <3>1. heap'[a] = heap[a] /\ Id(a)' = Id(a) BY <1>2, <2>3
    <3>2. ASSUME Id(a)' \in activeTimers' PROVE Id(a) \in activeTimers
      <4>1. CASE Id(a)' \in activeTimers BY <3>1, <4>1
      <4>2. CASE \E b \in Addrs : Goes(b) /\ Id(a)' = Id(b)'
        <5>1. PICK b \in Addrs : Goes(b) /\ Id(a)' = Id(b)' BY <4>2
        <5>2. a = b BY <5>1 DEF Id
        <5> QED BY <1>3, <2>3, <5>1, <5>2
      <4> QED BY <1>2, <3>2, <4>1, <4>2
    <3> QED BY <1>2, <2>3, <3>1, <3>2 DEF Active, TimerInv, OwnerInv
  <2> QED BY <2>1, <2>2, <2>3
<1>12. QueueInv'
  <2> SUFFICES ASSUME NEW k \in DOMAIN pending, pending[k].op = "add",
                      NEW c, c = pending[k].id[1]
               PROVE  /\ pending[k].id = <<c, heap'[c].sequence>> /\ pending[k].id \notin added
                      /\ \A l \in DOMAIN pending : Adds(pending, l, c) => l = k
    BY <1>1 DEF QueueInv, Id
  <2>1. c \in Addrs /\ Queued(pending, c) BY PendingFacts DEF TimerInv, Queued, Adds
  <2>2. heap'[c] = heap[c] BY <1>2, <2>1 DEF TimerInv, OwnerInv
  <2> QED BY <2>2 DEF TimerInv, QueueInv, Id
<1>13. IdInv'
  <2>1. ASSUME NEW a \in Addrs, heap'[a] # Free PROVE heap'[a].sequence <= numCreated
    <3>1. Id(a)' = Id(a) /\ heap[a] # Free BY <1>2, <1>3, <2>1
    <3>2. heap'[a].sequence = heap[a].sequence BY <3>1 DEF Id
    <3> QED BY <3>1, <3>2 DEF TimerInv, IdInv
  <2> QED BY <1>1, <1>8, <2>1 DEF TimerInv, IdInv
<1>14. BatchInv' BY <1>1 DEF BatchInv
<1>15. CancelInv'
  <2>1. ASSUME NEW x \in activeTimers' PROVE x \notin cancelled
    <3>1. CASE x \in activeTimers BY <3>1 DEF TimerInv, CancelInv
    <3>2. CASE \E a \in Addrs : Goes(a) /\ x = Id(a)' BY <1>2, <1>3, <3>2
    <3> QED BY <1>2, <3>1, <3>2
  <2> QED BY <1>1, <2>1 DEF CancelInv
<1>16. KeptInv' BY <1>1, <1>2 DEF TimerInv, KeptInv, BatchInv
<1> QED BY <1>6, <1>9, <1>10, <1>11, <1>12, <1>13, <1>14, <1>15, <1>16 DEF TimerInv

\* A tick counts the timerfd down, a setting of the clock does not.
LEMMA TimeStep == ASSUME TimerInv, Tick \/ SetClock PROVE TimerInv'
<1>1. UNCHANGED <<heap, numCreated, timers, activeTimers, cancelingTimers, callingExpiredTimers,
                  expired, rest, batchNow, pending, tpc, issued, added, cancelled, ran>>
  BY DEF Tick, SetClock
<1>2. /\ now \in 0..MaxTime /\ MaxTime \in Nat /\ timerfd \in Nat \union {Disarmed}
      /\ clockSets \in 0..MaxClockSets /\ MaxClockSets \in Nat
      /\ \A e \in timers : e[1] \in Nat
  BY BoundsAssumption DEF TimerInv, TypeOK
<1>3. /\ now' \in 0..MaxTime /\ clockSets' \in 0..MaxClockSets
      /\ timerfd' \in Nat \union {Disarmed} /\ ArmedInv'
  <2>1. CASE Tick
    <3>1. /\ now' \in 0..MaxTime /\ now' <= now + 1 /\ clockSets' = clockSets
          /\ timerfd > 0 => timerfd' = timerfd - 1
          /\ ~(timerfd > 0) => timerfd' = timerfd
      BY <1>2, <2>1 DEF Tick
    <3>2. timerfd' \in Nat \union {Disarmed} BY <1>2, <3>1 DEF Disarmed
    <3> SUFFICES ASSUME ~callingExpiredTimers, timers # {}
                 PROVE  /\ timerfd' # Disarmed
                        /\ clockSets = 0 => \/ timerfd' <= 1
                                            \/ \A e \in timers : now' + timerfd' <= e[1]
      BY <1>1, <1>2, <3>1, <3>2 DEF ArmedInv
    <3>3. /\ timerfd # Disarmed
          /\ clockSets = 0 => \/ timerfd <= 1
                              \/ \A e \in timers : now + timerfd <= e[1]
      BY DEF TimerInv, ArmedInv
    <3>4. timerfd \in Nat BY <1>2, <3>3
    <3>5. timerfd' \in Nat /\ timerfd' # Disarmed BY <3>1, <3>4 DEF Disarmed
    <3>6. timerfd <= 1 => timerfd' <= 1 BY <3>1, <3>4
    <3>7. timerfd > 0 => \A e \in timers : now + timerfd <= e[1] => now' + timerfd' <= e[1]
      BY <1>2, <3>1, <3>4
    <3> QED BY <3>3, <3>4, <3>5, <3>6, <3>7
  <2>2. CASE SetClock
    <3>1. now' \in 0..MaxTime /\ clockSets' = clockSets + 1 /\ timerfd' = timerfd
          /\ clockSets < MaxClockSets
      BY <2>2 DEF SetClock
    <3>2. clockSets' \in 0..MaxClockSets /\ clockSets' # 0 BY <1>2, <3>1
    <3> QED BY <1>1, <1>2, <3>1, <3>2 DEF TimerInv, ArmedInv
  <2> QED BY <2>1, <2>2
<1>4. TypeOK' BY <1>1, <1>3 DEF TimerInv, TypeOK
<1>5. \A a : Id(a)' = Id(a) /\ Entry(a)' = Entry(a) BY <1>1 DEF Id, Entry
<1>6. SetsInv' /\ BatchInv' /\ CancelInv' /\ KeptInv'
  BY <1>1, <1>5 DEF TimerInv, SetsInv, BatchInv, CancelInv, KeptInv
<1>7. OwnerInv' BY <1>1, <1>5 DEF TimerInv, OwnerInv, Active, Batch
<1>8. QueueInv' BY <1>1 DEF TimerInv, QueueInv, Id
<1>9. IdInv' BY <1>1, <1>5 DEF TimerInv, IdInv
<1> QED BY <1>3, <1>4, <1>6, <1>7, <1>8, <1>9 DEF TimerInv

-----------------------------------------------------------------------------
(* The theorems *)

\* The invariant above holds of every timer queue.
THEOREM TimerInvariant == Spec => []TimerInv
<1>1. Init => TimerInv BY TimerInit
<1>2. TimerInv /\ [Next]_vars => TimerInv'
  <2> SUFFICES ASSUME TimerInv, [Next]_vars PROVE TimerInv' OBVIOUS
  <2>1. ASSUME NEW a \in Addrs, NEW d \in Delays, LoopAdd(a, d, 0) \/ (d > 0 /\ LoopAdd(a, d, d))
        PROVE  TimerInv'
    <3>1. d \in Nat /\ 0 \in Nat BY BoundsAssumption
    <3> QED BY <2>1, <3>1, LoopAddStep
  <2>2. ASSUME NEW t \in Threads, NEW a \in Addrs, NEW d \in Delays,
               ThreadAdd(t, a, d, 0) \/ (d > 0 /\ ThreadAdd(t, a, d, d))
        PROVE  TimerInv'
    <3>1. d \in Nat /\ 0 \in Nat BY BoundsAssumption
    <3> QED BY <2>2, <3>1, ThreadAddStep
  <2>3. CASE UNCHANGED vars
    <3>1. TypeOK' BY <2>3 DEF TimerInv, TypeOK, vars
    <3> QED BY <2>3, <3>1, QuietStep DEF vars
  <2> QED BY <2>1, <2>2, <2>3, LoopCancelStep, ThreadReturnStep, ThreadCancelStep, FunctorStep,
             ReadStep, CallbackStep, FinishStep, TimeStep
          DEF Next
<1> QED BY <1>1, <1>2, PTL DEF Spec

\* timers_, activeTimers_, the batch, the Timer objects and the timerfd agree: every
\* Timer has one owner, so that none is leaked, deleted twice or called after delete, and
\* a waiting timer means a timerfd armed in time.
THEOREM TimersAgree == Spec => []TimersConsistent
<1>1. TimerInv => TimersConsistent
  <2> SUFFICES ASSUME TimerInv PROVE TimersConsistent OBVIOUS
  <2>1. TypeOK /\ SetsInv BY DEF TimerInv
  <2>2. SetsAgree
    <3>1. \A x \in activeTimers : heap[x[1]].sequence = x[2] /\ heap[x[1]] # Free
                                  /\ <<heap[x[1]].expiration, x[1]>> \in timers
      BY <2>1 DEF SetsInv, Id, Entry
    <3>2. ASSUME NEW e \in timers
          PROVE  \E x \in activeTimers : heap[x[1]] # Free /\ e = <<heap[x[1]].expiration, x[1]>>
      <4>1. Id(e[2]) \in activeTimers /\ Id(e[2])[1] = e[2] /\ e = <<heap[e[2]].expiration, e[2]>>
        BY <2>1 DEF SetsInv, Id, Entry
      <4> QED BY <3>1, <4>1
    <3>3. {y \in activeTimers : heap[y[1]] # Free} = activeTimers BY <3>1
    <3>4. timers = {<<heap[x[1]].expiration, x[1]>> : x \in activeTimers} BY <3>1, <3>2
    <3> QED BY <3>1, <3>3, <3>4 DEF SetsAgree
  <2>3. HeapOwned
    <3>1. /\ \A a : a \in QueuedAddrs <=> Queued(pending, a)
          /\ QueuedAddrs \subseteq Addrs
      BY <2>1, PendingFacts DEF QueuedAddrs, Queued, Adds
    <3>2. /\ \A a \in Addrs : a \in ActiveAddrs <=> Active(a)
          /\ ActiveAddrs \subseteq Addrs
      <4>1. \A a : Id(a)[1] = a BY DEF Id
      <4> QED BY <2>1, <4>1, HeapFacts DEF ActiveAddrs, Active
    <3>3. /\ \A a \in Addrs : a \in BatchAddrs <=> Batch(a)
          /\ BatchAddrs \subseteq Addrs
      <4>1. \A a : Entry(a)[2] = a BY DEF Entry
      <4> QED BY <2>1, <4>1, HeapFacts DEF BatchAddrs, Batch
    <3>4. \A a \in Addrs : Active(a) \/ Batch(a) => heap[a] # Free BY <2>1, HeapFacts
    <3>5. OwnerInv BY DEF TimerInv
    <3>6. {a \in Addrs : heap[a] # Free} = QueuedAddrs \union ActiveAddrs \union BatchAddrs
      BY <3>1, <3>2, <3>3, <3>4, <3>5 DEF OwnerInv
    <3>7. /\ QueuedAddrs \intersect ActiveAddrs = {} /\ QueuedAddrs \intersect BatchAddrs = {}
          /\ ActiveAddrs \intersect BatchAddrs = {}
      BY <3>1, <3>2, <3>3, <3>4, <3>5 DEF OwnerInv
    <3> QED BY <3>6, <3>7 DEF HeapOwned
  <2>4. TimerfdArmed
    <3> SUFFICES ASSUME ~callingExpiredTimers, timers # {}
                 PROVE  /\ timerfd # Disarmed
                        /\ clockSets = 0 => now + timerfd <= First(timers)[1] \/ timerfd <= 1
      BY DEF TimerfdArmed
    <3>1. First(timers) \in timers BY <2>1, FirstFacts DEF TypeOK
    <3> QED BY <3>1 DEF TimerInv, ArmedInv
  <2> QED BY <2>1, <2>2, <2>3, <2>4 DEF TimersConsistent
<1> QED BY <1>1, TimerInvariant, PTL

\* A timer cancelled after it was added is out for good, also when it is cancelled in a
\* callback of the batch it belongs to.
THEOREM CancelledStaysOut == Spec => []CancelIsFinal
<1>1. TimerInv => CancelIsFinal BY DEF TimerInv, CancelInv, CancelIsFinal, InBatch, Id
<1> QED BY <1>1, TimerInvariant, PTL

\* A cancel stops no timer but the one its id names, although addresses are used again.
THEOREM CancelHitsItsOwn == Spec => []NothingLost
<1>1. TimerInv => NothingLost BY DEF TimerInv, KeptInv, NothingLost, InBatch, Id
<1> QED BY <1>1, TimerInvariant, PTL

=============================================================================
