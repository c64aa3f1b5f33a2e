----------------------------- MODULE TimerQueue -----------------------------
(***************************************************************************)
(* The timers of an EventLoop (net/TimerQueue.cc, net/Timer.cc,            *)
(* net/Timer.h and runAt, runAfter, runEvery, cancel of net/EventLoop.cc). *)
(*                                                                         *)
(* timers_ holds pairs of an expiration and the address of a Timer,        *)
(* activeTimers_ the same timers as pairs of address and sequence; a       *)
(* TimerId is such a second pair.  One timerfd wakes the loop for the      *)
(* earliest timer.  An address is free again after delete and the next     *)
(* Timer may get it, which is what sequence numbers are for.               *)
(*                                                                         *)
(* Time is counted in ticks of 100 microseconds, the least delay           *)
(* howMuchTimeFromNow asks for.  now is the wall clock the expirations are *)
(* written in; the timerfd counts its own ticks down (CLOCK_MONOTONIC) and *)
(* does not notice when somebody sets the wall clock.                      *)
(*                                                                         *)
(* The functors other threads leave in the loop are run here one at a time *)
(* and in order whenever the loop thread is between two handlers; how they *)
(* get there is EventLoop's subject.                                       *)
(***************************************************************************)
EXTENDS Integers, Sequences

CONSTANTS
  Threads,       \* threads other than the loop thread that use timers
  NumAddrs,      \* how many Timer objects fit on the heap
  MaxTimers,     \* bound: Timer objects ever created
  MaxTime,       \* bound: the last value of the wall clock
  Delays,        \* delays and intervals asked for, in ticks
  MaxClockSets   \* bound: how often the wall clock is set

ASSUME BoundsAssumption ==
  /\ NumAddrs \in Nat /\ MaxTimers \in Nat /\ MaxTime \in Nat /\ MaxClockSets \in Nat
  /\ Delays \subseteq Nat

VARIABLES
  now,                   \* Timestamp::now()
  clockSets,             \* how often the clock was set so far
  timerfd,               \* ticks until the timerfd is readable, or Disarmed
  heap,                  \* the Timer object at each address, or Free
  numCreated,            \* Timer::s_numCreated_
  timers,                \* timers_
  activeTimers,          \* activeTimers_
  cancelingTimers,       \* cancelingTimers_
  callingExpiredTimers,  \* callingExpiredTimers_
  expired,               \* handleRead's vector of entries, here a set
  rest,                  \* the entries of expired whose callback is still to run
  batchNow,              \* handleRead's local now
  pending,               \* pendingFunctors_ of the loop: adds and cancels
  tpc,                   \* per thread: the Timer it is adding, or Idle
  issued,                \* TimerIds returned, each with the timer it was returned for
  added,                 \* history: timers addTimerInLoop has run for
  cancelled,             \* history: of those, the ones cancelInLoop was called for later
  ran                    \* history: timers whose callback has run

vars == <<now, clockSets, timerfd, heap, numCreated, timers, activeTimers,
          cancelingTimers, callingExpiredTimers, expired, rest, batchNow,
          pending, tpc, issued, added, cancelled, ran>>

Addrs == 1..NumAddrs
Seqs == 1..MaxTimers
Disarmed == -1
Free == [sequence |-> 0]
Idle == <<0, 0>>

\* A Timer: callback_ is left out, repeat_ is interval > 0.
Timer == [sequence : Seqs, expiration : Nat, interval : Nat]

\* The TimerQueue constructor: nothing to wait for, the timerfd disarmed.
Init ==
  /\ now = 0
  /\ clockSets = 0
  /\ timerfd = Disarmed
  /\ heap = [a \in Addrs |-> Free]
  /\ numCreated = 0
  /\ timers = {}
  /\ activeTimers = {}
  /\ cancelingTimers = {}
  /\ callingExpiredTimers = FALSE
  /\ expired = {}
  /\ rest = {}
  /\ batchNow = 0
  /\ pending = << >>
  /\ tpc = [t \in Threads |-> Idle]
  /\ issued = {}
  /\ added = {}
  /\ cancelled = {}
  /\ ran = {}

-----------------------------------------------------------------------------
(* The timerfd and the two sets *)

\* The order of timers_: by expiration, then by address.
Before(e, f) == e[1] < f[1] \/ (e[1] = f[1] /\ e[2] < f[2])
First(S) == CHOOSE e \in S : \A f \in S \ {e} : Before(e, f)

\* howMuchTimeFromNow: the relative time resetTimerfd passes to timerfd_settime.
HowMuchTimeFromNow(when) == IF when > now THEN when - now ELSE 1

\* insert's test: the new timer comes before everything in timers_.
EarliestChanged(when) == \A e \in timers : when < e[1]

\* Is the loop thread running user code?  Between two events any handler may
\* run; in handleRead the callbacks of expired timers do.
InUserCode == ~callingExpiredTimers \/ rest # expired

-----------------------------------------------------------------------------
(* Operations of the loop thread on the queue *)

\* addTimerInLoop and insert.
AddTimerInLoop(a, timer) ==
  /\ timers' = timers \union {<<timer.expiration, a>>}
  /\ activeTimers' = activeTimers \union {<<a, timer.sequence>>}
  /\ timerfd' = IF EarliestChanged(timer.expiration)
                THEN HowMuchTimeFromNow(timer.expiration) ELSE timerfd
  /\ added' = added \union {<<a, timer.sequence>>}

\* Slip: a timer of the running batch cannot be cancelled.
CancelInLoopNotInBatch(id) ==
  /\ IF id \in activeTimers
     THEN /\ timers' = timers \ {<<heap[id[1]].expiration, id[1]>>}
          /\ activeTimers' = activeTimers \ {id}
          /\ heap' = [heap EXCEPT ![id[1]] = Free]
     ELSE UNCHANGED <<timers, activeTimers, heap>>
  /\ cancelled' = cancelled \union ({id} \intersect added)
  /\ UNCHANGED cancelingTimers

\* Slip: the timer is looked up by its address.
CancelInLoopByAddress(id) ==
  /\ LET found == {x \in activeTimers : x[1] = id[1]} IN
     IF found # {}
     THEN /\ timers' = timers \ {<<heap[id[1]].expiration, id[1]>>}
          /\ activeTimers' = activeTimers \ found
          /\ heap' = [heap EXCEPT ![id[1]] = Free]
          /\ UNCHANGED cancelingTimers
     ELSE /\ cancelingTimers' = IF callingExpiredTimers
                                THEN cancelingTimers \union {id} ELSE cancelingTimers
          /\ UNCHANGED <<timers, activeTimers, heap>>
  /\ cancelled' = cancelled \union ({id} \intersect added)

\* cancelInLoop.  The timerfd stays armed as it was.
CancelInLoop(id) ==
  /\ \/ /\ id \in activeTimers
        /\ timers' = timers \ {<<heap[id[1]].expiration, id[1]>>}
        /\ activeTimers' = activeTimers \ {id}
        /\ heap' = [heap EXCEPT ![id[1]] = Free]
        /\ UNCHANGED cancelingTimers
     \/ /\ id \notin activeTimers
        /\ cancelingTimers' = IF callingExpiredTimers
                              THEN cancelingTimers \union {id} ELSE cancelingTimers
        /\ UNCHANGED <<timers, activeTimers, heap>>
  /\ cancelled' = cancelled \union ({id} \intersect added)

\* new Timer(cb, when, interval): an address that is free, the next sequence.
NewTimer(a, when, interval, timer) ==
  /\ numCreated < MaxTimers
  /\ heap[a] = Free
  /\ when <= MaxTime
  /\ timer = [sequence |-> numCreated + 1, expiration |-> when, interval |-> interval]
  /\ numCreated' = numCreated + 1

-----------------------------------------------------------------------------
(* User code *)

\* runAt, runAfter (interval 0) and runEvery on the loop thread: runInLoop calls
\* addTimerInLoop at once and the id is read from the timer it was given.
LoopAdd(a, delay, interval) ==
  LET timer == [sequence |-> numCreated + 1, expiration |-> now + delay, interval |-> interval] IN
  /\ InUserCode
  /\ NewTimer(a, now + delay, interval, timer)
  /\ heap' = [heap EXCEPT ![a] = timer]
  /\ AddTimerInLoop(a, timer)
  /\ issued' = issued \union {[id |-> <<a, timer.sequence>>, for |-> timer.sequence]}
  /\ UNCHANGED <<now, clockSets, cancelingTimers, callingExpiredTimers, expired, rest,
                 batchNow, pending, tpc, cancelled, ran>>

\* The same calls on another thread, up to the queueing of addTimerInLoop.
ThreadAdd(t, a, delay, interval) ==
  LET timer == [sequence |-> numCreated + 1, expiration |-> now + delay, interval |-> interval] IN
  /\ tpc[t] = Idle
  /\ NewTimer(a, now + delay, interval, timer)
  /\ heap' = [heap EXCEPT ![a] = timer]
  /\ pending' = Append(pending, [op |-> "add", id |-> <<a, timer.sequence>>])
  /\ tpc' = [tpc EXCEPT ![t] = <<a, timer.sequence>>]
  /\ UNCHANGED <<now, clockSets, timerfd, timers, activeTimers, cancelingTimers,
                 callingExpiredTimers, expired, rest, batchNow, issued, added, cancelled, ran>>

\* The rest of addTimer: timer->sequence() is read when the loop already has
\* the timer.  The object may be deleted (any value) or replaced by another.
ThreadReturn(t) ==
  /\ tpc[t] # Idle
  /\ \E s \in 0..MaxTimers :
       /\ heap[tpc[t][1]] # Free => s = heap[tpc[t][1]].sequence
       /\ issued' = issued \union {[id |-> <<tpc[t][1], s>>, for |-> tpc[t][2]]}
  /\ tpc' = [tpc EXCEPT ![t] = Idle]
  /\ UNCHANGED <<now, clockSets, timerfd, heap, numCreated, timers, activeTimers,
                 cancelingTimers, callingExpiredTimers, expired, rest, batchNow,
                 pending, added, cancelled, ran>>

\* cancel on the loop thread.
LoopCancel(id) ==
  /\ InUserCode
  /\ CancelInLoop(id)
  /\ UNCHANGED <<now, clockSets, timerfd, numCreated, callingExpiredTimers, expired, rest,
                 batchNow, pending, tpc, issued, added, ran>>

\* cancel on another thread.
ThreadCancel(t, id) ==
  /\ tpc[t] = Idle
  /\ \A k \in DOMAIN pending : pending[k] # [op |-> "cancel", id |-> id]
  /\ pending' = Append(pending, [op |-> "cancel", id |-> id])
  /\ UNCHANGED <<now, clockSets, timerfd, heap, numCreated, timers, activeTimers,
                 cancelingTimers, callingExpiredTimers, expired, rest, batchNow,
                 tpc, issued, added, cancelled, ran>>

-----------------------------------------------------------------------------
(* The loop *)

\* doPendingFunctors reaches the next functor: an add or a cancel.
RunFunctor ==
  /\ ~callingExpiredTimers
  /\ pending # << >>
  /\ pending' = Tail(pending)
  /\ LET f == Head(pending) IN
     \/ /\ f.op = "add"
        /\ AddTimerInLoop(f.id[1], heap[f.id[1]])
        /\ UNCHANGED <<heap, cancelingTimers, cancelled>>
     \/ /\ f.op = "cancel"
        /\ CancelInLoop(f.id)
        /\ UNCHANGED <<timerfd, added>>
  /\ UNCHANGED <<now, clockSets, numCreated, callingExpiredTimers, expired, rest, batchNow,
                 tpc, issued, ran>>

\* getExpired takes the expired entries out of both sets.
GetExpired(entries) ==
  /\ timers' = timers \ entries
  /\ activeTimers' = activeTimers \ {<<e[2], heap[e[2]].sequence>> : e \in entries}

\* handleRead up to its loop over the callbacks: readTimerfd and getExpired.  If an
\* earlier callback of the same round of the loop has set the timerfd again, handleRead
\* still runs and takes what is due, although its read finds nothing.  Left out here:
\* the same entries are taken when the timerfd has counted down again.
HandleRead ==
  /\ ~callingExpiredTimers
  /\ timerfd = 0
  /\ timerfd' = Disarmed
  /\ expired' = {e \in timers : e[1] <= now}
  /\ rest' = expired'
  /\ GetExpired(expired')
  /\ callingExpiredTimers' = TRUE
  /\ cancelingTimers' = {}
  /\ batchNow' = now
  /\ UNCHANGED <<now, clockSets, heap, numCreated, pending, tpc, issued, added, cancelled, ran>>

\* The next callback of the batch starts; its user code is the actions above.
RunTimer ==
  /\ callingExpiredTimers
  /\ rest # {}
  /\ LET e == First(rest) IN
     /\ rest' = rest \ {e}
     /\ ran' = ran \union {<<e[2], heap[e[2]].sequence>>}
  /\ UNCHANGED <<now, clockSets, timerfd, heap, numCreated, timers, activeTimers,
                 cancelingTimers, callingExpiredTimers, expired, batchNow, pending,
                 tpc, issued, added, cancelled>>

\* reset's test: the timers of the batch that go on.
Restarted ==
  {e \in expired : /\ heap[e[2]].interval > 0
                   /\ <<e[2], heap[e[2]].sequence>> \notin cancelingTimers}

\* Slip: the timerfd is left alone at the end of the batch.
NotRearmed(entries) == timerfd

\* reset arms the timerfd for the earliest timer, if there is one.
Rearmed(entries) ==
  IF entries # {} THEN HowMuchTimeFromNow(First(entries)[1]) ELSE timerfd

\* Slip: a timer of the batch is deleted although it goes on.
DeleteAll(a) == IF \E e \in expired : e[2] = a THEN Free ELSE heap[a]

\* What reset makes of the Timer at address a: restart(now) or delete.
RestartOrDelete(a) ==
  IF \E e \in Restarted : e[2] = a
  THEN [heap[a] EXCEPT !.expiration = batchNow + heap[a].interval]
  ELSE IF \E e \in expired : e[2] = a THEN Free ELSE heap[a]

\* The end of handleRead: reset restarts the repeating timers nobody cancelled,
\* deletes the others and arms the timerfd for the earliest that is left.
FinishBatch ==
  /\ callingExpiredTimers
  /\ rest = {}
  /\ callingExpiredTimers' = FALSE
  /\ heap' = [a \in Addrs |-> RestartOrDelete(a)]
  /\ timers' = timers \union {<<batchNow + heap[e[2]].interval, e[2]>> : e \in Restarted}
  /\ activeTimers' = activeTimers \union {<<e[2], heap[e[2]].sequence>> : e \in Restarted}
  /\ timerfd' = Rearmed(timers')
  /\ expired' = {}
  /\ UNCHANGED <<now, clockSets, numCreated, cancelingTimers, rest, batchNow, pending,
                 tpc, issued, added, cancelled, ran>>

-----------------------------------------------------------------------------
(* Time *)

\* A tick passes on both clocks; the wall clock ends at MaxTime.
Tick ==
  /\ now < MaxTime \/ timerfd > 0
  /\ now' = IF now < MaxTime THEN now + 1 ELSE now
  /\ timerfd' = IF timerfd > 0 THEN timerfd - 1 ELSE timerfd
  /\ UNCHANGED <<clockSets, heap, numCreated, timers, activeTimers, cancelingTimers,
                 callingExpiredTimers, expired, rest, batchNow, pending, tpc, issued,
                 added, cancelled, ran>>

\* Somebody sets the wall clock; the timerfd does not notice.
SetClock ==
  /\ clockSets < MaxClockSets
  /\ clockSets' = clockSets + 1
  /\ now' \in 0..MaxTime \ {now}
  /\ UNCHANGED <<timerfd, heap, numCreated, timers, activeTimers, cancelingTimers,
                 callingExpiredTimers, expired, rest, batchNow, pending, tpc, issued,
                 added, cancelled, ran>>

Ids == {x.id : x \in issued}

Next ==
  \/ \E a \in Addrs, d \in Delays : LoopAdd(a, d, 0) \/ (d > 0 /\ LoopAdd(a, d, d))
  \/ \E id \in Ids : LoopCancel(id)
  \/ \E t \in Threads :
       \/ \E a \in Addrs, d \in Delays : ThreadAdd(t, a, d, 0) \/ (d > 0 /\ ThreadAdd(t, a, d, d))
       \/ ThreadReturn(t)
       \/ \E id \in Ids : ThreadCancel(t, id)
  \/ RunFunctor
  \/ HandleRead
  \/ RunTimer
  \/ FinishBatch
  \/ Tick
  \/ SetClock

Spec == Init /\ [][Next]_vars

\* The loop thread goes on whenever it can, and time passes.
FairSpec ==
  /\ Spec
  /\ WF_vars(RunFunctor) /\ WF_vars(HandleRead) /\ WF_vars(RunTimer) /\ WF_vars(FinishBatch)
  /\ WF_vars(Tick)

-----------------------------------------------------------------------------
(* Properties *)

\* The type invariant.
TypeOK ==
  /\ now \in 0..MaxTime
  /\ clockSets \in 0..MaxClockSets
  /\ timerfd \in Nat \union {Disarmed}
  /\ heap \in [Addrs -> Timer \union {Free}]
  /\ numCreated \in 0..MaxTimers
  /\ timers \subseteq Nat \X Addrs
  /\ activeTimers \subseteq Addrs \X Seqs
  /\ cancelingTimers \subseteq Addrs \X (0..MaxTimers)
  /\ callingExpiredTimers \in BOOLEAN
  /\ expired \subseteq Nat \X Addrs
  /\ rest \subseteq expired
  /\ batchNow \in 0..MaxTime
  /\ pending \in Seq([op : {"add", "cancel"}, id : Addrs \X (0..MaxTimers)])
  /\ tpc \in [Threads -> (Addrs \X Seqs) \union {Idle}]
  /\ issued \subseteq [id : Addrs \X (0..MaxTimers), for : Seqs]
  /\ added \subseteq Addrs \X Seqs
  /\ cancelled \subseteq added
  /\ ran \subseteq added

\* timers_ and activeTimers_ hold the same timers, each under the expiration
\* and the sequence its object has (the asserts of insert, cancelInLoop and
\* getExpired), whatever is cancelled, restarted or allocated again.
SetsAgree ==
  /\ timers = {<<heap[x[1]].expiration, x[1]>> : x \in {y \in activeTimers : heap[y[1]] # Free}}
  /\ \A x \in activeTimers : heap[x[1]].sequence = x[2]

\* The addresses a queued addTimerInLoop, activeTimers_ and the running batch
\* hold.
QueuedAddrs == {pending[k].id[1] : k \in {j \in DOMAIN pending : pending[j].op = "add"}}
ActiveAddrs == {x[1] : x \in activeTimers}
BatchAddrs == {e[2] : e \in expired}

\* Every Timer object has one owner, and every owner a Timer object: no leak,
\* no double delete and no callback of a deleted Timer.
HeapOwned ==
  /\ {a \in Addrs : heap[a] # Free} = QueuedAddrs \union ActiveAddrs \union BatchAddrs
  /\ QueuedAddrs \intersect ActiveAddrs = {}
  /\ QueuedAddrs \intersect BatchAddrs = {}
  /\ ActiveAddrs \intersect BatchAddrs = {}

\* The timers of the running batch.
InBatch == {<<e[2], heap[e[2]].sequence>> : e \in expired}

\* A timer cancelled after it was added is out for good: it is in no set, and
\* in the running batch only when reset is going to find it in
\* cancelingTimers_.
CancelIsFinal ==
  /\ activeTimers \intersect cancelled = {}
  /\ InBatch \intersect cancelled \subseteq cancelingTimers

\* A cancel stops no timer but the one its id names: a timer that was added,
\* was not cancelled and has not had its only run is still waiting or in the
\* running batch, also when it lives where a deleted one lived.
NothingLost == added \ cancelled \subseteq activeTimers \union InBatch \union ran

\* Between two batches a waiting timer means an armed timerfd; it is armed for
\* the earliest timer or, if that is due, for the next tick, as long as nobody
\* has set the clock.
TimerfdArmed ==
  (~callingExpiredTimers /\ timers # {}) =>
     /\ timerfd # Disarmed
     /\ clockSets = 0 => \/ now + timerfd <= First(timers)[1]
                         \/ timerfd <= 1

\* timers_, activeTimers_, the batch, the heap and the timerfd tell the same
\* story after every add, cancel, expiry and restart.
TimersConsistent == TypeOK /\ SetsAgree /\ HeapOwned /\ TimerfdArmed

\* The TimerId a call returns names the timer the call created ("Safe to call
\* from other threads", EventLoop.h).
IdNamesItsTimer == \A x \in issued : x.id[2] = x.for

\* A timer that was added is run or cancelled, also when the clock is set back
\* while it waits.
TimersFire ==
  \A id \in Addrs \X Seqs : (id \in added) ~> (id \in ran \/ id \in cancelled)
=============================================================================
