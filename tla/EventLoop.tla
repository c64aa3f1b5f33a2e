----------------------------- MODULE EventLoop -----------------------------
(***************************************************************************)
(* The reactor both servers run on (net/EventLoop.cc): one loop thread     *)
(* that polls its channels, handles the active ones and then runs the      *)
(* functors other threads, or the loop thread itself, left in              *)
(* pendingFunctors_.  A blocked poll is interrupted by writing to the      *)
(* eventfd wakeupFd_.                                                      *)
(*                                                                         *)
(* The critical sections under mutex_ (push_back, swap) are single steps.  *)
(* The gap between a foreign thread's push_back and its wakeup(), and      *)
(* between its quit_ = true and its wakeup(), is a state of its own: the   *)
(* loop thread can do anything in it.  What the loop thread does to data   *)
(* only it reads (callingPendingFunctors_, the vector swapped out, a       *)
(* wakeup() it writes to itself) is merged with the neighbouring step.     *)
(*                                                                         *)
(* A definition introduced by "Slip:" is a plausible mistake in the code   *)
(* that follows it.  No specification uses it; it shows which property     *)
(* notices the mistake.                                                    *)
(***************************************************************************)
EXTENDS Naturals, Sequences, Functions

CONSTANTS
  Threads,    \* threads other than the loop thread that hold the EventLoop*
  Functors,   \* the functors handed to queueInLoop, each of them once
  Channels,   \* channels registered with the poller besides wakeupChannel_
  Wakeup      \* wakeupChannel_

ASSUME WakeupAssumption == Wakeup \notin Channels

VARIABLES
  pc,                      \* where the loop thread is
  quit,                    \* quit_
  callingPendingFunctors,  \* callingPendingFunctors_
  pendingFunctors,         \* pendingFunctors_, guarded by mutex_
  functors,                \* the rest of the vector doPendingFunctors iterates
  wakeupFd,                \* is the eventfd counter above zero?
  ready,                   \* channels the kernel reports as ready
  activeChannels,          \* activeChannels_ still to be handled
  tpc,                     \* where every other thread is
  enqueued,                \* history: functors in the order of their push_back
  executed,                \* history: functors in the order they were called
  early                    \* history: functors the loop thread queued before loop()

loopVars == <<pc, callingPendingFunctors, functors, activeChannels>>
histVars == <<enqueued, executed, early>>
vars == <<pc, quit, callingPendingFunctors, pendingFunctors, functors,
          wakeupFd, ready, activeChannels, tpc, enqueued, executed, early>>

\* "before": loop() not called yet; "check": while (!quit_); "poll": inside
\* poller_->poll; "handling": between two handleEvent calls; "handler": inside
\* a channel's callback; "calling": between two functors; "functor": inside
\* one; "after": loop() has returned.
LoopStates ==
  {"before", "check", "poll", "handling", "handler", "calling", "functor", "after"}

\* The constructor: nothing queued, the eventfd empty and always read.
Init ==
  /\ pc = "before"
  /\ quit = FALSE
  /\ callingPendingFunctors = FALSE
  /\ pendingFunctors = << >>
  /\ functors = << >>
  /\ wakeupFd = FALSE
  /\ ready = {}
  /\ activeChannels = {}
  /\ tpc = [t \in Threads |-> "idle"]
  /\ enqueued = << >>
  /\ executed = << >>
  /\ early = {}

-----------------------------------------------------------------------------
(* Other threads *)

\* Slip: the functor is moved away before it is pushed.
PushBackMovedFrom(f) ==
  /\ f \in Functors \ Range(enqueued)
  /\ pendingFunctors' = Append(pendingFunctors, "moved-from")
  /\ enqueued' = Append(enqueued, f)

\* pendingFunctors_.push_back under mutex_, the first half of queueInLoop.
PushBack(f) ==
  /\ f \in Functors \ Range(enqueued)
  /\ pendingFunctors' = Append(pendingFunctors, f)
  /\ enqueued' = Append(enqueued, f)

\* queueInLoop, or runInLoop, called by another thread: isInLoopThread() is
\* false, so a wakeup() follows.
ThreadQueueInLoop(t, f) ==
  /\ tpc[t] = "idle"
  /\ PushBack(f)
  /\ tpc' = [tpc EXCEPT ![t] = "wakeup"]
  /\ UNCHANGED <<loopVars, quit, wakeupFd, ready, executed, early>>

\* Slip: quit() does not wake the loop up.
ThreadQuitSilently(t) ==
  /\ tpc[t] = "idle"
  /\ quit' = TRUE
  /\ UNCHANGED <<loopVars, pendingFunctors, wakeupFd, ready, tpc, histVars>>

\* quit() called by another thread: quit_ = true, the wakeup() follows.
ThreadQuit(t) ==
  /\ tpc[t] = "idle"
  /\ quit' = TRUE
  /\ tpc' = [tpc EXCEPT ![t] = "wakeup"]
  /\ UNCHANGED <<loopVars, pendingFunctors, wakeupFd, ready, histVars>>

\* wakeup(): write 1 to the eventfd.
ThreadWakeup(t) ==
  /\ tpc[t] = "wakeup"
  /\ wakeupFd' = TRUE
  /\ tpc' = [tpc EXCEPT ![t] = "idle"]
  /\ UNCHANGED <<loopVars, quit, pendingFunctors, ready, histVars>>

\* The kernel reports a channel ready (a byte arrives, a timer expires).
ChannelReady(c) ==
  /\ c \notin ready
  /\ ready' = ready \cup {c}
  /\ UNCHANGED <<loopVars, quit, pendingFunctors, wakeupFd, tpc, histVars>>

-----------------------------------------------------------------------------
(* The loop thread *)

\* Slip: the test of callingPendingFunctors_ is missing.
QueueInLoopSilently(f) ==
  /\ pc \in {"before", "handler", "functor"}
  /\ PushBack(f)
  /\ early' = IF pc = "before" THEN early \cup {f} ELSE early
  /\ UNCHANGED <<loopVars, quit, wakeupFd, ready, tpc, executed>>

\* queueInLoop called by the loop thread: from the code that runs before
\* loop(), from a channel's callback or from a functor.  Only while
\* callingPendingFunctors_ does it write to its own eventfd.
QueueInLoop(f) ==
  /\ pc \in {"before", "handler", "functor"}
  /\ PushBack(f)
  /\ wakeupFd' = (wakeupFd \/ callingPendingFunctors)
  /\ early' = IF pc = "before" THEN early \cup {f} ELSE early
  /\ UNCHANGED <<loopVars, quit, ready, tpc, executed>>

\* quit() called by the loop thread, from a callback or a functor: no wakeup.
Quit ==
  /\ pc \in {"before", "handler", "functor"}
  /\ quit' = TRUE
  /\ UNCHANGED <<loopVars, pendingFunctors, wakeupFd, ready, tpc, histVars>>

\* loop() is entered: quit_ = false, whatever was asked before.
StartLoop ==
  /\ pc = "before"
  /\ quit' = FALSE
  /\ pc' = "check"
  /\ UNCHANGED <<callingPendingFunctors, pendingFunctors, functors, wakeupFd,
                 ready, activeChannels, tpc, histVars>>

\* while (!quit_).
CheckQuit ==
  /\ pc = "check"
  /\ pc' = IF quit THEN "after" ELSE "poll"
  /\ UNCHANGED <<quit, callingPendingFunctors, pendingFunctors, functors,
                 wakeupFd, ready, activeChannels, tpc, histVars>>

\* What poll finds: the ready channels, and wakeupChannel_ when the eventfd is
\* readable.
Pollable == ready \cup (IF wakeupFd THEN {Wakeup} ELSE {})

\* poll returns because something is ready.
PollReady ==
  /\ pc = "poll"
  /\ Pollable # {}
  /\ activeChannels' = Pollable
  /\ pc' = "handling"
  /\ UNCHANGED <<quit, callingPendingFunctors, pendingFunctors, functors,
                 wakeupFd, ready, tpc, histVars>>

\* poll returns after kPollTimeMs with nothing ready.
PollTimeout ==
  /\ pc = "poll"
  /\ Pollable = {}
  /\ activeChannels' = {}
  /\ pc' = "handling"
  /\ UNCHANGED <<quit, callingPendingFunctors, pendingFunctors, functors,
                 wakeupFd, ready, tpc, histVars>>

\* handleEvent of wakeupChannel_ is handleRead(): it reads the eventfd, which
\* resets the counter.
HandleRead ==
  /\ pc = "handling"
  /\ Wakeup \in activeChannels
  /\ wakeupFd' = FALSE
  /\ activeChannels' = activeChannels \ {Wakeup}
  /\ UNCHANGED <<pc, quit, callingPendingFunctors, pendingFunctors, functors,
                 ready, tpc, histVars>>

\* handleEvent of another channel enters its callback, which consumes what made
\* the channel ready.
HandleEvent(c) ==
  /\ pc = "handling"
  /\ c \in activeChannels
  /\ activeChannels' = activeChannels \ {c}
  /\ ready' = ready \ {c}
  /\ pc' = "handler"
  /\ UNCHANGED <<quit, callingPendingFunctors, pendingFunctors, functors,
                 wakeupFd, tpc, histVars>>

\* The channel's callback returns.
HandlerReturn ==
  /\ pc = "handler"
  /\ pc' = "handling"
  /\ UNCHANGED <<quit, callingPendingFunctors, pendingFunctors, functors,
                 wakeupFd, ready, activeChannels, tpc, histVars>>

\* Slip: the pending vector is copied instead of swapped.
CopyPendingFunctors ==
  /\ pc = "handling"
  /\ activeChannels = {}
  /\ callingPendingFunctors' = TRUE
  /\ functors' = pendingFunctors
  /\ pc' = "calling"
  /\ UNCHANGED <<quit, pendingFunctors, wakeupFd, ready, activeChannels, tpc, histVars>>

\* doPendingFunctors up to the end of its critical section: the flag is set and
\* the pending vector is swapped with an empty one.
DoPendingFunctors ==
  /\ pc = "handling"
  /\ activeChannels = {}
  /\ callingPendingFunctors' = TRUE
  /\ functors' = pendingFunctors
  /\ pendingFunctors' = << >>
  /\ pc' = "calling"
  /\ UNCHANGED <<quit, wakeupFd, ready, activeChannels, tpc, histVars>>

\* Slip: the vector is consumed from its back.
CallLastFunctor ==
  /\ pc = "calling"
  /\ functors # << >>
  /\ executed' = Append(executed, functors[Len(functors)])
  /\ functors' = SubSeq(functors, 1, Len(functors) - 1)
  /\ pc' = "functor"
  /\ UNCHANGED <<quit, callingPendingFunctors, pendingFunctors, wakeupFd, ready,
                 activeChannels, tpc, enqueued, early>>

\* Slip: only the first functor of the vector is called.
CallOnlyFunctor ==
  /\ pc = "calling"
  /\ functors # << >>
  /\ executed' = Append(executed, Head(functors))
  /\ functors' = << >>
  /\ pc' = "functor"
  /\ UNCHANGED <<quit, callingPendingFunctors, pendingFunctors, wakeupFd, ready,
                 activeChannels, tpc, enqueued, early>>

\* for (functor : functors) functor(): the next one is entered.
CallFunctor ==
  /\ pc = "calling"
  /\ functors # << >>
  /\ executed' = Append(executed, Head(functors))
  /\ functors' = Tail(functors)
  /\ pc' = "functor"
  /\ UNCHANGED <<quit, callingPendingFunctors, pendingFunctors, wakeupFd, ready,
                 activeChannels, tpc, enqueued, early>>

\* The functor returns.
FunctorReturn ==
  /\ pc = "functor"
  /\ pc' = "calling"
  /\ UNCHANGED <<quit, callingPendingFunctors, pendingFunctors, functors,
                 wakeupFd, ready, activeChannels, tpc, histVars>>

\* The end of doPendingFunctors; control returns to while (!quit_).
EndPendingFunctors ==
  /\ pc = "calling"
  /\ functors = << >>
  /\ callingPendingFunctors' = FALSE
  /\ pc' = "check"
  /\ UNCHANGED <<quit, pendingFunctors, functors, wakeupFd, ready,
                 activeChannels, tpc, histVars>>

-----------------------------------------------------------------------------

\* The steps of loop() itself, without the bodies of callbacks and functors
\* and without the poll timeout.
LoopStep ==
  \/ StartLoop
  \/ CheckQuit
  \/ PollReady
  \/ HandleRead
  \/ \E c \in Channels : HandleEvent(c)
  \/ HandlerReturn
  \/ DoPendingFunctors
  \/ CallFunctor
  \/ FunctorReturn
  \/ EndPendingFunctors

ThreadStep(t) ==
  \/ ThreadQuit(t)
  \/ ThreadWakeup(t)
  \/ \E f \in Functors : ThreadQueueInLoop(t, f)

Next ==
  \/ LoopStep
  \/ PollTimeout
  \/ Quit
  \/ \E f \in Functors : QueueInLoop(f)
  \/ \E t \in Threads : ThreadStep(t)
  \/ \E c \in Channels : ChannelReady(c)

Spec == Init /\ [][Next]_vars

\* The scheduler runs the loop thread, and a thread that has entered
\* queueInLoop or quit finishes it.  Nobody is obliged to call them, no channel
\* has to become ready, and poll is not assumed to time out.
Fairness ==
  /\ WF_vars(LoopStep)
  /\ \A t \in Threads : WF_vars(ThreadWakeup(t))

FairSpec == Spec /\ Fairness

-----------------------------------------------------------------------------
(* Properties *)

\* The type invariant.
TypeOK ==
  /\ pc \in LoopStates
  /\ quit \in BOOLEAN
  /\ callingPendingFunctors \in BOOLEAN
  /\ pendingFunctors \in Seq(Functors)
  /\ functors \in Seq(Functors)
  /\ wakeupFd \in BOOLEAN
  /\ ready \in SUBSET Channels
  /\ activeChannels \in SUBSET (Channels \cup {Wakeup})
  /\ tpc \in [Threads -> {"idle", "wakeup"}]
  /\ enqueued \in Seq(Functors)
  /\ executed \in Seq(Functors)
  /\ early \in SUBSET Functors

\* The poll in progress will be interrupted without its timeout: the eventfd is
\* readable, or a thread is on its way to write to it.
WakeupComing == wakeupFd \/ \E t \in Threads : tpc[t] = "wakeup"

\* No lost wakeup: the loop thread is never blocked in poll with a functor
\* pending and nobody about to wake it.  queueInLoop skips the wakeup() on the
\* grounds that doPendingFunctors will follow; only a functor the loop thread
\* queued before loop() escapes that argument and waits for the timeout.
NoLostWakeup ==
  pc = "poll" /\ (\E i \in DOMAIN pendingFunctors : pendingFunctors[i] \notin early)
    => WakeupComing

\* No lost quit: once loop() runs, poll is never entered or kept waiting with
\* quit_ set and nobody about to wake it, although quit() in the loop thread
\* writes nothing to the eventfd.
NoLostQuit == pc = "poll" /\ quit => WakeupComing

\* Exactly once, in order: the functors called, the ones being iterated by
\* doPendingFunctors and the pending ones are together the functors queued, in
\* the order of their push_back, across any number of swaps and of functors
\* that queue more functors.
ExactlyOnceInOrder == enqueued = executed \o functors \o pendingFunctors

\* The loop implements the abstract task queue: the two vectors are one queue
\* and the swap under mutex_ is invisible.
Abstract == INSTANCE TaskQueue WITH waiting <- functors \o pendingFunctors
ImplementsTaskQueue == Abstract!Spec

\* Every functor handed over runs unless the loop ends first, without help from
\* the poll timeout, unless the loop thread queued it before loop().
FunctorsRunPromptly ==
  \A f \in Functors :
    (f \in Range(enqueued) \ early) ~> (f \in Range(executed) \/ pc = "after")

\* If epoll_wait does time out, every functor handed over runs, the ones queued
\* before loop() included, unless the loop ends first.
FunctorsRunEventually ==
  WF_vars(PollTimeout) =>
    \A f \in Functors :
      (f \in Range(enqueued)) ~> (f \in Range(executed) \/ pc = "after")

\* A quit() that comes after loop() was entered ends the loop, whichever thread
\* calls it and wherever the loop thread is.
QuitEndsRunningLoop == (quit /\ pc # "before") ~> (pc = "after")

\* What another thread asks of the loop it gets: functors and quit(), wherever
\* the loop thread is in its cycle.
LoopResponds == FunctorsRunPromptly /\ FunctorsRunEventually /\ QuitEndsRunningLoop
=============================================================================
