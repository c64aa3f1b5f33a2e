---------------------------- MODULE LoopThreads ----------------------------
(***************************************************************************)
(* Threads that each run an EventLoop (net/EventLoopThread.cc) and the     *)
(* pool TcpServer and the file server's main keep of them                  *)
(* (net/EventLoopThreadPool.cc).  The owner, the thread of the base loop,  *)
(* starts the threads one by one, hands out their loops in turn and        *)
(* destroys the pool.                                                      *)
(*                                                                         *)
(* The EventLoop is a local variable of threadFunc: it exists from         *)
(* "construct" on until its thread is "gone".  Of EventLoop only quit_ and *)
(* the question whether loop() runs are kept; the rest is module           *)
(* EventLoop.                                                              *)
(*                                                                         *)
(* The names that ThreadPool, the other pool of the library, has too begin *)
(* with Loops here, so that a module can extend both.                      *)
(***************************************************************************)
EXTENDS Naturals, Sequences, Functions

CONSTANTS
  ThreadNums,   \* values of numThreads_ to look at
  MaxUses       \* bound: calls of getNextLoop

ASSUME ThreadNumsAssumption == ThreadNums \subseteq Nat /\ MaxUses \in Nat

VARIABLES
  numThreads,   \* numThreads_
  opc,          \* where the owner is
  k,            \* the thread the owner is busy with
  tpc,          \* where every thread is
  loopPtr,      \* loop_ # NULL
  quit,         \* quit_ of every loop
  loops,        \* loops_: threads by number, 0 is a null pointer
  next,         \* next_
  uses,         \* history: how often each loop was handed out
  selfQuit,     \* history: loops ended by a functor of their own
  usedDead,     \* history: loops gone when the destructor set their quit_
  wokenDead,    \* history: loops gone when the destructor called their wakeup()
  forgotten     \* history: loops whose loop() has cleared a quit_ that was set

\* What the destructor's call of quit() met.
dead == <<usedDead, wokenDead, forgotten>>

loopsVars == <<numThreads, opc, k, tpc, loopPtr, quit, loops, next, uses, selfQuit, dead>>

Threads == 1..numThreads
AllThreads == UNION {1..n : n \in ThreadNums}

\* The constructors, and setThreadNum.
LoopsInit ==
  /\ numThreads \in ThreadNums
  /\ opc = "new"
  /\ k = 1
  /\ tpc = [i \in Threads |-> "unborn"]
  /\ loopPtr = [i \in Threads |-> FALSE]
  /\ quit = [i \in Threads |-> FALSE]
  /\ loops = << >>
  /\ next = 0
  /\ uses = [i \in 0..numThreads |-> 0]
  /\ selfQuit = {}
  /\ usedDead = {}
  /\ wokenDead = {}
  /\ forgotten = {}

-----------------------------------------------------------------------------
(* The owner *)

\* start: the next thread, or all are there.
LoopsStart ==
  /\ opc = "new"
  /\ IF k <= numThreads
     THEN /\ tpc' = [tpc EXCEPT ![k] = "construct"]
          /\ opc' = "wait"
     ELSE /\ opc' = "running"
          /\ UNCHANGED tpc
  /\ UNCHANGED <<numThreads, k, loopPtr, quit, loops, next, uses, selfQuit, dead>>

\* Slip: startLoop reads loop_ without waiting for it.
LoopReadyAtOnce == TRUE

\* startLoop's wait for loop_ is over.
LoopReady == loopPtr[k]

\* The rest of startLoop and the push_back of what it returns.
StartLoopReturns ==
  /\ opc = "wait"
  /\ LoopReady
  /\ loops' = Append(loops, IF loopPtr[k] THEN k ELSE 0)
  /\ k' = k + 1
  /\ opc' = "new"
  /\ UNCHANGED <<numThreads, tpc, loopPtr, quit, next, uses, selfQuit, dead>>

\* next_ starts again at the end of loops_.
Wrapped(n) == IF n >= Len(loops) THEN 0 ELSE n

\* getNextLoop, for a new connection; 0 counts the base loop.
GetNextLoop ==
  /\ opc = "running"
  /\ SumFunction(uses) < MaxUses
  /\ IF loops = << >>
     THEN /\ uses' = [uses EXCEPT ![0] = @ + 1]
          /\ UNCHANGED next
     ELSE /\ uses' = [uses EXCEPT ![loops[next + 1]] = @ + 1]
          /\ next' = Wrapped(next + 1)
  /\ UNCHANGED <<numThreads, opc, k, tpc, loopPtr, quit, loops, selfQuit, dead>>

\* The pool is destroyed: the destructors of its threads, one after the other.
Destroy ==
  /\ opc = "running"
  /\ opc' = "dtor"
  /\ k' = 1
  /\ UNCHANGED <<numThreads, tpc, loopPtr, quit, loops, next, uses, selfQuit, dead>>

\* ~EventLoopThread looks at loop_ without the mutex; if there is none, the
\* thread is detached.
DtorTests ==
  /\ opc = "dtor"
  /\ \/ /\ k > numThreads
        /\ opc' = "destroyed"
        /\ UNCHANGED k
     \/ /\ k <= numThreads
        /\ IF loopPtr[k] THEN opc' = "quit" /\ UNCHANGED k ELSE k' = k + 1 /\ UNCHANGED opc
  /\ UNCHANGED <<numThreads, tpc, loopPtr, quit, loops, next, uses, selfQuit, dead>>

\* S with the loop the destructor is about to touch, if that loop is gone.
IfGone(S) == IF tpc[k] = "gone" THEN S \union {k} ELSE S

\* loop_->quit(), on whatever is at that address now: quit_ = true ...
DtorQuits ==
  /\ opc = "quit"
  /\ quit' = [quit EXCEPT ![k] = TRUE]
  /\ usedDead' = IfGone(usedDead)
  /\ opc' = "wakeup"
  /\ UNCHANGED <<numThreads, k, tpc, loopPtr, loops, next, uses, selfQuit, wokenDead, forgotten>>

\* ... and wakeup(), before which the loop may have seen quit_ and ended.
DtorWakes ==
  /\ opc = "wakeup"
  /\ wokenDead' = IfGone(wokenDead)
  /\ opc' = "join"
  /\ UNCHANGED <<numThreads, k, tpc, loopPtr, quit, loops, next, uses, selfQuit, usedDead, forgotten>>

\* pthread_join can return.
Joinable == tpc[k] = "gone"

\* thread_.join()
DtorJoins ==
  /\ opc = "join"
  /\ Joinable
  /\ opc' = "dtor"
  /\ k' = k + 1
  /\ UNCHANGED <<numThreads, tpc, loopPtr, quit, loops, next, uses, selfQuit, dead>>

-----------------------------------------------------------------------------
(* A thread *)

\* EventLoop loop; and callback_(&loop).
Construct(i) ==
  /\ tpc[i] = "construct"
  /\ tpc' = [tpc EXCEPT ![i] = "publish"]
  /\ UNCHANGED <<numThreads, opc, k, loopPtr, quit, loops, next, uses, selfQuit, dead>>

\* loop_ = &loop and the notify, under the mutex.
SetLoopPtr(i) == loopPtr' = [loopPtr EXCEPT ![i] = TRUE]

Publish(i) ==
  /\ tpc[i] = "publish"
  /\ SetLoopPtr(i)
  /\ tpc' = [tpc EXCEPT ![i] = "enter"]
  /\ UNCHANGED <<numThreads, opc, k, quit, loops, next, uses, selfQuit, dead>>

\* loop() begins and clears quit_.
EnterLoop(i) ==
  /\ tpc[i] = "enter"
  /\ quit' = [quit EXCEPT ![i] = FALSE]
  /\ forgotten' = IF quit[i] THEN forgotten \union {i} ELSE forgotten
  /\ tpc' = [tpc EXCEPT ![i] = "looping"]
  /\ UNCHANGED <<numThreads, opc, k, loopPtr, loops, next, uses, selfQuit, usedDead, wokenDead>>

\* A functor of the loop calls quit().
SelfQuit(i) ==
  /\ tpc[i] = "looping"
  /\ i \notin selfQuit
  /\ quit' = [quit EXCEPT ![i] = TRUE]
  /\ selfQuit' = selfQuit \union {i}
  /\ UNCHANGED <<numThreads, opc, k, tpc, loopPtr, loops, next, uses, dead>>

\* Slip: while (!quit_) is only left by a quit of the loop's own functors.
MayLeaveSelf(i) == i \in selfQuit

\* Slip: loop() returns when poll has timed out.
MayLeaveAlways(i) == TRUE

\* while (!quit_)
MayLeave(i) == quit[i]

\* loop() returns.
LeaveLoop(i) ==
  /\ tpc[i] = "looping"
  /\ MayLeave(i)
  /\ tpc' = [tpc EXCEPT ![i] = "leaving"]
  /\ UNCHANGED <<numThreads, opc, k, loopPtr, quit, loops, next, uses, selfQuit, dead>>

\* loop_ = NULL under the mutex, then the EventLoop is destroyed.
EndThread(i) ==
  /\ tpc[i] = "leaving"
  /\ loopPtr' = [loopPtr EXCEPT ![i] = FALSE]
  /\ tpc' = [tpc EXCEPT ![i] = "gone"]
  /\ UNCHANGED <<numThreads, opc, k, quit, loops, next, uses, selfQuit, dead>>

ThreadStep(i) ==
  \/ Construct(i)
  \/ Publish(i)
  \/ EnterLoop(i)
  \/ LeaveLoop(i)
  \/ EndThread(i)

Dtor == DtorTests \/ DtorQuits \/ DtorWakes \/ DtorJoins

LoopsNext ==
  \/ LoopsStart
  \/ StartLoopReturns
  \/ GetNextLoop
  \/ Destroy
  \/ DtorTests
  \/ DtorQuits
  \/ DtorWakes
  \/ DtorJoins
  \/ \E i \in Threads : ThreadStep(i) \/ SelfQuit(i)

LoopsSpec == LoopsInit /\ [][LoopsNext]_loopsVars

\* Threads run when they can; a loop that was told to quit comes round to
\* while (!quit_), because quit() wakes it up (EventLoop.NoLostQuit).
LoopsFairSpec ==
  /\ LoopsSpec
  /\ WF_loopsVars(LoopsStart) /\ WF_loopsVars(StartLoopReturns) /\ WF_loopsVars(Dtor)
  /\ \A i \in AllThreads : WF_loopsVars(i \in Threads /\ ThreadStep(i))

-----------------------------------------------------------------------------
(* Properties *)

\* The type invariant.
LoopsTypeOK ==
  /\ numThreads \in ThreadNums
  /\ opc \in {"new", "wait", "running", "dtor", "quit", "wakeup", "join", "destroyed"}
  /\ k \in 1..(numThreads + 1)
  /\ tpc \in [Threads -> {"unborn", "construct", "publish", "enter", "looping", "leaving", "gone"}]
  /\ loopPtr \in [Threads -> BOOLEAN]
  /\ quit \in [Threads -> BOOLEAN]
  /\ loops \in Seq(0..numThreads)
  /\ next \in Nat /\ (loops # << >> => next < Len(loops))
  /\ uses \in [0..numThreads -> Nat]
  /\ selfQuit \subseteq Threads
  /\ usedDead \subseteq Threads /\ wokenDead \subseteq Threads /\ forgotten \subseteq Threads

\* The loops start hands out exist: each belongs to a different thread that has
\* constructed it and, unless a functor of its own ended it, still runs it.
LoopsExist ==
  opc = "running" =>
    /\ Len(loops) = numThreads
    /\ \A i \in Threads :
         /\ loops[i] = i
         /\ tpc[i] \in {"enter", "looping"} \/ i \in selfQuit

\* Connections are spread evenly over the loops, and over the base loop only if
\* there are no others (TcpServer.h: "assigned on a round-robin basis").
RoundRobin ==
  /\ \A i, j \in Threads : uses[i] <= uses[j] + 1
  /\ numThreads > 0 => uses[0] = 0

\* ~EventLoopThread calls quit() through a pointer that it read without the
\* mutex, and the comments there and in EventLoop::quit speak of the chance that
\* the loop is gone.  There is no way to that but the two they describe: quit_ is
\* set in a loop that is gone only if a functor of its own had ended the loop,
\* and wakeup() meets one that is gone only if such a functor, or the quit_ just
\* set, had: never a loop that came to loop() too late to see that quit_.
DeadLoopsExplained ==
  /\ usedDead \subseteq selfQuit
  /\ wokenDead \intersect forgotten \subseteq selfQuit

\* No thread outlives the pool, but for one that a functor had told to quit.
NoThreadLeft == opc = "destroyed" => \A i \in Threads : tpc[i] = "gone" \/ i \in selfQuit

\* From start() to the destructor the pool, its loops and their threads match.
LoopsConsistent == LoopsTypeOK /\ LoopsExist /\ RoundRobin /\ NoThreadLeft

\* startLoop returns, unless this loop ends itself before startLoop has seen it.
StartReturns ==
  \A i \in AllThreads : (opc = "wait" /\ k = i) ~> (k # i \/ i \in selfQuit)

\* The destructor's join returns, unless loop() had cleared the quit_ that
\* the destructor set and no functor ends the loop: that join lasts for ever.
JoinReturns ==
  \A i \in AllThreads :
    (opc = "join" /\ k = i) ~> (k # i \/ i \in forgotten \ selfQuit)

\* The owner of a pool hangs in two cases only, and only at the thread concerned:
\* in startLoop if this loop ended itself before it was seen, and in the
\* destructor if it came before loop() began (EventLoop.cc:108, "what if someone
\* calls quit() before loop() ?").  Without the second, "dtor calls quit()"
\* of EventLoopThread_unittest.cc:33 would always end the thread.
ThreadsRespond == StartReturns /\ JoinReturns
=============================================================================
