----------------------------- MODULE ThreadPool -----------------------------
(***************************************************************************)
(* The pool of worker threads (base/ThreadPool.cc): run puts tasks in a    *)
(* deque that may be bounded, runInThread takes and runs them, stop ends   *)
(* the pool and leaves what is still queued where it is.                   *)
(*                                                                         *)
(* Everything between a lock and the next wait or unlock of mutex_ is one  *)
(* step.  A condition variable is the set of threads waiting on it: notify *)
(* wakes one of them, any of them, and a wait may also end by itself.  A   *)
(* woken thread has to get the mutex again and may find that another one   *)
(* was faster.                                                             *)
(***************************************************************************)
EXTENDS Naturals, Sequences, FiniteSets, Functions

CONSTANTS
  Workers,        \* threads_
  Producers,      \* threads that call run
  MaxTasks,       \* bound: tasks every producer submits
  MaxQueueSizes,  \* values of maxQueueSize_ to look at; 0: no bound
  NoTask          \* an empty std::function

ASSUME PoolAssumption ==
  /\ IsFiniteSet(Workers) /\ IsFiniteSet(Producers) /\ Workers # {}
  /\ MaxTasks \in Nat
  /\ MaxQueueSizes \subseteq Nat
  /\ NoTask \notin Producers \X (1..MaxTasks)

VARIABLES
  maxQueueSize,   \* maxQueueSize_, set before start and never again
  started,        \* is threads_ filled?
  running,        \* running_
  queue,          \* queue_
  wpc,            \* where every worker is
  task,           \* the task a worker runs
  ppc,            \* where every producer is
  submitted,      \* number of tasks each producer has called run for
  spc,            \* where the thread that calls start and stop is
  taken,          \* history: tasks in the order take returned them
  finished,       \* history: tasks whose call has returned
  refused         \* history: tasks run gave up because the pool was stopped

vars == <<maxQueueSize, started, running, queue, wpc, task, ppc, submitted, spc,
          taken, finished, refused>>

Tasks == Producers \X (1..MaxTasks)

\* The constructor, and setMaxQueueSize ("Must be called before start()").
Init ==
  /\ maxQueueSize \in MaxQueueSizes
  /\ started = FALSE
  /\ running = FALSE
  /\ queue = << >>
  /\ wpc = [w \in Workers |-> "unborn"]
  /\ task = [w \in Workers |-> NoTask]
  /\ ppc = [p \in Producers |-> "idle"]
  /\ submitted = [p \in Producers |-> 0]
  /\ spc = "idle"
  /\ taken = << >>
  /\ finished = {}
  /\ refused = {}

-----------------------------------------------------------------------------
(* Condition variables *)

NotEmptyWaiters == {w \in Workers : wpc[w] = "wait"}
NotFullWaiters == {p \in Producers : ppc[p] = "wait"}

\* isFull
IsFull == maxQueueSize > 0 /\ Len(queue) >= maxQueueSize

\* Slip: notify only when the queue was empty before.
NotifyNotEmptyFirst(pcs) ==
  IF queue = << >> /\ NotEmptyWaiters # {}
  THEN {[pcs EXCEPT ![w] = "take"] : w \in NotEmptyWaiters}
  ELSE {pcs}

\* notEmpty_.notify: the workers' places after it.
NotifyNotEmpty(pcs) ==
  IF NotEmptyWaiters # {}
  THEN {[pcs EXCEPT ![w] = "take"] : w \in NotEmptyWaiters}
  ELSE {pcs}

\* notFull_.notify, which take calls when the queue is bounded.
NotifyNotFull ==
  IF maxQueueSize > 0 /\ NotFullWaiters # {}
  THEN {[ppc EXCEPT ![p] = "run"] : p \in NotFullWaiters}
  ELSE {ppc}

\* notFull_.notifyAll
ReleasedProducers == [p \in Producers |-> IF ppc[p] = "wait" THEN "run" ELSE ppc[p]]

\* Slip: notify instead of notifyAll on notEmpty_.
ReleasedWorkersOne ==
  IF NotEmptyWaiters = {} THEN wpc
  ELSE [wpc EXCEPT ![CHOOSE w \in NotEmptyWaiters : TRUE] = "take"]

\* notEmpty_.notifyAll
ReleasedWorkers == [w \in Workers |-> IF wpc[w] = "wait" THEN "take" ELSE wpc[w]]

-----------------------------------------------------------------------------
(* run *)

\* The task p submits now.
TaskOf(p) == <<p, submitted[p]>>

\* A producer calls run; without threads the task is called on the spot.
CallRun(p) ==
  /\ ppc[p] = "idle"
  /\ submitted[p] < MaxTasks
  /\ submitted' = [submitted EXCEPT ![p] = @ + 1]
  /\ \/ /\ ~started
        /\ finished' = finished \union {<<p, submitted'[p]>>}
        /\ UNCHANGED ppc
     \/ /\ started
        /\ ppc' = [ppc EXCEPT ![p] = "run"]
        /\ UNCHANGED finished
  /\ UNCHANGED <<maxQueueSize, started, running, queue, wpc, task, spc, taken, refused>>

\* run holds the mutex and the queue is full: notFull_.wait.
RunWaits(p) ==
  /\ ppc[p] = "run"
  /\ IsFull /\ running
  /\ ppc' = [ppc EXCEPT ![p] = "wait"]
  /\ UNCHANGED <<maxQueueSize, started, running, queue, wpc, task, submitted, spc, taken,
                 finished, refused>>

\* run holds the mutex of a stopped pool: the task is given up silently.
RunReturns(p) ==
  /\ ppc[p] = "run"
  /\ ~running
  /\ ppc' = [ppc EXCEPT ![p] = "idle"]
  /\ refused' = refused \union {TaskOf(p)}
  /\ UNCHANGED <<maxQueueSize, started, running, queue, wpc, task, submitted, spc, taken,
                 finished>>

\* run holds the mutex and there is room: push_back and notEmpty_.notify.
RunPushes(p) ==
  /\ ppc[p] = "run"
  /\ running /\ ~IsFull
  /\ queue' = Append(queue, TaskOf(p))
  /\ wpc' \in NotifyNotEmpty(wpc)
  /\ ppc' = [ppc EXCEPT ![p] = "idle"]
  /\ UNCHANGED <<maxQueueSize, started, running, task, submitted, spc, taken, finished, refused>>

-----------------------------------------------------------------------------
(* take and runInThread *)

\* while (running_), read without the mutex.
WorkerChecks(w) ==
  /\ wpc[w] = "check"
  /\ wpc' = [wpc EXCEPT ![w] = IF running THEN "take" ELSE "exit"]
  /\ UNCHANGED <<maxQueueSize, started, running, queue, task, ppc, submitted, spc, taken,
                 finished, refused>>

\* take holds the mutex and there is nothing: notEmpty_.wait.
TakeWaits(w) ==
  /\ wpc[w] = "take"
  /\ queue = << >> /\ running
  /\ wpc' = [wpc EXCEPT ![w] = "wait"]
  /\ UNCHANGED <<maxQueueSize, started, running, queue, task, ppc, submitted, spc, taken,
                 finished, refused>>

\* take holds the mutex of a stopped pool with an empty queue: an empty task.
TakeReturnsNothing(w) ==
  /\ wpc[w] = "take"
  /\ queue = << >> /\ ~running
  /\ wpc' = [wpc EXCEPT ![w] = "check"]
  /\ UNCHANGED <<maxQueueSize, started, running, queue, task, ppc, submitted, spc, taken,
                 finished, refused>>

\* Slip: pop_back.
PopBack == queue' = SubSeq(queue, 1, Len(queue) - 1)

\* queue_.pop_front
PopFront == queue' = Tail(queue)

\* take holds the mutex and there is a task, also when the pool was stopped.
Take(w) ==
  /\ wpc[w] = "take"
  /\ queue # << >>
  /\ task' = [task EXCEPT ![w] = Head(queue)]
  /\ taken' = Append(taken, Head(queue))
  /\ PopFront
  /\ ppc' \in NotifyNotFull
  /\ wpc' = [wpc EXCEPT ![w] = "run"]
  /\ UNCHANGED <<maxQueueSize, started, running, submitted, spc, finished, refused>>

\* task() returns.
TaskReturns(w) ==
  /\ wpc[w] = "run"
  /\ finished' = finished \union {task[w]}
  /\ task' = [task EXCEPT ![w] = NoTask]
  /\ wpc' = [wpc EXCEPT ![w] = "check"]
  /\ UNCHANGED <<maxQueueSize, started, running, queue, ppc, submitted, spc, taken, refused>>

\* pthread_cond_wait returns without a notify.
SpuriousWakeup ==
  /\ \/ /\ \E w \in NotEmptyWaiters : wpc' = [wpc EXCEPT ![w] = "take"]
        /\ UNCHANGED ppc
     \/ /\ \E p \in NotFullWaiters : ppc' = [ppc EXCEPT ![p] = "run"]
        /\ UNCHANGED wpc
  /\ UNCHANGED <<maxQueueSize, started, running, queue, task, submitted, spc, taken,
                 finished, refused>>

-----------------------------------------------------------------------------
(* start and stop *)

\* start; the workers' threads begin one after the other on their own.
Start ==
  /\ spc = "idle"
  /\ spc' = "started"
  /\ started' = TRUE
  /\ running' = TRUE
  /\ wpc' = [w \in Workers |-> "check"]
  /\ UNCHANGED <<maxQueueSize, queue, task, ppc, submitted, taken, finished, refused>>

\* stop, the part under the mutex.
Stop ==
  /\ spc = "started"
  /\ spc' = "join"
  /\ running' = FALSE
  /\ wpc' = ReleasedWorkers
  /\ ppc' = ReleasedProducers
  /\ UNCHANGED <<maxQueueSize, started, queue, task, submitted, taken, finished, refused>>

\* stop has joined every worker.
StopJoins ==
  /\ spc = "join"
  /\ \A w \in Workers : wpc[w] = "exit"
  /\ spc' = "stopped"
  /\ UNCHANGED <<maxQueueSize, started, running, queue, wpc, task, ppc, submitted, taken,
                 finished, refused>>

WorkerStep(w) ==
  \/ WorkerChecks(w)
  \/ TakeWaits(w)
  \/ TakeReturnsNothing(w)
  \/ Take(w)
  \/ TaskReturns(w)

RunStep(p) == RunWaits(p) \/ RunReturns(p) \/ RunPushes(p)

Next ==
  \/ \E p \in Producers : CallRun(p) \/ RunStep(p)
  \/ \E w \in Workers : WorkerStep(w)
  \/ SpuriousWakeup
  \/ Start
  \/ Stop
  \/ StopJoins

Spec == Init /\ [][Next]_vars

\* A thread that can go on does, and tasks return.  Nobody has to call run, start or stop, and no wait
\* has to end by itself.
FairSpec ==
  /\ Spec
  /\ \A w \in Workers : WF_vars(WorkerStep(w))
  /\ \A p \in Producers : WF_vars(RunStep(p))
  /\ WF_vars(StopJoins)

-----------------------------------------------------------------------------
(* Properties *)

\* The type invariant.
TypeOK ==
  /\ maxQueueSize \in MaxQueueSizes
  /\ started \in BOOLEAN
  /\ running \in BOOLEAN
  /\ queue \in Seq(Tasks)
  /\ wpc \in [Workers -> {"unborn", "check", "take", "wait", "run", "exit"}]
  /\ task \in [Workers -> Tasks \union {NoTask}]
  /\ ppc \in [Producers -> {"idle", "run", "wait"}]
  /\ submitted \in [Producers -> 0..MaxTasks]
  /\ spc \in {"idle", "started", "join", "stopped"}
  /\ taken \in Seq(Tasks)
  /\ finished \subseteq Tasks
  /\ refused \subseteq Tasks
  /\ maxQueueSize > 0 => Len(queue) <= maxQueueSize

\* The workers that will look at the queue without being notified again.
AwakeWorkers == {w \in Workers : wpc[w] \in {"check", "take"}}

\* No notification is lost on the way to the workers: while one of them sleeps,
\* there is an awake worker for every queued task.
NoWorkerSleepsOverATask ==
  (running /\ NotEmptyWaiters # {}) => Len(queue) <= Cardinality(AwakeWorkers)

\* The same for the producers: while one of them sleeps, every free place of the
\* queue has a producer on its way.
NoProducerSleepsOverAPlace ==
  (running /\ NotFullWaiters # {}) =>
    maxQueueSize - Len(queue) <= Cardinality({p \in Producers : ppc[p] = "run"})

\* The tasks a producer has handed over.
HandedOver(p) ==
  {<<p, n>> : n \in 1..submitted[p]} \ (IF ppc[p] = "idle" THEN {} ELSE {TaskOf(p)})

\* Every task handed over is in one place: queued, in the hands of one worker,
\* finished, or refused by a stopped pool.
TasksAccounted ==
  LET queued == Range(queue)
      held == {task[w] : w \in Workers} \ {NoTask}
  IN /\ UNION {HandedOver(p) : p \in Producers} = queued \union held \union finished \union refused
     /\ Cardinality(queued) = Len(queue)
     /\ queued \intersect (held \union finished \union refused) = {}
     /\ held \intersect (finished \union refused) = {}
     /\ finished \intersect refused = {}
     /\ \A w, v \in Workers : (w # v /\ task[w] # NoTask) => task[w] # task[v]

\* Queue, workers, producers and the two conditions agree: no task is lost or
\* doubled, and nobody sleeps over work or room.
QueueConsistent ==
  TypeOK /\ TasksAccounted /\ NoWorkerSleepsOverATask /\ NoProducerSleepsOverAPlace

\* Tasks are taken in the order run accepted them, each of them once, whichever
\* worker takes them.
Abstract == INSTANCE TaskQueue WITH Functors <- Tasks, waiting <- queue, executed <- taken
ImplementsTaskQueue == Abstract!Spec

\* An accepted task runs, unless the pool is stopped first.
AcceptedTasksRun ==
  \A t \in Tasks : (t \in Range(queue)) ~> (t \in finished \/ ~running)

\* A call of run comes back: the queue drains or the pool is stopped.
RunReturnsEventually == \A p \in Producers : (ppc[p] # "idle") ~> (ppc[p] = "idle")

\* stop() comes back: no worker sleeps through it, also when the last producer
\* pushes while it runs.
StopReturns == (spc = "join") ~> (spc = "stopped")

\* Accepted tasks run, and the calls of run and stop return.
PoolResponds == AcceptedTasksRun /\ RunReturnsEventually /\ StopReturns
=============================================================================
