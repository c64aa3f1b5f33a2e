-------------------------- MODULE ThreadPoolProofs --------------------------
(***************************************************************************)
(* Proofs about ThreadPool, for every number of workers, producers and     *)
(* tasks and every maxQueueSize_.                                          *)
(*                                                                         *)
(* That nobody sleeps over a task or a place is inductive once it is known *)
(* that a producer waits only for a bounded queue.  That every task is in  *)
(* one place needs the queue to hold no task twice, and a worker to hold a *)
(* task exactly while it runs it; with the tasks taken so far added it     *)
(* yields the refinement of TaskQueue.                                     *)
(*                                                                         *)
(* The second part is about the other pool of the library, LoopThreads,    *)
(* for every number of threads.  Its properties speak of a moment: of the  *)
(* pool while it hands out loops, of the destructor's call of quit(), of   *)
(* the pool that is gone.  What carries them there is LoopThreadsInv:      *)
(* which threads startLoop has seen, that loop_ is set exactly while       *)
(* loop() may run, and that nothing but a functor or the destructor ends a *)
(* loop.                                                                   *)
(***************************************************************************)
EXTENDS ThreadPool, LoopThreads, TLAPS, SequenceTheorems, FunctionTheorems, FiniteSetTheorems

\* Where start and stop are, and what the threads do then.
PhaseInv ==
  /\ started <=> spc # "idle"
  /\ running <=> spc = "started"
  /\ ~started => \A p \in Producers : ppc[p] = "idle"
  /\ ~started => \A w \in Workers : wpc[w] = "unborn"
  /\ \A p \in Producers : ppc[p] # "idle" => submitted[p] > 0
  /\ \A p \in Producers : ppc[p] = "wait" => maxQueueSize > 0
  /\ \A w \in Workers : task[w] # NoTask <=> wpc[w] = "run"

AllHandedOver == UNION {HandedOver(p) : p \in Producers}
HeldTasks == {task[w] : w \in Workers} \ {NoTask}

\* TasksAccounted, with the queue free of duplicates instead of counted, and
\* the tasks taken among those handed over.
PlacesInv ==
  /\ AllHandedOver = Range(queue) \union HeldTasks \union finished \union refused
  /\ IsInjective(queue)
  /\ Range(queue) \intersect (HeldTasks \union finished \union refused) = {}
  /\ HeldTasks \intersect (finished \union refused) = {}
  /\ finished \intersect refused = {}
  /\ \A w, v \in Workers : (w # v /\ task[w] # NoTask) => task[w] # task[v]
  /\ Range(taken) \subseteq AllHandedOver

-----------------------------------------------------------------------------
(* Sequences without duplicates *)

\* A push_back adds one element and, if that is new, no duplicate.
LEMMA PushBackFacts ==
  ASSUME NEW S, NEW s \in Seq(S), NEW x \in S
  PROVE  /\ Range(Append(s, x)) = Range(s) \union {x}
         /\ IsInjective(s) /\ x \notin Range(s) => IsInjective(Append(s, x))
<1> DEFINE t == Append(s, x)
<1>1. /\ DOMAIN s = 1..Len(s) /\ Len(s) \in Nat /\ DOMAIN t = 1..(Len(s) + 1)
      /\ \A i \in 1..Len(s) : t[i] = s[i]
      /\ t[Len(s) + 1] = x
  BY AppendProperties
<1> HIDE DEF t
<1>2. Range(t) = Range(s) \union {x} BY <1>1 DEF Range
<1>3. IsInjective(s) /\ x \notin Range(s) => IsInjective(t)
  BY <1>1 DEF Range, IsInjective
<1> QED BY <1>2, <1>3 DEF t

\* A pop_front takes out the front and, without duplicates, nothing else.
LEMMA PopFrontFacts ==
  ASSUME NEW S, NEW s \in Seq(S), s # << >>, IsInjective(s)
  PROVE  /\ Head(s) \in Range(s)
         /\ Range(Tail(s)) = Range(s) \ {Head(s)}
         /\ IsInjective(Tail(s))
<1> DEFINE t == Tail(s)
<1>1. /\ DOMAIN s = 1..Len(s) /\ Len(s) \in Nat \ {0} /\ Head(s) = s[1]
      /\ DOMAIN t = 1..(Len(s) - 1)
      /\ \A i \in 1..(Len(s) - 1) : t[i] = s[i + 1]
  BY HeadTailProperties
<1> HIDE DEF t
<1>2. Head(s) \in Range(s) BY <1>1 DEF Range
<1>3. \A i \in DOMAIN t : i + 1 \in DOMAIN s /\ t[i] = s[i + 1] /\ t[i] # s[1]
  BY <1>1 DEF IsInjective
<1>4. \A j \in DOMAIN s : j # 1 => j - 1 \in DOMAIN t /\ t[j - 1] = s[j]
  BY <1>1
<1>5. Range(t) = Range(s) \ {Head(s)} BY <1>1, <1>3, <1>4 DEF Range
<1>6. IsInjective(t) BY <1>1, <1>3 DEF IsInjective
<1> QED BY <1>2, <1>5, <1>6 DEF t

\* A sequence without duplicates has as many elements as places.
LEMMA InjectiveCardinality ==
  ASSUME NEW S, NEW s \in Seq(S), IsInjective(s)
  PROVE  Cardinality(Range(s)) = Len(s)
<1>1. Len(s) \in Nat /\ s \in [1..Len(s) -> S] OBVIOUS
<1>2. s \in Injection(1..Len(s), S) BY <1>1 DEF Injection
<1>3. s \in Bijection(1..Len(s), Range(s)) BY <1>2, Fun_InjMeansBijImage
<1>4. ExistsBijection(1..Len(s), Range(s)) BY <1>3, Fun_ExistsBij
<1> QED BY <1>1, <1>4, FS_CountingElements

-----------------------------------------------------------------------------
(* Types and phases *)

\* A step of notify leaves every worker, or producer, where it was or wakes it.
LEMMA NotifyFacts ==
  ASSUME TypeOK
  PROVE  /\ \A f \in NotifyNotEmpty(wpc) :
              /\ f \in [Workers -> {"unborn", "check", "take", "wait", "run", "exit"}]
              /\ \A v \in Workers : f[v] = wpc[v] \/ (wpc[v] = "wait" /\ f[v] = "take")
         /\ \A f \in NotifyNotFull :
              /\ f \in [Producers -> {"idle", "run", "wait"}]
              /\ \A q \in Producers : f[q] = ppc[q] \/ (ppc[q] = "wait" /\ f[q] = "run")
BY DEF TypeOK, NotifyNotEmpty, NotifyNotFull, NotEmptyWaiters, NotFullWaiters

\* One step keeps the types, and the queue within its bound.
LEMMA TypeStep ==
  ASSUME TypeOK, PhaseInv, [Next]_vars
  PROVE  TypeOK'
<1> USE PoolAssumption DEF TypeOK, Tasks
<1>1. ASSUME NEW p \in Producers, CallRun(p) PROVE TypeOK'
  <2>1. submitted[p] + 1 \in 1..MaxTasks /\ submitted'[p] = submitted[p] + 1
    BY <1>1 DEF CallRun
  <2>2. submitted' \in [Producers -> 0..MaxTasks] BY <1>1, <2>1 DEF CallRun
  <2>3. <<p, submitted'[p]>> \in Tasks BY <2>1
  <2>4. ppc' \in [Producers -> {"idle", "run", "wait"}] BY <1>1 DEF CallRun
  <2>5. finished' \subseteq Tasks BY <1>1, <2>3 DEF CallRun
  <2> QED BY <1>1, <2>2, <2>4, <2>5 DEF CallRun
<1>2. ASSUME NEW p \in Producers, RunWaits(p) PROVE TypeOK'
  BY <1>2 DEF RunWaits
<1>3. ASSUME NEW p \in Producers, ppc[p] = "run" PROVE TaskOf(p) \in Tasks
  <2>1. submitted[p] \in 0..MaxTasks /\ submitted[p] > 0 BY <1>3 DEF PhaseInv
  <2>2. submitted[p] \in 1..MaxTasks BY <2>1
  <2> QED BY <2>2 DEF TaskOf
<1>4. ASSUME NEW p \in Producers, RunReturns(p) PROVE TypeOK'
  BY <1>3, <1>4 DEF RunReturns
<1>5. ASSUME NEW p \in Producers, RunPushes(p) PROVE TypeOK'
  <2>1. queue' \in Seq(Tasks) /\ Len(queue') = Len(queue) + 1 /\ Len(queue) \in Nat
    BY <1>3, <1>5, AppendProperties DEF RunPushes
  <2>2. maxQueueSize > 0 => Len(queue') <= maxQueueSize
    BY <1>5, <2>1 DEF RunPushes, IsFull
  <2>3. wpc' \in [Workers -> {"unborn", "check", "take", "wait", "run", "exit"}]
    BY <1>5, NotifyFacts DEF RunPushes
  <2>4. ppc' \in [Producers -> {"idle", "run", "wait"}] BY <1>5 DEF RunPushes
  <2> QED BY <1>5, <2>1, <2>2, <2>3, <2>4 DEF RunPushes
<1>6. ASSUME NEW w \in Workers, WorkerChecks(w) PROVE TypeOK'
  BY <1>6 DEF WorkerChecks
<1>7. ASSUME NEW w \in Workers, TakeWaits(w) PROVE TypeOK'
  BY <1>7 DEF TakeWaits
<1>8. ASSUME NEW w \in Workers, TakeReturnsNothing(w) PROVE TypeOK'
  BY <1>8 DEF TakeReturnsNothing
<1>9. ASSUME NEW w \in Workers, Take(w) PROVE TypeOK'
  <2>1. /\ Head(queue) \in Tasks /\ queue' \in Seq(Tasks)
        /\ Len(queue') = Len(queue) - 1 /\ Len(queue) \in Nat
    BY <1>9, HeadTailProperties DEF Take, PopFront
  <2>2. taken' \in Seq(Tasks) BY <1>9, <2>1, AppendProperties DEF Take
  <2>3. maxQueueSize > 0 => Len(queue') <= maxQueueSize
    BY <1>9, <2>1 DEF Take
  <2>4. ppc' \in [Producers -> {"idle", "run", "wait"}] BY <1>9, NotifyFacts DEF Take
  <2>5. /\ task' \in [Workers -> Tasks \union {NoTask}]
        /\ wpc' \in [Workers -> {"unborn", "check", "take", "wait", "run", "exit"}]
    BY <1>9, <2>1 DEF Take
  <2> QED BY <1>9, <2>1, <2>2, <2>3, <2>4, <2>5 DEF Take
<1>10. ASSUME NEW w \in Workers, TaskReturns(w) PROVE TypeOK'
  <2>1. task[w] \in Tasks BY <1>10 DEF TaskReturns, PhaseInv
  <2> QED BY <1>10, <2>1 DEF TaskReturns
<1>11. CASE SpuriousWakeup BY <1>11 DEF SpuriousWakeup, NotEmptyWaiters, NotFullWaiters
<1>12. CASE Start BY <1>12 DEF Start
<1>13. CASE Stop BY <1>13 DEF Stop, ReleasedWorkers, ReleasedProducers
<1>14. CASE StopJoins BY <1>14 DEF StopJoins
<1>15. CASE UNCHANGED vars BY <1>15 DEF vars
<1> QED BY <1>1, <1>2, <1>4, <1>5, <1>6, <1>7, <1>8, <1>9, <1>10, <1>11, <1>12, <1>13, <1>14,
           <1>15 DEF Next, RunStep, WorkerStep

\* One step keeps the phases.
LEMMA PhaseStep ==
  ASSUME TypeOK, PhaseInv, [Next]_vars
  PROVE  PhaseInv'
<1> USE PoolAssumption DEF TypeOK, PhaseInv
<1>1. ASSUME NEW p \in Producers, CallRun(p) PROVE PhaseInv'
  BY <1>1 DEF CallRun
<1>2. ASSUME NEW p \in Producers, RunWaits(p) PROVE PhaseInv'
  BY <1>2 DEF RunWaits, IsFull
<1>3. ASSUME NEW p \in Producers, RunReturns(p) PROVE PhaseInv'
  BY <1>3 DEF RunReturns
<1>4. ASSUME NEW p \in Producers, RunPushes(p) PROVE PhaseInv'
  <2>1. \A v \in Workers : wpc'[v] = "run" <=> wpc[v] = "run"
    BY <1>4, NotifyFacts DEF RunPushes
  <2> QED BY <1>4, <2>1 DEF RunPushes
<1>5. ASSUME NEW w \in Workers, WorkerChecks(w) PROVE PhaseInv'
  BY <1>5 DEF WorkerChecks
<1>6. ASSUME NEW w \in Workers, TakeWaits(w) PROVE PhaseInv'
  BY <1>6 DEF TakeWaits
<1>7. ASSUME NEW w \in Workers, TakeReturnsNothing(w) PROVE PhaseInv'
  BY <1>7 DEF TakeReturnsNothing
<1>8. ASSUME NEW w \in Workers, Take(w) PROVE PhaseInv'
  <2>1. \A q \in Producers : /\ ppc'[q] = "idle" <=> ppc[q] = "idle"
                             /\ ppc'[q] = "wait" => ppc[q] = "wait"
    BY <1>8, NotifyFacts DEF Take
  <2>2. Head(queue) \in Tasks BY <1>8, HeadTailProperties DEF Take
  <2>3. Head(queue) # NoTask BY <2>2 DEF Tasks
  <2>4. \A v \in Workers : task'[v] # NoTask <=> wpc'[v] = "run"
    BY <1>8, <2>3 DEF Take
  <2> QED BY <1>8, <2>1, <2>4 DEF Take
<1>9. ASSUME NEW w \in Workers, TaskReturns(w) PROVE PhaseInv'
  BY <1>9 DEF TaskReturns
<1>10. CASE SpuriousWakeup BY <1>10 DEF SpuriousWakeup, NotEmptyWaiters, NotFullWaiters
<1>11. CASE Start BY <1>11 DEF Start
<1>12. CASE Stop BY <1>12 DEF Stop, ReleasedWorkers, ReleasedProducers
<1>13. CASE StopJoins BY <1>13 DEF StopJoins
<1>14. CASE UNCHANGED vars BY <1>14 DEF vars
<1> QED BY <1>1, <1>2, <1>3, <1>4, <1>5, <1>6, <1>7, <1>8, <1>9, <1>10, <1>11, <1>12, <1>13,
           <1>14 DEF Next, RunStep, WorkerStep

-----------------------------------------------------------------------------
(* Nobody sleeps over work or room *)

\* The producers that are about to push.
PushingProducers == {p \in Producers : ppc[p] = "run"}

\* Workers and producers can be counted, in every subset.
LEMMA Countable ==
  /\ \A A \in SUBSET Workers : IsFiniteSet(A) /\ Cardinality(A) \in Nat
  /\ \A A \in SUBSET Producers : IsFiniteSet(A) /\ Cardinality(A) \in Nat
BY PoolAssumption, FS_Subset, FS_CardinalityType

\* What a further member, or one less, does to a count.
LEMMA CountStep ==
  /\ \A A \in SUBSET Workers : \A x :
       /\ x \notin A => Cardinality(A \union {x}) = Cardinality(A) + 1
       /\ x \in A => Cardinality(A \ {x}) = Cardinality(A) - 1
  /\ \A A \in SUBSET Producers : \A x :
       /\ x \notin A => Cardinality(A \union {x}) = Cardinality(A) + 1
       /\ x \in A => Cardinality(A \ {x}) = Cardinality(A) - 1
BY Countable, FS_AddElement, FS_RemoveElement

\* A larger set has at least as many members.
LEMMA CountMonotone ==
  /\ \A B \in SUBSET Workers : \A A \in SUBSET B : Cardinality(A) <= Cardinality(B)
  /\ \A B \in SUBSET Producers : \A A \in SUBSET B : Cardinality(A) <= Cardinality(B)
BY Countable, FS_Subset

\* One step leaves no worker asleep over a task.
LEMMA WorkerSleepStep ==
  ASSUME TypeOK, PhaseInv, TypeOK', NoWorkerSleepsOverATask, [Next]_vars
  PROVE  NoWorkerSleepsOverATask'
<1> SUFFICES ASSUME running', NotEmptyWaiters' # {}
             PROVE  Len(queue') <= Cardinality(AwakeWorkers')
  BY DEF NoWorkerSleepsOverATask
<1>0. /\ AwakeWorkers \in SUBSET Workers /\ AwakeWorkers' \in SUBSET Workers
      /\ Len(queue) \in Nat /\ Len(queue') \in Nat
      /\ Cardinality(AwakeWorkers) \in Nat /\ Cardinality(AwakeWorkers') \in Nat
  BY Countable DEF AwakeWorkers, TypeOK
<1>1. ASSUME NEW p \in Producers, RunPushes(p)
      PROVE  Len(queue') <= Cardinality(AwakeWorkers')
  <2>1. Len(queue') = Len(queue) + 1 /\ running
    BY <1>1 DEF RunPushes, TypeOK
  <2>2. NotEmptyWaiters # {}
    BY <1>1, NotifyFacts DEF RunPushes, NotEmptyWaiters
  <2>3. PICK w \in NotEmptyWaiters : wpc' = [wpc EXCEPT ![w] = "take"]
    BY <1>1, <2>2 DEF RunPushes, NotifyNotEmpty
  <2>4. w \notin AwakeWorkers /\ AwakeWorkers' = AwakeWorkers \union {w}
    BY <2>3 DEF TypeOK, AwakeWorkers, NotEmptyWaiters
  <2>5. Cardinality(AwakeWorkers') = Cardinality(AwakeWorkers) + 1
    BY <1>0, <2>4, CountStep
  <2> QED BY <1>0, <2>1, <2>2, <2>5 DEF NoWorkerSleepsOverATask
<1>2. ASSUME NEW w \in Workers, TakeWaits(w)
      PROVE  Len(queue') <= Cardinality(AwakeWorkers')
  <2>1. Len(queue') = 0 BY <1>2 DEF TakeWaits
  <2> QED BY <1>0, <2>1
<1>3. ASSUME NEW w \in Workers, Take(w)
      PROVE  Len(queue') <= Cardinality(AwakeWorkers')
  <2>1. Len(queue') = Len(queue) - 1 /\ running /\ NotEmptyWaiters # {}
    BY <1>3, HeadTailProperties DEF Take, PopFront, TypeOK, NotEmptyWaiters
  <2>2. w \in AwakeWorkers /\ AwakeWorkers' = AwakeWorkers \ {w}
    BY <1>3 DEF Take, TypeOK, AwakeWorkers
  <2>3. Cardinality(AwakeWorkers') = Cardinality(AwakeWorkers) - 1
    BY <1>0, <2>2, CountStep
  <2> QED BY <1>0, <2>1, <2>3 DEF NoWorkerSleepsOverATask
<1>4. CASE /\ UNCHANGED <<queue, running>> /\ NotEmptyWaiters' \subseteq NotEmptyWaiters
           /\ AwakeWorkers \subseteq AwakeWorkers'
  <2>1. Cardinality(AwakeWorkers) <= Cardinality(AwakeWorkers')
    BY <1>0, <1>4, CountMonotone
  <2>2. Len(queue) <= Cardinality(AwakeWorkers)
    BY <1>4 DEF NoWorkerSleepsOverATask
  <2> QED BY <1>0, <1>4, <2>1, <2>2
<1> USE DEF TypeOK, NotEmptyWaiters, AwakeWorkers
<1>5. ASSUME NEW p \in Producers, CallRun(p) \/ RunWaits(p) \/ RunReturns(p)
      PROVE  UNCHANGED <<queue, running, wpc>>
  BY <1>5 DEF CallRun, RunWaits, RunReturns
<1>6. ASSUME NEW w \in Workers, WorkerChecks(w) \/ TakeReturnsNothing(w) \/ TaskReturns(w)
      PROVE  /\ UNCHANGED <<queue, running>> /\ NotEmptyWaiters' \subseteq NotEmptyWaiters
             /\ AwakeWorkers \subseteq AwakeWorkers'
  BY <1>6 DEF WorkerChecks, TakeReturnsNothing, TaskReturns
<1>7. CASE SpuriousWakeup BY <1>4, <1>7 DEF SpuriousWakeup
<1>8. CASE Start BY <1>8 DEF Start
<1>9. CASE Stop BY <1>9 DEF Stop
<1>10. CASE StopJoins \/ UNCHANGED vars BY <1>4, <1>10 DEF StopJoins, vars
<1> QED BY <1>1, <1>2, <1>3, <1>4, <1>5, <1>6, <1>7, <1>8, <1>9, <1>10
        DEF Next, RunStep, WorkerStep

\* One step leaves no producer asleep over a place.
LEMMA ProducerSleepStep ==
  ASSUME TypeOK, PhaseInv, TypeOK', NoProducerSleepsOverAPlace, [Next]_vars
  PROVE  NoProducerSleepsOverAPlace'
<1> SUFFICES ASSUME running', NotFullWaiters' # {}
             PROVE  maxQueueSize' - Len(queue') <= Cardinality(PushingProducers')
  BY DEF NoProducerSleepsOverAPlace, PushingProducers
<1>0. /\ PushingProducers \in SUBSET Producers /\ PushingProducers' \in SUBSET Producers
      /\ Len(queue) \in Nat /\ Len(queue') \in Nat /\ maxQueueSize \in Nat
      /\ Cardinality(PushingProducers) \in Nat /\ Cardinality(PushingProducers') \in Nat
      /\ maxQueueSize' = maxQueueSize
  <2>1. maxQueueSize' = maxQueueSize
    BY DEF Next, CallRun, RunStep, RunWaits, RunReturns, RunPushes, WorkerStep, WorkerChecks,
           TakeWaits, TakeReturnsNothing, Take, TaskReturns, SpuriousWakeup, Start, Stop,
           StopJoins, vars
  <2> QED BY <2>1, Countable, PoolAssumption DEF PushingProducers, TypeOK
<1>a. (running /\ NotFullWaiters # {}) => maxQueueSize - Len(queue) <= Cardinality(PushingProducers)
  BY DEF NoProducerSleepsOverAPlace, PushingProducers
<1>1. ASSUME NEW p \in Producers, RunWaits(p)
      PROVE  maxQueueSize' - Len(queue') <= Cardinality(PushingProducers')
  <2>1. maxQueueSize - Len(queue') <= 0 BY <1>0, <1>1 DEF RunWaits, IsFull
  <2> QED BY <1>0, <2>1
<1>2. ASSUME NEW p \in Producers, RunPushes(p)
      PROVE  maxQueueSize' - Len(queue') <= Cardinality(PushingProducers')
  <2>1. Len(queue') = Len(queue) + 1 /\ running /\ NotFullWaiters # {}
    BY <1>2 DEF RunPushes, TypeOK, NotFullWaiters
  <2>2. p \in PushingProducers /\ PushingProducers' = PushingProducers \ {p}
    BY <1>2 DEF RunPushes, TypeOK, PushingProducers
  <2>3. Cardinality(PushingProducers') = Cardinality(PushingProducers) - 1
    BY <1>0, <2>2, CountStep
  <2> QED BY <1>0, <1>a, <2>1, <2>3
<1>3. ASSUME NEW w \in Workers, Take(w)
      PROVE  maxQueueSize' - Len(queue') <= Cardinality(PushingProducers')
  <2>1. Len(queue') = Len(queue) - 1 /\ running
    BY <1>3, HeadTailProperties DEF Take, PopFront, TypeOK
  <2>2. NotFullWaiters # {}
    BY <1>3, NotifyFacts DEF Take, NotFullWaiters
  <2>3. maxQueueSize > 0
    BY <2>2 DEF NotFullWaiters, PhaseInv
  <2>4. PICK p \in NotFullWaiters : ppc' = [ppc EXCEPT ![p] = "run"]
    BY <1>3, <2>2, <2>3 DEF Take, NotifyNotFull
  <2>5. p \notin PushingProducers /\ PushingProducers' = PushingProducers \union {p}
    BY <2>4 DEF TypeOK, PushingProducers, NotFullWaiters
  <2>6. Cardinality(PushingProducers') = Cardinality(PushingProducers) + 1
    BY <1>0, <2>5, CountStep
  <2> QED BY <1>0, <1>a, <2>1, <2>2, <2>6
<1>4. CASE /\ UNCHANGED <<queue, running>> /\ NotFullWaiters' \subseteq NotFullWaiters
           /\ PushingProducers \subseteq PushingProducers'
  <2>1. Cardinality(PushingProducers) <= Cardinality(PushingProducers')
    BY <1>0, <1>4, CountMonotone
  <2>2. maxQueueSize - Len(queue) <= Cardinality(PushingProducers)
    BY <1>4, <1>a
  <2> QED BY <1>0, <1>4, <2>1, <2>2
<1> USE DEF TypeOK, NotFullWaiters, PushingProducers
<1>5. ASSUME NEW p \in Producers, CallRun(p)
      PROVE  /\ UNCHANGED <<queue, running>> /\ NotFullWaiters' \subseteq NotFullWaiters
             /\ PushingProducers \subseteq PushingProducers'
  BY <1>5 DEF CallRun
<1>6. ASSUME NEW p \in Producers, RunReturns(p) PROVE FALSE
  BY <1>6 DEF RunReturns
<1>7. ASSUME NEW w \in Workers,
             WorkerChecks(w) \/ TakeWaits(w) \/ TakeReturnsNothing(w) \/ TaskReturns(w)
      PROVE  UNCHANGED <<queue, running, ppc>>
  BY <1>7 DEF WorkerChecks, TakeWaits, TakeReturnsNothing, TaskReturns
<1>8. CASE SpuriousWakeup BY <1>4, <1>8 DEF SpuriousWakeup
<1>9. CASE Start BY <1>9 DEF Start, PhaseInv
<1>10. CASE Stop BY <1>10 DEF Stop
<1>11. CASE StopJoins \/ UNCHANGED vars BY <1>4, <1>11 DEF StopJoins, vars
<1> QED BY <1>1, <1>2, <1>3, <1>4, <1>5, <1>6, <1>7, <1>8, <1>9, <1>10, <1>11
        DEF Next, RunStep, WorkerStep

-----------------------------------------------------------------------------
(* Every task is in one place *)

\* Which tasks are handed over, one by one: a producer inside run has not handed
\* over its last task yet.
IsHandedOver(q, n) ==
  /\ q \in Producers /\ n \in 1..submitted[q]
  /\ ppc[q] = "idle" \/ n # submitted[q]

\* AllHandedOver, by its members.
LEMMA HandedOverMembers ==
  TypeOK => /\ AllHandedOver \subseteq Tasks
            /\ \A q, n : <<q, n>> \in AllHandedOver <=> IsHandedOver(q, n)
<1> SUFFICES ASSUME TypeOK
             PROVE  /\ AllHandedOver \subseteq Tasks
                    /\ \A q, n : <<q, n>> \in AllHandedOver <=> IsHandedOver(q, n)
  OBVIOUS
<1> USE PoolAssumption
<1>1. \A p \in Producers : submitted[p] \in 0..MaxTasks BY DEF TypeOK
<1>2. \A t : t \in AllHandedOver <=>
        \E p \in Producers : \E m \in 1..submitted[p] :
          t = <<p, m>> /\ (ppc[p] = "idle" \/ m # submitted[p])
  BY DEF AllHandedOver, HandedOver, TaskOf
<1>3. AllHandedOver \subseteq Tasks
  BY <1>1, <1>2 DEF Tasks
<1>4. \A q, n : <<q, n>> \in AllHandedOver <=> IsHandedOver(q, n)
  BY <1>2 DEF IsHandedOver
<1> QED BY <1>3, <1>4

\* The same after a step.
LEMMA HandedOverMembersNext ==
  TypeOK' => /\ AllHandedOver' \subseteq Tasks
             /\ \A q, n : <<q, n>> \in AllHandedOver' <=> IsHandedOver(q, n)'
<1> SUFFICES ASSUME TypeOK'
             PROVE  /\ AllHandedOver' \subseteq Tasks
                    /\ \A q, n : <<q, n>> \in AllHandedOver' <=> IsHandedOver(q, n)'
  OBVIOUS
<1> USE PoolAssumption
<1>1. \A p \in Producers : submitted'[p] \in 0..MaxTasks BY DEF TypeOK
<1>2. \A t : t \in AllHandedOver' <=>
        \E p \in Producers : \E m \in 1..submitted'[p] :
          t = <<p, m>> /\ (ppc'[p] = "idle" \/ m # submitted'[p])
  BY DEF AllHandedOver, HandedOver, TaskOf
<1>3. AllHandedOver' \subseteq Tasks
  BY <1>1, <1>2 DEF Tasks
<1>4. \A q, n : <<q, n>> \in AllHandedOver' <=> IsHandedOver(q, n)'
  BY <1>2 DEF IsHandedOver
<1> QED BY <1>3, <1>4

\* A step after which the same producers are inside run, with the same tasks,
\* hands over nothing.
LEMMA NothingHandedOver ==
  ASSUME TypeOK, TypeOK', UNCHANGED submitted,
         \A q \in Producers : ppc'[q] = "idle" <=> ppc[q] = "idle"
  PROVE  AllHandedOver' = AllHandedOver
<1>1. \A q, n : IsHandedOver(q, n)' <=> IsHandedOver(q, n) BY DEF IsHandedOver
<1>2. \A t \in Tasks : \E q, n : t = <<q, n>> BY DEF Tasks
<1> QED BY <1>1, <1>2, HandedOverMembers, HandedOverMembersNext

\* A producer that leaves run hands over the task it went in with, which nobody
\* has had before.
LEMMA OneHandedOver ==
  ASSUME TypeOK, TypeOK', NEW p \in Producers, ppc[p] = "run", submitted[p] > 0,
         UNCHANGED submitted, ppc' = [ppc EXCEPT ![p] = "idle"]
  PROVE  /\ AllHandedOver' = AllHandedOver \union {TaskOf(p)}
         /\ TaskOf(p) \notin AllHandedOver
<1>0. submitted[p] \in Nat BY DEF TypeOK
<1>1. \A q, n : IsHandedOver(q, n)' <=> IsHandedOver(q, n) \/ <<q, n>> = TaskOf(p)
  BY <1>0 DEF IsHandedOver, TaskOf, TypeOK
<1>2. \A t \in Tasks : \E q, n : t = <<q, n>> BY DEF Tasks
<1>3. ~IsHandedOver(p, submitted[p]) BY DEF IsHandedOver
<1>4. IsHandedOver(p, submitted[p])' BY <1>0, <1>1 DEF TaskOf
<1>5. TaskOf(p) \in AllHandedOver' /\ TaskOf(p) \notin AllHandedOver
  BY <1>3, <1>4, HandedOverMembers, HandedOverMembersNext DEF TaskOf
<1> QED BY <1>1, <1>2, <1>5, HandedOverMembers, HandedOverMembersNext

\* A call of run hands over its task at once if there are no threads, and
\* nothing yet if there are.
LEMMA CallHandsOver ==
  ASSUME TypeOK, TypeOK', PhaseInv, NEW p \in Producers, CallRun(p)
  PROVE  /\ ~started => /\ AllHandedOver' = AllHandedOver \union {<<p, submitted'[p]>>}
                        /\ <<p, submitted'[p]>> \notin AllHandedOver
         /\ started => AllHandedOver' = AllHandedOver
<1>0. /\ submitted[p] \in Nat /\ ppc[p] = "idle"
      /\ submitted' = [submitted EXCEPT ![p] = @ + 1] /\ submitted'[p] = submitted[p] + 1
  BY DEF TypeOK, CallRun
<1>1. \A t \in Tasks : \E q, n : t = <<q, n>> BY DEF Tasks
<1>2. \A q \in Producers : q # p => submitted'[q] = submitted[q] /\ ppc'[q] = ppc[q]
  BY DEF CallRun, TypeOK
<1>3. CASE ~started
  <2>1. ppc' = ppc BY <1>3 DEF CallRun
  <2>2. \A q, n : IsHandedOver(q, n)' <=>
                    IsHandedOver(q, n) \/ <<q, n>> = <<p, submitted'[p]>>
    <3> SUFFICES ASSUME NEW q, NEW n
                 PROVE  IsHandedOver(q, n)' <=>
                          IsHandedOver(q, n) \/ <<q, n>> = <<p, submitted'[p]>>
      OBVIOUS
    <3>1. CASE q = p
      BY <1>0, <2>1, <3>1 DEF IsHandedOver
    <3>2. CASE q # p
      BY <1>2, <3>2 DEF IsHandedOver
    <3> QED BY <3>1, <3>2
  <2>3. ~IsHandedOver(p, submitted'[p]) BY <1>0 DEF IsHandedOver
  <2> QED BY <1>1, <1>3, <2>2, <2>3, HandedOverMembers, HandedOverMembersNext
<1>4. CASE started
  <2>1. ppc'[p] = "run" BY <1>4 DEF CallRun, TypeOK
  <2>2. \A q, n : IsHandedOver(q, n)' <=> IsHandedOver(q, n)
    <3> SUFFICES ASSUME NEW q, NEW n
                 PROVE  IsHandedOver(q, n)' <=> IsHandedOver(q, n)
      OBVIOUS
    <3>1. CASE q = p
      BY <1>0, <2>1, <3>1 DEF IsHandedOver
    <3>2. CASE q # p
      BY <1>2, <3>2 DEF IsHandedOver
    <3> QED BY <3>1, <3>2
  <2> QED BY <1>1, <1>4, <2>2, HandedOverMembers, HandedOverMembersNext
<1> QED BY <1>3, <1>4

\* One step moves a task from one place to the next, or none.
LEMMA PlacesStep ==
  ASSUME TypeOK, TypeOK', PhaseInv, PlacesInv, [Next]_vars
  PROVE  PlacesInv'
<1>1. ASSUME NEW p \in Producers, CallRun(p) PROVE PlacesInv'
  <2>1. UNCHANGED <<queue, task, taken, refused>> BY <1>1 DEF CallRun
  <2>2. HeldTasks' = HeldTasks BY <2>1 DEF HeldTasks
  <2>3. CASE started
    <3>1. AllHandedOver' = AllHandedOver /\ finished' = finished
      BY <1>1, <2>3, CallHandsOver DEF CallRun
    <3> QED BY <2>1, <2>2, <3>1 DEF PlacesInv
  <2>4. CASE ~started
    <3>1. /\ AllHandedOver' = AllHandedOver \union {<<p, submitted'[p]>>}
          /\ <<p, submitted'[p]>> \notin AllHandedOver
      BY <1>1, <2>4, CallHandsOver
    <3>2. finished' = finished \union {<<p, submitted'[p]>>}
      BY <1>1, <2>4 DEF CallRun
    <3> QED BY <2>1, <2>2, <3>1, <3>2 DEF PlacesInv
  <2> QED BY <2>3, <2>4
<1>2. ASSUME NEW p \in Producers, RunReturns(p) PROVE PlacesInv'
  <2>1. /\ UNCHANGED <<queue, task, taken, finished, submitted>>
        /\ refused' = refused \union {TaskOf(p)}
        /\ ppc' = [ppc EXCEPT ![p] = "idle"] /\ ppc[p] = "run" /\ submitted[p] > 0
    BY <1>2 DEF RunReturns, PhaseInv
  <2>2. HeldTasks' = HeldTasks BY <2>1 DEF HeldTasks
  <2>3. /\ AllHandedOver' = AllHandedOver \union {TaskOf(p)} /\ TaskOf(p) \notin AllHandedOver
    BY <2>1, OneHandedOver
  <2> QED BY <2>1, <2>2, <2>3 DEF PlacesInv
<1>3. ASSUME NEW p \in Producers, RunPushes(p) PROVE PlacesInv'
  <2>1. /\ UNCHANGED <<task, taken, finished, refused, submitted>>
        /\ queue' = Append(queue, TaskOf(p))
        /\ ppc' = [ppc EXCEPT ![p] = "idle"] /\ ppc[p] = "run" /\ submitted[p] > 0
    BY <1>3 DEF RunPushes, PhaseInv
  <2>2. HeldTasks' = HeldTasks BY <2>1 DEF HeldTasks
  <2>3. /\ AllHandedOver' = AllHandedOver \union {TaskOf(p)} /\ TaskOf(p) \notin AllHandedOver
    BY <2>1, OneHandedOver
  <2>4. TaskOf(p) \in Tasks BY <2>3, HandedOverMembersNext
  <2>5. queue \in Seq(Tasks) BY DEF TypeOK
  <2>6. TaskOf(p) \notin Range(queue) BY <2>3 DEF PlacesInv
  <2>7. Range(queue') = Range(queue) \union {TaskOf(p)} /\ IsInjective(queue')
    BY <2>1, <2>4, <2>5, <2>6, PushBackFacts DEF PlacesInv
  <2> QED BY <2>1, <2>2, <2>3, <2>7 DEF PlacesInv
<1>4. ASSUME NEW w \in Workers, Take(w) PROVE PlacesInv'
  <2>1. /\ UNCHANGED <<finished, refused, submitted>>
        /\ queue' = Tail(queue) /\ queue # << >> /\ queue \in Seq(Tasks)
        /\ taken' = Append(taken, Head(queue)) /\ taken \in Seq(Tasks)
        /\ task' = [task EXCEPT ![w] = Head(queue)] /\ task[w] = NoTask
    BY <1>4 DEF Take, PopFront, PhaseInv, TypeOK
  <2>2. AllHandedOver' = AllHandedOver
    BY <1>4, <2>1, NotifyFacts, NothingHandedOver DEF Take
  <2>3. /\ Head(queue) \in Range(queue) /\ IsInjective(queue')
        /\ Range(queue') = Range(queue) \ {Head(queue)}
    BY <2>1, PopFrontFacts DEF PlacesInv
  <2>4. Head(queue) \in Tasks BY <2>1, HeadTailProperties
  <2>5. Head(queue) # NoTask BY <2>4, PoolAssumption DEF Tasks
  <2>6. Range(taken') = Range(taken) \union {Head(queue)}
    BY <2>1, <2>4, PushBackFacts
  <2>7. /\ \A v \in Workers : v # w => task'[v] = task[v]
        /\ task'[w] = Head(queue)
    BY <2>1 DEF TypeOK
  <2>8. HeldTasks' = HeldTasks \union {Head(queue)}
    BY <2>1, <2>5, <2>7 DEF HeldTasks
  <2>9. Head(queue) \notin HeldTasks BY <2>3 DEF PlacesInv
  <2>10. \A u, v \in Workers : (u # v /\ task'[u] # NoTask) => task'[u] # task'[v]
    <3> SUFFICES ASSUME NEW u \in Workers, NEW v \in Workers, u # v, task'[u] # NoTask,
                        task'[u] = task'[v]
                 PROVE  FALSE
      OBVIOUS
    <3>1. CASE u = w BY <2>5, <2>7, <2>9, <3>1 DEF HeldTasks
    <3>2. CASE v = w BY <2>5, <2>7, <2>9, <3>2 DEF HeldTasks
    <3>3. CASE u # w /\ v # w BY <2>7, <3>3 DEF PlacesInv
    <3> QED BY <3>1, <3>2, <3>3
  <2> QED BY <2>1, <2>2, <2>3, <2>6, <2>8, <2>10 DEF PlacesInv
<1>5. ASSUME NEW w \in Workers, TaskReturns(w) PROVE PlacesInv'
  <2>1. /\ UNCHANGED <<queue, taken, refused, submitted, ppc>>
        /\ finished' = finished \union {task[w]} /\ task[w] # NoTask
        /\ task' = [task EXCEPT ![w] = NoTask]
    BY <1>5 DEF TaskReturns, PhaseInv
  <2>2. AllHandedOver' = AllHandedOver BY <2>1, NothingHandedOver
  <2>3. /\ \A v \in Workers : v # w => task'[v] = task[v]
        /\ task'[w] = NoTask
    BY <2>1 DEF TypeOK
  <2>4. \A v \in Workers : v # w => task[v] # task[w] BY <2>1 DEF PlacesInv
  <2>5. HeldTasks' = HeldTasks \ {task[w]} BY <2>1, <2>3, <2>4 DEF HeldTasks
  <2>6. task[w] \in HeldTasks BY <2>1 DEF HeldTasks
  <2>7. \A u, v \in Workers : (u # v /\ task'[u] # NoTask) => task'[u] # task'[v]
    BY <2>3 DEF PlacesInv
  <2> QED BY <2>1, <2>2, <2>5, <2>6, <2>7 DEF PlacesInv
<1>6. CASE /\ UNCHANGED <<queue, task, taken, finished, refused, submitted>>
           /\ \A q \in Producers : ppc'[q] = "idle" <=> ppc[q] = "idle"
  <2>1. AllHandedOver' = AllHandedOver BY <1>6, NothingHandedOver
  <2>2. HeldTasks' = HeldTasks BY <1>6 DEF HeldTasks
  <2> QED BY <1>6, <2>1, <2>2 DEF PlacesInv
<1> USE DEF TypeOK
<1>7. ASSUME NEW p \in Producers, RunWaits(p) PROVE PlacesInv'
  BY <1>6, <1>7 DEF RunWaits
<1>8. ASSUME NEW w \in Workers, WorkerChecks(w) \/ TakeWaits(w) \/ TakeReturnsNothing(w)
      PROVE  PlacesInv'
  BY <1>6, <1>8 DEF WorkerChecks, TakeWaits, TakeReturnsNothing
<1>9. CASE SpuriousWakeup BY <1>6, <1>9 DEF SpuriousWakeup, NotFullWaiters
<1>10. CASE Start BY <1>6, <1>10 DEF Start
<1>11. CASE Stop BY <1>6, <1>11 DEF Stop, ReleasedProducers
<1>12. CASE StopJoins \/ UNCHANGED vars BY <1>6, <1>12 DEF StopJoins, vars
<1> QED BY <1>1, <1>2, <1>3, <1>4, <1>5, <1>7, <1>8, <1>9, <1>10, <1>11, <1>12
        DEF Next, RunStep, WorkerStep

-----------------------------------------------------------------------------
(* The theorems *)

PoolInv ==
  TypeOK /\ PhaseInv /\ NoWorkerSleepsOverATask /\ NoProducerSleepsOverAPlace /\ PlacesInv

\* PoolInv holds from the constructor on.
THEOREM PoolInvariant == Spec => []PoolInv
<1>1. Init => PoolInv
  <2> SUFFICES ASSUME Init PROVE PoolInv OBVIOUS
  <2> USE PoolAssumption
  <2>1. TypeOK
    <3>1. << >> \in Seq(Tasks) /\ Len(<< >>) = 0 /\ maxQueueSize \in Nat /\ 0 \in 0..MaxTasks
      BY DEF Init
    <3>2. submitted \in [Producers -> 0..MaxTasks] BY <3>1 DEF Init
    <3>3. task \in [Workers -> Tasks \union {NoTask}] BY DEF Init
    <3>4. wpc \in [Workers -> {"unborn", "check", "take", "wait", "run", "exit"}] BY DEF Init
    <3>5. ppc \in [Producers -> {"idle", "run", "wait"}] BY DEF Init
    <3>6. queue \in Seq(Tasks) /\ taken \in Seq(Tasks) /\ Len(queue) <= maxQueueSize
      BY <3>1 DEF Init
    <3>7. finished \subseteq Tasks /\ refused \subseteq Tasks BY DEF Init
    <3>8. started \in BOOLEAN /\ running \in BOOLEAN /\ maxQueueSize \in MaxQueueSizes
      BY DEF Init
    <3>9. spc \in {"idle", "started", "join", "stopped"} BY DEF Init
    <3> QED BY <3>2, <3>3, <3>4, <3>5, <3>6, <3>7, <3>8, <3>9 DEF TypeOK
  <2>2. PhaseInv BY DEF Init, PhaseInv
  <2>3. NoWorkerSleepsOverATask BY DEF Init, NoWorkerSleepsOverATask
  <2>4. NoProducerSleepsOverAPlace BY DEF Init, NoProducerSleepsOverAPlace
  <2>5. AllHandedOver = {}
    <3>1. \A p \in Producers : 1..submitted[p] = {} BY DEF Init
    <3>2. \A p \in Producers : HandedOver(p) = {} BY <3>1 DEF HandedOver
    <3> QED BY <3>2 DEF AllHandedOver
  <2>6. HeldTasks = {} BY DEF Init, HeldTasks
  <2>7. Range(queue) = {} /\ Range(taken) = {} /\ IsInjective(queue)
    BY DEF Init, Range, IsInjective
  <2>8. PlacesInv BY <2>5, <2>6, <2>7 DEF Init, PlacesInv
  <2> QED BY <2>1, <2>2, <2>3, <2>4, <2>8 DEF PoolInv
<1>2. PoolInv /\ [Next]_vars => PoolInv'
  BY TypeStep, PhaseStep, WorkerSleepStep, ProducerSleepStep, PlacesStep DEF PoolInv
<1> QED BY <1>1, <1>2, PTL DEF Spec

\* With any number of workers and producers and any bound on the queue, every
\* task handed to run is in exactly one place, no notify is lost on the way to
\* a worker that could take a task or to a producer that could push one.
THEOREM PoolConsistent == Spec => []QueueConsistent
<1>1. PoolInv => QueueConsistent
  <2> SUFFICES ASSUME PoolInv PROVE QueueConsistent OBVIOUS
  <2>1. queue \in Seq(Tasks) /\ IsInjective(queue) BY DEF PoolInv, TypeOK, PlacesInv
  <2>2. Cardinality(Range(queue)) = Len(queue) BY <2>1, InjectiveCardinality
  <2>3. TasksAccounted
    BY <2>2 DEF PoolInv, PlacesInv, TasksAccounted, AllHandedOver, HeldTasks
  <2> QED BY <2>3 DEF PoolInv, QueueConsistent
<1> QED BY <1>1, PoolInvariant, PTL

\* The pool implements the abstract task queue: a task is pushed once and the
\* tasks are taken in the order they were pushed, whichever workers take them
\* and however the two conditions wake them.
THEOREM Refinement == Spec => ImplementsTaskQueue
<1>1. Init => Abstract!Init BY DEF Init, Abstract!Init
<1>2. PoolInv /\ PoolInv' /\ [Next]_vars => [Abstract!Next]_<<queue, taken>>
  <2> SUFFICES ASSUME PoolInv, PoolInv', [Next]_vars
               PROVE  [Abstract!Next]_<<queue, taken>>
    OBVIOUS
  <2>0. TypeOK /\ TypeOK' BY DEF PoolInv
  <2>1. ASSUME NEW p \in Producers, RunPushes(p) PROVE Abstract!Next
    <3>1. /\ UNCHANGED <<taken, submitted>> /\ queue' = Append(queue, TaskOf(p))
          /\ ppc' = [ppc EXCEPT ![p] = "idle"] /\ ppc[p] = "run" /\ submitted[p] > 0
      BY <2>1 DEF RunPushes, PoolInv, PhaseInv
    <3>2. AllHandedOver' = AllHandedOver \union {TaskOf(p)} /\ TaskOf(p) \notin AllHandedOver
      BY <2>0, <3>1, OneHandedOver
    <3>3. TaskOf(p) \in Tasks BY <2>0, <3>2, HandedOverMembersNext
    <3>4. TaskOf(p) \notin Range(queue) /\ TaskOf(p) \notin Range(taken)
      BY <3>2 DEF PoolInv, PlacesInv
    <3>5. Abstract!Submit(TaskOf(p))
      BY <3>1, <3>4 DEF Abstract!Submit, Range, Abstract!Range
    <3> QED BY <3>3, <3>5 DEF Abstract!Next
  <2>2. ASSUME NEW w \in Workers, Take(w) PROVE Abstract!Next
    BY <2>2 DEF Take, PopFront, Abstract!Next, Abstract!Execute
  <2>3. \/ UNCHANGED <<queue, taken>>
        \/ \E p \in Producers : RunPushes(p)
        \/ \E w \in Workers : Take(w)
    BY DEF Next, CallRun, RunStep, RunWaits, RunReturns, WorkerStep, WorkerChecks, TakeWaits,
           TakeReturnsNothing, TaskReturns, SpuriousWakeup, Start, Stop, StopJoins, vars
  <2> QED BY <2>1, <2>2, <2>3
<1> QED BY <1>1, <1>2, PoolInvariant, PTL DEF Spec, ImplementsTaskQueue, Abstract!Spec

-----------------------------------------------------------------------------
(* LoopThreads, the pool of threads that run loops *)

LoopsStarting == opc \in {"new", "wait"}
LoopsDestroying == opc \in {"dtor", "quit", "wakeup", "join", "destroyed"}

\* loops_ holds the loops of the threads startLoop has returned for, in order.
LoopsInv ==
  /\ LoopsStarting => Len(loops) = k - 1
  /\ ~LoopsStarting => Len(loops) = numThreads
  /\ \A i \in 1..Len(loops) : loops[i] = i
  /\ LoopsStarting => next = 0
  /\ opc \in {"wait", "quit", "wakeup", "join"} => k <= numThreads
  /\ opc = "destroyed" => k = numThreads + 1

\* loop_ is set while loop() may run, startLoop has waited for that, and the
\* threads after it do not exist yet.
PublishInv ==
  \A i \in Threads :
    /\ (opc = "new" /\ i >= k) \/ (opc = "wait" /\ i > k) => tpc[i] = "unborn"
    /\ loopPtr[i] <=> tpc[i] \in {"enter", "looping", "leaving"}
    /\ i <= Len(loops) => tpc[i] \in {"enter", "looping", "leaving", "gone"}

\* The destructor has set quit_ for thread i, or found it gone.
Told(i) == LoopsDestroying /\ (i < k \/ (opc \in {"wakeup", "join"} /\ i = k))

\* A loop ends because a functor or the destructor says so, and the destructor
\* goes on to the next thread when this one is gone.
QuitInv ==
  \A i \in Threads :
    /\ (quit[i] \/ tpc[i] \in {"leaving", "gone"}) => (i \in selfQuit \/ Told(i))
    /\ LoopsDestroying /\ i < k => tpc[i] = "gone"
    /\ i \in wokenDead => tpc[i] = "gone"
    /\ i \in selfQuit => tpc[i] \in {"looping", "leaving", "gone"}

\* The destructor sets quit_ once: a loop that has cleared it ends by itself.
ForgottenInv ==
  \A i \in Threads :
    i \in forgotten =>
      /\ Told(i)
      /\ tpc[i] \in {"looping", "leaving", "gone"}
      /\ quit[i] \/ tpc[i] # "looping" => i \in selfQuit

\* The loops before next_ are one use ahead of the others.
UsesInv ==
  /\ \A i \in Threads : uses[i] = uses[numThreads] + (IF i <= next THEN 1 ELSE 0)
  /\ numThreads > 0 => uses[0] = 0
  /\ numThreads > 0 => next < numThreads

LoopThreadsInv ==
  LoopsTypeOK /\ LoopsInv /\ PublishInv /\ QuitInv /\ ForgottenInv /\ UsesInv /\ DeadLoopsExplained

-----------------------------------------------------------------------------

\* One step keeps the types.
LEMMA LoopTypeStep ==
  ASSUME LoopsTypeOK, LoopsInv, [LoopsNext]_loopsVars
  PROVE  LoopsTypeOK'
<1> USE ThreadNumsAssumption DEF LoopsTypeOK, Threads, dead
<1>0. numThreads \in Nat /\ Len(loops) \in Nat /\ k \in Nat OBVIOUS
<1>1. CASE LoopsStart BY <1>0, <1>1 DEF LoopsStart
<1>2. CASE StartLoopReturns
  <2>1. k <= numThreads /\ loops' = Append(loops, k)
    BY <1>2 DEF StartLoopReturns, LoopReady, LoopsInv
  <2>2. k \in 0..numThreads BY <1>0, <2>1
  <2>3. loops' \in Seq(0..numThreads) /\ Len(loops') = Len(loops) + 1
    BY <2>1, <2>2, AppendProperties
  <2>4. next = 0 /\ k' \in 1..(numThreads + 1)
    BY <1>0, <1>2, <2>1 DEF StartLoopReturns, LoopsInv, LoopsStarting
  <2>5. next' = 0 /\ 0 < Len(loops')
    BY <1>0, <1>2, <2>3, <2>4 DEF StartLoopReturns
  <2> QED BY <1>2, <2>3, <2>4, <2>5 DEF StartLoopReturns
<1>3. CASE GetNextLoop
  <2>1. CASE loops = << >>
    <3>1. uses[0] + 1 \in Nat BY <1>0
    <3> QED BY <1>3, <2>1, <3>1 DEF GetNextLoop
  <2>2. CASE loops # << >>
    <3>1. next + 1 \in 1..Len(loops) /\ Len(loops) = numThreads
      BY <1>0, <1>3, <2>2 DEF GetNextLoop, LoopsInv, LoopsStarting
    <3>2. loops[next + 1] = next + 1
      BY <3>1 DEF LoopsInv
    <3>3. next' \in Nat /\ next' < Len(loops)
      BY <1>0, <1>3, <2>2, <3>1 DEF GetNextLoop, Wrapped
    <3>4. uses' = [uses EXCEPT ![next + 1] = @ + 1]
      BY <1>3, <2>2, <3>2 DEF GetNextLoop
    <3>5. next + 1 \in 0..numThreads /\ uses[next + 1] + 1 \in Nat
      BY <1>0, <3>1
    <3>6. uses' \in [0..numThreads -> Nat]
      BY <3>4, <3>5
    <3> QED BY <1>3, <2>2, <3>3, <3>6 DEF GetNextLoop
  <2> QED BY <2>1, <2>2
<1>4. CASE Destroy
  <2>1. 1 \in 1..(numThreads + 1) BY <1>0
  <2> QED BY <1>4, <2>1 DEF Destroy
<1>5. CASE DtorTests
  <2>1. k' \in 1..(numThreads + 1) /\ opc' \in {"dtor", "quit", "destroyed"}
    BY <1>0, <1>5 DEF DtorTests
  <2> QED BY <1>5, <2>1 DEF DtorTests
<1>6. CASE DtorQuits
  <2>1. k \in Threads BY <1>0, <1>6 DEF DtorQuits, LoopsInv
  <2> QED BY <1>6, <2>1 DEF DtorQuits, IfGone
<1>10. CASE DtorWakes
  <2>1. k \in Threads BY <1>0, <1>10 DEF DtorWakes, LoopsInv
  <2> QED BY <1>10, <2>1 DEF DtorWakes, IfGone
<1>7. CASE DtorJoins
  <2>1. k + 1 \in 1..(numThreads + 1) BY <1>0, <1>7 DEF DtorJoins, LoopsInv
  <2> QED BY <1>7, <2>1 DEF DtorJoins
<1>8. CASE \E i \in Threads : ThreadStep(i) \/ SelfQuit(i)
  <2> PICK i \in Threads : ThreadStep(i) \/ SelfQuit(i) BY <1>8
  <2>1. CASE Construct(i) BY <2>1 DEF Construct
  <2>2. CASE Publish(i) BY <2>2 DEF Publish, SetLoopPtr
  <2>3. CASE EnterLoop(i) BY <2>3 DEF EnterLoop
  <2>4. CASE LeaveLoop(i) BY <2>4 DEF LeaveLoop
  <2>5. CASE EndThread(i) BY <2>5 DEF EndThread
  <2>6. CASE SelfQuit(i) BY <2>6 DEF SelfQuit
  <2> QED BY <2>1, <2>2, <2>3, <2>4, <2>5, <2>6 DEF ThreadStep
<1>9. CASE UNCHANGED loopsVars BY <1>9 DEF loopsVars, dead
<1> QED BY <1>1, <1>2, <1>3, <1>4, <1>5, <1>6, <1>7, <1>8, <1>9, <1>10 DEF LoopsNext

\* One step keeps the order of loops_.
LEMMA LoopsStep ==
  ASSUME LoopsTypeOK, LoopsInv, [LoopsNext]_loopsVars
  PROVE  LoopsInv'
<1> USE ThreadNumsAssumption DEF LoopsInv, LoopsStarting
<1>0. numThreads \in Nat /\ Len(loops) \in Nat /\ k \in 1..(numThreads + 1)
  BY DEF LoopsTypeOK
<1>1. CASE LoopsStart
  <2>1. UNCHANGED <<k, numThreads, loops, next>> BY <1>1 DEF LoopsStart
  <2>2. \/ k <= numThreads /\ opc' = "wait"
        \/ ~(k <= numThreads) /\ opc' = "running"
    BY <1>1 DEF LoopsStart
  <2> QED BY <1>0, <1>1, <2>1, <2>2 DEF LoopsStart
<1>2. CASE StartLoopReturns
  <2>1. k <= numThreads /\ loops' = Append(loops, k)
    BY <1>2 DEF StartLoopReturns, LoopReady
  <2>2. k \in 0..numThreads BY <1>0, <2>1
  <2>3. /\ Len(loops') = Len(loops) + 1
        /\ loops'[Len(loops) + 1] = k
        /\ \A i \in 1..Len(loops) : loops'[i] = loops[i]
    BY <2>1, <2>2, AppendProperties DEF LoopsTypeOK
  <2> QED BY <1>0, <1>2, <2>1, <2>3 DEF StartLoopReturns
<1>3. CASE GetNextLoop BY <1>3 DEF GetNextLoop
<1>4. CASE Destroy BY <1>4 DEF Destroy
<1>5. CASE DtorTests BY <1>0, <1>5 DEF DtorTests
<1>6. CASE DtorQuits BY <1>6 DEF DtorQuits
<1>10. CASE DtorWakes BY <1>10 DEF DtorWakes
<1>7. CASE DtorJoins BY <1>7 DEF DtorJoins
<1>8. CASE \E i \in Threads : ThreadStep(i) \/ SelfQuit(i)
  BY <1>8 DEF ThreadStep, Construct, Publish, EnterLoop,
              LeaveLoop, EndThread, SelfQuit
<1>9. CASE UNCHANGED loopsVars BY <1>9 DEF loopsVars, dead
<1> QED BY <1>1, <1>2, <1>3, <1>4, <1>5, <1>6, <1>7, <1>8, <1>9, <1>10 DEF LoopsNext

\* One step keeps loop_ in agreement with where the threads are.
LEMMA PublishStep ==
  ASSUME LoopsTypeOK, LoopsInv, PublishInv, [LoopsNext]_loopsVars
  PROVE  PublishInv'
<1> USE ThreadNumsAssumption DEF LoopsTypeOK, PublishInv, Threads
<1>0. numThreads \in Nat /\ Len(loops) \in Nat /\ k \in 1..(numThreads + 1) OBVIOUS
<1>1. CASE LoopsStart
  <2>1. CASE k <= numThreads
    <3>1. k \in Threads /\ ~(k <= Len(loops))
      BY <1>0, <1>1, <2>1 DEF LoopsStart, LoopsInv, LoopsStarting
    <3>2. /\ tpc' = [tpc EXCEPT ![k] = "construct"]
          /\ opc' = "wait"
          /\ UNCHANGED <<numThreads, k, loopPtr, loops>>
      BY <1>1, <2>1 DEF LoopsStart
    <3>0. opc = "new" /\ k >= k BY <1>0, <1>1 DEF LoopsStart
    <3>3. tpc[k] = "unborn" /\ ~loopPtr[k]
      BY <3>0, <3>1
    <3>4. \A i \in Threads : i # k => tpc'[i] = tpc[i] BY <3>1, <3>2
    <3>5. tpc'[k] = "construct" BY <3>1, <3>2
    <3>6. \A i \in Threads : i > k => tpc[i] = "unborn" BY <1>0, <3>0
    <3>7. \A i \in Threads : i > k => i # k BY <1>0
    <3> HIDE DEF Threads
    <3>8. Threads' = Threads BY <3>2 DEF Threads
    <3> QED BY <3>1, <3>2, <3>3, <3>4, <3>5, <3>6, <3>7, <3>8
  <2>2. CASE ~(k <= numThreads)
    <3>1. opc' = "running" /\ UNCHANGED <<numThreads, tpc, loopPtr, loops>>
      BY <1>1, <2>2 DEF LoopsStart
    <3> QED BY <3>1
  <2> QED BY <2>1, <2>2
<1>2. CASE StartLoopReturns
  <2>1. Len(loops') = Len(loops) + 1 /\ Len(loops) = k - 1 /\ loopPtr[k]
    BY <1>2, AppendProperties DEF StartLoopReturns, LoopReady, LoopsInv, LoopsStarting
  <2>2. /\ k <= numThreads /\ UNCHANGED <<numThreads, tpc, loopPtr>>
        /\ opc = "wait" /\ opc' = "new" /\ k' = k + 1
    BY <1>2 DEF StartLoopReturns, LoopsInv
  <2>3. \A i \in Threads : i >= k + 1 => i > k BY <1>0
  <2>4. \A i \in Threads : i <= Len(loops) + 1 => i <= Len(loops) \/ i = k BY <1>0, <2>1
  <2>5. tpc[k] \in {"enter", "looping", "leaving"} BY <1>0, <2>1, <2>2
  <2> QED BY <2>1, <2>2, <2>3, <2>4, <2>5
<1>3. CASE GetNextLoop BY <1>3 DEF GetNextLoop
<1>4. CASE Destroy BY <1>4 DEF Destroy
<1>5. CASE DtorTests BY <1>5 DEF DtorTests
<1>6. CASE DtorQuits BY <1>6 DEF DtorQuits
<1>10. CASE DtorWakes BY <1>10 DEF DtorWakes
<1>7. CASE DtorJoins BY <1>7 DEF DtorJoins
<1>8. CASE \E i \in Threads : ThreadStep(i) \/ SelfQuit(i)
  <2> PICK i \in Threads : ThreadStep(i) \/ SelfQuit(i) BY <1>8
  <2>1. CASE Construct(i) BY <2>1 DEF Construct
  <2>2. CASE Publish(i) BY <2>2 DEF Publish, SetLoopPtr
  <2>3. CASE EnterLoop(i) BY <2>3 DEF EnterLoop
  <2>4. CASE LeaveLoop(i) BY <2>4 DEF LeaveLoop
  <2>5. CASE EndThread(i) BY <2>5 DEF EndThread
  <2>6. CASE SelfQuit(i) BY <2>6 DEF SelfQuit
  <2> QED BY <2>1, <2>2, <2>3, <2>4, <2>5, <2>6 DEF ThreadStep
<1>9. CASE UNCHANGED loopsVars BY <1>9 DEF loopsVars, dead
<1> QED BY <1>1, <1>2, <1>3, <1>4, <1>5, <1>6, <1>7, <1>8, <1>9, <1>10 DEF LoopsNext

\* One step ends no loop that neither a functor nor the destructor told to.
LEMMA QuitStep ==
  ASSUME LoopsTypeOK, LoopsInv, PublishInv, QuitInv, [LoopsNext]_loopsVars
  PROVE  QuitInv'
<1> USE ThreadNumsAssumption DEF LoopsTypeOK, LoopsInv, QuitInv,
            LoopsStarting, LoopsDestroying, Told, Threads, dead
<1>0. numThreads \in Nat /\ k \in Nat OBVIOUS
<1>1. CASE LoopsStart
  <2>1. opc = "new" /\ opc' \in {"wait", "running"} BY <1>1 DEF LoopsStart
  <2>2. \A i \in Threads : tpc'[i] = tpc[i] \/ (tpc[i] = "unborn" /\ tpc'[i] = "construct")
    <3>1. k <= numThreads => k \in Threads /\ k >= k BY <1>0
    <3>2. k <= numThreads => tpc[k] = "unborn" BY <2>1, <3>1 DEF PublishInv
    <3> QED BY <1>1, <3>1, <3>2 DEF LoopsStart
  <2>3. UNCHANGED <<numThreads, quit, selfQuit, wokenDead>> BY <1>1 DEF LoopsStart
  <2> QED BY <2>1, <2>2, <2>3
<1>2. CASE StartLoopReturns BY <1>0, <1>2 DEF StartLoopReturns
<1>3. CASE GetNextLoop BY <1>3 DEF GetNextLoop
<1>4. CASE Destroy BY <1>0, <1>4 DEF Destroy
<1>5. CASE DtorTests
  <2>1. k <= numThreads /\ ~loopPtr[k] => tpc[k] = "gone"
    BY <1>0, <1>5 DEF DtorTests, PublishInv
  <2>2. CASE k' = k BY <1>0, <1>5, <2>2 DEF DtorTests
  <2>3. CASE k' # k
    <3>1. k <= numThreads /\ ~loopPtr[k] /\ k' = k + 1 /\ opc = "dtor" /\ opc' = "dtor"
      BY <1>5, <2>3 DEF DtorTests
    <3>2. UNCHANGED <<numThreads, tpc, quit, selfQuit, wokenDead>>
      BY <1>5 DEF DtorTests
    <3>3. \A i \in Threads : i < k' <=> (i < k \/ i = k) BY <1>0, <3>1
    <3> QED BY <2>1, <3>1, <3>2, <3>3
  <2> QED BY <2>2, <2>3
<1>6. CASE DtorQuits
  <2>1. /\ opc = "quit" /\ opc' = "wakeup" /\ k \in Threads
        /\ UNCHANGED <<numThreads, k, tpc, selfQuit, wokenDead>>
    BY <1>0, <1>6 DEF DtorQuits
  <2>2. \A i \in Threads : quit'[i] => quit[i] \/ i = k BY <1>6 DEF DtorQuits
  <2> QED BY <2>1, <2>2
<1>10. CASE DtorWakes
  <2>1. /\ opc = "wakeup" /\ opc' = "join"
        /\ UNCHANGED <<numThreads, k, tpc, quit, selfQuit>>
    BY <1>10 DEF DtorWakes
  <2>2. \A i \in Threads : i \in wokenDead' => i \in wokenDead \/ tpc[i] = "gone"
    BY <1>10 DEF DtorWakes, IfGone
  <2> QED BY <2>1, <2>2
<1>7. CASE DtorJoins
  <2>1. /\ opc = "join" /\ opc' = "dtor" /\ k' = k + 1 /\ tpc[k] = "gone"
        /\ UNCHANGED <<numThreads, tpc, quit, selfQuit, wokenDead>>
    BY <1>7 DEF DtorJoins, Joinable
  <2>2. \A i \in Threads : i < k' <=> (i < k \/ i = k) BY <1>0, <2>1
  <2> QED BY <2>1, <2>2
<1>8. CASE \E i \in Threads : ThreadStep(i) \/ SelfQuit(i)
  <2> PICK i \in Threads : ThreadStep(i) \/ SelfQuit(i) BY <1>8
  <2> USE DEF ThreadStep, Construct, Publish, SetLoopPtr, EnterLoop, LeaveLoop,
              MayLeave, EndThread, SelfQuit
  <2> HIDE DEF Threads, Told, LoopsDestroying, LoopsInv, QuitInv
  <2>1. UNCHANGED <<numThreads, opc, k, wokenDead>> OBVIOUS
  <2>2. Threads' = Threads /\ LoopsDestroying' = LoopsDestroying /\ \A j : Told(j)' = Told(j)
    BY <2>1 DEF Threads, Told, LoopsDestroying
  <2>3. \A j \in Threads : j # i => /\ tpc'[j] = tpc[j] /\ quit'[j] = quit[j]
                                    /\ j \in selfQuit' => j \in selfQuit
    OBVIOUS
  <2>4. selfQuit \subseteq selfQuit' OBVIOUS
  <2>5. tpc[i] # "gone" BY DEF QuitInv
  <2>6. /\ (quit'[i] \/ tpc'[i] \in {"leaving", "gone"}) => (i \in selfQuit' \/ Told(i))
        /\ i \in selfQuit' => tpc'[i] \in {"looping", "leaving", "gone"}
    BY DEF QuitInv
  <2> QED BY <2>1, <2>2, <2>3, <2>4, <2>5, <2>6 DEF QuitInv
<1>9. CASE UNCHANGED loopsVars BY <1>9 DEF loopsVars
<1> QED BY <1>1, <1>2, <1>3, <1>4, <1>5, <1>6, <1>7, <1>8, <1>9, <1>10 DEF LoopsNext

\* One step sets quit_ for no loop that has cleared it, but by a functor.
LEMMA ForgottenStep ==
  ASSUME LoopsTypeOK, LoopsInv, PublishInv, QuitInv, ForgottenInv, [LoopsNext]_loopsVars
  PROVE  ForgottenInv'
<1> USE ThreadNumsAssumption DEF LoopsTypeOK, LoopsInv, ForgottenInv,
            LoopsStarting, LoopsDestroying, Told, Threads, dead
<1>0. numThreads \in Nat /\ k \in Nat OBVIOUS
<1>1. CASE LoopsStart
  <2>1. opc = "new" /\ UNCHANGED <<numThreads, forgotten>> BY <1>1 DEF LoopsStart
  <2> QED BY <2>1
<1>2. CASE StartLoopReturns BY <1>2 DEF StartLoopReturns
<1>3. CASE GetNextLoop BY <1>3 DEF GetNextLoop
<1>4. CASE Destroy BY <1>4 DEF Destroy
<1>5. CASE DtorTests BY <1>0, <1>5 DEF DtorTests
<1>6. CASE DtorQuits
  <2>1. /\ opc = "quit" /\ opc' = "wakeup" /\ k \in Threads
        /\ UNCHANGED <<numThreads, k, tpc, selfQuit, forgotten>>
    BY <1>0, <1>6 DEF DtorQuits
  <2>2. \A i \in Threads : quit'[i] => quit[i] \/ i = k BY <1>6 DEF DtorQuits
  <2>3. k \notin forgotten BY <1>0, <2>1
  <2> QED BY <2>1, <2>2, <2>3
<1>10. CASE DtorWakes BY <1>0, <1>10 DEF DtorWakes
<1>7. CASE DtorJoins
  <2>1. /\ opc = "join" /\ opc' = "dtor" /\ k' = k + 1
        /\ UNCHANGED <<numThreads, tpc, quit, selfQuit, forgotten>>
    BY <1>7 DEF DtorJoins
  <2>2. \A i \in Threads : i < k' <=> (i < k \/ i = k) BY <1>0, <2>1
  <2> QED BY <2>1, <2>2
<1>8. CASE \E i \in Threads : ThreadStep(i) \/ SelfQuit(i)
  <2> PICK i \in Threads : ThreadStep(i) \/ SelfQuit(i) BY <1>8
  <2> USE DEF ThreadStep, Construct, Publish, SetLoopPtr, EnterLoop, LeaveLoop,
              MayLeave, EndThread, SelfQuit
  <2> HIDE DEF Threads, Told, LoopsDestroying, LoopsInv, ForgottenInv
  <2>1. UNCHANGED <<numThreads, opc, k>> OBVIOUS
  <2>2. Threads' = Threads /\ \A j : Told(j)' = Told(j)
    BY <2>1 DEF Threads, Told, LoopsDestroying
  <2>3. \A j \in Threads : j # i => tpc'[j] = tpc[j] /\ quit'[j] = quit[j] OBVIOUS
  <2>4. forgotten \subseteq forgotten' /\ selfQuit \subseteq selfQuit' OBVIOUS
  <2>5. \A j \in Threads : j # i /\ j \in forgotten' => j \in forgotten OBVIOUS
  <2>6. ASSUME i \in forgotten'
        PROVE  /\ Told(i)
               /\ tpc'[i] \in {"looping", "leaving", "gone"}
               /\ quit'[i] \/ tpc'[i] # "looping" => i \in selfQuit'
    <3>1. CASE i \in forgotten
      <4>1. /\ Told(i)
            /\ tpc[i] \in {"looping", "leaving", "gone"}
            /\ quit[i] \/ tpc[i] # "looping" => i \in selfQuit
        BY <3>1 DEF ForgottenInv
      <4> QED BY <4>1
    <3>2. CASE i \notin forgotten
      <4>1. tpc[i] = "enter" /\ quit[i] /\ tpc'[i] = "looping" /\ ~quit'[i]
        BY <2>6, <3>2
      <4>2. Told(i) BY <4>1 DEF QuitInv
      <4> QED BY <4>1, <4>2
    <3> QED BY <3>1, <3>2
  <2> QED BY <2>2, <2>3, <2>4, <2>5, <2>6 DEF ForgottenInv
<1>9. CASE UNCHANGED loopsVars BY <1>9 DEF loopsVars
<1> QED BY <1>1, <1>2, <1>3, <1>4, <1>5, <1>6, <1>7, <1>8, <1>9, <1>10 DEF LoopsNext

\* The destructor meets no loop that is gone but in the two ways there are.
LEMMA DeadStep ==
  ASSUME LoopsTypeOK, LoopsInv, QuitInv, ForgottenInv, DeadLoopsExplained,
         [LoopsNext]_loopsVars
  PROVE  DeadLoopsExplained'
<1> USE ThreadNumsAssumption DEF LoopsTypeOK, LoopsInv, DeadLoopsExplained, Threads, dead
<1>0. numThreads \in Nat /\ k \in Nat OBVIOUS
<1>1. CASE DtorQuits
  <2>1. k \in Threads /\ opc = "quit" BY <1>0, <1>1 DEF DtorQuits
  <2>2. tpc[k] = "gone" => k \in selfQuit
    BY <1>0, <2>1 DEF QuitInv, Told, LoopsDestroying
  <2> QED BY <1>1, <2>2 DEF DtorQuits, IfGone
<1>2. CASE DtorWakes
  <2>1. k \in Threads BY <1>0, <1>2 DEF DtorWakes
  <2>2. k \in forgotten /\ tpc[k] = "gone" => k \in selfQuit BY <2>1 DEF ForgottenInv
  <2> QED BY <1>2, <2>2 DEF DtorWakes, IfGone
<1>3. CASE \E i \in Threads : EnterLoop(i)
  <2> PICK i \in Threads : EnterLoop(i) BY <1>3
  <2>1. i \notin wokenDead BY DEF EnterLoop, QuitInv
  <2> QED BY <2>1 DEF EnterLoop
<1>4. CASE UNCHANGED dead /\ selfQuit \subseteq selfQuit' BY <1>4
<1>5. \/ DtorQuits \/ DtorWakes \/ \E i \in Threads : EnterLoop(i)
      \/ UNCHANGED dead /\ selfQuit \subseteq selfQuit'
  BY DEF LoopsNext, LoopsStart, StartLoopReturns, GetNextLoop, Destroy, DtorTests,
         DtorJoins, ThreadStep, Construct, Publish, LeaveLoop, EndThread, SelfQuit, loopsVars
<1> QED BY <1>1, <1>2, <1>3, <1>4, <1>5

\* One step keeps the loops before next_ one use ahead.
LEMMA UsesStep ==
  ASSUME LoopsTypeOK, LoopsInv, UsesInv, [LoopsNext]_loopsVars
  PROVE  UsesInv'
<1> USE ThreadNumsAssumption DEF Threads
<1>0. numThreads \in Nat /\ Len(loops) \in Nat BY DEF LoopsTypeOK
<1>1. CASE GetNextLoop
  <2> USE DEF LoopsTypeOK, LoopsInv, UsesInv, LoopsStarting
  <2>1. Len(loops) = numThreads /\ numThreads' = numThreads
    BY <1>1 DEF GetNextLoop
  <2>2. CASE loops = << >>
    <3>1. numThreads = 0 BY <2>1, <2>2
    <3> QED BY <2>1, <3>1
  <2>3. CASE loops # << >>
    <3>1. /\ numThreads > 0 /\ next + 1 \in 1..numThreads
          /\ loops[next + 1] = next + 1
      BY <1>0, <2>1, <2>3
    <3>2. /\ uses' = [uses EXCEPT ![next + 1] = @ + 1]
          /\ next' = IF next + 1 >= numThreads THEN 0 ELSE next + 1
      BY <1>1, <2>1, <2>3, <3>1 DEF GetNextLoop, Wrapped
    <3>3. CASE next + 1 = numThreads
      BY <1>0, <2>1, <3>1, <3>2, <3>3
    <3>4. CASE next + 1 < numThreads
      BY <1>0, <2>1, <3>1, <3>2, <3>4
    <3> QED BY <1>0, <3>1, <3>3, <3>4
  <2> QED BY <2>2, <2>3
<1>2. CASE UNCHANGED <<numThreads, uses, next>>
  BY <1>2 DEF UsesInv
<1>3. GetNextLoop \/ UNCHANGED <<numThreads, uses, next>>
  BY DEF LoopsNext, LoopsStart, StartLoopReturns, Destroy, DtorTests,
         DtorQuits, DtorWakes, DtorJoins, ThreadStep, Construct, Publish,
         EnterLoop, LeaveLoop, EndThread, SelfQuit, loopsVars
<1> QED BY <1>1, <1>2, <1>3

\* LoopThreadsInv holds from the constructor on.
THEOREM LoopThreadsInvariant == LoopsSpec => []LoopThreadsInv
<1>1. LoopsInit => LoopThreadsInv
  <2> SUFFICES ASSUME LoopsInit PROVE LoopThreadsInv OBVIOUS
  <2> USE ThreadNumsAssumption DEF LoopsInit, Threads
  <2>1. numThreads \in Nat /\ << >> \in Seq(0..numThreads) /\ Len(<< >>) = 0 OBVIOUS
  <2>2. LoopsTypeOK BY <2>1 DEF LoopsTypeOK
  <2>3. LoopsInv BY <2>1 DEF LoopsInv, LoopsStarting
  <2>4. PublishInv BY <2>1 DEF PublishInv
  <2>5. QuitInv BY <2>1 DEF QuitInv, Told, LoopsDestroying
  <2>6. UsesInv BY <2>1 DEF UsesInv
  <2>8. ForgottenInv BY DEF ForgottenInv
  <2>7. DeadLoopsExplained BY DEF DeadLoopsExplained
  <2> QED BY <2>2, <2>3, <2>4, <2>5, <2>6, <2>7, <2>8 DEF LoopThreadsInv
<1>2. LoopThreadsInv /\ [LoopsNext]_loopsVars => LoopThreadsInv'
  BY LoopTypeStep, LoopsStep, PublishStep, QuitStep, ForgottenStep, DeadStep, UsesStep DEF LoopThreadsInv
<1> QED BY <1>1, <1>2, PTL DEF LoopsSpec

\* For pools of any size and every interleaving with ~EventLoopThread, which
\* calls quit() through a pointer read without the mutex: the store to quit_ meets
\* a loop that is gone only if a functor of that loop had ended it, and wakeup()
\* one whose loop() had cleared that quit_ only in the same case.
THEOREM DeadLoopsAreExplained == LoopsSpec => []DeadLoopsExplained
<1>1. LoopThreadsInv => DeadLoopsExplained BY DEF LoopThreadsInv
<1> QED BY <1>1, LoopThreadsInvariant, PTL

\* A pool of any number of threads: start hands out one running loop for each
\* thread, getNextLoop spreads its answers evenly, and the destructor leaves no
\* thread behind.
THEOREM PoolOfLoopsSound == LoopsSpec => []LoopsConsistent
<1>1. LoopThreadsInv => LoopsConsistent
  <2> SUFFICES ASSUME LoopThreadsInv PROVE LoopsConsistent OBVIOUS
  <2> USE ThreadNumsAssumption DEF LoopThreadsInv, Threads
  <2>0. numThreads \in Nat BY DEF LoopsTypeOK
  <2>1. LoopsExist
    <3> SUFFICES ASSUME opc = "running"
                 PROVE  /\ Len(loops) = numThreads
                        /\ \A i \in Threads :
                             /\ loops[i] = i
                             /\ tpc[i] \in {"enter", "looping"} \/ i \in selfQuit
      BY DEF LoopsExist
    <3>1. Len(loops) = numThreads BY DEF LoopsInv, LoopsStarting
    <3> QED BY <2>0, <3>1 DEF LoopsInv, PublishInv, QuitInv, Told, LoopsDestroying
  <2>2. RoundRobin
    <3> SUFFICES ASSUME NEW i \in Threads, NEW j \in Threads
                 PROVE  uses[i] <= uses[j] + 1
      BY DEF RoundRobin, UsesInv
    <3>1. uses[numThreads] \in Nat BY <2>0 DEF LoopsTypeOK
    <3>2. uses[i] \in {uses[numThreads], uses[numThreads] + 1} BY <3>1 DEF UsesInv
    <3>3. uses[j] \in {uses[numThreads], uses[numThreads] + 1} BY <3>1 DEF UsesInv
    <3> QED BY <3>1, <3>2, <3>3
  <2>3. NoThreadLeft
    BY <2>0 DEF NoThreadLeft, LoopsInv, QuitInv, LoopsDestroying
  <2> QED BY <2>1, <2>2, <2>3 DEF LoopsConsistent
<1> QED BY <1>1, LoopThreadsInvariant, PTL

=============================================================================
