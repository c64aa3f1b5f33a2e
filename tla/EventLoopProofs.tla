-------------------------- MODULE EventLoopProofs --------------------------
(***************************************************************************)
(* Proofs about EventLoop, for every set of threads, functors and          *)
(* channels.                                                               *)
(*                                                                         *)
(* NoLostWakeup and NoLostQuit speak of the loop thread inside poll; to    *)
(* carry them through a step they have to be known wherever poll can be    *)
(* reached without another swap of pendingFunctors_ in between.  That is   *)
(* WakeupInv.  ExactlyOnceInOrder is inductive as it stands, and it yields *)
(* the refinement of TaskQueue.                                            *)
(***************************************************************************)
EXTENDS EventLoop, TLAPS, SequenceTheorems

\* The pieces of the inductive invariant.  The flag callingPendingFunctors_ is
\* set exactly while functors run; functors are iterated only then.
CallingInv ==
  /\ (callingPendingFunctors <=> pc \in {"calling", "functor"})
  /\ pc \notin {"calling", "functor"} => functors = << >>

\* The loop thread reaches poll from these places without a swap.
SwapDue == pc \in {"handling", "handler", "after"}

LatePending ==
  \E i \in DOMAIN pendingFunctors : pendingFunctors[i] \notin early

WakeupInv ==
  /\ ~SwapDue /\ LatePending => WakeupComing
  /\ pc = "poll" /\ quit => WakeupComing

-----------------------------------------------------------------------------

\* One step of any thread keeps the types.
LEMMA TypeStep ==
  ASSUME TypeOK, [Next]_vars
  PROVE  TypeOK'
<1> USE DEF TypeOK, LoopStates, loopVars, histVars
<1>1. CASE LoopStep
  <2>1. CASE StartLoop BY <2>1 DEF StartLoop
  <2>2. CASE CheckQuit BY <2>2 DEF CheckQuit
  <2>3. CASE PollReady BY <2>3 DEF PollReady, Pollable
  <2>4. CASE HandleRead BY <2>4 DEF HandleRead
  <2>5. CASE \E c \in Channels : HandleEvent(c) BY <2>5 DEF HandleEvent
  <2>6. CASE HandlerReturn BY <2>6 DEF HandlerReturn
  <2>7. CASE DoPendingFunctors BY <2>7 DEF DoPendingFunctors
  <2>8. CASE CallFunctor BY <2>8, HeadTailProperties DEF CallFunctor
  <2>9. CASE FunctorReturn BY <2>9 DEF FunctorReturn
  <2>10. CASE EndPendingFunctors BY <2>10 DEF EndPendingFunctors
  <2> QED BY <1>1, <2>1, <2>2, <2>3, <2>4, <2>5, <2>6, <2>7, <2>8, <2>9, <2>10 DEF LoopStep
<1>2. CASE PollTimeout BY <1>2 DEF PollTimeout
<1>3. CASE Quit BY <1>3 DEF Quit
<1>4. CASE \E f \in Functors : QueueInLoop(f) BY <1>4 DEF QueueInLoop, PushBack
<1>5. CASE \E t \in Threads : ThreadStep(t)
  <2> PICK t \in Threads : ThreadStep(t) BY <1>5
  <2>1. CASE ThreadQuit(t) BY <2>1 DEF ThreadQuit
  <2>2. CASE ThreadWakeup(t) BY <2>2 DEF ThreadWakeup
  <2>3. CASE \E f \in Functors : ThreadQueueInLoop(t, f)
    BY <2>3 DEF ThreadQueueInLoop, PushBack
  <2> QED BY <2>1, <2>2, <2>3 DEF ThreadStep
<1>6. CASE \E c \in Channels : ChannelReady(c) BY <1>6 DEF ChannelReady
<1>7. CASE UNCHANGED vars BY <1>7 DEF vars
<1> QED BY <1>1, <1>2, <1>3, <1>4, <1>5, <1>6, <1>7 DEF Next

\* The variables keep their types: every action of the loop thread, the other
\* threads and the kernel does.
THEOREM TypeCorrect == Spec => []TypeOK
<1>1. Init => TypeOK
  <2> SUFFICES ASSUME Init PROVE TypeOK
    OBVIOUS
  <2>1. tpc \in [Threads -> {"idle", "wakeup"}]
    BY DEF Init
  <2>2. << >> \in Seq(Functors)
    OBVIOUS
  <2> QED BY <2>1, <2>2 DEF Init, TypeOK, LoopStates
<1>2. TypeOK /\ [Next]_vars => TypeOK'
  BY TypeStep
<1> QED BY <1>1, <1>2, PTL DEF Spec

-----------------------------------------------------------------------------

Three(S, x, y, z) == x \in Seq(S) /\ y \in Seq(S) /\ z \in Seq(S)

\* Concatenation is associative, to be instantiated term by term.
LEMMA Associative ==
  ASSUME NEW S, NEW x, NEW y, NEW z, Three(S, x, y, z)
  PROVE  (x \o y) \o z = x \o (y \o z)
BY ConcatAssociative DEF Three

\* Facts about concatenation that one push_back, one swap and one call use.
LEMMA AppendToConcat ==
  ASSUME NEW s, NEW t, NEW u, Three(Functors, s, t, u), NEW x \in Functors
  PROVE  Append((s \o t) \o u, x) = (s \o t) \o Append(u, x)
<1>0. s \in Seq(Functors) /\ t \in Seq(Functors) /\ u \in Seq(Functors)
  BY DEF Three
<1>1. Append(u, x) = u \o <<x>>
  BY <1>0, AppendIsConcat
<1>2. s \o t \in Seq(Functors) /\ s \o t \o u \in Seq(Functors)
  BY <1>0, ConcatProperties
<1>3. Append(s \o t \o u, x) = (s \o t \o u) \o <<x>>
  BY <1>2, AppendIsConcat
<1>4. (s \o t \o u) \o <<x>> = (s \o t) \o (u \o <<x>>)
  <2> DEFINE a == s \o t
             b == <<x>>
  <2>1. Three(Functors, a, u, b) BY <1>0, <1>2 DEF Three
  <2> HIDE DEF a, b
  <2>2. (a \o u) \o b = a \o (u \o b) BY <2>1, Associative
  <2> QED BY <2>2 DEF a, b
<1> QED BY <1>1, <1>3, <1>4

\* Calling the head of the vector moves one functor across the seam between what
\* was called and what waits.
LEMMA MoveHead ==
  ASSUME NEW S, NEW s \in Seq(S), NEW t \in Seq(S), t # << >>
  PROVE  Append(s, Head(t)) \o Tail(t) = s \o t
<1>1. /\ Head(t) \in S
      /\ Tail(t) \in Seq(S)
      /\ t = <<Head(t)>> \o Tail(t)
  BY HeadTailProperties
<1>2. Append(s, Head(t)) = s \o <<Head(t)>>
  BY <1>1, AppendIsConcat
<1> QED BY <1>1, <1>2, ConcatAssociative

-----------------------------------------------------------------------------

\* The oldest functor of the two vectors is the head of the one being iterated.
LEMMA TailOfConcat ==
  ASSUME NEW S, NEW s \in Seq(S), NEW t \in Seq(S), s # << >>
  PROVE  Tail(s \o t) = Tail(s) \o t
<1>1. /\ s \o t \in Seq(S) /\ s \o t # << >>
      /\ Len(s \o t) = Len(s) + Len(t)
      /\ Len(s) \in Nat /\ Len(t) \in Nat /\ Len(s) > 0
  BY ConcatProperties
<1>2. /\ Tail(s) \in Seq(S) /\ Len(Tail(s)) = Len(s) - 1
      /\ \A i \in 1 .. Len(s) - 1 : Tail(s)[i] = s[i + 1]
  BY HeadTailProperties
<1>3. /\ Tail(s \o t) \in Seq(S) /\ Len(Tail(s \o t)) = Len(s) + Len(t) - 1
      /\ \A i \in 1 .. Len(s) + Len(t) - 1 : Tail(s \o t)[i] = (s \o t)[i + 1]
  BY <1>1, HeadTailProperties
<1>4. /\ Tail(s) \o t \in Seq(S) /\ Len(Tail(s) \o t) = Len(s) + Len(t) - 1
      /\ \A i \in 1 .. Len(s) + Len(t) - 1 :
           (Tail(s) \o t)[i] = IF i <= Len(s) - 1 THEN Tail(s)[i] ELSE t[i - (Len(s) - 1)]
  BY <1>1, <1>2, ConcatProperties
<1>5. \A i \in 1 .. Len(s) + Len(t) - 1 :
        (s \o t)[i + 1] = IF i + 1 <= Len(s) THEN s[i + 1] ELSE t[i + 1 - Len(s)]
  BY <1>1, ConcatProperties
<1>6. \A i \in 1 .. Len(s) + Len(t) - 1 : Tail(s \o t)[i] = (Tail(s) \o t)[i]
  BY <1>1, <1>2, <1>3, <1>4, <1>5
<1> QED BY <1>3, <1>4, <1>6, SeqEqual

-----------------------------------------------------------------------------

\* callingPendingFunctors_ tells the loop thread truly whether it is inside
\* doPendingFunctors, which is what queueInLoop relies on.
LEMMA CallingStep ==
  ASSUME TypeOK, CallingInv, [Next]_vars
  PROVE  CallingInv'
<1> USE DEF TypeOK, LoopStates, CallingInv, loopVars, histVars
<1>1. CASE LoopStep
  <2>1. CASE StartLoop BY <2>1 DEF StartLoop
  <2>2. CASE CheckQuit BY <2>2 DEF CheckQuit
  <2>3. CASE PollReady BY <2>3 DEF PollReady
  <2>4. CASE HandleRead BY <2>4 DEF HandleRead
  <2>5. CASE \E c \in Channels : HandleEvent(c) BY <2>5 DEF HandleEvent
  <2>6. CASE HandlerReturn BY <2>6 DEF HandlerReturn
  <2>7. CASE DoPendingFunctors BY <2>7 DEF DoPendingFunctors
  <2>8. CASE CallFunctor BY <2>8 DEF CallFunctor
  <2>9. CASE FunctorReturn BY <2>9 DEF FunctorReturn
  <2>10. CASE EndPendingFunctors BY <2>10 DEF EndPendingFunctors
  <2> QED BY <1>1, <2>1, <2>2, <2>3, <2>4, <2>5, <2>6, <2>7, <2>8, <2>9, <2>10 DEF LoopStep
<1>2. CASE PollTimeout BY <1>2 DEF PollTimeout
<1>3. CASE Quit BY <1>3 DEF Quit
<1>4. CASE \E f \in Functors : QueueInLoop(f) BY <1>4 DEF QueueInLoop
<1>5. CASE \E t \in Threads : ThreadStep(t)
  BY <1>5 DEF ThreadStep, ThreadQuit, ThreadWakeup, ThreadQueueInLoop
<1>6. CASE \E c \in Channels : ChannelReady(c) BY <1>6 DEF ChannelReady
<1>7. CASE UNCHANGED vars BY <1>7 DEF vars
<1> QED BY <1>1, <1>2, <1>3, <1>4, <1>5, <1>6, <1>7 DEF Next

\* A push_back outside the states in which a swap is due comes with a wakeup();
\* the eventfd is read only in those states.
LEMMA WakeupStep ==
  ASSUME TypeOK, CallingInv, WakeupInv, [Next]_vars
  PROVE  WakeupInv'
<1> USE DEF TypeOK, LoopStates, WakeupInv, SwapDue, LatePending, WakeupComing,
            loopVars, histVars
<1>1. CASE LoopStep
  <2>1. CASE StartLoop BY <2>1 DEF StartLoop
  <2>2. CASE CheckQuit BY <2>2 DEF CheckQuit
  <2>3. CASE PollReady BY <2>3 DEF PollReady
  <2>4. CASE HandleRead BY <2>4 DEF HandleRead
  <2>5. CASE \E c \in Channels : HandleEvent(c) BY <2>5 DEF HandleEvent
  <2>6. CASE HandlerReturn BY <2>6 DEF HandlerReturn
  <2>7. CASE DoPendingFunctors BY <2>7 DEF DoPendingFunctors
  <2>8. CASE CallFunctor BY <2>8 DEF CallFunctor
  <2>9. CASE FunctorReturn BY <2>9 DEF FunctorReturn
  <2>10. CASE EndPendingFunctors BY <2>10 DEF EndPendingFunctors
  <2> QED BY <1>1, <2>1, <2>2, <2>3, <2>4, <2>5, <2>6, <2>7, <2>8, <2>9, <2>10 DEF LoopStep
<1>2. CASE PollTimeout BY <1>2 DEF PollTimeout
<1>3. CASE Quit BY <1>3 DEF Quit
<1>4. CASE \E f \in Functors : QueueInLoop(f)
  <2> PICK f \in Functors : QueueInLoop(f) BY <1>4
  <2>1. CASE pc = "before"
    <3>1. early' = early \cup {f} /\ pendingFunctors' = Append(pendingFunctors, f)
      BY <2>1 DEF QueueInLoop, PushBack
    <3>2. LatePending' => LatePending
      BY <3>1, AppendProperties
    <3> QED BY <2>1, <3>2 DEF QueueInLoop
  <2>2. CASE pc = "functor" BY <2>2 DEF QueueInLoop, CallingInv
  <2>3. CASE pc = "handler" BY <2>3 DEF QueueInLoop
  <2> QED BY <2>1, <2>2, <2>3 DEF QueueInLoop
<1>5. CASE \E t \in Threads : ThreadStep(t)
  <2> PICK t \in Threads : ThreadStep(t) BY <1>5
  <2>1. CASE ThreadQuit(t) BY <2>1 DEF ThreadQuit
  <2>2. CASE ThreadWakeup(t) BY <2>2 DEF ThreadWakeup
  <2>3. CASE \E f \in Functors : ThreadQueueInLoop(t, f)
    BY <2>3 DEF ThreadQueueInLoop
  <2> QED BY <2>1, <2>2, <2>3 DEF ThreadStep
<1>6. CASE \E c \in Channels : ChannelReady(c) BY <1>6 DEF ChannelReady
<1>7. CASE UNCHANGED vars BY <1>7 DEF vars
<1> QED BY <1>1, <1>2, <1>3, <1>4, <1>5, <1>6, <1>7 DEF Next

\* The inductive invariant behind both wakeup theorems holds in every state.
LEMMA WakeupInvariant == Spec => [](CallingInv /\ WakeupInv)
<1>1. Init => CallingInv /\ WakeupInv
  <2> SUFFICES ASSUME Init PROVE CallingInv /\ WakeupInv
    OBVIOUS
  <2>1. CallingInv BY DEF Init, CallingInv
  <2>2. DOMAIN pendingFunctors = {} BY DEF Init
  <2>3. WakeupInv BY <2>2 DEF Init, WakeupInv, LatePending
  <2> QED BY <2>1, <2>3
<1>2. TypeOK /\ CallingInv /\ WakeupInv /\ [Next]_vars => (CallingInv /\ WakeupInv)'
  BY CallingStep, WakeupStep
<1> QED BY <1>1, <1>2, TypeCorrect, PTL DEF Spec

\* queueInLoop never loses a wakeup: whatever the number of threads and the
\* interleaving of their push_back and wakeup() with the swap of
\* doPendingFunctors, poll is not left waiting while a functor is pending.
THEOREM LostWakeupImpossible == Spec => []NoLostWakeup
<1>1. WakeupInv => NoLostWakeup
  BY DEF WakeupInv, NoLostWakeup, SwapDue, LatePending
<1> QED BY <1>1, WakeupInvariant, PTL

\* A quit() made after loop() was entered is never slept over: poll is not left
\* waiting once quit_ is set.
THEOREM LostQuitImpossible == Spec => []NoLostQuit
<1>1. WakeupInv => NoLostQuit
  BY DEF WakeupInv, NoLostQuit
<1> QED BY <1>1, WakeupInvariant, PTL

-----------------------------------------------------------------------------

\* What a step does to the two vectors and the call history: nothing that can
\* be seen, one functor appended at the end, or the oldest one called.
LEMMA QueueStep ==
  ASSUME TypeOK, CallingInv, [Next]_vars
  PROVE  \/ /\ functors' \o pendingFunctors' = functors \o pendingFunctors
            /\ UNCHANGED <<enqueued, executed>>
         \/ \E f \in Functors : /\ PushBack(f)
                                /\ UNCHANGED <<functors, executed>>
         \/ /\ functors # << >>
            /\ executed' = Append(executed, Head(functors))
            /\ functors' = Tail(functors)
            /\ UNCHANGED <<enqueued, pendingFunctors>>
<1> USE DEF loopVars, histVars
<1>1. CASE LoopStep
  <2>1. CASE StartLoop BY <2>1 DEF StartLoop
  <2>2. CASE CheckQuit BY <2>2 DEF CheckQuit
  <2>3. CASE PollReady BY <2>3 DEF PollReady
  <2>4. CASE HandleRead BY <2>4 DEF HandleRead
  <2>5. CASE \E c \in Channels : HandleEvent(c) BY <2>5 DEF HandleEvent
  <2>6. CASE HandlerReturn BY <2>6 DEF HandlerReturn
  <2>7. CASE DoPendingFunctors
    <3>1. functors = << >> BY <2>7 DEF DoPendingFunctors, CallingInv
    <3>2. pendingFunctors \in Seq(Functors) BY DEF TypeOK
    <3>3. pendingFunctors \o << >> = << >> \o pendingFunctors
      BY <3>2, ConcatEmptySeq
    <3> QED BY <2>7, <3>1, <3>3 DEF DoPendingFunctors
  <2>8. CASE CallFunctor BY <2>8 DEF CallFunctor
  <2>9. CASE FunctorReturn BY <2>9 DEF FunctorReturn
  <2>10. CASE EndPendingFunctors BY <2>10 DEF EndPendingFunctors
  <2> QED BY <1>1, <2>1, <2>2, <2>3, <2>4, <2>5, <2>6, <2>7, <2>8, <2>9, <2>10 DEF LoopStep
<1>2. CASE PollTimeout BY <1>2 DEF PollTimeout
<1>3. CASE Quit BY <1>3 DEF Quit
<1>4. CASE \E f \in Functors : QueueInLoop(f) BY <1>4 DEF QueueInLoop
<1>5. CASE \E t \in Threads : ThreadStep(t)
  BY <1>5 DEF ThreadStep, ThreadQuit, ThreadWakeup, ThreadQueueInLoop
<1>6. CASE \E c \in Channels : ChannelReady(c) BY <1>6 DEF ChannelReady
<1>7. CASE UNCHANGED vars BY <1>7 DEF vars
<1> QED BY <1>1, <1>2, <1>3, <1>4, <1>5, <1>6, <1>7 DEF Next

\* No step disturbs the order in which queued functors are called.
LEMMA OrderStep ==
  ASSUME TypeOK, CallingInv, ExactlyOnceInOrder, [Next]_vars
  PROVE  ExactlyOnceInOrder'
<1> USE DEF ExactlyOnceInOrder
<1>0. /\ executed \in Seq(Functors)
      /\ functors \in Seq(Functors)
      /\ pendingFunctors \in Seq(Functors)
  BY DEF TypeOK
<1>1. CASE /\ functors' \o pendingFunctors' = functors \o pendingFunctors
           /\ UNCHANGED <<enqueued, executed>>
  <2>1. /\ functors' \in Seq(Functors)
        /\ pendingFunctors' \in Seq(Functors)
    BY TypeStep DEF TypeOK
  <2>2. executed \o functors \o pendingFunctors = executed \o (functors \o pendingFunctors)
    <3>1. Three(Functors, executed, functors, pendingFunctors) BY <1>0 DEF Three
    <3> QED BY <3>1, Associative
  <2>3. executed \o functors' \o pendingFunctors' = executed \o (functors' \o pendingFunctors')
    <3>1. Three(Functors, executed, functors', pendingFunctors') BY <1>0, <2>1 DEF Three
    <3> QED BY <3>1, Associative
  <2> QED BY <1>1, <2>2, <2>3
<1>2. CASE \E f \in Functors : PushBack(f) /\ UNCHANGED <<functors, executed>>
  <2> PICK f \in Functors : PushBack(f) /\ UNCHANGED <<functors, executed>>
    BY <1>2
  <2>1. Append(executed \o functors \o pendingFunctors, f)
          = executed \o functors \o Append(pendingFunctors, f)
    <3>1. Three(Functors, executed, functors, pendingFunctors) BY <1>0 DEF Three
    <3> QED BY <3>1, AppendToConcat
  <2> QED BY <2>1 DEF PushBack
<1>3. CASE /\ functors # << >>
           /\ executed' = Append(executed, Head(functors))
           /\ functors' = Tail(functors)
           /\ UNCHANGED <<enqueued, pendingFunctors>>
  <2>1. Append(executed, Head(functors)) \o Tail(functors) = executed \o functors
    BY <1>0, <1>3, MoveHead
  <2> QED BY <1>3, <2>1
<1> QED BY <1>1, <1>2, <1>3, QueueStep

\* Every functor handed to queueInLoop is called at most once and in the order
\* of the push_backs; none is skipped and none is lost between the two vectors
\* of doPendingFunctors.
THEOREM FunctorsExactlyOnceInOrder == Spec => []ExactlyOnceInOrder
<1>1. Init => ExactlyOnceInOrder
  <2> SUFFICES ASSUME Init PROVE << >> = << >> \o << >> \o << >>
    BY DEF Init, ExactlyOnceInOrder
  <2> QED OBVIOUS
<1>2. TypeOK /\ CallingInv /\ ExactlyOnceInOrder /\ [Next]_vars => ExactlyOnceInOrder'
  BY OrderStep
<1> QED BY <1>1, <1>2, TypeCorrect, WakeupInvariant, PTL DEF Spec

\* Range distributes over concatenation.
LEMMA RangeOfConcat ==
  ASSUME NEW S, NEW s \in Seq(S), NEW t \in Seq(S)
  PROVE  Range(s \o t) = Range(s) \cup Range(t)
<1>1. /\ DOMAIN s = 1 .. Len(s)
      /\ DOMAIN t = 1 .. Len(t)
      /\ DOMAIN (s \o t) = 1 .. Len(s) + Len(t)
      /\ Len(s) \in Nat /\ Len(t) \in Nat
  BY ConcatProperties
<1>2. \A i \in DOMAIN s : i \in DOMAIN (s \o t) /\ (s \o t)[i] = s[i]
  BY <1>1, ConcatProperties
<1>3. \A i \in DOMAIN t : /\ i + Len(s) \in DOMAIN (s \o t)
                          /\ (s \o t)[i + Len(s)] = t[i]
  BY <1>1, ConcatProperties
<1>4. \A i \in DOMAIN (s \o t) :
        \/ i \in DOMAIN s /\ (s \o t)[i] = s[i]
        \/ i - Len(s) \in DOMAIN t /\ (s \o t)[i] = t[i - Len(s)]
  BY <1>1, ConcatProperties
<1>5. Range(s) \cup Range(t) \subseteq Range(s \o t)
  BY <1>2, <1>3 DEF Range
<1>6. Range(s \o t) \subseteq Range(s) \cup Range(t)
  BY <1>4 DEF Range
<1> QED BY <1>5, <1>6

\* The event loop implements the abstract task queue: the swap under mutex_,
\* the eventfd and the poller are invisible to whoever hands over functors.
THEOREM Refinement == Spec => ImplementsTaskQueue
<1>1. Init => Abstract!Init
  <2> SUFFICES ASSUME Init PROVE << >> \o << >> = << >>
    BY DEF Init, Abstract!Init
  <2> QED OBVIOUS
<1>2. TypeOK /\ CallingInv /\ ExactlyOnceInOrder /\ [Next]_vars
        => [Abstract!Next]_<<functors \o pendingFunctors, executed>>
  <2> SUFFICES ASSUME TypeOK, CallingInv, ExactlyOnceInOrder, [Next]_vars
               PROVE  [Abstract!Next]_<<functors \o pendingFunctors, executed>>
    OBVIOUS
  <2>0. /\ executed \in Seq(Functors)
        /\ functors \in Seq(Functors)
        /\ pendingFunctors \in Seq(Functors)
        /\ functors \o pendingFunctors \in Seq(Functors)
    BY ConcatProperties DEF TypeOK
  <2>1. CASE /\ functors' \o pendingFunctors' = functors \o pendingFunctors
             /\ UNCHANGED <<enqueued, executed>>
    BY <2>1
  <2>2. CASE \E f \in Functors : PushBack(f) /\ UNCHANGED <<functors, executed>>
    <3> PICK f \in Functors : PushBack(f) /\ UNCHANGED <<functors, executed>>
      BY <2>2
    <3>1. enqueued = executed \o (functors \o pendingFunctors)
      BY <2>0, ConcatAssociative DEF ExactlyOnceInOrder
    <3>2. Range(enqueued) = Range(functors \o pendingFunctors) \cup Range(executed)
      <4>1. Range(executed \o (functors \o pendingFunctors))
              = Range(executed) \cup Range(functors \o pendingFunctors)
        <5>1. \A a, b \in Seq(Functors) : Range(a \o b) = Range(a) \cup Range(b)
          BY RangeOfConcat
        <5> QED BY <2>0, <5>1
      <4> QED BY <3>1, <4>1
    <3>3. functors' \o pendingFunctors' = Append(functors \o pendingFunctors, f)
      <4>1. Append(pendingFunctors, f) = pendingFunctors \o <<f>>
        BY <2>0, AppendIsConcat
      <4>2. Append(functors \o pendingFunctors, f) = (functors \o pendingFunctors) \o <<f>>
        BY <2>0, AppendIsConcat
      <4> QED BY <2>0, <4>1, <4>2, ConcatAssociative DEF PushBack
    <3>4. Abstract!Submit(f)
      BY <3>2, <3>3 DEF PushBack, Abstract!Submit, Range, Abstract!Range
    <3> QED BY <3>4 DEF Abstract!Next
  <2>3. CASE /\ functors # << >>
             /\ executed' = Append(executed, Head(functors))
             /\ functors' = Tail(functors)
             /\ UNCHANGED <<enqueued, pendingFunctors>>
    <3>1. /\ functors \o pendingFunctors # << >>
          /\ Head(functors \o pendingFunctors) = Head(functors)
      BY <2>0, <2>3, ConcatProperties
    <3>2. Tail(functors \o pendingFunctors) = Tail(functors) \o pendingFunctors
      BY <2>0, <2>3, TailOfConcat
    <3>3. Abstract!Execute
      BY <2>3, <3>1, <3>2 DEF Abstract!Execute
    <3> QED BY <3>3 DEF Abstract!Next
  <2> QED BY <2>1, <2>2, <2>3, QueueStep
<1> QED BY <1>1, <1>2, TypeCorrect, WakeupInvariant, FunctorsExactlyOnceInOrder, PTL
        DEF Spec, ImplementsTaskQueue, Abstract!Spec

=============================================================================
