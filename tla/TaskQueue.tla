----------------------------- MODULE TaskQueue -----------------------------
(***************************************************************************)
(* What EventLoop promises to whoever hands it a functor through           *)
(* queueInLoop, and ThreadPool to whoever hands it a task through run:     *)
(* everything accepted is accepted once, waits in one queue and is begun   *)
(* in the order in which it was accepted.  net/EventLoop.cc implements the *)
(* queue with two vectors, a mutex and an eventfd, base/ThreadPool.cc with *)
(* a deque, a mutex and two condition variables; none of them is visible   *)
(* here.                                                                   *)
(***************************************************************************)
EXTENDS Sequences, Functions

CONSTANT Functors

VARIABLES
  waiting,    \* accepted functors that have not run yet, oldest first
  executed    \* functors that have run, in the order they ran

Init ==
  /\ waiting = << >>
  /\ executed = << >>

\* A caller hands over a functor that was not handed over before.
Submit(f) ==
  /\ f \notin Range(waiting) \cup Range(executed)
  /\ waiting' = Append(waiting, f)
  /\ UNCHANGED executed

\* The loop thread, or a worker of the pool, begins the oldest waiting functor.
Execute ==
  /\ waiting # << >>
  /\ executed' = Append(executed, Head(waiting))
  /\ waiting' = Tail(waiting)

Next == Execute \/ \E f \in Functors : Submit(f)

Spec == Init /\ [][Next]_<<waiting, executed>>

=============================================================================
