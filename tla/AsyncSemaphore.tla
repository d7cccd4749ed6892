--------------------------- MODULE AsyncSemaphore ---------------------------
(***************************************************************************)
(* asyncio.Semaphore of CPython 3.11, the interpreter of the image, as     *)
(* src/ uses it: `async with self._tool_sem` (concurrency.py) and          *)
(* `async with self._sem` (cli_executor.py).  The class is not under src/. *)
(*                                                                         *)
(* A semaphore is a record:                                                *)
(*   value   free permits                                                  *)
(*   queue   waiters whose future is pending, oldest first                 *)
(*   woken   waiters whose future has a result but whose task has not run  *)
(*           yet: the permit has already left `value` for them             *)
(*                                                                         *)
(* Operators only: the modules that hold a semaphore keep it in a variable.*)
(***************************************************************************)
EXTENDS Deque, FiniteSets

Pending(s) == Elements(s.queue)
Waiters(s) == Pending(s) \cup s.woken

NewSemaphore(limit) == [value |-> limit, queue |-> <<>>, woken |-> {}]

\* locked(): a newcomer waits when no permit is free or when anybody, even a
\* waiter already granted one, is before it.
Locked(s) == s.value = 0 \/ Waiters(s) # {}

\* The two ends of acquire() before its await.
TakeNow(s)    == [s EXCEPT !.value = @ - 1]
Enqueue(s, c) == [s EXCEPT !.queue = Append(@, c)]

\* _wake_up_next(): the oldest pending waiter, if any, is granted a permit.
WakeUpNext(s) ==
  IF s.queue = <<>> THEN s
  ELSE [value |-> s.value - 1,
        queue |-> Tail(s.queue),
        woken |-> s.woken \cup {Head(s.queue)}]

\* release()
Release(s) == WakeUpNext([s EXCEPT !.value = @ + 1])

\* acquire() after its await: the granted waiter's task runs again and, should
\* a further permit be free, passes the wake-up on.
Resume(s, c) ==
  LET left == [s EXCEPT !.woken = @ \ {c}]
  IN  IF left.value > 0 THEN WakeUpNext(left) ELSE left

\* acquire() cancelled: a pending waiter leaves the queue, a granted one gives
\* its permit back.
CancelPending(s, c) == [s EXCEPT !.queue = Without(@, c)]
CancelWoken(s, c)   == Release([s EXCEPT !.woken = @ \ {c}])

----------------------------------------------------------------------------
(* What holds of a semaphore between any two steps of the tasks that use it. *)

Semaphores(C) == [value : Nat, queue : Seq(C), woken : SUBSET C]

\* No waiter is queued twice, and none is both pending and granted.
WellQueued(s) ==
  /\ Distinct(s.queue)
  /\ Pending(s) \cap s.woken = {}

\* A permit is never idle while somebody waits, unless a waiter has been
\* granted one and is about to pass the wake-up on.
NoLostWakeup(s) == s.value > 0 /\ s.queue # <<>> => s.woken # {}

\* Permits not held in a section: free, or on their way to a waiter.
PermitsOut(s) == s.value + Cardinality(s.woken)
=============================================================================
