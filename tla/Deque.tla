------------------------------- MODULE Deque -------------------------------
(***************************************************************************)
(* What asyncio and concurrent.futures do to a queue of waiters beside     *)
(* appending to it and taking its head: a waiter that is cancelled is      *)
(* removed from its place.                                                 *)
(***************************************************************************)
EXTENDS Integers, Sequences

Elements(q) == {q[i] : i \in DOMAIN q}
Distinct(q) == \A i, j \in DOMAIN q : q[i] = q[j] => i = j

Without(q, c) ==
  LET at == CHOOSE i \in DOMAIN q : q[i] = c
  IN  [i \in 1..(Len(q) - 1) |-> IF i < at THEN q[i] ELSE q[i + 1]]
=============================================================================
