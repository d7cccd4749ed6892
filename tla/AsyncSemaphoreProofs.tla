------------------------ MODULE AsyncSemaphoreProofs ------------------------
(***************************************************************************)
(* What each operation on a semaphore does to it, for any set of waiters.  *)
(***************************************************************************)
EXTENDS AsyncSemaphore, FiniteSetTheorems, TLAPS

SemInv(s, C) == s \in Semaphores(C) /\ WellQueued(s) /\ NoLostWakeup(s)

\* The initial semaphore: every permit is free.
LEMMA NewSemaphoreLemma ==
  ASSUME NEW C, NEW limit \in Nat
  PROVE  /\ SemInv(NewSemaphore(limit), C)
         /\ Waiters(NewSemaphore(limit)) = {}
         /\ PermitsOut(NewSemaphore(limit)) = limit
BY FS_EmptySet
   DEF SemInv, NewSemaphore, Semaphores, WellQueued, Distinct, NoLostWakeup, Pending, Elements,
       Waiters, PermitsOut

\* acquire() that need not wait takes one free permit.
LEMMA TakeNowLemma ==
  ASSUME NEW C, NEW s, SemInv(s, C), ~Locked(s)
  PROVE  /\ SemInv(TakeNow(s), C)
         /\ Waiters(TakeNow(s)) = {}
         /\ PermitsOut(TakeNow(s)) = PermitsOut(s) - 1
<1>1. s.woken = {} /\ s.value \in Nat /\ s.value # 0 /\ Pending(s) = {}
  BY DEF SemInv, Semaphores, Locked, Waiters
<1>2. TakeNow(s) = [value |-> s.value - 1, queue |-> s.queue, woken |-> s.woken]
  BY DEF SemInv, Semaphores, TakeNow
<1>3. SemInv(TakeNow(s), C)
  <2>1. s.queue = <<>>
    <3>1. SUFFICES ASSUME s.queue # <<>> PROVE FALSE
      OBVIOUS
    <3>2. 1 \in DOMAIN s.queue
      BY <3>1 DEF SemInv, Semaphores
    <3> QED BY <1>1, <3>2 DEF Pending, Elements
  <2> QED BY <1>1, <1>2, <2>1
      DEF SemInv, Semaphores, WellQueued, Distinct, NoLostWakeup, Pending, Elements
<1>4. Waiters(TakeNow(s)) = {}
  <2>1. TakeNow(s).queue = s.queue /\ TakeNow(s).woken = s.woken
    BY <1>2
  <2> QED BY <1>1, <2>1 DEF Waiters, Pending, Elements
<1>5. PermitsOut(TakeNow(s)) = PermitsOut(s) - 1
  BY <1>1, <1>2, FS_EmptySet DEF PermitsOut
<1> QED BY <1>3, <1>4, <1>5

\* acquire() that waits joins the end of the queue and takes nothing.
LEMMA EnqueueLemma ==
  ASSUME NEW C, NEW s, SemInv(s, C), Locked(s), NEW c \in C, c \notin Waiters(s)
  PROVE  /\ SemInv(Enqueue(s, c), C)
         /\ Waiters(Enqueue(s, c)) = Waiters(s) \cup {c}
         /\ Enqueue(s, c).woken = s.woken
         /\ PermitsOut(Enqueue(s, c)) = PermitsOut(s)
<1> DEFINE t == Enqueue(s, c)
<1>1. /\ s.value \in Nat /\ s.queue \in Seq(C) /\ s.woken \in SUBSET C
      /\ t.value = s.value /\ t.queue = Append(s.queue, c) /\ t.woken = s.woken
  BY DEF SemInv, Semaphores, Enqueue
<1>2. /\ t.queue \in Seq(C) /\ Len(t.queue) = Len(s.queue) + 1
      /\ \A i \in 1..Len(s.queue) : t.queue[i] = s.queue[i]
      /\ t.queue[Len(s.queue) + 1] = c
  BY <1>1
<1>3. Pending(t) = Pending(s) \cup {c}
  <2>1. DOMAIN t.queue = DOMAIN s.queue \cup {Len(s.queue) + 1}
    BY <1>1, <1>2
  <2> QED BY <1>1, <1>2, <2>1 DEF Pending, Elements
<1>4. WellQueued(t)
  <2>1. \A i \in DOMAIN s.queue : s.queue[i] # c
    BY DEF Waiters, Pending, Elements
  <2>2. \A i, j \in DOMAIN t.queue : t.queue[i] = t.queue[j] => i = j
    BY <1>1, <1>2, <2>1 DEF SemInv, WellQueued, Distinct
  <2>3. Pending(t) \cap t.woken = {}
    BY <1>1, <1>3 DEF SemInv, WellQueued, Distinct, Waiters
  <2> QED BY <2>2, <2>3 DEF WellQueued, Distinct
<1>5. NoLostWakeup(t)
  BY <1>1 DEF SemInv, NoLostWakeup, Locked, Waiters, Pending, Elements
<1>6. t \in Semaphores(C)
  BY <1>1, <1>2 DEF SemInv, Semaphores, Enqueue
<1>7. Waiters(t) = Waiters(s) \cup {c} /\ PermitsOut(t) = PermitsOut(s) /\ t.woken = s.woken
  BY <1>1, <1>3 DEF Waiters, PermitsOut
<1> QED BY <1>4, <1>5, <1>6, <1>7 DEF SemInv

\* A wake-up moves one permit and one waiter, and loses neither.
LEMMA WakeUpNextLemma ==
  ASSUME NEW C, IsFiniteSet(C),
         NEW s \in Semaphores(C), WellQueued(s), s.value # 0
  PROVE  /\ SemInv(WakeUpNext(s), C)
         /\ Waiters(WakeUpNext(s)) = Waiters(s)
         /\ PermitsOut(WakeUpNext(s)) = PermitsOut(s)
<1>1. s.value \in Nat /\ s.queue \in Seq(C) /\ s.woken \in SUBSET C
  BY DEF Semaphores
<1>2. CASE s.queue = <<>>
  BY <1>2 DEF SemInv, WakeUpNext, NoLostWakeup
<1>3. CASE s.queue # <<>>
  <2> DEFINE h == Head(s.queue)
             t == WakeUpNext(s)
  <2>1. /\ t = [value |-> s.value - 1, queue |-> Tail(s.queue), woken |-> s.woken \cup {h}]
        /\ t.value = s.value - 1 /\ t.queue = Tail(s.queue) /\ t.woken = s.woken \cup {h}
    <3>1. t = [value |-> s.value - 1, queue |-> Tail(s.queue), woken |-> s.woken \cup {h}]
      BY <1>3 DEF WakeUpNext
    <3> QED BY <3>1
  <2>2. /\ h \in C /\ h = s.queue[1]
        /\ Tail(s.queue) \in Seq(C) /\ Len(Tail(s.queue)) = Len(s.queue) - 1
        /\ \A i \in 1..(Len(s.queue) - 1) : Tail(s.queue)[i] = s.queue[i + 1]
        /\ Len(s.queue) \in Nat \ {0}
    BY <1>1, <1>3
  <2>3. t \in Semaphores(C)
    BY <1>1, <2>1, <2>2 DEF Semaphores
  <2>4. Pending(s) = Pending(t) \cup {h}
    <3>1. \A i \in DOMAIN s.queue : i = 1 \/ (i - 1 \in DOMAIN t.queue /\ t.queue[i - 1] = s.queue[i])
      BY <1>1, <2>1, <2>2
    <3>2. \A i \in DOMAIN t.queue : i + 1 \in DOMAIN s.queue /\ t.queue[i] = s.queue[i + 1]
      BY <1>1, <2>1, <2>2
    <3>3. 1 \in DOMAIN s.queue
      BY <1>1, <2>2
    <3> QED BY <2>2, <3>1, <3>2, <3>3 DEF Pending, Elements
  <2>5. h \notin Pending(t) /\ h \notin s.woken
    <3>1. h \in Pending(s)
      BY <2>4
    <3>2. \A i \in DOMAIN t.queue : t.queue[i] # h
      BY <1>1, <2>1, <2>2 DEF WellQueued, Distinct
    <3> QED BY <3>1, <3>2 DEF WellQueued, Distinct, Pending, Elements
  <2>6. WellQueued(t)
    <3>1. \A i, j \in DOMAIN t.queue : t.queue[i] = t.queue[j] => i = j
      BY <1>1, <2>1, <2>2 DEF WellQueued, Distinct
    <3>2. Pending(t) \cap t.woken = {}
      BY <2>1, <2>4, <2>5 DEF WellQueued, Distinct
    <3> QED BY <3>1, <3>2 DEF WellQueued, Distinct
  <2>7. NoLostWakeup(t)
    BY <2>1 DEF NoLostWakeup
  <2>8. Waiters(t) = Waiters(s)
    BY <2>1, <2>4 DEF Waiters
  <2>9. PermitsOut(t) = PermitsOut(s)
    <3>1. IsFiniteSet(s.woken)
      BY <1>1, FS_Subset
    <3>2. /\ Cardinality(s.woken) \in Nat
          /\ Cardinality(t.woken) = Cardinality(s.woken) + 1
      BY <2>1, <2>5, <3>1, FS_AddElement, FS_CardinalityType
    <3> QED BY <1>1, <2>1, <3>2 DEF PermitsOut
  <2> QED BY <2>3, <2>6, <2>7, <2>8, <2>9 DEF SemInv
<1> QED BY <1>2, <1>3

\* release() puts one permit out and keeps every waiter.
LEMMA ReleaseLemma ==
  ASSUME NEW C, IsFiniteSet(C), NEW s \in Semaphores(C), WellQueued(s)
  PROVE  /\ SemInv(Release(s), C)
         /\ Waiters(Release(s)) = Waiters(s)
         /\ PermitsOut(Release(s)) = PermitsOut(s) + 1
<1> DEFINE t == [s EXCEPT !.value = @ + 1]
<1>1. t = [value |-> s.value + 1, queue |-> s.queue, woken |-> s.woken] /\ s.value \in Nat
  BY DEF Semaphores
<1>2. t.value = s.value + 1 /\ t.queue = s.queue /\ t.woken = s.woken
  BY <1>1
<1>3. t \in Semaphores(C) /\ t.value # 0
  BY <1>1 DEF Semaphores
<1>4. WellQueued(t) /\ Waiters(t) = Waiters(s)
  BY <1>2 DEF WellQueued, Distinct, Waiters, Pending, Elements
<1>5. PermitsOut(t) = PermitsOut(s) + 1
  <2>1. Cardinality(s.woken) \in Nat
    BY FS_Subset, FS_CardinalityType DEF Semaphores
  <2> QED BY <1>1, <1>2, <2>1 DEF PermitsOut
<1>6. Release(s) = WakeUpNext(t)
  BY DEF Release
<1> HIDE DEF t
<1> QED BY <1>3, <1>4, <1>5, <1>6, WakeUpNextLemma

\* Taking a granted waiter out takes its permit with it.
LEMMA DropWokenLemma ==
  ASSUME NEW C, IsFiniteSet(C), NEW s \in Semaphores(C), WellQueued(s), NEW c \in s.woken
  PROVE  LET t == [s EXCEPT !.woken = @ \ {c}]
         IN  /\ t \in Semaphores(C) /\ WellQueued(t)
             /\ Waiters(t) = Waiters(s) \ {c}
             /\ PermitsOut(t) = PermitsOut(s) - 1
<1> DEFINE t == [s EXCEPT !.woken = @ \ {c}]
<1>1. s.value \in Nat /\ s.woken \in SUBSET C
  BY DEF Semaphores
<1>2. t.value = s.value /\ t.queue = s.queue /\ t.woken = s.woken \ {c}
  BY DEF Semaphores
<1>3. t \in Semaphores(C)
  BY <1>1 DEF Semaphores
<1>4. WellQueued(t)
  BY <1>2 DEF WellQueued, Distinct, Pending, Elements
<1>5. Waiters(t) = Waiters(s) \ {c}
  BY <1>2 DEF WellQueued, Distinct, Waiters, Pending, Elements
<1>6. PermitsOut(t) = PermitsOut(s) - 1
  <2>1. IsFiniteSet(s.woken)
    BY <1>1, FS_Subset
  <2>2. Cardinality(t.woken) = Cardinality(s.woken) - 1 /\ Cardinality(s.woken) \in Nat
    BY <1>2, <2>1, FS_RemoveElement, FS_CardinalityType
  <2> QED BY <1>1, <1>2, <2>2 DEF PermitsOut
<1> QED BY <1>3, <1>4, <1>5, <1>6

\* A granted waiter that runs on leaves the waiters and takes its permit.
LEMMA ResumeLemma ==
  ASSUME NEW C, IsFiniteSet(C), NEW s, SemInv(s, C), NEW c \in s.woken
  PROVE  /\ SemInv(Resume(s, c), C)
         /\ Waiters(Resume(s, c)) = Waiters(s) \ {c}
         /\ PermitsOut(Resume(s, c)) = PermitsOut(s) - 1
<1> DEFINE t == [s EXCEPT !.woken = @ \ {c}]
<1>1. /\ t \in Semaphores(C) /\ WellQueued(t)
      /\ Waiters(t) = Waiters(s) \ {c}
      /\ PermitsOut(t) = PermitsOut(s) - 1
  BY DropWokenLemma DEF SemInv
<1>2. Resume(s, c) = IF t.value > 0 THEN WakeUpNext(t) ELSE t
  BY DEF Resume
<1> HIDE DEF t
<1>3. CASE t.value > 0
  BY <1>1, <1>2, <1>3, WakeUpNextLemma
<1>4. CASE ~(t.value > 0)
  BY <1>1, <1>2, <1>4 DEF SemInv, NoLostWakeup
<1> QED BY <1>3, <1>4

\* A granted waiter that is cancelled puts its permit back.
LEMMA CancelWokenLemma ==
  ASSUME NEW C, IsFiniteSet(C), NEW s, SemInv(s, C), NEW c \in s.woken
  PROVE  /\ SemInv(CancelWoken(s, c), C)
         /\ Waiters(CancelWoken(s, c)) = Waiters(s) \ {c}
         /\ PermitsOut(CancelWoken(s, c)) = PermitsOut(s)
<1> DEFINE t == [s EXCEPT !.woken = @ \ {c}]
<1>1. /\ t \in Semaphores(C) /\ WellQueued(t)
      /\ Waiters(t) = Waiters(s) \ {c}
      /\ PermitsOut(t) = PermitsOut(s) - 1
  BY DropWokenLemma DEF SemInv
<1>2. CancelWoken(s, c) = Release(t)
  BY DEF CancelWoken
<1>3. PermitsOut(s) \in Int
  BY FS_Subset, FS_CardinalityType DEF SemInv, Semaphores, PermitsOut
<1> HIDE DEF t
<1> QED BY <1>1, <1>2, <1>3, ReleaseLemma

\* A waiter taken out of a queue: the others stay, in their order, once each.
LEMMA WithoutLemma ==
  ASSUME NEW C, NEW q \in Seq(C), Distinct(q), NEW c \in Elements(q)
  PROVE  /\ Without(q, c) \in Seq(C)
         /\ Distinct(Without(q, c))
         /\ Elements(Without(q, c)) = Elements(q) \ {c}
<1> DEFINE at == CHOOSE i \in DOMAIN q : q[i] = c
           r  == Without(q, c)
<1>1. at \in DOMAIN q /\ q[at] = c
  BY DEF Elements
<1>2. \A i \in DOMAIN q : q[i] = c => i = at
  BY <1>1 DEF Distinct
<1>3. r = [i \in 1..(Len(q) - 1) |-> IF i < at THEN q[i] ELSE q[i + 1]]
  BY DEF Without
<1> HIDE DEF at, r
<1>4. Len(q) \in Nat /\ DOMAIN q = 1..Len(q) /\ Len(q) - 1 \in Nat
  BY <1>1
<1>5. r \in Seq(C) /\ DOMAIN r = 1..(Len(q) - 1)
  <2>1. \A i \in 1..(Len(q) - 1) : r[i] \in C
    BY <1>1, <1>3, <1>4
  <2>2. r \in [1..(Len(q) - 1) -> C]
    BY <1>3, <2>1
  <2> QED BY <1>4, <2>2
<1>6. Elements(r) = Elements(q) \ {c}
  <2>1. \A i \in DOMAIN r : r[i] # c /\ \E j \in DOMAIN q : r[i] = q[j]
    <3>1. TAKE i \in DOMAIN r
    <3>2. CASE i < at
      BY <1>1, <1>2, <1>3, <1>4, <1>5, <3>1, <3>2
    <3>3. CASE ~(i < at)
      <4>1. i + 1 \in DOMAIN q /\ i + 1 # at /\ r[i] = q[i + 1]
        BY <1>1, <1>3, <1>4, <1>5, <3>1, <3>3
      <4> QED BY <1>2, <4>1
    <3> QED BY <3>2, <3>3
  <2>2. \A j \in DOMAIN q : q[j] # c => \E i \in DOMAIN r : r[i] = q[j]
    <3>1. TAKE j \in DOMAIN q
    <3>2. HAVE q[j] # c
    <3>3. CASE j < at
      <4>1. j \in DOMAIN r /\ r[j] = q[j]
        BY <1>1, <1>3, <1>4, <1>5, <3>1, <3>3
      <4> QED BY <4>1
    <3>4. CASE ~(j < at)
      <4>1. j - 1 \in DOMAIN r /\ r[j - 1] = q[j]
        BY <1>1, <1>3, <1>4, <1>5, <3>1, <3>2, <3>4
      <4> QED BY <4>1
    <3> QED BY <3>3, <3>4
  <2> QED BY <2>1, <2>2 DEF Elements
<1>7. Distinct(r)
  <2>1. \A i \in DOMAIN r : i \in DOMAIN q /\ i + 1 \in DOMAIN q /\ i \in Int
    BY <1>4, <1>5
  <2>2. at \in Int
    BY <1>1, <1>4
  <2> QED BY <1>3, <1>5, <2>1, <2>2 DEF Distinct
<1> QED BY <1>5, <1>6, <1>7 DEF r

\* A waiter that joins a queue it is not in, and the one that leaves as its head.
LEMMA AppendLemma ==
  ASSUME NEW C, NEW q \in Seq(C), Distinct(q), NEW c \in C, c \notin Elements(q)
  PROVE  /\ Append(q, c) \in Seq(C)
         /\ Distinct(Append(q, c))
         /\ Elements(Append(q, c)) = Elements(q) \cup {c}
<1> DEFINE r == Append(q, c)
<1>1. /\ r \in Seq(C) /\ DOMAIN r = DOMAIN q \cup {Len(q) + 1}
      /\ \A i \in DOMAIN q : r[i] = q[i]
      /\ r[Len(q) + 1] = c /\ Len(q) + 1 \notin DOMAIN q
  OBVIOUS
<1> HIDE DEF r
<1>2. \A i \in DOMAIN q : q[i] # c
  BY DEF Elements
<1>3. Elements(r) = Elements(q) \cup {c}
  BY <1>1 DEF Elements
<1>4. Distinct(r)
  BY <1>1, <1>2 DEF Distinct
<1> QED BY <1>1, <1>3, <1>4 DEF r

LEMMA TailLemma ==
  ASSUME NEW C, NEW q \in Seq(C), Distinct(q), q # <<>>
  PROVE  /\ Tail(q) \in Seq(C) /\ Head(q) \in Elements(q) /\ Head(q) \in C
         /\ Distinct(Tail(q))
         /\ Elements(Tail(q)) = Elements(q) \ {Head(q)}
<1> DEFINE r == Tail(q)
<1>1. /\ Len(q) \in Nat /\ Len(q) > 0 /\ DOMAIN q = 1..Len(q)
      /\ Head(q) = q[1] /\ q[1] \in C
      /\ r \in Seq(C) /\ DOMAIN r = 1..(Len(q) - 1)
      /\ \A i \in DOMAIN r : r[i] = q[i + 1]
  OBVIOUS
<1> HIDE DEF r
<1>2. \A i \in DOMAIN r : i + 1 \in DOMAIN q /\ i + 1 # 1
  BY <1>1
<1>3. \A i \in DOMAIN q : i = 1 \/ (i - 1 \in DOMAIN r /\ r[i - 1] = q[i])
  BY <1>1
<1>4. Elements(r) = Elements(q) \ {q[1]}
  <2>1. \A i \in DOMAIN r : r[i] \in Elements(q) /\ r[i] # q[1]
    BY <1>1, <1>2 DEF Elements, Distinct
  <2>2. \A i \in DOMAIN q : q[i] # q[1] => q[i] \in Elements(r)
    BY <1>3 DEF Elements
  <2> QED BY <2>1, <2>2 DEF Elements
<1>5. Distinct(r)
  <2>1. \A i, j \in DOMAIN r : i + 1 = j + 1 => i = j
    BY <1>1
  <2> QED BY <1>1, <1>2, <2>1 DEF Distinct
<1>6. Head(q) \in Elements(q)
  BY <1>1 DEF Elements
<1> QED BY <1>1, <1>4, <1>5, <1>6 DEF r

\* A pending waiter that is cancelled leaves the queue; no permit moves.
LEMMA CancelPendingLemma ==
  ASSUME NEW C, NEW s, SemInv(s, C), NEW c \in Pending(s)
  PROVE  /\ SemInv(CancelPending(s, c), C)
         /\ Waiters(CancelPending(s, c)) = Waiters(s) \ {c}
         /\ CancelPending(s, c).woken = s.woken
         /\ PermitsOut(CancelPending(s, c)) = PermitsOut(s)
<1> DEFINE r == Without(s.queue, c)
           t == CancelPending(s, c)
<1>1. /\ s.value \in Nat /\ s.queue \in Seq(C) /\ s.woken \in SUBSET C
      /\ Distinct(s.queue) /\ Pending(s) \cap s.woken = {}
  BY DEF SemInv, Semaphores, WellQueued
<1>2. r \in Seq(C) /\ Distinct(r) /\ Elements(r) = Pending(s) \ {c}
  BY <1>1, WithoutLemma DEF Pending
<1>3. t = [value |-> s.value, queue |-> r, woken |-> s.woken]
  BY DEF SemInv, Semaphores, CancelPending
<1>4. t.value = s.value /\ t.queue = r /\ t.woken = s.woken
  BY <1>3
<1> HIDE DEF t
<1>5. Pending(t) = Pending(s) \ {c}
  BY <1>2, <1>4 DEF Pending
<1>6. WellQueued(t)
  BY <1>1, <1>2, <1>4, <1>5 DEF WellQueued
<1>7. t \in Semaphores(C)
  BY <1>1, <1>2, <1>3 DEF Semaphores
<1>8. NoLostWakeup(t)
  <2>1. s.queue # <<>>
    BY <1>1 DEF Pending, Elements
  <2> QED BY <1>4, <2>1 DEF SemInv, NoLostWakeup
<1>9. Waiters(t) = Waiters(s) \ {c}
  BY <1>1, <1>4, <1>5 DEF Waiters
<1>10. PermitsOut(t) = PermitsOut(s)
  BY <1>4 DEF PermitsOut
<1> QED BY <1>4, <1>6, <1>7, <1>8, <1>9, <1>10 DEF SemInv, t

\* Nobody starts to wait but by Enqueue: the other operations only shorten
\* the queue.
LEMMA QueueShortens ==
  ASSUME NEW C, IsFiniteSet(C), NEW s, SemInv(s, C)
  PROVE  /\ Pending(Release(s)) \subseteq Pending(s)
         /\ \A c \in s.woken : /\ Pending(Resume(s, c)) \subseteq Pending(s)
                               /\ Pending(CancelWoken(s, c)) \subseteq Pending(s)
         /\ \A c \in Pending(s) : Pending(CancelPending(s, c)) \subseteq Pending(s)
<1>1. ASSUME NEW r, r.queue \in Seq(C)
      PROVE  Pending(WakeUpNext(r)) \subseteq Pending(r)
  <2>1. CASE r.queue = <<>>
    BY <2>1 DEF WakeUpNext
  <2>2. CASE r.queue # <<>>
    <3>1. WakeUpNext(r).queue = Tail(r.queue)
      BY <2>2 DEF WakeUpNext
    <3>2. \A i \in DOMAIN Tail(r.queue) :
            i + 1 \in DOMAIN r.queue /\ Tail(r.queue)[i] = r.queue[i + 1]
      BY <1>1, <2>2
    <3> QED BY <3>1, <3>2 DEF Pending, Elements
  <2> QED BY <2>1, <2>2
<1>2. Pending(Release(s)) \subseteq Pending(s)
  <2> DEFINE t == [s EXCEPT !.value = @ + 1]
  <2>1. t.queue = s.queue /\ t.queue \in Seq(C)
    BY DEF SemInv, Semaphores
  <2>2. Release(s) = WakeUpNext(t)
    BY DEF Release
  <2> HIDE DEF t
  <2> QED BY <1>1, <2>1, <2>2 DEF Pending, Elements
<1>3. ASSUME NEW c \in s.woken
      PROVE  /\ Pending(Resume(s, c)) \subseteq Pending(s)
             /\ Pending(CancelWoken(s, c)) \subseteq Pending(s)
  <2> DEFINE t == [s EXCEPT !.woken = @ \ {c}]
             u == [t EXCEPT !.value = @ + 1]
  <2>1. t.queue = s.queue /\ t.queue \in Seq(C) /\ u.queue = s.queue
    BY DEF SemInv, Semaphores
  <2>2. Resume(s, c) \in {WakeUpNext(t), t}
    BY DEF Resume
  <2>3. CancelWoken(s, c) = WakeUpNext(u)
    BY DEF CancelWoken, Release
  <2> HIDE DEF t, u
  <2>4. Pending(t) = Pending(s) /\ Pending(u) = Pending(s)
    BY <2>1 DEF Pending, Elements
  <2> QED BY <1>1, <2>1, <2>2, <2>3, <2>4
<1>4. ASSUME NEW c \in Pending(s)
      PROVE  Pending(CancelPending(s, c)) \subseteq Pending(s)
  <2>1. /\ Waiters(CancelPending(s, c)) = Waiters(s) \ {c}
        /\ CancelPending(s, c).woken = s.woken
        /\ WellQueued(CancelPending(s, c))
    BY <1>4, CancelPendingLemma DEF SemInv
  <2> QED BY <2>1 DEF WellQueued, Distinct, Waiters
<1> QED BY <1>2, <1>3, <1>4
=============================================================================
