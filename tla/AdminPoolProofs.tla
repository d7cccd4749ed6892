-------------------------- MODULE AdminPoolProofs --------------------------
(***************************************************************************)
(* AdminPool for every set of callers and threads and all deadlines: for a *)
(* pool of any size, and reads of any length.                              *)
(*                                                                         *)
(* PoolInv: every awaited job has its one place, and a thread's job is the *)
(* one its call awaits.  StageInv: what a probe has seen accounts for      *)
(* where it is, and for its TCP stage being short of time.                 *)
(***************************************************************************)
EXTENDS AdminPool, AsyncSemaphoreProofs

ThreadsMatch ==
  \A t \in Threads :
    /\ thread[t].job = "none" => thread[t] = Idle
    /\ \A c \in thread[t].for :
         thread[t].job = IF at[c] = "resolving" THEN "lookup" ELSE "read"

PoolInv == PoolTypeOK /\ AwaitedJobsExist /\ ThreadsMatch

AwaitingCalls == {c \in Calls : at[c] \in Awaiting}

\* The times of the configuration are natural numbers.
LEMMA TimesLemma ==
  /\ Timeout \in Nat /\ Timeout > 0 /\ Margin \in Nat /\ ReadTime \in Nat
  /\ TcpTimeout \in Nat /\ TcpTimeout > 0 /\ ToolLimit \in Nat /\ ToolLimit > 0
BY DeadlinesAssumption, LimitAssumption

\* The empty pool with no call.
LEMMA PoolInitially == PoolInit => PoolInv
<1> SUFFICES ASSUME PoolInit PROVE PoolInv
  OBVIOUS
<1>1. PoolTypeOK
  <2>1. Idle \in Jobs
    BY TimesLemma DEF Idle, Jobs
  <2> QED BY <2>1, TimesLemma DEF PoolInit, PoolTypeOK, Verdicts
<1>2. Queued = {} /\ Working = {}
  BY DEF PoolInit, Queued, Working, Elements, Idle
<1>3. AwaitedJobsExist
  BY <1>2 DEF PoolInit, AwaitedJobsExist, Distinct, Awaiting, Idle
<1>4. ThreadsMatch
  BY DEF PoolInit, ThreadsMatch, Idle
<1> QED BY <1>1, <1>3, <1>4 DEF PoolInv

----------------------------------------------------------------------------
(* What the steps do to the jobs.                                          *)

\* A job that joins the queue, of a call that awaited none.
LEMMA SubmitLemma ==
  ASSUME PoolInv, NEW c \in Calls, at[c] \notin Awaiting, Submit(c),
         AwaitingCalls' = AwaitingCalls \cup {c},
         \A t \in Threads : thread'[t].for = thread[t].for
  PROVE  AwaitedJobsExist' /\ queue' \in Seq(Calls)
<1>1. c \notin Queued /\ c \notin Working
  BY DEF PoolInv, AwaitedJobsExist
<1>2. /\ queue' \in Seq(Calls) /\ Distinct(queue')
      /\ Elements(queue') = Elements(queue) \cup {c}
  BY <1>1, AppendLemma DEF PoolInv, PoolTypeOK, AwaitedJobsExist, Submit, Queued
<1>3. Working' = Working
  BY DEF Working
<1> QED BY <1>1, <1>2, <1>3 DEF PoolInv, AwaitedJobsExist, Queued, AwaitingCalls

\* A thread that is done with the job of a call.
LEMMA JobEndsLemma ==
  ASSUME PoolInv, NEW t \in Threads, NEW c \in Calls, thread[t].for = {c},
         thread' = [thread EXCEPT ![t] = Idle]
  PROVE  /\ Working' = Working \ {c} /\ c \in Working /\ c \notin Queued
         /\ \A u, v \in Threads : thread'[u].for \cap thread'[v].for # {} => u = v
<1>1. \A u \in Threads : thread'[u].for = IF u = t THEN {} ELSE thread[u].for
  BY DEF PoolInv, PoolTypeOK, Idle
<1>2. \A u \in Threads : u # t => c \notin thread[u].for
  BY DEF PoolInv, AwaitedJobsExist
<1>3. c \in Working
  BY DEF Working
<1> QED BY <1>1, <1>2, <1>3 DEF Working, PoolInv, AwaitedJobsExist

\* A cancelled await: no place is left to its job, and the others keep theirs.
LEMMA CancelLemma ==
  ASSUME PoolInv, NEW c \in Calls, Cancel(c), AwaitingCalls' = AwaitingCalls \ {c}
  PROVE  AwaitedJobsExist' /\ queue' \in Seq(Calls) /\ thread' \in [Threads -> Jobs]
<1>1. queue \in Seq(Calls) /\ Distinct(queue)
  BY DEF PoolInv, PoolTypeOK, AwaitedJobsExist
<1>2. /\ queue' \in Seq(Calls) /\ Distinct(queue')
      /\ Elements(queue') = Elements(queue) \ {c}
  <2>1. CASE c \in Queued
    BY <1>1, <2>1, WithoutLemma DEF Cancel, Queued
  <2>2. CASE c \notin Queued
    BY <1>1, <2>2 DEF Cancel, Queued
  <2> QED BY <2>1, <2>2
<1>3. \A t \in Threads : thread'[t].for = thread[t].for \ {c}
  BY DEF Cancel, PoolInv, PoolTypeOK, Jobs
<1>4. Working' = Working \ {c}
  BY <1>3 DEF Working
<1>5. thread' \in [Threads -> Jobs]
  <2>1. \A t \in Threads : thread[t] \in Jobs
    BY DEF PoolInv, PoolTypeOK
  <2>2. \A t \in Threads : thread[t].for \ {c} \in {{}} \cup {{d} : d \in Calls}
    BY <2>1 DEF Jobs
  <2>3. \A t \in Threads : [thread[t] EXCEPT !.for = @ \ {c}] \in Jobs
    BY <2>1, <2>2 DEF Jobs
  <2> QED BY <2>3 DEF Cancel
<1> QED BY <1>2, <1>3, <1>4, <1>5 DEF PoolInv, AwaitedJobsExist, Queued, AwaitingCalls

\* The thread of a call is at the job the call awaits, so a call that awaits
\* none has no thread.
LEMMA WorkersLemma ==
  ASSUME PoolInv
  PROVE  /\ \A t \in Threads : \A c \in thread[t].for : c \in Working
         /\ \A c \in Queued \cup Working : c \in Calls /\ at[c] \in Awaiting
         /\ \A c \in Calls : at[c] \in Awaiting => c \in Queued \cup Working
         /\ \A t \in Threads : thread[t].for # {} => thread[t].job # "none"
BY DEF PoolInv, AwaitedJobsExist, ThreadsMatch, Working, Idle

\* The steps in which a thread takes a job or drops one nobody waits for.
LEMMA ThreadSteps ==
  ASSUME PoolInv, NEW t \in Threads, Pick(t) \/ EndsForNobody(t)
  PROVE  PoolInv'
<1>1. CASE Pick(t)
  <2> DEFINE c   == Head(queue)
             new == [job  |-> IF at[c] = "resolving" THEN "lookup" ELSE "read",
                     for  |-> {c}, left |-> JobTime(c)]
  <2>1. /\ c \in Calls /\ c \in Queued /\ queue' \in Seq(Calls)
        /\ Distinct(queue') /\ Elements(queue') = Queued \ {c}
    BY <1>1, TailLemma DEF Pick, PoolInv, PoolTypeOK, AwaitedJobsExist, Queued
  <2>2. thread' = [thread EXCEPT ![t] = new] /\ thread[t] = Idle
        /\ UNCHANGED <<up, at, budget, tcp, verdict, saw>>
    BY <1>1 DEF Pick
  <2>3. at[c] \in Awaiting
    BY <2>1, WorkersLemma
  <2>4. JobTime(c) \in 0..(Timeout + ReadTime)
    BY <2>3, TimesLemma DEF JobTime, Awaiting
  <2> HIDE DEF c
  <2>5. new \in Jobs
    BY <2>1, <2>4 DEF Jobs
  <2>6. new.for = {c} /\ new.job = IF at[c] = "resolving" THEN "lookup" ELSE "read"
    OBVIOUS
  <2> HIDE DEF new
  <2>7. \A u \in Threads : thread'[u] = IF u = t THEN new ELSE thread[u]
    BY <2>2 DEF PoolInv, PoolTypeOK
  <2>8. thread[t].for = {}
    BY <2>2 DEF Idle
  <2>9. Working' = Working \cup {c}
    BY <2>6, <2>7, <2>8 DEF Working
  <2>10. PoolTypeOK'
    BY <2>1, <2>2, <2>5 DEF PoolInv, PoolTypeOK
  <2>11. AwaitedJobsExist'
    <3>1. \A u \in Threads : c \notin thread[u].for
      BY <2>1, WorkersLemma DEF PoolInv, AwaitedJobsExist
    <3>2. \A u, v \in Threads : thread'[u].for \cap thread'[v].for # {} => u = v
      BY <2>6, <2>7, <3>1 DEF PoolInv, AwaitedJobsExist
    <3> QED BY <2>1, <2>2, <2>9, <3>2 DEF PoolInv, AwaitedJobsExist, Queued
  <2>12. ThreadsMatch'
    BY <2>2, <2>6, <2>7 DEF PoolInv, ThreadsMatch, Idle
  <2> QED BY <2>10, <2>11, <2>12 DEF PoolInv
<1>2. CASE EndsForNobody(t)
  <2>1. /\ thread[t].for = {} /\ thread' = [thread EXCEPT ![t] = Idle]
        /\ UNCHANGED <<up, at, budget, tcp, queue, verdict, saw>>
    BY <1>2 DEF EndsForNobody
  <2>2. \A u \in Threads : thread'[u] = IF u = t THEN Idle ELSE thread[u]
    BY <2>1 DEF PoolInv, PoolTypeOK
  <2>3. Idle \in Jobs /\ Idle.for = {}
    BY TimesLemma DEF Idle, Jobs
  <2>4. PoolTypeOK'
    BY <2>1, <2>3 DEF PoolInv, PoolTypeOK
  <2>5. Working' = Working
    BY <2>1, <2>2, <2>3 DEF Working
  <2>6. AwaitedJobsExist'
    BY <2>1, <2>2, <2>3, <2>5 DEF PoolInv, AwaitedJobsExist, Queued
  <2>7. ThreadsMatch'
    BY <2>1, <2>2, <2>3 DEF PoolInv, ThreadsMatch
  <2> QED BY <2>4, <2>6, <2>7 DEF PoolInv
<1> QED BY <1>1, <1>2

\* The answer of a call keeps the types.
LEMMA EndsLemma ==
  ASSUME PoolTypeOK, NEW c \in Calls, NEW s \in Verdicts, EndsWith(c, s)
  PROVE  /\ at' \in [Calls -> {"out", "resolving", "connecting", "reading", "attempting"}]
         /\ budget' \in [Calls -> 0..(Timeout + Margin)]
         /\ tcp' \in [Calls -> 0..TcpTimeout]
         /\ verdict' \in [Calls -> Verdicts]
         /\ \A d \in Calls : at'[d] = IF d = c THEN "out" ELSE at[d]
         /\ AwaitingCalls' = AwaitingCalls \ {c}
<1>1. \A d \in Calls : at'[d] = IF d = c THEN "out" ELSE at[d]
  BY DEF EndsWith, PoolTypeOK
<1>2. AwaitingCalls' = AwaitingCalls \ {c}
  BY <1>1 DEF AwaitingCalls, Awaiting
<1> QED BY <1>1, <1>2, TimesLemma DEF EndsWith, PoolTypeOK

\* The steps in which a thread ends the job of a call.
LEMMA JobSteps ==
  ASSUME PoolInv, NEW t \in Threads, NEW c \in Calls,
         \/ ReadAnswers(t, c) \/ ReadContinues(t, c)
         \/ LookupSucceeds(t, c) \/ LookupFails(t, c) \/ AttemptEnds(t, c)
  PROVE  PoolInv'
<1>1. /\ thread[t].for = {c} /\ thread' = [thread EXCEPT ![t] = Idle]
      /\ at[c] \in Awaiting /\ up' = up /\ saw' = saw
  BY DEF ReadAnswers, ReadContinues, LookupSucceeds, LookupFails, AttemptEnds, Awaiting
<1>2. /\ Working' = Working \ {c} /\ c \in Working /\ c \notin Queued
      /\ \A u, v \in Threads : thread'[u].for \cap thread'[v].for # {} => u = v
  BY <1>1, JobEndsLemma
<1>3. /\ \A u \in Threads : thread'[u] = IF u = t THEN Idle ELSE thread[u]
      /\ thread' \in [Threads -> Jobs] /\ Idle.for = {}
  <2>1. Idle \in Jobs /\ Idle.for = {}
    BY TimesLemma DEF Idle, Jobs
  <2>2. thread \in [Threads -> Jobs]
    BY DEF PoolInv, PoolTypeOK
  <2> HIDE DEF Idle
  <2> QED BY <1>1, <2>1, <2>2
<1>4. \A u \in Threads \ {t} : c \notin thread[u].for
  BY <1>1 DEF PoolInv, AwaitedJobsExist
<1>5. ASSUME queue' = queue, AwaitingCalls' = AwaitingCalls \ {c}
      PROVE  AwaitedJobsExist'
  BY <1>2, <1>5 DEF PoolInv, AwaitedJobsExist, Queued, AwaitingCalls
<1>6. ASSUME \A d \in Calls \ {c} : at'[d] = at[d] PROVE ThreadsMatch'
  <2>1. \A u \in Threads : \A d \in thread'[u].for : d \in Calls /\ d # c /\ d \in thread[u].for
    BY <1>3, <1>4, WorkersLemma
  <2> QED BY <1>3, <1>6, <2>1 DEF PoolInv, ThreadsMatch
<1>7. CASE \/ ReadAnswers(t, c) \/ LookupFails(t, c) \/ AttemptEnds(t, c)
  <2>1. PICK s \in Verdicts : EndsWith(c, s)
    BY <1>7 DEF ReadAnswers, LookupFails, AttemptEnds, Verdicts
  <2>2. queue' = queue
    BY <1>7 DEF ReadAnswers, LookupFails, AttemptEnds
  <2>3. PoolTypeOK'
    BY <1>1, <1>3, <2>1, <2>2, EndsLemma DEF PoolInv, PoolTypeOK
  <2>4. AwaitedJobsExist'
    BY <1>5, <2>1, <2>2, EndsLemma DEF PoolInv
  <2>5. ThreadsMatch'
    BY <1>6, <2>1, EndsLemma DEF PoolInv
  <2> QED BY <2>3, <2>4, <2>5 DEF PoolInv
<1>8. CASE ReadContinues(t, c)
  <2>1. Submit(c) /\ UNCHANGED <<at, budget, tcp, verdict>>
    BY <1>8 DEF ReadContinues
  <2>2. /\ queue' \in Seq(Calls) /\ Distinct(queue')
        /\ Elements(queue') = Queued \cup {c}
    BY <1>2, <2>1, AppendLemma DEF Submit, PoolInv, PoolTypeOK, AwaitedJobsExist, Queued
  <2>3. PoolTypeOK'
    BY <1>1, <1>3, <2>1, <2>2 DEF PoolInv, PoolTypeOK
  <2>4. AwaitedJobsExist'
    BY <1>2, <2>1, <2>2 DEF PoolInv, AwaitedJobsExist, Queued
  <2> QED BY <1>6, <2>1, <2>3, <2>4 DEF PoolInv
<1>9. CASE LookupSucceeds(t, c)
  <2>1. /\ at' = [at EXCEPT ![c] = "connecting"]
        /\ UNCHANGED <<budget, tcp, queue, verdict>>
    BY <1>9 DEF LookupSucceeds
  <2>2. \A d \in Calls : at'[d] = IF d = c THEN "connecting" ELSE at[d]
    BY <2>1 DEF PoolInv, PoolTypeOK
  <2>3. AwaitingCalls' = AwaitingCalls \ {c}
    BY <2>2 DEF AwaitingCalls, Awaiting
  <2>4. PoolTypeOK'
    BY <1>1, <1>3, <2>1 DEF PoolInv, PoolTypeOK
  <2> QED BY <1>5, <1>6, <2>1, <2>2, <2>3, <2>4 DEF PoolInv
<1> QED BY <1>7, <1>8, <1>9

\* The steps of a call that has no job, before or after it.
LEMMA StartSteps ==
  ASSUME PoolInv, NEW c \in Calls,
         \/ Read(c) \/ ProbeName(c) \/ ProbeAddress(c) \/ Connect(c)
  PROVE  PoolInv'
<1>1. at[c] \notin Awaiting /\ thread' = thread /\ up' = up
  BY DEF Read, ProbeName, ProbeAddress, StartsStage, Enters, Connect, Attempt, Awaiting
<1>2. PICK where \in {"reading", "resolving", "connecting", "attempting"} :
        /\ at' = [at EXCEPT ![c] = where]
        /\ IF where = "connecting" THEN queue' = queue ELSE Submit(c)
  BY DEF Read, ProbeName, ProbeAddress, StartsStage, Connect, Attempt
<1>3. \A d \in Calls : at'[d] = IF d = c THEN where ELSE at[d]
  BY <1>2 DEF PoolInv, PoolTypeOK
<1>4. AwaitedJobsExist' /\ queue' \in Seq(Calls)
  <2>1. CASE where = "connecting"
    <3>1. AwaitingCalls' = AwaitingCalls
      BY <1>1, <1>3, <2>1 DEF AwaitingCalls, Awaiting
    <3> QED BY <1>1, <1>2, <2>1, <3>1
            DEF PoolInv, PoolTypeOK, AwaitedJobsExist, Queued, Working, AwaitingCalls
  <2>2. CASE where # "connecting"
    <3>1. AwaitingCalls' = AwaitingCalls \cup {c}
      BY <1>3, <2>2 DEF AwaitingCalls, Awaiting
    <3> QED BY <1>1, <1>2, <2>2, <3>1, SubmitLemma
  <2> QED BY <2>1, <2>2
<1>5. ThreadsMatch'
  <2>1. \A u \in Threads : \A d \in thread[u].for : d \in Calls /\ d # c
    BY <1>1, WorkersLemma
  <2> QED BY <1>1, <1>3, <2>1 DEF PoolInv, ThreadsMatch
<1>6. /\ budget' \in [Calls -> 0..(Timeout + Margin)]
      /\ tcp' \in [Calls -> 0..TcpTimeout]
      /\ verdict' \in [Calls -> Verdicts] /\ saw' \in [Calls -> SUBSET {"up", "down", "full"}]
  <2>1. Timeout \in 0..(Timeout + Margin) /\ Timeout + Margin \in 0..(Timeout + Margin)
        /\ TcpTimeout \in 0..TcpTimeout /\ 0 \in 0..TcpTimeout
    BY TimesLemma
  <2>2. CASE Read(c)
    BY <2>1, <2>2 DEF Read, PoolInv, PoolTypeOK
  <2>3. CASE ProbeName(c) \/ ProbeAddress(c)
    <3>1. /\ budget'  = [budget EXCEPT ![c] = Timeout + Margin]
          /\ tcp'     = [tcp EXCEPT ![c] = TcpTimeout]
          /\ verdict' = [verdict EXCEPT ![c] = "none"]
          /\ saw'     = [saw EXCEPT ![c] = {Network}]
      BY <2>3 DEF ProbeName, ProbeAddress, StartsStage
    <3>2. budget' \in [Calls -> 0..(Timeout + Margin)] /\ tcp' \in [Calls -> 0..TcpTimeout]
      BY <2>1, <3>1 DEF PoolInv, PoolTypeOK
    <3>3. {Network} \in SUBSET {"up", "down", "full"}
      BY DEF Network
    <3>4. verdict' \in [Calls -> Verdicts] /\ saw' \in [Calls -> SUBSET {"up", "down", "full"}]
      BY <3>1, <3>3 DEF PoolInv, PoolTypeOK, Verdicts
    <3> QED BY <3>2, <3>4
  <2>4. CASE Connect(c)
    BY <2>1, <2>4 DEF Connect, Attempt, PoolInv, PoolTypeOK
  <2> QED BY <2>2, <2>3, <2>4
<1>7. PoolTypeOK'
  BY <1>1, <1>2, <1>4, <1>6 DEF PoolInv, PoolTypeOK
<1> QED BY <1>4, <1>5, <1>7 DEF PoolInv

\* The steps in which a call ends that awaits no job.
LEMMA PlainEndSteps ==
  ASSUME PoolInv, NEW c \in Calls,
         ProbeRejected(c) \/ ConnectUnsupported(c) \/ ConnectFails(c)
  PROVE  PoolInv'
<1>1. /\ at[c] \notin Awaiting
      /\ UNCHANGED <<up, queue, thread, saw>>
  BY DEF ProbeRejected, Enters, ConnectUnsupported, ConnectFails, Awaiting
<1>2. PICK s \in Verdicts : EndsWith(c, s)
  BY DEF ProbeRejected, ConnectUnsupported, ConnectFails, Verdicts
<1>3. AwaitingCalls' = AwaitingCalls
  BY <1>1, <1>2, EndsLemma DEF PoolInv, AwaitingCalls
<1>4. AwaitedJobsExist'
  BY <1>1, <1>3 DEF PoolInv, AwaitedJobsExist, Queued, Working, AwaitingCalls
<1>5. ThreadsMatch'
  <2>1. \A u \in Threads : \A d \in thread[u].for : d \in Calls /\ d # c
    BY <1>1, WorkersLemma
  <2>2. \A d \in Calls : d # c => at'[d] = at[d]
    BY <1>2, EndsLemma DEF PoolInv
  <2> QED BY <1>1, <2>1, <2>2 DEF PoolInv, ThreadsMatch
<1>6. PoolTypeOK'
  BY <1>1, <1>2, EndsLemma DEF PoolInv, PoolTypeOK
<1> QED BY <1>4, <1>5, <1>6 DEF PoolInv

\* The two deadlines.
LEMMA DeadlineSteps ==
  ASSUME PoolInv, NEW c \in Calls, TcpTimesOut(c) \/ BudgetSpent(c)
  PROVE  PoolInv'
<1>1. Cancel(c) /\ UNCHANGED <<up, saw>>
  BY DEF TcpTimesOut, BudgetSpent
<1>2. PICK s \in Verdicts : EndsWith(c, s)
  BY DEF TcpTimesOut, BudgetSpent, Verdicts
<1>3. AwaitedJobsExist' /\ queue' \in Seq(Calls) /\ thread' \in [Threads -> Jobs]
  BY <1>1, <1>2, EndsLemma, CancelLemma DEF PoolInv
<1>4. ThreadsMatch'
  <2>1. \A u \in Threads : /\ thread[u] \in Jobs /\ thread'[u].for = thread[u].for \ {c}
                           /\ thread'[u].job = thread[u].job
                           /\ thread'[u].left = thread[u].left
    BY <1>1 DEF Cancel, PoolInv, PoolTypeOK, Jobs
  <2>2. \A d \in Calls : d # c => at'[d] = at[d]
    BY <1>2, EndsLemma DEF PoolInv
  <2>3. \A u \in Threads : \A d \in thread[u].for : d \in Calls
    BY WorkersLemma
  <2>4. ASSUME NEW u \in Threads, thread'[u].job = "none" PROVE thread'[u] = Idle
    <3>1. thread[u] = Idle
      BY <2>1, <2>4 DEF PoolInv, ThreadsMatch
    <3>2. thread'[u] = [Idle EXCEPT !.for = @ \ {c}]
      BY <1>1, <3>1 DEF Cancel
    <3> QED BY <3>2 DEF Idle
  <2> QED BY <2>1, <2>2, <2>3, <2>4 DEF PoolInv, ThreadsMatch
<1>5. PoolTypeOK'
  BY <1>1, <1>2, <1>3, EndsLemma DEF PoolInv, PoolTypeOK
<1> QED BY <1>3, <1>4, <1>5 DEF PoolInv

\* The clock and the network leave every job where it is.
LEMMA WorldSteps ==
  ASSUME PoolInv, NetworkChanges \/ Tick
  PROVE  PoolInv'
<1>1. at' = at /\ queue' = queue /\ verdict' = verdict
  BY DEF NetworkChanges, Tick
<1>2. \A u \in Threads : /\ thread[u] \in Jobs /\ thread'[u] \in Jobs
                         /\ thread'[u].for = thread[u].for
                         /\ thread'[u].job = thread[u].job
                         /\ thread[u] = Idle => thread'[u] = Idle
  <2>1. \A u \in Threads : thread[u] \in Jobs
    BY DEF PoolInv, PoolTypeOK
  <2>2. CASE NetworkChanges
    BY <2>1, <2>2 DEF NetworkChanges
  <2>3. CASE Tick
    <3>1. \A u \in Threads : thread'[u] = [thread[u] EXCEPT !.left = Minus1(@)]
      BY <2>3 DEF Tick
    <3>2. \A n \in 0..(Timeout + ReadTime) : Minus1(n) \in 0..(Timeout + ReadTime)
      BY TimesLemma DEF Minus1
    <3>3. Minus1(0) = 0
      BY DEF Minus1
    <3>4. \A j \in Jobs : [j EXCEPT !.left = Minus1(@)] \in Jobs
      BY <3>2 DEF Jobs
    <3>5. Idle = [Idle EXCEPT !.left = Minus1(@)]
      BY <3>3 DEF Idle
    <3>6. \A j \in Jobs : /\ [j EXCEPT !.left = Minus1(@)].for = j.for
                         /\ [j EXCEPT !.left = Minus1(@)].job = j.job
      BY DEF Jobs
    <3> QED BY <2>1, <3>1, <3>4, <3>5, <3>6
  <2> QED BY <2>1, <2>2, <2>3
<1>3. AwaitedJobsExist'
  BY <1>1, <1>2 DEF PoolInv, AwaitedJobsExist, Queued, Working
<1>4. ThreadsMatch'
  BY <1>1, <1>2 DEF PoolInv, ThreadsMatch
<1>5. thread' \in [Threads -> Jobs]
  <2>1. CASE NetworkChanges
    BY <2>1 DEF NetworkChanges, PoolInv, PoolTypeOK
  <2>2. CASE Tick
    BY <1>2, <2>2 DEF Tick
  <2> QED BY <2>1, <2>2
<1>6. /\ budget' \in [Calls -> 0..(Timeout + Margin)]
      /\ tcp' \in [Calls -> 0..TcpTimeout]
      /\ up' \in BOOLEAN /\ saw' \in [Calls -> SUBSET {"up", "down", "full"}]
  <2>1. CASE NetworkChanges
    BY <2>1 DEF NetworkChanges, Network, PoolInv, PoolTypeOK
  <2>2. CASE Tick
    BY <2>2, TimesLemma DEF Tick, Minus1, PoolInv, PoolTypeOK
  <2> QED BY <2>1, <2>2
<1>7. PoolTypeOK'
  BY <1>1, <1>5, <1>6 DEF PoolInv, PoolTypeOK
<1> QED BY <1>3, <1>4, <1>7 DEF PoolInv

\* PoolInv is inductive.
LEMMA PoolStep == PoolInv /\ [PoolNext]_poolVars => PoolInv'
<1> SUFFICES ASSUME PoolInv, [PoolNext]_poolVars PROVE PoolInv'
  OBVIOUS
<1>1. CASE UNCHANGED poolVars
  BY <1>1 DEF poolVars, PoolInv, PoolTypeOK, AwaitedJobsExist, ThreadsMatch, Queued, Working
<1>2. CASE PoolNext
  BY <1>2, ThreadSteps, JobSteps, StartSteps, PlainEndSteps, DeadlineSteps, WorldSteps
     DEF PoolNext
<1> QED BY <1>1, <1>2

LEMMA PoolInvariant == PoolSpec => []PoolInv
BY PoolInitially, PoolStep, PTL DEF PoolSpec

\* The state of the pool, its queue and the calls keeps its types.
THEOREM PoolTypesTheorem == PoolSpec => []PoolTypeOK
<1>1. PoolInv => PoolTypeOK
  BY DEF PoolInv
<1> QED BY <1>1, PoolInvariant, PTL

\* Every awaited job exists once, in a pool of any size and with any deadlines.
THEOREM JobsTheorem == PoolSpec => []AwaitedJobsExist
<1>1. PoolInv => AwaitedJobsExist
  BY DEF PoolInv
<1> QED BY <1>1, PoolInvariant, PTL

----------------------------------------------------------------------------
(* What the probe blames.                                                  *)

StageInv ==
  \A c \in Calls :
    /\ at[c] \in InTcp => Network \in saw[c]
    /\ at[c] \in InTcp /\ tcp[c] # TcpTimeout => saw[c] \cap {"down", "full"} # {}
    /\ at[c] = "attempting" => "up" \in saw[c]
    /\ verdict[c] = "NETWORK" => saw[c] \cap {"down", "full"} # {}
    /\ verdict[c] \notin {"none", "NETWORK"} => "up" \in saw[c]

\* Time does not pass for a probe in its TCP stage while the network is up, unless
\* its look-up is queued: a connection, or a look-up in a thread, is due.
LEMMA LookupsWaitInQueue ==
  ASSUME PoolInv, ~Due, up, NEW c \in Calls, at[c] \in InTcp
  PROVE  at[c] = "resolving" /\ c \in Queued
<1>1. at[c] = "resolving"
  BY DEF Due, InTcp
<1>2. \A t \in Threads : c \notin thread[t].for
  <2>1. \A t \in Threads : thread[t].job # "lookup"
    BY DEF Due
  <2> QED BY <1>1, <2>1 DEF PoolInv, ThreadsMatch
<1>3. c \notin Working
  BY <1>2 DEF Working
<1> QED BY <1>1, <1>3, WorkersLemma DEF Awaiting

\* What was seen accounts for where the probes are and what they answered.
LEMMA StageStep ==
  ASSUME PoolInv, StageInv, PoolNext
  PROVE  StageInv'
<1> USE DEF PoolInv
<1>0. /\ saw \in [Calls -> SUBSET {"up", "down", "full"}] /\ up \in BOOLEAN
      /\ at \in [Calls -> {"out", "resolving", "connecting", "reading", "attempting"}]
      /\ verdict \in [Calls -> Verdicts] /\ tcp \in [Calls -> 0..TcpTimeout]
  BY DEF PoolTypeOK
<1>1. ASSUME NEW c \in Calls, NEW s \in Verdicts, EndsWith(c, s), saw' = saw, up' = up,
             s = "NETWORK" => saw[c] \cap {"down", "full"} # {},
             s \notin {"none", "NETWORK"} => "up" \in saw[c]
      PROVE  StageInv'
  <2>1. \A d \in Calls : IF d = c THEN at'[d] = "out" /\ verdict'[d] = s
                                  ELSE /\ at'[d] = at[d] /\ verdict'[d] = verdict[d]
                                       /\ tcp'[d] = tcp[d]
    BY <1>0, <1>1 DEF EndsWith
  <2> QED BY <1>1, <2>1 DEF StageInv, InTcp, Network
<1>2. ASSUME NEW c \in Calls, at[c] \in InTcp, ~up
      PROVE  "down" \in saw[c]
  BY <1>0, <1>2 DEF StageInv, Network
<1>3. CASE UNCHANGED <<up, at, tcp, verdict, saw>>
  BY <1>3 DEF StageInv, Network
<1>4. ASSUME NEW t \in Threads, NEW c \in Calls,
             ReadAnswers(t, c) \/ LookupFails(t, c) \/ AttemptEnds(t, c)
      PROVE  StageInv'
  <2>1. CASE ReadAnswers(t, c)
    BY <1>1, <2>1 DEF ReadAnswers, Verdicts
  <2>2. CASE LookupFails(t, c)
    <3>1. "down" \in saw[c]
      BY <1>2, <2>2 DEF LookupFails, InTcp
    <3> QED BY <1>1, <2>2, <3>1 DEF LookupFails, Verdicts
  <2>3. CASE AttemptEnds(t, c)
    <3>1. "up" \in saw[c]
      BY <2>3 DEF AttemptEnds, StageInv
    <3> QED BY <1>1, <2>3, <3>1 DEF AttemptEnds
  <2> QED BY <1>4, <2>1, <2>2, <2>3
<1>5. ASSUME NEW c \in Calls,
             ProbeRejected(c) \/ ConnectUnsupported(c) \/ ConnectFails(c) \/ BudgetSpent(c)
      PROVE  StageInv'
  <2>1. CASE ConnectFails(c)
    <3>1. "down" \in saw[c]
      BY <1>2, <2>1 DEF ConnectFails, InTcp
    <3> QED BY <1>1, <2>1, <3>1 DEF ConnectFails, Verdicts
  <2>2. CASE ~ConnectFails(c)
    <3>1. EndsWith(c, "none") /\ saw' = saw /\ up' = up
      BY <1>5, <2>2 DEF ProbeRejected, ConnectUnsupported, BudgetSpent
    <3> QED BY <1>1, <3>1 DEF Verdicts
  <2> QED BY <2>1, <2>2
<1>6. ASSUME NEW c \in Calls, TcpTimesOut(c) PROVE StageInv'
  <2>1. saw[c] \cap {"down", "full"} # {}
    <3>1. at[c] \in InTcp /\ tcp[c] # TcpTimeout
      BY <1>6, TimesLemma DEF TcpTimesOut
    <3> QED BY <3>1 DEF StageInv
  <2> QED BY <1>1, <1>6, <2>1 DEF TcpTimesOut, Verdicts
<1>7. ASSUME NEW c \in Calls, Read(c) PROVE StageInv'
  BY <1>0, <1>7 DEF Read, StageInv, InTcp, Network
<1>8. ASSUME NEW c \in Calls, ProbeName(c) \/ ProbeAddress(c) PROVE StageInv'
  <2>1. /\ up' = up /\ saw' = [saw EXCEPT ![c] = {Network}]
        /\ verdict' = [verdict EXCEPT ![c] = "none"]
        /\ tcp' = [tcp EXCEPT ![c] = TcpTimeout]
        /\ \E where \in InTcp : at' = [at EXCEPT ![c] = where]
    BY <1>8 DEF ProbeName, ProbeAddress, StartsStage, InTcp
  <2>2. \A d \in Calls : d # c => /\ saw'[d] = saw[d] /\ verdict'[d] = verdict[d]
                                  /\ tcp'[d] = tcp[d] /\ at'[d] = at[d]
    BY <1>0, <2>1
  <2>3. /\ saw'[c] = {Network} /\ verdict'[c] = "none" /\ tcp'[c] = TcpTimeout
        /\ at'[c] \in InTcp
    BY <1>0, <2>1
  <2>4. Network' = Network
    BY <2>1 DEF Network
  <2> QED BY <2>2, <2>3, <2>4 DEF StageInv, InTcp
<1>9. ASSUME NEW t \in Threads, NEW c \in Calls, LookupSucceeds(t, c) PROVE StageInv'
  <2>1. \A d \in Calls : at'[d] = IF d = c THEN "connecting" ELSE at[d]
    BY <1>0, <1>9 DEF LookupSucceeds
  <2>2. at[c] = "resolving" /\ UNCHANGED <<up, tcp, verdict, saw>>
    BY <1>9 DEF LookupSucceeds
  <2> QED BY <2>1, <2>2 DEF StageInv, InTcp, Network
<1>10. ASSUME NEW c \in Calls, Connect(c) PROVE StageInv'
  <2>1. \A d \in Calls : d # c => at'[d] = at[d] /\ tcp'[d] = tcp[d]
    BY <1>0, <1>10 DEF Connect, Attempt
  <2>2. /\ at[c] = "connecting" /\ up = TRUE /\ at'[c] = "attempting"
        /\ UNCHANGED <<up, verdict, saw>>
    BY <1>0, <1>10 DEF Connect, Attempt
  <2>3. "up" \in saw[c]
    BY <2>2 DEF StageInv, InTcp, Network
  <2> QED BY <2>1, <2>2, <2>3 DEF StageInv, InTcp, Network
<1>11. CASE NetworkChanges
  <2>1. \A c \in Calls : saw'[c] = IF at[c] \in InTcp THEN saw[c] \cup {Network'} ELSE saw[c]
    BY <1>11 DEF NetworkChanges
  <2>2. UNCHANGED <<at, tcp, verdict>>
    BY <1>11 DEF NetworkChanges
  <2>3. "down" \in {Network, Network'}
    BY <1>0, <1>11 DEF NetworkChanges, Network
  <2>4. ASSUME NEW c \in Calls, at[c] \in InTcp PROVE "down" \in saw'[c] /\ Network' \in saw'[c]
    <3>1. Network \in saw[c] /\ saw'[c] = saw[c] \cup {Network'}
      BY <2>1, <2>4 DEF StageInv
    <3> QED BY <2>3, <3>1
  <2>5. \A c \in Calls : saw[c] \subseteq saw'[c]
    BY <2>1
  <2> QED BY <2>2, <2>4, <2>5 DEF StageInv
<1>12. CASE Tick
  <2>1. UNCHANGED <<up, at, verdict>> /\ ~Due /\ Network' = Network
    BY <1>12 DEF Tick, Network
  <2>2. \A c \in Calls : saw'[c] = IF at[c] = "resolving" /\ c \in Queued
                                   THEN saw[c] \cup {"full"} ELSE saw[c]
    BY <1>12 DEF Tick
  <2>3. ASSUME NEW c \in Calls, at[c] \in InTcp PROVE saw'[c] \cap {"down", "full"} # {}
    <3>1. CASE up
      BY <2>1, <2>2, <2>3, <3>1, LookupsWaitInQueue
    <3>2. CASE ~up
      BY <1>2, <2>2, <2>3, <3>2
    <3> QED BY <3>1, <3>2
  <2>4. \A c \in Calls : saw[c] \subseteq saw'[c]
    BY <2>2
  <2> QED BY <2>1, <2>3, <2>4 DEF StageInv
<1>13. ASSUME NEW t \in Threads,
              \/ Pick(t) \/ EndsForNobody(t) \/ \E c \in Calls : ReadContinues(t, c)
       PROVE  StageInv'
  BY <1>3, <1>13 DEF Pick, EndsForNobody, ReadContinues
<1> QED BY <1>4, <1>5, <1>6, <1>7, <1>8, <1>9, <1>10, <1>11, <1>12, <1>13 DEF PoolNext

\* Whatever the size of the pool, the length of the reads, the deadlines and the
\* changes of the network: a stage is blamed for a cause of its own, and NETWORK for
\* a network that was down or a look-up that found the pool full.
THEOREM BlameTheorem == PoolSpec => []BlameHasCause
<1>1. PoolInit => StageInv
  BY DEF PoolInit, StageInv, InTcp
<1>2. PoolInv /\ StageInv /\ [PoolNext]_poolVars => StageInv'
  <2>1. CASE PoolNext
    BY <2>1, StageStep
  <2>2. CASE UNCHANGED poolVars
    BY <2>2 DEF poolVars, StageInv, Network
  <2> QED BY <2>1, <2>2
<1>3. StageInv => BlameHasCause
  BY DEF StageInv, BlameHasCause, Calls
<1> QED BY <1>1, <1>2, <1>3, PoolInvariant, PTL DEF PoolSpec
=============================================================================
