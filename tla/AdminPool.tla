----------------------------- MODULE AdminPool -----------------------------
(***************************************************************************)
(* The thread pool behind the AdminClient tools, and the connectivity      *)
(* probe that shares it.  A tool awaits run_in_executor(None, f): f joins  *)
(* the queue of the loop's default ThreadPoolExecutor.  A cancelled await  *)
(* takes f out of the queue, but a thread that runs f already keeps at it  *)
(* for nobody.  The probe needs a thread too, to look up the host of its   *)
(* TCP stage, and the stage's deadline runs on while the look-up is queued.*)
(*                                                                         *)
(* A timer is the time left to a deadline; time stands still while         *)
(* something is due.                                                       *)
(***************************************************************************)
EXTENDS Deque, FiniteSets

CONSTANTS
  Readers,     \* callers of the AdminClient tools
  Probes,      \* callers of test_broker_connectivity
  Threads,     \* the worker threads: min(32, cpus + 4) in CPython 3.11
  ToolLimit,   \* Settings.tool_concurrency
  Timeout,     \* Settings.default_timeout_seconds
  Margin,      \* what create_mcp adds to the budget of a probe
  TcpTimeout,  \* min(timeout, 5.0)
  ReadTime     \* the longest a thread waits for the brokers in one read

ASSUME CallersAssumption ==
  IsFiniteSet(Readers) /\ IsFiniteSet(Probes) /\ Readers \cap Probes = {}
ASSUME ThreadsAssumption == IsFiniteSet(Threads)
ASSUME LimitAssumption   == ToolLimit \in Nat \ {0}
ASSUME DeadlinesAssumption ==
  /\ Timeout \in Nat \ {0} /\ TcpTimeout \in 1..Timeout
  /\ Margin \in Nat /\ ReadTime \in Nat \ {0}

VARIABLES
  up,       \* the endpoint's name resolves and its port accepts
  at,       \* at[c]: what the call of c awaits
  budget,   \* budget[c]: time left of the budget run_tool gave it
  tcp,      \* tcp[c]: time left of the TCP stage
  queue,    \* the callers whose job waits for a thread, oldest first
  thread,   \* thread[t]: its job, for whom (if anybody still), and its time
  verdict,  \* verdict[c]: the failure_stage of the last answer to c
  \* History, of which the code knows nothing.
  saw       \* saw[c]: the network in the TCP stage of c, up or down, and
            \* whether time passed while its look-up found no free thread

poolVars == <<up, at, budget, tcp, queue, thread, verdict, saw>>

Calls    == Readers \cup Probes
InTcp    == {"resolving", "connecting"}
Awaiting == {"resolving", "reading", "attempting"}  \* a job of the pool
Verdicts == {"none", "OK", "NETWORK", "TLS", "SASL", "PROTOCOL"}

Network  == IF up THEN "up" ELSE "down"

Idle == [job |-> "none", for |-> {}, left |-> 0]

PoolInit ==
  /\ up \in BOOLEAN
  /\ at      = [c \in Calls |-> "out"]
  /\ budget  = [c \in Calls |-> 0]
  /\ tcp     = [c \in Calls |-> 0]
  /\ queue   = <<>>
  /\ thread  = [t \in Threads |-> Idle]
  /\ verdict = [c \in Calls |-> "none"]
  /\ saw     = [c \in Calls |-> {}]

----------------------------------------------------------------------------
(* The pool.                                                               *)

Submit(c) == queue' = Append(queue, c)

\* list_topics of a probe waits as long as its timeout says.
JobTime(c) ==
  CASE at[c] = "resolving"  -> 0
    [] at[c] = "reading"    -> ReadTime
    [] at[c] = "attempting" -> Timeout

Queued  == Elements(queue)
Working == UNION {thread[t].for : t \in Threads}

\* A free thread takes the oldest job.
Pick(t) ==
  /\ thread[t] = Idle
  /\ queue # <<>>
  /\ thread' = [thread EXCEPT ![t] =
       [job  |-> IF at[Head(queue)] = "resolving" THEN "lookup" ELSE "read",
        for  |-> {Head(queue)},
        left |-> JobTime(Head(queue))]]
  /\ queue' = Tail(queue)
  /\ UNCHANGED <<up, at, budget, tcp, verdict, saw>>

\* A cancelled await withdraws the job, or gives up a thread that runs it.
Cancel(c) ==
  /\ queue'  = IF c \in Queued THEN Without(queue, c) ELSE queue
  /\ thread' = [t \in Threads |-> [thread[t] EXCEPT !.for = @ \ {c}]]

\* The job of a thread ends when its call is long gone.
EndsForNobody(t) ==
  /\ thread[t].job # "none"
  /\ thread[t].for = {}
  /\ thread' = [thread EXCEPT ![t] = Idle]
  /\ UNCHANGED <<up, at, budget, tcp, queue, verdict, saw>>

----------------------------------------------------------------------------
(* Calls.                                                                  *)

Admitted == {c \in Calls : at[c] # "out"}
Enters(c) == at[c] = "out" /\ Cardinality(Admitted) < ToolLimit

\* The answer of c, or the exception in place of it: the call is over.
EndsWith(c, failure_stage) ==
  /\ at'      = [at EXCEPT ![c] = "out"]
  /\ budget'  = [budget EXCEPT ![c] = 0]
  /\ tcp'     = [tcp EXCEPT ![c] = 0]
  /\ verdict' = [verdict EXCEPT ![c] = failure_stage]

\* An AdminClient tool goes to its first read.
Read(c) ==
  /\ c \in Readers /\ Enters(c)
  /\ at'     = [at EXCEPT ![c] = "reading"]
  /\ budget' = [budget EXCEPT ![c] = Timeout]
  /\ Submit(c)
  /\ UNCHANGED <<up, tcp, thread, verdict, saw>>

\* A read ends, with a result or an exception: an answer ...
ReadAnswers(t, c) ==
  /\ thread[t].for = {c} /\ at[c] = "reading"
  /\ thread' = [thread EXCEPT ![t] = Idle]
  /\ EndsWith(c, "none")
  /\ UNCHANGED <<up, queue, saw>>

\* ... or the tool's next read: a request, and then each of its futures.
ReadContinues(t, c) ==
  /\ thread[t].for = {c} /\ at[c] = "reading"
  /\ thread' = [thread EXCEPT ![t] = Idle]
  /\ Submit(c)
  /\ UNCHANGED <<up, at, budget, tcp, verdict, saw>>

StartsStage(c, where) ==
  /\ c \in Probes /\ Enters(c)
  /\ at'      = [at EXCEPT ![c] = where]
  /\ budget'  = [budget EXCEPT ![c] = Timeout + Margin]
  /\ tcp'     = [tcp EXCEPT ![c] = TcpTimeout]
  /\ verdict' = [verdict EXCEPT ![c] = "none"]
  /\ saw'     = [saw EXCEPT ![c] = {Network}]

\* The probe of an endpoint with a name, and of one with an address, for which
\* getaddrinfo takes no thread.
ProbeName(c)    == StartsStage(c, "resolving") /\ Submit(c) /\ UNCHANGED <<up, thread>>
ProbeAddress(c) == StartsStage(c, "connecting") /\ UNCHANGED <<up, queue, thread>>

\* An unknown cluster or an ill-formed endpoint: an envelope at once.
ProbeRejected(c) ==
  /\ c \in Probes /\ Enters(c)
  /\ EndsWith(c, "none")
  /\ UNCHANGED <<up, queue, thread, saw>>

LookupSucceeds(t, c) ==
  /\ thread[t].for = {c} /\ at[c] = "resolving"
  /\ thread' = [thread EXCEPT ![t] = Idle]
  /\ at' = [at EXCEPT ![c] = "connecting"]
  /\ UNCHANGED <<up, budget, tcp, queue, verdict, saw>>

\* socket.gaierror
LookupFails(t, c) ==
  /\ thread[t].for = {c} /\ at[c] = "resolving"
  /\ ~up
  /\ thread' = [thread EXCEPT ![t] = Idle]
  /\ EndsWith(c, "NETWORK")
  /\ UNCHANGED <<up, queue, saw>>

\* The connection is made and closed, and list_topics goes to the pool ...
Attempt(c) ==
  /\ at'  = [at EXCEPT ![c] = "attempting"]
  /\ tcp' = [tcp EXCEPT ![c] = 0]
  /\ Submit(c)
  /\ UNCHANGED <<up, budget, thread, verdict, saw>>

Connect(c) == at[c] = "connecting" /\ up /\ Attempt(c)

\* ... unless the cluster's auth_type is not wired: an envelope.
ConnectUnsupported(c) ==
  /\ at[c] = "connecting" /\ up
  /\ EndsWith(c, "none")
  /\ UNCHANGED <<up, queue, thread, saw>>

\* Mutant: tcp_error is not looked at.
ConnectFailsUnnoticed(c) == at[c] = "connecting" /\ ~up /\ Attempt(c)

\* Any other OSError.
ConnectFails(c) ==
  /\ at[c] = "connecting" /\ ~up
  /\ EndsWith(c, "NETWORK")
  /\ UNCHANGED <<up, queue, thread, saw>>

\* The deadline of the TCP stage, wherever in it the probe is.
TcpTimesOut(c) ==
  /\ at[c] \in InTcp /\ tcp[c] = 0
  /\ Cancel(c)
  /\ EndsWith(c, "NETWORK")
  /\ UNCHANGED <<up, saw>>

\* _attempt ends: success, or what _classify_protocol_failure makes of the error.
AttemptEnds(t, c) ==
  /\ thread[t].for = {c} /\ at[c] = "attempting"
  /\ thread' = [thread EXCEPT ![t] = Idle]
  /\ \E failure_stage \in Verdicts \ {"none", "NETWORK"} : EndsWith(c, failure_stage)
  /\ UNCHANGED <<up, queue, saw>>

\* Mutant: the await of the job is shielded from the cancellation.
BudgetSpentShielded(c) ==
  /\ at[c] # "out" /\ budget[c] = 0
  /\ EndsWith(c, "none")
  /\ UNCHANGED <<up, queue, thread, saw>>

\* The deadline of run_tool cancels the body; the caller gets TimeoutError.
BudgetSpent(c) ==
  /\ at[c] # "out" /\ budget[c] = 0
  /\ Cancel(c)
  /\ EndsWith(c, "none")
  /\ UNCHANGED <<up, saw>>

----------------------------------------------------------------------------
(* Network and time.                                                       *)

NetworkChanges ==
  /\ up'  = ~up
  /\ saw' = [c \in Calls |-> IF at[c] \in InTcp THEN saw[c] \cup {Network'} ELSE saw[c]]
  /\ UNCHANGED <<at, budget, tcp, queue, thread, verdict>>

\* While the network is up, look-ups and connections take no time; while it is
\* down they fail or hang.
Due ==
  \/ queue # <<>> /\ \E t \in Threads : thread[t] = Idle
  \/ \E t \in Threads : \/ thread[t].job = "read" /\ thread[t].left = 0
                        \/ thread[t].job = "lookup" /\ up
  \/ \E c \in Calls : \/ at[c] = "connecting" /\ up
                      \/ at[c] \in InTcp /\ tcp[c] = 0
                      \/ at[c] # "out" /\ budget[c] = 0

Minus1(n) == IF n > 0 THEN n - 1 ELSE 0

Tick ==
  /\ ~Due
  /\ Admitted # {} \/ \E t \in Threads : thread[t].job = "read"
  /\ budget' = [c \in Calls |-> Minus1(budget[c])]
  /\ tcp'    = [c \in Calls |-> Minus1(tcp[c])]
  /\ thread' = [t \in Threads |-> [thread[t] EXCEPT !.left = Minus1(@)]]
  /\ saw' = [c \in Calls |-> IF at[c] = "resolving" /\ c \in Queued
                              THEN saw[c] \cup {"full"} ELSE saw[c]]
  /\ UNCHANGED <<up, at, queue, verdict>>

PoolNext ==
  \/ NetworkChanges \/ Tick
  \/ \E t \in Threads : Pick(t) \/ EndsForNobody(t)
  \/ \E t \in Threads, c \in Calls :
       \/ ReadAnswers(t, c) \/ ReadContinues(t, c)
       \/ LookupSucceeds(t, c) \/ LookupFails(t, c) \/ AttemptEnds(t, c)
  \/ \E c \in Calls :
       \/ Read(c) \/ ProbeName(c) \/ ProbeAddress(c) \/ ProbeRejected(c)
       \/ Connect(c) \/ ConnectUnsupported(c) \/ ConnectFails(c)
       \/ TcpTimesOut(c) \/ BudgetSpent(c)

PoolSpec == PoolInit /\ [][PoolNext]_poolVars

----------------------------------------------------------------------------
(* Properties.                                                             *)

Jobs ==
  [job : {"none", "lookup", "read"}, for : {{}} \cup {{c} : c \in Calls},
   left : 0..(Timeout + ReadTime)]

PoolTypeOK ==
  /\ up \in BOOLEAN
  /\ at \in [Calls -> {"out", "resolving", "connecting", "reading", "attempting"}]
  /\ budget \in [Calls -> 0..(Timeout + Margin)]
  /\ tcp \in [Calls -> 0..TcpTimeout]
  /\ queue \in Seq(Calls)
  /\ thread \in [Threads -> Jobs]
  /\ verdict \in [Calls -> Verdicts]
  /\ saw \in [Calls -> SUBSET {"up", "down", "full"}]

\* Every await of run_in_executor has just one job behind it, queued or in a
\* thread, whatever was cancelled before: no call waits for a job that is gone
\* and no thread is spent on a job whose call was over when it started.
AwaitedJobsExist ==
  /\ Distinct(queue)
  /\ \A t, u \in Threads : thread[t].for \cap thread[u].for # {} => t = u
  /\ Queued \cap Working = {}
  /\ Queued \cup Working = {c \in Calls : at[c] \in Awaiting}

\* The stage the probe blames has a cause in its own TCP stage, whatever the pool, the
\* network and the deadlines did: NETWORK, that the network was down in it or that its
\* look-up waited behind a full pool; anything later, or nothing, that the endpoint
\* was reachable in it.
BlameHasCause ==
  \A c \in Probes :
    /\ verdict[c] = "NETWORK" => saw[c] \cap {"down", "full"} # {}
    /\ verdict[c] \notin {"none", "NETWORK"} => "up" \in saw[c]

\* README.md:155: the probe classifies the failure stage: NETWORK is blamed only if
\* the network failed in the course of the TCP stage.
VerdictsAreTrue ==
  \A c \in Probes : verdict[c] = "NETWORK" => "down" \in saw[c]
=============================================================================
