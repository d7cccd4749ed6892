----------------------------- MODULE ToolServer -----------------------------
(***************************************************************************)
(* Tool calls through the server: Bouncer.run_tool (concurrency.py), the   *)
(* budgets create_mcp gives each tool (server.py), tool_error_handler      *)
(* (errors.py) and, for the CLI tools, CliExecutor inside the call.        *)
(*                                                                         *)
(* run_tool is `async with tool_sem: await wait_for(body, budget)`.  When  *)
(* the budget is spent wait_for cancels the body: whatever the body awaits *)
(* raises CancelledError, which no handler of the code catches.            *)
(***************************************************************************)
EXTENDS CliExecutor

CONSTANTS
  CliCalls,    \* the calls to compute_offset_reset_plan and describe_log_dirs
  ToolLimit,   \* Settings.tool_concurrency
  Margin       \* what server.py adds to the timeout of a CLI tool: 5 s

ASSUME CliCallsAssumption  == CliCalls \subseteq Calls
ASSUME ToolLimitAssumption == ToolLimit \in Nat \ {0}
ASSUME MarginAssumption    == Margin \in Nat

VARIABLES
  tool,    \* the tool semaphore
  pc,      \* pc[c]: where call c is
  outer,   \* outer[c]: time left of its budget, once admitted
  answer   \* answer[c]: what the body came back with

toolVars == <<tool, pc, outer, answer>>
vars     == <<cliVars, toolVars>>

\* new, done: no call; waiting: for a tool permit; active: in its body but not
\* in CliExecutor.run; incli: in CliExecutor.run; cancelling: the budget is
\* spent, CancelledError is under way; returned: the body is over, run_tool
\* is not.
Pcs     == {"new", "waiting", "active", "incli", "cancelling", "returned", "done"}
Answers == {"none", "result", "envelope", "raised"}

Inside     == {c \in Calls : pc[c] \in {"active", "incli", "cancelling", "returned"}}
Waiting    == {c \in Calls : pc[c] = "waiting"}
OnDeadline == {c \in Calls : pc[c] \in {"active", "incli"}}

Budget(c) == IF c \in CliCalls THEN Timeout + Margin ELSE Timeout

Init ==
  /\ CliInit
  /\ tool   = NewSemaphore(ToolLimit)
  /\ pc     = [c \in Calls |-> "new"]
  /\ outer  = [c \in Calls |-> 0]
  /\ answer = [c \in Calls |-> "none"]

----------------------------------------------------------------------------
(* Admission.                                                              *)

\* A call of Calls is a slot that serves one client request after another;
\* it is not reused while a subprocess of its last request is alive.
Arrives(c) ==
  /\ pc[c] \in {"new", "done"}
  /\ MayRun(c)
  /\ stage'  = [stage EXCEPT ![c] = "idle"]
  /\ proc'   = [proc EXCEPT ![c] = "none"]
  /\ reply'  = [reply EXCEPT ![c] = "none"]
  /\ answer' = [answer EXCEPT ![c] = "none"]
  /\ UNCHANGED <<cli, timer>>

\* Mutant: nobody looks whether a permit is free.
ArriveUnasked(c) ==
  /\ Arrives(c)
  /\ tool'  = TakeNow(tool)
  /\ pc'    = [pc EXCEPT ![c] = "active"]
  /\ outer' = [outer EXCEPT ![c] = Budget(c)]

ArriveAdmitted(c) ==
  /\ Arrives(c)
  /\ ~Locked(tool)
  /\ tool'  = TakeNow(tool)
  /\ pc'    = [pc EXCEPT ![c] = "active"]
  /\ outer' = [outer EXCEPT ![c] = Budget(c)]

ArriveQueued(c) ==
  /\ Arrives(c)
  /\ Locked(tool)
  /\ tool' = Enqueue(tool, c)
  /\ pc'   = [pc EXCEPT ![c] = "waiting"]
  /\ UNCHANGED outer

Admitted(c) ==
  /\ c \in tool.woken
  /\ tool'  = Resume(tool, c)
  /\ pc'    = [pc EXCEPT ![c] = "active"]
  /\ outer' = [outer EXCEPT ![c] = Budget(c)]
  /\ UNCHANGED <<answer, cliVars>>

----------------------------------------------------------------------------
(* The body of a tool.                                                     *)

BodyEnds(c, with) ==
  /\ pc'     = [pc EXCEPT ![c] = "returned"]
  /\ outer'  = [outer EXCEPT ![c] = 0]
  /\ answer' = [answer EXCEPT ![c] = with]
  /\ UNCHANGED tool

\* Invalid parameters, an unknown cluster, an unsupported auth type: raised
\* before anything is awaited, and turned into an envelope.
BodyRejects(c) ==
  /\ pc[c] = "active"
  /\ BodyEnds(c, "envelope")
  /\ UNCHANGED cliVars

\* An AdminClient tool hears from the brokers, if it ever does.
AdminReturns(c) ==
  /\ c \notin CliCalls
  /\ pc[c] = "active"
  /\ \E with \in {"result", "envelope"} : BodyEnds(c, with)
  /\ UNCHANGED cliVars

\* Mutant: the budget starts anew with the run.
BodyRunsCliAnew(c) ==
  /\ c \in CliCalls
  /\ pc[c] = "active"
  /\ Run(c)
  /\ pc'    = [pc EXCEPT ![c] = "incli"]
  /\ outer' = [outer EXCEPT ![c] = Budget(c)]
  /\ UNCHANGED <<tool, answer>>

BodyRunsCli(c) ==
  /\ c \in CliCalls
  /\ pc[c] = "active"
  /\ Run(c)
  /\ pc' = [pc EXCEPT ![c] = "incli"]
  /\ UNCHANGED <<tool, outer, answer>>

CliContinues(c) ==
  /\ pc[c] = "incli"
  /\ Enter(c) \/ Spawn(c) \/ RunTimesOut(c) \/ GraceExpires(c)
  /\ UNCHANGED toolVars

\* run() returned or raised: the rest of the body awaits nothing.  Only a run
\* that succeeded can give a result, and its output may still not parse.
CliReturns(c) ==
  /\ pc[c] = "incli"
  /\ SpawnFails(c) \/ Collect(c) \/ TimeoutFindsExited(c) \/ CollectTerminated(c)
  /\ \E with \in {"result", "envelope"} :
       /\ with = "result" => reply'[c] = "ok"
       /\ BodyEnds(c, with)

----------------------------------------------------------------------------
(* The budget is spent.                                                    *)

\* Mutants: a cancelled waiter stays in the queue of the cli semaphore; and an
\* AdminClient body has no deadline.
OuterTimeoutStaysQueued(c) ==
  /\ c \in OnDeadline
  /\ outer[c] = 0
  /\ pc' = [pc EXCEPT ![c] = "cancelling"]
  /\ UNCHANGED <<cliVars, tool, outer, answer>>

OuterTimeoutCliOnly(c) ==
  /\ c \in OnDeadline \cap CliCalls
  /\ outer[c] = 0
  /\ pc'  = [pc EXCEPT ![c] = "cancelling"]
  /\ cli' = IF c \in Pending(cli) THEN CancelPending(cli, c) ELSE cli
  /\ UNCHANGED <<stage, proc, timer, reply, tool, outer, answer>>

\* wait_for cancels the body.  A body that waits for a cli permit leaves the
\* queue at once; one already granted the permit still has it.
OuterTimeout(c) ==
  /\ c \in OnDeadline
  /\ outer[c] = 0
  /\ pc'  = [pc EXCEPT ![c] = "cancelling"]
  /\ cli' = IF c \in Pending(cli) THEN CancelPending(cli, c) ELSE cli
  /\ UNCHANGED <<stage, proc, timer, reply, tool, outer, answer>>

\* The inner wait_for keeps the result it already has and drops the
\* CancelledError: the body ends as if it had been in time.
CancelTooLate(c) ==
  /\ pc[c] = "cancelling"
  /\ \/ Collect(c)
     \/ stage[c] = "terminating" /\ CollectTerminated(c)
  /\ \E with \in {"result", "envelope"} :
       /\ with = "result" => reply'[c] = "ok"
       /\ BodyEnds(c, with)

\* Mutant: only the normal ways out of the section give the permit back.
LeaveCliSectionKeepsPermit(c) ==
  /\ cli' = IF c \in cli.woken THEN CancelWoken(cli, c) ELSE cli
  /\ stage' = [stage EXCEPT ![c] = IF @ = "idle" THEN "idle" ELSE "ended"]
  /\ timer' = [timer EXCEPT ![c] = 0]
  /\ reply' = [reply EXCEPT ![c] = IF stage[c] = "idle" THEN @ ELSE "cancelled"]
  /\ UNCHANGED proc

\* Mutant: a permit granted to a call that goes away is put back without a
\* wake-up.
LeaveCliSectionSilently(c) ==
  /\ cli' = CASE c \in cli.woken -> [cli EXCEPT !.woken = @ \ {c}, !.value = @ + 1]
              [] c \in Holding   -> Release(cli)
              [] OTHER           -> cli
  /\ stage' = [stage EXCEPT ![c] = IF @ = "idle" THEN "idle" ELSE "ended"]
  /\ timer' = [timer EXCEPT ![c] = 0]
  /\ reply' = [reply EXCEPT ![c] = IF stage[c] = "idle" THEN @ ELSE "cancelled"]
  /\ UNCHANGED proc

\* CancelledError leaves run() through `async with self._sem` or its acquire.
\* A subprocess being started is killed and reaped; one that is running is
\* left as it is.
LeaveCliSection(c) ==
  /\ cli' = CASE c \in cli.woken -> CancelWoken(cli, c)
              [] c \in Holding   -> Release(cli)
              [] OTHER           -> cli
  /\ stage' = [stage EXCEPT ![c] = IF @ = "idle" THEN "idle" ELSE "ended"]
  /\ timer' = [timer EXCEPT ![c] = 0]
  /\ reply' = [reply EXCEPT ![c] = IF stage[c] = "idle" THEN @ ELSE "cancelled"]
  /\ UNCHANGED proc

\* Mutant: the tool permit is given back on cancellation and again at the end.
UnwindFreesTool(c) ==
  /\ pc[c] = "cancelling"
  /\ LeaveCliSection(c)
  /\ tool'   = Release(tool)
  /\ pc'     = [pc EXCEPT ![c] = "returned"]
  /\ answer' = [answer EXCEPT ![c] = "raised"]
  /\ UNCHANGED outer

\* tool_error_handler does not catch CancelledError and run_tool turns it
\* into TimeoutError outside of it: the call raises.
Unwind(c) ==
  /\ pc[c] = "cancelling"
  /\ LeaveCliSection(c)
  /\ BodyEnds(c, "raised")

\* Mutant: the tool permit is not given back.
FinishKeepsPermit(c) ==
  /\ pc[c] = "returned"
  /\ pc' = [pc EXCEPT ![c] = "done"]
  /\ UNCHANGED <<tool, outer, answer, cliVars>>

\* `async with self._tool_sem` is left and the client has its answer.
Finish(c) ==
  /\ pc[c] = "returned"
  /\ tool' = Release(tool)
  /\ pc'   = [pc EXCEPT ![c] = "done"]
  /\ UNCHANGED <<outer, answer, cliVars>>

----------------------------------------------------------------------------
ServerTick ==
  /\ OnDeadline # {}
  /\ \A c \in OnDeadline : outer[c] > 0
  /\ outer' = [c \in Calls |-> IF c \in OnDeadline THEN outer[c] - 1 ELSE outer[c]]
  /\ Elapse
  /\ UNCHANGED <<cli, stage, proc, reply, tool, pc, answer>>

OsStep(c) == (ProcessExits(c) \/ KillTakesEffect(c)) /\ UNCHANGED toolVars

\* What the event loop does for a call, given that its body gets no answer
\* from outside.
Advance(c) ==
  \/ Admitted(c) \/ BodyRunsCli(c) \/ CliContinues(c) \/ CliReturns(c)
  \/ OuterTimeout(c) \/ CancelTooLate(c) \/ Unwind(c) \/ Finish(c)

Next ==
  \/ \E c \in Calls : \/ ArriveAdmitted(c) \/ ArriveQueued(c)
                      \/ BodyRejects(c) \/ AdminReturns(c)
                      \/ Advance(c) \/ OsStep(c)
  \/ ServerTick

Safety == Init /\ [][Next]_vars

\* The event loop runs what is ready and the clock advances.  Clients need not
\* call, brokers need not answer and subprocesses need not exit.
Fairness == WF_vars(ServerTick) /\ \A c \in Calls : WF_vars(Advance(c))

Spec == Safety /\ Fairness

----------------------------------------------------------------------------
(* Properties.                                                             *)

TypeOK ==
  /\ CliTypeOK
  /\ tool   \in Semaphores(Calls)
  /\ pc     \in [Calls -> Pcs]
  /\ outer  \in [Calls -> 0..(Timeout + Margin)]
  /\ answer \in [Calls -> Answers]

\* Deadlines, cancellations in every stage and failures never lose a permit
\* of either semaphore or give one back twice.
PermitsConserved ==
  /\ PermitsOut(tool) + Cardinality(Inside) = ToolLimit
  /\ CliPermitsConserved

\* A cancelled waiter passes on the wake-up it had been given, in both tiers.
WakeupsKept == NoLostWakeup(tool) /\ CliNoLostWakeup

\* A call that is over keeps nothing: no permit of either tier, no place in
\* either queue; and one that is not admitted has nothing of the cli tier.
NothingKept ==
  \A c \in Calls :
    /\ pc[c] \in {"new", "waiting", "returned", "done"} =>
         c \notin Waiters(cli) \cup Holding
    /\ pc[c] \in {"new", "done"} => c \notin Waiters(tool)

\* Whoever gets an answer, be it a result or an envelope, has no subprocess
\* left; a TIMEOUT envelope in particular means that it was reaped.
AnsweredMeansReaped ==
  \A c \in Calls :
    pc[c] \in {"returned", "done"} /\ answer[c] \in {"result", "envelope"} =>
      c \notin Alive

\* What of a call can go on without a client, a broker or a subprocess's exit, and
\* when the clock can.
CanAdvance(c) ==
  \/ c \in tool.woken
  \/ c \in OnDeadline /\ outer[c] = 0
  \/ pc[c] = "incli" /\ (c \in cli.woken \/ stage[c] = "spawning")
  \/ pc[c] = "incli" /\ stage[c] \in Timed /\ timer[c] = 0
  \/ pc[c] \in {"cancelling", "returned"}

CanTick ==
  /\ OnDeadline # {} /\ \A c \in OnDeadline : outer[c] > 0
  /\ \A c \in TimedRuns : timer[c] > 0

\* Calls that wait for the cli tier hold the tool tier: never do all that are under
\* way wait for each other, or for somebody outside.
NeverStuck ==
  (\E c \in Calls : pc[c] \notin {"new", "done"}) => CanTick \/ \E c \in Calls : CanAdvance(c)

\* A bound on the steps a call, its budget and its subprocess have yet to take.
CallLeft(c) ==
  CASE pc[c] = "waiting" -> 12 + Timeout + Margin
    [] pc[c] = "active"  -> 11 + outer[c]
    [] pc[c] = "incli"   -> 3 + RunLeft(c) + outer[c]
    [] pc[c] = "cancelling" -> 2
    [] pc[c] = "returned"   -> 1
    [] OTHER                -> 0

StepsLeft(c) == CallLeft(c) + ProcLeft(c)

\* A step brings a new call, and no other call further from its end, or somebody
\* nearer to its end.
StepCounts ==
  \E c \in Calls :
    \/ /\ pc[c] \in {"new", "done"} /\ pc'[c] \in {"waiting", "active"}
       /\ \A d \in Calls \ {c} : StepsLeft(d)' = StepsLeft(d)
    \/ /\ StepsLeft(c)' \in 0..(StepsLeft(c) - 1)
       /\ \A d \in Calls : StepsLeft(d)' <= StepsLeft(d)

\* Whatever is done counts, and leaves something that can be done until every call is
\* over: no retry, no deadline that starts anew, no call that sets back another.
CallsProgress == [][StepCounts /\ NeverStuck']_vars

\* README.md:43: "They return JSON envelopes; on error they return {...}
\* instead of raising."
AnswersAreEnvelopes == \A c \in Calls : answer[c] # "raised"

\* A call that waits for a permit is answered one way or the other, though
\* brokers stay silent and subprocesses ignore SIGTERM.
EveryCallAnswered == \A c \in Calls : pc[c] = "waiting" ~> pc[c] = "done"

\* The server implements the two-tier bound.
phaseBar ==
  [c \in Calls |-> CASE pc[c] \in {"new", "done"} -> "out"
                     [] pc[c] = "waiting"         -> "waiting"
                     [] c \in Holding             -> "cli"
                     [] OTHER                     -> "admitted"]

Promise == INSTANCE BouncerSpec WITH phase <- phaseBar

PromiseSafety == Promise!Safety
PromiseSpec   == Promise!Spec
=============================================================================
