---------------------------- MODULE CliExecutor ----------------------------
(***************************************************************************)
(* CliExecutor.run and _terminate (cli_executor.py): kafka-*.sh commands   *)
(* run as subprocesses under the cli semaphore, each with a deadline, and  *)
(* SIGTERM, a grace period and SIGKILL for the one that misses it.         *)
(*                                                                         *)
(* Here nobody cancels a run: its callers await it to the end, as          *)
(* tests/unit/test_cli_executor.py does.  ToolServer puts it under the     *)
(* outer deadline of Bouncer.run_tool.                                     *)
(*                                                                         *)
(* A timer is the time left to the deadline of the wait_for a run is in.   *)
(* Time stands still while a deadline that has come is not acted on: the   *)
(* event loop is taken to be prompt, and steps due at one time may run in  *)
(* either order.                                                           *)
(***************************************************************************)
EXTENDS AsyncSemaphore

CONSTANTS
  Calls,      \* the callers of run(): each has at most one run at a time
  CliLimit,   \* Settings.cli_concurrency
  Timeout,    \* the `timeout` argument of run()
  Grace       \* GRACE_PERIOD_SECONDS

ASSUME CallsAssumption    == IsFiniteSet(Calls)
ASSUME CliLimitAssumption == CliLimit \in Nat \ {0}
ASSUME TimesAssumption    == Timeout \in Nat \ {0} /\ Grace \in Nat \ {0}

VARIABLES
  cli,     \* the cli semaphore
  stage,   \* stage[c]: where the run of c is
  proc,    \* proc[c]: the subprocess of c, as the operating system sees it
  timer,   \* timer[c]: time left to the deadline of the wait_for c is in
  reply    \* reply[c]: how the last run of c ended

cliVars == <<cli, stage, proc, timer, reply>>

Stages  == {"idle", "queued", "spawning", "running", "terminating", "killing", "ended"}
Procs   == {"none", "live", "killed", "exited"}
Replies == {"none", "ok", "error", "TIMEOUT", "cancelled"}

\* Stages inside `async with self._sem`, and stages inside a wait_for.
InSection == {"spawning", "running", "terminating", "killing"}
Timed     == {"running", "terminating"}

Holding == {c \in Calls : stage[c] \in InSection}
Alive   == {c \in Calls : proc[c] \in {"live", "killed"}}
Queued  == {c \in Calls : stage[c] = "queued"}

CliInit ==
  /\ cli   = NewSemaphore(CliLimit)
  /\ stage = [c \in Calls |-> "idle"]
  /\ proc  = [c \in Calls |-> "none"]
  /\ timer = [c \in Calls |-> 0]
  /\ reply = [c \in Calls |-> "none"]

----------------------------------------------------------------------------
(* run() up to the subprocess.                                             *)

\* A caller makes its next run only when no subprocess of an earlier one is
\* left: a bound of the model on the subprocesses per caller.
MayRun(c) == stage[c] \in {"idle", "ended"} /\ c \notin Alive

\* Mutants: nobody looks whether a permit is free, and the free permit is not
\* taken.
RunUnasked(c) ==
  /\ MayRun(c)
  /\ cli'   = TakeNow(cli)
  /\ stage' = [stage EXCEPT ![c] = "spawning"]
  /\ proc'  = [proc EXCEPT ![c] = "none"]
  /\ reply' = [reply EXCEPT ![c] = "none"]
  /\ UNCHANGED timer

RunUncounted(c) ==
  /\ MayRun(c)
  /\ ~Locked(cli)
  /\ stage' = [stage EXCEPT ![c] = "spawning"]
  /\ proc'  = [proc EXCEPT ![c] = "none"]
  /\ reply' = [reply EXCEPT ![c] = "none"]
  /\ UNCHANGED <<cli, timer>>

RunAtOnce(c) ==
  /\ MayRun(c)
  /\ ~Locked(cli)
  /\ cli'   = TakeNow(cli)
  /\ stage' = [stage EXCEPT ![c] = "spawning"]
  /\ proc'  = [proc EXCEPT ![c] = "none"]
  /\ reply' = [reply EXCEPT ![c] = "none"]
  /\ UNCHANGED timer

RunQueues(c) ==
  /\ MayRun(c)
  /\ Locked(cli)
  /\ cli'   = Enqueue(cli, c)
  /\ stage' = [stage EXCEPT ![c] = "queued"]
  /\ proc'  = [proc EXCEPT ![c] = "none"]
  /\ reply' = [reply EXCEPT ![c] = "none"]
  /\ UNCHANGED timer

Enter(c) ==
  /\ c \in cli.woken
  /\ cli'   = Resume(cli, c)
  /\ stage' = [stage EXCEPT ![c] = "spawning"]
  /\ UNCHANGED <<proc, timer, reply>>

Spawn(c) ==
  /\ stage[c] = "spawning"
  /\ stage' = [stage EXCEPT ![c] = "running"]
  /\ proc'  = [proc EXCEPT ![c] = "live"]
  /\ timer' = [timer EXCEPT ![c] = Timeout]
  /\ UNCHANGED <<cli, reply>>

\* Mutant: the permit is put back without a wake-up.
EndRunSilently(c, answer) ==
  /\ cli'   = [cli EXCEPT !.value = @ + 1]
  /\ stage' = [stage EXCEPT ![c] = "ended"]
  /\ timer' = [timer EXCEPT ![c] = 0]
  /\ reply' = [reply EXCEPT ![c] = answer]

\* Leaving `async with self._sem` with an answer.
EndRun(c, answer) ==
  /\ cli'   = Release(cli)
  /\ stage' = [stage EXCEPT ![c] = "ended"]
  /\ timer' = [timer EXCEPT ![c] = 0]
  /\ reply' = [reply EXCEPT ![c] = answer]

\* FileNotFoundError, PermissionError: the binary cannot be started.
SpawnFails(c) ==
  /\ stage[c] = "spawning"
  /\ EndRun(c, "error")
  /\ UNCHANGED proc

----------------------------------------------------------------------------
(* run() and _terminate() with a subprocess.                               *)

\* communicate() returned in time; a non-zero exit is classified and raised.
Collect(c) ==
  /\ stage[c] = "running"
  /\ proc[c] = "exited"
  /\ \E answer \in {"ok", "error"} : EndRun(c, answer)
  /\ UNCHANGED proc

\* The deadline came: _terminate() sends SIGTERM, which the subprocess may
\* ignore, and waits for it once more.
RunTimesOut(c) ==
  /\ stage[c] = "running"
  /\ timer[c] = 0
  /\ stage' = [stage EXCEPT ![c] = "terminating"]
  /\ timer' = [timer EXCEPT ![c] = Grace]
  /\ UNCHANGED <<cli, proc, reply>>

\* ... or there is no process left to signal (ProcessLookupError).
TimeoutFindsExited(c) ==
  /\ stage[c] = "running"
  /\ timer[c] = 0
  /\ proc[c] = "exited"
  /\ EndRun(c, "TIMEOUT")
  /\ UNCHANGED proc

\* Mutant: the grace period ends without SIGKILL.
GraceExpiresNoKill(c) ==
  /\ stage[c] = "terminating"
  /\ timer[c] = 0
  /\ stage' = [stage EXCEPT ![c] = "killing"]
  /\ UNCHANGED <<cli, proc, timer, reply>>

\* The grace period is over: SIGKILL, then communicate() without a deadline.
GraceExpires(c) ==
  /\ stage[c] = "terminating"
  /\ timer[c] = 0
  /\ stage' = [stage EXCEPT ![c] = "killing"]
  /\ proc'  = [proc EXCEPT ![c] = IF @ = "live" THEN "killed" ELSE @]
  /\ UNCHANGED <<cli, timer, reply>>

\* Mutant: having signalled, _terminate() does not wait for the exit.
CollectUnwaited(c) ==
  /\ stage[c] \in {"terminating", "killing"}
  /\ EndRun(c, "TIMEOUT")
  /\ UNCHANGED proc

\* The subprocess has exited after the signal: the run is a TIMEOUT error,
\* whatever the exit status.
CollectTerminated(c) ==
  /\ stage[c] \in {"terminating", "killing"}
  /\ proc[c] = "exited"
  /\ EndRun(c, "TIMEOUT")
  /\ UNCHANGED proc

----------------------------------------------------------------------------
(* The operating system and the clock.                                     *)

\* A subprocess exits when it likes, if ever ...
ProcessExits(c) ==
  /\ proc[c] = "live"
  /\ proc' = [proc EXCEPT ![c] = "exited"]
  /\ UNCHANGED <<cli, stage, timer, reply>>

\* ... unless it got SIGKILL.
KillTakesEffect(c) ==
  /\ proc[c] = "killed"
  /\ proc' = [proc EXCEPT ![c] = "exited"]
  /\ UNCHANGED <<cli, stage, timer, reply>>

TimedRuns == {c \in Calls : stage[c] \in Timed}

\* One unit of time passes for every run that waits with a deadline.
Elapse ==
  /\ \A c \in TimedRuns : timer[c] > 0
  /\ timer' = [c \in Calls |-> IF c \in TimedRuns THEN timer[c] - 1 ELSE timer[c]]

Tick ==
  /\ TimedRuns # {}
  /\ Elapse
  /\ UNCHANGED <<cli, stage, proc, reply>>

----------------------------------------------------------------------------
\* A caller starts a run: nothing obliges it to.
Run(c) == RunAtOnce(c) \/ RunQueues(c)

\* What the event loop does for a run.
Proceed(c) ==
  \/ Enter(c) \/ Spawn(c) \/ SpawnFails(c) \/ Collect(c) \/ RunTimesOut(c)
  \/ TimeoutFindsExited(c) \/ GraceExpires(c) \/ CollectTerminated(c)

CliNext ==
  \/ \E c \in Calls : Run(c) \/ Proceed(c) \/ ProcessExits(c) \/ KillTakesEffect(c)
  \/ Tick

CliSafety == CliInit /\ [][CliNext]_cliVars

\* The event loop runs what is ready, the clock advances, and SIGKILL works.
\* Nothing makes a subprocess exit by itself, SIGTERM included.
CliSpec ==
  /\ CliSafety
  /\ WF_cliVars(Tick)
  /\ \A c \in Calls : WF_cliVars(Proceed(c)) /\ WF_cliVars(KillTakesEffect(c))

----------------------------------------------------------------------------
(* Properties.                                                             *)

CliTypeOK ==
  /\ cli   \in Semaphores(Calls)
  /\ stage \in [Calls -> Stages]
  /\ proc  \in [Calls -> Procs]
  /\ timer \in [Calls -> 0..(Timeout + Grace)]
  /\ reply \in [Calls -> Replies]

\* No path through run() and the semaphore loses or invents a permit: free
\* permits, permits granted to a waiter that has not run yet and permits held
\* in the section always add up to the limit.
CliPermitsConserved == PermitsOut(cli) + Cardinality(Holding) = CliLimit

\* The cap the executor exists for (cli_executor.py:26 "caps JVM fan-out"):
\* never more live subprocesses than cli permits.
FanOutCap == Cardinality(Alive) <= CliLimit

\* A live subprocess always has a run in charge of it: none is left behind
\* by any of the ways out of run().
NoOrphan == \A c \in Alive : stage[c] \in {"running", "terminating", "killing"}

\* asyncio hands a permit from task to task by waking one waiter: no order of
\* runs entering, ending and queueing leaves a free permit and a waiter that
\* nobody will wake.
CliNoLostWakeup == NoLostWakeup(cli)

\* "On timeout: SIGTERM -> wait 5s -> SIGKILL." (cli_executor.py:27): a
\* subprocess that was sent SIGTERM is not given up alive, it is reaped or
\* killed before the run goes anywhere else.
TermEscalates ==
  [][\A c \in Calls :
       stage[c] = "terminating" /\ stage'[c] # "terminating" => proc'[c] # "live"]_cliVars

\* What of a run can go on though no subprocess exits by itself, and when the clock can.
CanProceed(c) ==
  \/ c \in cli.woken \/ stage[c] = "spawning"
  \/ stage[c] \in Timed /\ timer[c] = 0
  \/ stage[c] = "killing" /\ proc[c] \in {"killed", "exited"}

RunsCanTick == TimedRuns # {} /\ \A c \in TimedRuns : timer[c] > 0

\* Never do all runs wait for each other or for a subprocess that ignores SIGTERM.
RunsNeverStuck ==
  (\E c \in Calls : stage[c] \notin {"idle", "ended"}) =>
    RunsCanTick \/ \E c \in Calls : CanProceed(c)

\* A bound on the steps a run, its subprocess and its deadlines have yet to take.
RunLeft(c) ==
  CASE stage[c] = "queued"  -> 7  [] stage[c] = "spawning"    -> 6
    [] stage[c] = "running" -> 3  [] stage[c] = "terminating" -> 2
    [] stage[c] = "killing" -> 1  [] OTHER                    -> 0

ProcLeft(c) == CASE proc[c] = "live" -> 2 [] proc[c] = "killed" -> 1 [] OTHER -> 0

TimeLeft(c) ==
  CASE stage[c] \in {"queued", "spawning"} -> Timeout + Grace
    [] stage[c] = "running"                -> timer[c] + Grace
    [] stage[c] = "terminating"            -> timer[c]
    [] OTHER                               -> 0

RunStepsLeft(c) == RunLeft(c) + ProcLeft(c) + TimeLeft(c)

\* A step starts a run, and sets back no other, or takes one nearer to its end.
RunStepCounts ==
  \E c \in Calls :
    \/ /\ stage[c] \in {"idle", "ended"} /\ stage'[c] \in {"queued", "spawning"}
       /\ \A d \in Calls \ {c} : RunStepsLeft(d)' = RunStepsLeft(d)
    \/ /\ RunStepsLeft(c)' \in 0..(RunStepsLeft(c) - 1)
       /\ \A d \in Calls : RunStepsLeft(d)' <= RunStepsLeft(d)

\* Whatever is done counts, and leaves something that can be done until every run is
\* over: run() neither comes to a standstill nor goes round in circles.
RunsProgress == [][RunStepCounts /\ RunsNeverStuck']_cliVars

\* Every run that queues for a permit ends, even when every subprocess
\* ignores SIGTERM: waiters are served in order and nobody keeps a permit.
EveryRunEnds == \A c \in Calls : stage[c] = "queued" ~> stage[c] = "ended"
=============================================================================
