------------------------- MODULE CliExecutorProofs -------------------------
(***************************************************************************)
(* The safety of CliExecutor for every set of callers, limit and deadline. *)
(*                                                                         *)
(* The inductive invariant CliInv adds to the type invariant that the      *)
(* semaphore is well formed and that only queued runs wait on it: without  *)
(* that a wake-up could go to a run that no longer wants the permit, and   *)
(* the permits would not add up.                                           *)
(***************************************************************************)
EXTENDS CliExecutor, AsyncSemaphoreProofs

CliInv ==
  /\ CliTypeOK
  /\ SemInv(cli, Calls)
  /\ Waiters(cli) \subseteq Queued
  /\ CliPermitsConserved

\* The initial state has every permit free and nobody waiting.
LEMMA CliInitInv == CliInit => CliInv
<1> SUFFICES ASSUME CliInit PROVE CliInv
  OBVIOUS
<1>1. /\ SemInv(cli, Calls) /\ Waiters(cli) = {} /\ PermitsOut(cli) = CliLimit
  BY NewSemaphoreLemma, CliLimitAssumption DEF CliInit
<1>2. Holding = {}
  BY DEF CliInit, Holding, InSection
<1>3. CliPermitsConserved
  BY <1>1, <1>2, FS_EmptySet, CliLimitAssumption DEF CliPermitsConserved
<1>4. CliTypeOK
  BY <1>1, TimesAssumption
     DEF CliInit, CliTypeOK, SemInv, Stages, Procs, Replies
<1> QED BY <1>1, <1>3, <1>4 DEF CliInv

\* A run that enters the section, and one that leaves it, change the number
\* of holders by one.
LEMMA HoldingGrows ==
  ASSUME stage \in [Calls -> Stages], NEW c \in Calls, c \notin Holding,
         NEW to \in InSection, stage' = [stage EXCEPT ![c] = to]
  PROVE  Cardinality(Holding)' = Cardinality(Holding) + 1 /\ Cardinality(Holding) \in Nat
<1>1. Holding' = Holding \cup {c}
  BY DEF Holding
<1>2. IsFiniteSet(Holding)
  BY CallsAssumption, FS_Subset DEF Holding
<1> QED BY <1>1, <1>2, FS_AddElement, FS_CardinalityType

LEMMA HoldingShrinks ==
  ASSUME stage \in [Calls -> Stages], NEW c \in Holding,
         NEW to, to \notin InSection, stage' = [stage EXCEPT ![c] = to]
  PROVE  Cardinality(Holding)' = Cardinality(Holding) - 1 /\ Cardinality(Holding) \in Nat
<1>1. Holding' = Holding \ {c}
  BY DEF Holding
<1>2. IsFiniteSet(Holding)
  BY CallsAssumption, FS_Subset DEF Holding
<1> QED BY <1>1, <1>2, FS_RemoveElement, FS_CardinalityType

\* The permits out of the section are a number.
LEMMA PermitsOutType ==
  ASSUME SemInv(cli, Calls)
  PROVE  PermitsOut(cli) \in Nat
BY CallsAssumption, FS_Subset, FS_CardinalityType DEF SemInv, Semaphores, PermitsOut

\* Starting a run keeps the invariant, whether it gets a permit or queues.
LEMMA RunInv ==
  ASSUME CliInv, NEW c \in Calls, Run(c)
  PROVE  CliInv'
<1>1. stage \in [Calls -> Stages] /\ c \notin Holding /\ c \notin Queued
  BY DEF CliInv, CliTypeOK, Run, RunAtOnce, RunQueues, MayRun, Holding, Queued, InSection
<1>2. /\ proc' \in [Calls -> Procs] /\ reply' \in [Calls -> Replies]
      /\ timer' \in [Calls -> 0..(Timeout + Grace)]
  BY DEF CliInv, CliTypeOK, Run, RunAtOnce, RunQueues, Procs, Replies
<1>3. CASE RunAtOnce(c)
  <2>1. /\ SemInv(cli', Calls) /\ Waiters(cli') = {}
        /\ PermitsOut(cli') = PermitsOut(cli) - 1
    BY <1>3, TakeNowLemma DEF CliInv, RunAtOnce
  <2>2. stage' = [stage EXCEPT ![c] = "spawning"] /\ stage' \in [Calls -> Stages]
    BY <1>1, <1>3 DEF RunAtOnce, Stages
  <2>3. CliPermitsConserved'
    <3>1. Cardinality(Holding') = Cardinality(Holding) + 1 /\ Cardinality(Holding) \in Nat
      BY <1>1, <2>2, HoldingGrows DEF InSection
    <3>2. PermitsOut(cli) \in Nat /\ PermitsOut(cli) + Cardinality(Holding) = CliLimit
      BY PermitsOutType DEF CliInv, CliPermitsConserved
    <3> QED BY <2>1, <3>1, <3>2 DEF CliPermitsConserved
  <2> QED BY <1>2, <2>1, <2>2, <2>3 DEF CliInv, CliTypeOK, SemInv
<1>4. CASE RunQueues(c)
  <2>1. /\ SemInv(cli', Calls) /\ Waiters(cli') = Waiters(cli) \cup {c}
        /\ PermitsOut(cli') = PermitsOut(cli)
    BY <1>1, <1>4, EnqueueLemma DEF CliInv, RunQueues
  <2>2. stage' = [stage EXCEPT ![c] = "queued"] /\ stage' \in [Calls -> Stages]
    BY <1>1, <1>4 DEF RunQueues, Stages
  <2>3. Waiters(cli') \subseteq Queued'
    BY <1>1, <2>1, <2>2 DEF CliInv, Queued
  <2>4. Holding' = Holding
    BY <1>1, <2>2 DEF Holding, InSection
  <2>5. CliPermitsConserved'
    BY <2>1, <2>4 DEF CliInv, CliPermitsConserved
  <2> QED BY <1>2, <2>1, <2>2, <2>3, <2>5 DEF CliInv, CliTypeOK, SemInv
<1> QED BY <1>3, <1>4 DEF Run

\* A granted waiter that runs on moves its permit into the section.
LEMMA EnterInv ==
  ASSUME CliInv, NEW c \in Calls, Enter(c)
  PROVE  CliInv'
<1>1. stage \in [Calls -> Stages] /\ c \in Queued /\ c \notin Holding
  BY DEF CliInv, CliTypeOK, Enter, Waiters, Queued, Holding, InSection
<1>2. /\ SemInv(cli', Calls) /\ Waiters(cli') = Waiters(cli) \ {c}
      /\ PermitsOut(cli') = PermitsOut(cli) - 1
  BY ResumeLemma, CallsAssumption DEF CliInv, Enter
<1>3. stage' = [stage EXCEPT ![c] = "spawning"] /\ stage' \in [Calls -> Stages]
  BY <1>1 DEF Enter, Stages
<1>4. Waiters(cli') \subseteq Queued'
  BY <1>1, <1>2, <1>3 DEF CliInv, Queued
<1>5. CliPermitsConserved'
  <2>1. Cardinality(Holding') = Cardinality(Holding) + 1 /\ Cardinality(Holding) \in Nat
    BY <1>1, <1>3, HoldingGrows DEF InSection
  <2>2. PermitsOut(cli) \in Nat /\ PermitsOut(cli) + Cardinality(Holding) = CliLimit
    BY PermitsOutType DEF CliInv, CliPermitsConserved
  <2> QED BY <1>2, <2>1, <2>2 DEF CliPermitsConserved
<1> QED BY <1>2, <1>3, <1>4, <1>5 DEF CliInv, CliTypeOK, SemInv, Enter

\* Every way out of the section gives the permit back.
LEMMA EndRunInv ==
  ASSUME CliInv, NEW c \in Holding, NEW a \in Replies, EndRun(c, a), proc' = proc
  PROVE  CliInv'
<1>1. stage \in [Calls -> Stages] /\ c \in Calls /\ c \notin Queued
  BY DEF CliInv, CliTypeOK, Holding, Queued, InSection
<1>2. /\ SemInv(cli', Calls) /\ Waiters(cli') = Waiters(cli)
      /\ PermitsOut(cli') = PermitsOut(cli) + 1
  BY ReleaseLemma, CallsAssumption DEF CliInv, EndRun, SemInv
<1>3. stage' = [stage EXCEPT ![c] = "ended"] /\ stage' \in [Calls -> Stages]
  BY <1>1 DEF EndRun, Stages
<1>4. Waiters(cli') \subseteq Queued'
  BY <1>1, <1>2, <1>3 DEF CliInv, Queued
<1>5. CliPermitsConserved'
  <2>1. Cardinality(Holding') = Cardinality(Holding) - 1 /\ Cardinality(Holding) \in Nat
    BY <1>1, <1>3, HoldingShrinks DEF InSection
  <2>2. PermitsOut(cli) \in Nat /\ PermitsOut(cli) + Cardinality(Holding) = CliLimit
    BY PermitsOutType DEF CliInv, CliPermitsConserved
  <2> QED BY <1>2, <2>1, <2>2 DEF CliPermitsConserved
<1>6. timer' \in [Calls -> 0..(Timeout + Grace)] /\ reply' \in [Calls -> Replies]
  <2>1. 0 \in 0..(Timeout + Grace)
    BY TimesAssumption
  <2> QED BY <1>1, <2>1 DEF CliInv, CliTypeOK, EndRun
<1> QED BY <1>2, <1>3, <1>4, <1>5, <1>6 DEF CliInv, CliTypeOK, SemInv

\* A step inside the section moves no permit.
LEMMA InSectionInv ==
  ASSUME CliInv, NEW c \in Calls, Spawn(c) \/ RunTimesOut(c) \/ GraceExpires(c)
  PROVE  CliInv'
<1>1. stage \in [Calls -> Stages] /\ c \in Holding
  BY DEF CliInv, CliTypeOK, Spawn, RunTimesOut, GraceExpires, Holding, InSection
<1>2. PICK to \in {"running", "terminating", "killing"} : stage' = [stage EXCEPT ![c] = to]
  BY DEF Spawn, RunTimesOut, GraceExpires
<1>3. cli' = cli /\ reply' = reply
  BY DEF Spawn, RunTimesOut, GraceExpires
<1>4. Holding' = Holding /\ Queued' = Queued
  BY <1>1, <1>2 DEF Holding, Queued, InSection
<1>5. stage' \in [Calls -> Stages]
  BY <1>1, <1>2 DEF Stages
<1>6. timer' \in [Calls -> 0..(Timeout + Grace)]
  BY TimesAssumption DEF CliInv, CliTypeOK, Spawn, RunTimesOut, GraceExpires
<1>7. proc' \in [Calls -> Procs]
  BY DEF CliInv, CliTypeOK, Spawn, RunTimesOut, GraceExpires, Procs
<1> QED BY <1>3, <1>4, <1>5, <1>6, <1>7 DEF CliInv, CliTypeOK, CliPermitsConserved

\* The event loop's steps for a run keep the invariant.
LEMMA ProceedInv ==
  ASSUME CliInv, NEW c \in Calls, Proceed(c)
  PROVE  CliInv'
<1>1. CASE Enter(c)
  BY <1>1, EnterInv
<1>2. CASE Spawn(c) \/ RunTimesOut(c) \/ GraceExpires(c)
  BY <1>2, InSectionInv
<1>3. CASE SpawnFails(c) \/ Collect(c) \/ TimeoutFindsExited(c) \/ CollectTerminated(c)
  <2>1. c \in Holding /\ proc' = proc
    BY <1>3 DEF SpawnFails, Collect, TimeoutFindsExited, CollectTerminated, Holding, InSection
  <2>2. \E a \in Replies : EndRun(c, a)
    BY <1>3 DEF SpawnFails, Collect, TimeoutFindsExited, CollectTerminated, Replies
  <2> QED BY <2>1, <2>2, EndRunInv
<1> QED BY <1>1, <1>2, <1>3 DEF Proceed

\* The operating system and the clock touch neither permits nor stages.
LEMMA OutsideInv ==
  ASSUME CliInv, UNCHANGED <<cli, stage, reply>>,
         proc' \in [Calls -> Procs], timer' \in [Calls -> 0..(Timeout + Grace)]
  PROVE  CliInv'
BY DEF CliInv, CliTypeOK, CliPermitsConserved, Holding, Queued

LEMMA OsInv ==
  ASSUME CliInv, NEW c \in Calls, ProcessExits(c) \/ KillTakesEffect(c)
  PROVE  CliInv'
<1>1. proc' \in [Calls -> Procs]
  BY DEF CliInv, CliTypeOK, ProcessExits, KillTakesEffect, Procs
<1>2. UNCHANGED <<cli, stage, reply>> /\ timer' \in [Calls -> 0..(Timeout + Grace)]
  BY DEF CliInv, CliTypeOK, ProcessExits, KillTakesEffect
<1> QED BY <1>1, <1>2, OutsideInv

LEMMA ElapseType ==
  ASSUME CliTypeOK, Elapse
  PROVE  timer' \in [Calls -> 0..(Timeout + Grace)]
BY TimesAssumption DEF CliTypeOK, Elapse, TimedRuns

\* CliInv is inductive.
LEMMA CliNextInv == CliInv /\ [CliNext]_cliVars => CliInv'
<1> SUFFICES ASSUME CliInv, [CliNext]_cliVars PROVE CliInv'
  OBVIOUS
<1>1. CASE \E c \in Calls : Run(c) \/ Proceed(c)
  BY <1>1, RunInv, ProceedInv
<1>2. CASE \E c \in Calls : ProcessExits(c) \/ KillTakesEffect(c)
  BY <1>2, OsInv
<1>3. CASE Tick
  <2>1. timer' \in [Calls -> 0..(Timeout + Grace)]
    BY <1>3, ElapseType DEF Tick, CliInv
  <2> QED BY <1>3, <2>1, OutsideInv DEF Tick, CliInv, CliTypeOK
<1>4. CASE UNCHANGED cliVars
  BY <1>4, OutsideInv DEF cliVars, CliInv, CliTypeOK
<1> QED BY <1>1, <1>2, <1>3, <1>4 DEF CliNext

\* The type invariant, conservation of permits and the absence of lost
\* wake-ups hold in every reachable state.
LEMMA CliInvariant == CliSafety => []CliInv
BY CliInitInv, CliNextInv, PTL DEF CliSafety

\* For any callers, limit and deadlines, the state of run() keeps its types: a run is in
\* one of its stages, and its subprocess in one of its own.
THEOREM CliTypesTheorem == CliSafety => []CliTypeOK
<1>1. CliInv => CliTypeOK
  BY DEF CliInv
<1> QED BY <1>1, CliInvariant, PTL

\* run() always gives back exactly the permit it took, on every path.
THEOREM PermitsTheorem == CliSafety => []CliPermitsConserved
<1>1. CliInv => CliPermitsConserved
  BY DEF CliInv
<1> QED BY <1>1, CliInvariant, PTL

\* No interleaving of runs leaves a waiter asleep beside a free permit.
THEOREM WakeupTheorem == CliSafety => []CliNoLostWakeup
<1>1. CliInv => CliNoLostWakeup
  BY DEF CliInv, SemInv, CliNoLostWakeup
<1> QED BY <1>1, CliInvariant, PTL

----------------------------------------------------------------------------
(* Subprocesses.  NoOrphan is inductive beside CliInv, which says that the *)
(* run that enters the section was queued, hence had no subprocess.        *)

LEMMA NoOrphanStep ==
  ASSUME CliInv, NoOrphan, [CliNext]_cliVars
  PROVE  NoOrphan'
<1> USE DEF NoOrphan, Alive
<1>1. ASSUME NEW c \in Calls, Run(c) PROVE NoOrphan'
  BY <1>1 DEF CliInv, CliTypeOK, Run, RunAtOnce, RunQueues, MayRun
<1>2. ASSUME NEW c \in Calls, Enter(c) PROVE NoOrphan'
  <2>1. stage[c] = "queued"
    BY <1>2 DEF Enter, CliInv, Waiters, Queued
  <2> QED BY <1>2, <2>1 DEF CliInv, CliTypeOK, Enter
<1>3. ASSUME NEW c \in Calls, Spawn(c) PROVE NoOrphan'
  BY <1>3 DEF CliInv, CliTypeOK, Spawn
<1>4. ASSUME NEW c \in Calls, RunTimesOut(c) PROVE NoOrphan'
  BY <1>4 DEF CliInv, CliTypeOK, RunTimesOut
<1>5. ASSUME NEW c \in Calls, GraceExpires(c) PROVE NoOrphan'
  BY <1>5 DEF CliInv, CliTypeOK, GraceExpires
<1>6. ASSUME NEW c \in Calls,
             SpawnFails(c) \/ Collect(c) \/ TimeoutFindsExited(c) \/ CollectTerminated(c)
      PROVE  NoOrphan'
  <2>1. c \notin Alive /\ proc' = proc /\ stage' = [stage EXCEPT ![c] = "ended"]
    BY <1>6 DEF SpawnFails, Collect, TimeoutFindsExited, CollectTerminated, EndRun
  <2> QED BY <2>1 DEF CliInv, CliTypeOK
<1>7. ASSUME NEW c \in Calls, ProcessExits(c) \/ KillTakesEffect(c) PROVE NoOrphan'
  BY <1>7 DEF CliInv, CliTypeOK, ProcessExits, KillTakesEffect
<1>8. CASE Tick
  BY <1>8 DEF Tick
<1>9. CASE UNCHANGED cliVars
  BY <1>9 DEF cliVars
<1> QED BY <1>1, <1>2, <1>3, <1>4, <1>5, <1>6, <1>7, <1>8, <1>9 DEF CliNext, Proceed

\* A run that nobody cancels never leaves a live subprocess behind.
THEOREM NoOrphanTheorem == CliSafety => []NoOrphan
<1>1. CliInit => NoOrphan
  BY DEF CliInit, NoOrphan, Alive
<1>2. CliInv /\ NoOrphan /\ [CliNext]_cliVars => NoOrphan'
  BY NoOrphanStep
<1> QED BY <1>1, <1>2, CliInvariant, PTL DEF CliSafety

\* Never more live subprocesses than cli permits.
THEOREM FanOutTheorem == CliSafety => []FanOutCap
<1>1. CliInv /\ NoOrphan => FanOutCap
  <2> SUFFICES ASSUME CliInv, NoOrphan PROVE FanOutCap
    OBVIOUS
  <2>1. Alive \subseteq Holding
    BY DEF NoOrphan, Alive, Holding, InSection
  <2>2. IsFiniteSet(Holding)
    BY CallsAssumption, FS_Subset DEF Holding
  <2>3. Cardinality(Alive) <= Cardinality(Holding) /\ Cardinality(Alive) \in Nat
    BY <2>1, <2>2, FS_Subset, FS_CardinalityType
  <2>4. PermitsOut(cli) \in Nat /\ PermitsOut(cli) + Cardinality(Holding) = CliLimit
    BY PermitsOutType DEF CliInv, CliPermitsConserved
  <2>5. Cardinality(Holding) \in Nat
    BY <2>2, FS_CardinalityType
  <2> QED BY <2>3, <2>4, <2>5, CliLimitAssumption DEF FanOutCap
<1> QED BY <1>1, CliInvariant, NoOrphanTheorem, PTL

\* A subprocess that was sent SIGTERM is never given up alive.
THEOREM EscalationTheorem == CliSafety => TermEscalates
<1> DEFINE Escalates(c) ==
      stage[c] = "terminating" /\ stage'[c] # "terminating" => proc'[c] # "live"
<1>1. CliInv /\ [CliNext]_cliVars => [\A c \in Calls : Escalates(c)]_cliVars
  <2> SUFFICES ASSUME CliInv, CliNext, NEW d \in Calls,
                      stage[d] = "terminating", stage'[d] # "terminating"
               PROVE  proc'[d] # "live"
    OBVIOUS
  <2>1. ASSUME NEW c \in Calls, Run(c) PROVE c # d /\ stage'[d] = stage[d]
    BY <2>1 DEF CliInv, CliTypeOK, Run, RunAtOnce, RunQueues, MayRun
  <2>2. ASSUME NEW c \in Calls, Enter(c) PROVE stage'[d] = stage[d]
    BY <2>2 DEF CliInv, CliTypeOK, Enter, Waiters, Queued
  <2>3. ASSUME NEW c \in Calls,
               Spawn(c) \/ RunTimesOut(c) \/ SpawnFails(c) \/ Collect(c) \/ TimeoutFindsExited(c)
        PROVE  stage'[d] = stage[d]
    BY <2>3 DEF CliInv, CliTypeOK, Spawn, RunTimesOut, SpawnFails, Collect,
                TimeoutFindsExited, EndRun
  <2>4. ASSUME NEW c \in Calls, GraceExpires(c) PROVE proc'[d] # "live"
    <3>1. c = d
      BY <2>4 DEF CliInv, CliTypeOK, GraceExpires
    <3> QED BY <2>4, <3>1 DEF CliInv, CliTypeOK, GraceExpires
  <2>5. ASSUME NEW c \in Calls, CollectTerminated(c) PROVE proc'[d] # "live"
    <3>1. c = d
      BY <2>5 DEF CliInv, CliTypeOK, CollectTerminated, EndRun
    <3> QED BY <2>5, <3>1 DEF CollectTerminated
  <2>6. ASSUME NEW c \in Calls, ProcessExits(c) \/ KillTakesEffect(c) PROVE stage'[d] = stage[d]
    BY <2>6 DEF ProcessExits, KillTakesEffect
  <2>7. CASE Tick
    BY <2>7 DEF Tick
  <2> QED BY <2>1, <2>2, <2>3, <2>4, <2>5, <2>6, <2>7 DEF CliNext, Proceed
<1> QED BY <1>1, CliInvariant, PTL DEF CliSafety, TermEscalates

----------------------------------------------------------------------------
(* Progress.  Where nobody cancels a run, one that is queued waits for the *)
(* semaphore, and one that signalled its subprocess finds it as it left it. *)

AloneInv ==
  /\ CliInv
  /\ Queued \subseteq Waiters(cli)
  /\ \A c \in Calls :
       /\ stage[c] \in Timed => proc[c] \in {"live", "exited"}
       /\ stage[c] = "killing" => proc[c] \in {"killed", "exited"}

LEMMA AloneInitially == CliInit => AloneInv
<1> SUFFICES ASSUME CliInit PROVE AloneInv
  OBVIOUS
<1>1. CliInv
  BY CliInitInv
<1> QED
  BY <1>1 DEF AloneInv, CliInit, Queued, Timed

LEMMA AloneQueue ==
  ASSUME AloneInv, CliNext
  PROVE  Queued' \subseteq Waiters(cli')
<1>1. stage \in [Calls -> Stages] /\ SemInv(cli, Calls) /\ Queued = Waiters(cli)
  BY DEF AloneInv, CliInv, CliTypeOK
<1>2. ASSUME NEW c \in Calls, Run(c) PROVE Queued' \subseteq Waiters(cli')
  <2>1. CASE RunAtOnce(c)
    BY <1>1, <2>1 DEF RunAtOnce, Locked, Queued
  <2>2. CASE RunQueues(c)
    <3>1. c \notin Waiters(cli)
      BY <1>1, <2>2 DEF RunQueues, MayRun, Queued
    <3>2. Waiters(cli') = Waiters(cli) \cup {c}
      BY <1>1, <2>2, <3>1, EnqueueLemma DEF RunQueues
    <3> QED BY <1>1, <2>2, <3>2 DEF RunQueues, Queued
  <2> QED BY <1>2, <2>1, <2>2 DEF Run
<1>3. ASSUME NEW c \in Calls, Enter(c) PROVE Queued' \subseteq Waiters(cli')
  <2>1. Waiters(cli') = Waiters(cli) \ {c}
    BY <1>1, <1>3, ResumeLemma, CallsAssumption DEF Enter
  <2> QED BY <1>1, <1>3, <2>1 DEF Enter, Queued
<1>4. ASSUME NEW c \in Calls, Spawn(c) \/ RunTimesOut(c) \/ GraceExpires(c)
      PROVE  Queued' \subseteq Waiters(cli')
  BY <1>1, <1>4 DEF Spawn, RunTimesOut, GraceExpires, Queued
<1>5. ASSUME NEW c \in Calls,
             SpawnFails(c) \/ Collect(c) \/ TimeoutFindsExited(c) \/ CollectTerminated(c)
      PROVE  Queued' \subseteq Waiters(cli')
  <2>1. cli' = Release(cli) /\ stage' = [stage EXCEPT ![c] = "ended"]
    BY <1>5 DEF SpawnFails, Collect, TimeoutFindsExited, CollectTerminated, EndRun
  <2>2. Waiters(cli') = Waiters(cli)
    BY <1>1, <2>1, ReleaseLemma, CallsAssumption DEF SemInv
  <2> QED BY <1>1, <2>1, <2>2 DEF Queued
<1>6. ASSUME NEW c \in Calls, ProcessExits(c) \/ KillTakesEffect(c)
      PROVE  Queued' \subseteq Waiters(cli')
  BY <1>1, <1>6 DEF ProcessExits, KillTakesEffect, Queued
<1>7. CASE Tick
  BY <1>1, <1>7 DEF Tick, Queued
<1> QED
  BY <1>2, <1>3, <1>4, <1>5, <1>6, <1>7 DEF CliNext, Proceed

\* What was signalled, by the steps of c.
Found(c) ==
  /\ stage[c] \in Timed => proc[c] \in {"live", "exited"}
  /\ stage[c] = "killing" => proc[c] \in {"killed", "exited"}

LEMMA AloneProcs ==
  ASSUME AloneInv, CliNext, NEW d \in Calls
  PROVE  Found(d)'
<1>1. stage \in [Calls -> Stages] /\ proc \in [Calls -> Procs] /\ Found(d)
  BY DEF AloneInv, CliInv, CliTypeOK, Found
<1>2. ASSUME NEW c \in Calls, Run(c) PROVE Found(d)'
  BY <1>1, <1>2 DEF Run, RunAtOnce, RunQueues, Found, Timed
<1>3. ASSUME NEW c \in Calls, Enter(c) \/ Spawn(c) PROVE Found(d)'
  BY <1>1, <1>3 DEF Enter, Spawn, Found, Timed
<1>4. ASSUME NEW c \in Calls, RunTimesOut(c) \/ GraceExpires(c) PROVE Found(d)'
  BY <1>1, <1>4 DEF RunTimesOut, GraceExpires, Found, Timed
<1>5. ASSUME NEW c \in Calls,
             SpawnFails(c) \/ Collect(c) \/ TimeoutFindsExited(c) \/ CollectTerminated(c)
      PROVE  Found(d)'
  <2>1. proc' = proc /\ stage' = [stage EXCEPT ![c] = "ended"]
    BY <1>5 DEF SpawnFails, Collect, TimeoutFindsExited, CollectTerminated, EndRun
  <2> QED BY <1>1, <2>1 DEF Found, Timed
<1>6. ASSUME NEW c \in Calls, ProcessExits(c) \/ KillTakesEffect(c) PROVE Found(d)'
  BY <1>1, <1>6 DEF ProcessExits, KillTakesEffect, Found
<1>7. CASE Tick
  BY <1>1, <1>7 DEF Tick, Found
<1> QED
  BY <1>2, <1>3, <1>4, <1>5, <1>6, <1>7 DEF CliNext, Proceed

LEMMA AloneStep == AloneInv /\ [CliNext]_cliVars => AloneInv'
<1> SUFFICES ASSUME AloneInv, [CliNext]_cliVars PROVE AloneInv'
  OBVIOUS
<1>1. CliInv'
  BY CliNextInv DEF AloneInv
<1>2. CASE CliNext
  BY <1>1, <1>2, AloneQueue, AloneProcs DEF AloneInv, Found
<1>3. CASE UNCHANGED cliVars
  BY <1>1, <1>3 DEF AloneInv, cliVars, Queued
<1> QED
  BY <1>2, <1>3

LEMMA AloneInvariant == CliSafety => []AloneInv
BY AloneInitially, AloneStep, PTL DEF CliSafety

\* If a run is queued and nobody is being given a permit, they are all with runs in
\* the section: each of these has a deadline, or its subprocess was killed.
LEMMA RunsNotStuck == AloneInv => RunsNeverStuck
<1> SUFFICES ASSUME AloneInv, NEW c \in Calls, stage[c] \notin {"idle", "ended"},
                    \A d \in Calls : ~CanProceed(d)
             PROVE  RunsCanTick
  BY DEF RunsNeverStuck
<1>1. Holding # {}
  <2>1. CASE stage[c] # "queued"
    BY <2>1 DEF AloneInv, CliInv, CliTypeOK, Stages, Holding, InSection
  <2>2. CASE stage[c] = "queued"
    <3>1. cli.woken = {}
      BY DEF CanProceed, AloneInv, CliInv, SemInv, Semaphores
    <3>2. cli.queue # <<>>
      BY <2>2, <3>1 DEF AloneInv, Queued, Waiters, Pending, Elements
    <3>3. cli.value = 0
      BY <3>1, <3>2 DEF AloneInv, CliInv, SemInv, NoLostWakeup, Semaphores
    <3>4. PermitsOut(cli) = 0
      BY <3>1, <3>3, FS_EmptySet DEF PermitsOut
    <3>5. Cardinality(Holding) # 0
      BY <3>4, CliLimitAssumption DEF AloneInv, CliInv, CliPermitsConserved
    <3> QED BY <3>5, FS_EmptySet
  <2> QED BY <2>1, <2>2
<1>2. Holding \subseteq TimedRuns
  BY DEF AloneInv, Holding, InSection, TimedRuns, Timed, CanProceed
<1>3. \A d \in TimedRuns : timer[d] > 0
  BY DEF TimedRuns, CanProceed, AloneInv, CliInv, CliTypeOK
<1> QED
  BY <1>1, <1>2, <1>3 DEF RunsCanTick

\* A step for c alone.
TouchesRun(c) ==
  \A d \in Calls \ {c} : stage'[d] = stage[d] /\ proc'[d] = proc[d] /\ timer'[d] = timer[d]

LEMMA OtherRunsStay ==
  ASSUME NEW c \in Calls, TouchesRun(c)
  PROVE  \A d \in Calls \ {c} : RunStepsLeft(d)' = RunStepsLeft(d)
BY DEF TouchesRun, RunStepsLeft, RunLeft, ProcLeft, TimeLeft

RunsLeft ==
  \A c \in Calls : RunLeft(c) \in 0..7 /\ ProcLeft(c) \in 0..2 /\ TimeLeft(c) \in Nat

LEMMA RunsLeftType == CliTypeOK => RunsLeft
BY TimesAssumption DEF CliTypeOK, RunsLeft, RunLeft, ProcLeft, TimeLeft

LEMMA RunsLeftTypeNext == CliTypeOK' => RunsLeft'
BY RunsLeftType, PTL

LEMMA RunsLeftNatural ==
  ASSUME CliTypeOK, CliTypeOK', NEW c \in Calls
  PROVE  RunStepsLeft(c) \in Nat /\ RunStepsLeft(c)' \in Nat
<1>1. RunStepsLeft(c) \in Nat
  BY RunsLeftType DEF RunsLeft, RunStepsLeft
<1>2. RunsLeft'
  BY RunsLeftTypeNext
<1>3. RunLeft(c)' \in 0..7 /\ ProcLeft(c)' \in 0..2 /\ TimeLeft(c)' \in Nat
  BY <1>2 DEF RunsLeft
<1>4. RunStepsLeft(c)' = RunLeft(c)' + ProcLeft(c)' + TimeLeft(c)'
  BY DEF RunStepsLeft
<1> QED
  BY <1>1, <1>3, <1>4

LEMMA ProceedCounts ==
  ASSUME CliInv, NEW c \in Calls, Proceed(c)
  PROVE  TouchesRun(c) /\ RunStepsLeft(c)' < RunStepsLeft(c)
<1>1. /\ stage \in [Calls -> Stages] /\ proc \in [Calls -> Procs] /\ timer[c] \in Nat
      /\ timer \in [Calls -> 0..(Timeout + Grace)] /\ Timeout \in Nat /\ Grace \in Nat
  BY TimesAssumption DEF CliInv, CliTypeOK
<1>2. CASE Enter(c)
  <2>1. /\ stage[c] = "queued" /\ stage' = [stage EXCEPT ![c] = "spawning"]
        /\ proc' = proc /\ timer' = timer
    BY <1>2 DEF Enter, CliInv, Waiters, Queued
  <2> QED
    BY <1>1, <2>1 DEF TouchesRun, RunStepsLeft, RunLeft, ProcLeft, TimeLeft
<1>3. CASE Spawn(c)
  <2>1. /\ stage[c] = "spawning" /\ stage' = [stage EXCEPT ![c] = "running"]
        /\ proc' = [proc EXCEPT ![c] = "live"] /\ timer' = [timer EXCEPT ![c] = Timeout]
    BY <1>3 DEF Spawn
  <2> QED
    BY <1>1, <2>1 DEF TouchesRun, RunStepsLeft, RunLeft, ProcLeft, TimeLeft
<1>4. CASE RunTimesOut(c)
  <2>1. /\ stage[c] = "running" /\ stage' = [stage EXCEPT ![c] = "terminating"]
        /\ proc' = proc /\ timer[c] = 0 /\ timer' = [timer EXCEPT ![c] = Grace]
    BY <1>4 DEF RunTimesOut
  <2> QED
    BY <1>1, <2>1 DEF TouchesRun, RunStepsLeft, RunLeft, ProcLeft, TimeLeft
<1>5. CASE GraceExpires(c)
  <2>1. /\ stage[c] = "terminating" /\ stage' = [stage EXCEPT ![c] = "killing"] /\ timer' = timer
        /\ proc' = [proc EXCEPT ![c] = IF @ = "live" THEN "killed" ELSE @]
    BY <1>5 DEF GraceExpires
  <2> QED
    BY <1>1, <2>1 DEF TouchesRun, RunStepsLeft, RunLeft, ProcLeft, TimeLeft
<1>6. CASE SpawnFails(c) \/ Collect(c) \/ TimeoutFindsExited(c) \/ CollectTerminated(c)
  <2>1. /\ stage[c] \in InSection /\ stage' = [stage EXCEPT ![c] = "ended"]
        /\ proc' = proc /\ timer' = [timer EXCEPT ![c] = 0]
    BY <1>6 DEF SpawnFails, Collect, TimeoutFindsExited, CollectTerminated, EndRun, InSection
  <2>2. RunLeft(c) \in 1..7 /\ RunLeft(c)' = 0 /\ TimeLeft(c)' = 0 /\ ProcLeft(c)' = ProcLeft(c)
    BY <1>1, <2>1 DEF InSection, RunLeft, ProcLeft, TimeLeft
  <2>3. RunStepsLeft(c)' = RunLeft(c)' + ProcLeft(c)' + TimeLeft(c)'
    BY DEF RunStepsLeft
  <2> QED
    BY <1>1, <2>1, <2>2, <2>3, RunsLeftType DEF TouchesRun, RunStepsLeft, RunsLeft, CliInv
<1> QED
  BY <1>2, <1>3, <1>4, <1>5, <1>6 DEF Proceed

\* A tick takes from every deadline.
LEMMA RunsTickCounts ==
  ASSUME CliInv, CliInv', Tick
  PROVE  RunStepCounts
<1>1. /\ stage' = stage /\ proc' = proc /\ TimedRuns # {}
      /\ \A d \in Calls : timer'[d] = IF d \in TimedRuns THEN timer[d] - 1 ELSE timer[d]
  BY DEF Tick, Elapse
<1>2. \A d \in Calls : RunLeft(d)' = RunLeft(d) /\ ProcLeft(d)' = ProcLeft(d)
  BY <1>1 DEF RunLeft, ProcLeft
<1>3. ASSUME NEW d \in TimedRuns PROVE TimeLeft(d)' = TimeLeft(d) - 1
  <2>1. timer'[d] = timer[d] - 1 /\ stage'[d] = stage[d] /\ stage[d] \in {"running", "terminating"}
    BY <1>1 DEF TimedRuns, Timed
  <2>2. timer[d] \in Nat /\ Grace \in Nat
    BY TimesAssumption DEF CliInv, CliTypeOK, TimedRuns
  <2> QED BY <2>1, <2>2 DEF TimeLeft
<1>4. ASSUME NEW d \in Calls, d \notin TimedRuns PROVE TimeLeft(d)' = TimeLeft(d)
  <2>1. stage'[d] = stage[d] /\ stage[d] \notin {"running", "terminating"}
    BY <1>1, <1>4 DEF TimedRuns, Timed
  <2> QED BY <2>1 DEF TimeLeft
<1>5. \A d \in Calls : RunStepsLeft(d)' = RunLeft(d)' + ProcLeft(d)' + TimeLeft(d)'
  BY DEF RunStepsLeft
<1>6. \A d \in Calls : /\ RunStepsLeft(d)' <= RunStepsLeft(d)
                       /\ d \in TimedRuns => RunStepsLeft(d)' < RunStepsLeft(d)
  BY <1>2, <1>3, <1>4, <1>5, RunsLeftType DEF RunsLeft, RunStepsLeft, CliInv
<1>7. PICK c \in TimedRuns : c \in Calls
  BY <1>1 DEF TimedRuns
<1>8. RunStepsLeft(c) \in Nat /\ RunStepsLeft(c)' \in Nat
  BY <1>7, RunsLeftNatural DEF CliInv
<1>9. RunStepsLeft(c)' \in 0..(RunStepsLeft(c) - 1)
  BY <1>6, <1>7, <1>8
<1> QED
  BY <1>6, <1>7, <1>9 DEF RunStepCounts

\* Without cancellation the runs, whatever their subprocesses do, are never all stuck
\* and never go round in circles.
THEOREM RunsProgressTheorem == CliSafety => RunsProgress
<1>1. CliInv /\ [CliNext]_cliVars => [RunStepCounts]_cliVars
  <2> SUFFICES ASSUME CliInv, CliNext PROVE RunStepCounts
    OBVIOUS
  <2>1. CliTypeOK /\ CliTypeOK' /\ CliInv'
    BY CliNextInv DEF CliInv
  <2>2. ASSUME NEW c \in Calls, Run(c) PROVE RunStepCounts
    <3>1. /\ stage[c] \in {"idle", "ended"} /\ proc' = [proc EXCEPT ![c] = "none"] /\ timer' = timer
          /\ \E to \in {"queued", "spawning"} : stage' = [stage EXCEPT ![c] = to]
      BY <2>2 DEF Run, RunAtOnce, RunQueues, MayRun
    <3>2. TouchesRun(c) /\ stage'[c] \in {"queued", "spawning"}
      BY <2>1, <3>1 DEF CliTypeOK, TouchesRun
    <3> QED BY <3>1, <3>2, OtherRunsStay DEF RunStepCounts
  <2>3. ASSUME NEW c \in Calls, TouchesRun(c), RunStepsLeft(c)' < RunStepsLeft(c)
        PROVE  RunStepCounts
    <3>1. \A d \in Calls : RunStepsLeft(d) \in Nat /\ RunStepsLeft(d)' \in Nat
      BY <2>1, RunsLeftNatural
    <3>2. RunStepsLeft(c)' \in 0..(RunStepsLeft(c) - 1)
      BY <2>3, <3>1
    <3>3. \A d \in Calls : RunStepsLeft(d)' <= RunStepsLeft(d)
      BY <2>3, <3>1, OtherRunsStay
    <3> QED BY <3>2, <3>3 DEF RunStepCounts
  <2>4. ASSUME NEW c \in Calls, Proceed(c) PROVE RunStepCounts
    BY <2>3, <2>4, ProceedCounts
  <2>5. ASSUME NEW c \in Calls, ProcessExits(c) \/ KillTakesEffect(c) PROVE RunStepCounts
    <3>1. /\ proc[c] \in {"live", "killed"} /\ proc' = [proc EXCEPT ![c] = "exited"]
          /\ stage' = stage /\ timer' = timer /\ proc \in [Calls -> Procs]
      BY <2>1, <2>5 DEF ProcessExits, KillTakesEffect, CliTypeOK
    <3>2. ProcLeft(c)' < ProcLeft(c) /\ ProcLeft(c)' \in Int
      BY <3>1 DEF ProcLeft
    <3>3. RunLeft(c)' = RunLeft(c) /\ TimeLeft(c)' = TimeLeft(c) /\ TouchesRun(c)
      BY <3>1 DEF RunLeft, TimeLeft, TouchesRun
    <3>4. RunStepsLeft(c)' = RunLeft(c)' + ProcLeft(c)' + TimeLeft(c)'
      BY DEF RunStepsLeft
    <3>5. RunStepsLeft(c)' < RunStepsLeft(c)
      BY <2>1, <3>2, <3>3, <3>4, RunsLeftType DEF RunsLeft, RunStepsLeft
    <3> QED BY <2>3, <3>3, <3>5
  <2>6. CASE Tick
    BY <2>1, <2>6, RunsTickCounts
  <2> QED
    BY <2>2, <2>4, <2>5, <2>6 DEF CliNext
<1>2. AloneInv => CliInv
  BY DEF AloneInv
<1> QED
  BY <1>1, <1>2, AloneInvariant, RunsNotStuck, PTL DEF CliSafety, RunsProgress
=============================================================================
