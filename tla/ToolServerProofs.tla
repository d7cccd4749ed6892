-------------------------- MODULE ToolServerProofs --------------------------
(***************************************************************************)
(* The safety of ToolServer for every set of calls, limit and deadline,    *)
(* and its refinement of BouncerSpec.                                      *)
(*                                                                         *)
(* ServerInv joins CliInv, the same facts about the tool semaphore, and    *)
(* Linked, which says how far a call and its CLI run may be apart: without *)
(* it Unwind could give back a permit that the run no longer holds.        *)
(* ProgressTheorem is the safety that liveness rests on.                   *)
(***************************************************************************)
EXTENDS ToolServer, CliExecutorProofs

InCliTier == Queued \cup Holding

\* Only a CLI call inside CliExecutor.run, or being cancelled there, has
\* anything of the cli tier, and cancellation takes it out of the queue.
Linked ==
  /\ \A c \in InCliTier : c \in CliCalls /\ pc[c] \in {"incli", "cancelling"}
  /\ \A c \in Calls : pc[c] = "cancelling" => c \notin Pending(cli)

ToolTypeOK ==
  /\ pc     \in [Calls -> Pcs]
  /\ outer  \in [Calls -> 0..(Timeout + Margin)]
  /\ answer \in [Calls -> Answers]

ToolInv ==
  /\ SemInv(tool, Calls)
  /\ Waiters(tool) = Waiting
  /\ PermitsOut(tool) + Cardinality(Inside) = ToolLimit

ServerInv == CliInv /\ ToolTypeOK /\ ToolInv /\ Linked

----------------------------------------------------------------------------
(* The initial state.                                                      *)

LEMMA ServerInitInv == Init => ServerInv
<1> SUFFICES ASSUME Init PROVE ServerInv
  OBVIOUS
<1>1. CliInv
  BY CliInitInv DEF Init
<1>2. ToolTypeOK
  BY TimesAssumption, MarginAssumption DEF Init, ToolTypeOK, Pcs, Answers
<1>3. ToolInv
  <2>1. /\ SemInv(tool, Calls) /\ Waiters(tool) = {} /\ PermitsOut(tool) = ToolLimit
    BY NewSemaphoreLemma, ToolLimitAssumption DEF Init
  <2>2. Inside = {} /\ Waiting = {}
    BY DEF Init, Inside, Waiting
  <2> QED BY <2>1, <2>2, FS_EmptySet, ToolLimitAssumption DEF ToolInv
<1>4. Linked
  BY DEF Init, CliInit, Linked, InCliTier, Queued, Holding, InSection
<1> QED BY <1>1, <1>2, <1>3, <1>4 DEF ServerInv

----------------------------------------------------------------------------
(* The tool tier.                                                          *)

LEMMA InsideGrows ==
  ASSUME pc \in [Calls -> Pcs], NEW c \in Calls, c \notin Inside,
         pc' = [pc EXCEPT ![c] = "active"]
  PROVE  Cardinality(Inside') = Cardinality(Inside) + 1 /\ Cardinality(Inside) \in Nat
<1>1. Inside' = Inside \cup {c}
  BY DEF Inside
<1>2. IsFiniteSet(Inside)
  BY CallsAssumption, FS_Subset DEF Inside
<1> QED BY <1>1, <1>2, FS_AddElement, FS_CardinalityType

LEMMA InsideShrinks ==
  ASSUME pc \in [Calls -> Pcs], NEW c \in Inside, pc' = [pc EXCEPT ![c] = "done"]
  PROVE  Cardinality(Inside') = Cardinality(Inside) - 1 /\ Cardinality(Inside) \in Nat
<1>1. Inside' = Inside \ {c}
  BY DEF Inside
<1>2. IsFiniteSet(Inside)
  BY CallsAssumption, FS_Subset DEF Inside
<1> QED BY <1>1, <1>2, FS_RemoveElement, FS_CardinalityType

LEMMA ToolPermitsType ==
  ASSUME SemInv(tool, Calls)
  PROVE  PermitsOut(tool) \in Nat
BY CallsAssumption, FS_Subset, FS_CardinalityType DEF SemInv, Semaphores, PermitsOut

\* A call that is admitted, at once or after a wait, takes one tool permit.
LEMMA ToolAdmitInv ==
  ASSUME ToolTypeOK, ToolInv, NEW c \in Calls, c \notin Inside,
         SemInv(tool', Calls), Waiters(tool') = Waiters(tool) \ {c},
         PermitsOut(tool') = PermitsOut(tool) - 1,
         pc' = [pc EXCEPT ![c] = "active"]
  PROVE  ToolInv'
<1>1. pc \in [Calls -> Pcs]
  BY DEF ToolTypeOK
<1>2. Waiters(tool') = Waiting'
  BY <1>1 DEF ToolInv, Waiting
<1>3. Cardinality(Inside') = Cardinality(Inside) + 1 /\ Cardinality(Inside) \in Nat
  BY <1>1, InsideGrows
<1>4. PermitsOut(tool) \in Nat /\ PermitsOut(tool) + Cardinality(Inside) = ToolLimit
  BY ToolPermitsType DEF ToolInv
<1> QED BY <1>2, <1>3, <1>4 DEF ToolInv

LEMMA ArriveAdmittedTool ==
  ASSUME ToolTypeOK, ToolInv, NEW c \in Calls, ArriveAdmitted(c)
  PROVE  ToolInv'
<1>1. c \notin Inside
  BY DEF ArriveAdmitted, Arrives, Inside
<1>2. /\ SemInv(tool', Calls) /\ Waiters(tool') = Waiters(tool) \ {c}
      /\ PermitsOut(tool') = PermitsOut(tool) - 1
  BY TakeNowLemma DEF ArriveAdmitted, ToolInv, Locked
<1> QED BY <1>1, <1>2, ToolAdmitInv DEF ArriveAdmitted

LEMMA AdmittedTool ==
  ASSUME ToolTypeOK, ToolInv, NEW c \in Calls, Admitted(c)
  PROVE  ToolInv'
<1>1. c \in tool.woken /\ c \notin Inside
  BY DEF Admitted, ToolInv, Waiters, Waiting, Inside
<1>2. /\ SemInv(tool', Calls) /\ Waiters(tool') = Waiters(tool) \ {c}
      /\ PermitsOut(tool') = PermitsOut(tool) - 1
  BY <1>1, ResumeLemma, CallsAssumption DEF Admitted, ToolInv
<1> QED BY <1>1, <1>2, ToolAdmitInv DEF Admitted

LEMMA ArriveQueuedTool ==
  ASSUME ToolTypeOK, ToolInv, NEW c \in Calls, ArriveQueued(c)
  PROVE  ToolInv'
<1>1. /\ pc \in [Calls -> Pcs] /\ c \notin Inside /\ c \notin Waiters(tool)
      /\ pc' = [pc EXCEPT ![c] = "waiting"]
  BY DEF ArriveQueued, Arrives, Inside, ToolTypeOK, ToolInv, Waiting
<1>2. /\ SemInv(tool', Calls) /\ Waiters(tool') = Waiters(tool) \cup {c}
      /\ PermitsOut(tool') = PermitsOut(tool)
  BY <1>1, EnqueueLemma DEF ArriveQueued, ToolInv
<1>3. Waiters(tool') = Waiting'
  BY <1>1, <1>2 DEF ToolInv, Waiting
<1>4. Inside' = Inside
  BY <1>1 DEF Inside
<1> QED BY <1>2, <1>3, <1>4 DEF ToolInv

LEMMA FinishTool ==
  ASSUME ToolTypeOK, ToolInv, NEW c \in Calls, Finish(c)
  PROVE  ToolInv'
<1>1. /\ pc \in [Calls -> Pcs] /\ c \in Inside /\ c \notin Waiting
      /\ pc' = [pc EXCEPT ![c] = "done"]
  BY DEF Finish, Inside, ToolTypeOK, Waiting
<1>2. /\ SemInv(tool', Calls) /\ Waiters(tool') = Waiters(tool)
      /\ PermitsOut(tool') = PermitsOut(tool) + 1
  BY ReleaseLemma, CallsAssumption DEF Finish, ToolInv, SemInv
<1>3. Waiters(tool') = Waiting'
  BY <1>1, <1>2 DEF ToolInv, Waiting
<1>4. Cardinality(Inside') = Cardinality(Inside) - 1 /\ Cardinality(Inside) \in Nat
  BY <1>1, InsideShrinks
<1>5. PermitsOut(tool) \in Nat /\ PermitsOut(tool) + Cardinality(Inside) = ToolLimit
  BY ToolPermitsType DEF ToolInv
<1> QED BY <1>2, <1>3, <1>4, <1>5 DEF ToolInv

\* A call that moves about inside its body keeps its tool permit.
LEMMA InsideTool ==
  ASSUME ToolTypeOK, ToolInv, tool' = tool, NEW c \in Inside,
         NEW to \in {"active", "incli", "cancelling", "returned"},
         pc' = [pc EXCEPT ![c] = to]
  PROVE  ToolInv'
<1>1. Inside' = Inside /\ Waiting' = Waiting
  BY DEF ToolTypeOK, Inside, Waiting
<1> QED BY <1>1 DEF ToolInv

LEMMA StillTool ==
  ASSUME ToolInv, tool' = tool, pc' = pc
  PROVE  ToolInv'
BY DEF ToolInv, Inside, Waiting

----------------------------------------------------------------------------
(* The cli tier under a call: arrival, and the three ways a cancelled run  *)
(* lets go of it.                                                          *)

LEMMA ArrivesCli ==
  ASSUME CliInv, NEW c \in Calls, Arrives(c)
  PROVE  CliInv'
<1>1. /\ stage \in [Calls -> Stages] /\ stage[c] \in {"idle", "ended"}
      /\ stage' = [stage EXCEPT ![c] = "idle"] /\ cli' = cli
  BY DEF CliInv, CliTypeOK, Arrives, MayRun
<1>2. Holding' = Holding /\ Queued' = Queued
  BY <1>1 DEF Holding, Queued, InSection
<1>3. CliTypeOK'
  BY <1>1 DEF CliInv, CliTypeOK, Arrives, Stages, Procs, Replies
<1> QED BY <1>1, <1>2, <1>3 DEF CliInv, CliPermitsConserved

LEMMA OuterTimeoutCli ==
  ASSUME CliInv, NEW c \in Calls, OuterTimeout(c)
  PROVE  CliInv' /\ c \notin Pending(cli')
<1>1. UNCHANGED <<stage, proc, timer, reply>>
  BY DEF OuterTimeout
<1>2. Holding' = Holding /\ Queued' = Queued
  BY <1>1 DEF Holding, Queued
<1>3. /\ SemInv(cli', Calls) /\ Waiters(cli') \subseteq Waiters(cli)
      /\ PermitsOut(cli') = PermitsOut(cli) /\ c \notin Pending(cli')
  <2>1. CASE c \in Pending(cli)
    <3>1. cli' = CancelPending(cli, c)
      BY <2>1 DEF OuterTimeout
    <3>2. /\ SemInv(cli', Calls) /\ Waiters(cli') = Waiters(cli) \ {c}
          /\ PermitsOut(cli') = PermitsOut(cli)
      BY <2>1, <3>1, CancelPendingLemma DEF CliInv
    <3> QED BY <3>2 DEF Waiters
  <2>2. CASE c \notin Pending(cli)
    BY <2>2 DEF OuterTimeout, CliInv
  <2> QED BY <2>1, <2>2
<1>4. CliTypeOK'
  BY <1>1, <1>3 DEF CliInv, CliTypeOK, SemInv
<1> QED BY <1>2, <1>3, <1>4 DEF CliInv, CliPermitsConserved

\* Whatever stage a cancelled run is in, its permits go back and no others do.
LEMMA UnwindCli ==
  ASSUME CliInv, NEW c \in Calls, c \notin Pending(cli), LeaveCliSection(c)
  PROVE  /\ CliInv'
         /\ Waiters(cli') = Waiters(cli) \ {c}
         /\ Pending(cli') \subseteq Pending(cli)
         /\ stage'[c] \in {"idle", "ended"}
<1> USE DEF CliInv
<1>1. /\ stage \in [Calls -> Stages] /\ proc' = proc
      /\ stage' = [stage EXCEPT ![c] = IF @ = "idle" THEN "idle" ELSE "ended"]
  BY DEF CliTypeOK, LeaveCliSection
<1>2. stage'[c] \in {"idle", "ended"} /\ stage' \in [Calls -> Stages]
  BY <1>1 DEF Stages
<1>3. Queued' = Queued \ {c}
  BY <1>1 DEF Queued
<1>4. timer' \in [Calls -> 0..(Timeout + Grace)] /\ reply' \in [Calls -> Replies]
  <2>1. 0 \in 0..(Timeout + Grace)
    BY TimesAssumption
  <2> QED BY <2>1 DEF CliTypeOK, LeaveCliSection, Replies
<1>5. CASE c \in cli.woken
  <2>1. cli' = CancelWoken(cli, c)
    <3>1. c \notin Holding
      BY <1>5 DEF Waiters, Queued, Holding, InSection
    <3> QED BY <1>5, <3>1 DEF LeaveCliSection
  <2>2. /\ SemInv(cli', Calls) /\ Waiters(cli') = Waiters(cli) \ {c}
        /\ PermitsOut(cli') = PermitsOut(cli) /\ Pending(cli') \subseteq Pending(cli)
    BY <1>5, <2>1, CancelWokenLemma, QueueShortens, CallsAssumption
  <2>3. Holding' = Holding
    <3>1. c \in Queued
      BY <1>5 DEF Waiters
    <3> QED BY <1>1, <3>1 DEF Queued, Holding, InSection
  <2> QED BY <1>1, <1>2, <1>3, <1>4, <2>2, <2>3 DEF CliTypeOK, SemInv, CliPermitsConserved
<1>6. CASE c \in Holding
  <2>1. c \notin Queued /\ c \notin Waiters(cli)
    BY <1>6 DEF Holding, Queued, InSection
  <2>2. EndRun(c, "cancelled")
    <3>1. cli' = Release(cli)
      BY <1>6, <2>1 DEF LeaveCliSection, Waiters
    <3>2. stage[c] # "idle"
      BY <1>6 DEF Holding, InSection
    <3> QED BY <3>1, <3>2 DEF LeaveCliSection, EndRun
  <2>3. CliInv'
    BY <1>1, <1>6, <2>2, EndRunInv DEF Replies
  <2>4. Waiters(cli') = Waiters(cli) /\ Pending(cli') \subseteq Pending(cli)
    BY <2>2, ReleaseLemma, QueueShortens, CallsAssumption DEF EndRun, SemInv
  <2> QED BY <1>2, <2>1, <2>3, <2>4
<1>7. CASE c \notin cli.woken /\ c \notin Holding
  <2>1. cli' = cli /\ c \notin Waiters(cli)
    BY <1>7 DEF LeaveCliSection, Waiters
  <2>2. Holding' = Holding
    BY <1>1, <1>7 DEF Holding, InSection
  <2> QED BY <1>1, <1>2, <1>3, <1>4, <2>1, <2>2 DEF CliTypeOK, CliPermitsConserved
<1> QED BY <1>5, <1>6, <1>7

\* What the steps of a run do to the queue: only RunQueues lengthens it.
LEMMA CliStepQueue ==
  ASSUME CliInv, NEW c \in Calls, Proceed(c)
  PROVE  Pending(cli') \subseteq Pending(cli)
<1>1. CASE Enter(c)
  BY <1>1, QueueShortens, CallsAssumption DEF CliInv, Enter
<1>2. CASE Spawn(c) \/ RunTimesOut(c) \/ GraceExpires(c)
  BY <1>2 DEF Spawn, RunTimesOut, GraceExpires
<1>3. CASE SpawnFails(c) \/ Collect(c) \/ TimeoutFindsExited(c) \/ CollectTerminated(c)
  BY <1>3, QueueShortens, CallsAssumption
     DEF CliInv, SpawnFails, Collect, TimeoutFindsExited, CollectTerminated, EndRun
<1> QED BY <1>1, <1>2, <1>3 DEF Proceed

\* ... and it touches the stage of one run only, which is in the cli tier.
LEMMA CliStepStage ==
  ASSUME CliInv, NEW c \in Calls, Proceed(c)
  PROVE  /\ c \in InCliTier
         /\ \E to \in Stages : stage' = [stage EXCEPT ![c] = to]
<1>1. CASE Enter(c)
  BY <1>1 DEF CliInv, Enter, Waiters, InCliTier, Stages
<1>2. CASE Spawn(c) \/ RunTimesOut(c) \/ GraceExpires(c)
  BY <1>2 DEF Spawn, RunTimesOut, GraceExpires, InCliTier, Holding, InSection, Stages
<1>3. CASE SpawnFails(c) \/ Collect(c) \/ TimeoutFindsExited(c) \/ CollectTerminated(c)
  BY <1>3 DEF SpawnFails, Collect, TimeoutFindsExited, CollectTerminated, EndRun,
              InCliTier, Holding, InSection, Stages
<1> QED BY <1>1, <1>2, <1>3 DEF Proceed

\* The same for the start of a run.
LEMMA RunStep ==
  ASSUME CliInv, NEW c \in Calls, Run(c)
  PROVE  /\ Pending(cli') \subseteq Pending(cli) \cup {c}
         /\ \E to \in Stages : stage' = [stage EXCEPT ![c] = to]
<1>1. CASE RunAtOnce(c)
  <2>1. Waiters(cli') = {}
    BY <1>1, TakeNowLemma DEF CliInv, RunAtOnce
  <2> QED BY <1>1, <2>1 DEF Waiters, RunAtOnce, Stages
<1>2. CASE RunQueues(c)
  <2>1. c \notin Waiters(cli)
    BY <1>2 DEF CliInv, RunQueues, MayRun, Queued
  <2>2. /\ Waiters(cli') = Waiters(cli) \cup {c} /\ cli'.woken = cli.woken
        /\ WellQueued(cli')
    BY <1>2, <2>1, EnqueueLemma DEF CliInv, SemInv, RunQueues
  <2>3. Pending(cli') \subseteq Pending(cli) \cup {c}
    BY <2>2 DEF WellQueued, Waiters
  <2> QED BY <1>2, <2>3 DEF RunQueues, Stages
<1> QED BY <1>1, <1>2 DEF Run

----------------------------------------------------------------------------
(* ServerInv, one lemma per group of actions.                              *)

LEMMA ArriveInv ==
  ASSUME ServerInv, NEW c \in Calls, ArriveAdmitted(c) \/ ArriveQueued(c)
  PROVE  ServerInv'
<1> USE DEF ServerInv
<1>1. Arrives(c) /\ pc[c] \in {"new", "done"}
  BY DEF ArriveAdmitted, ArriveQueued, Arrives
<1>2. CliInv'
  BY <1>1, ArrivesCli
<1>3. ToolInv'
  BY ArriveAdmittedTool, ArriveQueuedTool
<1>4. PICK to \in {"active", "waiting"} : pc' = [pc EXCEPT ![c] = to]
  BY DEF ArriveAdmitted, ArriveQueued
<1>5. ToolTypeOK'
  <2>1. Budget(c) \in 0..(Timeout + Margin)
    BY TimesAssumption, MarginAssumption DEF Budget
  <2>2. answer' \in [Calls -> Answers]
    BY <1>1 DEF Arrives, ToolTypeOK, Answers
  <2>3. outer' \in [Calls -> 0..(Timeout + Margin)]
    BY <2>1 DEF ArriveAdmitted, ArriveQueued, ToolTypeOK
  <2> QED BY <1>4, <2>2, <2>3 DEF ToolTypeOK, Pcs
<1>6. Linked'
  <2>1. cli' = cli /\ stage' = [stage EXCEPT ![c] = "idle"] /\ stage \in [Calls -> Stages]
    BY <1>1 DEF Arrives, CliInv, CliTypeOK
  <2>2. InCliTier' \subseteq InCliTier /\ c \notin InCliTier'
    BY <2>1 DEF InCliTier, Queued, Holding, InSection
  <2> QED BY <1>4, <2>1, <2>2 DEF Linked, ToolTypeOK, InCliTier, Queued, Holding
<1> QED BY <1>2, <1>3, <1>5, <1>6

\* Steps of the tool tier alone: they leave every run as it is.
LEMMA AdmittedInv ==
  ASSUME ServerInv, NEW c \in Calls, Admitted(c)
  PROVE  ServerInv'
<1> USE DEF ServerInv
<1>1. UNCHANGED cliVars
  BY DEF Admitted
<1>2. CliInv'
  BY <1>1, CliNextInv
<1>3. ToolInv'
  BY AdmittedTool
<1>4. pc[c] = "waiting"
  BY DEF Admitted, ToolInv, Waiters, Waiting
<1>5. ToolTypeOK'
  <2>1. Budget(c) \in 0..(Timeout + Margin)
    BY TimesAssumption, MarginAssumption DEF Budget
  <2> QED BY <2>1 DEF Admitted, ToolTypeOK, Pcs
<1>6. Linked'
  BY <1>1, <1>4 DEF Admitted, Linked, ToolTypeOK, cliVars, InCliTier, Queued, Holding
<1> QED BY <1>2, <1>3, <1>5, <1>6

LEMMA FinishInv ==
  ASSUME ServerInv, NEW c \in Calls, Finish(c)
  PROVE  ServerInv'
<1> USE DEF ServerInv
<1>1. UNCHANGED cliVars
  BY DEF Finish
<1>2. CliInv'
  BY <1>1, CliNextInv
<1>3. ToolInv'
  BY FinishTool
<1>4. ToolTypeOK'
  BY DEF Finish, ToolTypeOK, Pcs
<1>5. Linked'
  BY <1>1 DEF Finish, Linked, ToolTypeOK, cliVars, InCliTier, Queued, Holding
<1> QED BY <1>2, <1>3, <1>4, <1>5

\* A body that ends outside of the cli tier, or has just left it.
LEMMA BodyEndsInv ==
  ASSUME ServerInv, NEW c \in Inside, NEW with \in Answers, BodyEnds(c, with), CliInv',
         c \notin InCliTier', InCliTier' \subseteq InCliTier, Pending(cli') \subseteq Pending(cli)
  PROVE  ServerInv'
<1> USE DEF ServerInv
<1>1. c \in Calls /\ pc' = [pc EXCEPT ![c] = "returned"] /\ tool' = tool
  BY DEF BodyEnds, Inside
<1>2. ToolInv'
  BY <1>1, InsideTool
<1>3. ToolTypeOK'
  <2>1. 0 \in 0..(Timeout + Margin)
    BY TimesAssumption, MarginAssumption
  <2> QED BY <1>1, <2>1 DEF BodyEnds, ToolTypeOK, Pcs
<1>4. Linked'
  <2>1. \A d \in InCliTier' : d \in CliCalls /\ pc'[d] \in {"incli", "cancelling"}
    BY <1>1 DEF Linked, ToolTypeOK
  <2>2. \A d \in Calls : pc'[d] = "cancelling" => d \notin Pending(cli')
    BY <1>1 DEF Linked, ToolTypeOK
  <2> QED BY <2>1, <2>2 DEF Linked
<1> QED BY <1>2, <1>3, <1>4

LEMMA EarlyEndInv ==
  ASSUME ServerInv, NEW c \in Calls, BodyRejects(c) \/ AdminReturns(c)
  PROVE  ServerInv'
<1>1. pc[c] = "active" /\ UNCHANGED cliVars
  BY DEF BodyRejects, AdminReturns
<1>2. CliInv'
  BY <1>1, CliNextInv DEF ServerInv
<1>3. c \in Inside /\ c \notin InCliTier
  BY <1>1 DEF ServerInv, Linked, Inside
<1>4. InCliTier' = InCliTier /\ Pending(cli') = Pending(cli)
  BY <1>1 DEF cliVars, InCliTier, Queued, Holding
<1>5. \E with \in Answers : BodyEnds(c, with)
  BY DEF BodyRejects, AdminReturns, Answers
<1> QED BY <1>2, <1>3, <1>4, <1>5, BodyEndsInv

\* A body moves to another place without ending.
LEMMA BodyMovesType ==
  ASSUME ToolTypeOK, NEW c \in Calls, NEW to \in Pcs, pc' = [pc EXCEPT ![c] = to],
         UNCHANGED <<outer, answer>>
  PROVE  ToolTypeOK'
BY DEF ToolTypeOK

LEMMA BodyRunsCliInv ==
  ASSUME ServerInv, NEW c \in Calls, BodyRunsCli(c)
  PROVE  ServerInv'
<1> USE DEF ServerInv
<1>1. /\ pc[c] = "active" /\ c \in CliCalls /\ c \in Inside /\ Run(c)
      /\ pc' = [pc EXCEPT ![c] = "incli"] /\ UNCHANGED <<tool, outer, answer>>
  BY DEF BodyRunsCli, Inside
<1>2. CliInv'
  BY <1>1, RunInv
<1>3. ToolInv'
  BY <1>1, InsideTool
<1>4. ToolTypeOK'
  BY <1>1, BodyMovesType DEF Pcs
<1>5. Linked'
  <2>1. PICK to \in Stages : stage' = [stage EXCEPT ![c] = to]
    BY <1>1, RunStep
  <2>2. InCliTier' \subseteq InCliTier \cup {c}
    BY <2>1 DEF InCliTier, Queued, Holding, CliInv, CliTypeOK
  <2>3. Pending(cli') \subseteq Pending(cli) \cup {c}
    BY <1>1, RunStep
  <2>4. \A d \in InCliTier' : d \in CliCalls /\ pc'[d] \in {"incli", "cancelling"}
    BY <1>1, <2>2 DEF Linked, ToolTypeOK
  <2>5. \A d \in Calls : pc'[d] = "cancelling" => d \notin Pending(cli')
    BY <1>1, <2>3 DEF Linked, ToolTypeOK
  <2> QED BY <2>4, <2>5 DEF Linked
<1> QED BY <1>2, <1>3, <1>4, <1>5

LEMMA CliContinuesInv ==
  ASSUME ServerInv, NEW c \in Calls, CliContinues(c)
  PROVE  ServerInv'
<1> USE DEF ServerInv
<1>1. Proceed(c) /\ UNCHANGED toolVars
  BY DEF CliContinues, Proceed
<1>2. CliInv'
  BY <1>1, ProceedInv
<1>3. ToolInv' /\ ToolTypeOK'
  BY <1>1, StillTool DEF toolVars, ToolTypeOK
<1>4. Linked'
  <2>1. c \in InCliTier /\ \E to \in Stages : stage' = [stage EXCEPT ![c] = to]
    BY <1>1, CliStepStage
  <2>2. InCliTier' \subseteq InCliTier
    BY <2>1 DEF InCliTier, Queued, Holding, CliInv, CliTypeOK
  <2>3. Pending(cli') \subseteq Pending(cli)
    BY <1>1, CliStepQueue
  <2> QED BY <1>1, <2>2, <2>3 DEF Linked, toolVars
<1> QED BY <1>2, <1>3, <1>4

\* run() came to an end, in time or too late to be cancelled.
LEMMA RunEndsInv ==
  ASSUME ServerInv, NEW c \in Calls, CliReturns(c) \/ CancelTooLate(c)
  PROVE  ServerInv'
<1> USE DEF ServerInv
<1>1. SpawnFails(c) \/ Collect(c) \/ TimeoutFindsExited(c) \/ CollectTerminated(c)
  BY DEF CliReturns, CancelTooLate
<1>2. CliInv' /\ Pending(cli') \subseteq Pending(cli)
  BY <1>1, ProceedInv, CliStepQueue DEF Proceed
<1>3. c \in Inside
  BY DEF CliReturns, CancelTooLate, Inside
<1>4. \E with \in Answers : BodyEnds(c, with)
  BY DEF CliReturns, CancelTooLate, Answers
<1>5. c \notin InCliTier' /\ InCliTier' \subseteq InCliTier
  <2>1. stage \in [Calls -> Stages] /\ stage' = [stage EXCEPT ![c] = "ended"]
    BY <1>1 DEF CliInv, CliTypeOK, SpawnFails, Collect, TimeoutFindsExited,
                CollectTerminated, EndRun
  <2> QED BY <2>1 DEF InCliTier, Queued, Holding, InSection
<1> QED BY <1>2, <1>3, <1>4, <1>5, BodyEndsInv

LEMMA OuterTimeoutInv ==
  ASSUME ServerInv, NEW c \in Calls, OuterTimeout(c)
  PROVE  ServerInv'
<1> USE DEF ServerInv
<1>1. /\ pc[c] \in {"active", "incli"} /\ c \in Inside
      /\ pc' = [pc EXCEPT ![c] = "cancelling"] /\ UNCHANGED <<stage, tool, outer, answer>>
  BY DEF OuterTimeout, OnDeadline, Inside
<1>2. CliInv' /\ c \notin Pending(cli')
  BY OuterTimeoutCli
<1>3. ToolInv'
  BY <1>1, InsideTool
<1>4. ToolTypeOK'
  BY <1>1, BodyMovesType DEF Pcs
<1>5. Linked'
  <2>1. InCliTier' = InCliTier
    BY <1>1 DEF InCliTier, Queued, Holding
  <2>2. Pending(cli') \subseteq Pending(cli)
    BY QueueShortens, CallsAssumption DEF OuterTimeout, CliInv
  <2>3. \A d \in InCliTier' : d \in CliCalls /\ pc'[d] \in {"incli", "cancelling"}
    BY <1>1, <2>1 DEF Linked, ToolTypeOK
  <2>4. \A d \in Calls : pc'[d] = "cancelling" => d \notin Pending(cli')
    BY <1>1, <1>2, <2>2 DEF Linked, ToolTypeOK
  <2> QED BY <2>3, <2>4 DEF Linked
<1> QED BY <1>2, <1>3, <1>4, <1>5

LEMMA UnwindInv ==
  ASSUME ServerInv, NEW c \in Calls, Unwind(c)
  PROVE  ServerInv'
<1> USE DEF ServerInv
<1>1. c \in Inside /\ c \notin Pending(cli) /\ LeaveCliSection(c) /\ BodyEnds(c, "raised")
  BY DEF Unwind, Inside, Linked
<1>2. CliInv' /\ Pending(cli') \subseteq Pending(cli) /\ stage'[c] \in {"idle", "ended"}
  BY <1>1, UnwindCli
<1>3. c \notin InCliTier' /\ InCliTier' \subseteq InCliTier
  BY <1>1, <1>2 DEF LeaveCliSection, InCliTier, Queued, Holding, InSection, CliInv, CliTypeOK
<1> QED BY <1>1, <1>2, <1>3, BodyEndsInv DEF Answers

\* Time and the operating system.
LEMMA ServerTickInv ==
  ASSUME ServerInv, ServerTick
  PROVE  ServerInv'
<1> USE DEF ServerInv
<1>1. CliInv'
  <2>1. timer' \in [Calls -> 0..(Timeout + Grace)]
    BY ElapseType DEF CliInv, ServerTick
  <2> QED BY <2>1, OutsideInv DEF ServerTick, CliInv, CliTypeOK
<1>2. ToolInv'
  BY StillTool DEF ServerTick
<1>3. ToolTypeOK'
  BY TimesAssumption, MarginAssumption DEF ServerTick, ToolTypeOK, OnDeadline
<1>4. Linked'
  BY DEF ServerTick, Linked, InCliTier, Queued, Holding
<1> QED BY <1>1, <1>2, <1>3, <1>4

LEMMA OsStepInv ==
  ASSUME ServerInv, NEW c \in Calls, OsStep(c)
  PROVE  ServerInv'
<1> USE DEF ServerInv
<1>1. CliInv'
  BY OsInv DEF OsStep
<1>2. ToolInv' /\ ToolTypeOK'
  BY StillTool DEF OsStep, toolVars, ToolTypeOK
<1>3. Linked'
  BY DEF OsStep, toolVars, ProcessExits, KillTakesEffect, Linked, InCliTier, Queued, Holding
<1> QED BY <1>1, <1>2, <1>3

LEMMA ServerNextInv == ServerInv /\ [Next]_vars => ServerInv'
<1> SUFFICES ASSUME ServerInv, [Next]_vars PROVE ServerInv'
  OBVIOUS
<1>1. ASSUME NEW c \in Calls,
             \/ ArriveAdmitted(c) \/ ArriveQueued(c) \/ BodyRejects(c) \/ AdminReturns(c)
             \/ Advance(c) \/ OsStep(c)
      PROVE  ServerInv'
  BY <1>1, ArriveInv, EarlyEndInv, AdmittedInv, BodyRunsCliInv, CliContinuesInv, RunEndsInv,
     OuterTimeoutInv, UnwindInv, FinishInv, OsStepInv DEF Advance
<1>2. CASE ServerTick
  BY <1>2, ServerTickInv
<1>3. CASE UNCHANGED vars
  <2>1. UNCHANGED cliVars /\ UNCHANGED toolVars
    BY <1>3 DEF vars
  <2>2. CliInv'
    BY <2>1, CliNextInv DEF ServerInv
  <2>3. ToolInv' /\ ToolTypeOK'
    BY <2>1, StillTool DEF ServerInv, toolVars, ToolTypeOK
  <2>4. Linked'
    BY <2>1 DEF ServerInv, cliVars, toolVars, Linked, InCliTier, Queued, Holding
  <2> QED BY <2>2, <2>3, <2>4 DEF ServerInv
<1> QED BY <1>1, <1>2, <1>3 DEF Next

LEMMA ServerInvariant == Safety => []ServerInv
BY ServerInitInv, ServerNextInv, PTL DEF Safety

\* Deadlines and cancellations leave the state of every call in its types (run_tool).
THEOREM ServerTypesTheorem == Safety => []TypeOK
<1>1. ServerInv => TypeOK
  BY DEF ServerInv, CliInv, ToolInv, ToolTypeOK, SemInv, TypeOK
<1> QED BY <1>1, ServerInvariant, PTL

\* The two sums that say no permit is ever lost or doubled: not by a deadline, a
\* cancellation in any stage, or a failure.
THEOREM ServerPermitsTheorem == Safety => []PermitsConserved
<1>1. ServerInv => PermitsConserved
  BY DEF ServerInv, CliInv, ToolInv, SemInv, PermitsConserved
<1> QED BY <1>1, ServerInvariant, PTL

\* No wake-up is lost in either tier, whoever is cancelled.
THEOREM WakeupsKeptTheorem == Safety => []WakeupsKept
<1>1. ServerInv => WakeupsKept
  BY DEF ServerInv, CliInv, ToolInv, SemInv, WakeupsKept, CliNoLostWakeup
<1> QED BY <1>1, ServerInvariant, PTL

\* A call that is over holds nothing of either tier.
THEOREM NothingKeptTheorem == Safety => []NothingKept
<1>1. ServerInv => NothingKept
  <2> SUFFICES ASSUME ServerInv, NEW c \in Calls
               PROVE  /\ pc[c] \in {"new", "waiting", "returned", "done"} =>
                           c \notin Waiters(cli) \cup Holding
                      /\ pc[c] \in {"new", "done"} => c \notin Waiters(tool)
    BY DEF NothingKept
  <2>1. c \in Waiters(cli) \cup Holding => pc[c] \in {"incli", "cancelling"}
    BY DEF ServerInv, CliInv, Linked, InCliTier
  <2>2. c \in Waiters(tool) => pc[c] = "waiting"
    BY DEF ServerInv, ToolInv, Waiting
  <2> QED BY <2>1, <2>2
<1> QED BY <1>1, ServerInvariant, PTL

----------------------------------------------------------------------------
(* Subprocesses.  Owned says whose fault a live subprocess may be: a run   *)
(* still in charge of it, or a call that was cancelled.                    *)

Owned ==
  \A c \in Alive : \/ stage[c] \in {"running", "terminating", "killing"}
                   \/ pc[c] \in {"returned", "done"} /\ answer[c] = "raised"

LEMMA OwnedStep ==
  ASSUME ServerInv, Owned, [Next]_vars
  PROVE  Owned'
<1> USE DEF Owned, Alive
<1>1. /\ stage \in [Calls -> Stages] /\ proc \in [Calls -> Procs]
      /\ pc \in [Calls -> Pcs] /\ answer \in [Calls -> Answers]
  BY DEF ServerInv, CliInv, CliTypeOK, ToolTypeOK
<1>2. ASSUME NEW c \in Calls, ArriveAdmitted(c) \/ ArriveQueued(c) PROVE Owned'
  <2>1. /\ stage' = [stage EXCEPT ![c] = "idle"] /\ proc' = [proc EXCEPT ![c] = "none"]
        /\ answer' = [answer EXCEPT ![c] = "none"]
        /\ \E to \in Pcs : pc' = [pc EXCEPT ![c] = to]
    BY <1>2 DEF ArriveAdmitted, ArriveQueued, Arrives, Pcs
  <2> QED BY <1>1, <2>1
<1>3. ASSUME NEW c \in Calls, Admitted(c) PROVE Owned'
  <2>1. pc[c] = "waiting"
    BY <1>3 DEF Admitted, ServerInv, ToolInv, Waiters, Waiting
  <2> QED BY <1>1, <1>3, <2>1 DEF Admitted, cliVars
<1>4. ASSUME NEW c \in Calls, BodyRejects(c) \/ AdminReturns(c) PROVE Owned'
  <2>1. /\ pc[c] = "active" /\ UNCHANGED cliVars
        /\ pc' = [pc EXCEPT ![c] = "returned"]
        /\ \E with \in Answers : answer' = [answer EXCEPT ![c] = with]
    BY <1>4 DEF BodyRejects, AdminReturns, BodyEnds, Answers
  <2>2. c \notin Alive
    BY <2>1 DEF ServerInv, Linked, InCliTier, Holding, InSection
  <2> QED BY <1>1, <2>1, <2>2 DEF cliVars
<1>5. ASSUME NEW c \in Calls, BodyRunsCli(c) PROVE Owned'
  <2>1. /\ proc' = [proc EXCEPT ![c] = "none"] /\ UNCHANGED answer
        /\ pc' = [pc EXCEPT ![c] = "incli"]
        /\ \E to \in Stages : stage' = [stage EXCEPT ![c] = to]
    BY <1>5 DEF BodyRunsCli, Run, RunAtOnce, RunQueues, Stages
  <2> QED BY <1>1, <2>1
<1>6. ASSUME NEW c \in Calls, CliContinues(c) PROVE Owned'
  <2>1. UNCHANGED toolVars /\ pc[c] = "incli"
    BY <1>6 DEF CliContinues
  <2>2. CASE Enter(c)
    <3>1. stage[c] = "queued"
      BY <2>2 DEF Enter, ServerInv, CliInv, Waiters, Queued
    <3> QED BY <1>1, <2>1, <2>2, <3>1 DEF Enter, toolVars
  <2>3. CASE Spawn(c) \/ RunTimesOut(c) \/ GraceExpires(c)
    BY <1>1, <2>1, <2>3 DEF Spawn, RunTimesOut, GraceExpires, toolVars
  <2> QED BY <1>6, <2>2, <2>3 DEF CliContinues
<1>7. ASSUME NEW c \in Calls, CliReturns(c) \/ CancelTooLate(c) PROVE Owned'
  <2>1. SpawnFails(c) \/ Collect(c) \/ TimeoutFindsExited(c) \/ CollectTerminated(c)
    BY <1>7 DEF CliReturns, CancelTooLate
  <2>2. /\ pc[c] \in {"incli", "cancelling"} /\ pc' = [pc EXCEPT ![c] = "returned"]
        /\ \E with \in Answers : answer' = [answer EXCEPT ![c] = with]
    BY <1>7 DEF CliReturns, CancelTooLate, BodyEnds, Answers
  <2>3. /\ proc' = proc /\ stage' = [stage EXCEPT ![c] = "ended"]
        /\ stage[c] = "spawning" \/ proc[c] = "exited"
    BY <2>1 DEF SpawnFails, Collect, TimeoutFindsExited, CollectTerminated, EndRun
  <2>4. c \notin Alive
    BY <2>2, <2>3
  <2> QED BY <1>1, <2>2, <2>3, <2>4
<1>8. ASSUME NEW c \in Calls, OuterTimeout(c) PROVE Owned'
  BY <1>1, <1>8 DEF OuterTimeout, OnDeadline
<1>9. ASSUME NEW c \in Calls, Unwind(c) PROVE Owned'
  <2>1. /\ pc' = [pc EXCEPT ![c] = "returned"] /\ answer' = [answer EXCEPT ![c] = "raised"]
        /\ proc' = proc /\ \E to : stage' = [stage EXCEPT ![c] = to]
    BY <1>9 DEF Unwind, BodyEnds, LeaveCliSection
  <2> QED BY <1>1, <2>1
<1>10. ASSUME NEW c \in Calls, Finish(c) PROVE Owned'
  BY <1>1, <1>10 DEF Finish, cliVars
<1>11. ASSUME NEW c \in Calls, OsStep(c) PROVE Owned'
  BY <1>1, <1>11 DEF OsStep, toolVars, ProcessExits, KillTakesEffect
<1>12. CASE ServerTick
  BY <1>12 DEF ServerTick
<1>13. CASE UNCHANGED vars
  BY <1>13 DEF vars, cliVars, toolVars
<1> QED BY <1>2, <1>3, <1>4, <1>5, <1>6, <1>7, <1>8, <1>9, <1>10, <1>11, <1>12, <1>13
        DEF Next, Advance

\* A result or an envelope is returned only once the subprocess is gone.
THEOREM AnsweredMeansReapedTheorem == Safety => []AnsweredMeansReaped
<1>1. Init => Owned
  BY DEF Init, CliInit, Owned, Alive
<1>2. ServerInv /\ Owned /\ [Next]_vars => Owned'
  BY OwnedStep
<1>3. ServerInv /\ Owned => AnsweredMeansReaped
  BY DEF ServerInv, Linked, InCliTier, Holding, InSection, Owned, AnsweredMeansReaped, Alive
<1> QED BY <1>1, <1>2, <1>3, ServerInvariant, PTL DEF Safety

----------------------------------------------------------------------------
(* Progress: something can always be done, and whatever is done brings a   *)
(* call nearer to its end.                                                 *)

\* If a call waits for a tool permit and nobody is being given one, the permits are all
\* with calls that are admitted; such a call has its budget, or ends.
LEMMA ServerNeverStuck == Safety => []NeverStuck
<1>1. ServerInv => NeverStuck
  <2> SUFFICES ASSUME ServerInv, NEW c \in Calls, pc[c] \notin {"new", "done"},
                      \A d \in Calls : ~CanAdvance(d)
               PROVE  CanTick
    BY DEF NeverStuck
  <2>1. Inside # {}
    <3>1. CASE c \in Inside
      BY <3>1
    <3>2. CASE c \notin Inside
      <4>1. pc[c] = "waiting"
        BY <3>2 DEF ServerInv, ToolTypeOK, Pcs, Inside
      <4>2. tool.woken = {} /\ tool.queue # <<>>
        <5>1. tool.woken \subseteq Calls
          BY DEF ServerInv, ToolInv, SemInv, Semaphores
        <5>2. tool.woken = {}
          BY <5>1 DEF CanAdvance
        <5>3. c \in Pending(tool)
          BY <4>1, <5>2 DEF ServerInv, ToolInv, Waiters, Waiting
        <5> QED BY <5>2, <5>3 DEF Pending, Elements
      <4>3. tool.value = 0
        BY <4>2 DEF ServerInv, ToolInv, SemInv, NoLostWakeup, Semaphores
      <4>4. PermitsOut(tool) = 0
        BY <4>2, <4>3, FS_EmptySet DEF PermitsOut
      <4>5. Cardinality(Inside) # 0
        BY <4>4, ToolLimitAssumption DEF ServerInv, ToolInv
      <4> QED BY <4>5, FS_EmptySet
    <3> QED BY <3>1, <3>2
  <2>2. Inside \subseteq OnDeadline
    BY DEF Inside, OnDeadline, CanAdvance
  <2>3. \A d \in OnDeadline : outer[d] > 0
    BY DEF OnDeadline, CanAdvance, ServerInv, ToolTypeOK
  <2>4. ASSUME NEW d \in TimedRuns PROVE timer[d] > 0
    <3>1. d \in Calls /\ stage[d] \in Timed /\ d \in InCliTier
      BY DEF TimedRuns, InCliTier, Holding, InSection, Timed
    <3>2. pc[d] = "incli"
      BY <3>1 DEF ServerInv, Linked, CanAdvance
    <3> QED BY <3>1, <3>2 DEF CanAdvance, ServerInv, CliInv, CliTypeOK
  <2> QED BY <2>1, <2>2, <2>3, <2>4 DEF CanTick
<1> QED BY <1>1, ServerInvariant, PTL

\* A step that touches c alone.
Touches(c) ==
  \A d \in Calls \ {c} :
    pc'[d] = pc[d] /\ outer'[d] = outer[d] /\ stage'[d] = stage[d] /\ proc'[d] = proc[d]

LEMMA OthersStay ==
  ASSUME NEW c \in Calls, Touches(c)
  PROVE  \A d \in Calls \ {c} : StepsLeft(d)' = StepsLeft(d)
BY DEF Touches, StepsLeft, CallLeft, RunLeft, ProcLeft

\* What is left, by the place of a call.
Places ==
  \A c \in Calls :
    /\ CallLeft(c) \in Nat /\ RunLeft(c) \in 0..7 /\ ProcLeft(c) \in 0..2 /\ outer[c] \in Nat
    /\ StepsLeft(c) = CallLeft(c) + ProcLeft(c)
    /\ pc[c] = "waiting"    => CallLeft(c) = 12 + Timeout + Margin
    /\ pc[c] = "active"     => CallLeft(c) = 11 + outer[c]
    /\ pc[c] = "incli"      => CallLeft(c) = 3 + RunLeft(c) + outer[c]
    /\ pc[c] = "cancelling" => CallLeft(c) = 2
    /\ pc[c] = "returned"   => CallLeft(c) = 1
    /\ pc[c] = "done"       => CallLeft(c) = 0

LEMMA LeftOver == ToolTypeOK => Places
<1> SUFFICES ASSUME ToolTypeOK, NEW c \in Calls
             PROVE  /\ CallLeft(c) \in Nat /\ RunLeft(c) \in 0..7 /\ ProcLeft(c) \in 0..2
                    /\ outer[c] \in Nat /\ StepsLeft(c) = CallLeft(c) + ProcLeft(c)
                    /\ pc[c] = "waiting"    => CallLeft(c) = 12 + Timeout + Margin
                    /\ pc[c] = "active"     => CallLeft(c) = 11 + outer[c]
                    /\ pc[c] = "incli"      => CallLeft(c) = 3 + RunLeft(c) + outer[c]
                    /\ pc[c] = "cancelling" => CallLeft(c) = 2
                    /\ pc[c] = "returned"   => CallLeft(c) = 1
                    /\ pc[c] = "done"       => CallLeft(c) = 0
  BY DEF Places
<1>1. outer[c] \in Nat /\ RunLeft(c) \in 0..7 /\ ProcLeft(c) \in 0..2
  BY DEF ToolTypeOK, RunLeft, ProcLeft
<1> QED
  BY <1>1, TimesAssumption, MarginAssumption DEF CallLeft, StepsLeft

LEMMA LeftOverNext == ToolTypeOK' => Places'
BY LeftOver, PTL

LEMMA LeftNatural ==
  ASSUME ServerInv, ServerInv', NEW c \in Calls
  PROVE  StepsLeft(c) \in Nat /\ StepsLeft(c)' \in Nat
<1>1. Places
  BY LeftOver DEF ServerInv
<1>2. Places'
  BY LeftOverNext DEF ServerInv
<1>3. StepsLeft(c) \in Nat
  BY <1>1 DEF Places
<1>4. StepsLeft(c)' \in Nat
  BY <1>2 DEF Places
<1> QED
  BY <1>3, <1>4

\* Going to its end, a call has less left whatever its run and its budget were.
LEMMA EndingCounts ==
  ASSUME ToolTypeOK, ToolTypeOK', NEW c \in Calls, proc' = proc,
         \/ pc[c] = "waiting" /\ pc'[c] = "active" /\ outer'[c] <= Timeout + Margin
         \/ pc[c] \in {"active", "incli"} /\ pc'[c] \in {"cancelling", "returned"}
         \/ pc[c] = "cancelling" /\ pc'[c] = "returned"
         \/ pc[c] = "returned" /\ pc'[c] = "done"
  PROVE  StepsLeft(c)' < StepsLeft(c)
<1>1. ProcLeft(c)' = ProcLeft(c)
  BY DEF ProcLeft
<1>2. /\ CallLeft(c)' \in Nat /\ outer'[c] \in Nat
      /\ StepsLeft(c)' = CallLeft(c)' + ProcLeft(c)'
      /\ pc'[c] = "active"     => CallLeft(c)' = 11 + outer'[c]
      /\ pc'[c] = "cancelling" => CallLeft(c)' = 2
      /\ pc'[c] = "returned"   => CallLeft(c)' = 1
      /\ pc'[c] = "done"       => CallLeft(c)' = 0
  BY LeftOverNext DEF Places
<1>3. CallLeft(c)' < CallLeft(c)
  BY <1>2, LeftOver, TimesAssumption, MarginAssumption DEF Places
<1> QED
  BY <1>1, <1>2, <1>3, LeftOver DEF Places

\* In its run, by the stage and what becomes of the subprocess.
LEMMA RunningCounts ==
  ASSUME ToolTypeOK, ToolTypeOK', NEW c \in Calls, pc[c] = "incli", pc' = pc, outer' = outer,
         RunLeft(c)' + ProcLeft(c)' < RunLeft(c) + ProcLeft(c)
  PROVE  StepsLeft(c)' < StepsLeft(c)
<1>1. /\ StepsLeft(c)' = CallLeft(c)' + ProcLeft(c)' /\ CallLeft(c)' = 3 + RunLeft(c)' + outer'[c]
      /\ RunLeft(c)' \in 0..7 /\ ProcLeft(c)' \in 0..2
  BY LeftOverNext DEF Places
<1> QED
  BY <1>1, LeftOver DEF Places

LEMMA ContinuesCounts ==
  ASSUME ServerInv, ServerInv', NEW c \in Calls, CliContinues(c)
  PROVE  Touches(c) /\ StepsLeft(c)' < StepsLeft(c)
<1>1. /\ pc[c] = "incli" /\ pc' = pc /\ outer' = outer
      /\ stage \in [Calls -> Stages] /\ proc \in [Calls -> Procs]
  BY DEF CliContinues, toolVars, ServerInv, CliInv, CliTypeOK
<1>2. CASE Enter(c)
  <2>1. stage[c] = "queued" /\ stage' = [stage EXCEPT ![c] = "spawning"] /\ proc' = proc
    BY <1>2 DEF Enter, ServerInv, CliInv, Waiters, Queued
  <2>2. RunLeft(c)' + ProcLeft(c)' < RunLeft(c) + ProcLeft(c)
    BY <1>1, <2>1 DEF RunLeft, ProcLeft
  <2> QED
    BY <1>1, <2>1, <2>2, RunningCounts DEF ServerInv, Touches
<1>3. CASE Spawn(c)
  <2>1. /\ stage[c] = "spawning" /\ stage' = [stage EXCEPT ![c] = "running"]
        /\ proc' = [proc EXCEPT ![c] = "live"]
    BY <1>3 DEF Spawn
  <2>2. RunLeft(c)' + ProcLeft(c)' < RunLeft(c) + ProcLeft(c)
    BY <1>1, <2>1 DEF RunLeft, ProcLeft
  <2> QED
    BY <1>1, <2>1, <2>2, RunningCounts DEF ServerInv, Touches
<1>4. CASE RunTimesOut(c)
  <2>1. stage[c] = "running" /\ stage' = [stage EXCEPT ![c] = "terminating"] /\ proc' = proc
    BY <1>4 DEF RunTimesOut
  <2>2. RunLeft(c)' + ProcLeft(c)' < RunLeft(c) + ProcLeft(c)
    BY <1>1, <2>1 DEF RunLeft, ProcLeft
  <2> QED
    BY <1>1, <2>1, <2>2, RunningCounts DEF ServerInv, Touches
<1>5. CASE GraceExpires(c)
  <2>1. /\ stage[c] = "terminating" /\ stage' = [stage EXCEPT ![c] = "killing"]
        /\ proc' = [proc EXCEPT ![c] = IF @ = "live" THEN "killed" ELSE @]
    BY <1>5 DEF GraceExpires
  <2>2. RunLeft(c)' + ProcLeft(c)' < RunLeft(c) + ProcLeft(c)
    BY <1>1, <2>1 DEF RunLeft, ProcLeft
  <2> QED
    BY <1>1, <2>1, <2>2, RunningCounts DEF ServerInv, Touches
<1> QED
  BY <1>2, <1>3, <1>4, <1>5 DEF CliContinues

LEMMA RunsCliCounts ==
  ASSUME ServerInv, ServerInv', NEW c \in Calls, BodyRunsCli(c)
  PROVE  Touches(c) /\ StepsLeft(c)' < StepsLeft(c)
<1>1. /\ pc[c] = "active" /\ pc' = [pc EXCEPT ![c] = "incli"] /\ outer' = outer
      /\ \E to \in {"spawning", "queued"} : stage' = [stage EXCEPT ![c] = to]
      /\ proc' = [proc EXCEPT ![c] = "none"]
  BY DEF BodyRunsCli, Run, RunAtOnce, RunQueues
<1>2. /\ pc \in [Calls -> Pcs] /\ stage \in [Calls -> Stages] /\ proc \in [Calls -> Procs]
  BY DEF ServerInv, ToolTypeOK, CliInv, CliTypeOK
<1>3. ProcLeft(c)' = 0
  BY <1>1, <1>2 DEF ProcLeft
<1>4. /\ StepsLeft(c)' = CallLeft(c)' + ProcLeft(c)' /\ CallLeft(c)' = 3 + RunLeft(c)' + outer'[c]
      /\ RunLeft(c)' \in 0..7
  BY <1>1, <1>2, LeftOverNext DEF ServerInv, Places
<1>5. StepsLeft(c)' < StepsLeft(c)
  BY <1>1, <1>3, <1>4, LeftOver DEF ServerInv, Places
<1> QED
  BY <1>1, <1>2, <1>5 DEF Touches

LEMMA OsCounts ==
  ASSUME ServerInv, NEW c \in Calls, OsStep(c)
  PROVE  Touches(c) /\ StepsLeft(c)' < StepsLeft(c)
<1>1. /\ pc' = pc /\ outer' = outer /\ stage' = stage
      /\ proc[c] \in {"live", "killed"} /\ proc' = [proc EXCEPT ![c] = "exited"]
  BY DEF OsStep, toolVars, ProcessExits, KillTakesEffect
<1>2. proc \in [Calls -> Procs]
  BY DEF ServerInv, CliInv, CliTypeOK
<1>3. ProcLeft(c)' < ProcLeft(c) /\ ProcLeft(c)' \in Int
  BY <1>1, <1>2 DEF ProcLeft
<1>4. CallLeft(c)' = CallLeft(c)
  BY <1>1 DEF CallLeft, RunLeft
<1>5. StepsLeft(c)' = CallLeft(c)' + ProcLeft(c)'
  BY DEF StepsLeft
<1> QED
  BY <1>1, <1>2, <1>3, <1>4, <1>5, LeftOver DEF Touches, ServerInv, Places

\* The other steps that a call makes once it is there.
LEMMA CallCounts ==
  ASSUME ServerInv, ServerInv', NEW c \in Calls,
         \/ Admitted(c) \/ BodyRejects(c) \/ AdminReturns(c) \/ CliReturns(c)
         \/ OuterTimeout(c) \/ CancelTooLate(c) \/ Unwind(c) \/ Finish(c)
  PROVE  Touches(c) /\ StepsLeft(c)' < StepsLeft(c)
<1> DEFINE Ended == stage' = [stage EXCEPT ![c] = "ended"]
<1>1. /\ pc \in [Calls -> Pcs] /\ outer \in [Calls -> 0..(Timeout + Margin)]
      /\ stage \in [Calls -> Stages] /\ proc \in [Calls -> Procs]
  BY DEF ServerInv, ToolTypeOK, CliInv, CliTypeOK
<1>2. CASE Admitted(c)
  <2>1. /\ pc[c] = "waiting" /\ pc' = [pc EXCEPT ![c] = "active"]
        /\ outer' = [outer EXCEPT ![c] = Budget(c)] /\ UNCHANGED <<stage, proc>>
    BY <1>2 DEF Admitted, ServerInv, ToolInv, Waiters, Waiting, cliVars
  <2>2. Budget(c) <= Timeout + Margin
    BY TimesAssumption, MarginAssumption DEF Budget
  <2> QED
    BY <1>1, <2>1, <2>2, EndingCounts DEF Touches, ServerInv
<1>3. CASE OuterTimeout(c)
  <2>1. /\ pc[c] \in {"active", "incli"} /\ pc' = [pc EXCEPT ![c] = "cancelling"]
        /\ UNCHANGED <<outer, stage, proc>>
    BY <1>3 DEF OuterTimeout, OnDeadline
  <2> QED
    BY <1>1, <2>1, EndingCounts DEF Touches, ServerInv
<1>4. CASE Finish(c)
  <2>1. /\ pc[c] = "returned" /\ pc' = [pc EXCEPT ![c] = "done"]
        /\ UNCHANGED <<outer, stage, proc>>
    BY <1>4 DEF Finish, cliVars
  <2> QED
    BY <1>1, <2>1, EndingCounts DEF Touches, ServerInv
<1>5. CASE BodyRejects(c) \/ AdminReturns(c) \/ CliReturns(c) \/ CancelTooLate(c) \/ Unwind(c)
  <2>1. pc[c] \in {"active", "incli", "cancelling"} /\ \E with \in Answers : BodyEnds(c, with)
    BY <1>5 DEF BodyRejects, AdminReturns, CliReturns, CancelTooLate, Unwind, Answers
  <2>2. pc' = [pc EXCEPT ![c] = "returned"] /\ outer' = [outer EXCEPT ![c] = 0]
    BY <2>1 DEF BodyEnds
  <2>3. proc' = proc /\ \E to : stage' = [stage EXCEPT ![c] = to]
    <3>1. CASE BodyRejects(c) \/ AdminReturns(c)
      <4>1. proc' = proc /\ stage' = stage
        BY <3>1 DEF BodyRejects, AdminReturns, cliVars
      <4>2. stage' = [stage EXCEPT ![c] = stage[c]]
        BY <1>1, <4>1
      <4> QED BY <4>1, <4>2
    <3>2. CASE CliReturns(c) \/ CancelTooLate(c)
      BY <3>2 DEF CliReturns, CancelTooLate, SpawnFails, Collect, TimeoutFindsExited,
                  CollectTerminated, EndRun
    <3>3. CASE Unwind(c)
      BY <3>3 DEF Unwind, LeaveCliSection
    <3> QED BY <1>5, <3>1, <3>2, <3>3
  <2> QED
    BY <1>1, <2>1, <2>2, <2>3, EndingCounts DEF Touches, ServerInv
<1> QED
  BY <1>2, <1>3, <1>4, <1>5

\* A tick takes from every budget.
LEMMA TickCounts ==
  ASSUME ServerInv, ServerInv', ServerTick
  PROVE  \E c \in Calls : /\ StepsLeft(c)' \in 0..(StepsLeft(c) - 1)
                          /\ \A d \in Calls : StepsLeft(d)' <= StepsLeft(d)
<1>1. /\ UNCHANGED <<stage, proc, pc>> /\ OnDeadline # {}
      /\ \A d \in Calls : outer'[d] = IF d \in OnDeadline THEN outer[d] - 1 ELSE outer[d]
  BY DEF ServerTick
<1>2. \A d \in Calls : ProcLeft(d)' = ProcLeft(d) /\ RunLeft(d)' = RunLeft(d)
  BY <1>1 DEF ProcLeft, RunLeft
<1>3. ASSUME NEW d \in Calls, d \in OnDeadline PROVE CallLeft(d)' = CallLeft(d) - 1
  <2>1. outer'[d] = outer[d] - 1 /\ pc'[d] = pc[d] /\ pc[d] \in {"active", "incli"}
    BY <1>1, <1>3 DEF OnDeadline
  <2>2. outer[d] \in Nat /\ RunLeft(d) \in 0..7
    BY LeftOver DEF ServerInv, Places
  <2> QED BY <1>2, <2>1, <2>2 DEF CallLeft
<1>4. ASSUME NEW d \in Calls, d \notin OnDeadline PROVE CallLeft(d)' = CallLeft(d)
  <2>1. pc'[d] = pc[d] /\ pc[d] \notin {"active", "incli"}
    BY <1>1, <1>4 DEF OnDeadline
  <2> QED BY <2>1 DEF CallLeft
<1>5. \A d \in Calls : StepsLeft(d)' = CallLeft(d)' + ProcLeft(d)'
  BY DEF StepsLeft
<1>6. \A d \in Calls : /\ StepsLeft(d)' <= StepsLeft(d)
                       /\ d \in OnDeadline => StepsLeft(d)' < StepsLeft(d)
  BY <1>2, <1>3, <1>4, <1>5, LeftOver DEF ServerInv, Places
<1>7. PICK c \in OnDeadline : c \in Calls
  BY <1>1 DEF OnDeadline
<1>8. StepsLeft(c) \in Nat /\ StepsLeft(c)' \in Nat
  BY <1>7, LeftNatural
<1> QED
  BY <1>6, <1>7, <1>8

\* Something can always be done until every call is over, and every step brings a new
\* call or uses up a step of those there are: no finite number of calls goes on for ever
\* or comes to rest before the end, whatever the two tiers and the deadlines do.
THEOREM ProgressTheorem == Safety => CallsProgress
<1>1. ServerInv /\ [Next]_vars => [StepCounts]_vars
  <2> SUFFICES ASSUME ServerInv, Next PROVE StepCounts
    OBVIOUS
  <2>1. ServerInv'
    BY ServerNextInv
  <2>2. ASSUME NEW c \in Calls, ArriveAdmitted(c) \/ ArriveQueued(c) PROVE StepCounts
    <3>1. /\ pc[c] \in {"new", "done"} /\ \E to \in {"waiting", "active"} : pc' = [pc EXCEPT ![c] = to]
          /\ outer' = outer \/ outer' = [outer EXCEPT ![c] = Budget(c)]
          /\ stage' = [stage EXCEPT ![c] = "idle"] /\ proc' = [proc EXCEPT ![c] = "none"]
      BY <2>2 DEF ArriveAdmitted, ArriveQueued, Arrives
    <3>2. pc'[c] \in {"waiting", "active"} /\ Touches(c)
      BY <3>1 DEF Touches, ServerInv, ToolTypeOK
    <3> QED BY <3>1, <3>2, OthersStay DEF StepCounts
  <2>3. ASSUME NEW c \in Calls, BodyRejects(c) \/ AdminReturns(c) \/ Advance(c) \/ OsStep(c)
        PROVE  StepCounts
    <3>1. Touches(c) /\ StepsLeft(c)' < StepsLeft(c)
      BY <2>1, <2>3, ContinuesCounts, RunsCliCounts, OsCounts, CallCounts DEF Advance
    <3>2. \A d \in Calls : StepsLeft(d) \in Nat /\ StepsLeft(d)' \in Nat
      BY <2>1, LeftNatural
    <3>3. StepsLeft(c)' \in 0..(StepsLeft(c) - 1)
      BY <3>1, <3>2
    <3>4. \A d \in Calls : StepsLeft(d)' <= StepsLeft(d)
      BY <3>1, <3>2, OthersStay
    <3> QED BY <3>3, <3>4 DEF StepCounts
  <2>4. CASE ServerTick
    BY <2>1, <2>4, TickCounts DEF StepCounts
  <2> QED
    BY <2>2, <2>3, <2>4 DEF Next
<1> QED
  BY <1>1, ServerInvariant, ServerNeverStuck, PTL DEF Safety, CallsProgress

----------------------------------------------------------------------------
(* The refinement of BouncerSpec.                                          *)

PhaseFacts ==
  /\ DOMAIN phaseBar = Calls /\ phaseBar = [c \in Calls |-> phaseBar[c]]
  /\ \A c \in Calls :
       /\ pc[c] \in {"new", "done"} => phaseBar[c] = "out"
       /\ pc[c] = "waiting" => phaseBar[c] = "waiting"
       /\ c \in Holding => phaseBar[c] = "cli"
       /\ pc[c] \in {"active", "incli", "cancelling", "returned"} /\ c \notin Holding =>
            phaseBar[c] = "admitted"
  /\ Promise!Inside = Inside
  /\ Promise!InCli = Holding

\* Linked makes the four cases of phaseBar exclusive.
LEMMA PhaseFactsHold == ServerInv => PhaseFacts
<1> SUFFICES ASSUME ServerInv PROVE PhaseFacts
  OBVIOUS
<1>1. pc \in [Calls -> Pcs]
  BY DEF ServerInv, ToolTypeOK
<1>2. \A c \in Holding : c \in Calls /\ pc[c] \in {"incli", "cancelling"}
  BY DEF ServerInv, Linked, InCliTier, Holding
<1>3. DOMAIN phaseBar = Calls /\ phaseBar = [c \in Calls |-> phaseBar[c]]
  BY DEF phaseBar
<1>4. ASSUME NEW c \in Calls
      PROVE  /\ pc[c] \in {"new", "done"} => phaseBar[c] = "out"
             /\ pc[c] = "waiting" => phaseBar[c] = "waiting"
             /\ c \in Holding => phaseBar[c] = "cli"
             /\ pc[c] \in {"active", "incli", "cancelling", "returned"} /\ c \notin Holding =>
                  phaseBar[c] = "admitted"
  BY <1>1, <1>2 DEF phaseBar
<1>5. Promise!Inside = Inside
  BY <1>1, <1>2, <1>4 DEF Promise!Inside, Inside, Pcs
<1>6. Promise!InCli = Holding
  BY <1>1, <1>2, <1>4 DEF Promise!InCli, Pcs
<1> QED BY <1>3, <1>4, <1>5, <1>6 DEF PhaseFacts

LEMMA PhaseFactsPrimed == ServerInv' => PhaseFacts'
BY PhaseFactsHold, PTL

\* A step that moves one call changes the phase of that call at most.
LEMMA PhaseMoves ==
  ASSUME PhaseFacts, PhaseFacts', NEW c \in Calls,
         \A d \in Calls \ {c} : pc'[d] = pc[d] /\ stage'[d] = stage[d]
  PROVE  phaseBar' = [phaseBar EXCEPT ![c] = phaseBar'[c]]
<1>1. \A d \in Calls \ {c} : phaseBar'[d] = phaseBar[d]
  BY DEF phaseBar, Holding
<1> QED BY <1>1 DEF PhaseFacts

\* The permits bound what they guard.
WithinLimits == Cardinality(Inside) <= ToolLimit /\ Cardinality(Holding) <= CliLimit

LEMMA WithinLimitsHolds == ServerInv => WithinLimits
<1> SUFFICES ASSUME ServerInv PROVE WithinLimits
  OBVIOUS
<1>1. Cardinality(Inside) \in Nat /\ Cardinality(Holding) \in Nat
  BY CallsAssumption, FS_Subset, FS_CardinalityType DEF Inside, Holding
<1>2. /\ PermitsOut(tool) \in Nat /\ PermitsOut(tool) + Cardinality(Inside) = ToolLimit
      /\ PermitsOut(cli) \in Nat /\ PermitsOut(cli) + Cardinality(Holding) = CliLimit
  BY ToolPermitsType, PermitsOutType DEF ServerInv, ToolInv, CliInv, CliPermitsConserved
<1> QED BY <1>1, <1>2, ToolLimitAssumption, CliLimitAssumption DEF WithinLimits

LEMMA WithinLimitsPrimed == ServerInv' => WithinLimits'
BY WithinLimitsHolds, PTL

\* BouncerSpec counts as this module does.
LEMMA PromiseCounts == \A S : Promise!Cardinality(S) = Cardinality(S)
BY DEF Promise!Cardinality, Cardinality

\* Every step of the server is a step of the promise or leaves it alone.
LEMMA PromiseStep ==
  ASSUME ServerInv, ServerInv', [Next]_vars
  PROVE  [Promise!Next]_phaseBar
<1>1. PhaseFacts /\ PhaseFacts'
  BY PhaseFactsHold, PhaseFactsPrimed
<1>2. stage \in [Calls -> Stages] /\ pc \in [Calls -> Pcs]
  BY DEF ServerInv, CliInv, CliTypeOK, ToolTypeOK
<1>3. \A c \in Holding : pc[c] \in {"incli", "cancelling"}
  BY DEF ServerInv, Linked, InCliTier
<1> DEFINE Moves(c) == phaseBar' = [phaseBar EXCEPT ![c] = phaseBar'[c]]
<1>4. ASSUME NEW c \in Calls, ArriveAdmitted(c) PROVE Promise!Next
  <2>1. /\ pc[c] \in {"new", "done"} /\ pc' = [pc EXCEPT ![c] = "active"]
        /\ stage' = [stage EXCEPT ![c] = "idle"]
    BY <1>4 DEF ArriveAdmitted, Arrives
  <2>2. Moves(c)
    BY <1>1, <1>2, <2>1, PhaseMoves
  <2>3. phaseBar[c] = "out" /\ phaseBar'[c] = "admitted"
    BY <1>1, <1>2, <2>1 DEF PhaseFacts, Holding, InSection
  <2>4. Cardinality(Inside) < ToolLimit
    <3>1. Cardinality(Inside') = Cardinality(Inside) + 1 /\ Cardinality(Inside) \in Nat
      BY <1>2, <2>1, InsideGrows DEF Inside
    <3> QED BY <3>1, WithinLimitsPrimed, ToolLimitAssumption DEF WithinLimits
  <2>5. Promise!Admit(c)
    BY <1>1, <2>2, <2>3, <2>4, PromiseCounts DEF Promise!Admit, Promise!Move, PhaseFacts
  <2> QED BY <2>5 DEF Promise!Next
<1>5. ASSUME NEW c \in Calls, ArriveQueued(c) PROVE Promise!Next
  <2>1. /\ pc[c] \in {"new", "done"} /\ pc' = [pc EXCEPT ![c] = "waiting"]
        /\ stage' = [stage EXCEPT ![c] = "idle"]
    BY <1>5 DEF ArriveQueued, Arrives
  <2>2. Moves(c)
    BY <1>1, <1>2, <2>1, PhaseMoves
  <2>3. phaseBar[c] = "out" /\ phaseBar'[c] = "waiting"
    BY <1>1, <1>2, <2>1 DEF PhaseFacts
  <2>4. Promise!Arrive(c)
    BY <2>2, <2>3 DEF Promise!Arrive, Promise!Move
  <2> QED BY <2>4 DEF Promise!Next
<1>6. ASSUME NEW c \in Calls, Admitted(c) PROVE Promise!Next
  <2>1. pc[c] = "waiting" /\ pc' = [pc EXCEPT ![c] = "active"] /\ stage' = stage
    BY <1>6 DEF Admitted, cliVars, ServerInv, ToolInv, Waiters, Waiting
  <2>2. Moves(c)
    BY <1>1, <1>2, <2>1, PhaseMoves
  <2>3. phaseBar[c] = "waiting" /\ phaseBar'[c] = "admitted"
    BY <1>1, <1>2, <1>3, <2>1 DEF PhaseFacts, Holding
  <2>4. Cardinality(Inside) < ToolLimit
    <3>1. Cardinality(Inside') = Cardinality(Inside) + 1 /\ Cardinality(Inside) \in Nat
      BY <1>2, <2>1, InsideGrows DEF Inside
    <3> QED BY <3>1, WithinLimitsPrimed, ToolLimitAssumption DEF WithinLimits
  <2>5. Promise!Admit(c)
    BY <1>1, <2>2, <2>3, <2>4, PromiseCounts DEF Promise!Admit, Promise!Move, PhaseFacts
  <2> QED BY <2>5 DEF Promise!Next
<1>7. ASSUME NEW c \in Calls, c \notin Holding, c \in CliCalls, pc[c] \in {"active", "incli"},
             pc' = [pc EXCEPT ![c] = "incli"], stage' = [stage EXCEPT ![c] = "spawning"]
      PROVE  Promise!Next
  <2>1. Moves(c)
    BY <1>1, <1>2, <1>7, PhaseMoves
  <2>2. phaseBar[c] = "admitted" /\ phaseBar'[c] = "cli"
    BY <1>1, <1>2, <1>7 DEF PhaseFacts, Holding, InSection
  <2>3. Cardinality(Holding)' = Cardinality(Holding) + 1 /\ Cardinality(Holding) \in Nat
    BY <1>2, <1>7, HoldingGrows DEF InSection
  <2>4. Cardinality(Holding) < CliLimit
    BY <2>3, WithinLimitsPrimed, CliLimitAssumption DEF WithinLimits
  <2>5. Promise!EnterCli(c)
    BY <1>1, <1>7, <2>1, <2>2, <2>4, PromiseCounts DEF Promise!EnterCli, Promise!Move, PhaseFacts
  <2> QED BY <2>5 DEF Promise!Next
<1>8. ASSUME NEW c \in Calls, c \in Holding,
             pc' = [pc EXCEPT ![c] = "returned"], stage' = [stage EXCEPT ![c] = "ended"]
      PROVE  Promise!Next
  <2>1. Moves(c)
    BY <1>1, <1>2, <1>8, PhaseMoves
  <2>2. phaseBar[c] = "cli" /\ phaseBar'[c] = "admitted"
    BY <1>1, <1>2, <1>8 DEF PhaseFacts, Holding, InSection
  <2>3. Promise!LeaveCli(c)
    BY <2>1, <2>2 DEF Promise!LeaveCli, Promise!Move
  <2> QED BY <2>3 DEF Promise!Next
<1>9. ASSUME NEW c \in Calls, Finish(c) PROVE Promise!Next
  <2>1. pc[c] = "returned" /\ pc' = [pc EXCEPT ![c] = "done"] /\ stage' = stage
    BY <1>9 DEF Finish, cliVars
  <2>2. Moves(c)
    BY <1>1, <1>2, <2>1, PhaseMoves
  <2>3. phaseBar[c] = "admitted" /\ phaseBar'[c] = "out"
    BY <1>1, <1>2, <1>3, <2>1 DEF PhaseFacts
  <2>4. Promise!Leave(c)
    BY <2>2, <2>3 DEF Promise!Leave, Promise!Move
  <2> QED BY <2>4 DEF Promise!Next
\* Steps the promise does not see: the call stays inside, and in or out of
\* the cli section.
<1>10. ASSUME NEW c \in Inside, NEW to \in {"active", "incli", "cancelling", "returned"},
              pc' = [pc EXCEPT ![c] = to], c \in Holding <=> c \in Holding',
              \A d \in Calls \ {c} : stage'[d] = stage[d]
       PROVE  phaseBar' = phaseBar
  <2>1. c \in Calls /\ pc[c] \in {"active", "incli", "cancelling", "returned"}
    BY DEF Inside
  <2>2. Moves(c)
    BY <1>1, <1>2, <1>10, <2>1, PhaseMoves
  <2>3. phaseBar'[c] = phaseBar[c]
    BY <1>1, <1>2, <1>10, <2>1 DEF PhaseFacts
  <2> QED BY <1>1, <2>2, <2>3 DEF PhaseFacts
<1>11. ASSUME UNCHANGED <<pc, stage>> PROVE phaseBar' = phaseBar
  BY <1>11 DEF phaseBar, Holding
<1> HIDE DEF Moves
<1>12. ASSUME NEW c \in Calls, BodyRejects(c) \/ AdminReturns(c) PROVE phaseBar' = phaseBar
  <2>1. pc[c] = "active" /\ pc' = [pc EXCEPT ![c] = "returned"] /\ stage' = stage
    BY <1>12 DEF BodyRejects, AdminReturns, BodyEnds, cliVars
  <2> QED BY <2>1, <1>10 DEF Inside, Holding
<1>13. ASSUME NEW c \in Calls, BodyRunsCli(c) PROVE Promise!Next \/ phaseBar' = phaseBar
  <2>1. /\ c \in CliCalls /\ pc[c] = "active" /\ pc' = [pc EXCEPT ![c] = "incli"]
        /\ c \notin Holding
    BY <1>3, <1>13 DEF BodyRunsCli
  <2>2. CASE RunAtOnce(c)
    BY <1>7, <2>1, <2>2 DEF RunAtOnce
  <2>3. CASE RunQueues(c)
    <3>1. stage' = [stage EXCEPT ![c] = "queued"]
      BY <2>3 DEF RunQueues
    <3> QED BY <1>2, <1>10, <2>1, <3>1 DEF Inside, Holding, InSection
  <2> QED BY <1>13, <2>2, <2>3 DEF BodyRunsCli, Run
<1>14. ASSUME NEW c \in Calls, CliContinues(c) PROVE Promise!Next \/ phaseBar' = phaseBar
  <2>1. pc[c] = "incli" /\ pc' = pc /\ pc' = [pc EXCEPT ![c] = "incli"]
    BY <1>2, <1>14 DEF CliContinues, toolVars
  <2>2. CASE Enter(c)
    <3>1. c \in Queued /\ c \notin Holding /\ c \in CliCalls
      BY <2>2 DEF Enter, ServerInv, CliInv, Linked, InCliTier, Waiters, Queued, Holding, InSection
    <3> QED BY <1>7, <2>1, <2>2, <3>1 DEF Enter
  <2>3. CASE Spawn(c) \/ RunTimesOut(c) \/ GraceExpires(c)
    <3>1. c \in Holding /\ \E to \in InSection : stage' = [stage EXCEPT ![c] = to]
      BY <2>3 DEF Spawn, RunTimesOut, GraceExpires, Holding, InSection
    <3> QED BY <1>2, <1>10, <2>1, <3>1 DEF Inside, Holding
  <2> QED BY <1>14, <2>2, <2>3 DEF CliContinues
<1>15. ASSUME NEW c \in Calls, CliReturns(c) \/ CancelTooLate(c) PROVE Promise!Next
  <2>1. SpawnFails(c) \/ Collect(c) \/ TimeoutFindsExited(c) \/ CollectTerminated(c)
    BY <1>15 DEF CliReturns, CancelTooLate
  <2>2. c \in Holding /\ stage' = [stage EXCEPT ![c] = "ended"]
    BY <2>1 DEF SpawnFails, Collect, TimeoutFindsExited, CollectTerminated, EndRun,
                Holding, InSection
  <2>3. pc' = [pc EXCEPT ![c] = "returned"]
    BY <1>15 DEF CliReturns, CancelTooLate, BodyEnds
  <2> QED BY <1>8, <2>2, <2>3
<1>16. ASSUME NEW c \in Calls, OuterTimeout(c) PROVE phaseBar' = phaseBar
  <2>1. pc[c] \in {"active", "incli"} /\ pc' = [pc EXCEPT ![c] = "cancelling"] /\ stage' = stage
    BY <1>16 DEF OuterTimeout, OnDeadline
  <2> QED BY <1>10, <2>1 DEF Inside, Holding
<1>17. ASSUME NEW c \in Calls, Unwind(c) PROVE Promise!Next \/ phaseBar' = phaseBar
  <2>1. /\ pc[c] = "cancelling" /\ pc' = [pc EXCEPT ![c] = "returned"]
        /\ stage' = [stage EXCEPT ![c] = IF @ = "idle" THEN "idle" ELSE "ended"]
    BY <1>17 DEF Unwind, LeaveCliSection, BodyEnds
  <2>2. CASE c \in Holding
    <3>1. stage' = [stage EXCEPT ![c] = "ended"]
      BY <2>1, <2>2 DEF Holding, InSection
    <3> QED BY <1>8, <2>1, <2>2, <3>1
  <2>3. CASE c \notin Holding
    <3>1. c \notin Holding'
      BY <1>2, <2>1 DEF Holding, InSection
    <3> QED BY <1>2, <1>10, <2>1, <2>3, <3>1 DEF Inside
  <2> QED BY <2>2, <2>3
<1>18. ASSUME NEW c \in Calls, OsStep(c) PROVE phaseBar' = phaseBar
  BY <1>11, <1>18 DEF OsStep, toolVars, ProcessExits, KillTakesEffect
<1>19. CASE ServerTick
  BY <1>11, <1>19 DEF ServerTick
<1>20. CASE UNCHANGED vars
  BY <1>11, <1>20 DEF vars, cliVars, toolVars
<1> QED BY <1>4, <1>5, <1>6, <1>9, <1>12, <1>13, <1>14, <1>15, <1>16, <1>17, <1>18, <1>19, <1>20
        DEF Next, Advance

\* The server keeps the two-tier bound Bouncer promises.
THEOREM PromiseTheorem == Safety => PromiseSafety
<1>1. Init => Promise!Init
  <2> SUFFICES ASSUME Init PROVE \A c \in Calls : phaseBar[c] = "out"
    BY DEF phaseBar, Promise!Init
  <2> QED BY ServerInitInv, PhaseFactsHold DEF Init, PhaseFacts
<1>2. ServerInv /\ ServerInv' /\ [Next]_vars => [Promise!Next]_phaseBar
  BY PromiseStep
<1> QED BY <1>1, <1>2, ServerInvariant, PTL DEF Safety, PromiseSafety, Promise!Safety
=============================================================================
