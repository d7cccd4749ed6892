------------------------------ MODULE ResetPlan ------------------------------
(***************************************************************************)
(* compute_offset_reset_plan from its arguments to the command it hands to *)
(* a human, and the human who runs that command later: on a group that may *)
(* have moved since the dry run.  The table between the two is             *)
(* PlanParser's matter; here the plan is what the dry run proposed.        *)
(*                                                                         *)
(* A command line is [how, value, mode]: the strategy's flag, its value or *)
(* NoValue, and the last flag.  The rest of it is the same everywhere.     *)
(***************************************************************************)
EXTENDS Integers

CONSTANTS
  Parts,    \* the partitions of the topic
  MaxEnd,   \* bound on log ends
  Values,   \* what offset_value may be, if it is given
  NoValue   \* None

ASSUME OffsetsAssumption ==
  MaxEnd \in Nat \ {0} /\ Values \subseteq Int /\ NoValue \notin Values

Strategies == {"to-latest", "to-earliest", "to-offset", "shift-by"}
Requests   == [strategy : Strategies \cup {"other"}, value : {NoValue} \cup Values]

VARIABLES
  logStart, logEnd, committed,  \* by partition
  active,   \* has the group members?
  stage,    \* "idle", "asked", "planned", "refused" or "applied"
  request,
  proposed,     \* what the answer proposes: the partitions listed and their offsets
  command,  \* remediation_command
  base,     \* history: the committed offsets the dry run saw
  outcome,  \* history: what the human's run of the command left committed
  produced, trimmed, recommitted,  \* history: partitions that moved since the dry run
  regrouped \* history: has the group started or stopped since the dry run?

moves     == <<produced, trimmed, recommitted, regrouped>>
group     == <<logStart, logEnd, committed, active>>
resetVars == <<group, stage, request, proposed, command, base, outcome, moves>>

Offsets   == [Parts -> Int]
NoPlan    == [listed |-> {}, to |-> [p \in Parts |-> 0]]
NoCommand == [how |-> "none", value |-> NoValue, mode |-> "none"]
NoRequest == [strategy |-> "other", value |-> NoValue]

ResetInit ==
  /\ logStart = [p \in Parts |-> 0] /\ logEnd = [p \in Parts |-> MaxEnd - 1]
  /\ committed \in [Parts -> 0..(MaxEnd - 1)] /\ active \in BOOLEAN
  /\ stage = "idle" /\ request = NoRequest /\ proposed = NoPlan /\ command = NoCommand
  /\ base = committed /\ outcome = committed
  /\ produced = {} /\ trimmed = {} /\ recommitted = {} /\ regrouped = FALSE

----------------------------------------------------------------------------
(* kafka-consumer-groups.sh --reset-offsets.  It resets a group without    *)
(* members, and of one with members it prints no rows.                     *)

Within(o, p) == IF o < logStart[p] THEN logStart[p] ELSE IF o > logEnd[p] THEN logEnd[p] ELSE o

Target(argv, p) ==
  CASE argv.how = "to-latest"   -> logEnd[p]
    [] argv.how = "to-earliest" -> logStart[p]
    [] argv.how = "to-offset"   -> Within(argv.value, p)
    [] argv.how = "shift-by"    -> Within(committed[p] + argv.value, p)
    [] OTHER                      -> committed[p]

Table(argv) ==
  IF active THEN NoPlan ELSE [listed |-> Parts, to |-> [p \in Parts |-> Target(argv, p)]]

Runs(argv) ==
  committed' = IF argv.mode = "--execute" /\ ~active
               THEN [p \in Parts |-> Target(argv, p)] ELSE committed

----------------------------------------------------------------------------
(* The tool.                                                               *)

\* _validate_strategy
Valid(r) == r.strategy \in Strategies /\ (r.strategy \in {"to-offset", "shift-by"} => r.value # NoValue)

\* Mutant: the last flag is chosen the wrong way round.
BuildArgvSwapped(r, execute) ==
  [how   |-> r.strategy,
   value |-> IF r.strategy \in {"to-offset", "shift-by"} THEN r.value ELSE NoValue,
   mode  |-> IF execute THEN "--dry-run" ELSE "--execute"]

\* Mutant: the sign of a shift is lost on the way to the human.
BuildArgvUnsigned(r, execute) ==
  [how   |-> r.strategy,
   value |-> IF r.strategy \in {"to-offset", "shift-by"}
             THEN IF execute /\ r.value < 0 THEN -r.value ELSE r.value ELSE NoValue,
   mode  |-> IF execute THEN "--execute" ELSE "--dry-run"]

\* _build_argv
BuildArgv(r, execute) ==
  [how   |-> r.strategy,
   value |-> IF r.strategy \in {"to-offset", "shift-by"} THEN r.value ELSE NoValue,
   mode  |-> IF execute THEN "--execute" ELSE "--dry-run"]

Ask ==
  /\ stage = "idle"
  /\ request' \in Requests
  /\ stage' = IF Valid(request') THEN "asked" ELSE "refused"
  /\ UNCHANGED <<group, proposed, command, base, outcome, moves>>

DryRun ==
  /\ stage = "asked"
  /\ Runs(BuildArgv(request, FALSE))
  /\ proposed' = Table(BuildArgv(request, FALSE))
  /\ command' = BuildArgv(request, TRUE)
  /\ base' = committed /\ stage' = "planned"
  /\ produced' = {} /\ trimmed' = {} /\ recommitted' = {} /\ regrouped' = FALSE
  /\ UNCHANGED <<logStart, logEnd, active, request, outcome>>

\* A human runs the command, once.
Apply ==
  /\ stage = "planned"
  /\ Runs(command) /\ outcome' = committed'
  /\ stage' = "applied"
  /\ UNCHANGED <<logStart, logEnd, active, request, proposed, command, base, moves>>

----------------------------------------------------------------------------
(* Producers, retention and the group.                                     *)

Moving == stage \in {"asked", "planned"}
Rest   == UNCHANGED <<stage, request, proposed, command, base, outcome>>

Produced(p) ==
  /\ Moving /\ logEnd[p] < MaxEnd
  /\ logEnd' = [logEnd EXCEPT ![p] = @ + 1] /\ produced' = produced \cup {p}
  /\ Rest /\ UNCHANGED <<logStart, committed, active, trimmed, recommitted, regrouped>>

Trimmed(p) ==
  /\ Moving /\ logStart[p] < logEnd[p]
  /\ logStart' = [logStart EXCEPT ![p] = @ + 1] /\ trimmed' = trimmed \cup {p}
  /\ Rest /\ UNCHANGED <<logEnd, committed, active, produced, recommitted, regrouped>>

Committed(p) ==
  /\ Moving /\ active /\ committed[p] < logEnd[p]
  /\ committed' = [committed EXCEPT ![p] = @ + 1] /\ recommitted' = recommitted \cup {p}
  /\ Rest /\ UNCHANGED <<logStart, logEnd, active, produced, trimmed, regrouped>>

Regroups ==
  /\ Moving /\ active' = ~active /\ regrouped' = TRUE
  /\ Rest /\ UNCHANGED <<logStart, logEnd, committed, produced, trimmed, recommitted>>

ResetNext ==
  \/ Ask \/ DryRun \/ Apply \/ Regroups
  \/ \E p \in Parts : Produced(p) \/ Trimmed(p) \/ Committed(p)

ResetSpec == ResetInit /\ [][ResetNext]_resetVars

----------------------------------------------------------------------------
(* Properties.                                                             *)

ResetTypeOK ==
  /\ logStart \in Offsets /\ logEnd \in Offsets /\ committed \in Offsets
  /\ active \in BOOLEAN
  /\ stage \in {"idle", "asked", "planned", "refused", "applied"}
  /\ request \in Requests
  /\ stage \in {"asked", "planned", "applied"} =>
       /\ request.strategy \in Strategies
       /\ request.strategy \in {"to-offset", "shift-by"} => request.value \in Values
  /\ proposed \in [listed : SUBSET Parts, to : Offsets]
  /\ base \in Offsets /\ outcome \in Offsets
  /\ produced \subseteq Parts /\ trimmed \subseteq Parts /\ recommitted \subseteq Parts
  /\ regrouped \in BOOLEAN

\* README.md:26: no tool mutates Kafka state.  The offsets of a group without
\* members change only when the human runs the command.
OnlyHumansReset == [][~active /\ committed' # committed => stage' = "applied"]_resetVars

Clamped(p) == proposed.to[p] # IF request.strategy = "to-offset" THEN request.value
                           ELSE base[p] + request.value

\* What may spoil the offset planned for p.
Spoils(p) ==
  \/ regrouped /\ active
  \/ request.strategy = "to-latest" /\ p \in produced
  \/ request.strategy = "to-earliest" /\ p \in trimmed
  \/ request.strategy \in {"to-offset", "shift-by"}
       /\ (p \in trimmed \/ (p \in produced /\ Clamped(p)))
  \/ request.strategy = "shift-by" /\ p \in recommitted

\* The command does what the plan said, partition by partition, but where the
\* strategy refers to something that has moved since the dry run.  A plan that lists
\* nothing comes with a command all the same, and the answer blames a group or topic
\* that may not exist (compute_offset_reset_plan.py:218, 231): that command changes
\* nothing, unless the group had members then and has none any more.
CommandDoesThePlan ==
  stage = "applied" => \A p \in Parts :
    IF p \in proposed.listed
    THEN Spoils(p) \/ outcome[p] = proposed.to[p]
    ELSE regrouped \/ p \in recommitted \/ outcome[p] = base[p]
=============================================================================
