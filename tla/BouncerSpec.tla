----------------------------- MODULE BouncerSpec -----------------------------
(***************************************************************************)
(* What Bouncer promises (concurrency.py:11-15): "Two-tier concurrency     *)
(* bound: total tool calls + a stricter inner cap on CLI subprocesses."    *)
(* No semaphores, no deadlines, no subprocesses: a call is outside, waits, *)
(* is admitted, and a CLI call may in addition be in the CLI section, which *)
(* it enters and leaves while admitted.                                    *)
(***************************************************************************)
EXTENDS Integers, FiniteSets

CONSTANTS Calls, CliCalls, ToolLimit, CliLimit

VARIABLE phase

Phases == {"out", "waiting", "admitted", "cli"}

Inside == {c \in Calls : phase[c] \in {"admitted", "cli"}}
InCli  == {c \in Calls : phase[c] = "cli"}

Init == phase = [c \in Calls |-> "out"]

Move(c, from, to) ==
  /\ phase[c] \in from
  /\ phase' = [phase EXCEPT ![c] = to]

Arrive(c) == Move(c, {"out"}, "waiting")

Admit(c) ==
  /\ Cardinality(Inside) < ToolLimit
  /\ Move(c, {"out", "waiting"}, "admitted")

EnterCli(c) ==
  /\ c \in CliCalls
  /\ Cardinality(InCli) < CliLimit
  /\ Move(c, {"admitted"}, "cli")

LeaveCli(c) == Move(c, {"cli"}, "admitted")

Leave(c) == Move(c, {"admitted"}, "out")

Next == \E c \in Calls : Arrive(c) \/ Admit(c) \/ EnterCli(c) \/ LeaveCli(c) \/ Leave(c)

Safety == Init /\ [][Next]_phase

\* A call that waits is admitted, and one that is inside comes out: neither a
\* stream of later calls nor a subprocess that never exits can prevent it.
Fairness ==
  \A c \in Calls :
    /\ SF_phase(phase[c] = "waiting" /\ Admit(c))
    /\ WF_phase(LeaveCli(c))
    /\ SF_phase(Leave(c))

Spec == Safety /\ Fairness
=============================================================================
