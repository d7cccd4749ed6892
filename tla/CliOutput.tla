------------------------------ MODULE CliOutput ------------------------------
(***************************************************************************)
(* What CliExecutor.run makes of the output of one subprocess              *)
(* (cli_executor.py): communicate() reads it block by block until its end. *)
(* When a deadline cancels communicate(), the blocks it has read go with   *)
(* it, and the next communicate() begins where it stood.                   *)
(*                                                                         *)
(* A block is a line, given by the group of patterns it matches.  One      *)
(* stream stands for the two: they are read in the same way, stderr is     *)
(* what is classified and returned with a TIMEOUT.                         *)
(***************************************************************************)
EXTENDS ErrorTaxonomy, Sequences

CONSTANTS
  LineKinds,  \* subset of {"auth", "authz", "network", "plain"}
  MaxLines    \* bound on what a subprocess prints

ASSUME MaxLinesAssumption == MaxLines \in Nat

VARIABLES
  child,    \* "alive", or its exit status "ok" or "error"
  emitted,  \* what it has printed
  taken,    \* how much of that a communicate() has read
  blocks,   \* the blocks of the communicate() that is running
  await,    \* "first", "grace", "drain": which communicate(); "over", or "empty"
            \* when _terminate gave up and returned no output
  result,   \* [code, text]
  lost      \* history: how much was read before the last deadline

outputVars == <<child, emitted, taken, blocks, await, result, lost>>

NoResult == [code |-> "none", text |-> <<>>]

OutputInit ==
  /\ child = "alive" /\ emitted = <<>> /\ taken = 0
  /\ blocks = <<>> /\ await = "first" /\ result = NoResult /\ lost = 0

Emit(line) ==
  /\ child = "alive" /\ Len(emitted) < MaxLines
  /\ emitted' = Append(emitted, line)
  /\ UNCHANGED <<child, taken, blocks, await, result, lost>>

ChildExits ==
  /\ child = "alive" /\ child' \in {"ok", "error"}
  /\ UNCHANGED <<emitted, taken, blocks, await, result, lost>>

\* StreamReader.read(): one more block of communicate().
ReadBlock ==
  /\ await \in {"first", "grace", "drain"} /\ taken < Len(emitted)
  /\ blocks' = Append(blocks, emitted[taken + 1])
  /\ taken' = taken + 1
  /\ UNCHANGED <<child, emitted, await, result, lost>>

AtEnd == child # "alive" /\ taken = Len(emitted)

Kinds(text) == {text[n] : n \in DOMAIN text}

\* communicate() returned in time.
Return ==
  /\ await = "first" /\ AtEnd
  /\ result' = [code |-> IF child = "ok" THEN "ok" ELSE CliCode(Kinds(blocks)), text |-> blocks]
  /\ await' = "over"
  /\ UNCHANGED <<child, emitted, taken, blocks, lost>>

\* The deadline, and SIGTERM.  The subprocess may have exited just before.
Deadline ==
  /\ await = "first"
  /\ await' = "grace" /\ blocks' = <<>> /\ lost' = taken
  /\ UNCHANGED <<child, emitted, taken, result>>

\* ProcessLookupError: it had exited and asyncio had let go of it.
DeadlineTooLate ==
  /\ await = "first" /\ child # "alive"
  /\ result' = [code |-> "TIMEOUT", text |-> <<>>]
  /\ await' = "empty"
  /\ UNCHANGED <<child, emitted, taken, blocks, lost>>

\* SIGKILL, and what is left is drained.
GraceEnds ==
  /\ await = "grace"
  /\ await' = "drain" /\ blocks' = <<>> /\ lost' = taken
  /\ UNCHANGED <<child, emitted, taken, result>>

\* "best-effort drain": any exception of the last communicate().
DrainFails ==
  /\ await = "drain"
  /\ result' = [code |-> "TIMEOUT", text |-> <<>>]
  /\ await' = "empty"
  /\ UNCHANGED <<child, emitted, taken, blocks, lost>>

\* Mutant: the block that comes with the end is left out.
CollectLast ==
  /\ await \in {"grace", "drain"} /\ AtEnd
  /\ result' = [code |-> "TIMEOUT", text |-> SubSeq(blocks, 1, Len(blocks) - 1)]
  /\ await' = "over"
  /\ UNCHANGED <<child, emitted, taken, blocks, lost>>

Collect ==
  /\ await \in {"grace", "drain"} /\ AtEnd
  /\ result' = [code |-> "TIMEOUT", text |-> blocks]
  /\ await' = "over"
  /\ UNCHANGED <<child, emitted, taken, blocks, lost>>

OutputNext ==
  \/ \E line \in LineKinds : Emit(line)
  \/ ChildExits \/ ReadBlock
  \/ Return \/ Deadline \/ DeadlineTooLate \/ GraceEnds \/ Collect \/ DrainFails

OutputSpec == OutputInit /\ [][OutputNext]_outputVars

----------------------------------------------------------------------------
(* Properties.                                                             *)

OutputTypeOK ==
  /\ child \in {"alive", "ok", "error"}
  /\ emitted \in Seq(LineKinds) /\ blocks \in Seq(LineKinds)
  /\ taken \in 0..Len(emitted)
  /\ await \in {"first", "grace", "drain", "over", "empty"}
  /\ result \in [code : ErrorTypes \cup {"none", "ok"}, text : Seq(LineKinds)]
  /\ await \in {"over", "empty"} <=> result.code # "none"
  /\ lost \in 0..taken

\* A command that exits in time is judged by all it printed.  The text in a TIMEOUT
\* envelope is all that came after what had been read when the last deadline came:
\* that is thrown away with the communicate() that had read it (cli_executor.py:83
\* and 117), nothing else is, nothing comes twice, and there is no gap.  There are
\* two exits at which _terminate returns no output at all (lines 114 and 126).
OnlyReadIsLost ==
  /\ result.code \notin {"none", "TIMEOUT"} => result.text = emitted
  /\ result.code = "TIMEOUT" /\ await # "empty" =>
       result.text = SubSeq(emitted, lost + 1, Len(emitted))

\* cli_executor.py:109, of _terminate: "Returns whatever stdout/stderr was emitted
\* before the process exited."
TerminateReturnsAll == result.code = "TIMEOUT" /\ await = "over" => result.text = emitted

\* The last line of a failed command says why it failed; lines before it are
\* retries and warnings.  Lost connections on the way do not hide a denial, and
\* nothing hides a failed authentication (cli_executor.py:144-165).
CauseSurvivesNoise ==
  result.code \in ErrorTypes \ {"TIMEOUT"} /\ emitted # <<>> =>
    LET cause == emitted[Len(emitted)]
    IN  /\ cause = "auth" => result.code = "AUTH_FAILURE"
        /\ cause = "authz" /\ "auth" \notin Kinds(emitted) => result.code = "AUTHORIZATION"
        /\ cause = "network" /\ Kinds(emitted) \subseteq {"network", "plain"}
             => result.code = "NETWORK_TIMEOUT"
=============================================================================
