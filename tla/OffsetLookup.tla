----------------------------- MODULE OffsetLookup -----------------------------
(***************************************************************************)
(* get_offsets_for_times: the partitions of a topic are asked one by one,  *)
(* each leader at its own moment, for the first message at or after a      *)
(* time; while producers append and retention deletes.                     *)
(***************************************************************************)
EXTENDS Integers, Sequences, FiniteSets

CONSTANTS
  LogParts,   \* the partitions the topic may have
  Times,      \* timestamps, of messages and of the question
  MaxLog,     \* bound on the messages of a partition
  MaxTouches  \* bound on what happens to the logs during a call

ASSUME LookupAssumption ==
  /\ LogParts \subseteq Nat /\ IsFiniteSet(LogParts) /\ Times \subseteq Nat
  /\ MaxLog \in Nat /\ MaxTouches \in Nat

Missing == -1   \* the leader has no such message
Failed  == -2   \* the look-up of the partition raised
NoRow   == -3   \* there is no row, or none yet

VARIABLES
  there,         \* the partitions the topic has
  log,           \* log[p]: the timestamps of all messages ever in p
  first,         \* first[p]: the offset of the first one retention has left
  touches,
  timestamp_ms, partitions,  \* the arguments; no partitions given is {}
  reached,       \* "resolve", "ask", "answered" or "refused"
  target_partitions,
  answers,       \* answers[p]: what the future of p holds
  offsets,       \* offsets[p]: the row of p
  summary,       \* [all, returned]: "offsets returned for ... partitions"
  lengthThen     \* history: the lengths of the logs when the call began

logs       == <<there, log, first, touches>>
question   == <<timestamp_ms, partitions>>
lookupVars == <<logs, question, reached, target_partitions, answers, offsets, summary, lengthThen>>

NoRows    == [p \in LogParts |-> NoRow]
NoSummary == [all |-> 0, returned |-> 0]

LookupInit ==
  /\ there \in SUBSET LogParts
  /\ log \in [LogParts -> UNION {[1..n -> Times] : n \in 0..(MaxLog - 1)}]
  /\ first = [p \in LogParts |-> 0] /\ touches = 0
  /\ timestamp_ms \in Times /\ partitions \in SUBSET LogParts
  /\ reached = "resolve" /\ target_partitions = {} /\ answers = NoRows /\ offsets = NoRows
  /\ summary = NoSummary
  /\ lengthThen = [p \in LogParts |-> Len(log[p])]

\* The offsets of the messages of p at or after a time.  Producers set the
\* timestamps: they need not rise with the offsets.
After(p, time) == {o \in first[p]..(Len(log[p]) - 1) : log[p][o + 1] >= time}

----------------------------------------------------------------------------
(* The logs.                                                               *)

Touched(p) ==
  /\ p \in there /\ touches < MaxTouches /\ reached \in {"ask", "answered"}
  /\ touches' = touches + 1
  /\ UNCHANGED <<there, question, reached, target_partitions, answers, offsets, summary, lengthThen>>

Arrives(p, time) ==
  /\ Touched(p) /\ Len(log[p]) < MaxLog
  /\ log' = [log EXCEPT ![p] = Append(@, time)]
  /\ UNCHANGED first

Expires(p) ==
  /\ Touched(p) /\ first[p] < Len(log[p])
  /\ first' = [first EXCEPT ![p] = @ + 1]
  /\ UNCHANGED log

----------------------------------------------------------------------------
(* The call.                                                               *)

\* _resolve_partitions: an empty list counts as none given.
Asked(given) == IF given = {} THEN there ELSE given

Resolve ==
  /\ reached = "resolve"
  /\ target_partitions' = Asked(partitions)
  /\ reached' = IF Asked(partitions) = {} THEN "refused" ELSE "ask"
  /\ UNCHANGED <<logs, question, answers, offsets, summary, lengthThen>>

\* The leader of p answers.
LookUp(p) ==
  /\ reached = "ask" /\ p \in target_partitions \cap there /\ answers[p] = NoRow
  /\ LET found == After(p, timestamp_ms)
     IN  answers' = [answers EXCEPT ![p] =
                       IF found = {} THEN Missing
                       ELSE CHOOSE o \in found : \A q \in found : o <= q]
  /\ UNCHANGED <<logs, question, reached, target_partitions, offsets, summary, lengthThen>>

\* It does not, or there is no such partition.
LookUpFails(p) ==
  /\ reached = "ask" /\ p \in target_partitions /\ answers[p] = NoRow
  /\ answers' = [answers EXCEPT ![p] = Failed]
  /\ UNCHANGED <<logs, question, reached, target_partitions, offsets, summary, lengthThen>>

\* Mutant: offset 0 is taken for none.
FoundPositive(offset) == offset > 0

\* `found`
Found(offset) == offset >= 0

\* Mutant: every result is taken from the future that came last.
RowOfLast(p) ==
  answers[CHOOSE q \in target_partitions : \A r \in target_partitions : r <= q]

\* One row for each future.
RowOf(p) == answers[p]

\* not_found_count: of the look-ups that did not fail.
not_found_count(rows) ==
  Cardinality({p \in target_partitions : ~Found(rows[p]) /\ rows[p] # Failed})

\* The rows are complete, in the order of the partitions.
Gather ==
  /\ reached = "ask" /\ \A p \in target_partitions : answers[p] # NoRow
  /\ offsets' = [p \in LogParts |-> IF p \in target_partitions THEN RowOf(p) ELSE NoRow]
  /\ LET total == Cardinality(target_partitions)
     IN  summary' = [all |-> total, returned |-> total - not_found_count(offsets')]
  /\ reached' = "answered"
  /\ UNCHANGED <<logs, question, target_partitions, answers, lengthThen>>

LookupNext ==
  \/ Resolve \/ Gather
  \/ \E p \in LogParts :
       LookUp(p) \/ LookUpFails(p) \/ Expires(p) \/ \E time \in Times : Arrives(p, time)

LookupSpec == LookupInit /\ [][LookupNext]_lookupVars

----------------------------------------------------------------------------
(* Properties.                                                             *)

LookupTypeOK ==
  /\ there \subseteq LogParts /\ log \in [LogParts -> Seq(Times)]
  /\ first \in [LogParts -> Nat] /\ \A p \in LogParts : first[p] <= Len(log[p])
  /\ touches \in 0..MaxTouches
  /\ timestamp_ms \in Times /\ partitions \subseteq LogParts
  /\ reached \in {"resolve", "ask", "answered", "refused"}
  /\ target_partitions \subseteq LogParts
  /\ answers \in [LogParts -> Nat \cup {Missing, Failed, NoRow}]
  /\ offsets \in [LogParts -> Nat \cup {Missing, Failed, NoRow}]
  /\ summary \in [all : Nat, returned : Nat] /\ summary.returned <= summary.all
  /\ lengthThen \in [LogParts -> Nat]

\* "what's the first message we need to reprocess?" (get_offsets_for_times.py:27-28):
\* a consumer set to the offset of a row misses no message of that time or later,
\* nor one that has come since, though timestamps are out of order.
ReplayMissesNothing ==
  reached = "answered" => \A p \in target_partitions :
    Found(offsets[p]) => \A o \in After(p, timestamp_ms) : offsets[p] <= o

\* A row without an offset that is no failure: what there is at or after the time
\* came after the call began.  The summary counts as returned the rows with an offset
\* and, with them, those that failed (get_offsets_for_times.py:63), no others.
NotFoundMeansNone ==
  reached = "answered" =>
    /\ \A p \in target_partitions : offsets[p] # Failed /\ ~Found(offsets[p]) =>
         \A o \in After(p, timestamp_ms) : o >= lengthThen[p]
    /\ summary.returned = Cardinality({p \in LogParts : offsets[p] = Failed \/ offsets[p] >= 0})
=============================================================================
