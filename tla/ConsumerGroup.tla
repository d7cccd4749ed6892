--------------------------- MODULE ConsumerGroup ---------------------------
(***************************************************************************)
(* describe_consumer_group: one call reads a group that keeps moving.  The *)
(* coordinator is asked for the state and the members, then for the        *)
(* committed offsets, and then the leader of each partition for its log    *)
(* end; lag and owner are put together from the three reads.               *)
(*                                                                         *)
(* A value that may be None is a set with at most one member.  Offsets are *)
(* bounded by MaxOffset, which only producers run into.                    *)
(***************************************************************************)
EXTENDS Integers

CONSTANTS
  Partitions,  \* the (topic, partition) pairs the group may consume
  Members,     \* the members it may have
  Assignments, \* the assignments it may agree on; a partition may be nobody's
  MaxOffset    \* MaxOffset[p]: bound on the offsets of p

ASSUME AssignmentsAssumption ==
  /\ Assignments \subseteq [Members -> SUBSET Partitions]
  /\ \A a \in Assignments : \A m, n \in Members : m # n => a[m] \cap a[n] = {}
ASSUME MaxOffsetAssumption == MaxOffset \in [Partitions -> Nat]

VARIABLES
  \* The cluster.
  coordState,   \* the name of the group's state
  assigned,     \* assigned[m]: what the coordinator says m is assigned
  groupOffset,  \* groupOffset[p]: the group's offset, -1 if it has none
  logEndOffset, \* logEndOffset[p]: the log end offset
  \* The call.
  phase,       \* what is awaited next
  state,       \* the `state` of the answer
  listed,      \* listed[m]: the assigned_partitions of m in the answer
  fetched,     \* fetched[p]: the offset of p in `committed`, if p is there
  asked,       \* the partitions whose log end is still to come
  ends,        \* ends[p]: end_offsets.get(p)
  rows,        \* rows[p]: the entry of p in the `offsets` of the answer
  \* History, of which the code knows nothing.
  rebalanced,  \* the group rebalanced since it was described
  setBack,     \* partitions whose offset or log end moved back between the reads
  worstLag     \* worstLag[p]: the largest lag of p between its two reads

cluster   == <<coordState, assigned, groupOffset, logEndOffset>>
call      == <<phase, state, listed, fetched, asked, ends, rows>>
history   == <<rebalanced, setBack, worstLag>>
groupVars == <<cluster, call, history>>

\* The names of confluent_kafka.ConsumerGroupState.
Rebalancing == {"PREPARING_REBALANCING", "COMPLETING_REBALANCING"}
States      == Rebalancing \cup {"STABLE", "EMPTY"}

Nobody    == [m \in Members |-> {}]
NoOffsets == [p \in {} |-> {}]

GroupInit ==
  /\ coordState   = "EMPTY"
  /\ assigned     = Nobody
  /\ groupOffset  = [p \in Partitions |-> -1]
  /\ logEndOffset = [p \in Partitions |-> 0]
  /\ phase        = "idle"
  /\ state        = "EMPTY"
  /\ listed       = Nobody
  /\ fetched      = [p \in Partitions |-> {}]
  /\ asked        = {}
  /\ ends         = [p \in Partitions |-> {}]
  /\ rows         = NoOffsets
  /\ rebalanced   = FALSE
  /\ setBack      = {}
  /\ worstLag     = [p \in Partitions |-> 0]

----------------------------------------------------------------------------
(* The group.  A coordinator tells assignments only while it is STABLE.    *)

StartRebalance ==
  /\ coordState \in {"STABLE", "EMPTY"}
  /\ coordState' = "PREPARING_REBALANCING"
  /\ assigned'   = Nobody
  /\ rebalanced' = (phase # "idle")
  /\ UNCHANGED <<groupOffset, logEndOffset, call, setBack, worstLag>>

JoinsEnd ==
  /\ coordState = "PREPARING_REBALANCING"
  /\ coordState' \in {"COMPLETING_REBALANCING", "EMPTY"}
  /\ UNCHANGED <<assigned, groupOffset, logEndOffset, call, history>>

Assign ==
  /\ coordState = "COMPLETING_REBALANCING"
  /\ coordState' = "STABLE"
  /\ assigned' \in Assignments
  /\ UNCHANGED <<groupOffset, logEndOffset, call, history>>

----------------------------------------------------------------------------
(* The partitions.                                                         *)

TrueLag(p) == IF groupOffset[p] >= 0 THEN logEndOffset[p] - groupOffset[p] ELSE 0

Watch(p) ==
  worstLag' = [worstLag EXCEPT ![p] = IF p \in asked /\ TrueLag(p)' > @ THEN TrueLag(p)' ELSE @]

Produce(p) ==
  /\ logEndOffset[p] < MaxOffset[p]
  /\ logEndOffset' = [logEndOffset EXCEPT ![p] = @ + 1]
  /\ UNCHANGED <<coordState, assigned, groupOffset, call, rebalanced, setBack>>
  /\ Watch(p)

\* A member commits: it has read no further than the log end.
Commit(p) ==
  /\ coordState # "EMPTY"
  /\ \E o \in (groupOffset[p] + 1)..logEndOffset[p] : groupOffset' = [groupOffset EXCEPT ![p] = o]
  /\ UNCHANGED <<coordState, assigned, logEndOffset, call, rebalanced, setBack>>
  /\ Watch(p)

\* Somebody resets the offset, or it expires: only of a group without members.
SetBackOffset(p) ==
  /\ coordState = "EMPTY"
  /\ \E o \in -1..(groupOffset[p] - 1) : groupOffset' = [groupOffset EXCEPT ![p] = o]
  /\ setBack' = setBack \cup ({p} \cap asked)
  /\ UNCHANGED <<coordState, assigned, logEndOffset, call, rebalanced, worstLag>>

\* An unclean leader election loses the end of the log.
LoseLogEnd(p) ==
  /\ logEndOffset[p] > 0
  /\ logEndOffset' = [logEndOffset EXCEPT ![p] = @ - 1]
  /\ setBack' = setBack \cup ({p} \cap asked)
  /\ UNCHANGED <<coordState, assigned, groupOffset, call, rebalanced, worstLag>>

----------------------------------------------------------------------------
(* The call.                                                               *)

\* The local variables of _fetch_offsets, and the history of its reads.
ForgetOffsets ==
  /\ fetched' = [p \in Partitions |-> {}]
  /\ ends'    = [p \in Partitions |-> {}]
  /\ setBack' = {}
  /\ worstLag' = [p \in Partitions |-> 0]

\* An unknown cluster, a group that is not in the answer, a failed request:
\* the call ends in an error envelope.
Fail ==
  /\ phase \in {"idle", "offsets"}
  /\ phase' = "failed"
  /\ state' = "EMPTY" /\ listed' = Nobody
  /\ UNCHANGED <<cluster, fetched, asked, ends, rows, history>>

\* Mutant: the list `assigned` is not made anew for each member.
MembersOutAccumulates(include_members) ==
  IF include_members
    THEN [m \in Members |-> UNION {assigned[n] : n \in Members}] ELSE Nobody

\* members_out
MembersOut(include_members) == IF include_members THEN assigned ELSE Nobody

\* describe_consumer_groups and its result.
DescribeGroup(include_members, include_offsets) ==
  /\ phase = "idle"
  /\ state'  = coordState
  /\ listed' = MembersOut(include_members)
  /\ phase'  = IF include_offsets THEN "offsets" ELSE "done"
  /\ UNCHANGED <<cluster, fetched, asked, ends, rows, history>>

\* list_consumer_group_offsets: one answer of the coordinator, with the
\* partitions that have an offset; an entry may come with no valid one, as
\* -1001.  Without any entry there are no rows.
ReadOffsets ==
  /\ phase = "offsets"
  /\ \E invalid \in SUBSET {p \in Partitions : groupOffset[p] >= 0} :
       fetched' = [p \in Partitions |-> IF p \in invalid THEN {-1001}
                                        ELSE {groupOffset[p]} \cap Nat]
  /\ asked' = {p \in Partitions : fetched'[p] # {}}
  /\ phase' = IF asked' = {} THEN "done" ELSE "ends"
  /\ setBack' = {p \in Partitions : groupOffset[p] > logEndOffset[p]}
  /\ worstLag' = [p \in Partitions |-> TrueLag(p)]
  /\ UNCHANGED <<cluster, state, listed, ends, rows, rebalanced>>

\* The group is not in the answer: no rows either.
OffsetsAbsent ==
  /\ phase = "offsets"
  /\ phase' = "done"
  /\ UNCHANGED <<cluster, state, listed, fetched, asked, ends, rows, history>>

\* list_offsets: the leader of each partition answers for itself ...
ReadEnd(p) ==
  /\ p \in asked
  /\ ends'  = [ends EXCEPT ![p] = {logEndOffset[p]}]
  /\ asked' = asked \ {p}
  /\ UNCHANGED <<cluster, phase, state, listed, fetched, rows, history>>

\* ... or fails; that of every partition when list_offsets itself fails.
EndFails(p) ==
  /\ p \in asked
  /\ asked' = asked \ {p}
  /\ UNCHANGED <<cluster, phase, state, listed, fetched, ends, rows, history>>

\* Mutant: an end that is not known counts as the start of the log.
LagOfUnknownEnd(current, end) == {e - c : e \in (IF end = {} THEN {0} ELSE end), c \in current}

Lag(current, end) == {e - c : e \in end, c \in current}

Current(p) == {o \in fetched[p] : o >= 0}

\* An entry of `offsets`; the owner is looked up by partition.
OffsetRow(p) ==
  [current_offset |-> Current(p),
   log_end_offset |-> ends[p],
   lag            |-> Lag(Current(p), ends[p]),
   consumer       |-> {m \in Members : p \in listed[m]}]

Assemble ==
  /\ phase = "ends"
  /\ asked = {}
  /\ rows'  = [p \in {q \in Partitions : fetched[q] # {}} |-> OffsetRow(p)]
  /\ phase' = "done"
  /\ ForgetOffsets
  /\ UNCHANGED <<cluster, state, listed, asked, rebalanced>>

\* The client has its answer; a later call starts from nothing.
Restart ==
  /\ phase \in {"done", "failed"}
  /\ phase'   = "idle"
  /\ state'   = "EMPTY"
  /\ listed'  = Nobody
  /\ rows'    = NoOffsets
  /\ rebalanced' = FALSE
  /\ ForgetOffsets
  /\ UNCHANGED <<cluster, asked>>

_REBALANCING_STATES == {"PREPARINGREBALANCE", "COMPLETINGREBALANCE"}
is_rebalancing      == state \in _REBALANCING_STATES

GroupNext ==
  \/ StartRebalance \/ JoinsEnd \/ Assign
  \/ \E p \in Partitions : Produce(p) \/ Commit(p) \/ SetBackOffset(p) \/ LoseLogEnd(p)
  \/ Fail \/ ReadOffsets \/ OffsetsAbsent \/ Assemble \/ Restart
  \/ \E include_members, include_offsets \in BOOLEAN : DescribeGroup(include_members, include_offsets)
  \/ \E p \in Partitions : ReadEnd(p) \/ EndFails(p)

GroupSpec == GroupInit /\ [][GroupNext]_groupVars

----------------------------------------------------------------------------
(* Properties.                                                             *)

Rows ==
  [current_offset : SUBSET Nat, log_end_offset : SUBSET Nat,
   lag : SUBSET Int, consumer : SUBSET Members]

GroupTypeOK ==
  /\ coordState \in States /\ state \in States
  /\ assigned \in Assignments \cup {Nobody}
  /\ listed \in [Members -> SUBSET Partitions]
  /\ groupOffset \in [Partitions -> Nat \cup {-1}]
  /\ logEndOffset \in [Partitions -> Nat]
  /\ phase \in {"idle", "offsets", "ends", "done", "failed"}
  /\ fetched \in [Partitions -> SUBSET (Nat \cup {-1001})]
  /\ ends \in [Partitions -> SUBSET Nat]
  /\ asked \subseteq Partitions
  /\ DOMAIN rows \subseteq Partitions /\ \A p \in DOMAIN rows : rows[p] \in Rows
  /\ rebalanced \in BOOLEAN
  /\ setBack \subseteq Partitions
  /\ worstLag \in [Partitions -> Int]

\* The order of the reads matters: because committed offsets are read before
\* log ends, a lag that is reported is at least what it was at any moment in
\* between (and never negative), however commits and producers interleave
\* with the reads, unless an offset or a log end was set back.
LagNotUnderstated ==
  [][rows' # rows =>
       \A p \in DOMAIN rows' \ setBack : \A lag \in rows'[p].lag : lag >= worstLag[p] /\ lag >= 0]_groupVars

\* While the group does not rebalance, each entry of an answer with members
\* names just the member that owns its partition, though members and offsets
\* come from different reads.
OwnersAreCurrent ==
  ~rebalanced /\ listed # Nobody =>
    \A p \in DOMAIN rows : rows[p].consumer = {m \in Members : p \in assigned[m]}

\* README.md:120: the answer "Includes an `is_rebalancing` boolean", and
\* README.md:113 spells the state PREPARING_REBALANCING.
RebalancingIsFlagged == phase = "done" => (is_rebalancing <=> state \in Rebalancing)
=============================================================================
