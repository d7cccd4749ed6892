------------------------ MODULE ConsumerGroupProofs ------------------------
(***************************************************************************)
(* Proofs about ConsumerGroup, for any partitions, members and bound.      *)
(***************************************************************************)
EXTENDS ConsumerGroup, TLAPS

(* The lag.                                                                *)

\* What the variables of the two reads hold, as far as the lag depends on it.
ReadsType ==
  /\ groupOffset \in [Partitions -> Int]
  /\ logEndOffset  \in [Partitions -> Int]
  /\ worstLag   \in [Partitions -> Int]
  /\ fetched \in [Partitions -> SUBSET Int]
  /\ ends    \in [Partitions -> SUBSET Int]
  /\ asked \subseteq Partitions

\* While the log end of p is awaited, only commits and producers have moved p:
\* its offset is no less than the one fetched, and its worst lag is within
\* what the log end will show.
Between(p) ==
  /\ ends[p] = {}
  /\ \A o \in fetched[p] : o >= 0 =>
       /\ o <= groupOffset[p] /\ groupOffset[p] <= logEndOffset[p]
       /\ 0 <= worstLag[p] /\ worstLag[p] <= logEndOffset[p] - o

\* Once the log end is known, the lag is fixed.
Known(p) ==
  \A o \in fetched[p], e \in ends[p] : o >= 0 => 0 <= worstLag[p] /\ worstLag[p] <= e - o

LagInv ==
  /\ ReadsType
  /\ phase # "ends" =>
       asked = {} /\ \A p \in Partitions : fetched[p] = {} /\ ends[p] = {}
  /\ \A p \in Partitions \ setBack : IF p \in asked THEN Between(p) ELSE Known(p)

LagStep ==
  rows' # rows =>
    \A p \in DOMAIN rows' \ setBack : \A lag \in rows'[p].lag : lag >= worstLag[p] /\ lag >= 0

\* Nothing has been read in the initial state.
LEMMA LagInitially == GroupInit => LagInv
  BY DEF GroupInit, LagInv, ReadsType, Known

\* A record moves at the log end of p0 or the offset of p0 by a producer or a
\* member keeps what is known of every partition: that of p0 grows in step.
LEMMA LagWatched ==
  ASSUME NEW p0 \in Partitions, LagInv, Produce(p0) \/ Commit(p0)
  PROVE  LagInv'
<1>1. /\ UNCHANGED <<phase, fetched, asked, ends, setBack>>
      /\ groupOffset' \in [Partitions -> Int] /\ logEndOffset' \in [Partitions -> Int]
      /\ worstLag' \in [Partitions -> Int]
      /\ groupOffset[p0] <= groupOffset'[p0] /\ logEndOffset[p0] <= logEndOffset'[p0]
      /\ groupOffset'[p0] <= logEndOffset'[p0] \/ groupOffset'[p0] = groupOffset[p0]
      /\ worstLag'[p0] = IF p0 \in asked /\ TrueLag(p0)' > worstLag[p0] THEN TrueLag(p0)' ELSE worstLag[p0]
      /\ \A p \in Partitions \ {p0} :
           worstLag'[p] = worstLag[p] /\ groupOffset'[p] = groupOffset[p] /\ logEndOffset'[p] = logEndOffset[p]
  BY DEF LagInv, ReadsType, Produce, Commit, Watch, TrueLag, call
<1>2. ReadsType'
  BY <1>1 DEF LagInv, ReadsType
<1>3. ASSUME NEW p \in Partitions \ setBack
      PROVE  IF p \in asked THEN Between(p)' ELSE Known(p)'
  <2>1. CASE p # p0
    BY <2>1, <1>1 DEF LagInv, Between, Known
  <2>2. CASE p = p0 /\ p \notin asked
    BY <2>2, <1>1 DEF LagInv, Known
  <2>3. CASE p = p0 /\ p \in asked
    BY <2>3, <1>1 DEF LagInv, ReadsType, Between, TrueLag
  <2>4. QED
    BY <2>1, <2>2, <2>3
<1>4. QED
  BY <1>1, <1>2, <1>3 DEF LagInv

\* A partition whose offset or log end is set back between its reads is no
\* longer spoken of; one that is not between its reads is fixed.
LEMMA LagSetBack ==
  ASSUME NEW p0 \in Partitions, LagInv, SetBackOffset(p0) \/ LoseLogEnd(p0)
  PROVE  LagInv'
<1>1. /\ UNCHANGED <<phase, fetched, asked, ends, worstLag>>
      /\ groupOffset' \in [Partitions -> Int] /\ logEndOffset' \in [Partitions -> Int]
      /\ setBack' = setBack \cup ({p0} \cap asked)
      /\ \A p \in Partitions \ {p0} : groupOffset'[p] = groupOffset[p] /\ logEndOffset'[p] = logEndOffset[p]
  BY DEF LagInv, ReadsType, SetBackOffset, LoseLogEnd, call
<1>2. ASSUME NEW p \in Partitions \ setBack'
      PROVE  IF p \in asked THEN Between(p)' ELSE Known(p)'
  BY <1>1, <1>2 DEF LagInv, Between, Known
<1>3. QED
  BY <1>1, <1>2 DEF LagInv, ReadsType

\* The second read starts with the lags of the moment of the first.
LEMMA LagReadOffsets ==
  ASSUME LagInv, ReadOffsets
  PROVE  LagInv'
<1>1. /\ UNCHANGED <<groupOffset, logEndOffset, ends>>
      /\ \A p \in Partitions : ends[p] = {}
      /\ fetched' \in [Partitions -> SUBSET Int]
      /\ \A p \in Partitions : \A o \in fetched'[p] : o >= 0 => o = groupOffset[p]
      /\ asked' = {p \in Partitions : fetched'[p] # {}}
      /\ phase' = IF asked' = {} THEN "done" ELSE "ends"
      /\ setBack' = {p \in Partitions : groupOffset[p] > logEndOffset[p]}
      /\ worstLag'   = [p \in Partitions |-> TrueLag(p)]
  <2>1. PICK invalid \in SUBSET {p \in Partitions : groupOffset[p] >= 0} :
          fetched' = [p \in Partitions |-> IF p \in invalid THEN {-1001}
                                           ELSE {groupOffset[p]} \cap Nat]
    BY DEF ReadOffsets
  <2>2. \A p \in Partitions : fetched'[p] = {-1001} \/ fetched'[p] = {groupOffset[p]} \cap Nat
    BY <2>1
  <2>3. fetched' \in [Partitions -> SUBSET Int]
    BY <2>1
  <2>4. QED
    BY <2>2, <2>3 DEF ReadOffsets, cluster, LagInv
<1>2. ReadsType'
  BY <1>1 DEF LagInv, ReadsType, TrueLag
<1>3. phase' # "ends" => asked' = {} /\ \A p \in Partitions : fetched'[p] = {} /\ ends'[p] = {}
  BY <1>1
<1>4. ASSUME NEW p \in Partitions \ setBack'
      PROVE  Between(p)' /\ Known(p)'
  BY <1>1, <1>4 DEF LagInv, ReadsType, Between, Known, TrueLag
<1>5. QED
  BY <1>2, <1>3, <1>4 DEF LagInv

\* The log end of p0 arrives, or does not.
LEMMA LagReadEnd ==
  ASSUME NEW p0 \in Partitions, LagInv, ReadEnd(p0) \/ EndFails(p0)
  PROVE  LagInv'
<1>1. /\ UNCHANGED <<phase, fetched, groupOffset, logEndOffset, worstLag, setBack>>
      /\ p0 \in asked /\ asked' = asked \ {p0}
      /\ ends' \in [Partitions -> SUBSET Int]
      /\ ends'[p0] = {logEndOffset[p0]} \/ ends' = ends
      /\ \A p \in Partitions \ {p0} : ends'[p] = ends[p]
  BY DEF LagInv, ReadsType, ReadEnd, EndFails, cluster, history
<1>2. ASSUME NEW p \in Partitions \ setBack'
      PROVE  IF p \in asked' THEN Between(p)' ELSE Known(p)'
  <2>1. CASE p # p0
    BY <2>1, <1>1 DEF LagInv, Between, Known
  <2>2. CASE p = p0
    BY <2>2, <1>1 DEF LagInv, ReadsType, Between, Known
  <2>3. QED
    BY <2>1, <2>2
<1>3. QED
  BY <1>1, <1>2 DEF LagInv, ReadsType

\* Every other step leaves the reads alone or ends them.
LEMMA LagElsewhere ==
  ASSUME LagInv,
         \/ StartRebalance \/ JoinsEnd \/ Assign \/ Fail \/ OffsetsAbsent \/ Assemble \/ Restart
         \/ \E include_members, include_offsets \in BOOLEAN :
              DescribeGroup(include_members, include_offsets)
         \/ UNCHANGED groupVars
  PROVE  LagInv'
<1>1. CASE StartRebalance \/ JoinsEnd \/ Assign \/ UNCHANGED groupVars
  BY <1>1 DEF LagInv, ReadsType, Between, Known, StartRebalance, JoinsEnd, Assign,
              groupVars, cluster, call, history
<1>2. CASE Fail \/ OffsetsAbsent
  BY <1>2 DEF LagInv, ReadsType, Between, Known, Fail, OffsetsAbsent, cluster, history
<1>3. CASE \E include_members, include_offsets \in BOOLEAN :
              DescribeGroup(include_members, include_offsets)
  BY <1>3 DEF LagInv, ReadsType, Between, Known, DescribeGroup, cluster, history
<1>4. CASE Assemble \/ Restart
  BY <1>4 DEF LagInv, ReadsType, Between, Known, Assemble, Restart, ForgetOffsets, cluster
<1>5. QED
  BY <1>1, <1>2, <1>3, <1>4

\* Every step of the group and of the call keeps the invariant.
LEMMA LagInductive == LagInv /\ [GroupNext]_groupVars => LagInv'
  BY LagWatched, LagSetBack, LagReadOffsets, LagReadEnd, LagElsewhere DEF GroupNext

\* Rows come from Assemble, and there the invariant says what they show.
LEMMA LagOfRows == LagInv /\ [GroupNext]_groupVars => LagStep
<1> SUFFICES ASSUME LagInv, [GroupNext]_groupVars, rows' # rows PROVE LagStep
  BY DEF LagStep
<1>1. CASE Assemble
  <2> SUFFICES ASSUME NEW p \in DOMAIN rows' \ setBack, NEW lag \in rows'[p].lag
               PROVE  lag >= worstLag[p] /\ lag >= 0
    BY DEF LagStep
  <2>1. p \in Partitions /\ rows'[p] = OffsetRow(p)
    BY <1>1 DEF Assemble
  <2>2. PICK e \in ends[p], o \in fetched[p] : o >= 0 /\ lag = e - o
    BY <2>1 DEF OffsetRow, Lag, Current
  <2>3. Known(p)
    BY <1>1, <2>1 DEF LagInv, Assemble
  <2>4. e \in Int /\ o \in Int /\ worstLag[p] \in Int
    BY <2>1, <2>2 DEF LagInv, ReadsType
  <2>5. QED
    BY <2>2, <2>3, <2>4 DEF Known
<1>2. CASE Restart
  BY <1>2 DEF Restart, NoOffsets, LagStep
<1>3. QED
  BY <1>1, <1>2 DEF GroupNext, groupVars, call, StartRebalance, JoinsEnd, Assign, Produce, Commit,
     SetBackOffset, LoseLogEnd, Fail, DescribeGroup, ReadOffsets, OffsetsAbsent, ReadEnd, EndFails

\* A lag is never reported smaller than it was at any moment between the read
\* of its committed offset and the read of its log end (_fetch_offsets).
THEOREM LagTheorem == GroupSpec => LagNotUnderstated
<1>1. GroupInit => LagInv
  BY LagInitially
<1>2. LagInv /\ [GroupNext]_groupVars => LagInv'
  BY LagInductive
<1>3. LagInv /\ [GroupNext]_groupVars => LagStep
  BY LagOfRows
<1>4. GroupSpec => [][LagStep]_groupVars
  BY <1>1, <1>2, <1>3, PTL DEF GroupSpec
<1>5. QED
  BY <1>4 DEF LagNotUnderstated, LagStep

----------------------------------------------------------------------------
(* The owners.                                                             *)

\* Until the group rebalances, the members that were listed, if any, are those
\* of the group, and each row names the members listed with its partition.
OwnersInv ==
  /\ assigned # Nobody => coordState = "STABLE"
  /\ phase = "idle" => listed = Nobody
  /\ ~rebalanced /\ listed # Nobody => listed = assigned
  /\ \A p \in DOMAIN rows : rows[p].consumer = {m \in Members : p \in listed[m]}
  /\ phase \in {"idle", "offsets", "failed"} => rows = NoOffsets

\* Every step of the group and of the call keeps the invariant.
LEMMA OwnersInductive == OwnersInv /\ [GroupNext]_groupVars => OwnersInv'
<1> SUFFICES ASSUME OwnersInv, [GroupNext]_groupVars PROVE OwnersInv'
  OBVIOUS
<1> USE DEF OwnersInv
<1>1. CASE StartRebalance \/ JoinsEnd \/ Assign
  BY <1>1 DEF StartRebalance, JoinsEnd, Assign, call, history
<1>2. CASE \E p \in Partitions : Produce(p) \/ Commit(p) \/ SetBackOffset(p) \/ LoseLogEnd(p)
  BY <1>2 DEF Produce, Commit, SetBackOffset, LoseLogEnd, call
<1>3. CASE Fail
  BY <1>3 DEF Fail, cluster, history, NoOffsets
<1>4. CASE OffsetsAbsent \/ ReadOffsets
  BY <1>4 DEF OffsetsAbsent, ReadOffsets, cluster, history
<1>5. CASE \E p \in Partitions : ReadEnd(p) \/ EndFails(p)
  BY <1>5 DEF ReadEnd, EndFails, cluster, history
<1>6. CASE Assemble
  BY <1>6 DEF Assemble, cluster, OffsetRow
<1>7. CASE Restart
  BY <1>7 DEF Restart, cluster, NoOffsets
<1>8. CASE \E include_members, include_offsets \in BOOLEAN :
              DescribeGroup(include_members, include_offsets)
  BY <1>8 DEF DescribeGroup, MembersOut, cluster, history, NoOffsets
<1>9. CASE UNCHANGED groupVars
  BY <1>9 DEF groupVars, cluster, call, history
<1>10. QED
  BY <1>1, <1>2, <1>3, <1>4, <1>5, <1>6, <1>7, <1>8, <1>9 DEF GroupNext

\* While the group does not rebalance, each entry names just the owner of its
\* partition (_members_by_partition over the members of an earlier read).
THEOREM OwnersTheorem == GroupSpec => []OwnersAreCurrent
<1>1. GroupInit => OwnersInv
  BY DEF GroupInit, OwnersInv, NoOffsets
<1>2. OwnersInv /\ [GroupNext]_groupVars => OwnersInv'
  BY OwnersInductive
<1>3. OwnersInv => OwnersAreCurrent
  BY DEF OwnersInv, OwnersAreCurrent
<1>4. QED
  BY <1>1, <1>2, <1>3, PTL DEF GroupSpec

----------------------------------------------------------------------------
(* The types.                                                              *)

\* What belongs to the cluster, and what belongs to the call.
ClusterType ==
  /\ coordState \in States /\ assigned \in Assignments \cup {Nobody}
  /\ groupOffset \in [Partitions -> Nat \cup {-1}] /\ logEndOffset \in [Partitions -> Nat]

CallType ==
  /\ state \in States /\ listed \in [Members -> SUBSET Partitions]
  /\ phase \in {"idle", "offsets", "ends", "done", "failed"}
  /\ fetched \in [Partitions -> SUBSET (Nat \cup {-1001})]
  /\ ends \in [Partitions -> SUBSET Nat] /\ asked \subseteq Partitions
  /\ DOMAIN rows \subseteq Partitions /\ \A p \in DOMAIN rows : rows[p] \in Rows

HistoryType == rebalanced \in BOOLEAN /\ setBack \subseteq Partitions /\ worstLag \in [Partitions -> Int]

LEMMA AssignmentsAreTyped == \A a \in Assignments \cup {Nobody} : a \in [Members -> SUBSET Partitions]
BY AssignmentsAssumption DEF Nobody

\* An entry, with the offset and the log end it is made of.
LEMMA RowIsTyped ==
  ASSUME ClusterType, CallType, NEW p \in Partitions
  PROVE  OffsetRow(p) \in Rows
<1>1. Current(p) \subseteq Nat
  BY DEF Current, CallType
<1>2. ends[p] \subseteq Nat /\ Lag(Current(p), ends[p]) \subseteq Int
  BY <1>1 DEF CallType, Lag
<1>3. {m \in Members : p \in listed[m]} \subseteq Members
  OBVIOUS
<1> QED
  BY <1>1, <1>2, <1>3 DEF OffsetRow, Rows

LEMMA ClusterTyped ==
  ASSUME ClusterType, HistoryType,
         StartRebalance \/ JoinsEnd \/ Assign
  PROVE  ClusterType' /\ HistoryType' /\ UNCHANGED call
BY DEF ClusterType, HistoryType, StartRebalance, JoinsEnd, Assign, history, States, Rebalancing

LEMMA PartitionTyped ==
  ASSUME ClusterType, HistoryType, NEW p \in Partitions,
         Produce(p) \/ Commit(p) \/ SetBackOffset(p) \/ LoseLogEnd(p)
  PROVE  ClusterType' /\ HistoryType' /\ UNCHANGED call
<1>1. /\ groupOffset \in [Partitions -> Int] /\ logEndOffset \in [Partitions -> Int]
      /\ groupOffset[p] \in Nat \cup {-1} /\ logEndOffset[p] \in Nat
  BY DEF ClusterType
<1>2. CASE Produce(p)
  <2>1. logEndOffset[p] + 1 \in Nat
    BY <1>1, <1>2 DEF Produce
  <2>2. ClusterType'
    BY <1>2, <2>1 DEF Produce, ClusterType
  <2>3. TrueLag(p)' \in Int
    BY <1>1, <1>2, <2>1 DEF Produce, TrueLag, ClusterType
  <2> QED
    BY <1>2, <2>2, <2>3 DEF Produce, Watch, HistoryType
<1>3. CASE Commit(p)
  <2>1. PICK o \in (groupOffset[p] + 1)..logEndOffset[p] : groupOffset' = [groupOffset EXCEPT ![p] = o]
    BY <1>3 DEF Commit
  <2>2. o \in Nat
    BY <1>1, <2>1
  <2>3. ClusterType'
    BY <1>3, <2>1, <2>2 DEF Commit, ClusterType
  <2>4. TrueLag(p)' \in Int
    BY <1>1, <1>3, <2>1, <2>2 DEF Commit, TrueLag, ClusterType
  <2> QED
    BY <1>3, <2>3, <2>4 DEF Commit, Watch, HistoryType
<1>4. CASE SetBackOffset(p)
  <2>1. PICK o \in -1..(groupOffset[p] - 1) : groupOffset' = [groupOffset EXCEPT ![p] = o]
    BY <1>4 DEF SetBackOffset
  <2>2. o \in Nat \cup {-1}
    BY <1>1, <2>1
  <2> QED
    BY <1>4, <2>1, <2>2 DEF SetBackOffset, ClusterType, HistoryType
<1>5. CASE LoseLogEnd(p)
  <2>1. logEndOffset[p] - 1 \in Nat
    BY <1>1, <1>5 DEF LoseLogEnd
  <2> QED
    BY <1>5, <2>1 DEF LoseLogEnd, ClusterType, HistoryType
<1> QED
  BY <1>2, <1>3, <1>4, <1>5

LEMMA ReadOffsetsTyped ==
  ASSUME ClusterType, CallType, HistoryType, ReadOffsets
  PROVE  CallType' /\ HistoryType' /\ UNCHANGED cluster
<1>1. PICK invalid \in SUBSET {p \in Partitions : groupOffset[p] >= 0} :
        fetched' = [p \in Partitions |-> IF p \in invalid THEN {-1001} ELSE {groupOffset[p]} \cap Nat]
  BY DEF ReadOffsets
<1>2. \A p \in Partitions : groupOffset[p] \in Nat \cup {-1} /\ logEndOffset[p] \in Nat
  BY DEF ClusterType
<1>3. \A p \in Partitions : {groupOffset[p]} \cap Nat \subseteq Nat
  <2>1. -1 \notin Nat
    OBVIOUS
  <2> QED
    BY <1>2, <2>1
<1>4. fetched' \in [Partitions -> SUBSET (Nat \cup {-1001})]
  BY <1>1, <1>3
<1>5. ASSUME NEW p \in Partitions PROVE TrueLag(p) \in Int
  <2>1. Nat \subseteq Int /\ -1 \in Int
    OBVIOUS
  <2>2. groupOffset[p] \in Int /\ logEndOffset[p] \in Int
    BY <1>2, <2>1
  <2>3. logEndOffset[p] - groupOffset[p] \in Int
    BY <2>2
  <2> QED
    BY <2>3 DEF TrueLag
<1>6. worstLag' \in [Partitions -> Int] /\ asked' \subseteq Partitions /\ setBack' \subseteq Partitions
  BY <1>5 DEF ReadOffsets
<1> QED
  BY <1>4, <1>6 DEF ReadOffsets, cluster, CallType, HistoryType

LEMMA CallTyped ==
  ASSUME ClusterType, CallType, HistoryType,
         \/ Fail \/ ReadOffsets \/ OffsetsAbsent \/ Assemble \/ Restart
         \/ \E include_members, include_offsets \in BOOLEAN : DescribeGroup(include_members, include_offsets)
         \/ \E p \in Partitions : ReadEnd(p) \/ EndFails(p)
  PROVE  CallType' /\ HistoryType' /\ UNCHANGED cluster
<1>1. Nobody \in [Members -> SUBSET Partitions]
  BY AssignmentsAreTyped
<1>2. CASE Fail \/ OffsetsAbsent
  BY <1>1, <1>2 DEF Fail, OffsetsAbsent, cluster, history, CallType, HistoryType, States
<1>3. ASSUME NEW include_members \in BOOLEAN, NEW include_offsets \in BOOLEAN,
             DescribeGroup(include_members, include_offsets)
      PROVE  CallType' /\ HistoryType' /\ UNCHANGED cluster
  BY <1>1, <1>3, AssignmentsAreTyped DEF DescribeGroup, MembersOut, cluster, history, ClusterType, CallType,
                                          HistoryType
<1>4. CASE ReadOffsets
  BY <1>4, ReadOffsetsTyped
<1>5. ASSUME NEW p \in Partitions, ReadEnd(p) \/ EndFails(p)
      PROVE  CallType' /\ HistoryType' /\ UNCHANGED cluster
  <2>1. ends' \in [Partitions -> SUBSET Nat]
    BY <1>5 DEF ReadEnd, EndFails, ClusterType, CallType
  <2> QED
    BY <1>5, <2>1 DEF ReadEnd, EndFails, cluster, history, CallType, HistoryType
<1>6. ASSUME ForgetOffsets
      PROVE  /\ fetched' \in [Partitions -> SUBSET (Nat \cup {-1001})]
             /\ ends' \in [Partitions -> SUBSET Nat]
             /\ setBack' \subseteq Partitions /\ worstLag' \in [Partitions -> Int]
  BY <1>6 DEF ForgetOffsets
<1>7. CASE Assemble
  <2>1. rows' = [p \in {q \in Partitions : fetched[q] # {}} |-> OffsetRow(p)]
    BY <1>7 DEF Assemble
  <2>2. DOMAIN rows' \subseteq Partitions
    BY <2>1
  <2>3. \A p \in DOMAIN rows' : rows'[p] = OffsetRow(p)
    BY <2>1
  <2>4. \A p \in DOMAIN rows' : rows'[p] \in Rows
    BY <2>2, <2>3, RowIsTyped
  <2>5. UNCHANGED <<cluster, state, listed, asked, rebalanced>> /\ phase' = "done" /\ ForgetOffsets
    BY <1>7 DEF Assemble
  <2> QED
    BY <1>6, <2>2, <2>4, <2>5 DEF CallType, HistoryType
<1>8. CASE Restart
  <2>1. /\ UNCHANGED <<cluster, asked>> /\ ForgetOffsets
        /\ phase' = "idle" /\ state' = "EMPTY" /\ listed' = Nobody /\ rebalanced' = FALSE
        /\ DOMAIN rows' = {}
    BY <1>8 DEF Restart, NoOffsets
  <2>2. HistoryType'
    BY <1>6, <2>1 DEF HistoryType
  <2>3. CallType'
    BY <1>1, <1>6, <2>1 DEF CallType, States
  <2> QED
    BY <2>1, <2>2, <2>3
<1> QED
  BY <1>2, <1>3, <1>4, <1>5, <1>7, <1>8

\* The state of describe_consumer_group and what it reads keep their types; a row
\* never has more than what was read.
THEOREM TypesTheorem == GroupSpec => []GroupTypeOK
<1> DEFINE Types == ClusterType /\ CallType /\ HistoryType
<1>1. GroupInit => Types
  <2> SUFFICES ASSUME GroupInit PROVE Types
    OBVIOUS
  <2>1. ClusterType
    BY DEF GroupInit, ClusterType, States
  <2>2. CallType
    <3>1. Nobody \in [Members -> SUBSET Partitions] /\ DOMAIN NoOffsets = {}
      BY AssignmentsAreTyped DEF NoOffsets
    <3> QED
      BY <3>1 DEF GroupInit, CallType, States
  <2>3. HistoryType
    <3>1. rebalanced = FALSE /\ setBack = {} /\ worstLag = [p \in Partitions |-> 0]
      BY DEF GroupInit
    <3>2. worstLag \in [Partitions -> Int]
      BY <3>1
    <3> QED
      BY <3>1, <3>2 DEF HistoryType
  <2> QED
    BY <2>1, <2>2, <2>3
<1>2. Types /\ [GroupNext]_groupVars => Types'
  <2> SUFFICES ASSUME Types, [GroupNext]_groupVars PROVE Types'
    OBVIOUS
  <2>1. CASE UNCHANGED groupVars
    BY <2>1 DEF groupVars, cluster, call, history, ClusterType, CallType, HistoryType
  <2>2. UNCHANGED call => (CallType => CallType')
    BY DEF call, CallType
  <2>3. UNCHANGED cluster => (ClusterType => ClusterType')
    BY DEF cluster, ClusterType
  <2> QED
    BY <2>1, <2>2, <2>3, ClusterTyped, PartitionTyped, CallTyped DEF GroupNext
<1>3. Types => GroupTypeOK
  BY DEF ClusterType, CallType, HistoryType, GroupTypeOK
<1> QED
  BY <1>1, <1>2, <1>3, PTL DEF GroupSpec
=============================================================================
