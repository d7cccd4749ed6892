---------------------------- MODULE AdminReadsProofs ----------------------------
(***************************************************************************)
(* What the reading AdminClient tools answer, proved for any cluster.      *)
(***************************************************************************)
EXTENDS TopicReads, OffsetLookup, GroupListing, TopicConfigs, AclListing,
        FiniteSetTheorems, WellFoundedInduction, TLAPS

LEMMA LeastExists ==
  ASSUME NEW S \in SUBSET Nat, S # {}
  PROVE  \E o \in S : \A q \in S : o <= q
<1>1. PICK o \in S : \A q \in S : ~ (<<q, o>> \in OpToRel(<, Nat))
  BY NatLessThanWellFounded, WFMin
<1>2. \A q \in S : ~ (q < o)
  BY <1>1 DEF OpToRel
<1> QED
  BY <1>2

------------------------------------------------------------------------------
(* The replication tools.                                                  *)

\* What lacks has fallen out of the ISR, or is brought in.
LackingExplained ==
  \A p \in Replicated, b \in Brokers :
    p[1] \in present /\ b \in replicas[p] \ isr[p] => <<p, b>> \in dropped \/ b \in adding[p]

\* Nothing is brought in to a topic there is not.
GoneAreStill == \A p \in Replicated : p[1] \notin present => adding[p] = {}

\* The reassignments told are still all there are, but for those that began since.
MovesTold ==
  turn \in {"list", "describe"} /\ sdk =>
    \A p \in Replicated, b \in Brokers :
      p[1] \in Exactly[filtered] /\ b \in adding[p] => <<p, b>> \in told \cup begun

SteadyLacks ==
  turn = "describe" =>
    \A x \in steady : x \in Pairs /\ x[1][1] \in present /\ x[2] \in replicas[x[1]] \ isr[x[1]]

NothingMissingYet == turn # "done" => missing = {} /\ failed = {}

ReadsInv ==
  /\ ReadsTypeOK /\ LackingExplained /\ GoneAreStill /\ MovesTold /\ SteadyLacks
  /\ NothingMissingYet
  /\ SteadyDropsReported /\ MissingExplained /\ DropperNamed

LEMMA PairsApart ==
  \A x \in Pairs : x[1] \in Replicated /\ x[2] \in Brokers /\ x = <<x[1], x[2]>> /\ x[1][1] \in Topics
BY DEF Pairs, Topics

LEMMA PairsTogether == \A p \in Replicated, b \in Brokers : <<p, b>> \in Pairs
BY DEF Pairs

LEMMA PairsFinite == \A S \in SUBSET Pairs : IsFiniteSet(S)
<1>1. IsFiniteSet(Pairs)
  BY ReadsAssumption, FS_Product DEF Pairs
<1> QED
  BY <1>1, FS_Subset

\* The broker missing from every partition that is reported is missing from more
\* of them than any other, if no other is.
LEMMA DropperCounts ==
  ASSUME NEW m \in SUBSET Pairs, NEW b \in Brokers, NEW c \in Brokers,
         \A x \in m : <<x[1], b>> \in m,
         NEW y \in m, <<y[1], c>> \notin m
  PROVE  broker_drop_counts(m, c) < broker_drop_counts(m, b)
<1> DEFINE C == {x \in m : x[2] = c}
           B == {x \in m : x[2] = b}
           f == [x \in C |-> <<x[1], b>>]
<1>1. \A x \in m : x = <<x[1], x[2]>>
  BY PairsApart
<1>2. f \in [C -> B]
  BY <1>1
<1>3. \A x, z \in C : f[x] = f[z] => x = z
  <2>1. \A x \in C : f[x] = <<x[1], b>> /\ x = <<x[1], c>>
    BY <1>1
  <2> SUFFICES ASSUME NEW x \in C, NEW z \in C, f[x] = f[z] PROVE x = z
    OBVIOUS
  <2>2. <<x[1], b>> = <<z[1], b>>
    BY <2>1
  <2>3. x[1] = z[1]
    BY <2>2
  <2> QED
    BY <2>1, <2>3
<1>4. f \in Injection(C, B)
  BY <1>2, <1>3 DEF Injection, IsInjective
<1>5. <<y[1], b>> \in B /\ \A x \in C : f[x] # <<y[1], b>>
  BY <1>1
<1>6. f \notin Surjection(C, B)
  BY <1>5 DEF Surjection
<1>7. IsFiniteSet(B) /\ IsFiniteSet(C)
  BY PairsFinite
<1> HIDE DEF f, B, C
<1>8. Cardinality(C) <= Cardinality(B) /\ Cardinality(C) # Cardinality(B)
  BY <1>4, <1>6, <1>7, FS_Injection
<1>9. Cardinality(C) \in Nat /\ Cardinality(B) \in Nat
  BY <1>7, FS_CardinalityType
<1>10. Cardinality(C) < Cardinality(B)
  BY <1>8, <1>9
<1> QED
  BY <1>10 DEF broker_drop_counts, B, C

\* A partition that lacks a replica counts as under-replicated.
LEMMA LackingCounts ==
  ASSUME ReadsTypeOK, NEW p \in Replicated, NEW b \in replicas[p] \ isr[p]
  PROVE  IsUnderReplicated(p)
<1>1. IsFiniteSet(replicas[p]) /\ isr[p] \subseteq replicas[p] /\ isr[p] # replicas[p]
  BY ReadsAssumption, FS_Subset DEF ReadsTypeOK
<1>2. IsFiniteSet(isr[p]) /\ Cardinality(isr[p]) <= Cardinality(replicas[p])
      /\ Cardinality(isr[p]) # Cardinality(replicas[p])
  BY <1>1, FS_Subset
<1> QED
  BY <1>1, <1>2, FS_CardinalityType DEF IsUnderReplicated

LEMMA ReadsInitially == ReadsInit => ReadsInv
<1> SUFFICES ASSUME ReadsInit PROVE ReadsInv
  OBVIOUS
<1>1. ReadsTypeOK
  BY ReadsAssumption DEF ReadsInit, ReadsTypeOK, Lacking
<1>2. LackingExplained
  BY PairsTogether DEF ReadsInit, LackingExplained, Lacking
<1> QED
  BY <1>1, <1>2 DEF ReadsInit, ReadsInv, ReadsTypeOK, GoneAreStill, MovesTold, SteadyLacks, NothingMissingYet,
      SteadyDropsReported, MissingExplained, DropperNamed, Topics

\* Nothing that is over is disturbed by the cluster, and steady only shrinks.
LEMMA ClusterStep ==
  ASSUME ReadsInv, Happens, Meanwhile, ReadsTypeOK'
  PROVE  /\ SteadyLacks' /\ NothingMissingYet'
         /\ SteadyDropsReported' /\ MissingExplained' /\ DropperNamed'
BY PairsApart DEF ReadsInv, Happens, Meanwhile, session, SteadyLacks, NothingMissingYet, Lacking, Pairs,
    SteadyDropsReported, MissingExplained, DropperNamed

LEMMA FallBehindKeeps ==
  ASSUME ReadsInv, NEW p \in Replicated, NEW b \in Brokers, FallBehind(p, b) PROVE ReadsInv'
<1>1. ReadsTypeOK'
  BY ReadsAssumption, PairsTogether DEF ReadsInv, ReadsTypeOK, FallBehind, Happens, Meanwhile, session
<1>2. LackingExplained'
  BY DEF ReadsInv, ReadsTypeOK, LackingExplained, FallBehind
<1>3. GoneAreStill' /\ MovesTold'
  BY DEF ReadsInv, GoneAreStill, MovesTold, FallBehind, Meanwhile, session
<1> QED
  BY <1>1, <1>2, <1>3, ClusterStep DEF ReadsInv, FallBehind

LEMMA CatchUpKeeps ==
  ASSUME ReadsInv, NEW p \in Replicated, NEW b \in Brokers, CatchUp(p, b) PROVE ReadsInv'
<1>1. ReadsTypeOK'
  BY ReadsAssumption DEF ReadsInv, ReadsTypeOK, CatchUp, Happens, Meanwhile, session
<1>2. LackingExplained'
  BY DEF ReadsInv, ReadsTypeOK, LackingExplained, CatchUp
<1>3. GoneAreStill' /\ MovesTold'
  BY DEF ReadsInv, GoneAreStill, MovesTold, CatchUp, Meanwhile, session
<1> QED
  BY <1>1, <1>2, <1>3, ClusterStep DEF ReadsInv, CatchUp

LEMMA StartMoveKeeps ==
  ASSUME ReadsInv, NEW p \in Replicated, NEW b \in Brokers, StartMove(p, b) PROVE ReadsInv'
<1>1. ReadsTypeOK'
  BY ReadsAssumption, PairsTogether DEF ReadsInv, ReadsTypeOK, StartMove, Happens, Meanwhile, session
<1>2. LackingExplained'
  BY DEF ReadsInv, ReadsTypeOK, LackingExplained, StartMove
<1>3. GoneAreStill'
  BY DEF ReadsInv, ReadsTypeOK, GoneAreStill, StartMove
<1>4. MovesTold'
  BY DEF ReadsInv, ReadsTypeOK, MovesTold, StartMove, Meanwhile, session
<1> QED
  BY <1>1, <1>2, <1>3, <1>4, ClusterStep DEF ReadsInv, StartMove

LEMMA FinishMoveKeeps ==
  ASSUME ReadsInv, NEW p \in Replicated, NEW b \in Brokers, FinishMove(p, b) PROVE ReadsInv'
<1>1. ReadsTypeOK'
  BY ReadsAssumption DEF ReadsInv, ReadsTypeOK, FinishMove, Happens, Meanwhile, session
<1>2. LackingExplained'
  BY DEF ReadsInv, ReadsTypeOK, LackingExplained, FinishMove
<1>3. GoneAreStill'
  BY DEF ReadsInv, ReadsTypeOK, GoneAreStill, FinishMove
<1>4. MovesTold'
  BY DEF ReadsInv, ReadsTypeOK, MovesTold, FinishMove, Meanwhile, session
<1> QED
  BY <1>1, <1>2, <1>3, <1>4, ClusterStep DEF ReadsInv, FinishMove

LEMMA DeleteKeeps ==
  ASSUME ReadsInv, NEW t \in Topics, Delete(t) PROVE ReadsInv'
<1>1. ReadsTypeOK'
  BY ReadsAssumption DEF ReadsInv, ReadsTypeOK, Delete, Happens, Meanwhile, session
<1>2. LackingExplained'
  BY DEF ReadsInv, ReadsTypeOK, LackingExplained, Delete
<1>3. GoneAreStill'
  BY DEF ReadsInv, ReadsTypeOK, GoneAreStill, Delete
<1>4. MovesTold'
  BY DEF ReadsInv, ReadsTypeOK, MovesTold, Delete, Meanwhile, session
<1> QED
  BY <1>1, <1>2, <1>3, <1>4, ClusterStep DEF ReadsInv, Delete

LEMMA CreateKeeps ==
  ASSUME ReadsInv, NEW t \in Topics, Create(t) PROVE ReadsInv'
<1>1. ReadsTypeOK'
  BY ReadsAssumption DEF ReadsInv, ReadsTypeOK, Create, Happens, Meanwhile, session
<1>2. LackingExplained'
  BY DEF ReadsInv, ReadsTypeOK, LackingExplained, Create
<1>3. GoneAreStill'
  BY DEF ReadsInv, ReadsTypeOK, GoneAreStill, Create
<1>4. MovesTold'
  BY DEF ReadsInv, ReadsTypeOK, MovesTold, Create, Meanwhile, session
<1> QED
  BY <1>1, <1>2, <1>3, <1>4, ClusterStep DEF ReadsInv, Create

LEMMA ReassignmentsKeep == ReadsInv /\ (Reassignments \/ Unsupported) => ReadsInv'
<1> SUFFICES ASSUME ReadsInv, Reassignments \/ Unsupported PROVE ReadsInv'
  OBVIOUS
<1>1. ReadsTypeOK'
  BY DEF ReadsInv, ReadsTypeOK, Reassignments, Unsupported, topicState
<1>2. LackingExplained' /\ GoneAreStill'
  BY DEF ReadsInv, LackingExplained, GoneAreStill, Reassignments, Unsupported, topicState
<1>3. MovesTold'
  <2>1. CASE Unsupported
    BY <2>1 DEF MovesTold, Unsupported
  <2>2. CASE Reassignments
    <3> SUFFICES ASSUME NEW p \in Replicated, NEW b \in Brokers, p[1] \in Exactly[filtered], b \in adding[p]
                 PROVE  <<p, b>> \in told'
      BY <2>2 DEF MovesTold, Reassignments
    <3>1. p[1] \in present
      BY DEF ReadsInv, GoneAreStill
    <3> QED
      BY <2>2, <3>1, PairsTogether DEF Reassignments
  <2> QED
    BY <2>1, <2>2
<1> QED
  BY <1>1, <1>2, <1>3 DEF ReadsInv, Reassignments, Unsupported, topicState, SteadyLacks, NothingMissingYet,
      SteadyDropsReported, MissingExplained, DropperNamed

LEMMA ListTopicsKeeps == ReadsInv /\ ListTopics => ReadsInv'
<1> SUFFICES ASSUME ReadsInv, ListTopics PROVE ReadsInv'
  OBVIOUS
<1>1. ReadsTypeOK'
  BY DEF ReadsInv, ReadsTypeOK, NothingMissingYet, ListTopics, Lacking
<1>2. LackingExplained' /\ GoneAreStill' /\ MovesTold'
  BY DEF ReadsInv, LackingExplained, GoneAreStill, MovesTold, ListTopics
<1>3. SteadyLacks'
  BY DEF ReadsInv, SteadyLacks, ListTopics, Lacking
<1>4. missing' = {} /\ failed' = {} /\ (turn' = "done" => topics' = {})
  BY DEF ReadsInv, NothingMissingYet, ListTopics
<1> QED
  BY <1>1, <1>2, <1>3, <1>4 DEF ReadsInv, NothingMissingYet, SteadyDropsReported, MissingExplained, DropperNamed

LEMMA DescribeKeeps == ReadsInv /\ Describe => ReadsInv'
<1> SUFFICES ASSUME ReadsInv, Describe PROVE ReadsInv'
  OBVIOUS
<1>1. missing' \subseteq Pairs /\ turn' = "done" /\ worst' \in WorstOf(missing')
  BY DEF Describe, Answered, Lacking
<1>2. \A S : worst' \in WorstOf(S) => worst' \subseteq Brokers
  BY DEF WorstOf
<1>3. ReadsTypeOK'
  BY <1>1, <1>2 DEF ReadsInv, ReadsTypeOK, Describe, FuturesEnd, Answered, topicState
<1>4. \A x \in missing' : /\ x \in Pairs /\ x[1][1] \in topics \cap (present \ forbidden)
                          /\ x[2] \in replicas[x[1]] \ isr[x[1]]
  BY DEF Describe, Lacking, FuturesEnd
<1>5. SteadyDropsReported'
  <2> SUFFICES ASSUME NEW x \in steady, x[1][1] \in topics \ failed'
               PROVE  x \in missing' /\ IsUnderReplicated(x[1])
    BY DEF SteadyDropsReported, Describe, Answered, topicState, IsUnderReplicated
  <2>1. x \in Pairs /\ x[1][1] \in present /\ x[2] \in replicas[x[1]] \ isr[x[1]]
    BY DEF ReadsInv, SteadyLacks, Describe
  <2>2. x \in missing'
    BY <2>1 DEF Describe, Lacking
  <2> QED
    BY <2>1, <2>2, LackingCounts, PairsApart DEF ReadsInv
<1>6. MissingExplained'
  <2> SUFFICES ASSUME NEW x \in missing', sdk, x[1][1] \in Exactly[filtered]
               PROVE  x \in dropped \cup told \cup begun
    BY DEF MissingExplained, Describe, Answered, topicState
  <2>1. x[1] \in Replicated /\ x[2] \in Brokers /\ x = <<x[1], x[2]>>
    BY <1>4, PairsApart
  <2>2. x \in dropped \/ x[2] \in adding[x[1]]
    BY <1>4, <2>1 DEF ReadsInv, LackingExplained
  <2> QED
    BY <2>1, <2>2 DEF ReadsInv, MovesTold, Describe
<1>7. DropperNamed'
  <2> SUFFICES ASSUME NEW b \in Brokers, missing' # {}, \A x \in missing' : <<x[1], b>> \in missing',
                      \A c \in Brokers \ {b} : \E x \in missing' : <<x[1], c>> \notin missing'
               PROVE  worst' = {b}
    BY DEF DropperNamed
  <2>1. PICK d \in Brokers : worst' = {d} /\ \A c \in Brokers :
               broker_drop_counts(missing', c) <= broker_drop_counts(missing', d)
    BY <1>1 DEF WorstOf
  <2>2. \A c \in Brokers \ {b} : broker_drop_counts(missing', c) < broker_drop_counts(missing', b)
    BY <1>1, DropperCounts
  <2>3. \A c \in Brokers : broker_drop_counts(missing', c) \in Nat
    BY <1>1, PairsFinite, FS_CardinalityType DEF broker_drop_counts
  <2> QED
    BY <2>1, <2>2, <2>3
<1> QED
  BY <1>3, <1>5, <1>6, <1>7 DEF ReadsInv, LackingExplained, GoneAreStill, MovesTold, SteadyLacks,
      NothingMissingYet, Describe, Answered, topicState

LEMMA ReadsStep == ReadsInv /\ [ReadsNext]_readVars => ReadsInv'
<1>1. CASE UNCHANGED readVars
  BY <1>1 DEF readVars, topicState, session, ReadsInv, ReadsTypeOK, LackingExplained, GoneAreStill,
      MovesTold, SteadyLacks, NothingMissingYet, SteadyDropsReported, MissingExplained, DropperNamed,
      IsUnderReplicated
<1> QED
  BY <1>1, FallBehindKeeps, CatchUpKeeps, StartMoveKeeps, FinishMoveKeeps, DeleteKeeps, CreateKeeps,
     ReassignmentsKeep, ListTopicsKeeps, DescribeKeeps DEF ReadsNext

LEMMA ReadsInvariant == ReadsSpec => []ReadsInv
BY ReadsInitially, ReadsStep, PTL DEF ReadsSpec

\* For any brokers, partitions and filters, whatever happens to the cluster between
\* the two requests: what lags all the time is reported, and describe_topic agrees.
THEOREM DropsTheorem == ReadsSpec => []SteadyDropsReported
<1>1. ReadsInv => SteadyDropsReported
  BY DEF ReadsInv
<1> QED
  BY <1>1, ReadsInvariant, PTL

\* What is reported has fallen out of the ISR or is told as being brought in, or
\* began to be since.
THEOREM ExplainedTheorem == ReadsSpec => []MissingExplained
<1>1. ReadsInv => MissingExplained
  BY DEF ReadsInv
<1> QED
  BY <1>1, ReadsInvariant, PTL

\* The one broker missing from all that is reported is the one named, however the
\* brokers are numbered.
THEOREM DropperTheorem == ReadsSpec => []DropperNamed
<1>1. ReadsInv => DropperNamed
  BY DEF ReadsInv
<1> QED
  BY <1>1, ReadsInvariant, PTL

------------------------------------------------------------------------------
(* The offsets for a time.                                                 *)

LogsOnlyGrow == \A p \in LogParts : lengthThen[p] <= Len(log[p])

\* An offset found stays the first, whatever arrives or expires.
FirstStaysFirst ==
  \A p \in LogParts : answers[p] >= 0 =>
    answers[p] < Len(log[p]) /\ \A o \in After(p, timestamp_ms) : answers[p] <= o

NoneWereThere ==
  \A p \in LogParts : answers[p] = Missing => \A o \in After(p, timestamp_ms) : o >= lengthThen[p]

\* The rows are those of the asked, and the summary counts them.
RowsAreAnswers ==
  reached = "answered" =>
    /\ \A p \in LogParts :
         IF p \in target_partitions THEN offsets[p] = answers[p] /\ answers[p] # NoRow
                                    ELSE offsets[p] = NoRow
    /\ summary.returned = Cardinality({p \in LogParts : offsets[p] = Failed \/ offsets[p] >= 0})

LookupInv ==
  LookupTypeOK /\ LogsOnlyGrow /\ FirstStaysFirst /\ NoneWereThere /\ RowsAreAnswers

LEMMA AfterIsNat ==
  ASSUME LookupTypeOK, NEW p \in LogParts, NEW time
  PROVE  After(p, time) \in SUBSET Nat
BY DEF LookupTypeOK, After

\* The counts: all but those not found are returned, the failed among them.
LEMMA CountsAddUp ==
  ASSUME NEW T \in SUBSET LogParts, NEW rows \in [LogParts -> Nat \cup {Missing, Failed, NoRow}],
         \A p \in LogParts : p \in T <=> rows[p] # NoRow, T = target_partitions
  PROVE  /\ Cardinality(T) - not_found_count(rows)
              = Cardinality({p \in LogParts : rows[p] = Failed \/ rows[p] >= 0})
         /\ Cardinality(T) \in Nat /\ Cardinality(T) - not_found_count(rows) \in 0..Cardinality(T)
<1> DEFINE N == {p \in T : ~Found(rows[p]) /\ rows[p] # Failed}
           R == {p \in LogParts : rows[p] = Failed \/ rows[p] >= 0}
<1>1. R = T \ N /\ T \cap N = N
  BY DEF Found, Missing, Failed, NoRow
<1>2. IsFiniteSet(T)
  BY LookupAssumption, FS_Subset
<1>3. N \subseteq T
  OBVIOUS
<1> HIDE DEF N, R
<1>4. Cardinality(R) = Cardinality(T) - Cardinality(N)
  <2>1. Cardinality(T \ N) = Cardinality(T) - Cardinality(T \cap N)
    BY <1>2, FS_Difference
  <2> QED
    BY <1>1, <2>1
<1>5. IsFiniteSet(N) /\ Cardinality(N) <= Cardinality(T) /\ Cardinality(N) \in Nat /\ Cardinality(T) \in Nat
  BY <1>2, <1>3, FS_Subset, FS_CardinalityType
<1>6. not_found_count(rows) = Cardinality(N)
  BY DEF not_found_count, N
<1>7. R = {p \in LogParts : rows[p] = Failed \/ rows[p] >= 0}
  BY DEF R
<1> QED
  BY <1>4, <1>5, <1>6, <1>7

LEMMA LookupInitially == LookupInit => LookupInv
<1> SUFFICES ASSUME LookupInit PROVE LookupInv
  OBVIOUS
<1>1. log \in [LogParts -> Seq(Times)]
  <2>1. \A n \in 0..(MaxLog - 1) : [1..n -> Times] \subseteq Seq(Times)
    BY LookupAssumption
  <2>2. \A p \in LogParts : \E n \in 0..(MaxLog - 1) : log[p] \in [1..n -> Times]
    BY DEF LookupInit
  <2>3. \A p \in LogParts : log[p] \in Seq(Times)
    BY <2>1, <2>2
  <2>4. \E F : log \in [LogParts -> F]
    BY DEF LookupInit
  <2> QED
    BY <2>3, <2>4
<1>2. \A p \in LogParts : Len(log[p]) \in Nat
  BY <1>1
<1> QED
  BY <1>1, <1>2, LookupAssumption DEF LookupInit, LookupInv, LookupTypeOK, LogsOnlyGrow, FirstStaysFirst, NoneWereThere,
     RowsAreAnswers, NoRows, NoRow, Missing, Failed, NoSummary

LEMMA ArrivesKeeps ==
  ASSUME LookupInv, NEW p \in LogParts, NEW time \in Times, Arrives(p, time) PROVE LookupInv'
<1>1. /\ log \in [LogParts -> Seq(Times)] /\ log' = [log EXCEPT ![p] = Append(log[p], time)]
      /\ \A q \in LogParts : Len(log[q]) \in Nat /\ first[q] \in Nat /\ first[q] <= Len(log[q])
  BY DEF LookupInv, LookupTypeOK, Arrives
<1>2. /\ log' \in [LogParts -> Seq(Times)]
      /\ \A q \in LogParts : /\ Len(log'[q]) = IF q = p THEN Len(log[q]) + 1 ELSE Len(log[q])
                             /\ \A n \in 1..Len(log[q]) : log'[q][n] = log[q][n]
  BY <1>1
<1>3. LookupTypeOK'
  <2>1. /\ touches' \in 0..MaxTouches
        /\ UNCHANGED <<there, first, timestamp_ms, partitions, reached, target_partitions, answers,
                       offsets, summary, lengthThen>>
    BY LookupAssumption DEF LookupInv, LookupTypeOK, Arrives, Touched, question
  <2>2. \A q \in LogParts : first'[q] <= Len(log'[q])
    BY <1>1, <1>2, <2>1
  <2> QED
    BY <1>2, <2>1, <2>2 DEF LookupInv, LookupTypeOK
<1>4. \A q \in LogParts : \A o \in After(q, timestamp_ms)' : o \in After(q, timestamp_ms) \/ o = Len(log[q])
  BY <1>1, <1>2 DEF After, Arrives, Touched, question
<1>5. LogsOnlyGrow'
  BY <1>1, <1>2 DEF LookupInv, LookupTypeOK, LogsOnlyGrow, Arrives, Touched
<1>6. FirstStaysFirst'
  <2> SUFFICES ASSUME NEW q \in LogParts, answers[q] >= 0
               PROVE  answers[q] < Len(log'[q]) /\ \A o \in After(q, timestamp_ms)' : answers[q] <= o
    BY DEF FirstStaysFirst, Arrives, Touched
  <2>1. answers[q] \in Nat /\ answers[q] < Len(log[q]) /\ \A o \in After(q, timestamp_ms) : answers[q] <= o
    <3>1. answers[q] \in Nat \cup {Missing, Failed, NoRow}
      BY DEF LookupInv, LookupTypeOK
    <3>2. answers[q] \in Nat
      BY <3>1 DEF Missing, Failed, NoRow
    <3>3. answers[q] < Len(log[q]) /\ \A o \in After(q, timestamp_ms) : answers[q] <= o
      BY DEF LookupInv, FirstStaysFirst
    <3> QED
      BY <3>2, <3>3
  <2>2. answers[q] < Len(log'[q])
    BY <1>1, <1>2, <2>1
  <2> QED
    BY <1>1, <1>4, <2>1, <2>2
<1>7. NoneWereThere'
  BY <1>1, <1>4 DEF LookupInv, LookupTypeOK, NoneWereThere, LogsOnlyGrow, Arrives, Touched
<1>8. RowsAreAnswers'
  BY DEF LookupInv, RowsAreAnswers, Arrives, Touched
<1> QED
  BY <1>3, <1>5, <1>6, <1>7, <1>8 DEF LookupInv

LEMMA ExpiresKeeps ==
  ASSUME LookupInv, NEW p \in LogParts, Expires(p) PROVE LookupInv'
<1>1. /\ UNCHANGED <<there, log, timestamp_ms, partitions, reached, target_partitions, answers,
                     offsets, summary, lengthThen>>
      /\ touches' = touches + 1 /\ touches < MaxTouches
      /\ first' = [first EXCEPT ![p] = first[p] + 1] /\ first[p] < Len(log[p])
  BY DEF Expires, Touched, question
<1>2. first \in [LogParts -> Nat] /\ \A q \in LogParts : Len(log[q]) \in Nat /\ first[q] <= Len(log[q])
  BY DEF LookupInv, LookupTypeOK
<1>3. /\ first' \in [LogParts -> Nat]
      /\ \A q \in LogParts : first'[q] >= first[q] /\ first'[q] <= Len(log[q])
  BY <1>1, <1>2
<1>4. touches' \in 0..MaxTouches
  BY <1>1, LookupAssumption DEF LookupInv, LookupTypeOK
<1>5. LookupTypeOK'
  BY <1>1, <1>3, <1>4 DEF LookupInv, LookupTypeOK
<1>6. \A q \in LogParts : \A o \in After(q, timestamp_ms)' : o \in After(q, timestamp_ms)
  BY <1>1, <1>2, <1>3 DEF After
<1>7. FirstStaysFirst' /\ NoneWereThere'
  BY <1>1, <1>6 DEF LookupInv, FirstStaysFirst, NoneWereThere
<1> QED
  BY <1>1, <1>5, <1>7 DEF LookupInv, LogsOnlyGrow, RowsAreAnswers

LEMMA ResolveKeeps == LookupInv /\ Resolve => LookupInv'
<1> SUFFICES ASSUME LookupInv, Resolve PROVE LookupInv'
  OBVIOUS
<1>1. LookupTypeOK'
  BY DEF LookupInv, LookupTypeOK, Resolve, Asked, logs, question
<1> QED
  BY <1>1 DEF LookupInv, Resolve, Asked, logs, question, LogsOnlyGrow, FirstStaysFirst, NoneWereThere,
     RowsAreAnswers, After

LEMMA LookUpKeeps ==
  ASSUME LookupInv, NEW p \in LogParts, LookUp(p) PROVE LookupInv'
<1> DEFINE found == After(p, timestamp_ms)
           least == CHOOSE o \in found : \A q \in found : o <= q
<1>1. found # {} => least \in found /\ \A q \in found : least <= q
  BY AfterIsNat, LeastExists DEF LookupInv
<1>2. found \in SUBSET Nat /\ \A o \in found : o < Len(log[p])
  BY AfterIsNat DEF LookupInv, LookupTypeOK, After
<1> HIDE DEF least
<1>3. answers' = [answers EXCEPT ![p] = IF found = {} THEN Missing ELSE least]
  BY DEF LookUp, least
<1>4. /\ UNCHANGED <<there, log, first, touches, timestamp_ms, partitions, reached, target_partitions,
                     offsets, summary, lengthThen>>
      /\ reached = "ask"
  BY DEF LookUp, logs, question
<1> HIDE DEF found
<1>5. LookupTypeOK'
  BY <1>1, <1>2, <1>3, <1>4 DEF LookupInv, LookupTypeOK
<1>6. \A q \in LogParts : After(q, timestamp_ms)' = After(q, timestamp_ms)
  BY <1>4 DEF After
<1>7. FirstStaysFirst'
  BY <1>1, <1>2, <1>3, <1>4, <1>6 DEF LookupInv, LookupTypeOK, FirstStaysFirst, Missing, found
<1>8. NoneWereThere'
  BY <1>1, <1>2, <1>3, <1>4, <1>6 DEF LookupInv, LookupTypeOK, NoneWereThere, Missing, found
<1> QED
  BY <1>4, <1>5, <1>7, <1>8 DEF LookupInv, LogsOnlyGrow, RowsAreAnswers

LEMMA LookUpFailsKeeps ==
  ASSUME LookupInv, NEW p \in LogParts, LookUpFails(p) PROVE LookupInv'
<1>1. LookupTypeOK'
  BY DEF LookupInv, LookupTypeOK, LookUpFails, logs, question
<1>2. \A q \in LogParts : After(q, timestamp_ms)' = After(q, timestamp_ms)
  BY DEF After, LookUpFails, logs, question
<1> QED
  BY <1>1, <1>2 DEF LookupInv, LookupTypeOK, LookUpFails, logs, question, LogsOnlyGrow, FirstStaysFirst,
     NoneWereThere, RowsAreAnswers, Missing, Failed

LEMMA GatherKeeps == LookupInv /\ Gather => LookupInv'
<1> SUFFICES ASSUME LookupInv, Gather PROVE LookupInv'
  OBVIOUS
<1> DEFINE total == Cardinality(target_partitions)
<1>1. /\ UNCHANGED <<there, log, first, touches, timestamp_ms, partitions, target_partitions, answers, lengthThen>>
      /\ offsets' = [p \in LogParts |-> IF p \in target_partitions THEN answers[p] ELSE NoRow]
      /\ \A p \in target_partitions : answers[p] # NoRow
      /\ reached' = "answered"
      /\ summary' = [all |-> total, returned |-> total - not_found_count(offsets')]
  BY DEF Gather, RowOf, logs, question
<1>2. offsets' \in [LogParts -> Nat \cup {Missing, Failed, NoRow}]
  BY <1>1 DEF LookupInv, LookupTypeOK
<1>3. \A p \in LogParts : p \in target_partitions <=> offsets'[p] # NoRow
  BY <1>1
<1>4. /\ total - not_found_count(offsets')
           = Cardinality({p \in LogParts : offsets'[p] = Failed \/ offsets'[p] >= 0})
      /\ total \in Nat /\ total - not_found_count(offsets') \in 0..total
  BY <1>2, <1>3, CountsAddUp DEF LookupInv, LookupTypeOK
<1> HIDE DEF total
<1>5. LookupTypeOK'
  BY <1>1, <1>2, <1>4 DEF LookupInv, LookupTypeOK
<1>6. RowsAreAnswers'
  BY <1>1, <1>4 DEF RowsAreAnswers
<1> QED
  BY <1>1, <1>5, <1>6 DEF LookupInv, LogsOnlyGrow, FirstStaysFirst, NoneWereThere, After

LEMMA LookupStep == LookupInv /\ [LookupNext]_lookupVars => LookupInv'
<1>1. CASE UNCHANGED lookupVars
  BY <1>1 DEF lookupVars, logs, question, LookupInv, LookupTypeOK, LogsOnlyGrow, FirstStaysFirst,
     NoneWereThere, RowsAreAnswers, After
<1> QED
  BY <1>1, ArrivesKeeps, ExpiresKeeps, ResolveKeeps, LookUpKeeps, LookUpFailsKeeps, GatherKeeps DEF LookupNext

LEMMA LookupInvariant == LookupSpec => []LookupInv
BY LookupInitially, LookupStep, PTL DEF LookupSpec

\* For any partitions, timestamps in any order and however producers and retention
\* go on: a consumer set to an offset that was found misses no message.
THEOREM ReplayTheorem == LookupSpec => []ReplayMissesNothing
<1>1. LookupInv => ReplayMissesNothing
  BY DEF LookupInv, LookupTypeOK, FirstStaysFirst, RowsAreAnswers, ReplayMissesNothing, Found, Missing, Failed, NoRow
<1> QED
  BY <1>1, LookupInvariant, PTL

\* Where none was found there was none when the call began, and the summary counts
\* as returned just the rows with an offset and those that failed.
THEOREM NotFoundTheorem == LookupSpec => []NotFoundMeansNone
<1>1. LookupInv => NotFoundMeansNone
  BY DEF LookupInv, LookupTypeOK, NoneWereThere, RowsAreAnswers, NotFoundMeansNone, Found, Missing, Failed, NoRow
<1> QED
  BY <1>1, LookupInvariant, PTL

------------------------------------------------------------------------------
(* The listing of the groups.                                              *)

\* What a coordinator that answered said of a group still holds, if the group has
\* stayed as it was.
RowsStillTrue ==
  \A g \in unmoved, b \in heard :
    b \in coordinator[g] => [group |-> g, state |-> stateOf[g], from |-> b] \in valid

ListingInv ==
  /\ unmoved \subseteq GroupIds /\ coordinator \in [GroupIds -> {{}} \cup {{b} : b \in Coordinators}]
  /\ stateOf \in [GroupIds -> StateNames \cup {NoState}]
  /\ RowsStillTrue /\ SteadyGroupsListed

LEMMA ListingInitially == ListingInit => ListingInv
BY DEF ListingInit, ListingInv, RowsStillTrue, SteadyGroupsListed, Open

LEMMA RegroupKeeps ==
  ASSUME ListingInv, NEW g \in GroupIds, Regroup(g) PROVE ListingInv'
<1>1. /\ coordinator' \in [GroupIds -> {{}} \cup {{b} : b \in Coordinators}]
      /\ stateOf' \in [GroupIds -> StateNames \cup {NoState}]
      /\ \A h \in GroupIds \ {g} : coordinator'[h] = coordinator[h] /\ stateOf'[h] = stateOf[h]
  BY DEF ListingInv, Regroup
<1>2. RowsStillTrue'
  BY <1>1 DEF ListingInv, RowsStillTrue, Regroup
<1> QED
  BY <1>1, <1>2 DEF ListingInv, Regroup, SteadyGroupsListed, Open

LEMMA HearKeeps ==
  ASSUME ListingInv, NEW b \in Coordinators, Hear(b) PROVE ListingInv'
<1>1. RowsStillTrue'
  BY DEF ListingInv, RowsStillTrue, Hear, groupState
<1> QED
  BY <1>1 DEF ListingInv, Hear, groupState, SteadyGroupsListed, Open

LEMMA BrokerFailsKeeps ==
  ASSUME ListingInv, NEW b \in Coordinators, BrokerFails(b) PROVE ListingInv'
BY DEF ListingInv, RowsStillTrue, BrokerFails, groupState, SteadyGroupsListed, Open

LEMMA AnswerKeeps == ListingInv /\ Answer => ListingInv'
<1> SUFFICES ASSUME ListingInv, Answer PROVE ListingInv'
  OBVIOUS
<1>1. UNCHANGED <<coordinator, stateOf, state_filter, heard, errors, valid, unmoved>>
      /\ listing'.rows = {row \in valid : Passes(row)}
  BY DEF Answer, groupState, Summarize
<1>2. SteadyGroupsListed'
  <2> SUFFICES ASSUME NEW g \in unmoved, coordinator[g] \subseteq heard, coordinator[g] # {},
                      state_filter = AnyState \/ stateOf[g] = UpperCase[state_filter]
               PROVE  \E row \in listing'.rows : row.group = g
    BY <1>1 DEF SteadyGroupsListed
  <2>1. PICK b \in heard : b \in coordinator[g]
    OBVIOUS
  <2> DEFINE row == [group |-> g, state |-> stateOf[g], from |-> b]
  <2>2. row \in valid
    BY <2>1 DEF ListingInv, RowsStillTrue
  <2>3. Passes(row) /\ row.group = g
    BY DEF Passes
  <2> QED
    BY <1>1, <2>2, <2>3
<1> QED
  BY <1>1, <1>2 DEF ListingInv, RowsStillTrue

\* For any brokers and groups, whatever moves meanwhile and whichever brokers fail.
THEOREM GroupsTheorem == ListingSpec => []SteadyGroupsListed
<1>1. ListingInv /\ [ListingNext]_listingVars => ListingInv'
  <2>1. CASE UNCHANGED listingVars
    BY <2>1 DEF listingVars, groupState, ListingInv, RowsStillTrue, SteadyGroupsListed, Open
  <2> QED
    BY <2>1, RegroupKeeps, HearKeeps, BrokerFailsKeeps, AnswerKeeps DEF ListingNext
<1>2. ListingInv => SteadyGroupsListed
  BY DEF ListingInv
<1> QED
  BY <1>1, <1>2, ListingInitially, PTL DEF ListingSpec

------------------------------------------------------------------------------
(* The configs of a topic.                                                 *)

LayersInv ==
  setIn \in [ConfigKeys -> SUBSET (1..5)] /\ \A k \in ConfigKeys : 5 \in setIn[k]

ConfigsInv == LayersInv /\ OverridesShown

\* The layer that counts is the lowest that has a value.
LEMMA SourceIsLowest ==
  ASSUME LayersInv, NEW k \in ConfigKeys
  PROVE  \E l \in setIn[k] : Source(k) = Layers[l] /\ \A m \in setIn[k] : l <= m
<1> DEFINE low == CHOOSE l \in setIn[k] : \A m \in setIn[k] : l <= m
<1>1. setIn[k] \in SUBSET Nat /\ setIn[k] # {}
  BY DEF LayersInv
<1>2. low \in setIn[k] /\ \A m \in setIn[k] : low <= m
  BY <1>1, LeastExists
<1>3. Source(k) = Layers[low]
  BY DEF Source
<1> QED
  BY <1>2, <1>3

LEMMA ConfigsInitially == ConfigsInit => ConfigsInv
BY DEF ConfigsInit, ConfigsInv, LayersInv, OverridesShown

LEMMA DescribeConfigsKeeps == ConfigsInv /\ DescribeConfigs => ConfigsInv'
<1> SUFFICES ASSUME ConfigsInv, DescribeConfigs PROVE ConfigsInv'
  OBVIOUS
<1>1. UNCHANGED setIn /\ configReply'.notable = notable_overrides
      /\ configReply'.all_defaults = (notable_overrides = {})
  BY DEF DescribeConfigs
<1>2. OverridesShown'
  <2> SUFFICES ASSUME NEW k \in ConfigKeys \cap _NOTABLE_KEYS,
                      setIn[k] \cap {1, 2} # {} \/ (4 \in setIn[k] /\ 3 \notin setIn[k])
               PROVE  k \in notable_overrides
    BY <1>1 DEF OverridesShown
  <2>1. PICK l \in setIn[k] : Source(k) = Layers[l] /\ \A m \in setIn[k] : l <= m
    BY SourceIsLowest DEF ConfigsInv
  <2>2. l \in 1..5
    BY DEF ConfigsInv, LayersInv
  <2>3. l \in {1, 2, 4}
    BY <2>1, <2>2
  <2>4. ~IsDefault(Source(k))
    BY <2>1, <2>3 DEF IsDefault, EntryIsDefault, Layers
  <2> QED
    BY <2>4 DEF notable_overrides
<1> QED
  BY <1>1, <1>2 DEF ConfigsInv, LayersInv

LEMMA AlterKeeps ==
  ASSUME ConfigsInv, NEW k \in ConfigKeys, NEW layer \in 1..4, Alter(k, layer) PROVE ConfigsInv'
BY DEF ConfigsInv, LayersInv, Alter, OverridesShown

\* For any keys, whatever operators set and unset.
THEOREM OverridesTheorem == ConfigsSpec => []OverridesShown
<1>1. ConfigsInv /\ [ConfigsNext]_configVars => ConfigsInv'
  <2>1. CASE UNCHANGED configVars
    BY <2>1 DEF configVars, ConfigsInv, LayersInv, OverridesShown
  <2> QED
    BY <2>1, DescribeConfigsKeeps, AlterKeeps DEF ConfigsNext
<1>2. ConfigsInv => OverridesShown
  BY DEF ConfigsInv
<1> QED
  BY <1>1, <1>2, ConfigsInitially, PTL DEF ConfigsSpec

------------------------------------------------------------------------------
(* The ACLs.                                                               *)

AclsInv == acls \subseteq Bindings /\ AskedAclsFound

\* The filter accepts what the caller asked for.
LEMMA AskedAccepted ==
  ASSUME NEW b \in Bindings, Says(b) PROVE Accepts(b)
<1>1. b.restype \in ResourceTypes
  BY AclsAssumption
<1> QED
  BY <1>1 DEF Says, Accepts, ResolveType, ResourceTypes

\* For any ACLs and filters, whatever is granted and revoked.
THEOREM AclsTheorem == AclsSpec => []AskedAclsFound
<1>1. AclsInit => AclsInv
  BY DEF AclsInit, AclsInv, AskedAclsFound
<1>2. AclsInv /\ [AclsNext]_aclVars => AclsInv'
  <2> SUFFICES ASSUME AclsInv, [AclsNext]_aclVars PROVE AclsInv'
    OBVIOUS
  <2>1. CASE DescribeAcls
    <3>1. \A b \in acls : Says(b) => b \in aclReply'.acls /\ aclReply'.summary = "counted"
      BY <2>1, AskedAccepted DEF DescribeAcls, AclsInv, AclSummary
    <3> QED
      BY <2>1, <3>1 DEF DescribeAcls, AclsInv, AskedAclsFound, Says
  <2>2. ASSUME NEW b \in Bindings, Grant(b) \/ Revoke(b) PROVE AclsInv'
    BY <2>2 DEF Grant, Revoke, AclsInv, AskedAclsFound
  <2>3. CASE UNCHANGED aclVars
    BY <2>3 DEF aclVars, AclsInv, AskedAclsFound, Says
  <2> QED
    BY <2>1, <2>2, <2>3 DEF AclsNext
<1>3. AclsInv => AskedAclsFound
  BY DEF AclsInv
<1> QED
  BY <1>1, <1>2, <1>3, PTL DEF AclsSpec
=============================================================================
