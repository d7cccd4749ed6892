------------------------------ MODULE TopicReads ------------------------------
(***************************************************************************)
(* The replication tools, used one after the other as the README suggests: *)
(* describe_partition_reassignments, then describe_under_replicated_       *)
(* partitions, which lists the topics and describes them in two requests,  *)
(* and describe_topic beside it; on topics that brokers fall behind on,    *)
(* are moved to and are deleted meanwhile.                                 *)
(***************************************************************************)
EXTENDS Integers, FiniteSets

CONSTANTS
  Brokers,
  Replicated,   \* the partitions: pairs <<topic, number>>
  Placement,    \* where their replicas are at first
  Internal,     \* the topics whose name begins with __consumer_offsets
  TopicFilters, \* what topic_filter may be
  Exactly,      \* Exactly[f]: the topics f is the name of
  Beginning,    \* Beginning[f]: those whose name begins with f
  MaxChanges    \* bound on what happens to the cluster

Topics == {p[1] : p \in Replicated}

ASSUME ReadsAssumption ==
  /\ IsFiniteSet(Brokers) /\ IsFiniteSet(Replicated) /\ MaxChanges \in Nat
  /\ Placement \in [Replicated -> SUBSET Brokers]
  /\ Exactly \in [TopicFilters -> SUBSET Topics]
  /\ Beginning \in [TopicFilters -> SUBSET Topics]

VARIABLES
  present, forbidden,     \* topics there are, and those we may not describe
  replicas, isr, adding,  \* by partition; adding: what a reassignment brings in
  changes,
  sdk,           \* does the client library have list_partition_reassignments?
  filtered,      \* topic_filter, the same for all
  turn,          \* "moves", "list", "describe" or "done"
  told,          \* in_progress_reassignments: pairs <<partition, adding broker>>
  topics,        \* what _list_topics returned
  failed,        \* the topics whose future raised
  missing,       \* missing_from_isr: pairs <<partition, broker>>
  worst,         \* the broker the summary names, in a set
  steady,        \* history: pairs missing ever since the topics were listed
  dropped,       \* history: pairs that fell out of the ISR at some time
  begun          \* history: pairs whose reassignment began after `told`

topicState == <<present, replicas, isr, adding, changes, steady, dropped, begun>>
session    == <<turn, told, topics, failed, missing, worst>>
readVars   == <<forbidden, sdk, filtered, topicState, session>>

Pairs == Replicated \X Brokers

\* p's replicas in no ISR, of the topics in ts.
Lacking(ts) == {x \in Pairs : x[1][1] \in ts /\ x[2] \in replicas[x[1]] \ isr[x[1]]}

ReadsInit ==
  /\ present = Topics /\ forbidden \in {{}} \cup {{t} : t \in Topics}
  /\ replicas = Placement
  /\ isr \in [Replicated -> SUBSET Brokers]
  /\ \A p \in Replicated : isr[p] # {} /\ isr[p] \subseteq replicas[p]
  /\ adding \in {[p \in Replicated |-> {x[2] : x \in {y \in m : y[1] = p}}] :
                 m \in {{}} \cup {{x} : x \in Pairs}}
  /\ \A p \in Replicated : adding[p] \subseteq replicas[p] /\ isr[p] \ adding[p] # {}
  /\ changes = 0 /\ sdk \in BOOLEAN /\ filtered \in TopicFilters
  /\ turn = "moves" /\ told = {} /\ topics = {} /\ failed = {}
  /\ missing = {} /\ worst = {}
  /\ steady = {} /\ dropped = {x \in Lacking(Topics) : x[2] \notin adding[x[1]]} /\ begun = {}

----------------------------------------------------------------------------
(* The cluster.                                                            *)

Happens == changes < MaxChanges /\ turn # "done"

Meanwhile ==
  /\ changes' = changes + 1
  /\ steady' = steady \cap Lacking(present)'
  /\ UNCHANGED <<forbidden, sdk, filtered, session>>

FallBehind(p, b) ==
  /\ Happens /\ p[1] \in present /\ b \in isr[p] /\ isr[p] # {b}
  /\ isr' = [isr EXCEPT ![p] = @ \ {b}]
  /\ dropped' = dropped \cup {<<p, b>>}
  /\ UNCHANGED <<present, replicas, adding, begun>>
  /\ Meanwhile

CatchUp(p, b) ==
  /\ Happens /\ p[1] \in present /\ b \in replicas[p] \ isr[p]
  /\ isr' = [isr EXCEPT ![p] = @ \cup {b}]
  /\ UNCHANGED <<present, replicas, adding, dropped, begun>>
  /\ Meanwhile

StartMove(p, b) ==
  /\ Happens /\ p[1] \in present /\ b \notin replicas[p] /\ adding[p] = {}
  /\ replicas' = [replicas EXCEPT ![p] = @ \cup {b}]
  /\ adding' = [adding EXCEPT ![p] = {b}]
  /\ begun' = begun \cup {<<p, b>>}
  /\ UNCHANGED <<present, isr, dropped>>
  /\ Meanwhile

FinishMove(p, b) ==
  /\ Happens /\ p[1] \in present /\ adding[p] # {} /\ adding[p] \subseteq isr[p]
  /\ b \in replicas[p] \ adding[p]
  /\ replicas' = [replicas EXCEPT ![p] = @ \ {b}]
  /\ isr' = [isr EXCEPT ![p] = @ \ {b}]
  /\ adding' = [adding EXCEPT ![p] = {}]
  /\ UNCHANGED <<present, dropped, begun>>
  /\ Meanwhile

Delete(t) ==
  /\ Happens /\ t \in present
  /\ present' = present \ {t}
  /\ adding' = [p \in Replicated |-> IF p[1] = t THEN {} ELSE adding[p]]
  /\ UNCHANGED <<replicas, isr, dropped, begun>>
  /\ Meanwhile

Create(t) ==
  /\ Happens /\ t \notin present
  /\ present' = present \cup {t}
  /\ isr' = [p \in Replicated |-> IF p[1] = t THEN replicas[p] ELSE isr[p]]
  /\ UNCHANGED <<replicas, adding, dropped, begun>>
  /\ Meanwhile

----------------------------------------------------------------------------
(* describe_partition_reassignments: its filter is a name.                 *)

\* Mutant: what the reassignment removes is told as what it adds.
ReassignmentsOld ==
  /\ turn = "moves" /\ sdk
  /\ told' = {x \in Pairs : /\ x[1][1] \in present \cap Exactly[filtered]
                            /\ adding[x[1]] # {} /\ x[2] \in replicas[x[1]] \ adding[x[1]]}
  /\ turn' = "list" /\ begun' = {}
  /\ UNCHANGED <<forbidden, sdk, filtered, present, replicas, isr, adding, changes, steady, dropped,
                 topics, failed, missing, worst>>

Reassignments ==
  /\ turn = "moves" /\ sdk
  /\ told' = {x \in Pairs : x[1][1] \in present \cap Exactly[filtered] /\ x[2] \in adding[x[1]]}
  /\ turn' = "list" /\ begun' = {}
  /\ UNCHANGED <<forbidden, sdk, filtered, present, replicas, isr, adding, changes, steady, dropped,
                 topics, failed, missing, worst>>

\* _unsupported_response
Unsupported ==
  /\ turn = "moves" /\ ~sdk
  /\ turn' = "list"
  /\ UNCHANGED <<forbidden, sdk, filtered, topicState, told, topics, failed, missing, worst>>

----------------------------------------------------------------------------
(* describe_under_replicated_partitions: its filter is how a name begins.  *)

ListTopics ==
  /\ turn = "list"
  /\ topics' = (present \ Internal) \cap Beginning[filtered]
  /\ turn' = IF topics' = {} THEN "done" ELSE "describe"
  /\ steady' = Lacking(present)
  /\ UNCHANGED <<forbidden, sdk, filtered, present, replicas, isr, adding, changes, dropped, begun,
                 told, failed, missing, worst>>

\* A future raises for a topic that is gone, for one we may not describe, and for any
\* topic, or for all, when a broker or the request fails or times out.
FuturesEnd ==
  /\ failed' \in SUBSET topics
  /\ topics \ (present \ forbidden) \subseteq failed'

broker_drop_counts(pairs, b) == Cardinality({x \in pairs : x[2] = b})

\* Mutant: max() of the items compares the broker ids.
WorstById(pairs) == {{b} : b \in {c \in Brokers : \A x \in pairs : x[2] <= c}}

\* max() of the counts: the first in an order that depends on the topics.
WorstOf(pairs) ==
  IF pairs = {} THEN {{}}
  ELSE {{b} : b \in {c \in Brokers :
          \A d \in Brokers : broker_drop_counts(pairs, d) <= broker_drop_counts(pairs, c)}}

Answered ==
  /\ turn' = "done" /\ worst' \in WorstOf(missing')
  /\ UNCHANGED <<forbidden, sdk, filtered, topicState, told, topics>>

\* Mutant: one topic that cannot be described, and there is nothing to report.
DescribeAllOrNothing ==
  /\ turn = "describe"
  /\ FuturesEnd
  /\ missing' = IF failed' = {} THEN Lacking(topics) ELSE {}
  /\ Answered

\* One request for all, and each future for itself: `except Exception: continue`.
Describe ==
  /\ turn = "describe"
  /\ FuturesEnd
  /\ missing' = Lacking(topics \ failed')
  /\ Answered

ReadsNext ==
  \/ Reassignments \/ Unsupported \/ ListTopics \/ Describe
  \/ \E p \in Replicated, b \in Brokers :
       FallBehind(p, b) \/ CatchUp(p, b) \/ StartMove(p, b) \/ FinishMove(p, b)
  \/ \E t \in Topics : Delete(t) \/ Create(t)

ReadsSpec == ReadsInit /\ [][ReadsNext]_readVars

----------------------------------------------------------------------------
(* describe_topic.                                                         *)

\* is_under_replicated
IsUnderReplicated(p) == Cardinality(isr[p]) < Cardinality(replicas[p])

----------------------------------------------------------------------------
(* Properties.                                                             *)

ReadsTypeOK ==
  /\ present \subseteq Topics /\ forbidden \subseteq Topics
  /\ replicas \in [Replicated -> SUBSET Brokers]
  /\ isr \in [Replicated -> SUBSET Brokers] /\ adding \in [Replicated -> SUBSET Brokers]
  /\ \A p \in Replicated : isr[p] \subseteq replicas[p] /\ adding[p] \subseteq replicas[p]
  /\ changes \in 0..MaxChanges /\ sdk \in BOOLEAN /\ filtered \in TopicFilters
  /\ turn \in {"moves", "list", "describe", "done"}
  /\ told \subseteq Pairs /\ missing \subseteq Pairs /\ worst \subseteq Brokers
  /\ topics \subseteq Topics \ Internal /\ failed \subseteq topics
  /\ steady \subseteq Pairs /\ dropped \subseteq Pairs /\ begun \subseteq Pairs

\* A broker that lags behind from the listing to the answer is reported, whatever
\* happens to the topic beside it between the two requests and whatever fails: a
\* topic is left out for the failure of its own future only, not for another's
\* (describe_under_replicated_partitions.py:83-87, test_skips_topics_that_fail_to_
\* describe); and describe_topic, asked at that time, agrees (describe_topic.py:50).
SteadyDropsReported ==
  turn = "done" => \A x \in steady :
    x[1][1] \in topics \ failed => x \in missing /\ IsUnderReplicated(x[1])

\* README.md:74: "Scans all topics on the cluster and reports partitions where
\* len(isr) < len(replicas)"; README.md:76 excepts the topics that an ACL denies.  So
\* "No under-replicated partitions" is said only if none of the others lagged all
\* the time.
NoneMeansNone ==
  turn = "done" /\ missing = {} => \A x \in steady : x[1][1] \notin topics \ forbidden

\* A broker reported as missing has fallen out of the ISR, or it is one that a
\* reassignment brings in and has yet to catch up.  Then the reassignments read
\* before tell it, unless they began since, the library cannot list them, or the
\* filter is only the beginning of the topic's name.
MissingExplained ==
  turn = "done" => \A x \in missing :
    x \in dropped \cup told \cup begun \/ ~sdk \/ x[1][1] \notin Exactly[filtered]

\* "is broker N consistently dropping out?" (README.md:76): a broker missing
\* from every partition that is reported is the one named, if it is the only one.
DropperNamed ==
  turn = "done" => \A b \in Brokers :
    /\ missing # {} /\ \A x \in missing : <<x[1], b>> \in missing
    /\ \A c \in Brokers \ {b} : \E x \in missing : <<x[1], c>> \notin missing
    => worst = {b}
=============================================================================
