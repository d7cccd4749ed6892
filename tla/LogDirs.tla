------------------------------- MODULE LogDirs -------------------------------
(***************************************************************************)
(* describe_log_dirs: from what kafka-log-dirs.sh prints to the stuck      *)
(* reassignments and disk errors of the answer.                            *)
(*                                                                         *)
(* A name is the sequence of its pieces between dashes, so "orders-0" is   *)
(* <<"orders", 0>>.  A line that bleeds into the output may have a brace,  *)
(* before the JSON object, or come after it.                               *)
(***************************************************************************)
EXTENDS Integers, Sequences

CONSTANTS
  Layouts,     \* what the brokers may hold
  TopicNames,  \* the topics in them: sequences of pieces
  NoFilter     \* topic_filter is None

\* What stands after the last dash is the partition's number.
ASSUME NamesAssumption ==
  /\ TopicNames \subseteq Seq(STRING)
  /\ \A l \in Layouts : \A r \in l.replicas : r.topic \in TopicNames /\ r.partition \in STRING

(* A replica is [broker, dir, topic, partition, future], a layout a set of *)
(* replicas and the set of <<broker, dir>> that report an error.           *)
VARIABLES
  layout, bleeds,  \* what is printed
  topic_filter,
  dirsReply        \* [code, stuck, disk_errors]

dirsVars == <<layout, bleeds, topic_filter, dirsReply>>

Bleeding == {"nothing", "plain", "brace", "after"}
DirsCode == {"none", "ok", "EXECUTION_FAILURE"}

DirsInit ==
  /\ layout \in Layouts /\ bleeds \in Bleeding
  /\ topic_filter \in TopicNames \cup {NoFilter}
  /\ dirsReply = [code |-> "none", stuck |-> {}, disk_errors |-> {}]

----------------------------------------------------------------------------
\* The "partition" field.
Printed(r) == Append(r.topic, r.partition)

\* Mutant: the text is split at its first dash.
SplitFirst(text) == [topic |-> SubSeq(text, 1, 1), partition |-> text[2]]

\* topic_part.rsplit("-", 1)
Split(text) == [topic |-> SubSeq(text, 1, Len(text) - 1), partition |-> text[Len(text)]]

Wanted(r) == topic_filter \in {NoFilter, Split(Printed(r)).topic}

stuck_reassignments ==
  {[broker |-> r.broker, dir |-> r.dir, name |-> Split(Printed(r))] :
     r \in {q \in layout.replicas : q.future /\ Wanted(q)}}

disk_errors == layout.broken

\* _extract_json: everything from the first brace on has to be one object.
IsJson == bleeds \in {"nothing", "plain"}

DescribeLogDirs ==
  /\ dirsReply.code = "none" /\ IsJson
  /\ dirsReply' = [code |-> "ok", stuck |-> stuck_reassignments, disk_errors |-> disk_errors]
  /\ UNCHANGED <<layout, bleeds, topic_filter>>

NoJson ==
  /\ dirsReply.code = "none" /\ ~IsJson
  /\ dirsReply' = [dirsReply EXCEPT !.code = "EXECUTION_FAILURE"]
  /\ UNCHANGED <<layout, bleeds, topic_filter>>

DirsNext == DescribeLogDirs \/ NoJson

DirsSpec == DirsInit /\ [][DirsNext]_dirsVars

----------------------------------------------------------------------------
(* Properties.                                                             *)

\* A move that is stuck is listed under the topic it belongs to, though topic
\* names have dashes and numbers of their own, and nothing else is listed: a
\* filter on one topic does not take in another whose name goes on from it.  A broken
\* disk is reported whatever topic was asked for: its replicas may not be listed any
\* more.
StuckMovesListed ==
  dirsReply.code = "ok" =>
    /\ dirsReply.stuck =
         {[broker |-> r.broker, dir |-> r.dir,
           name |-> [topic |-> r.topic, partition |-> r.partition]] :
            r \in {q \in layout.replicas : q.future /\ topic_filter \in {NoFilter, q.topic}}}
    /\ dirsReply.disk_errors = layout.broken
=============================================================================
