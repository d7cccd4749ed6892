----------------------------- MODULE PlanParser -----------------------------
(***************************************************************************)
(* _parse_plan (compute_offset_reset_plan.py): the table of a dry run, cut *)
(* into whitespace-separated tokens and read in windows of one row each,   *)
(* one token further whenever a window does not look like a row.           *)
(*                                                                         *)
(* A token is an integer, if int() accepts it, or a member of Words.  The  *)
(* text is given with what the command printed in it: rows, and between    *)
(* them tokens of stray log lines, which the parser cannot tell apart.     *)
(***************************************************************************)
EXTENDS Integers, Sequences

CONSTANTS
  Words,    \* the tokens int() rejects
  Rank,     \* Rank[t]: the place of token t in the order of strings
  Headers,  \* the lists header_cols may be, <<>> if NEW-OFFSET is not found
  Streams   \* the texts after the header

Tokens == Int \cup Words

Row == [group : Tokens, topic : Tokens, partition : Int, new_offset : Int]

\* A text: its tokens, the rows printed in it and the places where they start.
WellFormed(s) ==
  /\ s.tokens \in Seq(Tokens)
  /\ s.printed \in Seq(Row)
  /\ s.starts \in [DOMAIN s.printed -> DOMAIN s.tokens]
  /\ \A k \in DOMAIN s.printed :
       LET at == s.starts[k]
           r  == s.printed[k]
       IN  /\ at + 3 <= Len(s.tokens)
           /\ \A j \in 1..(k - 1) : s.starts[j] + 4 <= at
           /\ s.tokens[at] = r.group /\ s.tokens[at + 1] = r.topic
           /\ s.tokens[at + 2] = r.partition /\ s.tokens[at + 3] = r.new_offset

ASSUME StreamsAssumption == \A s \in Streams : WellFormed(s)
ASSUME WordsAssumption   == Words \cap Int = {}
ASSUME HeadersAssumption == \A h \in Headers : h \in Seq(STRING)

\* Strings are totally ordered.
ASSUME RankAssumption ==
  /\ \A t \in DOMAIN Rank : Rank[t] \in Int
  /\ \A t, u \in DOMAIN Rank : Rank[t] = Rank[u] => t = u
  /\ \A s \in Streams : \A n \in DOMAIN s.tokens : s.tokens[n] \in DOMAIN Rank

VARIABLES
  header_cols,
  stream,  \* the text after the header
  step,    \* "header", "rows" or "done"
  i,       \* as in the code: the next window starts at token i + 1
  found,   \* `plan` before it is sorted
  plan     \* the result

vars == <<header_cols, stream, step, i, found, plan>>

Init ==
  /\ header_cols \in Headers
  /\ stream \in Streams
  /\ step = "header" /\ i = 0 /\ found = <<>> /\ plan = <<>>

----------------------------------------------------------------------------
Columns == {header_cols[n] : n \in DOMAIN header_cols}

\* header_cols.index(name) + 1
Column(name) ==
  CHOOSE n \in DOMAIN header_cols :
    header_cols[n] = name /\ \A m \in 1..(n - 1) : header_cols[m] # name

TopicColumn == IF "TOPIC" \in Columns THEN Column("TOPIC") ELSE 2

cols_per_row == Len(header_cols)

\* No table: an empty plan.
HeaderRejected ==
  /\ step = "header"
  /\ "PARTITION" \notin Columns \/ cols_per_row < 4
  /\ step' = "done"
  /\ UNCHANGED <<header_cols, stream, i, found, plan>>

HeaderFound ==
  /\ step = "header"
  /\ "PARTITION" \in Columns /\ cols_per_row >= 4
  /\ step' = "rows"
  /\ UNCHANGED <<header_cols, stream, i, found, plan>>

\* Mutant: a window that ends with the last token is left out.
WindowLeftStrict == i + cols_per_row < Len(stream.tokens)

WindowLeft == i + cols_per_row <= Len(stream.tokens)

\* group[header_cols.index(name)]
Cell(name) == stream.tokens[i + Column(name)]

\* "PARTITION and NEW-OFFSET must parse as int"
LooksLikeRow == Cell("PARTITION") \in Int /\ Cell("NEW-OFFSET") \in Int

TakeRow ==
  /\ step = "rows" /\ WindowLeft /\ LooksLikeRow
  /\ found' = Append(found, [topic      |-> stream.tokens[i + TopicColumn],
                             partition  |-> Cell("PARTITION"),
                             new_offset |-> Cell("NEW-OFFSET")])
  /\ i' = i + cols_per_row
  /\ UNCHANGED <<header_cols, stream, step, plan>>

DropToken ==
  /\ step = "rows" /\ WindowLeft /\ ~LooksLikeRow
  /\ i' = i + 1
  /\ UNCHANGED <<header_cols, stream, step, found, plan>>

\* By topic, then by partition.
Before(r, s) ==
  \/ Rank[r.topic] < Rank[s.topic]
  \/ r.topic = s.topic /\ r.partition < s.partition

\* plan.sort(), which is stable: where row k of the result comes from.
Orders(rows) ==
  {from \in [DOMAIN rows -> DOMAIN rows] :
     \A m, n \in DOMAIN rows : m < n =>
       \/ Before(rows[from[m]], rows[from[n]])
       \/ ~Before(rows[from[n]], rows[from[m]]) /\ from[m] < from[n]}

Sort(rows) == LET from == CHOOSE f \in Orders(rows) : TRUE
              IN  [k \in DOMAIN rows |-> rows[from[k]]]

Finish ==
  /\ step = "rows" /\ ~WindowLeft
  /\ plan' = Sort(found)
  /\ step' = "done"
  /\ UNCHANGED <<header_cols, stream, i, found>>

Next == HeaderRejected \/ HeaderFound \/ TakeRow \/ DropToken \/ Finish

Spec == Init /\ [][Next]_vars

----------------------------------------------------------------------------
(* Properties.                                                             *)

TypeOK ==
  /\ WellFormed(stream)
  /\ step \in {"header", "rows", "done"}
  /\ i \in 0..Len(stream.tokens)
  /\ found \in Seq([topic : Tokens, partition : Int, new_offset : Int])
  /\ plan  \in Seq([topic : Tokens, partition : Int, new_offset : Int])

PlainHeader == header_cols = <<"GROUP", "TOPIC", "PARTITION", "NEW-OFFSET">>

InRow(n)   == \E k \in DOMAIN stream.starts : n \in stream.starts[k]..(stream.starts[k] + 3)
NoiseFree  == \A n \in DOMAIN stream.tokens : InRow(n)
WordsNoise ==
  /\ \A n \in DOMAIN stream.tokens : InRow(n) \/ stream.tokens[n] \in Words
  /\ \A k \in DOMAIN stream.printed : stream.printed[k].topic \in Words

Entry(r) == [topic |-> r.topic, partition |-> r.partition, new_offset |-> r.new_offset]

\* The plan is the table that was printed: each row once, by topic and partition.
Exact ==
  /\ \E from \in [DOMAIN plan -> DOMAIN stream.printed] :
       /\ \A m, n \in DOMAIN plan : from[m] = from[n] => m = n
       /\ \A n \in DOMAIN plan : plan[n] = Entry(stream.printed[from[n]])
  /\ Len(plan) = Len(stream.printed)
  /\ \A m, n \in DOMAIN plan : m < n => ~Before(plan[n], plan[m])

\* The re-synchronising scan neither loses a row nor makes one up: on a clean
\* table, whatever its groups and topics are called, and on one with stray
\* words between the rows, if the topic is not called by a number.  Without that
\* proviso a stray word shifts the window onto group, topic and partition, and the
\* row it finds there was never printed (compute_offset_reset_plan.py:199).
RowsRecovered ==
  step = "done" /\ PlainHeader /\ (NoiseFree \/ WordsNoise) => Exact
=============================================================================
