------------------------------ MODULE TextProofs ------------------------------
(***************************************************************************)
(* Proofs about the two texts a person and the program hand each other,    *)
(* each of any length: the command line that is pasted into a shell, and   *)
(* the rows the CLI prints.                                                *)
(***************************************************************************)
EXTENDS PlanParser, ShellQuote, WellFoundedInduction, TLAPS

----------------------------------------------------------------------------
(* Induction, for sets: a property is the set of numbers that have it.     *)

\* A set of numbers has a least member.
LEMMA LeastMember ==
  ASSUME NEW T \in SUBSET Nat, T # {}
  PROVE  \E n \in T : \A m \in T : n <= m
<1> DEFINE R == OpToRel(<, Nat)
<1>1. IsWellFoundedOn(R, Nat)
  BY NatLessThanWellFounded
<1>2. \A m, n \in Nat : <<m, n>> \in R <=> m < n
  BY DEF OpToRel
<1> HIDE DEF R
<1>3. PICK n \in T : \A m \in T : <<m, n>> \notin R
  BY <1>1, WFMin
<1>4. ASSUME NEW m \in T PROVE n <= m
  <2>1. m \in Nat /\ n \in Nat
    OBVIOUS
  <2>2. ~(m < n)
    BY <1>2, <1>3, <2>1
  <2> QED BY <2>1, <2>2
<1> QED BY <1>4

\* What holds of 0 and of every successor holds of every number.
LEMMA SetInduction ==
  ASSUME NEW T, 0 \in T, \A n \in Nat : n \in T => n + 1 \in T
  PROVE  \A n \in Nat : n \in T
<1> DEFINE Others == {n \in Nat : n \notin T}
<1> SUFFICES ASSUME Others # {} PROVE FALSE
  OBVIOUS
<1>1. PICK n \in Others : \A m \in Others : n <= m
  <2>1. Others \in SUBSET Nat
    OBVIOUS
  <2> HIDE DEF Others
  <2> QED BY <2>1, LeastMember
<1>2. n # 0 /\ n - 1 \in Nat /\ n - 1 \notin Others
  BY <1>1
<1> QED BY <1>2

----------------------------------------------------------------------------
(* The sort.                                                               *)

Ranked == [topic : Tokens \cap DOMAIN Rank, partition : Int, new_offset : Int]

\* Before is a strict order in which what is not before stays so.
LEMMA BeforeIsOrder ==
  ASSUME NEW r \in Ranked, NEW s \in Ranked, NEW u \in Ranked
  PROVE  /\ ~Before(r, r)
         /\ Before(r, s) => ~Before(s, r)
         /\ Before(r, s) /\ ~Before(u, s) => Before(r, u)
         /\ ~Before(s, r) /\ ~Before(u, s) => ~Before(u, r)
<1>1. /\ Rank[r.topic] \in Int /\ Rank[s.topic] \in Int /\ Rank[u.topic] \in Int
      /\ r.partition \in Int /\ s.partition \in Int /\ u.partition \in Int
      /\ Rank[r.topic] = Rank[s.topic] => r.topic = s.topic
      /\ Rank[r.topic] = Rank[u.topic] => r.topic = u.topic
      /\ Rank[s.topic] = Rank[u.topic] => s.topic = u.topic
  BY RankAssumption DEF Ranked
<1> QED BY <1>1 DEF Before

\* Row m of the sorted list comes before row n of it, or is a tie with it.
InOrder(rows, a, b) ==
  \/ Before(rows[a], rows[b])
  \/ ~Before(rows[b], rows[a]) /\ a < b

\* A list has a sorted order: put the last row in front of the first that it is before.
LEMMA InsertLast ==
  ASSUME NEW n \in Nat, NEW rows \in [1..(n + 1) -> Ranked],
         NEW from \in [1..n -> 1..n],
         \A j, k \in 1..n : j < k => InOrder(rows, from[j], from[k])
  PROVE  \E at \in [1..(n + 1) -> 1..(n + 1)] :
            \A j, k \in 1..(n + 1) : j < k => InOrder(rows, at[j], at[k])
<1> DEFINE Later == {k \in 1..n : Before(rows[n + 1], rows[from[k]])} \cup {n + 1}
<1>1. PICK p \in Later : \A k \in Later : p <= k
  <2>1. Later \in SUBSET Nat /\ Later # {}
    OBVIOUS
  <2> HIDE DEF Later
  <2> QED BY <2>1, LeastMember
<1>2. p \in 1..(n + 1)
  OBVIOUS
<1> DEFINE at == [k \in 1..(n + 1) |-> IF k < p THEN from[k] ELSE IF k = p THEN n + 1 ELSE from[k - 1]]
<1>3. at \in [1..(n + 1) -> 1..(n + 1)]
  BY <1>2
<1>4. ASSUME NEW k \in 1..n, k < p PROVE ~Before(rows[n + 1], rows[from[k]])
  <2>1. k \in Nat /\ p \in Nat /\ (k \in Later => p <= k)
    BY <1>1, <1>2
  <2>2. k \notin Later
    BY <1>4, <2>1
  <2> QED BY <2>2
<1>5. ASSUME NEW k \in 1..n, p <= k PROVE Before(rows[n + 1], rows[from[k]])
  <2>1. p \in 1..n /\ Before(rows[n + 1], rows[from[p]])
    BY <1>2, <1>5
  <2>2. rows[n + 1] \in Ranked /\ rows[from[p]] \in Ranked /\ rows[from[k]] \in Ranked
    BY <2>1
  <2>3. p = k \/ ~Before(rows[from[k]], rows[from[p]])
    <3>1. p = k \/ InOrder(rows, from[p], from[k])
      BY <1>2, <1>5, <2>1
    <3> QED BY <2>2, <3>1, BeforeIsOrder DEF InOrder
  <2> QED BY <2>1, <2>2, <2>3, BeforeIsOrder
<1> HIDE DEF Later
<1>6. ASSUME NEW j \in 1..(n + 1), NEW k \in 1..(n + 1), j < k
      PROVE  InOrder(rows, at[j], at[k])
  <2>1. CASE k < p
    <3>1. j \in 1..n /\ k \in 1..n /\ at[j] = from[j] /\ at[k] = from[k]
      BY <1>2, <1>6, <2>1
    <3> QED BY <1>6, <3>1
  <2>2. CASE k = p
    <3>1. j \in 1..n /\ j < p /\ at[j] = from[j] /\ at[k] = n + 1 /\ from[j] < n + 1
      BY <1>2, <1>6, <2>2
    <3>2. ~Before(rows[n + 1], rows[from[j]])
      BY <1>4, <3>1
    <3> QED BY <3>1, <3>2 DEF InOrder
  <2>3. CASE k > p /\ j = p
    <3>1. k - 1 \in 1..n /\ p <= k - 1 /\ at[j] = n + 1 /\ at[k] = from[k - 1]
      BY <1>2, <1>6, <2>3
    <3>2. Before(rows[n + 1], rows[from[k - 1]])
      BY <1>5, <3>1
    <3> QED BY <3>1, <3>2 DEF InOrder
  <2>4. CASE k > p /\ j > p
    <3>1. k - 1 \in 1..n /\ j - 1 \in 1..n /\ j - 1 < k - 1 /\ at[j] = from[j - 1] /\ at[k] = from[k - 1]
      BY <1>2, <1>6, <2>4
    <3> QED BY <3>1
  <2>5. CASE k > p /\ j < p
    <3>1. k - 1 \in 1..n /\ j \in 1..n /\ j < k - 1 /\ at[j] = from[j] /\ at[k] = from[k - 1]
      BY <1>2, <1>6, <2>5
    <3> QED BY <3>1
  <2> QED BY <1>2, <2>1, <2>2, <2>3, <2>4, <2>5
<1> QED BY <1>3, <1>6

\* Every list can be sorted, so that plan.sort() finds an order.
LEMMA SortedOrderExists ==
  ASSUME NEW rows \in Seq(Ranked)
  PROVE  Orders(rows) # {}
<1> DEFINE Sortable(n) ==
      \A list \in [1..n -> Ranked] :
        \E from \in [1..n -> 1..n] :
          \A j, k \in 1..n : j < k => InOrder(list, from[j], from[k])
           T == {n \in Nat : Sortable(n)}
<1>1. 0 \in T
  <2>1. Sortable(0)
    <3> SUFFICES ASSUME NEW list \in [1..0 -> Ranked]
                 PROVE  \E from \in [1..0 -> 1..0] :
                          \A j, k \in 1..0 : j < k => InOrder(list, from[j], from[k])
      OBVIOUS
    <3>1. [k \in 1..0 |-> k] \in [1..0 -> 1..0] /\ \A k \in 1..0 : FALSE
      OBVIOUS
    <3> QED BY <3>1
  <2> QED BY <2>1
<1>2. ASSUME NEW n \in Nat, n \in T PROVE n + 1 \in T
  <2>1. Sortable(n)
    BY <1>2
  <2>2. Sortable(n + 1)
    <3> SUFFICES ASSUME NEW list \in [1..(n + 1) -> Ranked]
                 PROVE  \E from \in [1..(n + 1) -> 1..(n + 1)] :
                          \A j, k \in 1..(n + 1) : j < k => InOrder(list, from[j], from[k])
      OBVIOUS
    <3> DEFINE front == [k \in 1..n |-> list[k]]
    <3>1. front \in [1..n -> Ranked]
      OBVIOUS
    <3>2. PICK from \in [1..n -> 1..n] :
            \A j, k \in 1..n : j < k => InOrder(front, from[j], from[k])
      BY <2>1, <3>1
    <3>3. \A j, k \in 1..n : j < k => InOrder(list, from[j], from[k])
      BY <3>2 DEF InOrder
    <3> QED BY <3>3, InsertLast
  <2> QED BY <2>2
<1> HIDE DEF T
<1>3. Len(rows) \in T
  BY <1>1, <1>2, SetInduction
<1>4. PICK from \in [1..Len(rows) -> 1..Len(rows)] :
        \A j, k \in 1..Len(rows) : j < k => InOrder(rows, from[j], from[k])
  <2>1. rows \in [1..Len(rows) -> Ranked]
    OBVIOUS
  <2> QED BY <1>3, <2>1 DEF T
<1>5. from \in Orders(rows)
  <2>1. DOMAIN rows = 1..Len(rows)
    OBVIOUS
  <2> QED BY <1>4, <2>1 DEF Orders, InOrder
<1> QED BY <1>5

\* What sort() returns: each row once, in order.
LEMMA SortLemma ==
  ASSUME NEW rows \in Seq(Ranked)
  PROVE  /\ Sort(rows) \in Seq(Ranked) /\ Len(Sort(rows)) = Len(rows)
         /\ \A m, n \in 1..Len(rows) : m < n => ~Before(Sort(rows)[n], Sort(rows)[m])
         /\ \E from \in [1..Len(rows) -> 1..Len(rows)] :
              /\ \A m, n \in 1..Len(rows) : from[m] = from[n] => m = n
              /\ \A n \in 1..Len(rows) : Sort(rows)[n] = rows[from[n]]
<1> DEFINE from == CHOOSE f \in Orders(rows) : TRUE
<1>1. from \in Orders(rows)
  BY SortedOrderExists
<1>2. Sort(rows) = [k \in DOMAIN rows |-> rows[from[k]]]
  BY DEF Sort
<1> HIDE DEF from
<1>3. /\ DOMAIN rows = 1..Len(rows) /\ Len(rows) \in Nat
      /\ from \in [1..Len(rows) -> 1..Len(rows)]
      /\ \A m, n \in 1..Len(rows) : m < n => InOrder(rows, from[m], from[n])
  BY <1>1 DEF Orders, InOrder
<1>4. /\ Sort(rows) \in [1..Len(rows) -> Ranked]
      /\ \A n \in 1..Len(rows) : Sort(rows)[n] = rows[from[n]]
  BY <1>2, <1>3
<1>5. Sort(rows) \in Seq(Ranked) /\ Len(Sort(rows)) = Len(rows)
  BY <1>3, <1>4
<1>6. ASSUME NEW m \in 1..Len(rows), NEW n \in 1..Len(rows), m < n
      PROVE  ~Before(Sort(rows)[n], Sort(rows)[m]) /\ from[m] # from[n]
  <2>1. rows[from[m]] \in Ranked /\ rows[from[n]] \in Ranked
    BY <1>3
  <2>2. InOrder(rows, from[m], from[n])
    BY <1>3, <1>6
  <2>3. ~Before(rows[from[n]], rows[from[m]])
    BY <2>1, <2>2, BeforeIsOrder DEF InOrder
  <2>4. from[m] # from[n]
    BY <1>3, <2>1, <2>2, BeforeIsOrder DEF InOrder
  <2> QED BY <1>4, <2>3, <2>4
<1>7. \A m, n \in 1..Len(rows) : from[m] = from[n] => m = n
  BY <1>3, <1>6
<1> QED BY <1>3, <1>4, <1>5, <1>6, <1>7
----------------------------------------------------------------------------
(* The scan.                                                               *)

\* The texts and headers for which RowsRecovered promises something.
Readable == PlainHeader /\ (NoiseFree \/ WordsNoise)

\* The scan has taken the first rows, stands after the last of them and has
\* not passed the start of the next.
ScanInv ==
  LET n == Len(stream.printed)
      k == Len(found)
  IN  /\ stream \in Streams
      /\ step \in {"header", "rows", "done"}
      /\ step = "header" => i = 0 /\ found = <<>>
      /\ Readable =>
           /\ found \in Seq([topic : Tokens, partition : Int, new_offset : Int])
           /\ i \in Nat
           /\ k <= n
           /\ \A j \in 1..k : found[j] = Entry(stream.printed[j])
           /\ k > 0 => stream.starts[k] + 3 <= i
           /\ k < n => i < stream.starts[k + 1]
           /\ step = "done" => k = n /\ plan = Sort(found)

\* The columns of the usual header.
LEMMA PlainColumns ==
  ASSUME PlainHeader
  PROVE  /\ cols_per_row = 4 /\ Columns = {"GROUP", "TOPIC", "PARTITION", "NEW-OFFSET"}
         /\ Column("PARTITION") = 3 /\ Column("NEW-OFFSET") = 4 /\ TopicColumn = 2
<1>1. /\ header_cols = <<"GROUP", "TOPIC", "PARTITION", "NEW-OFFSET">>
      /\ DOMAIN header_cols = 1..4 /\ Len(header_cols) = 4
      /\ header_cols[1] = "GROUP" /\ header_cols[2] = "TOPIC"
      /\ header_cols[3] = "PARTITION" /\ header_cols[4] = "NEW-OFFSET"
  BY DEF PlainHeader
<1>2. Columns = {"GROUP", "TOPIC", "PARTITION", "NEW-OFFSET"}
  BY <1>1 DEF Columns
<1>3. Column("PARTITION") = 3
  BY <1>1 DEF Column
<1>4. Column("NEW-OFFSET") = 4
  BY <1>1 DEF Column
<1>5. Column("TOPIC") = 2
  BY <1>1 DEF Column
<1>6. QED
  BY <1>1, <1>2, <1>3, <1>4, <1>5 DEF cols_per_row, TopicColumn

\* The facts of a well-formed text, in the form in which they are used.
LEMMA TextFacts ==
  ASSUME stream \in Streams
  PROVE  /\ stream.tokens \in Seq(Tokens) /\ stream.printed \in Seq(Row)
         /\ DOMAIN stream.starts = 1..Len(stream.printed)
         /\ \A k \in 1..Len(stream.printed) :
              /\ stream.starts[k] \in 1..Len(stream.tokens)
              /\ stream.starts[k] + 3 <= Len(stream.tokens)
              /\ \A j \in 1..(k - 1) : stream.starts[j] + 4 <= stream.starts[k]
              /\ stream.printed[k] \in Row
              /\ stream.tokens[stream.starts[k]] = stream.printed[k].group
              /\ stream.tokens[stream.starts[k] + 1] = stream.printed[k].topic
              /\ stream.tokens[stream.starts[k] + 2] = stream.printed[k].partition
              /\ stream.tokens[stream.starts[k] + 3] = stream.printed[k].new_offset
<1>1. WellFormed(stream)
  BY StreamsAssumption
<1>2. /\ stream.tokens \in Seq(Tokens) /\ stream.printed \in Seq(Row)
      /\ stream.starts \in [DOMAIN stream.printed -> DOMAIN stream.tokens]
  BY <1>1 DEF WellFormed
<1>3. DOMAIN stream.printed = 1..Len(stream.printed) /\ DOMAIN stream.tokens = 1..Len(stream.tokens)
  BY <1>2
<1>4. QED
  BY <1>1, <1>2, <1>3 DEF WellFormed

\* The same for one row.
LEMMA RowFacts ==
  ASSUME stream \in Streams, NEW k \in 1..Len(stream.printed)
  PROVE  LET s == stream.starts[k]
             r == stream.printed[k]
         IN  /\ s \in Nat /\ s + 3 <= Len(stream.tokens) /\ Len(stream.tokens) \in Nat
             /\ r \in Row /\ r.topic \in Tokens /\ r.partition \in Int /\ r.new_offset \in Int
             /\ stream.tokens[s + 1] = r.topic
             /\ stream.tokens[s + 2] = r.partition
             /\ stream.tokens[s + 3] = r.new_offset
<1>1. Len(stream.tokens) \in Nat
  BY TextFacts
<1>2. stream.printed[k] \in Row
  BY TextFacts
<1>3. stream.printed[k].topic \in Tokens /\ stream.printed[k].partition \in Int
        /\ stream.printed[k].new_offset \in Int
  BY <1>2 DEF Row
<1>4. stream.starts[k] \in Nat /\ stream.starts[k] + 3 <= Len(stream.tokens)
  BY <1>1, TextFacts
<1>5. /\ stream.tokens[stream.starts[k] + 1] = stream.printed[k].topic
      /\ stream.tokens[stream.starts[k] + 2] = stream.printed[k].partition
      /\ stream.tokens[stream.starts[k] + 3] = stream.printed[k].new_offset
  BY TextFacts
<1>6. QED
  BY <1>1, <1>2, <1>3, <1>4, <1>5

\* No row covers a token between the last row taken and the next.
LEMMA BetweenRows ==
  ASSUME stream \in Streams, NEW k \in 0..Len(stream.printed), NEW m \in Nat,
         k > 0 => stream.starts[k] + 3 < m,
         k < Len(stream.printed) => m < stream.starts[k + 1]
  PROVE  ~InRow(m)
<1> SUFFICES ASSUME NEW j \in 1..Len(stream.printed),
                    m \in stream.starts[j]..(stream.starts[j] + 3)
             PROVE  FALSE
  BY TextFacts DEF InRow
<1> DEFINE S(x) == stream.starts[x]
<1>0. Len(stream.printed) \in Nat
  BY TextFacts
<1>1. CASE j <= k
  <2>1. S(j) <= S(k) /\ S(j) \in Int /\ S(k) \in Int
    <3>1. CASE j = k
      BY <1>0, <1>1, <3>1, TextFacts
    <3>2. CASE j < k
      <4>1. j \in 1..(k - 1) /\ k \in 1..Len(stream.printed)
        BY <1>0, <3>2
      <4>2. QED
        BY <4>1, TextFacts
    <3>3. QED
      BY <1>1, <3>1, <3>2
  <2>2. QED
    BY <1>0, <1>1, <2>1
<1>2. CASE j > k
  <2>1. S(k + 1) <= S(j) /\ S(j) \in Int /\ S(k + 1) \in Int
    <3>1. CASE j = k + 1
      BY <1>0, <1>2, <3>1, TextFacts
    <3>2. CASE j > k + 1
      <4>1. k + 1 \in 1..(j - 1) /\ k + 1 \in 1..Len(stream.printed)
        BY <1>0, <3>2
      <4>2. S(k + 1) + 4 <= S(j)
        BY <4>1, TextFacts
      <4>3. S(k + 1) \in Nat /\ S(j) \in Nat
        BY <4>1, RowFacts
      <4>4. QED
        BY <4>2, <4>3
    <3>3. QED
      BY <1>2, <3>1, <3>2
  <2>2. QED
    BY <1>0, <1>2, <2>1
<1>3. QED
  BY <1>0, <1>1, <1>2

\* A window that looks like a row is the next row.
LEMMA WindowIsRow ==
  ASSUME ScanInv, Readable, step = "rows", WindowLeft, LooksLikeRow
  PROVE  Len(found) < Len(stream.printed) /\ i + 1 = stream.starts[Len(found) + 1]
<1> DEFINE n == Len(stream.printed)
           k == Len(found)
<1>1. /\ stream \in Streams /\ i \in Nat /\ k \in 0..n /\ n \in Nat
      /\ k > 0 => stream.starts[k] + 3 <= i
      /\ k < n => i < stream.starts[k + 1]
  BY TextFacts DEF ScanInv
<1>2. /\ i + 4 <= Len(stream.tokens) /\ Len(stream.tokens) \in Nat
      /\ stream.tokens[i + 3] \in Int /\ stream.tokens[i + 4] \in Int
  BY <1>1, PlainColumns, TextFacts DEF WindowLeft, LooksLikeRow, Cell, Readable
<1>3. k < n => stream.starts[k + 1] \in Nat
  BY <1>1, TextFacts
<1>4. CASE k = n
  <2>1. ~InRow(i + 1) /\ ~InRow(i + 3)
    BY <1>1, <1>4, BetweenRows, TextFacts
  <2>2. i + 1 \in DOMAIN stream.tokens /\ i + 3 \in DOMAIN stream.tokens
    BY <1>1, <1>2, TextFacts
  <2>3. QED
    BY <1>2, <2>1, <2>2, WordsAssumption DEF Readable, NoiseFree, WordsNoise
<1>5. CASE k < n /\ i + 1 < stream.starts[k + 1]
  <2> DEFINE s == stream.starts[k + 1]
  <2>1. ~InRow(i + 1) /\ (i + 3 < s => ~InRow(i + 3))
    <3>1. /\ s \in Nat /\ i + 1 \in Nat /\ i + 3 \in Nat /\ i + 1 < s
          /\ k \in 0..Len(stream.printed) /\ k < Len(stream.printed) /\ stream \in Streams
      BY <1>1, <1>3, <1>5
    <3>2. k > 0 => stream.starts[k] + 3 < i + 1 /\ stream.starts[k] + 3 < i + 3
      <4>1. ASSUME k > 0 PROVE stream.starts[k] \in Nat
        <5>1. k \in 1..Len(stream.printed)
          BY <1>1, <4>1
        <5>2. QED
          BY <3>1, <5>1, RowFacts
      <4>2. QED
        BY <1>1, <4>1
    <3>3. ~InRow(i + 1)
      BY <3>1, <3>2, BetweenRows
    <3>4. i + 3 < s => ~InRow(i + 3)
      BY <3>1, <3>2, BetweenRows
    <3>5. QED
      BY <3>3, <3>4
  <2>2. i + 1 \in DOMAIN stream.tokens /\ i + 3 \in DOMAIN stream.tokens
    BY <1>1, <1>2, TextFacts
  <2>3. WordsNoise
    BY <2>1, <2>2 DEF Readable, NoiseFree
  <2>4. stream.tokens[s + 1] \in Words
    <3>1. k + 1 \in 1..Len(stream.printed) /\ k + 1 \in DOMAIN stream.printed
      BY <1>1, <1>5, TextFacts
    <3>2. stream.tokens[s + 1] = stream.printed[k + 1].topic
      BY <1>1, <3>1, RowFacts
    <3>3. QED
      BY <2>3, <3>1, <3>2 DEF WordsNoise
  <2>5. i + 3 < s => stream.tokens[i + 3] \in Words
    BY <2>1, <2>2, <2>3 DEF WordsNoise
  <2>6. i + 3 < s \/ i + 3 = s \/ i + 3 = s + 1
    BY <1>1, <1>3, <1>5
  <2>7. i + 3 = s => i + 4 = s + 1
    BY <1>1, <1>3, <1>5
  <2>8. QED
    BY <1>2, <2>4, <2>5, <2>6, <2>7, WordsAssumption
<1>6. QED
  BY <1>1, <1>3, <1>4, <1>5

\* The next row looks like one.
LEMMA RowLooksLikeRow ==
  ASSUME stream \in Streams, PlainHeader, i \in Nat,
         NEW k \in 1..Len(stream.printed), i + 1 = stream.starts[k]
  PROVE  WindowLeft /\ LooksLikeRow
<1>1. /\ stream.starts[k] + 3 <= Len(stream.tokens)
      /\ stream.tokens[stream.starts[k] + 2] \in Int
      /\ stream.tokens[stream.starts[k] + 3] \in Int
      /\ stream.starts[k] \in Nat /\ Len(stream.tokens) \in Nat
  BY RowFacts
<1>2. stream.starts[k] + 2 = i + 3 /\ stream.starts[k] + 3 = i + 4
  <2>1. \A s, x \in Nat : x + 1 = s => s + 2 = x + 3 /\ s + 3 = x + 4
    OBVIOUS
  <2> QED
    BY <1>1, <2>1
<1>3. cols_per_row = 4 /\ Column("PARTITION") = 3 /\ Column("NEW-OFFSET") = 4
  BY PlainColumns
<1>4. WindowLeft
  BY <1>1, <1>2, <1>3 DEF WindowLeft
<1>5. Cell("PARTITION") = stream.tokens[i + 3] /\ Cell("NEW-OFFSET") = stream.tokens[i + 4]
  BY <1>3 DEF Cell
<1>6. QED
  BY <1>1, <1>2, <1>4, <1>5 DEF LooksLikeRow

\* Each step of the parser keeps the invariant.
LEMMA ScanInductive == ScanInv /\ [Next]_vars => ScanInv'
<1> SUFFICES ASSUME ScanInv, [Next]_vars PROVE ScanInv'
  OBVIOUS
<1> DEFINE n == Len(stream.printed)
           k == Len(found)
<1>1. CASE HeaderRejected
  <2>1. PlainHeader => FALSE
    BY <1>1, PlainColumns DEF HeaderRejected
  <2>2. QED
    BY <1>1, <2>1 DEF HeaderRejected, ScanInv, Readable, PlainHeader
<1>2. CASE HeaderFound
  BY <1>2 DEF HeaderFound, ScanInv, Readable, PlainHeader, NoiseFree, WordsNoise, InRow, Entry
<1>3. CASE TakeRow
  <2>1. /\ step = "rows" /\ WindowLeft /\ LooksLikeRow
        /\ UNCHANGED <<header_cols, stream, step>>
    BY <1>3 DEF TakeRow
  <2>2. Readable' = Readable
    BY <2>1 DEF Readable, PlainHeader, NoiseFree, WordsNoise, InRow
  <2>3. stream' \in Streams /\ step' = "rows"
    BY <2>1 DEF ScanInv
  <2>4. ASSUME Readable
        PROVE  /\ found' \in Seq([topic : Tokens, partition : Int, new_offset : Int])
               /\ i' \in Nat
               /\ Len(found') <= n
               /\ \A j \in 1..Len(found') : found'[j] = Entry(stream.printed[j])
               /\ Len(found') > 0 => stream.starts[Len(found')] + 3 <= i'
               /\ Len(found') < n => i' < stream.starts[Len(found') + 1]
    <3>1. /\ stream \in Streams /\ i \in Nat /\ k <= n /\ k \in Nat /\ n \in Nat
          /\ found \in Seq([topic : Tokens, partition : Int, new_offset : Int])
          /\ \A j \in 1..k : found[j] = Entry(stream.printed[j])
      BY <2>4, TextFacts DEF ScanInv
    <3>2. k < n /\ i + 1 = stream.starts[k + 1]
      BY <2>1, <2>4, WindowIsRow
    <3>3. k + 1 \in 1..n
      BY <3>1, <3>2
    <3> DEFINE r == stream.printed[k + 1]
    <3>4. /\ r \in Row /\ stream.starts[k + 1] \in Nat
          /\ stream.tokens[i + 2] = r.topic
          /\ stream.tokens[i + 3] = r.partition /\ stream.tokens[i + 4] = r.new_offset
      <4>1. /\ r \in Row /\ stream.starts[k + 1] \in Nat
            /\ stream.tokens[stream.starts[k + 1] + 1] = r.topic
            /\ stream.tokens[stream.starts[k + 1] + 2] = r.partition
            /\ stream.tokens[stream.starts[k + 1] + 3] = r.new_offset
        BY <3>1, <3>3, RowFacts
      <4>2. /\ stream.starts[k + 1] + 1 = i + 2 /\ stream.starts[k + 1] + 2 = i + 3
            /\ stream.starts[k + 1] + 3 = i + 4
        BY <3>1, <3>2
      <4>3. QED
        BY <4>1, <4>2
    <3>5. found' = Append(found, Entry(r)) /\ i' = i + 4
      BY <1>3, <2>4, <3>4, PlainColumns DEF TakeRow, Cell, Entry, Readable
    <3>6. Entry(r) \in [topic : Tokens, partition : Int, new_offset : Int]
      BY <3>4 DEF Row, Entry
    <3>7. /\ found' \in Seq([topic : Tokens, partition : Int, new_offset : Int])
          /\ Len(found') = k + 1 /\ i' \in Nat
          /\ \A j \in 1..(k + 1) : found'[j] = IF j = k + 1 THEN Entry(r) ELSE found[j]
      BY <3>1, <3>5, <3>6
    <3>8. ASSUME NEW j \in 1..(k + 1)
          PROVE  found'[j] = Entry(stream.printed[j])
      <4>1. CASE j = k + 1
        BY <3>7, <4>1
      <4>2. CASE j # k + 1
        <5>1. j \in 1..k
          BY <3>1, <4>2
        <5>2. QED
          BY <3>1, <3>7, <4>2, <5>1
      <4>3. QED
        BY <4>1, <4>2
    <3>9. stream.starts[k + 1] + 3 <= i'
      BY <3>1, <3>2, <3>4, <3>5
    <3>10. k + 1 < n => i' < stream.starts[k + 2]
      <4>1. k + 1 < n => k + 2 \in 1..n /\ k + 1 \in 1..((k + 2) - 1)
        BY <3>1
      <4>2. k + 1 < n => stream.starts[k + 1] + 4 <= stream.starts[k + 2]
        BY <3>1, <4>1, TextFacts
      <4>3. k + 1 < n => stream.starts[k + 2] \in Nat
        BY <3>1, <4>1, RowFacts
      <4>4. QED
        BY <3>1, <3>2, <3>4, <3>5, <4>2, <4>3
    <3>11. QED
      BY <3>1, <3>2, <3>7, <3>8, <3>9, <3>10
  <2>5. QED
    BY <2>1, <2>2, <2>3, <2>4 DEF ScanInv, Entry
<1>4. CASE DropToken
  <2>1. /\ step = "rows" /\ WindowLeft /\ ~LooksLikeRow /\ i' = i + 1
        /\ UNCHANGED <<header_cols, stream, step, found>>
    BY <1>4 DEF DropToken
  <2>2. Readable' = Readable
    BY <2>1 DEF Readable, PlainHeader, NoiseFree, WordsNoise, InRow
  <2>3. ASSUME Readable
        PROVE  i' \in Nat /\ (k > 0 => stream.starts[k] + 3 <= i')
                          /\ (k < n => i' < stream.starts[k + 1])
    <3>1. /\ stream \in Streams /\ i \in Nat /\ k \in Nat /\ n \in Nat
          /\ k > 0 => stream.starts[k] + 3 <= i
          /\ k < n => i < stream.starts[k + 1]
          /\ k <= n
      BY <2>3, TextFacts DEF ScanInv
    <3>2. (k > 0 => stream.starts[k] \in Nat) /\ (k < n => stream.starts[k + 1] \in Nat)
      <4>1. (k > 0 => k \in 1..Len(stream.printed)) /\ (k < n => k + 1 \in 1..Len(stream.printed))
        BY <3>1
      <4>2. QED
        BY <3>1, <4>1, RowFacts
    <3>3. k < n => i + 1 # stream.starts[k + 1]
      <4>1. k < n => k + 1 \in 1..Len(stream.printed)
        BY <3>1
      <4>2. QED
        BY <2>1, <2>3, <3>1, <4>1, RowLooksLikeRow DEF Readable
    <3>4. QED
      BY <2>1, <3>1, <3>2, <3>3
  <2>4. QED
    BY <2>1, <2>2, <2>3 DEF ScanInv, Entry
<1>5. CASE Finish
  <2>1. /\ step = "rows" /\ ~WindowLeft /\ step' = "done" /\ plan' = Sort(found)
        /\ UNCHANGED <<header_cols, stream, i, found>>
    BY <1>5 DEF Finish
  <2>2. Readable' = Readable
    BY <2>1 DEF Readable, PlainHeader, NoiseFree, WordsNoise, InRow
  <2>3. Readable => k = n
    <3> SUFFICES ASSUME Readable, k # n PROVE FALSE
      OBVIOUS
    <3>1. /\ stream \in Streams /\ i \in Nat /\ k \in Nat /\ n \in Nat /\ k < n
          /\ i < stream.starts[k + 1]
      BY TextFacts DEF ScanInv
    <3>2. k + 1 \in 1..n
      BY <3>1
    <3>3. stream.starts[k + 1] + 3 <= Len(stream.tokens) /\ stream.starts[k + 1] \in Nat
          /\ Len(stream.tokens) \in Nat
      BY <3>1, <3>2, TextFacts
    <3>4. QED
      BY <2>1, <3>1, <3>3, PlainColumns DEF WindowLeft, Readable
  <2>4. plan' = Sort(found')
    BY <2>1
  <2>5. QED
    BY <2>1, <2>2, <2>3, <2>4 DEF ScanInv, Entry
<1>6. CASE UNCHANGED vars
  BY <1>6 DEF vars, ScanInv, Readable, PlainHeader, NoiseFree, WordsNoise, InRow, Entry
<1>7. QED
  BY <1>1, <1>2, <1>3, <1>4, <1>5, <1>6 DEF Next

----------------------------------------------------------------------------
(* Types.                                                                  *)

\* header_cols.index() finds a column that is there.
LEMMA ColumnFound ==
  ASSUME NEW name \in Columns, header_cols \in Headers
  PROVE  Column(name) \in 1..cols_per_row
<1> DEFINE Places == {n \in 1..cols_per_row : header_cols[n] = name}
<1>1. DOMAIN header_cols = 1..cols_per_row /\ cols_per_row \in Nat
  BY HeadersAssumption DEF cols_per_row
<1>2. PICK n \in Places : \A m \in Places : n <= m
  <2>1. Places \in SUBSET Nat /\ Places # {}
    BY <1>1 DEF Columns
  <2> HIDE DEF Places
  <2> QED BY <2>1, LeastMember
<1>3. \A m \in 1..(n - 1) : header_cols[m] # name
  <2> SUFFICES ASSUME NEW m \in 1..(n - 1), header_cols[m] = name PROVE FALSE
    OBVIOUS
  <2>1. m \in Places /\ n \in Nat
    BY <1>1
  <2> QED BY <1>2, <2>1
<1>4. n \in DOMAIN header_cols /\ header_cols[n] = name
  BY <1>1
<1> QED BY <1>1, <1>3, <1>4 DEF Column

\* The parser's data, and what the sort needs of the rows.
ParserInv ==
  /\ header_cols \in Headers /\ stream \in Streams
  /\ step \in {"header", "rows", "done"}
  /\ step = "rows" => cols_per_row >= 4
  /\ i \in 0..Len(stream.tokens)
  /\ found \in Seq(Ranked) /\ plan \in Seq(Ranked)

\* The row that a window yields.
LEMMA TakenRowType ==
  ASSUME ParserInv, TakeRow
  PROVE  /\ [topic |-> stream.tokens[i + TopicColumn], partition |-> Cell("PARTITION"),
             new_offset |-> Cell("NEW-OFFSET")] \in Ranked
         /\ i' \in 0..Len(stream.tokens)
<1>1. /\ i \in Nat /\ cols_per_row \in Nat /\ cols_per_row >= 4
      /\ i + cols_per_row <= Len(stream.tokens) /\ Len(stream.tokens) \in Nat
  BY TextFacts, HeadersAssumption DEF ParserInv, TakeRow, WindowLeft, cols_per_row
<1>2. TopicColumn \in 1..cols_per_row
  BY <1>1, ColumnFound DEF TopicColumn, ParserInv
<1>3. i + TopicColumn \in 1..Len(stream.tokens)
  BY <1>1, <1>2
<1>4. stream.tokens[i + TopicColumn] \in Tokens \cap DOMAIN Rank
  <2>1. stream \in Streams /\ DOMAIN stream.tokens = 1..Len(stream.tokens)
    BY TextFacts DEF ParserInv
  <2> QED BY <1>3, <2>1, TextFacts, RankAssumption
<1>5. Cell("PARTITION") \in Int /\ Cell("NEW-OFFSET") \in Int
  BY DEF TakeRow, LooksLikeRow
<1>6. i' \in 0..Len(stream.tokens)
  BY <1>1 DEF TakeRow
<1> QED BY <1>4, <1>5, <1>6 DEF Ranked

LEMMA ParserInit == Init => ParserInv
<1> SUFFICES ASSUME Init PROVE ParserInv
  OBVIOUS
<1>1. stream \in Streams /\ Len(stream.tokens) \in Nat
  BY TextFacts DEF Init
<1> QED BY <1>1 DEF Init, ParserInv

LEMMA ParserStep == ParserInv /\ [Next]_vars => ParserInv'
<1> SUFFICES ASSUME ParserInv, [Next]_vars PROVE ParserInv'
  OBVIOUS
<1>1. CASE HeaderRejected
  BY <1>1 DEF HeaderRejected, ParserInv
<1>2. CASE HeaderFound
  BY <1>2 DEF HeaderFound, ParserInv, cols_per_row
<1>3. CASE TakeRow
  <2>1. found' \in Seq(Ranked)
    BY <1>3, TakenRowType DEF TakeRow, ParserInv
  <2>2. i' \in 0..Len(stream'.tokens)
    BY <1>3, TakenRowType DEF TakeRow
  <2> QED BY <1>3, <2>1, <2>2 DEF TakeRow, ParserInv, cols_per_row
<1>4. CASE DropToken
  <2>1. cols_per_row \in Nat /\ Len(stream.tokens) \in Nat
    BY TextFacts, HeadersAssumption DEF ParserInv, cols_per_row
  <2>2. i' \in 0..Len(stream.tokens)
    BY <1>4, <2>1 DEF DropToken, ParserInv, WindowLeft
  <2> QED BY <1>4, <2>2 DEF DropToken, ParserInv, cols_per_row
<1>5. CASE Finish
  <2>1. plan' \in Seq(Ranked)
    BY <1>5, SortLemma DEF Finish, ParserInv
  <2> QED BY <1>5, <2>1 DEF Finish, ParserInv
<1>6. CASE UNCHANGED vars
  BY <1>6 DEF vars, ParserInv, cols_per_row
<1> QED BY <1>1, <1>2, <1>3, <1>4, <1>5, <1>6 DEF Next

\* Whatever the header and the text, the parser stays within the text and yields
\* entries of a plan (_parse_plan).
THEOREM ParserTypesTheorem == Spec => []TypeOK
<1>1. ParserInv => TypeOK
  <2> SUFFICES ASSUME ParserInv PROVE TypeOK
    OBVIOUS
  <2> DEFINE Rows == [topic : Tokens, partition : Int, new_offset : Int]
  <2>1. \A e \in Ranked : e \in Rows
    BY DEF Ranked
  <2>2. Seq(Ranked) \subseteq Seq(Rows)
    <3> SUFFICES ASSUME NEW s \in Seq(Ranked) PROVE s \in Seq(Rows)
      OBVIOUS
    <3> HIDE DEF Rows
    <3>1. Len(s) \in Nat /\ s \in [1..Len(s) -> Ranked]
      OBVIOUS
    <3>2. s \in [1..Len(s) -> Rows]
      BY <2>1, <3>1
    <3> QED BY <3>1, <3>2
  <2>3. WellFormed(stream)
    BY StreamsAssumption DEF ParserInv
  <2> QED BY <2>2, <2>3 DEF ParserInv, TypeOK
<1> QED BY <1>1, ParserInit, ParserStep, PTL DEF Spec

\* A table of any number of rows is recovered exactly and sorted, clean or with any
\* number of stray words between its rows (_parse_plan).
THEOREM RowsTheorem == Spec => []RowsRecovered
<1>1. Init => ScanInv
  <2> SUFFICES ASSUME Init PROVE ScanInv
    OBVIOUS
  <2>1. stream \in Streams /\ i = 0 /\ found = <<>> /\ step = "header"
    BY DEF Init
  <2>2. Len(stream.printed) \in Nat
    BY <2>1, TextFacts
  <2>3. 0 < Len(stream.printed) => stream.starts[1] > 0
    BY <2>1, <2>2, TextFacts
  <2>4. QED
    BY <2>1, <2>2, <2>3 DEF ScanInv
<1>2. ScanInv /\ [Next]_vars => ScanInv'
  BY ScanInductive
<1>3. ScanInv /\ ParserInv => RowsRecovered
  <2> SUFFICES ASSUME ScanInv, ParserInv, step = "done", Readable PROVE Exact
    BY DEF RowsRecovered, Readable
  <2> DEFINE n == Len(found)
  <2>1. /\ n = Len(stream.printed) /\ plan = Sort(found)
        /\ \A j \in 1..n : found[j] = Entry(stream.printed[j])
        /\ DOMAIN stream.printed = 1..n
    BY TextFacts DEF ScanInv
  <2>2. found \in Seq(Ranked)
    BY DEF ParserInv
  <2>3. /\ plan \in Seq(Ranked) /\ Len(plan) = n
        /\ \A l, m \in 1..n : l < m => ~Before(plan[m], plan[l])
    BY <2>1, <2>2, SortLemma
  <2>4. DOMAIN plan = 1..n
    BY <2>3
  <2>5. PICK from \in [1..n -> 1..n] :
          /\ \A l, m \in 1..n : from[l] = from[m] => l = m
          /\ \A m \in 1..n : plan[m] = found[from[m]]
    BY <2>1, <2>2, SortLemma
  <2>6. \A m \in 1..n : plan[m] = Entry(stream.printed[from[m]])
    BY <2>1, <2>5
  <2>7. \E g \in [DOMAIN plan -> DOMAIN stream.printed] :
          /\ \A m, l \in DOMAIN plan : g[m] = g[l] => m = l
          /\ \A m \in DOMAIN plan : plan[m] = Entry(stream.printed[g[m]])
    BY <2>1, <2>4, <2>5, <2>6
  <2>8. Len(plan) = Len(stream.printed)
    BY <2>1, <2>3
  <2>9. \A m, l \in DOMAIN plan : m < l => ~Before(plan[l], plan[m])
    BY <2>3, <2>4
  <2> HIDE DEF n
  <2> QED BY <2>7, <2>8, <2>9 DEF Exact
<1>4. QED
  BY <1>1, <1>2, <1>3, ParserInit, ParserStep, PTL DEF Spec

----------------------------------------------------------------------------
(* Reading a text, character by character.                                 *)

\* Reading text leads from how it reads at r to how it reads at q.
Leads(r, text, q) ==
  \E f : /\ f[0] = r /\ f[Len(text)] = q
         /\ \A n \in 1..Len(text) : f[n] = Step(f[n - 1], text[n])

\* The equation of Reads.
LEMMA ReadsEquation ==
  ASSUME NEW text, Len(text) \in Nat
  PROVE  /\ Reads(text)[0] = NothingRead
         /\ \A n \in 1..Len(text) : Reads(text)[n] = Step(Reads(text)[n - 1], text[n])
<1> DEFINE Solves(f, n) == f = [m \in 0..n |-> IF m = 0 THEN NothingRead ELSE Step(f[m - 1], text[m])]
           T == {n \in Nat : \E f : Solves(f, n)}
<1>1. 0 \in T
  <2> DEFINE f == [m \in 0..0 |-> NothingRead]
  <2>1. Solves(f, 0)
    OBVIOUS
  <2> QED BY <2>1
<1>2. ASSUME NEW n \in Nat, n \in T PROVE n + 1 \in T
  <2>1. PICK f : Solves(f, n)
    BY <1>2
  <2> DEFINE h == [m \in 0..(n + 1) |-> IF m <= n THEN f[m] ELSE Step(f[n], text[n + 1])]
             rhs == [m \in 0..(n + 1) |-> IF m = 0 THEN NothingRead ELSE Step(h[m - 1], text[m])]
  <2>2. ASSUME NEW m \in 0..(n + 1) PROVE h[m] = rhs[m]
    <3>1. CASE m = n + 1
      <4>1. h[m] = Step(f[n], text[n + 1]) /\ h[n] = f[n] /\ m # 0 /\ m - 1 = n
        BY <3>1
      <4> QED BY <3>1, <4>1
    <3>2. CASE m = 0
      <4>1. f[0] = NothingRead
        BY <2>1
      <4> QED BY <3>2, <4>1
    <3>3. CASE m # 0 /\ m # n + 1
      <4>1. m \in 0..n /\ m - 1 \in 0..n /\ m <= n /\ m - 1 <= n /\ m - 1 \in 0..(n + 1)
        BY <3>3
      <4>2. f[m] = Step(f[m - 1], text[m])
        BY <2>1, <3>3, <4>1
      <4> QED BY <3>3, <4>1, <4>2
    <3> QED BY <3>1, <3>2, <3>3
  <2>3. h = rhs
    BY <2>2
  <2>4. Solves(h, n + 1)
    BY <2>3
  <2> HIDE DEF h, rhs, Solves
  <2>5. \E g : Solves(g, n + 1)
    BY <2>4
  <2> QED BY <2>5
<1> HIDE DEF T
<1>3. Len(text) \in T
  BY <1>1, <1>2, SetInduction
<1>4. Solves(Reads(text), Len(text))
  BY <1>3 DEF T, Reads
<1> HIDE DEF Solves
<1>5. Reads(text) = [m \in 0..Len(text) |-> IF m = 0 THEN NothingRead ELSE Step(Reads(text)[m - 1], text[m])]
  BY <1>4 DEF Solves
<1>6. 0 \in 0..Len(text) /\ \A n \in 1..Len(text) : n \in 0..Len(text) /\ n # 0
  OBVIOUS
<1> QED BY <1>5, <1>6

\* What Reads comes to is what reading leads to.
LEMMA ReadsLeads ==
  ASSUME NEW text, Len(text) \in Nat, NEW q, Leads(NothingRead, text, q)
  PROVE  Reads(text)[Len(text)] = q
<1>1. PICK f : /\ f[0] = NothingRead /\ f[Len(text)] = q
               /\ \A n \in 1..Len(text) : f[n] = Step(f[n - 1], text[n])
  BY DEF Leads
<1> DEFINE T == {n \in Nat : n <= Len(text) => Reads(text)[n] = f[n]}
<1>2. 0 \in T
  BY <1>1, ReadsEquation
<1>3. ASSUME NEW n \in Nat, n \in T PROVE n + 1 \in T
  <2> SUFFICES ASSUME n + 1 <= Len(text) PROVE Reads(text)[n + 1] = f[n + 1]
    OBVIOUS
  <2>1. n + 1 \in 1..Len(text) /\ (n + 1) - 1 = n /\ Reads(text)[n] = f[n]
    BY <1>3
  <2> QED BY <1>1, <2>1, ReadsEquation
<1> HIDE DEF T
<1>4. Len(text) \in T
  BY <1>2, <1>3, SetInduction
<1> QED BY <1>1, <1>4 DEF T

LEMMA LeadsNowhere ==
  ASSUME NEW r
  PROVE  Leads(r, <<>>, r)
<1> DEFINE f == [n \in {0} |-> r]
<1>1. f[0] = r /\ Len(<<>>) = 0 /\ \A n \in 1..0 : FALSE
  OBVIOUS
<1> QED BY <1>1 DEF Leads

LEMMA LeadsOneStep ==
  ASSUME NEW r, NEW c
  PROVE  Leads(r, <<c>>, Step(r, c))
<1> DEFINE f == [n \in {0, 1} |-> IF n = 0 THEN r ELSE Step(r, c)]
<1>1. f[0] = r /\ f[1] = Step(r, c) /\ Len(<<c>>) = 1 /\ <<c>>[1] = c
  OBVIOUS
<1>2. \A n \in 1..1 : f[n] = Step(f[n - 1], <<c>>[n])
  <2> SUFFICES ASSUME NEW n \in 1..1 PROVE f[n] = Step(f[n - 1], <<c>>[n])
    OBVIOUS
  <2>1. n = 1 /\ n - 1 = 0
    OBVIOUS
  <2> QED BY <1>1, <2>1
<1> HIDE DEF f
<1> QED BY <1>1, <1>2 DEF Leads

LEMMA LeadsOn ==
  ASSUME NEW s \in Seq(Classes), NEW t \in Seq(Classes), NEW r, NEW p, NEW q,
         Leads(r, s, p), Leads(p, t, q)
  PROVE  Leads(r, s \o t, q)
<1>1. PICK f : /\ f[0] = r /\ f[Len(s)] = p
               /\ \A n \in 1..Len(s) : f[n] = Step(f[n - 1], s[n])
  BY DEF Leads
<1>2. PICK g : /\ g[0] = p /\ g[Len(t)] = q
               /\ \A n \in 1..Len(t) : g[n] = Step(g[n - 1], t[n])
  BY DEF Leads
<1> DEFINE k == Len(s)
           h == [n \in 0..(k + Len(t)) |-> IF n <= k THEN f[n] ELSE g[n - k]]
<1>3. k \in Nat /\ Len(t) \in Nat /\ Len(s \o t) = k + Len(t)
  OBVIOUS
<1>4. h[0] = r
  BY <1>1, <1>3
<1>5. h[k + Len(t)] = q
  <2>1. CASE Len(t) = 0
    BY <1>1, <1>2, <1>3, <2>1
  <2>2. CASE Len(t) # 0
    BY <1>2, <1>3, <2>2
  <2> QED BY <2>1, <2>2
<1>6. ASSUME NEW n \in 1..(k + Len(t)) PROVE h[n] = Step(h[n - 1], (s \o t)[n])
  <2>1. CASE n <= k
    <3>1. n \in 1..k /\ h[n] = f[n] /\ h[n - 1] = f[n - 1] /\ (s \o t)[n] = s[n]
      BY <1>3, <2>1
    <3> QED BY <1>1, <3>1
  <2>2. CASE n = k + 1
    <3>1. 1 \in 1..Len(t) /\ h[n] = g[1] /\ h[n - 1] = f[k] /\ (s \o t)[n] = t[1]
      BY <1>3, <2>2
    <3>2. g[1] = Step(g[0], t[1])
      BY <1>2, <3>1
    <3> QED BY <1>1, <1>2, <3>1, <3>2
  <2>3. CASE n > k + 1
    <3>1. /\ n - k \in 1..Len(t) /\ h[n] = g[n - k] /\ h[n - 1] = g[(n - k) - 1]
          /\ (s \o t)[n] = t[n - k]
      BY <1>3, <2>3
    <3> QED BY <1>2, <3>1
  <2> QED BY <1>3, <2>1, <2>2, <2>3
<1> HIDE DEF h
<1> QED BY <1>3, <1>4, <1>5, <1>6 DEF Leads

LEMMA LeadsOneMore ==
  ASSUME NEW s \in Seq(Classes), NEW c \in Classes, NEW r, NEW p, Leads(r, s, p)
  PROVE  s \o <<c>> \in Seq(Classes) /\ Leads(r, s \o <<c>>, Step(p, c))
<1>1. <<c>> \in Seq(Classes) /\ Leads(p, <<c>>, Step(p, c))
  BY LeadsOneStep
<1>2. s \o <<c>> \in Seq(Classes)
  BY <1>1
<1> QED BY <1>1, <1>2, LeadsOn

\* A text that is put together is read part after part.
LEMMA FlattenParts ==
  ASSUME NEW n \in Nat \ {0}, NEW seqs \in [1..n -> Seq(Classes)]
  PROVE  \E flat : /\ flat[1] = seqs[1] /\ FlattenSeq(seqs) = flat[n]
                   /\ \A k \in 2..n : flat[k] = flat[k - 1] \o seqs[k]
<1> DEFINE Solves(f, j) == f = [k \in 1..j |-> IF k = 1 THEN seqs[k] ELSE f[k - 1] \o seqs[k]]
           T == {j \in Nat : \E f : Solves(f, j)}
<1>1. 0 \in T
  <2> DEFINE f == [k \in 1..0 |-> seqs[k]]
  <2>1. Solves(f, 0)
    OBVIOUS
  <2> HIDE DEF f, Solves
  <2>2. \E g : Solves(g, 0)
    BY <2>1
  <2> QED BY <2>2
<1>2. ASSUME NEW j \in Nat, j \in T PROVE j + 1 \in T
  <2>1. PICK f : Solves(f, j)
    BY <1>2
  <2> DEFINE h == [k \in 1..(j + 1) |-> IF k <= j THEN f[k]
                                         ELSE IF k = 1 THEN seqs[k] ELSE f[k - 1] \o seqs[k]]
             rhs == [k \in 1..(j + 1) |-> IF k = 1 THEN seqs[k] ELSE h[k - 1] \o seqs[k]]
  <2>2. ASSUME NEW k \in 1..(j + 1) PROVE h[k] = rhs[k]
    <3>1. CASE k <= j /\ k = 1
      <4>1. k \in 1..j /\ f[k] = seqs[k]
        BY <2>1, <3>1
      <4> QED BY <3>1, <4>1
    <3>2. CASE k <= j /\ k # 1
      <4>1. k \in 1..j /\ k - 1 \in 1..j /\ k - 1 <= j /\ k - 1 \in 1..(j + 1)
        BY <3>2
      <4>2. f[k] = f[k - 1] \o seqs[k]
        BY <2>1, <3>2, <4>1
      <4> QED BY <3>2, <4>1, <4>2
    <3>3. CASE k = j + 1 /\ k = 1
      BY <3>3
    <3>4. CASE k = j + 1 /\ k # 1
      <4>1. k - 1 \in 1..(j + 1) /\ k - 1 <= j /\ ~(k <= j)
        BY <3>4
      <4> QED BY <3>4, <4>1
    <3> QED BY <3>1, <3>2, <3>3, <3>4
  <2>3. h = rhs
    BY <2>2
  <2>4. Solves(h, j + 1)
    BY <2>3
  <2> HIDE DEF h, rhs, Solves
  <2>5. \E g : Solves(g, j + 1)
    BY <2>4
  <2> QED BY <2>5
<1> HIDE DEF T
<1>3. n \in T
  BY <1>1, <1>2, SetInduction
<1> DEFINE flat == CHOOSE f : Solves(f, n)
<1>4. Solves(flat, n)
  BY <1>3 DEF T
<1>5. FlattenSeq(seqs) = flat[n]
  <2>1. Len(seqs) = n
    OBVIOUS
  <2> QED BY <2>1 DEF FlattenSeq
<1> HIDE DEF flat
<1>6. flat[1] = seqs[1]
  <2>1. 1 \in 1..n
    OBVIOUS
  <2> QED BY <1>4, <2>1
<1>7. ASSUME NEW k \in 2..n PROVE flat[k] = flat[k - 1] \o seqs[k]
  <2>1. k \in 1..n /\ k # 1
    OBVIOUS
  <2> QED BY <1>4, <2>1
<1> QED BY <1>5, <1>6, <1>7

LEMMA LeadsThrough ==
  ASSUME NEW n \in Nat, NEW seqs \in [1..n -> Seq(Classes)], NEW st,
         \A k \in 1..n : Leads(st[k - 1], seqs[k], st[k])
  PROVE  FlattenSeq(seqs) \in Seq(Classes) /\ Leads(st[0], FlattenSeq(seqs), st[n])
<1>1. CASE n = 0
  <2>1. seqs = <<>> /\ Len(seqs) = 0
    BY <1>1
  <2> QED BY <1>1, <2>1, LeadsNowhere DEF FlattenSeq
<1>2. CASE n # 0
  <2>1. PICK flat : /\ flat[1] = seqs[1] /\ FlattenSeq(seqs) = flat[n]
                    /\ \A k \in 2..n : flat[k] = flat[k - 1] \o seqs[k]
    <3>1. n \in Nat \ {0}
      BY <1>2
    <3> QED BY <3>1, FlattenParts
  <2> DEFINE T == {k \in Nat : k + 1 <= n =>
                     flat[k + 1] \in Seq(Classes) /\ Leads(st[0], flat[k + 1], st[k + 1])}
  <2>2. 0 \in T
    <3>1. 1 \in 1..n /\ 1 - 1 = 0
      BY <1>2
    <3>2. seqs[1] \in Seq(Classes) /\ Leads(st[0], seqs[1], st[1])
      BY <3>1
    <3> QED BY <2>1, <3>2
  <2>3. ASSUME NEW k \in Nat, k \in T PROVE k + 1 \in T
    <3> DEFINE m == k + 2
    <3> SUFFICES ASSUME m <= n
                 PROVE  flat[m] \in Seq(Classes) /\ Leads(st[0], flat[m], st[m])
      OBVIOUS
    <3>1. flat[k + 1] \in Seq(Classes) /\ Leads(st[0], flat[k + 1], st[k + 1])
      BY <2>3
    <3>2. m \in 2..n /\ m \in 1..n /\ m - 1 = k + 1
      OBVIOUS
    <3>3. flat[m] = flat[k + 1] \o seqs[m] /\ seqs[m] \in Seq(Classes)
      BY <2>1, <3>2
    <3>4. Leads(st[k + 1], seqs[m], st[m])
      BY <3>2
    <3> QED BY <3>1, <3>3, <3>4, LeadsOn
  <2> HIDE DEF T
  <2>4. \A k \in Nat : k \in T
    BY <2>2, <2>3, SetInduction
  <2>5. n - 1 \in Nat /\ (n - 1) + 1 = n
    BY <1>2
  <2>6. n - 1 \in T
    BY <2>4, <2>5
  <2> QED BY <2>1, <2>5, <2>6 DEF T
<1> QED BY <1>1, <1>2

\* bash takes no notice of a blank before the first word.
LEMMA BlankFirst ==
  ASSUME NEW text \in Seq(Classes), text # <<>>, text[1] = "space", NEW q,
         Leads(NothingRead, text, q)
  PROVE  Leads(NothingRead, Tail(text), q) /\ Tail(text) \in Seq(Classes)
<1>1. PICK f : /\ f[0] = NothingRead /\ f[Len(text)] = q
               /\ \A n \in 1..Len(text) : f[n] = Step(f[n - 1], text[n])
  BY DEF Leads
<1>2. Len(text) \in Nat \ {0} /\ Len(Tail(text)) = Len(text) - 1 /\ Tail(text) \in Seq(Classes)
  OBVIOUS
<1>3. f[1] = NothingRead
  <2>1. 1 \in 1..Len(text) /\ 1 - 1 = 0
    BY <1>2
  <2>2. f[1] = Step(NothingRead, "space")
    BY <1>1, <2>1
  <2> QED BY <2>2 DEF Step, NothingRead, Reading
<1> DEFINE h == [n \in 0..(Len(text) - 1) |-> f[n + 1]]
<1>4. h[0] = NothingRead /\ h[Len(text) - 1] = q
  BY <1>1, <1>2, <1>3
<1>5. ASSUME NEW n \in 1..(Len(text) - 1) PROVE h[n] = Step(h[n - 1], Tail(text)[n])
  <2>1. /\ n + 1 \in 1..Len(text) /\ (n + 1) - 1 = n /\ h[n] = f[n + 1] /\ h[n - 1] = f[n]
        /\ Tail(text)[n] = text[n + 1]
    BY <1>2
  <2> QED BY <1>1, <2>1
<1> HIDE DEF h
<1> QED BY <1>2, <1>4, <1>5 DEF Leads

LEMMA ConcatBegins ==
  ASSUME NEW s \in Seq(Classes), NEW t \in Seq(Classes), s # <<>>
  PROVE  s \o t \in Seq(Classes) /\ s \o t # <<>> /\ (s \o t)[1] = s[1]
<1>1. Len(s) \in Nat \ {0} /\ Len(t) \in Nat
  OBVIOUS
<1>2. s \o t \in Seq(Classes) /\ Len(s \o t) = Len(s) + Len(t)
  OBVIOUS
<1>3. 1 \in 1..Len(s) /\ Len(s \o t) # 0
  BY <1>1, <1>2
<1>4. (s \o t)[1] = s[1]
  BY <1>1, <1>3
<1> QED BY <1>2, <1>3, <1>4

\* A text begins as its first part does.
LEMMA FlattenBegins ==
  ASSUME NEW n \in Nat \ {0}, NEW seqs \in [1..n -> Seq(Classes)], seqs[1] # <<>>
  PROVE  FlattenSeq(seqs) # <<>> /\ FlattenSeq(seqs)[1] = seqs[1][1]
<1>1. PICK flat : /\ flat[1] = seqs[1] /\ FlattenSeq(seqs) = flat[n]
                  /\ \A k \in 2..n : flat[k] = flat[k - 1] \o seqs[k]
  BY FlattenParts
<1> DEFINE Begins(text) == text \in Seq(Classes) /\ text # <<>> /\ text[1] = seqs[1][1]
           T == {k \in Nat : k + 1 <= n => Begins(flat[k + 1])}
<1>2. 0 \in T
  <2>1. 1 \in 1..n /\ seqs[1] \in Seq(Classes)
    OBVIOUS
  <2> QED BY <1>1, <2>1
<1>3. ASSUME NEW k \in Nat, k \in T PROVE k + 1 \in T
  <2> SUFFICES ASSUME k + 2 <= n PROVE Begins(flat[k + 2])
    OBVIOUS
  <2>1. Begins(flat[k + 1])
    BY <1>3
  <2>2. k + 2 \in 2..n /\ k + 2 \in 1..n /\ (k + 2) - 1 = k + 1
    OBVIOUS
  <2>3. flat[k + 2] = flat[k + 1] \o seqs[k + 2] /\ seqs[k + 2] \in Seq(Classes)
    BY <1>1, <2>2
  <2>4. flat[k + 1] \o seqs[k + 2] # <<>> /\ (flat[k + 1] \o seqs[k + 2])[1] = flat[k + 1][1]
        /\ flat[k + 1] \o seqs[k + 2] \in Seq(Classes)
    BY <2>1, <2>3, ConcatBegins
  <2> QED BY <2>1, <2>3, <2>4
<1> HIDE DEF T
<1>4. n - 1 \in Nat /\ (n - 1) + 1 = n
  OBVIOUS
<1>5. n - 1 \in T
  BY <1>2, <1>3, <1>4, SetInduction
<1> QED BY <1>1, <1>4, <1>5 DEF T

----------------------------------------------------------------------------
(* Quoting.                                                                *)

LEMMA PrefixGrows ==
  ASSUME NEW S, NEW s \in Seq(S)
  PROVE  /\ SubSeq(s, 1, 0) = <<>> /\ SubSeq(s, 1, Len(s)) = s
         /\ \A k \in 1..Len(s) : /\ SubSeq(s, 1, k) = Append(SubSeq(s, 1, k - 1), s[k])
                                 /\ SubSeq(s, 1, k) \in Seq(S)
<1>1. SubSeq(s, 1, 0) = <<>> /\ SubSeq(s, 1, Len(s)) = s
  OBVIOUS
<1>2. ASSUME NEW k \in 1..Len(s)
      PROVE  SubSeq(s, 1, k) = Append(SubSeq(s, 1, k - 1), s[k]) /\ SubSeq(s, 1, k) \in Seq(S)
  OBVIOUS
<1> QED BY <1>1, <1>2

\* What the steps of an unquoted text do.
LEMMA BareSteps ==
  ASSUME NEW words, NEW word
  PROVE  /\ Step(Reading(words, word, "bare"), "space") = Reading(Append(words, word), <<>>, "between")
         /\ Step(Reading(words, word, "between"), "space") = Reading(words, word, "between")
         /\ Step(Reading(words, word, "bare"), "safe") = Reading(words, Append(word, "safe"), "bare")
         /\ Step(Reading(words, word, "between"), "safe") = Reading(words, Append(word, "safe"), "bare")
         /\ Step(Reading(words, word, "between"), "quote") = Reading(words, word, "quoted")
         /\ Step(Reading(words, word, "quoted"), "quote") = Reading(words, word, "bare")
BY DEF Step, Reading

\* An escaped character reads as itself.
LEMMA EscapedReads ==
  ASSUME NEW c \in Classes, NEW words, NEW word
  PROVE  /\ Escaped(c) \in Seq(Classes)
         /\ Leads(Reading(words, word, "quoted"), Escaped(c), Reading(words, Append(word, c), "quoted"))
<1>1. CASE c # "quote"
  <2>1. Escaped(c) = <<c>>
    BY <1>1 DEF Escaped
  <2>2. Step(Reading(words, word, "quoted"), c) = Reading(words, Append(word, c), "quoted")
    BY <1>1 DEF Step, Reading
  <2> QED BY <2>1, <2>2, LeadsOneStep
<1>2. CASE c = "quote"
  <2> DEFINE a == Reading(words, word, "quoted")
             b == Reading(words, word, "bare")
             d == Reading(words, word, "escaped")
             e == Reading(words, Append(word, "quote"), "bare")
             f == Reading(words, Append(word, "quote"), "quoted")
  <2>1. /\ Step(a, "quote") = b /\ Step(b, "backslash") = d
        /\ Step(d, "quote") = e /\ Step(e, "quote") = f
    BY DEF Step, Reading
  <2> DEFINE text == <<"quote", "backslash", "quote", "quote">>
             g == [n \in 0..4 |-> IF n = 0 THEN a ELSE IF n = 1 THEN b ELSE IF n = 2 THEN d
                                  ELSE IF n = 3 THEN e ELSE f]
  <2>2. /\ text \in Seq(Classes) /\ Len(text) = 4 /\ text[1] = "quote" /\ text[2] = "backslash"
        /\ text[3] = "quote" /\ text[4] = "quote"
    BY DEF Classes
  <2> HIDE DEF a, b, d, e, f, text
  <2>3. /\ g[0] = a /\ g[1] = Step(g[0], text[1]) /\ g[2] = Step(g[1], text[2])
        /\ g[3] = Step(g[2], text[3]) /\ g[4] = Step(g[3], text[4]) /\ g[4] = f
    BY <2>1, <2>2
  <2> HIDE DEF g
  <2>4. ASSUME NEW n \in 1..4 PROVE g[n] = Step(g[n - 1], text[n])
    <3>1. \/ n = 1 /\ n - 1 = 0
          \/ n = 2 /\ n - 1 = 1
          \/ n = 3 /\ n - 1 = 2
          \/ n = 4 /\ n - 1 = 3
      OBVIOUS
    <3> QED BY <2>3, <3>1
  <2>5. Leads(a, text, f)
    BY <2>2, <2>3, <2>4 DEF Leads
  <2>6. Escaped(c) = text
    BY <1>2 DEF Escaped, text
  <2> QED BY <1>2, <2>2, <2>5, <2>6 DEF a, f
<1> QED BY <1>1, <1>2

\* A quoted argument reads as one word, the argument.
LEMMA QuotedReads ==
  ASSUME NEW arg \in Seq(Classes), NEW words
  PROVE  /\ _quote_for_shell(arg) \in Seq(Classes)
         /\ Leads(Reading(words, <<>>, "between"), _quote_for_shell(arg), Reading(words, arg, "bare"))
<1>0. /\ SubSeq(arg, 1, 0) = <<>> /\ SubSeq(arg, 1, Len(arg)) = arg
      /\ \A k \in 1..Len(arg) : SubSeq(arg, 1, k) = Append(SubSeq(arg, 1, k - 1), arg[k])
  BY PrefixGrows
<1>1. CASE arg # <<>> /\ \A n \in DOMAIN arg : arg[n] = "safe"
  <2> DEFINE st == [k \in 0..Len(arg) |-> IF k = 0 THEN Reading(words, <<>>, "between")
                                           ELSE Reading(words, SubSeq(arg, 1, k), "bare")]
  <2>1. Len(arg) \in Nat \ {0} /\ DOMAIN arg = 1..Len(arg)
    BY <1>1
  <2>2. st[0] = Reading(words, <<>>, "between") /\ st[Len(arg)] = Reading(words, arg, "bare")
    <3>1. 0 \in 0..Len(arg) /\ Len(arg) \in 0..Len(arg) /\ Len(arg) # 0
      BY <2>1
    <3> QED BY <1>0, <3>1
  <2>3. ASSUME NEW k \in 1..Len(arg) PROVE st[k] = Step(st[k - 1], arg[k])
    <3>1. arg[k] = "safe" /\ SubSeq(arg, 1, k) = Append(SubSeq(arg, 1, k - 1), "safe")
      BY <1>0, <1>1, <2>1
    <3>2. st[k] = Reading(words, Append(SubSeq(arg, 1, k - 1), "safe"), "bare")
      BY <3>1
    <3>3. CASE k = 1
      <4>1. st[k - 1] = Reading(words, SubSeq(arg, 1, k - 1), "between")
        <5>1. k - 1 = 0 /\ 0 \in 0..Len(arg)
          BY <2>1, <3>3
        <5>2. st[0] = Reading(words, SubSeq(arg, 1, 0), "between")
          BY <1>0, <5>1
        <5> QED BY <5>1, <5>2
      <4> HIDE DEF st
      <4> QED BY <3>1, <3>2, <4>1, BareSteps
    <3>4. CASE k # 1
      <4>1. st[k - 1] = Reading(words, SubSeq(arg, 1, k - 1), "bare")
        BY <2>1, <3>4
      <4> HIDE DEF st
      <4> QED BY <3>1, <3>2, <4>1, BareSteps
    <3> QED BY <3>3, <3>4
  <2> HIDE DEF st
  <2>4. Leads(Reading(words, <<>>, "between"), arg, Reading(words, arg, "bare"))
    BY <2>2, <2>3 DEF Leads
  <2> QED BY <1>1, <2>4 DEF _quote_for_shell
<1>2. CASE ~(arg # <<>> /\ \A n \in DOMAIN arg : arg[n] = "safe")
  <2> DEFINE n == Len(arg)
             seqs == [k \in 1..n |-> Escaped(arg[k])]
             st == [k \in 0..n |-> Reading(words, SubSeq(arg, 1, k), "quoted")]
             Q == <<"quote">>
             body == FlattenSeq(seqs)
  <2>1. n \in Nat /\ DOMAIN arg = 1..n /\ Q \in Seq(Classes) /\ "quote" \in Classes
    BY DEF Classes
  <2>2. seqs \in [1..n -> Seq(Classes)]
    <3>1. \A k \in 1..n : arg[k] \in Classes
      OBVIOUS
    <3> QED BY <3>1, EscapedReads
  <2>3. ASSUME NEW k \in 1..n PROVE Leads(st[k - 1], seqs[k], st[k])
    <3>1. st[k - 1] = Reading(words, SubSeq(arg, 1, k - 1), "quoted")
      BY <2>1
    <3>2. st[k] = Reading(words, Append(SubSeq(arg, 1, k - 1), arg[k]), "quoted")
      <4>1. st[k] = Reading(words, SubSeq(arg, 1, k), "quoted")
        BY <2>1
      <4> QED BY <1>0, <4>1
    <3>3. seqs[k] = Escaped(arg[k]) /\ arg[k] \in Classes
      OBVIOUS
    <3> HIDE DEF st, seqs
    <3> QED BY <3>1, <3>2, <3>3, EscapedReads
  <2>4. st[0] = Reading(words, <<>>, "quoted") /\ st[n] = Reading(words, arg, "quoted")
    <3>1. 0 \in 0..n /\ n \in 0..n
      BY <2>1
    <3>2. st[0] = Reading(words, SubSeq(arg, 1, 0), "quoted")
      BY <3>1
    <3>3. st[n] = Reading(words, SubSeq(arg, 1, n), "quoted")
      BY <3>1
    <3> QED BY <1>0, <3>2, <3>3
  <2> HIDE DEF st, seqs
  <2>5. body \in Seq(Classes) /\ Leads(st[0], body, st[n])
    BY <2>1, <2>2, <2>3, LeadsThrough
  <2> HIDE DEF body
  <2>6. Leads(Reading(words, <<>>, "between"), Q, st[0])
    <3>1. Step(Reading(words, <<>>, "between"), "quote") = Reading(words, <<>>, "quoted")
      BY BareSteps
    <3> QED BY <2>4, <3>1, LeadsOneStep
  <2> HIDE DEF Q
  <2>7. Q \o body \in Seq(Classes) /\ Leads(Reading(words, <<>>, "between"), Q \o body, st[n])
    BY <2>1, <2>5, <2>6, LeadsOn
  <2>8. Step(st[n], "quote") = Reading(words, arg, "bare")
    BY <2>4, BareSteps
  <2> HIDE DEF n
  <2>9. /\ Q \o body \o <<"quote">> \in Seq(Classes)
        /\ Leads(Reading(words, <<>>, "between"), Q \o body \o <<"quote">>, Reading(words, arg, "bare"))
    BY <2>1, <2>7, <2>8, LeadsOneMore
  <2>10. _quote_for_shell(arg) = Q \o body \o <<"quote">>
    BY <1>2, <2>1 DEF _quote_for_shell, body, seqs, n, Q
  <2> QED BY <2>9, <2>10
<1> QED BY <1>1, <1>2

\* bash takes the command apart into the arguments it was made of.
LEMMA CommandReads ==
  ASSUME NEW argv \in ArgLists
  PROVE  Bash(remediation_command(argv)) = argv
<1> DEFINE n == Len(argv)
           seqs == [k \in 1..n |-> <<"space">> \o _quote_for_shell(argv[k])]
           st == [k \in 0..n |-> IF k = 0 THEN NothingRead
                                  ELSE Reading(SubSeq(argv, 1, k - 1), argv[k], "bare")]
           text == FlattenSeq(seqs)
<1>1. argv \in Seq(Seq(Classes)) /\ n \in Nat \ {0} /\ DOMAIN argv = 1..n
  BY ArgListsAssumption
<1>2. \A k \in 1..n : argv[k] \in Seq(Classes)
  BY <1>1
<1>3. <<"space">> \in Seq(Classes) /\ "space" \in Classes
  BY DEF Classes
<1>4. seqs \in [1..n -> Seq(Classes)]
  BY <1>2, <1>3, QuotedReads
<1>5. ASSUME NEW k \in 1..n PROVE Leads(st[k - 1], seqs[k], st[k])
  <2> DEFINE r == Reading(SubSeq(argv, 1, k - 1), <<>>, "between")
  <2>1. Step(st[k - 1], "space") = r
    <3>1. CASE k = 1
      <4>1. st[k - 1] = NothingRead /\ SubSeq(argv, 1, k - 1) = <<>>
        BY <1>1, <3>1, PrefixGrows
      <4> HIDE DEF st
      <4>2. st[k - 1] = Reading(<<>>, <<>>, "between") /\ r = Reading(<<>>, <<>>, "between")
        BY <4>1 DEF NothingRead
      <4> HIDE DEF r
      <4> QED BY <4>2, BareSteps
    <3>2. CASE k # 1
      <4>1. k - 1 \in 1..n
        BY <1>1, <3>2
      <4>2. st[k - 1] = Reading(SubSeq(argv, 1, (k - 1) - 1), argv[k - 1], "bare")
        BY <4>1
      <4>3. SubSeq(argv, 1, k - 1) = Append(SubSeq(argv, 1, (k - 1) - 1), argv[k - 1])
        BY <1>1, <4>1, PrefixGrows
      <4> HIDE DEF st
      <4> QED BY <4>2, <4>3, BareSteps
    <3> QED BY <3>1, <3>2
  <2>2. Leads(st[k - 1], <<"space">>, r)
    BY <2>1, LeadsOneStep
  <2>3. st[k] = Reading(SubSeq(argv, 1, k - 1), argv[k], "bare")
    BY <1>1
  <2>4. seqs[k] = <<"space">> \o _quote_for_shell(argv[k])
    OBVIOUS
  <2>5. /\ _quote_for_shell(argv[k]) \in Seq(Classes)
        /\ Leads(r, _quote_for_shell(argv[k]), st[k])
    BY <1>2, <2>3, QuotedReads
  <2> HIDE DEF st, seqs, r
  <2> QED BY <1>3, <2>2, <2>4, <2>5, LeadsOn
<1>6. st[0] = NothingRead /\ st[n] = Reading(SubSeq(argv, 1, n - 1), argv[n], "bare")
  BY <1>1
<1>7. seqs[1] # <<>> /\ seqs[1][1] = "space"
  <2>1. 1 \in 1..n
    BY <1>1
  <2>2. _quote_for_shell(argv[1]) \in Seq(Classes)
    BY <1>2, <2>1, QuotedReads
  <2> QED BY <1>3, <2>1, <2>2
<1> HIDE DEF st, seqs
<1>8. text \in Seq(Classes) /\ Leads(NothingRead, text, st[n])
  BY <1>1, <1>4, <1>5, <1>6, LeadsThrough
<1>9. text # <<>> /\ text[1] = "space"
  BY <1>1, <1>4, <1>7, FlattenBegins
<1> HIDE DEF text
<1>10. Tail(text) \in Seq(Classes) /\ Leads(NothingRead, Tail(text), st[n])
  BY <1>8, <1>9, BlankFirst
<1>11. remediation_command(argv) = Tail(text)
  BY <1>1 DEF remediation_command, text, seqs
<1>12. Len(Tail(text)) \in Nat
  BY <1>10
<1>13. Reads(Tail(text))[Len(Tail(text))] = st[n]
  BY <1>10, <1>12, ReadsLeads
<1>14. Bash(Tail(text)) = Append(SubSeq(argv, 1, n - 1), argv[n])
  <2>1. /\ st[n].how = "bare" /\ st[n].words = SubSeq(argv, 1, n - 1) /\ st[n].word = argv[n]
    BY <1>6 DEF Reading
  <2> QED BY <1>13, <2>1 DEF Bash
<1>15. Append(SubSeq(argv, 1, n - 1), argv[n]) = argv
  <2>1. n \in 1..Len(argv)
    BY <1>1
  <2> QED BY <1>1, <2>1, PrefixGrows
<1> QED BY <1>11, <1>14, <1>15

\* The command of any plan, pasted into bash, means the arguments it was made of
\* (remediation_command, _quote_for_shell): no length, no blank, quote or
\* backslash in a group or topic name changes it.
THEOREM PasteTheorem == QuoteSpec => []PasteRoundTrips
<1> DEFINE QuoteInv == /\ args \in ArgLists /\ line \in {<<>>, remediation_command(args)}
                       /\ PasteRoundTrips
<1>1. QuoteInit => QuoteInv
  BY DEF QuoteInit, PasteRoundTrips
<1>2. QuoteInv /\ [QuoteNext]_quoteVars => QuoteInv'
  <2> SUFFICES ASSUME QuoteInv, [QuoteNext]_quoteVars PROVE QuoteInv'
    OBVIOUS
  <2>1. CASE Render_command
    BY <2>1 DEF Render_command, PasteRoundTrips
  <2>2. CASE Paste
    <3>1. line = remediation_command(args)
      BY <2>2 DEF Paste
    <3> QED BY <2>2, <3>1, CommandReads DEF Paste, PasteRoundTrips
  <2>3. CASE UNCHANGED quoteVars
    BY <2>3 DEF quoteVars, PasteRoundTrips
  <2> QED BY <2>1, <2>2, <2>3 DEF QuoteNext
<1> QED BY <1>1, <1>2, PTL DEF QuoteSpec
===============================================================================
