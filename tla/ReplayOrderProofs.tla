------------------------- MODULE ReplayOrderProofs -------------------------
(***************************************************************************)
(* Proofs about the order of the replay, for any transactions and any      *)
(* number of them: on a batch that the comparison orders without           *)
(* contradiction the sort follows causality and does not depend on the     *)
(* order of arrival; and on a batch of two terminals whose clocks count    *)
(* what they should, the comparison does not contradict itself.            *)
(***************************************************************************)
EXTENDS ReplayOrder, SumTheorems, SequenceTheorems, TLAPS

-----------------------------------------------------------------------------
(* The comparison of two transactions.                                     *)

(* The tie-breakers, in their order.                                       *)
TieBreak(p, q) ==
  IF p.SeqNo /= q.SeqNo THEN p.SeqNo < q.SeqNo
  ELSE IF p.SequenceNum /= q.SequenceNum THEN p.SequenceNum < q.SequenceNum
  ELSE IF p.TerminalID /= q.TerminalID THEN p.TerminalID < q.TerminalID
  ELSE IF p.ClientTimestamp /= q.ClientTimestamp
       THEN p.ClientTimestamp < q.ClientTimestamp
  ELSE p.TxID < q.TxID

LEMMA QueuedTypes ==
  ASSUME NEW q \in Queued
  PROVE  /\ q.SeqNo \in Nat /\ q.SequenceNum \in Int /\ q.TerminalID \in Int
         /\ q.ClientTimestamp \in Int /\ q.TxID \in Int
         /\ \A k : At(q.VectorClock, k) \in Nat
BY QueuedAssumption DEF At

(* They order any two transactions, one way.                               *)
LEMMA TiesBreak ==
  ASSUME NEW p \in Queued, NEW q \in Queued
  PROVE  /\ ~(TieBreak(p, q) /\ TieBreak(q, p))
         /\ p /= q => TieBreak(p, q) \/ TieBreak(q, p)
         /\ TieBreak(p, q) => p.SeqNo <= q.SeqNo
<1>1. /\ p.SeqNo \in Nat /\ p.SequenceNum \in Int /\ p.TerminalID \in Int
      /\ p.ClientTimestamp \in Int /\ p.TxID \in Int
  BY QueuedTypes
<1>2. /\ q.SeqNo \in Nat /\ q.SequenceNum \in Int /\ q.TerminalID \in Int
      /\ q.ClientTimestamp \in Int /\ q.TxID \in Int
  BY QueuedTypes
<1>3. p /= q => p.TxID /= q.TxID
  BY QueuedAssumption
<1>4. QED
  BY <1>1, <1>2, <1>3 DEF TieBreak

LEMMA TiesAreTransitive ==
  ASSUME NEW p \in Queued, NEW q \in Queued, NEW r \in Queued,
         TieBreak(p, q), TieBreak(q, r)
  PROVE  TieBreak(p, r)
<1>1. /\ p.SeqNo \in Nat /\ p.SequenceNum \in Int /\ p.TerminalID \in Int
      /\ p.ClientTimestamp \in Int /\ p.TxID \in Int
  BY QueuedTypes
<1>2. /\ q.SeqNo \in Nat /\ q.SequenceNum \in Int /\ q.TerminalID \in Int
      /\ q.ClientTimestamp \in Int /\ q.TxID \in Int
  BY QueuedTypes
<1>3. /\ r.SeqNo \in Nat /\ r.SequenceNum \in Int /\ r.TerminalID \in Int
      /\ r.ClientTimestamp \in Int /\ r.TxID \in Int
  BY QueuedTypes
<1>4. QED
  BY <1>1, <1>2, <1>3 DEF TieBreak

(* The clock of q is at least that of p.                                   *)
Follows(q, p) == \A k : At(p.VectorClock, k) <= At(q.VectorClock, k)

LEMMA ComparisonMeans ==
  ASSUME NEW p \in Queued, NEW q \in Queued
  PROVE  CompareVectorClocks(p.VectorClock, q.VectorClock) =
           IF Follows(q, p) /\ ~Follows(p, q) THEN -1
           ELSE IF Follows(p, q) /\ ~Follows(q, p) THEN 1 ELSE 0
<1>1. PICK va, vb : va = p.VectorClock /\ vb = q.VectorClock
  OBVIOUS
<1>2. \A k : k \notin DOMAIN va \cup DOMAIN vb =>
               At(va, k) = 0 /\ At(vb, k) = 0
  BY DEF At
<1>3. Follows(q, p) <=> \A k \in DOMAIN va \cup DOMAIN vb :
                          At(va, k) <= At(vb, k)
  BY <1>1, <1>2 DEF Follows
<1>4. Follows(p, q) <=> \A k \in DOMAIN va \cup DOMAIN vb :
                          At(vb, k) <= At(va, k)
  BY <1>1, <1>2 DEF Follows
<1>5. QED
  BY <1>1, <1>3, <1>4 DEF CompareVectorClocks

(* The comparison: the clocks first, then the tie-breakers.                *)
LEMMA LessMeans ==
  ASSUME NEW p \in Queued, NEW q \in Queued
  PROVE  Less(p, q) <=>
           \/ Follows(q, p) /\ ~Follows(p, q)
           \/ (Follows(q, p) <=> Follows(p, q)) /\ TieBreak(p, q)
<1>1. PICK cmp : cmp = CompareVectorClocks(p.VectorClock, q.VectorClock)
  OBVIOUS
<1>2. Less(p, q) <=> IF cmp /= 0 THEN cmp < 0 ELSE TieBreak(p, q)
  BY <1>1 DEF Less, TieBreak
<1>3. cmp = IF Follows(q, p) /\ ~Follows(p, q) THEN -1
            ELSE IF Follows(p, q) /\ ~Follows(q, p) THEN 1 ELSE 0
  BY <1>1, ComparisonMeans
<1>4. QED
  BY <1>2, <1>3

(* It puts one of two transactions first, and not both.                    *)
LEMMA LessDecides ==
  ASSUME NEW p \in Queued, NEW q \in Queued
  PROVE  /\ ~(Less(p, q) /\ Less(q, p))
         /\ ~Less(p, p)
         /\ p /= q => Less(p, q) \/ Less(q, p)
<1>1. ~(Less(p, q) /\ Less(q, p))
  BY LessMeans, TiesBreak
<1>2. ~Less(p, p)
  BY LessMeans, TiesBreak
<1>3. p /= q => Less(p, q) \/ Less(q, p)
  BY LessMeans, TiesBreak
<1>4. QED
  BY <1>1, <1>2, <1>3

-----------------------------------------------------------------------------
(* The sort, one insertion after the other.                                *)

(* The largest member of a set of numbers that is bounded and not empty.   *)
LEMMA MaxIsLargest ==
  ASSUME NEW n \in Nat, NEW S, S \subseteq 0..n, S /= {}
  PROVE  Max(S) \in S /\ \A y \in S : Max(S) >= y
<1> DEFINE F == {n - x : x \in S}
<1>1. F \in SUBSET Nat /\ F /= {}
  <2>1. \A x \in S : x \in 0..n /\ n - x \in Nat
    OBVIOUS
  <2>2. QED
    BY <2>1
<1>2. PICK m \in F : \A k \in F : m <= k
  <2> HIDE DEF F
  <2>1. QED
    BY <1>1, NatLeastElement
<1>3. PICK x \in S : m = n - x
  BY <1>2
<1>4. \A y \in S : n - x <= n - y
  BY <1>2, <1>3
<1>5. \A y \in S : x >= y
  BY <1>4
<1>6. QED
  BY <1>5 DEF Max

(* A member that no other exceeds is the largest.                          *)
LEMMA LargestIsMax ==
  ASSUME NEW S, S \subseteq Int, NEW x \in S, \A y \in S : x >= y
  PROVE  Max(S) = x
<1>1. Max(S) \in S /\ \A y \in S : Max(S) >= y
  BY DEF Max
<1>2. Max(S) \in Int /\ x \in Int /\ x >= Max(S) /\ Max(S) >= x
  BY <1>1
<1> HIDE DEF Max
<1>3. QED
  BY <1>2

(* The recursion of the fold, on the sets of indices.                      *)
NextEntry(g, s, t) ==
  IF t = {} THEN <<>> ELSE InsertSorted(g[t \ {Max(t)}], s[Max(t)])

IsSortTable(g, s, D) == g = [t \in SUBSET D |-> NextEntry(g, s, t)]

SortTable(s) == CHOOSE g : IsSortTable(g, s, DOMAIN s)

LEMMA SortIsTable ==
  ASSUME NEW s
  PROVE  SortTransactionsVectorClock(s) = SortTable(s)[DOMAIN s]
BY DEF SortTransactionsVectorClock, FoldLeft, MapThenFoldSet, SortTable,
       IsSortTable, NextEntry

(* It has a solution on every sequence.                                    *)
LEMMA SortTableExists ==
  ASSUME NEW s, NEW n \in Nat
  PROVE  \E g : IsSortTable(g, s, 1..n)
<1> DEFINE Built(k) == \E g : IsSortTable(g, s, 1..k)
           T == {k \in Nat : Built(k)}
<1>1. Built(0)
  <2> DEFINE g == [t \in SUBSET (1..0) |-> <<>>]
  <2>1. \A t \in SUBSET (1..0) : t = {}
    OBVIOUS
  <2>2. \A t \in SUBSET (1..0) : NextEntry(g, s, t) = <<>>
    BY <2>1 DEF NextEntry
  <2>3. IsSortTable(g, s, 1..0)
    <3> HIDE DEF g
    <3>1. g = [t \in SUBSET (1..0) |-> <<>>]
      BY DEF g
    <3>2. QED
      BY <2>2, <3>1 DEF IsSortTable
  <2>4. QED
    BY <2>3
<1>2. ASSUME NEW k \in Nat, Built(k)
      PROVE  Built(k + 1)
  <2>1. PICK g : IsSortTable(g, s, 1..k)
    BY <1>2
  <2>2. \A t \in SUBSET (1..k) : g[t] = NextEntry(g, s, t)
    BY <2>1 DEF IsSortTable
  <2>3. PICK h : h = [t \in SUBSET (1..(k + 1)) |->
                        IF k + 1 \in t
                        THEN InsertSorted(g[t \ {k + 1}], s[k + 1])
                        ELSE g[t]]
    OBVIOUS
  <2>4. ASSUME NEW t \in SUBSET (1..k)
        PROVE  h[t] = g[t]
    BY <2>3
  <2>5. ASSUME NEW t \in SUBSET (1..(k + 1))
        PROVE  h[t] = NextEntry(h, s, t)
    <3>1. CASE k + 1 \in t
      <4>1. Max(t) = k + 1
        <5>1. t \subseteq Int /\ \A y \in t : k + 1 >= y
          OBVIOUS
        <5>2. QED
          BY <3>1, <5>1, LargestIsMax
      <4>2. h[t] = InsertSorted(g[t \ {k + 1}], s[k + 1])
        BY <2>3, <3>1
      <4>3. t \ {k + 1} \in SUBSET (1..k)
        OBVIOUS
      <4>4. h[t \ {k + 1}] = g[t \ {k + 1}]
        BY <2>4, <4>3
      <4>5. QED
        BY <3>1, <4>1, <4>2, <4>4 DEF NextEntry
    <3>2. CASE k + 1 \notin t
      <4>1. t \in SUBSET (1..k)
        BY <3>2
      <4>2. h[t] = NextEntry(g, s, t)
        BY <2>2, <2>4, <4>1
      <4>3. CASE t = {}
        BY <4>2, <4>3 DEF NextEntry
      <4>4. CASE t /= {}
        <5>1. t \ {Max(t)} \in SUBSET (1..k)
          BY <4>1
        <5>2. h[t \ {Max(t)}] = g[t \ {Max(t)}]
          BY <2>4, <5>1
        <5>3. QED
          BY <4>2, <4>4, <5>2 DEF NextEntry
      <4>5. QED
        BY <4>3, <4>4
    <3>3. QED
      BY <3>1, <3>2
  <2>6. IsSortTable(h, s, 1..(k + 1))
    <3>1. h = [t \in SUBSET (1..(k + 1)) |-> h[t]]
      BY <2>3
    <3>2. QED
      BY <2>5, <3>1 DEF IsSortTable
  <2>7. QED
    BY <2>6
<1>3. \A k \in Nat : k \in T
  <2>1. 0 \in T /\ \A k \in Nat : k \in T => k + 1 \in T
    <3> HIDE DEF Built
    <3> QED BY <1>1, <1>2
  <2> HIDE DEF T
  <2>2. QED
    BY <2>1, NatSetInduction
<1>4. QED
  BY <1>3

(* The sort inserts the elements of s, from the first to the last.         *)
LEMMA SortInserts ==
  ASSUME NEW S, NEW s \in Seq(S)
  PROVE  \E w : /\ w[0] = <<>>
                /\ \A k \in 0..(Len(s) - 1) :
                     w[k + 1] = InsertSorted(w[k], s[k + 1])
                /\ SortTransactionsVectorClock(s) = w[Len(s)]
<1>1. PICK g : g = SortTable(s)
  OBVIOUS
<1>2. Len(s) \in Nat /\ DOMAIN s = 1..Len(s)
  OBVIOUS
<1>3. PICK n \in Nat : n = Len(s)
  BY <1>2
<1>4. IsSortTable(g, s, 1..n)
  <2>1. \E f : IsSortTable(f, s, DOMAIN s)
    BY <1>2, SortTableExists
  <2>2. QED
    BY <1>1, <1>2, <1>3, <2>1 DEF SortTable
<1>5. \A t \in SUBSET (1..n) : g[t] = NextEntry(g, s, t)
  BY <1>4 DEF IsSortTable
<1>6. PICK w : w = [k \in 0..n |-> g[1..k]]
  OBVIOUS
<1>7. w[0] = <<>>
  <2>1. 1..0 = {} /\ {} \in SUBSET (1..n) /\ w[0] = g[1..0]
    BY <1>6
  <2>2. QED
    BY <1>5, <2>1 DEF NextEntry
<1>8. ASSUME NEW k \in 0..(n - 1)
      PROVE  w[k + 1] = InsertSorted(w[k], s[k + 1])
  <2>1. k \in 0..n /\ k + 1 \in 0..n /\ k + 1 \in 1..(k + 1)
    OBVIOUS
  <2>2. w[k] = g[1..k] /\ w[k + 1] = g[1..(k + 1)]
    BY <1>6, <2>1
  <2>3. Max(1..(k + 1)) = k + 1
    <3>1. 1..(k + 1) \subseteq Int /\ \A y \in 1..(k + 1) : k + 1 >= y
      OBVIOUS
    <3>2. QED
      BY <2>1, <3>1, LargestIsMax
  <2>4. (1..(k + 1)) \ {k + 1} = 1..k /\ 1..(k + 1) /= {}
    OBVIOUS
  <2>5. 1..(k + 1) \in SUBSET (1..n)
    OBVIOUS
  <2>6. g[1..(k + 1)] = NextEntry(g, s, 1..(k + 1))
    BY <1>5, <2>5
  <2>7. QED
    BY <2>2, <2>3, <2>4, <2>6 DEF NextEntry
<1>9. SortTransactionsVectorClock(s) = w[n]
  BY <1>1, <1>2, <1>3, <1>6, SortIsTable
<1>10. QED
  BY <1>3, <1>7, <1>8, <1>9


-----------------------------------------------------------------------------
(* What an insertion keeps.                                                *)

(* v is u with q inserted right of position stop, where q belongs.         *)
Inserted(u, q, v, stop) ==
  /\ stop > 0 => ~Less(q, u[stop])
  /\ \A j \in DOMAIN u : j > stop => Less(q, u[j])
  /\ Len(v) = Len(u) + 1
  /\ \A i \in 1..(Len(u) + 1) :
       v[i] = IF i <= stop THEN u[i]
              ELSE IF i = stop + 1 THEN q ELSE u[i - 1]

LEMMA InsertedElements ==
  ASSUME NEW R, R \subseteq Queued, NEW u \in Seq(R), NEW q \in R
  PROVE  /\ InsertSorted(u, q) \in Seq(R)
         /\ \E stop \in 0..Len(u) :
              Inserted(u, q, InsertSorted(u, q), stop)
<1>1. Len(u) \in Nat /\ DOMAIN u = 1..Len(u)
  OBVIOUS
<1>2. PICK n \in Nat : n = Len(u)
  BY <1>1
<1>3. PICK S : S = {0} \cup {j \in DOMAIN u : ~Less(q, u[j])}
  OBVIOUS
<1>4. PICK stop : stop = Max(S)
  OBVIOUS
<1>5. stop \in S /\ \A y \in S : stop >= y
  <2>1. S \subseteq 0..n /\ S /= {}
    BY <1>1, <1>2, <1>3
  <2>2. QED
    BY <1>4, <2>1, MaxIsLargest
<1>6. stop \in 0..n
  BY <1>1, <1>2, <1>3, <1>5
<1>7. stop > 0 => ~Less(q, u[stop])
  BY <1>3, <1>5
<1>8. ASSUME NEW j \in DOMAIN u, j > stop
      PROVE  Less(q, u[j])
  <2>1. j \notin S
    BY <1>1, <1>5, <1>6, <1>8
  <2>2. QED
    BY <1>3, <2>1
<1>9. PICK a, b : a = SubSeq(u, 1, stop) /\ b = SubSeq(u, stop + 1, n)
  OBVIOUS
<1>10. InsertSorted(u, q) = (a \o <<q>>) \o b
  <2>1. InsertSorted(u, q) = InsertAt(u, stop + 1, q)
    BY <1>3, <1>4 DEF InsertSorted
  <2>2. stop \in Int /\ (stop + 1) - 1 = stop
    BY <1>6
  <2>3. QED
    BY <1>2, <1>9, <2>1, <2>2 DEF InsertAt
<1>11. \A i \in 1..n : u[i] \in R
  BY <1>1, <1>2
<1>12. /\ a \in Seq(R) /\ Len(a) = stop
       /\ \A i \in 1..stop : a[i] = u[i]
  <2>1. \A i \in 1..stop : u[i] \in R
    BY <1>6, <1>11
  <2>2. /\ SubSeq(u, 1, stop) \in Seq(R)
        /\ Len(SubSeq(u, 1, stop)) = IF 1 <= stop THEN stop - 1 + 1 ELSE 0
        /\ \A i \in 1..(stop - 1 + 1) : SubSeq(u, 1, stop)[i] = u[1 + i - 1]
    <3>1. stop \in Int /\ 1 \in Int
      BY <1>6
    <3>2. QED
      BY ONLY <2>1, <3>1, SubSeqProperties
  <2>3. stop \in 0..n
    BY <1>6
  <2>4. QED
    BY ONLY <1>9, <2>2, <2>3
<1>13. /\ b \in Seq(R) /\ Len(b) = n - stop
       /\ \A i \in 1..(n - stop) : b[i] = u[stop + i]
  <2>1. \A i \in (stop + 1)..n : u[i] \in R
    BY <1>6, <1>11
  <2>2. /\ SubSeq(u, stop + 1, n) \in Seq(R)
        /\ Len(SubSeq(u, stop + 1, n)) =
             IF stop + 1 <= n THEN n - (stop + 1) + 1 ELSE 0
        /\ \A i \in 1..(n - (stop + 1) + 1) :
             SubSeq(u, stop + 1, n)[i] = u[(stop + 1) + i - 1]
    <3>1. stop + 1 \in Int /\ n \in Int
      BY <1>6
    <3>2. QED
      BY ONLY <2>1, <3>1, SubSeqProperties
  <2>3. stop \in 0..n /\ n \in Nat
    BY <1>6
  <2>4. \A i : (i \in Int) => (stop + 1) + i - 1 = stop + i
    BY <2>3
  <2>5. n - (stop + 1) + 1 = n - stop
    BY <2>3
  <2>6. Len(b) = n - stop
    BY ONLY <1>9, <2>2, <2>3
  <2>7. ASSUME NEW i \in 1..(n - stop)
        PROVE  b[i] = u[stop + i]
    <3>1. b[i] = u[(stop + 1) + i - 1]
      BY ONLY <1>9, <2>2, <2>5
    <3>2. (stop + 1) + i - 1 = stop + i
      BY <2>4
    <3>3. QED
      BY ONLY <3>1, <3>2
  <2>8. QED
    BY <1>9, <2>2, <2>6, <2>7
<1>14. /\ <<q>> \in Seq(R) /\ Len(<<q>>) = 1 /\ <<q>>[1] = q
  OBVIOUS
<1>15. PICK c : c = a \o <<q>>
  OBVIOUS
<1>16. /\ c \in Seq(R) /\ Len(c) = stop + 1
       /\ \A i \in 1..(stop + 1) : c[i] = IF i <= stop THEN u[i] ELSE q
  <2>1. /\ c \in Seq(R) /\ Len(c) = Len(a) + Len(<<q>>)
        /\ \A i \in 1..(Len(a) + Len(<<q>>)) :
             c[i] = IF i <= Len(a) THEN a[i] ELSE <<q>>[i - Len(a)]
    BY ONLY <1>12, <1>14, <1>15, ConcatProperties
  <2>2. stop \in Nat
    BY <1>6
  <2>3. QED
    BY ONLY <1>12, <1>14, <2>1, <2>2
<1>17. PICK v : v = InsertSorted(u, q)
  OBVIOUS
<1>18. /\ v \in Seq(R) /\ Len(v) = Len(c) + Len(b)
       /\ \A i \in 1..(Len(c) + Len(b)) :
            v[i] = IF i <= Len(c) THEN c[i] ELSE b[i - Len(c)]
  <2>1. v = c \o b
    BY <1>10, <1>15, <1>17
  <2>2. QED
    BY ONLY <1>13, <1>16, <2>1, ConcatProperties
<1>19. Len(v) = n + 1
  BY <1>6, <1>13, <1>16, <1>18
<1>20. ASSUME NEW i \in 1..(n + 1)
       PROVE  v[i] = IF i <= stop THEN u[i]
                     ELSE IF i = stop + 1 THEN q ELSE u[i - 1]
  <2>1. v[i] = IF i <= stop + 1 THEN c[i] ELSE b[i - (stop + 1)]
    BY <1>6, <1>13, <1>16, <1>18
  <2>2. CASE i <= stop + 1
    <3>1. i \in 1..(stop + 1) /\ v[i] = c[i]
      BY <1>6, <2>1, <2>2
    <3>2. QED
      BY <1>6, <1>16, <3>1
  <2>3. CASE i > stop + 1
    <3>1. i - (stop + 1) \in 1..(n - stop) /\ stop + (i - (stop + 1)) = i - 1
      BY <1>6, <2>3
    <3>2. v[i] = b[i - (stop + 1)] /\ ~(i <= stop) /\ i /= stop + 1
      BY <1>6, <2>1, <2>3
    <3>3. b[i - (stop + 1)] = u[stop + (i - (stop + 1))]
      BY <1>13, <3>1
    <3>4. QED
      BY <3>1, <3>2, <3>3
  <2>4. QED
    BY <1>6, <2>2, <2>3
<1>21. QED
  BY <1>2, <1>6, <1>7, <1>8, <1>17, <1>18, <1>19, <1>20 DEF Inserted

StrictlySorted(u) == \A i, j \in DOMAIN u : i < j => Less(u[i], u[j])

(* The comparison orders the transactions of R without contradiction.      *)
Transitive(R) ==
  \A p, q, r \in R : Less(p, q) /\ Less(q, r) => Less(p, r)

(* An insertion adds an element to a sorted sequence and keeps it sorted.  *)
LEMMA InsertionSorts ==
  ASSUME NEW R, R \subseteq Queued, Transitive(R), NEW u \in Seq(R),
         NEW q \in R, StrictlySorted(u), q \notin ToSet(u)
  PROVE  /\ InsertSorted(u, q) \in Seq(R)
         /\ StrictlySorted(InsertSorted(u, q))
         /\ ToSet(InsertSorted(u, q)) = ToSet(u) \cup {q}
<1>1. PICK v : v = InsertSorted(u, q)
  OBVIOUS
<1>2. PICK n \in Nat : n = Len(u)
  OBVIOUS
<1>3. PICK stop \in 0..n :
        /\ stop > 0 => ~Less(q, u[stop])
        /\ \A j \in DOMAIN u : j > stop => Less(q, u[j])
        /\ v \in Seq(R)
        /\ Len(v) = n + 1
        /\ \A i \in 1..(n + 1) :
             v[i] = IF i <= stop THEN u[i]
                    ELSE IF i = stop + 1 THEN q ELSE u[i - 1]
  <2>1. InsertSorted(u, q) \in Seq(R)
    BY InsertedElements
  <2>2. \E k \in 0..Len(u) : Inserted(u, q, InsertSorted(u, q), k)
    BY InsertedElements
  <2>3. QED
    BY <1>1, <1>2, <2>1, <2>2 DEF Inserted
<1>4. /\ DOMAIN u = 1..n /\ DOMAIN v = 1..(n + 1)
      /\ \A i \in 1..n : u[i] \in R /\ u[i] /= q
  BY <1>2, <1>3 DEF ToSet
<1>5. ASSUME NEW i \in 1..n, i <= stop
      PROVE  Less(u[i], q)
  <2>1. stop > 0 /\ stop \in 1..n
    BY <1>5
  <2>2. Less(u[stop], q)
    <3>1. ~Less(q, u[stop]) /\ u[stop] \in Queued /\ q \in Queued
          /\ u[stop] /= q
      BY <1>3, <1>4, <2>1
    <3>2. QED
      BY <3>1, LessDecides
  <2>3. CASE i = stop
    BY <2>2, <2>3
  <2>4. CASE i < stop
    <3>1. Less(u[i], u[stop])
      BY <1>4, <2>1, <2>4 DEF StrictlySorted
    <3>2. u[i] \in R /\ u[stop] \in R
      BY <1>4, <2>1
    <3>3. QED
      BY <2>2, <3>1, <3>2 DEF Transitive
  <2>5. QED
    BY <1>5, <2>3, <2>4
<1>6. ASSUME NEW i \in 1..(n + 1), NEW j \in 1..(n + 1), i < j
      PROVE  Less(v[i], v[j])
  <2>1. CASE j <= stop
    <3>1. v[i] = u[i] /\ v[j] = u[j] /\ i \in 1..n /\ j \in 1..n
      BY <1>3, <1>6, <2>1
    <3>2. QED
      BY <1>4, <1>6, <3>1 DEF StrictlySorted
  <2>2. CASE j = stop + 1
    <3>1. v[i] = u[i] /\ v[j] = q /\ i \in 1..n /\ i <= stop
      BY <1>3, <1>6, <2>2
    <3>2. QED
      BY <1>5, <3>1
  <2>3. CASE j > stop + 1 /\ i <= stop
    <3>1. v[i] = u[i]
      BY <1>3, <2>3
    <3>2. v[j] = u[j - 1]
      <4>1. ~(j <= stop) /\ j /= stop + 1
        BY <2>3
      <4>2. QED
        BY <1>3, <4>1
    <3>3. i \in 1..n /\ j - 1 \in 1..n /\ i < j - 1
      BY <1>6, <2>3
    <3>4. QED
      BY <1>4, <3>1, <3>2, <3>3 DEF StrictlySorted
  <2>4. CASE j > stop + 1 /\ i = stop + 1
    <3>1. v[i] = q /\ v[j] = u[j - 1]
      BY <1>3, <1>6, <2>4
    <3>2. j - 1 \in 1..n /\ j - 1 > stop
      BY <2>4
    <3>3. QED
      BY <1>3, <1>4, <3>1, <3>2
  <2>5. CASE j > stop + 1 /\ i > stop + 1
    <3>1. v[i] = u[i - 1] /\ v[j] = u[j - 1]
      BY <1>3, <1>6, <2>5
    <3>2. i - 1 \in 1..n /\ j - 1 \in 1..n /\ i - 1 < j - 1
      BY <1>6, <2>5
    <3>3. QED
      BY <1>4, <3>1, <3>2 DEF StrictlySorted
  <2>6. QED
    BY <1>6, <2>1, <2>2, <2>3, <2>4, <2>5
<1>7. ToSet(v) \subseteq ToSet(u) \cup {q}
  <2>1. SUFFICES ASSUME NEW i \in 1..(n + 1)
                 PROVE  v[i] \in ToSet(u) \cup {q}
    BY <1>4 DEF ToSet
  <2>2. CASE i <= stop
    <3>1. i \in 1..n /\ v[i] = u[i]
      BY <1>3, <2>2
    <3>2. QED
      BY <1>4, <3>1 DEF ToSet
  <2>3. CASE i = stop + 1
    <3>1. v[i] = q
      BY <1>3, <2>3
    <3>2. QED
      BY <3>1
  <2>4. CASE i > stop + 1
    <3>1. i - 1 \in 1..n /\ v[i] = u[i - 1]
      BY <1>3, <2>4
    <3>2. QED
      BY <1>4, <3>1 DEF ToSet
  <2>5. QED
    BY <2>2, <2>3, <2>4
<1>8. ToSet(u) \cup {q} \subseteq ToSet(v)
  <2>1. q \in ToSet(v)
    <3>1. stop + 1 \in 1..(n + 1) /\ v[stop + 1] = q
      BY <1>3
    <3>2. QED
      BY <1>4, <3>1 DEF ToSet
  <2>2. ASSUME NEW i \in 1..n
        PROVE  u[i] \in ToSet(v)
    <3>1. CASE i <= stop
      <4>1. i \in 1..(n + 1) /\ v[i] = u[i]
        BY <1>3, <3>1
      <4>2. QED
        BY <1>4, <4>1 DEF ToSet
    <3>2. CASE i > stop
      <4>1. i + 1 \in 1..(n + 1) /\ v[i + 1] = u[i]
        BY <1>3, <3>2
      <4>2. QED
        BY <1>4, <4>1 DEF ToSet
    <3>3. QED
      BY <3>1, <3>2
  <2>3. QED
    BY <1>4, <2>1, <2>2 DEF ToSet
<1>9. QED
  BY <1>1, <1>3, <1>4, <1>6, <1>7, <1>8 DEF StrictlySorted


-----------------------------------------------------------------------------
(* The sort of a batch on which the comparison does not contradict itself. *)

Distinct(s) == \A i, j \in DOMAIN s : s[i] = s[j] => i = j

LEMMA SortSorts ==
  ASSUME NEW s \in Seq(Queued), Distinct(s), Transitive(ToSet(s))
  PROVE  /\ SortTransactionsVectorClock(s) \in Seq(Queued)
         /\ StrictlySorted(SortTransactionsVectorClock(s))
         /\ ToSet(SortTransactionsVectorClock(s)) = ToSet(s)
<1>1. PICK R : R = ToSet(s)
  OBVIOUS
<1>2. R \subseteq Queued /\ Transitive(R)
  BY <1>1 DEF ToSet
<1>3. PICK n \in Nat : n = Len(s) /\ DOMAIN s = 1..n
  OBVIOUS
<1>4. PICK w : /\ w[0] = <<>>
               /\ \A k \in 0..(n - 1) :
                    w[k + 1] = InsertSorted(w[k], s[k + 1])
               /\ SortTransactionsVectorClock(s) = w[n]
  BY <1>3, SortInserts
<1> DEFINE Done(k) == /\ w[k] \in Seq(R)
                      /\ StrictlySorted(w[k])
                      /\ ToSet(w[k]) = {s[i] : i \in 1..k}
           T == {k \in Nat : k <= n => Done(k)}
<1>5. Done(0)
  <2>1. w[0] \in Seq(R) /\ DOMAIN w[0] = {}
    BY <1>4
  <2>2. StrictlySorted(w[0])
    BY <2>1 DEF StrictlySorted
  <2>3. ToSet(w[0]) = {s[i] : i \in 1..0}
    BY <2>1 DEF ToSet
  <2>4. QED
    BY <2>1, <2>2, <2>3
<1>6. ASSUME NEW k \in Nat, k + 1 <= n, Done(k)
      PROVE  Done(k + 1)
  <2>1. PICK u : u = w[k]
    OBVIOUS
  <2>2. u \in Seq(R) /\ StrictlySorted(u) /\ ToSet(u) = {s[i] : i \in 1..k}
    BY <1>6, <2>1
  <2>3. PICK q : q = s[k + 1]
    OBVIOUS
  <2>4. k \in 0..(n - 1) /\ k + 1 \in 1..n
    BY <1>6
  <2>5. w[k + 1] = InsertSorted(u, q)
    BY <1>4, <2>1, <2>3, <2>4
  <2>6. q \in R
    BY <1>1, <1>3, <2>3, <2>4 DEF ToSet
  <2>7. q \notin ToSet(u)
    <3>1. ASSUME NEW i \in 1..k, s[i] = q PROVE FALSE
      <4>1. i \in 1..n /\ i /= k + 1
        BY <1>6
      <4>2. QED
        BY <1>3, <2>3, <2>4, <3>1, <4>1 DEF Distinct
    <3>2. QED
      BY <2>2, <3>1
  <2>8. /\ InsertSorted(u, q) \in Seq(R)
        /\ StrictlySorted(InsertSorted(u, q))
        /\ ToSet(InsertSorted(u, q)) = ToSet(u) \cup {q}
    BY <1>2, <2>2, <2>6, <2>7, InsertionSorts
  <2>9. {s[i] : i \in 1..k} \cup {q} = {s[i] : i \in 1..(k + 1)}
    BY <2>3
  <2>10. QED
    BY <2>2, <2>5, <2>8, <2>9
<1>7. \A k \in Nat : k \in T
  <2>1. 0 \in T /\ \A k \in Nat : k \in T => k + 1 \in T
    <3> HIDE DEF Done
    <3> QED BY <1>5, <1>6
  <2> HIDE DEF T
  <2>2. QED
    BY <2>1, NatSetInduction
<1>8. Done(n)
  <2> HIDE DEF Done
  <2>1. n \in T /\ n <= n
    BY <1>7
  <2>2. QED
    BY <2>1
<1>9. SortTransactionsVectorClock(s) \in Seq(Queued)
  <2>1. w[n] \in Seq(Queued)
    BY <1>2, <1>8
  <2>2. QED
    BY <1>4, <2>1
<1>10. ToSet(s) = {s[i] : i \in 1..n}
  BY <1>3 DEF ToSet
<1>11. QED
  BY <1>4, <1>8, <1>9, <1>10

(* Two sorted sequences of the same transactions do not differ first at i. *)
LEMMA NoFirstDifference ==
  ASSUME NEW u \in Seq(Queued), NEW v \in Seq(Queued),
         StrictlySorted(u), StrictlySorted(v), ToSet(u) = ToSet(v),
         NEW i \in DOMAIN u,
         \A j \in 1..(i - 1) : j \in DOMAIN v /\ u[j] = v[j]
  PROVE  i \in DOMAIN v /\ u[i] = v[i]
<1>1. PICK m \in Nat, n \in Nat : DOMAIN u = 1..m /\ DOMAIN v = 1..n
  OBVIOUS
<1>2. \A j \in DOMAIN u : u[j] \in Queued
  OBVIOUS
<1>3. \A j \in DOMAIN v : v[j] \in Queued
  OBVIOUS
<1>4. PICK k \in DOMAIN v : u[i] = v[k]
  BY DEF ToSet
<1>5. ~(k < i)
  <2>1. SUFFICES ASSUME k < i PROVE FALSE
    OBVIOUS
  <2>2. k \in 1..(i - 1) /\ k \in DOMAIN u
    BY <1>1, <2>1
  <2>3. u[k] = u[i] /\ Less(u[k], u[i])
    BY <1>4, <2>1, <2>2 DEF StrictlySorted
  <2>4. QED
    BY <1>2, <2>3, LessDecides
<1>6. i \in DOMAIN v
  BY <1>1, <1>4, <1>5
<1>7. PICK l \in DOMAIN u : v[i] = u[l]
  BY <1>6 DEF ToSet
<1>8. ~(l < i)
  <2>1. SUFFICES ASSUME l < i PROVE FALSE
    OBVIOUS
  <2>2. l \in 1..(i - 1) /\ l \in DOMAIN v
    BY <1>1, <2>1
  <2>3. v[l] = v[i] /\ Less(v[l], v[i])
    BY <1>6, <1>7, <2>1, <2>2 DEF StrictlySorted
  <2>4. QED
    BY <1>3, <1>6, <2>3, LessDecides
<1>9. CASE k = i \/ l = i
  BY <1>4, <1>6, <1>7, <1>9
<1>10. CASE k > i /\ l > i
  <2>1. Less(v[i], v[k]) /\ Less(u[i], u[l])
    BY <1>6, <1>10 DEF StrictlySorted
  <2>2. Less(v[i], u[i]) /\ Less(u[i], v[i])
    BY <1>4, <1>7, <2>1
  <2>3. QED
    BY <1>2, <1>3, <1>6, <2>2, LessDecides
<1>11. QED
  BY <1>1, <1>5, <1>8, <1>9, <1>10

(* There is one way to sort a set of transactions.                         *)
LEMMA SortedIsUnique ==
  ASSUME NEW u \in Seq(Queued), NEW v \in Seq(Queued),
         StrictlySorted(u), StrictlySorted(v), ToSet(u) = ToSet(v)
  PROVE  u = v
<1>1. PICK m \in Nat, n \in Nat :
        /\ DOMAIN u = 1..m /\ DOMAIN v = 1..n /\ m = Len(u) /\ n = Len(v)
  OBVIOUS
<1> DEFINE Same(j) == /\ j \in DOMAIN u <=> j \in DOMAIN v
                      /\ j \in DOMAIN u => u[j] = v[j]
           T == {k \in Nat : \A j \in 1..k : Same(j)}
<1>2. ASSUME NEW k \in Nat, \A j \in 1..k : Same(j)
      PROVE  Same(k + 1)
  <2>1. ASSUME k + 1 \in DOMAIN u
        PROVE  k + 1 \in DOMAIN v /\ u[k + 1] = v[k + 1]
    <3>1. \A j \in 1..k : j \in DOMAIN v /\ u[j] = v[j]
      BY <1>1, <1>2, <2>1
    <3>2. (k + 1) - 1 = k
      OBVIOUS
    <3>3. QED
      BY <2>1, <3>1, <3>2, NoFirstDifference
  <2>2. ASSUME k + 1 \in DOMAIN v
        PROVE  k + 1 \in DOMAIN u /\ v[k + 1] = u[k + 1]
    <3>1. \A j \in 1..k : j \in DOMAIN u /\ v[j] = u[j]
      BY <1>1, <1>2, <2>2
    <3>2. (k + 1) - 1 = k
      OBVIOUS
    <3>3. QED
      BY <2>2, <3>1, <3>2, NoFirstDifference
  <2>3. QED
    BY <2>1, <2>2
<1>3. \A k \in Nat : k \in T
  <2>1. 0 \in T /\ \A k \in Nat : k \in T => k + 1 \in T
    <3> HIDE DEF Same
    <3>1. 0 \in T
      OBVIOUS
    <3>2. ASSUME NEW k \in Nat, k \in T
          PROVE  k + 1 \in T
      <4>1. Same(k + 1)
        BY <1>2, <3>2
      <4>2. \A j \in 1..(k + 1) : j \in 1..k \/ j = k + 1
        OBVIOUS
      <4>3. QED
        BY <3>2, <4>1, <4>2
    <3>3. QED
      BY <3>1, <3>2
  <2> HIDE DEF T
  <2>2. QED
    BY <2>1, NatSetInduction
<1>4. \A j \in 1..(m + n) : Same(j)
  BY <1>3
<1>5. m = n
  <2>1. CASE m > n
    <3>1. m \in 1..(m + n) /\ m \in DOMAIN u /\ m \notin DOMAIN v
      BY <1>1, <2>1
    <3>2. QED
      BY <1>4, <3>1
  <2>2. CASE n > m
    <3>1. n \in 1..(m + n) /\ n \in DOMAIN v /\ n \notin DOMAIN u
      BY <1>1, <2>2
    <3>2. QED
      BY <1>4, <3>1
  <2>3. QED
    BY <2>1, <2>2
<1>6. \A j \in 1..m : u[j] = v[j]
  BY <1>1, <1>4
<1>7. QED
  BY <1>1, <1>5, <1>6


(***************************************************************************)
(* SortTransactionsVectorClock depends on what has arrived and not on the  *)
(* order of arrival: any two arrivals of the same transactions, however    *)
(* many, are replayed alike where the comparison is transitive.            *)
(***************************************************************************)
THEOREM SortIgnoresArrival ==
  ASSUME NEW s \in Seq(Queued), Distinct(s),
         NEW t \in Seq(Queued), Distinct(t),
         ToSet(s) = ToSet(t), Transitive(ToSet(s))
  PROVE  SortTransactionsVectorClock(s) = SortTransactionsVectorClock(t)
<1>1. PICK u, v : /\ u = SortTransactionsVectorClock(s)
                  /\ v = SortTransactionsVectorClock(t)
  OBVIOUS
<1>2. u \in Seq(Queued) /\ StrictlySorted(u) /\ ToSet(u) = ToSet(s)
  BY <1>1, SortSorts
<1>3. v \in Seq(Queued) /\ StrictlySorted(v) /\ ToSet(v) = ToSet(t)
  BY <1>1, SortSorts
<1>4. u = v
  BY <1>2, <1>3, SortedIsUnique
<1>5. QED
  BY <1>1, <1>4

(* The batch with two neighbours exchanged has the same transactions.      *)
LEMMA SwappedIsSame ==
  ASSUME NEW s \in Seq(Queued), Distinct(s), NEW i \in 1..(Len(s) - 1)
  PROVE  /\ Swapped(s, i) \in Seq(Queued)
         /\ Distinct(Swapped(s, i))
         /\ ToSet(Swapped(s, i)) = ToSet(s)
<1>1. PICK n \in Nat : n = Len(s) /\ DOMAIN s = 1..n
  OBVIOUS
<1>2. PICK t : t = Swapped(s, i)
  OBVIOUS
<1> DEFINE To(k) == IF k = i THEN i + 1 ELSE IF k = i + 1 THEN i ELSE k
<1>3. i \in 1..n /\ i + 1 \in 1..n
  BY <1>1
<1>4. \A k \in 1..n : To(k) \in 1..n /\ To(To(k)) = k
  BY <1>3
<1>5. t = [k \in 1..n |-> s[To(k)]]
  BY <1>1, <1>2 DEF Swapped
<1>6. \A k \in 1..n : t[k] = s[To(k)]
  <2> HIDE DEF To
  <2>1. QED
    BY <1>5
<1>7. DOMAIN t = 1..n
  BY <1>5
<1> HIDE DEF To
<1>8. t \in Seq(Queued)
  <2>1. \A k \in 1..n : s[To(k)] \in Queued
    BY <1>1, <1>4
  <2>2. QED
    BY <1>5, <2>1
<1>9. Distinct(t)
  <2>1. SUFFICES ASSUME NEW k \in 1..n, NEW l \in 1..n, t[k] = t[l]
                 PROVE  k = l
    BY <1>7 DEF Distinct
  <2>2. To(k) \in DOMAIN s /\ To(l) \in DOMAIN s /\ s[To(k)] = s[To(l)]
    BY <1>1, <1>4, <1>6, <2>1
  <2>3. To(k) = To(l)
    BY <2>2 DEF Distinct
  <2>4. QED
    BY <1>4, <2>3
<1>10. ToSet(t) \subseteq ToSet(s)
  BY <1>1, <1>4, <1>6, <1>7 DEF ToSet
<1>11. ToSet(s) \subseteq ToSet(t)
  <2>1. ASSUME NEW k \in 1..n PROVE s[k] \in ToSet(t)
    <3>1. To(k) \in 1..n /\ t[To(k)] = s[k]
      BY <1>4, <1>6
    <3>2. QED
      BY <1>7, <3>1 DEF ToSet
  <2>2. QED
    BY <1>1, <2>1 DEF ToSet
<1>12. QED
  BY <1>2, <1>8, <1>9, <1>10, <1>11

-----------------------------------------------------------------------------
(* Two terminals whose clocks count what they should.                      *)

(* A transaction follows another whose terminal's event it counts.         *)
LEMMA FollowsMeansKnows ==
  ASSUME ClocksCount, NEW p \in Queued, NEW q \in Queued
  PROVE  Follows(q, p) <=> Knows(q, p)
<1>1. ASSUME Follows(q, p) PROVE Knows(q, p)
  <2>1. At(p.VectorClock, p.TerminalID) <= At(q.VectorClock, p.TerminalID)
    BY <1>1 DEF Follows
  <2>2. At(p.VectorClock, p.TerminalID) = p.SeqNo
    BY DEF ClocksCount
  <2>3. QED
    BY <2>1, <2>2 DEF Knows
<1>2. ASSUME Knows(q, p) PROVE Follows(q, p)
  <2>1. \A k \in DOMAIN p.VectorClock :
          p.VectorClock[k] <= At(q.VectorClock, k)
    BY <1>2 DEF ClocksCount
  <2>2. \A k : At(q.VectorClock, k) \in Nat
    BY QueuedTypes
  <2>3. QED
    BY <2>1, <2>2 DEF Follows, At
<1>3. QED
  BY <1>1, <1>2

LEMMA FollowsIsTransitive ==
  ASSUME NEW p \in Queued, NEW q \in Queued, NEW r \in Queued,
         Follows(q, p), Follows(r, q)
  PROVE  Follows(r, p)
<1>1. SUFFICES ASSUME NEW k
               PROVE  At(p.VectorClock, k) <= At(r.VectorClock, k)
  BY DEF Follows
<1>2. /\ At(p.VectorClock, k) <= At(q.VectorClock, k)
      /\ At(q.VectorClock, k) <= At(r.VectorClock, k)
  BY DEF Follows
<1>3. /\ At(p.VectorClock, k) \in Nat /\ At(q.VectorClock, k) \in Nat
      /\ At(r.VectorClock, k) \in Nat
  BY QueuedTypes
<1>4. QED
  BY <1>2, <1>3

LEMMA FollowsOneWay ==
  ASSUME ClocksCount, NEW p \in Queued, NEW q \in Queued,
         Follows(q, p), Follows(p, q)
  PROVE  p = q
<1>1. Knows(q, p) /\ Knows(p, q)
  BY FollowsMeansKnows
<1>2. QED
  BY <1>1 DEF ClocksCount

(* The comparison makes no circle of three if two share a terminal.        *)
LEMMA NoCircle ==
  ASSUME ClocksCount, NEW p \in Queued, NEW q \in Queued, NEW r \in Queued,
         p.TerminalID = q.TerminalID,
         Less(p, q), Less(q, r), Less(r, p)
  PROVE  FALSE
<1>1. p /= q /\ q /= r /\ p /= r
  BY LessDecides
<1>2. p.SeqNo \in Nat /\ q.SeqNo \in Nat /\ r.SeqNo \in Nat
  BY QueuedTypes
<1>3. /\ Knows(q, p) <=> p.SeqNo <= q.SeqNo
      /\ Knows(p, q) <=> q.SeqNo <= p.SeqNo
  BY DEF Knows, ClocksCount
<1>4. p.SeqNo < q.SeqNo /\ Follows(q, p)
  <2>1. Follows(q, p) <=> p.SeqNo <= q.SeqNo
    BY <1>3, FollowsMeansKnows
  <2>2. Follows(p, q) <=> q.SeqNo <= p.SeqNo
    BY <1>3, FollowsMeansKnows
  <2>3. ~(Follows(p, q) /\ Follows(q, p))
    BY <1>1, FollowsOneWay
  <2>4. Follows(q, p) \/ Follows(p, q)
    BY <1>2, <2>1, <2>2
  <2>5. Follows(q, p)
    BY <2>3, <2>4, LessMeans
  <2>6. QED
    BY <1>2, <2>2, <2>3, <2>5
<1>5. CASE Follows(r, q)
  <2>1. Follows(r, p)
    BY <1>4, <1>5, FollowsIsTransitive
  <2>2. ~Follows(p, r)
    BY <1>1, <2>1, FollowsOneWay
  <2>3. QED
    BY <2>1, <2>2, LessMeans
<1>6. CASE Follows(p, r)
  <2>1. Follows(q, r)
    BY <1>4, <1>6, FollowsIsTransitive
  <2>2. ~Follows(r, q)
    BY <1>1, <2>1, FollowsOneWay
  <2>3. QED
    BY <2>1, <2>2, LessMeans
<1>7. CASE ~Follows(r, q) /\ ~Follows(p, r)
  <2>1. TieBreak(q, r) /\ TieBreak(r, p)
    BY <1>7, LessMeans
  <2>2. q.SeqNo <= r.SeqNo /\ r.SeqNo <= p.SeqNo
    BY <2>1, TiesBreak
  <2>3. QED
    BY <1>2, <1>4, <2>2
<1>8. QED
  BY <1>5, <1>6, <1>7

(* Of three transactions of two terminals, two share a terminal.           *)
LEMMA TwoShare ==
  ASSUME NEW s \in Seq(Queued), FewTerminals(s),
         NEW p \in ToSet(s), NEW q \in ToSet(s), NEW r \in ToSet(s)
  PROVE  \/ p.TerminalID = q.TerminalID
         \/ q.TerminalID = r.TerminalID
         \/ p.TerminalID = r.TerminalID
<1>1. PICK S : S = {s[i].TerminalID : i \in DOMAIN s}
  OBVIOUS
<1>2. PICK n \in Nat : DOMAIN s = 1..n
  OBVIOUS
<1>3. IsFiniteSet(S)
  <2>1. PICK f : f = [i \in 1..n |-> s[i].TerminalID]
    OBVIOUS
  <2>2. f \in Surjection(1..n, S)
    BY <1>1, <1>2, <2>1 DEF Surjection
  <2>3. IsFiniteSet(1..n)
    BY FS_Interval
  <2>4. QED
    BY <2>2, <2>3, FS_Surjection
<1>4. PICK a \in S, b \in S, c \in S :
        a = p.TerminalID /\ b = q.TerminalID /\ c = r.TerminalID
  BY <1>1 DEF ToSet
<1>5. SUFFICES ASSUME a /= b, b /= c, a /= c PROVE FALSE
  BY <1>4
<1>6. IsFiniteSet({a}) /\ Cardinality({a}) = 1
  BY FS_Singleton
<1>7. IsFiniteSet({a} \cup {b}) /\ Cardinality({a} \cup {b}) = 1 + 1
  BY <1>5, <1>6, FS_AddElement
<1>8. Cardinality(({a} \cup {b}) \cup {c}) = (1 + 1) + 1
  BY <1>5, <1>7, FS_AddElement
<1>9. Cardinality(({a} \cup {b}) \cup {c}) <= Cardinality(S)
  <2>1. ({a} \cup {b}) \cup {c} \in SUBSET S
    OBVIOUS
  <2>2. QED
    BY <1>3, <2>1, FS_Subset
<1>10. Cardinality(S) <= 2 /\ Cardinality(S) \in Nat
  BY <1>1, <1>3, FS_CardinalityType DEF FewTerminals
<1>11. PICK x, y : /\ x = Cardinality(({a} \cup {b}) \cup {c})
                   /\ y = Cardinality(S)
  OBVIOUS
<1>12. x = (1 + 1) + 1 /\ x <= y /\ y <= 2 /\ y \in Nat
  BY <1>8, <1>9, <1>10, <1>11
<1>13. QED
  BY ONLY <1>12

(* So the comparison does not contradict itself on such a batch.           *)
LEMMA FewTerminalsAgree ==
  ASSUME ClocksCount, NEW s \in Seq(Queued), FewTerminals(s)
  PROVE  Transitive(ToSet(s))
<1>1. SUFFICES ASSUME NEW p \in ToSet(s), NEW q \in ToSet(s),
                      NEW r \in ToSet(s), Less(p, q), Less(q, r)
               PROVE  Less(p, r)
  BY DEF Transitive
<1>2. p \in Queued /\ q \in Queued /\ r \in Queued
  BY DEF ToSet
<1>3. p /= r
  BY <1>1, <1>2, LessDecides
<1>4. SUFFICES ASSUME Less(r, p) PROVE FALSE
  BY <1>2, <1>3, LessDecides
<1>5. CASE p.TerminalID = q.TerminalID
  BY <1>1, <1>2, <1>4, <1>5, NoCircle
<1>6. CASE q.TerminalID = r.TerminalID
  BY <1>1, <1>2, <1>4, <1>6, NoCircle
<1>7. CASE r.TerminalID = p.TerminalID
  BY <1>1, <1>2, <1>4, <1>7, NoCircle
<1>8. QED
  BY <1>5, <1>6, <1>7, TwoShare

-----------------------------------------------------------------------------
(* The batch, and the theorems.                                            *)

(* A transaction arrives once.                                             *)
ArrivalInv == batch \in Seq(Queued) /\ Distinct(batch)

LEMMA Arrivals == ArrivalSpec => []ArrivalInv
<1>1. ArrivalInit => ArrivalInv
  BY DEF ArrivalInit, ArrivalInv, Distinct
<1>2. ASSUME ArrivalInv, [ArrivalNext]_batch
      PROVE  ArrivalInv'
  <2>1. CASE batch' = batch
    BY <1>2, <2>1 DEF ArrivalInv, Distinct
  <2>2. ASSUME NEW q \in Queued, Arrive(q)
        PROVE  ArrivalInv'
    <3>1. PICK s, t : s = batch /\ t = batch'
      OBVIOUS
    <3>2. /\ s \in Seq(Queued) /\ Distinct(s) /\ q \notin ToSet(s)
          /\ t = Append(s, q)
      BY <1>2, <2>2, <3>1 DEF ArrivalInv, Arrive
    <3>3. PICK n \in Nat : n = Len(s) /\ DOMAIN s = 1..n
      BY <3>2
    <3>4. /\ t \in Seq(Queued) /\ DOMAIN t = 1..(n + 1) /\ t[n + 1] = q
          /\ \A i \in 1..n : t[i] = s[i] /\ s[i] /= q
      BY <3>2, <3>3 DEF ToSet
    <3>5. \A i \in 1..(n + 1) : i \in 1..n \/ i = n + 1
      OBVIOUS
    <3>6. \A i, j \in 1..n : s[i] = s[j] => i = j
      BY <3>2, <3>3 DEF Distinct
    <3>7. \A i, j \in DOMAIN t : t[i] = t[j] => i = j
      BY <3>4, <3>5, <3>6
    <3>8. QED
      BY <3>1, <3>4, <3>7 DEF ArrivalInv, Distinct
  <2>3. QED
    BY <1>2, <2>1, <2>2 DEF ArrivalNext
<1>3. QED
  BY <1>1, <1>2, PTL DEF ArrivalSpec

(* When the two properties speak of a batch, the comparison is transitive. *)
LEMMA BatchIsOrdered ==
  ASSUME ClocksCount, NEW s \in Seq(Queued),
         FewTerminals(s) \/ Consistent(s)
  PROVE  Transitive(ToSet(s))
<1>1. CASE FewTerminals(s)
  BY <1>1, FewTerminalsAgree
<1>2. CASE Consistent(s)
  BY <1>2 DEF Consistent, Transitive, ToSet
<1>3. QED
  BY <1>1, <1>2

(***************************************************************************)
(* SortTransactionsVectorClock replays no transaction before one that      *)
(* causally precedes it, if the terminals count their clocks and two of    *)
(* them have sent the batch, or else the comparison agrees with itself.    *)
(***************************************************************************)
THEOREM ReplayFollowsCausality ==
  ASSUME ClocksCount
  PROVE  ArrivalSpec => []ReplayIsCausal
<1>1. ASSUME ArrivalInv PROVE ReplayIsCausal
  <2>1. PICK s : s = batch
    OBVIOUS
  <2>2. s \in Seq(Queued) /\ Distinct(s)
    BY <1>1, <2>1 DEF ArrivalInv
  <2>3. PICK v : v = SortTransactionsVectorClock(s)
    OBVIOUS
  <2>4. ASSUME FewTerminals(s) \/ Consistent(s),
               NEW i \in DOMAIN v, NEW j \in DOMAIN v, i < j
        PROVE  CompareVectorClocks(v[i].VectorClock, v[j].VectorClock) /= 1
    <3>1. Transitive(ToSet(s))
      BY <2>2, <2>4, BatchIsOrdered
    <3>2. v \in Seq(Queued) /\ StrictlySorted(v)
      BY <2>2, <2>3, <3>1, SortSorts
    <3>3. Less(v[i], v[j]) /\ v[i] \in Queued /\ v[j] \in Queued
      BY <2>4, <3>2 DEF StrictlySorted
    <3>4. ~(Follows(v[i], v[j]) /\ ~Follows(v[j], v[i]))
      BY <3>3, LessMeans
    <3>5. QED
      BY <3>3, <3>4, ComparisonMeans
  <2>5. QED
    BY <2>1, <2>3, <2>4 DEF ReplayIsCausal
<1>2. QED
  BY <1>1, Arrivals, PTL

(***************************************************************************)
(* Exchanging two arrivals of such a batch does not change the replay: the *)
(* sorted order of a set of transactions is unique, whatever their number. *)
(***************************************************************************)
THEOREM ReplayIgnoresArrival ==
  ASSUME ClocksCount
  PROVE  ArrivalSpec => []ReplayIsReproducible
<1>1. ASSUME ArrivalInv PROVE ReplayIsReproducible
  <2>1. PICK s : s = batch
    OBVIOUS
  <2>2. s \in Seq(Queued) /\ Distinct(s)
    BY <1>1, <2>1 DEF ArrivalInv
  <2>3. ASSUME FewTerminals(s) \/ Consistent(s),
               NEW i \in 1..(Len(s) - 1)
        PROVE  SortTransactionsVectorClock(Swapped(s, i)) =
                 SortTransactionsVectorClock(s)
    <3>1. Transitive(ToSet(s))
      BY <2>2, <2>3, BatchIsOrdered
    <3>2. PICK t : t = Swapped(s, i)
      OBVIOUS
    <3>3. t \in Seq(Queued) /\ Distinct(t) /\ ToSet(t) = ToSet(s)
      BY <2>2, <2>3, <3>2, SwappedIsSame
    <3>4. SortTransactionsVectorClock(s) = SortTransactionsVectorClock(t)
      BY <2>2, <3>1, <3>3, SortIgnoresArrival
    <3>5. QED
      BY <3>2, <3>4
  <2>4. QED
    BY <2>1, <2>3 DEF ReplayIsReproducible
<1>2. QED
  BY <1>1, Arrivals, PTL


=============================================================================
