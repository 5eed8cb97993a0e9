-------------------------- MODULE ReconcilerProofs --------------------------
(***************************************************************************)
(* Proofs about the write-ahead log and about the replay that settles what *)
(* it holds, for every set of transactions, payments and accounts, every   *)
(* content recovered from the log, every choice of the system calls that   *)
(* fail and every bound.                                                   *)
(***************************************************************************)
EXTENDS Reconciler, LedgerProofs, SequenceTheorems

-----------------------------------------------------------------------------
(* Lemmas about the operators of the community modules.                    *)

(* A finite set of integers that is not empty has a greatest member.       *)
LEMMA GreatestElement ==
  ASSUME NEW S \in SUBSET Int, IsFiniteSet(S), S # {}
  PROVE  Max(S) \in S /\ \A y \in S : y <= Max(S)
<1> DEFINE Top(s) == \E x \in s : \A y \in s : x >= y
           T == {s \in SUBSET S : s = {} \/ Top(s)}
<1>1. {} \in T
  OBVIOUS
<1>2. ASSUME NEW s \in SUBSET S, s \in T, NEW x \in S \ s
      PROVE  s \cup {x} \in T
  <2>1. CASE s = {}
    BY <2>1
  <2>2. CASE Top(s)
    <3>1. PICK m \in s : \A y \in s : m >= y
      BY <2>2
    <3>2. PICK k \in {m, x} : k >= m /\ k >= x
      <4>1. m \in Int /\ x \in Int
        OBVIOUS
      <4>2. m >= x \/ x >= m
        BY <4>1
      <4>3. QED
        BY <4>1, <4>2
    <3>3. \A y \in s \cup {x} : k >= y
      BY <3>1, <3>2
    <3>4. QED
      BY <3>2, <3>3
  <2>3. QED
    BY <1>2, <2>1, <2>2
<1>3. S \in T
  <2> HIDE DEF T
  <2>1. QED
    BY <1>1, <1>2, FiniteSetInduction
<1>4. Top(S)
  BY <1>3
<1>5. QED
  BY <1>4 DEF Max

(* The lesser and the greater of two integers.                             *)
LEMMA OfTwo ==
  ASSUME NEW m \in Int, NEW n \in Int
  PROVE  /\ Min({m, n}) = IF m <= n THEN m ELSE n
         /\ Max({m, n}) = IF m <= n THEN n ELSE m
<1>1. \E x \in {m, n} : \A y \in {m, n} : x <= y
  OBVIOUS
<1>2. Min({m, n}) \in {m, n} /\ \A y \in {m, n} : Min({m, n}) <= y
  BY <1>1 DEF Min
<1>3. \E x \in {m, n} : \A y \in {m, n} : x >= y
  OBVIOUS
<1>4. Max({m, n}) \in {m, n} /\ \A y \in {m, n} : Max({m, n}) >= y
  BY <1>3 DEF Max
<1>5. Min({m, n}) \in Int /\ Max({m, n}) \in Int
  BY <1>2, <1>4
<1>6. QED
  BY <1>2, <1>4, <1>5

(* Among finitely many positions there is a first, a second and so on.     *)
LEMMA NthPosition ==
  ASSUME NEW P \in SUBSET Nat, IsFiniteSet(P), NEW k \in 1..Cardinality(P)
  PROVE  \E i \in P : Cardinality({j \in P : j <= i}) = k
<1> DEFINE Nth(Q, n) == \E i \in Q : Cardinality({j \in Q : j <= i}) = n
           Sized(c) == \A Q \in SUBSET Nat :
                         IsFiniteSet(Q) /\ Cardinality(Q) = c =>
                           \A n \in 1..c : Nth(Q, n)
           T == {c \in Nat : Sized(c)}
<1>1. 0 \in T
  OBVIOUS
<1>2. ASSUME NEW c \in Nat, c \in T
      PROVE  c + 1 \in T
  <2>1. SUFFICES ASSUME NEW Q \in SUBSET Nat, IsFiniteSet(Q),
                        Cardinality(Q) = c + 1, NEW n \in 1..(c + 1)
                 PROVE  Nth(Q, n)
    OBVIOUS
  <2>2. Q # {}
    <3>1. Cardinality({}) = 0 /\ c + 1 # 0
      BY FS_EmptySet
    <3>2. QED
      BY <2>1, <3>1
  <2>3. PICK m \in Q : \A y \in Q : y <= m
    <3>1. Q \in SUBSET Int
      OBVIOUS
    <3>2. QED
      BY <2>1, <2>2, <3>1, GreatestElement
  <2>4. /\ IsFiniteSet(Q \ {m})
        /\ Cardinality(Q \ {m}) = c
        /\ Q \ {m} \in SUBSET Nat
    <3>1. /\ IsFiniteSet(Q \ {m})
          /\ Cardinality(Q \ {m}) = Cardinality(Q) - 1
      BY <2>1, FS_RemoveElement
    <3>2. QED
      BY <2>1, <3>1
  <2>5. CASE n = c + 1
    <3>1. {j \in Q : j <= m} = Q
      BY <2>3
    <3>2. QED
      BY <2>1, <2>5, <3>1
  <2>6. CASE n # c + 1
    <3>1. n \in 1..c
      BY <2>6
    <3>2. Nth(Q \ {m}, n)
      BY <1>2, <2>4, <3>1
    <3>3. PICK i \in Q \ {m} : Cardinality({j \in Q \ {m} : j <= i}) = n
      BY <3>2
    <3>4. i \in Nat /\ m \in Nat /\ i < m
      BY <2>3
    <3>5. {j \in Q : j <= i} = {j \in Q \ {m} : j <= i}
      BY <3>4
    <3>6. QED
      BY <3>3, <3>5
  <2>7. QED
    BY <2>5, <2>6
<1>3. \A c \in Nat : c \in T
  <2> HIDE DEF T
  <2>1. QED
    BY <1>1, <1>2, NatSetInduction
<1>4. Cardinality(P) \in Nat
  BY FS_CardinalityType
<1>5. QED
  BY <1>3, <1>4

(* The members of a sequence, and of one that is one longer.               *)
LEMMA MembersOf ==
  ASSUME NEW S, NEW s \in Seq(S)
  PROVE  /\ \A x : x \in ToSet(s) <=> \E i \in 1..Len(s) : s[i] = x
         /\ ToSet(s) \subseteq S
         /\ \A x \in S : ToSet(Append(s, x)) = ToSet(s) \cup {x}
<1>1. DOMAIN s = 1..Len(s) /\ Len(s) \in Nat
  OBVIOUS
<1>2. \A x : x \in ToSet(s) <=> \E i \in 1..Len(s) : s[i] = x
  BY <1>1 DEF ToSet
<1>3. ToSet(s) \subseteq S
  BY <1>1 DEF ToSet
<1>4. ASSUME NEW x \in S
      PROVE  ToSet(Append(s, x)) = ToSet(s) \cup {x}
  <2> DEFINE t == Append(s, x)
             n == Len(s)
  <2>1. /\ DOMAIN t = 1..(n + 1) /\ n \in Nat
        /\ \A i \in 1..n : t[i] = s[i]
        /\ t[n + 1] = x
    BY <1>1
  <2>2. \A y : y \in ToSet(t) <=> \E i \in 1..(n + 1) : t[i] = y
    BY <2>1 DEF ToSet
  <2> HIDE DEF t, n
  <2>3. \A y : y \in ToSet(s) <=> \E i \in 1..n : s[i] = y
    BY <1>2 DEF n
  <2>4. ASSUME NEW y PROVE y \in ToSet(t) <=> y \in ToSet(s) \cup {x}
    <3>1. 1..(n + 1) = (1..n) \cup {n + 1}
      BY <2>1
    <3>2. QED
      BY <2>1, <2>2, <2>3, <3>1
  <2>5. QED
    BY <2>4 DEF t
<1>5. QED
  BY <1>2, <1>3, <1>4

(* Taking one element out of a sequence.                                   *)
LEMMA RemoveOne ==
  ASSUME NEW S, NEW s \in Seq(S), NEW i \in DOMAIN s
  PROVE  /\ RemoveAt(s, i) \in Seq(S)
         /\ Len(RemoveAt(s, i)) = Len(s) - 1
         /\ \A j \in DOMAIN RemoveAt(s, i) :
              \E k \in DOMAIN s : RemoveAt(s, i)[j] = s[k]
<1> DEFINE a == SubSeq(s, 1, i - 1)
           b == SubSeq(s, i + 1, Len(s))
<1>1. Len(s) \in Nat /\ i \in 1..Len(s) /\ DOMAIN s = 1..Len(s)
  OBVIOUS
<1>2. /\ a \in Seq(S) /\ Len(a) = i - 1
      /\ \A j \in 1..(i - 1) : a[j] = s[j]
  BY <1>1
<1>3. /\ b \in Seq(S) /\ Len(b) = Len(s) - i
      /\ \A j \in 1..(Len(s) - i) : b[j] = s[i + j]
  BY <1>1
<1>4. RemoveAt(s, i) = a \o b
  BY DEF RemoveAt
<1> HIDE DEF a, b
<1>5. a \o b \in Seq(S) /\ Len(a \o b) = Len(a) + Len(b)
  BY <1>2, <1>3, ConcatProperties
<1>6. Len(a \o b) = Len(s) - 1
  BY <1>1, <1>2, <1>3, <1>5
<1>7. ASSUME NEW j \in 1..(Len(s) - 1)
      PROVE  \E k \in 1..Len(s) : (a \o b)[j] = s[k]
  <2>1. CASE j <= i - 1
    <3>1. (a \o b)[j] = a[j] /\ j \in 1..(i - 1) /\ j \in 1..Len(s)
      BY <1>1, <1>2, <1>3, <2>1
    <3>2. QED
      BY <1>2, <3>1
  <2>2. CASE ~(j <= i - 1)
    <3>1. j - (i - 1) \in 1..(Len(s) - i) /\ j + 1 \in 1..Len(s)
          /\ i + (j - (i - 1)) = j + 1
      BY <1>1, <2>2
    <3>2. (a \o b)[j] = b[j - (i - 1)]
      BY <1>1, <1>2, <1>3, <2>2
    <3>3. QED
      BY <1>3, <3>1, <3>2
  <2>3. QED
    BY <2>1, <2>2
<1>8. DOMAIN (a \o b) = 1..(Len(s) - 1)
  BY <1>5, <1>6
<1>9. QED
  BY <1>1, <1>4, <1>5, <1>6, <1>7, <1>8

-----------------------------------------------------------------------------
(***************************************************************************)
(* The write-ahead log.  Its inductive invariant: an acknowledged          *)
(* transaction that no torn frame exposes has a frame among the durable    *)
(* ones, with only whole frames up to it; while the process runs, a frame  *)
(* is torn only when a failed write tore it, and the map and the order     *)
(* list the same transactions.                                             *)
(***************************************************************************)
IsDurable(f, n, tx) ==
  \E i \in 1..n : f[i].TxID = tx /\ \A j \in 1..i : f[j].whole

AckedIsDurable == \A tx \in acked \ exposed : IsDurable(file, synced, tx)

WholeUnlessTorn ==
  walOpen /\ ~tornWrite => \A i \in 1..Len(file) : file[i].whole

WALInv ==
  /\ WALTypeOK
  /\ AckedIsDurable
  /\ WholeUnlessTorn
  /\ MapKnowsAcknowledged

(* The frames that a crash may leave begin with the durable ones.          *)
LEMMA RemainsKeepDurable ==
  ASSUME NEW f \in Seq(Frame), NEW n \in 0..Len(f), NEW g \in Remains(f, n)
  PROVE  /\ g \in Seq(Frame)
         /\ n <= Len(g)
         /\ \A i \in 1..n : g[i] = f[i]
         /\ \A i \in 1..Len(g) : \E j \in 1..Len(f) : g[i].TxID = f[j].TxID
<1>1. Len(f) \in Nat /\ n \in Nat /\ n <= Len(f)
  OBVIOUS
<1>2. CASE \E k \in n..Len(f) : g = SubSeq(f, 1, k)
  <2>1. PICK k \in n..Len(f) : g = SubSeq(f, 1, k)
    BY <1>2
  <2>2. k \in Nat /\ k <= Len(f) /\ n <= k
    BY <1>1
  <2>3. g \in Seq(Frame) /\ Len(g) = k /\ \A i \in 1..k : g[i] = f[i]
    BY <2>1, <2>2
  <2>4. QED
    BY <1>1, <2>2, <2>3
<1>3. CASE \E k \in (n + 1)..Len(f) :
             g = SubSeq(f, 1, k - 1) \o <<Torn(f[k].TxID)>>
  <2>1. PICK k \in (n + 1)..Len(f) :
               g = SubSeq(f, 1, k - 1) \o <<Torn(f[k].TxID)>>
    BY <1>3
  <2>2. k \in 1..Len(f) /\ k - 1 \in Nat /\ n <= k - 1
    BY <1>1
  <2>3. f[k].TxID \in TxIDs
    <3>1. f[k] \in Frame
      BY <2>2
    <3>2. QED
      BY <3>1 DEF Frame
  <2>4. Torn(f[k].TxID) \in Frame
    BY <2>3 DEF Torn, Frame
  <2> DEFINE a == SubSeq(f, 1, k - 1)
             b == <<Torn(f[k].TxID)>>
  <2>5. a \in Seq(Frame) /\ Len(a) = k - 1 /\ \A i \in 1..(k - 1) : a[i] = f[i]
    BY <1>1, <2>2
  <2>6. b \in Seq(Frame) /\ Len(b) = 1
    BY <2>4
  <2>7. g = a \o b
    BY <2>1
  <2> HIDE DEF a, b
  <2>8. /\ g \in Seq(Frame)
        /\ Len(g) = (k - 1) + 1
        /\ \A i \in 1..(k - 1) : g[i] = a[i]
        /\ g[k] = b[1]
    <3>1. /\ a \o b \in Seq(Frame)
          /\ Len(a \o b) = Len(a) + Len(b)
          /\ \A i \in 1..(Len(a) + Len(b)) :
               (a \o b)[i] = IF i <= Len(a) THEN a[i] ELSE b[i - Len(a)]
      BY <2>5, <2>6, ConcatProperties
    <3>2. QED
      BY <2>2, <2>5, <2>6, <2>7, <3>1
  <2>9. g[k].TxID = f[k].TxID
    BY <2>8 DEF b, Torn
  <2>10. ASSUME NEW i \in 1..Len(g)
         PROVE  \E j \in 1..Len(f) : g[i].TxID = f[j].TxID
    <3>1. i \in 1..Len(f) /\ (i \in 1..(k - 1) \/ i = k)
      BY <2>2, <2>8
    <3>2. g[i].TxID = f[i].TxID
      BY <2>5, <2>8, <2>9, <3>1
    <3>3. QED
      BY <3>1, <3>2
  <2>11. QED
    BY <1>1, <2>2, <2>5, <2>8, <2>10
<1>4. QED
  BY <1>2, <1>3 DEF Remains

(* The recovery scan keeps whole frames only, and as many as it can.       *)
LEMMA ScanKeepsWhole ==
  ASSUME NEW f \in Seq(Frame)
  PROVE  /\ ValidPrefix(f) \in Seq(Frame)
         /\ Len(ValidPrefix(f)) <= Len(f)
         /\ \A i \in 1..Len(ValidPrefix(f)) :
              ValidPrefix(f)[i] = f[i] /\ f[i].whole
         /\ \A n \in 0..Len(f) :
              (\A i \in 1..n : f[i].whole) => n <= Len(ValidPrefix(f))
<1> DEFINE S == {n \in 0..Len(f) : \A i \in 1..n : f[i].whole}
           m == Max(S)
<1>1. Len(f) \in Nat
  OBVIOUS
<1>2. S \in SUBSET Int /\ S # {}
  <2>1. 0 \in S
    BY <1>1
  <2>2. QED
    BY <2>1
<1>3. IsFiniteSet(S)
  <2>1. IsFiniteSet(0..Len(f)) /\ S \subseteq 0..Len(f)
    BY <1>1, FS_Interval
  <2>2. QED
    BY <2>1, FS_Subset
<1>4. m \in S /\ \A n \in S : n <= m
  <2> HIDE DEF S
  <2>1. QED
    BY <1>2, <1>3, GreatestElement
<1>5. ValidPrefix(f) = SubSeq(f, 1, m)
  BY DEF ValidPrefix
<1> HIDE DEF m
<1>6. m \in 0..Len(f) /\ \A i \in 1..m : f[i].whole
  BY <1>4
<1>7. /\ SubSeq(f, 1, m) \in Seq(Frame)
      /\ Len(SubSeq(f, 1, m)) = m
      /\ \A i \in 1..m : SubSeq(f, 1, m)[i] = f[i]
  BY <1>1, <1>6
<1>8. QED
  BY <1>1, <1>4, <1>5, <1>6, <1>7

(* A durable transaction is among the frames that the scan keeps.          *)
LEMMA DurableIsScanned ==
  ASSUME NEW f \in Seq(Frame), NEW n \in 0..Len(f), NEW tx,
         IsDurable(f, n, tx)
  PROVE  IsDurable(ValidPrefix(f), Len(ValidPrefix(f)), tx)
<1> DEFINE v == ValidPrefix(f)
<1>1. PICK i \in 1..n : f[i].TxID = tx /\ \A j \in 1..i : f[j].whole
  BY DEF IsDurable
<1>2. i \in 0..Len(f) /\ i \in Nat
  OBVIOUS
<1>3. /\ v \in Seq(Frame) /\ i <= Len(v)
      /\ \A j \in 1..Len(v) : v[j] = f[j]
  BY <1>1, <1>2, ScanKeepsWhole
<1> HIDE DEF v
<1>4. i \in 1..Len(v) /\ \A j \in 1..i : v[j] = f[j]
  BY <1>2, <1>3
<1>5. v[i].TxID = tx /\ \A j \in 1..i : v[j].whole
  BY <1>1, <1>4
<1>6. QED
  BY <1>4, <1>5 DEF IsDurable, v

(* Durability depends on the durable frames only.                          *)
LEMMA SameFramesSameDurable ==
  ASSUME NEW f \in Seq(Frame), NEW g \in Seq(Frame), NEW n \in Nat,
         NEW k \in Nat, n <= k, \A i \in 1..n : g[i] = f[i],
         NEW tx, IsDurable(f, n, tx)
  PROVE  IsDurable(g, k, tx)
<1>1. PICK i \in 1..n : f[i].TxID = tx /\ \A j \in 1..i : f[j].whole
  BY DEF IsDurable
<1>2. i \in 1..k /\ \A j \in 1..i : g[j] = f[j]
  OBVIOUS
<1>3. g[i].TxID = tx /\ \A j \in 1..i : g[j].whole
  BY <1>1, <1>2
<1>4. QED
  BY <1>2, <1>3 DEF IsDurable

(* Crash: what remains of the file keeps what was durable.                 *)
LEMMA CrashPreserves ==
  ASSUME WALInv, NEW f \in Seq(Frame), synced <= Len(f),
         \A i \in 1..synced : f[i] = file[i], CrashKeeping(f)
  PROVE  WALInv'
<1>1. /\ file \in Seq(Frame) /\ synced \in 0..Len(file) /\ synced \in Nat
      /\ synced \in 0..Len(f)
  BY DEF WALInv, WALTypeOK
<1>2. /\ file' \in Seq(Frame) /\ synced <= Len(file')
      /\ \A i \in 1..synced : file'[i] = f[i]
  BY <1>1, RemainsKeepDurable DEF CrashKeeping
<1>3. /\ synced' = Len(file') /\ ~walOpen' /\ order' = <<>>
      /\ txMap' = [tx \in TxIDs |-> Absent]
      /\ UNCHANGED <<tornWrite, acked, exposed>>
  BY DEF CrashKeeping
<1>4. WALTypeOK'
  <2>1. synced' \in 0..Len(file')
    BY <1>2, <1>3
  <2>2. txMap' \in [TxIDs -> Statuses \cup {Absent}] /\ order' \in Seq(TxIDs)
    BY <1>3
  <2>3. walOpen' \in BOOLEAN
    BY DEF CrashKeeping
  <2>4. QED
    BY <1>2, <1>3, <2>1, <2>2, <2>3 DEF WALInv, WALTypeOK
<1>5. AckedIsDurable'
  <2>1. SUFFICES ASSUME NEW tx \in acked \ exposed
                 PROVE  IsDurable(file', synced', tx)
    BY <1>3 DEF AckedIsDurable
  <2>2. IsDurable(file, synced, tx)
    BY DEF WALInv, AckedIsDurable
  <2>3. synced' \in Nat /\ synced <= synced'
    BY <1>2, <1>3
  <2>4. \A i \in 1..synced : file'[i] = file[i]
    BY <1>2
  <2>5. QED
    BY <1>1, <1>2, <2>2, <2>3, <2>4, SameFramesSameDurable
<1>6. QED
  BY <1>3, <1>4, <1>5 DEF WALInv, WholeUnlessTorn, MapKnowsAcknowledged

(* NewWALStore, on the file of a closed log or on what a crash left.       *)
LEMMA RecoverPreserves ==
  ASSUME WALInv, NEW f \in Seq(Frame), synced <= Len(f),
         \A i \in 1..synced : f[i] = file[i], RecoverFrom(f)
  PROVE  WALInv'
<1>1. /\ file \in Seq(Frame) /\ synced \in 0..Len(file) /\ synced \in Nat
      /\ synced \in 0..Len(f)
  BY DEF WALInv, WALTypeOK
<1>2. /\ file' = ValidPrefix(f) /\ synced' = Len(file') /\ walOpen'
      /\ order' = [i \in DOMAIN file' |-> file'[i].TxID]
      /\ txMap' = [tx \in TxIDs |->
                     IF \E i \in DOMAIN file' : file'[i].TxID = tx
                     THEN "PENDING" ELSE Absent]
      /\ walOpen' \in BOOLEAN /\ tornWrite' \in BOOLEAN
      /\ UNCHANGED <<acked, exposed>>
  BY DEF RecoverFrom
<1>3. /\ file' \in Seq(Frame) /\ Len(file') \in Nat
      /\ DOMAIN file' = 1..Len(file')
      /\ \A i \in 1..Len(file') : file'[i].whole
  BY <1>2, ScanKeepsWhole
<1>4. \A i \in 1..Len(file') : file'[i].TxID \in TxIDs
  <2>1. \A i \in 1..Len(file') : file'[i] \in Frame
    BY <1>3
  <2>2. QED
    BY <2>1 DEF Frame
<1>5. order' \in Seq(TxIDs) /\ Len(order') = Len(file')
      /\ \A i \in 1..Len(file') : order'[i] = file'[i].TxID
  BY <1>2, <1>3, <1>4
<1>6. WALTypeOK'
  <2>1. synced' \in 0..Len(file')
    BY <1>2, <1>3
  <2>2. txMap' \in [TxIDs -> Statuses \cup {Absent}]
    BY <1>2 DEF Statuses
  <2>3. QED
    BY <1>2, <1>3, <1>5, <2>1, <2>2 DEF WALInv, WALTypeOK
<1>7. ASSUME NEW tx \in acked \ exposed
      PROVE  IsDurable(file', Len(file'), tx)
  <2>1. IsDurable(file, synced, tx)
    BY DEF WALInv, AckedIsDurable
  <2>2. IsDurable(f, synced, tx)
    BY <1>1, <2>1, SameFramesSameDurable
  <2>3. QED
    BY <1>1, <1>2, <2>2, DurableIsScanned
<1>8. AckedIsDurable'
  BY <1>2, <1>7 DEF AckedIsDurable
<1>9. Present' = {tx \in TxIDs : \E i \in 1..Len(file') : file'[i].TxID = tx}
  <2>1. Present' = {tx \in TxIDs : txMap'[tx] /= Absent}
    BY DEF Present
  <2>2. QED
    BY <1>2, <1>3, <2>1 DEF Absent
<1>10. ToSet(order') = Present'
  <2>1. \A x : x \in ToSet(order') <=> \E i \in 1..Len(order') : order'[i] = x
    BY <1>5, MembersOf
  <2>2. \A x : x \in ToSet(order') <=> x \in Present'
    BY <1>4, <1>5, <1>9, <2>1
  <2>3. QED
    BY <2>2
<1>11. acked' \ exposed' \subseteq Present'
  <2>1. SUFFICES ASSUME NEW tx \in acked \ exposed
                 PROVE  tx \in Present'
    BY <1>2
  <2>2. tx \in TxIDs
    BY DEF WALInv, WALTypeOK
  <2>3. QED
    BY <1>7, <1>9, <2>2 DEF IsDurable
<1>12. QED
  BY <1>3, <1>6, <1>8, <1>10, <1>11
     DEF WALInv, WholeUnlessTorn, MapKnowsAcknowledged

(* What an append does to the frames, whichever frame it writes.           *)
LEMMA FrameAppended ==
  ASSUME WALInv, NEW fr \in Frame, file' = Append(file, fr)
  PROVE  /\ file' \in Seq(Frame) /\ Len(file') = Len(file) + 1
         /\ \A i \in 1..Len(file) : file'[i] = file[i]
         /\ file'[Len(file) + 1] = fr
         /\ synced <= Len(file') /\ Len(file') \in Nat /\ Len(file) \in Nat
         /\ synced \in Nat
         /\ \A i \in 1..synced : file'[i] = file[i]
         /\ \A n \in Nat : synced <= n =>
              \A tx \in acked \ exposed : IsDurable(file', n, tx)
<1>1. file \in Seq(Frame) /\ synced \in 0..Len(file) /\ Len(file) \in Nat
  BY DEF WALInv, WALTypeOK
<1>2. /\ file' \in Seq(Frame) /\ Len(file') = Len(file) + 1
      /\ \A i \in 1..Len(file) : file'[i] = file[i]
      /\ file'[Len(file) + 1] = fr
  BY <1>1
<1>3. \A i \in 1..synced : file'[i] = file[i]
  BY <1>1, <1>2
<1>4. ASSUME NEW n \in Nat, synced <= n, NEW tx \in acked \ exposed
      PROVE  IsDurable(file', n, tx)
  <2>1. IsDurable(file, synced, tx)
    BY DEF WALInv, AckedIsDurable
  <2>2. synced \in Nat
    BY <1>1
  <2>3. QED
    BY <1>1, <1>2, <1>3, <1>4, <2>1, <2>2, SameFramesSameDurable
<1>5. QED
  BY <1>1, <1>2, <1>3, <1>4

(* An append that succeeds: the new frame is durable and, unless an        *)
(* earlier write was torn, so are all the frames before it.                *)
LEMMA AppendDurablyPreserves ==
  ASSUME WALInv, walOpen, NEW tx \in TxIDs \ Present, AppendDurably(tx),
         UNCHANGED walOpen
  PROVE  WALInv'
<1>1. Whole(tx) \in Frame /\ Whole(tx).TxID = tx /\ Whole(tx).whole
  BY DEF Whole, Frame
<1>2. /\ file' = Append(file, Whole(tx)) /\ synced' = Len(file')
      /\ txMap' = [txMap EXCEPT ![tx] = "PENDING"]
      /\ order' = Append(order, tx) /\ acked' = acked \cup {tx}
      /\ exposed' = IF tornWrite THEN exposed \cup {tx} ELSE exposed \ {tx}
      /\ UNCHANGED tornWrite
  BY DEF AppendDurably
<1>3. /\ file' \in Seq(Frame) /\ Len(file') = Len(file) + 1
      /\ \A i \in 1..Len(file) : file'[i] = file[i]
      /\ file'[Len(file) + 1] = Whole(tx)
      /\ synced <= Len(file') /\ Len(file') \in Nat /\ Len(file) \in Nat
      /\ synced \in Nat
      /\ \A n \in Nat : synced <= n =>
           \A x \in acked \ exposed : IsDurable(file', n, x)
  BY <1>1, <1>2, FrameAppended
<1>4. /\ order \in Seq(TxIDs) /\ txMap \in [TxIDs -> Statuses \cup {Absent}]
      /\ acked \subseteq TxIDs /\ exposed \subseteq acked
      /\ tornWrite \in BOOLEAN
  BY DEF WALInv, WALTypeOK
<1>5. WALTypeOK'
  <2>1. synced' \in 0..Len(file')
    BY <1>2, <1>3
  <2>2. order' \in Seq(TxIDs)
    BY <1>2, <1>4
  <2>3. txMap' \in [TxIDs -> Statuses \cup {Absent}]
    BY <1>2, <1>4 DEF Statuses
  <2>4. acked' \subseteq TxIDs /\ exposed' \subseteq acked'
    BY <1>2, <1>4
  <2>5. QED
    BY <1>2, <1>3, <1>4, <2>1, <2>2, <2>3, <2>4 DEF WALInv, WALTypeOK
<1>6. tornWrite \/ \A i \in 1..Len(file') : file'[i].whole
  <2>1. SUFFICES ASSUME ~tornWrite, NEW i \in 1..Len(file')
                 PROVE  file'[i].whole
    OBVIOUS
  <2>2. \A j \in 1..Len(file) : file[j].whole
    BY <2>1 DEF WALInv, WholeUnlessTorn
  <2>3. i \in 1..Len(file) \/ i = Len(file) + 1
    BY <1>3
  <2>4. QED
    BY <1>1, <1>3, <2>2, <2>3
<1>7. WholeUnlessTorn'
  BY <1>2, <1>6 DEF WholeUnlessTorn
<1>8. AckedIsDurable'
  <2>1. SUFFICES ASSUME NEW x \in acked' \ exposed'
                 PROVE  IsDurable(file', Len(file'), x)
    BY <1>2 DEF AckedIsDurable
  <2>2. CASE x # tx
    <3>1. x \in acked \ exposed
      BY <1>2, <1>4, <2>2
    <3>2. QED
      BY <1>3, <3>1
  <2>3. CASE x = tx
    <3>1. ~tornWrite
      BY <1>2, <1>4, <2>3
    <3>2. \A i \in 1..Len(file') : file'[i].whole
      BY <1>6, <3>1
    <3>3. Len(file') \in 1..Len(file') /\ file'[Len(file')].TxID = x
      BY <1>1, <1>3, <2>3
    <3>4. QED
      BY <1>3, <3>2, <3>3 DEF IsDurable
  <2>4. QED
    BY <2>2, <2>3
<1>9. Present' = Present \cup {tx}
  <2>1. Present' = {x \in TxIDs : txMap'[x] /= Absent}
    BY DEF Present
  <2>2. QED
    BY <1>2, <1>4, <2>1 DEF Present, Absent
<1>10. MapKnowsAcknowledged'
  <2>1. acked \ exposed \subseteq Present /\ ToSet(order) = Present
    BY DEF WALInv, MapKnowsAcknowledged
  <2>2. ToSet(order') = ToSet(order) \cup {tx}
    BY <1>2, <1>4, MembersOf
  <2>3. acked' \ exposed' \subseteq Present'
    BY <1>2, <1>4, <1>9, <2>1
  <2>4. QED
    BY <1>9, <2>1, <2>2, <2>3 DEF MapKnowsAcknowledged
<1>11. QED
  BY <1>5, <1>7, <1>8, <1>10 DEF WALInv

(* An append that fails writes a torn frame, a whole one or none, and      *)
(* acknowledges nothing.                                                   *)
LEMMA AppendFailsPreserves ==
  ASSUME WALInv, walOpen, NEW tx \in TxIDs,
         AppendTorn(tx) \/ AppendUnsynced(tx), UNCHANGED walOpen
  PROVE  WALInv'
<1>1. UNCHANGED <<synced, txMap, order, acked, exposed>>
  BY DEF AppendTorn, AppendUnsynced
<1>2. \/ UNCHANGED <<file, tornWrite>>
      \/ file' = Append(file, Torn(tx)) /\ tornWrite' = TRUE
      \/ file' = Append(file, Whole(tx)) /\ UNCHANGED tornWrite
  BY DEF AppendTorn, AppendUnsynced
<1>3. /\ Whole(tx) \in Frame /\ Whole(tx).whole
      /\ Torn(tx) \in Frame
  BY DEF Whole, Torn, Frame
<1>4. MapKnowsAcknowledged'
  BY <1>1 DEF WALInv, MapKnowsAcknowledged, Present
<1>5. CASE UNCHANGED <<file, tornWrite>>
  BY <1>1, <1>4, <1>5
     DEF WALInv, WALTypeOK, AckedIsDurable, WholeUnlessTorn
<1>6. ASSUME NEW fr \in Frame, file' = Append(file, fr),
             tornWrite' \in BOOLEAN,
             ~tornWrite' => ~tornWrite /\ fr.whole
      PROVE  WALInv'
  <2>1. /\ file' \in Seq(Frame) /\ Len(file') = Len(file) + 1
        /\ \A i \in 1..Len(file) : file'[i] = file[i]
        /\ file'[Len(file) + 1] = fr
        /\ synced <= Len(file') /\ Len(file') \in Nat /\ Len(file) \in Nat
        /\ synced \in Nat
        /\ \A n \in Nat : synced <= n =>
             \A x \in acked \ exposed : IsDurable(file', n, x)
    BY <1>6, FrameAppended
  <2>2. WALTypeOK'
    <3>1. synced' \in 0..Len(file')
      BY <1>1, <2>1
    <3>2. QED
      BY <1>1, <1>6, <2>1, <3>1 DEF WALInv, WALTypeOK
  <2>3. AckedIsDurable'
    BY <1>1, <2>1 DEF AckedIsDurable
  <2>4. WholeUnlessTorn'
    <3>1. SUFFICES ASSUME ~tornWrite', NEW i \in 1..Len(file')
                   PROVE  file'[i].whole
      BY DEF WholeUnlessTorn
    <3>2. ~tornWrite /\ fr.whole
      BY <1>6, <3>1
    <3>3. \A j \in 1..Len(file) : file[j].whole
      BY <3>2 DEF WALInv, WholeUnlessTorn
    <3>4. i \in 1..Len(file) \/ i = Len(file) + 1
      BY <2>1
    <3>5. QED
      BY <2>1, <3>2, <3>3, <3>4
  <2>5. QED
    BY <1>4, <2>2, <2>3, <2>4 DEF WALInv
<1>7. tornWrite \in BOOLEAN
  BY DEF WALInv, WALTypeOK
<1>8. CASE file' = Append(file, Torn(tx)) /\ tornWrite' = TRUE
  <2>1. tornWrite' \in BOOLEAN /\ tornWrite'
    BY <1>8
  <2>2. file' = Append(file, Torn(tx))
    BY <1>8
  <2>3. Torn(tx) \in Frame
    BY <1>3
  <2>4. QED
    BY <1>6, <2>1, <2>2, <2>3
<1>9. CASE file' = Append(file, Whole(tx)) /\ UNCHANGED tornWrite
  BY <1>3, <1>6, <1>7, <1>9
<1>10. QED
  BY <1>2, <1>5, <1>8, <1>9

(* Append, whatever it returns.                                            *)
LEMMA WALAppendPreserves ==
  ASSUME WALInv, NEW tx \in TxIDs, NEW err, WALAppend(tx, err)
  PROVE  WALInv' /\ walOpen'
<1>1. walOpen /\ UNCHANGED walOpen
  BY DEF WALAppend
<1>2. CASE tx \in Present
  <2>1. UNCHANGED walVars
    BY <1>1, <1>2 DEF WALAppend, walVars
  <2>2. QED
    BY <1>1, <2>1
       DEF WALInv, WALTypeOK, AckedIsDurable, WholeUnlessTorn,
           MapKnowsAcknowledged, Present, walVars
<1>3. CASE tx \notin Present
  <2>1. AppendDurably(tx) \/ AppendTorn(tx) \/ AppendUnsynced(tx)
    BY <1>3 DEF WALAppend
  <2>2. QED
    BY <1>1, <1>3, <2>1, AppendDurablyPreserves, AppendFailsPreserves
<1>4. QED
  BY <1>2, <1>3

(* UpdateStatus changes the status of what the map holds, nothing else.    *)
LEMMA UpdateStatusPreserves ==
  ASSUME WALInv, NEW tx \in TxIDs, NEW status \in Statuses,
         UpdateStatus(tx, status)
  PROVE  WALInv' /\ Present' = Present
<1>1. /\ txMap' = IF tx \in Present THEN [txMap EXCEPT ![tx] = status]
                                   ELSE txMap
      /\ UNCHANGED <<file, synced, order, walOpen, tornWrite, acked, exposed>>
  BY DEF UpdateStatus
<1>2. txMap \in [TxIDs -> Statuses \cup {Absent}]
  BY DEF WALInv, WALTypeOK
<1>3. txMap' \in [TxIDs -> Statuses \cup {Absent}]
  BY <1>1, <1>2
<1>4. Absent \notin Statuses
  BY DEF Absent, Statuses
<1>5. Present' = Present
  <2>1. Present' = {x \in TxIDs : txMap'[x] /= Absent}
    BY DEF Present
  <2>2. QED
    BY <1>1, <1>2, <1>4, <2>1 DEF Present
<1>6. QED
  BY <1>1, <1>3, <1>5
     DEF WALInv, WALTypeOK, AckedIsDurable, WholeUnlessTorn,
         MapKnowsAcknowledged

(* A new log.                                                              *)
LEMMA WALInvInit == WALInit => WALInv
<1>1. SUFFICES ASSUME WALInit PROVE WALInv
  OBVIOUS
<1>2. WALTypeOK
  <2>1. file \in Seq(Frame) /\ synced \in 0..Len(file)
    BY <1>1 DEF WALInit
  <2>2. txMap \in [TxIDs -> Statuses \cup {Absent}] /\ order \in Seq(TxIDs)
    BY <1>1 DEF WALInit
  <2>3. walOpen \in BOOLEAN /\ tornWrite \in BOOLEAN
    BY <1>1 DEF WALInit
  <2>4. acked \subseteq TxIDs /\ exposed \subseteq acked
    BY <1>1 DEF WALInit
  <2>5. QED
    BY <2>1, <2>2, <2>3, <2>4 DEF WALTypeOK
<1>3. AckedIsDurable /\ WholeUnlessTorn
  BY <1>1 DEF WALInit, AckedIsDurable, WholeUnlessTorn
<1>4. ToSet(order) = {} /\ Present = {}
  BY <1>1 DEF WALInit, ToSet, Present
<1>5. QED
  BY <1>1, <1>2, <1>3, <1>4 DEF WALInv, WALInit, MapKnowsAcknowledged

(* Every step of the log keeps its invariant.                              *)
LEMMA WALInvNext == WALInv /\ [WALNext]_walVars => WALInv'
<1>1. SUFFICES ASSUME WALInv, [WALNext]_walVars PROVE WALInv'
  OBVIOUS
<1>2. file \in Seq(Frame) /\ synced \in 0..Len(file) /\ Len(file) \in Nat
  BY <1>1 DEF WALInv, WALTypeOK
<1>3. synced <= Len(file)
  BY <1>2
<1>4. ASSUME NEW tx \in TxIDs, NEW err \in WALErrors, WALAppend(tx, err)
      PROVE  WALInv'
  BY <1>1, <1>4, WALAppendPreserves
<1>5. ASSUME NEW tx \in TxIDs, NEW status \in Statuses,
             UpdateStatus(tx, status)
      PROVE  WALInv'
  BY <1>1, <1>5, UpdateStatusPreserves
<1>6. CASE Crash
  BY <1>1, <1>2, <1>3, <1>6, CrashPreserves DEF Crash
<1>7. ASSUME NEW tx \in TxIDs, CrashDuringAppend(tx)
      PROVE  WALInv'
  <2> DEFINE f == Append(file, Whole(tx))
  <2>1. CrashKeeping(f)
    BY <1>7 DEF CrashDuringAppend
  <2>2. Whole(tx) \in Frame
    BY DEF Whole, Frame
  <2>3. f \in Seq(Frame) /\ synced <= Len(f)
        /\ \A i \in 1..synced : f[i] = file[i]
    BY <1>2, <2>2
  <2> HIDE DEF f
  <2>4. QED
    BY <1>1, <2>1, <2>3, CrashPreserves
<1>8. CASE Recover
  BY <1>1, <1>2, <1>3, <1>8, RecoverPreserves DEF Recover
<1>9. CASE UNCHANGED walVars
  BY <1>1, <1>9 DEF WALInv, WALTypeOK, AckedIsDurable, WholeUnlessTorn,
                    MapKnowsAcknowledged, Present, walVars
<1>10. QED
  BY <1>1, <1>4, <1>5, <1>6, <1>7, <1>8, <1>9 DEF WALNext

(* What is durable survives a crash, now and at every later one.           *)
LEMMA DurableSurvives ==
  ASSUME WALInv
  PROVE  OnlyTornFramesLose
<1>1. SUFFICES ASSUME NEW tx \in acked \ exposed,
                      NEW f \in Remains(file, synced)
               PROVE  \E i \in DOMAIN ValidPrefix(f) : f[i].TxID = tx
  BY DEF OnlyTornFramesLose, SurvivesCrash
<1>2. file \in Seq(Frame) /\ synced \in 0..Len(file) /\ synced \in Nat
  BY DEF WALInv, WALTypeOK
<1>3. IsDurable(file, synced, tx)
  BY DEF WALInv, AckedIsDurable
<1>4. /\ f \in Seq(Frame) /\ synced <= Len(f) /\ Len(f) \in Nat
      /\ \A i \in 1..synced : f[i] = file[i]
  BY <1>2, RemainsKeepDurable
<1>5. IsDurable(f, synced, tx) /\ synced \in 0..Len(f)
  BY <1>2, <1>3, <1>4, SameFramesSameDurable
<1>6. IsDurable(ValidPrefix(f), Len(ValidPrefix(f)), tx)
  BY <1>4, <1>5, DurableIsScanned
<1>7. /\ ValidPrefix(f) \in Seq(Frame)
      /\ DOMAIN ValidPrefix(f) = 1..Len(ValidPrefix(f))
      /\ \A i \in 1..Len(ValidPrefix(f)) : ValidPrefix(f)[i] = f[i]
  BY <1>4, ScanKeepsWhole
<1>8. QED
  BY <1>6, <1>7 DEF IsDurable

(***************************************************************************)
(* Type correctness of the log, whatever system calls fail and whenever    *)
(* the process dies (m5_local_store.go, WALStore).                         *)
(***************************************************************************)
THEOREM WALTypeCorrect == WALSpec => []WALTypeOK
<1>1. WALInv => WALTypeOK
  BY DEF WALInv
<1>2. QED
  BY <1>1, WALInvInit, WALInvNext, PTL DEF WALSpec

(***************************************************************************)
(* Append's acknowledgement is kept over every sequence of crashes and     *)
(* recoveries, unless a failed write tore a frame before it: recover finds *)
(* the transaction whatever the crash leaves of the file.                  *)
(***************************************************************************)
THEOREM AcknowledgedSurvives == WALSpec => []OnlyTornFramesLose
<1>1. WALInv => OnlyTornFramesLose
  BY DurableSurvives
<1>2. QED
  BY <1>1, WALInvInit, WALInvNext, PTL DEF WALSpec

(***************************************************************************)
(* While the process runs, Append refuses what it acknowledged before, in  *)
(* this process or in one that died, and ReadAllPending misses nothing     *)
(* that the map holds.                                                     *)
(***************************************************************************)
THEOREM RetriesAreRefused == WALSpec => []MapKnowsAcknowledged
<1>1. WALInv => MapKnowsAcknowledged
  BY DEF WALInv
<1>2. QED
  BY <1>1, WALInvInit, WALInvNext, PTL DEF WALSpec

-----------------------------------------------------------------------------
(* What the ledger's operations do to the journal and to the balances.     *)

(* An entry credits an integer.                                            *)
LEMMA CreditType ==
  ASSUME NEW e \in LedgerEntry, NEW tx, NEW D
  PROVE  Credit(e, tx, D) \in Int
BY DEF Credit, LedgerEntry

(* An entry that is appended adds its credit.                              *)
LEMMA CreditedAppend ==
  ASSUME NEW s \in Seq(LedgerEntry), NEW e \in LedgerEntry, NEW tx, NEW D
  PROVE  /\ CreditedIn(s, tx, D) \in Int
         /\ CreditedIn(Append(s, e), tx, D) =
              CreditedIn(s, tx, D) + Credit(e, tx, D)
<1> DEFINE t == Append(s, e)
           F == [i \in DOMAIN s |-> Credit(s[i], tx, D)]
           G == [i \in DOMAIN t |-> Credit(t[i], tx, D)]
           n == Len(s)
<1>1. /\ n \in Nat
      /\ DOMAIN s = 1..n
      /\ DOMAIN t = 1..(n + 1)
      /\ \A i \in 1..n : s[i] \in LedgerEntry /\ t[i] = s[i]
      /\ t[n + 1] = e
  OBVIOUS
<1>2. /\ DOMAIN F = 1..n
      /\ DOMAIN G = 1..(n + 1)
      /\ \A i \in 1..n : F[i] \in Int /\ F[i] = G[i]
      /\ G[n + 1] = Credit(e, tx, D)
  BY <1>1, CreditType
<1>3. Credit(e, tx, D) \in Int
  BY CreditType
<1> HIDE DEF F, G, n, t
<1>4. SumFunction(F) \in Int /\ SumFunction(G) = SumFunction(F) + G[n + 1]
  BY <1>1, <1>2, <1>3, SumOneMore
<1>5. QED
  BY <1>2, <1>4 DEF CreditedIn, F, G, t

(* An empty journal credits nobody.                                        *)
LEMMA CreditedNothing ==
  ASSUME NEW tx, NEW D
  PROVE  CreditedIn(<<>>, tx, D) = 0
<1> DEFINE F == [i \in DOMAIN <<>> |-> Credit(<<>>[i], tx, D)]
<1>1. DOMAIN F = {}
  OBVIOUS
<1>2. SumFunctionOnSet(F, {}) = 0
  BY SumEmpty
<1>3. QED
  BY <1>1, <1>2 DEF CreditedIn, SumFunction

(* No account but p ends below zero by this step, or further below.        *)
SparesAllBut(p) ==
  \A a \in Accounts \ {p} :
    \/ balance'[OnlineAvailable(a)] >= 0
    \/ balance'[OnlineAvailable(a)] >= balance[OnlineAvailable(a)]

(* The step appends this entry and no other.                               *)
Journals(e) == e \in LedgerEntry /\ entries' = Append(entries, e)

(* A move out of a bucket that covers it overdraws nobody.                 *)
LEMMA CoveredMoveSpares ==
  ASSUME balance \in [Buckets -> Int], NEW from \in Buckets,
         NEW to \in Buckets, NEW n \in Int, n >= 0, balance[from] >= n,
         Move(from, to, n), NEW p
  PROVE  SparesAllBut(p)
<1>1. SUFFICES ASSUME NEW a \in Accounts
               PROVE  \/ balance'[OnlineAvailable(a)] >= 0
                      \/ balance'[OnlineAvailable(a)] >=
                           balance[OnlineAvailable(a)]
  BY DEF SparesAllBut
<1> DEFINE b == OnlineAvailable(a)
<1>2. b \in Buckets
  BY BucketsOfAccount
<1> HIDE DEF b
<1>3. balance'[b] = balance[b] - (IF b = from THEN n ELSE 0)
                               + (IF b = to THEN n ELSE 0)
  BY <1>2, MoveEffect
<1>4. balance[b] \in Int /\ n \in Int /\ n >= 0
  BY <1>2
<1>5. CASE b = from
  <2>1. balance'[b] >= balance[b] - n /\ balance[b] >= n
    BY <1>3, <1>4, <1>5
  <2>2. balance'[b] \in Int
    BY <1>3, <1>4
  <2>3. QED
    BY <1>4, <2>1, <2>2 DEF b
<1>6. CASE b # from
  <2>1. balance'[b] >= balance[b]
    BY <1>3, <1>4, <1>6
  <2>2. QED
    BY <2>1 DEF b
<1>7. QED
  BY <1>5, <1>6

(* Settle posts the payment in full, from a balance that covers it, or     *)
(* moves nothing.                                                          *)
LEMMA SettleEffect ==
  ASSUME LedgerTypeOK, NEW a \in Accounts, NEW d \in Accounts, NEW n \in Int,
         NEW tx \in TxIDs, NEW bucket \in Buckets, NEW debitAcc \in Labels,
         NEW shortfall \in {"ErrInsufficientFunds", "ErrHoldMismatch"},
         NEW err, Settle(a, bucket, debitAcc, shortfall, d, n, tx, err),
         NEW p
  PROVE  /\ LedgerTypeOK'
         /\ UNCHANGED opening
         /\ SparesAllBut(p)
         /\ err = "nil" => Journals(NewEntry("COMMIT", tx, debitAcc,
                                             Label(d), n))
         /\ err # "nil" => UNCHANGED entries
<1>1. /\ balance \in [Buckets -> Int] /\ entries \in Seq(LedgerEntry)
      /\ exists \subseteq Accounts
  BY DEF LedgerTypeOK
<1>2. UNCHANGED <<reservations, funding, opening>>
  BY DEF Settle
<1>3. exists' \subseteq Accounts
  BY <1>1 DEF Settle
<1>4. CASE err # "nil"
  <2>1. UNCHANGED <<balance, entries>>
    BY <1>4 DEF Settle
  <2>2. SparesAllBut(p)
    <3>1. \A x \in Accounts : balance[OnlineAvailable(x)] \in Int
      BY <1>1, BucketsOfAccount
    <3>2. QED
      BY <2>1, <3>1 DEF SparesAllBut
  <2>3. QED
    BY <1>2, <1>3, <1>4, <2>1, <2>2 DEF LedgerTypeOK
<1>5. CASE err = "nil"
  <2>1. balance[bucket] >= n /\ n >= 0
    <3>1. err = DebitError(a, bucket, n, shortfall)
      BY DEF Settle
    <3>2. balance[bucket] >= n /\ n > 0
      BY <1>1, <1>5, <3>1, DebitErrorMeaning
    <3>3. QED
      BY <3>2
  <2>2. /\ Move(bucket, OnlineAvailable(d), n)
        /\ appendEntry("COMMIT", tx, debitAcc, Label(d), n)
    BY <1>5 DEF Settle
  <2>3. OnlineAvailable(d) \in Buckets /\ Label(d) \in Labels
    BY BucketsOfAccount, LabelsOfAccount
  <2>4. balance' \in [Buckets -> Int]
    BY <1>1, <2>2, <2>3, MoveEffect
  <2>5. SparesAllBut(p)
    BY <1>1, <2>1, <2>2, <2>3, CoveredMoveSpares
  <2>6. NewEntry("COMMIT", tx, debitAcc, Label(d), n) \in LedgerEntry
    BY <2>3 DEF NewEntry, LedgerEntry, EntryTypes
  <2>7. Journals(NewEntry("COMMIT", tx, debitAcc, Label(d), n))
    BY <2>2, <2>6 DEF appendEntry, Journals
  <2>8. entries' \in Seq(LedgerEntry)
    BY <1>1, <2>7 DEF Journals
  <2>9. QED
    BY <1>2, <1>3, <1>5, <2>4, <2>5, <2>7, <2>8 DEF LedgerTypeOK
<1>6. QED
  BY <1>4, <1>5

(* A deficit is posted in full; if it is none below zero, only its payer    *)
(* pays.                                                                   *)
LEMMA PostDeficitEffect ==
  ASSUME LedgerTypeOK, NEW a \in Accounts, NEW d \in Accounts, NEW n \in Int,
         NEW tx \in TxIDs, PostDeficit(a, d, n, tx)
  PROVE  /\ LedgerTypeOK'
         /\ UNCHANGED opening
         /\ n >= 0 => SparesAllBut(a)
         /\ Journals(NewEntry("DEFICIT", tx, Label(a), Label(d), n))
<1>1. /\ balance \in [Buckets -> Int] /\ entries \in Seq(LedgerEntry)
      /\ exists \subseteq Accounts
  BY DEF LedgerTypeOK
<1>2. /\ UNCHANGED <<reservations, funding, opening>>
      /\ exists' = exists \cup {a, d}
      /\ Move(OnlineAvailable(a), OnlineAvailable(d), n)
      /\ appendEntry("DEFICIT", tx, Label(a), Label(d), n)
  BY DEF PostDeficit
<1>3. /\ OnlineAvailable(a) \in Buckets /\ OnlineAvailable(d) \in Buckets
      /\ Label(a) \in Labels /\ Label(d) \in Labels
  BY BucketsOfAccount, LabelsOfAccount
<1>4. /\ balance' \in [Buckets -> Int]
      /\ \A b \in Buckets :
           balance'[b] = balance[b]
                           - (IF b = OnlineAvailable(a) THEN n ELSE 0)
                           + (IF b = OnlineAvailable(d) THEN n ELSE 0)
  BY <1>1, <1>2, <1>3, MoveEffect
<1>5. n >= 0 => SparesAllBut(a)
  <2>1. SUFFICES ASSUME n >= 0, NEW x \in Accounts \ {a}
                 PROVE  balance'[OnlineAvailable(x)] >=
                          balance[OnlineAvailable(x)]
    BY DEF SparesAllBut
  <2>2. /\ OnlineAvailable(x) \in Buckets
        /\ OnlineAvailable(x) # OnlineAvailable(a)
    BY BucketsOfAccount
  <2>3. balance[OnlineAvailable(x)] \in Int
    BY <1>1, <2>2
  <2>4. QED
    BY <1>4, <2>1, <2>2, <2>3
<1>6. NewEntry("DEFICIT", tx, Label(a), Label(d), n) \in LedgerEntry
  BY <1>3 DEF NewEntry, LedgerEntry, EntryTypes
<1>7. Journals(NewEntry("DEFICIT", tx, Label(a), Label(d), n))
  BY <1>2, <1>6 DEF appendEntry, Journals
<1>8. entries' \in Seq(LedgerEntry)
  BY <1>1, <1>7 DEF Journals
<1>9. QED
  BY <1>1, <1>2, <1>4, <1>5, <1>7, <1>8 DEF LedgerTypeOK

(* A hold or an allowance is taken from a balance that covers it.          *)
LEMMA SetAsideEffect ==
  ASSUME LedgerTypeOK, NEW a \in Accounts, NEW n \in Int,
         NEW tx \in TxIDs \cup {GeneratedTxID}, NEW err, NEW p,
         ReserveFunds(a, n, tx, err) \/ AllocateOfflineAllowance(a, n, err)
  PROVE  /\ LedgerTypeOK'
         /\ UNCHANGED opening
         /\ SparesAllBut(p)
         /\ \/ UNCHANGED entries
            \/ \E e \in LedgerEntry : Journals(e) /\ e.Type = "RESERVE"
<1>1. /\ balance \in [Buckets -> Int] /\ entries \in Seq(LedgerEntry)
      /\ reservations \in Seq(Reservation)
  BY DEF LedgerTypeOK
<1>2. UNCHANGED <<exists, funding, opening>>
  BY DEF ReserveFunds, AllocateOfflineAllowance
<1>3. err = DebitError(a, OnlineAvailable(a), n, "ErrInsufficientFunds")
  BY DEF ReserveFunds, AllocateOfflineAllowance
<1>4. /\ OnlineAvailable(a) \in Buckets /\ OfflineAllowance(a) \in Buckets
      /\ ReservedBalance(a) \in Buckets
      /\ Label(a) \in Labels /\ OnlineLabel(a) \in Labels
      /\ OfflineLabel(a) \in Labels /\ Label(SystemEscrow) \in Labels
  BY BucketsOfAccount, LabelsOfAccount, SystemAccountsAssumption
     DEF SystemAccounts
<1>5. CASE err # "nil"
  <2>1. UNCHANGED <<balance, reservations, entries>>
    BY <1>5 DEF ReserveFunds, AllocateOfflineAllowance
  <2>2. SparesAllBut(p)
    <3>1. \A x \in Accounts : balance[OnlineAvailable(x)] \in Int
      BY <1>1, BucketsOfAccount
    <3>2. QED
      BY <2>1, <3>1 DEF SparesAllBut
  <2>3. QED
    BY <1>2, <2>1, <2>2 DEF LedgerTypeOK
<1>6. CASE err = "nil"
  <2>1. balance[OnlineAvailable(a)] >= n /\ n \in Nat
    <3>1. balance[OnlineAvailable(a)] >= n /\ n > 0
      BY <1>1, <1>3, <1>4, <1>6, DebitErrorMeaning
    <3>2. QED
      BY <3>1
  <2>2. /\ \E to \in Buckets : Move(OnlineAvailable(a), to, n)
        /\ \/ UNCHANGED reservations
           \/ reservations' =
                Append(reservations, [AccountID |-> a, Amount |-> n])
        /\ \/ appendEntry("RESERVE", tx, Label(a), Label(SystemEscrow), n)
           \/ appendEntry("RESERVE", GeneratedTxID, OnlineLabel(a),
                          OfflineLabel(a), n)
    BY <1>4, <1>6 DEF ReserveFunds, AllocateOfflineAllowance
  <2>3. PICK to \in Buckets : Move(OnlineAvailable(a), to, n)
    BY <2>2
  <2>4. balance' \in [Buckets -> Int] /\ SparesAllBut(p)
    BY <1>1, <1>4, <2>1, <2>3, MoveEffect, CoveredMoveSpares
  <2>5. reservations' \in Seq(Reservation)
    <3>1. [AccountID |-> a, Amount |-> n] \in Reservation
      BY <2>1 DEF Reservation
    <3>2. Append(reservations, [AccountID |-> a, Amount |-> n])
            \in Seq(Reservation)
      BY <1>1, <3>1
    <3>3. QED
      BY <1>1, <2>2, <3>2
  <2>6. \E e \in LedgerEntry : Journals(e) /\ e.Type = "RESERVE"
    <3>1. /\ NewEntry("RESERVE", tx, Label(a), Label(SystemEscrow), n)
               \in LedgerEntry
          /\ NewEntry("RESERVE", GeneratedTxID, OnlineLabel(a),
                      OfflineLabel(a), n) \in LedgerEntry
      BY <1>4 DEF NewEntry, LedgerEntry, EntryTypes
    <3>2. \A x, l, k : NewEntry("RESERVE", x, l, k, n).Type = "RESERVE"
      BY DEF NewEntry
    <3>3. QED
      BY <2>2, <3>1, <3>2 DEF appendEntry, Journals
  <2>7. entries' \in Seq(LedgerEntry)
    BY <1>1, <2>6 DEF Journals
  <2>8. QED
    BY <1>2, <2>4, <2>5, <2>6, <2>7 DEF LedgerTypeOK
<1>7. QED
  BY <1>5, <1>6

-----------------------------------------------------------------------------
(***************************************************************************)
(* The replay.  The first part of its inductive invariant is about where   *)
(* the replay is: what it has seen and what it has yet to visit is in the  *)
(* log's map, and the transaction it is at has been seen.                  *)
(***************************************************************************)
ReplayWell ==
  /\ ReconTypeOK
  /\ WALInv
  /\ walOpen
  /\ current = NoTx <=> replayPc \in {"idle", "loop"}
  /\ replayPc = "legacy" => ~useDeficitReserve
  /\ \A i \in 1..Len(file) : file[i].TxID \in QueuedTxIDs
  /\ seenHashes \subseteq Present
  /\ Present \subseteq QueuedTxIDs
  /\ \A i \in DOMAIN batch : batch[i] \in Present
  /\ current /= NoTx => current \in seenHashes
  /\ \A i \in DOMAIN deficitLogs : deficitLogs[i].TxID \in seenHashes

(***************************************************************************)
(* The second part is about the money of one transaction: nothing is       *)
(* posted before the loop takes it, at most the customer's part until the  *)
(* reserve's turn, and what the status and the deficit record say when the *)
(* loop is through with it.                                                *)
(***************************************************************************)
Unpaid(tx) == \A D \in SUBSET Labels : Credited(tx, D) = 0

PartPaid(tx) ==
  \E c \in {0, CustomerCovered} :
    \A D \in SUBSET Labels :
      Credited(tx, D) = IF Label(Payment[tx].AccountID) \in D THEN c ELSE 0

PaidInFull(tx) ==
  LET a == Payment[tx].AccountID
  IN  Credited(tx, {Label(a), OfflineLabel(a)}) = Payment[tx].Amount

DeficitPosted(d) ==
  LET p == Payment[d.TxID]
      paid == Credited(d.TxID, {Label(p.AccountID)})
  IN  IF d.Reason = "reserve"
      THEN /\ Credited(d.TxID, {Label(DeficitReserve)}) = d.DeficitAmount
           /\ paid \in {0, p.Amount - d.DeficitAmount}
      ELSE paid = p.Amount

(* The reserve does not pay offline itself.                                *)
NotTheReserve(tx) == Payment[tx].AccountID /= DeficitReserve

MoneyOf(tx) ==
  /\ tx \notin seenHashes => Unpaid(tx)
  /\ tx = current /\ replayPc /= "reserve" => Unpaid(tx)
  /\ tx = current /\ replayPc = "reserve" => PartPaid(tx)
  /\ PartOf(Credited(tx, Labels), Payment[tx].Amount)
  /\ txMap[tx] = "RECONCILED" => PaidInFull(tx)
  /\ \A i \in DOMAIN deficitLogs :
       deficitLogs[i].TxID = tx =>
         /\ Replayed(tx)
         /\ NotTheReserve(tx) => DeficitPosted(deficitLogs[i])

(* The system around the replay decides for which transactions Q the       *)
(* second part holds: it may pay for the others itself.                    *)
ReplayInv(Q) ==
  /\ ReplayWell
  /\ NoneForgotten
  /\ Q \subseteq QueuedTxIDs
  /\ \A tx \in Q : MoneyOf(tx)

ReconInv == ReplayInv(QueuedTxIDs)

-----------------------------------------------------------------------------
(* The journal credits tx no more and no less than before.                 *)
SameCredit(tx) ==
  \A D \in SUBSET Labels : CreditedIn(entries', tx, D) = Credited(tx, D)

(* Entries for other transactions, and holds, leave a credit as it is.     *)
LEMMA OtherEntry ==
  ASSUME entries \in Seq(LedgerEntry), NEW tx,
         \/ UNCHANGED entries
         \/ \E e \in LedgerEntry :
              Journals(e) /\ (e.TxID /= tx \/ e.Type = "RESERVE")
  PROVE  SameCredit(tx)
<1>1. CASE UNCHANGED entries
  BY <1>1 DEF SameCredit, Credited
<1>2. ASSUME NEW e \in LedgerEntry, Journals(e),
             e.TxID /= tx \/ e.Type = "RESERVE"
      PROVE  SameCredit(tx)
  <2>1. SUFFICES ASSUME NEW D \in SUBSET Labels
                 PROVE  CreditedIn(entries', tx, D) = Credited(tx, D)
    BY DEF SameCredit
  <2>2. Credit(e, tx, D) = 0
    BY <1>2 DEF Credit
  <2>3. /\ CreditedIn(entries, tx, D) \in Int
        /\ CreditedIn(Append(entries, e), tx, D) =
             CreditedIn(entries, tx, D) + Credit(e, tx, D)
    BY CreditedAppend
  <2>4. entries' = Append(entries, e)
    BY <1>2 DEF Journals
  <2>5. QED
    BY <2>2, <2>3, <2>4 DEF Credited
<1>3. QED
  BY <1>1, <1>2

(* Types of a transaction's payment.                                       *)
LEMMA PaymentTypes ==
  ASSUME NEW tx \in QueuedTxIDs
  PROVE  /\ tx \in TxIDs /\ tx /= NoTx
         /\ Payment[tx].AccountID \in Accounts
         /\ Payment[tx].MerchantID \in Accounts
         /\ Payment[tx].AccountID /= Payment[tx].MerchantID
         /\ Payment[tx].MerchantID /= DeficitReserve
         /\ Payment[tx].Amount \in Int
         /\ Label(Payment[tx].AccountID) \in Labels
         /\ OfflineLabel(Payment[tx].AccountID) \in Labels
         /\ Label(DeficitReserve) \in Labels
         /\ DeficitReserve \in Accounts
<1>1. tx \in TxIDs /\ tx /= NoTx
  BY QueuedTxIDsAssumption, NoTxAssumption
<1>2. DeficitReserve \in Accounts
  BY SystemAccountsAssumption DEF SystemAccounts
<1>3. QED
  BY <1>1, <1>2, PaymentAssumption, LabelsOfAccount

(* A transaction that the step does not concern.                           *)
LEMMA MoneyKept ==
  ASSUME NEW tx \in QueuedTxIDs, MoneyOf(tx), SameCredit(tx),
         tx \in seenHashes' <=> tx \in seenHashes,
         tx = current' <=> tx = current,
         tx = current => UNCHANGED <<replayPc, current, accSnapshot>>,
         txMap'[tx] = "RECONCILED" => txMap[tx] = "RECONCILED",
         \A i \in DOMAIN deficitLogs' :
           deficitLogs'[i].TxID = tx =>
             i \in DOMAIN deficitLogs /\ deficitLogs'[i] = deficitLogs[i]
  PROVE  MoneyOf(tx)'
<1>1. \A D \in SUBSET Labels : Credited(tx, D)' = Credited(tx, D)
  BY DEF SameCredit, Credited
<1>2. /\ Label(Payment[tx].AccountID) \in Labels
      /\ OfflineLabel(Payment[tx].AccountID) \in Labels
      /\ Label(DeficitReserve) \in Labels
  BY PaymentTypes
<1>3. Unpaid(tx)' <=> Unpaid(tx)
  BY <1>1 DEF Unpaid
<1>4. tx = current => (PartPaid(tx)' <=> PartPaid(tx))
  BY <1>1 DEF PartPaid, CustomerCovered
<1>5. PaidInFull(tx)' <=> PaidInFull(tx)
  BY <1>1, <1>2 DEF PaidInFull
<1>6. ASSUME NEW i \in DOMAIN deficitLogs', deficitLogs'[i].TxID = tx
      PROVE  /\ Replayed(tx)'
             /\ NotTheReserve(tx) => DeficitPosted(deficitLogs[i])'
  <2>1. i \in DOMAIN deficitLogs /\ deficitLogs'[i] = deficitLogs[i]
    BY <1>6
  <2>2. /\ Replayed(tx)
        /\ NotTheReserve(tx) => DeficitPosted(deficitLogs[i])
    BY <1>6, <2>1 DEF MoneyOf
  <2>3. Replayed(tx)'
    BY <2>2 DEF Replayed
  <2>4. DeficitPosted(deficitLogs[i])' <=> DeficitPosted(deficitLogs[i])
    BY <1>1, <1>2, <1>6, <2>1 DEF DeficitPosted
  <2>5. QED
    BY <2>2, <2>3, <2>4
<1>7. PartOf(Credited(tx, Labels)', Payment[tx].Amount)
  BY <1>1 DEF MoneyOf
<1>8. QED
  BY <1>3, <1>4, <1>5, <1>6, <1>7 DEF MoneyOf, NotTheReserve

(* ReadAllPending returns transactions of the map.                         *)
LEMMA PendingIsPresent ==
  ASSUME ReplayWell
  PROVE  /\ ReadAllPending \in Seq(QueuedTxIDs)
         /\ \A k \in DOMAIN ReadAllPending : ReadAllPending[k] \in Present
<1> DEFINE P == {i \in DOMAIN order : txMap[order[i]] = "PENDING"}
           Nth(k) == CHOOSE i \in P : Cardinality({j \in P : j <= i}) = k
           n == Cardinality(P)
<1>1. /\ order \in Seq(TxIDs) /\ DOMAIN order = 1..Len(order)
      /\ Len(order) \in Nat
  BY DEF ReplayWell, WALInv, WALTypeOK
<1>2. IsFiniteSet(P) /\ P \in SUBSET Nat
  <2>1. IsFiniteSet(1..Len(order)) /\ P \subseteq 1..Len(order)
    BY <1>1, FS_Interval
  <2>2. QED
    BY <1>1, <2>1, FS_Subset
<1>3. n \in Nat
  BY <1>2, FS_CardinalityType
<1>4. \A i \in P : order[i] \in Present
  <2>1. ToSet(order) = Present
    BY DEF ReplayWell, WALInv, MapKnowsAcknowledged
  <2>2. QED
    BY <1>1, <2>1, MembersOf
<1>5. ReadAllPending = [k \in 1..n |-> order[Nth(k)]]
  BY DEF ReadAllPending
<1>6. ASSUME NEW k \in 1..n PROVE Nth(k) \in P
  <2> HIDE DEF P
  <2>1. \E i \in P : Cardinality({j \in P : j <= i}) = k
    BY <1>2, NthPosition
  <2>2. QED
    BY <2>1
<1> HIDE DEF P, Nth, n
<1>7. \A k \in 1..n : order[Nth(k)] \in Present
  BY <1>4, <1>6
<1>8. \A k \in 1..n : order[Nth(k)] \in QueuedTxIDs
  BY <1>7 DEF ReplayWell
<1>9. QED
  BY <1>3, <1>5, <1>7, <1>8

(* One more transaction counted.                                           *)
LEMMA CountedOnce ==
  ASSUME NEW r \in [{"TotalProcessed", "SuccessfulCount", "DeficitCount",
                     "DuplicateCount"} -> Nat],
         NEW count \in {"SuccessfulCount", "DeficitCount", "DuplicateCount"},
         NEW q, q = [r EXCEPT ![count] = @ + 1]
  PROVE  /\ q \in [{"TotalProcessed", "SuccessfulCount", "DeficitCount",
                    "DuplicateCount"} -> Nat]
         /\ q.TotalProcessed = r.TotalProcessed
         /\ q.SuccessfulCount + q.DeficitCount + q.DuplicateCount =
              (r.SuccessfulCount + r.DeficitCount + r.DuplicateCount) + 1
  OBVIOUS

(* The end of an iteration: the transaction has a final status, the others *)
(* keep theirs, and the report counts it.                                  *)
LEMMA FinishEffect ==
  ASSUME ReplayWell, NEW tx \in Present,
         NEW count \in {"SuccessfulCount", "DeficitCount", "DuplicateCount"},
         NEW status \in Statuses \ {"PENDING"},
         Finish(tx, count, status)
  PROVE  /\ WALInv' /\ Present' = Present /\ walOpen' /\ file' = file
         /\ txMap'[tx] = status
         /\ \A x \in TxIDs \ {tx} : txMap'[x] = txMap[x]
         /\ replayPc' = "loop" /\ current' = NoTx
         /\ accSnapshot' = NoSnapshot
         /\ report' = [report EXCEPT ![count] = @ + 1]
<1>1. tx \in TxIDs /\ WALInv /\ walOpen
  BY DEF Present, ReplayWell
<1>2. UpdateStatus(tx, status)
  BY DEF Finish
<1>3. WALInv' /\ Present' = Present
  BY <1>1, <1>2, UpdateStatusPreserves
<1>4. txMap' = [txMap EXCEPT ![tx] = status] /\ UNCHANGED <<file, walOpen>>
  BY <1>2 DEF UpdateStatus
<1>5. txMap \in [TxIDs -> Statuses \cup {Absent}]
  BY <1>1 DEF WALInv, WALTypeOK
<1>6. QED
  BY <1>1, <1>3, <1>4, <1>5 DEF Finish

(* The end of an iteration keeps the replay and its report in order: of a  *)
(* duplicate, which the loop skips, or of the transaction it is at.        *)
LEMMA FinishKeeps ==
  ASSUME ReplayWell, NoneForgotten, NEW tx \in seenHashes,
         NEW count \in {"SuccessfulCount", "DeficitCount", "DuplicateCount"},
         NEW status \in Statuses \ {"PENDING"},
         Finish(tx, count, status), LedgerTypeOK',
         UNCHANGED <<useDeficitReserve, seenHashes>>,
         deficitLogs' \in Seq(DeficitRecord),
         \A i \in DOMAIN deficitLogs' : deficitLogs'[i].TxID \in seenHashes,
         \/ current = tx /\ UNCHANGED batch
         \/ current = NoTx /\ \E i \in DOMAIN batch :
                                batch' = RemoveAt(batch, i)
  PROVE  ReplayWell' /\ NoneForgotten'
<1>1. /\ tx \in Present /\ tx \in QueuedTxIDs /\ tx \in TxIDs /\ tx /= NoTx
      /\ batch \in Seq(QueuedTxIDs)
      /\ Len(batch) \in Nat
  BY PaymentTypes DEF ReplayWell, ReconTypeOK
<1>2. /\ WALInv' /\ Present' = Present /\ walOpen' /\ file' = file
      /\ txMap'[tx] = status
      /\ \A x \in TxIDs \ {tx} : txMap'[x] = txMap[x]
      /\ replayPc' = "loop" /\ current' = NoTx
      /\ accSnapshot' = NoSnapshot
      /\ report' = [report EXCEPT ![count] = @ + 1]
  BY <1>1, FinishEffect
<1>3. /\ report \in [{"TotalProcessed", "SuccessfulCount", "DeficitCount",
                      "DuplicateCount"} -> Nat]
      /\ report' \in [{"TotalProcessed", "SuccessfulCount", "DeficitCount",
                       "DuplicateCount"} -> Nat]
      /\ report'.TotalProcessed = report.TotalProcessed
      /\ report'.SuccessfulCount + report'.DeficitCount
           + report'.DuplicateCount
           = (report.SuccessfulCount + report.DeficitCount
                + report.DuplicateCount) + 1
  <2>1. report \in [{"TotalProcessed", "SuccessfulCount", "DeficitCount",
                     "DuplicateCount"} -> Nat]
    BY DEF ReplayWell, ReconTypeOK
  <2>2. QED
    BY <1>2, <2>1, CountedOnce
<1>4. /\ batch' \in Seq(QueuedTxIDs) /\ Len(batch') \in Nat
      /\ \A i \in DOMAIN batch' : batch'[i] \in Present
      /\ Len(batch') = Len(batch) - (IF current = NoTx THEN 1 ELSE 0)
  <2>1. \A i \in DOMAIN batch : batch[i] \in Present
    BY DEF ReplayWell
  <2>2. CASE current = tx /\ UNCHANGED batch
    BY <1>1, <2>1, <2>2
  <2>3. ASSUME current = NoTx, NEW i \in DOMAIN batch,
               batch' = RemoveAt(batch, i)
        PROVE  /\ batch' \in Seq(QueuedTxIDs) /\ Len(batch') \in Nat
               /\ \A j \in DOMAIN batch' : batch'[j] \in Present
               /\ Len(batch') = Len(batch) - (IF current = NoTx THEN 1 ELSE 0)
    <3>1. /\ batch' \in Seq(QueuedTxIDs)
          /\ Len(batch') = Len(batch) - 1
          /\ \A j \in DOMAIN batch' : \E k \in DOMAIN batch :
               batch'[j] = batch[k]
      BY <1>1, <2>3, RemoveOne
    <3>2. QED
      BY <2>1, <2>3, <3>1
  <2>4. QED
    BY <2>2, <2>3
<1>5. accSnapshot' \in [OnlineAvailable : Int, OfflineAllowance : Int]
  BY <1>2 DEF NoSnapshot
<1>6. ReconTypeOK'
  <2>1. WALTypeOK'
    BY <1>2 DEF WALInv
  <2>2. current' \in QueuedTxIDs \cup {NoTx} /\ replayPc' \in ReplaySteps
    BY <1>2 DEF ReplaySteps
  <2>3. QED
    BY <1>3, <1>4, <1>5, <2>1, <2>2 DEF ReplayWell, ReconTypeOK
<1>7. ReplayWell'
  BY <1>2, <1>4, <1>6 DEF ReplayWell
<1>8. \A x \in Present' : Replayed(x)' <=> txMap'[x] /= "PENDING"
  <2>1. SUFFICES ASSUME NEW x \in Present
                 PROVE  Replayed(x)' <=> txMap'[x] /= "PENDING"
    BY <1>2
  <2>2. x \in TxIDs /\ x /= NoTx /\ current \in {tx, NoTx}
    BY NoTxAssumption DEF Present
  <2>3. Replayed(x) <=> txMap[x] /= "PENDING"
    BY DEF NoneForgotten
  <2>4. CASE x = tx
    BY <1>1, <1>2, <2>4 DEF Replayed
  <2>5. CASE x /= tx
    BY <1>2, <2>2, <2>3, <2>5 DEF Replayed
  <2>6. QED
    BY <2>4, <2>5
<1>9. report'.TotalProcessed =
        report'.SuccessfulCount + report'.DeficitCount
          + report'.DuplicateCount + Len(batch')
          + (IF current' = NoTx THEN 0 ELSE 1)
  <2>1. report.TotalProcessed =
          report.SuccessfulCount + report.DeficitCount
            + report.DuplicateCount + Len(batch)
            + (IF current = NoTx THEN 0 ELSE 1)
    BY DEF NoneForgotten
  <2>2. /\ report.SuccessfulCount \in Nat /\ report.DeficitCount \in Nat
        /\ report.DuplicateCount \in Nat /\ report'.SuccessfulCount \in Nat
        /\ report'.DeficitCount \in Nat /\ report'.DuplicateCount \in Nat
    BY <1>3
  <2>3. QED
    BY <1>1, <1>2, <1>3, <1>4, <2>1, <2>2
<1>10. QED
  BY <1>7, <1>8, <1>9 DEF NoneForgotten

(* A step of the ledger that the replay has no part in.                    *)
LEMMA LedgerStepKeeps ==
  ASSUME NEW Q, ReplayInv(Q), LedgerTypeOK', UNCHANGED <<walVars, replayVars>>,
         \A tx \in Q : SameCredit(tx)
  PROVE  ReplayInv(Q)'
<1>1. /\ UNCHANGED <<file, synced, txMap, order, walOpen, tornWrite, acked,
                     exposed>>
      /\ UNCHANGED <<useDeficitReserve, seenHashes, deficitLogs, replayPc,
                     batch, current, accSnapshot, report>>
  BY DEF walVars, replayVars
<1>2. WALInv' /\ Present' = Present
  BY <1>1 DEF ReplayInv, ReplayWell, WALInv, WALTypeOK, AckedIsDurable,
              WholeUnlessTorn, MapKnowsAcknowledged, Present
<1>3. ReplayWell'
  BY <1>1, <1>2 DEF ReplayInv, ReplayWell, ReconTypeOK, WALInv
<1>4. NoneForgotten'
  BY <1>1, <1>2 DEF ReplayInv, NoneForgotten, Replayed
<1>5. ASSUME NEW tx \in Q PROVE MoneyOf(tx)'
  <2>1. tx \in QueuedTxIDs /\ MoneyOf(tx) /\ SameCredit(tx)
    BY DEF ReplayInv
  <2>2. QED
    BY <1>1, <2>1, MoneyKept
<1>6. QED
  BY <1>2, <1>3, <1>4, <1>5 DEF ReplayInv

(* Sparing everybody but the reserve spares the customers.                 *)
LEMMA SparedCustomers ==
  ASSUME LedgerTypeOK, LedgerTypeOK',
         UNCHANGED balance \/ SparesAllBut(DeficitReserve)
  PROVE  SparesCustomers
<1>1. SUFFICES ASSUME NEW a \in Accounts \ {DeficitReserve}
               PROVE  balance'[OnlineAvailable(a)] >=
                        Min({0, balance[OnlineAvailable(a)]})
  BY DEF SparesCustomers
<1>2. OnlineAvailable(a) \in Buckets
  BY BucketsOfAccount
<1>3. /\ balance[OnlineAvailable(a)] \in Int
      /\ balance'[OnlineAvailable(a)] \in Int
  BY <1>2 DEF LedgerTypeOK
<1>4. Min({0, balance[OnlineAvailable(a)]}) =
        IF 0 <= balance[OnlineAvailable(a)]
        THEN 0 ELSE balance[OnlineAvailable(a)]
  BY <1>3, OfTwo
<1>5. \/ balance'[OnlineAvailable(a)] >= 0
      \/ balance'[OnlineAvailable(a)] >= balance[OnlineAvailable(a)]
  BY <1>3 DEF SparesAllBut
<1>6. QED
  BY <1>3, <1>4, <1>5

(* The ledger and its balances, left alone.                                *)
LEMMA LedgerLeftAlone ==
  ASSUME LedgerTypeOK, UNCHANGED ledgerVars
  PROVE  LedgerTypeOK' /\ SparesCustomers /\ \A tx : SameCredit(tx)
<1>1. LedgerTypeOK' /\ UNCHANGED balance /\ UNCHANGED entries
  BY DEF ledgerVars, LedgerTypeOK
<1>2. QED
  BY <1>1, SparedCustomers DEF SameCredit, Credited

(* The log, left alone.                                                    *)
LEMMA LogLeftAlone ==
  ASSUME WALInv, UNCHANGED walVars
  PROVE  /\ WALInv' /\ Present' = Present
         /\ UNCHANGED <<file, txMap, walOpen, order>>
BY DEF WALInv, WALTypeOK, AckedIsDurable, WholeUnlessTorn,
       MapKnowsAcknowledged, Present, walVars

-----------------------------------------------------------------------------
(* One lemma per operation.                                                *)

(* Online payments and allocations.                                        *)
LEMMA OnlinePreserves ==
  ASSUME ReconInv,
         \/ \E tx \in OnlineTxIDs, err \in LedgerErrors :
              ReserveOnline(tx, err) \/ CommitOnline(tx, err)
         \/ \E a \in Parties, n \in Amounts, err \in LedgerErrors :
              AllocateOnline(a, n, err)
  PROVE  ReconInv' /\ SparesCustomers
<1>1. LedgerTypeOK /\ entries \in Seq(LedgerEntry)
  BY DEF ReconInv, ReplayInv, ReplayWell, ReconTypeOK, LedgerTypeOK
<1>2. ASSUME UNCHANGED <<walVars, replayVars>>, LedgerTypeOK',
             SparesAllBut(DeficitReserve),
             \/ UNCHANGED entries
             \/ \E e \in LedgerEntry :
                  /\ Journals(e)
                  /\ e.TxID \notin QueuedTxIDs \/ e.Type = "RESERVE"
      PROVE  ReconInv' /\ SparesCustomers
  <2>1. \A tx \in QueuedTxIDs : SameCredit(tx)
    BY <1>1, <1>2, OtherEntry
  <2>2. QED
    BY <1>1, <1>2, <2>1, LedgerStepKeeps, SparedCustomers DEF ReconInv
<1>3. \A tx \in OnlineTxIDs :
        /\ tx \in TxIDs /\ tx \notin QueuedTxIDs
        /\ Payment[tx].AccountID \in Accounts
        /\ Payment[tx].MerchantID \in Accounts
        /\ Payment[tx].Amount \in Int
  BY OnlineTxIDsAssumption, PaymentAssumption
<1>4. ASSUME NEW tx \in OnlineTxIDs, NEW err \in LedgerErrors,
             ReserveOnline(tx, err)
      PROVE  ReconInv' /\ SparesCustomers
  <2>1. /\ ReserveFunds(Payment[tx].AccountID, Payment[tx].Amount, tx, err)
        /\ UNCHANGED <<walVars, replayVars>>
    BY <1>4 DEF ReserveOnline
  <2>2. /\ LedgerTypeOK' /\ SparesAllBut(DeficitReserve)
        /\ \/ UNCHANGED entries
           \/ \E e \in LedgerEntry : Journals(e) /\ e.Type = "RESERVE"
    BY <1>1, <1>3, <2>1, SetAsideEffect
  <2>3. QED
    BY <1>2, <2>1, <2>2
<1>5. ASSUME NEW tx \in OnlineTxIDs, NEW err \in LedgerErrors,
             CommitOnline(tx, err)
      PROVE  ReconInv' /\ SparesCustomers
  <2> DEFINE a == Payment[tx].AccountID
             d == Payment[tx].MerchantID
             n == Payment[tx].Amount
             e == NewEntry("COMMIT", tx, Label(SystemEscrow), Label(d), n)
  <2>1. /\ Settle(a, ReservedBalance(a), Label(SystemEscrow),
                  "ErrHoldMismatch", d, n, tx, err)
        /\ UNCHANGED <<walVars, replayVars>>
    BY <1>5 DEF CommitOnline, CommitHold
  <2>2. /\ a \in Accounts /\ d \in Accounts /\ n \in Int
        /\ tx \in TxIDs /\ tx \notin QueuedTxIDs
    BY <1>3
  <2>3. e.TxID = tx
    BY DEF NewEntry
  <2> HIDE DEF a, d, n
  <2>4. ReservedBalance(a) \in Buckets /\ Label(SystemEscrow) \in Labels
    BY <2>2, BucketsOfAccount, LabelsOfAccount, SystemAccountsAssumption
       DEF SystemAccounts
  <2>5. /\ LedgerTypeOK' /\ SparesAllBut(DeficitReserve)
        /\ err = "nil" => Journals(e)
        /\ err # "nil" => UNCHANGED entries
    BY <1>1, <2>1, <2>2, <2>4, SettleEffect
  <2> HIDE DEF e
  <2>6. \/ UNCHANGED entries
        \/ e \in LedgerEntry /\ Journals(e)
    BY <2>5 DEF Journals
  <2>7. QED
    BY <1>2, <2>1, <2>2, <2>3, <2>5, <2>6
<1>6. ASSUME NEW a \in Parties, NEW n \in Amounts, NEW err \in LedgerErrors,
             AllocateOnline(a, n, err)
      PROVE  ReconInv' /\ SparesCustomers
  <2>1. /\ AllocateOfflineAllowance(a, n, err)
        /\ UNCHANGED <<walVars, replayVars>>
    BY <1>6 DEF AllocateOnline
  <2>2. a \in Accounts /\ n \in Int
    BY PartiesAssumption, AmountsAssumption
  <2>3. /\ LedgerTypeOK' /\ SparesAllBut(DeficitReserve)
        /\ \/ UNCHANGED entries
           \/ \E e \in LedgerEntry : Journals(e) /\ e.Type = "RESERVE"
    <3>1. GeneratedTxID \in TxIDs \cup {GeneratedTxID}
      OBVIOUS
    <3>2. QED
      BY <1>1, <2>1, <2>2, <3>1, SetAsideEffect
  <2>4. QED
    BY <1>2, <2>1, <2>3
<1>7. QED
  BY <1>4, <1>5, <1>6

(* What an append does to the map.                                         *)
LEMMA AppendGrows ==
  ASSUME WALInv, NEW tx \in TxIDs, NEW err, WALAppend(tx, err)
  PROVE  /\ \A x \in Present : x \in Present' /\ txMap'[x] = txMap[x]
         /\ \A x \in Present' : \/ x \in Present
                                \/ x = tx /\ txMap'[x] = "PENDING"
         /\ \/ UNCHANGED file
            \/ file' = Append(file, Whole(tx))
            \/ file' = Append(file, Torn(tx))
<1>1. txMap \in [TxIDs -> Statuses \cup {Absent}]
  BY DEF WALInv, WALTypeOK
<1>2. UNCHANGED txMap \/ txMap' = [txMap EXCEPT ![tx] = "PENDING"]
  BY DEF WALAppend, AppendDurably, AppendTorn, AppendUnsynced
<1>3. tx \in Present => UNCHANGED txMap
  BY DEF WALAppend
<1>4. Present' = {x \in TxIDs : txMap'[x] /= Absent}
  BY DEF Present
<1>5. /\ \A x \in Present : x \in Present' /\ txMap'[x] = txMap[x]
      /\ \A x \in Present' : \/ x \in Present
                             \/ x = tx /\ txMap'[x] = "PENDING"
  <2>1. CASE UNCHANGED txMap
    <3>1. Present' = Present
      BY <2>1 DEF Present
    <3>2. QED
      BY <2>1, <3>1
  <2>2. CASE txMap' = [txMap EXCEPT ![tx] = "PENDING"] /\ tx \notin Present
    <3>1. /\ \A x \in TxIDs \ {tx} : txMap'[x] = txMap[x]
          /\ txMap'[tx] = "PENDING"
      BY <1>1, <2>2
    <3>2. \A x : x \in Present <=> x \in TxIDs /\ txMap[x] /= Absent
      BY DEF Present
    <3>3. QED
      BY <1>4, <2>2, <3>1, <3>2
  <2>3. QED
    BY <1>2, <1>3, <2>1, <2>2
<1>6. QED
  BY <1>5 DEF WALAppend, AppendDurably, AppendTorn, AppendUnsynced

(* An offline payment is queued: it was not in the map, so the replay has  *)
(* not seen it.                                                            *)
LEMMA QueueOfflinePreserves ==
  ASSUME NEW Q, ReplayInv(Q), NEW tx \in QueuedTxIDs, NEW err,
         QueueOffline(tx, err)
  PROVE  ReplayInv(Q)' /\ SparesCustomers
<1>1. WALAppend(tx, err) /\ UNCHANGED ledgerVars /\ UNCHANGED replayVars
  BY DEF QueueOffline
<1>2. /\ UNCHANGED <<useDeficitReserve, seenHashes, deficitLogs, replayPc,
                     batch, current, accSnapshot, report>>
  BY <1>1 DEF replayVars
<1>3. /\ WALInv /\ LedgerTypeOK /\ tx \in TxIDs /\ tx \in QueuedTxIDs
      /\ ReplayWell /\ NoneForgotten
  BY PaymentTypes DEF ReplayInv, ReplayWell, ReconTypeOK
<1>4. WALInv' /\ walOpen'
  BY <1>1, <1>3, WALAppendPreserves
<1>5. /\ \A x \in Present : x \in Present' /\ txMap'[x] = txMap[x]
      /\ \A x \in Present' : \/ x \in Present
                             \/ x = tx /\ txMap'[x] = "PENDING"
      /\ \/ UNCHANGED file
         \/ file' = Append(file, Whole(tx))
         \/ file' = Append(file, Torn(tx))
  BY <1>1, <1>3, AppendGrows
<1>6. LedgerTypeOK' /\ SparesCustomers /\ \A x : SameCredit(x)
  BY <1>1, <1>3, LedgerLeftAlone
<1>7. \A i \in 1..Len(file') : file'[i].TxID \in QueuedTxIDs
  <2>1. /\ file \in Seq(Frame) /\ Len(file) \in Nat
        /\ \A i \in 1..Len(file) : file[i].TxID \in QueuedTxIDs
    BY <1>3 DEF ReplayWell, WALInv, WALTypeOK
  <2>2. ASSUME NEW fr, fr \in Frame, fr.TxID = tx, file' = Append(file, fr)
        PROVE  \A i \in 1..Len(file') : file'[i].TxID \in QueuedTxIDs
    <3>1. /\ Len(file') = Len(file) + 1
          /\ \A i \in 1..Len(file) : file'[i] = file[i]
          /\ file'[Len(file) + 1] = fr
      BY <2>1, <2>2
    <3>2. SUFFICES ASSUME NEW i \in 1..Len(file')
                   PROVE  file'[i].TxID \in QueuedTxIDs
      OBVIOUS
    <3>3. i \in 1..Len(file) \/ i = Len(file) + 1
      BY <2>1, <3>1
    <3>4. QED
      BY <1>3, <2>1, <2>2, <3>1, <3>3
  <2>3. /\ Whole(tx) \in Frame /\ Whole(tx).TxID = tx
        /\ Torn(tx) \in Frame /\ Torn(tx).TxID = tx
    BY <1>3 DEF Whole, Torn, Frame
  <2>4. QED
    BY <1>5, <2>1, <2>2, <2>3
<1>8. ReplayWell'
  <2>1. ReconTypeOK'
    BY <1>2, <1>3, <1>4, <1>6 DEF ReplayWell, ReconTypeOK, WALInv
  <2>2. Present' \subseteq QueuedTxIDs /\ seenHashes' \subseteq Present'
    BY <1>2, <1>3, <1>5 DEF ReplayWell
  <2>3. \A i \in DOMAIN batch' : batch'[i] \in Present'
    BY <1>2, <1>3, <1>5 DEF ReplayWell
  <2>4. QED
    BY <1>2, <1>3, <1>4, <1>7, <2>1, <2>2, <2>3 DEF ReplayWell
<1>9. NoneForgotten'
  <2>1. ASSUME NEW x \in Present'
        PROVE  Replayed(x)' <=> txMap'[x] /= "PENDING"
    <3>1. Replayed(x)' <=> Replayed(x)
      BY <1>2 DEF Replayed
    <3>2. CASE x \in Present
      BY <1>3, <1>5, <3>1, <3>2 DEF NoneForgotten
    <3>3. CASE x \notin Present
      BY <1>3, <1>5, <3>1, <3>3 DEF Replayed, ReplayWell
    <3>4. QED
      BY <3>2, <3>3
  <2>2. QED
    BY <1>2, <1>3, <2>1 DEF NoneForgotten
<1>10. ASSUME NEW x \in Q PROVE MoneyOf(x)'
  <2>1. x \in TxIDs /\ x \in QueuedTxIDs /\ MoneyOf(x)
    BY PaymentTypes DEF ReplayInv
  <2>2. txMap'[x] = "RECONCILED" => txMap[x] = "RECONCILED"
    <3>1. SUFFICES ASSUME txMap'[x] = "RECONCILED"
                   PROVE  txMap[x] = "RECONCILED"
      OBVIOUS
    <3>2. x \in Present'
      BY <2>1, <3>1 DEF Present, Absent
    <3>3. QED
      BY <1>5, <3>1, <3>2
  <2>3. QED
    BY <1>2, <1>6, <2>1, <2>2, MoneyKept
<1>11. QED
  BY <1>6, <1>8, <1>9, <1>10 DEF ReplayInv

(* The opening balances of seeded accounts.                                *)
LEMMA SeededTypes ==
  ASSUME NEW start \in [Accounts -> Int]
  PROVE  /\ SeededBalance(start) \in [Buckets -> Int]
         /\ \A a \in Accounts :
              SeededBalance(start)[OnlineAvailable(a)] = start[a]
         /\ SystemAccounts \cup Parties \subseteq Accounts
<1>1. \A k \in Buckets : k[1] \in Accounts
  BY DEF Buckets
<1>2. SeededBalance(start) \in [Buckets -> Int]
  BY <1>1 DEF SeededBalance
<1>3. ASSUME NEW a \in Accounts
      PROVE  SeededBalance(start)[OnlineAvailable(a)] = start[a]
  <2>1. OnlineAvailable(a) \in Buckets
    BY BucketsOfAccount
  <2>2. /\ OnlineAvailable(a)[1] = a
        /\ OnlineAvailable(a)[2] = "OnlineAvailable"
    BY DEF OnlineAvailable
  <2>3. QED
    BY <2>1, <2>2 DEF SeededBalance
<1>4. QED
  BY <1>2, <1>3, PartiesAssumption, SystemAccountsAssumption

(* A restart: what recovery finds is pending, and nothing is posted.       *)
LEMMA RestartPreserves ==
  ASSUME ReconInv, Restart
  PROVE  ReconInv' /\ SparesCustomers
<1>1. /\ WALInv /\ LedgerTypeOK /\ file \in Seq(Frame)
      /\ synced \in 0..Len(file) /\ synced \in Nat /\ Len(file) \in Nat
      /\ \A i \in 1..Len(file) : file[i].TxID \in QueuedTxIDs
  BY DEF ReconInv, ReplayInv, ReplayWell, ReconTypeOK, WALInv, WALTypeOK
<1>2. /\ useDeficitReserve' = TRUE /\ seenHashes' = {} /\ deficitLogs' = <<>>
      /\ replayPc' = "idle" /\ batch' = <<>> /\ current' = NoTx
      /\ accSnapshot' = NoSnapshot /\ report' = NewReport(0)
  BY DEF Restart
<1>3. /\ exists' = SystemAccounts \cup Parties
      /\ balance' = SeededBalance(opening)
      /\ reservations' = <<>> /\ entries' = <<>>
      /\ UNCHANGED <<funding, opening>>
  BY DEF Restart
<1>4. PICK f \in Seq(Frame) :
        /\ RecoverFrom(f)
        /\ synced <= Len(f)
        /\ \A i \in 1..synced : f[i] = file[i]
        /\ \A i \in 1..Len(f) : f[i].TxID \in QueuedTxIDs
  <2>1. ASSUME NEW g \in Seq(Frame), synced \in 0..Len(g),
               \A i \in 1..synced : g[i] = file[i],
               \A i \in 1..Len(g) : g[i].TxID \in QueuedTxIDs,
               NEW h \in Remains(g, synced), RecoverFrom(h)
        PROVE  /\ h \in Seq(Frame) /\ RecoverFrom(h)
               /\ synced <= Len(h)
               /\ \A i \in 1..synced : h[i] = file[i]
               /\ \A i \in 1..Len(h) : h[i].TxID \in QueuedTxIDs
    <3>1. /\ h \in Seq(Frame)
          /\ synced <= Len(h)
          /\ \A i \in 1..synced : h[i] = g[i]
          /\ \A i \in 1..Len(h) : \E j \in 1..Len(g) : h[i].TxID = g[j].TxID
      BY <2>1, RemainsKeepDurable
    <3>2. QED
      BY <2>1, <3>1
  <2>2. CASE \E h \in Remains(file, synced) : RecoverFrom(h)
    BY <1>1, <2>1, <2>2
  <2>3. CASE \E tx \in QueuedTxIDs \ Present :
               \E h \in Remains(Append(file, Whole(tx)), synced) :
                 RecoverFrom(h)
    <3>1. PICK tx \in QueuedTxIDs :
            \E h \in Remains(Append(file, Whole(tx)), synced) : RecoverFrom(h)
      BY <2>3
    <3> DEFINE g == Append(file, Whole(tx))
    <3>2. Whole(tx) \in Frame /\ Whole(tx).TxID = tx
      BY PaymentTypes DEF Whole, Frame
    <3>3. /\ g \in Seq(Frame) /\ Len(g) = Len(file) + 1
          /\ \A i \in 1..Len(file) : g[i] = file[i]
          /\ g[Len(file) + 1] = Whole(tx)
      BY <1>1, <3>2
    <3> HIDE DEF g
    <3>4. synced \in 0..Len(g) /\ \A i \in 1..synced : g[i] = file[i]
      BY <1>1, <3>3
    <3>5. \A i \in 1..Len(g) : g[i].TxID \in QueuedTxIDs
      <4>1. SUFFICES ASSUME NEW i \in 1..Len(g)
                     PROVE  g[i].TxID \in QueuedTxIDs
        OBVIOUS
      <4>2. i \in 1..Len(file) \/ i = Len(file) + 1
        BY <1>1, <3>3
      <4>3. QED
        BY <1>1, <3>2, <3>3, <4>2
    <3>6. PICK h \in Remains(g, synced) : RecoverFrom(h)
      BY <3>1 DEF g
    <3>7. QED
      BY <2>1, <3>3, <3>4, <3>5, <3>6
  <2>4. QED
    BY <2>2, <2>3 DEF Restart
<1>5. WALInv'
  BY <1>1, <1>4, RecoverPreserves
<1>6. /\ file' = ValidPrefix(f) /\ walOpen'
      /\ txMap' = [tx \in TxIDs |->
                     IF \E i \in DOMAIN file' : file'[i].TxID = tx
                     THEN "PENDING" ELSE Absent]
  BY <1>4 DEF RecoverFrom
<1>7. /\ \A i \in 1..Len(file') : file'[i].TxID \in QueuedTxIDs
      /\ DOMAIN file' = 1..Len(file')
  <2>1. /\ file' \in Seq(Frame) /\ Len(file') <= Len(f)
        /\ \A i \in 1..Len(file') : file'[i] = f[i]
    BY <1>6, ScanKeepsWhole
  <2>2. Len(file') \in Nat /\ Len(f) \in Nat
    BY <2>1
  <2>3. QED
    BY <1>4, <2>1, <2>2
<1>8. \A tx \in Present' : tx \in QueuedTxIDs /\ txMap'[tx] = "PENDING"
  <2>1. SUFFICES ASSUME NEW tx, tx \in Present'
                 PROVE  tx \in QueuedTxIDs /\ txMap'[tx] = "PENDING"
    OBVIOUS
  <2>2. tx \in TxIDs /\ txMap'[tx] /= Absent
    BY <2>1 DEF Present
  <2>3. PICK i \in DOMAIN file' : file'[i].TxID = tx
    BY <1>6, <2>2
  <2>4. QED
    BY <1>6, <1>7, <2>2, <2>3
<1>9. LedgerTypeOK'
  <2>1. opening \in [Accounts -> Int] /\ funding \in LedgerEntry \cup {NoEntry}
    BY <1>1 DEF LedgerTypeOK
  <2>2. /\ balance' \in [Buckets -> Int] /\ exists' \in SUBSET Accounts
        /\ \A a \in Accounts : balance'[OnlineAvailable(a)] = opening[a]
    BY <1>3, <2>1, SeededTypes
  <2>3. reservations' \in Seq(Reservation) /\ entries' \in Seq(LedgerEntry)
    BY <1>3
  <2>4. QED
    BY <1>3, <2>1, <2>2, <2>3 DEF LedgerTypeOK
<1>10. ReplayWell'
  <2>1. NewReport(0) \in [{"TotalProcessed", "SuccessfulCount",
                           "DeficitCount", "DuplicateCount"} -> Nat]
    BY DEF NewReport
  <2>2. /\ deficitLogs' \in Seq(DeficitRecord) /\ batch' \in Seq(QueuedTxIDs)
        /\ accSnapshot' \in [OnlineAvailable : Int, OfflineAllowance : Int]
        /\ replayPc' \in ReplaySteps
    BY <1>2 DEF NoSnapshot, ReplaySteps
  <2>3. ReconTypeOK'
    BY <1>2, <1>5, <1>9, <2>1, <2>2 DEF ReconTypeOK, WALInv
  <2>4. Present' \subseteq QueuedTxIDs /\ seenHashes' \subseteq Present'
    BY <1>2, <1>8
  <2>5. DOMAIN batch' = {} /\ DOMAIN deficitLogs' = {}
    BY <1>2
  <2>6. QED
    BY <1>2, <1>5, <1>6, <1>7, <2>3, <2>4, <2>5 DEF ReplayWell
<1>11. NoneForgotten'
  <2>1. \A tx : ~Replayed(tx)'
    BY <1>2 DEF Replayed
  <2>2. /\ NewReport(0).TotalProcessed = 0 /\ NewReport(0).DeficitCount = 0
        /\ NewReport(0).SuccessfulCount = 0
        /\ NewReport(0).DuplicateCount = 0
    BY DEF NewReport
  <2>3. QED
    BY <1>2, <1>8, <2>1, <2>2 DEF NoneForgotten
<1>12. ASSUME NEW tx \in QueuedTxIDs PROVE MoneyOf(tx)'
  <2>1. \A D : Credited(tx, D)' = 0
    BY <1>3, CreditedNothing DEF Credited
  <2>2. tx \in TxIDs /\ tx /= NoTx /\ Payment[tx].Amount \in Int
    BY PaymentTypes
  <2>3. txMap'[tx] /= "RECONCILED"
    BY <1>6, <2>2 DEF Absent
  <2>4. Unpaid(tx)'
    BY <2>1 DEF Unpaid
  <2>5. PartOf(Credited(tx, Labels)', Payment[tx].Amount)
    BY <2>1, <2>2 DEF PartOf
  <2>6. QED
    BY <1>2, <2>2, <2>3, <2>4, <2>5 DEF MoneyOf
<1>13. SparesCustomers
  BY DEF SparesCustomers
<1>14. QED
  BY <1>10, <1>11, <1>12, <1>13 DEF ReconInv, ReplayInv

(* SetUseDeficitReserve, and the beginning and the end of a replay.        *)
LEMMA BetweenReplaysPreserves ==
  ASSUME NEW Q, ReplayInv(Q),
         \/ \E enabled \in BOOLEAN : SetUseDeficitReserve(enabled)
         \/ ReplayBegin
         \/ ReplayEnd
  PROVE  ReplayInv(Q)' /\ SparesCustomers
<1>1. /\ UNCHANGED ledgerVars /\ UNCHANGED walVars
      /\ UNCHANGED <<seenHashes, deficitLogs, current, accSnapshot>>
      /\ replayPc \in {"idle", "loop"} /\ replayPc' \in {"idle", "loop"}
  BY DEF SetUseDeficitReserve, ReplayBegin, ReplayEnd
<1>2. LedgerTypeOK /\ WALInv /\ ReplayWell /\ NoneForgotten /\ current = NoTx
  BY <1>1 DEF ReplayInv, ReplayWell, ReconTypeOK
<1>3. LedgerTypeOK' /\ SparesCustomers /\ \A tx : SameCredit(tx)
  BY <1>1, <1>2, LedgerLeftAlone
<1>4. WALInv' /\ Present' = Present /\ UNCHANGED <<file, txMap, walOpen>>
  BY <1>1, <1>2, LogLeftAlone
<1>5. useDeficitReserve' \in BOOLEAN
  BY <1>2 DEF SetUseDeficitReserve, ReplayBegin, ReplayEnd, ReplayWell,
              ReconTypeOK
<1>6. /\ batch' \in Seq(QueuedTxIDs)
      /\ \A i \in DOMAIN batch' : batch'[i] \in Present
      /\ \/ UNCHANGED <<batch, report>>
         \/ report' = NewReport(Len(batch'))
  <2>1. CASE UNCHANGED <<batch, report>>
    BY <1>2, <2>1 DEF ReplayWell, ReconTypeOK
  <2>2. CASE ReplayBegin
    <3>1. batch' = ReadAllPending /\ report' = NewReport(Len(batch'))
      BY <2>2 DEF ReplayBegin
    <3>2. QED
      BY <1>2, <3>1, PendingIsPresent
  <2>3. QED
    BY <2>1, <2>2 DEF SetUseDeficitReserve, ReplayEnd
<1>7. /\ report' \in [{"TotalProcessed", "SuccessfulCount",
                       "DeficitCount", "DuplicateCount"} -> Nat]
      /\ report'.TotalProcessed =
           report'.SuccessfulCount + report'.DeficitCount
             + report'.DuplicateCount + Len(batch')
             + (IF current' = NoTx THEN 0 ELSE 1)
  <2>1. CASE UNCHANGED <<batch, report>>
    BY <1>1, <1>2, <2>1 DEF ReplayWell, ReconTypeOK, NoneForgotten
  <2>2. CASE report' = NewReport(Len(batch'))
    <3>1. Len(batch') \in Nat
      BY <1>6
    <3>2. /\ report'.TotalProcessed = Len(batch')
          /\ report'.SuccessfulCount = 0 /\ report'.DeficitCount = 0
          /\ report'.DuplicateCount = 0
      BY <2>2 DEF NewReport
    <3>3. report' \in [{"TotalProcessed", "SuccessfulCount",
                        "DeficitCount", "DuplicateCount"} -> Nat]
      BY <2>2, <3>1 DEF NewReport
    <3>4. QED
      BY <1>1, <1>2, <3>1, <3>2, <3>3
  <2>3. QED
    BY <1>6, <2>1, <2>2
<1>8. ReplayWell'
  <2>1. ReconTypeOK'
    BY <1>1, <1>2, <1>3, <1>4, <1>5, <1>6, <1>7
       DEF ReplayWell, ReconTypeOK, WALInv, ReplaySteps
  <2>2. QED
    BY <1>1, <1>2, <1>4, <1>6, <2>1 DEF ReplayWell
<1>9. NoneForgotten'
  <2>1. \A x : Replayed(x)' <=> Replayed(x)
    BY <1>1 DEF Replayed
  <2>2. QED
    BY <1>2, <1>4, <1>7, <2>1 DEF NoneForgotten
<1>10. ASSUME NEW tx \in Q PROVE MoneyOf(tx)'
  <2>1. tx \in QueuedTxIDs /\ tx /= NoTx /\ MoneyOf(tx)
    BY PaymentTypes DEF ReplayInv
  <2>2. QED
    BY <1>1, <1>2, <1>3, <1>4, <2>1, MoneyKept
<1>11. QED
  BY <1>3, <1>4, <1>8, <1>9, <1>10 DEF ReplayInv

(* The loop skips a transaction that it has seen.                          *)
LEMMA ReplayDuplicatePreserves ==
  ASSUME NEW Q, ReplayInv(Q), NEW i \in DOMAIN batch, ReplayDuplicate(i)
  PROVE  ReplayInv(Q)' /\ SparesCustomers
<1> DEFINE tx == batch[i]
<1>1. /\ replayPc = "loop" /\ tx \in seenHashes
      /\ Finish(tx, "DuplicateCount", "DUPLICATE")
      /\ batch' = RemoveAt(batch, i)
      /\ UNCHANGED <<useDeficitReserve, seenHashes, deficitLogs>>
      /\ UNCHANGED ledgerVars
  BY DEF ReplayDuplicate
<1> HIDE DEF tx
<1>2. /\ LedgerTypeOK /\ ReplayWell /\ NoneForgotten /\ current = NoTx
      /\ tx \in Present
      /\ deficitLogs \in Seq(DeficitRecord)
      /\ \A j \in DOMAIN deficitLogs : deficitLogs[j].TxID \in seenHashes
  BY <1>1 DEF ReplayInv, ReplayWell, ReconTypeOK
<1>3. LedgerTypeOK' /\ SparesCustomers /\ \A x : SameCredit(x)
  BY <1>1, <1>2, LedgerLeftAlone
<1>4. "DUPLICATE" \in Statuses \ {"PENDING"}
  BY DEF Statuses
<1>5. /\ txMap'[tx] = "DUPLICATE"
      /\ \A x \in TxIDs \ {tx} : txMap'[x] = txMap[x]
      /\ current' = NoTx /\ Present' = Present
  BY <1>1, <1>2, <1>4, FinishEffect
<1>6. ReplayWell' /\ NoneForgotten'
  BY <1>1, <1>2, <1>3, <1>4, FinishKeeps
<1>7. ASSUME NEW x \in Q PROVE MoneyOf(x)'
  <2>1. x \in QueuedTxIDs /\ x \in TxIDs /\ x /= NoTx /\ MoneyOf(x)
    BY PaymentTypes DEF ReplayInv
  <2>2. txMap'[x] = "RECONCILED" => txMap[x] = "RECONCILED"
    BY <1>5, <2>1
  <2>3. QED
    BY <1>1, <1>2, <1>3, <1>5, <2>1, <2>2, MoneyKept
<1>8. QED
  BY <1>3, <1>5, <1>6, <1>7 DEF ReplayInv

(* Where an iteration goes next.                                           *)
LEMMA NextStep ==
  ASSUME useDeficitReserve \in BOOLEAN, NEW snap, NEW n
  PROVE  /\ DeficitStep \in {"covered", "legacy"}
         /\ AfterOffline(snap, n) \in {"online", "covered", "legacy"}
         /\ DeficitStep = "legacy" => ~useDeficitReserve
         /\ AfterOffline(snap, n) = "legacy" => ~useDeficitReserve
BY DEF DeficitStep, AfterOffline

(* The loop takes a transaction it has not seen: nothing is posted for it. *)
LEMMA ReplayTakePreserves ==
  ASSUME NEW Q, ReplayInv(Q), NEW i \in DOMAIN batch, ReplayTake(i)
  PROVE  ReplayInv(Q)' /\ SparesCustomers
<1> DEFINE tx == batch[i]
<1>1. /\ replayPc = "loop" /\ tx \notin seenHashes
      /\ seenHashes' = seenHashes \cup {tx} /\ current' = tx
      /\ batch' = RemoveAt(batch, i)
      /\ accSnapshot' = Snapshot(Payment[tx].AccountID)
      /\ replayPc' = IF accSnapshot'.OfflineAllowance >= Payment[tx].Amount
                     THEN "offline"
                     ELSE AfterOffline(accSnapshot', Payment[tx].Amount)
      /\ UNCHANGED <<useDeficitReserve, deficitLogs, report>>
      /\ UNCHANGED ledgerVars /\ UNCHANGED walVars
  BY DEF ReplayTake
<1>2. /\ LedgerTypeOK /\ WALInv /\ ReplayWell /\ NoneForgotten
      /\ current = NoTx /\ tx \in Present /\ tx \in QueuedTxIDs
      /\ batch \in Seq(QueuedTxIDs) /\ Len(batch) \in Nat
      /\ useDeficitReserve \in BOOLEAN
      /\ \A j \in DOMAIN batch : batch[j] \in Present
  <2>1. ReplayWell /\ NoneForgotten
    BY DEF ReplayInv
  <2>2. ReconTypeOK /\ WALInv /\ \A j \in DOMAIN batch : batch[j] \in Present
    BY <2>1 DEF ReplayWell
  <2>3. current = NoTx
    BY <1>1, <2>1 DEF ReplayWell
  <2>4. /\ LedgerTypeOK /\ useDeficitReserve \in BOOLEAN
        /\ batch \in Seq(QueuedTxIDs)
    BY <2>2 DEF ReconTypeOK
  <2>5. tx \in Present /\ tx \in QueuedTxIDs /\ Len(batch) \in Nat
    BY <2>2, <2>4
  <2>6. QED
    BY <2>1, <2>2, <2>3, <2>4, <2>5
<1> HIDE DEF tx
<1>3. LedgerTypeOK' /\ SparesCustomers /\ \A x : SameCredit(x)
  BY <1>1, <1>2, LedgerLeftAlone
<1>4. WALInv' /\ Present' = Present /\ UNCHANGED <<file, txMap, walOpen>>
  BY <1>1, <1>2, LogLeftAlone
<1>5. /\ tx \in TxIDs /\ tx /= NoTx /\ Payment[tx].AccountID \in Accounts
      /\ Payment[tx].Amount \in Int
  BY <1>2, PaymentTypes
<1>6. /\ replayPc' \in {"offline", "online", "covered", "legacy"}
      /\ replayPc' = "legacy" => ~useDeficitReserve
  BY <1>1, <1>2, NextStep
<1>7. accSnapshot' \in [OnlineAvailable : Int, OfflineAllowance : Int]
  <2>1. /\ balance[OnlineAvailable(Payment[tx].AccountID)] \in Int
        /\ balance[OfflineAllowance(Payment[tx].AccountID)] \in Int
    BY <1>2, <1>5, BucketsOfAccount DEF LedgerTypeOK
  <2>2. QED
    BY <1>1, <2>1 DEF Snapshot
<1>8. /\ batch' \in Seq(QueuedTxIDs) /\ Len(batch') = Len(batch) - 1
      /\ \A j \in DOMAIN batch' : batch'[j] \in Present
  <2>1. /\ batch' \in Seq(QueuedTxIDs) /\ Len(batch') = Len(batch) - 1
        /\ \A j \in DOMAIN batch' : \E k \in DOMAIN batch :
             batch'[j] = batch[k]
    BY <1>1, <1>2, RemoveOne
  <2>2. QED
    BY <1>2, <2>1
<1>9. ReplayWell'
  <2>1. ReconTypeOK'
    BY <1>1, <1>2, <1>3, <1>4, <1>6, <1>7, <1>8
       DEF ReplayWell, ReconTypeOK, WALInv, ReplaySteps
  <2>2. QED
    BY <1>1, <1>2, <1>4, <1>5, <1>6, <1>8, <2>1 DEF ReplayWell
<1>10. NoneForgotten'
  <2>1. ASSUME NEW x \in Present
        PROVE  Replayed(x)' <=> txMap[x] /= "PENDING"
    <3>1. x /= NoTx
      BY NoTxAssumption DEF Present
    <3>2. Replayed(x)' <=> Replayed(x)
      BY <1>1, <1>2, <3>1 DEF Replayed
    <3>3. QED
      BY <1>2, <3>2 DEF NoneForgotten
  <2>2. /\ report.SuccessfulCount \in Nat /\ report.DeficitCount \in Nat
        /\ report.DuplicateCount \in Nat
    BY <1>2 DEF ReplayWell, ReconTypeOK
  <2>3. report.TotalProcessed =
          report.SuccessfulCount + report.DeficitCount
            + report.DuplicateCount + Len(batch)
            + (IF current = NoTx THEN 0 ELSE 1)
    BY <1>2 DEF NoneForgotten
  <2>4. report'.TotalProcessed =
          report'.SuccessfulCount + report'.DeficitCount
            + report'.DuplicateCount + Len(batch')
            + (IF current' = NoTx THEN 0 ELSE 1)
    BY <1>1, <1>2, <1>5, <1>8, <2>2, <2>3
  <2>5. QED
    BY <1>4, <2>1, <2>4 DEF NoneForgotten
<1>11. ASSUME NEW x \in Q PROVE MoneyOf(x)'
  <2>1. x \in QueuedTxIDs /\ MoneyOf(x) /\ SameCredit(x) /\ x /= NoTx
    BY <1>3, PaymentTypes DEF ReplayInv
  <2>2. CASE x /= tx
    BY <1>1, <1>2, <1>4, <2>1, <2>2, MoneyKept
  <2>3. CASE x = tx
    <3>1. Unpaid(x)
      BY <1>1, <2>1, <2>3 DEF MoneyOf
    <3>2. Unpaid(x)' /\ PartOf(Credited(x, Labels)', Payment[x].Amount)
      BY <2>1, <3>1 DEF Unpaid, SameCredit, Credited, MoneyOf
    <3>3. txMap'[x] /= "RECONCILED"
      <4>1. ~Replayed(x) /\ x \in Present
        BY <1>1, <1>2, <2>3 DEF Replayed
      <4>2. txMap[x] = "PENDING"
        BY <1>2, <4>1 DEF NoneForgotten
      <4>3. QED
        BY <1>4, <4>2
    <3>4. \A j \in DOMAIN deficitLogs' : deficitLogs'[j].TxID /= x
      BY <1>1, <1>2, <2>3 DEF ReplayWell
    <3>5. QED
      BY <1>6, <3>2, <3>3, <3>4 DEF MoneyOf
  <2>4. QED
    BY <2>2, <2>3
<1>12. QED
  BY <1>3, <1>4, <1>9, <1>10, <1>11 DEF ReplayInv

(* The loop is at a transaction: what is known about it.                   *)
LEMMA AtCurrent ==
  ASSUME NEW Q, ReplayInv(Q), replayPc \notin {"idle", "loop"}
  PROVE  /\ ReplayWell /\ NoneForgotten /\ LedgerTypeOK /\ WALInv
         /\ current \in QueuedTxIDs /\ current \in seenHashes
         /\ current \in Present
         /\ current \in Q =>
              /\ MoneyOf(current)
              /\ \A j \in DOMAIN deficitLogs :
                   deficitLogs[j].TxID /= current
         /\ txMap[current] = "PENDING"
         /\ useDeficitReserve \in BOOLEAN
         /\ accSnapshot \in [OnlineAvailable : Int, OfflineAllowance : Int]
         /\ entries \in Seq(LedgerEntry)
         /\ deficitLogs \in Seq(DeficitRecord)
<1>1. /\ ReplayWell /\ NoneForgotten /\ LedgerTypeOK /\ WALInv
      /\ current /= NoTx
  BY DEF ReplayInv, ReplayWell, ReconTypeOK
<1>2. current \in QueuedTxIDs /\ current \in seenHashes /\ current \in Present
  BY <1>1 DEF ReplayWell, ReconTypeOK
<1>3. ~Replayed(current)
  BY DEF Replayed
<1>4. current \in Q =>
        /\ MoneyOf(current)
        /\ \A j \in DOMAIN deficitLogs : deficitLogs[j].TxID /= current
  BY <1>3 DEF ReplayInv, MoneyOf
<1>5. txMap[current] = "PENDING"
  BY <1>1, <1>2, <1>3 DEF NoneForgotten
<1>6. QED
  BY <1>1, <1>2, <1>4, <1>5 DEF ReplayWell, ReconTypeOK, LedgerTypeOK

(* A step inside an iteration that does not end it.                        *)
LEMMA GoOnKeeps ==
  ASSUME NEW Q, ReplayInv(Q), replayPc \notin {"idle", "loop"}, LedgerTypeOK',
         replayPc' \in {"online", "covered", "reserve", "legacy"},
         replayPc' = "legacy" => ~useDeficitReserve,
         UNCHANGED <<useDeficitReserve, seenHashes, deficitLogs, batch,
                     current, accSnapshot, report>>,
         UNCHANGED walVars,
         \A x \in QueuedTxIDs \ {current} : SameCredit(x),
         current \in Q => MoneyOf(current)'
  PROVE  ReplayInv(Q)'
<1>1. /\ ReplayWell /\ NoneForgotten /\ WALInv
      /\ current \in QueuedTxIDs
  BY AtCurrent
<1>2. WALInv' /\ Present' = Present /\ UNCHANGED <<file, txMap, walOpen>>
  BY <1>1, LogLeftAlone
<1>3. ReplayWell'
  <2>1. ReconTypeOK'
    BY <1>1, <1>2 DEF ReplayWell, ReconTypeOK, WALInv, ReplaySteps
  <2>2. QED
    BY <1>1, <1>2, <2>1 DEF ReplayWell
<1>4. NoneForgotten'
  BY <1>1, <1>2 DEF NoneForgotten, Replayed
<1>5. ASSUME NEW x \in Q PROVE MoneyOf(x)'
  <2>1. CASE x = current
    BY <2>1
  <2>2. CASE x /= current
    <3>1. x \in QueuedTxIDs /\ MoneyOf(x)
      BY DEF ReplayInv
    <3>2. QED
      BY <1>2, <2>2, <3>1, MoneyKept
  <2>3. QED
    BY <2>1, <2>2
<1>6. QED
  BY <1>2, <1>3, <1>4, <1>5 DEF ReplayInv

(* A step that ends an iteration, with the money that it owes.             *)
LEMMA EndKeeps ==
  ASSUME NEW Q, ReplayInv(Q), replayPc \notin {"idle", "loop"},
         NEW c, c = current,
         NEW count \in {"SuccessfulCount", "DeficitCount", "DuplicateCount"},
         NEW status \in Statuses \ {"PENDING"},
         Finish(c, count, status), LedgerTypeOK',
         UNCHANGED <<useDeficitReserve, seenHashes, batch>>,
         \/ UNCHANGED deficitLogs
         \/ \E d \in DeficitRecord :
              /\ deficitLogs' = Append(deficitLogs, d)
              /\ d.TxID = c
              /\ c \in Q /\ NotTheReserve(c) => DeficitPosted(d)',
         \A x \in QueuedTxIDs \ {c} : SameCredit(x),
         c \in Q =>
           /\ PartOf(CreditedIn(entries', c, Labels), Payment[c].Amount)
           /\ status = "RECONCILED" => PaidInFull(c)'
  PROVE  ReplayInv(Q)'
<1>1. /\ ReplayWell /\ NoneForgotten /\ WALInv
      /\ c \in QueuedTxIDs /\ c \in seenHashes /\ c \in Present
      /\ c \in Q => \A j \in DOMAIN deficitLogs : deficitLogs[j].TxID /= c
      /\ deficitLogs \in Seq(DeficitRecord)
  BY AtCurrent
<1>2. c \in TxIDs /\ c /= NoTx
  BY <1>1, PaymentTypes
<1>3. /\ txMap'[c] = status
      /\ \A x \in TxIDs \ {c} : txMap'[x] = txMap[x]
      /\ current' = NoTx /\ replayPc' = "loop" /\ Present' = Present
  BY <1>1, FinishEffect
<1>4. /\ deficitLogs' \in Seq(DeficitRecord)
      /\ \A i \in DOMAIN deficitLogs' :
           \/ i \in DOMAIN deficitLogs /\ deficitLogs'[i] = deficitLogs[i]
           \/ /\ deficitLogs'[i].TxID = c
              /\ c \in Q /\ NotTheReserve(c) => DeficitPosted(deficitLogs[i])'
  <2>1. CASE UNCHANGED deficitLogs
    BY <1>1, <2>1
  <2>2. ASSUME NEW d \in DeficitRecord, d.TxID = c,
               deficitLogs' = Append(deficitLogs, d),
               c \in Q /\ NotTheReserve(c) => DeficitPosted(d)'
        PROVE  /\ deficitLogs' \in Seq(DeficitRecord)
               /\ \A i \in DOMAIN deficitLogs' :
                    \/ /\ i \in DOMAIN deficitLogs
                       /\ deficitLogs'[i] = deficitLogs[i]
                    \/ /\ deficitLogs'[i].TxID = c
                       /\ c \in Q /\ NotTheReserve(c) =>
                            DeficitPosted(deficitLogs[i])'
    <3>1. /\ deficitLogs' \in Seq(DeficitRecord)
          /\ DOMAIN deficitLogs' = 1..(Len(deficitLogs) + 1)
          /\ DOMAIN deficitLogs = 1..Len(deficitLogs)
          /\ Len(deficitLogs) \in Nat
          /\ \A i \in 1..Len(deficitLogs) : deficitLogs'[i] = deficitLogs[i]
          /\ deficitLogs'[Len(deficitLogs) + 1] = d
      BY <1>1, <2>2
    <3>2. ASSUME NEW i \in DOMAIN deficitLogs', i \notin DOMAIN deficitLogs
          PROVE  /\ deficitLogs'[i].TxID = c
                 /\ c \in Q /\ NotTheReserve(c) =>
                      DeficitPosted(deficitLogs[i])'
      <4>1. i = Len(deficitLogs) + 1
        BY <3>1, <3>2
      <4>2. deficitLogs'[i] = d
        BY <3>1, <4>1
      <4>3. DeficitPosted(deficitLogs[i])' <=> DeficitPosted(d)'
        BY <4>2 DEF DeficitPosted
      <4>4. QED
        BY <2>2, <4>2, <4>3
    <3>3. QED
      BY <3>1, <3>2
  <2>3. QED
    BY <2>1, <2>2
<1>5. \A i \in DOMAIN deficitLogs' : deficitLogs'[i].TxID \in seenHashes
  BY <1>1, <1>4 DEF ReplayWell
<1>6. ReplayWell' /\ NoneForgotten'
  BY <1>1, <1>4, <1>5, FinishKeeps
<1>7. ASSUME NEW x \in Q PROVE MoneyOf(x)'
  <2>1. x \in QueuedTxIDs /\ MoneyOf(x) /\ x \in TxIDs /\ x /= NoTx
    BY PaymentTypes DEF ReplayInv
  <2>2. CASE x /= c
    <3>1. \A i \in DOMAIN deficitLogs' :
            deficitLogs'[i].TxID = x =>
              i \in DOMAIN deficitLogs /\ deficitLogs'[i] = deficitLogs[i]
      BY <1>4, <2>2
    <3>2. txMap'[x] = txMap[x] /\ SameCredit(x)
      BY <1>3, <2>1, <2>2
    <3>3. QED
      BY <1>3, <2>1, <2>2, <3>1, <3>2, MoneyKept
  <2>3. CASE x = c
    <3>1. x \in seenHashes' /\ x /= current'
      BY <1>1, <1>3, <2>1, <2>3
    <3>2. Replayed(x)'
      BY <3>1 DEF Replayed
    <3>3. \A i \in DOMAIN deficitLogs' :
            deficitLogs'[i].TxID = x /\ NotTheReserve(x)
              => DeficitPosted(deficitLogs[i])'
      BY <1>1, <1>4, <2>3
    <3>4. PartOf(Credited(x, Labels)', Payment[x].Amount)
      BY <2>3 DEF Credited
    <3>5. txMap'[x] = "RECONCILED" => PaidInFull(x)'
      BY <1>3, <2>3
    <3>6. QED
      BY <3>1, <3>2, <3>3, <3>4, <3>5 DEF MoneyOf, NotTheReserve
  <2>4. QED
    BY <2>2, <2>3
<1>8. QED
  BY <1>3, <1>6, <1>7 DEF ReplayInv

(* What a commit or a deficit posted for the current transaction credits.  *)
LEMMA PostedCredit ==
  ASSUME entries \in Seq(LedgerEntry), NEW c \in QueuedTxIDs,
         NEW type \in {"COMMIT", "DEFICIT"}, NEW debit \in Labels,
         NEW n \in Int,
         Journals(NewEntry(type, c, debit, Label(Payment[c].MerchantID), n))
  PROVE  /\ \A D \in SUBSET Labels :
              /\ CreditedIn(entries, c, D) \in Int
              /\ CreditedIn(entries', c, D) =
                   Credited(c, D) + (IF debit \in D THEN n ELSE 0)
         /\ \A x \in QueuedTxIDs \ {c} : SameCredit(x)
<1> DEFINE e == NewEntry(type, c, debit, Label(Payment[c].MerchantID), n)
<1>1. /\ e \in LedgerEntry /\ entries' = Append(entries, e) /\ Journals(e)
  BY DEF Journals
<1>2. /\ e.TxID = c /\ e.Type = type /\ e.DebitAcc = debit
      /\ e.CreditAcc = Label(Payment[c].MerchantID) /\ e.Amount = n
  BY DEF NewEntry
<1> HIDE DEF e
<1>3. ASSUME NEW D \in SUBSET Labels
      PROVE  /\ CreditedIn(entries, c, D) \in Int
             /\ CreditedIn(entries', c, D) =
                  Credited(c, D) + (IF debit \in D THEN n ELSE 0)
  <2>1. Credit(e, c, D) = IF debit \in D THEN n ELSE 0
    BY <1>2 DEF Credit
  <2>2. /\ CreditedIn(entries, c, D) \in Int
        /\ CreditedIn(Append(entries, e), c, D) =
             CreditedIn(entries, c, D) + Credit(e, c, D)
    BY <1>1, CreditedAppend
  <2>3. QED
    BY <1>1, <2>1, <2>2 DEF Credited
<1>4. ASSUME NEW x \in QueuedTxIDs \ {c} PROVE SameCredit(x)
  BY <1>1, <1>2, OtherEntry
<1>5. QED
  BY <1>3, <1>4

(* A commit of the whole amount, from the allowance or from the balance,   *)
(* ends the iteration; one that fails leaves the transaction unpaid.       *)
LEMMA CommitPreserves ==
  ASSUME NEW Q, ReplayInv(Q), NEW err,
         ReplayOffline(err) \/ ReplayOnline(err)
  PROVE  ReplayInv(Q)' /\ SparesCustomers
<1>1. PICK c : c = current
  OBVIOUS
<1>2. replayPc \in {"offline", "online"}
  BY DEF ReplayOffline, ReplayOnline
<1>3. /\ ReplayWell /\ NoneForgotten /\ LedgerTypeOK /\ WALInv
      /\ c \in QueuedTxIDs /\ (c \in Q => MoneyOf(c))
      /\ c \in Q => \A j \in DOMAIN deficitLogs : deficitLogs[j].TxID /= c
      /\ txMap[c] = "PENDING" /\ useDeficitReserve \in BOOLEAN
      /\ entries \in Seq(LedgerEntry) /\ c \in seenHashes
  BY <1>1, <1>2, AtCurrent
<1> DEFINE a == Payment[c].AccountID
           d == Payment[c].MerchantID
           n == Payment[c].Amount
<1>4. /\ c \in TxIDs /\ a \in Accounts /\ d \in Accounts /\ n \in Int
      /\ Label(a) \in Labels /\ OfflineLabel(a) \in Labels
  BY <1>3, PaymentTypes
<1>5. OnlineAvailable(a) \in Buckets /\ OfflineAllowance(a) \in Buckets
  BY <1>4, BucketsOfAccount
<1>6. PICK bucket \in Buckets, label \in {Label(a), OfflineLabel(a)},
           next \in {"online", "covered", "legacy"} :
        /\ Settle(a, bucket, label, "ErrInsufficientFunds", d, n, c, err)
        /\ FinishOrGoOn(err, next)
        /\ next = "legacy" => ~useDeficitReserve
  <2>1. CASE ReplayOffline(err)
    <3>1. /\ Settle(a, OfflineAllowance(a), OfflineLabel(a),
                    "ErrInsufficientFunds", d, n, c, err)
          /\ FinishOrGoOn(err, AfterOffline(accSnapshot, n))
      BY <1>1, <2>1 DEF ReplayOffline, CommitOfflineAllowance
    <3>2. QED
      BY <1>3, <1>5, <3>1, NextStep
  <2>2. CASE ReplayOnline(err)
    <3>1. /\ Settle(a, OnlineAvailable(a), Label(a),
                    "ErrInsufficientFunds", d, n, c, err)
          /\ FinishOrGoOn(err, DeficitStep)
      BY <1>1, <2>2 DEF ReplayOnline, DirectCommit
    <3>2. QED
      BY <1>3, <1>5, <3>1, NextStep
  <2>3. QED
    BY <2>1, <2>2
<1>7. label \in Labels
  BY <1>4
<1>8. c \in Q => Unpaid(c)
  BY <1>1, <1>2, <1>3 DEF MoneyOf
<1> HIDE DEF a, d, n
<1>9. /\ LedgerTypeOK' /\ SparesAllBut(DeficitReserve)
      /\ err = "nil" => Journals(NewEntry("COMMIT", c, label, Label(d), n))
      /\ err # "nil" => UNCHANGED entries
  BY <1>3, <1>4, <1>6, <1>7, SettleEffect
<1>10. SparesCustomers
  BY <1>3, <1>9, SparedCustomers
<1>11. UNCHANGED <<useDeficitReserve, seenHashes, deficitLogs, batch>>
  BY <1>6 DEF FinishOrGoOn
<1>12. CASE err = "nil"
  <2>1. Finish(c, "SuccessfulCount", "RECONCILED")
    BY <1>1, <1>6, <1>12 DEF FinishOrGoOn
  <2>2. Journals(NewEntry("COMMIT", c, label, Label(Payment[c].MerchantID), n))
    BY <1>9, <1>12 DEF d
  <2>3. /\ \A D \in SUBSET Labels :
             CreditedIn(entries', c, D) =
               Credited(c, D) + (IF label \in D THEN n ELSE 0)
        /\ \A x \in QueuedTxIDs \ {c} : SameCredit(x)
    BY <1>3, <1>4, <1>7, <2>2, PostedCredit
  <2>4. c \in Q =>
          \A D \in SUBSET Labels :
            CreditedIn(entries', c, D) = IF label \in D THEN n ELSE 0
    BY <1>4, <1>8, <2>3 DEF Unpaid
  <2>5. c \in Q => PartOf(CreditedIn(entries', c, Labels), Payment[c].Amount)
    BY <1>4, <1>7, <2>4 DEF n, PartOf
  <2>6. c \in Q => PaidInFull(c)'
    <3>1. {Label(a), OfflineLabel(a)} \in SUBSET Labels
      BY <1>4
    <3>2. c \in Q =>
            CreditedIn(entries', c, {Label(a), OfflineLabel(a)}) = n
      BY <1>6, <2>4, <3>1
    <3>3. QED
      BY <3>2 DEF PaidInFull, Credited, a, n
  <2>7. "RECONCILED" \in Statuses \ {"PENDING"}
    BY DEF Statuses
  <2>8. ReplayInv(Q)'
    BY <1>1, <1>2, <1>9, <1>11, <2>1, <2>3, <2>5, <2>6, <2>7, EndKeeps
  <2>9. QED
    BY <1>10, <2>8
<1>13. CASE err # "nil"
  <2>1. /\ replayPc' = next /\ UNCHANGED <<current, accSnapshot, report>>
        /\ UNCHANGED walVars
    BY <1>6, <1>13 DEF FinishOrGoOn
  <2>2. \A x \in QueuedTxIDs : SameCredit(x)
    BY <1>3, <1>9, <1>13, OtherEntry
  <2>3. UNCHANGED txMap
    BY <2>1 DEF walVars
  <2>4. c \in Q => MoneyOf(c)'
    <3>1. c \in Q => /\ Unpaid(c)'
                     /\ PartOf(Credited(c, Labels)', Payment[c].Amount)
      BY <1>3, <1>8, <2>2
         DEF Unpaid, SameCredit, Credited, MoneyOf
    <3>2. QED
      BY <1>3, <1>11, <2>1, <2>3, <3>1 DEF MoneyOf
  <2>5. current \in Q => MoneyOf(current)'
    BY <1>1, <2>1, <2>4
  <2>6. ReplayInv(Q)'
    BY <1>2, <1>6, <1>9, <1>11, <2>1, <2>2, <2>5, GoOnKeeps
  <2>7. QED
    BY <1>10, <2>6
<1>14. QED
  BY <1>12, <1>13

(* The part that the snapshot covers, and the rest.                        *)
LEMMA CoveredParts ==
  ASSUME current \in QueuedTxIDs,
         accSnapshot \in [OnlineAvailable : Int, OfflineAllowance : Int]
  PROVE  LET n == Payment[current].Amount
         IN  /\ CustomerCovered \in Int
             /\ UncoveredDelta \in Nat
             /\ n >= 0 => CustomerCovered >= 0
             /\ n <= 0 => UncoveredDelta = 0
             /\ CustomerCovered = n - UncoveredDelta
             /\ CustomerCovered + UncoveredDelta = n
<1> DEFINE n == Payment[current].Amount
           s == accSnapshot.OnlineAvailable
           m == Max({0, s})
<1>1. n \in Int /\ s \in Int
  BY PaymentTypes
<1>2. m = IF 0 <= s THEN s ELSE 0
  <2>1. 0 \in Int
    OBVIOUS
  <2> HIDE DEF n, s
  <2>2. Max({0, s}) = IF 0 <= s THEN s ELSE 0
    BY <1>1, <2>1, OfTwo
  <2>3. QED
    BY <2>2
<1>3. m \in Nat
  BY <1>1, <1>2
<1> HIDE DEF m
<1>4. Min({n, m}) = IF n <= m THEN n ELSE m
  BY <1>1, <1>3, OfTwo
<1>5. CustomerCovered = Min({n, m})
  BY DEF CustomerCovered, m
<1> HIDE DEF n
<1>6. /\ CustomerCovered \in Int /\ CustomerCovered <= n
      /\ n >= 0 => CustomerCovered >= 0
      /\ n <= 0 => CustomerCovered = n
  BY <1>1, <1>3, <1>4, <1>5
<1>7. UncoveredDelta = n - CustomerCovered
  BY DEF UncoveredDelta, n
<1>8. /\ UncoveredDelta \in Nat
      /\ n <= 0 => UncoveredDelta = 0
      /\ CustomerCovered = n - UncoveredDelta
      /\ CustomerCovered + UncoveredDelta = n
  BY <1>1, <1>6, <1>7
<1>9. QED
  BY <1>6, <1>8 DEF n

(* The customer's part is posted in full or not at all.                    *)
LEMMA ReplayCoveredPreserves ==
  ASSUME NEW Q, ReplayInv(Q), NEW err, ReplayCovered(err)
  PROVE  ReplayInv(Q)' /\ SparesCustomers
<1>1. PICK c : c = current
  OBVIOUS
<1>2. /\ replayPc = "covered" /\ replayPc' = "reserve"
      /\ UNCHANGED <<useDeficitReserve, seenHashes, deficitLogs, batch,
                     current, accSnapshot, report>>
      /\ UNCHANGED walVars
  BY DEF ReplayCovered
<1>3. /\ LedgerTypeOK /\ c \in QueuedTxIDs /\ (c \in Q => MoneyOf(c))
      /\ c \in Q => \A j \in DOMAIN deficitLogs : deficitLogs[j].TxID /= c
      /\ txMap[c] = "PENDING" /\ entries \in Seq(LedgerEntry)
      /\ c \in seenHashes
      /\ accSnapshot \in [OnlineAvailable : Int, OfflineAllowance : Int]
  BY <1>1, <1>2, AtCurrent
<1> DEFINE a == Payment[c].AccountID
           d == Payment[c].MerchantID
<1>5. /\ c \in TxIDs /\ a \in Accounts /\ d \in Accounts
      /\ Label(a) \in Labels /\ Payment[c].Amount \in Int
  BY <1>3, PaymentTypes
<1>4. PICK k \in Int : k = CustomerCovered /\ PartOf(k, Payment[c].Amount)
  <2>1. PICK u \in Nat :
          LET n == Payment[current].Amount
          IN  /\ CustomerCovered \in Int
              /\ n >= 0 => CustomerCovered >= 0
              /\ n <= 0 => u = 0
              /\ CustomerCovered = n - u
    BY <1>1, <1>3, CoveredParts
  <2>2. QED
    BY <1>1, <1>5, <2>1 DEF PartOf
<1>6. \/ Settle(a, OnlineAvailable(a), Label(a), "ErrInsufficientFunds",
                d, k, c, err)
      \/ UNCHANGED ledgerVars
  BY <1>1, <1>4 DEF ReplayCovered, DirectCommit
<1>7. c \in Q => Unpaid(c)
  BY <1>1, <1>2, <1>3 DEF MoneyOf
<1>8. OnlineAvailable(a) \in Buckets
  BY <1>5, BucketsOfAccount
<1>9. UNCHANGED txMap
  BY <1>2 DEF walVars
<1>10. ASSUME LedgerTypeOK', SparesCustomers,
              \A x \in QueuedTxIDs \ {c} : SameCredit(x),
              NEW p \in {0, k},
              c \in Q =>
                \A D \in SUBSET Labels :
                  CreditedIn(entries', c, D) =
                    IF Label(a) \in D THEN p ELSE 0
       PROVE  ReplayInv(Q)' /\ SparesCustomers
  <2>1. CustomerCovered' = k
    BY <1>2, <1>4 DEF CustomerCovered
  <2>2. c \in Q => PartPaid(c)'
    <3>1. PartPaid(c)' <=>
            \E q \in {0, CustomerCovered'} :
              \A D \in SUBSET Labels :
                CreditedIn(entries', c, D) = IF Label(a) \in D THEN q ELSE 0
      BY DEF PartPaid, Credited
    <3> HIDE DEF a
    <3>2. QED
      BY <1>10, <2>1, <3>1
  <2>3. c \in Q => PartOf(Credited(c, Labels)', Payment[c].Amount)
    <3>1. c \in Q => CreditedIn(entries', c, Labels) = p
      BY <1>5, <1>10
    <3>2. PartOf(p, Payment[c].Amount)
      BY <1>4, <1>5, <1>10 DEF PartOf
    <3>3. QED
      BY <3>1, <3>2 DEF Credited
  <2>4. c \in Q => MoneyOf(c)'
    BY <1>2, <1>3, <1>9, <2>2, <2>3 DEF MoneyOf
  <2>5. current \in Q => MoneyOf(current)'
    BY <1>1, <1>2, <2>4
  <2>6. ReplayInv(Q)'
    BY <1>1, <1>2, <1>10, <2>5, GoOnKeeps
  <2>7. QED
    BY <1>10, <2>6
<1> HIDE DEF a, d
<1>11. CASE UNCHANGED ledgerVars
  <2>1. LedgerTypeOK' /\ SparesCustomers /\ \A x : SameCredit(x)
    BY <1>3, <1>11, LedgerLeftAlone
  <2>2. c \in Q =>
          \A D \in SUBSET Labels :
            CreditedIn(entries', c, D) = IF Label(a) \in D THEN 0 ELSE 0
    BY <1>7, <2>1 DEF Unpaid, SameCredit
  <2>3. QED
    BY <1>10, <2>1, <2>2
<1>12. CASE Settle(a, OnlineAvailable(a), Label(a), "ErrInsufficientFunds",
                   d, k, c, err)
  <2>1. /\ LedgerTypeOK' /\ SparesAllBut(DeficitReserve)
        /\ err = "nil" => Journals(NewEntry("COMMIT", c, Label(a),
                                            Label(d), k))
        /\ err # "nil" => UNCHANGED entries
    BY <1>3, <1>5, <1>8, <1>12, SettleEffect DEF a, d
  <2>2. SparesCustomers
    BY <1>3, <2>1, SparedCustomers
  <2>3. CASE err = "nil"
    <3>1. Journals(NewEntry("COMMIT", c, Label(a),
                            Label(Payment[c].MerchantID), k))
      BY <2>1, <2>3 DEF d
    <3>2. /\ \A D \in SUBSET Labels :
               CreditedIn(entries', c, D) =
                 Credited(c, D) + (IF Label(a) \in D THEN k ELSE 0)
          /\ \A x \in QueuedTxIDs \ {c} : SameCredit(x)
      BY <1>3, <1>5, <3>1, PostedCredit DEF a
    <3>3. c \in Q =>
            \A D \in SUBSET Labels :
              CreditedIn(entries', c, D) = IF Label(a) \in D THEN k ELSE 0
      BY <1>7, <3>2 DEF Unpaid
    <3>4. QED
      BY <1>10, <2>1, <2>2, <3>2, <3>3
  <2>4. CASE err # "nil"
    <3>1. \A x \in QueuedTxIDs : SameCredit(x)
      BY <1>3, <2>1, <2>4, OtherEntry
    <3>2. c \in Q =>
            \A D \in SUBSET Labels :
              CreditedIn(entries', c, D) = IF Label(a) \in D THEN 0 ELSE 0
      BY <1>3, <1>7, <3>1 DEF Unpaid, SameCredit
    <3>3. QED
      BY <1>10, <2>1, <2>2, <3>1, <3>2
  <2>5. QED
    BY <2>3, <2>4
<1>13. QED
  BY <1>6, <1>11, <1>12 DEF a, d

(* The reserve pays what is left, and the record says so.                  *)
LEMMA ReplayReservePreserves ==
  ASSUME NEW Q, ReplayInv(Q), NEW err, ReplayReserve(err)
  PROVE  ReplayInv(Q)' /\ SparesCustomers
<1>1. PICK c : c = current
  OBVIOUS
<1>2. replayPc = "reserve"
  BY DEF ReplayReserve
<1>3. /\ LedgerTypeOK /\ c \in QueuedTxIDs /\ (c \in Q => MoneyOf(c))
      /\ entries \in Seq(LedgerEntry)
      /\ accSnapshot \in [OnlineAvailable : Int, OfflineAllowance : Int]
  BY <1>1, <1>2, AtCurrent
<1>4. PICK k \in Int, u \in Nat :
        /\ k = CustomerCovered /\ u = UncoveredDelta
        /\ Payment[c].Amount >= 0 => k >= 0
        /\ Payment[c].Amount <= 0 => u = 0
        /\ k = Payment[c].Amount - u /\ k + u = Payment[c].Amount
  BY <1>1, <1>3, CoveredParts
<1> DEFINE a == Payment[c].AccountID
           m == Payment[c].MerchantID
           R == Label(DeficitReserve)
<1>5. /\ c \in TxIDs /\ a \in Accounts /\ m \in Accounts
      /\ DeficitReserve \in Accounts
      /\ Label(a) \in Labels /\ R \in Labels
      /\ a /= DeficitReserve => Label(a) /= R
      /\ Payment[c].Amount \in Int
  BY <1>3, PaymentTypes, LabelsOfAccount
<1>0. PICK rec :
        rec = [TxID |-> c, AvailableOnCore |-> accSnapshot.OnlineAvailable,
               DeficitAmount |-> u, Reason |-> "reserve"]
  OBVIOUS
<1>6. /\ deficitLogs' = Append(deficitLogs, rec)
      /\ Finish(c, "DeficitCount", "DEFICIT")
      /\ UNCHANGED <<useDeficitReserve, seenHashes, batch>>
  BY <1>1, <1>4, <1>0 DEF ReplayReserve, FinishDeficit
<1>7. rec \in DeficitRecord /\ rec.TxID = c
  BY <1>3, <1>5, <1>0 DEF DeficitRecord
<1>8. PICK p \in {0, k} :
        c \in Q =>
          \A D \in SUBSET Labels :
            Credited(c, D) = IF Label(a) \in D THEN p ELSE 0
  BY <1>1, <1>2, <1>3, <1>4 DEF MoneyOf, PartPaid
<1>9. /\ LedgerTypeOK' /\ SparesCustomers
      /\ \A x \in QueuedTxIDs \ {c} : SameCredit(x)
      /\ c \in Q =>
           \A D \in SUBSET Labels :
             CreditedIn(entries', c, D) =
               (IF Label(a) \in D THEN p ELSE 0) + (IF R \in D THEN u ELSE 0)
  <2>1. CASE u > 0
    <3>1. PostDeficit(DeficitReserve, m, u, c)
      BY <1>1, <1>4, <2>1 DEF ReplayReserve, DebitDeficitReserve
    <3>2. /\ LedgerTypeOK' /\ SparesAllBut(DeficitReserve)
          /\ Journals(NewEntry("DEFICIT", c, R, Label(m), u))
      BY <1>3, <1>5, <3>1, PostDeficitEffect
    <3>3. SparesCustomers
      BY <1>3, <3>2, SparedCustomers
    <3> HIDE DEF R, a
    <3>4. /\ \A D \in SUBSET Labels :
               CreditedIn(entries', c, D) =
                 Credited(c, D) + (IF R \in D THEN u ELSE 0)
          /\ \A x \in QueuedTxIDs \ {c} : SameCredit(x)
      BY <1>3, <1>5, <3>2, PostedCredit
    <3>5. QED
      BY <1>8, <3>2, <3>3, <3>4
  <2>2. CASE ~(u > 0)
    <3>1. u = 0
      BY <2>2
    <3>2. UNCHANGED ledgerVars
      BY <1>1, <1>4, <2>2 DEF ReplayReserve
    <3>3. LedgerTypeOK' /\ SparesCustomers /\ \A x : SameCredit(x)
      BY <1>3, <3>2, LedgerLeftAlone
    <3> HIDE DEF R, a
    <3>4. \A D \in SUBSET Labels : CreditedIn(entries', c, D) = Credited(c, D)
      BY <3>3 DEF SameCredit
    <3>5. c \in Q =>
            \A D \in SUBSET Labels :
              CreditedIn(entries', c, D) =
                (IF Label(a) \in D THEN p ELSE 0) + (IF R \in D THEN u ELSE 0)
      BY <1>4, <1>8, <3>1, <3>4
    <3>6. QED
      BY <3>3, <3>5
  <2>3. QED
    BY <2>1, <2>2
<1>10. c \in Q => PartOf(CreditedIn(entries', c, Labels), Payment[c].Amount)
  <2>1. c \in Q => CreditedIn(entries', c, Labels) = p + u
    BY <1>5, <1>9
  <2>2. PartOf(p + u, Payment[c].Amount)
    BY <1>4, <1>5 DEF PartOf
  <2>3. QED
    BY <2>1, <2>2
<1>11. c \in Q /\ NotTheReserve(c) => DeficitPosted(rec)'
  <2>1. SUFFICES ASSUME c \in Q, a /= DeficitReserve
                 PROVE  DeficitPosted(rec)'
    BY DEF NotTheReserve
  <2>2. /\ CreditedIn(entries', c, {R}) = u
        /\ CreditedIn(entries', c, {Label(a)}) = p
    <3>1. {R} \in SUBSET Labels /\ {Label(a)} \in SUBSET Labels
      BY <1>5
    <3>2. Label(a) /= R
      BY <1>5, <2>1
    <3>3. u \in Int /\ p \in Int
      BY <1>4
    <3> HIDE DEF R, a
    <3>4. QED
      BY <1>9, <2>1, <3>1, <3>2, <3>3
  <2>3. /\ rec.TxID = c /\ rec.Reason = "reserve" /\ rec.DeficitAmount = u
    BY <1>0
  <2>4. p \in {0, Payment[c].Amount - u}
    BY <1>4
  <2>5. QED
    BY <2>2, <2>3, <2>4 DEF DeficitPosted, Credited
<1>12. "DEFICIT" \in Statuses \ {"PENDING"} /\ "DEFICIT" /= "RECONCILED"
  BY DEF Statuses
<1>13. ReplayInv(Q)'
  BY <1>1, <1>2, <1>6, <1>7, <1>9, <1>10, <1>11, <1>12, EndKeeps
<1>14. QED
  BY <1>9, <1>13

(* Legacy mode: the customer pays the whole amount, and is overdrawn.      *)
LEMMA ReplayLegacyPreserves ==
  ASSUME NEW Q, ReplayInv(Q), ReplayLegacy
  PROVE  ReplayInv(Q)' /\ SparesCustomers
<1>1. PICK c : c = current
  OBVIOUS
<1>2. replayPc = "legacy"
  BY DEF ReplayLegacy
<1>3. /\ LedgerTypeOK /\ c \in QueuedTxIDs /\ (c \in Q => MoneyOf(c))
      /\ entries \in Seq(LedgerEntry) /\ ReplayWell
      /\ accSnapshot \in [OnlineAvailable : Int, OfflineAllowance : Int]
  BY <1>1, <1>2, AtCurrent
<1>4. ~useDeficitReserve
  BY <1>2, <1>3 DEF ReplayWell
<1> DEFINE a == Payment[c].AccountID
           m == Payment[c].MerchantID
           n == Payment[c].Amount
           short == n - accSnapshot.OnlineAvailable
<1>5. /\ c \in TxIDs /\ a \in Accounts /\ m \in Accounts /\ n \in Int
      /\ Label(a) \in Labels
  BY <1>3, PaymentTypes
<1>0. PICK rec :
        rec = [TxID |-> c, AvailableOnCore |-> accSnapshot.OnlineAvailable,
               DeficitAmount |-> IF short < 0 THEN n ELSE short,
               Reason |-> "overdraft"]
  OBVIOUS
<1>6. /\ PostDeficit(a, m, n, c)
      /\ deficitLogs' = Append(deficitLogs, rec)
      /\ Finish(c, "DeficitCount", "DEFICIT")
      /\ UNCHANGED <<useDeficitReserve, seenHashes, batch>>
  BY <1>1, <1>0 DEF ReplayLegacy, FinishDeficit, RecordDeficit
<1>7. rec \in DeficitRecord /\ rec.TxID = c
  <2>1. (IF short < 0 THEN n ELSE short) \in Int
    BY <1>3, <1>5
  <2>2. QED
    BY <1>3, <1>5, <1>0, <2>1 DEF DeficitRecord
<1>8. c \in Q => Unpaid(c)
  BY <1>1, <1>2, <1>3 DEF MoneyOf
<1>9. LedgerTypeOK' /\ Journals(NewEntry("DEFICIT", c, Label(a), Label(m), n))
  BY <1>3, <1>5, <1>6, PostDeficitEffect
<1>10. /\ \A D \in SUBSET Labels :
            CreditedIn(entries', c, D) =
              Credited(c, D) + (IF Label(a) \in D THEN n ELSE 0)
       /\ \A x \in QueuedTxIDs \ {c} : SameCredit(x)
  BY <1>3, <1>5, <1>9, PostedCredit
<1>11. c \in Q =>
         \A D \in SUBSET Labels :
           CreditedIn(entries', c, D) = IF Label(a) \in D THEN n ELSE 0
  BY <1>5, <1>8, <1>10 DEF Unpaid
<1>12. c \in Q => PartOf(CreditedIn(entries', c, Labels), Payment[c].Amount)
  BY <1>5, <1>11 DEF PartOf
<1>13. c \in Q => DeficitPosted(rec)'
  <2>1. {Label(a)} \in SUBSET Labels
    BY <1>5
  <2>2. c \in Q => CreditedIn(entries', c, {Label(a)}) = n
    BY <1>11, <2>1
  <2>3. rec.TxID = c /\ rec.Reason /= "reserve"
    BY <1>0
  <2>4. QED
    BY <2>2, <2>3 DEF DeficitPosted, Credited
<1>14. "DEFICIT" \in Statuses \ {"PENDING"} /\ "DEFICIT" /= "RECONCILED"
  BY DEF Statuses
<1>15. ReplayInv(Q)'
  BY <1>1, <1>2, <1>6, <1>7, <1>9, <1>10, <1>12, <1>13, <1>14, EndKeeps
<1>16. QED
  BY <1>4, <1>15 DEF SparesCustomers

-----------------------------------------------------------------------------
(* The log that the server recovered, and the accounts that it seeded.     *)
LEMMA ReconInvInit == ReconInit => ReconInv
<1>1. SUFFICES ASSUME ReconInit PROVE ReconInv
  OBVIOUS
<1>2. /\ useDeficitReserve = TRUE /\ seenHashes = {} /\ deficitLogs = <<>>
      /\ replayPc = "idle" /\ batch = <<>> /\ current = NoTx
      /\ accSnapshot = NoSnapshot /\ report = NewReport(0)
  BY <1>1 DEF ReconInit, ReplayInit
<1>3. PICK r : r = Recovered
  OBVIOUS
<1>4. /\ file = [i \in DOMAIN r |-> Whole(r[i])] /\ synced = Len(r)
      /\ txMap = [tx \in TxIDs |->
                    IF tx \in ToSet(r) THEN "PENDING" ELSE Absent]
      /\ order = r /\ walOpen = TRUE /\ tornWrite = FALSE
      /\ acked = ToSet(r) /\ exposed = {}
  BY <1>1, <1>3 DEF ReconInit
<1>5. r \in Seq(QueuedTxIDs) /\ r \in Seq(TxIDs)
  BY <1>3, RecoveredAssumption, QueuedTxIDsAssumption
<1>6. /\ DOMAIN r = 1..Len(r) /\ Len(r) \in Nat
      /\ \A i \in 1..Len(r) : r[i] \in QueuedTxIDs /\ r[i] \in TxIDs
  BY <1>5
<1>7. /\ \A x : x \in ToSet(r) <=> \E i \in 1..Len(r) : r[i] = x
      /\ ToSet(r) \subseteq QueuedTxIDs /\ ToSet(r) \subseteq TxIDs
  BY <1>5, MembersOf
<1>8. /\ file \in Seq(Frame) /\ Len(file) = Len(r)
      /\ \A i \in 1..Len(r) : file[i].TxID = r[i] /\ file[i].whole
  <2>1. \A i \in 1..Len(r) : /\ Whole(r[i]) \in Frame
                             /\ Whole(r[i]).TxID = r[i] /\ Whole(r[i]).whole
    BY <1>6 DEF Whole, Frame
  <2>2. /\ file = [i \in 1..Len(r) |-> Whole(r[i])]
        /\ \A i \in 1..Len(r) : file[i] = Whole(r[i])
    BY <1>4, <1>6
  <2>3. file \in Seq(Frame) /\ Len(file) = Len(r)
    BY <1>6, <2>1, <2>2
  <2>4. QED
    BY <2>1, <2>2, <2>3
<1>9. /\ Present = ToSet(r)
      /\ \A tx \in Present : txMap[tx] = "PENDING"
      /\ \A tx \in TxIDs : txMap[tx] \in {"PENDING", Absent}
  BY <1>4, <1>7 DEF Present, Absent
<1>10. WALInv
  <2>1. WALTypeOK
    <3>1. synced \in 0..Len(file)
      BY <1>4, <1>6, <1>8
    <3>2. txMap \in [TxIDs -> Statuses \cup {Absent}]
      BY <1>4 DEF Statuses
    <3>3. walOpen \in BOOLEAN /\ tornWrite \in BOOLEAN
      BY <1>4
    <3>4. acked \subseteq TxIDs /\ exposed \subseteq acked
      BY <1>4, <1>7
    <3>5. QED
      BY <1>4, <1>5, <1>8, <3>1, <3>2, <3>3, <3>4 DEF WALTypeOK
  <2>2. AckedIsDurable
    <3>1. SUFFICES ASSUME NEW tx \in acked PROVE IsDurable(file, synced, tx)
      BY DEF AckedIsDurable
    <3>2. PICK i \in 1..Len(r) : r[i] = tx
      BY <1>4, <1>7
    <3>3. \A j \in 1..i : j \in 1..Len(r)
      BY <1>6
    <3>4. QED
      BY <1>4, <1>8, <3>2, <3>3 DEF IsDurable
  <2>3. WholeUnlessTorn
    BY <1>8 DEF WholeUnlessTorn
  <2>4. MapKnowsAcknowledged
    BY <1>4, <1>9 DEF MapKnowsAcknowledged
  <2>5. QED
    BY <2>1, <2>2, <2>3, <2>4 DEF WALInv
<1>11. LedgerTypeOK
  <2>1. /\ exists = SystemAccounts \cup Parties
        /\ balance = SeededBalance(opening)
        /\ reservations = <<>> /\ entries = <<>> /\ funding = NoEntry
    BY <1>1 DEF ReconInit
  <2>2. PICK b \in [Parties -> OpeningBalances] :
          opening = [a \in Accounts |-> IF a \in Parties THEN b[a] ELSE 0]
    BY <1>1 DEF ReconInit
  <2>3. opening \in [Accounts -> Int]
    <3>1. \A a \in Parties : b[a] \in Int
      BY <2>2, OpeningBalancesAssumption
    <3>2. \A a \in Accounts : (IF a \in Parties THEN b[a] ELSE 0) \in Int
      BY <3>1
    <3>3. QED
      BY <2>2, <3>2
  <2>4. balance \in [Buckets -> Int] /\ exists \in SUBSET Accounts
    BY <2>1, <2>3, SeededTypes
  <2>5. reservations \in Seq(Reservation) /\ entries \in Seq(LedgerEntry)
    BY <2>1
  <2>6. QED
    BY <2>1, <2>3, <2>4, <2>5 DEF LedgerTypeOK
<1>12. ReplayWell
  <2>1. NewReport(0) \in [{"TotalProcessed", "SuccessfulCount",
                           "DeficitCount", "DuplicateCount"} -> Nat]
    BY DEF NewReport
  <2>2. /\ deficitLogs \in Seq(DeficitRecord) /\ batch \in Seq(QueuedTxIDs)
        /\ accSnapshot \in [OnlineAvailable : Int, OfflineAllowance : Int]
        /\ replayPc \in ReplaySteps
    BY <1>2 DEF NoSnapshot, ReplaySteps
  <2>3. ReconTypeOK
    BY <1>2, <1>10, <1>11, <2>1, <2>2 DEF ReconTypeOK, WALInv
  <2>4. DOMAIN batch = {} /\ DOMAIN deficitLogs = {}
    BY <1>2
  <2>5. \A i \in 1..Len(file) : file[i].TxID \in QueuedTxIDs
    BY <1>6, <1>8
  <2>6. QED
    BY <1>2, <1>4, <1>7, <1>9, <1>10, <2>3, <2>4, <2>5 DEF ReplayWell
<1>13. NoneForgotten
  <2>1. \A tx : ~Replayed(tx)
    BY <1>2 DEF Replayed
  <2>2. /\ NewReport(0).TotalProcessed = 0 /\ NewReport(0).DeficitCount = 0
        /\ NewReport(0).SuccessfulCount = 0
        /\ NewReport(0).DuplicateCount = 0
    BY DEF NewReport
  <2>3. QED
    BY <1>2, <1>9, <2>1, <2>2 DEF NoneForgotten
<1>14. ASSUME NEW tx \in QueuedTxIDs PROVE MoneyOf(tx)
  <2>1. \A D : Credited(tx, D) = 0
    BY <1>1, CreditedNothing DEF Credited, ReconInit
  <2>2. tx \in TxIDs /\ tx /= NoTx /\ Payment[tx].Amount \in Int
    BY PaymentTypes
  <2>3. txMap[tx] /= "RECONCILED"
    BY <1>9, <2>2 DEF Absent
  <2>4. Unpaid(tx)
    BY <2>1 DEF Unpaid
  <2>5. PartOf(Credited(tx, Labels), Payment[tx].Amount)
    BY <2>1, <2>2 DEF PartOf
  <2>6. QED
    BY <1>2, <2>2, <2>3, <2>4, <2>5 DEF MoneyOf
<1>15. QED
  BY <1>12, <1>13, <1>14 DEF ReconInv, ReplayInv

(* Every step keeps the invariant and spares the customers.                *)
LEMMA ReconInvNext ==
  ASSUME ReconInv, [ReconNext]_reconVars
  PROVE  ReconInv' /\ SparesCustomers
<1>1. CASE \/ \E enabled \in BOOLEAN : SetUseDeficitReserve(enabled)
           \/ ReplayBegin
           \/ ReplayEnd
  BY <1>1, BetweenReplaysPreserves DEF ReconInv
<1>2. CASE \E i \in DOMAIN batch : ReplayDuplicate(i) \/ ReplayTake(i)
  BY <1>2, ReplayDuplicatePreserves, ReplayTakePreserves DEF ReconInv
<1>3. CASE \E err \in LedgerErrors : ReplayOffline(err) \/ ReplayOnline(err)
  BY <1>3, CommitPreserves DEF ReconInv
<1>4. CASE \E err \in LedgerErrors : ReplayCovered(err)
  BY <1>4, ReplayCoveredPreserves DEF ReconInv
<1>5. CASE \E err \in LedgerErrors : ReplayReserve(err)
  BY <1>5, ReplayReservePreserves DEF ReconInv
<1>6. CASE ReplayLegacy
  BY <1>6, ReplayLegacyPreserves DEF ReconInv
<1>7. CASE \E tx \in QueuedTxIDs, err \in WALErrors : QueueOffline(tx, err)
  BY <1>7, QueueOfflinePreserves DEF ReconInv
<1>8. CASE \/ \E tx \in OnlineTxIDs, err \in LedgerErrors :
                ReserveOnline(tx, err) \/ CommitOnline(tx, err)
           \/ \E a \in Parties, n \in Amounts, err \in LedgerErrors :
                AllocateOnline(a, n, err)
  BY <1>8, OnlinePreserves
<1>9. CASE Restart
  BY <1>9, RestartPreserves
<1>10. CASE UNCHANGED reconVars
  <2>1. LedgerTypeOK /\ UNCHANGED ledgerVars
        /\ UNCHANGED <<walVars, replayVars>>
    BY <1>10 DEF reconVars, ReconInv, ReplayInv, ReplayWell, ReconTypeOK
  <2>2. LedgerTypeOK' /\ SparesCustomers /\ \A tx : SameCredit(tx)
    BY <2>1, LedgerLeftAlone
  <2>3. QED
    BY <2>1, <2>2, LedgerStepKeeps DEF ReconInv
<1>11. QED
  BY <1>1, <1>2, <1>3, <1>4, <1>5, <1>6, <1>7, <1>8, <1>9, <1>10
     DEF ReconNext, ReplayStep

(* The invariant holds in every state that the server reaches.             *)
LEMMA ReconInvariant == ReconSpec => []ReconInv
<1>1. ReconInv /\ [ReconNext]_reconVars => ReconInv'
  BY ReconInvNext
<1>2. QED
  BY <1>1, ReconInvInit, PTL DEF ReconSpec

(***************************************************************************)
(* Type correctness of the reconciler with its ledger and its log, through *)
(* replays, restarts and the payments that come in between (m6_engine.go). *)
(***************************************************************************)
THEOREM ReconTypeCorrect == ReconSpec => []ReconTypeOK
<1>1. ReconInv => ReconTypeOK
  BY DEF ReconInv, ReplayInv, ReplayWell
<1>2. QED
  BY <1>1, ReconInvariant, PTL

(***************************************************************************)
(* Replay credits no merchant more than the payment: seenHashes and the    *)
(* order of the steps exclude that two replays, two frames of the same     *)
(* transaction, or a failed commit followed by a deficit pay twice.        *)
(***************************************************************************)
THEOREM PaidAtMostOnce == ReconSpec => []SettledAtMostOnce
<1>1. ReconInv => SettledAtMostOnce
  BY DEF ReconInv, ReplayInv, MoneyOf, SettledAtMostOnce
<1>2. QED
  BY <1>1, ReconInvariant, PTL

(***************************************************************************)
(* A transaction in the log is either pending or replayed, and the report  *)
(* of a replay accounts for each one of its batch, whatever is appended    *)
(* while Replay works on the list that ReadAllPending returned.            *)
(***************************************************************************)
THEOREM EveryTransactionAccounted == ReconSpec => []NoneForgotten
<1>1. ReconInv => NoneForgotten
  BY DEF ReconInv, ReplayInv
<1>2. QED
  BY <1>1, ReconInvariant, PTL

(***************************************************************************)
(* What Replay reports is what the ledger posted.  The code does not stop  *)
(* the deficit reserve from paying offline itself; then the customer's and *)
(* the reserve's part are debits of one account, and a deficit record says *)
(* nothing about either.  The theorem is about the other payments.         *)
(***************************************************************************)
THEOREM ReportsMatchTheLedger ==
  ASSUME \A tx \in QueuedTxIDs : NotTheReserve(tx)
  PROVE  ReconSpec => []OutcomesArePosted
<1>1. ASSUME ReconInv PROVE OutcomesArePosted
  <2>1. \A tx \in QueuedTxIDs : txMap[tx] = "RECONCILED" => PaidInFull(tx)
    BY <1>1 DEF ReconInv, ReplayInv, MoneyOf
  <2>2. ASSUME NEW i \in DOMAIN deficitLogs
        PROVE  DeficitPosted(deficitLogs[i])
    <3>1. deficitLogs[i].TxID \in QueuedTxIDs
      BY <1>1 DEF ReconInv, ReplayInv, ReplayWell, ReconTypeOK
    <3>2. QED
      BY <1>1, <3>1 DEF ReconInv, ReplayInv, MoneyOf
  <2>3. QED
    BY <2>1, <2>2 DEF OutcomesArePosted, PaidInFull, DeficitPosted
<1>2. ReconInv => OutcomesArePosted
  BY <1>1
<1>3. QED
  BY <1>2, ReconInvariant, PTL

(***************************************************************************)
(* "Never drop customer balance below zero!" (m6_engine.go:195): in the    *)
(* mode with the deficit reserve no step of the replay, and none of an     *)
(* online payment between two of them, overdraws an account other than     *)
(* the reserve.                                                            *)
(***************************************************************************)
THEOREM CustomersAreSpared == ReconSpec => ReserveSparesCustomers
<1>1. ReconInv /\ [ReconNext]_reconVars => [SparesCustomers]_reconVars
  BY ReconInvNext
<1>2. QED
  BY <1>1, ReconInvariant, PTL DEF ReconSpec, ReserveSparesCustomers

(***************************************************************************)
(* The log keeps its promise under the reconciler, which only sets the     *)
(* statuses: what was acknowledged is found by the recovery of any later   *)
(* restart of the server, unless a failed write tore a frame before it.    *)
(***************************************************************************)
THEOREM ReplayKeepsTheLog ==
  ReconSpec => [](OnlyTornFramesLose /\ MapKnowsAcknowledged)
<1>1. ReconInv => OnlyTornFramesLose /\ MapKnowsAcknowledged
  BY DurableSurvives DEF ReconInv, ReplayInv, ReplayWell, WALInv
<1>2. QED
  BY <1>1, ReconInvariant, PTL

=============================================================================
