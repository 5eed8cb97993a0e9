---------------------------- MODULE SumTheorems ----------------------------
(***************************************************************************)
(* Sums of the values of a function over a finite set, the SumFunction of  *)
(* the community modules: what the proofs need to know of balances that    *)
(* are added up over accounts and of amounts over journal entries.         *)
(*                                                                         *)
(* The sum is defined by a recursive function on the subsets of the index  *)
(* set.  Everything about it is proved by induction on their cardinality,  *)
(* and induction is stated with a set of numbers in the place of a         *)
(* predicate: the library's least-element theorem WFMin needs no more.     *)
(***************************************************************************)
EXTENDS Integers, FiniteSets, Functions, FiniteSetTheorems,
        WellFoundedInduction, TLAPS

-----------------------------------------------------------------------------
(* Induction.                                                              *)

(* A set of naturals that is not empty has a least member.                 *)
LEMMA NatLeastElement ==
  ASSUME NEW F \in SUBSET Nat, F # {}
  PROVE  \E n \in F : \A m \in F : n <= m
<1> DEFINE Less == {ss \in Nat \X Nat : ss[1] < ss[2]}
<1>1. IsWellFoundedOn(Less, Nat)
  BY NatLessThanWellFounded DEF OpToRel
<1>2. PICK n \in F : \A m \in F : ~ (<<m, n>> \in Less)
  <2> HIDE DEF Less
  <2>1. QED
    BY <1>1, WFMin
<1>3. ASSUME NEW m \in F, m < n PROVE FALSE
  <2>1. <<m, n>> \in Less
    BY <1>3
  <2>2. QED
    BY <1>2, <2>1
<1>4. \A m \in F : n <= m
  BY <1>3
<1>5. QED
  BY <1>4

(* A set with 0 and every successor of its members holds every natural.    *)
LEMMA NatSetInduction ==
  ASSUME NEW T, 0 \in T, \A n \in Nat : n \in T => n + 1 \in T
  PROVE  \A n \in Nat : n \in T
<1> DEFINE F == Nat \ T
<1>1. SUFFICES ASSUME F # {} PROVE FALSE
  OBVIOUS
<1>2. F \in SUBSET Nat
  OBVIOUS
<1>3. PICK n \in F : \A m \in F : n <= m
  <2> HIDE DEF F
  <2>1. QED
    BY <1>1, <1>2, NatLeastElement
<1>4. n \in Nat /\ n # 0
  OBVIOUS
<1>5. n - 1 \in Nat /\ n = (n - 1) + 1
  BY <1>4
<1>6. n - 1 \in F
  BY <1>5
<1>7. QED
  BY <1>3, <1>4, <1>6

(* A set of sets with {} and, with every subset of S, the subsets of S     *)
(* that have one element more, has the finite set S.                       *)
LEMMA FiniteSetInduction ==
  ASSUME NEW S, IsFiniteSet(S), NEW T, {} \in T,
         \A s \in SUBSET S : s \in T => \A x \in S \ s : s \cup {x} \in T
  PROVE  S \in T
<1> DEFINE Sized(n) == \A s \in SUBSET S : Cardinality(s) = n => s \in T
           N == {n \in Nat : Sized(n)}
<1>1. ASSUME NEW s \in SUBSET S
      PROVE  IsFiniteSet(s) /\ Cardinality(s) \in Nat
  BY FS_Subset, FS_CardinalityType
<1>2. Sized(0)
  BY <1>1, FS_EmptySet
<1>3. ASSUME NEW n \in Nat, Sized(n)
      PROVE  Sized(n + 1)
  <2>1. SUFFICES ASSUME NEW s \in SUBSET S, Cardinality(s) = n + 1
                 PROVE  s \in T
    OBVIOUS
  <2>2. PICK x \in s : TRUE
    <3>1. Cardinality({}) = 0 /\ n + 1 # 0
      BY FS_EmptySet
    <3>2. s # {}
      BY <2>1, <3>1
    <3>3. QED
      BY <3>2
  <2>3. s \ {x} \in SUBSET S /\ Cardinality(s \ {x}) = n
    <3>1. IsFiniteSet(s)
      BY <1>1
    <3>2. Cardinality(s \ {x}) = Cardinality(s) - 1
      BY <2>2, <3>1, FS_RemoveElement
    <3>3. QED
      BY <2>1, <3>2
  <2>4. s \ {x} \in T /\ x \in S \ (s \ {x}) /\ (s \ {x}) \cup {x} = s
    BY <1>3, <2>3
  <2>5. QED
    BY <2>3, <2>4
<1>4. \A n \in Nat : n \in N
  <2>1. 0 \in N /\ \A n \in Nat : n \in N => n + 1 \in N
    <3> HIDE DEF Sized
    <3> QED BY <1>2, <1>3
  <2> HIDE DEF N
  <2>2. QED
    BY <2>1, NatSetInduction
<1>5. QED
  BY <1>1, <1>4

-----------------------------------------------------------------------------
(***************************************************************************)
(* The recursive function behind SumFunctionOnSet: a table of the sums of  *)
(* all subsets, each obtained by taking away one element, always the same. *)
(***************************************************************************)
ElementOf(s) == CHOOSE x \in s : TRUE

IsTable(g, f, S) ==
  g = [s \in SUBSET S |-> IF s = {} THEN 0
                          ELSE f[ElementOf(s)] + g[s \ {ElementOf(s)}]]

Table(f, S) == CHOOSE g : IsTable(g, f, S)

(* The sum is the entry of the table for the whole set.                    *)
LEMMA SumIsTable ==
  ASSUME NEW f, NEW S
  PROVE  SumFunctionOnSet(f, S) = Table(f, S)[S]
BY DEF SumFunctionOnSet, FoldFunctionOnSet, MapThenFoldSet, Table, IsTable,
       ElementOf

(* The element that is taken away is one of the set's.                     *)
LEMMA ElementOfIsElement ==
  ASSUME NEW s, s # {}
  PROVE  ElementOf(s) \in s
BY DEF ElementOf

(* What a table says of a set.                                             *)
LEMMA TableValue ==
  ASSUME NEW g, NEW f, NEW S, IsTable(g, f, S), NEW s \in SUBSET S
  PROVE  g[s] = IF s = {} THEN 0
                ELSE f[ElementOf(s)] + g[s \ {ElementOf(s)}]
BY DEF IsTable

(* Two tables agree on a set on which their functions do.                  *)
LEMMA TablesAgree ==
  ASSUME NEW f1, NEW S1, NEW g1, IsTable(g1, f1, S1), IsFiniteSet(S1),
         NEW f2, NEW S2, NEW g2, IsTable(g2, f2, S2),
         NEW s \in SUBSET S1, s \subseteq S2, \A x \in s : f1[x] = f2[x]
  PROVE  g1[s] = g2[s]
<1> DEFINE Sized(n) == \A t \in SUBSET s : Cardinality(t) = n => g1[t] = g2[t]
           T == {n \in Nat : Sized(n)}
<1>1. ASSUME NEW t \in SUBSET s
      PROVE  IsFiniteSet(t) /\ Cardinality(t) \in Nat
  BY FS_Subset, FS_CardinalityType
<1>2. Sized(0)
  <2>1. SUFFICES ASSUME NEW t \in SUBSET s, Cardinality(t) = 0
                 PROVE  g1[t] = g2[t]
    OBVIOUS
  <2>2. t = {} /\ t \in SUBSET S1 /\ t \in SUBSET S2
    BY <1>1, <2>1, FS_EmptySet
  <2>3. g1[t] = 0 /\ g2[t] = 0
    BY <2>2, TableValue
  <2>4. QED
    BY <2>3
<1>3. ASSUME NEW n \in Nat, Sized(n)
      PROVE  Sized(n + 1)
  <2>1. SUFFICES ASSUME NEW t \in SUBSET s, Cardinality(t) = n + 1
                 PROVE  g1[t] = g2[t]
    OBVIOUS
  <2> DEFINE x == ElementOf(t)
  <2>2. t # {} /\ t \in SUBSET S1 /\ t \in SUBSET S2
    BY <2>1, FS_EmptySet
  <2>3. x \in t
    BY <2>2, ElementOfIsElement
  <2>4. t \ {x} \in SUBSET s /\ Cardinality(t \ {x}) = n
    <3>1. IsFiniteSet(t)
      BY <1>1
    <3>2. Cardinality(t \ {x}) = Cardinality(t) - 1
      BY <2>3, <3>1, FS_RemoveElement
    <3> HIDE DEF x
    <3>3. QED
      BY <2>1, <3>2
  <2>5. g1[t \ {x}] = g2[t \ {x}]
    BY <1>3, <2>4
  <2>6. g1[t] = f1[x] + g1[t \ {x}] /\ g2[t] = f2[x] + g2[t \ {x}]
    BY <2>2, TableValue
  <2>7. f1[x] = f2[x]
    BY <2>3
  <2>8. QED
    BY <2>5, <2>6, <2>7
<1>4. \A n \in Nat : n \in T
  <2>1. 0 \in T /\ \A n \in Nat : n \in T => n + 1 \in T
    <3> HIDE DEF Sized
    <3> QED BY <1>2, <1>3
  <2> HIDE DEF T
  <2>2. QED
    BY <2>1, NatSetInduction
<1>5. Sized(Cardinality(s))
  BY <1>1, <1>4
<1>6. QED
  BY <1>5

(* A finite set has a table, built up by the cardinality of the subsets.   *)
LEMMA TableExists ==
  ASSUME NEW f, NEW S, IsFiniteSet(S), \A x \in S : f[x] \in Int
  PROVE  /\ IsTable(Table(f, S), f, S)
         /\ Table(f, S) \in [SUBSET S -> Int]
<1> DEFINE UpTo(n) == {s \in SUBSET S : Cardinality(s) <= n}
           Rec(g, s) == IF s = {} THEN 0
                        ELSE f[ElementOf(s)] + g[s \ {ElementOf(s)}]
           Built(n) == \E g \in [UpTo(n) -> Int] :
                         \A s \in UpTo(n) : g[s] = Rec(g, s)
           T == {n \in Nat : Built(n)}
<1>1. ASSUME NEW s \in SUBSET S
      PROVE  IsFiniteSet(s) /\ Cardinality(s) \in Nat
  BY FS_Subset, FS_CardinalityType
<1>2. Built(0)
  <2> DEFINE g == [s \in UpTo(0) |-> 0]
  <2>1. \A s \in UpTo(0) : s = {}
    BY <1>1, FS_EmptySet
  <2>2. g \in [UpTo(0) -> Int]
    OBVIOUS
  <2>3. \A s \in UpTo(0) : g[s] = Rec(g, s)
    BY <2>1
  <2>4. QED
    BY <2>2, <2>3
<1>3. ASSUME NEW n \in Nat, Built(n)
      PROVE  Built(n + 1)
  <2>1. PICK g \in [UpTo(n) -> Int] : \A s \in UpTo(n) : g[s] = Rec(g, s)
    BY <1>3
  <2> DEFINE h == [s \in UpTo(n + 1) |->
                     IF s \in UpTo(n) THEN g[s] ELSE Rec(g, s)]
  <2>2. ASSUME NEW s \in UpTo(n + 1), s # {}
        PROVE  /\ ElementOf(s) \in S
               /\ s \ {ElementOf(s)} \in UpTo(n)
               /\ s \ {ElementOf(s)} \in UpTo(n + 1)
    <3>1. ElementOf(s) \in s
      BY <2>2, ElementOfIsElement
    <3>2. IsFiniteSet(s) /\ Cardinality(s) \in Nat /\ Cardinality(s) <= n + 1
      BY <1>1
    <3>3. Cardinality(s \ {ElementOf(s)}) = Cardinality(s) - 1
      BY <3>1, <3>2, FS_RemoveElement
    <3>4. QED
      BY <3>1, <3>2, <3>3
  <2>3. h \in [UpTo(n + 1) -> Int]
    <3>1. SUFFICES ASSUME NEW s \in UpTo(n + 1)
                   PROVE  (IF s \in UpTo(n) THEN g[s] ELSE Rec(g, s)) \in Int
      OBVIOUS
    <3>2. CASE s \in UpTo(n)
      BY <2>1, <3>2
    <3>3. CASE s \notin UpTo(n) /\ s = {}
      BY <3>3
    <3>4. CASE s \notin UpTo(n) /\ s # {}
      <4>1. f[ElementOf(s)] \in Int /\ g[s \ {ElementOf(s)}] \in Int
        BY <2>1, <2>2, <3>4
      <4>2. QED
        BY <3>4, <4>1
    <3>5. QED
      BY <3>2, <3>3, <3>4
  <2>4. ASSUME NEW s \in UpTo(n + 1)
        PROVE  h[s] = Rec(h, s)
    <3>1. h[s] = Rec(g, s)
      BY <2>1
    <3>2. CASE s = {}
      BY <3>1, <3>2
    <3>3. CASE s # {}
      <4>1. h[s \ {ElementOf(s)}] = g[s \ {ElementOf(s)}]
        BY <2>2, <3>3
      <4>2. QED
        BY <3>1, <3>3, <4>1
    <3>4. QED
      BY <3>2, <3>3
  <2>5. QED
    BY <2>3, <2>4
<1>4. \A n \in Nat : n \in T
  <2>1. 0 \in T /\ \A n \in Nat : n \in T => n + 1 \in T
    <3> HIDE DEF Built
    <3> QED BY <1>2, <1>3
  <2> HIDE DEF T
  <2>2. QED
    BY <2>1, NatSetInduction
<1>5. Built(Cardinality(S)) /\ UpTo(Cardinality(S)) = SUBSET S
  BY <1>1, <1>4, FS_Subset
<1>6. PICK g \in [SUBSET S -> Int] : \A s \in SUBSET S : g[s] = Rec(g, s)
  BY <1>5
<1>7. IsTable(g, f, S)
  BY <1>6 DEF IsTable
<1>8. IsTable(Table(f, S), f, S)
  BY <1>7 DEF Table
<1>9. \A s \in SUBSET S : Table(f, S)[s] = g[s]
  BY <1>7, <1>8, TablesAgree
<1>10. Table(f, S) \in [SUBSET S -> Int]
  <2>1. Table(f, S) = [s \in SUBSET S |-> Table(f, S)[s]]
    BY <1>8 DEF IsTable
  <2>2. QED
    BY <1>6, <1>9, <2>1
<1>11. QED
  BY <1>8, <1>10

(* It does not matter which element is taken away.                         *)
LEMMA TableAnyOrder ==
  ASSUME NEW f, NEW S, IsFiniteSet(S), \A x \in S : f[x] \in Int,
         NEW y \in S
  PROVE  Table(f, S)[S] = f[y] + Table(f, S)[S \ {y}]
<1> DEFINE g == Table(f, S)
<1>0. IsTable(g, f, S) /\ g \in [SUBSET S -> Int]
  BY TableExists
<1> HIDE DEF g
<1> DEFINE Sized(n) ==
             \A s \in SUBSET S : Cardinality(s) = n =>
               \A z \in s : g[s] = f[z] + g[s \ {z}]
           T == {n \in Nat : Sized(n)}
<1>1. ASSUME NEW s \in SUBSET S
      PROVE  IsFiniteSet(s) /\ Cardinality(s) \in Nat
  BY FS_Subset, FS_CardinalityType
<1>2. Sized(0)
  BY <1>1, FS_EmptySet
<1>3. ASSUME NEW n \in Nat, Sized(n)
      PROVE  Sized(n + 1)
  <2>1. SUFFICES ASSUME NEW s \in SUBSET S, Cardinality(s) = n + 1,
                        NEW z \in s
                 PROVE  g[s] = f[z] + g[s \ {z}]
    OBVIOUS
  <2> DEFINE x == ElementOf(s)
  <2>2. x \in s /\ g[s] = f[x] + g[s \ {x}]
    BY <1>0, ElementOfIsElement, TableValue
  <2>3. CASE x = z
    BY <2>2, <2>3
  <2>4. CASE x # z
    <3> HIDE DEF x
    <3>0. ASSUME NEW w \in s
          PROVE  s \ {w} \in SUBSET S /\ Cardinality(s \ {w}) = n
      <4>1. IsFiniteSet(s)
        BY <1>1
      <4>2. Cardinality(s \ {w}) = Cardinality(s) - 1
        BY <4>1, FS_RemoveElement
      <4>3. QED
        BY <2>1, <4>2
    <3>1. s \ {x} \in SUBSET S /\ Cardinality(s \ {x}) = n /\ z \in s \ {x}
      BY <2>2, <2>4, <3>0
    <3>2. s \ {z} \in SUBSET S /\ Cardinality(s \ {z}) = n /\ x \in s \ {z}
      BY <2>2, <2>4, <3>0
    <3>3. g[s \ {x}] = f[z] + g[(s \ {x}) \ {z}]
      BY <1>3, <3>1
    <3>4. g[s \ {z}] = f[x] + g[(s \ {z}) \ {x}]
      BY <1>3, <3>2
    <3>5. (s \ {x}) \ {z} = (s \ {z}) \ {x}
      OBVIOUS
    <3>6. /\ f[x] \in Int /\ f[z] \in Int
          /\ g[(s \ {z}) \ {x}] \in Int
      BY <1>0, <2>2
    <3>7. g[s] = f[x] + (f[z] + g[(s \ {z}) \ {x}])
      BY <2>2, <3>3, <3>5
    <3>8. f[x] + (f[z] + g[(s \ {z}) \ {x}])
            = f[z] + (f[x] + g[(s \ {z}) \ {x}])
      BY <3>6
    <3>9. QED
      BY <3>4, <3>7, <3>8
  <2>5. QED
    BY <2>3, <2>4
<1>4. \A n \in Nat : n \in T
  <2>1. 0 \in T /\ \A n \in Nat : n \in T => n + 1 \in T
    <3> HIDE DEF Sized
    <3> QED BY <1>2, <1>3
  <2> HIDE DEF T
  <2>2. QED
    BY <2>1, NatSetInduction
<1>5. Sized(Cardinality(S))
  BY <1>1, <1>4
<1>6. QED
  BY <1>5 DEF g

-----------------------------------------------------------------------------
(* What is used elsewhere.                                                 *)

(* The sum over no index is 0.                                             *)
THEOREM SumEmpty ==
  ASSUME NEW f
  PROVE  SumFunctionOnSet(f, {}) = 0
<1>1. IsTable(Table(f, {}), f, {})
  BY FS_EmptySet, TableExists
<1>2. QED
  BY <1>1, TableValue, SumIsTable

(* A sum of integers is an integer.                                        *)
THEOREM SumType ==
  ASSUME NEW f, NEW S, IsFiniteSet(S), \A x \in S : f[x] \in Int
  PROVE  SumFunctionOnSet(f, S) \in Int
<1>1. Table(f, S) \in [SUBSET S -> Int] /\ S \in SUBSET S
  BY TableExists
<1>2. Table(f, S)[S] \in Int
  BY <1>1
<1>3. QED
  BY <1>2, SumIsTable

(* Functions that agree on a set have the same sum over it.                *)
THEOREM SumSame ==
  ASSUME NEW f, NEW g, NEW S, IsFiniteSet(S),
         \A x \in S : f[x] \in Int /\ f[x] = g[x]
  PROVE  SumFunctionOnSet(f, S) = SumFunctionOnSet(g, S)
<1>1. IsTable(Table(f, S), f, S) /\ IsTable(Table(g, S), g, S)
  BY TableExists
<1>2. QED
  BY <1>1, TablesAgree, SumIsTable

(* Any index can be taken out of a sum,                                    *)
THEOREM SumRemove ==
  ASSUME NEW f, NEW S, IsFiniteSet(S), \A x \in S : f[x] \in Int, NEW y \in S
  PROVE  SumFunctionOnSet(f, S) = f[y] + SumFunctionOnSet(f, S \ {y})
<1>1. /\ IsTable(Table(f, S), f, S)
      /\ Table(f, S) \in [SUBSET S -> Int]
      /\ IsTable(Table(f, S \ {y}), f, S \ {y})
  BY FS_RemoveElement, TableExists
<1>2. Table(f, S)[S] = f[y] + Table(f, S)[S \ {y}]
  BY TableAnyOrder
<1>3. Table(f, S \ {y})[S \ {y}] = Table(f, S)[S \ {y}]
  BY <1>1, FS_RemoveElement, TablesAgree
<1>4. QED
  BY <1>2, <1>3, SumIsTable

(* and a new one put in.                                                   *)
THEOREM SumAdd ==
  ASSUME NEW f, NEW S, IsFiniteSet(S), NEW y, y \notin S,
         \A x \in S \cup {y} : f[x] \in Int
  PROVE  SumFunctionOnSet(f, S \cup {y}) = SumFunctionOnSet(f, S) + f[y]
<1>1. IsFiniteSet(S \cup {y}) /\ (S \cup {y}) \ {y} = S /\ y \in S \cup {y}
  BY FS_AddElement
<1>2. SumFunctionOnSet(f, S \cup {y}) = f[y] + SumFunctionOnSet(f, S)
  BY <1>1, SumRemove
<1>3. f[y] \in Int /\ SumFunctionOnSet(f, S) \in Int
  BY SumType
<1>4. QED
  BY <1>2, <1>3

(* Functions that differ at one index: their sums differ by as much.       *)
THEOREM SumUpdate ==
  ASSUME NEW f, NEW g, NEW S, IsFiniteSet(S), NEW y \in S,
         \A x \in S : f[x] \in Int /\ g[x] \in Int,
         \A x \in S \ {y} : f[x] = g[x]
  PROVE  SumFunctionOnSet(g, S) = SumFunctionOnSet(f, S) - f[y] + g[y]
<1>1. IsFiniteSet(S \ {y})
  BY FS_RemoveElement
<1>2. SumFunctionOnSet(f, S \ {y}) = SumFunctionOnSet(g, S \ {y})
  BY <1>1, SumSame
<1>3. /\ SumFunctionOnSet(f, S) = f[y] + SumFunctionOnSet(f, S \ {y})
      /\ SumFunctionOnSet(g, S) = g[y] + SumFunctionOnSet(g, S \ {y})
  BY SumRemove
<1>4. f[y] \in Int /\ g[y] \in Int /\ SumFunctionOnSet(f, S \ {y}) \in Int
  BY <1>1, SumType
<1>5. QED
  BY <1>2, <1>3, <1>4

(* Adding n at one index p adds n to the sums that p is in.                *)
THEOREM SumShift ==
  ASSUME NEW f, NEW g, NEW S, IsFiniteSet(S), NEW p, NEW n \in Int,
         \A x \in S : /\ f[x] \in Int
                      /\ g[x] = f[x] + (IF x = p THEN n ELSE 0)
  PROVE  SumFunctionOnSet(g, S) =
           SumFunctionOnSet(f, S) + (IF p \in S THEN n ELSE 0)
<1>1. SumFunctionOnSet(f, S) \in Int
  BY SumType
<1>2. CASE p \notin S
  <2>1. \A x \in S : f[x] \in Int /\ f[x] = g[x]
    BY <1>2
  <2>2. SumFunctionOnSet(f, S) = SumFunctionOnSet(g, S)
    BY <2>1, SumSame
  <2>3. QED
    BY <1>1, <1>2, <2>2
<1>3. CASE p \in S
  <2>1. /\ \A x \in S : f[x] \in Int /\ g[x] \in Int
        /\ \A x \in S \ {p} : f[x] = g[x]
        /\ g[p] = f[p] + n
    BY <1>3
  <2>2. SumFunctionOnSet(g, S) = SumFunctionOnSet(f, S) - f[p] + g[p]
    BY <1>3, <2>1, SumUpdate
  <2>3. f[p] \in Int
    BY <1>3
  <2>4. QED
    BY <1>1, <1>3, <2>1, <2>2, <2>3
<1>4. QED
  BY <1>2, <1>3

(* Moving n from index p to index q changes a sum by what crosses the      *)
(* border of its index set.                                                *)
THEOREM SumMove ==
  ASSUME NEW f, NEW g, NEW S, IsFiniteSet(S), NEW p, NEW q, NEW n \in Int,
         \A x \in S : /\ f[x] \in Int
                      /\ g[x] = f[x] - (IF x = p THEN n ELSE 0)
                                     + (IF x = q THEN n ELSE 0)
  PROVE  SumFunctionOnSet(g, S) =
           SumFunctionOnSet(f, S) - (IF p \in S THEN n ELSE 0)
                                  + (IF q \in S THEN n ELSE 0)
<1> DEFINE h == [x \in S |-> f[x] + (IF x = p THEN -n ELSE 0)]
<1>1. \A x \in S : f[x] \in Int /\ h[x] = f[x] + (IF x = p THEN -n ELSE 0)
  OBVIOUS
<1>2. \A x \in S : h[x] \in Int /\ g[x] = h[x] + (IF x = q THEN n ELSE 0)
  OBVIOUS
<1> HIDE DEF h
<1>3. SumFunctionOnSet(h, S) =
        SumFunctionOnSet(f, S) + (IF p \in S THEN -n ELSE 0)
  <2>1. -n \in Int
    OBVIOUS
  <2>2. QED
    BY <1>1, <2>1, SumShift
<1>4. SumFunctionOnSet(g, S) =
        SumFunctionOnSet(h, S) + (IF q \in S THEN n ELSE 0)
  BY <1>2, SumShift
<1>5. SumFunctionOnSet(f, S) \in Int
  BY SumType
<1>6. QED
  BY <1>3, <1>4, <1>5

(* A change at two indices changes a sum by as much.                       *)
THEOREM SumUpdateTwo ==
  ASSUME NEW f, NEW g, NEW S, IsFiniteSet(S), NEW p \in S, NEW q \in S, p # q,
         \A x \in S : f[x] \in Int /\ g[x] \in Int,
         \A x \in S \ {p, q} : f[x] = g[x]
  PROVE  SumFunctionOnSet(g, S) =
           SumFunctionOnSet(f, S) + ((g[p] - f[p]) + (g[q] - f[q]))
<1> DEFINE h == [x \in S |-> IF x = p THEN g[x] ELSE f[x]]
<1>1. \A x \in S : f[x] \in Int /\ h[x] \in Int /\ g[x] \in Int
  OBVIOUS
<1>2. /\ \A x \in S \ {p} : f[x] = h[x]
      /\ \A x \in S \ {q} : h[x] = g[x]
      /\ h[p] = g[p] /\ h[q] = f[q]
  OBVIOUS
<1> HIDE DEF h
<1>3. SumFunctionOnSet(h, S) = SumFunctionOnSet(f, S) - f[p] + h[p]
  BY <1>1, <1>2, SumUpdate
<1>4. SumFunctionOnSet(g, S) = SumFunctionOnSet(h, S) - h[q] + g[q]
  BY <1>1, <1>2, SumUpdate
<1>5. SumFunctionOnSet(f, S) \in Int
  BY SumType
<1>6. QED
  BY <1>1, <1>2, <1>3, <1>4, <1>5

(* Indices with the value 0 can be left out of a sum.                      *)
THEOREM SumOutsideZero ==
  ASSUME NEW f, NEW S, IsFiniteSet(S), NEW R \in SUBSET S,
         \A x \in S : f[x] \in Int, \A x \in S \ R : f[x] = 0
  PROVE  SumFunctionOnSet(f, R) = SumFunctionOnSet(f, S)
<1> DEFINE T == {s \in SUBSET (S \ R) :
                   SumFunctionOnSet(f, R \cup s) = SumFunctionOnSet(f, R)}
<1>1. IsFiniteSet(S \ R) /\ R \cup (S \ R) = S
  BY FS_Difference
<1>2. {} \in T
  <2>1. R \cup {} = R
    OBVIOUS
  <2>2. QED
    BY <2>1
<1>3. ASSUME NEW s \in SUBSET (S \ R), s \in T, NEW x \in (S \ R) \ s
      PROVE  s \cup {x} \in T
  <2>1. /\ IsFiniteSet(R \cup s)
        /\ x \notin R \cup s
        /\ R \cup (s \cup {x}) = (R \cup s) \cup {x}
        /\ f[x] = 0
    BY FS_Subset
  <2>2. SumFunctionOnSet(f, (R \cup s) \cup {x}) =
          SumFunctionOnSet(f, R \cup s) + f[x]
    BY <2>1, SumAdd
  <2>3. SumFunctionOnSet(f, R \cup s) \in Int
    BY <2>1, SumType
  <2>4. SumFunctionOnSet(f, R \cup s) = SumFunctionOnSet(f, R)
    BY <1>3
  <2>5. SumFunctionOnSet(f, R \cup (s \cup {x})) = SumFunctionOnSet(f, R)
    <3>1. SumFunctionOnSet(f, R \cup (s \cup {x})) =
            SumFunctionOnSet(f, R \cup s) + 0
      BY <2>1, <2>2
    <3>2. QED
      BY <2>3, <2>4, <3>1
  <2>6. QED
    BY <2>5
<1>4. S \ R \in T
  <2> HIDE DEF T
  <2>1. QED
    BY <1>1, <1>2, <1>3, FiniteSetInduction
<1>5. QED
  BY <1>1, <1>4

(* A sum of zeros is 0.                                                    *)
THEOREM SumOfZeros ==
  ASSUME NEW f, NEW S, IsFiniteSet(S), \A x \in S : f[x] = 0
  PROVE  SumFunctionOnSet(f, S) = 0
<1>1. {} \in SUBSET S /\ \A x \in S : f[x] \in Int
  OBVIOUS
<1>2. SumFunctionOnSet(f, {}) = SumFunctionOnSet(f, S)
  BY <1>1, SumOutsideZero
<1>3. QED
  BY <1>2, SumEmpty

(* A function that is nowhere greater has no greater sum.                  *)
THEOREM SumMonotone ==
  ASSUME NEW f, NEW g, NEW S, IsFiniteSet(S),
         \A x \in S : f[x] \in Int /\ g[x] \in Int /\ f[x] <= g[x]
  PROVE  SumFunctionOnSet(f, S) <= SumFunctionOnSet(g, S)
<1> DEFINE T == {s \in SUBSET S :
                   SumFunctionOnSet(f, s) <= SumFunctionOnSet(g, s)}
<1>1. {} \in T
  BY SumEmpty
<1>2. ASSUME NEW s \in SUBSET S, s \in T, NEW x \in S \ s
      PROVE  s \cup {x} \in T
  <2>1. IsFiniteSet(s)
    BY FS_Subset
  <2>2. /\ SumFunctionOnSet(f, s \cup {x}) = SumFunctionOnSet(f, s) + f[x]
        /\ SumFunctionOnSet(g, s \cup {x}) = SumFunctionOnSet(g, s) + g[x]
    BY <2>1, SumAdd
  <2>3. SumFunctionOnSet(f, s) \in Int /\ SumFunctionOnSet(g, s) \in Int
    BY <2>1, SumType
  <2>4. f[x] \in Int /\ g[x] \in Int /\ f[x] <= g[x]
    OBVIOUS
  <2>5. SumFunctionOnSet(f, s) <= SumFunctionOnSet(g, s)
    BY <1>2
  <2>6. QED
    BY <2>2, <2>3, <2>4, <2>5
<1>3. S \in T
  <2> HIDE DEF T
  <2>1. QED
    BY <1>1, <1>2, FiniteSetInduction
<1>4. QED
  BY <1>3

(* A table of values that grows by one row grows in sum by that row.       *)
THEOREM SumOneMore ==
  ASSUME NEW n \in Nat, NEW f, NEW g,
         DOMAIN f = 1..n, DOMAIN g = 1..(n + 1),
         \A i \in 1..n : f[i] \in Int /\ f[i] = g[i], g[n + 1] \in Int
  PROVE  /\ SumFunction(f) \in Int
         /\ SumFunction(g) = SumFunction(f) + g[n + 1]
<1>1. IsFiniteSet(1..n)
  BY FS_Interval
<1>2. n + 1 \notin 1..n /\ 1..(n + 1) = (1..n) \cup {n + 1}
  OBVIOUS
<1>3. SumFunctionOnSet(f, 1..n) \in Int
  BY <1>1, SumType
<1>4. SumFunctionOnSet(f, 1..n) = SumFunctionOnSet(g, 1..n)
  BY <1>1, SumSame
<1>5. \A i \in (1..n) \cup {n + 1} : g[i] \in Int
  OBVIOUS
<1>6. SumFunctionOnSet(g, (1..n) \cup {n + 1}) =
        SumFunctionOnSet(g, 1..n) + g[n + 1]
  <2> DEFINE S == 1..n
             k == n + 1
  <2>1. IsFiniteSet(S) /\ k \notin S /\ \A i \in S \cup {k} : g[i] \in Int
    BY <1>1, <1>2, <1>5
  <2> HIDE DEF S, k
  <2>2. SumFunctionOnSet(g, S \cup {k}) = SumFunctionOnSet(g, S) + g[k]
    BY <2>1, SumAdd
  <2>3. QED
    BY <2>2 DEF S, k
<1>7. QED
  BY <1>2, <1>3, <1>4, <1>6 DEF SumFunction

=============================================================================
