-------------------------- MODULE StandaloneProofs --------------------------
(***************************************************************************)
(* Proofs about the all-in-one program, for any accounts, transactions and *)
(* numbers of payments and replays: the books balance, and an account but  *)
(* the deficit reserve is overdrawn by no more than negative payments took *)
(* from it.  None of it rests on the mutexes: what a handler reads and     *)
(* writes between two of them is one step.                                 *)
(***************************************************************************)
EXTENDS Standalone, SumTheorems, TLAPS

(* A payment request knows its transaction from its routing on, and its    *)
(* accounts from the screen on; it is answered when it is done, and        *)
(* settles when it is approved.                                            *)
RequestWell(r) ==
  /\ pc[r] \in {"append", "screen", "lock", "settle"} => txOf[r] \in TxIDs
  /\ pc[r] \in {"lock", "settle"} => {Payer(r), Payee(r)} \subseteq Opened
  /\ pc[r] /= "done" => resp[r] = "none"
  /\ \A tx \in TxIDs :
       settled[r][tx] = IF txOf[r] = tx /\ resp[r] = "APPROVED" THEN 1 ELSE 0

(* The payment that a replay is at has been settled but not taken off its  *)
(* batch.                                                                  *)
AtSettled(t, tx) ==
  IF pc[t] \in {"reserve", "journal"} /\ Head(batch[t]) = tx THEN 1 ELSE 0

(* A replay that settles has a payment between open accounts; what it has  *)
(* settled and what its batch still lists were listed by the log.          *)
ToggleWell(t) ==
  /\ pc[t] \in {"settle", "reserve", "journal"} =>
       batch[t] /= <<>> /\ {Payer(t), Payee(t)} \subseteq Opened
  /\ \A tx \in TxIDs :
       /\ pc[t] \in {"new", "pending"} => settled[t][tx] = 0
       /\ settled[t][tx] + Listings(batch[t], tx)
            <= Listings(order, tx) + AtSettled(t, tx)

(* The three equations of BooksBalance.                                    *)
BucketsAddUp == \A a \in Opened : total[a] = online[a] + allowance[a]

InTransit(a) == SumFunction([t \in Toggles |-> Unjournalled(t, a)])

JournalAddsUp ==
  \A a \in Opened : total[a] = OpeningTotal[a] + journalled[a] + InTransit(a)

DeficitsDue == SumFunction([t \in Toggles |-> DeficitDue(t)])

MoneyAddsUp == SumFunction(total) = SumFunction(OpeningTotal) + DeficitsDue

(* The inductive invariant.                                                *)
StandaloneInv ==
  /\ StandaloneTypeOK
  /\ OverdraftIsUnchecked
  /\ \A r \in Requests : RequestWell(r)
  /\ \A t \in Toggles : ToggleWell(t)
  /\ BucketsAddUp /\ JournalAddsUp /\ MoneyAddsUp

-----------------------------------------------------------------------------
(* Listings.                                                               *)

(* What is in the log is listed finitely often.                            *)
LEMMA ListingsType ==
  ASSUME NEW S, NEW s \in Seq(S), NEW tx
  PROVE  /\ IsFiniteSet({i \in DOMAIN s : s[i] = tx})
         /\ Listings(s, tx) \in Nat
<1>1. DOMAIN s = 1..Len(s) /\ Len(s) \in Nat
  OBVIOUS
<1>2. IsFiniteSet(DOMAIN s)
  BY <1>1, FS_Interval
<1>3. IsFiniteSet({i \in DOMAIN s : s[i] = tx})
  BY <1>2, FS_Subset
<1>4. QED
  BY <1>3, FS_CardinalityType DEF Listings

LEMMA ListingsOfNothing ==
  ASSUME NEW tx
  PROVE  Listings(<<>>, tx) = 0
<1>1. {i \in DOMAIN <<>> : <<>>[i] = tx} = {}
  OBVIOUS
<1>2. QED
  BY <1>1, FS_EmptySet DEF Listings

(* The log only grows.                                                     *)
LEMMA ListingsOfAppend ==
  ASSUME NEW S, NEW s \in Seq(S), NEW x \in S, NEW tx
  PROVE  Listings(s, tx) <= Listings(Append(s, x), tx)
<1> DEFINE Old == {i \in DOMAIN s : s[i] = tx}
           New == {i \in DOMAIN Append(s, x) : Append(s, x)[i] = tx}
<1>1. Old \subseteq New
  OBVIOUS
<1>2. Append(s, x) \in Seq(S)
  OBVIOUS
<1>3. IsFiniteSet(New)
  BY <1>2, ListingsType
<1> HIDE DEF Old, New
<1>4. Cardinality(Old) <= Cardinality(New)
  BY <1>1, <1>3, FS_Subset
<1>5. QED
  BY <1>4 DEF Listings, Old, New

(* A sorted copy lists what the log lists.                                 *)
LEMMA ListingsOfCopy ==
  ASSUME NEW S, NEW s \in Seq(S), NEW p \in Bijection(DOMAIN s, DOMAIN s),
         NEW tx
  PROVE  /\ [i \in DOMAIN s |-> s[p[i]]] \in Seq(S)
         /\ Listings([i \in DOMAIN s |-> s[p[i]]], tx) = Listings(s, tx)
<1> DEFINE c == [i \in DOMAIN s |-> s[p[i]]]
           There == {i \in DOMAIN c : c[i] = tx}
           Here == {i \in DOMAIN s : s[i] = tx}
           q == [i \in There |-> p[i]]
<1>1. /\ p \in [DOMAIN s -> DOMAIN s]
      /\ \A i, j \in DOMAIN s : p[i] = p[j] => i = j
      /\ \A j \in DOMAIN s : \E i \in DOMAIN s : p[i] = j
  BY DEF Bijection, Injection, Surjection, IsInjective
<1>2. c \in Seq(S)
  <2>1. DOMAIN s = 1..Len(s) /\ Len(s) \in Nat
    OBVIOUS
  <2>2. \A i \in 1..Len(s) : s[p[i]] \in S
    BY <1>1, <2>1
  <2>3. c = [i \in 1..Len(s) |-> s[p[i]]]
    BY <2>1
  <2>4. QED
    BY <2>1, <2>2, <2>3
<1>3. q \in [There -> Here]
  BY <1>1
<1>4. \A i, j \in There : q[i] = q[j] => i = j
  BY <1>1
<1>5. \A j \in Here : \E i \in There : q[i] = j
  BY <1>1
<1>6. IsFiniteSet(Here)
  BY ListingsType
<1> HIDE DEF There, Here, q, c
<1>7. q \in Bijection(There, Here)
  BY <1>3, <1>4, <1>5 DEF Bijection, Injection, Surjection, IsInjective
<1>8. Cardinality(There) = Cardinality(Here)
  <2>1. IsFiniteSet(There)
    BY <1>2, ListingsType DEF There
  <2>2. QED
    BY <1>7, <2>1, FS_Bijection DEF ExistsBijection
<1>9. QED
  BY <1>2, <1>8 DEF Listings, There, Here, c

(* Taking the first payment off a batch takes one listing of it.           *)
LEMMA ListingsOfTail ==
  ASSUME NEW S, NEW s \in Seq(S), s /= <<>>, NEW tx
  PROVE  /\ Tail(s) \in Seq(S)
         /\ Listings(s, tx) =
              Listings(Tail(s), tx) + (IF Head(s) = tx THEN 1 ELSE 0)
<1> DEFINE t == Tail(s)
           Rest == {i \in DOMAIN t : t[i] = tx}
           Later == {i \in DOMAIN s : s[i] = tx} \ {1}
           q == [i \in Rest |-> i + 1]
<1>1. /\ t \in Seq(S) /\ Len(s) \in Nat /\ Len(s) > 0
      /\ DOMAIN s = 1..Len(s) /\ DOMAIN t = 1..(Len(s) - 1)
      /\ \A i \in 1..(Len(s) - 1) : t[i] = s[i + 1]
      /\ Head(s) = s[1]
  OBVIOUS
<1>2. q \in [Rest -> Later]
  BY <1>1
<1>3. \A i, j \in Rest : q[i] = q[j] => i = j
  BY <1>1
<1>4. \A j \in Later : \E i \in Rest : q[i] = j
  <2>1. SUFFICES ASSUME NEW j \in Later PROVE j - 1 \in Rest /\ q[j - 1] = j
    OBVIOUS
  <2>2. j - 1 \in 1..(Len(s) - 1) /\ (j - 1) + 1 = j /\ s[j] = tx
    BY <1>1
  <2>3. j - 1 \in Rest
    BY <1>1, <2>2
  <2>4. QED
    BY <2>2, <2>3
<1>5. IsFiniteSet(Rest) /\ Cardinality(Rest) \in Nat
  BY <1>1, ListingsType DEF Listings
<1>6. IsFiniteSet({i \in DOMAIN s : s[i] = tx})
  BY ListingsType
<1>7. 1 \in {i \in DOMAIN s : s[i] = tx} <=> Head(s) = tx
  BY <1>1
<1> HIDE DEF Rest, q, t
<1>8. Cardinality(Later) = Cardinality(Rest)
  <2> HIDE DEF Later
  <2>1. q \in Bijection(Rest, Later)
    BY <1>2, <1>3, <1>4 DEF Bijection, Injection, Surjection, IsInjective
  <2>2. QED
    BY <1>5, <2>1, FS_Bijection DEF ExistsBijection
<1>9. Cardinality({i \in DOMAIN s : s[i] = tx}) =
        Cardinality(Rest) + (IF Head(s) = tx THEN 1 ELSE 0)
  <2> DEFINE All == {i \in DOMAIN s : s[i] = tx}
  <2>1. Later = All \ {1} /\ IsFiniteSet(All)
    BY <1>6
  <2>2. 1 \in All <=> Head(s) = tx
    BY <1>7
  <2> HIDE DEF All, Later
  <2>3. CASE Head(s) = tx
    <3>1. Cardinality(All \ {1}) = Cardinality(All) - 1
      BY <2>1, <2>2, <2>3, FS_RemoveElement
    <3>2. Cardinality(All) \in Nat
      BY <2>1, FS_CardinalityType
    <3>3. QED
      BY <1>5, <1>8, <2>1, <2>3, <3>1, <3>2 DEF All
  <2>4. CASE Head(s) /= tx
    <3>1. Later = All
      BY <2>1, <2>2, <2>4
    <3>2. QED
      BY <1>5, <1>8, <2>4, <3>1 DEF All
  <2>5. QED
    BY <2>3, <2>4
<1>10. QED
  BY <1>1, <1>9 DEF Listings, Rest, t

-----------------------------------------------------------------------------
(* Sums over the replays.                                                  *)

(* A request is no replay, so that its transaction is its own.             *)
LEMMA WhoIsWho ==
  /\ \A r \in Requests : /\ r \in Handlers /\ r \notin Toggles
                         /\ CurrentTx(r) = txOf[r]
                         /\ CurrentTx(r)' = txOf'[r]
  /\ \A t \in Toggles : /\ t \in Handlers /\ t \notin Requests
                        /\ CurrentTx(t) = Head(batch[t])
                        /\ CurrentTx(t)' = Head(batch'[t])
BY HandlersAssumption DEF Handlers, CurrentTx

(* What is between the balances and the journal is a whole number.         *)
LEMMA TransitTypes ==
  ASSUME StandaloneTypeOK, NEW t \in Toggles, ToggleWell(t)
  PROVE  /\ \A a \in Opened : Unjournalled(t, a) \in Int
         /\ DeficitDue(t) \in Int
<1>1. /\ owed[t].charge \in Int /\ owed[t].deficit \in Int
      /\ batch[t] \in Seq(TxIDs)
  BY DEF StandaloneTypeOK
<1>2. CASE pc[t] \in {"reserve", "journal"}
  <2>1. CurrentTx(t) \in TxIDs
    BY <1>1, <1>2, WhoIsWho DEF ToggleWell
  <2>2. Payment[CurrentTx(t)].Amount \in Int
    BY <2>1, PaymentAssumption
  <2>3. QED
    BY <1>1, <2>2 DEF Unjournalled, DeficitDue
<1>3. CASE pc[t] \notin {"reserve", "journal"}
  BY <1>1, <1>3 DEF Unjournalled, DeficitDue
<1>4. QED
  BY <1>2, <1>3

(* A replay that a step leaves alone is as well as it was, and has as much *)
(* in transit: the log only grows.                                         *)
LEMMA ReplayLeftAlone ==
  ASSUME StandaloneTypeOK, NEW t \in Toggles, ToggleWell(t),
         pc'[t] = pc[t], batch'[t] = batch[t], owed'[t] = owed[t],
         settled'[t] = settled[t], order' \in Seq(TxIDs),
         \A tx \in TxIDs : Listings(order, tx) <= Listings(order', tx)
  PROVE  /\ ToggleWell(t)'
         /\ \A a \in Opened : Unjournalled(t, a)' = Unjournalled(t, a)
         /\ DeficitDue(t)' = DeficitDue(t)
<1>1. CurrentTx(t)' = CurrentTx(t)
  BY WhoIsWho
<1>2. Payer(t)' = Payer(t) /\ Payee(t)' = Payee(t)
  BY <1>1 DEF Payer, Payee
<1>3. ASSUME NEW tx \in TxIDs
      PROVE  settled'[t][tx] + Listings(batch'[t], tx)
               <= Listings(order', tx) + AtSettled(t, tx)'
  <2>1. /\ Listings(order, tx) \in Nat /\ Listings(order', tx) \in Nat
        /\ Listings(batch[t], tx) \in Nat /\ settled[t][tx] \in Nat
    <3>1. /\ order \in Seq(TxIDs) /\ order' \in Seq(TxIDs)
          /\ batch[t] \in Seq(TxIDs) /\ settled[t] \in [TxIDs -> Nat]
      BY WhoIsWho DEF StandaloneTypeOK
    <3>2. QED
      BY <3>1, ListingsType
  <2>2. AtSettled(t, tx)' = AtSettled(t, tx) /\ AtSettled(t, tx) \in Nat
    BY DEF AtSettled
  <2>3. settled[t][tx] + Listings(batch[t], tx)
          <= Listings(order, tx) + AtSettled(t, tx)
    BY DEF ToggleWell
  <2>4. Listings(order, tx) <= Listings(order', tx)
    OBVIOUS
  <2>5. batch'[t] = batch[t] /\ settled'[t] = settled[t]
    OBVIOUS
  <2> QED
    BY <2>1, <2>2, <2>3, <2>4, <2>5
<1>4. ToggleWell(t)'
  BY <1>2, <1>3 DEF ToggleWell
<1>5. QED
  BY <1>1, <1>2, <1>4 DEF Unjournalled, DeficitDue

(* A payment request that a step leaves alone is as well as it was.        *)
LEMMA RequestLeftAlone ==
  ASSUME NEW r \in Requests, RequestWell(r),
         pc'[r] = pc[r], txOf'[r] = txOf[r], resp'[r] = resp[r],
         settled'[r] = settled[r]
  PROVE  RequestWell(r)'
<1>1. Payer(r)' = Payer(r) /\ Payee(r)' = Payee(r)
  BY WhoIsWho DEF Payer, Payee
<1>2. QED
  BY <1>1 DEF RequestWell

(* The accounts are opened with whole numbers.                             *)
LEMMA OpeningTypes ==
  /\ \A a \in Opened : OpeningTotal[a] \in Int
  /\ SumFunction(OpeningTotal) \in Int
<1>1. DOMAIN OpeningTotal = Opened /\ \A a \in Opened : OpeningTotal[a] \in Int
  BY OpeningAssumption DEF OpeningTotal
<1>2. QED
  BY <1>1, FiniteAssumption, SumType DEF SumFunction

(* The sums over the replays are whole numbers.                            *)
LEMMA SumTypes ==
  ASSUME StandaloneInv
  PROVE  DeficitsDue \in Int /\ \A a \in Opened : InTransit(a) \in Int
<1>1. \A t \in Toggles : /\ \A a \in Opened : Unjournalled(t, a) \in Int
                         /\ DeficitDue(t) \in Int
  BY TransitTypes DEF StandaloneInv
<1>2. DeficitsDue \in Int
  <2> DEFINE F == [t \in Toggles |-> DeficitDue(t)]
  <2>1. DOMAIN F = Toggles /\ \A t \in Toggles : F[t] \in Int
    BY <1>1
  <2>2. DeficitsDue = SumFunction(F)
    BY DEF DeficitsDue
  <2> HIDE DEF F
  <2>3. QED
    BY <2>1, <2>2, FiniteAssumption, SumType DEF SumFunction
<1>3. ASSUME NEW a \in Opened PROVE InTransit(a) \in Int
  <2> DEFINE F == [t \in Toggles |-> Unjournalled(t, a)]
  <2>1. DOMAIN F = Toggles /\ \A t \in Toggles : F[t] \in Int
    BY <1>1
  <2>2. InTransit(a) = SumFunction(F)
    BY DEF InTransit
  <2> HIDE DEF F
  <2>3. QED
    BY <2>1, <2>2, FiniteAssumption, SumType DEF SumFunction
<1>4. QED
  BY <1>2, <1>3

(* If no replay's part changes, the sums do not.                           *)
LEMMA SumsUnchanged ==
  ASSUME \A t \in Toggles :
           /\ \A a \in Opened : Unjournalled(t, a)' = Unjournalled(t, a)
           /\ DeficitDue(t)' = DeficitDue(t)
  PROVE  /\ \A a \in Opened : InTransit(a)' = InTransit(a)
         /\ DeficitsDue' = DeficitsDue
BY DEF InTransit, DeficitsDue

(* If one replay's part changes, the sums change by as much.               *)
LEMMA SumsOfOneReplay ==
  ASSUME StandaloneTypeOK, \A s \in Toggles : ToggleWell(s),
         NEW t \in Toggles,
         \A s \in Toggles \ {t} :
           /\ \A a \in Opened : Unjournalled(s, a)' = Unjournalled(s, a)
           /\ DeficitDue(s)' = DeficitDue(s),
         \A a \in Opened : Unjournalled(t, a)' \in Int,
         DeficitDue(t)' \in Int
  PROVE  /\ \A a \in Opened :
              /\ InTransit(a) \in Int
              /\ InTransit(a)' = InTransit(a) - Unjournalled(t, a)
                                              + Unjournalled(t, a)'
         /\ DeficitsDue \in Int
         /\ DeficitsDue' = DeficitsDue - DeficitDue(t) + DeficitDue(t)'
<1>1. ASSUME NEW a \in Opened
      PROVE  /\ InTransit(a) \in Int
             /\ InTransit(a)' = InTransit(a) - Unjournalled(t, a)
                                             + Unjournalled(t, a)'
  <2> DEFINE F == [s \in Toggles |-> Unjournalled(s, a)]
             G == [s \in Toggles |-> Unjournalled(s, a)']
  <2>1. \A s \in Toggles : F[s] \in Int /\ G[s] \in Int
    BY TransitTypes
  <2>2. \A s \in Toggles \ {t} : F[s] = G[s]
    OBVIOUS
  <2>3. /\ DOMAIN F = Toggles /\ DOMAIN G = Toggles
        /\ F[t] = Unjournalled(t, a) /\ G[t] = Unjournalled(t, a)'
    OBVIOUS
  <2>4. InTransit(a) = SumFunction(F) /\ InTransit(a)' = SumFunction(G)
    BY DEF InTransit
  <2> HIDE DEF F, G
  <2>5. SumFunctionOnSet(G, Toggles) =
          SumFunctionOnSet(F, Toggles) - F[t] + G[t]
    BY <2>1, <2>2, FiniteAssumption, SumUpdate
  <2>6. SumFunctionOnSet(F, Toggles) \in Int
    BY <2>1, FiniteAssumption, SumType
  <2>7. QED
    BY <2>3, <2>4, <2>5, <2>6 DEF SumFunction
<1>2. /\ DeficitsDue \in Int
      /\ DeficitsDue' = DeficitsDue - DeficitDue(t) + DeficitDue(t)'
  <2> DEFINE F == [s \in Toggles |-> DeficitDue(s)]
             G == [s \in Toggles |-> DeficitDue(s)']
  <2>1. \A s \in Toggles : F[s] \in Int /\ G[s] \in Int
    BY TransitTypes
  <2>2. \A s \in Toggles \ {t} : F[s] = G[s]
    OBVIOUS
  <2>3. /\ DOMAIN F = Toggles /\ DOMAIN G = Toggles
        /\ F[t] = DeficitDue(t) /\ G[t] = DeficitDue(t)'
    OBVIOUS
  <2>4. DeficitsDue = SumFunction(F) /\ DeficitsDue' = SumFunction(G)
    BY DEF DeficitsDue
  <2> HIDE DEF F, G
  <2>5. SumFunctionOnSet(G, Toggles) =
          SumFunctionOnSet(F, Toggles) - F[t] + G[t]
    BY <2>1, <2>2, FiniteAssumption, SumUpdate
  <2>6. SumFunctionOnSet(F, Toggles) \in Int
    BY <2>1, FiniteAssumption, SumType
  <2>7. QED
    BY <2>3, <2>4, <2>5, <2>6 DEF SumFunction
<1>3. QED
  BY <1>1, <1>2

-----------------------------------------------------------------------------
(* What negative payments have taken.                                      *)

(* TakenUnchecked, for a table s of what has been settled.                 *)
TakenIn(s, a) ==
  SumFunction([e \in Handlers \X TxIDs |->
                 s[e[1]][e[2]] * Undercut(e[2], a)])

LEMMA TakenIsIn ==
  ASSUME NEW a
  PROVE  /\ TakenUnchecked(a) = TakenIn(settled, a)
         /\ TakenUnchecked(a)' = TakenIn(settled', a)
BY DEF TakenUnchecked, TakenIn, Undercut

LEMMA UndercutType ==
  ASSUME NEW tx \in TxIDs, NEW a
  PROVE  Undercut(tx, a) \in Nat
BY PaymentAssumption DEF Undercut

(* There are finitely many payments and handlers to settle them.           *)
LEMMA HandlersFinite ==
  IsFiniteSet(Handlers \X TxIDs)
BY FiniteAssumption, FS_Union, FS_Product DEF Handlers

(* A table of how often each handler has settled each transaction.         *)
Settlements == [Handlers -> [TxIDs -> Nat]]

(* What was taken is never negative.                                       *)
LEMMA TakenType ==
  ASSUME NEW s \in Settlements, NEW a
  PROVE  TakenIn(s, a) \in Nat
<1> DEFINE S == Handlers \X TxIDs
           F == [e \in S |-> s[e[1]][e[2]] * Undercut(e[2], a)]
           Z == [e \in S |-> 0]
<1>1. ASSUME NEW e \in S PROVE F[e] \in Nat
  <2>1. s[e[1]][e[2]] \in Nat /\ Undercut(e[2], a) \in Nat
    BY UndercutType DEF Settlements
  <2>2. PICK k \in Nat : k = s[e[1]][e[2]]
    BY <2>1
  <2>3. PICK u \in Nat : u = Undercut(e[2], a)
    BY <2>1
  <2>4. F[e] = k * u
    BY <2>2, <2>3
  <2>5. k * u \in Nat
    BY ONLY k \in Nat, u \in Nat
  <2>6. QED
    BY <2>4, <2>5
<1>2. IsFiniteSet(S)
  BY HandlersFinite
<1>3. TakenIn(s, a) = SumFunction(F) /\ DOMAIN F = S
  BY DEF TakenIn
<1>4. \A e \in S : Z[e] = 0
  OBVIOUS
<1> HIDE DEF F, Z, S
<1>5. SumFunctionOnSet(Z, S) = 0
  BY <1>2, <1>4, SumOfZeros
<1>6. SumFunctionOnSet(Z, S) <= SumFunctionOnSet(F, S)
  BY <1>1, <1>2, <1>4, SumMonotone
<1>7. SumFunctionOnSet(F, S) \in Int
  BY <1>1, <1>2, SumType
<1>8. QED
  BY <1>3, <1>5, <1>6, <1>7 DEF SumFunction

(* Settling tx once more takes its undercut once more.                     *)
LEMMA TakenGrows ==
  ASSUME NEW s \in Settlements, NEW z \in Settlements,
         NEW h \in Handlers, NEW tx \in TxIDs,
         \A g \in Handlers \ {h} : z[g] = s[g],
         \A x \in TxIDs : z[h][x] = s[h][x] + (IF tx = x THEN 1 ELSE 0),
         NEW a
  PROVE  /\ TakenIn(s, a) \in Nat
         /\ TakenIn(z, a) = TakenIn(s, a) + Undercut(tx, a)
<1> DEFINE S == Handlers \X TxIDs
           F == [e \in S |-> s[e[1]][e[2]] * Undercut(e[2], a)]
           G == [e \in S |-> z[e[1]][e[2]] * Undercut(e[2], a)]
<1>1. PICK u \in Nat : u = Undercut(tx, a)
  BY UndercutType
<1>2. ASSUME NEW e \in S
      PROVE  /\ F[e] \in Int
             /\ G[e] = F[e] + (IF e = <<h, tx>> THEN u ELSE 0)
  <2>1. PICK g \in Handlers, x \in TxIDs : e = <<g, x>>
    OBVIOUS
  <2>2. s[g][x] \in Nat /\ Undercut(x, a) \in Nat
    BY UndercutType DEF Settlements
  <2>3. PICK k \in Nat : k = s[g][x]
    BY <2>2
  <2>4. PICK v \in Nat : v = Undercut(x, a)
    BY <2>2
  <2>5. F[e] = k * v /\ G[e] = z[g][x] * v
    BY <2>1, <2>3, <2>4
  <2>6. k * v \in Int
    BY ONLY k \in Nat, v \in Nat
  <2>7. CASE g = h /\ x = tx
    <3>1. z[g][x] = k + 1 /\ v = u /\ e = <<h, tx>>
      BY <1>1, <2>1, <2>3, <2>4, <2>7
    <3>2. (k + 1) * v = k * v + v
      BY ONLY k \in Nat, v \in Nat
    <3>3. QED
      BY <2>5, <2>6, <3>1, <3>2
  <2>8. CASE ~(g = h /\ x = tx)
    <3>1. z[g][x] = k /\ e # <<h, tx>>
      BY <2>1, <2>2, <2>3, <2>8
    <3>2. QED
      BY <2>5, <2>6, <3>1
  <2>9. QED
    BY <2>7, <2>8
<1>3. IsFiniteSet(S) /\ <<h, tx>> \in S
  BY HandlersFinite
<1>4. /\ TakenIn(s, a) = SumFunction(F) /\ DOMAIN F = S
      /\ TakenIn(z, a) = SumFunction(G) /\ DOMAIN G = S
  BY DEF TakenIn
<1> HIDE DEF F, G, S
<1>5. SumFunctionOnSet(G, S) = SumFunctionOnSet(F, S) + u
  <2>1. PICK q \in S : q = <<h, tx>>
    BY <1>3
  <2>2. u \in Int
    OBVIOUS
  <2>3. \A e \in S : /\ F[e] \in Int
                     /\ G[e] = F[e] + (IF e = q THEN u ELSE 0)
    BY <1>2, <2>1
  <2>4. SumFunctionOnSet(G, S) =
          SumFunctionOnSet(F, S) + (IF q \in S THEN u ELSE 0)
    BY ONLY <1>3, <2>2, <2>3, SumShift
  <2>5. QED
    BY <2>4
<1>6. TakenIn(s, a) \in Nat
  BY TakenType
<1>7. QED
  BY <1>1, <1>4, <1>5, <1>6 DEF SumFunction

-----------------------------------------------------------------------------
(* The steps.                                                              *)

(* Before the first request.                                               *)
LEMMA StandaloneInvInit == StandaloneInit => StandaloneInv
<1>1. SUFFICES ASSUME StandaloneInit PROVE StandaloneInv
  OBVIOUS
<1>2. /\ total \in [Opened -> Int] /\ online \in [Opened -> Int]
      /\ allowance \in [Opened -> Int] /\ journalled \in [Opened -> Int]
  BY <1>1, OpeningAssumption DEF StandaloneInit
<1>3. /\ owed \in [Toggles -> [charge : Int, deficit : Nat]]
      /\ batch \in [Toggles -> Seq(TxIDs)]
      /\ settled \in [Handlers -> [TxIDs -> Nat]]
  BY <1>1 DEF StandaloneInit, NoSplit
<1>4. StandaloneTypeOK
  BY <1>1, <1>2, <1>3
     DEF StandaloneInit, StandaloneTypeOK, Networks, Steps, Answers
<1>5. OverdraftIsUnchecked
  <2>1. settled \in Settlements
    BY <1>3 DEF Settlements
  <2>2. \A a \in Opened : TakenUnchecked(a) \in Nat
    BY <2>1, TakenIsIn, TakenType
  <2>3. \A a \in Opened : online[a] \in Nat /\ allowance[a] \in Nat
    BY <1>1, OpeningAssumption DEF StandaloneInit
  <2>4. QED
    BY <2>2, <2>3 DEF OverdraftIsUnchecked
<1>6. \A r \in Requests : RequestWell(r)
  BY <1>1, WhoIsWho DEF StandaloneInit, RequestWell
<1>7. ASSUME NEW t \in Toggles PROVE ToggleWell(t)
  <2>1. pc[t] = "new" /\ batch[t] = <<>> /\ order = <<>>
    BY <1>1, WhoIsWho DEF StandaloneInit
  <2>2. \A tx \in TxIDs : settled[t][tx] = 0
    BY <1>1, WhoIsWho DEF StandaloneInit
  <2>3. \A tx \in TxIDs : Listings(batch[t], tx) = 0 /\ Listings(order, tx) = 0
    BY <2>1, ListingsOfNothing
  <2>4. QED
    BY <2>1, <2>2, <2>3 DEF ToggleWell, AtSettled
<1>8. /\ \A t \in Toggles, a \in Opened : Unjournalled(t, a) = 0
      /\ \A t \in Toggles : DeficitDue(t) = 0
  BY <1>1, WhoIsWho DEF StandaloneInit, Unjournalled, DeficitDue
<1>9. \A a \in Opened : InTransit(a) = 0
  <2>1. SUFFICES ASSUME NEW a \in Opened PROVE InTransit(a) = 0
    OBVIOUS
  <2> DEFINE F == [t \in Toggles |-> Unjournalled(t, a)]
  <2>2. DOMAIN F = Toggles /\ \A t \in Toggles : F[t] = 0
    BY <1>8
  <2>3. InTransit(a) = SumFunction(F)
    BY DEF InTransit
  <2> HIDE DEF F
  <2>4. QED
    BY <2>2, <2>3, FiniteAssumption, SumOfZeros DEF SumFunction
<1>10. DeficitsDue = 0
  <2> DEFINE F == [t \in Toggles |-> DeficitDue(t)]
  <2>1. DOMAIN F = Toggles /\ \A t \in Toggles : F[t] = 0
    BY <1>8
  <2>2. DeficitsDue = SumFunction(F)
    BY DEF DeficitsDue
  <2> HIDE DEF F
  <2>3. QED
    BY <2>1, <2>2, FiniteAssumption, SumOfZeros DEF SumFunction
<1>11. BucketsAddUp
  BY <1>1 DEF StandaloneInit, BucketsAddUp
<1>12. total = OpeningTotal
  BY <1>1 DEF StandaloneInit, OpeningTotal
<1>13. JournalAddsUp
  <2>1. \A a \in Opened : journalled[a] = 0 /\ total[a] \in Int
    BY <1>1, <1>2 DEF StandaloneInit
  <2>2. QED
    BY <1>9, <1>12, <2>1 DEF JournalAddsUp
<1>14. MoneyAddsUp
  <2>1. SumFunction(OpeningTotal) \in Int
    <3>1. DOMAIN total = Opened /\ \A a \in Opened : total[a] \in Int
      BY <1>2
    <3>2. QED
      BY <1>12, <3>1, FiniteAssumption, SumType DEF SumFunction
  <2>2. QED
    BY <1>10, <1>12, <2>1 DEF MoneyAddsUp
<1>15. QED
  BY <1>4, <1>5, <1>6, <1>7, <1>11, <1>13, <1>14 DEF StandaloneInv

(* A step of a request that does not touch the money.                      *)
LEMMA RequestStepKeeps ==
  ASSUME StandaloneInv, StandaloneTypeOK', NEW r \in Requests,
         RequestWell(r)',
         \A h \in Handlers \ {r} : pc'[h] = pc[h] /\ settled'[h] = settled[h],
         \A q \in Requests \ {r} : txOf'[q] = txOf[q] /\ resp'[q] = resp[q],
         \A tx \in TxIDs : Listings(order, tx) <= Listings(order', tx),
         batch' = batch, owed' = owed
  PROVE  /\ \A q \in Requests : RequestWell(q)'
         /\ \A t \in Toggles : ToggleWell(t)'
         /\ \A a \in Opened : InTransit(a)' = InTransit(a)
         /\ DeficitsDue' = DeficitsDue
<1>1. ASSUME NEW q \in Requests PROVE RequestWell(q)'
  <2>1. CASE q = r
    BY <2>1
  <2>2. CASE q /= r
    <3>1. /\ pc'[q] = pc[q] /\ settled'[q] = settled[q]
          /\ txOf'[q] = txOf[q] /\ resp'[q] = resp[q] /\ RequestWell(q)
      BY <2>2, WhoIsWho DEF StandaloneInv
    <3>2. QED
      BY <3>1, RequestLeftAlone
  <2>3. QED
    BY <2>1, <2>2
<1>2. ASSUME NEW t \in Toggles
      PROVE  /\ ToggleWell(t)'
             /\ \A a \in Opened : Unjournalled(t, a)' = Unjournalled(t, a)
             /\ DeficitDue(t)' = DeficitDue(t)
  <2>1. /\ StandaloneTypeOK /\ ToggleWell(t)
        /\ pc'[t] = pc[t] /\ settled'[t] = settled[t]
        /\ batch'[t] = batch[t] /\ owed'[t] = owed[t]
        /\ order' \in Seq(TxIDs)
    BY WhoIsWho DEF StandaloneInv, StandaloneTypeOK
  <2>2. QED
    BY <2>1, ReplayLeftAlone
<1>3. QED
  BY <1>1, <1>2, SumsUnchanged

(* Where the balances and the sums stay the same, so do the equations.     *)
LEMMA MoneyUntouched ==
  ASSUME StandaloneInv,
         UNCHANGED <<online, allowance, total, journalled, settled>>,
         \A a \in Opened : InTransit(a)' = InTransit(a),
         DeficitsDue' = DeficitsDue
  PROVE  /\ OverdraftIsUnchecked'
         /\ BucketsAddUp' /\ JournalAddsUp' /\ MoneyAddsUp'
<1>1. \A a \in Opened : TakenUnchecked(a)' = TakenUnchecked(a)
  BY TakenIsIn
<1>2. OverdraftIsUnchecked'
  BY <1>1 DEF StandaloneInv, OverdraftIsUnchecked
<1>3. BucketsAddUp' /\ JournalAddsUp' /\ MoneyAddsUp'
  BY DEF StandaloneInv, BucketsAddUp, JournalAddsUp, MoneyAddsUp
<1>4. QED
  BY <1>2, <1>3

(* A step that leaves the log as it is lists what it listed.               *)
LEMMA SameLog ==
  ASSUME StandaloneTypeOK, order' = order
  PROVE  \A tx \in TxIDs : Listings(order, tx) <= Listings(order', tx)
<1>1. \A tx \in TxIDs : Listings(order, tx) \in Nat
  BY ListingsType DEF StandaloneTypeOK
<1>2. QED
  BY <1>1

(* Routing, the fraud screen and the first mutex of a payment, and the     *)
(* entry of one that is queued: the request moves on or is answered.       *)
LEMMA RequestMovesPreserves ==
  ASSUME StandaloneInv, NEW r \in Requests,
         \/ \E tx \in TxIDs : Route(r, tx)
         \/ \E approved \in BOOLEAN : Screen(r, approved)
         \/ \E written \in BOOLEAN : AppendPayment(r, written)
         \/ Lock(r)
  PROVE  StandaloneInv'
<1>0. StandaloneTypeOK /\ RequestWell(r) /\ r \in Handlers /\ r \notin Toggles
  BY WhoIsWho DEF StandaloneInv
<1> DEFINE OthersKept ==
  /\ UNCHANGED <<online, allowance, total, journalled, batch, owed, settled>>
  /\ \A h \in Handlers \ {r} : pc'[h] = pc[h]
  /\ \A q \in Requests \ {r} : txOf'[q] = txOf[q] /\ resp'[q] = resp[q]
  /\ \A tx \in TxIDs : Listings(order, tx) <= Listings(order', tx)
<1>1. OthersKept /\ StandaloneTypeOK' /\ RequestWell(r)'
  <2>1. ASSUME NEW tx \in TxIDs, Route(r, tx)
      PROVE  OthersKept /\ StandaloneTypeOK' /\ RequestWell(r)'
    <3>1. /\ pc[r] = "new"
          /\ txOf' = [txOf EXCEPT ![r] = tx]
          /\ \/ \E s \in {"screen", "append"} :
                  pc' = [pc EXCEPT ![r] = s] /\ resp' = resp
             \/ /\ pc' = [pc EXCEPT ![r] = "done"]
                /\ resp' = [resp EXCEPT ![r] = "DECLINED"]
          /\ UNCHANGED <<network, accountVars, order, batch, owed, settled>>
      BY <2>1 DEF Route, GoTo, Answer
    <3>2. StandaloneTypeOK'
      BY <1>0, <3>1 DEF StandaloneTypeOK, accountVars, Steps, Answers
    <3>3. RequestWell(r)'
      BY <1>0, <3>1 DEF RequestWell, StandaloneTypeOK
    <3>4. QED
      BY <1>0, <3>1, <3>2, <3>3, SameLog DEF StandaloneTypeOK, accountVars
  <2>2. ASSUME NEW approved \in BOOLEAN, Screen(r, approved)
      PROVE  OthersKept /\ StandaloneTypeOK' /\ RequestWell(r)'
    <3>1. /\ pc[r] = "screen"
          /\ \/ /\ pc' = [pc EXCEPT ![r] = "lock"] /\ resp' = resp
                /\ {Payment[txOf[r]].AccountID, Payment[txOf[r]].MerchantID}
                     \subseteq Opened
             \/ /\ pc' = [pc EXCEPT ![r] = "done"]
                /\ resp' = [resp EXCEPT ![r] = "DECLINED"]
          /\ UNCHANGED <<txOf, network, accountVars, order, batch, owed,
                         settled>>
      BY <2>2 DEF Screen, GoTo, Answer
    <3>2. StandaloneTypeOK'
      BY <1>0, <3>1 DEF StandaloneTypeOK, accountVars, Steps, Answers
    <3>3. Payer(r)' = Payment[txOf[r]].AccountID
          /\ Payee(r)' = Payment[txOf[r]].MerchantID
      BY <3>1, WhoIsWho DEF Payer, Payee
    <3>4. RequestWell(r)'
      BY <1>0, <3>1, <3>3 DEF RequestWell, StandaloneTypeOK
    <3>5. QED
      BY <1>0, <3>1, <3>2, <3>4, SameLog DEF StandaloneTypeOK, accountVars
  <2>3. ASSUME NEW written \in BOOLEAN, AppendPayment(r, written)
      PROVE  OthersKept /\ StandaloneTypeOK' /\ RequestWell(r)'
    <3>1. /\ pc[r] = "append"
          /\ order' = order \/ order' = Append(order, txOf[r])
          /\ pc' = [pc EXCEPT ![r] = "done"]
          /\ resp' = [resp EXCEPT ![r] = "OFFLINE_AUTHORIZED"]
          /\ UNCHANGED <<txOf, network, accountVars, batch, owed, settled>>
      BY <2>3 DEF AppendPayment, GoTo, Answer
    <3>2. txOf[r] \in TxIDs /\ order \in Seq(TxIDs)
      BY <1>0, <3>1 DEF RequestWell, StandaloneTypeOK
    <3>3. order' \in Seq(TxIDs)
      BY <3>1, <3>2
    <3>4. StandaloneTypeOK'
      BY <1>0, <3>1, <3>3 DEF StandaloneTypeOK, accountVars, Steps, Answers
    <3>5. RequestWell(r)'
      BY <1>0, <3>1 DEF RequestWell, StandaloneTypeOK
    <3>6. \A tx \in TxIDs : Listings(order, tx) <= Listings(order', tx)
      BY <1>0, <3>1, <3>2, SameLog, ListingsOfAppend
    <3>7. QED
      BY <1>0, <3>1, <3>4, <3>5, <3>6 DEF StandaloneTypeOK, accountVars
  <2>4. ASSUME Lock(r)
      PROVE  OthersKept /\ StandaloneTypeOK' /\ RequestWell(r)'
    <3>1. /\ pc[r] = "lock"
          /\ \E s \in {"settle", "panicked"} : pc' = [pc EXCEPT ![r] = s]
          /\ \/ holder' = holder
             \/ \E a \in Opened : holder' = [holder EXCEPT ![a] = r]
          /\ UNCHANGED <<txOf, network, online, allowance, total, journalled,
                         order, resp, batch, owed, settled>>
      BY <2>4 DEF Lock, GoTo
    <3>2. StandaloneTypeOK'
      <4>1. holder' \in [Opened -> Handlers \cup {Nobody}]
        BY <1>0, <3>1 DEF StandaloneTypeOK
      <4>2. pc' \in [Handlers -> Steps]
        BY <1>0, <3>1 DEF StandaloneTypeOK, Steps
      <4>3. QED
        BY <1>0, <3>1, <4>1, <4>2 DEF StandaloneTypeOK
    <3>3. Payer(r)' = Payer(r) /\ Payee(r)' = Payee(r)
      BY <3>1, WhoIsWho DEF Payer, Payee
    <3>4. RequestWell(r)'
      BY <1>0, <3>1, <3>3 DEF RequestWell, StandaloneTypeOK
    <3>5. QED
      BY <1>0, <3>1, <3>2, <3>4, SameLog DEF StandaloneTypeOK
  <2>5. QED
    BY <2>1, <2>2, <2>3, <2>4
<1>2. /\ \A q \in Requests : RequestWell(q)'
      /\ \A t \in Toggles : ToggleWell(t)'
      /\ \A a \in Opened : InTransit(a)' = InTransit(a)
      /\ DeficitsDue' = DeficitsDue
  BY <1>1, RequestStepKeeps
<1>3. /\ OverdraftIsUnchecked'
      /\ BucketsAddUp' /\ JournalAddsUp' /\ MoneyAddsUp'
  BY <1>1, <1>2, MoneyUntouched
<1>4. QED
  BY <1>1, <1>2, <1>3 DEF StandaloneInv

(* Money moved between two open accounts.                                  *)
LEMMA TransferValue ==
  ASSUME NEW f \in [Opened -> Int], NEW from, NEW n \in Int,
         NEW to, NEW m \in Int
  PROVE  /\ Transfer(f, from, n, to, m) \in [Opened -> Int]
         /\ \A a \in Opened :
              Transfer(f, from, n, to, m)[a] =
                f[a] - (IF a = from THEN n ELSE 0) + (IF a = to THEN m ELSE 0)
BY DEF Transfer

(* The sum of the totals changes by the difference.                        *)
LEMMA TransferSum ==
  ASSUME total \in [Opened -> Int], NEW p \in Opened, NEW q \in Opened,
         NEW n \in Int, NEW m \in Int, total' = Transfer(total, p, n, q, m)
  PROVE  /\ SumFunction(total) \in Int
         /\ SumFunction(total') = SumFunction(total) + (m - n)
<1>1. \A x \in Opened :
        /\ total[x] \in Int
        /\ total'[x] \in Int
        /\ total'[x] = total[x] - (IF x = p THEN n ELSE 0)
                                + (IF x = q THEN m ELSE 0)
  BY TransferValue
<1>2. DOMAIN total = Opened /\ DOMAIN total' = Opened
  BY DEF Transfer
<1>3. SumFunctionOnSet(total, Opened) \in Int
  BY <1>1, FiniteAssumption, SumType
<1>4. SumFunctionOnSet(total', Opened) =
        SumFunctionOnSet(total, Opened) + (m - n)
  <2>1. \A x \in Opened : total[x] \in Int /\ total'[x] \in Int
    BY <1>1
  <2>2. CASE p = q
    <3>1. \A x \in Opened \ {p} : total[x] = total'[x]
      BY ONLY <1>1, <2>2
    <3>2. SumFunctionOnSet(total', Opened) =
            SumFunctionOnSet(total, Opened) - total[p] + total'[p]
      BY ONLY p \in Opened, <2>1, <3>1, FiniteAssumption, SumUpdate
    <3>3. total'[p] = total[p] - n + m /\ total[p] \in Int
      BY ONLY p \in Opened, n \in Int, m \in Int, <1>1, <2>2
    <3>4. QED
      BY ONLY n \in Int, m \in Int, <1>3, <3>2, <3>3
  <2>3. CASE p # q
    <3>1. \A x \in Opened \ {p, q} : total[x] = total'[x]
      BY ONLY <1>1
    <3>2. SumFunctionOnSet(total', Opened) =
            SumFunctionOnSet(total, Opened)
              + ((total'[p] - total[p]) + (total'[q] - total[q]))
      BY ONLY p \in Opened, q \in Opened, <2>1, <2>3, <3>1,
              FiniteAssumption, SumUpdateTwo
    <3>3. /\ total'[p] = total[p] - n /\ total'[q] = total[q] + m
          /\ total[p] \in Int /\ total[q] \in Int
      BY ONLY p \in Opened, q \in Opened, n \in Int, m \in Int, <1>1, <2>3
    <3>4. QED
      BY ONLY n \in Int, m \in Int, <1>3, <3>2, <3>3
  <2>4. QED
    BY <2>2, <2>3
<1>5. QED
  BY <1>2, <1>3, <1>4 DEF SumFunction

(* A payment that is settled online, or declined for lack of funds.        *)
LEMMA DirectCommitPreserves ==
  ASSUME StandaloneInv, NEW r \in Requests, DirectCommit(r)
  PROVE  StandaloneInv'
<1> DEFINE from == Payer(r)  to == Payee(r)  n == Payment[txOf[r]].Amount
<1>0. /\ StandaloneTypeOK /\ RequestWell(r)
      /\ r \in Handlers /\ r \notin Toggles
  BY WhoIsWho DEF StandaloneInv
<1>1. /\ pc[r] = "settle"
      /\ pc' = [pc EXCEPT ![r] = "done"]
      /\ holder' = [holder EXCEPT ![FirstLock(r)] = Nobody]
      /\ UNCHANGED <<txOf, network, allowance, order, batch, owed>>
  BY DEF DirectCommit, Answer, GoTo, Unlock
<1>2. from \in Opened /\ to \in Opened /\ txOf[r] \in TxIDs /\ resp[r] = "none"
  BY <1>0, <1>1 DEF RequestWell
<1>3. n \in Int
  BY <1>2, PaymentAssumption
<1>4. /\ online \in [Opened -> Int] /\ total \in [Opened -> Int]
      /\ journalled \in [Opened -> Int]
      /\ settled \in [Handlers -> [TxIDs -> Nat]]
  BY <1>0 DEF StandaloneTypeOK
<1>5. /\ \A h \in Handlers \ {r} : pc'[h] = pc[h]
      /\ \A tx \in TxIDs : Listings(order, tx) <= Listings(order', tx)
  BY <1>0, <1>1, SameLog DEF StandaloneTypeOK
<1>6. CASE online[from] < n
  <2>1. /\ resp' = [resp EXCEPT ![r] = "DECLINED"]
        /\ UNCHANGED <<online, total, journalled, settled>>
    BY <1>6 DEF DirectCommit, Answer
  <2>2. StandaloneTypeOK'
    BY <1>0, <1>1, <2>1 DEF StandaloneTypeOK, Steps, Answers
  <2>3. RequestWell(r)'
    BY <1>0, <1>1, <1>2, <2>1 DEF RequestWell, StandaloneTypeOK
  <2>4. \A q \in Requests \ {r} : txOf'[q] = txOf[q] /\ resp'[q] = resp[q]
    BY <1>0, <1>1, <2>1 DEF StandaloneTypeOK
  <2>5. /\ \A q \in Requests : RequestWell(q)'
        /\ \A t \in Toggles : ToggleWell(t)'
        /\ \A a \in Opened : InTransit(a)' = InTransit(a)
        /\ DeficitsDue' = DeficitsDue
    BY <1>1, <1>5, <2>1, <2>2, <2>3, <2>4, RequestStepKeeps
  <2>6. /\ OverdraftIsUnchecked'
        /\ BucketsAddUp' /\ JournalAddsUp' /\ MoneyAddsUp'
    BY <1>1, <2>1, <2>5, MoneyUntouched
  <2>7. QED
    BY <2>2, <2>5, <2>6 DEF StandaloneInv
<1>7. CASE ~(online[from] < n)
  <2>1. /\ online' = Transfer(online, from, n, to, n)
        /\ total' = Transfer(total, from, n, to, n)
        /\ journalled' = Transfer(journalled, from, n, to, n)
        /\ settled' = [settled EXCEPT ![r][txOf[r]] = @ + 1]
        /\ resp' = [resp EXCEPT ![r] = "APPROVED"]
    BY <1>7 DEF DirectCommit, Answer
  <2> HIDE DEF from, to, n
  <2>2. /\ online' \in [Opened -> Int] /\ total' \in [Opened -> Int]
        /\ journalled' \in [Opened -> Int]
    BY <1>3, <1>4, <2>1, TransferValue
  <2>3. settled' \in [Handlers -> [TxIDs -> Nat]]
    BY <1>0, <1>2, <1>4, <2>1
  <2>4. StandaloneTypeOK'
    BY <1>0, <1>1, <2>1, <2>2, <2>3 DEF StandaloneTypeOK, Steps, Answers
  <2>5. RequestWell(r)'
    <3>1. \A tx \in TxIDs :
            settled'[r][tx] =
              IF txOf'[r] = tx /\ resp'[r] = "APPROVED" THEN 1 ELSE 0
      <4>1. \A tx \in TxIDs : settled[r][tx] = 0
        BY <1>0, <1>2 DEF RequestWell
      <4>2. QED
        BY <1>0, <1>1, <1>2, <1>4, <2>1, <4>1 DEF StandaloneTypeOK
    <3>2. pc'[r] = "done"
      BY <1>0, <1>1 DEF StandaloneTypeOK
    <3>3. QED
      BY <3>1, <3>2 DEF RequestWell
  <2>6. \A q \in Requests \ {r} : txOf'[q] = txOf[q] /\ resp'[q] = resp[q]
    BY <1>0, <1>1, <2>1 DEF StandaloneTypeOK
  <2>7. \A h \in Handlers \ {r} : pc'[h] = pc[h] /\ settled'[h] = settled[h]
    BY <1>0, <1>4, <1>5, <2>1
  <2>8. /\ \A q \in Requests : RequestWell(q)'
        /\ \A t \in Toggles : ToggleWell(t)'
        /\ \A a \in Opened : InTransit(a)' = InTransit(a)
        /\ DeficitsDue' = DeficitsDue
    BY <1>1, <1>5, <2>4, <2>5, <2>6, <2>7, RequestStepKeeps
  <2>9. \A a \in Opened :
          LET d == (IF a = to THEN n ELSE 0) - (IF a = from THEN n ELSE 0)
          IN  /\ online'[a] = online[a] + d
              /\ total'[a] = total[a] + d
              /\ journalled'[a] = journalled[a] + d
    <3>1. ASSUME NEW f \in [Opened -> Int], NEW a \in Opened
          PROVE  Transfer(f, from, n, to, n)[a] =
                   f[a] + ((IF a = to THEN n ELSE 0)
                             - (IF a = from THEN n ELSE 0))
      BY <1>3, TransferValue
    <3>2. QED
      BY <1>4, <2>1, <3>1
  <2>10. \A a \in Opened : /\ online[a] \in Int /\ total[a] \in Int
                           /\ journalled[a] \in Int /\ allowance[a] \in Int
    BY <1>0 DEF StandaloneTypeOK
  <2>11. OverdraftIsUnchecked'
    <3>1. SUFFICES ASSUME NEW a \in Opened, a /= AccountDeficitReserve
                   PROVE  online'[a] + TakenUnchecked(a)' >= 0
      BY <1>1, <2>10 DEF StandaloneInv, OverdraftIsUnchecked
    <3>2. PICK u \in Nat : u = Undercut(txOf[r], a)
      BY <1>2, UndercutType
    <3>3. \A x \in TxIDs :
            settled'[r][x] = settled[r][x] + (IF txOf[r] = x THEN 1 ELSE 0)
      BY <1>0, <1>2, <1>4, <2>1
    <3>4. /\ TakenIn(settled, a) \in Nat
          /\ TakenIn(settled', a) = TakenIn(settled, a) + u
      <4>1. settled \in Settlements /\ settled' \in Settlements
        BY <1>4, <2>3 DEF Settlements
      <4>2. /\ TakenIn(settled, a) \in Nat
            /\ TakenIn(settled', a) =
                 TakenIn(settled, a) + Undercut(txOf[r], a)
        BY ONLY <1>0, <1>2, <2>7, <3>3, <4>1, TakenGrows
      <4>3. QED
        BY <3>2, <4>2
    <3>5. online[a] + TakenIn(settled, a) >= 0
      BY <3>1, TakenIsIn DEF StandaloneInv, OverdraftIsUnchecked
    <3>6. /\ online[a] \in Int /\ online'[a] \in Int
          /\ online'[a] = online[a] + ((IF a = to THEN n ELSE 0)
                                         - (IF a = from THEN n ELSE 0))
      BY <2>2, <2>9, <2>10
    <3>7. a = to => u >= -n
      BY <1>3, <3>2 DEF Undercut, to, n, Payee, CurrentTx
    <3>8. a = from => online[a] >= n
      BY <1>2, <1>3, <1>7, <2>10
    <3>9. online'[a] + TakenIn(settled', a) >= 0
      <4>1. CASE a = from /\ a /= to
        BY <1>3, <3>4, <3>6, <3>8, <4>1
      <4>2. CASE a = to /\ a /= from
        BY <1>3, <3>4, <3>5, <3>6, <3>7, <4>2
      <4>3. CASE (a = to) <=> (a = from)
        BY <1>3, <3>4, <3>5, <3>6, <4>3
      <4>4. QED
        BY <4>1, <4>2, <4>3
    <3>10. QED
      BY <3>9, TakenIsIn
  <2>12. BucketsAddUp'
    BY <1>1, <1>3, <2>9, <2>10 DEF StandaloneInv, BucketsAddUp
  <2>13. JournalAddsUp'
    <3>1. \A a \in Opened : InTransit(a) \in Int
      BY SumTypes
    <3>2. \A a \in Opened : OpeningTotal[a] \in Int
      BY OpeningTypes
    <3>3. QED
      BY <1>3, <2>8, <2>9, <2>10, <3>1, <3>2 DEF StandaloneInv, JournalAddsUp
  <2>14. MoneyAddsUp'
    <3>1. /\ SumFunction(total) \in Int
          /\ SumFunction(total') = SumFunction(total) + (n - n)
      BY <1>2, <1>3, <1>4, <2>1, TransferSum
    <3>2. SumFunction(total') = SumFunction(total)
      BY <1>2, <1>3, <3>1
    <3>3. QED
      BY <2>8, <3>2 DEF StandaloneInv, MoneyAddsUp
  <2>15. QED
    BY <2>4, <2>8, <2>11, <2>12, <2>13, <2>14 DEF StandaloneInv
<1>8. QED
  BY <1>6, <1>7

(* A step of a replay leaves the requests and the other replays alone: the *)
(* sums change by its own part.                                            *)
LEMMA ReplayStepKeeps ==
  ASSUME StandaloneInv, StandaloneTypeOK', NEW t \in Toggles, ToggleWell(t)',
         \A h \in Handlers \ {t} : pc'[h] = pc[h] /\ settled'[h] = settled[h],
         \A s \in Toggles \ {t} : batch'[s] = batch[s] /\ owed'[s] = owed[s],
         UNCHANGED <<txOf, resp, order>>
  PROVE  /\ \A r \in Requests : RequestWell(r)'
         /\ \A s \in Toggles : ToggleWell(s)'
         /\ \A a \in Opened :
              /\ InTransit(a) \in Int
              /\ Unjournalled(t, a) \in Int /\ Unjournalled(t, a)' \in Int
              /\ InTransit(a)' = InTransit(a) - Unjournalled(t, a)
                                              + Unjournalled(t, a)'
         /\ DeficitsDue \in Int
         /\ DeficitDue(t) \in Int /\ DeficitDue(t)' \in Int
         /\ DeficitsDue' = DeficitsDue - DeficitDue(t) + DeficitDue(t)'
<1>1. ASSUME NEW r \in Requests PROVE RequestWell(r)'
  <2>1. /\ pc'[r] = pc[r] /\ settled'[r] = settled[r]
        /\ txOf'[r] = txOf[r] /\ resp'[r] = resp[r] /\ RequestWell(r)
    BY WhoIsWho DEF StandaloneInv
  <2>2. QED
    BY <2>1, RequestLeftAlone
<1>2. \A tx \in TxIDs : Listings(order, tx) <= Listings(order', tx)
  BY SameLog DEF StandaloneInv
<1>3. ASSUME NEW s \in Toggles \ {t}
      PROVE  /\ ToggleWell(s)'
             /\ \A a \in Opened : Unjournalled(s, a)' = Unjournalled(s, a)
             /\ DeficitDue(s)' = DeficitDue(s)
  <2>1. /\ StandaloneTypeOK /\ s \in Toggles /\ ToggleWell(s)
        /\ pc'[s] = pc[s] /\ settled'[s] = settled[s]
        /\ batch'[s] = batch[s] /\ owed'[s] = owed[s]
        /\ order' \in Seq(TxIDs)
    BY WhoIsWho DEF StandaloneInv, StandaloneTypeOK
  <2>2. QED
    BY <1>2, <2>1, ReplayLeftAlone
<1>4. /\ \A a \in Opened : Unjournalled(t, a) \in Int
      /\ DeficitDue(t) \in Int
  BY TransitTypes DEF StandaloneInv
<1>5. /\ \A a \in Opened : Unjournalled(t, a)' \in Int
      /\ DeficitDue(t)' \in Int
  <2>1. /\ owed'[t].charge \in Int /\ owed'[t].deficit \in Int
        /\ batch'[t] \in Seq(TxIDs)
    BY DEF StandaloneTypeOK
  <2>2. CASE pc'[t] \in {"reserve", "journal"}
    <3>1. CurrentTx(t)' \in TxIDs
      BY <2>1, <2>2, WhoIsWho DEF ToggleWell
    <3>2. Payment[CurrentTx(t)'].Amount \in Int
      BY <3>1, PaymentAssumption
    <3>3. QED
      BY <2>1, <3>2 DEF Unjournalled, DeficitDue
  <2>3. CASE pc'[t] \notin {"reserve", "journal"}
    BY <2>1, <2>3 DEF Unjournalled, DeficitDue
  <2>4. QED
    BY <2>2, <2>3
<1>6. StandaloneTypeOK /\ \A s \in Toggles : ToggleWell(s)
  BY DEF StandaloneInv
<1>7. \A s \in Toggles : ToggleWell(s)'
  BY <1>3
<1>8. /\ \A a \in Opened :
           /\ InTransit(a) \in Int
           /\ InTransit(a)' = InTransit(a) - Unjournalled(t, a)
                                           + Unjournalled(t, a)'
      /\ DeficitsDue \in Int
      /\ DeficitsDue' = DeficitsDue - DeficitDue(t) + DeficitDue(t)'
  BY <1>3, <1>5, <1>6, SumsOfOneReplay
<1>9. QED
  BY <1>1, <1>4, <1>5, <1>7, <1>8

(* The switch, the copy of the log, the first mutex of a payment and the   *)
(* end of a replay: nothing is in transit in it before or after.           *)
LEMMA ReplayMovesPreserves ==
  ASSUME StandaloneInv, NEW t \in Toggles,
         \/ \E status \in Networks : Toggle(t, status)
         \/ Pending(t)
         \/ Lock(t)
         \/ ReplayReturns(t)
  PROVE  StandaloneInv'
<1>0. /\ StandaloneTypeOK /\ ToggleWell(t)
      /\ t \in Handlers /\ t \notin Requests
  BY WhoIsWho DEF StandaloneInv
<1>0a. /\ \A tx \in TxIDs : /\ settled[t][tx] \in Nat
                            /\ Listings(order, tx) \in Nat
                            /\ Listings(batch[t], tx) \in Nat
       /\ batch[t] \in Seq(TxIDs) /\ order \in Seq(TxIDs)
  <2>1. /\ settled[t] \in [TxIDs -> Nat]
        /\ batch[t] \in Seq(TxIDs) /\ order \in Seq(TxIDs)
    BY <1>0 DEF StandaloneTypeOK
  <2>2. QED
    BY <2>1, ListingsType
<1> DEFINE OthersKept ==
  /\ UNCHANGED <<online, allowance, total, journalled, owed, settled, txOf,
                 resp, order>>
  /\ \A h \in Handlers \ {t} : pc'[h] = pc[h]
  /\ \A s \in Toggles \ {t} : batch'[s] = batch[s]
  /\ pc[t] \in {"new", "pending", "lock"}
  /\ pc'[t] \notin {"reserve", "journal"}
<1>1. OthersKept /\ StandaloneTypeOK' /\ ToggleWell(t)'
  <2>1. ASSUME NEW status \in Networks, Toggle(t, status)
        PROVE  OthersKept /\ StandaloneTypeOK' /\ ToggleWell(t)'
    <3>1. /\ pc[t] = "new" /\ network' \in Networks
          /\ \E s \in {"pending", "done"} : pc' = [pc EXCEPT ![t] = s]
          /\ UNCHANGED <<txOf, accountVars, order, resp, batch, owed, settled>>
      BY <2>1 DEF Toggle, GoTo
    <3>2. StandaloneTypeOK'
      BY <1>0, <3>1 DEF StandaloneTypeOK, accountVars, Steps
    <3>3. ToggleWell(t)'
      BY <1>0, <3>1 DEF ToggleWell, AtSettled, StandaloneTypeOK
    <3>4. QED
      BY <1>0, <3>1, <3>2, <3>3 DEF StandaloneTypeOK, accountVars
  <2>2. ASSUME Pending(t)
        PROVE  OthersKept /\ StandaloneTypeOK' /\ ToggleWell(t)'
    <3>1. PICK p \in Bijection(DOMAIN order, DOMAIN order) :
            batch' = [batch EXCEPT ![t] = [i \in DOMAIN order |-> order[p[i]]]]
      BY <2>2 DEF Pending
    <3>2. /\ pc[t] = "pending"
          /\ pc' = [pc EXCEPT ![t] = "lock"]
          /\ UNCHANGED <<txOf, network, accountVars, order, resp, owed,
                         settled>>
      BY <2>2 DEF Pending, GoTo
    <3> DEFINE copy == [i \in DOMAIN order |-> order[p[i]]]
    <3>3. /\ copy \in Seq(TxIDs)
          /\ \A tx \in TxIDs : Listings(copy, tx) = Listings(order, tx)
      <4>1. order \in Seq(TxIDs)
        BY <1>0a
      <4>2. /\ copy \in Seq(TxIDs)
            /\ \A tx : Listings(copy, tx) = Listings(order, tx)
        BY ONLY <4>1, p \in Bijection(DOMAIN order, DOMAIN order),
                ListingsOfCopy
      <4>3. QED
        BY <4>2
    <3> HIDE DEF copy
    <3>4. batch' = [batch EXCEPT ![t] = copy]
      BY <3>1 DEF copy
    <3>5. /\ batch' \in [Toggles -> Seq(TxIDs)] /\ batch'[t] = copy
          /\ \A s \in Toggles \ {t} : batch'[s] = batch[s]
      BY <1>0, <3>3, <3>4 DEF StandaloneTypeOK
    <3>6. StandaloneTypeOK'
      BY <1>0, <3>2, <3>5 DEF StandaloneTypeOK, accountVars, Steps
    <3>7. pc'[t] = "lock"
      BY <1>0, <3>2 DEF StandaloneTypeOK
    <3>8. ASSUME NEW tx \in TxIDs
          PROVE  settled'[t][tx] + Listings(batch'[t], tx)
                   <= Listings(order', tx) + AtSettled(t, tx)'
      <4>1. settled'[t][tx] = 0
        BY <1>0, <3>2 DEF ToggleWell
      <4>2. Listings(batch'[t], tx) = Listings(order', tx)
        BY <3>2, <3>3, <3>5
      <4>3. AtSettled(t, tx)' = 0
        BY <3>7 DEF AtSettled
      <4>4. Listings(order', tx) \in Nat
        BY <1>0a, <3>2
      <4>5. QED
        BY <4>1, <4>2, <4>3, <4>4
    <3>9. ToggleWell(t)'
      BY <3>7, <3>8 DEF ToggleWell
    <3>10. QED
      BY <1>0, <3>2, <3>5, <3>6, <3>7, <3>9 DEF StandaloneTypeOK, accountVars
  <2>3. ASSUME Lock(t)
        PROVE  OthersKept /\ StandaloneTypeOK' /\ ToggleWell(t)'
    <3>1. FirstLock(t) = Payer(t) /\ SecondLock(t) = Payee(t)
      BY <1>0 DEF FirstLock, SecondLock
    <3>2. /\ pc[t] = "lock" /\ batch[t] /= <<>>
          /\ \/ pc' = [pc EXCEPT ![t] = "panicked"]
             \/ /\ pc' = [pc EXCEPT ![t] = "settle"]
                /\ {Payer(t), Payee(t)} \subseteq Opened
          /\ \/ holder' = holder
             \/ \E a \in Opened : holder' = [holder EXCEPT ![a] = t]
          /\ UNCHANGED <<txOf, network, online, allowance, total, journalled,
                         order, resp, batch, owed, settled>>
      BY <2>3, <3>1 DEF Lock, GoTo
    <3>3. StandaloneTypeOK'
      <4>1. holder' \in [Opened -> Handlers \cup {Nobody}]
        BY <1>0, <3>2 DEF StandaloneTypeOK
      <4>2. pc' \in [Handlers -> Steps]
        BY <1>0, <3>2 DEF StandaloneTypeOK, Steps
      <4>3. QED
        BY <1>0, <3>2, <4>1, <4>2 DEF StandaloneTypeOK
    <3>4. Payer(t)' = Payer(t) /\ Payee(t)' = Payee(t)
      BY <3>2, WhoIsWho DEF Payer, Payee
    <3>5. ToggleWell(t)'
      BY <1>0, <3>2, <3>4 DEF ToggleWell, AtSettled, StandaloneTypeOK
    <3>6. QED
      BY <1>0, <3>2, <3>3, <3>5 DEF StandaloneTypeOK
  <2>4. ASSUME ReplayReturns(t)
        PROVE  OthersKept /\ StandaloneTypeOK' /\ ToggleWell(t)'
    <3>1. /\ pc[t] = "lock" /\ pc' = [pc EXCEPT ![t] = "done"]
          /\ UNCHANGED <<txOf, network, accountVars, order, resp, batch, owed,
                         settled>>
      BY <2>4 DEF ReplayReturns, GoTo
    <3>2. StandaloneTypeOK'
      BY <1>0, <3>1 DEF StandaloneTypeOK, accountVars, Steps
    <3>3. ToggleWell(t)'
      BY <1>0, <3>1 DEF ToggleWell, AtSettled, StandaloneTypeOK
    <3>4. QED
      BY <1>0, <3>1, <3>2, <3>3 DEF StandaloneTypeOK, accountVars
  <2>5. QED
    BY <2>1, <2>2, <2>3, <2>4
<1>2. /\ \A r \in Requests : RequestWell(r)'
      /\ \A s \in Toggles : ToggleWell(s)'
      /\ \A a \in Opened :
           /\ InTransit(a) \in Int
           /\ InTransit(a)' = InTransit(a) - Unjournalled(t, a)
                                           + Unjournalled(t, a)'
      /\ DeficitsDue \in Int
      /\ DeficitsDue' = DeficitsDue - DeficitDue(t) + DeficitDue(t)'
  BY <1>1, ReplayStepKeeps
<1>3. /\ \A a \in Opened : Unjournalled(t, a) = 0 /\ Unjournalled(t, a)' = 0
      /\ DeficitDue(t) = 0 /\ DeficitDue(t)' = 0
  BY <1>1 DEF Unjournalled, DeficitDue
<1>4. /\ \A a \in Opened : InTransit(a)' = InTransit(a)
      /\ DeficitsDue' = DeficitsDue
  BY <1>2, <1>3
<1>5. /\ OverdraftIsUnchecked'
      /\ BucketsAddUp' /\ JournalAddsUp' /\ MoneyAddsUp'
  BY <1>1, <1>4, MoneyUntouched
<1>6. QED
  BY <1>1, <1>2, <1>5 DEF StandaloneInv

(* What the allowance pays and what it does not add up to the payment.     *)
LEMMA SplitValue ==
  ASSUME NEW n \in Int, NEW m \in Int, m >= 0
  PROVE  /\ Min({n, m}) \in Int /\ n - Min({n, m}) \in Nat
         /\ Min({n, m}) <= m
<1>1. \E x \in {n, m} : \A y \in {n, m} : x <= y
  OBVIOUS
<1>2. Min({n, m}) \in {n, m} /\ \A y \in {n, m} : Min({n, m}) <= y
  BY <1>1 DEF Min
<1> DEFINE k == Min({n, m})
<1> HIDE DEF k
<1>3. k \in {n, m} /\ k <= n /\ k <= m
  BY <1>2 DEF k
<1>4. k \in Int /\ n - k \in Nat /\ k <= m
  BY <1>3
<1>5. QED
  BY <1>4 DEF k

(* A queued payment is charged to the allowance and credited in full; it   *)
(* is in transit to the journal until Journal, and what the allowance does *)
(* not pay is due from the reserve.                                        *)
LEMMA CommitOfflineAllowancePreserves ==
  ASSUME StandaloneInv, NEW t \in Toggles, CommitOfflineAllowance(t)
  PROVE  StandaloneInv'
<1>0. /\ StandaloneTypeOK /\ ToggleWell(t) /\ OverdraftIsUnchecked
      /\ t \in Handlers /\ t \notin Requests
  BY WhoIsWho DEF StandaloneInv
<1>1. /\ pc[t] = "settle"
      /\ owed' = [owed EXCEPT ![t] = Split(t)]
      /\ allowance' = [allowance EXCEPT ![Payer(t)] = @ - Split(t).charge]
      /\ online' = [online EXCEPT
                      ![Payee(t)] = @ + Payment[CurrentTx(t)].Amount]
      /\ total' = Transfer(total, Payer(t), Split(t).charge,
                           Payee(t), Payment[CurrentTx(t)].Amount)
      /\ settled' = [settled EXCEPT ![t][CurrentTx(t)] = @ + 1]
      /\ holder' = [holder EXCEPT ![FirstLock(t)] = Nobody]
      /\ pc' = [pc EXCEPT ![t] =
                  IF Split(t).deficit > 0 THEN "reserve" ELSE "journal"]
      /\ UNCHANGED <<txOf, network, journalled, order, resp, batch>>
  BY DEF CommitOfflineAllowance, Unlock, GoTo
<1>2. /\ batch[t] /= <<>> /\ batch[t] \in Seq(TxIDs)
      /\ Payer(t) \in Opened /\ Payee(t) \in Opened
  BY <1>0, <1>1 DEF ToggleWell, StandaloneTypeOK
<1>3. PICK tx \in TxIDs : tx = CurrentTx(t) /\ tx = Head(batch[t])
  BY <1>2, WhoIsWho
<1>4. PICK from \in Opened : from = Payer(t)
  BY <1>2
<1>5. PICK to \in Opened : to = Payee(t)
  BY <1>2
<1>6. PICK n \in Int : n = Payment[CurrentTx(t)].Amount
  BY <1>3, PaymentAssumption
<1>7. /\ online \in [Opened -> Int] /\ total \in [Opened -> Int]
      /\ allowance \in [Opened -> Int] /\ journalled \in [Opened -> Int]
      /\ settled \in [Handlers -> [TxIDs -> Nat]]
      /\ owed \in [Toggles -> [charge : Int, deficit : Nat]]
      /\ pc \in [Handlers -> Steps]
      /\ order \in Seq(TxIDs) /\ batch \in [Toggles -> Seq(TxIDs)]
  BY <1>0 DEF StandaloneTypeOK
<1>8. allowance[from] \in Int /\ allowance[from] >= 0
  BY <1>0, <1>7 DEF OverdraftIsUnchecked
<1>9. PICK c \in Int : c = Min({n, allowance[from]})
  BY <1>8, SplitValue
<1>10. PICK d \in Nat : d = n - c
  BY <1>8, <1>9, SplitValue
<1>11. c <= allowance[from] /\ n = c + d
  BY <1>8, <1>9, <1>10, SplitValue
<1>12. Split(t) = [charge |-> c, deficit |-> d]
  BY <1>4, <1>6, <1>9, <1>10 DEF Split
<1>12a. Split(t).charge = c /\ Split(t).deficit = d
  BY <1>12
<1>13. /\ owed' = [owed EXCEPT ![t] = [charge |-> c, deficit |-> d]]
       /\ total' = Transfer(total, from, c, to, n)
       /\ pc' = [pc EXCEPT ![t] = IF d > 0 THEN "reserve" ELSE "journal"]
  <2>1. owed' = [owed EXCEPT ![t] = [charge |-> c, deficit |-> d]]
    BY <1>1, <1>12
  <2>2. total' = Transfer(total, from, c, to, n)
    BY <1>1, <1>4, <1>5, <1>6, <1>12a
  <2>3. pc' = [pc EXCEPT ![t] = IF d > 0 THEN "reserve" ELSE "journal"]
    BY <1>1, <1>12a
  <2>4. QED
    BY <2>1, <2>2, <2>3
<1>14. \A a \in Opened :
         /\ online[a] \in Int /\ allowance[a] \in Int
         /\ total[a] \in Int /\ journalled[a] \in Int
         /\ allowance'[a] = allowance[a] - (IF a = from THEN c ELSE 0)
         /\ online'[a] = online[a] + (IF a = to THEN n ELSE 0)
         /\ total'[a] = total[a] - (IF a = from THEN c ELSE 0)
                                 + (IF a = to THEN n ELSE 0)
  <2>1. allowance' = [allowance EXCEPT ![from] = allowance[from] - c]
    BY <1>1, <1>4, <1>12a
  <2>2. online' = [online EXCEPT ![to] = online[to] + n]
    BY <1>1, <1>5, <1>6, <1>7
  <2>3. \A a \in Opened :
          total'[a] = total[a] - (IF a = from THEN c ELSE 0)
                               + (IF a = to THEN n ELSE 0)
    BY <1>13 DEF Transfer
  <2>4. \A a \in Opened : /\ online[a] \in Int /\ allowance[a] \in Int
                          /\ total[a] \in Int /\ journalled[a] \in Int
    BY <1>7
  <2>5. ASSUME NEW a \in Opened
        PROVE  allowance'[a] = allowance[a] - (IF a = from THEN c ELSE 0)
    <3>1. allowance'[a] = IF a = from THEN allowance[from] - c
                                      ELSE allowance[a]
      BY <1>7, <2>1
    <3>2. QED
      BY <2>4, <3>1
  <2>6. ASSUME NEW a \in Opened
        PROVE  online'[a] = online[a] + (IF a = to THEN n ELSE 0)
    <3>1. online'[a] = IF a = to THEN online[to] + n ELSE online[a]
      BY <1>7, <2>2
    <3>2. QED
      BY <2>4, <3>1
  <2>7. QED
    BY <2>3, <2>4, <2>5, <2>6
<1>15. /\ online' \in [Opened -> Int] /\ allowance' \in [Opened -> Int]
       /\ total' \in [Opened -> Int]
  <2>1. total' \in [Opened -> Int]
    <3>1. c \in Int /\ n \in Int
      OBVIOUS
    <3>2. Transfer(total, from, c, to, n) \in [Opened -> Int]
      BY <1>7, <3>1, TransferValue
    <3>3. QED
      BY <1>13, <3>2
  <2>2. \A a \in Opened : online'[a] \in Int /\ allowance'[a] \in Int
    BY <1>14
  <2>3. /\ online' = [a \in Opened |-> online'[a]]
        /\ allowance' = [a \in Opened |-> allowance'[a]]
    BY <1>1, <1>7
  <2>4. QED
    BY <2>1, <2>2, <2>3
<1>15a. /\ settled' \in [Handlers -> [TxIDs -> Nat]]
        /\ \A h \in Handlers \ {t} : settled'[h] = settled[h]
        /\ \A x \in TxIDs :
             settled'[t][x] = settled[t][x] + (IF tx = x THEN 1 ELSE 0)
  <2>1. settled' = [settled EXCEPT ![t] =
                      [settled[t] EXCEPT ![tx] = settled[t][tx] + 1]]
    BY <1>1, <1>3
  <2>2. settled[t] \in [TxIDs -> Nat]
    BY <1>0, <1>7
  <2>3. [settled[t] EXCEPT ![tx] = settled[t][tx] + 1] \in [TxIDs -> Nat]
    BY <2>2
  <2>4. settled'[t] = [settled[t] EXCEPT ![tx] = settled[t][tx] + 1]
    BY <1>0, <1>7, <2>1
  <2>5. \A x \in TxIDs :
          settled'[t][x] = settled[t][x] + (IF tx = x THEN 1 ELSE 0)
    BY <2>2, <2>4
  <2>6. QED
    BY <1>0, <1>7, <2>1, <2>3, <2>5
<1>16. /\ owed' \in [Toggles -> [charge : Int, deficit : Nat]]
       /\ holder' \in [Opened -> Handlers \cup {Nobody}]
       /\ pc' \in [Handlers -> Steps]
  <2>1. [charge |-> c, deficit |-> d] \in [charge : Int, deficit : Nat]
    OBVIOUS
  <2>2. owed' \in [Toggles -> [charge : Int, deficit : Nat]]
    BY <1>7, <1>13, <2>1
  <2>3. holder' \in [Opened -> Handlers \cup {Nobody}]
    BY <1>0, <1>1 DEF StandaloneTypeOK
  <2>4. pc' \in [Handlers -> Steps]
    BY <1>7, <1>13 DEF Steps
  <2>5. QED
    BY <2>2, <2>3, <2>4
<1>17. StandaloneTypeOK'
  <2>1. /\ network' \in Networks /\ journalled' \in [Opened -> Int]
        /\ order' \in Seq(TxIDs) /\ batch' \in [Toggles -> Seq(TxIDs)]
        /\ txOf' \in [Requests -> TxIDs \cup {NoTx}]
        /\ resp' \in [Requests -> Answers]
    BY <1>0, <1>1 DEF StandaloneTypeOK
  <2>2. QED
    BY <1>15, <1>15a, <1>16, <2>1 DEF StandaloneTypeOK
<1>18. /\ pc'[t] = IF d > 0 THEN "reserve" ELSE "journal"
       /\ owed'[t] = [charge |-> c, deficit |-> d]
       /\ batch'[t] = batch[t]
       /\ CurrentTx(t)' = tx /\ Payer(t)' = from /\ Payee(t)' = to
       /\ Payment[CurrentTx(t)'].Amount = n
  BY <1>0, <1>1, <1>3, <1>4, <1>5, <1>6, <1>7, <1>13, WhoIsWho
     DEF Payer, Payee
<1>19. ToggleWell(t)'
  <2>1. ASSUME NEW x \in TxIDs
        PROVE  settled'[t][x] + Listings(batch'[t], x)
                 <= Listings(order', x) + AtSettled(t, x)'
    <3>1. /\ settled[t][x] + Listings(batch[t], x)
               <= Listings(order, x) + AtSettled(t, x)
          /\ AtSettled(t, x) = 0
      BY <1>0, <1>1 DEF ToggleWell, AtSettled
    <3>2. AtSettled(t, x)' = IF tx = x THEN 1 ELSE 0
      BY <1>3, <1>18 DEF AtSettled
    <3>3. settled'[t][x] = settled[t][x] + (IF tx = x THEN 1 ELSE 0)
      BY <1>15a
    <3>4. /\ settled[t][x] \in Nat /\ Listings(batch[t], x) \in Nat
          /\ Listings(order, x) \in Nat
      <4>1. settled[t][x] \in Nat /\ batch[t] \in Seq(TxIDs)
        BY <1>0, <1>7
      <4>2. QED
        BY <1>7, <4>1, ListingsType
    <3>5. batch'[t] = batch[t] /\ order' = order
      BY <1>1, <1>18
    <3>6. QED
      BY <3>1, <3>2, <3>3, <3>4, <3>5
  <2>2. QED
    BY <1>2, <1>18, <2>1 DEF ToggleWell
<1>20. /\ \A h \in Handlers \ {t} : pc'[h] = pc[h] /\ settled'[h] = settled[h]
       /\ \A s \in Toggles \ {t} : batch'[s] = batch[s] /\ owed'[s] = owed[s]
  BY <1>0, <1>1, <1>7, <1>13, <1>15a
<1>21. /\ \A r \in Requests : RequestWell(r)'
       /\ \A s \in Toggles : ToggleWell(s)'
       /\ \A a \in Opened :
            /\ InTransit(a) \in Int
            /\ InTransit(a)' = InTransit(a) - Unjournalled(t, a)
                                            + Unjournalled(t, a)'
       /\ DeficitsDue \in Int
       /\ DeficitsDue' = DeficitsDue - DeficitDue(t) + DeficitDue(t)'
  BY <1>1, <1>17, <1>19, <1>20, ReplayStepKeeps
<1>22. /\ \A a \in Opened :
            /\ Unjournalled(t, a) = 0
            /\ Unjournalled(t, a)' = (IF a = to THEN n ELSE 0)
                                       - (IF a = from THEN c ELSE 0)
       /\ DeficitDue(t) = 0 /\ DeficitDue(t)' = d
  BY <1>1, <1>18 DEF Unjournalled, DeficitDue
<1>23. OverdraftIsUnchecked'
  <2>1. \A a \in Opened : allowance'[a] >= 0
    BY <1>0, <1>8, <1>11, <1>14 DEF OverdraftIsUnchecked
  <2>2. ASSUME NEW a \in Opened, a /= AccountDeficitReserve
        PROVE  online'[a] + TakenUnchecked(a)' >= 0
    <3>1. PICK u \in Nat : u = Undercut(tx, a)
      BY UndercutType
    <3>2. /\ TakenIn(settled, a) \in Nat
          /\ TakenIn(settled', a) = TakenIn(settled, a) + u
      <4>1. settled \in Settlements /\ settled' \in Settlements
        BY <1>7, <1>15a DEF Settlements
      <4>2. /\ TakenIn(settled, a) \in Nat
            /\ TakenIn(settled', a) = TakenIn(settled, a) + Undercut(tx, a)
        BY ONLY <1>0, <1>15a, <4>1, tx \in TxIDs, TakenGrows
      <4>3. QED
        BY <3>1, <4>2
    <3>3. online[a] + TakenIn(settled, a) >= 0
      BY <1>0, <2>2, TakenIsIn DEF OverdraftIsUnchecked
    <3>4. a = to => u >= -n
      <4>1. to = Payment[tx].MerchantID /\ n = Payment[tx].Amount
        BY <1>3, <1>5, <1>6 DEF Payee
      <4>2. Undercut(tx, to) >= -n
        BY <4>1 DEF Undercut
      <4>3. QED
        BY <3>1, <4>2
    <3>5. /\ online[a] \in Int
          /\ online'[a] = online[a] + (IF a = to THEN n ELSE 0)
      BY <1>14
    <3>6. online'[a] + TakenIn(settled', a) >= 0
      BY <3>2, <3>3, <3>4, <3>5
    <3>7. QED
      BY <3>6, TakenIsIn
  <2>3. QED
    BY <2>1, <2>2 DEF OverdraftIsUnchecked
<1>24. BucketsAddUp'
  BY <1>14 DEF StandaloneInv, BucketsAddUp
<1>25. JournalAddsUp'
  <2>1. \A a \in Opened : InTransit(a)' = InTransit(a)
                                            + ((IF a = to THEN n ELSE 0)
                                               - (IF a = from THEN c ELSE 0))
    BY <1>21, <1>22
  <2>2. \A a \in Opened : /\ journalled'[a] = journalled[a]
                          /\ OpeningTotal[a] \in Int
    BY <1>1, OpeningTypes
  <2>3. QED
    BY <1>14, <1>21, <2>1, <2>2 DEF StandaloneInv, JournalAddsUp
<1>26. MoneyAddsUp'
  <2>1. /\ SumFunction(total) \in Int
        /\ SumFunction(total') = SumFunction(total) + (n - c)
    <3>1. /\ total \in [Opened -> Int] /\ n \in Int /\ c \in Int
          /\ total' = Transfer(total, from, c, to, n)
      BY <1>7, <1>13
    <3>2. QED
      BY ONLY <3>1, from \in Opened, to \in Opened, TransferSum
  <2>2. DeficitsDue' = DeficitsDue + d
    BY <1>21, <1>22
  <2>3. QED
    BY <1>11, <1>21, <2>1, <2>2, OpeningTypes DEF StandaloneInv, MoneyAddsUp
<1>27. QED
  BY <1>17, <1>21, <1>23, <1>24, <1>25, <1>26 DEF StandaloneInv

(* The reserve pays the deficit, and its debit is journalled at once.      *)
LEMMA DebitDeficitReservePreserves ==
  ASSUME StandaloneInv, NEW t \in Toggles, DebitDeficitReserve(t)
  PROVE  StandaloneInv'
<1>1. /\ StandaloneTypeOK /\ ToggleWell(t) /\ OverdraftIsUnchecked
      /\ t \in Handlers /\ t \notin Requests
  BY WhoIsWho DEF StandaloneInv
<1>2. /\ online \in [Opened -> Int] /\ total \in [Opened -> Int]
      /\ journalled \in [Opened -> Int] /\ pc \in [Handlers -> Steps]
      /\ owed[t].deficit \in Nat
  BY <1>1 DEF StandaloneTypeOK
<1>3. PICK res \in Opened : res = AccountDeficitReserve
  BY OpenedAssumption
<1>4. PICK n \in Nat : n = owed[t].deficit
  BY <1>2
<1>5. /\ pc[t] = "reserve"
      /\ online' = [online EXCEPT ![res] = online[res] - n]
      /\ total' = [total EXCEPT ![res] = total[res] - n]
      /\ journalled' = [journalled EXCEPT ![res] = journalled[res] - n]
      /\ pc' = [pc EXCEPT ![t] = "journal"]
      /\ UNCHANGED <<txOf, network, allowance, holder, order, resp, batch,
                     owed, settled>>
  BY <1>2, <1>3, <1>4 DEF DebitDeficitReserve, GoTo
<1>6. \A a \in Opened :
        LET k == IF a = res THEN n ELSE 0
        IN  /\ online[a] \in Int /\ online'[a] = online[a] - k
            /\ total[a] \in Int /\ total'[a] = total[a] - k
            /\ journalled[a] \in Int /\ journalled'[a] = journalled[a] - k
  BY <1>2, <1>5
<1>7. /\ online' \in [Opened -> Int] /\ total' \in [Opened -> Int]
      /\ journalled' \in [Opened -> Int] /\ pc' \in [Handlers -> Steps]
  <2>1. /\ online[res] - n \in Int /\ total[res] - n \in Int
        /\ journalled[res] - n \in Int
    BY <1>6
  <2>2. online' \in [Opened -> Int] /\ total' \in [Opened -> Int]
    BY <1>2, <1>5, <2>1
  <2>3. journalled' \in [Opened -> Int]
    BY <1>2, <1>5, <2>1
  <2>4. pc' \in [Handlers -> Steps]
    BY <1>2, <1>5 DEF Steps
  <2>5. QED
    BY <2>2, <2>3, <2>4
<1>8. StandaloneTypeOK'
  BY <1>1, <1>5, <1>7 DEF StandaloneTypeOK
<1>9. /\ pc'[t] = "journal" /\ batch'[t] = batch[t] /\ owed'[t] = owed[t]
      /\ settled'[t] = settled[t] /\ order' = order
      /\ CurrentTx(t)' = CurrentTx(t)
  BY <1>1, <1>2, <1>5, WhoIsWho
<1>10. Payer(t)' = Payer(t) /\ Payee(t)' = Payee(t)
  BY <1>9 DEF Payer, Payee
<1>11. ToggleWell(t)'
  BY <1>1, <1>5, <1>9, <1>10 DEF ToggleWell, AtSettled
<1>12. /\ \A h \in Handlers \ {t} : pc'[h] = pc[h] /\ settled'[h] = settled[h]
       /\ \A s \in Toggles \ {t} : batch'[s] = batch[s] /\ owed'[s] = owed[s]
  BY <1>2, <1>5
<1>13. /\ \A r \in Requests : RequestWell(r)'
       /\ \A s \in Toggles : ToggleWell(s)'
       /\ \A a \in Opened :
            /\ InTransit(a) \in Int /\ Unjournalled(t, a) \in Int
            /\ InTransit(a)' = InTransit(a) - Unjournalled(t, a)
                                            + Unjournalled(t, a)'
       /\ DeficitsDue \in Int
       /\ DeficitsDue' = DeficitsDue - DeficitDue(t) + DeficitDue(t)'
  BY <1>5, <1>8, <1>11, <1>12, ReplayStepKeeps
<1>14. \A a \in Opened : Unjournalled(t, a)' = Unjournalled(t, a)
  BY <1>5, <1>9, <1>10 DEF Unjournalled
<1>15. DeficitDue(t) = n /\ DeficitDue(t)' = 0
  BY <1>4, <1>5, <1>9 DEF DeficitDue
<1>16. OverdraftIsUnchecked'
  <2>1. \A a \in Opened : TakenUnchecked(a)' = TakenUnchecked(a)
    BY <1>5, TakenIsIn
  <2>2. \A a \in Opened \ {res} : online'[a] = online[a]
    BY <1>6
  <2>3. QED
    BY <1>1, <1>3, <1>5, <2>1, <2>2 DEF OverdraftIsUnchecked
<1>17. BucketsAddUp'
  <2>1. \A a \in Opened : /\ allowance[a] \in Int
                          /\ allowance'[a] = allowance[a]
    BY <1>1, <1>5 DEF StandaloneTypeOK
  <2>2. QED
    BY <1>6, <2>1 DEF StandaloneInv, BucketsAddUp
<1>18. JournalAddsUp'
  <2>1. \A a \in Opened : /\ InTransit(a)' = InTransit(a)
                          /\ OpeningTotal[a] \in Int
    BY <1>13, <1>14, OpeningTypes
  <2>2. QED
    BY <1>6, <1>13, <2>1 DEF StandaloneInv, JournalAddsUp
<1>19. MoneyAddsUp'
  <2>1. DOMAIN total = Opened /\ DOMAIN total' = Opened
    BY <1>2, <1>7
  <2>2. /\ \A a \in Opened : total[a] \in Int /\ total'[a] \in Int
        /\ \A a \in Opened \ {res} : total[a] = total'[a]
    BY <1>6
  <2>3. SumFunctionOnSet(total', Opened) =
          SumFunctionOnSet(total, Opened) - total[res] + total'[res]
    BY <2>2, FiniteAssumption, SumUpdate
  <2>4. SumFunctionOnSet(total, Opened) \in Int
    BY <2>2, FiniteAssumption, SumType
  <2>5. /\ SumFunction(total) \in Int
        /\ SumFunction(total') = SumFunction(total) - n
    BY <1>6, <2>1, <2>3, <2>4 DEF SumFunction
  <2>6. DeficitsDue' = DeficitsDue - n
    BY <1>13, <1>15
  <2>7. QED
    BY <1>13, <2>5, <2>6, OpeningTypes DEF StandaloneInv, MoneyAddsUp
<1>20. QED
  BY <1>8, <1>13, <1>16, <1>17, <1>18, <1>19 DEF StandaloneInv

(* The entries of the payment take it out of transit, and the replay takes *)
(* it off its batch.                                                       *)
LEMMA JournalPreserves ==
  ASSUME StandaloneInv, NEW t \in Toggles, Journal(t)
  PROVE  StandaloneInv'
<1>1. /\ StandaloneTypeOK /\ ToggleWell(t)
      /\ t \in Handlers /\ t \notin Requests
  BY WhoIsWho DEF StandaloneInv
<1>2. /\ pc[t] = "journal"
      /\ journalled' = Transfer(journalled, Payer(t), owed[t].charge,
                                Payee(t), Payment[CurrentTx(t)].Amount)
      /\ batch' = [batch EXCEPT ![t] = Tail(batch[t])]
      /\ owed' = [owed EXCEPT ![t] = NoSplit]
      /\ pc' = [pc EXCEPT ![t] = "lock"]
      /\ UNCHANGED <<txOf, network, online, allowance, total, holder, order,
                     resp, settled>>
  BY <1>1 DEF Journal, GoTo, StandaloneTypeOK
<1>3. /\ total \in [Opened -> Int] /\ journalled \in [Opened -> Int]
      /\ pc \in [Handlers -> Steps] /\ order \in Seq(TxIDs)
      /\ batch \in [Toggles -> Seq(TxIDs)] /\ batch[t] \in Seq(TxIDs)
      /\ owed \in [Toggles -> [charge : Int, deficit : Nat]]
      /\ owed[t].charge \in Int /\ settled[t] \in [TxIDs -> Nat]
  BY <1>1 DEF StandaloneTypeOK
<1>4. batch[t] /= <<>> /\ Payer(t) \in Opened /\ Payee(t) \in Opened
  BY <1>1, <1>2 DEF ToggleWell
<1>5. CurrentTx(t) \in TxIDs /\ CurrentTx(t) = Head(batch[t])
  BY <1>3, <1>4, WhoIsWho
<1>6. PICK n \in Int : n = Payment[CurrentTx(t)].Amount
  BY <1>5, PaymentAssumption
<1>7. PICK c \in Int : c = owed[t].charge
  BY <1>3
<1>8. PICK from \in Opened : from = Payer(t)
  BY <1>4
<1>9. PICK to \in Opened : to = Payee(t)
  BY <1>4
<1>10. journalled' = Transfer(journalled, from, c, to, n)
  BY <1>2, <1>6, <1>7, <1>8, <1>9
<1>11. \A a \in Opened :
         /\ journalled[a] \in Int /\ total[a] \in Int
         /\ journalled'[a] = journalled[a] - (IF a = from THEN c ELSE 0)
                                           + (IF a = to THEN n ELSE 0)
  BY <1>3, <1>10 DEF Transfer
<1>12. Tail(batch[t]) \in Seq(TxIDs)
  BY <1>3, <1>4
<1>13. StandaloneTypeOK'
  <2>1. journalled' \in [Opened -> Int]
    BY <1>3, <1>10, TransferValue
  <2>2. batch' \in [Toggles -> Seq(TxIDs)]
    BY <1>2, <1>3, <1>12
  <2>3. owed' \in [Toggles -> [charge : Int, deficit : Nat]]
    BY <1>2, <1>3 DEF NoSplit
  <2>4. pc' \in [Handlers -> Steps]
    BY <1>2, <1>3 DEF Steps
  <2>5. QED
    BY <1>1, <1>2, <2>1, <2>2, <2>3, <2>4 DEF StandaloneTypeOK
<1>14. pc'[t] = "lock" /\ batch'[t] = Tail(batch[t])
  BY <1>1, <1>2, <1>3
<1>15. ToggleWell(t)'
  <2>1. ASSUME NEW x \in TxIDs
        PROVE  settled'[t][x] + Listings(batch'[t], x)
                 <= Listings(order', x) + AtSettled(t, x)'
    <3>1. settled[t][x] + Listings(batch[t], x)
            <= Listings(order, x) + AtSettled(t, x)
      BY <1>1 DEF ToggleWell
    <3>2. AtSettled(t, x) = IF Head(batch[t]) = x THEN 1 ELSE 0
      BY <1>2 DEF AtSettled
    <3>3. AtSettled(t, x)' = 0
      BY <1>14 DEF AtSettled
    <3>4. Listings(batch[t], x) =
            Listings(Tail(batch[t]), x)
              + (IF Head(batch[t]) = x THEN 1 ELSE 0)
      BY <1>3, <1>4, ListingsOfTail
    <3>5. /\ Listings(Tail(batch[t]), x) \in Nat /\ Listings(order, x) \in Nat
          /\ settled[t][x] \in Nat
      BY <1>3, <1>12, ListingsType
    <3>6. settled' = settled /\ order' = order
      BY <1>2
    <3>7. QED
      BY <1>14, <3>1, <3>2, <3>3, <3>4, <3>5, <3>6
  <2>2. QED
    BY <1>14, <2>1 DEF ToggleWell
<1>16. /\ \A h \in Handlers \ {t} : pc'[h] = pc[h] /\ settled'[h] = settled[h]
       /\ \A s \in Toggles \ {t} : batch'[s] = batch[s] /\ owed'[s] = owed[s]
  BY <1>2, <1>3
<1>17. /\ \A r \in Requests : RequestWell(r)'
       /\ \A s \in Toggles : ToggleWell(s)'
       /\ \A a \in Opened :
            /\ InTransit(a) \in Int
            /\ InTransit(a)' = InTransit(a) - Unjournalled(t, a)
                                            + Unjournalled(t, a)'
       /\ DeficitsDue \in Int
       /\ DeficitsDue' = DeficitsDue - DeficitDue(t) + DeficitDue(t)'
  BY <1>2, <1>13, <1>15, <1>16, ReplayStepKeeps
<1>18. /\ \A a \in Opened :
            /\ Unjournalled(t, a) = (IF a = to THEN n ELSE 0)
                                      - (IF a = from THEN c ELSE 0)
            /\ Unjournalled(t, a)' = 0
       /\ DeficitDue(t) = 0 /\ DeficitDue(t)' = 0
  BY <1>2, <1>6, <1>7, <1>8, <1>9, <1>14 DEF Unjournalled, DeficitDue
<1>19. OverdraftIsUnchecked' /\ BucketsAddUp'
  <2>1. \A a \in Opened : TakenUnchecked(a)' = TakenUnchecked(a)
    BY <1>2, TakenIsIn
  <2>2. QED
    BY <1>2, <2>1 DEF StandaloneInv, OverdraftIsUnchecked, BucketsAddUp
<1>20. JournalAddsUp'
  <2>1. \A a \in Opened : InTransit(a)' = InTransit(a)
                                            - ((IF a = to THEN n ELSE 0)
                                               - (IF a = from THEN c ELSE 0))
    BY <1>17, <1>18
  <2>2. \A a \in Opened : total'[a] = total[a] /\ OpeningTotal[a] \in Int
    BY <1>2, OpeningTypes
  <2>3. QED
    <3>1. ASSUME NEW a \in Opened
          PROVE  total'[a] = OpeningTotal[a] + journalled'[a] + InTransit(a)'
      <4>1. total[a] = OpeningTotal[a] + journalled[a] + InTransit(a)
        BY DEF StandaloneInv, JournalAddsUp
      <4>2. /\ InTransit(a) \in Int /\ OpeningTotal[a] \in Int
            /\ journalled[a] \in Int
        BY <1>11, <1>17, <2>2
      <4> DEFINE paid == IF a = from THEN c ELSE 0
                 received == IF a = to THEN n ELSE 0
      <4>3. /\ journalled'[a] = journalled[a] - paid + received
            /\ InTransit(a)' = InTransit(a) - (received - paid)
            /\ total'[a] = total[a]
        BY <1>11, <2>1, <2>2
      <4>4. paid \in Int /\ received \in Int
        OBVIOUS
      <4> HIDE DEF paid, received
      <4>5. journalled'[a] + InTransit(a)' = journalled[a] + InTransit(a)
        BY <4>2, <4>3, <4>4
      <4>6. journalled'[a] \in Int /\ InTransit(a)' \in Int
        BY <4>2, <4>3, <4>4
      <4>7. QED
        BY <4>1, <4>2, <4>3, <4>5, <4>6
    <3>2. QED
      BY <3>1 DEF JournalAddsUp
<1>21. MoneyAddsUp'
  <2>1. DeficitsDue' = DeficitsDue
    BY <1>17, <1>18
  <2>2. QED
    BY <1>2, <2>1 DEF StandaloneInv, MoneyAddsUp
<1>22. QED
  BY <1>13, <1>17, <1>19, <1>20, <1>21 DEF StandaloneInv

(* Every step preserves the invariant.                                     *)
LEMMA StandaloneInvNext ==
  StandaloneInv /\ [StandaloneNext]_vars => StandaloneInv'
<1>1. SUFFICES ASSUME StandaloneInv, [StandaloneNext]_vars
               PROVE  StandaloneInv'
  OBVIOUS
<1>2. CASE StandaloneNext
  BY <1>1, <1>2, RequestMovesPreserves, DirectCommitPreserves,
     ReplayMovesPreserves, CommitOfflineAllowancePreserves,
     DebitDeficitReservePreserves, JournalPreserves
     DEF StandaloneNext, PaymentStep, ToggleStep
<1>3. CASE UNCHANGED vars
  <2>1. UNCHANGED <<network, online, allowance, total, holder, journalled,
                    order, pc, txOf, resp, batch, owed, settled>>
    BY <1>3 DEF vars, accountVars
  <2>2. StandaloneTypeOK /\ StandaloneTypeOK'
    BY <1>1, <2>1 DEF StandaloneInv, StandaloneTypeOK
  <2>3. ASSUME NEW r \in Requests PROVE RequestWell(r)'
    BY <1>1, <2>1, RequestLeftAlone DEF StandaloneInv
  <2>4. \A tx \in TxIDs : Listings(order, tx) <= Listings(order', tx)
    BY <2>1, <2>2, SameLog
  <2>5. ASSUME NEW t \in Toggles
        PROVE  /\ ToggleWell(t)'
               /\ \A a \in Opened : Unjournalled(t, a)' = Unjournalled(t, a)
               /\ DeficitDue(t)' = DeficitDue(t)
    <3>1. ToggleWell(t) /\ order' \in Seq(TxIDs)
      BY <1>1, <2>2 DEF StandaloneInv, StandaloneTypeOK
    <3>2. QED
      BY <2>1, <2>2, <2>4, <3>1, ReplayLeftAlone
  <2>6. /\ \A a \in Opened : InTransit(a)' = InTransit(a)
        /\ DeficitsDue' = DeficitsDue
    BY <2>5, SumsUnchanged
  <2>7. /\ OverdraftIsUnchecked'
        /\ BucketsAddUp' /\ JournalAddsUp' /\ MoneyAddsUp'
    BY <1>1, <2>1, <2>6, MoneyUntouched
  <2>8. QED
    BY <2>2, <2>3, <2>5, <2>7 DEF StandaloneInv
<1>4. QED
  BY <1>1, <1>2, <1>3

(* A replay has settled what its batch no longer lists, and the payment it *)
(* is at is still listed there.                                            *)
LEMMA SettledOnceListed ==
  ASSUME StandaloneInv
  PROVE  SettledPerListing
<1>1. ASSUME NEW t \in Toggles, NEW tx \in TxIDs
      PROVE  settled[t][tx] <= Listings(order, tx)
  <2>1. /\ StandaloneTypeOK /\ ToggleWell(t) /\ t \in Handlers
        /\ settled[t][tx] + Listings(batch[t], tx)
             <= Listings(order, tx) + AtSettled(t, tx)
    BY WhoIsWho DEF StandaloneInv, ToggleWell
  <2>2. /\ batch[t] \in Seq(TxIDs) /\ order \in Seq(TxIDs)
        /\ settled[t][tx] \in Nat
    BY <2>1 DEF StandaloneTypeOK
  <2>3. Listings(batch[t], tx) \in Nat /\ Listings(order, tx) \in Nat
    BY <2>2, ListingsType
  <2>4. Listings(batch[t], tx) >= AtSettled(t, tx) /\ AtSettled(t, tx) \in Nat
    <3>1. CASE pc[t] \in {"reserve", "journal"} /\ Head(batch[t]) = tx
      <4>1. batch[t] /= <<>>
        BY <2>1, <3>1 DEF ToggleWell
      <4>2. /\ Tail(batch[t]) \in Seq(TxIDs)
            /\ Listings(batch[t], tx) = Listings(Tail(batch[t]), tx) + 1
        BY <2>2, <3>1, <4>1, ListingsOfTail
      <4>3. Listings(Tail(batch[t]), tx) \in Nat
        BY <4>2, ListingsType
      <4>4. QED
        BY <3>1, <4>2, <4>3 DEF AtSettled
    <3>2. CASE ~(pc[t] \in {"reserve", "journal"} /\ Head(batch[t]) = tx)
      BY <2>3, <3>2 DEF AtSettled
    <3>3. QED
      BY <3>1, <3>2
  <2>5. QED
    BY <2>1, <2>2, <2>3, <2>4
<1>2. QED
  BY <1>1 DEF StandaloneInv, RequestWell, SettledPerListing

-----------------------------------------------------------------------------
(***************************************************************************)
(* The program's variables keep their types.                               *)
(***************************************************************************)
THEOREM StandaloneTypeCorrect == StandaloneSpec => []StandaloneTypeOK
<1>1. StandaloneInv => StandaloneTypeOK
  BY DEF StandaloneInv
<1>2. QED
  BY <1>1, StandaloneInvInit, StandaloneInvNext, PTL DEF StandaloneSpec

(***************************************************************************)
(* The books balance at every moment, for any number of payments and       *)
(* replays that interleave: buckets with totals, totals with the journal   *)
(* and what is in transit to it, all accounts with what was opened and the *)
(* deficits due; and a replay settles nothing more often than it is listed.*)
(***************************************************************************)
THEOREM BooksAlwaysBalance == StandaloneSpec => []BooksBalance
<1>1. StandaloneInv => BooksBalance
  BY SettledOnceListed
     DEF StandaloneInv, BooksBalance, BucketsAddUp, JournalAddsUp,
         MoneyAddsUp, InTransit, DeficitsDue
<1>2. QED
  BY <1>1, StandaloneInvInit, StandaloneInvNext, PTL DEF StandaloneSpec

(***************************************************************************)
(* No allowance is overdrawn, and no OnlineAvailable but the reserve's is  *)
(* overdrawn by more than negative payments, whose sign is checked         *)
(* nowhere, took from their payee; although the accounts are unlocked      *)
(* between the steps of a replay.  Without negative payments, no account   *)
(* but the reserve is overdrawn.                                           *)
(***************************************************************************)
THEOREM OverdraftNeedsNegative == StandaloneSpec => []OverdraftIsUnchecked
<1>1. StandaloneInv => OverdraftIsUnchecked
  BY DEF StandaloneInv
<1>2. QED
  BY <1>1, StandaloneInvInit, StandaloneInvNext, PTL DEF StandaloneSpec

=============================================================================
