---------------------------- MODULE LedgerProofs ----------------------------
(***************************************************************************)
(* Proofs about the ledger, for every set of accounts, parties, amounts    *)
(* and transaction ids and every bound on the journal.                     *)
(***************************************************************************)
EXTENDS Ledger, SumTheorems, TLAPS

-----------------------------------------------------------------------------
(* Lemmas about the operators the actions are built from.                  *)

(* The buckets of an account are buckets, and they are different ones.     *)
LEMMA BucketsOfAccount ==
  ASSUME NEW a \in Accounts
  PROVE  /\ OnlineAvailable(a) \in Buckets
         /\ OfflineAllowance(a) \in Buckets
         /\ ReservedBalance(a) \in Buckets
         /\ \A c : /\ OnlineAvailable(a) /= OfflineAllowance(c)
                   /\ OnlineAvailable(a) /= ReservedBalance(c)
                   /\ OfflineAllowance(a) /= ReservedBalance(c)
                   /\ OnlineAvailable(a) = OnlineAvailable(c) => a = c
                   /\ OfflineAllowance(a) = OfflineAllowance(c) => a = c
                   /\ ReservedBalance(a) = ReservedBalance(c) => a = c
         /\ OnlineAvailable(a)[1] = a
         /\ OfflineAllowance(a)[1] = a
         /\ ReservedBalance(a)[1] = a
BY DEF Buckets, OnlineAvailable, OfflineAllowance, ReservedBalance

(* Move takes n from one bucket, gives n to the other and leaves the rest. *)
LEMMA MoveEffect ==
  ASSUME balance \in [Buckets -> Int],
         NEW from \in Buckets, NEW to \in Buckets, NEW n \in Int,
         Move(from, to, n)
  PROVE  /\ balance' \in [Buckets -> Int]
         /\ \A b \in Buckets :
              balance'[b] = balance[b] - (IF b = from THEN n ELSE 0)
                                       + (IF b = to THEN n ELSE 0)
BY DEF Move

(* appendEntry adds one well-typed entry at the end and keeps the others.  *)
LEMMA AppendEntryEffect ==
  ASSUME entries \in Seq(LedgerEntry),
         NEW type \in EntryTypes, NEW tx \in TxIDs \cup {GeneratedTxID},
         NEW debit \in Labels, NEW credit \in Labels, NEW n \in Int,
         appendEntry(type, tx, debit, credit, n)
  PROVE  /\ entries' \in Seq(LedgerEntry)
         /\ Len(entries') = Len(entries) + 1
         /\ \A i \in DOMAIN entries : /\ i \in DOMAIN entries'
                                      /\ entries'[i] = entries[i]
         /\ Len(entries') \in DOMAIN entries'
         /\ entries'[Len(entries')] = NewEntry(type, tx, debit, credit, n)
<1>1. NewEntry(type, tx, debit, credit, n) \in LedgerEntry
  BY DEF NewEntry, LedgerEntry
<1>2. entries' = Append(entries, NewEntry(type, tx, debit, credit, n))
  BY DEF appendEntry
<1>3. QED
  BY <1>1, <1>2

(* The labels the journal uses are labels, and different ones.             *)
LEMMA LabelsOfAccount ==
  ASSUME NEW a \in Accounts
  PROVE  /\ Label(a) \in Labels
         /\ OnlineLabel(a) \in Labels
         /\ OfflineLabel(a) \in Labels
         /\ Label(SystemCapital) \in Labels
         /\ \A c : /\ Label(a) /= OnlineLabel(c)
                   /\ Label(a) /= OfflineLabel(c)
                   /\ OnlineLabel(a) /= OfflineLabel(c)
                   /\ Label(SystemCapital) /= OnlineLabel(c)
                   /\ Label(SystemCapital) /= OfflineLabel(c)
                   /\ Label(a) = Label(c) => a = c
                   /\ OnlineLabel(a) = OnlineLabel(c) => a = c
                   /\ OfflineLabel(a) = OfflineLabel(c) => a = c
         /\ Label(SystemCapital) /= Label(a)
BY SystemCapitalAssumption DEF Label, OnlineLabel, OfflineLabel, Labels

(* There are finitely many buckets.                                        *)
LEMMA BucketsFinite == IsFiniteSet(Buckets)
<1> DEFINE names == {"OnlineAvailable", "OfflineAllowance", "ReservedBalance"}
<1>1. IsFiniteSet({"OnlineAvailable"})
  BY FS_Singleton
<1>2. IsFiniteSet({"OnlineAvailable"} \cup {"OfflineAllowance"})
  BY <1>1, FS_AddElement
<1>3. IsFiniteSet(({"OnlineAvailable"} \cup {"OfflineAllowance"})
                    \cup {"ReservedBalance"})
  BY <1>2, FS_AddElement
<1>4. names = ({"OnlineAvailable"} \cup {"OfflineAllowance"})
                \cup {"ReservedBalance"}
  OBVIOUS
<1>5. QED
  BY <1>3, <1>4, AccountsAssumption, FS_Product DEF Buckets

-----------------------------------------------------------------------------
(* What the buckets and the journal add up to.                             *)

(* A move changes the total of a set of buckets by what crosses its border. *)
LEMMA TotalAfterMove ==
  ASSUME balance \in [Buckets -> Int], NEW S \in SUBSET Buckets,
         NEW from \in Buckets, NEW to \in Buckets, NEW n \in Int,
         Move(from, to, n)
  PROVE  /\ Total(S) \in Int
         /\ Total(S)' = Total(S) - (IF from \in S THEN n ELSE 0)
                                 + (IF to \in S THEN n ELSE 0)
<1>1. IsFiniteSet(S) /\ \A b \in S : balance[b] \in Int
  BY BucketsFinite, FS_Subset
<1>2. \A b \in S : balance'[b] = balance[b] - (IF b = from THEN n ELSE 0)
                                            + (IF b = to THEN n ELSE 0)
  BY MoveEffect
<1>3. SumFunctionOnSet(balance', S) =
        SumFunctionOnSet(balance, S) - (IF from \in S THEN n ELSE 0)
                                     + (IF to \in S THEN n ELSE 0)
  BY <1>1, <1>2, SumMove
<1>4. SumFunctionOnSet(balance, S) \in Int
  BY <1>1, SumType
<1>5. QED
  BY <1>3, <1>4 DEF Total

(* A deposit of n raises the totals its bucket is in by n.                 *)
LEMMA TotalAfterDeposit ==
  ASSUME balance \in [Buckets -> Int], NEW S \in SUBSET Buckets,
         NEW to \in Buckets, NEW n \in Int,
         \A b \in Buckets :
           balance'[b] = balance[b] + (IF b = to THEN n ELSE 0)
  PROVE  /\ Total(S) \in Int
         /\ Total(S)' = Total(S) + (IF to \in S THEN n ELSE 0)
<1>1. IsFiniteSet(S) /\ \A b \in S : balance[b] \in Int
  BY BucketsFinite, FS_Subset
<1>2. \A b \in S : /\ balance[b] \in Int
                   /\ balance'[b] = balance[b] + (IF b = to THEN n ELSE 0)
  OBVIOUS
<1>3. SumFunctionOnSet(balance', S) =
        SumFunctionOnSet(balance, S) + (IF to \in S THEN n ELSE 0)
  BY <1>1, <1>2, SumShift
<1>4. SumFunctionOnSet(balance, S) \in Int
  BY <1>1, SumType
<1>5. QED
  BY <1>3, <1>4 DEF Total

(* An entry has an integer effect.                                         *)
LEMMA EffectType ==
  ASSUME NEW e \in LedgerEntry, NEW label
  PROVE  Effect(e, label) \in Int
BY DEF Effect, LedgerEntry

(* No entry, no effect.                                                    *)
LEMMA NetOfNothing ==
  ASSUME NEW label
  PROVE  NetOf(<<>>, label) = 0
<1> DEFINE F == [i \in DOMAIN <<>> |-> Effect(<<>>[i], label)]
<1>1. DOMAIN F = {}
  OBVIOUS
<1>2. SumFunctionOnSet(F, {}) = 0
  BY SumEmpty
<1>3. QED
  BY <1>1, <1>2 DEF NetOf, SumFunction

(* An entry that is appended adds its effect.                              *)
LEMMA NetOfAppend ==
  ASSUME NEW s \in Seq(LedgerEntry), NEW e \in LedgerEntry, NEW label
  PROVE  /\ NetOf(s, label) \in Int
         /\ NetOf(Append(s, e), label) = NetOf(s, label) + Effect(e, label)
<1> DEFINE t == Append(s, e)
           F == [i \in DOMAIN s |-> Effect(s[i], label)]
           G == [i \in DOMAIN t |-> Effect(t[i], label)]
           n == Len(s)
<1>1. /\ n \in Nat
      /\ DOMAIN s = 1..n
      /\ DOMAIN t = 1..(n + 1)
      /\ \A i \in 1..n : s[i] \in LedgerEntry /\ t[i] = s[i]
      /\ t[n + 1] = e
  OBVIOUS
<1>2. /\ DOMAIN F = 1..n
      /\ DOMAIN G = 1..(n + 1)
      /\ \A i \in 1..n : F[i] \in Int /\ F[i] = G[i]
      /\ G[n + 1] = Effect(e, label)
  BY <1>1, EffectType
<1>3. Effect(e, label) \in Int
  BY EffectType
<1> HIDE DEF F, G, n, t
<1>4. SumFunction(F) \in Int /\ SumFunction(G) = SumFunction(F) + G[n + 1]
  BY <1>1, <1>2, <1>3, SumOneMore
<1>5. QED
  BY <1>2, <1>4 DEF NetOf, F, G, t

(* The deposit that is not journalled yet counts like the others.          *)
LEMMA NetOfJournal ==
  ASSUME NEW s \in Seq(LedgerEntry), NEW f \in LedgerEntry \cup {NoEntry},
         NEW label
  PROVE  /\ NetOf(s, label) \in Int
         /\ f /= NoEntry => Effect(f, label) \in Int
         /\ NetOf(IF f = NoEntry THEN s ELSE Append(s, f), label) =
              NetOf(s, label) + (IF f = NoEntry THEN 0 ELSE Effect(f, label))
<1>1. NetOf(s, label) \in Int
  <2>1. NewEntry("COMMIT", GeneratedTxID, Label(SystemCapital),
                 Label(SystemCapital), 0) \in LedgerEntry
    <3>1. Label(SystemCapital) \in Labels
      BY DEF Label, Labels
    <3>2. QED
      BY <3>1 DEF NewEntry, LedgerEntry, EntryTypes
  <2>2. QED
    BY <2>1, NetOfAppend
<1>2. CASE f = NoEntry
  BY <1>1, <1>2
<1>3. CASE f /= NoEntry
  BY <1>1, <1>3, NetOfAppend, EffectType
<1>4. QED
  BY <1>2, <1>3

(* Credits minus debits of a label are an integer.                         *)
LEMMA NetType ==
  ASSUME LedgerTypeOK, NEW label
  PROVE  Net(label) \in Int
<1>1. /\ NetOf(entries, label) \in Int
      /\ funding /= NoEntry => Effect(funding, label) \in Int
      /\ NetOf(IF funding = NoEntry THEN entries ELSE Append(entries, funding),
               label)
           = NetOf(entries, label)
               + (IF funding = NoEntry THEN 0 ELSE Effect(funding, label))
  BY NetOfJournal DEF LedgerTypeOK
<1>2. Net(label) = NetOf(IF funding = NoEntry THEN entries
                         ELSE Append(entries, funding), label)
  BY DEF Net, Journal
<1>3. QED
  BY <1>1, <1>2

(* What an entry takes unchecked is a natural number.                      *)
LEMMA UncheckedTakingType ==
  ASSUME NEW e \in LedgerEntry, NEW label
  PROVE  UncheckedTaking(e, label) \in Nat
BY DEF UncheckedTaking, LedgerEntry

(* An entry that is appended adds what it takes.                           *)
LEMMA UncheckedOfAppend ==
  ASSUME NEW s \in Seq(LedgerEntry), NEW e \in LedgerEntry, NEW label
  PROVE  /\ UncheckedOf(s, label) \in Int
         /\ UncheckedOf(Append(s, e), label) =
              UncheckedOf(s, label) + UncheckedTaking(e, label)
<1> DEFINE t == Append(s, e)
           F == [i \in DOMAIN s |-> UncheckedTaking(s[i], label)]
           G == [i \in DOMAIN t |-> UncheckedTaking(t[i], label)]
           n == Len(s)
<1>1. /\ n \in Nat
      /\ DOMAIN s = 1..n
      /\ DOMAIN t = 1..(n + 1)
      /\ \A i \in 1..n : s[i] \in LedgerEntry /\ t[i] = s[i]
      /\ t[n + 1] = e
  OBVIOUS
<1>2. /\ DOMAIN F = 1..n
      /\ DOMAIN G = 1..(n + 1)
      /\ \A i \in 1..n : F[i] \in Int /\ F[i] = G[i]
      /\ G[n + 1] = UncheckedTaking(e, label)
  BY <1>1, UncheckedTakingType
<1>3. UncheckedTaking(e, label) \in Int
  BY UncheckedTakingType
<1> HIDE DEF F, G, n, t
<1>4. SumFunction(F) \in Int /\ SumFunction(G) = SumFunction(F) + G[n + 1]
  BY <1>1, <1>2, <1>3, SumOneMore
<1>5. QED
  BY <1>2, <1>4 DEF UncheckedOf, F, G, t

(* The journal as a sequence, the deposit under way included.              *)
LEMMA JournalType ==
  ASSUME entries \in Seq(LedgerEntry), funding \in LedgerEntry \cup {NoEntry}
  PROVE  Journal \in Seq(LedgerEntry)
BY DEF Journal

(***************************************************************************)
(* A posting adds what it takes unchecked to what the journal says was     *)
(* taken, also while a deposit still waits to be journalled.               *)
(***************************************************************************)
LEMMA UncheckedAfterPosting ==
  ASSUME entries \in Seq(LedgerEntry), funding \in LedgerEntry \cup {NoEntry},
         NEW e \in LedgerEntry, entries' = Append(entries, e),
         funding' = funding, NEW label
  PROVE  /\ Unchecked(label) \in Int
         /\ Unchecked(label)' = Unchecked(label) + UncheckedTaking(e, label)
<1> DEFINE p == UncheckedTaking(funding, label)
<1>1. /\ UncheckedOf(entries, label) \in Int
      /\ UncheckedOf(entries', label) =
           UncheckedOf(entries, label) + UncheckedTaking(e, label)
  BY UncheckedOfAppend
<1>2. UncheckedTaking(e, label) \in Int
  BY UncheckedTakingType
<1>3. CASE funding = NoEntry
  BY <1>1, <1>3 DEF Unchecked, Journal
<1>4. CASE funding # NoEntry
  <2>1. p \in Int
    BY <1>4, UncheckedTakingType
  <2>2. Unchecked(label) = UncheckedOf(entries, label) + p
    BY <1>4, UncheckedOfAppend DEF Unchecked, Journal
  <2>3. entries' \in Seq(LedgerEntry)
    OBVIOUS
  <2>4. Unchecked(label)' = UncheckedOf(Append(entries', funding), label)
    BY <1>4 DEF Unchecked, Journal
  <2>5. UncheckedOf(Append(entries', funding), label) =
          UncheckedOf(entries', label) + p
    BY <1>4, <2>3, UncheckedOfAppend
  <2> HIDE DEF p
  <2>6. QED
    BY <1>1, <1>2, <2>1, <2>2, <2>4, <2>5
<1>5. QED
  BY <1>3, <1>4

(* What the journal says was taken unchecked is a natural number.          *)
LEMMA UncheckedType ==
  ASSUME entries \in Seq(LedgerEntry), funding \in LedgerEntry \cup {NoEntry},
         NEW label
  PROVE  Unchecked(label) \in Nat
<1> DEFINE F == [i \in DOMAIN Journal |-> UncheckedTaking(Journal[i], label)]
<1>1. /\ Journal \in Seq(LedgerEntry)
      /\ DOMAIN Journal = 1..Len(Journal)
      /\ Len(Journal) \in Nat
  BY JournalType
<1>2. /\ DOMAIN F = 1..Len(Journal)
      /\ \A i \in 1..Len(Journal) : F[i] \in Nat
  BY <1>1, UncheckedTakingType
<1>3. IsFiniteSet(1..Len(Journal))
  BY <1>1, FS_Interval
<1> DEFINE Z == [i \in 1..Len(Journal) |-> 0]
<1>4. /\ \A i \in 1..Len(Journal) : Z[i] = 0
      /\ \A i \in 1..Len(Journal) : /\ Z[i] \in Int /\ F[i] \in Int
                                    /\ Z[i] <= F[i]
  BY <1>2
<1> HIDE DEF F, Z
<1>5. SumFunctionOnSet(Z, 1..Len(Journal)) = 0
  BY <1>3, <1>4, SumOfZeros
<1>6. SumFunctionOnSet(Z, 1..Len(Journal))
        <= SumFunctionOnSet(F, 1..Len(Journal))
  BY <1>3, <1>4, SumMonotone
<1>7. SumFunctionOnSet(F, 1..Len(Journal)) \in Int
  BY <1>3, <1>4, SumType
<1>8. QED
  BY <1>2, <1>5, <1>6, <1>7 DEF Unchecked, UncheckedOf, SumFunction, F

-----------------------------------------------------------------------------
(* The inductive invariant.                                                *)

(* Only an account that was opened has an opening balance.                 *)
OpeningsOfOpenAccounts ==
  \A a \in Accounts : a \notin exists => opening[a] = 0

ReservedBuckets == {ReservedBalance(a) : a \in Accounts}

(* The online labels of an account explain its online bucket, and those of *)
(* the escrow account the holds on all accounts as well: the uniform form  *)
(* of JournalExplainsBalances and EscrowBacksReserved.                     *)
OnlineExplained ==
  \A a \in Accounts :
    opening[a] + Net(Label(a)) + Net(OnlineLabel(a)) =
      balance[OnlineAvailable(a)]
        + (IF a = SystemEscrow THEN Total(ReservedBuckets) ELSE 0)

OfflineExplained ==
  \A a \in Accounts : balance[OfflineAllowance(a)] = Net(OfflineLabel(a))

(* Conservation over all buckets, those of closed accounts included.       *)
CapitalExplained ==
  Total(Buckets) = SumFunction(opening) - Net(Label(SystemCapital))

Books ==
  /\ OpeningsOfOpenAccounts
  /\ OnlineExplained
  /\ OfflineExplained
  /\ CapitalExplained

(***************************************************************************)
(* The type invariant makes the arithmetic meaningful; the others are      *)
(* inductive together with it.                                             *)
(***************************************************************************)
LedgerInv ==
  /\ LedgerTypeOK
  /\ MoneyOnlyInOpenAccounts
  /\ BucketsNonNegative
  /\ OverdraftIsUnchecked
  /\ Books

(* The label a posting must carry for the bucket it touches.               *)
Matches(bucket, label) ==
  \E c \in Accounts :
    \/ bucket = OnlineAvailable(c) /\ label \in {Label(c), OnlineLabel(c)}
    \/ bucket = OfflineAllowance(c) /\ label = OfflineLabel(c)
    \/ bucket = ReservedBalance(c) /\ label = Label(SystemEscrow)

(* A matching label is one of the account's exactly if the bucket is.      *)
LEMMA MatchesMeaning ==
  ASSUME NEW bucket, NEW label, Matches(bucket, label), NEW a \in Accounts
  PROVE  /\ bucket \in Buckets
         /\ label \in Labels
         /\ label /= Label(SystemCapital)
         /\ label \in {Label(a), OnlineLabel(a)} <=>
              \/ bucket = OnlineAvailable(a)
              \/ a = SystemEscrow /\ bucket \in ReservedBuckets
         /\ label = OfflineLabel(a) <=> bucket = OfflineAllowance(a)
<1>1. SystemEscrow \in Accounts
  BY SystemAccountsAssumption DEF SystemAccounts
<1>2. PICK c \in Accounts :
        \/ bucket = OnlineAvailable(c) /\ label \in {Label(c), OnlineLabel(c)}
        \/ bucket = OfflineAllowance(c) /\ label = OfflineLabel(c)
        \/ bucket = ReservedBalance(c) /\ label = Label(SystemEscrow)
  BY DEF Matches
<1>3. /\ bucket \in Buckets
      /\ label \in Labels
      /\ label /= Label(SystemCapital)
  BY <1>1, <1>2, BucketsOfAccount, LabelsOfAccount
<1>4. CASE bucket = OnlineAvailable(c) /\ label \in {Label(c), OnlineLabel(c)}
  BY <1>3, <1>4, BucketsOfAccount, LabelsOfAccount DEF ReservedBuckets
<1>5. CASE bucket = OfflineAllowance(c) /\ label = OfflineLabel(c)
  BY <1>3, <1>5, BucketsOfAccount, LabelsOfAccount DEF ReservedBuckets
<1>6. CASE bucket = ReservedBalance(c) /\ label = Label(SystemEscrow)
  BY <1>1, <1>3, <1>6, BucketsOfAccount, LabelsOfAccount DEF ReservedBuckets
<1>7. QED
  BY <1>2, <1>4, <1>5, <1>6

(* The labels that match the buckets of an account.                        *)
LEMMA MatchingLabels ==
  ASSUME NEW a \in Accounts
  PROVE  /\ Matches(OnlineAvailable(a), Label(a))
         /\ Matches(OnlineAvailable(a), OnlineLabel(a))
         /\ Matches(OfflineAllowance(a), OfflineLabel(a))
         /\ Matches(ReservedBalance(a), Label(SystemEscrow))
BY DEF Matches

(* The two labels of an online bucket together: credit minus debit.        *)
LEMMA OnlineEffect ==
  ASSUME NEW type, NEW tx, NEW debit, NEW credit, NEW n \in Int,
         NEW a \in Accounts
  PROVE  LET e == NewEntry(type, tx, debit, credit, n)
         IN  Effect(e, Label(a)) + Effect(e, OnlineLabel(a)) =
               (IF credit \in {Label(a), OnlineLabel(a)} THEN n ELSE 0)
               - (IF debit \in {Label(a), OnlineLabel(a)} THEN n ELSE 0)
BY LabelsOfAccount DEF Effect, NewEntry

(***************************************************************************)
(* A posting whose labels match its buckets keeps the books.               *)
(***************************************************************************)
LEMMA PostingKeepsBooks ==
  ASSUME LedgerTypeOK, Books,
         NEW from, NEW to, NEW n \in Int,
         NEW type \in EntryTypes, NEW tx \in TxIDs \cup {GeneratedTxID},
         NEW debit, NEW credit,
         Matches(from, debit), Matches(to, credit),
         Move(from, to, n),
         appendEntry(type, tx, debit, credit, n),
         exists \subseteq exists',
         UNCHANGED <<funding, opening>>
  PROVE  Books'
<1> DEFINE e == NewEntry(type, tx, debit, credit, n)
<1>1. SystemEscrow \in Accounts
  BY SystemAccountsAssumption DEF SystemAccounts
<1>2. /\ from \in Buckets /\ to \in Buckets
      /\ debit \in Labels /\ credit \in Labels
  BY <1>1, MatchesMeaning
<1>3. e \in LedgerEntry
  BY <1>2 DEF NewEntry, LedgerEntry
<1>4. /\ balance \in [Buckets -> Int]
      /\ entries \in Seq(LedgerEntry)
      /\ entries' = Append(entries, e)
      /\ funding' = funding /\ funding \in LedgerEntry \cup {NoEntry}
      /\ opening' = opening /\ opening \in [Accounts -> Int]
  BY DEF LedgerTypeOK, appendEntry
<1> HIDE DEF e
<1>5. ASSUME NEW label
      PROVE  /\ Net(label) \in Int
             /\ Effect(e, label) \in Int
             /\ Net(label)' = Net(label) + Effect(e, label)
  <2> DEFINE p == IF funding = NoEntry THEN 0 ELSE Effect(funding, label)
  <2>1. entries' \in Seq(LedgerEntry)
    BY <1>3, <1>4
  <2>2. /\ NetOf(entries, label) \in Int
        /\ p \in Int
        /\ Net(label) = NetOf(entries, label) + p
    <3>1. Net(label) = NetOf(IF funding = NoEntry THEN entries
                             ELSE Append(entries, funding), label)
      BY DEF Net, Journal
    <3>2. /\ NetOf(entries, label) \in Int
          /\ funding /= NoEntry => Effect(funding, label) \in Int
          /\ NetOf(IF funding = NoEntry THEN entries
                   ELSE Append(entries, funding), label)
              = NetOf(entries, label) + p
      BY <1>4, NetOfJournal
    <3>3. QED
      BY <3>1, <3>2
  <2>3. Net(label)' = NetOf(entries', label) + p
    <3>1. Net(label)' = NetOf(IF funding = NoEntry THEN entries'
                              ELSE Append(entries', funding), label)
      BY <1>4 DEF Net, Journal
    <3>2. NetOf(IF funding = NoEntry THEN entries'
                ELSE Append(entries', funding), label)
            = NetOf(entries', label) + p
      BY <1>4, <2>1, NetOfJournal
    <3>3. QED
      BY <3>1, <3>2
  <2>4. /\ Effect(e, label) \in Int
        /\ NetOf(entries', label) = NetOf(entries, label) + Effect(e, label)
    BY <1>3, <1>4, NetOfAppend, EffectType
  <2> HIDE DEF p
  <2>5. QED
    BY <2>2, <2>3, <2>4
<1>6. ASSUME NEW S \in SUBSET Buckets
      PROVE  /\ Total(S) \in Int
             /\ Total(S)' = Total(S) - (IF from \in S THEN n ELSE 0)
                                     + (IF to \in S THEN n ELSE 0)
  <2>1. balance \in [Buckets -> Int]
    BY <1>4
  <2>2. Move(from, to, n)
    OBVIOUS
  <2>3. QED
    BY ONLY <2>1, <2>2, S \in SUBSET Buckets, <1>2, n \in Int,
            TotalAfterMove
<1>7. ASSUME NEW b \in Buckets
      PROVE  /\ balance[b] \in Int
             /\ balance'[b] = balance[b] - (IF b = from THEN n ELSE 0)
                                         + (IF b = to THEN n ELSE 0)
  BY <1>2, <1>4, MoveEffect
<1>8. OpeningsOfOpenAccounts'
  BY <1>4 DEF Books, OpeningsOfOpenAccounts
<1>9. OnlineExplained'
  <2>1. SUFFICES ASSUME NEW a \in Accounts
                 PROVE  opening[a] + Net(Label(a))' + Net(OnlineLabel(a))' =
                          balance'[OnlineAvailable(a)]
                            + (IF a = SystemEscrow
                               THEN Total(ReservedBuckets)' ELSE 0)
    BY <1>4 DEF OnlineExplained
  <2> DEFINE online == OnlineAvailable(a)
             holds == ReservedBuckets
             out == IF debit \in {Label(a), OnlineLabel(a)} THEN n ELSE 0
             in == IF credit \in {Label(a), OnlineLabel(a)} THEN n ELSE 0
  <2>2. online \in Buckets /\ holds \in SUBSET Buckets /\ online \notin holds
    BY BucketsOfAccount DEF ReservedBuckets
  <2>3. opening[a] + Net(Label(a)) + Net(OnlineLabel(a)) =
          balance[online] + (IF a = SystemEscrow THEN Total(holds) ELSE 0)
    BY DEF Books, OnlineExplained
  <2>4. Effect(e, Label(a)) + Effect(e, OnlineLabel(a)) = in - out
    BY OnlineEffect DEF e
  <2>5. /\ debit \in {Label(a), OnlineLabel(a)} <=>
             from = online \/ (a = SystemEscrow /\ from \in holds)
        /\ credit \in {Label(a), OnlineLabel(a)} <=>
             to = online \/ (a = SystemEscrow /\ to \in holds)
    BY MatchesMeaning
  <2>6. balance'[online] + (IF a = SystemEscrow THEN Total(holds)' ELSE 0) =
          (balance[online] + (IF a = SystemEscrow THEN Total(holds) ELSE 0))
            - out + in
    <3>1. /\ balance[online] \in Int
          /\ balance'[online] = balance[online]
                                  - (IF online = from THEN n ELSE 0)
                                  + (IF online = to THEN n ELSE 0)
      BY <1>7, <2>2
    <3>2. /\ Total(holds) \in Int
          /\ Total(holds)' = Total(holds) - (IF from \in holds THEN n ELSE 0)
                                          + (IF to \in holds THEN n ELSE 0)
      BY <1>6, <2>2
    <3> HIDE DEF online, holds
    <3>3. CASE a = SystemEscrow
      BY <2>2, <2>5, <3>1, <3>2, <3>3
    <3>4. CASE a /= SystemEscrow
      BY <2>2, <2>5, <3>1, <3>2, <3>4
    <3>5. QED
      BY <3>3, <3>4
  <2>7. /\ out \in Int /\ in \in Int /\ opening[a] \in Int
        /\ balance[online] + (IF a = SystemEscrow THEN Total(holds) ELSE 0)
             \in Int
    BY <1>4, <1>6, <1>7, <2>2
  <2>8. /\ Net(Label(a)) \in Int /\ Net(OnlineLabel(a)) \in Int
        /\ Effect(e, Label(a)) \in Int /\ Effect(e, OnlineLabel(a)) \in Int
        /\ Net(Label(a))' = Net(Label(a)) + Effect(e, Label(a))
        /\ Net(OnlineLabel(a))' =
             Net(OnlineLabel(a)) + Effect(e, OnlineLabel(a))
    BY <1>5
  <2> HIDE DEF out, in, online, holds
  <2>9. opening[a] + Net(Label(a))' + Net(OnlineLabel(a))' =
          (balance[online] + (IF a = SystemEscrow THEN Total(holds) ELSE 0))
            - out + in
    <3>1. opening[a] + Net(Label(a))' + Net(OnlineLabel(a))' =
            (opening[a] + Net(Label(a)) + Net(OnlineLabel(a)))
              + (Effect(e, Label(a)) + Effect(e, OnlineLabel(a)))
      BY <2>7, <2>8
    <3>2. QED
      BY <2>3, <2>4, <2>7, <3>1
  <2>10. QED
    BY <2>6, <2>9 DEF online, holds
<1>10. OfflineExplained'
  <2>1. SUFFICES ASSUME NEW a \in Accounts
                 PROVE  balance'[OfflineAllowance(a)] = Net(OfflineLabel(a))'
    BY DEF OfflineExplained
  <2>2. OfflineAllowance(a) \in Buckets
    BY BucketsOfAccount
  <2>3. /\ balance[OfflineAllowance(a)] = Net(OfflineLabel(a))
        /\ debit = OfflineLabel(a) <=> from = OfflineAllowance(a)
        /\ credit = OfflineLabel(a) <=> to = OfflineAllowance(a)
    BY MatchesMeaning DEF Books, OfflineExplained
  <2>4. Effect(e, OfflineLabel(a)) =
          (IF credit = OfflineLabel(a) THEN n ELSE 0)
            - (IF debit = OfflineLabel(a) THEN n ELSE 0)
    BY DEF Effect, NewEntry, e
  <2>5. QED
    BY <1>5, <1>7, <2>2, <2>3, <2>4
<1>11. CapitalExplained'
  <2>1. Effect(e, Label(SystemCapital)) = 0
    BY <1>1, MatchesMeaning DEF Effect, NewEntry, e
  <2>2. Net(Label(SystemCapital))' = Net(Label(SystemCapital))
    BY <1>5, <2>1
  <2>3. Total(Buckets)' = Total(Buckets)
    BY <1>2, <1>6
  <2>4. QED
    BY <1>4, <2>2, <2>3 DEF Books, CapitalExplained
<1>12. QED
  BY <1>8, <1>9, <1>10, <1>11 DEF Books

(* A payer the debit may overdraw: a deficit posting that names it.        *)
NamesDeficitPayer(type, debit, from) ==
  /\ type = "DEFICIT"
  /\ \E a \in Accounts : from = OnlineAvailable(a) /\ debit = Label(a)

(* A payee a negative amount takes from: the posting names it, too.        *)
NamesPayee(credit, to) ==
  \E a \in Accounts : to = OnlineAvailable(a) /\ credit = Label(a)

(***************************************************************************)
(* The heart of the argument: a posting between buckets of open accounts   *)
(* that is covered by the bucket it debits, or is a deficit in the payer's *)
(* name, and names the payee if the amount is negative, preserves the      *)
(* invariant and journals what it moves.                                   *)
(***************************************************************************)
LEMMA PostingPreserves ==
  ASSUME LedgerInv,
         NEW from \in Buckets, NEW to \in Buckets, NEW n \in Int,
         NEW type \in EntryTypes, NEW tx \in TxIDs \cup {GeneratedTxID},
         NEW debit \in Labels, NEW credit \in Labels,
         Move(from, to, n),
         appendEntry(type, tx, debit, credit, n),
         exists \subseteq exists', exists' \subseteq Accounts,
         from[1] \in exists', to[1] \in exists',
         Matches(from, debit), Matches(to, credit),
         reservations' \in Seq(Reservation),
         UNCHANGED <<funding, opening>>,
         balance[from] >= n \/ NamesDeficitPayer(type, debit, from),
         n >= 0 \/ NamesPayee(credit, to)
  PROVE  LedgerInv' /\ MovesAreJournalled
<1>1. balance \in [Buckets -> Int] /\ entries \in Seq(LedgerEntry)
  BY DEF LedgerInv, LedgerTypeOK
<1>2. /\ balance' \in [Buckets -> Int]
      /\ \A b \in Buckets :
           balance'[b] = balance[b] - (IF b = from THEN n ELSE 0)
                                    + (IF b = to THEN n ELSE 0)
  BY <1>1, MoveEffect
<1>3. /\ entries' \in Seq(LedgerEntry)
      /\ Len(entries') = Len(entries) + 1
      /\ \A i \in DOMAIN entries : /\ i \in DOMAIN entries'
                                   /\ entries'[i] = entries[i]
      /\ Len(entries') \in DOMAIN entries'
      /\ entries'[Len(entries')] = NewEntry(type, tx, debit, credit, n)
  BY <1>1, AppendEntryEffect
<1>4. LedgerTypeOK'
  BY <1>2, <1>3 DEF LedgerInv, LedgerTypeOK
<1>5. MoneyOnlyInOpenAccounts'
  <2>1. SUFFICES ASSUME NEW b \in Buckets, b[1] \notin exists'
                 PROVE  balance'[b] = 0
    BY DEF MoneyOnlyInOpenAccounts
  <2>2. balance[b] = 0
    BY <2>1 DEF LedgerInv, MoneyOnlyInOpenAccounts
  <2>3. b /= from /\ b /= to
    BY <2>1
  <2>4. QED
    BY <1>2, <2>2, <2>3
<1>6. BucketsNonNegative'
  <2>1. SUFFICES ASSUME NEW a \in Accounts,
                        NEW b \in {OfflineAllowance(a), ReservedBalance(a)}
                 PROVE  balance'[b] >= 0
    BY DEF BucketsNonNegative
  <2>2. b \in Buckets /\ \A c \in Accounts : b /= OnlineAvailable(c)
    BY BucketsOfAccount
  <2>3. balance[b] >= 0 /\ balance[b] \in Int
    BY <1>1, <2>2 DEF LedgerInv, BucketsNonNegative
  <2>4. /\ b = from => balance[from] >= n
        /\ b = to => n >= 0
    BY <2>2 DEF NamesDeficitPayer, NamesPayee
  <2>5. balance'[b] = balance[b] - (IF b = from THEN n ELSE 0)
                                 + (IF b = to THEN n ELSE 0)
    BY <1>2, <2>2
  <2>6. QED
    BY <2>3, <2>4, <2>5
<1>7. OverdraftIsUnchecked'
  <2> DEFINE e == NewEntry(type, tx, debit, credit, n)
  <2>1. SUFFICES ASSUME NEW a \in Accounts
                 PROVE  LET kept == balance'[OnlineAvailable(a)]
                                      + Unchecked(Label(a))'
                        IN  kept >= 0 \/ kept >= opening[a]
    BY DEF OverdraftIsUnchecked
  <2> DEFINE online == OnlineAvailable(a)
             taken == UncheckedTaking(e, Label(a))
             sofar == Unchecked(Label(a))
  <2>2. /\ e \in LedgerEntry
        /\ entries' = Append(entries, e) /\ funding' = funding
        /\ funding \in LedgerEntry \cup {NoEntry}
    BY DEF NewEntry, LedgerEntry, appendEntry, LedgerInv, LedgerTypeOK
  <2>3. /\ sofar \in Nat /\ taken \in Nat
        /\ Unchecked(Label(a))' = sofar + taken
    <3>1. e \in LedgerEntry
      BY <2>2
    <3> HIDE DEF e
    <3>2. QED
      BY <1>1, <2>2, UncheckedAfterPosting, UncheckedType, UncheckedTakingType
  <2>4. /\ taken >= 0
        /\ type = "DEFICIT" /\ debit = Label(a) => taken >= n
        /\ credit = Label(a) => taken >= -n
    BY DEF UncheckedTaking, NewEntry
  <2>5. /\ online \in Buckets
        /\ balance[online] \in Int /\ opening[a] \in Int
        /\ balance'[online] = balance[online]
                                - (IF online = from THEN n ELSE 0)
                                + (IF online = to THEN n ELSE 0)
    BY <1>1, <1>2, BucketsOfAccount DEF LedgerInv, LedgerTypeOK
  <2>6. balance[online] + sofar >= 0 \/ balance[online] + sofar >= opening[a]
    BY DEF LedgerInv, OverdraftIsUnchecked
  <2>7. /\ online = from => balance[from] >= n
                             \/ (type = "DEFICIT" /\ debit = Label(a))
        /\ online = to => n >= 0 \/ credit = Label(a)
    BY BucketsOfAccount DEF NamesDeficitPayer, NamesPayee
  <2> HIDE DEF online, taken, sofar, e
  <2>8. \/ balance'[online] + (sofar + taken) >= 0
        \/ balance'[online] + (sofar + taken) >= opening[a]
    <3>1. CASE online = from /\ online = to
      BY <2>3, <2>4, <2>5, <2>6, <3>1
    <3>2. CASE online = from /\ online # to
      BY <2>3, <2>4, <2>5, <2>6, <2>7, <3>2
    <3>3. CASE online # from /\ online = to
      BY <2>3, <2>4, <2>5, <2>6, <2>7, <3>3
    <3>4. CASE online # from /\ online # to
      BY <2>3, <2>4, <2>5, <2>6, <3>4
    <3>5. QED
      BY <3>1, <3>2, <3>3, <3>4
  <2>9. QED
    BY <2>3, <2>8 DEF online
<1>8. MovesAreJournalled
  <2>1. entries'[Len(entries')].Amount = n
    BY <1>3 DEF NewEntry
  <2>2. Transfers(from, to)
    BY <1>2, <1>3, <2>1 DEF Transfers
  <2>3. QED
    BY <2>2 DEF MovesAreJournalled
<1>9. Books'
  BY PostingKeepsBooks DEF LedgerInv
<1>10. QED
  BY <1>4, <1>5, <1>6, <1>7, <1>8, <1>9 DEF LedgerInv

(* Steps that move no money and post nothing.                              *)
LEMMA QuietStepPreserves ==
  ASSUME LedgerInv,
         exists \subseteq exists', exists' \subseteq Accounts,
         UNCHANGED <<balance, reservations, entries, funding, opening>>
  PROVE  LedgerInv' /\ MovesAreJournalled
<1>1. Books'
  BY DEF LedgerInv, Books, OpeningsOfOpenAccounts, OnlineExplained,
         OfflineExplained, CapitalExplained, Net, Journal, Total
<1>2. QED
  BY <1>1 DEF LedgerInv, LedgerTypeOK, MoneyOnlyInOpenAccounts,
              BucketsNonNegative, OverdraftIsUnchecked, MovesAreJournalled,
              Unchecked, Journal

-----------------------------------------------------------------------------
(* One lemma per operation.                                                *)

(* What DebitError's "nil" means, and what its other answers rule out.     *)
LEMMA DebitErrorMeaning ==
  ASSUME NEW a, NEW bucket \in Buckets, NEW n \in Int, NEW shortfall,
         balance \in [Buckets -> Int],
         shortfall \in {"ErrInsufficientFunds", "ErrHoldMismatch"}
  PROVE  LET err == DebitError(a, bucket, n, shortfall)
         IN  /\ err = "nil" => n > 0 /\ a \in exists /\ balance[bucket] >= n
             /\ err \notin {"ErrInvalidAmount", "ErrAccountNotFound"}
                  => a \in exists
BY DEF DebitError

(* Opening an account raises its opening balance and its online bucket     *)
(* from 0 by the same amount.                                              *)
LEMMA CreateAccountKeepsBooks ==
  ASSUME LedgerTypeOK, MoneyOnlyInOpenAccounts, Books,
         NEW a \in Accounts, NEW n \in Int, a \notin exists,
         exists' = exists \cup {a},
         \A b \in Buckets : balance'[b] = IF b = OnlineAvailable(a) THEN n
                                          ELSE balance[b],
         opening' \in [Accounts -> Int],
         \A c \in Accounts : opening'[c] = IF c = a THEN n ELSE opening[c],
         UNCHANGED <<entries, funding>>
  PROVE  Books'
<1> DEFINE online == OnlineAvailable(a)
<1>1. /\ balance \in [Buckets -> Int] /\ opening \in [Accounts -> Int]
      /\ online \in Buckets
      /\ balance[online] = 0 /\ opening[a] = 0
  BY BucketsOfAccount DEF LedgerTypeOK, MoneyOnlyInOpenAccounts, Books,
                          OpeningsOfOpenAccounts
<1>2. /\ n \in Int
      /\ \A b \in Buckets :
           balance'[b] = balance[b] + (IF b = online THEN n ELSE 0)
  BY <1>1
<1>3. \A label : Net(label)' = Net(label)
  BY DEF Net, Journal
<1>4. OpeningsOfOpenAccounts'
  BY DEF Books, OpeningsOfOpenAccounts, LedgerTypeOK
<1>5. ReservedBuckets \in SUBSET Buckets /\ online \notin ReservedBuckets
  BY BucketsOfAccount DEF ReservedBuckets
<1>6. Total(ReservedBuckets)' = Total(ReservedBuckets)
  BY <1>1, <1>2, <1>5, TotalAfterDeposit
<1>7. Total(Buckets) \in Int /\ Total(Buckets)' = Total(Buckets) + n
  BY <1>1, <1>2, TotalAfterDeposit
<1>8. OnlineExplained'
  <2>1. SUFFICES ASSUME NEW c \in Accounts
                 PROVE  opening'[c] + Net(Label(c)) + Net(OnlineLabel(c)) =
                          balance'[OnlineAvailable(c)]
                            + (IF c = SystemEscrow
                               THEN Total(ReservedBuckets) ELSE 0)
    BY <1>3, <1>6 DEF OnlineExplained
  <2>2. opening[c] + Net(Label(c)) + Net(OnlineLabel(c)) =
          balance[OnlineAvailable(c)]
            + (IF c = SystemEscrow THEN Total(ReservedBuckets) ELSE 0)
    BY DEF Books, OnlineExplained
  <2>3. CASE c = a
    <3>1. opening'[c] = n /\ balance'[OnlineAvailable(c)] = n
      BY <1>1, <1>2, <2>3
    <3>2. /\ Net(Label(c)) \in Int /\ Net(OnlineLabel(c)) \in Int
          /\ Total(ReservedBuckets) \in Int
      BY <1>1, <1>2, <1>5, TotalAfterDeposit, NetType
    <3>3. QED
      BY <1>1, <2>2, <2>3, <3>1, <3>2
  <2>4. CASE c /= a
    <3>1. /\ opening'[c] = opening[c]
          /\ balance'[OnlineAvailable(c)] = balance[OnlineAvailable(c)]
      BY <1>1, <2>4, BucketsOfAccount
    <3>2. QED
      BY <2>2, <3>1
  <2>5. QED
    BY <2>3, <2>4
<1>9. OfflineExplained'
  BY <1>1, <1>3, BucketsOfAccount DEF Books, OfflineExplained
<1>10. CapitalExplained'
  <2>1. \A c \in Accounts :
          opening[c] \in Int /\ opening'[c] = opening[c]
                                              + (IF c = a THEN n ELSE 0)
    BY <1>1
  <2>2. SumFunctionOnSet(opening', Accounts) =
          SumFunctionOnSet(opening, Accounts) + n
    BY <1>2, <2>1, AccountsAssumption, SumShift
  <2>3. DOMAIN opening = Accounts /\ DOMAIN opening' = Accounts
    BY <1>1
  <2>4. SumFunction(opening') = SumFunction(opening) + n
    BY <2>2, <2>3 DEF SumFunction
  <2>5. SumFunction(opening) \in Int
    BY <2>1, <2>3, AccountsAssumption, SumType DEF SumFunction
  <2>6. Net(Label(SystemCapital)) \in Int
    BY NetType
  <2>7. QED
    BY <1>3, <1>7, <2>4, <2>5, <2>6 DEF Books, CapitalExplained
<1>11. QED
  BY <1>4, <1>8, <1>9, <1>10 DEF Books

(* Opening an account, or finding it open, preserves the invariant.        *)
LEMMA CreateAccountPreserves ==
  ASSUME LedgerInv, NEW a \in Accounts, NEW n \in Int, CreateAccount(a, n)
  PROVE  LedgerInv' /\ MovesAreJournalled
<1>1. CASE a \in exists
  BY <1>1, QuietStepPreserves DEF CreateAccount, LedgerInv, LedgerTypeOK
<1>2. CASE a \notin exists
  <2>1. /\ exists' = exists \cup {a}
        /\ balance' = [balance EXCEPT ![OnlineAvailable(a)] = n]
        /\ opening' = [opening EXCEPT ![a] = n]
        /\ UNCHANGED <<reservations, entries, funding>>
    BY <1>2 DEF CreateAccount
  <2>2. LedgerTypeOK'
    BY <2>1, BucketsOfAccount DEF LedgerInv, LedgerTypeOK
  <2>3. ASSUME NEW b \in Buckets
        PROVE  balance'[b] = IF b = OnlineAvailable(a) THEN n ELSE balance[b]
    BY <2>1 DEF LedgerInv, LedgerTypeOK
  <2>4. MoneyOnlyInOpenAccounts'
    BY <2>1, <2>3, BucketsOfAccount DEF LedgerInv, MoneyOnlyInOpenAccounts
  <2>5. BucketsNonNegative'
    BY <2>3, BucketsOfAccount DEF LedgerInv, BucketsNonNegative
  <2>6. OverdraftIsUnchecked'
    <3>1. SUFFICES ASSUME NEW c \in Accounts
                   PROVE  LET kept == balance'[OnlineAvailable(c)]
                                        + Unchecked(Label(c))
                          IN  kept >= 0 \/ kept >= opening'[c]
      BY <2>1 DEF OverdraftIsUnchecked, Unchecked, Journal
    <3>2. Unchecked(Label(c)) \in Nat
      BY UncheckedType DEF LedgerInv, LedgerTypeOK
    <3>3. CASE c = a
      <4>1. balance'[OnlineAvailable(c)] = n /\ opening'[c] = n
        BY <2>1, <2>3, <3>3, BucketsOfAccount DEF LedgerInv, LedgerTypeOK
      <4>2. QED
        BY <3>2, <4>1
    <3>4. CASE c # a
      <4>1. /\ balance'[OnlineAvailable(c)] = balance[OnlineAvailable(c)]
            /\ opening'[c] = opening[c]
        BY <2>1, <2>3, <3>4, BucketsOfAccount DEF LedgerInv, LedgerTypeOK
      <4>2. QED
        BY <4>1 DEF LedgerInv, OverdraftIsUnchecked
    <3>5. QED
      BY <3>3, <3>4
  <2>7. MovesAreJournalled
    <3>1. opening'[a] = n
      BY <2>1 DEF LedgerInv, LedgerTypeOK
    <3>2. OpensAccount(a)
      BY <1>2, <2>1, <3>1 DEF OpensAccount
    <3>3. QED
      BY <3>2 DEF MovesAreJournalled
  <2>8. Books'
    <3>1. /\ opening' \in [Accounts -> Int]
          /\ \A c \in Accounts :
               opening'[c] = IF c = a THEN n ELSE opening[c]
      BY <2>1 DEF LedgerInv, LedgerTypeOK
    <3>2. UNCHANGED <<entries, funding>> /\ exists' = exists \cup {a}
      BY <2>1
    <3>3. QED
      BY <1>2, <2>3, <3>1, <3>2, CreateAccountKeepsBooks DEF LedgerInv
  <2>9. QED
    BY <2>2, <2>4, <2>5, <2>6, <2>7, <2>8 DEF LedgerInv
<1>3. QED
  BY <1>1, <1>2

(* A deposit adds the same amount to the account and to what is journalled *)
(* for it.                                                                 *)
LEMMA DepositKeepsBooks ==
  ASSUME LedgerTypeOK, Books, NEW a \in Accounts, NEW n \in Int,
         funding = NoEntry,
         funding' = NewEntry("COMMIT", GeneratedTxID, Label(SystemCapital),
                             Label(a), n),
         \A b \in Buckets :
           balance'[b] = balance[b]
                           + (IF b = OnlineAvailable(a) THEN n ELSE 0),
         UNCHANGED <<exists, entries, opening>>
  PROVE  Books'
<1> DEFINE online == OnlineAvailable(a)
           e == NewEntry("COMMIT", GeneratedTxID, Label(SystemCapital),
                         Label(a), n)
<1>1. /\ balance \in [Buckets -> Int] /\ opening \in [Accounts -> Int]
      /\ entries \in Seq(LedgerEntry)
      /\ online \in Buckets /\ n \in Int
  BY BucketsOfAccount DEF LedgerTypeOK
<1>2. e \in LedgerEntry /\ e /= NoEntry
  BY LabelsOfAccount DEF NewEntry, LedgerEntry, EntryTypes, NoEntry
<1>3. ASSUME NEW label
      PROVE  /\ Net(label) \in Int
             /\ Net(label)' = Net(label) + Effect(e, label)
  <2>1. Net(label) = NetOf(entries, label)
    BY DEF Net, Journal
  <2>2. Net(label)' = NetOf(Append(entries, e), label)
    BY <1>2 DEF Net, Journal
  <2>3. QED
    BY <1>1, <1>2, <2>1, <2>2, NetOfAppend
<1>4. ReservedBuckets \in SUBSET Buckets /\ online \notin ReservedBuckets
  BY BucketsOfAccount DEF ReservedBuckets
<1>5. /\ Total(ReservedBuckets) \in Int
      /\ Total(ReservedBuckets)' = Total(ReservedBuckets)
  <2> HIDE DEF online
  <2>1. \A b \in Buckets :
          balance'[b] = balance[b] + (IF b = online THEN n ELSE 0)
    BY DEF online
  <2>2. /\ Total(ReservedBuckets) \in Int
        /\ Total(ReservedBuckets)' =
             Total(ReservedBuckets)
               + (IF online \in ReservedBuckets THEN n ELSE 0)
    BY <1>1, <1>4, <2>1, TotalAfterDeposit
  <2>3. QED
    BY <1>4, <2>2
<1>6. Total(Buckets) \in Int /\ Total(Buckets)' = Total(Buckets) + n
  BY <1>1, TotalAfterDeposit
<1>7. OpeningsOfOpenAccounts'
  BY DEF Books, OpeningsOfOpenAccounts
<1>8. OnlineExplained'
  <2>1. SUFFICES ASSUME NEW c \in Accounts
                 PROVE  opening[c] + Net(Label(c))' + Net(OnlineLabel(c))' =
                          balance'[OnlineAvailable(c)]
                            + (IF c = SystemEscrow
                               THEN Total(ReservedBuckets) ELSE 0)
    BY <1>5 DEF OnlineExplained
  <2>2. opening[c] + Net(Label(c)) + Net(OnlineLabel(c)) =
          balance[OnlineAvailable(c)]
            + (IF c = SystemEscrow THEN Total(ReservedBuckets) ELSE 0)
    BY DEF Books, OnlineExplained
  <2>3. /\ Effect(e, Label(c)) = IF c = a THEN n ELSE 0
        /\ Effect(e, OnlineLabel(c)) = 0
    BY LabelsOfAccount DEF Effect, NewEntry
  <2>4. /\ balance[OnlineAvailable(c)] \in Int
        /\ balance'[OnlineAvailable(c)] =
             balance[OnlineAvailable(c)] + (IF c = a THEN n ELSE 0)
    BY <1>1, BucketsOfAccount
  <2>5. opening[c] \in Int
    BY <1>1
  <2> HIDE DEF e
  <2>6. /\ Net(Label(c)) \in Int /\ Net(OnlineLabel(c)) \in Int
        /\ Net(Label(c))' = Net(Label(c)) + Effect(e, Label(c))
        /\ Net(OnlineLabel(c))' =
             Net(OnlineLabel(c)) + Effect(e, OnlineLabel(c))
    BY <1>3
  <2>7. CASE c = a
    <3>1. /\ Net(Label(c))' = Net(Label(c)) + n
          /\ Net(OnlineLabel(c))' = Net(OnlineLabel(c))
          /\ balance'[OnlineAvailable(c)] = balance[OnlineAvailable(c)] + n
      BY <2>3, <2>4, <2>6, <2>7
    <3> DEFINE held == IF c = SystemEscrow THEN Total(ReservedBuckets) ELSE 0
               o == opening[c]
               m == Net(Label(c))
               w == Net(OnlineLabel(c))
               x == balance[OnlineAvailable(c)]
    <3>2. /\ held \in Int /\ o \in Int /\ m \in Int /\ w \in Int /\ x \in Int
          /\ o + m + w = x + held
      BY <1>5, <2>2, <2>4, <2>5, <2>6
    <3> HIDE DEF held, o, m, w, x
    <3>3. o + (m + n) + w = (x + n) + held
      BY <1>1, <3>2
    <3>4. QED
      BY <3>1, <3>3 DEF held, o, m, w, x
  <2>8. CASE c /= a
    <3>1. /\ Net(Label(c))' = Net(Label(c))
          /\ Net(OnlineLabel(c))' = Net(OnlineLabel(c))
          /\ balance'[OnlineAvailable(c)] = balance[OnlineAvailable(c)]
      BY <2>3, <2>4, <2>6, <2>8
    <3>2. QED
      BY <2>2, <3>1
  <2>9. QED
    BY <2>7, <2>8
<1>9. OfflineExplained'
  <2>1. SUFFICES ASSUME NEW c \in Accounts
                 PROVE  balance'[OfflineAllowance(c)] = Net(OfflineLabel(c))'
    BY DEF OfflineExplained
  <2>2. Effect(e, OfflineLabel(c)) = 0
    BY LabelsOfAccount DEF Effect, NewEntry
  <2>3. /\ balance[OfflineAllowance(c)] \in Int
        /\ balance'[OfflineAllowance(c)] = balance[OfflineAllowance(c)]
    BY <1>1, BucketsOfAccount
  <2>4. balance[OfflineAllowance(c)] = Net(OfflineLabel(c))
    BY DEF Books, OfflineExplained
  <2> HIDE DEF e
  <2>5. QED
    BY <1>3, <2>2, <2>3, <2>4
<1>10. CapitalExplained'
  <2>1. Effect(e, Label(SystemCapital)) = -n
    BY LabelsOfAccount DEF Effect, NewEntry
  <2>2. SumFunction(opening) \in Int
    BY <1>1, AccountsAssumption, SumType DEF SumFunction
  <2>3. Total(Buckets) = SumFunction(opening) - Net(Label(SystemCapital))
    BY DEF Books, CapitalExplained
  <2> HIDE DEF e
  <2>4. Total(Buckets)' = SumFunction(opening) - Net(Label(SystemCapital))'
    BY <1>1, <1>3, <1>6, <2>1, <2>2, <2>3
  <2>5. QED
    BY <2>4 DEF CapitalExplained
<1>11. QED
  BY <1>7, <1>8, <1>9, <1>10 DEF Books

(* A deposit preserves the invariant before it is journalled.              *)
LEMMA FundAccountPreserves ==
  ASSUME LedgerInv, NEW a \in Accounts, NEW n \in Int,
         NEW err \in LedgerErrors, FundAccount(a, n, err)
  PROVE  LedgerInv' /\ MovesAreJournalled
<1>1. CASE err /= "nil"
  BY <1>1, QuietStepPreserves DEF FundAccount, LedgerInv, LedgerTypeOK
<1>2. CASE err = "nil"
  <2> DEFINE entry == NewEntry("COMMIT", GeneratedTxID,
                               Label(SystemCapital), Label(a), n)
  <2>1. /\ funding = NoEntry
        /\ a \in exists
        /\ balance' = [balance EXCEPT ![OnlineAvailable(a)] = @ + n]
        /\ funding' = entry
        /\ UNCHANGED <<exists, reservations, entries, opening>>
    BY <1>2 DEF FundAccount
  <2>2. entry \in LedgerEntry /\ entry.Amount = n
    BY LabelsOfAccount DEF NewEntry, LedgerEntry, EntryTypes
  <2>3. LedgerTypeOK'
    BY <2>1, <2>2, BucketsOfAccount DEF LedgerInv, LedgerTypeOK
  <2>4. ASSUME NEW b \in Buckets
        PROVE  /\ balance[b] \in Int
               /\ balance'[b] = IF b = OnlineAvailable(a)
                                THEN balance[b] + n ELSE balance[b]
    BY <2>1 DEF LedgerInv, LedgerTypeOK
  <2>5. MoneyOnlyInOpenAccounts'
    BY <2>1, <2>4, BucketsOfAccount DEF LedgerInv, MoneyOnlyInOpenAccounts
  <2>6. BucketsNonNegative'
    BY <2>4, BucketsOfAccount DEF LedgerInv, BucketsNonNegative
  <2>7. OverdraftIsUnchecked'
    <3>1. SUFFICES ASSUME NEW c \in Accounts
                   PROVE  LET kept == balance'[OnlineAvailable(c)]
                                        + Unchecked(Label(c))'
                          IN  kept >= 0 \/ kept >= opening[c]
      BY <2>1 DEF OverdraftIsUnchecked
    <3> DEFINE x == balance[OnlineAvailable(c)]
               sofar == Unchecked(Label(c))
               taken == UncheckedTaking(entry, Label(c))
    <3>2. /\ Unchecked(Label(c))' = sofar + taken
          /\ sofar \in Nat /\ taken \in Nat
      <4>1. entries \in Seq(LedgerEntry) /\ entry /= NoEntry
        BY <2>2 DEF LedgerInv, LedgerTypeOK, LedgerEntry, NewEntry, NoEntry
      <4>2. /\ Journal = entries
            /\ entry \in LedgerEntry
            /\ Journal' = Append(entries, entry)
        BY <2>1, <2>2, <4>1 DEF Journal
      <4> HIDE DEF entry
      <4>3. sofar \in Nat /\ taken \in Nat
        BY <4>1, <4>2, UncheckedType, UncheckedTakingType
           DEF LedgerInv, LedgerTypeOK
      <4>4. QED
        BY <4>1, <4>2, <4>3, UncheckedOfAppend DEF Unchecked
    <3>3. c = a => taken >= -n
      BY DEF UncheckedTaking, NewEntry
    <3>4. /\ x \in Int /\ opening[c] \in Int
          /\ balance'[OnlineAvailable(c)] = IF c = a THEN x + n ELSE x
      BY <2>4, BucketsOfAccount DEF LedgerInv, LedgerTypeOK
    <3>5. x + sofar >= 0 \/ x + sofar >= opening[c]
      BY DEF LedgerInv, OverdraftIsUnchecked
    <3> HIDE DEF entry, x, sofar, taken
    <3>6. QED
      BY <3>2, <3>3, <3>4, <3>5
  <2>8. MovesAreJournalled
    <3>1. Deposits(a)
      BY <2>1, <2>2 DEF Deposits
    <3>2. QED
      BY <3>1 DEF MovesAreJournalled
  <2>9. Books'
    <3>1. /\ \A b \in Buckets :
               balance'[b] = balance[b]
                             + (IF b = OnlineAvailable(a) THEN n ELSE 0)
          /\ UNCHANGED <<exists, entries, opening>>
      BY <2>1, <2>4
    <3>2. QED
      BY <2>1, <3>1, DepositKeepsBooks DEF LedgerInv
  <2>10. QED
    BY <2>3, <2>5, <2>6, <2>7, <2>8, <2>9 DEF LedgerInv
<1>3. QED
  BY <1>1, <1>2

(* Journalling a deposit preserves the invariant.                          *)
LEMMA FundAccountJournalPreserves ==
  ASSUME LedgerInv, FundAccountJournal
  PROVE  LedgerInv' /\ MovesAreJournalled
<1>1. /\ funding \in LedgerEntry
      /\ entries \in Seq(LedgerEntry)
      /\ entries' = Append(entries, funding)
      /\ funding' = NoEntry
      /\ UNCHANGED <<exists, balance, reservations, opening>>
  BY DEF FundAccountJournal, LedgerInv, LedgerTypeOK
<1>2. /\ entries' \in Seq(LedgerEntry)
      /\ \A i \in DOMAIN entries : /\ i \in DOMAIN entries'
                                   /\ entries'[i] = entries[i]
  BY <1>1
<1>3. LedgerTypeOK'
  BY <1>1, <1>2 DEF LedgerInv, LedgerTypeOK
<1>4. MoneyOnlyInOpenAccounts' /\ BucketsNonNegative'
  BY <1>1 DEF LedgerInv, MoneyOnlyInOpenAccounts, BucketsNonNegative
<1>5. OverdraftIsUnchecked'
  <2>1. Journal' = Journal
    BY <1>1 DEF Journal, FundAccountJournal
  <2>2. \A label : Unchecked(label)' = Unchecked(label)
    BY <2>1 DEF Unchecked
  <2>3. QED
    BY <1>1, <2>2 DEF LedgerInv, OverdraftIsUnchecked
<1>6. MovesAreJournalled
  BY <1>1 DEF MovesAreJournalled
<1>7. Books'
  <2>1. ASSUME NEW label
        PROVE  Net(label)' = Net(label)
    <3>1. Net(label)' = NetOf(Append(entries, funding), label)
      BY <1>1 DEF Net, Journal
    <3>2. Net(label) = NetOf(Append(entries, funding), label)
      BY DEF FundAccountJournal, Net, Journal
    <3>3. QED
      BY <3>1, <3>2
  <2>2. \A S : Total(S)' = Total(S)
    BY <1>1 DEF Total
  <2>3. QED
    BY <1>1, <2>1, <2>2
       DEF LedgerInv, Books, OpeningsOfOpenAccounts, OnlineExplained,
           OfflineExplained, CapitalExplained
<1>8. QED
  BY <1>3, <1>4, <1>5, <1>6, <1>7 DEF LedgerInv

(* Pre-reserving an allowance is covered by the online bucket.             *)
LEMMA AllocateOfflineAllowancePreserves ==
  ASSUME LedgerInv, NEW a \in Accounts, NEW n \in Int,
         NEW err \in LedgerErrors, AllocateOfflineAllowance(a, n, err)
  PROVE  LedgerInv' /\ MovesAreJournalled
<1>1. CASE err /= "nil"
  BY <1>1, QuietStepPreserves
     DEF AllocateOfflineAllowance, LedgerInv, LedgerTypeOK
<1>2. CASE err = "nil"
  <2>1. n > 0 /\ a \in exists /\ balance[OnlineAvailable(a)] >= n
    <3>1. DebitError(a, OnlineAvailable(a), n, "ErrInsufficientFunds") = "nil"
      BY <1>2 DEF AllocateOfflineAllowance
    <3>2. OnlineAvailable(a) \in Buckets /\ balance \in [Buckets -> Int]
      BY BucketsOfAccount DEF LedgerInv, LedgerTypeOK
    <3>3. QED
      BY <3>1, <3>2, DebitErrorMeaning
  <2>2. /\ Move(OnlineAvailable(a), OfflineAllowance(a), n)
        /\ appendEntry("RESERVE", GeneratedTxID,
                       OnlineLabel(a), OfflineLabel(a), n)
        /\ UNCHANGED <<exists, reservations, funding, opening>>
    BY <1>2 DEF AllocateOfflineAllowance
  <2>3. exists \subseteq Accounts /\ reservations \in Seq(Reservation)
    BY DEF LedgerInv, LedgerTypeOK
  <2>4. "RESERVE" \in EntryTypes
    BY DEF EntryTypes
  <2>5. QED
    BY <2>1, <2>2, <2>3, <2>4, BucketsOfAccount, LabelsOfAccount,
       MatchingLabels, PostingPreserves
<1>3. QED
  BY <1>1, <1>2

(* Placing a hold is covered by the online bucket.                         *)
LEMMA ReserveFundsPreserves ==
  ASSUME LedgerInv, NEW a \in Accounts, NEW n \in Int, NEW tx \in TxIDs,
         NEW err \in LedgerErrors, ReserveFunds(a, n, tx, err)
  PROVE  LedgerInv' /\ MovesAreJournalled
<1>1. CASE err /= "nil"
  BY <1>1, QuietStepPreserves DEF ReserveFunds, LedgerInv, LedgerTypeOK
<1>2. CASE err = "nil"
  <2>1. n > 0 /\ a \in exists /\ balance[OnlineAvailable(a)] >= n
    <3>1. DebitError(a, OnlineAvailable(a), n, "ErrInsufficientFunds") = "nil"
      BY <1>2 DEF ReserveFunds
    <3>2. OnlineAvailable(a) \in Buckets /\ balance \in [Buckets -> Int]
      BY BucketsOfAccount DEF LedgerInv, LedgerTypeOK
    <3>3. QED
      BY <3>1, <3>2, DebitErrorMeaning
  <2>2. /\ Move(OnlineAvailable(a), ReservedBalance(a), n)
        /\ reservations' =
             Append(reservations, [AccountID |-> a, Amount |-> n])
        /\ appendEntry("RESERVE", tx, Label(a), Label(SystemEscrow), n)
        /\ UNCHANGED <<exists, funding, opening>>
    BY <1>2 DEF ReserveFunds
  <2>3. exists \subseteq Accounts /\ reservations' \in Seq(Reservation)
    BY <2>1, <2>2 DEF LedgerInv, LedgerTypeOK, Reservation
  <2>4. "RESERVE" \in EntryTypes /\ SystemEscrow \in Accounts
    BY SystemAccountsAssumption DEF EntryTypes, SystemAccounts
  <2>5. QED
    BY <2>1, <2>2, <2>3, <2>4, BucketsOfAccount, LabelsOfAccount,
       MatchingLabels, PostingPreserves
<1>3. QED
  BY <1>1, <1>2

(* A settlement is covered by whichever bucket pays it.                    *)
LEMMA SettlePreserves ==
  ASSUME LedgerInv, NEW a \in Accounts, NEW d \in Accounts, NEW n \in Int,
         NEW tx \in TxIDs, NEW err \in LedgerErrors,
         NEW bucket \in Buckets, bucket[1] = a, NEW debitAcc \in Labels,
         Matches(bucket, debitAcc),
         NEW shortfall \in {"ErrInsufficientFunds", "ErrHoldMismatch"},
         Settle(a, bucket, debitAcc, shortfall, d, n, tx, err)
  PROVE  LedgerInv' /\ MovesAreJournalled
<1>1. exists \subseteq Accounts /\ reservations \in Seq(Reservation)
  BY DEF LedgerInv, LedgerTypeOK
<1>2. CASE err /= "nil"
  <2>1. exists \subseteq exists' /\ exists' \subseteq Accounts
    BY <1>1 DEF Settle
  <2>2. QED
    BY <1>2, <2>1, QuietStepPreserves DEF Settle
<1>3. CASE err = "nil"
  <2>1. n > 0 /\ a \in exists /\ balance[bucket] >= n
    BY <1>3, DebitErrorMeaning DEF Settle, LedgerInv, LedgerTypeOK
  <2>2. /\ exists' = exists \cup {d}
        /\ Move(bucket, OnlineAvailable(d), n)
        /\ appendEntry("COMMIT", tx, debitAcc, Label(d), n)
        /\ UNCHANGED <<reservations, funding, opening>>
    BY <1>3 DEF Settle
  <2>3. "COMMIT" \in EntryTypes
    BY DEF EntryTypes
  <2>4. QED
    BY <1>1, <2>1, <2>2, <2>3, BucketsOfAccount, LabelsOfAccount,
       MatchingLabels, PostingPreserves
<1>4. QED
  BY <1>2, <1>3

(* Releasing a hold is covered by the hold.                                *)
LEMMA ReleaseHoldPreserves ==
  ASSUME LedgerInv, NEW a \in Accounts, NEW n \in Int, NEW tx \in TxIDs,
         NEW err \in LedgerErrors, ReleaseHold(a, n, tx, err)
  PROVE  LedgerInv' /\ MovesAreJournalled
<1>1. CASE err /= "nil"
  BY <1>1, QuietStepPreserves DEF ReleaseHold, LedgerInv, LedgerTypeOK
<1>2. CASE err = "nil"
  <2>1. balance[ReservedBalance(a)] \in Int
    BY BucketsOfAccount DEF LedgerInv, LedgerTypeOK
  <2>2. a \in exists /\ balance[ReservedBalance(a)] >= n
    BY <1>2, <2>1 DEF ReleaseHold
  <2>3. /\ Move(ReservedBalance(a), OnlineAvailable(a), n)
        /\ appendEntry("RELEASE", tx, Label(SystemEscrow), Label(a), n)
        /\ UNCHANGED <<exists, reservations, funding, opening>>
    BY <1>2 DEF ReleaseHold
  <2>4. exists \subseteq Accounts /\ reservations \in Seq(Reservation)
    BY DEF LedgerInv, LedgerTypeOK
  <2>5. "RELEASE" \in EntryTypes /\ SystemEscrow \in Accounts
    BY SystemAccountsAssumption DEF EntryTypes, SystemAccounts
  <2>6. NamesPayee(Label(a), OnlineAvailable(a))
    BY DEF NamesPayee
  <2>7. QED
    BY <2>2, <2>3, <2>4, <2>5, <2>6, BucketsOfAccount, LabelsOfAccount,
       MatchingLabels, PostingPreserves
<1>3. QED
  BY <1>1, <1>2

(* A deficit posting overdraws only the payer it names.                    *)
LEMMA PostDeficitPreserves ==
  ASSUME LedgerInv, NEW a \in Accounts, NEW d \in Accounts, NEW n \in Int,
         NEW tx \in TxIDs, PostDeficit(a, d, n, tx)
  PROVE  LedgerInv' /\ MovesAreJournalled
<1>1. /\ exists' = exists \cup {a, d}
      /\ Move(OnlineAvailable(a), OnlineAvailable(d), n)
      /\ appendEntry("DEFICIT", tx, Label(a), Label(d), n)
      /\ UNCHANGED <<reservations, funding, opening>>
  BY DEF PostDeficit
<1>2. exists \subseteq Accounts /\ reservations \in Seq(Reservation)
  BY DEF LedgerInv, LedgerTypeOK
<1>3. "DEFICIT" \in EntryTypes
  BY DEF EntryTypes
<1>4. NamesDeficitPayer("DEFICIT", Label(a), OnlineAvailable(a))
  BY DEF NamesDeficitPayer
<1>5. NamesPayee(Label(d), OnlineAvailable(d))
  BY DEF NamesPayee
<1>6. QED
  BY <1>1, <1>2, <1>3, <1>4, <1>5, BucketsOfAccount, LabelsOfAccount,
     MatchingLabels, PostingPreserves

-----------------------------------------------------------------------------
(* The invariant holds initially.                                          *)
LEMMA LedgerInvInit == LedgerInit => LedgerInv
<1>1. SUFFICES ASSUME LedgerInit PROVE LedgerInv
  OBVIOUS
<1>2. balance = [b \in Buckets |-> 0]
  BY <1>1 DEF LedgerInit
<1>3. LedgerTypeOK
  BY <1>1, SystemAccountsAssumption DEF LedgerInit, LedgerTypeOK
<1>4. MoneyOnlyInOpenAccounts
  BY <1>2 DEF MoneyOnlyInOpenAccounts
<1>5. BucketsNonNegative
  BY <1>2, BucketsOfAccount DEF BucketsNonNegative
<1>6. OverdraftIsUnchecked
  <2>1. \A label : Unchecked(label) \in Nat
    BY <1>3, UncheckedType DEF LedgerTypeOK
  <2>2. QED
    BY <1>2, <2>1, BucketsOfAccount DEF OverdraftIsUnchecked
<1>7. Books
  <2>1. ASSUME NEW S \in SUBSET Buckets
        PROVE  Total(S) = 0
    <3>1. IsFiniteSet(S) /\ \A b \in S : balance[b] = 0
      BY <1>2, BucketsFinite, FS_Subset
    <3>2. QED
      BY <3>1, SumOfZeros DEF Total
  <2>2. \A label : Net(label) = 0
    BY <1>1, NetOfNothing DEF LedgerInit, Net, Journal
  <2>3. DOMAIN opening = Accounts /\ \A a \in Accounts : opening[a] = 0
    BY <1>1 DEF LedgerInit
  <2>4. SumFunction(opening) = 0
    BY <2>3, AccountsAssumption, SumOfZeros DEF SumFunction
  <2>5. OnlineExplained
    <3>1. ReservedBuckets \in SUBSET Buckets
      BY BucketsOfAccount DEF ReservedBuckets
    <3>2. QED
      BY <1>2, <2>1, <2>2, <2>3, <3>1, BucketsOfAccount DEF OnlineExplained
  <2>6. OfflineExplained
    BY <1>2, <2>2, BucketsOfAccount DEF OfflineExplained
  <2>7. CapitalExplained
    BY <2>1, <2>2, <2>4 DEF CapitalExplained
  <2>8. QED
    BY <2>3, <2>5, <2>6, <2>7 DEF Books, OpeningsOfOpenAccounts
<1>8. QED
  BY <1>3, <1>4, <1>5, <1>6, <1>7 DEF LedgerInv

(* Every step preserves it, and journals what it moves.                    *)
LEMMA LedgerInvNext ==
  LedgerInv /\ [LedgerNext]_ledgerVars => LedgerInv' /\ MovesAreJournalled
<1>1. SUFFICES ASSUME LedgerInv, [LedgerNext]_ledgerVars
               PROVE  LedgerInv' /\ MovesAreJournalled
  OBVIOUS
<1> USE PartiesAssumption, AmountsAssumption, OpeningBalancesAssumption
<1>2. CASE UNCHANGED ledgerVars
  BY <1>1, <1>2, QuietStepPreserves DEF ledgerVars, LedgerInv, LedgerTypeOK
<1>3. ASSUME NEW a \in Parties, NEW n \in OpeningBalances,
             CreateAccount(a, n)
      PROVE  LedgerInv' /\ MovesAreJournalled
  BY <1>1, <1>3, CreateAccountPreserves
<1>4. ASSUME NEW a \in Parties, NEW n \in Amounts, NEW err \in LedgerErrors,
             FundAccount(a, n, err)
      PROVE  LedgerInv' /\ MovesAreJournalled
  BY <1>1, <1>4, FundAccountPreserves
<1>5. CASE FundAccountJournal
  BY <1>1, <1>5, FundAccountJournalPreserves
<1>6. ASSUME NEW a \in Parties, NEW n \in Amounts, NEW err \in LedgerErrors,
             AllocateOfflineAllowance(a, n, err)
      PROVE  LedgerInv' /\ MovesAreJournalled
  BY <1>1, <1>6, AllocateOfflineAllowancePreserves
<1>7. ASSUME NEW a \in Parties, NEW n \in Amounts, NEW tx \in TxIDs,
             NEW err \in LedgerErrors,
             \/ ReserveFunds(a, n, tx, err)
             \/ ReleaseHold(a, n, tx, err)
             \/ DebitDeficitReserve(a, n, tx, err)
      PROVE  LedgerInv' /\ MovesAreJournalled
  <2>1. CASE ReserveFunds(a, n, tx, err)
    BY <1>1, <2>1, ReserveFundsPreserves
  <2>2. CASE ReleaseHold(a, n, tx, err)
    BY <1>1, <2>2, ReleaseHoldPreserves
  <2>3. CASE DebitDeficitReserve(a, n, tx, err)
    <3>1. DeficitReserve \in Accounts
      BY SystemAccountsAssumption DEF SystemAccounts
    <3>2. CASE UNCHANGED ledgerVars
      BY <1>2, <3>2
    <3>3. CASE PostDeficit(DeficitReserve, a, n, tx)
      BY <1>1, <3>1, <3>3, PostDeficitPreserves
    <3>4. QED
      BY <2>3, <3>2, <3>3 DEF DebitDeficitReserve
  <2>4. QED
    BY <1>7, <2>1, <2>2, <2>3
<1>8. ASSUME NEW a \in Parties, NEW d \in Parties, NEW n \in Amounts,
             NEW tx \in TxIDs, NEW err \in LedgerErrors,
             \/ CommitOfflineAllowance(a, d, n, tx, err)
             \/ CommitHold(a, d, n, tx, err)
             \/ DirectCommit(a, d, n, tx, err)
      PROVE  LedgerInv' /\ MovesAreJournalled
  <2>1. CASE CommitOfflineAllowance(a, d, n, tx, err)
    BY <1>1, <2>1, SettlePreserves, BucketsOfAccount, LabelsOfAccount,
       MatchingLabels
       DEF CommitOfflineAllowance
  <2>2. CASE CommitHold(a, d, n, tx, err)
    <3>1. SystemEscrow \in Accounts
      BY SystemAccountsAssumption DEF SystemAccounts
    <3>2. QED
      BY <1>1, <2>2, <3>1, SettlePreserves, BucketsOfAccount,
         LabelsOfAccount, MatchingLabels DEF CommitHold
  <2>3. CASE DirectCommit(a, d, n, tx, err)
    BY <1>1, <2>3, SettlePreserves, BucketsOfAccount, LabelsOfAccount,
       MatchingLabels
       DEF DirectCommit
  <2>4. QED
    BY <1>8, <2>1, <2>2, <2>3
<1>9. ASSUME NEW a \in Parties, NEW d \in Parties, NEW n \in Amounts,
             NEW tx \in TxIDs, RecordDeficit(a, d, n, tx)
      PROVE  LedgerInv' /\ MovesAreJournalled
  BY <1>1, <1>9, PostDeficitPreserves DEF RecordDeficit
<1>10. QED
  BY <1>1, <1>2, <1>3, <1>4, <1>5, <1>6, <1>7, <1>8, <1>9 DEF LedgerNext

(* The audit skips the accounts that were never opened, which hold nothing: *)
(* it sees all the money there is.                                         *)
LEMMA AuditSeesAllMoney ==
  ASSUME LedgerInv
  PROVE  AuditConservation = Total(Buckets)
<1> DEFINE seen == {b \in Buckets : b[1] \in exists}
<1>1. balance \in [Buckets -> Int]
  BY DEF LedgerInv, LedgerTypeOK
<1>2. \A b \in Buckets \ seen : balance[b] = 0
  BY DEF LedgerInv, MoneyOnlyInOpenAccounts
<1>3. seen \subseteq Buckets /\ \A b \in Buckets : balance[b] \in Int
  BY <1>1
<1> HIDE DEF seen
<1>4. SumFunctionOnSet(balance, Buckets) = SumFunctionOnSet(balance, seen)
  BY <1>2, <1>3, BucketsFinite, SumOutsideZero
<1>5. QED
  BY <1>4 DEF AuditConservation, Total, seen

(* The invariant's account of the books gives the three laws about sums.   *)
LEMMA BooksGiveTheLaws ==
  ASSUME LedgerInv
  PROVE  ConservationLaw /\ JournalExplainsBalances /\ EscrowBacksReserved
<1>1. ConservationLaw
  BY AuditSeesAllMoney DEF LedgerInv, Books, CapitalExplained, ConservationLaw
<1>2. JournalExplainsBalances
  <2>1. SUFFICES ASSUME NEW a \in Accounts, a /= SystemEscrow
                 PROVE  /\ balance[OnlineAvailable(a)] =
                             opening[a] + Net(Label(a)) + Net(OnlineLabel(a))
                        /\ balance[OfflineAllowance(a)] = Net(OfflineLabel(a))
    BY DEF JournalExplainsBalances
  <2>2. balance[OnlineAvailable(a)] \in Int
    BY BucketsOfAccount DEF LedgerInv, LedgerTypeOK
  <2>3. opening[a] + Net(Label(a)) + Net(OnlineLabel(a)) =
          balance[OnlineAvailable(a)] + 0
    BY <2>1 DEF LedgerInv, Books, OnlineExplained
  <2>4. QED
    BY <2>2, <2>3 DEF LedgerInv, Books, OfflineExplained
<1>3. EscrowBacksReserved
  <2>1. SystemEscrow \in Accounts
    BY SystemAccountsAssumption DEF SystemAccounts
  <2>2. QED
    BY <2>1 DEF LedgerInv, Books, OnlineExplained, EscrowBacksReserved,
                ReservedBuckets
<1>4. QED
  BY <1>1, <1>2, <1>3

(***************************************************************************)
(* The ledger's variables keep their types, whatever sequence of calls     *)
(* runs.                                                                   *)
(***************************************************************************)
THEOREM LedgerTypeCorrect == LedgerSpec => []LedgerTypeOK
<1>1. LedgerInv => LedgerTypeOK
  BY DEF LedgerInv
<1>2. QED
  BY <1>1, LedgerInvInit, LedgerInvNext, PTL DEF LedgerSpec

(***************************************************************************)
(* The conservation law: for any accounts, amounts and sequence of calls,  *)
(* what the audit adds up is what the accounts were opened with plus what  *)
(* SYSTEM_CAPITAL paid in.                                                 *)
(***************************************************************************)
THEOREM Conservation == LedgerSpec => []ConservationLaw
<1>1. LedgerInv => ConservationLaw
  BY BooksGiveTheLaws
<1>2. QED
  BY <1>1, LedgerInvInit, LedgerInvNext, PTL DEF LedgerSpec

(***************************************************************************)
(* The journal is complete: replayed over the opening balances it gives the*)
(* online and the offline bucket of every account but the escrow.          *)
(***************************************************************************)
THEOREM JournalIsComplete == LedgerSpec => []JournalExplainsBalances
<1>1. LedgerInv => JournalExplainsBalances
  BY BooksGiveTheLaws
<1>2. QED
  BY <1>1, LedgerInvInit, LedgerInvNext, PTL DEF LedgerSpec

(***************************************************************************)
(* The escrow's label covers exactly the holds outstanding on all accounts,*)
(* on top of the escrow account's own money.                               *)
(***************************************************************************)
THEOREM EscrowIsBacked == LedgerSpec => []EscrowBacksReserved
<1>1. LedgerInv => EscrowBacksReserved
  BY BooksGiveTheLaws
<1>2. QED
  BY <1>1, LedgerInvInit, LedgerInvNext, PTL DEF LedgerSpec

(***************************************************************************)
(* No sequence of calls overdraws an allowance or a hold.                  *)
(***************************************************************************)
THEOREM NoBucketOverdrawn == LedgerSpec => []BucketsNonNegative
<1>1. LedgerInv => BucketsNonNegative
  BY DEF LedgerInv
<1>2. QED
  BY <1>1, LedgerInvInit, LedgerInvNext, PTL DEF LedgerSpec

(***************************************************************************)
(* For any amounts and opening balances, negative ones included: what an   *)
(* account is overdrawn by, beyond its opening balance, was taken by       *)
(* postings that no balance check guards, in entries that name it.         *)
(***************************************************************************)
THEOREM OverdraftIsAccounted == LedgerSpec => []OverdraftIsUnchecked
<1>1. LedgerInv => OverdraftIsUnchecked
  BY DEF LedgerInv
<1>2. QED
  BY <1>1, LedgerInvInit, LedgerInvNext, PTL DEF LedgerSpec

(***************************************************************************)
(* No money sits in an account that was never opened.                      *)
(***************************************************************************)
THEOREM NoMoneyOutsideAccounts == LedgerSpec => []MoneyOnlyInOpenAccounts
<1>1. LedgerInv => MoneyOnlyInOpenAccounts
  BY DEF LedgerInv
<1>2. QED
  BY <1>1, LedgerInvInit, LedgerInvNext, PTL DEF LedgerSpec

(***************************************************************************)
(* Double entry: every step that changes a balance opens an account,       *)
(* deposits capital, or moves one journalled amount between two buckets.   *)
(***************************************************************************)
THEOREM DoubleEntry == LedgerSpec => BalancesMoveJournalled
<1>1. LedgerInv /\ [LedgerNext]_ledgerVars => [MovesAreJournalled]_ledgerVars
  BY LedgerInvNext
<1>2. LedgerInv /\ [LedgerNext]_ledgerVars => LedgerInv'
  BY LedgerInvNext
<1>3. QED
  BY <1>1, <1>2, LedgerInvInit, PTL DEF LedgerSpec, BalancesMoveJournalled

=============================================================================
