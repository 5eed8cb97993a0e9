-------------------------- MODULE LedgerLocksProofs --------------------------
(***************************************************************************)
(* Proofs about goroutines that take the ledger's mutexes one by one, for  *)
(* any number of goroutines and accounts and any calls: who holds which    *)
(* mutex, that no circle of goroutines waits for each other's, what an     *)
(* audit adds up, and that the steps implement the atomic ledger.          *)
(***************************************************************************)
EXTENDS LedgerLocks, LedgerProofs

-----------------------------------------------------------------------------
(* The invariant.                                                          *)

LedgerPart ==
  /\ exists \in SUBSET Accounts
  /\ SystemAccounts \subseteq exists
  /\ balance \in [Buckets -> Int]
  /\ opening \in [Accounts -> Int]
  /\ entries \in Seq(LedgerEntry)
  /\ funding = NoEntry

Places == {"idle", "create", "lock", "check", "debit", "credit"}

LockPart ==
  /\ call \in [Threads -> Calls \cup {NoCall}]
  /\ pc \in [Threads -> Places]
  /\ locked \in [Threads -> 0..2]
  /\ owner \in [Accounts -> Threads \cup {NoThread}]

AuditPart ==
  audit \in [running : BOOLEAN, read : SUBSET Accounts, total : Int,
             crossed : BOOLEAN]

(* What the place of a goroutine says of its call, its locks and the       *)
(* accounts it works on.                                                   *)
Located(t) ==
  /\ pc[t] = "idle" <=> call[t] = NoCall
  /\ pc[t] \in {"idle", "create"} => locked[t] = 0
  /\ pc[t] = "lock" => locked[t] < Len(LockOrder(call[t]))
  /\ pc[t] \in {"check", "debit", "credit"}
       => locked[t] = Len(LockOrder(call[t]))
  /\ pc[t] \notin {"idle", "create"}
       => {call[t].AccountID, call[t].DestID} \subseteq exists

(* A goroutine holds the first locks of its call, and these are different. *)
Holds(t) ==
  /\ \A a \in Accounts :
       owner[a] = t <=> \E i \in 1..locked[t] : LockOrder(call[t])[i] = a
  /\ \A i, j \in 1..locked[t] :
       LockOrder(call[t])[i] = LockOrder(call[t])[j] => i = j

LocksInv ==
  /\ LedgerPart
  /\ LockPart
  /\ AuditPart
  /\ \A t \in Threads : Located(t) /\ Holds(t)

(* Accounts that were not opened have no money.                            *)
UnopenedEmpty ==
  /\ \A b \in Buckets : b[1] \notin exists => balance[b] = 0
  /\ \A a \in Accounts : a \notin exists => opening[a] = 0

(* With what is in flight counted, the money is what was paid in.          *)
SettledTotal ==
  SumFunctionOnSet(settledBalance, Buckets) =
    SumFunctionOnSet(opening, Accounts)

BucketsOf(A) == {b \in Buckets : b[1] \in A}

(* The audit has added up the settled balances of what it has read.        *)
AuditSum ==
  audit.running =>
    /\ audit.read \subseteq exists
    /\ ~audit.crossed =>
         audit.total = SumFunctionOnSet(settledBalance, BucketsOf(audit.read))

(* A call that was found covered stays covered.                            *)
Covered(t) ==
  /\ pc[t] /= "idle" =>
       call[t].Amount > 0 \/ call[t].Op \in {"ReleaseHold", "RecordDeficit"}
  /\ pc[t] \in {"debit", "credit"} /\ call[t].Op \notin DeficitOps
       => settledBalance[Source(call[t])] >= call[t].Amount

BusySet == {t \in Threads : pc[t] /= "idle"}

RoomPart == Len(entries) + Cardinality(BusySet) <= MaxEntries

MoneyInv ==
  /\ UnopenedEmpty
  /\ SettledTotal
  /\ AuditSum
  /\ \A t \in Threads : Covered(t)
  /\ RoomPart

-----------------------------------------------------------------------------
(* Lemmas about calls.                                                     *)

(* The parts of a call.                                                    *)
LEMMA CallParts ==
  ASSUME NEW c \in Calls
  PROVE  /\ c.Op \in SingleAccountOps \cup OrderedOps \cup DeficitOps
         /\ c.AccountID \in Accounts
         /\ c.DestID \in Accounts
         /\ c.DestID \in Parties
         /\ c.Amount \in Int
         /\ c.Amount \in Amounts
         /\ c.TxID \in TxIDs
         /\ c.Op # "DebitDeficitReserve" => c.AccountID \in Parties
         /\ c.Op = "DebitDeficitReserve" => c.AccountID = DeficitReserve
         /\ c.Op \in SingleAccountOps => c.DestID = c.AccountID
         /\ c # NoCall
<1>1. c \in Call
  BY CallsAssumption
<1>2. DeficitReserve \in Accounts
  BY SystemAccountsAssumption DEF SystemAccounts
<1>3. QED
  BY <1>1, <1>2, CallsAssumption, PartiesAssumption, AmountsAssumption
     DEF Call

(* A call locks its one or two accounts and nothing else.                  *)
LEMMA LockOrderParts ==
  ASSUME NEW c \in Calls
  PROVE  /\ LockOrder(c) \in Seq(Accounts)
         /\ Len(LockOrder(c)) \in 1..2
         /\ \A i \in 1..Len(LockOrder(c)) :
              LockOrder(c)[i] \in {c.AccountID, c.DestID}
         /\ \E i \in 1..Len(LockOrder(c)) : LockOrder(c)[i] = c.AccountID
         /\ \E i \in 1..Len(LockOrder(c)) : LockOrder(c)[i] = c.DestID
<1> USE CallParts
<1>1. CASE c.Op \in SingleAccountOps
  <2>1. LockOrder(c) = <<c.AccountID>>
    BY <1>1 DEF LockOrder, SingleAccountOps, DeficitOps, OrderedOps
  <2>2. QED
    BY <1>1, <2>1
<1>2. CASE c.Op \in DeficitOps
  <2>1. LockOrder(c) = <<c.AccountID, c.DestID>>
    BY <1>2 DEF LockOrder, SingleAccountOps, DeficitOps, OrderedOps
  <2>2. QED
    BY <1>2, <2>1
<1>3. CASE c.Op \in OrderedOps
  <2>1. \/ LockOrder(c) = <<c.AccountID>> /\ c.AccountID = c.DestID
        \/ LockOrder(c) = <<c.AccountID, c.DestID>>
        \/ LockOrder(c) = <<c.DestID, c.AccountID>>
    BY <1>3 DEF LockOrder, SingleAccountOps, DeficitOps, OrderedOps
  <2>2. CASE LockOrder(c) = <<c.AccountID>> /\ c.AccountID = c.DestID
    BY <2>2
  <2>3. CASE LockOrder(c) = <<c.AccountID, c.DestID>>
    BY <2>3
  <2>4. CASE LockOrder(c) = <<c.DestID, c.AccountID>>
    BY <2>4
  <2>5. QED
    BY <2>1, <2>2, <2>3, <2>4
<1>4. QED
  BY <1>1, <1>2, <1>3

(* A call that is no descending deficit takes its locks in the order of    *)
(* the account ids.                                                        *)
LEMMA LockOrderAscends ==
  ASSUME NEW c \in Calls, ~Descends(c),
         NEW i \in 1..Len(LockOrder(c)), NEW j \in 1..Len(LockOrder(c)), i < j
  PROVE  Rank[LockOrder(c)[i]] < Rank[LockOrder(c)[j]]
<1>1. /\ Rank[c.AccountID] \in Int
      /\ Rank[c.DestID] \in Int
      /\ c.AccountID # c.DestID => Rank[c.AccountID] # Rank[c.DestID]
  BY CallParts, RankAssumption
<1>2. CASE Len(LockOrder(c)) = 1
  BY <1>2
<1>3. CASE c.Op \in DeficitOps
  <2>1. LockOrder(c) = <<c.AccountID, c.DestID>>
    BY <1>3 DEF LockOrder, SingleAccountOps, DeficitOps, OrderedOps
  <2>2. i = 1 /\ j = 2
    BY <2>1
  <2>3. QED
    BY <1>1, <1>3, <2>1, <2>2 DEF Descends
<1>4. CASE c.Op \in OrderedOps /\ c.AccountID # c.DestID
  <2>1. LockOrder(c) = IF Rank[c.AccountID] < Rank[c.DestID]
                       THEN <<c.AccountID, c.DestID>>
                       ELSE <<c.DestID, c.AccountID>>
    BY <1>4 DEF LockOrder, SingleAccountOps, DeficitOps, OrderedOps
  <2>2. i = 1 /\ j = 2
    BY <2>1
  <2>3. QED
    BY <1>1, <1>4, <2>1, <2>2
<1>5. CASE c.Op \in OrderedOps /\ c.AccountID = c.DestID
  <2>1. LockOrder(c) = <<c.AccountID>>
    BY <1>5 DEF LockOrder, SingleAccountOps, DeficitOps, OrderedOps
  <2>2. QED
    BY <1>2, <2>1
<1>6. CASE c.Op \in SingleAccountOps
  <2>1. LockOrder(c) = <<c.AccountID>>
    BY <1>6 DEF LockOrder, SingleAccountOps, DeficitOps, OrderedOps
  <2>2. QED
    BY <1>2, <2>1
<1>7. QED
  BY <1>3, <1>4, <1>5, <1>6, CallParts

(* The buckets of a call are the payer's and the payee's.                  *)
LEMMA SourceAndTarget ==
  ASSUME NEW c \in Calls
  PROVE  /\ Source(c) \in Buckets
         /\ Source(c)[1] = c.AccountID
         /\ Target(c) \in Buckets
         /\ Target(c)[1] = c.DestID
<1>1. /\ c.AccountID \in Accounts
      /\ c.DestID \in Accounts
      /\ c.Op \in SingleAccountOps => c.DestID = c.AccountID
  BY CallParts
<1>2. \/ Source(c) = OfflineAllowance(c.AccountID)
      \/ Source(c) = ReservedBalance(c.AccountID)
      \/ Source(c) = OnlineAvailable(c.AccountID)
  BY DEF Source
<1>3. \/ Target(c) = OfflineAllowance(c.AccountID) /\ c.DestID = c.AccountID
      \/ Target(c) = ReservedBalance(c.AccountID) /\ c.DestID = c.AccountID
      \/ Target(c) = OnlineAvailable(c.DestID)
  BY <1>1 DEF Target, SingleAccountOps
<1>4. QED
  BY <1>1, <1>2, <1>3, BucketsOfAccount

-----------------------------------------------------------------------------
(* The locks, step by step.                                                *)

(* A step of goroutine t leaves the others where they are, with the        *)
(* mutexes they hold.                                                      *)
OthersStay(t) ==
  \A u \in Threads \ {t} :
    /\ call'[u] = call[u]
    /\ pc'[u] = pc[u]
    /\ locked'[u] = locked[u]
    /\ \A a \in Accounts : owner'[a] = u <=> owner[a] = u

(* What every step of t shall do to the locks.                             *)
KeepsLocks(t) ==
  /\ LockPart'
  /\ OthersStay(t)
  /\ \A u \in Threads : Located(u)' /\ Holds(u)'

(* The invariant need only be shown for t.                                 *)
LEMMA OneGoroutine ==
  ASSUME LocksInv, exists \subseteq exists', NEW t \in Threads,
         OthersStay(t), Located(t)', Holds(t)'
  PROVE  \A u \in Threads : Located(u)' /\ Holds(u)'
<1>1. SUFFICES ASSUME NEW u \in Threads \ {t}
               PROVE  Located(u)' /\ Holds(u)'
  OBVIOUS
<1>2. /\ call'[u] = call[u] /\ pc'[u] = pc[u] /\ locked'[u] = locked[u]
      /\ \A a \in Accounts : owner'[a] = u <=> owner[a] = u
  BY DEF OthersStay
<1>3. Located(u) /\ Holds(u)
  BY DEF LocksInv
<1>4. LockOrder(call[u])' = LockOrder(call[u])
  BY <1>2 DEF LockOrder
<1>5. Located(u)'
  BY <1>2, <1>3, <1>4 DEF Located
<1>6. Holds(u)'
  BY <1>2, <1>3, <1>4 DEF Holds
<1>7. QED
  BY <1>5, <1>6

(* A goroutine that is not idle executes a call.                           *)
LEMMA BusyHasCall ==
  ASSUME LocksInv, NEW t \in Threads, pc[t] /= "idle"
  PROVE  call[t] \in Calls
BY DEF LocksInv, LockPart, Located

(* Begin looks up, and locks nothing.                                      *)
LEMMA BeginLocks ==
  ASSUME LocksInv, NEW t \in Threads, NEW c \in Calls, Begin(t, c)
  PROVE  KeepsLocks(t)
<1>1. /\ pc[t] = "idle"
      /\ call' = [call EXCEPT ![t] = c]
      /\ pc' = [pc EXCEPT ![t] =
                  IF {c.AccountID, c.DestID} \subseteq exists
                  THEN "lock" ELSE "create"]
      /\ locked' = locked /\ owner' = owner /\ exists' = exists
  BY DEF Begin, ledgerVars
<1>2. LockPart
  BY DEF LocksInv
<1>3. LockPart'
  BY <1>1, <1>2 DEF LockPart, Places
<1>4. OthersStay(t)
  BY <1>1, <1>2 DEF OthersStay, LockPart
<1>5. call'[t] = c /\ locked'[t] = 0
  BY <1>1, <1>2 DEF LocksInv, Located, LockPart
<1>6. Located(t)'
  <2>1. c # NoCall /\ 0 < Len(LockOrder(c))
    BY CallParts, LockOrderParts
  <2>2. \/ pc'[t] = "create"
        \/ pc'[t] = "lock" /\ {c.AccountID, c.DestID} \subseteq exists
    BY <1>1, <1>2 DEF LockPart
  <2>3. LockOrder(call[t])' = LockOrder(c) /\ exists' = exists
    BY <1>1, <1>5
  <2>4. CASE pc'[t] = "create"
    BY <1>5, <2>1, <2>3, <2>4 DEF Located
  <2>5. CASE pc'[t] = "lock"
    <3>1. locked'[t] < Len(LockOrder(call[t]))'
      BY <1>5, <2>1, <2>3
    <3>2. ({call[t].AccountID, call[t].DestID} \subseteq exists)'
      BY <1>5, <2>2, <2>3, <2>5
    <3>3. call'[t] # NoCall
      BY <1>5, <2>1, <2>3
    <3>4. QED
      BY <2>5, <3>1, <3>2, <3>3 DEF Located
  <2>6. QED
    BY <2>2, <2>4, <2>5
<1>7. Holds(t)'
  <2>1. locked[t] = 0
    BY <1>1, <1>5
  <2>2. \A a \in Accounts : owner[a] # t
    BY <2>1 DEF LocksInv, Holds
  <2>3. QED
    BY <1>1, <1>5, <2>2 DEF Holds
<1>8. QED
  BY <1>1, <1>3, <1>4, <1>6, <1>7, OneGoroutine DEF KeepsLocks

(* Creating an account locks nothing.                                      *)
LEMMA CreateMissingLocks ==
  ASSUME LocksInv, NEW t \in Threads, NEW a \in Accounts,
         CreateMissing(t, a)
  PROVE  KeepsLocks(t)
<1>1. /\ pc[t] = "create"
      /\ call' = call /\ locked' = locked /\ owner' = owner
      /\ pc' = [pc EXCEPT ![t] =
                  IF {call[t].AccountID, call[t].DestID} \subseteq exists'
                  THEN "lock" ELSE "create"]
      /\ exists \subseteq exists'
  BY DEF CreateMissing, CreateAccount
<1>2. LockPart
  BY DEF LocksInv
<1>3. LockPart'
  BY <1>1, <1>2 DEF LockPart, Places
<1>4. OthersStay(t)
  BY <1>1, <1>2 DEF OthersStay, LockPart
<1>5. locked[t] = 0 /\ call[t] \in Calls
  BY <1>1, BusyHasCall DEF LocksInv, Located
<1>6. Located(t)'
  <2>1. call[t] # NoCall /\ 0 < Len(LockOrder(call[t]))
    BY <1>5, CallParts, LockOrderParts
  <2>2. \/ pc'[t] = "create"
        \/ /\ pc'[t] = "lock"
           /\ {call[t].AccountID, call[t].DestID} \subseteq exists'
    BY <1>1, <1>2 DEF LockPart
  <2>3. /\ LockOrder(call[t])' = LockOrder(call[t])
        /\ call'[t] = call[t] /\ locked'[t] = locked[t]
    BY <1>1
  <2>4. CASE pc'[t] = "create"
    BY <1>5, <2>1, <2>3, <2>4 DEF Located
  <2>5. CASE pc'[t] = "lock"
    <3>1. locked'[t] < Len(LockOrder(call[t]))'
      BY <1>5, <2>1, <2>3
    <3>2. ({call[t].AccountID, call[t].DestID} \subseteq exists)'
      BY <1>5, <2>2, <2>3, <2>5
    <3>3. call'[t] # NoCall
      BY <1>5, <2>1, <2>3
    <3>4. QED
      BY <2>5, <3>1, <3>2, <3>3 DEF Located
  <2>6. QED
    BY <2>2, <2>4, <2>5
<1>7. Holds(t)'
  <2>1. \A b \in Accounts : owner[b] # t
    BY <1>5 DEF LocksInv, Holds
  <2>2. QED
    BY <1>1, <1>5, <2>1 DEF Holds
<1>8. QED
  BY <1>1, <1>3, <1>4, <1>6, <1>7, OneGoroutine DEF KeepsLocks

(* Lock takes the next mutex, which nobody holds, not even t itself.       *)
LEMMA LockLocks ==
  ASSUME LocksInv, NEW t \in Threads, Lock(t)
  PROVE  KeepsLocks(t)
<1> DEFINE order == LockOrder(call[t])
           next == NextLock(t)
           k == locked[t]
<1>1. /\ pc[t] = "lock"
      /\ owner[next] = NoThread
      /\ owner' = [owner EXCEPT ![next] = t]
      /\ locked' = [locked EXCEPT ![t] = k + 1]
      /\ pc' = [pc EXCEPT ![t] = IF k + 1 = Len(order)
                                 THEN "check" ELSE "lock"]
      /\ call' = call /\ exists' = exists
  BY DEF Lock, ledgerVars
<1>2. LockPart
  BY DEF LocksInv
<1>3. call[t] \in Calls
  BY <1>1, BusyHasCall
<1>4. /\ k \in Nat /\ k < Len(order)
      /\ Len(order) \in 1..2
      /\ \A i \in 1..Len(order) : order[i] \in Accounts
      /\ {call[t].AccountID, call[t].DestID} \subseteq exists
  BY <1>1, <1>2, <1>3, LockOrderParts DEF LocksInv, Located, LockPart
<1>5. next = order[k + 1] /\ next \in Accounts
  BY <1>4 DEF NextLock
<1>6. LockPart'
  <2>1. k + 1 \in 0..2
    BY <1>4
  <2>2. QED
    BY <1>1, <1>2, <1>5, <2>1 DEF LockPart, Places
<1>7. OthersStay(t)
  BY <1>1, <1>2, <1>5, ThreadsAssumption DEF OthersStay, LockPart
<1>8. call'[t] = call[t] /\ locked'[t] = k + 1
  BY <1>1, <1>2 DEF LockPart
<1>9. LockOrder(call[t])' = order
  BY <1>1
<1>10. Located(t)'
  <2>1. pc'[t] = IF k + 1 = Len(order) THEN "check" ELSE "lock"
    BY <1>1, <1>2 DEF LockPart
  <2>2. call[t] # NoCall
    BY <1>3, CallParts
  <2>3. QED
    BY <1>1, <1>4, <1>8, <1>9, <2>1, <2>2 DEF Located
<1>11. Holds(t)'
  <2>1. /\ \A a \in Accounts : owner[a] = t <=>
                               \E i \in 1..k : order[i] = a
        /\ \A i, j \in 1..k : order[i] = order[j] => i = j
    BY DEF LocksInv, Holds
  <2>2. t # NoThread
    BY ThreadsAssumption
  <2>3. \A i \in 1..k : order[i] # next
    BY <1>1, <1>5, <2>1, <2>2
  <2>4. \A a \in Accounts : owner'[a] = t <=> a = next \/ owner[a] = t
    BY <1>1, <1>2, <1>5 DEF LockPart
  <2>5. \A i : i \in 1..(k + 1) <=> i \in 1..k \/ i = k + 1
    BY <1>4
  <2> HIDE DEF order, next, k
  <2>6. \A a \in Accounts : owner'[a] = t <=>
                              \E i \in 1..(k + 1) : order[i] = a
    BY <1>5, <2>1, <2>4, <2>5
  <2>7. \A i, j \in 1..(k + 1) : order[i] = order[j] => i = j
    BY <1>5, <2>1, <2>3, <2>5
  <2>8. QED
    BY <1>8, <1>9, <2>6, <2>7 DEF Holds
<1>12. QED
  BY <1>1, <1>6, <1>7, <1>10, <1>11, OneGoroutine DEF KeepsLocks

(* Returning releases every mutex of t and none of another's.              *)
LEMMA ReturnLocks ==
  ASSUME LocksInv, NEW t \in Threads, Return(t), exists' = exists
  PROVE  KeepsLocks(t)
<1>1. LockPart
  BY DEF LocksInv
<1>2. LockPart'
  BY <1>1 DEF LockPart, Return, Places
<1>3. OthersStay(t)
  BY <1>1, ThreadsAssumption DEF OthersStay, LockPart, Return
<1>4. /\ pc'[t] = "idle" /\ call'[t] = NoCall /\ locked'[t] = 0
      /\ \A a \in Accounts : owner'[a] # t
  BY <1>1, ThreadsAssumption DEF LockPart, Return
<1>5. Located(t)'
  BY <1>4 DEF Located
<1>6. Holds(t)'
  BY <1>4 DEF Holds
<1>7. QED
  BY <1>2, <1>3, <1>5, <1>6, OneGoroutine DEF KeepsLocks

(* A step of t to a later place, its locks kept.                           *)
LEMMA AdvanceLocks ==
  ASSUME LocksInv, NEW t \in Threads, NEW to \in {"debit", "credit"},
         pc[t] \in {"check", "debit"}, pc' = [pc EXCEPT ![t] = to],
         exists' = exists, call' = call, locked' = locked, owner' = owner
  PROVE  KeepsLocks(t)
<1>1. LockPart /\ Located(t) /\ Holds(t)
  BY DEF LocksInv
<1>2. LockPart' /\ pc'[t] = to
  BY <1>1 DEF LockPart, Places
<1>3. OthersStay(t)
  BY <1>1 DEF OthersStay, LockPart
<1>4. LockOrder(call[t])' = LockOrder(call[t])
  OBVIOUS
<1>5. Located(t)'
  BY <1>1, <1>2, <1>4 DEF Located
<1>6. Holds(t)'
  BY <1>1, <1>4 DEF Holds
<1>7. QED
  BY <1>2, <1>3, <1>5, <1>6, OneGoroutine DEF KeepsLocks

-----------------------------------------------------------------------------
(* What is in flight, step by step.                                        *)

(* The settled balance of a bucket.                                        *)
LEMMA SettledParts ==
  ASSUME LocksInv, NEW b \in Buckets
  PROVE  /\ InFlight(b) \in Int
         /\ balance[b] \in Int
         /\ settledBalance[b] = balance[b] + InFlight(b)
         /\ settledBalance[b] \in Int
<1>1. InFlight(b) \in Int
  <2>1. SUFFICES ASSUME owner[b[1]] /= NoThread, pc[owner[b[1]]] = "credit"
                 PROVE  call[owner[b[1]]].Amount \in Int
    BY DEF InFlight
  <2>2. b[1] \in Accounts
    BY DEF Buckets
  <2>3. owner[b[1]] \in Threads
    BY <2>1, <2>2 DEF LocksInv, LockPart
  <2>4. QED
    BY <2>1, <2>3, BusyHasCall, CallParts
<1>2. balance[b] \in Int
  BY DEF LocksInv, LedgerPart
<1>3. QED
  BY <1>1, <1>2 DEF settledBalance

(* A step of t leaves alone what others have in flight, and does not make  *)
(* others the holders of a mutex.                                          *)
LEMMA OthersInFlight ==
  ASSUME LocksInv, NEW t \in Threads, KeepsLocks(t), NEW b \in Buckets
  PROVE  \/ InFlight(b)' = InFlight(b)
         \/ /\ owner[b[1]] \in {t, NoThread}
            /\ owner'[b[1]] \in {t, NoThread}
<1>1. b[1] \in Accounts
  BY DEF Buckets
<1>2. /\ owner[b[1]] \in Threads \cup {NoThread}
      /\ owner'[b[1]] \in Threads \cup {NoThread}
  BY <1>1 DEF LocksInv, KeepsLocks, LockPart
<1>3. CASE owner[b[1]] \in Threads \ {t}
  <2>1. PICK u \in Threads \ {t} : owner[b[1]] = u
    BY <1>3
  <2>2. owner'[b[1]] = u /\ pc'[u] = pc[u] /\ call'[u] = call[u]
    BY <1>1, <2>1 DEF KeepsLocks, OthersStay
  <2>3. Source(call[u])' = Source(call[u])
    BY <2>2 DEF Source
  <2>4. QED
    BY <2>1, <2>2, <2>3 DEF InFlight
<1>4. CASE owner[b[1]] \in {t, NoThread}
  <2>1. owner'[b[1]] \notin Threads \ {t}
    BY <1>1, <1>4, ThreadsAssumption DEF KeepsLocks, OthersStay
  <2>2. QED
    BY <1>2, <1>4, <2>1
<1>5. QED
  BY <1>2, <1>3, <1>4

(* A step that leads neither from nor to the credit settles nothing.       *)
LEMMA NothingSettled ==
  ASSUME LocksInv, NEW t \in Threads, KeepsLocks(t),
         pc[t] /= "credit", pc'[t] /= "credit", NEW b \in Buckets
  PROVE  InFlight(b)' = InFlight(b)
<1>1. SUFFICES ASSUME owner[b[1]] \in {t, NoThread},
                      owner'[b[1]] \in {t, NoThread}
               PROVE  InFlight(b)' = InFlight(b)
  BY OthersInFlight
<1>2. InFlight(b) = 0
  BY <1>1 DEF InFlight
<1>3. InFlight(b)' = 0
  BY <1>1 DEF InFlight
<1>4. QED
  BY <1>2, <1>3

(* A goroutine that debits or credits holds the mutexes of its buckets.    *)
LEMMA HoldsItsBuckets ==
  ASSUME LocksInv, NEW t \in Threads, pc[t] \in {"check", "debit", "credit"}
  PROVE  /\ call[t] \in Calls
         /\ owner[Source(call[t])[1]] = t
         /\ owner[Target(call[t])[1]] = t
<1>1. call[t] \in Calls /\ locked[t] = Len(LockOrder(call[t])) /\ Holds(t)
  BY BusyHasCall DEF LocksInv, Located
<1>2. call[t].AccountID \in Accounts /\ call[t].DestID \in Accounts
  BY <1>1, CallParts
<1>3. owner[call[t].AccountID] = t /\ owner[call[t].DestID] = t
  BY <1>1, <1>2, LockOrderParts DEF Holds
<1>4. QED
  BY <1>1, <1>3, SourceAndTarget

(* A debit moves its amount from the balance into flight.                  *)
LEMMA DebitSettlesNothing ==
  ASSUME LocksInv, NEW t \in Threads, KeepsLocks(t), Debit(t),
         NEW b \in Buckets
  PROVE  balance'[b] + InFlight(b)' = balance[b] + InFlight(b)
<1>1. /\ pc[t] = "debit" /\ pc'[t] = "credit"
      /\ call' = call /\ owner' = owner
      /\ balance' = [balance EXCEPT ![Source(call[t])] = @ - call[t].Amount]
  BY DEF Debit, LocksInv, LockPart
<1>2. /\ call[t] \in Calls /\ owner[Source(call[t])[1]] = t
      /\ Source(call[t]) \in Buckets /\ call[t].Amount \in Int
  BY <1>1, HoldsItsBuckets, SourceAndTarget, CallParts
<1>3. balance \in [Buckets -> Int] /\ InFlight(b) \in Int
  BY SettledParts DEF LocksInv, LedgerPart
<1>4. t # NoThread /\ Source(call[t])' = Source(call[t])
  BY <1>1, ThreadsAssumption
<1>5. CASE b = Source(call[t])
  <2>1. InFlight(b) = 0
    BY <1>1, <1>2, <1>5 DEF InFlight
  <2>2. InFlight(b)' = call[t].Amount
    BY <1>1, <1>2, <1>4, <1>5 DEF InFlight
  <2>3. balance'[b] = balance[b] - call[t].Amount
    BY <1>1, <1>2, <1>3, <1>5
  <2>4. balance[b] \in Int
    BY <1>3
  <2>5. QED
    BY <1>2, <2>1, <2>2, <2>3, <2>4
<1>6. CASE b # Source(call[t])
  <2>1. balance'[b] = balance[b]
    BY <1>1, <1>2, <1>3, <1>6
  <2>2. InFlight(b)' = InFlight(b)
    <3>1. SUFFICES ASSUME owner[b[1]] \in {t, NoThread},
                          owner'[b[1]] \in {t, NoThread}
                   PROVE  InFlight(b)' = InFlight(b)
      BY OthersInFlight
    <3>2. InFlight(b) = 0 /\ InFlight(b)' = 0
      BY <1>1, <1>4, <1>6, <3>1 DEF InFlight
    <3>3. QED
      BY <3>2
  <2>3. QED
    BY <2>1, <2>2
<1>7. QED
  BY <1>5, <1>6

(* The credit settles the whole call: the settled balances move its amount *)
(* from its source to its target.                                          *)
LEMMA CreditSettles ==
  ASSUME LocksInv, NEW t \in Threads, KeepsLocks(t), Credit(t),
         NEW b \in Buckets
  PROVE  balance'[b] + InFlight(b)' =
           balance[b] + InFlight(b)
             - (IF b = Source(call[t]) THEN call[t].Amount ELSE 0)
             + (IF b = Target(call[t]) THEN call[t].Amount ELSE 0)
<1> DEFINE n == call[t].Amount
<1>1. /\ pc[t] = "credit" /\ pc'[t] = "idle"
      /\ balance' = [balance EXCEPT ![Target(call[t])] = @ + n]
  BY DEF Credit, Return, LocksInv, LockPart
<1>2. /\ call[t] \in Calls /\ owner[Source(call[t])[1]] = t
      /\ Target(call[t]) \in Buckets /\ n \in Int
  BY <1>1, HoldsItsBuckets, SourceAndTarget, CallParts
<1>3. balance \in [Buckets -> Int] /\ InFlight(b) \in Int
  BY SettledParts DEF LocksInv, LedgerPart
<1>4. t # NoThread
  BY ThreadsAssumption
<1>5. /\ balance[b] \in Int
      /\ balance'[b] = balance[b] + (IF b = Target(call[t]) THEN n ELSE 0)
  BY <1>1, <1>2, <1>3
<1>6. /\ InFlight(b)' \in Int
      /\ InFlight(b) = InFlight(b)' + (IF b = Source(call[t]) THEN n ELSE 0)
  <2>1. CASE b = Source(call[t])
    <3>1. InFlight(b) = n
      BY <1>1, <1>2, <1>4, <2>1 DEF InFlight
    <3>2. owner'[b[1]] \in {t, NoThread}
      <4>1. b[1] \in Accounts
        BY DEF Buckets
      <4>2. QED
        BY <1>2, <2>1, <4>1 DEF Credit, Return, LocksInv, LockPart
    <3>3. InFlight(b)' = 0
      BY <1>1, <3>2 DEF InFlight
    <3>4. QED
      BY <1>2, <2>1, <3>1, <3>3
  <2>2. CASE b # Source(call[t])
    <3>1. InFlight(b)' = InFlight(b)
      <4>1. SUFFICES ASSUME owner[b[1]] \in {t, NoThread},
                            owner'[b[1]] \in {t, NoThread}
                     PROVE  InFlight(b)' = InFlight(b)
        BY OthersInFlight
      <4>2. InFlight(b) = 0 /\ InFlight(b)' = 0
        BY <1>1, <2>2, <4>1 DEF InFlight
      <4>3. QED
        BY <4>2
    <3>2. QED
      BY <1>3, <2>2, <3>1
  <2>3. QED
    BY <2>1, <2>2
<1> HIDE DEF n
<1>7. balance'[b] + InFlight(b)' =
        balance[b] + InFlight(b) - (IF b = Source(call[t]) THEN n ELSE 0)
          + (IF b = Target(call[t]) THEN n ELSE 0)
  BY <1>2, <1>3, <1>5, <1>6
<1>8. QED
  BY <1>7 DEF n

-----------------------------------------------------------------------------
(* The money, step by step.                                                *)

(* The step settles nothing.                                               *)
NothingSettles ==
  \A b \in Buckets :
    balance'[b] + InFlight(b)' = balance[b] + InFlight(b)

(* Such a step changes no settled balance and no sum of them.              *)
LEMMA SettledKept ==
  ASSUME LocksInv, NothingSettles
  PROVE  /\ \A b \in Buckets : settledBalance'[b] = settledBalance[b]
         /\ \A S \in SUBSET Buckets :
              SumFunctionOnSet(settledBalance', S) =
                SumFunctionOnSet(settledBalance, S)
<1>1. \A b \in Buckets : settledBalance'[b] = balance'[b] + InFlight(b)'
  BY DEF settledBalance
<1>2. \A b \in Buckets : /\ settledBalance[b] \in Int
                         /\ settledBalance[b] = settledBalance'[b]
  BY <1>1, SettledParts DEF NothingSettles
<1> HIDE DEF settledBalance
<1>3. ASSUME NEW S \in SUBSET Buckets
      PROVE  SumFunctionOnSet(settledBalance, S) =
               SumFunctionOnSet(settledBalance', S)
  <2>1. IsFiniteSet(S)
    BY BucketsFinite, FS_Subset
  <2>2. QED
    BY <1>2, <2>1, SumSame
<1>4. QED
  BY <1>2, <1>3

(* So it keeps what the sums say.                                          *)
LEMMA SumsKept ==
  ASSUME LocksInv, MoneyInv, NothingSettles, exists \subseteq exists',
         opening' = opening, audit' = audit
  PROVE  SettledTotal' /\ AuditSum'
<1>1. \A S \in SUBSET Buckets : SumFunctionOnSet(settledBalance', S) =
                                SumFunctionOnSet(settledBalance, S)
  BY SettledKept
<1>2. SettledTotal'
  BY <1>1 DEF MoneyInv, SettledTotal
<1>3. AuditSum'
  <2>1. /\ BucketsOf(audit.read)' = BucketsOf(audit.read)
        /\ BucketsOf(audit.read) \in SUBSET Buckets
    BY DEF BucketsOf
  <2>2. QED
    BY <1>1, <2>1 DEF MoneyInv, AuditSum
<1>4. QED
  BY <1>2, <1>3

(* A step of t that does not touch the settled balances other goroutines   *)
(* have checked leaves them covered.                                       *)
LEMMA OthersCovered ==
  ASSUME LocksInv, MoneyInv, NEW t \in Threads, KeepsLocks(t), Covered(t)',
         \A u \in Threads \ {t} :
           pc[u] \in {"debit", "credit"} =>
             settledBalance'[Source(call[u])] = settledBalance[Source(call[u])]
  PROVE  \A u \in Threads : Covered(u)'
<1>1. SUFFICES ASSUME NEW u \in Threads \ {t} PROVE Covered(u)'
  OBVIOUS
<1>2. Covered(u)
  BY DEF MoneyInv
<1>3. pc'[u] = pc[u] /\ call'[u] = call[u]
  BY DEF KeepsLocks, OthersStay
<1>4. Source(call[u])' = Source(call[u])
  BY <1>3 DEF Source
<1> HIDE DEF settledBalance
<1>5. QED
  BY <1>2, <1>3, <1>4 DEF Covered

(* Nor does one that settles nothing.                                      *)
LEMMA AllCovered ==
  ASSUME LocksInv, MoneyInv, NEW t \in Threads, KeepsLocks(t), Covered(t)',
         NothingSettles
  PROVE  \A u \in Threads : Covered(u)'
<1>1. ASSUME NEW u \in Threads \ {t}, pc[u] \in {"debit", "credit"}
      PROVE  settledBalance'[Source(call[u])] = settledBalance[Source(call[u])]
  <2>1. Source(call[u]) \in Buckets
    BY <1>1, BusyHasCall, SourceAndTarget
  <2>2. QED
    BY <2>1, SettledKept
<1>2. QED
  BY <1>1, OthersCovered

(* The set of busy goroutines is finite.                                   *)
LEMMA BusyFinite ==
  IsFiniteSet(BusySet) /\ Cardinality(BusySet) \in Nat
<1>1. BusySet \subseteq Threads
  BY DEF BusySet
<1>2. QED
  BY <1>1, ThreadsAssumption, FS_Subset, FS_CardinalityType

(* A goroutine that begins, stays busy or returns changes their number by  *)
(* as much.                                                                *)
LEMMA BusyChanges ==
  ASSUME LocksInv, NEW t \in Threads, KeepsLocks(t)
  PROVE  /\ pc[t] = "idle" /\ pc'[t] /= "idle" =>
              Cardinality(BusySet') = Cardinality(BusySet) + 1
         /\ pc[t] /= "idle" /\ pc'[t] /= "idle" => BusySet' = BusySet
         /\ pc[t] /= "idle" /\ pc'[t] = "idle" =>
              Cardinality(BusySet') = Cardinality(BusySet) - 1
<1>1. \A u \in Threads \ {t} : pc'[u] = pc[u]
  BY DEF KeepsLocks, OthersStay
<1>2. CASE pc[t] = "idle" /\ pc'[t] /= "idle"
  <2>1. BusySet' = BusySet \cup {t} /\ t \notin BusySet
    BY <1>1, <1>2 DEF BusySet
  <2>2. QED
    BY <1>2, <2>1, BusyFinite, FS_AddElement
<1>3. CASE pc[t] /= "idle" /\ pc'[t] /= "idle"
  BY <1>1, <1>3 DEF BusySet
<1>4. CASE pc[t] /= "idle" /\ pc'[t] = "idle"
  <2>1. BusySet' = BusySet \ {t} /\ t \in BusySet
    BY <1>1, <1>4 DEF BusySet
  <2>2. QED
    BY <1>4, <2>1, BusyFinite, FS_RemoveElement
<1>5. QED
  BY <1>2, <1>3, <1>4

(* Begin changes neither money nor locks.                                  *)
LEMMA BeginKeeps ==
  ASSUME LocksInv, MoneyInv, NEW t \in Threads, NEW c \in Calls, Begin(t, c)
  PROVE  LocksInv' /\ MoneyInv'
<1>1. /\ exists' = exists /\ balance' = balance /\ opening' = opening
      /\ entries' = entries /\ funding' = funding /\ audit' = audit
  BY DEF Begin, ledgerVars
<1>2. KeepsLocks(t)
  BY BeginLocks
<1>3. pc[t] = "idle" /\ pc'[t] \in {"lock", "create"} /\ call'[t] = c
  BY DEF Begin, LocksInv, LockPart
<1>4. LocksInv'
  BY <1>1, <1>2 DEF LocksInv, LedgerPart, AuditPart, KeepsLocks
<1>5. NothingSettles
  BY <1>1, <1>2, <1>3, NothingSettled DEF NothingSettles
<1>6. SettledTotal' /\ AuditSum'
  BY <1>1, <1>5, SumsKept
<1>7. \A u \in Threads : Covered(u)'
  <2>1. Covered(t)'
    BY <1>3 DEF Begin, Covered
  <2>2. QED
    BY <1>2, <1>5, <2>1, AllCovered
<1>8. RoomPart'
  <2>1. Len(entries) + Cardinality(BusySet) < MaxEntries
    BY DEF Begin, RoomForCall, BusySet
  <2>2. Cardinality(BusySet') = Cardinality(BusySet) + 1
    BY <1>2, <1>3, BusyChanges
  <2>3. Len(entries) \in Nat
    BY DEF LocksInv, LedgerPart
  <2>4. QED
    BY <1>1, <2>1, <2>2, <2>3, BusyFinite, MaxEntriesAssumption DEF RoomPart
<1>9. UnopenedEmpty'
  BY <1>1 DEF MoneyInv, UnopenedEmpty
<1>10. QED
  BY <1>4, <1>6, <1>7, <1>8, <1>9 DEF MoneyInv

(* A goroutine that stays busy and settles nothing.                        *)
LEMMA QuietStepKeeps ==
  ASSUME LocksInv, MoneyInv, NEW t \in Threads, KeepsLocks(t),
         LedgerPart', UnopenedEmpty', NothingSettles,
         pc[t] /= "idle", pc'[t] /= "idle", Covered(t)',
         exists \subseteq exists', opening' = opening, entries' = entries,
         audit' = audit
  PROVE  LocksInv' /\ MoneyInv'
<1>1. LocksInv'
  BY DEF LocksInv, AuditPart, KeepsLocks
<1>2. SettledTotal' /\ AuditSum'
  BY SumsKept
<1>3. \A u \in Threads : Covered(u)'
  BY AllCovered
<1>4. BusySet' = BusySet
  BY BusyChanges
<1>5. RoomPart'
  BY <1>4 DEF MoneyInv, RoomPart
<1>6. QED
  BY <1>1, <1>2, <1>3, <1>5 DEF MoneyInv

(* An account created for a call starts empty.                             *)
LEMMA CreateMissingEffect ==
  ASSUME LocksInv, MoneyInv, NEW t \in Threads, NEW a \in Accounts,
         CreateMissing(t, a)
  PROVE  /\ exists' = exists \cup {a}
         /\ balance' = balance
         /\ opening' = opening
<1>1. CASE a \in exists
  <2>1. exists' = exists /\ balance' = balance /\ opening' = opening
    BY <1>1 DEF CreateMissing, CreateAccount
  <2>2. QED
    BY <1>1, <2>1
<1>2. CASE a \notin exists
  <2>1. /\ exists' = exists \cup {a}
        /\ balance' = [balance EXCEPT ![OnlineAvailable(a)] = 0]
        /\ opening' = [opening EXCEPT ![a] = 0]
    BY <1>2 DEF CreateMissing, CreateAccount
  <2>2. balance \in [Buckets -> Int] /\ opening \in [Accounts -> Int]
    BY DEF LocksInv, LedgerPart
  <2>3. balance[OnlineAvailable(a)] = 0 /\ opening[a] = 0
    BY <1>2, BucketsOfAccount DEF MoneyInv, UnopenedEmpty
  <2>4. QED
    BY <2>1, <2>2, <2>3
<1>3. QED
  BY <1>1, <1>2

LEMMA CreateMissingKeeps ==
  ASSUME LocksInv, MoneyInv, NEW t \in Threads, NEW a \in Accounts,
         CreateMissing(t, a)
  PROVE  LocksInv' /\ MoneyInv'
<1>1. /\ exists' = exists \cup {a} /\ balance' = balance
      /\ opening' = opening
  BY CreateMissingEffect
<1>2. /\ entries' = entries /\ funding' = funding /\ audit' = audit
      /\ call' = call
  BY DEF CreateMissing, CreateAccount
<1>3. KeepsLocks(t)
  BY CreateMissingLocks
<1>4. pc[t] = "create" /\ pc'[t] \in {"lock", "create"}
  BY DEF CreateMissing, LocksInv, LockPart
<1>5. LedgerPart'
  BY <1>1, <1>2 DEF LocksInv, LedgerPart
<1>6. UnopenedEmpty'
  BY <1>1 DEF MoneyInv, UnopenedEmpty
<1>7. NothingSettles
  BY <1>1, <1>3, <1>4, NothingSettled DEF NothingSettles
<1>8. Covered(t)'
  BY <1>2, <1>4 DEF MoneyInv, Covered
<1>9. QED
  BY <1>1, <1>2, <1>3, <1>4, <1>5, <1>6, <1>7, <1>8, QuietStepKeeps

(* Taking a mutex.                                                         *)
LEMMA LockKeeps ==
  ASSUME LocksInv, MoneyInv, NEW t \in Threads, Lock(t)
  PROVE  LocksInv' /\ MoneyInv'
<1>1. /\ exists' = exists /\ balance' = balance /\ opening' = opening
      /\ entries' = entries /\ funding' = funding /\ audit' = audit
      /\ call' = call
  BY DEF Lock, ledgerVars
<1>2. KeepsLocks(t)
  BY LockLocks
<1>3. pc[t] = "lock" /\ pc'[t] \in {"lock", "check"}
  BY DEF Lock, LocksInv, LockPart
<1>4. LedgerPart' /\ UnopenedEmpty'
  BY <1>1 DEF LocksInv, LedgerPart, MoneyInv, UnopenedEmpty
<1>5. NothingSettles
  BY <1>1, <1>2, <1>3, NothingSettled DEF NothingSettles
<1>6. Covered(t)'
  BY <1>1, <1>3 DEF MoneyInv, Covered
<1>7. QED
  BY <1>1, <1>2, <1>3, <1>4, <1>5, <1>6, QuietStepKeeps

(* The balance check: refused, or covered from now on.                     *)
LEMMA CheckKeeps ==
  ASSUME LocksInv, MoneyInv, NEW t \in Threads, Check(t)
  PROVE  LocksInv' /\ MoneyInv'
<1>1. /\ exists' = exists /\ balance' = balance /\ opening' = opening
      /\ entries' = entries /\ funding' = funding /\ audit' = audit
      /\ pc[t] = "check"
  BY DEF Check, ledgerVars
<1>2. LedgerPart' /\ UnopenedEmpty'
  BY <1>1 DEF LocksInv, LedgerPart, MoneyInv, UnopenedEmpty
<1>3. CASE Sufficient(call[t])
  <2>1. /\ pc' = [pc EXCEPT ![t] = "debit"]
        /\ call' = call /\ locked' = locked /\ owner' = owner
    BY <1>3 DEF Check
  <2>2. KeepsLocks(t)
    BY <1>1, <2>1, AdvanceLocks
  <2>3. pc'[t] = "debit"
    BY <2>1 DEF LocksInv, LockPart
  <2>4. NothingSettles
    BY <1>1, <2>2, <2>3, NothingSettled DEF NothingSettles
  <2>5. Covered(t)'
    <3> DEFINE b == Source(call[t])
    <3>1. call[t] \in Calls /\ b \in Buckets /\ call[t].Amount \in Int
      BY <1>1, BusyHasCall, SourceAndTarget, CallParts
    <3>2. settledBalance'[b] = settledBalance[b]
      BY <2>4, <3>1, SettledKept
    <3>3. call[t].Op \notin DeficitOps => balance[b] >= call[t].Amount
      BY <1>3 DEF Sufficient
    <3>4. /\ InFlight(b) = 0 /\ balance[b] \in Int
          /\ settledBalance[b] = balance[b] + InFlight(b)
      BY <1>1, <3>1, HoldsItsBuckets, SettledParts DEF InFlight
    <3> HIDE DEF settledBalance
    <3>5. call[t].Op \notin DeficitOps =>
            settledBalance'[b] >= call[t].Amount
      BY <3>1, <3>2, <3>3, <3>4
    <3>6. QED
      BY <1>1, <2>1, <2>3, <3>5 DEF MoneyInv, Covered
  <2>6. QED
    BY <1>1, <1>2, <2>1, <2>2, <2>3, <2>4, <2>5, QuietStepKeeps
<1>4. CASE ~Sufficient(call[t])
  <2>1. Return(t)
    BY <1>4 DEF Check
  <2>2. KeepsLocks(t)
    BY <1>1, <2>1, ReturnLocks
  <2>3. pc'[t] = "idle"
    BY <2>1 DEF Return, LocksInv, LockPart
  <2>4. NothingSettles
    BY <1>1, <2>2, <2>3, NothingSettled DEF NothingSettles
  <2>5. LocksInv'
    BY <1>1, <1>2, <2>2 DEF LocksInv, AuditPart, KeepsLocks
  <2>6. \A u \in Threads : Covered(u)'
    <3>1. Covered(t)'
      BY <2>3 DEF Covered
    <3>2. QED
      BY <2>2, <2>4, <3>1, AllCovered
  <2>7. RoomPart'
    <3>1. /\ Cardinality(BusySet') = Cardinality(BusySet) - 1
          /\ Len(entries) \in Nat
      BY <1>1, <2>2, <2>3, BusyChanges DEF LocksInv, LedgerPart
    <3>2. QED
      BY <1>1, <3>1, BusyFinite, MaxEntriesAssumption DEF MoneyInv, RoomPart
  <2>8. SettledTotal' /\ AuditSum'
    BY <1>1, <2>4, SumsKept
  <2>9. QED
    BY <1>2, <2>5, <2>6, <2>7, <2>8 DEF MoneyInv
<1>5. QED
  BY <1>3, <1>4

(* The debit: the payer's account exists.                                  *)
LEMMA DebitKeeps ==
  ASSUME LocksInv, MoneyInv, NEW t \in Threads, Debit(t)
  PROVE  LocksInv' /\ MoneyInv'
<1> DEFINE b == Source(call[t])
<1>1. /\ exists' = exists /\ opening' = opening /\ entries' = entries
      /\ funding' = funding /\ audit' = audit
      /\ call' = call /\ locked' = locked /\ owner' = owner
      /\ pc[t] = "debit" /\ pc' = [pc EXCEPT ![t] = "credit"]
      /\ balance' = [balance EXCEPT ![b] = @ - call[t].Amount]
  BY DEF Debit
<1>2. KeepsLocks(t)
  BY <1>1, AdvanceLocks
<1>3. pc'[t] = "credit"
  BY <1>1 DEF LocksInv, LockPart
<1>4. /\ call[t] \in Calls /\ b \in Buckets /\ call[t].Amount \in Int
      /\ b[1] \in exists
  BY <1>1, BusyHasCall, SourceAndTarget, CallParts DEF LocksInv, Located
<1>5. balance \in [Buckets -> Int]
  BY DEF LocksInv, LedgerPart
<1>6. LedgerPart'
  BY <1>1, <1>4, <1>5 DEF LocksInv, LedgerPart
<1>7. UnopenedEmpty'
  <2>1. \A x \in Buckets : x # b => balance'[x] = balance[x]
    BY <1>1, <1>5
  <2>2. QED
    BY <1>1, <1>4, <2>1 DEF MoneyInv, UnopenedEmpty
<1>8. NothingSettles
  BY <1>2, DebitSettlesNothing DEF NothingSettles
<1>9. Covered(t)'
  <2>1. settledBalance'[b] = settledBalance[b]
    BY <1>4, <1>8, SettledKept
  <2> HIDE DEF settledBalance
  <2>2. QED
    BY <1>1, <1>3, <2>1 DEF MoneyInv, Covered
<1>10. QED
  BY <1>1, <1>2, <1>3, <1>6, <1>7, <1>8, <1>9, QuietStepKeeps

(* The entry a call journals is an entry.                                  *)
LEMMA PostingType ==
  ASSUME NEW c \in Calls
  PROVE  Posting(c) \in LedgerEntry
<1>1. /\ c.AccountID \in Accounts /\ c.DestID \in Accounts
      /\ c.Amount \in Int /\ c.TxID \in TxIDs
      /\ SystemEscrow \in Accounts
  BY CallParts, SystemAccountsAssumption DEF SystemAccounts
<1>2. \A a \in Accounts : /\ Label(a) \in Labels
                          /\ OnlineLabel(a) \in Labels
                          /\ OfflineLabel(a) \in Labels
  BY LabelsOfAccount
<1>3. ASSUME NEW type \in EntryTypes, NEW tx \in TxIDs \cup {GeneratedTxID},
             NEW debit \in Labels, NEW credit \in Labels, NEW n \in Int
      PROVE  NewEntry(type, tx, debit, credit, n) \in LedgerEntry
  BY DEF NewEntry, LedgerEntry
<1>4. {"RESERVE", "RELEASE", "COMMIT", "DEFICIT"} \subseteq EntryTypes
  BY DEF EntryTypes
<1>5. QED
  BY <1>1, <1>2, <1>3, <1>4 DEF Posting

(* The credit: the settled balances move the amount, the sum stays.        *)
LEMMA CreditEffect ==
  ASSUME LocksInv, NEW t \in Threads, Credit(t)
  PROVE  /\ KeepsLocks(t)
         /\ pc[t] = "credit" /\ pc'[t] = "idle"
         /\ call[t] \in Calls
         /\ call[t].Amount \in Int
         /\ Source(call[t]) \in Buckets /\ Target(call[t]) \in Buckets
         /\ \A b \in Buckets :
              /\ settledBalance[b] \in Int
              /\ settledBalance'[b] =
                   settledBalance[b]
                     - (IF b = Source(call[t]) THEN call[t].Amount ELSE 0)
                     + (IF b = Target(call[t]) THEN call[t].Amount ELSE 0)
<1>1. Return(t) /\ exists' = exists /\ pc[t] = "credit"
  BY DEF Credit
<1>2. KeepsLocks(t)
  BY <1>1, ReturnLocks
<1>3. pc'[t] = "idle"
  BY <1>1 DEF Return, LocksInv, LockPart
<1>4. /\ call[t] \in Calls /\ call[t].Amount \in Int
      /\ Source(call[t]) \in Buckets /\ Target(call[t]) \in Buckets
  BY <1>1, BusyHasCall, SourceAndTarget, CallParts
<1>5. ASSUME NEW b \in Buckets
      PROVE  /\ settledBalance[b] \in Int
             /\ settledBalance'[b] =
                  settledBalance[b]
                    - (IF b = Source(call[t]) THEN call[t].Amount ELSE 0)
                    + (IF b = Target(call[t]) THEN call[t].Amount ELSE 0)
  <2>1. settledBalance'[b] = balance'[b] + InFlight(b)'
    BY DEF settledBalance
  <2>2. /\ settledBalance[b] \in Int
        /\ settledBalance[b] = balance[b] + InFlight(b)
        /\ balance[b] \in Int /\ InFlight(b) \in Int
    BY SettledParts
  <2> DEFINE paid == IF b = Source(call[t]) THEN call[t].Amount ELSE 0
             received == IF b = Target(call[t]) THEN call[t].Amount ELSE 0
  <2>3. balance'[b] + InFlight(b)' =
          balance[b] + InFlight(b) - paid + received
    BY <1>2, CreditSettles
  <2>4. paid \in Int /\ received \in Int
    BY <1>4
  <2> HIDE DEF settledBalance, paid, received
  <2>5. settledBalance'[b] = settledBalance[b] - paid + received
    BY <2>1, <2>2, <2>3, <2>4
  <2>6. QED
    BY <2>2, <2>5 DEF paid, received
<1>6. QED
  BY <1>1, <1>2, <1>3, <1>4, <1>5

LEMMA CreditKeeps ==
  ASSUME LocksInv, MoneyInv, NEW t \in Threads, Credit(t)
  PROVE  LocksInv' /\ MoneyInv'
<1> DEFINE from == Source(call[t])
           to == Target(call[t])
           n == call[t].Amount
<1>1. /\ exists' = exists /\ opening' = opening /\ funding' = funding
      /\ audit' = [audit EXCEPT !.crossed = audit.running]
      /\ entries' = Append(entries, Posting(call[t]))
      /\ balance' = [balance EXCEPT ![to] = @ + n]
  BY DEF Credit
<1>2. /\ KeepsLocks(t) /\ pc[t] = "credit" /\ pc'[t] = "idle"
      /\ call[t] \in Calls /\ n \in Int
      /\ from \in Buckets /\ to \in Buckets
      /\ \A b \in Buckets :
           /\ settledBalance[b] \in Int
           /\ settledBalance'[b] = settledBalance[b]
                                     - (IF b = from THEN n ELSE 0)
                                     + (IF b = to THEN n ELSE 0)
  BY CreditEffect
<1>3. to[1] \in exists
  BY <1>2, SourceAndTarget DEF LocksInv, Located
<1>4. balance \in [Buckets -> Int]
  BY DEF LocksInv, LedgerPart
<1>5. LocksInv'
  <2>1. Posting(call[t]) \in LedgerEntry
    BY <1>2, PostingType
  <2>2. LedgerPart'
    BY <1>1, <1>2, <1>4, <2>1 DEF LocksInv, LedgerPart
  <2>3. AuditPart'
    BY <1>1 DEF LocksInv, AuditPart
  <2>4. QED
    BY <1>2, <2>2, <2>3 DEF LocksInv, KeepsLocks
<1>6. UnopenedEmpty'
  <2>1. \A x \in Buckets : x # to => balance'[x] = balance[x]
    BY <1>1, <1>4
  <2>2. QED
    BY <1>1, <1>3, <2>1 DEF MoneyInv, UnopenedEmpty
<1>7. SettledTotal'
  <2>1. SumFunctionOnSet(settledBalance', Buckets) =
          SumFunctionOnSet(settledBalance, Buckets)
            - (IF from \in Buckets THEN n ELSE 0)
            + (IF to \in Buckets THEN n ELSE 0)
    <3> HIDE DEF settledBalance, from, to, n
    <3>1. n \in Int
      BY <1>2
    <3>2. QED
      BY ONLY <1>2, <3>1, BucketsFinite, SumMove
  <2>2. SumFunctionOnSet(settledBalance, Buckets) \in Int
    <3> HIDE DEF settledBalance, from, to, n
    <3>1. QED
      BY <1>2, BucketsFinite, SumType
  <2> HIDE DEF settledBalance, from, to, n
  <2>3. SumFunctionOnSet(settledBalance', Buckets) =
          SumFunctionOnSet(settledBalance, Buckets)
    BY <1>2, <2>1, <2>2
  <2>4. QED
    BY <1>1, <2>3 DEF MoneyInv, SettledTotal
<1>8. AuditSum'
  <2>1. /\ audit'.running = audit.running /\ audit'.read = audit.read
        /\ audit'.crossed = audit.running
    BY <1>1 DEF LocksInv, AuditPart
  <2>2. QED
    BY <1>1, <2>1 DEF MoneyInv, AuditSum
<1>9. \A u \in Threads : Covered(u)'
  <2>1. Covered(t)'
    BY <1>2 DEF Covered
  <2>2. ASSUME NEW u \in Threads \ {t}, pc[u] \in {"debit", "credit"}
        PROVE  settledBalance'[Source(call[u])] =
                 settledBalance[Source(call[u])]
    <3>1. owner[Source(call[u])[1]] = u /\ Source(call[u]) \in Buckets
      BY <2>2, HoldsItsBuckets, SourceAndTarget
    <3>2. owner[from[1]] = t /\ owner[to[1]] = t
      BY <1>2, HoldsItsBuckets
    <3>3. Source(call[u]) # from /\ Source(call[u]) # to
      BY <3>1, <3>2
    <3> HIDE DEF settledBalance, from, to, n
    <3>4. QED
      BY <1>2, <3>1, <3>3
  <2>3. QED
    BY <1>2, <2>1, <2>2, OthersCovered
<1>10. RoomPart'
  <2>1. /\ Cardinality(BusySet') = Cardinality(BusySet) - 1
        /\ Len(entries') = Len(entries) + 1 /\ Len(entries) \in Nat
    BY <1>1, <1>2, BusyChanges, PostingType DEF LocksInv, LedgerPart
  <2>2. QED
    BY <2>1, BusyFinite, MaxEntriesAssumption DEF MoneyInv, RoomPart
<1>11. QED
  BY <1>5, <1>6, <1>7, <1>8, <1>9, <1>10 DEF MoneyInv

(* Opening an account adds its balance to the money on both sides.         *)
LEMMA OpenAccountKeeps ==
  ASSUME LocksInv, MoneyInv, NEW a \in Accounts, NEW n \in OpeningBalances,
         OpenAccount(a, n)
  PROVE  LocksInv' /\ MoneyInv'
<1> DEFINE b == OnlineAvailable(a)
<1>1. /\ ~audit.running /\ a \notin exists
      /\ exists' = exists \cup {a}
      /\ balance' = [balance EXCEPT ![b] = n]
      /\ opening' = [opening EXCEPT ![a] = n]
      /\ entries' = entries /\ funding' = funding
      /\ call' = call /\ pc' = pc /\ locked' = locked /\ owner' = owner
      /\ audit' = audit
  BY DEF OpenAccount, CreateAccount, lockVars
<1>2. n \in Int /\ b \in Buckets /\ b[1] = a
  BY OpeningBalancesAssumption, BucketsOfAccount
<1>3. balance \in [Buckets -> Int] /\ opening \in [Accounts -> Int]
  BY DEF LocksInv, LedgerPart
<1>4. balance[b] = 0 /\ opening[a] = 0
  BY <1>1, <1>2 DEF MoneyInv, UnopenedEmpty
<1>5. /\ \A x \in Buckets \ {b} : balance'[x] = balance[x]
      /\ \A x \in Accounts \ {a} : opening'[x] = opening[x]
      /\ balance'[b] = n /\ opening'[a] = n
      /\ \A x \in Accounts : opening[x] \in Int /\ opening'[x] \in Int
  BY <1>1, <1>2, <1>3
<1>6. LocksInv'
  <2>1. LedgerPart'
    BY <1>1, <1>2, <1>3 DEF LocksInv, LedgerPart
  <2>2. LockPart' /\ AuditPart'
    BY <1>1 DEF LocksInv, LockPart, AuditPart
  <2>3. ASSUME NEW u \in Threads
        PROVE  Located(u)' /\ Holds(u)'
    <3>1. Located(u) /\ Holds(u)
      BY DEF LocksInv
    <3>2. Located(u)'
      BY <1>1, <3>1 DEF Located
    <3>3. Holds(u)'
      BY <1>1, <3>1 DEF Holds
    <3>4. QED
      BY <3>2, <3>3
  <2>4. QED
    BY <2>1, <2>2, <2>3 DEF LocksInv
<1>7. UnopenedEmpty'
  <2>1. ASSUME NEW x \in Buckets, x[1] \notin exists'
        PROVE  balance'[x] = 0
    BY <1>1, <1>2, <1>5, <2>1 DEF MoneyInv, UnopenedEmpty
  <2>2. ASSUME NEW x \in Accounts, x \notin exists'
        PROVE  opening'[x] = 0
    BY <1>1, <1>5, <2>2 DEF MoneyInv, UnopenedEmpty
  <2>3. QED
    BY <2>1, <2>2 DEF UnopenedEmpty
<1>8. /\ settledBalance[b] = 0 /\ settledBalance'[b] = n
      /\ \A x \in Buckets \ {b} : settledBalance[x] = settledBalance'[x]
      /\ \A x \in Buckets : settledBalance[x] \in Int
  <2>1. \A x \in Buckets : InFlight(x)' = InFlight(x)
    BY <1>1 DEF InFlight
  <2>2. InFlight(b) = 0
    <3>1. SUFFICES ASSUME owner[a] /= NoThread, pc[owner[a]] = "credit",
                          Source(call[owner[a]]) = b
                   PROVE  FALSE
      BY <1>2 DEF InFlight
    <3>2. owner[a] \in Threads
      BY <3>1 DEF LocksInv, LockPart
    <3>3. call[owner[a]].AccountID = a
      BY <1>2, <3>1, <3>2, BusyHasCall, SourceAndTarget
    <3>4. QED
      BY <1>1, <3>1, <3>2, <3>3 DEF LocksInv, Located
  <2>3. \A x \in Buckets : settledBalance'[x] = balance'[x] + InFlight(x)'
    BY DEF settledBalance
  <2>4. \A x \in Buckets : /\ settledBalance[x] = balance[x] + InFlight(x)
                           /\ settledBalance[x] \in Int
    BY SettledParts
  <2> HIDE DEF settledBalance
  <2>5. QED
    BY <1>2, <1>4, <1>5, <2>1, <2>2, <2>3, <2>4
<1>9. SettledTotal'
  <2> HIDE DEF settledBalance, b
  <2>1. \A x \in Buckets : /\ settledBalance[x] \in Int
                           /\ settledBalance'[x] \in Int
    BY <1>2, <1>8
  <2>2. SumFunctionOnSet(settledBalance', Buckets) =
          SumFunctionOnSet(settledBalance, Buckets)
            - settledBalance[b] + settledBalance'[b]
    BY ONLY <1>2, <1>8, <2>1, BucketsFinite, SumUpdate
  <2>3. SumFunctionOnSet(opening', Accounts) =
          SumFunctionOnSet(opening, Accounts) - opening[a] + opening'[a]
    <3>1. \A x \in Accounts \ {a} : opening[x] = opening'[x]
      BY <1>5
    <3>2. \A x \in Accounts : opening[x] \in Int /\ opening'[x] \in Int
      BY <1>5
    <3>3. QED
      BY ONLY a \in Accounts, <3>1, <3>2, AccountsAssumption, SumUpdate
  <2>4. QED
    BY <1>4, <1>5, <1>8, <2>2, <2>3 DEF MoneyInv, SettledTotal
<1>10. AuditSum'
  BY <1>1 DEF AuditSum
<1>11. \A u \in Threads : Covered(u)'
  <2>1. SUFFICES ASSUME NEW u \in Threads PROVE Covered(u)'
    OBVIOUS
  <2>2. Covered(u)
    BY DEF MoneyInv
  <2>3. ASSUME pc[u] \in {"debit", "credit"}
        PROVE  settledBalance'[Source(call[u])] =
                 settledBalance[Source(call[u])]
    <3>1. /\ Source(call[u]) \in Buckets
          /\ Source(call[u])[1] \in exists
      BY <2>3, BusyHasCall, SourceAndTarget DEF LocksInv, Located
    <3>2. Source(call[u]) # b
      BY <1>1, <1>2, <3>1
    <3> HIDE DEF settledBalance, b
    <3>3. QED
      BY <1>8, <3>1, <3>2
  <2> HIDE DEF settledBalance
  <2>4. QED
    BY <1>1, <2>2, <2>3 DEF Covered
<1>12. RoomPart'
  BY <1>1 DEF MoneyInv, RoomPart, BusySet
<1>13. QED
  BY <1>6, <1>7, <1>9, <1>10, <1>11, <1>12 DEF MoneyInv

-----------------------------------------------------------------------------
(* The audit.                                                              *)

(* A step of the audit leaves everything else as it is.                    *)
LEMMA AuditStepKeeps ==
  ASSUME LocksInv, MoneyInv,
         UNCHANGED <<ledgerVars, call, pc, locked, owner>>,
         AuditPart', AuditSum'
  PROVE  LocksInv' /\ MoneyInv'
<1>1. /\ exists' = exists /\ balance' = balance /\ opening' = opening
      /\ entries' = entries /\ funding' = funding
      /\ call' = call /\ pc' = pc /\ locked' = locked /\ owner' = owner
  BY DEF ledgerVars
<1>2. LedgerPart' /\ LockPart'
  BY <1>1 DEF LocksInv, LedgerPart, LockPart
<1>3. \A u \in Threads : Located(u)' /\ Holds(u)'
  BY <1>1 DEF LocksInv, Located, Holds
<1>4. \A b : InFlight(b)' = InFlight(b)
  BY <1>1 DEF InFlight
<1>5. settledBalance' = settledBalance
  BY <1>1, <1>4 DEF settledBalance
<1>6. UnopenedEmpty' /\ SettledTotal' /\ RoomPart'
  <2> HIDE DEF settledBalance
  <2>1. QED
    BY <1>1, <1>5 DEF MoneyInv, UnopenedEmpty, SettledTotal, RoomPart, BusySet
<1>7. \A u \in Threads : Covered(u)'
  <2> HIDE DEF settledBalance
  <2>1. QED
    BY <1>1, <1>5 DEF MoneyInv, Covered
<1>8. QED
  BY <1>2, <1>3, <1>6, <1>7 DEF LocksInv, MoneyInv

(* An audit begins with nothing read.                                      *)
LEMMA AuditBeginKeeps ==
  ASSUME LocksInv, MoneyInv, AuditBegin
  PROVE  LocksInv' /\ MoneyInv'
<1>1. /\ audit' = [running |-> TRUE, read |-> {}, total |-> 0,
                   crossed |-> FALSE]
      /\ UNCHANGED <<ledgerVars, call, pc, locked, owner>>
  BY DEF AuditBegin, NoAudit
<1>2. AuditPart'
  BY <1>1 DEF AuditPart
<1>3. AuditSum'
  <2>1. audit'.read = {} /\ audit'.total = 0
    BY <1>1
  <2>2. BucketsOf(audit'.read) = {}
    BY <2>1 DEF BucketsOf
  <2>3. SumFunctionOnSet(settledBalance', BucketsOf(audit'.read)) = 0
    BY <2>2, SumEmpty
  <2>4. QED
    BY <2>1, <2>3 DEF AuditSum
<1>4. QED
  BY <1>1, <1>2, <1>3, AuditStepKeeps

(* An account whose mutex is free has nothing in flight: the audit adds    *)
(* its three settled balances.                                             *)
LEMMA AuditReadKeeps ==
  ASSUME LocksInv, MoneyInv, NEW a \in Accounts, AuditRead(a)
  PROVE  LocksInv' /\ MoneyInv'
<1> DEFINE on == OnlineAvailable(a)
           off == OfflineAllowance(a)
           held == ReservedBalance(a)
           seen == BucketsOf(audit.read)
           sum == SumFunctionOnSet(settledBalance, seen)
<1>1. /\ audit.running /\ a \in exists /\ a \notin audit.read
      /\ owner[a] = NoThread
      /\ UNCHANGED <<ledgerVars, call, pc, locked, owner>>
      /\ audit' = [audit EXCEPT !.read = @ \cup {a},
                                !.total = @ + balance[on] + balance[off]
                                            + balance[held]]
  BY DEF AuditRead
<1>2. /\ on \in Buckets /\ off \in Buckets /\ held \in Buckets
      /\ on # off /\ on # held /\ off # held
      /\ on[1] = a /\ off[1] = a /\ held[1] = a
  BY BucketsOfAccount
<1>3. balance[on] \in Int /\ balance[off] \in Int /\ balance[held] \in Int
  BY <1>2 DEF LocksInv, LedgerPart
<1>4. /\ audit'.running /\ audit'.read = audit.read \cup {a}
      /\ audit'.crossed = audit.crossed
      /\ audit'.total = audit.total + balance[on] + balance[off]
                                     + balance[held]
      /\ audit.total \in Int
  BY <1>1 DEF LocksInv, AuditPart
<1>5. AuditPart'
  <2> DEFINE total == audit.total + balance[on] + balance[off] + balance[held]
             read == audit.read \cup {a}
  <2>1. total \in Int
    BY <1>3, <1>4
  <2>2. read \in SUBSET Accounts
    BY DEF LocksInv, AuditPart
  <2>3. audit' = [audit EXCEPT !.read = read, !.total = total]
    BY <1>1
  <2> HIDE DEF total, read
  <2>4. QED
    BY <2>1, <2>2, <2>3 DEF LocksInv, AuditPart
<1>6. settledBalance' = settledBalance /\ exists' = exists
  BY <1>1 DEF settledBalance, InFlight, ledgerVars
<1>7. /\ settledBalance[on] = balance[on]
      /\ settledBalance[off] = balance[off]
      /\ settledBalance[held] = balance[held]
  <2>1. InFlight(on) = 0 /\ InFlight(off) = 0 /\ InFlight(held) = 0
    BY <1>1, <1>2 DEF InFlight
  <2>2. QED
    BY <1>2, <1>3, <2>1, SettledParts
<1>8. /\ BucketsOf(audit'.read) = ((seen \cup {on}) \cup {off}) \cup {held}
      /\ on \notin seen /\ off \notin seen \cup {on}
      /\ held \notin (seen \cup {on}) \cup {off}
      /\ seen \subseteq Buckets
  <2>1. ASSUME NEW b \in Buckets, b[1] = a
        PROVE  b \in {on, off, held}
    BY <2>1 DEF Buckets, OnlineAvailable, OfflineAllowance, ReservedBalance
  <2> HIDE DEF on, off, held
  <2>2. QED
    BY <1>1, <1>2, <1>4, <2>1 DEF BucketsOf
<1>9. SumFunctionOnSet(settledBalance, BucketsOf(audit'.read)) =
        sum + balance[on] + balance[off] + balance[held]
  <2>1. \A b \in Buckets : settledBalance[b] \in Int
    BY SettledParts
  <2> HIDE DEF settledBalance, on, off, held, seen
  <2>2. /\ IsFiniteSet(seen) /\ IsFiniteSet(seen \cup {on})
        /\ IsFiniteSet((seen \cup {on}) \cup {off})
    BY <1>2, <1>8, BucketsFinite, FS_Subset, FS_AddElement
  <2>3. SumFunctionOnSet(settledBalance, seen \cup {on}) =
          sum + settledBalance[on]
    BY <1>2, <1>8, <2>1, <2>2, SumAdd
  <2>4. SumFunctionOnSet(settledBalance, (seen \cup {on}) \cup {off}) =
          SumFunctionOnSet(settledBalance, seen \cup {on})
            + settledBalance[off]
    BY <1>2, <1>8, <2>1, <2>2, SumAdd
  <2>5. SumFunctionOnSet(settledBalance,
                         ((seen \cup {on}) \cup {off}) \cup {held}) =
          SumFunctionOnSet(settledBalance, (seen \cup {on}) \cup {off})
            + settledBalance[held]
    BY <1>2, <1>8, <2>1, <2>2, SumAdd
  <2>6. QED
    BY <1>7, <1>8, <2>3, <2>4, <2>5
<1>10. AuditSum'
  <2>1. audit.read \subseteq exists /\ (~audit.crossed => audit.total = sum)
    BY <1>1 DEF MoneyInv, AuditSum
  <2> HIDE DEF settledBalance, on, off, held, sum
  <2>2. QED
    BY <1>1, <1>4, <1>6, <1>9, <2>1 DEF AuditSum
<1>11. QED
  BY <1>1, <1>5, <1>10, AuditStepKeeps

LEMMA AuditEndKeeps ==
  ASSUME LocksInv, MoneyInv, AuditEnd
  PROVE  LocksInv' /\ MoneyInv'
<1>1. audit' = NoAudit /\ UNCHANGED <<ledgerVars, call, pc, locked, owner>>
  BY DEF AuditEnd
<1>2. AuditPart' /\ AuditSum'
  BY <1>1 DEF AuditPart, AuditSum, NoAudit
<1>3. QED
  BY <1>1, <1>2, AuditStepKeeps

-----------------------------------------------------------------------------
(* The invariant holds initially,                                          *)
LEMMA LocksInvInit == LocksInit => LocksInv /\ MoneyInv
<1>1. SUFFICES ASSUME LocksInit PROVE LocksInv /\ MoneyInv
  OBVIOUS
<1>2. /\ balance = [b \in Buckets |-> 0] /\ opening = [a \in Accounts |-> 0]
      /\ exists = SystemAccounts /\ entries = <<>> /\ funding = NoEntry
  BY <1>1 DEF LocksInit, LedgerInit
<1>3. /\ call = [t \in Threads |-> NoCall]
      /\ pc = [t \in Threads |-> "idle"]
      /\ locked = [t \in Threads |-> 0]
      /\ owner = [a \in Accounts |-> NoThread]
      /\ audit = NoAudit
  BY <1>1 DEF LocksInit
<1>4. LedgerPart
  BY <1>2, SystemAccountsAssumption DEF LedgerPart
<1>5. LockPart /\ AuditPart
  BY <1>3 DEF LockPart, AuditPart, NoAudit, Places
<1>6. \A t \in Threads : Located(t) /\ Holds(t)
  BY <1>3, ThreadsAssumption DEF Located, Holds
<1>7. UnopenedEmpty
  BY <1>2 DEF UnopenedEmpty
<1>8. SettledTotal
  <2>1. \A b \in Buckets : InFlight(b) = 0
    BY <1>3 DEF InFlight, Buckets
  <2>2. \A b \in Buckets : settledBalance[b] = 0
    BY <1>2, <2>1 DEF settledBalance
  <2>3. \A a \in Accounts : opening[a] = 0
    BY <1>2
  <2> HIDE DEF settledBalance
  <2>4. SumFunctionOnSet(settledBalance, Buckets) = 0
    BY <2>2, BucketsFinite, SumOfZeros
  <2>5. SumFunctionOnSet(opening, Accounts) = 0
    BY <2>3, AccountsAssumption, SumOfZeros
  <2>6. QED
    BY <2>4, <2>5 DEF SettledTotal
<1>9. AuditSum
  BY <1>3 DEF AuditSum, NoAudit
<1>10. \A t \in Threads : Covered(t)
  BY <1>3 DEF Covered
<1>11. RoomPart
  <2>1. BusySet = {}
    BY <1>3 DEF BusySet
  <2>2. Cardinality(BusySet) = 0 /\ Len(entries) = 0
    BY <1>2, <2>1, FS_EmptySet
  <2>3. QED
    BY <2>2, MaxEntriesAssumption DEF RoomPart
<1>12. QED
  BY <1>4, <1>5, <1>6, <1>7, <1>8, <1>9, <1>10, <1>11 DEF LocksInv, MoneyInv

(* and every step preserves it.                                            *)
LEMMA LocksInvNext ==
  LocksInv /\ MoneyInv /\ [LocksNext]_locksVars => LocksInv' /\ MoneyInv'
<1>1. SUFFICES ASSUME LocksInv, MoneyInv, [LocksNext]_locksVars
               PROVE  LocksInv' /\ MoneyInv'
  OBVIOUS
<1>2. CASE UNCHANGED locksVars
  <2>1. UNCHANGED <<ledgerVars, call, pc, locked, owner>> /\ audit' = audit
    BY <1>2 DEF locksVars, lockVars
  <2>2. settledBalance' = settledBalance /\ exists' = exists
    BY <2>1 DEF settledBalance, InFlight, ledgerVars
  <2> HIDE DEF settledBalance
  <2>3. AuditPart' /\ AuditSum'
    BY <1>1, <2>1, <2>2
       DEF LocksInv, MoneyInv, AuditPart, AuditSum, BucketsOf
  <2>4. QED
    BY <1>1, <2>1, <2>3, AuditStepKeeps
<1>3. ASSUME NEW t \in Threads, NEW c \in Calls, Begin(t, c)
      PROVE  LocksInv' /\ MoneyInv'
  BY <1>1, <1>3, BeginKeeps
<1>4. ASSUME NEW t \in Threads, NEW a \in Accounts, CreateMissing(t, a)
      PROVE  LocksInv' /\ MoneyInv'
  BY <1>1, <1>4, CreateMissingKeeps
<1>5. ASSUME NEW t \in Threads, Lock(t)
      PROVE  LocksInv' /\ MoneyInv'
  BY <1>1, <1>5, LockKeeps
<1>6. ASSUME NEW t \in Threads, Check(t)
      PROVE  LocksInv' /\ MoneyInv'
  BY <1>1, <1>6, CheckKeeps
<1>7. ASSUME NEW t \in Threads, Debit(t)
      PROVE  LocksInv' /\ MoneyInv'
  BY <1>1, <1>7, DebitKeeps
<1>8. ASSUME NEW t \in Threads, Credit(t)
      PROVE  LocksInv' /\ MoneyInv'
  BY <1>1, <1>8, CreditKeeps
<1>9. ASSUME NEW a \in Parties, NEW n \in OpeningBalances, OpenAccount(a, n)
      PROVE  LocksInv' /\ MoneyInv'
  BY <1>1, <1>9, PartiesAssumption, OpenAccountKeeps
<1>10. CASE AuditBegin
  BY <1>1, <1>10, AuditBeginKeeps
<1>11. ASSUME NEW a \in Accounts, AuditRead(a)
       PROVE  LocksInv' /\ MoneyInv'
  BY <1>1, <1>11, AuditReadKeeps
<1>12. CASE AuditEnd
  BY <1>1, <1>12, AuditEndKeeps
<1>13. QED
  BY <1>1, <1>2, <1>3, <1>4, <1>5, <1>6, <1>7, <1>8, <1>9, <1>10, <1>11,
     <1>12 DEF LocksNext, ThreadStep

-----------------------------------------------------------------------------
(* No circle without a descending deficit: of the goroutines that wait,    *)
(* the one that waits for the last account in the order of ids is not      *)
(* waiting for any of them.                                                *)
LEMMA NoCircle ==
  ASSUME LocksInv, NEW S \in SUBSET Threads, Circle(S)
  PROVE  \E t \in S : Descends(call[t])
<1>0. SUFFICES ASSUME \A t \in S : ~Descends(call[t]) PROVE FALSE
  OBVIOUS
<1>1. ASSUME NEW t \in S
      PROVE  /\ call[t] \in Calls
             /\ locked[t] \in Nat /\ locked[t] < Len(LockOrder(call[t]))
             /\ Len(LockOrder(call[t])) \in Nat
             /\ NextLock(t) \in Accounts
             /\ Rank[NextLock(t)] \in 0..MaxRank
  <2>1. t \in Threads /\ pc[t] = "lock"
    BY DEF Circle, Blocked
  <2>2. call[t] \in Calls
    BY <2>1, BusyHasCall
  <2>3. /\ locked[t] \in Nat /\ locked[t] < Len(LockOrder(call[t]))
        /\ Len(LockOrder(call[t])) \in Nat
    BY <2>1, <2>2, LockOrderParts DEF LocksInv, Located, LockPart
  <2>4. LockOrder(call[t])[locked[t] + 1] \in Accounts
    BY <2>2, <2>3, LockOrderParts
  <2>5. QED
    BY <2>2, <2>3, <2>4, RankAssumption DEF NextLock
<1> DEFINE Distance(t) == MaxRank - Rank[NextLock(t)]
           F == {Distance(t) : t \in S}
<1>2. F \in SUBSET Nat /\ F # {}
  BY <1>1, RankAssumption DEF Circle
<1>3. PICK m \in F : \A x \in F : m <= x
  BY <1>2, NatLeastElement
<1>4. PICK t \in S : m = Distance(t)
  BY <1>3
<1>5. PICK u \in S : owner[NextLock(t)] = u
  BY DEF Circle
<1>6. PICK i \in 1..locked[u] : LockOrder(call[u])[i] = NextLock(t)
  BY <1>1, <1>5 DEF LocksInv, Holds
<1>7. Rank[NextLock(t)] < Rank[NextLock(u)]
  <2> DEFINE j == locked[u] + 1
  <2>1. /\ call[u] \in Calls
        /\ i \in 1..Len(LockOrder(call[u])) /\ j \in 1..Len(LockOrder(call[u]))
        /\ i < j
    BY <1>1, <1>6
  <2>2. NextLock(u) = LockOrder(call[u])[j]
    BY DEF NextLock
  <2> HIDE DEF j
  <2>3. QED
    BY <1>0, <1>6, <2>1, <2>2, LockOrderAscends
<1>8. m <= Distance(u)
  BY <1>3
<1>9. QED
  BY <1>1, <1>4, <1>7, <1>8, RankAssumption

(* The locks have their types and are held by the calls that took them.    *)
LEMMA LocksWellTyped ==
  ASSUME LocksInv
  PROVE  LocksTypeOK
<1>1. ASSUME NEW t \in Threads, pc[t] /= "idle"
      PROVE  {a \in Accounts : owner[a] = t} =
               {LockOrder(call[t])[i] : i \in 1..locked[t]}
  <2>1. call[t] \in Calls /\ Holds(t) /\ Located(t)
    BY <1>1, BusyHasCall DEF LocksInv
  <2>2. \A i \in 1..locked[t] : LockOrder(call[t])[i] \in Accounts
    <3>1. /\ locked[t] \in 0..2 /\ locked[t] <= Len(LockOrder(call[t]))
          /\ Len(LockOrder(call[t])) \in Nat
      BY <2>1, LockOrderParts DEF LocksInv, LockPart, Located, Places
    <3>2. QED
      BY <2>1, <3>1, LockOrderParts
  <2>3. QED
    BY <2>1, <2>2 DEF Holds
<1>2. \A t \in Threads : pc[t] = "idle" <=> call[t] = NoCall
  BY DEF LocksInv, Located
<1>3. QED
  BY <1>1, <1>2 DEF LocksInv, LockPart, AuditPart, LocksTypeOK, Places

(***************************************************************************)
(* For any number of goroutines, accounts and calls, deficits in either    *)
(* direction and from an account to itself included: mutexes are held by   *)
(* the calls that took them, and no goroutines wait for each other in a    *)
(* circle unless one of them posts a deficit against the order of ids.     *)
(***************************************************************************)
THEOREM DeadlockNeedsDeficit == LocksSpec => []OnlyDeficitsDeadlock
<1>1. LocksInv => OnlyDeficitsDeadlock
  BY LocksWellTyped, NoCircle DEF OnlyDeficitsDeadlock
<1>2. QED
  BY <1>1, LocksInvInit, LocksInvNext, PTL DEF LocksSpec

(***************************************************************************)
(* An audit during which no call takes effect adds up to what the accounts *)
(* were opened with, whatever calls were half-way through.                 *)
(***************************************************************************)
THEOREM QuietAudit == LocksSpec => []QuietAuditIsExact
<1>1. LocksInv /\ MoneyInv => QuietAuditIsExact
  <2>1. SUFFICES ASSUME LocksInv, MoneyInv, AuditDone, ~audit.crossed
                 PROVE  audit.total = SumFunction(opening)
    BY DEF QuietAuditIsExact
  <2> DEFINE seen == BucketsOf(audit.read)
  <2>2. audit.running /\ audit.read = exists
    BY <2>1 DEF AuditDone
  <2>3. audit.total = SumFunctionOnSet(settledBalance, seen)
    BY <2>1, <2>2 DEF MoneyInv, AuditSum
  <2>4. \A b \in Buckets \ seen : settledBalance[b] = 0
    <3>1. SUFFICES ASSUME NEW b \in Buckets, b[1] \notin exists
                   PROVE  settledBalance[b] = 0
      BY <2>2 DEF BucketsOf
    <3>2. balance[b] = 0
      BY <2>1, <3>1 DEF MoneyInv, UnopenedEmpty
    <3>3. InFlight(b) = 0
      <4>1. SUFFICES ASSUME owner[b[1]] /= NoThread,
                            pc[owner[b[1]]] = "credit",
                            Source(call[owner[b[1]]]) = b
                     PROVE  FALSE
        BY DEF InFlight
      <4>2. owner[b[1]] \in Threads
        BY <2>1, <4>1 DEF LocksInv, LockPart, Buckets
      <4>3. call[owner[b[1]]].AccountID = b[1]
        BY <2>1, <4>1, <4>2, BusyHasCall, SourceAndTarget
      <4>4. QED
        BY <2>1, <3>1, <4>1, <4>2, <4>3 DEF LocksInv, Located
    <3>4. QED
      BY <2>1, <3>2, <3>3, SettledParts
  <2>5. seen \in SUBSET Buckets /\ \A b \in Buckets : settledBalance[b] \in Int
    BY <2>1, SettledParts DEF BucketsOf
  <2> HIDE DEF settledBalance, seen
  <2>6. SumFunctionOnSet(settledBalance, seen) =
          SumFunctionOnSet(settledBalance, Buckets)
    BY <2>4, <2>5, BucketsFinite, SumOutsideZero
  <2>7. SumFunction(opening) = SumFunctionOnSet(opening, Accounts)
    <3>1. DOMAIN opening = Accounts
      BY <2>1 DEF LocksInv, LedgerPart
    <3>2. QED
      BY <3>1 DEF SumFunction
  <2>8. QED
    BY <2>1, <2>3, <2>6, <2>7 DEF MoneyInv, SettledTotal
<1>2. QED
  BY <1>1, LocksInvInit, LocksInvNext, PTL DEF LocksSpec

-----------------------------------------------------------------------------
(* The refinement: the settled balances take the steps of the atomic       *)
(* ledger.                                                                 *)

Stutters == UNCHANGED <<exists, settledBalance, reservations, entries,
                        funding, opening>>

(* The settled balances are integers.                                      *)
LEMMA SettledType ==
  ASSUME LocksInv
  PROVE  settledBalance \in [Buckets -> Int]
<1>1. \A b \in Buckets : balance[b] + InFlight(b) \in Int
  BY SettledParts DEF settledBalance
<1>2. QED
  BY <1>1 DEF settledBalance

(* A step that settles nothing stutters.                                   *)
LEMMA QuietStepStutters ==
  ASSUME LocksInv, NothingSettles,
         UNCHANGED <<exists, reservations, entries, funding, opening>>
  PROVE  Stutters
<1>1. settledBalance' = settledBalance
  BY DEF settledBalance, NothingSettles
<1>2. QED
  BY <1>1 DEF Stutters

(* Begin, Lock, Check and Debit do.                                        *)
LEMMA UnseenSteps ==
  ASSUME LocksInv, MoneyInv, NEW t \in Threads,
         \/ \E c \in Calls : Begin(t, c)
         \/ Lock(t)
         \/ Check(t)
         \/ Debit(t)
  PROVE  Stutters
<1>1. UNCHANGED <<exists, reservations, entries, funding, opening>>
  BY DEF Begin, Lock, Check, Debit, ledgerVars
<1>2. CASE \E c \in Calls : Begin(t, c)
  <2>1. PICK c \in Calls : Begin(t, c)
    BY <1>2
  <2>2. /\ balance' = balance /\ pc[t] = "idle"
        /\ pc'[t] \in {"lock", "create"}
    BY <2>1 DEF Begin, ledgerVars, LocksInv, LockPart
  <2>3. KeepsLocks(t)
    BY <2>1, BeginLocks
  <2>4. NothingSettles
    BY <2>2, <2>3, NothingSettled DEF NothingSettles
  <2>5. QED
    BY <1>1, <2>4, QuietStepStutters
<1>3. CASE Lock(t)
  <2>1. /\ balance' = balance /\ pc[t] = "lock"
        /\ pc'[t] \in {"lock", "check"}
    BY <1>3 DEF Lock, ledgerVars, LocksInv, LockPart
  <2>2. KeepsLocks(t)
    BY <1>3, LockLocks
  <2>3. NothingSettles
    BY <2>1, <2>2, NothingSettled DEF NothingSettles
  <2>4. QED
    BY <1>1, <2>3, QuietStepStutters
<1>4. CASE Check(t)
  <2>1. balance' = balance /\ pc[t] = "check" /\ exists' = exists
    BY <1>4 DEF Check, ledgerVars
  <2>2. KeepsLocks(t) /\ pc'[t] /= "credit"
    <3>1. CASE Sufficient(call[t])
      <4>1. /\ pc' = [pc EXCEPT ![t] = "debit"]
            /\ call' = call /\ locked' = locked /\ owner' = owner
        BY <1>4, <3>1 DEF Check
      <4>2. QED
        BY <2>1, <4>1, AdvanceLocks DEF LocksInv, LockPart
    <3>2. CASE ~Sufficient(call[t])
      <4>1. Return(t)
        BY <1>4, <3>2 DEF Check
      <4>2. pc'[t] = "idle"
        BY <4>1 DEF Return, LocksInv, LockPart
      <4>3. QED
        BY <2>1, <4>1, <4>2, ReturnLocks
    <3>3. QED
      BY <3>1, <3>2
  <2>3. NothingSettles
    BY <2>1, <2>2, NothingSettled DEF NothingSettles
  <2>4. QED
    BY <1>1, <2>3, QuietStepStutters
<1>5. CASE Debit(t)
  <2>1. KeepsLocks(t)
    <3>1. /\ pc[t] = "debit" /\ pc' = [pc EXCEPT ![t] = "credit"]
          /\ exists' = exists /\ call' = call /\ locked' = locked
          /\ owner' = owner
      BY <1>5 DEF Debit
    <3>2. QED
      BY <3>1, AdvanceLocks
  <2>2. NothingSettles
    BY <1>5, <2>1, DebitSettlesNothing DEF NothingSettles
  <2>3. QED
    BY <1>1, <2>2, QuietStepStutters
<1>6. QED
  BY <1>2, <1>3, <1>4, <1>5

(* The steps of the audit do.                                              *)
LEMMA AuditStutters ==
  ASSUME UNCHANGED <<ledgerVars, call, pc, locked, owner>>
  PROVE  Stutters
BY DEF Stutters, settledBalance, InFlight, ledgerVars

(* An account is opened in one step on both levels.                        *)
LEMMA OpeningIsAtomic ==
  ASSUME LocksInv, MoneyInv, NEW a \in Accounts, NEW n \in Int,
         a \notin exists, CreateAccount(a, n),
         UNCHANGED <<call, owner>>,
         \A b \in Buckets : InFlight(b)' = InFlight(b)
  PROVE  Atomic!CreateAccount(a, n)
<1> DEFINE x == OnlineAvailable(a)
<1>1. /\ exists' = exists \cup {a}
      /\ balance' = [balance EXCEPT ![x] = n]
      /\ opening' = [opening EXCEPT ![a] = n]
      /\ UNCHANGED <<reservations, entries, funding>>
  BY DEF CreateAccount
<1>2. x \in Buckets /\ x[1] = a /\ balance \in [Buckets -> Int]
  BY BucketsOfAccount DEF LocksInv, LedgerPart
<1>3. InFlight(x) = 0
  <2>1. SUFFICES ASSUME owner[a] /= NoThread, pc[owner[a]] = "credit",
                        Source(call[owner[a]]) = x
                 PROVE  FALSE
    BY <1>2 DEF InFlight
  <2>2. owner[a] \in Threads
    BY <2>1 DEF LocksInv, LockPart
  <2>3. call[owner[a]].AccountID = a
    BY <1>2, <2>1, <2>2, BusyHasCall, SourceAndTarget
  <2>4. QED
    BY <2>1, <2>2, <2>3 DEF LocksInv, Located
<1>4. settledBalance' = [settledBalance EXCEPT ![x] = n]
  <2>1. \A b \in Buckets : balance'[b] + InFlight(b)' =
                             IF b = x THEN n ELSE settledBalance[b]
    <3>1. \A b \in Buckets : balance'[b] = IF b = x THEN n ELSE balance[b]
      BY <1>1, <1>2
    <3>2. \A b \in Buckets : settledBalance[b] = balance[b] + InFlight(b)
      BY DEF settledBalance
    <3> HIDE DEF settledBalance, x
    <3>3. QED
      BY <1>3, <3>1, <3>2
  <2>2. settledBalance' = [b \in Buckets |-> balance'[b] + InFlight(b)']
    BY DEF settledBalance
  <2>3. settledBalance \in [Buckets -> Int]
    BY SettledType
  <2> HIDE DEF settledBalance, x
  <2>4. QED
    BY <1>2, <2>1, <2>2, <2>3
<1> HIDE DEF settledBalance
<1>5. QED
  BY <1>1, <1>4 DEF Atomic!CreateAccount, Atomic!OnlineAvailable,
                    OnlineAvailable

(* The credit moves the whole amount, and there is room to journal it.     *)
LEMMA CreditMoves ==
  ASSUME LocksInv, MoneyInv, NEW t \in Threads, Credit(t)
  PROVE  /\ Atomic!Move(Source(call[t]), Target(call[t]), call[t].Amount)
         /\ Atomic!Room
<1> DEFINE from == Source(call[t])
           to == Target(call[t])
           n == call[t].Amount
<1>1. /\ pc[t] = "credit" /\ n \in Int
      /\ from \in Buckets /\ to \in Buckets
      /\ \A b \in Buckets :
           settledBalance'[b] = settledBalance[b]
                                  - (IF b = from THEN n ELSE 0)
                                  + (IF b = to THEN n ELSE 0)
  BY CreditEffect
<1>2. settledBalance \in [Buckets -> Int]
  BY SettledType
<1>3. settledBalance' = [b \in Buckets |-> settledBalance'[b]]
  BY DEF settledBalance
<1>4. Atomic!Move(from, to, n)
  <2> HIDE DEF settledBalance, from, to, n
  <2>1. settledBalance' = [b \in Buckets |->
                             settledBalance[b] - (IF b = from THEN n ELSE 0)
                                               + (IF b = to THEN n ELSE 0)]
    BY <1>1, <1>3
  <2>2. QED
    BY <2>1 DEF Atomic!Move, Atomic!Buckets, Buckets
<1>5. Atomic!Room
  <2>1. funding = NoEntry /\ Len(entries) \in Nat
    BY DEF LocksInv, LedgerPart
  <2>2. Cardinality(BusySet) > 0
    <3>1. t \in BusySet
      BY <1>1 DEF BusySet
    <3>2. BusySet # {}
      BY <3>1
    <3>3. Cardinality(BusySet) # 0
      BY <3>2, BusyFinite, FS_EmptySet
    <3>4. QED
      BY <3>3, BusyFinite
  <2>3. Len(entries) < MaxEntries
    BY <2>1, <2>2, BusyFinite, MaxEntriesAssumption DEF MoneyInv, RoomPart
  <2>4. QED
    BY <2>1, <2>3 DEF Atomic!Room, Atomic!NoEntry, NoEntry
<1>6. QED
  BY <1>4, <1>5

(* A deficit that reaches the credit has two different accounts: the lock  *)
(* on the second one was free.                                             *)
LEMMA DeficitAccountsDiffer ==
  ASSUME LocksInv, NEW t \in Threads, pc[t] = "credit",
         call[t].Op \in DeficitOps
  PROVE  call[t].AccountID # call[t].DestID
<1>1. /\ locked[t] = Len(LockOrder(call[t]))
      /\ \A i, j \in 1..locked[t] :
           LockOrder(call[t])[i] = LockOrder(call[t])[j] => i = j
  BY DEF LocksInv, Located, Holds
<1>2. LockOrder(call[t]) = <<call[t].AccountID, call[t].DestID>>
  BY DEF LockOrder, SingleAccountOps, DeficitOps, OrderedOps
<1>3. locked[t] = 2
  BY <1>1, <1>2
<1>4. 1 \in 1..2 /\ 2 \in 1..2 /\ 1 # 2
  OBVIOUS
<1>5. LockOrder(call[t])[1] # LockOrder(call[t])[2]
  BY <1>1, <1>3, <1>4
<1>6. QED
  BY <1>2, <1>5

(* What the credit of a call does to the atomic ledger, and what the       *)
(* atomic operation asks.                                                  *)
LEMMA CreditFacts ==
  ASSUME LocksInv, MoneyInv, NEW t \in Threads, Credit(t), NEW c,
         c = call[t]
  PROVE  /\ c \in Calls
         /\ c.AccountID \in exists /\ c.DestID \in exists
         /\ c.Op \notin {"ReleaseHold", "RecordDeficit"} => c.Amount > 0
         /\ c.Op \notin DeficitOps => settledBalance[Source(c)] >= c.Amount
         /\ c.Op \in DeficitOps => c.AccountID # c.DestID
         /\ settledBalance[Source(c)] \in Int
         /\ Atomic!Move(Source(c), Target(c), c.Amount)
         /\ Atomic!Room
         /\ entries' = Append(entries, Posting(c))
         /\ exists' = exists /\ funding' = funding /\ opening' = opening
         /\ c.Op # "ReserveFunds" => reservations' = reservations
         /\ c.Op = "ReserveFunds" =>
              reservations' = Append(reservations,
                                     [AccountID |-> c.AccountID,
                                      Amount |-> c.Amount])
<1>1. pc[t] = "credit" /\ c \in Calls
  BY CreditEffect
<1>2. c.AccountID \in exists /\ c.DestID \in exists
  BY <1>1 DEF LocksInv, Located
<1>3. /\ c.Op \notin {"ReleaseHold", "RecordDeficit"} => c.Amount > 0
      /\ c.Op \notin DeficitOps => settledBalance[Source(c)] >= c.Amount
  <2> HIDE DEF settledBalance
  <2>1. QED
    BY <1>1 DEF MoneyInv, Covered
<1>4. c.Op \in DeficitOps => c.AccountID # c.DestID
  BY <1>1, DeficitAccountsDiffer
<1>5. settledBalance[Source(c)] \in Int
  BY <1>1, SourceAndTarget, SettledParts
<1>6. Atomic!Move(Source(c), Target(c), c.Amount) /\ Atomic!Room
  BY CreditMoves
<1>7. /\ entries' = Append(entries, Posting(c))
      /\ exists' = exists /\ funding' = funding /\ opening' = opening
      /\ c.Op # "ReserveFunds" => reservations' = reservations
      /\ c.Op = "ReserveFunds" =>
           reservations' = Append(reservations,
                                  [AccountID |-> c.AccountID,
                                   Amount |-> c.Amount])
  BY DEF Credit
<1>8. QED
  BY <1>1, <1>2, <1>3, <1>4, <1>5, <1>6, <1>7

(* The atomic operation that the credit of call c is.                      *)
AtomicCall(c) ==
  LET a == c.AccountID  d == c.DestID  n == c.Amount  tx == c.TxID
  IN  \/ /\ c.Op = "AllocateOfflineAllowance"
         /\ Atomic!AllocateOfflineAllowance(a, n, "nil")
      \/ c.Op = "ReserveFunds" /\ Atomic!ReserveFunds(a, n, tx, "nil")
      \/ c.Op = "ReleaseHold" /\ Atomic!ReleaseHold(a, n, tx, "nil")
      \/ /\ c.Op = "CommitOfflineAllowance"
         /\ Atomic!CommitOfflineAllowance(a, d, n, tx, "nil")
      \/ c.Op = "CommitHold" /\ Atomic!CommitHold(a, d, n, tx, "nil")
      \/ c.Op = "DirectCommit" /\ Atomic!DirectCommit(a, d, n, tx, "nil")
      \/ c.Op = "RecordDeficit" /\ Atomic!RecordDeficit(a, d, n, tx)
      \/ /\ c.Op = "DebitDeficitReserve"
         /\ Atomic!DebitDeficitReserve(d, n, tx, "nil")

LEMMA CreditIsAtomic ==
  ASSUME LocksInv, MoneyInv, NEW t \in Threads, Credit(t)
  PROVE  AtomicCall(call[t])
<1>1. PICK c : c = call[t]
  OBVIOUS
<1> DEFINE a == c.AccountID
           d == c.DestID
           n == c.Amount
           tx == c.TxID
<1>2. /\ a \in exists /\ d \in exists
      /\ c.Op \notin {"ReleaseHold", "RecordDeficit"} => n > 0
      /\ c.Op \notin DeficitOps => settledBalance[Source(c)] >= n
      /\ c.Op \in DeficitOps => a # d
      /\ settledBalance[Source(c)] \in Int
      /\ Atomic!Move(Source(c), Target(c), n)
      /\ Atomic!Room
      /\ entries' = Append(entries, Posting(c))
      /\ exists' = exists /\ funding' = funding /\ opening' = opening
      /\ c.Op # "ReserveFunds" => reservations' = reservations
      /\ c.Op = "ReserveFunds" =>
           reservations' = Append(reservations,
                                  [AccountID |-> a, Amount |-> n])
  BY <1>1, CreditFacts
<1>3. c \in Calls
  BY <1>1, CreditFacts
<1>4. /\ c.Op \in SingleAccountOps \cup OrderedOps \cup DeficitOps
      /\ n \in Int
      /\ c.Op = "DebitDeficitReserve" => a = DeficitReserve
      /\ c.Op \in SingleAccountOps => d = a
  BY <1>3, CallParts
<1> HIDE DEF settledBalance
<1>5. ASSUME c.Op \notin DeficitOps, c.Op # "ReleaseHold", NEW shortfall
      PROVE  Atomic!DebitError(a, Source(c), n, shortfall) = "nil"
  <2>1. n > 0 /\ settledBalance[Source(c)] >= n
    BY <1>2, <1>5 DEF DeficitOps
  <2>2. ~(n <= 0) /\ ~(settledBalance[Source(c)] < n)
    BY <1>2, <1>4, <2>1
  <2>3. QED
    BY <1>2, <2>2 DEF Atomic!DebitError
<1>6. ASSUME NEW debit, NEW type, NEW id, NEW credit,
             Posting(c) = NewEntry(type, id, debit, credit, n)
      PROVE  Atomic!appendEntry(type, id, debit, credit, n)
  BY <1>2, <1>6 DEF Atomic!appendEntry, Atomic!NewEntry, NewEntry
<1>7. exists' = exists \cup {d} /\ exists' = exists \cup {a, d}
  BY <1>2
<1>8. CASE c.Op = "AllocateOfflineAllowance"
  <2>1. /\ Source(c) = OnlineAvailable(a) /\ Target(c) = OfflineAllowance(a)
        /\ Posting(c) = NewEntry("RESERVE", GeneratedTxID, OnlineLabel(a),
                                 OfflineLabel(a), n)
    BY <1>8 DEF Source, Target, Posting
  <2>2. /\ Atomic!DebitError(a, Source(c), n, "ErrInsufficientFunds") = "nil"
        /\ Atomic!appendEntry("RESERVE", GeneratedTxID, OnlineLabel(a),
                              OfflineLabel(a), n)
    BY <1>5, <1>6, <1>8, <2>1 DEF DeficitOps
  <2>3. Atomic!AllocateOfflineAllowance(a, n, "nil")
    BY <1>2, <1>8, <2>1, <2>2
       DEF Atomic!AllocateOfflineAllowance, Atomic!OnlineAvailable,
           Atomic!OfflineAllowance, Atomic!OnlineLabel, Atomic!OfflineLabel,
           OnlineAvailable, OfflineAllowance, OnlineLabel, OfflineLabel
  <2>4. QED
    BY <1>1, <1>8, <2>3 DEF AtomicCall
<1>9. CASE c.Op = "ReserveFunds"
  <2>1. /\ Source(c) = OnlineAvailable(a) /\ Target(c) = ReservedBalance(a)
        /\ Posting(c) = NewEntry("RESERVE", tx, Label(a),
                                 Label(SystemEscrow), n)
    BY <1>9 DEF Source, Target, Posting
  <2>2. /\ Atomic!DebitError(a, Source(c), n, "ErrInsufficientFunds") = "nil"
        /\ Atomic!appendEntry("RESERVE", tx, Label(a), Label(SystemEscrow), n)
    BY <1>5, <1>6, <1>9, <2>1 DEF DeficitOps
  <2>3. Atomic!ReserveFunds(a, n, tx, "nil")
    BY <1>2, <1>9, <2>1, <2>2
       DEF Atomic!ReserveFunds, Atomic!OnlineAvailable,
           Atomic!ReservedBalance, Atomic!Label, OnlineAvailable,
           ReservedBalance, Label
  <2>4. QED
    BY <1>1, <1>9, <2>3 DEF AtomicCall
<1>10. CASE c.Op = "ReleaseHold"
  <2>1. /\ Source(c) = ReservedBalance(a) /\ Target(c) = OnlineAvailable(d)
        /\ Posting(c) = NewEntry("RELEASE", tx, Label(SystemEscrow),
                                 Label(a), n)
    BY <1>10 DEF Source, Target, Posting
  <2>2. Atomic!appendEntry("RELEASE", tx, Label(SystemEscrow), Label(a), n)
    BY <1>6, <2>1
  <2>3. d = a /\ ~(settledBalance[Source(c)] < n)
    BY <1>2, <1>4, <1>10 DEF DeficitOps, SingleAccountOps
  <2>4. Atomic!ReleaseHold(a, n, tx, "nil")
    BY <1>2, <1>10, <2>1, <2>2, <2>3
       DEF Atomic!ReleaseHold, Atomic!OnlineAvailable,
           Atomic!ReservedBalance, Atomic!Label, OnlineAvailable,
           ReservedBalance, Label
  <2>5. QED
    BY <1>1, <1>10, <2>4 DEF AtomicCall
<1>11. CASE c.Op = "CommitOfflineAllowance"
  <2>1. /\ Source(c) = OfflineAllowance(a) /\ Target(c) = OnlineAvailable(d)
        /\ Posting(c) = NewEntry("COMMIT", tx, OfflineLabel(a), Label(d), n)
    BY <1>11 DEF Source, Target, Posting
  <2>2. /\ Atomic!DebitError(a, Source(c), n, "ErrInsufficientFunds") = "nil"
        /\ Atomic!appendEntry("COMMIT", tx, OfflineLabel(a), Label(d), n)
    BY <1>5, <1>6, <1>11, <2>1 DEF DeficitOps
  <2>3. Atomic!CommitOfflineAllowance(a, d, n, tx, "nil")
    BY <1>2, <1>7, <1>11, <2>1, <2>2
       DEF Atomic!CommitOfflineAllowance, Atomic!Settle,
           Atomic!OnlineAvailable, Atomic!OfflineAllowance, Atomic!Label,
           Atomic!OfflineLabel, OnlineAvailable, OfflineAllowance, Label,
           OfflineLabel
  <2>4. QED
    BY <1>1, <1>11, <2>3 DEF AtomicCall
<1>12. CASE c.Op = "CommitHold"
  <2>1. /\ Source(c) = ReservedBalance(a) /\ Target(c) = OnlineAvailable(d)
        /\ Posting(c) = NewEntry("COMMIT", tx, Label(SystemEscrow),
                                 Label(d), n)
    BY <1>12 DEF Source, Target, Posting
  <2>2. /\ Atomic!DebitError(a, Source(c), n, "ErrHoldMismatch") = "nil"
        /\ Atomic!appendEntry("COMMIT", tx, Label(SystemEscrow), Label(d), n)
    BY <1>5, <1>6, <1>12, <2>1 DEF DeficitOps
  <2>3. Atomic!CommitHold(a, d, n, tx, "nil")
    BY <1>2, <1>7, <1>12, <2>1, <2>2
       DEF Atomic!CommitHold, Atomic!Settle, Atomic!OnlineAvailable,
           Atomic!ReservedBalance, Atomic!Label, OnlineAvailable,
           ReservedBalance, Label
  <2>4. QED
    BY <1>1, <1>12, <2>3 DEF AtomicCall
<1>13. CASE c.Op = "DirectCommit"
  <2>1. /\ Source(c) = OnlineAvailable(a) /\ Target(c) = OnlineAvailable(d)
        /\ Posting(c) = NewEntry("COMMIT", tx, Label(a), Label(d), n)
    BY <1>13 DEF Source, Target, Posting
  <2>2. /\ Atomic!DebitError(a, Source(c), n, "ErrInsufficientFunds") = "nil"
        /\ Atomic!appendEntry("COMMIT", tx, Label(a), Label(d), n)
    BY <1>5, <1>6, <1>13, <2>1 DEF DeficitOps
  <2>3. Atomic!DirectCommit(a, d, n, tx, "nil")
    BY <1>2, <1>7, <1>13, <2>1, <2>2
       DEF Atomic!DirectCommit, Atomic!Settle, Atomic!OnlineAvailable,
           Atomic!Label, OnlineAvailable, Label
  <2>4. QED
    BY <1>1, <1>13, <2>3 DEF AtomicCall
<1>14. CASE c.Op \in DeficitOps
  <2>1. /\ Source(c) = OnlineAvailable(a) /\ Target(c) = OnlineAvailable(d)
        /\ Posting(c) = NewEntry("DEFICIT", tx, Label(a), Label(d), n)
    BY <1>14 DEF Source, Target, Posting, DeficitOps
  <2>2. Atomic!appendEntry("DEFICIT", tx, Label(a), Label(d), n)
    BY <1>6, <2>1
  <2>3. Atomic!PostDeficit(a, d, n, tx)
    BY <1>2, <1>7, <1>14, <2>1, <2>2
       DEF Atomic!PostDeficit, Atomic!OnlineAvailable, Atomic!Label,
           OnlineAvailable, Label, DeficitOps
  <2>4. CASE c.Op = "RecordDeficit"
    BY <1>1, <2>3, <2>4 DEF AtomicCall, Atomic!RecordDeficit
  <2>5. CASE c.Op = "DebitDeficitReserve"
    <3>1. ~(n <= 0) /\ a = DeficitReserve
      BY <1>2, <1>4, <2>5
    <3>2. Atomic!DebitDeficitReserve(d, n, tx, "nil")
      BY <2>3, <3>1 DEF Atomic!DebitDeficitReserve
    <3>3. QED
      BY <1>1, <2>5, <3>2 DEF AtomicCall
  <2>6. QED
    BY <1>14, <2>4, <2>5 DEF DeficitOps
<1>15. QED
  BY <1>4, <1>8, <1>9, <1>10, <1>11, <1>12, <1>13, <1>14
     DEF SingleAccountOps, OrderedOps

(* An atomic operation is a step of the atomic ledger.                     *)
LEMMA AtomicCallIsStep ==
  ASSUME NEW c \in Calls, AtomicCall(c)
  PROVE  Atomic!LedgerNext
<1> DEFINE a == c.AccountID
           d == c.DestID
           n == c.Amount
           tx == c.TxID
<1>1. /\ d \in Parties /\ n \in Amounts /\ tx \in TxIDs
      /\ c.Op # "DebitDeficitReserve" => a \in Parties
  BY CallParts
<1>2. "nil" \in Atomic!LedgerErrors
  BY DEF Atomic!LedgerErrors
<1>3. CASE c.Op = "DebitDeficitReserve"
  <2>1. Atomic!DebitDeficitReserve(d, n, tx, "nil")
    BY <1>3 DEF AtomicCall
  <2>2. QED
    BY <1>1, <1>2, <2>1 DEF Atomic!LedgerNext
<1>4. CASE c.Op # "DebitDeficitReserve"
  <2>1. \/ Atomic!AllocateOfflineAllowance(a, n, "nil")
        \/ Atomic!ReserveFunds(a, n, tx, "nil")
        \/ Atomic!ReleaseHold(a, n, tx, "nil")
        \/ Atomic!CommitOfflineAllowance(a, d, n, tx, "nil")
        \/ Atomic!CommitHold(a, d, n, tx, "nil")
        \/ Atomic!DirectCommit(a, d, n, tx, "nil")
        \/ Atomic!RecordDeficit(a, d, n, tx)
    BY <1>4 DEF AtomicCall
  <2>2. a \in Parties
    BY <1>1, <1>4
  <2> HIDE DEF a, d, n, tx
  <2>3. QED
    BY <1>1, <1>2, <2>1, <2>2 DEF Atomic!LedgerNext
<1>5. QED
  BY <1>3, <1>4

(* Creating a missing account for a call is CreateAccount(id, 0) of the    *)
(* atomic ledger; the deficit reserve is never missing.                    *)
LEMMA CreateMissingRefines ==
  ASSUME 0 \in OpeningBalances, LocksInv, MoneyInv, NEW t \in Threads,
         NEW a \in Accounts, CreateMissing(t, a)
  PROVE  Atomic!LedgerNext \/ Stutters
<1>1. /\ pc[t] = "create" /\ pc'[t] \in {"lock", "create"}
      /\ a \in {call[t].AccountID, call[t].DestID}
      /\ CreateAccount(a, 0)
      /\ call' = call /\ owner' = owner
  BY DEF CreateMissing, LocksInv, LockPart
<1>2. balance' = balance /\ opening' = opening
  BY CreateMissingEffect
<1>3. \A b \in Buckets : InFlight(b)' = InFlight(b)
  BY <1>1, CreateMissingLocks, NothingSettled
<1>4. CASE a \in exists
  <2>1. UNCHANGED <<exists, reservations, entries, funding, opening>>
    BY <1>1, <1>4 DEF CreateAccount
  <2>2. NothingSettles
    BY <1>2, <1>3 DEF NothingSettles
  <2>3. QED
    BY <2>1, <2>2, QuietStepStutters
<1>5. CASE a \notin exists
  <2>1. Atomic!CreateAccount(a, 0)
    BY <1>1, <1>3, <1>5, OpeningIsAtomic
  <2>2. a \in Parties
    <3>1. DeficitReserve \in exists
      BY DEF LocksInv, LedgerPart, SystemAccounts
    <3>2. call[t] \in Calls
      BY <1>1, BusyHasCall
    <3>3. QED
      BY <1>1, <1>5, <3>1, <3>2, CallParts
  <2>3. QED
    BY <2>1, <2>2 DEF Atomic!LedgerNext
<1>6. QED
  BY <1>4, <1>5

(* Every step is a step of the atomic ledger or changes nothing it sees.   *)
LEMMA StepRefines ==
  ASSUME 0 \in OpeningBalances, LocksInv, MoneyInv, [LocksNext]_locksVars
  PROVE  Atomic!LedgerNext \/ Stutters
<1>1. CASE UNCHANGED locksVars
  <2>1. UNCHANGED <<ledgerVars, call, pc, locked, owner>>
    BY <1>1 DEF locksVars, lockVars
  <2>2. QED
    BY <2>1, AuditStutters
<1>2. ASSUME NEW t \in Threads,
             \/ \E c \in Calls : Begin(t, c)
             \/ Lock(t)
             \/ Check(t)
             \/ Debit(t)
      PROVE  Stutters
  BY <1>2, UnseenSteps
<1>3. ASSUME NEW t \in Threads, NEW a \in Accounts, CreateMissing(t, a)
      PROVE  Atomic!LedgerNext \/ Stutters
  BY <1>3, CreateMissingRefines
<1>4. ASSUME NEW t \in Threads, Credit(t)
      PROVE  Atomic!LedgerNext
  <2>1. call[t] \in Calls /\ AtomicCall(call[t])
    BY <1>4, CreditEffect, CreditIsAtomic
  <2>2. QED
    BY <2>1, AtomicCallIsStep
<1>5. ASSUME NEW a \in Parties, NEW n \in OpeningBalances, OpenAccount(a, n)
      PROVE  Atomic!LedgerNext
  <2>1. /\ a \notin exists /\ CreateAccount(a, n)
        /\ call' = call /\ pc' = pc /\ owner' = owner
    BY <1>5 DEF OpenAccount, lockVars
  <2>2. \A b \in Buckets : InFlight(b)' = InFlight(b)
    BY <2>1 DEF InFlight
  <2>3. a \in Accounts /\ n \in Int
    BY PartiesAssumption, OpeningBalancesAssumption
  <2>4. Atomic!CreateAccount(a, n)
    BY <2>1, <2>2, <2>3, OpeningIsAtomic
  <2>5. QED
    BY <2>4 DEF Atomic!LedgerNext
<1>6. ASSUME \/ AuditBegin
             \/ \E a \in Accounts : AuditRead(a)
             \/ AuditEnd
      PROVE  Stutters
  <2>1. UNCHANGED <<ledgerVars, call, pc, locked, owner>>
    BY <1>6 DEF AuditBegin, AuditRead, AuditEnd
  <2>2. QED
    BY <2>1, AuditStutters
<1>7. QED
  BY <1>1, <1>2, <1>3, <1>4, <1>5, <1>6 DEF LocksNext, ThreadStep

(***************************************************************************)
(* Linearizability, for any number of goroutines, accounts and calls: the  *)
(* goroutines that take the mutexes one by one implement the atomic ledger.*)
(* CreateAccount(id, 0) for a missing payee must be among the openings.    *)
(***************************************************************************)
THEOREM Linearizable ==
  ASSUME 0 \in OpeningBalances
  PROVE  LocksSpec => LocksImplementLedger
<1>1. LocksInit => Atomic!LedgerInit
  <2>1. SUFFICES ASSUME LocksInit PROVE Atomic!LedgerInit
    OBVIOUS
  <2>2. LedgerInit /\ owner = [a \in Accounts |-> NoThread]
    BY <2>1 DEF LocksInit
  <2>3. \A b \in Buckets : InFlight(b) = 0
    BY <2>2 DEF InFlight, Buckets
  <2>4. settledBalance = [b \in Buckets |-> 0]
    BY <2>2, <2>3 DEF settledBalance, LedgerInit
  <2> HIDE DEF settledBalance
  <2>5. QED
    BY <2>2, <2>4 DEF LedgerInit, Atomic!LedgerInit, Atomic!Buckets, Buckets,
                      Atomic!SystemAccounts, SystemAccounts, Atomic!NoEntry,
                      NoEntry
<1>2. LocksInv /\ MoneyInv /\ [LocksNext]_locksVars
        => [Atomic!LedgerNext]_(Atomic!ledgerVars)
  <2>1. Stutters => UNCHANGED Atomic!ledgerVars
    BY DEF Stutters, Atomic!ledgerVars
  <2>2. QED
    BY <2>1, StepRefines
<1>3. QED
  BY <1>1, <1>2, LocksInvInit, LocksInvNext, PTL
     DEF LocksSpec, LocksImplementLedger, Atomic!LedgerSpec

=============================================================================
