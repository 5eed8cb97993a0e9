----------------------------- MODULE Standalone -----------------------------
(***************************************************************************)
(* The all-in-one program, fs2601_all_in_one.go: a second, self-contained  *)
(* implementation of the payment system with a ledger, a log, a replay and *)
(* a gateway of its own.  It differs from the packages under internal/     *)
(* where it is hardest: payments are settled without a hold, the log has   *)
(* no recovery and no final status, the replay has no mutex, no memory of  *)
(* what it has settled, and locks accounts in the order of its arguments.  *)
(*                                                                         *)
(* Every HTTP request, a payment or a network switch, is a goroutine; one  *)
(* step is what it does between two looks at state that others change.     *)
(* The verdict of the fraud screen is free (FraudEngine models the         *)
(* engine); the revocation filter is the set of ids it answers TRUE for.   *)
(* AvailableBalance, which copies OnlineAvailable, is left out.            *)
(***************************************************************************)
EXTENDS Integers, Sequences, FiniteSets, FiniteSetsExt, Functions

CONSTANTS
  Accounts,                \* the ids that payments name
  Opened,                  \* the accounts main opens
  AccountDeficitReserve,
  Rank,                    \* the order of the ids as strings
  OpeningOnline,           \* what setup leaves in OnlineAvailable
  OpeningAllowance,        \*                 and in OfflineAllowance
  TxIDs,
  Payment,                 \* the payload of every transaction
  Requests,                \* the payment requests
  Toggles,                 \* the requests that switch the network
  Revoked,                 \* the ids the cuckoo filter contains
  MaxSingleOfflineLimit,
  Nobody

Handlers == Requests \cup Toggles

ASSUME OpenedAssumption ==
  Opened \subseteq Accounts /\ AccountDeficitReserve \in Opened
ASSUME RankAssumption ==
  /\ Rank \in [Accounts -> Nat]
  /\ \A a, b \in Accounts : Rank[a] = Rank[b] => a = b
ASSUME OpeningAssumption ==
  OpeningOnline \in [Opened -> Nat] /\ OpeningAllowance \in [Opened -> Nat]
(* The amount is not checked anywhere: it may be 0, or negative.           *)
ASSUME PaymentAssumption ==
  Payment \in [TxIDs -> [AccountID : Accounts, MerchantID : Accounts,
                         Amount : Int]]
ASSUME HandlersAssumption ==
  Requests \cap Toggles = {} /\ Nobody \notin Handlers
ASSUME FiniteAssumption ==
  /\ IsFiniteSet(Opened) /\ IsFiniteSet(TxIDs)
  /\ IsFiniteSet(Requests) /\ IsFiniteSet(Toggles)

VARIABLES
  network,      \* g.network
  online,       \* OnlineAvailable of every open account
  allowance,    \* OfflineAllowance
  total,        \* TotalBalance
  holder,       \* who holds the account's mutex
  journalled,   \* credits less debits of the account in l.entries
  order,        \* w.order
  pc,           \* where each handler is
  txOf,         \* the transaction each payment request submits
  resp,         \* the answer of each payment
  batch,        \* what each replay has yet to settle
  owed,         \* the split of the payment a replay is at
  settled       \* history: how often each handler credited a transaction

accountVars == <<online, allowance, total, holder, journalled>>
vars == <<network, accountVars, order, pc, txOf, resp, batch, owed,
          settled>>

Networks == {"ONLINE", "DISCONNECTED", "RECONNECTED"}

Steps == {"new", "append", "screen", "lock", "settle", "pending", "reserve",
          "journal", "done", "panicked"}

Answers == {"none", "APPROVED", "OFFLINE_AUTHORIZED", "DECLINED"}

NoTx == "none"

NoSplit == [charge |-> 0, deficit |-> 0]

StandaloneInit ==
  /\ network = "ONLINE"
  /\ online = OpeningOnline
  /\ allowance = OpeningAllowance
  /\ total = [a \in Opened |-> OpeningOnline[a] + OpeningAllowance[a]]
  /\ holder = [a \in Opened |-> Nobody]
  /\ journalled = [a \in Opened |-> 0]
  /\ order = <<>>
  /\ pc = [h \in Handlers |-> "new"]
  /\ txOf = [r \in Requests |-> NoTx]
  /\ resp = [r \in Requests |-> "none"]
  /\ batch = [t \in Toggles |-> <<>>]
  /\ owed = [t \in Toggles |-> NoSplit]
  /\ settled = [h \in Handlers |-> [tx \in TxIDs |-> 0]]

-----------------------------------------------------------------------------
GoTo(h, step) == pc' = [pc EXCEPT ![h] = step]

Answer(r, status) ==
  /\ resp' = [resp EXCEPT ![r] = status]
  /\ GoTo(r, "done")

(* ProcessPayment reads the network once.  A payment over the limit or of  *)
(* a revoked account is declined, but only offline.  A client may submit a *)
(* transaction more than once.                                             *)
Route(r, tx) ==
  LET p == Payment[tx]
  IN  /\ pc[r] = "new"
      /\ txOf' = [txOf EXCEPT ![r] = tx]
      /\ IF network /= "DISCONNECTED" THEN GoTo(r, "screen") /\ UNCHANGED resp
         ELSE IF p.AccountID \in Revoked \/ p.Amount > MaxSingleOfflineLimit
         THEN Answer(r, "DECLINED")
         ELSE GoTo(r, "append") /\ UNCHANGED resp
      /\ UNCHANGED <<network, accountVars, order, batch, owed, settled>>

(* LocalWAL.Append.  A failed write keeps the payment out of the order; it *)
(* is answered as authorized all the same.  The same transaction may be    *)
(* listed twice.                                                           *)
AppendPayment(r, written) ==
  /\ pc[r] = "append"
  /\ order' = IF written THEN Append(order, txOf[r]) ELSE order
  /\ Answer(r, "OFFLINE_AUTHORIZED")
  /\ UNCHANGED <<txOf, network, accountVars, batch, owed, settled>>

(* The fraud screen, and the lookups of DirectCommit.                      *)
Screen(r, approved) ==
  LET p == Payment[txOf[r]]
  IN  /\ pc[r] = "screen"
      /\ IF /\ approved
            /\ {p.AccountID, p.MerchantID} \subseteq Opened
            /\ p.AccountID /= p.MerchantID
         THEN GoTo(r, "lock") /\ UNCHANGED resp
         ELSE Answer(r, "DECLINED")
      /\ UNCHANGED <<txOf, network, accountVars, order, batch, owed, settled>>

-----------------------------------------------------------------------------
(* The transaction a handler is at: its own, or the next of its batch.     *)
CurrentTx(h) == IF h \in Requests THEN txOf[h] ELSE Head(batch[h])

Payer(h) == Payment[CurrentTx(h)].AccountID
Payee(h) == Payment[CurrentTx(h)].MerchantID

(* Mutant: DirectCommit locks the payer first, as the replay does.         *)
FirstLockPayer(h) == Payer(h)

(* DirectCommit takes the smaller id first; CommitOfflineAllowance takes   *)
(* the payer first.                                                        *)
FirstLock(h) ==
  IF h \in Requests /\ Rank[Payer(h)] > Rank[Payee(h)]
  THEN Payee(h) ELSE Payer(h)

SecondLock(h) == IF FirstLock(h) = Payer(h) THEN Payee(h) ELSE Payer(h)

(***************************************************************************)
(* The first mutex.  CommitOfflineAllowance does not check its lookups: an *)
(* unknown payer is a nil pointer, and net/http ends the handler that      *)
(* panics on it.  An unknown payee is met when the payer is locked, and    *)
(* the panic leaves it locked.                                             *)
(***************************************************************************)
Lock(h) ==
  /\ pc[h] = "lock"
  /\ h \in Toggles => batch[h] /= <<>>
  /\ IF FirstLock(h) \notin Opened
     THEN GoTo(h, "panicked") /\ UNCHANGED holder
     ELSE /\ holder[FirstLock(h)] = Nobody
          /\ holder' = [holder EXCEPT ![FirstLock(h)] = h]
          /\ GoTo(h, IF SecondLock(h) \in Opened THEN "settle" ELSE "panicked")
  /\ UNCHANGED <<txOf, network, online, allowance, total, journalled, order,
                 resp, batch, owed, settled>>

Unlock(a) == holder' = [holder EXCEPT ![a] = Nobody]

(* f with n taken from one account, and m added to another.                *)
Transfer(f, from, n, to, m) ==
  [a \in Opened |-> f[a] - (IF a = from THEN n ELSE 0)
                         + (IF a = to THEN m ELSE 0)]

(* DirectCommit with both accounts locked, to its return.                  *)
DirectCommit(r) ==
  LET from == Payer(r)  to == Payee(r)  n == Payment[txOf[r]].Amount
  IN  /\ pc[r] = "settle"
      /\ holder[SecondLock(r)] = Nobody
      /\ IF online[from] < n
         THEN /\ Answer(r, "DECLINED")
              /\ UNCHANGED <<online, total, journalled, settled>>
         ELSE /\ online' = Transfer(online, from, n, to, n)
              /\ total' = Transfer(total, from, n, to, n)
              /\ journalled' = Transfer(journalled, from, n, to, n)
              /\ settled' = [settled EXCEPT ![r][txOf[r]] = @ + 1]
              /\ Answer(r, "APPROVED")
      /\ Unlock(FirstLock(r))
      /\ UNCHANGED <<txOf, network, allowance, order, batch, owed>>

-----------------------------------------------------------------------------
(* The network switch.                                                     *)
Toggle(t, status) ==
  /\ pc[t] = "new"
  /\ network' = status
  /\ GoTo(t, IF status = "RECONNECTED" THEN "pending" ELSE "done")
  /\ UNCHANGED <<txOf, accountVars, order, resp, batch, owed, settled>>

(* A transaction that is listed twice has the sequence number of its last  *)
(* listing in both places.                                                 *)
SeqNo(tx) == Max({i \in DOMAIN order : order[i] = tx})

Sorted(log) ==
  \A i, j \in DOMAIN log : i < j => SeqNo(log[i]) <= SeqNo(log[j])

(* Pending, all of which Replay sorts by sequence number: nothing ever     *)
(* sets the status RECONCILED that would exclude a transaction.            *)
Pending(t) ==
  /\ pc[t] = "pending"
  /\ \E p \in Bijection(DOMAIN order, DOMAIN order) :
       /\ batch' = [batch EXCEPT ![t] = [i \in DOMAIN order |-> order[p[i]]]]
       /\ Sorted(batch'[t])
  /\ GoTo(t, "lock")
  /\ UNCHANGED <<txOf, network, accountVars, order, resp, owed, settled>>

(* Mutant: the allowance is charged in full, whatever is left of it.       *)
SplitWhole(t) == [charge |-> Payment[CurrentTx(t)].Amount, deficit |-> 0]

(* What the allowance pays, and what it leaves to the reserve.             *)
Split(t) ==
  LET n == Payment[CurrentTx(t)].Amount
      charge == Min({n, allowance[Payer(t)]})
  IN  [charge |-> charge, deficit |-> n - charge]

(* CommitOfflineAllowance with both accounts locked, to their unlocking.   *)
(* It waits for ever when payer and payee are the same.                    *)
CommitOfflineAllowance(t) ==
  LET n == Payment[CurrentTx(t)].Amount
  IN  /\ pc[t] = "settle"
      /\ holder[SecondLock(t)] = Nobody
      /\ owed' = [owed EXCEPT ![t] = Split(t)]
      /\ allowance' = [allowance EXCEPT ![Payer(t)] = @ - Split(t).charge]
      /\ online' = [online EXCEPT ![Payee(t)] = @ + n]
      /\ total' = Transfer(total, Payer(t), Split(t).charge, Payee(t), n)
      /\ settled' = [settled EXCEPT ![t][CurrentTx(t)] = @ + 1]
      /\ Unlock(FirstLock(t))
      /\ GoTo(t, IF Split(t).deficit > 0 THEN "reserve" ELSE "journal")
      /\ UNCHANGED <<txOf, network, journalled, order, resp, batch>>

(* Mutant: the reserve's debit is not journalled.                          *)
DebitDeficitReserveUnjournalled(t) ==
  LET a == AccountDeficitReserve  n == owed[t].deficit
  IN  /\ pc[t] = "reserve"
      /\ holder[a] = Nobody
      /\ online' = [online EXCEPT ![a] = @ - n]
      /\ total' = [total EXCEPT ![a] = @ - n]
      /\ GoTo(t, "journal")
      /\ UNCHANGED <<txOf, network, allowance, holder, journalled, order, resp,
                     batch, owed, settled>>

(* DebitDeficitReserve: the accounts of the payment are free again.        *)
DebitDeficitReserve(t) ==
  LET a == AccountDeficitReserve  n == owed[t].deficit
  IN  /\ pc[t] = "reserve"
      /\ holder[a] = Nobody
      /\ online' = [online EXCEPT ![a] = @ - n]
      /\ total' = [total EXCEPT ![a] = @ - n]
      /\ journalled' = [journalled EXCEPT ![a] = @ - n]
      /\ GoTo(t, "journal")
      /\ UNCHANGED <<txOf, network, allowance, holder, order, resp, batch,
                     owed, settled>>

(* The entries of the payment, and on to the next one.                     *)
Journal(t) ==
  /\ pc[t] = "journal"
  /\ journalled' = Transfer(journalled, Payer(t), owed[t].charge,
                            Payee(t), Payment[CurrentTx(t)].Amount)
  /\ batch' = [batch EXCEPT ![t] = Tail(@)]
  /\ owed' = [owed EXCEPT ![t] = NoSplit]
  /\ GoTo(t, "lock")
  /\ UNCHANGED <<txOf, network, online, allowance, total, holder, order, resp,
                 settled>>

ReplayReturns(t) ==
  /\ pc[t] = "lock"
  /\ batch[t] = <<>>
  /\ GoTo(t, "done")
  /\ UNCHANGED <<txOf, network, accountVars, order, resp, batch, owed,
                 settled>>

-----------------------------------------------------------------------------
PaymentStep(r) ==
  \/ \E written \in BOOLEAN : AppendPayment(r, written)
  \/ \E approved \in BOOLEAN : Screen(r, approved)
  \/ Lock(r)
  \/ DirectCommit(r)

ToggleStep(t) ==
  \/ Pending(t)
  \/ Lock(t)
  \/ CommitOfflineAllowance(t)
  \/ DebitDeficitReserve(t)
  \/ Journal(t)
  \/ ReplayReturns(t)

StandaloneNext ==
  \/ \E r \in Requests, tx \in TxIDs : Route(r, tx)
  \/ \E r \in Requests : PaymentStep(r)
  \/ \E t \in Toggles, status \in Networks : Toggle(t, status)
  \/ \E t \in Toggles : ToggleStep(t)

(***************************************************************************)
(* The scheduler runs every goroutine that can run.  Weak fairness is      *)
(* enough for the mutexes: each is taken finitely often, by the handlers   *)
(* that there are.                                                         *)
(***************************************************************************)
StandaloneSpec ==
  /\ StandaloneInit
  /\ [][StandaloneNext]_vars
  /\ \A r \in Requests : WF_vars(PaymentStep(r))
  /\ \A t \in Toggles : WF_vars(ToggleStep(t))

-----------------------------------------------------------------------------
(* Type invariant.                                                         *)
StandaloneTypeOK ==
  /\ network \in Networks
  /\ {online, allowance, total, journalled} \subseteq [Opened -> Int]
  /\ holder \in [Opened -> Handlers \cup {Nobody}]
  /\ order \in Seq(TxIDs)
  /\ pc \in [Handlers -> Steps]
  /\ txOf \in [Requests -> TxIDs \cup {NoTx}]
  /\ resp \in [Requests -> Answers]
  /\ batch \in [Toggles -> Seq(TxIDs)]
  /\ owed \in [Toggles -> [charge : Int, deficit : Nat]]
  /\ settled \in [Handlers -> [TxIDs -> Nat]]

(* How often a transaction is listed.                                      *)
Listings(log, tx) == Cardinality({i \in DOMAIN log : log[i] = tx})

(* A payment settles once, if it is approved; a replay settles what the    *)
(* log lists as often as the log lists it.                                 *)
SettledPerListing ==
  \A tx \in TxIDs :
    /\ \A r \in Requests :
         settled[r][tx] = IF txOf[r] = tx /\ resp[r] = "APPROVED" THEN 1 ELSE 0
    /\ \A t \in Toggles : settled[t][tx] <= Listings(order, tx)

(* What replay t has moved for its current payment and not journalled.     *)
Unjournalled(t, a) ==
  IF pc[t] \notin {"reserve", "journal"} THEN 0
  ELSE (IF a = Payee(t) THEN Payment[CurrentTx(t)].Amount ELSE 0)
         - (IF a = Payer(t) THEN owed[t].charge ELSE 0)

(* The deficit that replay t has yet to charge to the reserve.             *)
DeficitDue(t) == IF pc[t] = "reserve" THEN owed[t].deficit ELSE 0

OpeningTotal == [a \in Opened |-> OpeningOnline[a] + OpeningAllowance[a]]

(***************************************************************************)
(* The books balance at every moment, with any number of replays under     *)
(* way: an account's buckets add up to its total; the total is explained   *)
(* by the journal and by the payments that are between the balances and    *)
(* the journal; and the accounts together hold what they were opened with, *)
(* but for deficits the reserve has yet to pay (the audit of l.504).       *)
(* They balance although payments are settled again: every reconnection    *)
(* settles all that the log lists, once for each time it is listed.        *)
(***************************************************************************)
BooksBalance ==
  /\ StandaloneTypeOK
  /\ SettledPerListing
  /\ \A a \in Opened :
       /\ total[a] = online[a] + allowance[a]
       /\ total[a] = OpeningTotal[a] + journalled[a]
                       + SumFunction([t \in Toggles |-> Unjournalled(t, a)])
  /\ SumFunction(total) =
       SumFunction(OpeningTotal)
         + SumFunction([t \in Toggles |-> DeficitDue(t)])

(* What settling tx takes from account a with no look at its balance: a    *)
(* negative amount is taken from the payee.                                *)
Undercut(tx, a) ==
  IF Payment[tx].MerchantID = a /\ Payment[tx].Amount < 0
  THEN -Payment[tx].Amount ELSE 0

(* What negative payments have taken from a, settled again included.       *)
TakenUnchecked(a) ==
  SumFunction([e \in Handlers \X TxIDs |->
                 settled[e[1]][e[2]] * Undercut(e[2], a)])

(***************************************************************************)
(* "Non-negative customer balance guaranteed" (the self-test, l.1080), in  *)
(* each bucket, for payments and replays that race for one account, as far *)
(* as it goes: no account but the deficit reserve is overdrawn by more     *)
(* than negative payments, whose sign nothing checks, took from it as      *)
(* their payee.                                                            *)
(***************************************************************************)
OverdraftIsUnchecked ==
  \A a \in Opened :
    /\ allowance[a] >= 0
    /\ a /= AccountDeficitReserve => online[a] + TakenUnchecked(a) >= 0

(* A queued payment that CommitOfflineAllowance can block on: its payee is *)
(* unknown, or does not come after the payer.                              *)
Unsafe(tx) ==
  \/ Payment[tx].MerchantID \notin Opened
  \/ Rank[Payment[tx].MerchantID] <= Rank[Payment[tx].AccountID]

InFlight(h) == pc[h] \notin {"new", "done", "panicked"}

(***************************************************************************)
(* Every request is answered, and every replay returns, whatever payments  *)
(* are settled online meanwhile, as long as no unsafe payment has been     *)
(* queued: for the others, the lock order of DirectCommit agrees with the  *)
(* replay's.  (There are finitely many handlers: if each one returns, a    *)
(* moment comes when none is in flight.)                                   *)
(***************************************************************************)
AnsweredUnlessUnsafe ==
  (\E h \in Handlers : InFlight(h)) ~>
    (\/ \A h \in Handlers : ~InFlight(h)
     \/ \E i \in DOMAIN order : Unsafe(order[i]))

=============================================================================
