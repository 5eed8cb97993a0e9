----------------------------- MODULE Reconciler -----------------------------
(***************************************************************************)
(* The replay of queued offline payments onto the core ledger,             *)
(* internal/reconcile/m6_engine.go, together with the two components it    *)
(* works on: the ledger and the write-ahead log.                           *)
(*                                                                         *)
(* Replay holds r.mu from beginning to end, so there is one replay at a    *)
(* time; but it takes no lock of the ledger or of the log across two       *)
(* calls, so online payments and offline appends come between any two of   *)
(* its steps.  Each step here is one call of the replay to the ledger,     *)
(* with the bookkeeping that follows it.                                   *)
(*                                                                         *)
(* The order of the batch is ReplayOrder's subject: here the replay takes  *)
(* the queued transactions in any order.  The payload hash stands for the  *)
(* TxID, of which the log's map holds one payload.  The suffixes -USER and *)
(* -RESERVE of journalled transaction ids are left out.                    *)
(***************************************************************************)
EXTENDS Ledger, WALStore

CONSTANTS
  Payment,       \* the payload of every transaction
  QueuedTxIDs,   \* the transactions that are paid offline
  OnlineTxIDs,   \* the transactions that are paid online meanwhile
  Recovered,     \* the transactions that recovery found in the log, in order
  MaxOnline      \* bound on the journal entries of the online payments

(***************************************************************************)
(* Nobody pays themselves offline.  (A deficit of such a payment would     *)
(* block the caller for ever: see LedgerLocks.)  Nobody looks at the sign  *)
(* of an amount before it is queued.                                       *)
(***************************************************************************)
ASSUME PaymentAssumption ==
  \A tx \in TxIDs : /\ Payment[tx].AccountID \in Accounts
                    /\ Payment[tx].MerchantID \in Accounts
                    /\ Payment[tx].AccountID /= Payment[tx].MerchantID
                    /\ Payment[tx].MerchantID /= DeficitReserve
                    /\ Payment[tx].Amount \in Int
ASSUME QueuedTxIDsAssumption == QueuedTxIDs \subseteq TxIDs
ASSUME OnlineTxIDsAssumption == OnlineTxIDs \subseteq TxIDs \ QueuedTxIDs
ASSUME RecoveredAssumption == Recovered \in Seq(QueuedTxIDs)
ASSUME MaxOnlineAssumption == MaxOnline \in Nat

VARIABLES
  useDeficitReserve,  \* r.useDeficitReserve
  seenHashes,         \* r.seenHashes
  deficitLogs,        \* r.deficitLogs
  replayPc,           \* where Replay is; "idle" when r.mu is free
  batch,              \* the transactions the loop has yet to visit
  current,            \* the transaction the loop is at
  accSnapshot,        \* its accSnapshot
  report              \* the counts of the report

replayVars == <<useDeficitReserve, seenHashes, deficitLogs, replayPc, batch,
                current, accSnapshot, report>>
reconVars == <<ledgerVars, walVars, replayVars>>

ReplaySteps == {"idle", "loop", "offline", "online", "covered", "reserve",
                "legacy"}

DeficitRecord ==
  [TxID : TxIDs, AvailableOnCore : Int, DeficitAmount : Int,
   Reason : {"reserve", "overdraft"}]

NewReport(n) == [TotalProcessed |-> n, SuccessfulCount |-> 0,
                 DeficitCount |-> 0, DuplicateCount |-> 0]

NoTx == "none"

ASSUME NoTxAssumption == NoTx \notin TxIDs

NoSnapshot == [OnlineAvailable |-> 0, OfflineAllowance |-> 0]

ReplayInit ==
  /\ useDeficitReserve = TRUE
  /\ seenHashes = {}
  /\ deficitLogs = <<>>
  /\ replayPc = "idle"
  /\ batch = <<>>
  /\ current = NoTx
  /\ accSnapshot = NoSnapshot
  /\ report = NewReport(0)

-----------------------------------------------------------------------------
SetUseDeficitReserve(enabled) ==
  /\ replayPc = "idle"
  /\ useDeficitReserve' = enabled
  /\ UNCHANGED <<seenHashes, deficitLogs, replayPc, batch, current,
                 accSnapshot, report>>
  /\ UNCHANGED <<ledgerVars, walVars>>

ReplayBegin ==
  /\ replayPc = "idle"
  /\ batch' = ReadAllPending
  /\ report' = NewReport(Len(batch'))
  /\ replayPc' = "loop"
  /\ UNCHANGED <<useDeficitReserve, seenHashes, deficitLogs, current,
                 accSnapshot>>
  /\ UNCHANGED <<ledgerVars, walVars>>

(* What the loop does at the end of an iteration: count, set the status,   *)
(* go on.                                                                  *)
Finish(tx, count, status) ==
  /\ report' = [report EXCEPT ![count] = @ + 1]
  /\ UpdateStatus(tx, status)
  /\ replayPc' = "loop"
  /\ current' = NoTx
  /\ accSnapshot' = NoSnapshot

(* Mutant: the loop does not move on from a duplicate.                     *)
ReplayDuplicateStays(i) ==
  /\ replayPc = "loop"
  /\ batch[i] \in seenHashes
  /\ UpdateStatus(batch[i], "DUPLICATE")
  /\ UNCHANGED <<ledgerVars, replayVars>>

ReplayDuplicate(i) ==
  /\ replayPc = "loop"
  /\ batch[i] \in seenHashes
  /\ Finish(batch[i], "DuplicateCount", "DUPLICATE")
  /\ batch' = RemoveAt(batch, i)
  /\ UNCHANGED <<useDeficitReserve, seenHashes, deficitLogs>>
  /\ UNCHANGED ledgerVars

(* GetAccount; the buckets of a missing account are 0.                     *)
Snapshot(a) == [OnlineAvailable  |-> balance[OnlineAvailable(a)],
                OfflineAllowance |-> balance[OfflineAllowance(a)]]

(* Mutant: the mode is read the wrong way round.                           *)
DeficitStepInverted == IF useDeficitReserve THEN "legacy" ELSE "covered"

(* Where an iteration goes once the allowance is ruled out.                *)
DeficitStep == IF useDeficitReserve THEN "covered" ELSE "legacy"

AfterOffline(snap, n) ==
  IF snap.OnlineAvailable >= n THEN "online" ELSE DeficitStep

(* Mutant: the hash is not remembered.                                     *)
ReplayTakeForgetful(i) ==
  LET tx == batch[i]
  IN  /\ replayPc = "loop"
      /\ tx \notin seenHashes
      /\ current' = tx
      /\ batch' = RemoveAt(batch, i)
      /\ accSnapshot' = Snapshot(Payment[tx].AccountID)
      /\ replayPc' = IF accSnapshot'.OfflineAllowance >= Payment[tx].Amount
                     THEN "offline"
                     ELSE AfterOffline(accSnapshot', Payment[tx].Amount)
      /\ UNCHANGED <<useDeficitReserve, seenHashes, deficitLogs, report>>
      /\ UNCHANGED <<ledgerVars, walVars>>

(* Mutant: the online balance is tried first.                              *)
ReplayTakeOnlineFirst(i) ==
  LET tx == batch[i]
  IN  /\ replayPc = "loop"
      /\ tx \notin seenHashes
      /\ seenHashes' = seenHashes \cup {tx}
      /\ current' = tx
      /\ batch' = RemoveAt(batch, i)
      /\ accSnapshot' = Snapshot(Payment[tx].AccountID)
      /\ replayPc' = AfterOffline(accSnapshot', Payment[tx].Amount)
      /\ UNCHANGED <<useDeficitReserve, deficitLogs, report>>
      /\ UNCHANGED <<ledgerVars, walVars>>

ReplayTake(i) ==
  LET tx == batch[i]
  IN  /\ replayPc = "loop"
      /\ tx \notin seenHashes
      /\ seenHashes' = seenHashes \cup {tx}
      /\ current' = tx
      /\ batch' = RemoveAt(batch, i)
      /\ accSnapshot' = Snapshot(Payment[tx].AccountID)
      /\ replayPc' = IF accSnapshot'.OfflineAllowance >= Payment[tx].Amount
                     THEN "offline"
                     ELSE AfterOffline(accSnapshot', Payment[tx].Amount)
      /\ UNCHANGED <<useDeficitReserve, deficitLogs, report>>
      /\ UNCHANGED <<ledgerVars, walVars>>

(* The rest of an iteration after a commit that may have failed.           *)
FinishOrGoOn(err, next) ==
  /\ IF err = "nil"
     THEN Finish(current, "SuccessfulCount", "RECONCILED")
     ELSE /\ replayPc' = next
          /\ UNCHANGED <<current, accSnapshot, report>>
          /\ UNCHANGED walVars
  /\ UNCHANGED <<useDeficitReserve, seenHashes, deficitLogs, batch>>

ReplayOffline(err) ==
  LET p == Payment[current]
  IN  /\ replayPc = "offline"
      /\ CommitOfflineAllowance(p.AccountID, p.MerchantID, p.Amount, current,
                                err)
      /\ FinishOrGoOn(err, AfterOffline(accSnapshot, p.Amount))

ReplayOnline(err) ==
  LET p == Payment[current]
  IN  /\ replayPc = "online"
      /\ DirectCommit(p.AccountID, p.MerchantID, p.Amount, current, err)
      /\ FinishOrGoOn(err, DeficitStep)

(* The part of the amount that the snapshot covers, and the rest.          *)
CustomerCovered ==
  Min({Payment[current].Amount, Max({0, accSnapshot.OnlineAvailable})})

UncoveredDelta == Payment[current].Amount - CustomerCovered

(* The customer's part; an error is ignored.                               *)
ReplayCovered(err) ==
  LET p == Payment[current]
  IN  /\ replayPc = "covered"
      /\ IF CustomerCovered > 0
         THEN DirectCommit(p.AccountID, p.MerchantID, CustomerCovered,
                           current, err)
         ELSE err = "nil" /\ UNCHANGED ledgerVars
      /\ replayPc' = "reserve"
      /\ UNCHANGED <<useDeficitReserve, seenHashes, deficitLogs, batch,
                     current, accSnapshot, report>>
      /\ UNCHANGED walVars

(* An iteration that ends in a deficit record.                             *)
FinishDeficit(n, reason) ==
  /\ deficitLogs' = Append(deficitLogs,
                           [TxID            |-> current,
                            AvailableOnCore |-> accSnapshot.OnlineAvailable,
                            DeficitAmount   |-> n,
                            Reason          |-> reason])
  /\ Finish(current, "DeficitCount", "DEFICIT")
  /\ UNCHANGED <<useDeficitReserve, seenHashes, batch>>

(* Mutant: the reserve pays the whole amount.                              *)
ReplayReserveWhole(err) ==
  LET p == Payment[current]
  IN  /\ replayPc = "reserve"
      /\ DebitDeficitReserve(p.MerchantID, p.Amount, current, err)
      /\ FinishDeficit(UncoveredDelta, "reserve")

(* The reserve's part.                                                     *)
ReplayReserve(err) ==
  LET p == Payment[current]
  IN  /\ replayPc = "reserve"
      /\ IF UncoveredDelta > 0
         THEN DebitDeficitReserve(p.MerchantID, UncoveredDelta, current, err)
         ELSE err = "nil" /\ UNCHANGED ledgerVars
      /\ FinishDeficit(UncoveredDelta, "reserve")

(* Legacy mode: the customer is overdrawn by the whole amount.             *)
ReplayLegacy ==
  LET p == Payment[current]
      short == p.Amount - accSnapshot.OnlineAvailable
  IN  /\ replayPc = "legacy"
      /\ RecordDeficit(p.AccountID, p.MerchantID, p.Amount, current)
      /\ FinishDeficit(IF short < 0 THEN p.Amount ELSE short, "overdraft")

ReplayEnd ==
  /\ replayPc = "loop"
  /\ batch = <<>>
  /\ replayPc' = "idle"
  /\ UNCHANGED <<useDeficitReserve, seenHashes, deficitLogs, batch, current,
                 accSnapshot, report>>
  /\ UNCHANGED <<ledgerVars, walVars>>

(* Replay from ReadAllPending to its return.                               *)
ReplayStep ==
  \/ \E i \in DOMAIN batch : ReplayDuplicate(i) \/ ReplayTake(i)
  \/ \E err \in LedgerErrors : \/ ReplayOffline(err)
                               \/ ReplayOnline(err)
                               \/ ReplayCovered(err)
                               \/ ReplayReserve(err)
  \/ ReplayLegacy
  \/ ReplayEnd

-----------------------------------------------------------------------------
(***************************************************************************)
(* The system around the replay: terminals queue offline payments, and     *)
(* online payments and allocations take from the same accounts.            *)
(***************************************************************************)
QueueOffline(tx, err) ==
  /\ WALAppend(tx, err)
  /\ UNCHANGED <<ledgerVars, replayVars>>

(* Journal entries that do not come from the replay.                       *)
OnlineEntries == {i \in DOMAIN entries : entries[i].TxID \notin QueuedTxIDs}

ReserveOnline(tx, err) ==
  LET p == Payment[tx]
  IN  /\ Cardinality(OnlineEntries) < MaxOnline
      /\ ReserveFunds(p.AccountID, p.Amount, tx, err)
      /\ UNCHANGED <<walVars, replayVars>>

CommitOnline(tx, err) ==
  LET p == Payment[tx]
  IN  /\ Cardinality(OnlineEntries) < MaxOnline
      /\ CommitHold(p.AccountID, p.MerchantID, p.Amount, tx, err)
      /\ UNCHANGED <<walVars, replayVars>>

AllocateOnline(a, n, err) ==
  /\ Cardinality(OnlineEntries) < MaxOnline
  /\ AllocateOfflineAllowance(a, n, err)
  /\ UNCHANGED <<walVars, replayVars>>

(* setupServer's accounts, which have their opening balances.              *)
SeededBalance(start) ==
  [k \in Buckets |-> IF k[2] = "OnlineAvailable" THEN start[k[1]] ELSE 0]

(***************************************************************************)
(* The server dies, perhaps while it appends, and is started again: the    *)
(* log is recovered from what the crash left of the file; the ledger, the  *)
(* reconciler and its memory of what was settled begin anew.               *)
(***************************************************************************)
Restart ==
  /\ \/ \E f \in Remains(file, synced) : RecoverFrom(f)
     \/ \E tx \in QueuedTxIDs \ Present :
          /\ Len(file) < MaxFrames
          /\ \E f \in Remains(Append(file, Whole(tx)), synced) : RecoverFrom(f)
  /\ exists' = SystemAccounts \cup Parties
  /\ balance' = SeededBalance(opening)
  /\ reservations' = <<>>
  /\ entries' = <<>>
  /\ UNCHANGED <<funding, opening>>
  /\ useDeficitReserve' = TRUE
  /\ seenHashes' = {}
  /\ deficitLogs' = <<>>
  /\ replayPc' = "idle"
  /\ batch' = <<>>
  /\ current' = NoTx
  /\ accSnapshot' = NoSnapshot
  /\ report' = NewReport(0)

(* The accounts are open and funded, and the log holds what recovery found *)
(* in it.                                                                  *)
ReconInit ==
  /\ exists = SystemAccounts \cup Parties
  /\ \E b \in [Parties -> OpeningBalances] :
       opening = [a \in Accounts |-> IF a \in Parties THEN b[a] ELSE 0]
  /\ balance = SeededBalance(opening)
  /\ reservations = <<>>
  /\ entries = <<>>
  /\ funding = NoEntry
  /\ file = [i \in DOMAIN Recovered |-> Whole(Recovered[i])]
  /\ synced = Len(Recovered)
  /\ txMap = [tx \in TxIDs |->
                IF tx \in ToSet(Recovered) THEN "PENDING" ELSE Absent]
  /\ order = Recovered
  /\ walOpen = TRUE
  /\ tornWrite = FALSE
  /\ acked = ToSet(Recovered)
  /\ exposed = {}
  /\ ReplayInit

ReconNext ==
  \/ \E enabled \in BOOLEAN : SetUseDeficitReserve(enabled)
  \/ ReplayBegin
  \/ ReplayStep
  \/ \E tx \in QueuedTxIDs, err \in WALErrors : QueueOffline(tx, err)
  \/ \E tx \in OnlineTxIDs, err \in LedgerErrors :
       ReserveOnline(tx, err) \/ CommitOnline(tx, err)
  \/ \E a \in Parties, n \in Amounts, err \in LedgerErrors :
       AllocateOnline(a, n, err)
  \/ Restart

ReconSpec == ReconInit /\ [][ReconNext]_reconVars

(* The goroutine that replays keeps running: the ledger's mutexes are free *)
(* again after finitely many steps (LedgerLocks).                          *)
FairReconSpec == ReconSpec /\ WF_reconVars(ReplayStep)

-----------------------------------------------------------------------------
(* Type invariant of the reconciler's variables, and of the components it  *)
(* works on.                                                               *)
ReconTypeOK ==
  /\ LedgerTypeOK
  /\ WALTypeOK
  /\ useDeficitReserve \in BOOLEAN
  /\ seenHashes \in SUBSET QueuedTxIDs
  /\ deficitLogs \in Seq(DeficitRecord)
  /\ replayPc \in ReplaySteps
  /\ batch \in Seq(QueuedTxIDs)
  /\ current \in QueuedTxIDs \cup {NoTx}
  /\ accSnapshot \in [OnlineAvailable : Int, OfflineAllowance : Int]
  /\ report \in [{"TotalProcessed", "SuccessfulCount", "DeficitCount",
                  "DuplicateCount"} -> Nat]

(* What an entry credits to the merchant for tx, from debit labels in D.   *)
Credit(entry, tx, D) ==
  IF /\ entry.TxID = tx
     /\ entry.Type \in {"COMMIT", "DEFICIT"}
     /\ entry.CreditAcc = Label(Payment[tx].MerchantID)
     /\ entry.DebitAcc \in D
  THEN entry.Amount ELSE 0

CreditedIn(log, tx, D) ==
  SumFunction([i \in DOMAIN log |-> Credit(log[i], tx, D)])

(* What the journal credits to the merchant for tx.                        *)
Credited(tx, D) == CreditedIn(entries, tx, D)

(* The loop is through with tx.                                            *)
Replayed(tx) == tx \in seenHashes /\ tx /= current

(* Part of an amount, or all of it: no more, and nothing of the other sign. *)
PartOf(paid, amount) ==
  \/ 0 <= paid /\ paid <= amount
  \/ amount <= paid /\ paid <= 0

(***************************************************************************)
(* No offline payment is settled twice, in whole or in part: not by two    *)
(* replays, by a transaction that recovery found in the log twice, by a    *)
(* failed commit followed by a deficit, or by a change of mode in between. *)
(* A negative payment, which the commits refuse and a deficit in legacy    *)
(* mode takes from the merchant, is no exception.                          *)
(***************************************************************************)
SettledAtMostOnce ==
  \A tx \in QueuedTxIDs : PartOf(Credited(tx, Labels), Payment[tx].Amount)

(***************************************************************************)
(* No transaction is lost between the log and the reconciler: what the     *)
(* loop is through with has a final status, and what has a final status    *)
(* was replayed; the report accounts for every transaction of the batch.   *)
(***************************************************************************)
NoneForgotten ==
  /\ \A tx \in Present : Replayed(tx) <=> txMap[tx] /= "PENDING"
  /\ report.TotalProcessed =
       report.SuccessfulCount + report.DeficitCount + report.DuplicateCount
         + Len(batch) + (IF current = NoTx THEN 0 ELSE 1)

(***************************************************************************)
(* "Never drop customer balance below zero!" (m6_engine.go:195): with the  *)
(* deficit reserve on, no step takes an account but the reserve below      *)
(* zero, or further below.  (A restart takes every account back to where   *)
(* it was opened.)                                                         *)
(***************************************************************************)
SparesCustomers ==
  useDeficitReserve /\ ~Restart =>
    \A a \in Accounts \ {DeficitReserve} :
      balance'[OnlineAvailable(a)] >= Min({0, balance[OnlineAvailable(a)]})

ReserveSparesCustomers == [][SparesCustomers]_reconVars

(***************************************************************************)
(* What the replay reports is what the ledger moved, across restarts and   *)
(* for amounts of 0 too.  A RECONCILED transaction was paid in full by its *)
(* customer.  For a deficit the reserve paid what is on record, and the    *)
(* customer the rest or, when an online payment came first, nothing; or    *)
(* the customer was overdrawn by the whole amount.                         *)
(***************************************************************************)
OutcomesArePosted ==
  /\ \A tx \in QueuedTxIDs :
       txMap[tx] = "RECONCILED" =>
         LET a == Payment[tx].AccountID
         IN  Credited(tx, {Label(a), OfflineLabel(a)}) = Payment[tx].Amount
  /\ \A i \in DOMAIN deficitLogs :
       LET d == deficitLogs[i]
           p == Payment[d.TxID]
           paid == Credited(d.TxID, {Label(p.AccountID)})
       IN  IF d.Reason = "reserve"
           THEN /\ Credited(d.TxID, {Label(DeficitReserve)}) = d.DeficitAmount
                /\ paid \in {0, p.Amount - d.DeficitAmount}
           ELSE paid = p.Amount

(***************************************************************************)
(* "Merchant receives full settlement credit" (README.md:119): a replayed  *)
(* transaction is credited in full, whoever pays.                          *)
(***************************************************************************)
MerchantFullySettled ==
  \A tx \in QueuedTxIDs :
    Replayed(tx) => Credited(tx, Labels) = Payment[tx].Amount

(***************************************************************************)
(* A replay that has begun ends, and leaves no transaction of its batch    *)
(* pending, unless a restart makes the reconciler forget the transaction.  *)
(***************************************************************************)
ReplayEnds ==
  /\ (replayPc /= "idle") ~> (replayPc = "idle")
  /\ \A tx \in QueuedTxIDs :
       (\E i \in DOMAIN batch : batch[i] = tx) ~>
         (\/ txMap[tx] /= "PENDING"
          \/ replayPc = "idle" /\ tx \notin seenHashes)

=============================================================================
