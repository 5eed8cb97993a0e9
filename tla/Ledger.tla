------------------------------- MODULE Ledger -------------------------------
(***************************************************************************)
(* The double-entry ledger of internal/ledger/m2_conserving.go.            *)
(*                                                                         *)
(* Every exported operation runs under the mutexes of the accounts it      *)
(* touches, so here each one is a single action; LedgerLocks.tla takes the *)
(* actions apart into their locking steps.  The one operation that is not  *)
(* atomic even so is FundAccount, which journals its deposit after it has  *)
(* released the account: it is two actions here.                           *)
(*                                                                         *)
(* An account's three buckets are kept in one function, balance, so that   *)
(* "move n cents" is one idea.  A bucket of an account that has not been   *)
(* created holds 0.  An operation's last parameter err is the error it     *)
(* returns; AvailableBalance (a copy of OnlineAvailable), Version, the     *)
(* time stamps and the descriptions are left out.                          *)
(***************************************************************************)
EXTENDS Integers, Sequences, FiniteSets, FiniteSetsExt, Transactions

CONSTANTS
  Parties,           \* the ids that callers name in their requests
  SystemEscrow,      \* EscrowAccountID
  SystemClearing,    \* ClearingAccountID
  DeficitReserve,    \* DeficitReserveAccountID
  SystemCapital,     \* the journal's counterparty for deposits; no account
  GeneratedTxID,     \* stands for the ALLOC-... and FUND-... ids
  OpeningBalances,   \* initial balances that callers pass
  MaxEntries         \* bound on the journal's length

SystemAccounts == {SystemEscrow, SystemClearing, DeficitReserve}

(***************************************************************************)
(* Amounts and opening balances are int64 numbers from JSON: most          *)
(* operations refuse an amount that is not positive, CreateAccount,        *)
(* FundAccount, ReleaseHold and RecordDeficit take any.  SYSTEM_CAPITAL is *)
(* a journal label and is never opened as an account.                      *)
(***************************************************************************)
ASSUME AccountsAssumption == IsFiniteSet(Accounts)
ASSUME PartiesAssumption == Parties \subseteq Accounts
ASSUME SystemAccountsAssumption == SystemAccounts \subseteq Accounts
ASSUME SystemCapitalAssumption == SystemCapital \notin Accounts
ASSUME AmountsAssumption == Amounts \subseteq Int
ASSUME OpeningBalancesAssumption == OpeningBalances \subseteq Int
ASSUME MaxEntriesAssumption == MaxEntries \in Nat

VARIABLES
  exists,        \* the ids in l.accounts
  balance,       \* the buckets of every account
  reservations,  \* l.reservations, in order of creation
  entries,       \* l.entries, the journal
  funding,       \* FundAccount's journal entry while it is not yet appended
  opening        \* history: the balance each account was created with

ledgerVars == <<exists, balance, reservations, entries, funding, opening>>

-----------------------------------------------------------------------------
(* The buckets of an account, and the names they have in the journal.      *)

OnlineAvailable(a)  == <<a, "OnlineAvailable">>
OfflineAllowance(a) == <<a, "OfflineAllowance">>
ReservedBalance(a)  == <<a, "ReservedBalance">>

Buckets ==
  Accounts \X {"OnlineAvailable", "OfflineAllowance", "ReservedBalance"}

Label(a)        == <<a, "">>
OnlineLabel(a)  == <<a, "_ONLINE">>
OfflineLabel(a) == <<a, "_OFFLINE">>

Labels == (Accounts \cup {SystemCapital}) \X {"", "_ONLINE", "_OFFLINE"}

EntryTypes == {"RESERVE", "COMMIT", "RELEASE", "DEFICIT"}

LedgerEntry ==
  [TxID : TxIDs \cup {GeneratedTxID}, Type : EntryTypes,
   DebitAcc : Labels, CreditAcc : Labels, Amount : Int]

NoEntry == <<>>

Reservation == [AccountID : Accounts, Amount : Nat]

LedgerErrors == {"nil", "ErrInvalidAmount", "ErrAccountNotFound",
                 "ErrInsufficientFunds", "ErrHoldMismatch"}

-----------------------------------------------------------------------------
(* NewConservingLedger: the system accounts, empty.                        *)
LedgerInit ==
  /\ exists = SystemAccounts
  /\ balance = [b \in Buckets |-> 0]
  /\ reservations = <<>>
  /\ entries = <<>>
  /\ funding = NoEntry
  /\ opening = [a \in Accounts |-> 0]

NewEntry(type, tx, debit, credit, n) ==
  [TxID |-> tx, Type |-> type, DebitAcc |-> debit, CreditAcc |-> credit,
   Amount |-> n]

(* Room for one more journal entry, the one being funded counted: a bound  *)
(* of the model, not of the code.                                          *)
Room == Len(entries) + (IF funding = NoEntry THEN 0 ELSE 1) < MaxEntries

appendEntry(type, tx, debit, credit, n) ==
  /\ Room
  /\ entries' = Append(entries, NewEntry(type, tx, debit, credit, n))

(* Mutant: both balances read before either is written.                    *)
MoveFromStaleReads(from, to, n) ==
  balance' = [balance EXCEPT ![from] = balance[from] - n,
                             ![to] = balance[to] + n]

(* The credit is computed from the balance the debit leaves, as in the     *)
(* code, which matters when both are the same bucket.                      *)
Move(from, to, n) ==
  balance' = [b \in Buckets |-> balance[b] - (IF b = from THEN n ELSE 0)
                                          + (IF b = to THEN n ELSE 0)]

(* Mutant: the balance check is off by one.                                *)
DebitErrorOffByOne(a, bucket, n, shortfall) ==
  IF n <= 0 THEN "ErrInvalidAmount"
  ELSE IF a \notin exists THEN "ErrAccountNotFound"
  ELSE IF balance[bucket] < n - 1 THEN shortfall
  ELSE "nil"

(* The checks that guard a debit, in the code's order.                     *)
DebitError(a, bucket, n, shortfall) ==
  IF n <= 0 THEN "ErrInvalidAmount"
  ELSE IF a \notin exists THEN "ErrAccountNotFound"
  ELSE IF balance[bucket] < n THEN shortfall
  ELSE "nil"

CreateAccount(a, n) ==
  /\ IF a \in exists
     THEN UNCHANGED <<exists, balance, opening>>
     ELSE /\ exists' = exists \cup {a}
          /\ balance' = [balance EXCEPT ![OnlineAvailable(a)] = n]
          /\ opening' = [opening EXCEPT ![a] = n]
  /\ UNCHANGED <<reservations, entries, funding>>

(* FundAccount up to acc.mu.Unlock.  Its only caller is the single-        *)
(* threaded start-up, so at most one deposit is in flight.                 *)
FundAccount(a, n, err) ==
  /\ funding = NoEntry
  /\ err = IF a \in exists THEN "nil" ELSE "ErrAccountNotFound"
  /\ IF err = "nil"
     THEN /\ Room
          /\ balance' = [balance EXCEPT ![OnlineAvailable(a)] = @ + n]
          /\ funding' = NewEntry("COMMIT", GeneratedTxID,
                                 Label(SystemCapital), Label(a), n)
     ELSE UNCHANGED <<balance, funding>>
  /\ UNCHANGED <<exists, reservations, entries, opening>>

(* Mutant: the pending entry is cleared before it is appended.             *)
FundAccountJournalCleared ==
  /\ funding /= NoEntry
  /\ funding' = NoEntry
  /\ entries' = Append(entries, funding')
  /\ UNCHANGED <<exists, balance, reservations, opening>>

(* The rest of FundAccount: its appendEntry.                               *)
FundAccountJournal ==
  /\ funding /= NoEntry
  /\ entries' = Append(entries, funding)
  /\ funding' = NoEntry
  /\ UNCHANGED <<exists, balance, reservations, opening>>

(* Mutant: the allowance is journalled on the account's main label.        *)
AllocateOnMainLabel(a, n, err) ==
  /\ err = DebitError(a, OnlineAvailable(a), n, "ErrInsufficientFunds")
  /\ IF err = "nil"
     THEN /\ Move(OnlineAvailable(a), OfflineAllowance(a), n)
          /\ appendEntry("RESERVE", GeneratedTxID, OnlineLabel(a), Label(a), n)
     ELSE UNCHANGED <<balance, entries>>
  /\ UNCHANGED <<exists, reservations, funding, opening>>

AllocateOfflineAllowance(a, n, err) ==
  /\ err = DebitError(a, OnlineAvailable(a), n, "ErrInsufficientFunds")
  /\ IF err = "nil"
     THEN /\ Move(OnlineAvailable(a), OfflineAllowance(a), n)
          /\ appendEntry("RESERVE", GeneratedTxID,
                         OnlineLabel(a), OfflineLabel(a), n)
     ELSE UNCHANGED <<balance, entries>>
  /\ UNCHANGED <<exists, reservations, funding, opening>>

(* Mutant: the hold is checked against the total balance.                  *)
ReserveAgainstTotal(a, n, tx, err) ==
  /\ err = IF n > 0 /\ balance[OnlineAvailable(a)]
                         + balance[OfflineAllowance(a)] >= n
           THEN "nil" ELSE "ErrInsufficientFunds"
  /\ IF err = "nil"
     THEN /\ Move(OnlineAvailable(a), ReservedBalance(a), n)
          /\ reservations' =
               Append(reservations, [AccountID |-> a, Amount |-> n])
          /\ appendEntry("RESERVE", tx, Label(a), Label(SystemEscrow), n)
     ELSE UNCHANGED <<balance, reservations, entries>>
  /\ UNCHANGED <<exists, funding, opening>>

ReserveFunds(a, n, tx, err) ==
  /\ err = DebitError(a, OnlineAvailable(a), n, "ErrInsufficientFunds")
  /\ IF err = "nil"
     THEN /\ Move(OnlineAvailable(a), ReservedBalance(a), n)
          /\ reservations' =
               Append(reservations, [AccountID |-> a, Amount |-> n])
          /\ appendEntry("RESERVE", tx, Label(a), Label(SystemEscrow), n)
     ELSE UNCHANGED <<balance, reservations, entries>>
  /\ UNCHANGED <<exists, funding, opening>>

(* Mutant: a missing destination is credited without being opened.         *)
SettleUnopened(a, bucket, debitAcc, shortfall, d, n, tx, err) ==
  /\ err = DebitError(a, bucket, n, shortfall)
  /\ IF err = "nil"
     THEN /\ Move(bucket, OnlineAvailable(d), n)
          /\ appendEntry("COMMIT", tx, debitAcc, Label(d), n)
     ELSE UNCHANGED <<balance, entries>>
  /\ UNCHANGED <<exists, reservations, funding, opening>>

(***************************************************************************)
(* The shape CommitOfflineAllowance, CommitHold and DirectCommit share:    *)
(* a bucket of a pays the OnlineAvailable of d.  A destination that is     *)
(* missing is created once a is found, and stays if the debit then fails.  *)
(***************************************************************************)
Settle(a, bucket, debitAcc, shortfall, d, n, tx, err) ==
  /\ err = DebitError(a, bucket, n, shortfall)
  /\ exists' = IF err \in {"ErrInvalidAmount", "ErrAccountNotFound"}
               THEN exists ELSE exists \cup {d}
  /\ IF err = "nil"
     THEN /\ Move(bucket, OnlineAvailable(d), n)
          /\ appendEntry("COMMIT", tx, debitAcc, Label(d), n)
     ELSE UNCHANGED <<balance, entries>>
  /\ UNCHANGED <<reservations, funding, opening>>

CommitOfflineAllowance(a, d, n, tx, err) ==
  Settle(a, OfflineAllowance(a), OfflineLabel(a), "ErrInsufficientFunds",
         d, n, tx, err)

(* Mutant: a hold is settled against the payer's label, not the escrow's.  *)
CommitHoldFromPayer(a, d, n, tx, err) ==
  Settle(a, ReservedBalance(a), Label(a), "ErrHoldMismatch", d, n, tx, err)

CommitHold(a, d, n, tx, err) ==
  Settle(a, ReservedBalance(a), Label(SystemEscrow), "ErrHoldMismatch",
         d, n, tx, err)

DirectCommit(a, d, n, tx, err) ==
  Settle(a, OnlineAvailable(a), Label(a), "ErrInsufficientFunds",
         d, n, tx, err)

(* ReleaseHold is the one debit without the amount <= 0 check.             *)
ReleaseHold(a, n, tx, err) ==
  /\ err = IF a \notin exists THEN "ErrAccountNotFound"
           ELSE IF balance[ReservedBalance(a)] < n THEN "ErrHoldMismatch"
           ELSE "nil"
  /\ IF err = "nil"
     THEN /\ Move(ReservedBalance(a), OnlineAvailable(a), n)
          /\ appendEntry("RELEASE", tx, Label(SystemEscrow), Label(a), n)
     ELSE UNCHANGED <<balance, entries>>
  /\ UNCHANGED <<exists, reservations, funding, opening>>

(* Mutant: a deficit moves money and journals nothing.                     *)
PostDeficitUnjournalled(a, d, n, tx) ==
  /\ a /= d
  /\ exists' = exists \cup {a, d}
  /\ Room
  /\ Move(OnlineAvailable(a), OnlineAvailable(d), n)
  /\ UNCHANGED <<reservations, entries, funding, opening>>

(***************************************************************************)
(* The two deficit postings debit without looking at the balance.  They    *)
(* lock payer and payee one after the other without comparing them, so a   *)
(* call in which both are the same account never returns: such a call is   *)
(* no action here (LedgerLocks.tla models the blocked caller).             *)
(***************************************************************************)
PostDeficit(a, d, n, tx) ==
  /\ a /= d
  /\ exists' = exists \cup {a, d}
  /\ Move(OnlineAvailable(a), OnlineAvailable(d), n)
  /\ appendEntry("DEFICIT", tx, Label(a), Label(d), n)
  /\ UNCHANGED <<reservations, funding, opening>>

RecordDeficit(a, d, n, tx) == PostDeficit(a, d, n, tx)

DebitDeficitReserve(m, n, tx, err) ==
  /\ err = IF n <= 0 THEN "ErrInvalidAmount" ELSE "nil"
  /\ IF err = "nil"
     THEN PostDeficit(DeficitReserve, m, n, tx)
     ELSE UNCHANGED ledgerVars

LedgerNext ==
  \/ \E a \in Parties, n \in OpeningBalances : CreateAccount(a, n)
  \/ \E a \in Parties, n \in Amounts, err \in LedgerErrors :
       FundAccount(a, n, err)
  \/ FundAccountJournal
  \/ \E a \in Parties, n \in Amounts, err \in LedgerErrors :
       AllocateOfflineAllowance(a, n, err)
  \/ \E a \in Parties, n \in Amounts, tx \in TxIDs, err \in LedgerErrors :
       \/ ReserveFunds(a, n, tx, err)
       \/ ReleaseHold(a, n, tx, err)
       \/ DebitDeficitReserve(a, n, tx, err)
  \/ \E a, d \in Parties, n \in Amounts, tx \in TxIDs, err \in LedgerErrors :
       \/ CommitOfflineAllowance(a, d, n, tx, err)
       \/ CommitHold(a, d, n, tx, err)
       \/ DirectCommit(a, d, n, tx, err)
  \/ \E a, d \in Parties, n \in Amounts, tx \in TxIDs :
       RecordDeficit(a, d, n, tx)

LedgerSpec == LedgerInit /\ [][LedgerNext]_ledgerVars

-----------------------------------------------------------------------------
(* What the buckets and the journal add up to.                             *)

Total(S) == SumFunctionOnSet(balance, S)

(* Every entry there is, the one FundAccount has yet to append included.   *)
Journal == IF funding = NoEntry THEN entries ELSE Append(entries, funding)

(* What an entry adds to a label: its credit minus its debit.              *)
Effect(entry, label) ==
  (IF entry.CreditAcc = label THEN entry.Amount ELSE 0)
  - (IF entry.DebitAcc = label THEN entry.Amount ELSE 0)

(* Credits minus debits of a label, over a sequence of entries.            *)
NetOf(log, label) ==
  SumFunction([i \in DOMAIN log |-> Effect(log[i], label)])

Net(label) == NetOf(Journal, label)

(* What a posting takes from a label without a look at its balance: a      *)
(* deficit takes from its payer, a negative amount from its payee.         *)
UncheckedTaking(entry, label) ==
  (IF entry.DebitAcc = label /\ entry.Type = "DEFICIT" /\ entry.Amount > 0
   THEN entry.Amount ELSE 0)
  + (IF entry.CreditAcc = label /\ entry.Amount < 0 THEN -entry.Amount ELSE 0)

UncheckedOf(log, label) ==
  SumFunction([i \in DOMAIN log |-> UncheckedTaking(log[i], label)])

Unchecked(label) == UncheckedOf(Journal, label)

(* AuditConservation when nothing else runs: the buckets of the accounts   *)
(* in l.accounts.                                                          *)
AuditConservation ==
  Total({b \in Buckets : b[1] \in exists})

-----------------------------------------------------------------------------
(* Type invariant of the ledger's variables.                               *)
LedgerTypeOK ==
  /\ exists \in SUBSET Accounts
  /\ balance \in [Buckets -> Int]
  /\ reservations \in Seq(Reservation)
  /\ entries \in Seq(LedgerEntry)
  /\ funding \in LedgerEntry \cup {NoEntry}
  /\ opening \in [Accounts -> Int]

(***************************************************************************)
(* The conservation law the ledger is named for: what the accounts hold is *)
(* what they were opened with plus what SYSTEM_CAPITAL paid in, to the     *)
(* cent, after every operation in every order.  The audit sees all of it.  *)
(***************************************************************************)
ConservationLaw ==
  AuditConservation = SumFunction(opening) - Net(Label(SystemCapital))

(***************************************************************************)
(* No operation leaves money in an account it did not open: settlements    *)
(* and deficits open a missing payee before they credit it.                *)
(***************************************************************************)
MoneyOnlyInOpenAccounts ==
  \A b \in Buckets : b[1] \notin exists => balance[b] = 0

(***************************************************************************)
(* The journal explains the balances: replaying it over the opening        *)
(* balances gives every account's online and offline buckets.  The escrow  *)
(* account is the exception EscrowBacksReserved is about.                  *)
(***************************************************************************)
JournalExplainsBalances ==
  \A a \in Accounts \ {SystemEscrow} :
    /\ balance[OnlineAvailable(a)] =
         opening[a] + Net(Label(a)) + Net(OnlineLabel(a))
    /\ balance[OfflineAllowance(a)] = Net(OfflineLabel(a))

(***************************************************************************)
(* Holds are journalled against SYSTEM_ESCROW, whose own buckets they do   *)
(* not touch: the escrow label must cover exactly the holds outstanding on *)
(* all accounts together, on top of what the escrow account holds itself.  *)
(***************************************************************************)
EscrowBacksReserved ==
  opening[SystemEscrow] + Net(Label(SystemEscrow))
                        + Net(OnlineLabel(SystemEscrow)) =
    balance[OnlineAvailable(SystemEscrow)]
      + Total({ReservedBalance(a) : a \in Accounts})

(***************************************************************************)
(* No sequence of calls overdraws an allowance or a hold.                  *)
(***************************************************************************)
BucketsNonNegative ==
  \A a \in Accounts : /\ balance[OfflineAllowance(a)] >= 0
                      /\ balance[ReservedBalance(a)] >= 0

(***************************************************************************)
(* An account is overdrawn, or more overdrawn than it was opened, by no    *)
(* more than what unchecked postings took from it: no other operation      *)
(* spends money that is not there, whatever runs between a deficit and the *)
(* payments that follow it.                                                *)
(***************************************************************************)
OverdraftIsUnchecked ==
  \A a \in Accounts :
    LET kept == balance[OnlineAvailable(a)] + Unchecked(Label(a))
    IN  kept >= 0 \/ kept >= opening[a]

(* The step opens account a with its whole balance.                        *)
OpensAccount(a) ==
  /\ a \notin exists
  /\ a \in exists'
  /\ balance' = [balance EXCEPT ![OnlineAvailable(a)] = opening'[a]]

(* The step deposits the entry it leaves in funding.                       *)
Deposits(a) ==
  /\ funding = NoEntry
  /\ funding' \in LedgerEntry
  /\ balance' = [balance EXCEPT ![OnlineAvailable(a)] = @ + funding'.Amount]

(* The step posts one entry and moves its amount between two buckets.      *)
Transfers(from, to) ==
  /\ Len(entries') = Len(entries) + 1
  /\ \A b \in Buckets :
       balance'[b] = balance[b]
                     - (IF b = from THEN entries'[Len(entries')].Amount ELSE 0)
                     + (IF b = to THEN entries'[Len(entries')].Amount ELSE 0)

(***************************************************************************)
(* What a step may never do: change a balance without journalling exactly  *)
(* what it moved.  A step that changes balances opens an account, deposits *)
(* capital, or takes from one bucket what it gives to another and journals *)
(* that amount in the same step.                                           *)
(***************************************************************************)
MovesAreJournalled ==
  balance' /= balance =>
    \/ \E a \in Accounts : OpensAccount(a) \/ Deposits(a)
    \/ \E from, to \in Buckets : Transfers(from, to)

BalancesMoveJournalled == [][MovesAreJournalled]_ledgerVars

=============================================================================
