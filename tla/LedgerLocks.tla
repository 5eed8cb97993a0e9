----------------------------- MODULE LedgerLocks -----------------------------
(***************************************************************************)
(* The operations of Ledger.tla as goroutines run them: look the accounts  *)
(* up, create a missing payee, take the account mutexes one by one, check, *)
(* debit, credit and journal, unlock.  Every step of a goroutine may       *)
(* interleave with every step of another, and with an AuditConservation    *)
(* that reads one account at a time.                                       *)
(*                                                                         *)
(* accountsLock guards only the map of accounts.  A lookup or a creation   *)
(* under it is one step; an audit holds it for reading from beginning to   *)
(* end, so no account is created meanwhile.  Nobody who holds an account's *)
(* mutex waits for accountsLock.  entriesLock is innermost and held for    *)
(* one append: it is no step of its own.                                   *)
(*                                                                         *)
(* FundAccount is not here: only the single-threaded start-up calls it.    *)
(***************************************************************************)
EXTENDS Ledger

CONSTANTS
  Threads,    \* goroutines
  Calls,      \* the calls that goroutines make
  Rank,       \* the position of each account id in the string order
  MaxRank     \* the highest position

NoCall == <<>>
NoThread == <<>>

SingleAccountOps == {"AllocateOfflineAllowance", "ReserveFunds", "ReleaseHold"}
OrderedOps == {"CommitOfflineAllowance", "CommitHold", "DirectCommit"}
DeficitOps == {"RecordDeficit", "DebitDeficitReserve"}

(* A call: payer AccountID, payee DestID (the payer itself when there is   *)
(* none), amount and transaction.                                          *)
Call ==
  [Op : SingleAccountOps \cup OrderedOps \cup DeficitOps,
   AccountID : Parties \cup {DeficitReserve}, DestID : Parties,
   Amount : Amounts, TxID : TxIDs]

ASSUME ThreadsAssumption == IsFiniteSet(Threads) /\ NoThread \notin Threads
ASSUME CallsAssumption ==
  /\ Calls \subseteq Call
  /\ NoCall \notin Calls
  /\ \A c \in Calls : /\ c.Op \in SingleAccountOps => c.DestID = c.AccountID
                      /\ c.Op = "DebitDeficitReserve"
                           => c.AccountID = DeficitReserve
                      /\ c.Op # "DebitDeficitReserve"
                           => c.AccountID \in Parties
ASSUME RankAssumption ==
  /\ MaxRank \in Nat
  /\ Rank \in [Accounts -> 0..MaxRank]
  /\ \A a, b \in Accounts : Rank[a] = Rank[b] => a = b

VARIABLES
  call,     \* the call each goroutine is executing
  pc,       \* where in it the goroutine is
  locked,   \* how many of its locks it holds
  owner,    \* the goroutine that holds an account's mutex
  audit     \* the audit in progress: accounts read so far, their sum and,
            \* as history, whether a call took effect since it began

lockVars == <<call, pc, locked, owner, audit>>
locksVars == <<ledgerVars, lockVars>>

NoAudit == [running |-> FALSE, read |-> {}, total |-> 0, crossed |-> FALSE]

-----------------------------------------------------------------------------
(* What a call debits, credits and journals.                               *)

Source(c) ==
  CASE c.Op = "CommitOfflineAllowance" -> OfflineAllowance(c.AccountID)
    [] c.Op \in {"CommitHold", "ReleaseHold"} -> ReservedBalance(c.AccountID)
    [] OTHER -> OnlineAvailable(c.AccountID)

Target(c) ==
  CASE c.Op = "AllocateOfflineAllowance" -> OfflineAllowance(c.AccountID)
    [] c.Op = "ReserveFunds" -> ReservedBalance(c.AccountID)
    [] OTHER -> OnlineAvailable(c.DestID)

Posting(c) ==
  LET a == c.AccountID  d == c.DestID  n == c.Amount  tx == c.TxID
  IN  CASE c.Op = "AllocateOfflineAllowance" ->
             NewEntry("RESERVE", GeneratedTxID, OnlineLabel(a),
                      OfflineLabel(a), n)
        [] c.Op = "ReserveFunds" ->
             NewEntry("RESERVE", tx, Label(a), Label(SystemEscrow), n)
        [] c.Op = "ReleaseHold" ->
             NewEntry("RELEASE", tx, Label(SystemEscrow), Label(a), n)
        [] c.Op = "CommitOfflineAllowance" ->
             NewEntry("COMMIT", tx, OfflineLabel(a), Label(d), n)
        [] c.Op = "CommitHold" ->
             NewEntry("COMMIT", tx, Label(SystemEscrow), Label(d), n)
        [] c.Op = "DirectCommit" ->
             NewEntry("COMMIT", tx, Label(a), Label(d), n)
        [] OTHER -> NewEntry("DEFICIT", tx, Label(a), Label(d), n)

(* Mutant: payer before payee, as in RecordDeficit, for every operation.   *)
LocksPayerFirst(c) ==
  IF c.Op \in SingleAccountOps \/ c.AccountID = c.DestID
  THEN <<c.AccountID>> ELSE <<c.AccountID, c.DestID>>

(* Mutant: only the payee is locked.                                       *)
LocksPayeeOnly(c) == <<c.DestID>>

(***************************************************************************)
(* The account mutexes in the order in which the call takes them.  The     *)
(* settlements compare the ids; the deficit postings lock payer, then      *)
(* payee, without comparing, even when they are the same.                  *)
(***************************************************************************)
LockOrder(c) ==
  CASE c.Op \in SingleAccountOps -> <<c.AccountID>>
    [] c.Op \in DeficitOps -> <<c.AccountID, c.DestID>>
    [] c.Op \in OrderedOps ->
         IF c.AccountID = c.DestID THEN <<c.AccountID>>
         ELSE IF Rank[c.AccountID] < Rank[c.DestID]
         THEN <<c.AccountID, c.DestID>> ELSE <<c.DestID, c.AccountID>>

NextLock(t) == LockOrder(call[t])[locked[t] + 1]

-----------------------------------------------------------------------------
LocksInit ==
  /\ LedgerInit
  /\ call = [t \in Threads |-> NoCall]
  /\ pc = [t \in Threads |-> "idle"]
  /\ locked = [t \in Threads |-> 0]
  /\ owner = [a \in Accounts |-> NoThread]
  /\ audit = NoAudit

(* The calls in flight will journal at most one entry each: a bound of the *)
(* model that never stops a call once it has begun.                        *)
RoomForCall ==
  Len(entries) + Cardinality({t \in Threads : pc[t] /= "idle"}) < MaxEntries

(* The account must exist, except for the deficit postings, which create   *)
(* it.                                                                     *)
LooksUp(c) == c.AccountID \in exists \/ c.Op \in DeficitOps

(* Up to the lookup.  A call that is refused here, for its amount or for   *)
(* its account, changes nothing and is no step.                            *)
Begin(t, c) ==
  /\ pc[t] = "idle"
  /\ RoomForCall
  /\ c.Amount > 0 \/ c.Op \in {"ReleaseHold", "RecordDeficit"}
  /\ LooksUp(c)
  /\ call' = [call EXCEPT ![t] = c]
  /\ pc' = [pc EXCEPT ![t] =
              IF {c.AccountID, c.DestID} \subseteq exists
              THEN "lock" ELSE "create"]
  /\ UNCHANGED <<ledgerVars, locked, owner, audit>>

(* CreateAccount(id, 0) for one of the accounts the lookup did not find;   *)
(* another goroutine may have created it in the meantime.                  *)
CreateMissing(t, a) ==
  /\ pc[t] = "create"
  /\ ~audit.running
  /\ a \in {call[t].AccountID, call[t].DestID}
  /\ CreateAccount(a, 0)
  /\ pc' = [pc EXCEPT ![t] =
              IF {call[t].AccountID, call[t].DestID} \subseteq exists'
              THEN "lock" ELSE "create"]
  /\ UNCHANGED <<call, locked, owner, audit>>

(* acc.mu.Lock() of the next account; then on to the balance check.        *)
Lock(t) ==
  /\ pc[t] = "lock"
  /\ owner[NextLock(t)] = NoThread
  /\ owner' = [owner EXCEPT ![NextLock(t)] = t]
  /\ locked' = [locked EXCEPT ![t] = @ + 1]
  /\ pc' = [pc EXCEPT ![t] =
              IF locked[t] + 1 = Len(LockOrder(call[t]))
              THEN "check" ELSE "lock"]
  /\ UNCHANGED <<ledgerVars, call, audit>>

(* Mutant: the payee is not unlocked.                                      *)
ReturnKeepsPayee(t) ==
  /\ pc' = [pc EXCEPT ![t] = "idle"]
  /\ call' = [call EXCEPT ![t] = NoCall]
  /\ locked' = [locked EXCEPT ![t] = 0]
  /\ owner' = [owner EXCEPT ![call[t].AccountID] = NoThread]

(* The deferred unlocks and the return.                                    *)
Return(t) ==
  /\ pc' = [pc EXCEPT ![t] = "idle"]
  /\ call' = [call EXCEPT ![t] = NoCall]
  /\ locked' = [locked EXCEPT ![t] = 0]
  /\ owner' = [a \in Accounts |-> IF owner[a] = t THEN NoThread ELSE owner[a]]

Sufficient(c) == c.Op \in DeficitOps \/ balance[Source(c)] >= c.Amount

Check(t) ==
  /\ pc[t] = "check"
  /\ IF Sufficient(call[t])
     THEN /\ pc' = [pc EXCEPT ![t] = "debit"]
          /\ UNCHANGED <<call, locked, owner>>
     ELSE Return(t)
  /\ UNCHANGED <<ledgerVars, audit>>

Debit(t) ==
  /\ pc[t] = "debit"
  /\ balance' = [balance EXCEPT ![Source(call[t])] = @ - call[t].Amount]
  /\ pc' = [pc EXCEPT ![t] = "credit"]
  /\ UNCHANGED <<exists, reservations, entries, funding, opening,
                 call, locked, owner, audit>>

(* The credit, the reservation if there is one, appendEntry, the unlocks.  *)
Credit(t) ==
  /\ pc[t] = "credit"
  /\ balance' = [balance EXCEPT ![Target(call[t])] = @ + call[t].Amount]
  /\ reservations' =
       IF call[t].Op = "ReserveFunds"
       THEN Append(reservations, [AccountID |-> call[t].AccountID,
                                  Amount |-> call[t].Amount])
       ELSE reservations
  /\ entries' = Append(entries, Posting(call[t]))
  /\ Return(t)
  /\ audit' = [audit EXCEPT !.crossed = audit.running]
  /\ UNCHANGED <<exists, funding, opening>>

(* handleCreateAccount's CreateAccount, which needs no account's mutex.    *)
OpenAccount(a, n) ==
  /\ ~audit.running
  /\ a \notin exists
  /\ CreateAccount(a, n)
  /\ UNCHANGED lockVars

(* AuditConservation.                                                      *)
AuditBegin ==
  /\ ~audit.running
  /\ audit' = [NoAudit EXCEPT !.running = TRUE]
  /\ UNCHANGED <<ledgerVars, call, pc, locked, owner>>

(* Mutant: the audit reads an account without its mutex.                   *)
AuditReadUnlocked(a) ==
  /\ audit.running
  /\ a \in exists \ audit.read
  /\ audit' = [audit EXCEPT
                 !.read = @ \cup {a},
                 !.total = @ + balance[OnlineAvailable(a)]
                             + balance[OfflineAllowance(a)]
                             + balance[ReservedBalance(a)]]
  /\ UNCHANGED <<ledgerVars, call, pc, locked, owner>>

AuditRead(a) ==
  /\ audit.running
  /\ a \in exists \ audit.read
  /\ owner[a] = NoThread
  /\ audit' = [audit EXCEPT
                 !.read = @ \cup {a},
                 !.total = @ + balance[OnlineAvailable(a)]
                             + balance[OfflineAllowance(a)]
                             + balance[ReservedBalance(a)]]
  /\ UNCHANGED <<ledgerVars, call, pc, locked, owner>>

AuditDone == audit.running /\ audit.read = exists

AuditEnd ==
  /\ AuditDone
  /\ audit' = NoAudit
  /\ UNCHANGED <<ledgerVars, call, pc, locked, owner>>

ThreadStep(t) ==
  \/ \E a \in Accounts : CreateMissing(t, a)
  \/ Lock(t)
  \/ Check(t)
  \/ Debit(t)
  \/ Credit(t)

LocksNext ==
  \/ \E t \in Threads, c \in Calls : Begin(t, c)
  \/ \E t \in Threads : ThreadStep(t)
  \/ \E a \in Parties, n \in OpeningBalances : OpenAccount(a, n)
  \/ AuditBegin
  \/ \E a \in Accounts : AuditRead(a)
  \/ AuditEnd

LocksSpec == LocksInit /\ [][LocksNext]_locksVars

(***************************************************************************)
(* Fairness.  A goroutine that can run is scheduled, and one that is able  *)
(* to take a mutex again and again takes it: Go hands a mutex to a waiter  *)
(* that has waited too long, and a waiting writer of accountsLock stops    *)
(* new readers.  The auditor is a goroutine too.                           *)
(***************************************************************************)
LocksFairness ==
  /\ \A t \in Threads : SF_locksVars(ThreadStep(t))
  /\ SF_locksVars(\E a \in Accounts : AuditRead(a))
  /\ WF_locksVars(AuditEnd)

FairLocksSpec == LocksSpec /\ LocksFairness

-----------------------------------------------------------------------------
(* Type invariant of the goroutines' state.                                *)
LocksTypeOK ==
  /\ call \in [Threads -> Calls \cup {NoCall}]
  /\ pc \in [Threads -> {"idle", "create", "lock", "check", "debit", "credit"}]
  /\ locked \in [Threads -> 0..2]
  /\ owner \in [Accounts -> Threads \cup {NoThread}]
  /\ audit \in [running : BOOLEAN, read : SUBSET Accounts, total : Int,
                crossed : BOOLEAN]
  /\ \A t \in Threads :
       /\ pc[t] = "idle" <=> call[t] = NoCall
       /\ pc[t] /= "idle" =>
            {a \in Accounts : owner[a] = t} =
              {LockOrder(call[t])[i] : i \in 1..locked[t]}

Blocked(t) == pc[t] = "lock" /\ owner[NextLock(t)] /= NoThread

(* Every goroutine of the set waits for a mutex that one of the set holds. *)
Circle(S) ==
  /\ S /= {}
  /\ \A t \in S : Blocked(t) /\ owner[NextLock(t)] \in S

(* A deficit whose payer, locked first, does not come before the payee in  *)
(* the order of ids.                                                       *)
Descends(c) == c.Op \in DeficitOps /\ Rank[c.AccountID] >= Rank[c.DestID]

(***************************************************************************)
(* Deadlock freedom, docs/ARCHITECTURE.md:38, as far as the code keeps it: *)
(* a mutex is held by the call that took it and by no other (LocksTypeOK), *)
(* and goroutines wait for each other in a circle only through a deficit   *)
(* posting against the order of ids, which the code does not compare.      *)
(***************************************************************************)
OnlyDeficitsDeadlock ==
  /\ LocksTypeOK
  /\ \A S \in SUBSET Threads : Circle(S) => \E t \in S : Descends(call[t])

(***************************************************************************)
(* Linearizability, docs/ARCHITECTURE.md:39: the interleaved steps         *)
(* implement the atomic operations of Ledger.tla.  An operation takes      *)
(* effect when it credits; until then its debit, made by the goroutine     *)
(* that holds the payer's mutex, is not visible to anyone else.            *)
(***************************************************************************)
InFlight(b) ==
  LET t == owner[b[1]]
  IN  IF t /= NoThread /\ pc[t] = "credit" /\ Source(call[t]) = b
      THEN call[t].Amount ELSE 0

settledBalance == [b \in Buckets |-> balance[b] + InFlight(b)]

Atomic == INSTANCE Ledger WITH balance <- settledBalance

LocksImplementLedger == Atomic!LedgerSpec

(***************************************************************************)
(* Every call returns, unless goroutines have come to wait in a circle,    *)
(* which may leave everybody else waiting behind them: no other way of     *)
(* waiting for a mutex or for accountsLock, which an audit holds, is       *)
(* forever.                                                                *)
(***************************************************************************)
Deadlocked == \E S \in SUBSET Threads : Circle(S)

CallsReturn ==
  \A t \in Threads : pc[t] /= "idle" ~> (pc[t] = "idle" \/ Deadlocked)

(***************************************************************************)
(* "AuditConservation calculates total balances across all accounts and    *)
(* validates double-entry conservation" (m2_conserving.go:631).  It reads  *)
(* one account at a time, so it can promise that only of an audit during   *)
(* which no call took effect: its total is then what the accounts were     *)
(* opened with, even if calls were half-way through when it began.         *)
(***************************************************************************)
QuietAuditIsExact ==
  AuditDone /\ ~audit.crossed =>
    audit.total = SumFunction(opening)

=============================================================================
