# TLA+ models of the payment risk engine

This directory holds TLA+ specifications of the program under `src/`, the TLC
configurations that check them on small instances and TLAPS proofs for
instances of any size. `PROJECT.json` maps every definition to the lines it
models and lists the runs, their mutants, the hazards and the findings.

## The system

A payment server in Go. Components live in packages under `src/internal`; the
HTTP server in `src/cmd/server/main.go` wires them together, and every HTTP
request runs in a goroutine of its own. `src/fs2601_all_in_one.go` is a second,
self-contained program with the same endpoints and an implementation of its own.

| Component | State it keeps | Operations | What makes it correct |
|---|---|---|---|
| Ledger, `ledger/m2_conserving.go` | accounts with three buckets (online, offline allowance, reserved), reservations, journal; a mutex per account | create, fund, allocate allowance, reserve, commit hold, commit allowance, direct commit, release, two deficit postings, audit | money is conserved; the journal explains the balances; nothing but a deficit or a negative amount overdraws; only deficits deadlock; an audit that no call crosses is exact |
| Offline authorization, `edge/m4_offline_auth.go` | issued tokens (in the clients' hands), what each token spent per terminal, sequence number, revocation filter | issue, authorize, revoke | no more is authorized than was signed for, and only in time |
| Write-ahead log, `edge/m5_local_store.go` | file of CRC-protected frames, map and order in memory | append, recover, update status, read pending | an acknowledged payment survives crashes and is known to the process |
| Reconciler, `reconcile/m6_engine.go` | hashes seen, deficit log, deficit mode; one replay at a time | replay, set mode | each queued payment is settled once, by the right payer, and the replay ends |
| Gateway, `gateway/m1_api.go` | network status, idempotency cache | process payment (online and offline paths), trigger reconciliation | one charge per payment, no leaked holds, answers that agree with the money |
| Revocation filter, `fraud/compact_filter.go` | buckets of fingerprints, count | insert with displacement, contains, serialize, deserialize | no revoked id is missed but by an insert that fails |
| Fraud engine, `fraud/m3_graph_fraud.go` | events and devices per account, time of the last pruning, terminals, thresholds | screen, prune, clear an account's history, reset | no live ring and no burst is approved; the history stays bounded |
| QR codes, `fraud/qr_verifier.go` | none; epochs of the clock | sign, verify | a code lives for a definite time |
| All-in-one program, `fs2601_all_in_one.go` | accounts with two buckets, journal, log, network status | pay, switch the network and replay | the books balance and only the reserve or a negative payment overdraws, although every reconnection settles the log again |
| Telemetry, CLI | none of their own | formatting, I/O | not modelled |

How they interact: the gateway calls the fraud engine and then the ledger
(reserve, commit) while the network is up; while it is down it calls the edge
authorizer and then the log. Switching the network to RECONNECTED calls the
replay, which reads the log and calls the ledger. Nothing holds a lock across
two such calls, so between any two of them other requests run. The edge
authorizer asks the revocation filter; the server's `create account` also clears
the fraud engine's history of that account. A restart of the server recovers the
log and begins everything else anew.

The hard behaviours: interleaved requests on one account or one idempotency
key; balances read by the replay and used later; mutex order across accounts;
crashes and failing system calls in the middle of an append; retries; several
terminals that cannot talk to each other; a sort whose comparison is not an
order; a clock that is read before a mutex is taken; a hash table at its limit;
replays without a mutex that settle the same log at the same time.
`PROJECT.json` lists each under "hazards" at the line where it bites.

## Modules

| Module | Models |
|---|---|
| `Transactions` | the constants that components share |
| `Ledger` | the ledger, every operation one atomic action |
| `LedgerLocks` | the same operations as locking steps of goroutines, plus the audit; implements `Ledger` |
| `WALStore` | the log, failing system calls, crashes, recovery |
| `EdgeAuthorizer` | token authority and the authorizers of all terminals |
| `ReplayOrder` | vector clock comparison and sort |
| `Reconciler` | the replay call by call; extends `Ledger` and `WALStore` |
| `Gateway` | the composed system; extends `Reconciler` and `EdgeAuthorizer` |
| `RevocationSet` | what a revocation filter promises: a set of ids |
| `CompactFilter` | the cuckoo filter; implements `RevocationSet` |
| `FraudEngine` | the fraud screening and the epochs of QR codes |
| `Standalone` | the all-in-one program |
| `MC...` | constants and symmetry for TLC |
| `SumTheorems` | lemmas about finite sums, proved from the definition of the community modules' fold |
| `LedgerProofs` | TLAPS proofs about `Ledger` |
| `LedgerLocksProofs` | ... about `LedgerLocks`, with the refinement of `Ledger` |
| `ScreeningProofs` | ... about `CompactFilter`, with the refinement of `RevocationSet`, and about `FraudEngine` |
| `ReplayOrderProofs` | ... about `ReplayOrder` |
| `ReconcilerProofs` | ... about `WALStore` and `Reconciler` |
| `GatewayProofs` | ... about `EdgeAuthorizer` and `Gateway`; extends `ReconcilerProofs` |
| `StandaloneProofs` | ... about `Standalone` |

### Ledger

`balance` maps every bucket of every account to an amount; `exists` is the set
of keys of `l.accounts`. An operation's last parameter `err` is the error it
returns, so callers (`Reconciler`, `Gateway`) branch on it as the code does.
`DebitError` holds the checks in the code's order. `Settle` is the shape that
`CommitOfflineAllowance`, `CommitHold` and `DirectCommit` share, including that
a missing payee is created before the balance is checked and stays if the check
fails. `FundAccount` is two actions because it journals after it has unlocked.
A deficit posting whose payer is its payee blocks for ever in the code and is
no action here; `LedgerLocks` has it. `AvailableBalance` (always a copy of
`OnlineAvailable`), versions, time stamps and descriptions are left out.
`opening` is a history variable. Amounts and opening balances have either sign,
because requests are JSON and `CreateAccount` takes any balance; only int64 overflow
is outside the model. Hence `OverdraftIsUnchecked`: the commits check both sign and
balance, a deficit checks neither. `Unchecked` adds up, from the journal, what
postings took from an account without a look at its balance: a deficit from
its payer, a negative amount from its payee. `Move` gives the new balance of every bucket at
once, so that a transfer from a bucket to itself needs no case of its own.

### LedgerLocks

A goroutine looks accounts up (`Begin`), creates missing ones, takes its mutexes
one by one in `LockOrder`, checks, debits, credits and journals, unlocks.
`accountsLock` guards single steps; the audit holds it for reading from
beginning to end. The refinement mapping gives a debit back until the credit
has happened (`settledBalance`): the operation takes effect with its credit.
What is in flight from a bucket is read off the goroutine that holds its
account's mutex. `audit.crossed` is history: a call took effect while the audit
ran. The code takes the two mutexes of a deficit in the order payer, payee without
comparing them. A deficit `Descends` if its payer does not come before its payee, the
deficit of an account to itself included. `Circle` is a set of goroutines of which
each waits for a mutex of another (or its own); `OnlyDeficitsDeadlock` says that every
circle has a descending deficit in it, and `CallsReturn` that a call returns unless
there is such a circle: it keeps its mutexes for good, and an audit that comes to them
keeps `accountsLock`, so that everybody else may wait behind it.

### WALStore

A frame is a transaction id and whether it is whole. `synced` frames survive a
power failure; of the others any prefix does, its last frame perhaps torn. A
failed write leaves a torn frame, or nothing; a failed fsync leaves a whole one.
The scan reads up to the first torn frame and truncates there. `tornWrite`,
`acked` and `exposed` are history variables: `exposed` transactions were
acknowledged behind a frame that a failed write tore. A frame that a failed
header write leaves out completely is one of the outcomes. `RecoverFrom` takes
the file it finds, so that `Reconciler`'s restart uses it too. `ReadAllPending`
is defined by position: the k-th transaction it returns is at the k-th pending
position of `order`.

### EdgeAuthorizer

A signature is represented by the fields it covers, so a token whose fields
changed on the way fails verification. Each terminal has its own
`spentByToken`. The revocation filter is the set of ids it answers TRUE for;
inserting an id may make others it collides with answer TRUE and, when the filter
is full, lose ids: any set of each, which includes what `RevocationSet` allows.

### CompactFilter and RevocationSet

An `Insert` that finds both buckets full holds a fingerprint in `hand` and swaps it
with a stored one, step by step; the loop's random choices are free. The hash
functions are constants of which only one fact is assumed, the one that makes
cuckoo hashing work: the other bucket of the other bucket is the first. A failed
`Insert` drops what it holds, which may be another id's fingerprint. `confirmed` is
history: the ids whose insertion succeeded and was not undone by such a failure.
`RevocationSet` is what callers see of it; the mapping counts the fingerprint in
`hand` as present, because nobody can look before `cf.mu` is free again.

### FraudEngine

A screening is two steps: `Arrive` reads the clock and checks the QR code, `Screen`
does what the code does under `g.mu`, with that reading. `log` records the
approvals, by number, with the reading and the time they were recorded at; the
properties compare it with what the pruned history let the engine see. The events of
an account are a set in which the number tells equal events apart: the code never
looks at their order. `ClearAccountHistory` and `Reset` drop the corresponding part
of `log`, since the code means to forget.
Scores are in hundredths. The engine's verdict stays free in `Gateway`: nothing
there depends on which payments it refuses.

### Standalone

One step is what a handler does between two looks at shared state: take the first
mutex; take the second, settle and release; debit the reserve; journal. A replay
that meets an unknown payee panics with the payer's mutex held, as net/http
recovers the panic and nothing unlocks. `Pending` takes a permutation of the log
that is sorted by sequence number, which is what the sort returns. `settled` is
history and counts what each handler settled.

### ReplayOrder

`SortTransactionsVectorClock` is the insertion sort that `sort.SliceStable`
runs on up to 20 elements (longer batches are merged from such blocks). TLC
delivers transactions in every order and compares neighbouring arrivals
exchanged; every permutation is a product of such exchanges. The properties say
when the comparison is an order: for two terminals always, for three when
`Consistent` holds. Where it is one, the sorted order is unique, so the merges of a
longer batch end in the same order as the model's insertions. `ClocksCount` is what
the terminals, which the repository does not contain, are expected to send: vector
clocks of which a terminal's own component counts its events.

### Reconciler

`replayPc` is the point Replay has reached; `accSnapshot` is the snapshot it
took at the beginning of the iteration. Each step makes one ledger call.
The batch is taken in any order, which includes the sorted one. The payload is
constant per TxID, so the TxID stands for the hash: `Append` keeps one payload
per TxID. Initially the log may hold a transaction twice, the state that
recovery finds after an append whose fsync failed and its retry. `Restart` is a
crash at any point, also during an append, and the start of a new server: the log
is recovered from what the crash left, with every status PENDING again, and
ledger and reconciler begin anew.

### Gateway

`pc[r]` is where request `r` is in `ProcessPayment`; a retry is another request
with the same TxID and key. `due` counts network switches that have set
RECONNECTED and wait for the reconciler's mutex. The verdicts of fraud
screening and of the dynamic QR check are free. Requests present tokens of the
paying account. `late` is history: the payments that reached the log after the
switch to RECONNECTED. The rollback after a failed `CommitHold` is in `Commit`;
`HoldsInFlight` shows why it is never needed.

## What the runs check

| Run | Expected | Shows |
|---|---|---|
| `ledger` | pass | `ConservationLaw`, `JournalExplainsBalances`, `EscrowBacksReserved`, `BucketsNonNegative`, `OverdraftIsUnchecked`, and that balances only move journalled |
| `locks` | pass | `OnlyDeficitsDeadlock`; the locking steps implement `Ledger`; an audit that no call crosses finds the conserved total; every call returns unless there is such a deadlock |
| `wal` | pass | acknowledged payments survive unless a failed write tore a frame before them; the map knows them |
| `edge` | pass | ceilings hold per terminal, and overall for bound tokens, for what was granted less what negative amounts gave back |
| `filter` | pass | no false negatives but by a failed insert; the count is right; the filter implements `RevocationSet` |
| `fraud` | pass | no live ring, velocity capped, history bounded, QR codes live between 30 and 60 seconds (in units of the model) |
| `replay_order` | pass | with two terminals, and wherever the comparison is consistent, the replay is causal and independent of arrival |
| `replay` | pass | settled at most once, none forgotten, what the replay reports is what the ledger posted, customers spared in reserve mode, the replay ends; across restarts, for amounts and balances of either sign |
| `gateway` | pass | no leaked hold, one charge per payment, answers match money and log, offline payments come out of the allowance, only late payments stay pending; requests are answered and reconnections replay |
| `standalone` | pass | the books balance at every moment, only the reserve is overdrawn by more than negative payments took, requests return unless an unsafe payment was queued |

Two runs each check one statement that a document or a comment makes and that the
code does not keep; TLC's counterexample is the scenario:

| Run | Statement | What happens |
|---|---|---|
| `replay_race` | merchant receives full credit | the customer's part is refused after a stale snapshot, and the error ignored |
| `gateway_retry` | hard gate against duplicates | overlapping submissions both miss the cache |

Where the code keeps a promise in part, the property states the part it keeps, and
its comment the rest:

* `OnlyTornFramesLose`: fsync does not guarantee persistence behind a frame that a
  failed write tore; recovery truncates there.
* `ReplayIsReproducible`: with three terminals the comparison has cycles, and then
  the order depends on the arrival.
* `OnlyLateArePending`: a request routed offline just before the reconnection stays
  pending after its replay.
* `NoFalseNegatives`: an insert into a full filter may drop another id.
* `BoundTokensCapped`: only a bound token is capped overall; a token for every terminal
  spends its ceiling at each.
* `OnlyDeficitsDeadlock`, `CallsReturn`, `AnsweredUnlessUnsafe`: deficit postings,
  and the all-in-one program's replay, lock payer before payee whatever their ids are.
  The first two allow a deadlock in which a deficit against the order of ids takes
  part, the third everything after such a payment was queued.
* `OverdraftIsUnchecked`, of the ledger and of the all-in-one program: a deficit
  overdraws its payer, a negative amount its payee where the sign is not checked.
* `SettledAtMostOnce`, `ChargedAtMostOnce`: a negative payment is taken from the
  merchant in legacy mode, once; it is not refused.
* `TerminalSpendCapped`, `OfflinePaidFromAllowance`: authorizing a negative amount
  lets the token spend that much again. The ceiling caps the net, and the allowance
  has to cover what was given back too (`GivenBack`). A token with a ceiling below zero
  may spend nothing (`Ceiling`).
* `QuietAuditIsExact`: an audit that a transfer crosses may report a wrong total.
* `BooksBalance`: the all-in-one program settles its whole log at every
  reconnection, once for each time a payment is listed.

Reservations are never removed, a frame whose fsync failed is settled after a
restart, and a payment of 0 or less is recorded as a deficit of that amount; the
models do this too.

### Bounds

* `ledger`: two parties, amounts -1 to 2, opening balances of -1 and 2, three journal
  entries: enough for a
  hold, its partial commit and a release, or an allowance, a settlement and a
  deficit, by either party, with a deposit in flight.
* `locks`: two goroutines and two journal entries over every operation, with
  settlements both ways and to the payer, and deficits up the order of ids (one of
  them negative), down it and from an account to itself. A circle of waits needs two
  goroutines with two locks each, or one that waits for itself; no symmetry, because
  liveness is checked. TLC's own deadlock check is off, since goroutines in a circle
  stay there: `OnlyDeficitsDeadlock` and `CallsReturn` say which may.
* `wal`: three transactions and four frames: a frame torn by a failed write or
  a crash, one before, one after, and a retry.
* `edge`: two tokens, two terminals, three grants of -1 or 2, ceilings below zero,
  below and above the limit, one tick of the clock.
* `filter`: four ids, two of which cannot be told apart, in two buckets of two
  slots, and two kicks: inserts that displace once, twice and in vain, into a filter
  that may hold an id several times, with a saved filter of any earlier moment.
* `fraud`: two screenings at a time and three approvals on record, which is a ring
  of three; a window of two ticks, pruning after one, a clock of four; thresholds
  that reject and thresholds that are off. The epoch is two ticks and the skew
  three, so that a code can be signed inside its epoch.
* `replay_order`: seven transactions of three terminals, among them three on which
  the comparison has a cycle.
* `replay`: three queued payments, one of -1, one found twice; an online payment,
  opening balances that cover some or are overdrawn, restarts at any point, a failing
  fsync, four frames.
* `gateway`: two payments, a retry of the first, one token with a ceiling that
  covers one payment or both, an online balance that covers either payment but
  not both, every sequence of network states, a failing fsync. The payments are
  positive: two that compete for one balance are what the properties are about, and
  a third, negative one takes the state space past what TLC can finish in minutes.
  The theorems of `GatewayProofs` hold for payments of either sign.
* `standalone`: a purchase, a refund, payments to and from an unknown account, one
  over the limit and a negative one; two requests that submit any of them, the same
  one twice too; three network switches, so that two replays overlap. Nobody is revoked: the
  limit takes the same branch. Deadlock is not reported by TLC, since handlers
  end, and some block for ever; `AnsweredUnlessUnsafe` says which.

`MaxEntries`, `MaxFrames`, `MaxGrants`, `MaxTime`, `MaxOnline`, `MaxDue` and
`MaxApproved` are bounds of the models, not of the code. In `LedgerLocks` the bound
is checked when a call begins, and in `FraudEngine` when a screening begins, so they
never stop a call half-way.

### Fairness

* `FairLocksSpec`: strong fairness of every goroutine's steps and of the audit's
  reads. Go's mutexes hand over to a waiter that has waited a millisecond, so
  one that can take a mutex again and again takes it.
* `FairReconSpec`: weak fairness of the replay: its goroutine is scheduled, and
  the ledger's calls return (`CallsReturn` of run `locks`).
* `FairGatewaySpec`: weak fairness of every accepted request and of the replay,
  strong fairness of a reconnection that waits for the reconciler's mutex. No
  client has to submit anything and no network has to change.
* `StandaloneSpec`: weak fairness of every handler that has begun. It is enough for
  the mutexes because each is taken finitely often.

## What is proved

The theorems hold for every value of the constants that satisfies the named
assumptions: any number of accounts, goroutines, transactions, terminals, ids, any
amounts and hash functions, any length of a journal, a log or a batch. All but
`SortIgnoresArrival`, which is about an operator, have the form `Spec => []Inv`,
`Spec => [][A]_vars` or `Spec => Abstract!Spec` and rest on the inductive invariant
of their component. A hypothesis ("if ...") is a contract that the code does not
enforce; the text below says whose.

| Module | Theorem | States |
|---|---|---|
| `LedgerProofs` | `LedgerTypeCorrect` | types |
| | `Conservation` | `ConservationLaw` |
| | `JournalIsComplete` | `JournalExplainsBalances` |
| | `EscrowIsBacked` | `EscrowBacksReserved` |
| | `NoBucketOverdrawn`, `OverdraftIsAccounted` | `BucketsNonNegative`, `OverdraftIsUnchecked` |
| | `NoMoneyOutsideAccounts` | accounts that are not open hold nothing |
| | `DoubleEntry` | `BalancesMoveJournalled` (action property) |
| `LedgerLocksProofs` | `DeadlockNeedsDeficit` | `OnlyDeficitsDeadlock` |
| | `QuietAudit` | `QuietAuditIsExact` |
| | `Linearizable` | `LocksImplementLedger` (refinement), if `0 \in OpeningBalances` |
| `ScreeningProofs` | `FilterTypeCorrect` | types, and the count |
| | `ConfirmedIdsAreFound` | `NoFalseNegatives` |
| | `FilterRefinesSet` | `FilterImplementsSet` (refinement) |
| | `FraudTypeCorrect` | types |
| | `NoRingApproved`, `VelocityIsCapped` | `NoLiveRing`, `VelocityCapped` |
| | `HistoryIsBounded` | `HistoryBounded` (action property) |
| | `QRCodesLiveInBounds` | `QRLifetime` |
| `ReplayOrderProofs` | `ReplayFollowsCausality` | `ReplayIsCausal`, if `ClocksCount` |
| | `ReplayIgnoresArrival` | `ReplayIsReproducible`, if `ClocksCount` |
| | `SortIgnoresArrival` | two arrivals of the same transactions sort alike where the comparison is transitive |
| `ReconcilerProofs` | `WALTypeCorrect` | types of the log |
| | `AcknowledgedSurvives`, `RetriesAreRefused` | `OnlyTornFramesLose`, `MapKnowsAcknowledged` |
| | `ReconTypeCorrect` | types of the reconciler, ledger and log |
| | `PaidAtMostOnce` | `SettledAtMostOnce` |
| | `EveryTransactionAccounted` | `NoneForgotten` |
| | `ReportsMatchTheLedger` | `OutcomesArePosted`, if the reserve does not pay offline |
| | `CustomersAreSpared` | `ReserveSparesCustomers` (action property) |
| | `ReplayKeepsTheLog` | both promises of the log, under the reconciler |
| `GatewayProofs` | `EdgeTypeCorrect`, `GatewayTypeCorrect` | types of the authorizers; `GatewayTypeOK` |
| | `TerminalSpendIsCapped`, `BoundTokenIsCapped` | `TerminalSpendCapped`, `BoundTokensCapped` |
| | `HoldsAreInFlight` | `HoldsInFlight` |
| | `OnlyLatePaymentsPend` | `OnlyLateArePending` |
| | `NoPaymentChargedTwice` | `ChargedAtMostOnce`, if `ClientsBehave` |
| | `AnswersAreTrue` | `AnswersMatchMoney`, if `ClientsBehave` |
| | `PartitionIsolation` | `OfflinePaidFromAllowance` |
| `StandaloneProofs` | `StandaloneTypeCorrect` | types |
| | `BooksAlwaysBalance`, `OverdraftNeedsNegative` | `BooksBalance`, `OverdraftIsUnchecked` |

### Sums

Balances, journals, grants and deficits are added up with the community modules'
`SumFunction`. `SumTheorems` proves what the other proofs need of it: a sum does not
depend on the order, adding an element adds its value, changing one value changes
the sum by the difference, functions that agree have equal sums, pointwise smaller
ones smaller sums. The induction over finite sets is stated for a set of sets
instead of a predicate (`FiniteSetInduction`), so that no operator has to be
instantiated.

### The invariants

* `LedgerInv`: the types; `MoneyOnlyInOpenAccounts`; `BucketsNonNegative`;
  `OverdraftIsUnchecked`; and `Books`, the equations between balances and the
  journal with the deposit that waits in `funding`. None is inductive alone: all
  need the types, and an account that is opened must have had nothing before.
  `PostingPreserves` covers all operations that move one amount and post it;
  each reduces to it, by cases on its error. The three laws follow from `Books`
  by addition over accounts.
* `LocksInv`: where a goroutine is determines which of its mutexes it holds, and
  that its accounts exist. For `DeadlockNeedsDeficit`, take a circle without a
  descending deficit: the goroutine in it whose awaited mutex has the highest rank
  cannot be blocked by a member of the circle, because that one takes its mutexes
  in ascending order and would wait for a higher one.
* `MoneyInv`: with the amounts in flight given back, all buckets together hold
  what was opened; a running audit that nothing crossed has read exactly the
  settled balances of the accounts it has read; what a goroutine is about to debit
  is covered; there is room in the journal for every call that has begun.
  `Linearizable` maps `balance` to `settledBalance`: the step that credits is the
  ledger's operation, and every other step a stutter or the creation of an account.
  Creating a missing payee is `CreateAccount` with 0, hence its hypothesis.
* `EdgeInv`: `spentByToken` is exactly the sum of the grants of that terminal and
  token, no counter exceeds the signed ceiling, and grants under a bound token are
  made at its terminal.
* `FilterInv`: every stored fingerprint is that of some id in one of its buckets;
  while an insert displaces, the bucket it is at is full; every confirmed id is in
  `Held`, that is, stored or in hand; the same of saved filters. The hash functions enter only by `HashAssumption`.
* `FraudInv`: every approval that was inside the window at the last pruning is still
  in the history (`Retained`), and pruning left nothing else (`Pruned`). Both are
  about readings of the clock, which may get the mutex in the wrong order; they
  are inductive because an old reading never sets `lastPruneTime` back.
* `WALInv`: an acknowledged transaction that is not `exposed` has a frame among the
  durable ones with only whole frames up to it; a frame is torn only if a failed
  write tore it since the log was opened; map and order list the same.
* `ReconInv`: where the replay is (`ReplayWell`, which includes `WALInv`),
  `NoneForgotten`, and for each transaction `MoneyOf`: nothing is posted for it
  before the loop takes it, nothing until the first commit, at most the customer's
  part before the reserve's turn, and afterwards what status and deficit record say.
  `SettledAtMostOnce` is not inductive without it, because the covered part is a
  value of the snapshot and not of the balances, which others change meanwhile.
  If the deficit reserve itself paid offline, its own part and the reserve's would be
  debits of one label; the code does not exclude it, so `ReportsMatchTheLedger` says
  `NotTheReserve` in a hypothesis. The other theorems do not need it.
* `GatewayInv`: what is known of the replay and the log (`ReplayInv({})`, that is
  `ReconInv` without any payment's money), `EdgeInv`, types; the holds on an account
  are exactly the amounts of the requests at their commit (`HoldsInFlight`), each of
  which can pay (`HoldersCanPay`: the payer is open and the amount positive, so that
  no commit is refused after its reservation); and every pending transaction is
  late, in the batch of the replay, or waits for a reconnection (`PendingIsKnown`).
  It asks nothing of the clients: they may submit a payment as often as they like.
* `ClientInv`: what follows one payment through requests, cache, log and replay, for
  clients that keep `ClientsBehave`: they retry after an answer only
  (`~RetriesOverlap`) and under one non-empty key per payment (`RetriesShareKeys`). A
  request in flight is the only one of its payment (`OneInFlight`), the cache holds
  the answers given and no others (`CacheIsTruthful`), a payment is untouched until
  its answer (`MoneyByProgress`), and from the log on its money is as `MoneyOf` says
  (`QueuedMoney`). Run `gateway_retry` shows that the theorems fail without the
  first half of the contract. TLC evaluates the second half on run `gateway`.
* `AllowanceInv`: while the tokens are covered, the payments that are authorized or
  in the log add up to no more than the counters of the tokens (`ClaimsCounted`),
  which `EdgeInv` caps by the ceilings, plus what negative grants gave back to them
  (`GivenBack`); a negative payment claims nothing (`Payable`), since no commit takes
  it from the allowance; the allowance of a party is what it was less
  what was settled from it (`AllowanceLeft`); so the replay's first source always
  suffices (`NothingElseNeeded`) for every payment that is not negative. `TokensCovered`
  and `PayersPresentOwnTokens`, its hypotheses, are those of the property: the code
  compares neither.
* `ReplayOrderProofs`: the fold that defines the sort is a table over sets of
  indices; from it, `SortInserts` has one insertion per element. An insertion keeps a
  sequence strictly sorted if the comparison is transitive on its elements, and two
  strictly sorted sequences of the same elements are equal, which is why the arrival
  does not matter. For two terminals the comparison is transitive (`NoCircle`): of
  three transactions two share a terminal, these are ordered by their sequence
  numbers both by clock and by tie-breaker, and a circle through the third would
  need a sequence number both smaller and larger. `ClocksCount` is used here only;
  TLC evaluates it on run `replay_order`.
* `StandaloneInv`: types, `OverdraftIsUnchecked`, the three equations of
  `BooksBalance`, and what handlers have settled against what the log lists. It needs
  no fact about mutexes: every bucket is changed in one step, and the step that
  takes a negative amount from a payee adds the same to `TakenUnchecked`.

The assumptions on constants say that sets which are summed over or counted are
finite (`Accounts`, `Threads`, `Indices`, `TokenIDs`, `Requests`; in `Standalone` also
`Opened`, `Toggles` and `TxIDs`), that amounts are integers, clocks and bounds natural
numbers, that payments name accounts, that the
server can allocate the allowance at its start (`AllowanceAssumption`), that a TxID
has one payload (`QueuedAssumption`), and that the values that stand for nothing
(`NoTx`, `NoThread`, `Nobody`, `EmptySlot`, ...) are none of the others. TLC
evaluates them on every run. Amounts of payments, grants and postings, ceilings and the
opening balances of `Ledger` may be negative.

### Model-checked only

* Liveness (`CallsReturn`, `ReplayEnds`, `AnsweredUnlessUnsafe` and the gateway's):
  it needs ENABLED, which the prover does not reason about.
* The finding of `replay_race` and of `gateway_retry`: counterexamples.

## What is not modelled

* The command line client and the dashboards: input and output.
* JSON, routing, ISO codes, the digest and the signature of QR codes. Generating a
  QR code changes no state of the server.
* `ResetSpentCache` of the authorizer, which only a unit test calls, and `Close` of
  the logs.
* The byte layout of frames and of a serialized filter; a frame is whole or torn, and
  a filter's bytes are refused or complete.
* Overflow of amounts (int64).
* The restart of the composed gateway; `Reconciler` has it for the log, the ledger and
  the replay.
* The fraud engine and the filter of the all-in-one program (smaller copies of the
  ones modelled), its self-tests and its benchmarks; the ledger operations that
  only those call.
* The fraud engine's `accountIPs`, which is written and never read.

## State of the work

The modules are complete as far as the section above says, and every safety property
that a passing run checks is a theorem. What could still be added: a restart of the
composed gateway, which loses the idempotency cache and would need clients that
remember their answers; and a queued payment of an account to itself, whose deficit
posting blocks the replay for ever: `LedgerLocks` has the posting, `Reconciler` assumes
that payer and payee differ.
