---------------------------- MODULE FraudEngine ----------------------------
(***************************************************************************)
(* The fraud screening of internal/fraud/m3_graph_fraud.go and the epochs  *)
(* of dynamic QR codes of internal/fraud/qr_verifier.go.                   *)
(*                                                                         *)
(* ScreenTransaction reads the clock when it begins and takes g.mu only    *)
(* after it has verified the QR code: a call that waits for the mutex      *)
(* works with an old reading, while others prune and record with newer     *)
(* ones.  What it does under g.mu is one step.                             *)
(*                                                                         *)
(* Scores are in hundredths; the sums the code makes of them are exact at  *)
(* the threshold.  Their cap at 1.0 is above the threshold and left out.   *)
(* The code keeps an account's events in a slice and never looks at their  *)
(* order: here they are a set.                                             *)
(* accountIPs, which nobody reads, is left out too.  Terminals are         *)
(* registered, and thresholds set, before the first screening: the former  *)
(* are a constant, the latter are chosen at the start and then stay.       *)
(***************************************************************************)
EXTENDS Integers, FiniteSets, Functions

CONSTANTS
  Accounts,
  NoAccount,          \* the empty ToAcc
  Devices,
  NoDevice,           \* the empty DeviceID
  Calls,              \* what callers pass to ScreenTransaction
  TerminalMerchant,   \* g.terminalToMerch
  Screeners,          \* the goroutines that call it
  Window,             \* SlidingWindowDuration
  PruneEvery,         \* the 30 seconds between prunings
  DeviceLimit,        \* the 3 devices that count as hopping
  HighAmount,         \* the 500000 cents above which an amount is high
  Thresholds,         \* the pairs warn, reject that are configured
  EpochInterval,      \* EpochIntervalSeconds
  MaxEpochSkew,       \* MaxEpochSkewSeconds
  MaxTime,            \* bound on the clock
  MaxApproved         \* bound on the approvals between two resets

ASSUME ClockAssumption ==
  /\ Window \in Nat /\ PruneEvery \in Nat /\ MaxTime \in Nat
  /\ EpochInterval \in Nat \ {0} /\ MaxEpochSkew \in Nat
ASSUME NoNamesAssumption ==
  NoAccount \notin Accounts /\ NoDevice \notin Devices
ASSUME CallsAssumption ==
  \A c \in Calls : /\ c.from \in Accounts
                   /\ c.to \in Accounts \cup {NoAccount}
                   /\ c.device \in Devices \cup {NoDevice}
                   /\ c.amount \in Int
ASSUME ThresholdsAssumption ==
  \A th \in Thresholds : th.warn \in Int /\ th.reject \in Int
ASSUME LimitsAssumption ==
  DeviceLimit \in Nat /\ HighAmount \in Nat /\ MaxApproved \in Nat

VARIABLES
  now,               \* time.Now()
  accountTransfers,  \* g.accountTransfers
  accountDevices,    \* g.accountDevices: when each device was last seen
  lastPruneTime,     \* g.lastPruneTime
  thresholds,        \* velocityWarnThreshold and velocityRejectThreshold
  waiting,           \* the call of each screener and its reading of the clock
  approved,          \* history: the number of approvals since the last Reset
  log                \* history: those of them that were not cleared, by number

fraudVars == <<now, accountTransfers, accountDevices, lastPruneTime,
               thresholds, waiting, approved, log>>

Endpoints == Accounts \cup {NoAccount}

Never == -1

Idle == <<>>

NoQR == <<>>

(* An event.  `nr', which tells equal events apart, and `at', the time at  *)
(* which it was recorded, are history.                                     *)
Event == [nr : Nat, to : Endpoints, ts : Nat, at : Nat]

Approval == [from : Accounts, to : Endpoints, ts : Nat, at : Nat]

NoEvents == [a \in Endpoints |-> {}]
NoDevices == [a \in Accounts |-> [d \in Devices |-> Never]]

FraudInit ==
  /\ now = 0
  /\ accountTransfers = NoEvents
  /\ accountDevices = NoDevices
  /\ lastPruneTime = 0
  /\ thresholds \in Thresholds
  /\ waiting = [g \in Screeners |-> Idle]
  /\ approved = 0
  /\ log = <<>>

-----------------------------------------------------------------------------
(***************************************************************************)
(* The signed QR code of a call.  A signature stands for the fields it was *)
(* made over: `genuine' says that they are the ones presented.  A terminal *)
(* that is registered must be the merchant's; one that is not passes.      *)
(***************************************************************************)
VerifyQR(qr) ==
  /\ qr.terminal \in DOMAIN TerminalMerchant =>
       TerminalMerchant[qr.terminal] = qr.merchant
  /\ qr.genuine

(* ScreenTransaction up to g.mu.Lock.  A bad QR code ends it.              *)
Arrive(g, c) ==
  /\ waiting[g] = Idle
  /\ approved + Cardinality({h \in Screeners : waiting[h] /= Idle})
       < MaxApproved
  /\ waiting' = IF c.qr = NoQR \/ VerifyQR(c.qr)
                THEN [waiting EXCEPT ![g] = [call |-> c, ts |-> now]]
                ELSE waiting
  /\ UNCHANGED <<now, accountTransfers, accountDevices, lastPruneTime,
                 thresholds, approved, log>>

(* The events, and the devices, that are after a cutoff.                   *)
EventsAfter(events, cutoff) == {e \in events : e.ts > cutoff}

DevicesAfter(seen, cutoff) == {d \in Devices : seen[d] > cutoff}

(* Mutant: the interval between prunings is taken for the window.          *)
PruneExpiredTooMuch(t) ==
  [a \in Endpoints |-> EventsAfter(accountTransfers[a], t - PruneEvery)]

(* pruneExpiredEvents at reading t, for the events and for the devices.    *)
PruneExpiredEvents(t) ==
  [a \in Endpoints |-> EventsAfter(accountTransfers[a], t - Window)]

PruneExpiredDevices(t) ==
  [a \in Accounts |-> [d \in Devices |->
     IF accountDevices[a][d] < t - Window THEN Never
     ELSE accountDevices[a][d]]]

PruneDue(t) == t - lastPruneTime > PruneEvery

(* Mutant: only direct cycles are looked for.                              *)
DetectDirectCycle(transfers, from, to, t) ==
  /\ to \notin {NoAccount, from}
  /\ \E e \in EventsAfter(transfers[to], t - Window) : e.to = from

(* detectCycleBFS: to has paid from back, directly or over one account.    *)
DetectCycleBFS(transfers, from, to, t) ==
  LET After(a) == EventsAfter(transfers[a], t - Window)
  IN  /\ to \notin {NoAccount, from}
      /\ \E e1 \in After(to) :
           e1.to = from \/ \E e2 \in After(e1.to) : e2.to = from

VelocityScore(n) ==
  IF thresholds.reject > 0 /\ n >= thresholds.reject THEN 80
  ELSE IF thresholds.warn > 0 /\ n >= thresholds.warn THEN 50
  ELSE IF thresholds.warn > 1 /\ n >= thresholds.warn \div 2 THEN 20
  ELSE 0

(* The fraud score of a call with n recent transfers and k devices.        *)
Score(n, k, amount) ==
  5 + VelocityScore(n) + (IF k >= DeviceLimit THEN 35 ELSE 0)
    + (IF amount > HighAmount THEN 15 ELSE 0)

FraudScoreThreshold == 75

(* The approved call is recorded.                                          *)
Record(transfers, devices, c, t) ==
  /\ accountTransfers' =
       [transfers EXCEPT ![c.from] = @ \cup
          {[nr |-> approved + 1, to |-> c.to, ts |-> t, at |-> now]}]
  /\ accountDevices' =
       IF c.device = NoDevice THEN devices
       ELSE [devices EXCEPT ![c.from][c.device] = t]
  /\ approved' = approved + 1
  /\ log' = [i \in DOMAIN log \cup {approved + 1} |->
               IF i \in DOMAIN log THEN log[i]
               ELSE [from |-> c.from, to |-> c.to, ts |-> t, at |-> now]]

(* Mutant: nothing is pruned.                                              *)
ScreenUnpruned(g) ==
  LET c == waiting[g].call
      t == waiting[g].ts
  IN  /\ waiting[g] /= Idle
      /\ IF DetectCycleBFS(accountTransfers, c.from, c.to, t)
         THEN UNCHANGED <<accountTransfers, accountDevices, approved, log>>
         ELSE Record(accountTransfers, accountDevices, c, t)
      /\ waiting' = [waiting EXCEPT ![g] = Idle]
      /\ UNCHANGED <<now, lastPruneTime, thresholds>>

(* ScreenTransaction under g.mu.                                           *)
Screen(g) ==
  LET c == waiting[g].call
      t == waiting[g].ts
      transfers == IF PruneDue(t) THEN PruneExpiredEvents(t)
                   ELSE accountTransfers
      devices == IF PruneDue(t) THEN PruneExpiredDevices(t)
                 ELSE accountDevices
      velocityCount == Cardinality(EventsAfter(transfers[c.from], t - Window))
      deviceCount == Cardinality(DevicesAfter(devices[c.from], t - Window))
  IN  /\ waiting[g] /= Idle
      /\ lastPruneTime' = IF PruneDue(t) THEN t ELSE lastPruneTime
      /\ IF \/ DetectCycleBFS(transfers, c.from, c.to, t)
            \/ Score(velocityCount, deviceCount, c.amount)
                 >= FraudScoreThreshold
         THEN /\ accountTransfers' = transfers
              /\ accountDevices' = devices
              /\ UNCHANGED <<approved, log>>
         ELSE Record(transfers, devices, c, t)
      /\ waiting' = [waiting EXCEPT ![g] = Idle]
      /\ UNCHANGED <<now, thresholds>>

(* handleCreateAccount forgets what the account has sent, and its devices. *)
ClearAccountHistory(a) ==
  /\ accountTransfers' = [accountTransfers EXCEPT ![a] = {}]
  /\ accountDevices' = [accountDevices EXCEPT ![a] = NoDevices[a]]
  /\ log' = Restrict(log, {i \in DOMAIN log : log[i].from /= a})
  /\ UNCHANGED <<now, lastPruneTime, thresholds, waiting, approved>>

(* Mutant: the next pruning is put off by a tick.                          *)
ResetAhead ==
  /\ accountTransfers' = NoEvents
  /\ accountDevices' = NoDevices
  /\ lastPruneTime' = now + 1
  /\ approved' = 0
  /\ log' = <<>>
  /\ UNCHANGED <<now, thresholds, waiting>>

(* handleResetFraud.                                                       *)
Reset ==
  /\ accountTransfers' = NoEvents
  /\ accountDevices' = NoDevices
  /\ lastPruneTime' = now
  /\ approved' = 0
  /\ log' = <<>>
  /\ UNCHANGED <<now, thresholds, waiting>>

Tick ==
  /\ now < MaxTime
  /\ now' = now + 1
  /\ UNCHANGED <<accountTransfers, accountDevices, lastPruneTime, thresholds,
                 waiting, approved, log>>

FraudNext ==
  \/ \E g \in Screeners : Screen(g) \/ \E c \in Calls : Arrive(g, c)
  \/ \E a \in Accounts : ClearAccountHistory(a)
  \/ Reset
  \/ Tick

FraudSpec == FraudInit /\ [][FraudNext]_fraudVars

-----------------------------------------------------------------------------
(* The EpochSalt of a QR code signed at time t, and whether a code with    *)
(* that salt is fresh at time u.                                           *)
CurrentEpochSalt(t) == (t \div EpochInterval) * EpochInterval

Distance(m, n) == IF m < n THEN n - m ELSE m - n

(* Mutant: the salt is compared as if it were the time of signing.         *)
EpochFreshNarrow(salt, u) == Distance(u, salt) <= MaxEpochSkew - EpochInterval

EpochFresh(salt, u) == Distance(u, salt) <= MaxEpochSkew

-----------------------------------------------------------------------------
(* Type invariant.                                                         *)
FraudTypeOK ==
  /\ now \in Nat
  /\ accountTransfers \in [Endpoints -> SUBSET Event]
  /\ accountDevices \in [Accounts -> [Devices -> Nat \cup {Never}]]
  /\ lastPruneTime \in 0..now
  /\ thresholds \in Thresholds
  /\ waiting \in [Screeners -> [call : Calls, ts : 0..now] \cup {Idle}]
  /\ approved \in Nat
  /\ DOMAIN log \subseteq 1..approved
  /\ log \in [DOMAIN log -> Approval]

(* The approvals before the j-th that were inside the window when that one *)
(* was recorded.                                                           *)
LiveBefore(j) ==
  {i \in DOMAIN log : i < j /\ log[i].ts > log[j].at - Window}

(***************************************************************************)
(* "Mule Chain & Cycle Detection" (m3_graph_fraud.go:194): no approved     *)
(* payment closes a ring of two or three accounts over approvals that were *)
(* still inside the window when it was recorded, however long any of the   *)
(* calls waited for the mutex and whatever was pruned meanwhile.           *)
(***************************************************************************)
NoLiveRing ==
  \A j \in DOMAIN log :
    log[j].to /= log[j].from =>
      \A i \in LiveBefore(j) :
        log[i].from = log[j].to =>
          /\ log[i].to /= log[j].from
          /\ \A k \in LiveBefore(j) :
               log[k].from = log[i].to => log[k].to /= log[j].from

(***************************************************************************)
(* No account gets more approvals inside one window than the threshold     *)
(* allows, whatever the order of the readings.                             *)
(***************************************************************************)
VelocityCapped ==
  thresholds.reject > 0 =>
    \A j \in DOMAIN log :
      Cardinality({i \in LiveBefore(j) : log[i].from = log[j].from})
        < thresholds.reject

(* The screening of g, which read the clock at t, leaves nothing that was  *)
(* on record PruneEvery before t and had then left the window.             *)
PrunedBy(g) ==
  waiting[g] /= Idle /\ waiting'[g] = Idle =>
    LET since == waiting[g].ts - PruneEvery
    IN  \A a \in Endpoints : \A e \in accountTransfers'[a] :
          e.at < since => e.ts > since - Window

ScreeningPrunes == \A g \in Screeners : PrunedBy(g)

(***************************************************************************)
(* "cleans up events older than 60s" (m3_graph_fraud.go:334): no screening *)
(* ends with events on record that had left the window PruneEvery before   *)
(* its reading of the clock.                                               *)
(***************************************************************************)
HistoryBounded == [][ScreeningPrunes]_fraudVars

(***************************************************************************)
(* A QR code lives at least MaxEpochSkew - EpochInterval and at most       *)
(* MaxEpochSkew after its signing, wherever in its epoch it was signed.    *)
(***************************************************************************)
QRLifetime ==
  \A signed \in 0..now :
    LET age == now - signed
    IN  /\ age <= MaxEpochSkew - EpochInterval =>
             EpochFresh(CurrentEpochSalt(signed), now)
        /\ EpochFresh(CurrentEpochSalt(signed), now) => age <= MaxEpochSkew

=============================================================================
