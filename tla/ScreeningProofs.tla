-------------------------- MODULE ScreeningProofs --------------------------
(***************************************************************************)
(* Proofs about the two filters a payment passes.                          *)
(*                                                                         *)
(* The fraud engine, for any accounts, calls, screeners, window, pruning   *)
(* interval and thresholds: no live ring is approved, the velocity limit   *)
(* holds, the history stays bounded and QR codes live as long as they      *)
(* should.                                                                 *)
(*                                                                         *)
(* The cuckoo filter of revoked ids, for any hash functions, any number    *)
(* and size of buckets and any number of displacements: its count is       *)
(* right, it answers for every id whose insertion it confirmed, and it     *)
(* implements RevocationSet.                                               *)
(***************************************************************************)
EXTENDS FraudEngine, CompactFilter, SumTheorems, FiniteSetTheorems, TLAPS

(***************************************************************************)
(* The fraud engine.                                                       *)
(***************************************************************************)

(* The event under which approval i of a log is on record.                 *)
EventOf(lg, i) == [nr |-> i, to |-> lg[i].to, ts |-> lg[i].ts, at |-> lg[i].at]

(* Pruning has removed no approval that was inside the window at the last  *)
(* pruning,                                                                *)
Retained(transfers, lg, pruned) ==
  \A i \in DOMAIN lg :
    lg[i].ts > pruned - Window => EventOf(lg, i) \in transfers[lg[i].from]

(* and of the events that were on record then it has left no other.        *)
Pruned(transfers, pruned) ==
  \A a \in Endpoints : \A e \in transfers[a] :
    e.at < pruned => e.ts > pruned - Window

Finite(transfers) == \A a \in Endpoints : IsFiniteSet(transfers[a])

(* The inductive invariant.                                                *)
FraudInv ==
  /\ FraudTypeOK
  /\ Finite(accountTransfers)
  /\ Retained(accountTransfers, log, lastPruneTime)
  /\ Pruned(accountTransfers, lastPruneTime)
  /\ NoLiveRing
  /\ VelocityCapped

-----------------------------------------------------------------------------
(* The record that ScreenTransaction works with after it has pruned, if it *)
(* was time to prune.                                                      *)
TransfersAt(t) ==
  IF PruneDue(t) THEN PruneExpiredEvents(t) ELSE accountTransfers

PruneTimeAt(t) == IF PruneDue(t) THEN t ELSE lastPruneTime

(* A pruning with a reading of the clock that may be old loses nothing     *)
(* that is inside the window now, and what it leaves was inside it         *)
(* PruneEvery before.                                                      *)
LEMMA PruningKeeps ==
  ASSUME FraudInv, NEW t \in 0..now
  PROVE  /\ PruneTimeAt(t) \in 0..now
         /\ TransfersAt(t) \in [Endpoints -> SUBSET Event]
         /\ Finite(TransfersAt(t))
         /\ Retained(TransfersAt(t), log, PruneTimeAt(t))
         /\ Pruned(TransfersAt(t), PruneTimeAt(t))
         /\ \A a \in Endpoints : \A e \in TransfersAt(t)[a] :
              e.at < t - PruneEvery => e.ts > (t - PruneEvery) - Window
<1> USE ClockAssumption
<1>1. /\ now \in Nat /\ lastPruneTime \in 0..now /\ t \in Nat
      /\ accountTransfers \in [Endpoints -> SUBSET Event]
      /\ log \in [DOMAIN log -> Approval]
  BY DEF FraudInv, FraudTypeOK
<1>2. \A e \in Event : e.ts \in Nat /\ e.at \in Nat
  BY DEF Event
<1>3. CASE PruneDue(t)
  <2>1. /\ TransfersAt(t) = PruneExpiredEvents(t) /\ PruneTimeAt(t) = t
        /\ t > lastPruneTime
    BY <1>1, <1>3 DEF TransfersAt, PruneTimeAt, PruneDue
  <2>2. TransfersAt(t) =
          [a \in Endpoints |-> {e \in accountTransfers[a] : e.ts > t - Window}]
    BY <2>1 DEF PruneExpiredEvents, EventsAfter
  <2>3. /\ TransfersAt(t) \in [Endpoints -> SUBSET Event]
        /\ \A a \in Endpoints : TransfersAt(t)[a] \subseteq accountTransfers[a]
    BY <1>1, <2>2
  <2>4. Finite(TransfersAt(t))
    BY <2>3, FS_Subset DEF FraudInv, Finite
  <2>5. Retained(TransfersAt(t), log, t)
    <3>1. SUFFICES ASSUME NEW i \in DOMAIN log, log[i].ts > t - Window
                   PROVE  EventOf(log, i) \in TransfersAt(t)[log[i].from]
      BY DEF Retained
    <3>2. log[i].ts \in Nat /\ log[i].from \in Endpoints
      BY <1>1 DEF Approval, Endpoints
    <3>3. log[i].ts > lastPruneTime - Window
      BY <1>1, <2>1, <3>1, <3>2
    <3>4. EventOf(log, i) \in accountTransfers[log[i].from]
      BY <3>3 DEF FraudInv, Retained
    <3>5. EventOf(log, i).ts = log[i].ts
      BY DEF EventOf
    <3>6. QED
      BY <2>2, <3>1, <3>2, <3>4, <3>5
  <2>6. ASSUME NEW a \in Endpoints, NEW e \in TransfersAt(t)[a]
        PROVE  e.ts > t - Window /\ e.ts > (t - PruneEvery) - Window
    <3>1. e \in Event /\ e.ts > t - Window
      BY <1>1, <2>2
    <3>2. QED
      BY <1>1, <1>2, <3>1
  <2>7. Pruned(TransfersAt(t), t)
    BY <2>6 DEF Pruned
  <2>8. QED
    BY <2>1, <2>3, <2>4, <2>5, <2>6, <2>7
<1>4. CASE ~PruneDue(t)
  <2>1. /\ TransfersAt(t) = accountTransfers
        /\ PruneTimeAt(t) = lastPruneTime
        /\ lastPruneTime >= t - PruneEvery
    BY <1>1, <1>4 DEF TransfersAt, PruneTimeAt, PruneDue
  <2>2. ASSUME NEW a \in Endpoints, NEW e \in accountTransfers[a],
               e.at < t - PruneEvery
        PROVE  e.ts > (t - PruneEvery) - Window
    <3>1. e.ts \in Nat /\ e.at \in Nat
      BY <1>1, <1>2
    <3>2. e.ts > lastPruneTime - Window
      BY <1>1, <2>1, <2>2, <3>1 DEF FraudInv, Pruned
    <3>3. QED
      BY <1>1, <2>1, <3>1, <3>2
  <2>3. QED
    BY <1>1, <2>1, <2>2 DEF FraudInv
<1>5. QED
  BY <1>3, <1>4

(* A live approval is among the events that a screening looks at, however  *)
(* old its reading of the clock.                                           *)
LEMMA LiveIsSeen ==
  ASSUME FraudInv, NEW t \in 0..now, NEW i \in DOMAIN log,
         log[i].ts > now - Window
  PROVE  EventOf(log, i)
           \in EventsAfter(TransfersAt(t)[log[i].from], t - Window)
<1>1. /\ now \in Nat /\ PruneTimeAt(t) \in 0..now /\ Window \in Nat
      /\ Retained(TransfersAt(t), log, PruneTimeAt(t))
  BY PruningKeeps, ClockAssumption DEF FraudInv, FraudTypeOK
<1>2. log[i].ts \in Nat
  BY DEF FraudInv, FraudTypeOK, Approval
<1>3. log[i].ts > PruneTimeAt(t) - Window /\ log[i].ts > t - Window
  BY <1>1, <1>2
<1>4. EventOf(log, i) \in TransfersAt(t)[log[i].from]
  BY <1>1, <1>3 DEF Retained
<1>5. EventOf(log, i).ts = log[i].ts
  BY DEF EventOf
<1>6. QED
  BY <1>3, <1>4, <1>5 DEF EventsAfter

(* The score of an account at its velocity limit is above the threshold.   *)
LEMMA VelocityScoreRejects ==
  ASSUME NEW n \in Nat, NEW k, NEW amount, thresholds.reject \in Int,
         thresholds.reject > 0, n >= thresholds.reject
  PROVE  Score(n, k, amount) >= FraudScoreThreshold
<1>1. VelocityScore(n) = 80
  BY DEF VelocityScore
<1>2. QED
  BY <1>1 DEF Score, FraudScoreThreshold

-----------------------------------------------------------------------------
(* The invariant holds of an engine without history.                       *)
LEMMA FraudInvInit == FraudInit => FraudInv
<1>1. SUFFICES ASSUME FraudInit PROVE FraudInv
  OBVIOUS
<1>2. DOMAIN log = {}
  BY <1>1 DEF FraudInit
<1>3. \A a \in Endpoints : accountTransfers[a] = {}
  BY <1>1 DEF FraudInit, NoEvents
<1>4. FraudTypeOK
  BY <1>1, <1>2 DEF FraudInit, FraudTypeOK, NoEvents, NoDevices
<1>5. QED
  BY <1>2, <1>3, <1>4, FS_EmptySet
     DEF FraudInv, Finite, Retained, Pruned, NoLiveRing, VelocityCapped

(* The approvals on the log are finitely many.                             *)
LEMMA LogFinite ==
  ASSUME FraudTypeOK
  PROVE  IsFiniteSet(DOMAIN log)
<1>1. approved \in Int /\ DOMAIN log \subseteq 1..approved
  BY DEF FraudTypeOK
<1>2. IsFiniteSet(1..approved)
  BY <1>1, FS_Interval
<1>3. QED
  BY <1>1, <1>2, FS_Subset

(* The invariant's parts about the log are kept by a step that takes       *)
(* approvals out of it, adds none and leaves the thresholds alone.         *)
LEMMA ShorterLogKeepsLimits ==
  ASSUME FraudInv, DOMAIN log' \subseteq DOMAIN log,
         \A i \in DOMAIN log' : log'[i] = log[i], thresholds' = thresholds
  PROVE  NoLiveRing' /\ VelocityCapped'
<1>1. ASSUME NEW j \in DOMAIN log'
      PROVE  LiveBefore(j)' \subseteq LiveBefore(j)
  BY DEF LiveBefore
<1>2. NoLiveRing'
  <2>1. SUFFICES ASSUME NEW j \in DOMAIN log', log'[j].to /= log'[j].from,
                        NEW i \in LiveBefore(j)', log'[i].from = log'[j].to
                 PROVE  /\ log'[i].to /= log'[j].from
                        /\ \A k \in LiveBefore(j)' :
                             log'[k].from = log'[i].to =>
                               log'[k].to /= log'[j].from
    BY DEF NoLiveRing
  <2>2. i \in DOMAIN log' /\ i \in LiveBefore(j)
    BY <1>1 DEF LiveBefore
  <2>3. \A k \in LiveBefore(j)' : k \in DOMAIN log' /\ k \in LiveBefore(j)
    BY <1>1 DEF LiveBefore
  <2>4. QED
    BY <2>1, <2>2, <2>3 DEF FraudInv, NoLiveRing
<1>3. VelocityCapped'
  <2>1. SUFFICES ASSUME thresholds.reject > 0, NEW j \in DOMAIN log'
                 PROVE  Cardinality({i \in LiveBefore(j)' :
                                       log'[i].from = log'[j].from})
                          < thresholds.reject
    BY DEF VelocityCapped
  <2> DEFINE New == {i \in LiveBefore(j)' : log'[i].from = log'[j].from}
             Old == {i \in LiveBefore(j) : log[i].from = log[j].from}
  <2>2. New \subseteq Old
    BY <1>1 DEF LiveBefore
  <2>3. IsFiniteSet(Old)
    <3>1. Old \subseteq DOMAIN log
      BY DEF LiveBefore
    <3>2. QED
      BY <3>1, LogFinite, FS_Subset DEF FraudInv
  <2>4. Cardinality(Old) < thresholds.reject
    BY <2>1 DEF FraudInv, VelocityCapped
  <2>5. thresholds.reject \in Int
    BY ThresholdsAssumption DEF FraudInv, FraudTypeOK
  <2> HIDE DEF New, Old
  <2>6. /\ Cardinality(New) \in Nat /\ Cardinality(Old) \in Nat
        /\ Cardinality(New) <= Cardinality(Old)
    BY <2>2, <2>3, FS_Subset, FS_CardinalityType
  <2>7. Cardinality(New) < thresholds.reject
    BY <2>4, <2>5, <2>6
  <2>8. QED
    BY <2>7 DEF New
<1>4. QED
  BY <1>2, <1>3

(* The cycle search misses no ring over approvals that are live now.       *)
LEMMA CycleSearchIsComplete ==
  ASSUME FraudInv, NEW t \in 0..now, NEW from \in Accounts,
         NEW to \in Endpoints, to /= from,
         ~DetectCycleBFS(TransfersAt(t), from, to, t),
         NEW i \in DOMAIN log, log[i].ts > now - Window, log[i].from = to
  PROVE  /\ log[i].to /= from
         /\ \A k \in DOMAIN log :
              log[k].ts > now - Window /\ log[k].from = log[i].to =>
                log[k].to /= from
<1> DEFINE After(a) == EventsAfter(TransfersAt(t)[a], t - Window)
<1>1. to /= NoAccount
  BY NoNamesAssumption DEF FraudInv, FraudTypeOK, Approval
<1>2. \A e1 \in After(to) :
        /\ e1.to /= from
        /\ \A e2 \in After(e1.to) : e2.to /= from
  BY <1>1 DEF DetectCycleBFS
<1>3. EventOf(log, i) \in After(to) /\ EventOf(log, i).to = log[i].to
  BY LiveIsSeen DEF EventOf
<1>4. ASSUME NEW k \in DOMAIN log, log[k].ts > now - Window,
             log[k].from = log[i].to
      PROVE  log[k].to /= from
  <2>1. /\ EventOf(log, k) \in After(EventOf(log, i).to)
        /\ EventOf(log, k).to = log[k].to
    BY <1>3, <1>4, LiveIsSeen DEF EventOf
  <2>2. QED
    BY <1>2, <1>3, <2>1
<1>5. QED
  BY <1>2, <1>3, <1>4

(* The events a screening counts are at least the account's live           *)
(* approvals.                                                              *)
LEMMA VelocityCountIsComplete ==
  ASSUME FraudInv, NEW t \in 0..now, NEW from \in Accounts
  PROVE  LET live == {i \in DOMAIN log : /\ log[i].ts > now - Window
                                         /\ log[i].from = from}
             events == EventsAfter(TransfersAt(t)[from], t - Window)
         IN  /\ Cardinality(live) \in Nat /\ Cardinality(events) \in Nat
             /\ Cardinality(live) <= Cardinality(events)
<1> DEFINE live == {i \in DOMAIN log : /\ log[i].ts > now - Window
                                       /\ log[i].from = from}
           events == EventsAfter(TransfersAt(t)[from], t - Window)
           numbers == {e.nr : e \in events}
<1>1. IsFiniteSet(events)
  <2>1. IsFiniteSet(TransfersAt(t)[from])
    BY PruningKeeps DEF Finite, Endpoints
  <2>2. events \subseteq TransfersAt(t)[from]
    BY DEF EventsAfter
  <2> HIDE DEF events
  <2>3. QED
    BY <2>1, <2>2, FS_Subset
<1>2. live \subseteq numbers
  <2>1. SUFFICES ASSUME NEW i \in live PROVE i \in numbers
    OBVIOUS
  <2>2. EventOf(log, i) \in events /\ EventOf(log, i).nr = i
    BY LiveIsSeen DEF EventOf
  <2>3. QED
    BY <2>2
<1> HIDE DEF live, events
<1>3. /\ IsFiniteSet(numbers) /\ Cardinality(numbers) <= Cardinality(events)
  <2> DEFINE f == [e \in events |-> e.nr]
  <2>1. f \in [events -> numbers]
    OBVIOUS
  <2>2. f \in Surjection(events, numbers)
    BY <2>1 DEF Surjection
  <2> HIDE DEF f, numbers
  <2>3. QED
    BY <1>1, <2>2, FS_Surjection
<1>4. /\ IsFiniteSet(live) /\ Cardinality(live) <= Cardinality(numbers)
  BY <1>2, <1>3, FS_Subset
<1>5. /\ Cardinality(live) \in Nat /\ Cardinality(events) \in Nat
      /\ Cardinality(numbers) \in Nat
  BY <1>1, <1>3, <1>4, FS_CardinalityType
<1>6. Cardinality(live) <= Cardinality(events)
  BY <1>3, <1>4, <1>5
<1>7. QED
  BY <1>5, <1>6 DEF live, events

-----------------------------------------------------------------------------
(* What the screening of a call declines or records.                       *)

(* A declined call leaves what pruning leaves.                             *)
LEMMA DeclinePreserves ==
  ASSUME FraudInv, NEW t \in 0..now, FraudTypeOK',
         accountTransfers' = TransfersAt(t),
         lastPruneTime' = PruneTimeAt(t),
         UNCHANGED <<thresholds, approved, log>>
  PROVE  FraudInv'
<1>1. NoLiveRing' /\ VelocityCapped'
  BY ShorterLogKeepsLimits
<1>2. /\ Finite(TransfersAt(t))
      /\ Retained(TransfersAt(t), log, PruneTimeAt(t))
      /\ Pruned(TransfersAt(t), PruneTimeAt(t))
  BY PruningKeeps
<1>3. QED
  BY <1>1, <1>2 DEF FraudInv

(* An approved call is recorded: it closes no live ring and its account    *)
(* was below the limit.                                                    *)
LEMMA RecordPreserves ==
  ASSUME FraudInv, NEW t \in 0..now, NEW c \in Calls, NEW devices,
         NEW k, FraudTypeOK',
         Record(TransfersAt(t), devices, c, t),
         lastPruneTime' = PruneTimeAt(t),
         UNCHANGED <<now, thresholds>>,
         ~DetectCycleBFS(TransfersAt(t), c.from, c.to, t),
         ~(Score(Cardinality(EventsAfter(TransfersAt(t)[c.from], t - Window)),
                 k, c.amount) >= FraudScoreThreshold)
  PROVE  FraudInv'
<1>0. PICK n \in Nat : n = approved + 1
  BY DEF FraudInv, FraudTypeOK
<1> DEFINE entry == [from |-> c.from, to |-> c.to, ts |-> t, at |-> now]
           event == [nr |-> n, to |-> c.to, ts |-> t, at |-> now]
<1>1. /\ c.from \in Accounts /\ c.from \in Endpoints /\ c.to \in Endpoints
      /\ c.amount \in Int
  BY CallsAssumption DEF Endpoints
<1>2. /\ now \in Nat /\ approved \in Nat /\ n \in Nat /\ t \in Nat
      /\ t <= now
      /\ DOMAIN log \subseteq 1..approved
      /\ log \in [DOMAIN log -> Approval]
      /\ n \notin DOMAIN log
      /\ \A j \in DOMAIN log : j \in Nat /\ j < n
  BY <1>0 DEF FraudInv, FraudTypeOK
<1>3. /\ DOMAIN log' = DOMAIN log \cup {n}
      /\ \A i \in DOMAIN log : log'[i] = log[i]
      /\ log'[n] = entry
      /\ accountTransfers' = [TransfersAt(t) EXCEPT ![c.from] = @ \cup {event}]
  BY <1>0, <1>2 DEF Record
<1>4. /\ TransfersAt(t) \in [Endpoints -> SUBSET Event]
      /\ Finite(TransfersAt(t))
      /\ Retained(TransfersAt(t), log, PruneTimeAt(t))
      /\ Pruned(TransfersAt(t), PruneTimeAt(t))
      /\ PruneTimeAt(t) \in 0..now
  BY PruningKeeps
<1>5. /\ entry.from = c.from /\ entry.to = c.to /\ entry.ts = t
      /\ entry.at = now
      /\ event.nr = n /\ event.to = c.to /\ event.ts = t /\ event.at = now
  OBVIOUS
<1>6. EventOf(log', n) = event
  BY <1>3, <1>5 DEF EventOf
<1> HIDE DEF entry, event
<1>7. ASSUME NEW a \in Endpoints
      PROVE  accountTransfers'[a] =
               IF a = c.from THEN TransfersAt(t)[a] \cup {event}
               ELSE TransfersAt(t)[a]
  BY <1>1, <1>3, <1>4
<1>8. Finite(accountTransfers')
  <2>1. SUFFICES ASSUME NEW a \in Endpoints
                 PROVE  IsFiniteSet(accountTransfers'[a])
    BY DEF Finite
  <2>2. IsFiniteSet(TransfersAt(t)[a])
    BY <1>4 DEF Finite
  <2>3. IsFiniteSet(TransfersAt(t)[a] \cup {event})
    BY <2>2, FS_AddElement
  <2>4. QED
    BY <1>7, <2>2, <2>3
<1>9. Retained(accountTransfers', log', lastPruneTime')
  <2>1. SUFFICES ASSUME NEW i \in DOMAIN log',
                        log'[i].ts > PruneTimeAt(t) - Window
                 PROVE  EventOf(log', i) \in accountTransfers'[log'[i].from]
    BY DEF Retained
  <2>2. CASE i = n
    <3>1. log'[n].from = c.from
      BY <1>3, <1>5
    <3>2. event \in accountTransfers'[c.from]
      BY <1>1, <1>7
    <3>3. QED
      BY <1>6, <2>2, <3>1, <3>2
  <2>3. CASE i \in DOMAIN log
    <3>1. EventOf(log', i) = EventOf(log, i) /\ log'[i] = log[i]
      BY <1>3, <2>3 DEF EventOf
    <3>2. EventOf(log, i) \in TransfersAt(t)[log[i].from]
      BY <1>4, <2>1, <2>3, <3>1 DEF Retained
    <3>3. log[i].from \in Endpoints
      BY <1>2, <2>3 DEF Approval, Endpoints
    <3>4. QED
      BY <1>7, <3>1, <3>2, <3>3
  <2>4. QED
    BY <1>3, <2>2, <2>3
<1>10. Pruned(accountTransfers', lastPruneTime')
  <2>1. SUFFICES ASSUME NEW a \in Endpoints, NEW e \in accountTransfers'[a],
                        e.at < PruneTimeAt(t)
                 PROVE  e.ts > PruneTimeAt(t) - Window
    BY DEF Pruned
  <2>2. e /= event
    BY <1>2, <1>4, <1>5, <2>1
  <2>3. e \in TransfersAt(t)[a]
    BY <1>7, <2>2
  <2>4. QED
    BY <1>4, <2>1, <2>3 DEF Pruned
<1>11. ASSUME NEW j \in DOMAIN log
       PROVE  LiveBefore(j)' = LiveBefore(j)
  <2>1. j < n /\ j \in Nat /\ ~(n < j) /\ log'[j] = log[j]
    BY <1>2, <1>3
  <2>2. QED
    BY <1>3, <2>1 DEF LiveBefore
<1>12. LiveBefore(n)' = {i \in DOMAIN log : log[i].ts > now - Window}
  <2>1. n \in Nat /\ ~(n < n)
    BY <1>2
  <2>2. QED
    BY <1>2, <1>3, <1>5, <2>1 DEF LiveBefore
<1>13. NoLiveRing'
  <2>1. SUFFICES ASSUME NEW j \in DOMAIN log', log'[j].to /= log'[j].from,
                        NEW i \in LiveBefore(j)', log'[i].from = log'[j].to
                 PROVE  /\ log'[i].to /= log'[j].from
                        /\ \A h \in LiveBefore(j)' :
                             log'[h].from = log'[i].to =>
                               log'[h].to /= log'[j].from
    BY DEF NoLiveRing
  <2>2. CASE j = n
    <3>1. /\ i \in DOMAIN log /\ log'[i] = log[i] /\ log[i].ts > now - Window
          /\ log[i].from = c.to /\ c.to /= c.from
      BY <1>3, <1>5, <1>12, <2>1, <2>2
    <3>2. /\ log[i].to /= c.from
          /\ \A h \in DOMAIN log :
               log[h].ts > now - Window /\ log[h].from = log[i].to =>
                 log[h].to /= c.from
      BY <1>1, <3>1, CycleSearchIsComplete
    <3>3. QED
      BY <1>3, <1>5, <1>12, <2>2, <3>1, <3>2
  <2>3. CASE j \in DOMAIN log
    <3>1. LiveBefore(j)' = LiveBefore(j) /\ LiveBefore(j) \subseteq DOMAIN log
      BY <1>11, <2>3 DEF LiveBefore
    <3>2. QED
      BY <1>3, <2>1, <2>3, <3>1 DEF FraudInv, NoLiveRing
  <2>4. QED
    BY <1>3, <2>2, <2>3
<1>14. VelocityCapped'
  <2>1. SUFFICES ASSUME thresholds.reject > 0, NEW j \in DOMAIN log'
                 PROVE  Cardinality({i \in LiveBefore(j)' :
                                       log'[i].from = log'[j].from})
                          < thresholds.reject
    BY DEF VelocityCapped
  <2>2. CASE j = n
    <3> DEFINE live == {i \in DOMAIN log : /\ log[i].ts > now - Window
                                           /\ log[i].from = c.from}
               events ==
                 Cardinality(EventsAfter(TransfersAt(t)[c.from], t - Window))
    <3>1. {i \in LiveBefore(j)' : log'[i].from = log'[j].from} = live
      BY <1>3, <1>5, <1>12, <2>2
    <3>2. /\ Cardinality(live) \in Nat /\ events \in Nat
          /\ Cardinality(live) <= events
      BY <1>1, VelocityCountIsComplete
    <3>3. thresholds.reject \in Int
      BY ThresholdsAssumption DEF FraudInv, FraudTypeOK
    <3>4. ~(Score(events, k, c.amount) >= FraudScoreThreshold)
      OBVIOUS
    <3> HIDE DEF live, events
    <3>5. ~(events >= thresholds.reject)
      BY <2>1, <3>2, <3>3, <3>4, VelocityScoreRejects
    <3>6. Cardinality(live) < thresholds.reject
      BY <3>2, <3>3, <3>5
    <3>7. QED
      BY <3>1, <3>6
  <2>3. CASE j \in DOMAIN log
    <3>1. {i \in LiveBefore(j)' : log'[i].from = log'[j].from}
            = {i \in LiveBefore(j) : log[i].from = log[j].from}
      BY <1>3, <1>11, <2>3 DEF LiveBefore
    <3>2. QED
      BY <2>1, <2>3, <3>1 DEF FraudInv, VelocityCapped
  <2>4. QED
    BY <1>3, <2>2, <2>3
<1>15. QED
  BY <1>8, <1>9, <1>10, <1>13, <1>14 DEF FraudInv

-----------------------------------------------------------------------------
(* The actions.                                                            *)

(* Screening preserves the invariant and leaves the history pruned.        *)
LEMMA ScreenPreserves ==
  ASSUME FraudInv, NEW g \in Screeners, Screen(g)
  PROVE  FraudInv' /\ ScreeningPrunes
<1>1. PICK c \in Calls, t \in 0..now : waiting[g] = [call |-> c, ts |-> t]
  BY DEF FraudInv, FraudTypeOK, Screen
<1> DEFINE devices == IF PruneDue(t) THEN PruneExpiredDevices(t)
                      ELSE accountDevices
           events ==
             Cardinality(EventsAfter(TransfersAt(t)[c.from], t - Window))
           k == Cardinality(DevicesAfter(devices[c.from], t - Window))
           Declined == \/ DetectCycleBFS(TransfersAt(t), c.from, c.to, t)
                       \/ Score(events, k, c.amount) >= FraudScoreThreshold
<1>2. /\ waiting[g].call = c /\ waiting[g].ts = t /\ waiting[g] /= Idle
  BY <1>1 DEF Screen
<1>3. /\ lastPruneTime' = PruneTimeAt(t)
      /\ IF Declined
         THEN /\ accountTransfers' = TransfersAt(t)
              /\ accountDevices' = devices
              /\ UNCHANGED <<approved, log>>
         ELSE Record(TransfersAt(t), devices, c, t)
      /\ waiting' = [waiting EXCEPT ![g] = Idle]
      /\ UNCHANGED <<now, thresholds>>
  BY <1>2 DEF Screen, TransfersAt, PruneTimeAt
<1>4. /\ c.from \in Accounts /\ c.from \in Endpoints /\ c.to \in Endpoints
      /\ c.device \in Devices \cup {NoDevice} /\ c.amount \in Int
  BY CallsAssumption DEF Endpoints
<1>5. devices \in [Accounts -> [Devices -> Nat \cup {Never}]]
  BY DEF FraudInv, FraudTypeOK, PruneExpiredDevices
<1>6. /\ now \in Nat /\ approved \in Nat /\ t \in Nat /\ t <= now
      /\ DOMAIN log \subseteq 1..approved
      /\ log \in [DOMAIN log -> Approval]
      /\ thresholds \in Thresholds
      /\ waiting \in [Screeners -> [call : Calls, ts : 0..now] \cup {Idle}]
  BY DEF FraudInv, FraudTypeOK
<1>7. /\ PruneTimeAt(t) \in 0..now
      /\ TransfersAt(t) \in [Endpoints -> SUBSET Event]
      /\ \A a \in Endpoints : \A e \in TransfersAt(t)[a] :
           e.at < t - PruneEvery => e.ts > (t - PruneEvery) - Window
  BY PruningKeeps
<1>8. waiting' \in [Screeners -> [call : Calls, ts : 0..now] \cup {Idle}]
  BY <1>3, <1>6
<1> HIDE DEF devices, events, k, Declined
<1>9. ASSUME \A a \in Endpoints : \A e \in accountTransfers'[a] :
               e.at < t - PruneEvery => e.ts > (t - PruneEvery) - Window
      PROVE  ScreeningPrunes
  <2>1. SUFFICES ASSUME NEW h \in Screeners,
                        waiting[h] /= Idle, waiting'[h] = Idle
                 PROVE  h = g
    BY <1>2, <1>9 DEF ScreeningPrunes, PrunedBy
  <2>2. QED
    BY <1>3, <1>6, <2>1
<1>10. CASE Declined
  <2>1. /\ accountTransfers' = TransfersAt(t)
        /\ accountDevices' = devices
        /\ UNCHANGED <<approved, log>>
    BY <1>3, <1>10
  <2>2. FraudTypeOK'
    BY <1>3, <1>5, <1>6, <1>7, <1>8, <2>1 DEF FraudTypeOK
  <2>3. FraudInv'
    BY <1>3, <2>1, <2>2, DeclinePreserves
  <2>4. QED
    BY <1>7, <1>9, <2>1, <2>3
<1>11. CASE ~Declined
  <2>1. Record(TransfersAt(t), devices, c, t)
    BY <1>3, <1>11
  <2> DEFINE event == [nr |-> approved + 1, to |-> c.to, ts |-> t, at |-> now]
             entry == [from |-> c.from, to |-> c.to, ts |-> t, at |-> now]
  <2>2. /\ event \in Event /\ entry \in Approval
        /\ event.at = now
    BY <1>4, <1>6 DEF Event, Approval
  <2>3. /\ accountTransfers' =
             [TransfersAt(t) EXCEPT ![c.from] = @ \cup {event}]
        /\ accountDevices' =
             IF c.device = NoDevice THEN devices
             ELSE [devices EXCEPT ![c.from][c.device] = t]
        /\ approved' = approved + 1
        /\ log' = [i \in DOMAIN log \cup {approved + 1} |->
                     IF i \in DOMAIN log THEN log[i] ELSE entry]
    BY <2>1 DEF Record
  <2> HIDE DEF event, entry
  <2>4. accountTransfers' \in [Endpoints -> SUBSET Event]
    BY <1>4, <1>7, <2>2, <2>3
  <2>5. accountDevices' \in [Accounts -> [Devices -> Nat \cup {Never}]]
    BY <1>4, <1>5, <1>6, <2>3
  <2>6. /\ approved' \in Nat
        /\ DOMAIN log' \subseteq 1..approved'
        /\ log' \in [DOMAIN log' -> Approval]
    BY <1>6, <2>2, <2>3
  <2>7. FraudTypeOK'
    BY <1>3, <1>6, <1>7, <1>8, <2>4, <2>5, <2>6 DEF FraudTypeOK
  <2>8. FraudInv'
    <3>1. /\ ~DetectCycleBFS(TransfersAt(t), c.from, c.to, t)
          /\ ~(Score(Cardinality(EventsAfter(TransfersAt(t)[c.from],
                                             t - Window)),
                     k, c.amount) >= FraudScoreThreshold)
      BY <1>11 DEF Declined, events
    <3>2. QED
      BY <1>3, <2>1, <2>7, <3>1, RecordPreserves
  <2>9. ASSUME NEW a \in Endpoints, NEW e \in accountTransfers'[a],
               e.at < t - PruneEvery
        PROVE  e.ts > (t - PruneEvery) - Window
    <3>1. e /= event
      BY <1>6, <2>2, <2>9, ClockAssumption
    <3>2. e \in TransfersAt(t)[a]
      BY <1>4, <1>7, <2>3, <2>9, <3>1
    <3>3. QED
      BY <1>7, <2>9, <3>2
  <2>10. QED
    BY <1>9, <2>8, <2>9
<1>12. QED
  BY <1>10, <1>11

(* A call that arrives only reads the clock.                               *)
LEMMA ArrivePreserves ==
  ASSUME FraudInv, NEW g \in Screeners, NEW c \in Calls, Arrive(g, c)
  PROVE  FraudInv' /\ ScreeningPrunes
<1>1. /\ UNCHANGED <<now, accountTransfers, accountDevices, lastPruneTime,
                     thresholds, approved, log>>
      /\ waiting[g] = Idle
      /\ waiting' \in {waiting,
                       [waiting EXCEPT ![g] = [call |-> c, ts |-> now]]}
  BY DEF Arrive
<1>2. /\ now \in Nat
      /\ waiting \in [Screeners -> [call : Calls, ts : 0..now] \cup {Idle}]
  BY DEF FraudInv, FraudTypeOK
<1>3. [call |-> c, ts |-> now] \in [call : Calls, ts : 0..now]
  BY <1>2
<1>4. waiting' \in [Screeners -> [call : Calls, ts : 0..now] \cup {Idle}]
  BY <1>1, <1>2, <1>3
<1>5. FraudTypeOK'
  BY <1>1, <1>4 DEF FraudInv, FraudTypeOK
<1>6. \A h \in Screeners : waiting[h] /= Idle => waiting'[h] /= Idle
  BY <1>1, <1>2
<1>7. NoLiveRing' /\ VelocityCapped'
  BY <1>1, ShorterLogKeepsLimits
<1>8. QED
  BY <1>1, <1>5, <1>6, <1>7 DEF FraudInv, ScreeningPrunes, PrunedBy

(* Forgetting an account takes its events off the record and the log.      *)
LEMMA ClearAccountHistoryPreserves ==
  ASSUME FraudInv, NEW a \in Accounts, ClearAccountHistory(a)
  PROVE  FraudInv' /\ ScreeningPrunes
<1>1. /\ accountTransfers' = [accountTransfers EXCEPT ![a] = {}]
      /\ accountDevices' = [accountDevices EXCEPT ![a] = NoDevices[a]]
      /\ DOMAIN log' = {i \in DOMAIN log : log[i].from /= a}
      /\ log' = [i \in DOMAIN log' |-> log[i]]
      /\ \A i \in DOMAIN log' : log'[i] = log[i]
      /\ UNCHANGED <<now, lastPruneTime, thresholds, waiting, approved>>
  BY DEF ClearAccountHistory, Restrict
<1>2. /\ accountTransfers \in [Endpoints -> SUBSET Event]
      /\ accountDevices \in [Accounts -> [Devices -> Nat \cup {Never}]]
      /\ log \in [DOMAIN log -> Approval]
  BY DEF FraudInv, FraudTypeOK
<1>3. FraudTypeOK'
  <2>1. NoDevices[a] \in [Devices -> Nat \cup {Never}]
    BY DEF NoDevices
  <2>2. log' \in [DOMAIN log' -> Approval] /\ DOMAIN log' \subseteq DOMAIN log
    BY <1>1, <1>2
  <2>3. /\ accountTransfers' \in [Endpoints -> SUBSET Event]
        /\ accountDevices' \in [Accounts -> [Devices -> Nat \cup {Never}]]
    BY <1>1, <1>2, <2>1
  <2>4. QED
    BY <1>1, <2>2, <2>3 DEF FraudInv, FraudTypeOK
<1>4. NoLiveRing' /\ VelocityCapped'
  BY <1>1, ShorterLogKeepsLimits
<1>5. \A b \in Endpoints :
        accountTransfers'[b] = IF b = a THEN {} ELSE accountTransfers[b]
  BY <1>1, <1>2
<1>6. Finite(accountTransfers')
  BY <1>5, FS_EmptySet DEF FraudInv, Finite
<1>7. Retained(accountTransfers', log', lastPruneTime')
  <2>1. SUFFICES ASSUME NEW i \in DOMAIN log',
                        log'[i].ts > lastPruneTime - Window
                 PROVE  EventOf(log', i) \in accountTransfers'[log'[i].from]
    BY <1>1 DEF Retained
  <2>2. /\ i \in DOMAIN log /\ log'[i] = log[i] /\ log[i].from /= a
        /\ EventOf(log', i) = EventOf(log, i)
    BY <1>1 DEF EventOf
  <2>3. EventOf(log, i) \in accountTransfers[log[i].from]
    BY <2>1, <2>2 DEF FraudInv, Retained
  <2>4. log[i].from \in Endpoints
    BY <1>2, <2>2 DEF Approval, Endpoints
  <2>5. QED
    BY <1>5, <2>2, <2>3, <2>4
<1>8. Pruned(accountTransfers', lastPruneTime')
  BY <1>1, <1>5 DEF FraudInv, Pruned
<1>9. QED
  BY <1>1, <1>3, <1>4, <1>6, <1>7, <1>8 DEF FraudInv, ScreeningPrunes, PrunedBy

(* A reset leaves nothing on record.                                       *)
LEMMA ResetPreserves ==
  ASSUME FraudInv, Reset
  PROVE  FraudInv' /\ ScreeningPrunes
<1>1. /\ accountTransfers' = NoEvents
      /\ accountDevices' = NoDevices
      /\ lastPruneTime' = now
      /\ approved' = 0
      /\ log' = <<>>
      /\ UNCHANGED <<now, thresholds, waiting>>
  BY DEF Reset
<1>2. DOMAIN log' = {}
  BY <1>1
<1>3. \A a \in Endpoints : accountTransfers'[a] = {}
  BY <1>1 DEF NoEvents
<1>4. FraudTypeOK'
  BY <1>1, <1>2 DEF FraudInv, FraudTypeOK, NoEvents, NoDevices
<1>5. NoLiveRing' /\ VelocityCapped'
  BY <1>1, <1>2, ShorterLogKeepsLimits
<1>6. QED
  BY <1>1, <1>2, <1>3, <1>4, <1>5, FS_EmptySet
     DEF FraudInv, Finite, Retained, Pruned, ScreeningPrunes, PrunedBy

(* Time passes.                                                            *)
LEMMA TickPreserves ==
  ASSUME FraudInv, Tick
  PROVE  FraudInv' /\ ScreeningPrunes
<1>1. /\ now \in Nat /\ now' = now + 1
      /\ UNCHANGED <<accountTransfers, accountDevices, lastPruneTime,
                     thresholds, waiting, approved, log>>
  BY DEF Tick, FraudInv, FraudTypeOK
<1>2. 0..now \subseteq 0..now'
  BY <1>1
<1>3. FraudTypeOK'
  BY <1>1, <1>2 DEF FraudInv, FraudTypeOK
<1>4. NoLiveRing' /\ VelocityCapped'
  BY <1>1, ShorterLogKeepsLimits
<1>5. QED
  BY <1>1, <1>3, <1>4 DEF FraudInv, ScreeningPrunes, PrunedBy

(* Every step preserves the invariant, and every screening prunes.         *)
LEMMA FraudInvNext ==
  FraudInv /\ [FraudNext]_fraudVars =>
    FraudInv' /\ [ScreeningPrunes]_fraudVars
<1>1. SUFFICES ASSUME FraudInv, [FraudNext]_fraudVars
               PROVE  /\ FraudInv'
                      /\ ScreeningPrunes \/ UNCHANGED fraudVars
  OBVIOUS
<1>2. CASE FraudNext
  BY <1>1, <1>2, ScreenPreserves, ArrivePreserves,
     ClearAccountHistoryPreserves, ResetPreserves, TickPreserves
     DEF FraudNext
<1>3. CASE UNCHANGED fraudVars
  <2>1. FraudTypeOK'
    BY <1>1, <1>3 DEF fraudVars, FraudInv, FraudTypeOK
  <2>2. NoLiveRing' /\ VelocityCapped'
    BY <1>1, <1>3, ShorterLogKeepsLimits DEF fraudVars
  <2>3. QED
    BY <1>1, <1>3, <2>1, <2>2 DEF fraudVars, FraudInv
<1>4. QED
  BY <1>1, <1>2, <1>3

(* Only the integer division matters for the life of a QR code: the salt   *)
(* is at most EpochInterval - 1 before the signing.                        *)
LEMMA SaltBounds ==
  ASSUME NEW s \in Nat
  PROVE  /\ CurrentEpochSalt(s) \in Int
         /\ CurrentEpochSalt(s) <= s
         /\ s < CurrentEpochSalt(s) + EpochInterval
BY ClockAssumption DEF CurrentEpochSalt

-----------------------------------------------------------------------------
(***************************************************************************)
(* The engine's variables keep their types.                                *)
(***************************************************************************)
THEOREM FraudTypeCorrect == FraudSpec => []FraudTypeOK
<1>1. FraudInv => FraudTypeOK
  BY DEF FraudInv
<1>2. FraudInv /\ [FraudNext]_fraudVars => FraudInv'
  BY FraudInvNext
<1>3. QED
  BY <1>1, <1>2, FraudInvInit, PTL DEF FraudSpec

(***************************************************************************)
(* No approved payment closes a ring of two or three accounts over live    *)
(* approvals, for any number of concurrent screenings and any readings of  *)
(* the clock.                                                              *)
(***************************************************************************)
THEOREM NoRingApproved == FraudSpec => []NoLiveRing
<1>1. FraudInv => NoLiveRing
  BY DEF FraudInv
<1>2. FraudInv /\ [FraudNext]_fraudVars => FraudInv'
  BY FraudInvNext
<1>3. QED
  BY <1>1, <1>2, FraudInvInit, PTL DEF FraudSpec

(***************************************************************************)
(* No account gets more approvals inside one window than its threshold.    *)
(***************************************************************************)
THEOREM VelocityIsCapped == FraudSpec => []VelocityCapped
<1>1. FraudInv => VelocityCapped
  BY DEF FraudInv
<1>2. FraudInv /\ [FraudNext]_fraudVars => FraudInv'
  BY FraudInvNext
<1>3. QED
  BY <1>1, <1>2, FraudInvInit, PTL DEF FraudSpec

(***************************************************************************)
(* Every screening leaves the history without the events that had left the *)
(* window PruneEvery before its reading of the clock.                      *)
(***************************************************************************)
THEOREM HistoryIsBounded == FraudSpec => HistoryBounded
<1>1. FraudInv /\ [FraudNext]_fraudVars =>
        FraudInv' /\ [ScreeningPrunes]_fraudVars
  BY FraudInvNext
<1>2. QED
  BY <1>1, FraudInvInit, PTL DEF FraudSpec, HistoryBounded

(***************************************************************************)
(* A QR code lives at least MaxEpochSkew - EpochInterval and at most       *)
(* MaxEpochSkew, for every length of an epoch and every skew.              *)
(***************************************************************************)
THEOREM QRCodesLiveInBounds == FraudSpec => []QRLifetime
<1>1. FraudInv => QRLifetime
  <2>1. SUFFICES ASSUME FraudInv, NEW signed \in 0..now
                 PROVE  /\ now - signed <= MaxEpochSkew - EpochInterval =>
                             EpochFresh(CurrentEpochSalt(signed), now)
                        /\ EpochFresh(CurrentEpochSalt(signed), now) =>
                             now - signed <= MaxEpochSkew
    BY DEF QRLifetime
  <2>2. now \in Nat /\ signed \in Nat /\ signed <= now
    BY <2>1 DEF FraudInv, FraudTypeOK
  <2>3. /\ CurrentEpochSalt(signed) \in Int
        /\ CurrentEpochSalt(signed) <= signed
        /\ signed < CurrentEpochSalt(signed) + EpochInterval
    BY <2>2, SaltBounds
  <2>4. QED
    BY <2>2, <2>3, ClockAssumption DEF EpochFresh, Distance
<1>2. FraudInv /\ [FraudNext]_fraudVars => FraudInv'
  BY FraudInvNext
<1>3. QED
  BY <1>1, <1>2, FraudInvInit, PTL DEF FraudSpec

-----------------------------------------------------------------------------
(***************************************************************************)
(* The cuckoo filter.                                                      *)
(***************************************************************************)

Tables == [Indices -> [Slots -> Fingerprints \cup {EmptySlot}]]

(* A write of fingerprint fp to slot s of bucket i.                        *)
Put(bs, i, s, fp) == [bs EXCEPT ![i][s] = fp]

(* Every fingerprint stored is that of some id, in a bucket of this id.    *)
Sourced(bs) ==
  \A i \in Indices, s \in Slots :
    bs[i][s] /= EmptySlot => Matching(bs[i][s], i) /= {}

(* A saved or current table counts its fingerprints, has none that belongs *)
(* to nobody and, if nothing is in hand, answers for what was confirmed.   *)
SavedWell ==
  /\ data.count = Cardinality(Occupied(data.buckets))
  /\ Sourced(data.buckets)
  /\ data.confirmed \subseteq Answered(data.buckets)

(* While Insert displaces, the bucket it is at has no empty slot, what it  *)
(* has in hand belongs to some id, and the id it was called for is held.   *)
DisplacingWell ==
  ~Unlocked => /\ \A s \in Slots : buckets[hand.idx][s] /= EmptySlot
               /\ Matching(hand.fp, hand.idx) /= {}
               /\ hand.key \in Held

(* The inductive invariant.                                                *)
FilterInv ==
  /\ FilterTypeOK
  /\ SavedWell
  /\ DisplacingWell
  /\ Sourced(buckets)
  /\ confirmed \subseteq Held

-----------------------------------------------------------------------------
(* Buckets and ids.                                                        *)

(* An id has the same two buckets seen from either of them: the ids with   *)
(* fingerprint fp at bucket i are those at the other bucket.               *)
LEMMA MatchingOther ==
  ASSUME NEW fp \in Fingerprints, NEW i \in Indices
  PROVE  Matching(fp, OtherIndex[fp][i]) = Matching(fp, i)
<1>1. ASSUME NEW k \in Ids, Fingerprint[k] = fp
      PROVE  OtherIndex[fp][i] \in BucketsOf(k) <=> i \in BucketsOf(k)
  <2>1. Home[k] \in Indices
    BY HashAssumption
  <2>2. /\ OtherIndex[fp][OtherIndex[fp][i]] = i
        /\ OtherIndex[fp][OtherIndex[fp][Home[k]]] = Home[k]
    BY <2>1, HashAssumption
  <2>3. QED
    BY <1>1, <2>2 DEF BucketsOf
<1>2. QED
  BY <1>1 DEF Matching

(* The ids at one bucket with one fingerprint cannot be told apart.        *)
LEMMA MatchingIsAlike ==
  ASSUME NEW fp, NEW i, NEW k \in Matching(fp, i)
  PROVE  AlikeIds(k) = Matching(fp, i)
<1>1. k \in Ids /\ Fingerprint[k] = fp /\ i \in BucketsOf(k)
  BY DEF Matching
<1>2. fp \in Fingerprints /\ Home[k] \in Indices
  BY <1>1, HashAssumption
<1>3. Matching(fp, OtherIndex[fp][Home[k]]) = Matching(fp, Home[k])
  BY <1>2, MatchingOther
<1>4. i \in {Home[k], OtherIndex[fp][Home[k]]}
  BY <1>1 DEF BucketsOf
<1>5. QED
  BY <1>1, <1>3, <1>4 DEF AlikeIds

(* Either all of them are found in a table or none is.                     *)
LEMMA AlikeAnswerAlike ==
  ASSUME NEW fp, NEW i, NEW bs, NEW j \in Matching(fp, i),
         NEW k \in Matching(fp, i), j \in Answered(bs)
  PROVE  k \in Answered(bs)
<1>1. /\ j \in Ids /\ Fingerprint[j] = fp
      /\ k \in Ids /\ Fingerprint[k] = fp
  BY DEF Matching
<1>2. PICK x \in BucketsOf(j), s \in Slots : bs[x][s] = fp
  BY <1>1 DEF Answered
<1>3. j \in Matching(fp, x)
  BY <1>1 DEF Matching
<1>4. Matching(fp, x) = Matching(fp, i)
  BY <1>3, MatchingIsAlike
<1>5. x \in BucketsOf(k)
  BY <1>4 DEF Matching
<1>6. QED
  BY <1>1, <1>2, <1>5 DEF Answered

(* An id is found at both of its buckets, which are indices.               *)
LEMMA BucketsOfId ==
  ASSUME NEW k \in Ids
  PROVE  /\ Fingerprint[k] \in Fingerprints
         /\ Home[k] \in Indices
         /\ OtherIndex[Fingerprint[k]][Home[k]] \in Indices
         /\ BucketsOf(k) \subseteq Indices
         /\ k \in AlikeIds(k)
         /\ \A i \in BucketsOf(k) : Matching(Fingerprint[k], i) = AlikeIds(k)
<1>1. /\ Fingerprint[k] \in Fingerprints
      /\ Home[k] \in Indices
      /\ OtherIndex[Fingerprint[k]][Home[k]] \in Indices
  BY HashAssumption
<1>2. BucketsOf(k) \subseteq Indices
  BY <1>1 DEF BucketsOf
<1>3. k \in AlikeIds(k)
  BY DEF AlikeIds, Matching, BucketsOf
<1>4. \A i \in BucketsOf(k) : k \in Matching(Fingerprint[k], i)
  BY DEF Matching
<1>5. QED
  BY <1>1, <1>2, <1>3, <1>4, MatchingIsAlike

(* What a write does to a table: the ids of the fingerprint that is        *)
(* written are answered for, those of the one that is overwritten are the  *)
(* only ones that may be lost.                                             *)
LEMMA PutMeans ==
  ASSUME NEW bs \in Tables, NEW i \in Indices, NEW s \in Slots,
         NEW fp \in Fingerprints
  PROVE  /\ Put(bs, i, s, fp) \in Tables
         /\ \A j \in Indices, r \in Slots :
              Put(bs, i, s, fp)[j][r] =
                IF j = i /\ r = s THEN fp ELSE bs[j][r]
         /\ Answered(Put(bs, i, s, fp)) \cup Matching(bs[i][s], i) =
              Answered(bs) \cup Matching(fp, i)
         /\ Occupied(Put(bs, i, s, fp)) = Occupied(bs) \cup {<<i, s>>}
         /\ Sourced(bs) /\ Matching(fp, i) /= {} => Sourced(Put(bs, i, s, fp))
<1> DEFINE new == Put(bs, i, s, fp)
<1>1. new \in Tables
  BY DEF Put, Tables
<1>2. ASSUME NEW j \in Indices, NEW r \in Slots
      PROVE  new[j][r] = IF j = i /\ r = s THEN fp ELSE bs[j][r]
  BY DEF Put, Tables
<1> HIDE DEF new
<1>3. Answered(new) \cup Matching(bs[i][s], i) =
        Answered(bs) \cup Matching(fp, i)
  <2>1. ASSUME NEW k \in Answered(new)
        PROVE  k \in Answered(bs) \cup Matching(fp, i)
    <3>1. k \in Ids
      BY DEF Answered
    <3>2. PICK j \in BucketsOf(k), r \in Slots : new[j][r] = Fingerprint[k]
      BY DEF Answered
    <3>3. j \in Indices
      BY <3>1, BucketsOfId
    <3>4. QED
      BY <1>2, <3>1, <3>2, <3>3 DEF Answered, Matching
  <2>2. ASSUME NEW k \in Matching(bs[i][s], i)
        PROVE  k \in Answered(bs)
    BY DEF Answered, Matching
  <2>3. ASSUME NEW k \in Answered(bs)
        PROVE  k \in Answered(new) \cup Matching(bs[i][s], i)
    <3>1. k \in Ids
      BY DEF Answered
    <3>2. PICK j \in BucketsOf(k), r \in Slots : bs[j][r] = Fingerprint[k]
      BY DEF Answered
    <3>3. j \in Indices
      BY <3>1, BucketsOfId
    <3>4. QED
      BY <1>2, <3>1, <3>2, <3>3 DEF Answered, Matching
  <2>4. ASSUME NEW k \in Matching(fp, i)
        PROVE  k \in Answered(new)
    BY <1>2 DEF Answered, Matching
  <2>5. QED
    BY <2>1, <2>2, <2>3, <2>4
<1>4. Occupied(new) = Occupied(bs) \cup {<<i, s>>}
  BY <1>2, EmptySlotAssumption DEF Occupied
<1>5. Sourced(bs) /\ Matching(fp, i) /= {} => Sourced(new)
  BY <1>2 DEF Sourced
<1>6. QED
  BY <1>1, <1>2, <1>3, <1>4, <1>5 DEF new

(* The slots in use are finitely many.                                     *)
LEMMA OccupiedFinite ==
  ASSUME NEW bs
  PROVE  IsFiniteSet(Occupied(bs)) /\ Cardinality(Occupied(bs)) \in Nat
<1>1. IsFiniteSet(Slots)
  BY BucketSizeAssumption, FS_Interval DEF Slots
<1>2. IsFiniteSet(Indices \X Slots)
  BY <1>1, IndicesAssumption, FS_Product
<1>3. Occupied(bs) \subseteq Indices \X Slots
  BY DEF Occupied
<1>4. QED
  BY <1>2, <1>3, FS_Subset, FS_CardinalityType

(* A bucket with room has a first empty slot.                              *)
LEMMA FirstFreeIsEmpty ==
  ASSUME NEW b, HasRoom(b)
  PROVE  FirstFree(b) \in Slots /\ b[FirstFree(b)] = EmptySlot
<1> DEFINE F == {s \in Slots : b[s] = EmptySlot}
<1>1. F \in SUBSET Nat /\ F /= {}
  BY BucketSizeAssumption DEF HasRoom, Slots
<1>2. PICK s \in F : \A r \in F : s <= r
  <2> HIDE DEF F
  <2>1. QED
    BY <1>1, NatLeastElement
<1>3. s \in Slots /\ b[s] = EmptySlot
  OBVIOUS
<1>4. \A r \in 1..(s - 1) : b[r] /= EmptySlot
  <2>1. SUFFICES ASSUME NEW r \in 1..(s - 1), b[r] = EmptySlot PROVE FALSE
    OBVIOUS
  <2>2. s \in Nat /\ r \in Slots /\ r < s
    BY <1>3, BucketSizeAssumption DEF Slots
  <2>3. QED
    BY <1>2, <2>1, <2>2
<1>5. QED
  BY <1>3, <1>4 DEF FirstFree

(* Storing a fingerprint in a bucket with room loses nothing, adds the ids *)
(* of the fingerprint and uses one slot more.                              *)
LEMMA StoreMeans ==
  ASSUME NEW bs \in Tables, NEW i \in Indices, NEW fp \in Fingerprints,
         HasRoom(bs[i])
  PROVE  /\ InsertIntoBucket(bs, i, fp) \in Tables
         /\ Answered(InsertIntoBucket(bs, i, fp)) =
              Answered(bs) \cup Matching(fp, i)
         /\ Cardinality(Occupied(InsertIntoBucket(bs, i, fp))) =
              Cardinality(Occupied(bs)) + 1
         /\ Sourced(bs) /\ Matching(fp, i) /= {} =>
              Sourced(InsertIntoBucket(bs, i, fp))
<1> DEFINE s == FirstFree(bs[i])
           new == Put(bs, i, s, fp)
<1>1. s \in Slots /\ bs[i][s] = EmptySlot
  BY FirstFreeIsEmpty
<1>2. InsertIntoBucket(bs, i, fp) = new
  BY DEF InsertIntoBucket, Put
<1> HIDE DEF s
<1>3. Matching(bs[i][s], i) = {}
  BY <1>1, HashAssumption, EmptySlotAssumption DEF Matching
<1>4. <<i, s>> \notin Occupied(bs)
  BY <1>1 DEF Occupied
<1>5. /\ new \in Tables
      /\ Answered(new) = Answered(bs) \cup Matching(fp, i)
      /\ Occupied(new) = Occupied(bs) \cup {<<i, s>>}
      /\ Sourced(bs) /\ Matching(fp, i) /= {} => Sourced(new)
  BY <1>1, <1>3, PutMeans
<1>6. Cardinality(Occupied(new)) = Cardinality(Occupied(bs)) + 1
  BY <1>4, <1>5, OccupiedFinite, FS_AddElement
<1>7. QED
  BY <1>2, <1>5, <1>6

-----------------------------------------------------------------------------
(* The invariant, and the step of RevocationSet that each step implements. *)

(* The type invariant, variable by variable.                               *)
LEMMA FilterTypes ==
  FilterTypeOK <=> /\ buckets \in Tables
                   /\ count \in Nat
                   /\ confirmed \in SUBSET Ids
                   /\ data \in Snapshots
                   /\ hand \in Hand \cup {NoHand}
                   /\ count = Cardinality(Occupied(buckets))
BY DEF FilterTypeOK, Snapshots, Tables

(* While nothing is displaced, what is held is what is answered for.       *)
LEMMA HeldUnlocked ==
  /\ Unlocked => Held = Answered(buckets)
  /\ ~Unlocked => Held = Answered(buckets) \cup Matching(hand.fp, hand.idx)
BY DEF Held

(* Who displaces is somebody: hand.key tells whether Insert is under way.  *)
LEMMA HandKey ==
  ASSUME FilterTypeOK
  PROVE  /\ Unlocked => hand.key = Nobody
         /\ ~Unlocked => /\ hand \in Hand
                         /\ hand.key \in Ids
                         /\ hand.key /= Nobody
BY NobodyAssumption DEF FilterTypeOK, Unlocked, NoHand, Hand

(* The invariant holds of the empty filter.                                *)
LEMMA FilterInvInit ==
  ASSUME FilterInit
  PROVE  FilterInv /\ AbstractSet!SetInit
<1>1. \A i \in Indices, s \in Slots : EmptyBuckets[i][s] = EmptySlot
  BY DEF EmptyBuckets
<1>2. EmptyBuckets \in Tables
  BY DEF EmptyBuckets, Tables
<1>3. Occupied(EmptyBuckets) = {}
  BY <1>1 DEF Occupied
<1>4. Cardinality(Occupied(EmptyBuckets)) = 0
  BY <1>3, FS_EmptySet
<1>5. Answered(EmptyBuckets) = {}
  BY <1>1, BucketsOfId, EmptySlotAssumption DEF Answered
<1>6. Sourced(EmptyBuckets)
  BY <1>1 DEF Sourced
<1>7. Unlocked /\ hand.key = Nobody
  BY DEF FilterInit, Unlocked, NoHand
<1>8. Held = {}
  BY <1>5, <1>7, HeldUnlocked DEF FilterInit
<1>9. FilterTypeOK
  BY <1>2, <1>4 DEF FilterInit, FilterTypeOK, Snapshots, Tables
<1>10. FilterInv
  BY <1>4, <1>5, <1>6, <1>7, <1>8, <1>9
     DEF FilterInit, FilterInv, SavedWell, DisplacingWell
<1>11. AbstractSet!SetInit
  BY <1>5, <1>7, <1>8 DEF FilterInit, AbstractSet!SetInit
<1>12. QED
  BY <1>10, <1>11

(* Insert stores its fingerprint or takes it in hand: it adds the id and   *)
(* those like it, and nothing else changes.                                *)
LEMMA InsertPreserves ==
  ASSUME FilterInv, NEW k \in Ids, Insert(k)
  PROVE  FilterInv' /\ AbstractSet!Add(k)
<1> DEFINE fp == Fingerprint[k]
           i1 == Home[k]
           i2 == OtherIndex[fp][i1]
<1>1. /\ fp \in Fingerprints /\ i1 \in Indices /\ i2 \in Indices
      /\ k \in AlikeIds(k)
      /\ \A i \in {i1, i2} : Matching(fp, i) = AlikeIds(k)
  BY BucketsOfId DEF BucketsOf
<1>2. /\ buckets \in Tables /\ count \in Nat /\ confirmed \in SUBSET Ids
      /\ data \in Snapshots /\ count = Cardinality(Occupied(buckets))
  BY FilterTypes DEF FilterInv
<1>3. Unlocked /\ data' = data
  BY DEF Insert
<1>4. hand.key = Nobody /\ Held = Answered(buckets)
  BY <1>3, HandKey, HeldUnlocked DEF FilterInv
<1> DEFINE Stored(i) == HasRoom(buckets[i]) /\ InsertDone(k, buckets, i, fp)
           Displacing(i) ==
             /\ hand' = [key |-> k, fp |-> fp, idx |-> i, kick |-> 0]
             /\ ~HasRoom(buckets[i])
             /\ UNCHANGED <<buckets, count, confirmed>>
<1>5. \E i \in {i1, i2} : Stored(i) \/ Displacing(i)
  BY DEF Insert
<1> HIDE DEF fp, i1, i2
<1>6. ASSUME NEW i \in {i1, i2}, Stored(i)
      PROVE  FilterInv' /\ AbstractSet!Add(k)
  <2>1. /\ buckets' = InsertIntoBucket(buckets, i, fp)
        /\ count' = count + 1
        /\ hand' = NoHand
        /\ confirmed' = confirmed \cup {k}
    BY <1>6 DEF InsertDone
  <2>2. /\ buckets' \in Tables
        /\ Answered(buckets') = Answered(buckets) \cup AlikeIds(k)
        /\ Cardinality(Occupied(buckets')) = Cardinality(Occupied(buckets)) + 1
        /\ Sourced(buckets')
    <3>1. /\ Matching(fp, i) = AlikeIds(k) /\ Matching(fp, i) /= {}
          /\ i \in Indices
      BY <1>1
    <3>2. Sourced(buckets) /\ HasRoom(buckets[i])
      BY <1>6 DEF FilterInv
    <3>3. QED
      BY <1>1, <1>2, <2>1, <3>1, <3>2, StoreMeans
  <2>3. Unlocked' /\ Held' = Answered(buckets') /\ hand'.key = Nobody
    BY <2>1 DEF Unlocked, Held, NoHand
  <2>4. FilterTypeOK'
    <3>1. count' \in Nat /\ count' = Cardinality(Occupied(buckets'))
      BY <1>2, <2>1, <2>2
    <3>2. confirmed' \in SUBSET Ids /\ hand' \in Hand \cup {NoHand}
      BY <1>2, <2>1
    <3>3. QED
      BY <1>2, <1>3, <2>2, <3>1, <3>2 DEF FilterTypeOK, Snapshots, Tables
  <2>5. SavedWell'
    BY <1>3 DEF FilterInv, SavedWell
  <2>6. DisplacingWell'
    BY <2>3 DEF DisplacingWell
  <2>7. confirmed' \subseteq Held'
    BY <1>1, <1>4, <2>1, <2>2, <2>3 DEF FilterInv
  <2>8. AbstractSet!Add(k)
    BY <1>3, <1>4, <2>1, <2>2, <2>3 DEF AbstractSet!Add
  <2>9. QED
    BY <2>2, <2>4, <2>5, <2>6, <2>7, <2>8 DEF FilterInv
<1>7. ASSUME NEW i \in {i1, i2}, Displacing(i)
      PROVE  FilterInv' /\ AbstractSet!Add(k)
  <2>1. /\ hand' = [key |-> k, fp |-> fp, idx |-> i, kick |-> 0]
        /\ UNCHANGED <<buckets, count, confirmed>>
    BY <1>7
  <2>2. /\ hand'.key = k /\ hand'.fp = fp /\ hand'.idx = i
        /\ hand' \in Hand
    BY <1>1, <2>1, MaxKicksAssumption DEF Hand
  <2>3. ~Unlocked'
    BY <2>2, NobodyAssumption DEF Unlocked, NoHand
  <2>4. Held' = Answered(buckets) \cup AlikeIds(k)
    BY <1>1, <2>1, <2>2, <2>3 DEF Held
  <2>5. FilterTypeOK'
    BY <1>2, <1>3, <2>1, <2>2 DEF FilterTypeOK, Snapshots, Tables
  <2>6. SavedWell'
    BY <1>3 DEF FilterInv, SavedWell
  <2>7. DisplacingWell'
    BY <1>1, <1>7, <2>1, <2>2, <2>4 DEF DisplacingWell, HasRoom
  <2>8. Sourced(buckets)' /\ confirmed' \subseteq Held'
    BY <1>4, <2>1, <2>4 DEF FilterInv
  <2>9. AbstractSet!Add(k)
    BY <1>3, <1>4, <2>1, <2>2, <2>4 DEF AbstractSet!Add
  <2>10. QED
    BY <2>5, <2>6, <2>7, <2>8, <2>9 DEF FilterInv
<1>8. QED
  BY <1>5, <1>6, <1>7

(* A displacement leaves what is held as it is; when it finds room the id  *)
(* has been added.                                                         *)
LEMMA KickPreserves ==
  ASSUME FilterInv, NEW s \in Slots, Kick(s)
  PROVE  FilterInv' /\ (AbstractSet!Added \/ UNCHANGED AbstractSet!setVars)
<1> DEFINE idx == hand.idx
           out == buckets[idx][s]
           bs  == [buckets EXCEPT ![idx][s] = hand.fp]
           i   == OtherIndex[out][idx]
<1>1. /\ ~Unlocked /\ data' = data /\ hand.kick < MaxKicks
      /\ \/ HasRoom(bs[i]) /\ InsertDone(hand.key, bs, i, out)
         \/ /\ ~HasRoom(bs[i])
            /\ buckets' = bs
            /\ hand' = [hand EXCEPT !.fp = out, !.idx = i, !.kick = @ + 1]
            /\ UNCHANGED <<count, confirmed>>
  BY DEF Kick
<1>2. /\ buckets \in Tables /\ count \in Nat /\ confirmed \in SUBSET Ids
      /\ data \in Snapshots /\ count = Cardinality(Occupied(buckets))
  BY FilterTypes DEF FilterInv
<1>3. /\ hand \in Hand /\ hand.key \in Ids /\ hand.key /= Nobody
      /\ hand.fp \in Fingerprints /\ idx \in Indices
      /\ hand.kick \in 0..MaxKicks
  BY <1>1, HandKey DEF FilterInv, Hand
<1>4. out \in Fingerprints
  <2>1. out /= EmptySlot
    BY <1>1 DEF FilterInv, DisplacingWell
  <2>2. out \in Fingerprints \cup {EmptySlot}
    BY <1>2, <1>3 DEF Tables
  <2>3. QED
    BY <2>1, <2>2
<1>5. i \in Indices /\ Matching(out, i) = Matching(out, idx)
  BY <1>3, <1>4, MatchingOther, HashAssumption
<1>6. Matching(out, idx) /= {} /\ Matching(hand.fp, idx) /= {}
  BY <1>1, <1>3, <1>4, EmptySlotAssumption
     DEF FilterInv, Sourced, DisplacingWell
<1>7. bs = Put(buckets, idx, s, hand.fp)
  BY DEF Put
<1>8. <<idx, s>> \in Occupied(buckets)
  BY <1>3, <1>4, EmptySlotAssumption DEF Occupied
<1> HIDE DEF idx, out, bs, i
<1>9. /\ bs \in Tables
      /\ Answered(bs) \cup Matching(out, idx) =
           Answered(buckets) \cup Matching(hand.fp, idx)
      /\ Occupied(bs) = Occupied(buckets)
      /\ Sourced(bs)
  <2>1. Sourced(buckets)
    BY DEF FilterInv
  <2>2. /\ Put(buckets, idx, s, hand.fp) \in Tables
        /\ Answered(Put(buckets, idx, s, hand.fp))
             \cup Matching(buckets[idx][s], idx) =
             Answered(buckets) \cup Matching(hand.fp, idx)
        /\ Occupied(Put(buckets, idx, s, hand.fp)) =
             Occupied(buckets) \cup {<<idx, s>>}
        /\ Sourced(buckets) /\ Matching(hand.fp, idx) /= {} =>
             Sourced(Put(buckets, idx, s, hand.fp))
    BY <1>2, <1>3, PutMeans
  <2>3. QED
    BY <1>6, <1>7, <1>8, <2>1, <2>2 DEF out
<1>10. Held = Answered(bs) \cup Matching(out, i)
  BY <1>1, <1>5, <1>9, HeldUnlocked DEF idx
<1>11. SavedWell'
  BY <1>1 DEF FilterInv, SavedWell
<1>12. confirmed \subseteq Held /\ hand.key \in Held
  BY <1>1 DEF FilterInv, DisplacingWell
<1>13. CASE HasRoom(bs[i]) /\ InsertDone(hand.key, bs, i, out)
  <2>1. /\ buckets' = InsertIntoBucket(bs, i, out)
        /\ count' = count + 1
        /\ hand' = NoHand
        /\ confirmed' = confirmed \cup {hand.key}
    BY <1>13 DEF InsertDone
  <2>2. /\ buckets' \in Tables
        /\ Answered(buckets') = Held
        /\ Cardinality(Occupied(buckets')) = Cardinality(Occupied(buckets)) + 1
        /\ Sourced(buckets')
    BY <1>4, <1>5, <1>6, <1>9, <1>10, <1>13, <2>1, StoreMeans
  <2>3. Unlocked' /\ Held' = Answered(buckets') /\ hand'.key = Nobody
    BY <2>1 DEF Unlocked, Held, NoHand
  <2>4. FilterTypeOK'
    <3>1. count' \in Nat /\ count' = Cardinality(Occupied(buckets'))
      BY <1>2, <2>1, <2>2
    <3>2. confirmed' \in SUBSET Ids /\ hand' \in Hand \cup {NoHand}
      BY <1>2, <1>3, <2>1
    <3>3. QED
      BY <1>1, <1>2, <2>2, <3>1, <3>2 DEF FilterTypeOK, Snapshots, Tables
  <2>5. DisplacingWell' /\ confirmed' \subseteq Held'
    BY <1>12, <2>1, <2>2, <2>3 DEF DisplacingWell
  <2>6. AbstractSet!Added
    BY <1>1, <1>3, <2>1, <2>2, <2>3 DEF AbstractSet!Added
  <2>7. QED
    BY <1>11, <2>2, <2>4, <2>5, <2>6 DEF FilterInv
<1>14. CASE /\ ~HasRoom(bs[i])
            /\ buckets' = bs
            /\ hand' = [hand EXCEPT !.fp = out, !.idx = i, !.kick = @ + 1]
            /\ UNCHANGED <<count, confirmed>>
  <2>1. /\ hand'.key = hand.key /\ hand'.fp = out /\ hand'.idx = i
        /\ hand' \in Hand
    <3>1. hand.kick + 1 \in 0..MaxKicks
      BY <1>1, <1>3, MaxKicksAssumption
    <3>2. hand' = [hand EXCEPT !.fp = out, !.idx = i, !.kick = hand.kick + 1]
      BY <1>14
    <3>3. QED
      BY <1>3, <1>4, <1>5, <3>1, <3>2 DEF Hand
  <2>2. ~Unlocked'
    BY <1>3, <2>1 DEF Unlocked, NoHand
  <2>3. Held' = Held
    BY <1>10, <1>14, <2>1, <2>2 DEF Held
  <2>4. FilterTypeOK'
    BY <1>1, <1>2, <1>9, <1>14, <2>1 DEF FilterTypeOK, Snapshots, Tables
  <2>5. DisplacingWell'
    BY <1>5, <1>6, <1>12, <1>14, <2>1, <2>3 DEF DisplacingWell, HasRoom
  <2>6. Sourced(buckets)' /\ confirmed' \subseteq Held'
    BY <1>9, <1>12, <1>14, <2>3
  <2>7. UNCHANGED AbstractSet!setVars
    BY <1>1, <1>14, <2>1, <2>3 DEF AbstractSet!setVars
  <2>8. QED
    BY <1>11, <2>4, <2>5, <2>6, <2>7 DEF FilterInv
<1>15. QED
  BY <1>1, <1>13, <1>14

(* A failed Insert drops what it has in hand: the ids that match it are    *)
(* lost, unless another slot holds the same fingerprint for them.          *)
LEMMA InsertFailsPreserves ==
  ASSUME FilterInv, InsertFails
  PROVE  FilterInv' /\ AbstractSet!Refused
<1> DEFINE M == Matching(hand.fp, hand.idx)
<1>1. /\ ~Unlocked /\ hand' = NoHand
      /\ confirmed' = confirmed \ M
      /\ UNCHANGED <<buckets, count, data>>
  BY DEF InsertFails
<1>2. hand.key /= Nobody /\ hand'.key = Nobody
  BY <1>1, HandKey DEF FilterInv, NoHand
<1>3. Held = Answered(buckets) \cup M
  BY <1>1, HeldUnlocked
<1>4. Unlocked' /\ Held' = Answered(buckets)
  BY <1>1 DEF Unlocked, Held
<1>5. PICK victim \in M : TRUE
  BY <1>1 DEF FilterInv, DisplacingWell
<1>6. victim \in Ids /\ AlikeIds(victim) = M
  <2>1. AlikeIds(victim) = Matching(hand.fp, hand.idx)
    BY MatchingIsAlike
  <2>2. QED
    BY <2>1 DEF Matching
<1>7. M \subseteq Answered(buckets) \/ M \cap Answered(buckets) = {}
  BY AlikeAnswerAlike
<1> HIDE DEF M
<1>8. Held' \in {Held, Held \ AlikeIds(victim)}
  BY <1>3, <1>4, <1>6, <1>7
<1>9. FilterTypeOK'
  <2>1. /\ buckets \in Tables /\ count \in Nat /\ confirmed \in SUBSET Ids
        /\ data \in Snapshots /\ count = Cardinality(Occupied(buckets))
    BY FilterTypes DEF FilterInv
  <2>2. QED
    BY <1>1, <2>1 DEF FilterTypeOK, Snapshots, Tables
<1>10. SavedWell' /\ DisplacingWell' /\ Sourced(buckets)'
  BY <1>1, <1>4 DEF FilterInv, SavedWell, DisplacingWell
<1>11. confirmed' \subseteq Held'
  BY <1>1, <1>3, <1>4 DEF FilterInv
<1>12. AbstractSet!Refused
  BY <1>1, <1>2, <1>6, <1>8 DEF AbstractSet!Refused
<1>13. QED
  BY <1>9, <1>10, <1>11, <1>12 DEF FilterInv

(* Saving and restoring.                                                   *)
LEMMA ArchivePreserves ==
  ASSUME FilterInv, Serialize \/ Deserialize
  PROVE  FilterInv' /\ (AbstractSet!Save \/ AbstractSet!Restore)
<1>1. /\ buckets \in Tables /\ count \in Nat /\ confirmed \in SUBSET Ids
      /\ data \in Snapshots /\ count = Cardinality(Occupied(buckets))
      /\ hand \in Hand \cup {NoHand}
  BY FilterTypes DEF FilterInv
<1>2. Unlocked /\ hand' = hand /\ Unlocked'
  BY DEF Serialize, Deserialize, Unlocked
<1>3. /\ hand.key = Nobody /\ Held = Answered(buckets)
      /\ Held' = Answered(buckets')
  BY <1>2, HandKey, HeldUnlocked DEF FilterInv, Held
<1>4. DisplacingWell'
  BY <1>2 DEF DisplacingWell
<1>5. CASE Serialize
  <2>1. /\ data' = [buckets |-> buckets, count |-> count,
                    confirmed |-> confirmed]
        /\ UNCHANGED <<buckets, count, hand, confirmed>>
    BY <1>5 DEF Serialize
  <2>2. /\ data'.buckets = buckets /\ data'.count = count
        /\ data'.confirmed = confirmed
        /\ data' \in Snapshots
    BY <1>1, <2>1 DEF Snapshots, Tables
  <2>3. FilterTypeOK'
    BY <1>1, <2>1, <2>2 DEF FilterTypeOK, Snapshots, Tables
  <2>4. SavedWell' /\ Sourced(buckets)' /\ confirmed' \subseteq Held'
    BY <1>1, <1>3, <2>1, <2>2 DEF SavedWell, FilterInv
  <2>5. AbstractSet!Save
    BY <1>3, <2>1, <2>2 DEF AbstractSet!Save
  <2>6. QED
    BY <1>4, <2>3, <2>4, <2>5 DEF FilterInv
<1>6. CASE Deserialize
  <2>1. /\ buckets' = data.buckets /\ count' = data.count
        /\ confirmed' = data.confirmed
        /\ UNCHANGED <<hand, data>>
    BY <1>6 DEF Deserialize
  <2>2. /\ data.buckets \in Tables /\ data.count \in Nat
        /\ data.confirmed \in SUBSET Ids
    BY <1>1 DEF Snapshots, Tables
  <2>3. FilterTypeOK'
    BY <1>1, <2>1, <2>2
       DEF FilterTypeOK, Snapshots, Tables, FilterInv, SavedWell
  <2>4. SavedWell' /\ Sourced(buckets)' /\ confirmed' \subseteq Held'
    BY <1>3, <2>1 DEF SavedWell, FilterInv
  <2>5. AbstractSet!Restore
    BY <1>3, <2>1 DEF AbstractSet!Restore
  <2>6. QED
    BY <1>4, <2>3, <2>4, <2>5 DEF FilterInv
<1>7. QED
  BY <1>5, <1>6

(* Every step preserves the invariant and implements a step of the set.    *)
LEMMA FilterInvNext ==
  FilterInv /\ [FilterNext]_filterVars =>
    FilterInv' /\ [AbstractSet!SetNext]_(AbstractSet!setVars)
<1>1. SUFFICES ASSUME FilterInv, [FilterNext]_filterVars
               PROVE  /\ FilterInv'
                      /\ AbstractSet!SetNext \/ UNCHANGED AbstractSet!setVars
  OBVIOUS
<1>2. ASSUME NEW k \in Ids, Insert(k)
      PROVE  FilterInv' /\ AbstractSet!SetNext
  BY <1>1, <1>2, InsertPreserves DEF AbstractSet!SetNext
<1>3. ASSUME NEW s \in Slots, Kick(s)
      PROVE  /\ FilterInv'
             /\ AbstractSet!SetNext \/ UNCHANGED AbstractSet!setVars
  BY <1>1, <1>3, KickPreserves DEF AbstractSet!SetNext
<1>4. CASE InsertFails
  BY <1>1, <1>4, InsertFailsPreserves DEF AbstractSet!SetNext
<1>5. CASE Serialize \/ Deserialize
  BY <1>1, <1>5, ArchivePreserves DEF AbstractSet!SetNext
<1>6. CASE UNCHANGED filterVars
  <2>1. FilterInv'
    BY <1>1, <1>6 DEF filterVars, FilterInv, FilterTypeOK, SavedWell,
                      DisplacingWell, Held, Unlocked
  <2>2. UNCHANGED AbstractSet!setVars
    BY <1>6 DEF filterVars, AbstractSet!setVars, Held, Unlocked
  <2>3. QED
    BY <2>1, <2>2
<1>7. QED
  BY <1>1, <1>2, <1>3, <1>4, <1>5, <1>6 DEF FilterNext

-----------------------------------------------------------------------------
(***************************************************************************)
(* The filter's variables keep their types and its count is the number of  *)
(* occupied slots, through displacements, failed inserts and restores.     *)
(***************************************************************************)
THEOREM FilterTypeCorrect == FilterSpec => []FilterTypeOK
<1>1. FilterInv => FilterTypeOK
  BY DEF FilterInv
<1>2. FilterInit => FilterInv
  BY FilterInvInit
<1>3. FilterInv /\ [FilterNext]_filterVars => FilterInv'
  BY FilterInvNext
<1>4. QED
  BY <1>1, <1>2, <1>3, PTL DEF FilterSpec

(***************************************************************************)
(* No false negatives: an id whose insertion was confirmed is found until  *)
(* a failed insert drops a fingerprint that cannot be told from its own.   *)
(***************************************************************************)
THEOREM ConfirmedIdsAreFound == FilterSpec => []NoFalseNegatives
<1>1. FilterInv => NoFalseNegatives
  BY HeldUnlocked DEF FilterInv, NoFalseNegatives, Answered, Contains
<1>2. FilterInit => FilterInv
  BY FilterInvInit
<1>3. FilterInv /\ [FilterNext]_filterVars => FilterInv'
  BY FilterInvNext
<1>4. QED
  BY <1>1, <1>2, <1>3, PTL DEF FilterSpec

(***************************************************************************)
(* The filter implements RevocationSet: displacements are stuttering       *)
(* steps, every other step is the step of the set of the same meaning.     *)
(***************************************************************************)
THEOREM FilterRefinesSet == FilterSpec => FilterImplementsSet
<1>1. FilterInit => FilterInv /\ AbstractSet!SetInit
  BY FilterInvInit
<1>2. FilterInv /\ [FilterNext]_filterVars =>
        FilterInv' /\ [AbstractSet!SetNext]_(AbstractSet!setVars)
  BY FilterInvNext
<1>3. QED
  BY <1>1, <1>2, PTL
     DEF FilterSpec, FilterImplementsSet, AbstractSet!SetSpec

=============================================================================
