------------------------------ MODULE Gateway ------------------------------
(***************************************************************************)
(* The payment gateway, internal/gateway/m1_api.go, composed with the      *)
(* ledger, the edge authorizer, the write-ahead log and the reconciler it  *)
(* drives, and with the handlers of cmd/server/main.go that switch the     *)
(* network and trigger the replay.                                         *)
(*                                                                         *)
(* Every HTTP request runs in a goroutine of its own.  ProcessPayment      *)
(* takes a lock for each look at shared state and gives it back before the *)
(* next, so its steps interleave with those of other requests, of the      *)
(* network switch and of the replay.  One step here is one such look, or   *)
(* one call to another component.                                          *)
(*                                                                         *)
(* The fraud engine's verdict and the check of a dynamic QR code are       *)
(* free choices.  A response is its Status.                                *)
(***************************************************************************)
EXTENDS Reconciler, EdgeAuthorizer

CONSTANTS
  Requests,            \* the HTTP requests; a retry is a request too
  Request,             \* the TxID, IdempotencyKey, OfflineToken of each
  Keys,                \* the idempotency keys
  NoKey,               \* the empty IdempotencyKey
  Here,                \* the terminal the edge authorizer stands for
  Allowance,           \* the allowance allocated to each party at start-up
  RetriesOverlap,      \* whether a client retries before it has an answer
  MaxDue               \* bound on the replays waiting for r.mu

ASSUME RequestsAssumption == IsFiniteSet(Requests)
ASSUME RequestAssumption ==
  \A r \in Requests : /\ Request[r].TxID \in QueuedTxIDs
                      /\ Request[r].IdempotencyKey \in Keys \cup {NoKey}
                      /\ Request[r].OfflineToken \in TokenIDs \cup {NoToken}
                      /\ Request[r].DynamicQR \in BOOLEAN
ASSUME TokenIDsAssumption == IsFiniteSet(TokenIDs)
ASSUME HereAssumption == Here \in Terminals
ASSUME AllowanceAssumption ==
  Allowance \in Nat \ {0} /\ \A b \in OpeningBalances : Allowance <= b
ASSUME RetriesAssumption == RetriesOverlap \in BOOLEAN
ASSUME MaxDueAssumption == MaxDue \in Nat

VARIABLES
  networkStatus,   \* gw.networkStatus
  idempotency,     \* gw.idempotency
  pc,              \* where each request is in ProcessPayment
  resp,            \* its response
  due,             \* the network switches that have yet to call Replay
  late             \* history: appended to the log when the network was back

gatewayVars == <<networkStatus, idempotency, pc, resp, due, late>>
allVars == <<reconVars, edgeVars, gatewayVars>>

NetworkStatuses == {"ONLINE", "DISCONNECTED", "RECONNECTED"}

NoResponse == "none"

Responses == {"APPROVED", "OFFLINE_AUTHORIZED", "DECLINED"}

Steps == {"new", "qr", "route", "offline", "append", "online", "reserve",
          "commit", "cache", "done"}

PaymentOf(r) == Payment[Request[r].TxID]

-----------------------------------------------------------------------------
(* The request goes on to step s, or has its response.                     *)
GoTo(r, s) ==
  /\ pc' = [pc EXCEPT ![r] = s]
  /\ UNCHANGED resp

Respond(r, status) ==
  /\ pc' = [pc EXCEPT ![r] = "cache"]
  /\ resp' = [resp EXCEPT ![r] = status]

InFlight(r) == pc[r] \notin {"new", "done"}

(* Another request for the same payment that has no answer yet.            *)
Overlaps(r) ==
  \E q \in Requests \ {r} : Request[q].TxID = Request[r].TxID /\ InFlight(q)

(* Mutant: the cache is not consulted.                                     *)
SubmitUncached(r) ==
  /\ pc[r] = "new"
  /\ ~RetriesOverlap => ~Overlaps(r)
  /\ Request[r].OfflineToken \in Issued \cup {NoToken}
  /\ GoTo(r, IF Request[r].DynamicQR THEN "qr" ELSE "route")
  /\ UNCHANGED <<networkStatus, idempotency, due, late>>
  /\ UNCHANGED <<reconVars, edgeVars>>

(* ProcessPayment up to the idempotency check.  A client holds the token   *)
(* it presents.                                                            *)
Submit(r) ==
  LET key == Request[r].IdempotencyKey
  IN  /\ pc[r] = "new"
      /\ ~RetriesOverlap => ~Overlaps(r)
      /\ Request[r].OfflineToken \in Issued \cup {NoToken}
      /\ IF key /= NoKey /\ idempotency[key] /= NoResponse
         THEN /\ resp' = [resp EXCEPT ![r] = idempotency[key]]
              /\ pc' = [pc EXCEPT ![r] = "done"]
         ELSE GoTo(r, IF Request[r].DynamicQR THEN "qr" ELSE "route")
      /\ UNCHANGED <<networkStatus, idempotency, due, late>>
      /\ UNCHANGED <<reconVars, edgeVars>>

(* The dynamic QR code: a wrong merchant, an unknown terminal, a bad       *)
(* signature or an old epoch decline the payment.                          *)
CheckQR(r, valid) ==
  /\ pc[r] = "qr"
  /\ IF valid THEN GoTo(r, "route") ELSE Respond(r, "DECLINED")
  /\ UNCHANGED <<networkStatus, idempotency, due, late>>
  /\ UNCHANGED <<reconVars, edgeVars>>

(* currentStatus is read once.                                             *)
Route(r) ==
  /\ pc[r] = "route"
  /\ GoTo(r, IF networkStatus = "DISCONNECTED" THEN "offline" ELSE "online")
  /\ UNCHANGED <<networkStatus, idempotency, due, late>>
  /\ UNCHANGED <<reconVars, edgeVars>>

(* Mutant: the reason code is returned as the status.                      *)
AuthorizeRawReason(r, reason) ==
  /\ pc[r] = "offline"
  /\ AuthorizeOffline(Here, issued[Request[r].OfflineToken],
                      PaymentOf(r).Amount, reason)
  /\ IF reason = "APPROVED" THEN GoTo(r, "append") ELSE Respond(r, reason)
  /\ UNCHANGED <<networkStatus, idempotency, due, late>>
  /\ UNCHANGED reconVars

(* handleOfflinePayment, step A.                                           *)
Authorize(r, reason) ==
  /\ pc[r] = "offline"
  /\ IF Request[r].OfflineToken = NoToken
     THEN reason = "OFFLINE_TOKEN_INVALID" /\ UNCHANGED edgeVars
     ELSE AuthorizeOffline(Here, issued[Request[r].OfflineToken],
                           PaymentOf(r).Amount, reason)
  /\ IF reason = "APPROVED" THEN GoTo(r, "append") ELSE Respond(r, "DECLINED")
  /\ UNCHANGED <<networkStatus, idempotency, due, late>>
  /\ UNCHANGED reconVars

(* Mutant: the approval does not wait for the log.                         *)
AppendAnyway(r, err) ==
  /\ pc[r] = "append"
  /\ WALAppend(Request[r].TxID, err)
  /\ Respond(r, "OFFLINE_AUTHORIZED")
  /\ UNCHANGED <<networkStatus, idempotency, due, late>>
  /\ UNCHANGED <<ledgerVars, replayVars, edgeVars>>

(* Step B.  What AuthorizeOffline has counted as spent stays spent when    *)
(* the append fails.                                                       *)
AppendToWAL(r, err) ==
  /\ pc[r] = "append"
  /\ WALAppend(Request[r].TxID, err)
  /\ Respond(r, IF err = "nil" THEN "OFFLINE_AUTHORIZED" ELSE "DECLINED")
  /\ late' = IF err = "nil" /\ networkStatus /= "DISCONNECTED"
             THEN late \cup {Request[r].TxID} ELSE late
  /\ UNCHANGED <<networkStatus, idempotency, due>>
  /\ UNCHANGED <<ledgerVars, replayVars, edgeVars>>

(* handleOnlinePayment, step A: the fraud engine screens the payment.      *)
ScreenTransaction(r, approved) ==
  /\ pc[r] = "online"
  /\ IF approved THEN GoTo(r, "reserve") ELSE Respond(r, "DECLINED")
  /\ UNCHANGED <<networkStatus, idempotency, due, late>>
  /\ UNCHANGED <<reconVars, edgeVars>>

(* Step B.                                                                 *)
Reserve(r, err) ==
  /\ pc[r] = "reserve"
  /\ ReserveFunds(PaymentOf(r).AccountID, PaymentOf(r).Amount,
                  Request[r].TxID, err)
  /\ IF err = "nil" THEN GoTo(r, "commit") ELSE Respond(r, "DECLINED")
  /\ UNCHANGED <<networkStatus, idempotency, due, late>>
  /\ UNCHANGED <<walVars, replayVars, edgeVars>>

(* Mutant: the hold is committed only in part.                             *)
CommitLess(r) ==
  LET p == PaymentOf(r)
  IN  /\ pc[r] = "commit"
      /\ CommitHold(p.AccountID, p.MerchantID, 1, Request[r].TxID, "nil")
      /\ Respond(r, "APPROVED")
      /\ UNCHANGED <<networkStatus, idempotency, due, late>>
      /\ UNCHANGED <<walVars, replayVars, edgeVars>>

(* Step C: CommitHold, and ReleaseHold if that fails, which leaves the     *)
(* balances as they were.  (HoldsInFlight is why it does not.)             *)
Commit(r) ==
  LET p == PaymentOf(r)
  IN  /\ pc[r] = "commit"
      /\ IF DebitError(p.AccountID, ReservedBalance(p.AccountID), p.Amount,
                       "ErrHoldMismatch") = "nil"
         THEN /\ CommitHold(p.AccountID, p.MerchantID, p.Amount,
                            Request[r].TxID, "nil")
              /\ Respond(r, "APPROVED")
         ELSE /\ \E err \in LedgerErrors :
                   ReleaseHold(p.AccountID, p.Amount, Request[r].TxID, err)
              /\ Respond(r, "DECLINED")
      /\ UNCHANGED <<networkStatus, idempotency, due, late>>
      /\ UNCHANGED <<walVars, replayVars, edgeVars>>

(* Mutant: a request with a key waits for the cache to hold its answer.    *)
CacheWaits(r) ==
  /\ pc[r] = "cache"
  /\ Request[r].IdempotencyKey = NoKey
  /\ pc' = [pc EXCEPT ![r] = "done"]
  /\ UNCHANGED <<networkStatus, idempotency, resp, due, late>>
  /\ UNCHANGED <<reconVars, edgeVars>>

(* The response is cached under the key, and returned.                     *)
CacheResponse(r) ==
  LET key == Request[r].IdempotencyKey
  IN  /\ pc[r] = "cache"
      /\ idempotency' = IF key = NoKey THEN idempotency
                        ELSE [idempotency EXCEPT ![key] = resp[r]]
      /\ pc' = [pc EXCEPT ![r] = "done"]
      /\ UNCHANGED <<networkStatus, resp, due, late>>
      /\ UNCHANGED <<reconVars, edgeVars>>

ProcessPayment(r) ==
  \/ \E valid \in BOOLEAN : CheckQR(r, valid)
  \/ Route(r)
  \/ \E reason \in ReasonCodes : Authorize(r, reason)
  \/ \E err \in WALErrors : AppendToWAL(r, err)
  \/ \E approved \in BOOLEAN : ScreenTransaction(r, approved)
  \/ \E err \in LedgerErrors : Reserve(r, err)
  \/ Commit(r)
  \/ CacheResponse(r)

(* Mutant: the switch back to ONLINE, not the reconnection, replays.       *)
SetNetworkStatusReplaysOnline(status) ==
  /\ due < MaxDue
  /\ networkStatus' = status
  /\ due' = IF status = "ONLINE" THEN due + 1 ELSE due
  /\ UNCHANGED <<idempotency, pc, resp, late>>
  /\ UNCHANGED <<reconVars, edgeVars>>

(* handleNetworkToggle: RECONNECTED calls TriggerReconciliation next.      *)
SetNetworkStatus(status) ==
  /\ due < MaxDue
  /\ networkStatus' = status
  /\ due' = IF status = "RECONNECTED" THEN due + 1 ELSE due
  /\ UNCHANGED <<idempotency, pc, resp, late>>
  /\ UNCHANGED <<reconVars, edgeVars>>

(* TriggerReconciliation from there, or from handleReconcile.              *)
ReconnectReplay ==
  /\ due > 0
  /\ due' = due - 1
  /\ ReplayBegin
  /\ UNCHANGED <<networkStatus, idempotency, pc, resp, late>>
  /\ UNCHANGED edgeVars

TriggerReconciliation ==
  /\ ReplayBegin
  /\ UNCHANGED gatewayVars
  /\ UNCHANGED edgeVars

ReplayGoesOn ==
  /\ ReplayStep
  /\ UNCHANGED gatewayVars
  /\ UNCHANGED edgeVars

(* handleIssueToken and the passing of time.                               *)
EdgeStep ==
  /\ \/ \E id \in TokenIDs, a \in Parties, q \in Ceilings :
          IssueToken(id, a, q, MaxTime, Anywhere)
     \/ Tick
  /\ UNCHANGED gatewayVars
  /\ UNCHANGED reconVars

-----------------------------------------------------------------------------
(* setupServer: the parties have their balances, and an allowance.         *)
ServerInit ==
  /\ exists = SystemAccounts \cup Parties
  /\ \E b \in OpeningBalances :
       /\ balance = [k \in Buckets |->
                       CASE k[1] \notin Parties -> 0
                         [] k[2] = "OnlineAvailable" -> b - Allowance
                         [] k[2] = "OfflineAllowance" -> Allowance
                         [] OTHER -> 0]
       /\ opening = [a \in Accounts |-> IF a \in Parties THEN b ELSE 0]
  /\ reservations = <<>>
  /\ entries = SetToSeq({NewEntry("RESERVE", GeneratedTxID, OnlineLabel(a),
                                  OfflineLabel(a), Allowance) : a \in Parties})
  /\ funding = NoEntry
  /\ WALInit
  /\ ReplayInit
  /\ EdgeInit
  /\ networkStatus = "ONLINE"
  /\ idempotency = [k \in Keys |-> NoResponse]
  /\ pc = [r \in Requests |-> "new"]
  /\ resp = [r \in Requests |-> NoResponse]
  /\ due = 0
  /\ late = {}

GatewayNext ==
  \/ \E r \in Requests : Submit(r) \/ ProcessPayment(r)
  \/ \E status \in NetworkStatuses : SetNetworkStatus(status)
  \/ ReconnectReplay
  \/ TriggerReconciliation
  \/ ReplayGoesOn
  \/ EdgeStep

GatewaySpec == ServerInit /\ [][GatewayNext]_allVars

(* The Go scheduler runs every goroutine: a request that was accepted, the *)
(* replay, and a network switch that waits for r.mu.                       *)
FairGatewaySpec ==
  /\ GatewaySpec
  /\ \A r \in Requests : WF_allVars(ProcessPayment(r))
  /\ WF_allVars(ReplayGoesOn)
  /\ SF_allVars(ReconnectReplay)

-----------------------------------------------------------------------------
(* Type invariant of the gateway's variables and of its components'.       *)
GatewayTypeOK ==
  /\ ReconTypeOK
  /\ EdgeTypeOK
  /\ networkStatus \in NetworkStatuses
  /\ idempotency \in [Keys -> Responses \cup {NoResponse}]
  /\ pc \in [Requests -> Steps]
  /\ resp \in [Requests -> Responses \cup {NoResponse}]
  /\ due \in 0..MaxDue
  /\ late \subseteq TxIDs

(* What request r holds on account a.                                      *)
HeldBy(r, a) ==
  IF pc[r] = "commit" /\ PaymentOf(r).AccountID = a
  THEN PaymentOf(r).Amount ELSE 0

(***************************************************************************)
(* What is held on an account is what the requests between ReserveFunds    *)
(* and CommitHold hold: no hold leaks, and none is spent by another        *)
(* request or by the replay.                                               *)
(***************************************************************************)
HoldsInFlight ==
  \A a \in Accounts :
    balance[ReservedBalance(a)] =
      SumFunction([r \in Requests |-> HeldBy(r, a)])

(* What a client promises: a retry carries the idempotency key of the      *)
(* payment it retries, and no other payment does.                          *)
RetriesShareKeys ==
  \A r, q \in Requests :
    r /= q => (Request[r].TxID = Request[q].TxID
                 <=> /\ Request[r].IdempotencyKey = Request[q].IdempotencyKey
                     /\ Request[r].IdempotencyKey /= NoKey)

(***************************************************************************)
(* A payment is charged at most once, online and by the replay together,   *)
(* however often it is submitted: the "Hard Gate against duplicate         *)
(* submission" of m1_api.go:130.                                           *)
(***************************************************************************)
ChargedAtMostOnce ==
  \A tx \in TxIDs : PartOf(Credited(tx, Labels), Payment[tx].Amount)

(***************************************************************************)
(* The answers agree with the money.  An approved payment was credited;    *)
(* one authorized offline is in the log; a declined one moved nothing and  *)
(* is not queued.                                                          *)
(***************************************************************************)
AnswersMatchMoney ==
  \A r \in Requests :
    LET tx == Request[r].TxID
    IN  /\ resp[r] = "APPROVED" => Credited(tx, Labels) = Payment[tx].Amount
        /\ resp[r] = "OFFLINE_AUTHORIZED" => tx \in Present
        /\ resp[r] = "DECLINED" => /\ Credited(tx, Labels) = 0
                                   /\ tx \notin Present

(* What authorizations of negative amounts gave back to token id: its      *)
(* terminal lets it spend that much again.                                 *)
GivenBack(id) ==
  SumFunction([i \in DOMAIN grants |->
                 IF grants[i].TokenID = id /\ grants[i].Amount < 0
                 THEN -grants[i].Amount ELSE 0])

(* The allowance of a party covers all that its tokens can spend together. *)
TokensCovered ==
  \A a \in Parties :
    SumFunction([id \in TokenIDs |->
                   IF id \in Issued /\ issued[id].AccountID = a
                   THEN Ceiling(id) + GivenBack(id) ELSE 0])
      <= Allowance

(* Payers present tokens of their own.  (ProcessPayment does not compare   *)
(* the token's account with the payer's.)                                  *)
PayersPresentOwnTokens ==
  \A r \in Requests :
    LET id == Request[r].OfflineToken
    IN  id \in Issued => issued[id].AccountID = PaymentOf(r).AccountID

(***************************************************************************)
(* The partition isolation theorem of docs/ARCHITECTURE.md:47: as long as  *)
(* the allowance covers the ceilings of the tokens, and what negative      *)
(* payments gave back to them, and payers present tokens of their own,     *)
(* every offline payment is settled from the allowance alone, whatever is  *)
(* paid online meanwhile.  A negative payment leaves the allowance alone.  *)
(***************************************************************************)
OfflinePaidFromAllowance ==
  TokensCovered /\ PayersPresentOwnTokens =>
    \A tx \in TxIDs :
      Replayed(tx) =>
        Credited(tx, {OfflineLabel(Payment[tx].AccountID)})
          = Max({0, Payment[tx].Amount})

(***************************************************************************)
(* "Upon network recovery, each offline transaction commits"               *)
(* (docs/ARCHITECTURE.md:56), as far as it goes: when the network is back  *)
(* and the reconnections have replayed, only a payment that was routed     *)
(* offline before the switch and reached the log after it is still         *)
(* pending.                                                                *)
(***************************************************************************)
OnlyLateArePending ==
  networkStatus = "RECONNECTED" /\ due = 0 /\ replayPc = "idle" =>
    \A tx \in TxIDs : txMap[tx] = "PENDING" => tx \in late

(***************************************************************************)
(* Every request that is accepted is answered, and every reconnection      *)
(* replays.  (Each request is sent once: if every one is answered, a       *)
(* moment comes when none is in flight.)                                   *)
(***************************************************************************)
RequestsAnswered ==
  /\ (\E r \in Requests : InFlight(r)) ~> (\A r \in Requests : ~InFlight(r))
  /\ (due > 0) ~> (replayPc = "loop")

=============================================================================
