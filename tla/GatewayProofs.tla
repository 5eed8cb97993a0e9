--------------------------- MODULE GatewayProofs ---------------------------
(***************************************************************************)
(* Proofs about the offline authorizers, and about the gateway with the    *)
(* ledger, the authorizer, the log and the replay that it drives: for any  *)
(* number of requests, payments, accounts, tokens and terminals, and every *)
(* interleaving of the steps of requests, network switches and replays.    *)
(***************************************************************************)
EXTENDS Gateway, ReconcilerProofs

-----------------------------------------------------------------------------
(* The offline authorizers: what the terminals grant under a token stays   *)
(* within the ceiling the authority signed, for any tokens, terminals,     *)
(* ceilings, amounts and durations.                                        *)

(* What grant g adds to Granted(T, id).                                    *)
Share(g, T, id) ==
  IF g.terminal \in T /\ g.TokenID = id THEN g.Amount ELSE 0

(* What a sequence of grants adds up to for terminals T under token id.    *)
GrantedIn(s, T, id) == SumFunction([i \in DOMAIN s |-> Share(s[i], T, id)])

(* An authorizer's counter is the sum of what it granted,                  *)
CountersAreExact ==
  \A t \in Terminals, id \in TokenIDs :
    Granted({t}, id) = spentByToken[t][id]

(* it never passes what the signed ceiling lets the token spend,           *)
CountersCapped ==
  \A t \in Terminals, id \in Issued :
    spentByToken[t][id] <= Ceiling(id)

(* and the ids of the grants are those of issued tokens, each granted only *)
(* where its token may be used.                                            *)
GrantsHonourBinding ==
  \A i \in DOMAIN grants :
    /\ grants[i].TokenID \in Issued
    /\ issued[grants[i].TokenID].TerminalID
         \in {Anywhere, grants[i].terminal}

(* The inductive invariant.                                                *)
EdgeInv ==
  EdgeTypeOK /\ CountersAreExact /\ CountersCapped /\ GrantsHonourBinding

-----------------------------------------------------------------------------
(* What a token may spend is not negative, and what it was signed for is   *)
(* no more than that.                                                      *)
LEMMA CeilingTypes ==
  ASSUME NEW id
  PROVE  /\ EdgeTypeOK /\ id \in Issued =>
              /\ Ceiling(id) \in Nat /\ issued[id].MaxFloorAmount \in Int
              /\ issued[id].MaxFloorAmount <= Ceiling(id)
         /\ EdgeTypeOK' /\ id \in Issued' => Ceiling(id)' \in Nat
<1>1. /\ EdgeTypeOK /\ id \in Issued => issued[id].MaxFloorAmount \in Int
      /\ EdgeTypeOK' /\ id \in Issued' => issued'[id].MaxFloorAmount \in Int
  BY DEF EdgeTypeOK, Issued, Token
<1>2. QED
  BY <1>1 DEF Ceiling

(* A grant's share is an integer.                                          *)
LEMMA ShareType ==
  ASSUME NEW g \in Grant, NEW T, NEW id
  PROVE  Share(g, T, id) \in Int
BY DEF Share, Grant

(* What is granted, as a sum of shares.                                    *)
LEMMA GrantedIsSum ==
  ASSUME NEW T, NEW id
  PROVE  /\ Granted(T, id) = GrantedIn(grants, T, id)
         /\ Granted(T, id)' = GrantedIn(grants', T, id)
BY DEF Granted, GrantedIn, Share

(* A grant that is appended adds its share.                                *)
LEMMA GrantedInAppend ==
  ASSUME NEW s \in Seq(Grant), NEW g \in Grant, NEW T, NEW id
  PROVE  /\ GrantedIn(s, T, id) \in Int
         /\ GrantedIn(Append(s, g), T, id) =
              GrantedIn(s, T, id) + Share(g, T, id)
<1> DEFINE t == Append(s, g)
           F == [i \in DOMAIN s |-> Share(s[i], T, id)]
           G == [i \in DOMAIN t |-> Share(t[i], T, id)]
           n == Len(s)
<1>1. /\ n \in Nat
      /\ DOMAIN s = 1..n
      /\ DOMAIN t = 1..(n + 1)
      /\ \A i \in 1..n : s[i] \in Grant /\ t[i] = s[i]
      /\ t[n + 1] = g
  OBVIOUS
<1>2. /\ DOMAIN F = 1..n
      /\ DOMAIN G = 1..(n + 1)
      /\ \A i \in 1..n : F[i] \in Int /\ F[i] = G[i]
      /\ G[n + 1] = Share(g, T, id)
  BY <1>1, ShareType
<1>3. Share(g, T, id) \in Int
  BY ShareType
<1> HIDE DEF F, G, n, t
<1>4. SumFunction(F) \in Int /\ SumFunction(G) = SumFunction(F) + G[n + 1]
  BY <1>1, <1>2, <1>3, SumOneMore
<1>5. QED
  BY <1>2, <1>4 DEF GrantedIn, F, G, t

(* Nothing granted under a token adds up to nothing.                       *)
LEMMA NothingGranted ==
  ASSUME EdgeTypeOK, NEW T, NEW id,
         \A i \in DOMAIN grants : grants[i].TokenID /= id
  PROVE  Granted(T, id) = 0
<1> DEFINE F == [i \in DOMAIN grants |-> Share(grants[i], T, id)]
<1>1. IsFiniteSet(DOMAIN grants)
  BY FS_Interval DEF EdgeTypeOK
<1>2. DOMAIN F = DOMAIN grants /\ \A i \in DOMAIN grants : F[i] = 0
  BY DEF Share
<1> HIDE DEF F
<1>3. SumFunction(F) = 0
  BY <1>1, <1>2, SumOfZeros DEF SumFunction
<1>4. QED
  BY <1>3, GrantedIsSum DEF GrantedIn, F

(* An approval means that the token shown is the token issued, that it may *)
(* be used at this terminal and that its ceiling covers the new total.     *)
LEMMA ApprovalMeans ==
  ASSUME NEW t, NEW tok, NEW n, Decision(t, tok, n) = "APPROVED"
  PROVE  /\ tok.TokenID \in Issued
         /\ tok = issued[tok.TokenID]
         /\ tok.TerminalID \in {Anywhere, t}
         /\ ~(spentByToken[t][tok.TokenID] + n > tok.MaxFloorAmount)
BY DEF Decision, SignatureValid

-----------------------------------------------------------------------------
(* Before anything is issued the counters are zero and nothing is granted. *)
LEMMA EdgeInvInit == EdgeInit => EdgeInv
<1>1. SUFFICES ASSUME EdgeInit PROVE EdgeInv
  OBVIOUS
<1>2. EdgeTypeOK
  BY <1>1 DEF EdgeInit, EdgeTypeOK
<1>3. DOMAIN grants = {}
  BY <1>1 DEF EdgeInit
<1>4. CountersAreExact
  BY <1>1, <1>2, <1>3, NothingGranted DEF CountersAreExact, EdgeInit
<1>5. CountersCapped /\ GrantsHonourBinding
  BY <1>1, <1>3 DEF CountersCapped, GrantsHonourBinding, EdgeInit, Issued
<1>6. QED
  BY <1>2, <1>4, <1>5 DEF EdgeInv

(* Whatever the ceiling of a new token, it may spend zero, which is what   *)
(* its counters stand at.                                                  *)
LEMMA IssueTokenPreserves ==
  ASSUME EdgeInv, NEW id \in TokenIDs, NEW a \in Accounts,
         NEW floorAmount \in Ceilings, NEW duration \in 0..MaxTime,
         NEW terminal \in Terminals \cup {Anywhere},
         IssueToken(id, a, floorAmount, duration, terminal)
  PROVE  EdgeInv'
<1> DEFINE ceiling == Lesser(floorAmount, MaxOfflineFloorLimitCents)
           tok == [TokenID |-> id, AccountID |-> a, MaxFloorAmount |-> ceiling,
                   ExpirationTime |-> now + duration, TerminalID |-> terminal]
<1>1. /\ issued[id] = NoToken
      /\ issued' = [issued EXCEPT ![id] = tok]
      /\ UNCHANGED <<now, spentByToken, sequenceNum, blocked, grants>>
  BY DEF IssueToken, Issued
<1>2. ceiling \in Int /\ ceiling <= MaxOfflineFloorLimitCents
  BY CeilingsAssumption, FloorLimitAssumption DEF Lesser
<1>3. now + duration \in Nat
  BY MaxTimeAssumption DEF EdgeInv, EdgeTypeOK
<1> HIDE DEF ceiling
<1>4. tok \in Token
  BY <1>2, <1>3 DEF Token
<1>5. tok.MaxFloorAmount = ceiling /\ tok /= NoToken
  BY DEF NoToken
<1>6. EdgeTypeOK'
  BY <1>1, <1>4 DEF EdgeInv, EdgeTypeOK
<1> HIDE DEF tok
<1>7. /\ issued'[id] = tok
      /\ \A other \in TokenIDs \ {id} : issued'[other] = issued[other]
      /\ Issued' = Issued \cup {id}
      /\ id \notin Issued
  BY <1>1, <1>5 DEF EdgeInv, EdgeTypeOK, Issued
<1>8. CountersAreExact'
  BY <1>1, GrantedIsSum DEF EdgeInv, CountersAreExact
<1>9. CountersCapped'
  <2>1. \A i \in DOMAIN grants : grants[i].TokenID /= id
    BY <1>7 DEF EdgeInv, GrantsHonourBinding
  <2>2. \A t \in Terminals : spentByToken[t][id] = 0
    <3>1. EdgeTypeOK
      BY DEF EdgeInv
    <3>2. \A T : Granted(T, id) = 0
      BY <2>1, <3>1, NothingGranted
    <3>3. QED
      BY <3>2 DEF EdgeInv, CountersAreExact
  <2>3. \A t \in Terminals : spentByToken'[t][id] <= Ceiling(id)'
    <3>1. Ceiling(id)' \in Nat
      BY <1>6, <1>7, CeilingTypes
    <3>2. QED
      BY <1>1, <2>2, <3>1
  <2>4. \A other \in Issued, t \in Terminals :
          spentByToken'[t][other] <= Ceiling(other)'
    BY <1>1, <1>7 DEF EdgeInv, CountersCapped, Issued, Ceiling
  <2>5. QED
    BY <1>7, <2>3, <2>4 DEF CountersCapped
<1>10. GrantsHonourBinding'
  BY <1>1, <1>7 DEF EdgeInv, GrantsHonourBinding, Issued
<1>11. QED
  BY <1>6, <1>8, <1>9, <1>10 DEF EdgeInv

(* An authorization counts what it grants, at a terminal the token may be  *)
(* used at, and only within the ceiling.                                   *)
LEMMA AuthorizeOfflinePreserves ==
  ASSUME EdgeInv, NEW t \in Terminals, NEW tok, NEW n \in Int,
         NEW reason, AuthorizeOffline(t, tok, n, reason)
  PROVE  EdgeInv'
<1>1. CASE reason /= "APPROVED"
  <2>1. UNCHANGED edgeVars
    BY <1>1 DEF AuthorizeOffline, edgeVars
  <2>2. QED
    BY <2>1 DEF edgeVars, EdgeInv, EdgeTypeOK, CountersAreExact,
                CountersCapped, GrantsHonourBinding, Granted, Issued, Ceiling
<1>2. CASE reason = "APPROVED"
  <2> DEFINE id == tok.TokenID
             g == [terminal |-> t, TokenID |-> id, Amount |-> n, at |-> now]
  <2>1. /\ id \in Issued
        /\ tok = issued[id]
        /\ tok.TerminalID \in {Anywhere, t}
        /\ ~(spentByToken[t][id] + n > tok.MaxFloorAmount)
    BY <1>2, ApprovalMeans DEF AuthorizeOffline
  <2>2. /\ spentByToken' = [spentByToken EXCEPT ![t][id] = @ + n]
        /\ sequenceNum' = [sequenceNum EXCEPT ![t] = @ + 1]
        /\ grants' = Append(grants, g)
        /\ UNCHANGED <<issued, now, blocked>>
    BY <1>2 DEF AuthorizeOffline
  <2> HIDE DEF id
  <2>3. id \in TokenIDs /\ issued[id] \in Token
    BY <2>1 DEF Issued, EdgeInv, EdgeTypeOK
  <2>4. g \in Grant
    BY <2>3 DEF Grant, EdgeInv, EdgeTypeOK
  <2>5. /\ g.terminal = t /\ g.TokenID = id /\ g.Amount = n
    OBVIOUS
  <2> HIDE DEF g
  <2>6. EdgeTypeOK'
    BY <2>2, <2>3, <2>4 DEF EdgeInv, EdgeTypeOK
  <2>7. /\ spentByToken \in [Terminals -> [TokenIDs -> Int]]
        /\ grants \in Seq(Grant)
    BY DEF EdgeInv, EdgeTypeOK
  <2>8. ASSUME NEW s \in Terminals, NEW other \in TokenIDs
        PROVE  spentByToken'[s][other] =
                 spentByToken[s][other]
                   + (IF s = t /\ other = id THEN n ELSE 0)
    BY <2>2, <2>3, <2>7
  <2>9. CountersAreExact'
    <3>1. SUFFICES ASSUME NEW s \in Terminals, NEW other \in TokenIDs
                   PROVE  Granted({s}, other)' = spentByToken'[s][other]
      BY DEF CountersAreExact
    <3>2. Granted({s}, other)' = GrantedIn(grants', {s}, other)
      BY GrantedIsSum
    <3>3. GrantedIn(grants, {s}, other) = spentByToken[s][other]
      BY GrantedIsSum DEF EdgeInv, CountersAreExact
    <3>4. GrantedIn(Append(grants, g), {s}, other) =
            GrantedIn(grants, {s}, other) + Share(g, {s}, other)
      BY <2>4, <2>7, GrantedInAppend
    <3>5. Share(g, {s}, other) = IF s = t /\ other = id THEN n ELSE 0
      BY <2>5 DEF Share
    <3>6. QED
      BY <2>2, <2>8, <3>2, <3>3, <3>4, <3>5
  <2>10. CountersCapped'
    <3>1. SUFFICES ASSUME NEW s \in Terminals, NEW other \in Issued
                   PROVE  spentByToken'[s][other] <= Ceiling(other)
      BY <2>2 DEF CountersCapped, Issued, Ceiling
    <3>2. /\ other \in TokenIDs
          /\ spentByToken[s][other] \in Int
          /\ spentByToken[t][id] \in Int
          /\ Ceiling(other) \in Nat
          /\ issued[other].MaxFloorAmount \in Int
          /\ issued[other].MaxFloorAmount <= Ceiling(other)
      BY <2>3, <2>7, CeilingTypes DEF EdgeInv, Issued
    <3>3. spentByToken[s][other] <= Ceiling(other)
      BY DEF EdgeInv, CountersCapped
    <3>4. CASE s = t /\ other = id
      BY <2>1, <2>8, <3>2, <3>4
    <3>5. CASE ~(s = t /\ other = id)
      BY <2>8, <3>2, <3>3, <3>5
    <3>6. QED
      BY <3>4, <3>5
  <2>11. GrantsHonourBinding'
    <3>1. DOMAIN grants' = DOMAIN grants \cup {Len(grants) + 1}
      BY <2>2, <2>7
    <3>2. \A i \in DOMAIN grants : grants'[i] = grants[i]
      BY <2>2, <2>7
    <3>3. grants'[Len(grants) + 1] = g
      BY <2>2, <2>7
    <3>4. Issued' = Issued /\ issued' = issued
      BY <2>2 DEF Issued
    <3>5. QED
      BY <2>1, <2>5, <3>1, <3>2, <3>3, <3>4 DEF EdgeInv, GrantsHonourBinding
  <2>12. QED
    BY <2>6, <2>9, <2>10, <2>11 DEF EdgeInv
<1>3. QED
  BY <1>1, <1>2

(* Every step preserves the invariant.                                     *)
LEMMA EdgeInvNext == EdgeInv /\ [EdgeNext]_edgeVars => EdgeInv'
<1>1. SUFFICES ASSUME EdgeInv, [EdgeNext]_edgeVars PROVE EdgeInv'
  OBVIOUS
<1>2. ASSUME NEW id \in TokenIDs, NEW a \in Accounts,
             NEW floorAmount \in Ceilings, NEW duration \in 0..MaxTime,
             NEW terminal \in Terminals \cup {Anywhere},
             IssueToken(id, a, floorAmount, duration, terminal)
      PROVE  EdgeInv'
  BY <1>1, <1>2, IssueTokenPreserves
<1>3. ASSUME NEW t \in Terminals, NEW tok \in Presented, NEW n \in Amounts,
             NEW reason \in ReasonCodes, AuthorizeOffline(t, tok, n, reason)
      PROVE  EdgeInv'
  BY <1>1, <1>3, OfflineAmountsAssumption, AuthorizeOfflinePreserves
<1>4. ASSUME UNCHANGED <<issued, spentByToken, grants>>
      PROVE  /\ CountersAreExact' /\ CountersCapped' /\ GrantsHonourBinding'
  BY <1>1, <1>4 DEF EdgeInv, CountersAreExact, CountersCapped,
                    GrantsHonourBinding, Granted, Issued, Ceiling
<1>5. CASE Tick
  <2>1. EdgeTypeOK'
    BY <1>1, <1>5 DEF Tick, EdgeInv, EdgeTypeOK
  <2>2. QED
    BY <1>4, <1>5, <2>1 DEF Tick, EdgeInv
<1>6. ASSUME NEW id \in Accounts \cup TokenIDs, Revoke(id)
      PROVE  EdgeInv'
  <2>1. EdgeTypeOK'
    BY <1>1, <1>6 DEF Revoke, EdgeInv, EdgeTypeOK
  <2>2. QED
    BY <1>4, <1>6, <2>1 DEF Revoke, EdgeInv
<1>7. CASE UNCHANGED edgeVars
  <2>1. EdgeTypeOK'
    BY <1>1, <1>7 DEF edgeVars, EdgeInv, EdgeTypeOK
  <2>2. QED
    BY <1>4, <1>7, <2>1 DEF edgeVars, EdgeInv
<1>8. QED
  BY <1>1, <1>2, <1>3, <1>5, <1>6, <1>7 DEF EdgeNext

-----------------------------------------------------------------------------
(***************************************************************************)
(* The authorizers' variables keep their types; in particular no token is  *)
(* ever issued with a ceiling above the floor limit.                       *)
(***************************************************************************)
THEOREM EdgeTypeCorrect == EdgeSpec => []EdgeTypeOK
<1>1. EdgeInv => EdgeTypeOK
  BY DEF EdgeInv
<1>2. QED
  BY <1>1, EdgeInvInit, EdgeInvNext, PTL DEF EdgeSpec

(***************************************************************************)
(* No terminal grants more under a token than the authority signed, for    *)
(* any number of terminals and tokens and whatever tokens are shown.       *)
(***************************************************************************)
THEOREM TerminalSpendIsCapped == EdgeSpec => []TerminalSpendCapped
<1>1. EdgeInv => TerminalSpendCapped
  BY DEF EdgeInv, CountersAreExact, CountersCapped, TerminalSpendCapped, Issued
<1>2. QED
  BY <1>1, EdgeInvInit, EdgeInvNext, PTL DEF EdgeSpec

(***************************************************************************)
(* A token bound to a terminal is capped over all terminals together: all  *)
(* that is granted under it is granted at its terminal.                    *)
(***************************************************************************)
THEOREM BoundTokenIsCapped == EdgeSpec => []BoundTokensCapped
<1>1. ASSUME EdgeInv, NEW id \in Issued, issued[id].TerminalID /= Anywhere
      PROVE  Granted(Terminals, id) <= Ceiling(id)
  <2> DEFINE home == issued[id].TerminalID
  <2>1. /\ id \in TokenIDs
        /\ issued[id] \in Token
        /\ home \in Terminals
        /\ grants \in Seq(Grant)
    BY <1>1 DEF EdgeInv, EdgeTypeOK, Issued, Token
  <2> DEFINE F == [i \in DOMAIN grants |-> Share(grants[i], Terminals, id)]
             H == [i \in DOMAIN grants |-> Share(grants[i], {home}, id)]
  <2>2. /\ DOMAIN F = DOMAIN grants /\ DOMAIN H = DOMAIN grants
        /\ IsFiniteSet(DOMAIN grants)
    BY <2>1, FS_Interval
  <2>3. \A i \in DOMAIN grants : F[i] \in Int /\ F[i] = H[i]
    <3>1. SUFFICES ASSUME NEW i \in DOMAIN grants
                   PROVE  /\ Share(grants[i], Terminals, id) \in Int
                          /\ Share(grants[i], Terminals, id) =
                               Share(grants[i], {home}, id)
      OBVIOUS
    <3>2. grants[i] \in Grant /\ grants[i].terminal \in Terminals
      <4>1. grants[i] \in Grant
        BY <2>1
      <4>2. QED
        BY <4>1 DEF Grant
    <3>3. grants[i].TokenID = id => grants[i].terminal = home
      BY <1>1 DEF EdgeInv, GrantsHonourBinding
    <3>4. QED
      BY <2>1, <3>2, <3>3, ShareType DEF Share
  <2> HIDE DEF F, H
  <2>4. SumFunction(F) = SumFunction(H)
    BY <2>2, <2>3, SumSame DEF SumFunction
  <2>5. Granted(Terminals, id) = Granted({home}, id)
    BY <2>4, GrantedIsSum DEF GrantedIn, F, H
  <2>6. QED
    BY <1>1, <2>1, <2>5 DEF EdgeInv, CountersAreExact, CountersCapped
<1>2. EdgeInv => BoundTokensCapped
  BY <1>1 DEF BoundTokensCapped
<1>3. QED
  BY <1>2, EdgeInvInit, EdgeInvNext, PTL DEF EdgeSpec

-----------------------------------------------------------------------------
(* The inductive invariant that needs nothing of the clients.              *)

TxOf(r) == Request[r].TxID

(* The replay has yet to come to tx, or is at it.                          *)
Underway(tx) == tx = current \/ \E i \in DOMAIN batch : batch[i] = tx

(* Once the network is back and no reconnection waits, only a late payment *)
(* is pending that no replay is about to settle.                           *)
PendingIsKnown ==
  networkStatus = "RECONNECTED" /\ due = 0 =>
    \A tx \in Present :
      txMap[tx] = "PENDING" => tx \in late \/ Underway(tx)

(* A request that holds money can pay it.                                  *)
HoldersCanPay ==
  \A r \in Requests :
    pc[r] = "commit" => /\ PaymentOf(r).AccountID \in exists
                        /\ PaymentOf(r).Amount > 0

(* The types of the gateway's own variables.                               *)
GatewayTypes ==
  /\ networkStatus \in NetworkStatuses
  /\ idempotency \in [Keys -> Responses \cup {NoResponse}]
  /\ pc \in [Requests -> Steps]
  /\ resp \in [Requests -> Responses \cup {NoResponse}]
  /\ due \in 0..MaxDue
  /\ late \subseteq TxIDs

(* What is known of the replay and the log, with no payment's money in it: *)
(* clients may submit a payment as often as they like.                     *)
GatewayInv ==
  /\ ReplayInv({})
  /\ EdgeInv
  /\ GatewayTypes
  /\ HoldsInFlight
  /\ HoldersCanPay
  /\ PendingIsKnown
  /\ replayPc = "idle" => batch = <<>>

-----------------------------------------------------------------------------
(* What a request asks for.                                                *)
LEMMA RequestTypes ==
  ASSUME NEW r \in Requests
  PROVE  /\ TxOf(r) \in QueuedTxIDs /\ TxOf(r) \in TxIDs
         /\ PaymentOf(r) = Payment[TxOf(r)]
         /\ PaymentOf(r).AccountID \in Accounts
         /\ PaymentOf(r).MerchantID \in Accounts
         /\ PaymentOf(r).AccountID /= PaymentOf(r).MerchantID
         /\ PaymentOf(r).Amount \in Int
         /\ Request[r].IdempotencyKey \in Keys \cup {NoKey}
         /\ Request[r].OfflineToken \in TokenIDs \cup {NoToken}
<1>1. TxOf(r) \in QueuedTxIDs /\ PaymentOf(r) = Payment[TxOf(r)]
  BY RequestAssumption DEF TxOf, PaymentOf
<1>2. QED
  BY <1>1, PaymentTypes, RequestAssumption

(* What all requests together hold on an account.                          *)
HeldOn(a) == SumFunction([r \in Requests |-> HeldBy(r, a)])

(* One request goes on: only what it holds itself changes.                 *)
LEMMA HoldsMove ==
  ASSUME pc \in [Requests -> Steps], NEW r \in Requests, NEW s \in Steps,
         pc' = [pc EXCEPT ![r] = s], NEW a \in Accounts
  PROVE  /\ HeldOn(a) \in Int /\ HeldBy(r, a) \in Int /\ HeldBy(r, a)' \in Int
         /\ HeldOn(a)' = HeldOn(a) - HeldBy(r, a) + HeldBy(r, a)'
<1>1. PICK F : F = [q \in Requests |-> HeldBy(q, a)]
  OBVIOUS
<1>2. PICK G : G = [q \in Requests |-> HeldBy(q, a)']
  OBVIOUS
<1>3. \A q \in Requests : HeldBy(q, a) \in Int /\ HeldBy(q, a)' \in Int
  BY RequestTypes DEF HeldBy
<1>4. \A q \in Requests \ {r} : HeldBy(q, a)' = HeldBy(q, a)
  BY DEF HeldBy
<1>5. /\ IsFiniteSet(Requests)
      /\ DOMAIN F = Requests /\ DOMAIN G = Requests
      /\ \A q \in Requests : F[q] \in Int /\ G[q] \in Int
      /\ \A q \in Requests \ {r} : F[q] = G[q]
      /\ F[r] = HeldBy(r, a) /\ G[r] = HeldBy(r, a)'
  BY <1>1, <1>2, <1>3, <1>4, RequestsAssumption
<1>6. /\ SumFunctionOnSet(F, Requests) \in Int
      /\ SumFunctionOnSet(G, Requests) =
           SumFunctionOnSet(F, Requests) - F[r] + G[r]
  <2>1. SumFunctionOnSet(F, Requests) \in Int
    BY <1>5, SumType
  <2>2. SumFunctionOnSet(G, Requests) =
          SumFunctionOnSet(F, Requests) - F[r] + G[r]
    <3>1. \A q \in Requests \ {r} : F[q] = G[q]
      BY <1>5
    <3>2. /\ IsFiniteSet(Requests) /\ r \in Requests
          /\ \A q \in Requests : F[q] \in Int /\ G[q] \in Int
      BY <1>5
    <3>3. QED
      BY ONLY <3>1, <3>2, SumUpdate
  <2>3. QED
    BY <2>1, <2>2
<1>7. HeldOn(a) = SumFunctionOnSet(F, Requests)
  BY <1>1, <1>5 DEF HeldOn, SumFunction
<1>8. HeldOn(a)' = SumFunctionOnSet(G, Requests)
  BY <1>2, <1>5 DEF HeldOn, SumFunction
<1>9. QED
  BY <1>3, <1>5, <1>6, <1>7, <1>8

(* The reserved bucket moves with the request's own hold.                  *)
LEMMA RequestStepHolds ==
  ASSUME GatewayInv, NEW r \in Requests, NEW s \in Steps,
         pc' = [pc EXCEPT ![r] = s], exists \subseteq exists',
         \A a \in Accounts :
           balance'[ReservedBalance(a)] =
             balance[ReservedBalance(a)] - HeldBy(r, a) + HeldBy(r, a)',
         s = "commit" => /\ PaymentOf(r).AccountID \in exists'
                         /\ PaymentOf(r).Amount > 0
  PROVE  HoldsInFlight' /\ HoldersCanPay'
<1>1. /\ pc \in [Requests -> Steps] /\ HoldersCanPay
      /\ \A a \in Accounts : balance[ReservedBalance(a)] = HeldOn(a)
  BY DEF GatewayInv, GatewayTypes, HoldsInFlight, HeldOn
<1>2. ASSUME NEW a \in Accounts
      PROVE  balance'[ReservedBalance(a)] = HeldOn(a)'
  BY <1>1, HoldsMove
<1>3. HoldsInFlight'
  BY <1>2 DEF HoldsInFlight, HeldOn
<1>4. pc'[r] = s /\ \A q \in Requests \ {r} : pc'[q] = pc[q]
  BY <1>1
<1>5. ASSUME NEW q \in Requests, pc'[q] = "commit"
      PROVE  PaymentOf(q).AccountID \in exists' /\ PaymentOf(q).Amount > 0
  BY <1>1, <1>4, <1>5 DEF HoldersCanPay
<1>6. HoldersCanPay'
  BY <1>5 DEF HoldersCanPay, PaymentOf
<1>7. QED
  BY <1>3, <1>6

(* Nothing is done to a hold, and no account is closed.                    *)
HoldsLeftAlone ==
  /\ exists \subseteq exists'
  /\ \A a \in Accounts :
       balance'[ReservedBalance(a)] = balance[ReservedBalance(a)]

LEMMA ServerStepHolds ==
  ASSUME HoldsInFlight, HoldersCanPay, UNCHANGED pc, HoldsLeftAlone
  PROVE  HoldsInFlight' /\ HoldersCanPay'
<1>1. HoldsInFlight'
  BY DEF HoldsInFlight, HoldsLeftAlone, HeldBy
<1>2. HoldersCanPay'
  BY DEF HoldersCanPay, HoldsLeftAlone, PaymentOf
<1>3. QED
  BY <1>1, <1>2

(* A request that neither takes nor gives back a hold.                     *)
LEMMA NoHoldStep ==
  ASSUME GatewayInv, NEW r \in Requests, NEW s \in Steps,
         pc' = [pc EXCEPT ![r] = s], pc[r] /= "commit", s /= "commit",
         HoldsLeftAlone
  PROVE  HoldsInFlight' /\ HoldersCanPay'
<1>1. pc'[r] = s
  BY DEF GatewayInv, GatewayTypes
<1>2. \A a : HeldBy(r, a) = 0 /\ HeldBy(r, a)' = 0
  BY <1>1 DEF HeldBy
<1>3. \A a \in Accounts : balance[ReservedBalance(a)] \in Int
  BY BucketsOfAccount
     DEF GatewayInv, ReplayInv, ReplayWell, ReconTypeOK, LedgerTypeOK
<1>4. \A a \in Accounts :
        balance'[ReservedBalance(a)] =
          balance[ReservedBalance(a)] - HeldBy(r, a) + HeldBy(r, a)'
  BY <1>2, <1>3 DEF HoldsLeftAlone
<1>5. exists \subseteq exists'
  BY DEF HoldsLeftAlone
<1>6. QED
  BY <1>4, <1>5, RequestStepHolds

(* What is pending stays known while each payment is late or under way.    *)
LEMMA PendingStaysKnown ==
  ASSUME PendingIsKnown, UNCHANGED <<networkStatus, due>>,
         late \subseteq late',
         networkStatus = "RECONNECTED" =>
           \A tx \in Present' :
             txMap'[tx] = "PENDING" =>
               \/ tx \in late' \/ Underway(tx)'
               \/ /\ tx \in Present /\ txMap[tx] = "PENDING"
                  /\ ~Underway(tx)
  PROVE  PendingIsKnown'
BY DEF PendingIsKnown

-----------------------------------------------------------------------------
(* The ledger, the log and the replay, left alone.                         *)
LEMMA ReconLeftAlone ==
  ASSUME NEW Q, ReplayInv(Q), UNCHANGED reconVars
  PROVE  /\ ReplayInv(Q)' /\ Present' = Present /\ HoldsLeftAlone
         /\ UNCHANGED <<ledgerVars, walVars, replayVars>>
         /\ UNCHANGED <<txMap, batch, current, replayPc, entries, balance>>
         /\ \A tx : Underway(tx)' <=> Underway(tx)
<1>1. LedgerTypeOK /\ UNCHANGED <<ledgerVars, walVars, replayVars>>
  BY DEF reconVars, ReplayInv, ReplayWell, ReconTypeOK
<1>2. LedgerTypeOK' /\ \A tx : SameCredit(tx)
  BY <1>1, LedgerLeftAlone
<1>3. ReplayInv(Q)'
  BY <1>1, <1>2, LedgerStepKeeps
<1>4. /\ UNCHANGED <<txMap, batch, current, replayPc, entries, balance>>
      /\ UNCHANGED exists
  BY <1>1 DEF ledgerVars, walVars, replayVars
<1>5. QED
  BY <1>1, <1>3, <1>4 DEF Present, HoldsLeftAlone, Underway

(* The authorizer, left alone.                                             *)
LEMMA EdgeLeftAlone ==
  ASSUME EdgeInv, UNCHANGED edgeVars
  PROVE  EdgeInv' /\ Issued' = Issued
BY DEF edgeVars, EdgeInv, EdgeTypeOK, CountersAreExact, CountersCapped,
       GrantsHonourBinding, Granted, Issued, Ceiling

(* A step of a request that touches neither money nor log.                 *)
LEMMA QuietStep ==
  ASSUME GatewayInv, NEW r \in Requests, NEW s \in Steps,
         pc' = [pc EXCEPT ![r] = s], pc[r] /= "commit", s /= "commit",
         GatewayTypes', UNCHANGED <<networkStatus, due, late>>,
         UNCHANGED reconVars, EdgeInv'
  PROVE  GatewayInv'
<1>1. /\ ReplayInv({})' /\ Present' = Present /\ HoldsLeftAlone
      /\ UNCHANGED <<txMap, batch, current, replayPc>>
      /\ \A tx : Underway(tx)' <=> Underway(tx)
  BY ReconLeftAlone DEF GatewayInv
<1>2. HoldsInFlight' /\ HoldersCanPay'
  BY <1>1, NoHoldStep
<1>3. PendingIsKnown'
  BY <1>1, PendingStaysKnown DEF GatewayInv
<1>4. QED
  BY <1>1, <1>2, <1>3 DEF GatewayInv

(* The steps of ProcessPayment that only decide where a request goes on.   *)
LEMMA DecisionsPreserve ==
  ASSUME GatewayInv, NEW r \in Requests,
         \/ Submit(r)
         \/ \E valid \in BOOLEAN : CheckQR(r, valid)
         \/ Route(r)
         \/ \E approved \in BOOLEAN : ScreenTransaction(r, approved)
         \/ CacheResponse(r)
  PROVE  GatewayInv'
<1>1. /\ pc \in [Requests -> Steps] /\ EdgeInv
      /\ resp \in [Requests -> Responses \cup {NoResponse}]
      /\ idempotency \in [Keys -> Responses \cup {NoResponse}]
  BY DEF GatewayInv, GatewayTypes
<1>2. /\ UNCHANGED <<networkStatus, due, late>>
      /\ UNCHANGED reconVars /\ UNCHANGED edgeVars
  BY DEF Submit, CheckQR, Route, ScreenTransaction, CacheResponse
<1>3. EdgeInv'
  BY <1>1, <1>2, EdgeLeftAlone
<1>4. /\ pc[r] /= "commit"
      /\ \E s \in Steps \ {"commit"} : pc' = [pc EXCEPT ![r] = s]
  BY DEF Submit, CheckQR, Route, ScreenTransaction, CacheResponse, GoTo,
         Respond, Steps
<1>5. resp' \in [Requests -> Responses \cup {NoResponse}]
  <2>1. UNCHANGED resp \/ \E status \in Responses \cup {NoResponse} :
                            resp' = [resp EXCEPT ![r] = status]
    <3>1. CASE Submit(r)
      <4>1. LET key == Request[r].IdempotencyKey
            IN  key /= NoKey =>
                  idempotency[key] \in Responses \cup {NoResponse}
        BY <1>1, RequestTypes
      <4>2. QED
        BY <3>1, <4>1 DEF Submit, GoTo
    <3>2. CASE ~Submit(r)
      BY <3>2 DEF CheckQR, Route, ScreenTransaction, CacheResponse, GoTo,
                  Respond, Responses
    <3>3. QED
      BY <3>1, <3>2
  <2>2. QED
    BY <1>1, <2>1
<1>6. idempotency' \in [Keys -> Responses \cup {NoResponse}]
  <2>1. CASE CacheResponse(r)
    <3>1. resp[r] \in Responses \cup {NoResponse}
      BY <1>1
    <3>2. QED
      BY <1>1, <2>1, <3>1, RequestTypes DEF CacheResponse
  <2>2. CASE ~CacheResponse(r)
    BY <1>1, <2>2 DEF Submit, CheckQR, Route, ScreenTransaction
  <2>3. QED
    BY <2>1, <2>2
<1>7. GatewayTypes'
  BY <1>1, <1>2, <1>4, <1>5, <1>6 DEF GatewayInv, GatewayTypes
<1>8. QED
  BY <1>2, <1>3, <1>4, <1>7, QuietStep

(* handleOfflinePayment, step A.                                           *)
LEMMA AuthorizePreserves ==
  ASSUME GatewayInv, NEW r \in Requests, NEW reason, Authorize(r, reason)
  PROVE  GatewayInv'
<1>1. /\ pc \in [Requests -> Steps] /\ EdgeInv
      /\ resp \in [Requests -> Responses \cup {NoResponse}]
  BY DEF GatewayInv, GatewayTypes
<1>2. /\ UNCHANGED <<networkStatus, idempotency, due, late>>
      /\ UNCHANGED reconVars
      /\ pc[r] = "offline"
      /\ \/ UNCHANGED edgeVars
         \/ AuthorizeOffline(Here, issued[Request[r].OfflineToken],
                             PaymentOf(r).Amount, reason)
  BY DEF Authorize
<1>3. EdgeInv'
  <2>1. PaymentOf(r).Amount \in Int
    BY RequestTypes
  <2>2. QED
    BY <1>1, <1>2, <2>1, HereAssumption, EdgeLeftAlone,
       AuthorizeOfflinePreserves
<1>4. \/ GoTo(r, "append")
      \/ Respond(r, "DECLINED")
  BY DEF Authorize
<1>5. /\ \E s \in Steps \ {"commit"} : pc' = [pc EXCEPT ![r] = s]
      /\ resp' \in [Requests -> Responses \cup {NoResponse}]
  BY <1>1, <1>4 DEF GoTo, Respond, Steps, Responses
<1>6. GatewayTypes'
  BY <1>1, <1>2, <1>5 DEF GatewayInv, GatewayTypes
<1>7. QED
  BY <1>2, <1>3, <1>5, <1>6, QuietStep

(* Step B: a payment that reaches the log after the network is back is     *)
(* late.                                                                   *)
LEMMA AppendToWALPreserves ==
  ASSUME GatewayInv, NEW r \in Requests, NEW err, AppendToWAL(r, err)
  PROVE  GatewayInv'
<1>1. /\ pc \in [Requests -> Steps] /\ EdgeInv /\ ReplayInv({})
      /\ resp \in [Requests -> Responses \cup {NoResponse}]
      /\ late \subseteq TxIDs /\ PendingIsKnown
  BY DEF GatewayInv, GatewayTypes
<1>2. /\ WALAppend(TxOf(r), err)
      /\ UNCHANGED <<networkStatus, idempotency, due>>
      /\ UNCHANGED <<ledgerVars, replayVars, edgeVars>>
      /\ pc[r] = "append"
      /\ late' = IF err = "nil" /\ networkStatus /= "DISCONNECTED"
                 THEN late \cup {TxOf(r)} ELSE late
      /\ \E status \in Responses : Respond(r, status)
  BY DEF AppendToWAL, TxOf, Responses
<1>3. TxOf(r) \in QueuedTxIDs /\ TxOf(r) \in TxIDs
  BY RequestTypes
<1>4. ReplayInv({})'
  BY <1>1, <1>2, <1>3, QueueOfflinePreserves DEF QueueOffline
<1>5. EdgeInv'
  BY <1>1, <1>2, EdgeLeftAlone
<1>6. /\ \E s \in Steps \ {"commit"} : pc' = [pc EXCEPT ![r] = s]
      /\ resp' \in [Requests -> Responses \cup {NoResponse}]
  BY <1>1, <1>2 DEF Respond, Steps
<1>7. GatewayTypes'
  BY <1>1, <1>2, <1>3, <1>6 DEF GatewayInv, GatewayTypes
<1>8. HoldsInFlight' /\ HoldersCanPay'
  <2>1. HoldsLeftAlone
    BY <1>2 DEF ledgerVars, HoldsLeftAlone
  <2>2. QED
    BY <1>2, <1>6, <2>1, NoHoldStep
<1>9. UNCHANGED <<batch, current, replayPc>>
  BY <1>2 DEF replayVars
<1>10. PendingIsKnown'
  <2>1. WALInv /\ txMap \in [TxIDs -> Statuses \cup {Absent}]
    BY <1>1 DEF ReplayInv, ReplayWell, WALInv, WALTypeOK
  <2>2. /\ \A tx \in Present : tx \in Present' /\ txMap'[tx] = txMap[tx]
        /\ \A tx \in Present' : \/ tx \in Present
                                \/ tx = TxOf(r) /\ txMap'[tx] = "PENDING"
    BY <1>2, <1>3, <2>1, AppendGrows
  <2>3. err /= "nil" => Present' = Present
    BY <1>2 DEF WALAppend, AppendTorn, AppendUnsynced, Present
  <2>4. \A tx : Underway(tx)' <=> Underway(tx)
    BY <1>9 DEF Underway
  <2>5. late \subseteq late'
    BY <1>2
  <2>6. ASSUME networkStatus = "RECONNECTED", NEW tx \in Present',
               txMap'[tx] = "PENDING"
        PROVE  \/ tx \in late' \/ Underway(tx)'
               \/ tx \in Present /\ txMap[tx] = "PENDING" /\ ~Underway(tx)
    <3>1. CASE tx \in Present
      BY <2>2, <2>4, <2>6, <3>1
    <3>2. CASE tx \notin Present
      BY <1>2, <2>2, <2>3, <2>6, <3>2
    <3>3. QED
      BY <3>1, <3>2
  <2>7. QED
    BY <1>1, <1>2, <2>5, <2>6, PendingStaysKnown
<1>11. QED
  BY <1>4, <1>5, <1>7, <1>8, <1>9, <1>10 DEF GatewayInv

(* A step of a request that works on the ledger only.                      *)
LEMMA LedgerRequestStep ==
  ASSUME GatewayInv, NEW r \in Requests, NEW s \in Steps,
         pc' = [pc EXCEPT ![r] = s],
         resp' \in [Requests -> Responses \cup {NoResponse}],
         UNCHANGED <<networkStatus, idempotency, due, late>>,
         UNCHANGED <<walVars, replayVars, edgeVars>>,
         LedgerTypeOK', HoldsInFlight', HoldersCanPay'
  PROVE  GatewayInv'
<1>1. EdgeInv'
  BY EdgeLeftAlone DEF GatewayInv
<1>2. ReplayInv({})'
  BY LedgerStepKeeps DEF GatewayInv
<1>3. GatewayTypes'
  BY DEF GatewayInv, GatewayTypes
<1>4. UNCHANGED <<txMap, batch, current, replayPc>> /\ Present' = Present
  BY DEF walVars, replayVars, Present
<1>5. PendingIsKnown'
  BY <1>4, PendingStaysKnown DEF GatewayInv, Underway
<1>6. QED
  BY <1>1, <1>2, <1>3, <1>4, <1>5 DEF GatewayInv

(* ReserveFunds: the hold is the request's.                                *)
LEMMA ReservePreserves ==
  ASSUME GatewayInv, NEW r \in Requests, NEW err, Reserve(r, err)
  PROVE  GatewayInv'
<1> DEFINE payer == PaymentOf(r).AccountID
           n == PaymentOf(r).Amount
<1>1. /\ ReserveFunds(payer, n, TxOf(r), err)
      /\ UNCHANGED <<networkStatus, idempotency, due, late>>
      /\ UNCHANGED <<walVars, replayVars, edgeVars>>
      /\ pc[r] = "reserve"
      /\ IF err = "nil" THEN GoTo(r, "commit") ELSE Respond(r, "DECLINED")
  BY DEF Reserve, TxOf
<1>2. /\ payer \in Accounts /\ n \in Int /\ TxOf(r) \in TxIDs
  BY RequestTypes
<1>3. /\ LedgerTypeOK /\ pc \in [Requests -> Steps]
      /\ balance \in [Buckets -> Int]
      /\ resp \in [Requests -> Responses \cup {NoResponse}]
  BY DEF GatewayInv, GatewayTypes, ReplayInv, ReplayWell, ReconTypeOK,
         LedgerTypeOK
<1>4. LedgerTypeOK'
  BY <1>1, <1>2, <1>3, SetAsideEffect
<1>5. \A a : HeldBy(r, a) = 0
  BY <1>1 DEF HeldBy
<1>6. UNCHANGED exists
  BY <1>1 DEF ReserveFunds
<1>7. CASE err = "nil"
  <2>1. /\ Move(OnlineAvailable(payer), ReservedBalance(payer), n)
        /\ payer \in exists /\ n > 0
    <3>1. DebitError(payer, OnlineAvailable(payer), n,
                     "ErrInsufficientFunds") = "nil"
      BY <1>1, <1>7 DEF ReserveFunds
    <3>2. payer \in exists /\ n > 0
      <4>1. n \in Int /\ ~(n <= 0) /\ payer \in exists
        BY <1>2, <3>1 DEF DebitError
      <4>2. QED
        BY <4>1
    <3>3. QED
      BY <1>1, <1>7, <3>2 DEF ReserveFunds
  <2>2. /\ pc' = [pc EXCEPT ![r] = "commit"] /\ UNCHANGED resp
        /\ "commit" \in Steps
    BY <1>1, <1>7 DEF GoTo, Steps
  <2>3. pc'[r] = "commit"
    BY <1>3, <2>2
  <2>4. ASSUME NEW a \in Accounts
        PROVE  balance'[ReservedBalance(a)] =
                 balance[ReservedBalance(a)] - HeldBy(r, a) + HeldBy(r, a)'
    <3>1. balance'[ReservedBalance(a)] =
            balance[ReservedBalance(a)] + (IF a = payer THEN n ELSE 0)
      <4>1. balance'[ReservedBalance(a)] =
              balance[ReservedBalance(a)]
                - (IF ReservedBalance(a) = OnlineAvailable(payer)
                   THEN n ELSE 0)
                + (IF ReservedBalance(a) = ReservedBalance(payer)
                   THEN n ELSE 0)
        BY <1>2, <1>3, <2>1, BucketsOfAccount, MoveEffect
      <4>2. /\ ReservedBalance(a) /= OnlineAvailable(payer)
            /\ ReservedBalance(a) = ReservedBalance(payer) <=> a = payer
            /\ balance[ReservedBalance(a)] \in Int
        BY <1>2, <1>3, BucketsOfAccount
      <4>3. QED
        BY <1>2, <4>1, <4>2
    <3>2. HeldBy(r, a)' = IF a = payer THEN n ELSE 0
      BY <2>3 DEF HeldBy, PaymentOf
    <3>3. balance[ReservedBalance(a)] \in Int
      BY <1>3, BucketsOfAccount
    <3>4. QED
      BY <1>2, <1>5, <3>1, <3>2, <3>3
  <2>5. HoldsInFlight' /\ HoldersCanPay'
    BY <1>6, <2>1, <2>2, <2>4, RequestStepHolds
  <2>6. QED
    BY <1>1, <1>3, <1>4, <2>2, <2>5, LedgerRequestStep
<1>8. CASE err /= "nil"
  <2>1. /\ pc' = [pc EXCEPT ![r] = "cache"] /\ "cache" \in Steps
        /\ resp' = [resp EXCEPT ![r] = "DECLINED"]
    BY <1>1, <1>8 DEF Respond, Steps
  <2>2. HoldsLeftAlone
    BY <1>1, <1>8 DEF ReserveFunds, HoldsLeftAlone
  <2>3. HoldsInFlight' /\ HoldersCanPay'
    BY <1>1, <2>1, <2>2, NoHoldStep
  <2>4. resp' \in [Requests -> Responses \cup {NoResponse}]
    BY <1>3, <2>1 DEF Responses
  <2>5. QED
    BY <1>1, <1>4, <2>1, <2>3, <2>4, LedgerRequestStep
<1>9. QED
  BY <1>7, <1>8

(* A part of a sum of amounts is no greater than the sum.                  *)
LEMMA PartOfSum ==
  ASSUME NEW f, NEW S, IsFiniteSet(S), \A x \in S : f[x] \in Nat, NEW y \in S
  PROVE  f[y] <= SumFunctionOnSet(f, S)
<1> DEFINE z == [x \in S |-> 0]
<1>1. IsFiniteSet(S \ {y}) /\ \A x \in S : f[x] \in Int
  BY FS_RemoveElement
<1>2. SumFunctionOnSet(f, S) = f[y] + SumFunctionOnSet(f, S \ {y})
  BY <1>1, SumRemove
<1>3. SumFunctionOnSet(z, S \ {y}) <= SumFunctionOnSet(f, S \ {y})
  <2>1. \A x \in S \ {y} : z[x] \in Int /\ f[x] \in Int /\ z[x] <= f[x]
    OBVIOUS
  <2> HIDE DEF z
  <2>2. QED
    BY <1>1, <2>1, SumMonotone
<1>4. SumFunctionOnSet(z, S \ {y}) = 0
  <2>1. \A x \in S \ {y} : z[x] = 0
    OBVIOUS
  <2> HIDE DEF z
  <2>2. QED
    BY <1>1, <2>1, SumOfZeros
<1>5. SumFunctionOnSet(f, S \ {y}) \in Int
  BY <1>1, SumType
<1>6. QED
  BY <1>1, <1>2, <1>3, <1>4, <1>5

(* A request that is about to commit finds its hold: the bucket holds no   *)
(* less than what the request reserved, so CommitHold does not fail.       *)
LEMMA HoldIsThere ==
  ASSUME GatewayInv, NEW r \in Requests, pc[r] = "commit"
  PROVE  LET p == PaymentOf(r)
         IN  /\ balance[ReservedBalance(p.AccountID)] >= p.Amount
             /\ DebitError(p.AccountID, ReservedBalance(p.AccountID),
                           p.Amount, "ErrHoldMismatch") = "nil"
<1> DEFINE payer == PaymentOf(r).AccountID
           n == PaymentOf(r).Amount
<1>1. payer \in Accounts /\ n \in Int /\ payer \in exists /\ n > 0
  BY RequestTypes DEF GatewayInv, HoldersCanPay
<1>2. PICK F : F = [q \in Requests |-> HeldBy(q, payer)]
  OBVIOUS
<1>3. /\ IsFiniteSet(Requests) /\ DOMAIN F = Requests /\ F[r] = n
      /\ \A q \in Requests : F[q] \in Nat
  <2>1. \A q \in Requests : HeldBy(q, payer) \in Nat
    BY RequestTypes DEF HeldBy, GatewayInv, HoldersCanPay
  <2>2. HeldBy(r, payer) = n
    BY DEF HeldBy
  <2>3. QED
    BY <1>2, <2>1, <2>2, RequestsAssumption
<1>4. F[r] <= SumFunctionOnSet(F, Requests)
  BY <1>3, PartOfSum
<1>5. balance[ReservedBalance(payer)] = SumFunctionOnSet(F, Requests)
  BY <1>1, <1>2, <1>3 DEF GatewayInv, HoldsInFlight, SumFunction
<1>6. SumFunctionOnSet(F, Requests) \in Int
  BY <1>3, SumType
<1>7. balance[ReservedBalance(payer)] >= n
  BY <1>1, <1>3, <1>4, <1>5, <1>6
<1>8. ~(n <= 0) /\ ~(balance[ReservedBalance(payer)] < n)
  BY <1>1, <1>5, <1>6, <1>7
<1>9. QED
  BY <1>1, <1>7, <1>8 DEF DebitError

(* CommitHold: the hold becomes the merchant's.                            *)
LEMMA CommitHoldHappens ==
  ASSUME GatewayInv, NEW r \in Requests, Commit(r)
  PROVE  /\ CommitHold(PaymentOf(r).AccountID, PaymentOf(r).MerchantID,
                       PaymentOf(r).Amount, TxOf(r), "nil")
         /\ Respond(r, "APPROVED")
         /\ pc[r] = "commit"
         /\ UNCHANGED <<networkStatus, idempotency, due, late>>
         /\ UNCHANGED <<walVars, replayVars, edgeVars>>
BY HoldIsThere DEF Commit, TxOf

LEMMA CommitPreservesGateway ==
  ASSUME GatewayInv, NEW r \in Requests, Commit(r)
  PROVE  GatewayInv'
<1> DEFINE payer == PaymentOf(r).AccountID
           payee == PaymentOf(r).MerchantID
           n == PaymentOf(r).Amount
<1>1. /\ CommitHold(payer, payee, n, TxOf(r), "nil")
      /\ pc' = [pc EXCEPT ![r] = "cache"]
      /\ resp' = [resp EXCEPT ![r] = "APPROVED"]
      /\ pc[r] = "commit"
      /\ UNCHANGED <<networkStatus, idempotency, due, late>>
      /\ UNCHANGED <<walVars, replayVars, edgeVars>>
  BY CommitHoldHappens DEF Respond
<1>2. /\ payer \in Accounts /\ payee \in Accounts /\ n \in Int
      /\ TxOf(r) \in TxIDs
  BY RequestTypes
<1>3. /\ LedgerTypeOK /\ pc \in [Requests -> Steps]
      /\ balance \in [Buckets -> Int]
      /\ resp \in [Requests -> Responses \cup {NoResponse}]
      /\ "cache" \in Steps
  BY DEF GatewayInv, GatewayTypes, ReplayInv, ReplayWell, ReconTypeOK,
         LedgerTypeOK, Steps
<1>4. SystemEscrow \in Accounts
  BY SystemAccountsAssumption DEF SystemAccounts
<1>5. LedgerTypeOK'
  BY <1>1, <1>2, <1>3, <1>4, BucketsOfAccount, LabelsOfAccount, SettleEffect
     DEF CommitHold
<1>6. /\ Move(ReservedBalance(payer), OnlineAvailable(payee), n)
      /\ exists \subseteq exists'
  BY <1>1 DEF CommitHold, Settle
<1>7. ASSUME NEW a \in Accounts
      PROVE  balance'[ReservedBalance(a)] =
               balance[ReservedBalance(a)] - HeldBy(r, a) + HeldBy(r, a)'
  <2>1. balance'[ReservedBalance(a)] =
          balance[ReservedBalance(a)]
            - (IF ReservedBalance(a) = ReservedBalance(payer) THEN n ELSE 0)
            + (IF ReservedBalance(a) = OnlineAvailable(payee) THEN n ELSE 0)
    BY <1>2, <1>3, <1>6, BucketsOfAccount, MoveEffect
  <2>2. /\ ReservedBalance(a) /= OnlineAvailable(payee)
        /\ ReservedBalance(a) = ReservedBalance(payer) <=> a = payer
        /\ balance[ReservedBalance(a)] \in Int
    BY <1>2, <1>3, BucketsOfAccount
  <2>3. pc'[r] = "cache"
    BY <1>1, <1>3
  <2>4. HeldBy(r, a) = (IF a = payer THEN n ELSE 0) /\ HeldBy(r, a)' = 0
    BY <1>1, <2>3 DEF HeldBy
  <2>5. QED
    BY <1>2, <2>1, <2>2, <2>4
<1>8. HoldsInFlight' /\ HoldersCanPay'
  BY <1>1, <1>3, <1>6, <1>7, RequestStepHolds
<1>9. resp' \in [Requests -> Responses \cup {NoResponse}]
  BY <1>1, <1>3 DEF Responses
<1>10. QED
  BY <1>1, <1>3, <1>5, <1>8, <1>9, LedgerRequestStep

-----------------------------------------------------------------------------
(* The steps of the replay.                                                *)

(* A settlement out of a spendable bucket leaves the holds alone.          *)
LEMMA SettleLeavesHolds ==
  ASSUME LedgerTypeOK, NEW a \in Accounts, NEW d \in Accounts, NEW n \in Int,
         NEW bucket \in {OnlineAvailable(a), OfflineAllowance(a)},
         NEW debitAcc, NEW shortfall, NEW tx, NEW err,
         Settle(a, bucket, debitAcc, shortfall, d, n, tx, err)
  PROVE  HoldsLeftAlone
<1>1. exists \subseteq exists'
  BY DEF Settle
<1>2. CASE err /= "nil"
  BY <1>1, <1>2 DEF Settle, HoldsLeftAlone
<1>3. CASE err = "nil"
  <2>1. Move(bucket, OnlineAvailable(d), n) /\ n \in Int
    BY <1>3 DEF Settle
  <2>2. balance \in [Buckets -> Int] /\ bucket \in Buckets
    BY BucketsOfAccount DEF LedgerTypeOK
  <2>3. ASSUME NEW c \in Accounts
        PROVE  balance'[ReservedBalance(c)] = balance[ReservedBalance(c)]
    <3>1. /\ ReservedBalance(c) /= bucket
          /\ ReservedBalance(c) /= OnlineAvailable(d)
          /\ ReservedBalance(c) \in Buckets
          /\ balance[ReservedBalance(c)] \in Int
      BY <2>2, BucketsOfAccount
    <3>2. QED
      BY <2>1, <2>2, <3>1, BucketsOfAccount, MoveEffect
  <2>4. QED
    BY <1>1, <2>3 DEF HoldsLeftAlone
<1>4. QED
  BY <1>2, <1>3

(* So does a deficit.                                                      *)
LEMMA DeficitLeavesHolds ==
  ASSUME LedgerTypeOK, NEW a \in Accounts, NEW d \in Accounts, NEW n \in Int,
         NEW tx, PostDeficit(a, d, n, tx)
  PROVE  HoldsLeftAlone
<1>1. /\ exists \subseteq exists'
      /\ Move(OnlineAvailable(a), OnlineAvailable(d), n) /\ n \in Int
  BY DEF PostDeficit
<1>2. balance \in [Buckets -> Int]
  BY DEF LedgerTypeOK
<1>3. ASSUME NEW c \in Accounts
      PROVE  balance'[ReservedBalance(c)] = balance[ReservedBalance(c)]
  <2>1. /\ ReservedBalance(c) /= OnlineAvailable(a)
        /\ ReservedBalance(c) /= OnlineAvailable(d)
        /\ ReservedBalance(c) \in Buckets
        /\ balance[ReservedBalance(c)] \in Int
    BY <1>2, BucketsOfAccount
  <2>2. QED
    BY <1>1, <1>2, <2>1, BucketsOfAccount, MoveEffect
<1>4. QED
  BY <1>1, <1>3 DEF HoldsLeftAlone

(* What the replay does to the holds: nothing.                             *)
LEMMA ReplayLeavesHolds ==
  ASSUME NEW Q, ReplayInv(Q), ReplayStep
  PROVE  HoldsLeftAlone
<1>1. LedgerTypeOK
  BY DEF ReplayInv, ReplayWell, ReconTypeOK
<1>2. CASE UNCHANGED ledgerVars
  BY <1>2 DEF ledgerVars, HoldsLeftAlone
<1>3. ASSUME replayPc \notin {"idle", "loop"}
      PROVE  /\ Payment[current].AccountID \in Accounts
             /\ Payment[current].MerchantID \in Accounts
             /\ Payment[current].Amount \in Int
             /\ CustomerCovered \in Int /\ UncoveredDelta \in Nat
             /\ DeficitReserve \in Accounts
  <2>1. /\ current \in QueuedTxIDs
        /\ accSnapshot \in [OnlineAvailable : Int, OfflineAllowance : Int]
    BY <1>3, AtCurrent
  <2>2. QED
    BY <2>1, PaymentTypes, CoveredParts
<1>4. ASSUME NEW err, ReplayOffline(err) PROVE HoldsLeftAlone
  BY <1>1, <1>3, <1>4, SettleLeavesHolds
     DEF ReplayOffline, CommitOfflineAllowance
<1>5. ASSUME NEW err, ReplayOnline(err) PROVE HoldsLeftAlone
  BY <1>1, <1>3, <1>5, SettleLeavesHolds DEF ReplayOnline, DirectCommit
<1>6. ASSUME NEW err, ReplayCovered(err) PROVE HoldsLeftAlone
  BY <1>1, <1>2, <1>3, <1>6, SettleLeavesHolds
     DEF ReplayCovered, DirectCommit
<1>7. ASSUME NEW err, ReplayReserve(err) PROVE HoldsLeftAlone
  BY <1>1, <1>2, <1>3, <1>7, DeficitLeavesHolds
     DEF ReplayReserve, DebitDeficitReserve
<1>8. CASE ReplayLegacy
  BY <1>1, <1>3, <1>8, DeficitLeavesHolds DEF ReplayLegacy, RecordDeficit
<1>9. CASE ReplayEnd \/ \E i \in DOMAIN batch : \/ ReplayDuplicate(i)
                                                \/ ReplayTake(i)
  BY <1>2, <1>9 DEF ReplayEnd, ReplayDuplicate, ReplayTake
<1>10. QED
  BY <1>4, <1>5, <1>6, <1>7, <1>8, <1>9 DEF ReplayStep

(* The replay keeps its invariant, whoever pays for the transactions       *)
(* outside Q.                                                              *)
LEMMA ReplayStepPreserves ==
  ASSUME NEW Q, ReplayInv(Q), ReplayStep \/ ReplayBegin
  PROVE  ReplayInv(Q)'
<1>1. CASE ReplayBegin \/ ReplayEnd
  BY <1>1, BetweenReplaysPreserves
<1>2. CASE \E i \in DOMAIN batch : ReplayDuplicate(i) \/ ReplayTake(i)
  BY <1>2, ReplayDuplicatePreserves, ReplayTakePreserves
<1>3. CASE \E err \in LedgerErrors : ReplayOffline(err) \/ ReplayOnline(err)
  BY <1>3, CommitPreserves
<1>4. CASE \E err \in LedgerErrors : ReplayCovered(err) \/ ReplayReserve(err)
  BY <1>4, ReplayCoveredPreserves, ReplayReservePreserves
<1>5. CASE ReplayLegacy
  BY <1>5, ReplayLegacyPreserves
<1>6. QED
  BY <1>1, <1>2, <1>3, <1>4, <1>5 DEF ReplayStep

(* Taking one element out of a sequence leaves the others in it.           *)
LEMMA RemoveKeepsOthers ==
  ASSUME NEW S, NEW s \in Seq(S), NEW i \in DOMAIN s, NEW k \in DOMAIN s,
         k /= i
  PROVE  \E j \in DOMAIN RemoveAt(s, i) : RemoveAt(s, i)[j] = s[k]
<1> DEFINE a == SubSeq(s, 1, i - 1)
           b == SubSeq(s, i + 1, Len(s))
<1>1. /\ Len(s) \in Nat /\ i \in 1..Len(s) /\ k \in 1..Len(s)
  OBVIOUS
<1>2. /\ a \in Seq(S) /\ Len(a) = i - 1
      /\ \A j \in 1..(i - 1) : a[j] = s[j]
  BY <1>1
<1>3. /\ b \in Seq(S) /\ Len(b) = Len(s) - i
      /\ \A j \in 1..(Len(s) - i) : b[j] = s[i + j]
  BY <1>1
<1>4. RemoveAt(s, i) = a \o b
  BY DEF RemoveAt
<1> HIDE DEF a, b
<1>5. DOMAIN (a \o b) = 1..(Len(s) - 1)
  BY <1>1, <1>2, <1>3, ConcatProperties
<1>6. CASE k < i
  <2>1. k \in 1..(i - 1) /\ k \in 1..(Len(s) - 1)
    BY <1>1, <1>6
  <2>2. (a \o b)[k] = s[k]
    BY <1>1, <1>2, <1>3, <2>1
  <2>3. QED
    BY <1>4, <1>5, <2>1, <2>2
<1>7. CASE k > i
  <2>1. PICK m : m = k - 1
    OBVIOUS
  <2>2. /\ m - (i - 1) \in 1..(Len(s) - i) /\ m \in 1..(Len(s) - 1)
        /\ i + (m - (i - 1)) = k /\ ~(m <= i - 1)
    BY <1>1, <1>7, <2>1
  <2>3. (a \o b)[m] = b[m - (i - 1)]
    <3>1. (a \o b)[m] = IF m <= Len(a) THEN a[m] ELSE b[m - Len(a)]
      <4>1. m \in 1..(Len(a) + Len(b))
        <5>1. Len(a) + Len(b) = Len(s) - 1
          BY <1>1, <1>2, <1>3
        <5>2. QED
          BY <2>2, <5>1
      <4>2. a \in Seq(S) /\ b \in Seq(S)
        BY <1>2, <1>3
      <4>3. QED
        BY ONLY <4>1, <4>2, ConcatProperties
    <3>2. QED
      BY <1>2, <2>2, <3>1
  <2>4. (a \o b)[m] = s[k]
    BY <1>3, <2>2, <2>3
  <2>5. QED
    BY <1>4, <1>5, <2>2, <2>4
<1>8. QED
  BY <1>1, <1>6, <1>7

(* ReadAllPending leaves no pending transaction out.                       *)
LEMMA PendingIsRead ==
  ASSUME ReplayWell, NEW tx \in Present, txMap[tx] = "PENDING"
  PROVE  \E k \in DOMAIN ReadAllPending : ReadAllPending[k] = tx
<1> DEFINE P == {i \in DOMAIN order : txMap[order[i]] = "PENDING"}
           Upto(i) == {j \in P : j <= i}
           Nth(k) == CHOOSE i \in P : Cardinality(Upto(i)) = k
           n == Cardinality(P)
<1>1. /\ order \in Seq(TxIDs) /\ DOMAIN order = 1..Len(order)
      /\ Len(order) \in Nat /\ ToSet(order) = Present
  BY DEF ReplayWell, WALInv, WALTypeOK, MapKnowsAcknowledged
<1>2. IsFiniteSet(P) /\ P \in SUBSET Nat
  <2>1. IsFiniteSet(1..Len(order)) /\ P \subseteq 1..Len(order)
    BY <1>1, FS_Interval
  <2>2. QED
    BY <1>1, <2>1, FS_Subset
<1>3. ReadAllPending = [k \in 1..n |-> order[Nth(k)]]
  BY DEF ReadAllPending
<1>4. PICK p \in P : order[p] = tx
  <2>1. \E i \in 1..Len(order) : order[i] = tx
    BY <1>1, MembersOf
  <2>2. QED
    BY <1>1, <2>1
<1> DEFINE k == Cardinality(Upto(p))
<1>5. IsFiniteSet(Upto(p)) /\ Upto(p) \subseteq P /\ p \in Upto(p)
  BY <1>2, <1>4, FS_Subset
<1>6. k \in 1..n
  <2>1. k \in Nat /\ n \in Nat /\ k <= n
    BY <1>2, <1>5, FS_CardinalityType, FS_Subset
  <2>2. k /= 0
    BY <1>5, FS_EmptySet
  <2>3. QED
    BY <2>1, <2>2
<1>7. ASSUME NEW i \in P, Cardinality(Upto(i)) = k
      PROVE  i = p
  <2>1. i \in Nat /\ p \in Nat
    BY <1>2, <1>4, <1>7
  <2>2. IsFiniteSet(Upto(i)) /\ i \in Upto(i)
    BY <1>2, <2>1, FS_Subset
  <2>3. CASE i < p
    <3>1. Upto(i) \subseteq Upto(p) /\ p \notin Upto(i)
      BY <1>2, <2>1, <2>3
    <3>2. Upto(i) = Upto(p)
      BY <1>5, <1>7, <3>1, FS_Subset
    <3>3. QED
      BY <1>5, <3>1, <3>2
  <2>4. CASE p < i
    <3>1. Upto(p) \subseteq Upto(i) /\ i \notin Upto(p)
      BY <1>2, <2>1, <2>4
    <3>2. Upto(p) = Upto(i)
      BY <1>7, <2>2, <3>1, FS_Subset
    <3>3. QED
      BY <2>2, <3>1, <3>2
  <2>5. QED
    BY <2>1, <2>3, <2>4
<1>8. Nth(k) = p
  <2> HIDE DEF k, P, Upto
  <2>1. \E i \in P : Cardinality(Upto(i)) = k
    BY <1>4 DEF k
  <2>2. Nth(k) \in P /\ Cardinality(Upto(Nth(k))) = k
    BY <2>1
  <2>3. QED
    BY <1>7, <2>2
<1> HIDE DEF k, n, Nth, P, Upto
<1>9. k \in DOMAIN ReadAllPending /\ ReadAllPending[k] = tx
  BY <1>3, <1>4, <1>6, <1>8
<1>10. QED
  BY <1>9

(* A step of the replay loses no pending transaction.                      *)
LEMMA ReplayKeepsUnderway ==
  ASSUME NEW Q, ReplayInv(Q), ReplayStep
  PROVE  /\ Present' = Present
         /\ \A tx \in Present :
              txMap'[tx] = "PENDING" =>
                txMap[tx] = "PENDING" /\ (Underway(tx) => Underway(tx)')
         /\ replayPc' = "idle" => batch' = <<>>
<1>1. /\ ReplayWell /\ WALInv /\ batch \in Seq(QueuedTxIDs)
      /\ \A i \in DOMAIN batch : batch[i] \in Present
      /\ \A tx \in Present : tx \in TxIDs /\ tx /= NoTx
  BY NoTxAssumption DEF ReplayInv, ReplayWell, ReconTypeOK, Present
<1>2. \A tx \in Present : Underway(tx) => \/ tx = current
                                          \/ \E i \in DOMAIN batch :
                                               batch[i] = tx
  BY DEF Underway
<1>3. ASSUME NEW tx \in Present, NEW i \in DOMAIN batch, tx /= batch[i],
             \E k \in DOMAIN batch : batch[k] = tx,
             batch' = RemoveAt(batch, i)
      PROVE  Underway(tx)'
  <2>1. PICK k \in DOMAIN batch : batch[k] = tx /\ k /= i
    BY <1>3
  <2>2. \E j \in DOMAIN RemoveAt(batch, i) : RemoveAt(batch, i)[j] = tx
    BY <1>1, <2>1, RemoveKeepsOthers
  <2>3. QED
    BY <1>3, <2>2 DEF Underway
<1>4. ASSUME NEW i \in DOMAIN batch, ReplayDuplicate(i)
      PROVE  /\ Present' = Present
             /\ \A tx \in Present :
                  txMap'[tx] = "PENDING" =>
                    /\ txMap[tx] = "PENDING"
                    /\ Underway(tx) => Underway(tx)'
             /\ replayPc' /= "idle"
  <2>1. /\ Finish(batch[i], "DuplicateCount", "DUPLICATE")
        /\ batch' = RemoveAt(batch, i) /\ replayPc = "loop"
        /\ batch[i] \in Present /\ "DUPLICATE" \in Statuses \ {"PENDING"}
    BY <1>1, <1>4 DEF ReplayDuplicate, Statuses
  <2>2. /\ Present' = Present /\ replayPc' = "loop"
        /\ txMap'[batch[i]] = "DUPLICATE"
        /\ \A x \in TxIDs \ {batch[i]} : txMap'[x] = txMap[x]
    BY <1>1, <2>1, FinishEffect
  <2>3. current = NoTx
    BY <1>1, <2>1 DEF ReplayWell
  <2>4. QED
    BY <1>1, <1>2, <1>3, <2>1, <2>2, <2>3
<1>5. ASSUME NEW i \in DOMAIN batch, ReplayTake(i)
      PROVE  /\ Present' = Present
             /\ \A tx \in Present :
                  txMap'[tx] = "PENDING" =>
                    /\ txMap[tx] = "PENDING"
                    /\ Underway(tx) => Underway(tx)'
             /\ replayPc' /= "idle"
  <2>1. /\ batch' = RemoveAt(batch, i) /\ current' = batch[i]
        /\ replayPc = "loop" /\ UNCHANGED walVars
        /\ replayPc' = IF accSnapshot'.OfflineAllowance
                            >= Payment[batch[i]].Amount
                       THEN "offline"
                       ELSE AfterOffline(accSnapshot',
                                         Payment[batch[i]].Amount)
    BY <1>5 DEF ReplayTake
  <2>2. replayPc' /= "idle"
    BY <2>1 DEF AfterOffline, DeficitStep
  <2>3. Present' = Present /\ UNCHANGED txMap
    BY <1>1, <2>1, LogLeftAlone
  <2>4. current = NoTx
    BY <1>1, <2>1 DEF ReplayWell
  <2>5. ASSUME NEW tx \in Present, Underway(tx) PROVE Underway(tx)'
    <3>1. CASE tx = batch[i]
      BY <2>1, <3>1 DEF Underway
    <3>2. CASE tx /= batch[i]
      BY <1>1, <1>2, <1>3, <2>1, <2>4, <2>5, <3>2
    <3>3. QED
      BY <3>1, <3>2
  <2>6. QED
    BY <2>2, <2>3, <2>5
<1>6. ASSUME replayPc \notin {"idle", "loop"}, UNCHANGED batch,
             \/ /\ UNCHANGED walVars /\ UNCHANGED current
                /\ replayPc' \in {"online", "covered", "reserve", "legacy"}
             \/ \E count \in {"SuccessfulCount", "DeficitCount"},
                   status \in {"RECONCILED", "DEFICIT"} :
                  Finish(current, count, status)
      PROVE  /\ Present' = Present
             /\ \A tx \in Present :
                  txMap'[tx] = "PENDING" =>
                    /\ txMap[tx] = "PENDING"
                    /\ Underway(tx) => Underway(tx)'
             /\ replayPc' /= "idle"
  <2>1. CASE /\ UNCHANGED walVars /\ UNCHANGED current
             /\ replayPc' \in {"online", "covered", "reserve", "legacy"}
    <3>1. Present' = Present /\ UNCHANGED txMap
      BY <1>1, <2>1, LogLeftAlone
    <3>2. QED
      BY <1>6, <2>1, <3>1 DEF Underway
  <2>2. ASSUME NEW count \in {"SuccessfulCount", "DeficitCount"},
               NEW status \in {"RECONCILED", "DEFICIT"},
               Finish(current, count, status)
        PROVE  /\ Present' = Present
               /\ \A tx \in Present :
                    txMap'[tx] = "PENDING" =>
                      /\ txMap[tx] = "PENDING"
                      /\ Underway(tx) => Underway(tx)'
               /\ replayPc' /= "idle"
    <3>1. current \in Present
      BY <1>6, AtCurrent
    <3>2. /\ status \in Statuses \ {"PENDING"}
          /\ count \in {"SuccessfulCount", "DeficitCount", "DuplicateCount"}
      BY DEF Statuses
    <3>3. /\ Present' = Present /\ replayPc' = "loop"
          /\ txMap'[current] = status
          /\ \A x \in TxIDs \ {current} : txMap'[x] = txMap[x]
      BY <1>1, <2>2, <3>1, <3>2, FinishEffect
    <3>4. ASSUME NEW tx \in Present, txMap'[tx] = "PENDING"
          PROVE  tx /= current /\ txMap[tx] = "PENDING"
      BY <1>1, <3>2, <3>3, <3>4
    <3>5. QED
      BY <1>2, <1>6, <3>3, <3>4 DEF Underway
  <2>3. QED
    BY <1>6, <2>1, <2>2
<1>7. CASE ReplayEnd
  <2>1. /\ batch = <<>> /\ UNCHANGED <<batch, current>> /\ UNCHANGED walVars
    BY <1>7 DEF ReplayEnd
  <2>2. Present' = Present /\ UNCHANGED txMap
    BY <1>1, <2>1, LogLeftAlone
  <2>3. QED
    BY <2>1, <2>2 DEF Underway
<1>8. useDeficitReserve \in BOOLEAN
  BY <1>1 DEF ReplayWell, ReconTypeOK
<1>9. ASSUME NEW err, ReplayOffline(err) \/ ReplayOnline(err)
      PROVE  /\ replayPc \notin {"idle", "loop"} /\ UNCHANGED batch
             /\ \/ /\ UNCHANGED walVars /\ UNCHANGED current
                   /\ replayPc' \in {"online", "covered", "reserve", "legacy"}
                \/ Finish(current, "SuccessfulCount", "RECONCILED")
  <2>1. \A n : /\ AfterOffline(accSnapshot, n) \in {"online", "covered",
                                                    "legacy"}
               /\ DeficitStep \in {"covered", "legacy"}
    BY <1>8, NextStep
  <2>2. QED
    BY <1>9, <2>1 DEF ReplayOffline, ReplayOnline, FinishOrGoOn
<1>10. ASSUME NEW err, ReplayCovered(err)
       PROVE  /\ replayPc \notin {"idle", "loop"} /\ UNCHANGED batch
              /\ UNCHANGED walVars /\ UNCHANGED current
              /\ replayPc' = "reserve"
  BY <1>10 DEF ReplayCovered
<1>11. ASSUME NEW err, ReplayReserve(err) \/ ReplayLegacy
       PROVE  /\ replayPc \notin {"idle", "loop"} /\ UNCHANGED batch
              /\ Finish(current, "DeficitCount", "DEFICIT")
  BY <1>11 DEF ReplayReserve, ReplayLegacy, FinishDeficit
<1>12. QED
  BY <1>4, <1>5, <1>6, <1>7, <1>9, <1>10, <1>11 DEF ReplayStep

(* The steps of the server: the network switch, the replay, the issue of   *)
(* tokens.                                                                 *)
LEMMA ServerStepsPreserve ==
  ASSUME GatewayInv,
         \/ \E status \in NetworkStatuses : SetNetworkStatus(status)
         \/ ReconnectReplay
         \/ TriggerReconciliation
         \/ ReplayGoesOn
         \/ EdgeStep
         \/ UNCHANGED allVars
  PROVE  GatewayInv'
<1>1. /\ ReplayInv({}) /\ EdgeInv /\ GatewayTypes /\ HoldsInFlight
      /\ HoldersCanPay /\ PendingIsKnown
      /\ replayPc = "idle" => batch = <<>>
  BY DEF GatewayInv
<1>2. UNCHANGED <<pc, resp, idempotency, late>>
  BY DEF SetNetworkStatus, ReconnectReplay, TriggerReconciliation,
         ReplayGoesOn, EdgeStep, gatewayVars, allVars
<1>3. ASSUME UNCHANGED reconVars, EdgeInv', GatewayTypes', PendingIsKnown'
      PROVE  GatewayInv'
  <2>1. /\ ReplayInv({})' /\ HoldsLeftAlone
        /\ UNCHANGED <<batch, replayPc>>
    BY <1>1, <1>3, ReconLeftAlone
  <2>2. HoldsInFlight' /\ HoldersCanPay'
    BY <1>1, <1>2, <2>1, ServerStepHolds
  <2>3. QED
    BY <1>1, <1>3, <2>1, <2>2 DEF GatewayInv
<1>4. ASSUME UNCHANGED reconVars, UNCHANGED <<networkStatus, due>>
      PROVE  PendingIsKnown'
  <2>1. /\ Present' = Present /\ UNCHANGED txMap
        /\ \A tx : Underway(tx)' <=> Underway(tx)
    BY <1>1, <1>4, ReconLeftAlone
  <2>2. QED
    BY <1>1, <1>2, <1>4, <2>1, PendingStaysKnown
<1>5. ASSUME NEW status \in NetworkStatuses, SetNetworkStatus(status)
      PROVE  GatewayInv'
  <2>1. /\ due < MaxDue /\ networkStatus' = status
        /\ due' = IF status = "RECONNECTED" THEN due + 1 ELSE due
        /\ UNCHANGED reconVars /\ UNCHANGED edgeVars
    BY <1>5 DEF SetNetworkStatus
  <2>2. due \in Nat /\ due' \in 0..MaxDue
    BY <1>1, <2>1, MaxDueAssumption DEF GatewayTypes
  <2>3. GatewayTypes'
    BY <1>1, <1>2, <2>1, <2>2 DEF GatewayTypes
  <2>4. PendingIsKnown'
    BY <2>1, <2>2 DEF PendingIsKnown
  <2>5. QED
    BY <1>1, <1>3, <2>1, <2>3, <2>4, EdgeLeftAlone
<1>6. ASSUME ReplayBegin, UNCHANGED edgeVars, UNCHANGED networkStatus,
             due' \in 0..MaxDue
      PROVE  GatewayInv'
  <2>1. /\ UNCHANGED <<ledgerVars, walVars>> /\ batch' = ReadAllPending
        /\ replayPc' = "loop" /\ replayPc = "idle"
    BY <1>6 DEF ReplayBegin
  <2>2. ReplayInv({})'
    BY <1>1, <1>6, ReplayStepPreserves
  <2>3. EdgeInv' /\ GatewayTypes'
    BY <1>1, <1>2, <1>6, EdgeLeftAlone DEF GatewayTypes
  <2>4. HoldsLeftAlone
    BY <2>1 DEF ledgerVars, HoldsLeftAlone
  <2>5. HoldsInFlight' /\ HoldersCanPay'
    BY <1>1, <1>2, <2>4, ServerStepHolds
  <2>6. Present' = Present /\ UNCHANGED txMap
    BY <2>1 DEF walVars, Present
  <2>7. ASSUME NEW tx \in Present, txMap[tx] = "PENDING"
        PROVE  Underway(tx)'
    <3>1. \E k \in DOMAIN ReadAllPending : ReadAllPending[k] = tx
      BY <1>1, <2>7, PendingIsRead DEF ReplayInv
    <3>2. QED
      BY <2>1, <3>1 DEF Underway
  <2>8. PendingIsKnown'
    BY <2>6, <2>7 DEF PendingIsKnown
  <2>9. QED
    BY <2>1, <2>2, <2>3, <2>5, <2>8 DEF GatewayInv
<1>7. CASE ReconnectReplay
  BY <1>1, <1>6, <1>7, MaxDueAssumption DEF ReconnectReplay, GatewayTypes
<1>8. CASE TriggerReconciliation
  BY <1>1, <1>6, <1>8 DEF TriggerReconciliation, gatewayVars, GatewayTypes
<1>9. CASE ReplayGoesOn
  <2>1. /\ ReplayStep /\ UNCHANGED edgeVars
        /\ UNCHANGED <<networkStatus, due>>
    BY <1>9 DEF ReplayGoesOn, gatewayVars
  <2>2. ReplayInv({})' /\ HoldsLeftAlone
    BY <1>1, <2>1, ReplayStepPreserves, ReplayLeavesHolds
  <2>3. EdgeInv' /\ GatewayTypes'
    BY <1>1, <1>2, <2>1, EdgeLeftAlone DEF GatewayTypes
  <2>4. HoldsInFlight' /\ HoldersCanPay'
    BY <1>1, <1>2, <2>2, ServerStepHolds
  <2>5. /\ Present' = Present
        /\ \A tx \in Present :
             txMap'[tx] = "PENDING" =>
               txMap[tx] = "PENDING" /\ (Underway(tx) => Underway(tx)')
        /\ replayPc' = "idle" => batch' = <<>>
    BY <1>1, <2>1, ReplayKeepsUnderway
  <2>6. PendingIsKnown'
    BY <1>1, <1>2, <2>1, <2>5, PendingStaysKnown
  <2>7. QED
    BY <2>2, <2>3, <2>4, <2>5, <2>6 DEF GatewayInv
<1>10. CASE EdgeStep
  <2>1. /\ UNCHANGED reconVars /\ UNCHANGED <<networkStatus, due>>
        /\ \/ \E id \in TokenIDs, a \in Parties, q \in Ceilings :
                IssueToken(id, a, q, MaxTime, Anywhere)
           \/ Tick
    BY <1>10 DEF EdgeStep, gatewayVars
  <2>2. EdgeNext
    BY <2>1, PartiesAssumption, MaxTimeAssumption DEF EdgeNext
  <2>3. EdgeInv'
    BY <1>1, <2>2, EdgeInvNext
  <2>4. GatewayTypes'
    BY <1>1, <1>2, <2>1 DEF GatewayTypes
  <2>5. QED
    BY <1>3, <1>4, <2>1, <2>3, <2>4
<1>11. CASE UNCHANGED allVars
  <2>1. /\ UNCHANGED reconVars /\ UNCHANGED edgeVars
        /\ UNCHANGED <<networkStatus, due>>
    BY <1>11 DEF allVars, gatewayVars
  <2>2. EdgeInv' /\ GatewayTypes'
    BY <1>1, <1>2, <2>1, EdgeLeftAlone DEF GatewayTypes
  <2>3. QED
    BY <1>3, <1>4, <2>1, <2>2
<1>12. QED
  BY <1>5, <1>7, <1>8, <1>9, <1>10, <1>11

(* Every step of the gateway keeps its invariant.                          *)
LEMMA GatewayInvNext == GatewayInv /\ [GatewayNext]_allVars => GatewayInv'
<1>1. SUFFICES ASSUME GatewayInv, [GatewayNext]_allVars PROVE GatewayInv'
  OBVIOUS
<1>2. ASSUME NEW r \in Requests, Submit(r) \/ ProcessPayment(r)
      PROVE  GatewayInv'
  BY <1>1, <1>2, DecisionsPreserve, AuthorizePreserves, AppendToWALPreserves,
     ReservePreserves, CommitPreservesGateway DEF ProcessPayment
<1>3. QED
  BY <1>1, <1>2, ServerStepsPreserve DEF GatewayNext

-----------------------------------------------------------------------------
(* The sequence of a finite set's elements is one.                         *)
LEMMA ElementsInSequence ==
  ASSUME NEW S, IsFiniteSet(S)
  PROVE  SetToSeq(S) \in Seq(S)
<1> DEFINE n == Cardinality(S)
<1>1. n \in Nat /\ ExistsBijection(1..n, S)
  BY FS_CardinalityType
<1>2. \E f \in [1..n -> S] : IsInjective(f)
  BY <1>1 DEF ExistsBijection, Bijection, Injection
<1>3. SetToSeq(S) \in [1..n -> S]
  BY <1>2 DEF SetToSeq
<1> HIDE DEF n
<1>4. QED
  BY <1>1, <1>3

(* What setupServer journals: an allowance for every party.                *)
LEMMA StartupEntries ==
  ASSUME ServerInit
  PROVE  /\ entries \in Seq(LedgerEntry)
         /\ \A i \in DOMAIN entries : entries[i].Type = "RESERVE"
<1> DEFINE E(a) == NewEntry("RESERVE", GeneratedTxID, OnlineLabel(a),
                            OfflineLabel(a), Allowance)
           S == {E(a) : a \in Parties}
           f == [a \in Parties |-> E(a)]
<1>1. entries = SetToSeq(S)
  BY DEF ServerInit
<1>2. \A a \in Parties : E(a) \in LedgerEntry /\ E(a).Type = "RESERVE"
  BY PartiesAssumption, AllowanceAssumption, LabelsOfAccount
     DEF NewEntry, LedgerEntry, EntryTypes
<1>3. IsFiniteSet(Parties)
  BY AccountsAssumption, PartiesAssumption, FS_Subset
<1> HIDE DEF E
<1>4. f \in Surjection(Parties, S)
  BY DEF Surjection
<1>5. IsFiniteSet(S)
  BY <1>3, <1>4, FS_Surjection
<1>6. \A e \in S : e \in LedgerEntry /\ e.Type = "RESERVE"
  BY <1>2
<1> HIDE DEF S, f
<1>7. entries \in Seq(S)
  BY <1>1, <1>5, ElementsInSequence
<1>8. \A i \in DOMAIN entries : entries[i] \in S
  BY <1>7
<1>9. entries \in Seq(LedgerEntry)
  BY <1>6, <1>7
<1>10. QED
  BY <1>6, <1>8, <1>9

(* The server starts with its invariant.                                   *)
LEMMA GatewayInvInit == ServerInit => GatewayInv
<1>1. SUFFICES ASSUME ServerInit PROVE GatewayInv
  OBVIOUS
<1>2. /\ useDeficitReserve = TRUE /\ seenHashes = {} /\ deficitLogs = <<>>
      /\ replayPc = "idle" /\ batch = <<>> /\ current = NoTx
      /\ accSnapshot = NoSnapshot /\ report = NewReport(0)
  BY <1>1 DEF ServerInit, ReplayInit
<1>3. /\ file = <<>> /\ txMap = [tx \in TxIDs |-> Absent] /\ walOpen = TRUE
  BY <1>1 DEF ServerInit, WALInit
<1>4. WALInv
  BY <1>1, WALInvInit DEF ServerInit
<1>5. EdgeInv
  BY <1>1, EdgeInvInit DEF ServerInit
<1>6. /\ networkStatus = "ONLINE" /\ idempotency = [k \in Keys |-> NoResponse]
      /\ pc = [r \in Requests |-> "new"] /\ due = 0 /\ late = {}
      /\ resp = [r \in Requests |-> NoResponse]
  BY <1>1 DEF ServerInit
<1>7. PICK b \in OpeningBalances :
        /\ balance = [k \in Buckets |->
                        CASE k[1] \notin Parties -> 0
                          [] k[2] = "OnlineAvailable" -> b - Allowance
                          [] k[2] = "OfflineAllowance" -> Allowance
                          [] OTHER -> 0]
        /\ opening = [a \in Accounts |-> IF a \in Parties THEN b ELSE 0]
  BY <1>1 DEF ServerInit
<1>8. b \in Int /\ Allowance \in Nat
  BY OpeningBalancesAssumption, AllowanceAssumption
<1>9. LedgerTypeOK
  <2>1. /\ exists = SystemAccounts \cup Parties
        /\ reservations = <<>> /\ funding = NoEntry
    BY <1>1 DEF ServerInit
  <2>2. exists \in SUBSET Accounts
    BY <2>1, SystemAccountsAssumption, PartiesAssumption
  <2>3. balance \in [Buckets -> Int]
    BY <1>7, <1>8
  <2>4. opening \in [Accounts -> Int]
    <3>1. \A a \in Accounts : opening[a] \in Int
      BY <1>7, <1>8
    <3>2. QED
      BY <1>7, <3>1
  <2>5. entries \in Seq(LedgerEntry)
    BY <1>1, StartupEntries
  <2>6. reservations \in Seq(Reservation)
    BY <2>1
  <2>7. QED
    BY <2>1, <2>2, <2>3, <2>4, <2>5, <2>6 DEF LedgerTypeOK
<1>10. Present = {} /\ DOMAIN batch = {} /\ DOMAIN deficitLogs = {}
  BY <1>2, <1>3 DEF Present
<1>11. ReplayWell
  <2>1. NewReport(0) \in [{"TotalProcessed", "SuccessfulCount",
                           "DeficitCount", "DuplicateCount"} -> Nat]
    BY DEF NewReport
  <2>2. /\ deficitLogs \in Seq(DeficitRecord) /\ batch \in Seq(QueuedTxIDs)
        /\ accSnapshot \in [OnlineAvailable : Int, OfflineAllowance : Int]
        /\ replayPc \in ReplaySteps
    BY <1>2 DEF NoSnapshot, ReplaySteps
  <2>3. ReconTypeOK
    BY <1>2, <1>4, <1>9, <2>1, <2>2 DEF ReconTypeOK, WALInv
  <2>4. 1..Len(file) = {}
    BY <1>3
  <2>5. QED
    BY <1>2, <1>3, <1>4, <1>10, <2>3, <2>4 DEF ReplayWell
<1>12. NoneForgotten
  <2>1. /\ NewReport(0).TotalProcessed = 0 /\ NewReport(0).DeficitCount = 0
        /\ NewReport(0).SuccessfulCount = 0
        /\ NewReport(0).DuplicateCount = 0
    BY DEF NewReport
  <2>2. QED
    BY <1>2, <1>10, <2>1 DEF NoneForgotten
<1>13. ReplayInv({})
  BY <1>11, <1>12 DEF ReplayInv
<1>14. GatewayTypes
  BY <1>6, MaxDueAssumption DEF GatewayTypes, NetworkStatuses, Steps
<1>15. HoldsInFlight
  <2>1. SUFFICES ASSUME NEW a \in Accounts
                 PROVE  balance[ReservedBalance(a)] =
                          SumFunction([r \in Requests |-> HeldBy(r, a)])
    BY DEF HoldsInFlight
  <2>2. balance[ReservedBalance(a)] = 0
    BY <1>7, <2>1, BucketsOfAccount DEF ReservedBalance
  <2>3. PICK F : F = [r \in Requests |-> HeldBy(r, a)]
    OBVIOUS
  <2>4. DOMAIN F = Requests /\ \A r \in Requests : F[r] = 0
    BY <1>6, <2>3 DEF HeldBy
  <2>5. SumFunctionOnSet(F, Requests) = 0
    BY <2>4, RequestsAssumption, SumOfZeros
  <2>6. QED
    BY <2>2, <2>3, <2>4, <2>5 DEF SumFunction
<1>16. HoldersCanPay /\ PendingIsKnown
  BY <1>6 DEF HoldersCanPay, PendingIsKnown
<1>17. QED
  BY <1>2, <1>5, <1>13, <1>14, <1>15, <1>16 DEF GatewayInv

LEMMA GatewayInvariant == GatewaySpec => []GatewayInv
BY GatewayInvInit, GatewayInvNext, PTL DEF GatewaySpec

(***************************************************************************)
(* Type correctness of the gateway with its components, whatever the       *)
(* clients send, when the network comes and goes and however the replay    *)
(* interleaves (ProcessPayment, m1_api.go).                                *)
(***************************************************************************)
THEOREM GatewayTypeCorrect == GatewaySpec => []GatewayTypeOK
<1>1. GatewayInv => GatewayTypeOK
  BY DEF GatewayInv, GatewayTypeOK, GatewayTypes, ReplayInv, ReplayWell,
         EdgeInv
<1>2. QED
  BY <1>1, GatewayInvariant, PTL

(***************************************************************************)
(* ReservedBalance is what the requests between ReserveFunds and           *)
(* CommitHold hold, to the cent: handleOnlinePayment never finds a hold    *)
(* missing, so its ReleaseHold branch is dead, and no hold is left behind. *)
(***************************************************************************)
THEOREM HoldsAreInFlight == GatewaySpec => []HoldsInFlight
<1>1. GatewayInv => HoldsInFlight
  BY DEF GatewayInv
<1>2. QED
  BY <1>1, GatewayInvariant, PTL

(***************************************************************************)
(* After handleNetworkToggle has reconnected and its replays are through,  *)
(* every payment in the log is settled, but for those that were routed     *)
(* offline before the switch and appended after it.                        *)
(***************************************************************************)
THEOREM OnlyLatePaymentsPend == GatewaySpec => []OnlyLateArePending
<1>1. ASSUME GatewayInv PROVE OnlyLateArePending
  <2>1. SUFFICES ASSUME networkStatus = "RECONNECTED", due = 0,
                        replayPc = "idle", NEW tx \in TxIDs,
                        txMap[tx] = "PENDING"
                 PROVE  tx \in late
    BY DEF OnlyLateArePending
  <2>2. tx \in Present
    BY <2>1 DEF Present, Absent
  <2>3. tx \in late \/ Underway(tx)
    BY <1>1, <2>1, <2>2 DEF GatewayInv, PendingIsKnown
  <2>4. batch = <<>> /\ current = NoTx
    BY <1>1, <2>1 DEF GatewayInv, ReplayInv, ReplayWell
  <2>5. ~Underway(tx)
    BY <2>1, <2>4, NoTxAssumption DEF Underway
  <2>6. QED
    BY <2>3, <2>5
<1>2. QED
  BY <1>1, GatewayInvariant, PTL

-----------------------------------------------------------------------------
(* What more is invariant when clients wait for an answer before they      *)
(* retry, and retry under the key of the payment.                          *)

ClientsBehave == ~RetriesOverlap /\ RetriesShareKeys

AnsweredAtTheEnd ==
  \A r \in Requests : resp[r] = NoResponse <=> pc[r] \notin {"cache", "done"}

(* While a request is in flight no retry of its payment has begun.         *)
OneInFlight ==
  \A r, q \in Requests :
    r /= q /\ TxOf(r) = TxOf(q) /\ InFlight(r) => pc[q] = "new"

(* Every answer that was given is cached, and nothing else is.             *)
CacheIsTruthful ==
  /\ \A r \in Requests :
       LET key == Request[r].IdempotencyKey
       IN  pc[r] = "done" /\ key /= NoKey => idempotency[key] = resp[r]
  /\ \A k \in Keys :
       idempotency[k] /= NoResponse =>
         \E r \in Requests : /\ pc[r] = "done"
                             /\ Request[r].IdempotencyKey = k
                             /\ resp[r] = idempotency[k]

(* Neither charged nor queued.                                             *)
Untouched(tx) == Unpaid(tx) /\ tx \notin Present

(* What an answer says of the money.                                       *)
Answers(status, tx) ==
  /\ status = "APPROVED" => /\ Credited(tx, Labels) = Payment[tx].Amount
                            /\ tx \notin Present
  /\ status = "OFFLINE_AUTHORIZED" => tx \in Present
  /\ status = "DECLINED" => Untouched(tx)

(* A payment is untouched until a request for it has its answer.           *)
MoneyByProgress ==
  /\ \A r \in Requests :
       /\ InFlight(r) /\ pc[r] /= "cache" => Untouched(TxOf(r))
       /\ Answers(resp[r], TxOf(r))
  /\ \A tx \in TxIDs :
       (\A r \in Requests : TxOf(r) = tx => pc[r] = "new") => Untouched(tx)

(* From the log on, the money is the replay's affair.                      *)
QueuedMoney == \A tx \in Present : MoneyOf(tx)

ClientInv ==
  /\ AnsweredAtTheEnd
  /\ OneInFlight
  /\ CacheIsTruthful
  /\ MoneyByProgress
  /\ QueuedMoney

-----------------------------------------------------------------------------
(* The money of the queued payments is part of the replay's invariant.     *)
LEMMA QueueIsTheReplays ==
  ASSUME GatewayInv, ClientInv, NEW Q, Q = Present
  PROVE  ReplayInv(Q)
BY DEF GatewayInv, ClientInv, QueuedMoney, ReplayInv, ReplayWell

(* What was untouched stays so where nothing is credited or queued.        *)
LEMMA StaysUntouched ==
  ASSUME NEW tx \in TxIDs, SameCredit(tx), tx \in Present' <=> tx \in Present
  PROVE  /\ Untouched(tx)' <=> Untouched(tx)
         /\ \A status \in Responses \cup {NoResponse} :
              Answers(status, tx) => Answers(status, tx)'
<1>1. \A D \in SUBSET Labels : Credited(tx, D)' = Credited(tx, D)
  BY DEF SameCredit, Credited
<1>2. Untouched(tx)' <=> Untouched(tx)
  BY <1>1 DEF Untouched, Unpaid
<1>3. Credited(tx, Labels)' = Credited(tx, Labels)
  BY <1>1
<1>4. QED
  BY <1>2, <1>3 DEF Answers

(* The server's own steps keep what is known of the requests, if they      *)
(* credit queued payments only.                                            *)
LEMMA ServerKeepsClients ==
  ASSUME GatewayInv, ClientInv, UNCHANGED <<pc, resp, idempotency>>,
         Present' = Present, \A x \in TxIDs \ Present : SameCredit(x),
         QueuedMoney'
  PROVE  ClientInv'
<1>1. AnsweredAtTheEnd' /\ OneInFlight' /\ CacheIsTruthful'
  BY DEF ClientInv, AnsweredAtTheEnd, OneInFlight, InFlight,
         CacheIsTruthful
<1>2. \A x \in TxIDs \ Present : Untouched(x)' <=> Untouched(x)
  BY StaysUntouched
<1>3. \A x \in Present : ~Untouched(x)
  BY DEF Untouched
<1>4. ASSUME NEW r \in Requests
      PROVE  /\ InFlight(r)' /\ pc'[r] /= "cache" => Untouched(TxOf(r))'
             /\ Answers(resp[r], TxOf(r))'
  <2>1. /\ InFlight(r) /\ pc[r] /= "cache" => Untouched(TxOf(r))
        /\ Answers(resp[r], TxOf(r))
    BY DEF ClientInv, MoneyByProgress
  <2>2. TxOf(r) \in TxIDs /\ resp'[r] = resp[r] /\ pc'[r] = pc[r]
        /\ resp[r] \in Responses \cup {NoResponse}
    BY RequestTypes DEF GatewayInv, GatewayTypes
  <2>3. InFlight(r)' /\ pc'[r] /= "cache" => Untouched(TxOf(r))'
    BY <1>2, <1>3, <2>1, <2>2 DEF InFlight
  <2>4. Answers(resp[r], TxOf(r))'
    <3>1. PICK status \in Responses \cup {NoResponse} : status = resp[r]
      BY <2>2
    <3>2. Answers(status, TxOf(r))'
      <4>1. Answers(status, TxOf(r))
        BY <2>1, <3>1
      <4>2. CASE TxOf(r) \in Present
        BY <1>3, <4>1, <4>2 DEF Answers
      <4>3. CASE TxOf(r) \notin Present
        BY <2>2, <4>1, <4>3, StaysUntouched
      <4>4. QED
        BY <4>2, <4>3
    <3>3. status = resp'[r]
      BY <2>2, <3>1
    <3>4. QED
      BY <3>2, <3>3
  <2>5. QED
    BY <2>3, <2>4
<1>5. ASSUME NEW tx \in TxIDs,
             \A r \in Requests : TxOf(r) = tx => pc'[r] = "new"
      PROVE  Untouched(tx)'
  <2>1. Untouched(tx)
    BY <1>5 DEF ClientInv, MoneyByProgress
  <2>2. QED
    BY <1>2, <1>3, <2>1
<1>6. MoneyByProgress'
  BY <1>4, <1>5 DEF MoneyByProgress, TxOf
<1>7. QED
  BY <1>1, <1>6 DEF ClientInv

(* Request r goes on to step s, and status is its answer.                  *)
GoesOn(r, s, status) ==
  /\ pc'[r] = s /\ resp'[r] = status
  /\ \A q \in Requests \ {r} : pc'[q] = pc[q] /\ resp'[q] = resp[q]

(* A request between its acceptance and its answer goes on.                *)
LEMMA RequestGoesOn ==
  ASSUME GatewayInv, ClientInv, UNCHANGED idempotency,
         NEW r \in Requests, InFlight(r), pc[r] /= "cache",
         NEW s \in Steps \ {"new", "done"},
         NEW status \in Responses \cup {NoResponse}, GoesOn(r, s, status),
         s = "cache" <=> status /= NoResponse,
         \A x \in TxIDs \ {TxOf(r)} :
           SameCredit(x) /\ (x \in Present' <=> x \in Present),
         s /= "cache" => Untouched(TxOf(r))', Answers(status, TxOf(r))',
         QueuedMoney'
  PROVE  ClientInv'
<1>1. \A q \in Requests : TxOf(q) \in TxIDs
                          /\ resp[q] \in Responses \cup {NoResponse}
  BY RequestTypes DEF GatewayInv, GatewayTypes
<1>2. \A q \in Requests \ {r} :
        TxOf(q) = TxOf(r) => pc[q] = "new" /\ resp[q] = NoResponse
  BY DEF ClientInv, OneInFlight, AnsweredAtTheEnd
<1>3. AnsweredAtTheEnd'
  BY DEF ClientInv, AnsweredAtTheEnd, GoesOn
<1>4. OneInFlight'
  <2>1. SUFFICES ASSUME NEW u \in Requests, NEW v \in Requests, u /= v,
                        TxOf(u) = TxOf(v), InFlight(u)'
                 PROVE  pc'[v] = "new"
    BY DEF OneInFlight, TxOf
  <2>2. CASE u = r
    BY <1>2, <2>1, <2>2 DEF GoesOn
  <2>3. CASE v = r
    BY <1>2, <2>1, <2>3 DEF GoesOn, InFlight
  <2>4. CASE u /= r /\ v /= r
    <3>1. InFlight(u) /\ pc'[v] = pc[v]
      BY <2>1, <2>4 DEF GoesOn, InFlight
    <3>2. QED
      BY <2>1, <3>1 DEF ClientInv, OneInFlight
  <2>5. QED
    BY <2>2, <2>3, <2>4
<1>5. CacheIsTruthful'
  <2>1. pc[r] /= "done" /\ pc'[r] /= "done"
    BY DEF InFlight, GoesOn
  <2>2. \A q \in Requests :
          /\ pc'[q] = "done" <=> pc[q] = "done"
          /\ pc[q] = "done" => resp'[q] = resp[q]
    BY <2>1 DEF GoesOn
  <2>3. QED
    BY <2>2 DEF ClientInv, CacheIsTruthful
<1>6. ASSUME NEW q \in Requests
      PROVE  /\ InFlight(q)' /\ pc'[q] /= "cache" => Untouched(TxOf(q))'
             /\ Answers(resp[q], TxOf(q))'
  <2>1. CASE q = r
    <3>1. status = resp'[q]
      BY <2>1 DEF GoesOn
    <3>2. QED
      BY <2>1, <3>1 DEF GoesOn, InFlight
  <2>2. CASE q /= r /\ TxOf(q) = TxOf(r)
    <3>1. pc'[q] = "new" /\ resp'[q] = NoResponse
      BY <1>2, <2>2 DEF GoesOn
    <3>2. QED
      BY <3>1 DEF InFlight, Answers, NoResponse
  <2>3. CASE q /= r /\ TxOf(q) /= TxOf(r)
    <3>1. /\ InFlight(q) /\ pc[q] /= "cache" => Untouched(TxOf(q))
          /\ Answers(resp[q], TxOf(q))
      BY DEF ClientInv, MoneyByProgress
    <3>2. pc'[q] = pc[q] /\ resp'[q] = resp[q]
      BY <2>3 DEF GoesOn
    <3>3. PICK old \in Responses \cup {NoResponse} : old = resp[q]
      BY <1>1
    <3>4. /\ Untouched(TxOf(q))' <=> Untouched(TxOf(q))
          /\ Answers(old, TxOf(q)) => Answers(old, TxOf(q))'
      BY <1>1, <2>3, StaysUntouched
    <3>5. Answers(old, TxOf(q))' /\ old = resp'[q]
      BY <3>1, <3>2, <3>3, <3>4
    <3>6. QED
      BY <3>1, <3>2, <3>4, <3>5 DEF InFlight
  <2>4. QED
    BY <2>1, <2>2, <2>3
<1>7. ASSUME NEW tx \in TxIDs,
             \A q \in Requests : TxOf(q) = tx => pc'[q] = "new"
      PROVE  Untouched(tx)'
  <2>1. tx /= TxOf(r)
    BY <1>7 DEF GoesOn
  <2>2. \A q \in Requests : TxOf(q) = tx => pc[q] = "new"
    BY <1>7, <2>1 DEF GoesOn
  <2>3. Untouched(tx)
    BY <2>2 DEF ClientInv, MoneyByProgress
  <2>4. QED
    BY <2>1, <2>3, StaysUntouched
<1>8. MoneyByProgress'
  BY <1>6, <1>7 DEF MoneyByProgress, TxOf
<1>9. QED
  BY <1>3, <1>4, <1>5, <1>8 DEF ClientInv

(* The steps that look at the cache leave the money alone.                 *)
LEMMA MoneyLeftAlone ==
  ASSUME GatewayInv, ClientInv, UNCHANGED reconVars
  PROVE  /\ QueuedMoney' /\ Present' = Present
         /\ \A x \in TxIDs : Untouched(x)' <=> Untouched(x)
         /\ \A x \in TxIDs, status \in Responses \cup {NoResponse} :
              Answers(status, x) => Answers(status, x)'
<1>1. PICK Q : Q = Present
  OBVIOUS
<1>2. ReplayInv(Q)
  BY <1>1, QueueIsTheReplays
<1>3. /\ ReplayInv(Q)' /\ Present' = Present
      /\ UNCHANGED ledgerVars
  BY <1>2, ReconLeftAlone
<1>4. QueuedMoney'
  BY <1>1, <1>3 DEF ReplayInv, QueuedMoney
<1>5. LedgerTypeOK
  BY DEF GatewayInv, ReplayInv, ReplayWell, ReconTypeOK
<1>6. \A x : SameCredit(x)
  BY <1>3, <1>5, LedgerLeftAlone
<1>7. QED
  BY <1>3, <1>4, <1>6, StaysUntouched

(* A retry without an answer in the cache is the first for its payment.    *)
LEMMA FirstOfItsPayment ==
  ASSUME ClientsBehave, GatewayInv, ClientInv, NEW r \in Requests,
         pc[r] = "new", ~Overlaps(r),
         LET key == Request[r].IdempotencyKey
         IN  key = NoKey \/ idempotency[key] = NoResponse
  PROVE  \A q \in Requests : TxOf(q) = TxOf(r) => pc[q] = "new"
<1>1. SUFFICES ASSUME NEW q \in Requests, TxOf(q) = TxOf(r), q /= r,
                      pc[q] /= "new"
               PROVE  FALSE
  OBVIOUS
<1>2. pc[q] = "done"
  BY <1>1 DEF Overlaps, InFlight, TxOf
<1>3. /\ Request[q].IdempotencyKey = Request[r].IdempotencyKey
      /\ Request[r].IdempotencyKey /= NoKey
  BY <1>1 DEF ClientsBehave, RetriesShareKeys, TxOf
<1>4. idempotency[Request[r].IdempotencyKey] = resp[q]
  BY <1>2, <1>3 DEF ClientInv, CacheIsTruthful
<1>5. resp[q] /= NoResponse
  BY <1>2 DEF ClientInv, AnsweredAtTheEnd
<1>6. QED
  BY <1>3, <1>4, <1>5

(* A request is accepted: nothing was done for its payment yet.            *)
LEMMA AcceptKeepsClients ==
  ASSUME ClientsBehave, GatewayInv, ClientInv, NEW r \in Requests,
         pc[r] = "new", NEW s \in {"qr", "route"},
         GoesOn(r, s, NoResponse), UNCHANGED idempotency,
         \A q \in Requests : TxOf(q) = TxOf(r) => pc[q] = "new",
         UNCHANGED reconVars
  PROVE  ClientInv'
<1>1. /\ QueuedMoney' /\ \A x \in TxIDs : Untouched(x)' <=> Untouched(x)
      /\ \A x \in TxIDs, status \in Responses \cup {NoResponse} :
              Answers(status, x) => Answers(status, x)'
  BY MoneyLeftAlone
<1>2. \A q \in Requests : TxOf(q) \in TxIDs
                          /\ resp[q] \in Responses \cup {NoResponse}
  BY RequestTypes DEF GatewayInv, GatewayTypes
<1>3. AnsweredAtTheEnd'
  BY DEF ClientInv, AnsweredAtTheEnd, GoesOn
<1>4. \A q \in Requests : resp'[q] = resp[q]
  BY DEF ClientInv, AnsweredAtTheEnd, GoesOn
<1>5. OneInFlight'
  <2>1. SUFFICES ASSUME NEW u \in Requests, NEW v \in Requests, u /= v,
                        TxOf(u) = TxOf(v), InFlight(u)'
                 PROVE  pc'[v] = "new"
    BY DEF OneInFlight, TxOf
  <2>2. CASE u = r
    BY <2>1, <2>2 DEF GoesOn
  <2>3. CASE u /= r
    <3>1. InFlight(u)
      BY <2>1, <2>3 DEF GoesOn, InFlight
    <3>2. pc[v] = "new" /\ TxOf(u) /= TxOf(r)
      BY <2>1, <3>1 DEF ClientInv, OneInFlight, InFlight
    <3>3. QED
      BY <2>1, <3>2 DEF GoesOn
  <2>4. QED
    BY <2>2, <2>3
<1>6. CacheIsTruthful'
  <2>1. \A q \in Requests : pc'[q] = "done" <=> pc[q] = "done"
    BY DEF GoesOn
  <2>2. QED
    BY <1>4, <2>1 DEF ClientInv, CacheIsTruthful
<1>7. Untouched(TxOf(r))
  BY <1>2 DEF ClientInv, MoneyByProgress
<1>8. ASSUME NEW q \in Requests
      PROVE  /\ InFlight(q)' /\ pc'[q] /= "cache" => Untouched(TxOf(q))'
             /\ Answers(resp[q], TxOf(q))'
  <2>1. PICK old \in Responses \cup {NoResponse} : old = resp[q]
    BY <1>2
  <2>2. /\ InFlight(q) /\ pc[q] /= "cache" => Untouched(TxOf(q))
        /\ Answers(old, TxOf(q))
    BY <2>1 DEF ClientInv, MoneyByProgress
  <2>3. Answers(old, TxOf(q))' /\ old = resp'[q]
    BY <1>1, <1>2, <1>4, <2>1, <2>2
  <2>4. InFlight(q)' /\ pc'[q] /= "cache" => Untouched(TxOf(q))
    BY <1>7, <2>2 DEF GoesOn, InFlight
  <2>5. QED
    BY <1>1, <1>2, <2>3, <2>4
<1>9. ASSUME NEW tx \in TxIDs,
             \A q \in Requests : TxOf(q) = tx => pc'[q] = "new"
      PROVE  Untouched(tx)'
  <2>1. \A q \in Requests : TxOf(q) = tx => pc[q] = "new"
    BY <1>9 DEF GoesOn
  <2>2. QED
    BY <1>1, <2>1 DEF ClientInv, MoneyByProgress
<1>10. MoneyByProgress'
  BY <1>8, <1>9 DEF MoneyByProgress, TxOf
<1>11. QED
  BY <1>1, <1>3, <1>5, <1>6, <1>10 DEF ClientInv

(* A request ends: with the answer from the cache, or with its own.        *)
LEMMA EndKeepsClients ==
  ASSUME GatewayInv, ClientInv, NEW r \in Requests, pc[r] /= "done",
         \A q \in Requests \ {r} : TxOf(q) = TxOf(r) => ~InFlight(q),
         NEW status \in Responses, GoesOn(r, "done", status),
         Answers(status, TxOf(r)), CacheIsTruthful',
         UNCHANGED reconVars
  PROVE  ClientInv'
<1>1. /\ QueuedMoney' /\ \A x \in TxIDs : Untouched(x)' <=> Untouched(x)
      /\ \A x \in TxIDs, old \in Responses \cup {NoResponse} :
              Answers(old, x) => Answers(old, x)'
  BY MoneyLeftAlone
<1>2. \A q \in Requests : TxOf(q) \in TxIDs
                          /\ resp[q] \in Responses \cup {NoResponse}
  BY RequestTypes DEF GatewayInv, GatewayTypes
<1>3. AnsweredAtTheEnd'
  <2>1. status /= NoResponse
    BY DEF Responses, NoResponse
  <2>2. QED
    BY <2>1 DEF ClientInv, AnsweredAtTheEnd, GoesOn
<1>4. OneInFlight'
  <2>1. SUFFICES ASSUME NEW u \in Requests, NEW v \in Requests, u /= v,
                        TxOf(u) = TxOf(v), InFlight(u)'
                 PROVE  pc'[v] = "new"
    BY DEF OneInFlight, TxOf
  <2>2. u /= r /\ InFlight(u)
    BY <2>1 DEF GoesOn, InFlight
  <2>3. v /= r /\ pc[v] = "new"
    BY <2>1, <2>2 DEF ClientInv, OneInFlight
  <2>4. QED
    BY <2>3 DEF GoesOn
<1>5. ASSUME NEW q \in Requests
      PROVE  /\ InFlight(q)' /\ pc'[q] /= "cache" => Untouched(TxOf(q))'
             /\ Answers(resp[q], TxOf(q))'
  <2>1. CASE q = r
    <3>1. Answers(status, TxOf(q))' /\ status = resp'[q]
      BY <1>1, <1>2, <2>1 DEF GoesOn
    <3>2. QED
      BY <2>1, <3>1 DEF GoesOn, InFlight
  <2>2. CASE q /= r
    <3>1. PICK old \in Responses \cup {NoResponse} : old = resp[q]
      BY <1>2
    <3>2. /\ InFlight(q) /\ pc[q] /= "cache" => Untouched(TxOf(q))
          /\ Answers(old, TxOf(q))
      BY <3>1 DEF ClientInv, MoneyByProgress
    <3>3. pc'[q] = pc[q] /\ old = resp'[q]
      BY <2>2, <3>1 DEF GoesOn
    <3>4. Answers(old, TxOf(q))'
      BY <1>1, <1>2, <3>2
    <3>5. QED
      BY <1>1, <1>2, <3>2, <3>3, <3>4 DEF InFlight
  <2>3. QED
    BY <2>1, <2>2
<1>6. ASSUME NEW tx \in TxIDs,
             \A q \in Requests : TxOf(q) = tx => pc'[q] = "new"
      PROVE  Untouched(tx)'
  <2>1. \A q \in Requests : TxOf(q) = tx => pc[q] = "new"
    BY <1>6 DEF GoesOn
  <2>2. QED
    BY <1>1, <2>1 DEF ClientInv, MoneyByProgress
<1>7. MoneyByProgress'
  BY <1>5, <1>6 DEF MoneyByProgress, TxOf
<1>8. QED
  BY <1>1, <1>3, <1>4, <1>7 DEF ClientInv

(* The idempotency check of ProcessPayment.                                *)
LEMMA SubmitKeepsClients ==
  ASSUME ClientsBehave, GatewayInv, ClientInv, NEW r \in Requests, Submit(r)
  PROVE  ClientInv'
<1> DEFINE key == Request[r].IdempotencyKey
<1>1. /\ pc[r] = "new" /\ ~Overlaps(r) /\ UNCHANGED idempotency
      /\ UNCHANGED reconVars
      /\ IF key /= NoKey /\ idempotency[key] /= NoResponse
         THEN /\ resp' = [resp EXCEPT ![r] = idempotency[key]]
              /\ pc' = [pc EXCEPT ![r] = "done"]
         ELSE GoTo(r, IF Request[r].DynamicQR THEN "qr" ELSE "route")
  BY DEF Submit, ClientsBehave
<1>2. /\ pc \in [Requests -> Steps] /\ key \in Keys \cup {NoKey}
      /\ resp \in [Requests -> Responses \cup {NoResponse}]
      /\ idempotency \in [Keys -> Responses \cup {NoResponse}]
  BY RequestTypes DEF GatewayInv, GatewayTypes
<1>3. CASE key /= NoKey /\ idempotency[key] /= NoResponse
  <2>1. PICK q \in Requests : /\ pc[q] = "done"
                              /\ Request[q].IdempotencyKey = key
                              /\ resp[q] = idempotency[key]
    BY <1>2, <1>3 DEF ClientInv, CacheIsTruthful
  <2>2. TxOf(q) = TxOf(r) /\ q /= r
    BY <1>1, <1>3, <2>1 DEF ClientsBehave, RetriesShareKeys, TxOf
  <2>3. PICK status \in Responses : status = idempotency[key]
    BY <1>2, <1>3
  <2>4. Answers(status, TxOf(r))
    BY <2>1, <2>2, <2>3 DEF ClientInv, MoneyByProgress
  <2>5. GoesOn(r, "done", status)
    BY <1>1, <1>2, <1>3, <2>3 DEF GoesOn
  <2>6. CacheIsTruthful'
    <3>1. ASSUME NEW u \in Requests, pc'[u] = "done",
                 Request[u].IdempotencyKey /= NoKey
          PROVE  idempotency'[Request[u].IdempotencyKey] = resp'[u]
      <4>1. CASE u = r
        BY <1>1, <2>3, <2>5, <4>1 DEF GoesOn
      <4>2. CASE u /= r
        BY <1>1, <2>5, <3>1, <4>2 DEF GoesOn, ClientInv, CacheIsTruthful
      <4>3. QED
        BY <4>1, <4>2
    <3>2. ASSUME NEW k \in Keys, idempotency'[k] /= NoResponse
          PROVE  \E u \in Requests : /\ pc'[u] = "done"
                                     /\ Request[u].IdempotencyKey = k
                                     /\ resp'[u] = idempotency'[k]
      <4>1. PICK u \in Requests : /\ pc[u] = "done"
                                  /\ Request[u].IdempotencyKey = k
                                  /\ resp[u] = idempotency[k]
        BY <1>1, <3>2 DEF ClientInv, CacheIsTruthful
      <4>2. u /= r
        BY <1>1, <4>1
      <4>3. QED
        BY <1>1, <2>5, <4>1, <4>2 DEF GoesOn
    <3>3. QED
      BY <3>1, <3>2 DEF CacheIsTruthful
  <2>7. \A u \in Requests \ {r} : TxOf(u) = TxOf(r) => ~InFlight(u)
    BY <1>1 DEF Overlaps, TxOf
  <2>8. QED
    BY <1>1, <2>4, <2>5, <2>6, <2>7, EndKeepsClients
<1>4. CASE ~(key /= NoKey /\ idempotency[key] /= NoResponse)
  <2>1. PICK s \in {"qr", "route"} : GoTo(r, s)
    BY <1>1, <1>4
  <2>2. resp[r] = NoResponse
    BY <1>1 DEF ClientInv, AnsweredAtTheEnd
  <2>3. GoesOn(r, s, NoResponse)
    BY <1>2, <2>1, <2>2 DEF GoTo, GoesOn
  <2>4. \A q \in Requests : TxOf(q) = TxOf(r) => pc[q] = "new"
    BY <1>1, <1>4, FirstOfItsPayment
  <2>5. QED
    BY <1>1, <2>3, <2>4, AcceptKeepsClients
<1>5. QED
  BY <1>3, <1>4

(* The answer is cached under the key of the payment, and of no other.     *)
LEMMA CacheKeepsClients ==
  ASSUME ClientsBehave, GatewayInv, ClientInv, NEW r \in Requests,
         CacheResponse(r)
  PROVE  ClientInv'
<1> DEFINE key == Request[r].IdempotencyKey
<1>1. /\ pc[r] = "cache" /\ UNCHANGED resp /\ UNCHANGED reconVars
      /\ pc' = [pc EXCEPT ![r] = "done"]
      /\ idempotency' = IF key = NoKey THEN idempotency
                        ELSE [idempotency EXCEPT ![key] = resp[r]]
  BY DEF CacheResponse
<1>2. /\ pc \in [Requests -> Steps] /\ key \in Keys \cup {NoKey}
      /\ resp \in [Requests -> Responses \cup {NoResponse}]
      /\ idempotency \in [Keys -> Responses \cup {NoResponse}]
  BY RequestTypes DEF GatewayInv, GatewayTypes
<1>3. PICK status \in Responses : status = resp[r]
  BY <1>1, <1>2 DEF ClientInv, AnsweredAtTheEnd
<1>4. Answers(status, TxOf(r))
  BY <1>3 DEF ClientInv, MoneyByProgress
<1>5. GoesOn(r, "done", status)
  BY <1>1, <1>2, <1>3 DEF GoesOn
<1>6. \A q \in Requests \ {r} : TxOf(q) = TxOf(r) => pc[q] = "new"
  <2>1. InFlight(r)
    BY <1>1 DEF InFlight
  <2>2. QED
    BY <2>1 DEF ClientInv, OneInFlight
<1>7. CacheIsTruthful'
  <2>1. ASSUME NEW u \in Requests, pc'[u] = "done",
               Request[u].IdempotencyKey /= NoKey
        PROVE  idempotency'[Request[u].IdempotencyKey] = resp'[u]
    <3>1. Request[u].IdempotencyKey \in Keys
      BY <2>1, RequestTypes
    <3>2. CASE u = r
      BY <1>1, <1>2, <2>1, <3>1, <3>2
    <3>3. CASE u /= r
      <4>1. pc[u] = "done"
        BY <1>5, <2>1, <3>3 DEF GoesOn
      <4>2. Request[u].IdempotencyKey /= key
        BY <1>6, <2>1, <3>3, <4>1 DEF ClientsBehave, RetriesShareKeys, TxOf
      <4>3. idempotency'[Request[u].IdempotencyKey] =
              idempotency[Request[u].IdempotencyKey]
        BY <1>1, <1>2, <3>1, <4>2
      <4>4. idempotency[Request[u].IdempotencyKey] = resp[u]
        BY <2>1, <4>1 DEF ClientInv, CacheIsTruthful
      <4>5. QED
        BY <1>1, <4>3, <4>4
    <3>4. QED
      BY <3>2, <3>3
  <2>2. ASSUME NEW k \in Keys, idempotency'[k] /= NoResponse
        PROVE  \E u \in Requests : /\ pc'[u] = "done"
                                   /\ Request[u].IdempotencyKey = k
                                   /\ resp'[u] = idempotency'[k]
    <3>1. CASE k = key /\ key /= NoKey
      BY <1>1, <1>2, <3>1
    <3>2. CASE k /= key \/ key = NoKey
      <4>1. idempotency'[k] = idempotency[k]
        BY <1>1, <1>2, <3>2
      <4>2. PICK u \in Requests : /\ pc[u] = "done"
                                  /\ Request[u].IdempotencyKey = k
                                  /\ resp[u] = idempotency[k]
        BY <2>2, <4>1 DEF ClientInv, CacheIsTruthful
      <4>3. u /= r
        BY <1>1, <4>2
      <4>4. QED
        BY <1>1, <1>5, <4>1, <4>2, <4>3 DEF GoesOn
    <3>3. QED
      BY <3>1, <3>2
  <2>3. QED
    BY <2>1, <2>2 DEF CacheIsTruthful
<1>8. \A q \in Requests \ {r} : TxOf(q) = TxOf(r) => ~InFlight(q)
  BY <1>6 DEF InFlight
<1>9. QED
  BY <1>1, <1>4, <1>5, <1>7, <1>8, EndKeepsClients

(* The steps that look at the QR code, the network and the verdict, and    *)
(* the authorizer's: no money moves.                                       *)
LEMMA DecisionKeepsClients ==
  ASSUME GatewayInv, ClientInv, NEW r \in Requests,
         pc[r] \in {"qr", "route", "offline", "online"},
         UNCHANGED idempotency, UNCHANGED reconVars,
         \/ \E s \in {"route", "offline", "online", "append", "reserve"} :
              GoTo(r, s)
         \/ Respond(r, "DECLINED")
  PROVE  ClientInv'
<1>1. /\ pc \in [Requests -> Steps] /\ TxOf(r) \in TxIDs
      /\ resp \in [Requests -> Responses \cup {NoResponse}]
  BY RequestTypes DEF GatewayInv, GatewayTypes
<1>2. /\ QueuedMoney' /\ Present' = Present
      /\ \A x \in TxIDs : Untouched(x)' <=> Untouched(x)
  BY MoneyLeftAlone
<1>3. InFlight(r) /\ pc[r] /= "cache" /\ resp[r] = NoResponse
  BY DEF InFlight, ClientInv, AnsweredAtTheEnd
<1>4. Untouched(TxOf(r))'
  BY <1>1, <1>2, <1>3 DEF ClientInv, MoneyByProgress
<1>5. \A x \in TxIDs : SameCredit(x)
  <2>1. LedgerTypeOK /\ UNCHANGED ledgerVars
    BY DEF GatewayInv, ReplayInv, ReplayWell, ReconTypeOK, reconVars
  <2>2. QED
    BY <2>1, LedgerLeftAlone
<1>6. ASSUME NEW s \in {"route", "offline", "online", "append", "reserve"},
             GoTo(r, s)
      PROVE  ClientInv'
  <2>1. s \in Steps \ {"new", "done"} /\ s /= "cache"
    BY DEF Steps
  <2>2. GoesOn(r, s, NoResponse)
    BY <1>1, <1>3, <1>6 DEF GoTo, GoesOn
  <2>3. Answers(NoResponse, TxOf(r))'
    BY DEF Answers, NoResponse
  <2>4. QED
    BY <1>2, <1>3, <1>4, <1>5, <2>1, <2>2, <2>3, RequestGoesOn
<1>7. CASE Respond(r, "DECLINED")
  <2>1. /\ "cache" \in Steps \ {"new", "done"}
        /\ "DECLINED" \in Responses /\ "DECLINED" /= NoResponse
    BY DEF Steps, Responses, NoResponse
  <2>2. GoesOn(r, "cache", "DECLINED")
    BY <1>1, <1>7 DEF Respond, GoesOn
  <2>3. Answers("DECLINED", TxOf(r))'
    BY <1>4 DEF Answers
  <2>4. QED
    BY <1>2, <1>3, <1>5, <2>1, <2>2, <2>3, RequestGoesOn
<1>8. QED
  BY <1>6, <1>7

(* Step B of handleOfflinePayment: the payment is queued, once.            *)
LEMMA AppendKeepsClients ==
  ASSUME GatewayInv, ClientInv, NEW r \in Requests, NEW err,
         AppendToWAL(r, err)
  PROVE  ClientInv'
<1>1. /\ WALAppend(TxOf(r), err) /\ pc[r] = "append"
      /\ Respond(r, IF err = "nil" THEN "OFFLINE_AUTHORIZED"
                    ELSE "DECLINED")
      /\ UNCHANGED idempotency
      /\ UNCHANGED ledgerVars /\ UNCHANGED replayVars
  BY DEF AppendToWAL, TxOf
<1>2. /\ pc \in [Requests -> Steps]
      /\ TxOf(r) \in QueuedTxIDs /\ TxOf(r) \in TxIDs
      /\ resp \in [Requests -> Responses \cup {NoResponse}]
  BY RequestTypes DEF GatewayInv, GatewayTypes
<1>3. InFlight(r) /\ pc[r] /= "cache"
  BY <1>1 DEF InFlight
<1>4. Untouched(TxOf(r))
  BY <1>3 DEF ClientInv, MoneyByProgress
<1>5. \A x \in TxIDs : SameCredit(x)
  <2>1. LedgerTypeOK
    BY DEF GatewayInv, ReplayInv, ReplayWell, ReconTypeOK
  <2>2. QED
    BY <1>1, <2>1, LedgerLeftAlone
<1>6. PICK Q : Q = Present \cup {TxOf(r)}
  OBVIOUS
<1>7. ReplayWell /\ NoneForgotten /\ WALInv
  BY DEF GatewayInv, ReplayInv, ReplayWell
<1>8. MoneyOf(TxOf(r))
  <2>1. TxOf(r) \notin seenHashes /\ TxOf(r) /= current
    BY <1>2, <1>4, <1>7, PaymentTypes DEF Untouched, ReplayWell
  <2>2. \A i \in DOMAIN deficitLogs : deficitLogs[i].TxID /= TxOf(r)
    BY <1>7, <2>1 DEF ReplayWell
  <2>3. Credited(TxOf(r), Labels) = 0
    BY <1>4 DEF Untouched, Unpaid
  <2>4. txMap[TxOf(r)] /= "RECONCILED"
    BY <1>2, <1>4 DEF Untouched, Present, Absent
  <2>5. Payment[TxOf(r)].Amount \in Int
    BY <1>2, PaymentTypes
  <2>6. QED
    BY <1>4, <2>1, <2>2, <2>3, <2>4, <2>5 DEF MoneyOf, Untouched, PartOf
<1>9. ReplayInv(Q)
  BY <1>2, <1>6, <1>7, <1>8
     DEF ReplayInv, ReplayWell, ClientInv, QueuedMoney
<1>10. ReplayInv(Q)'
  BY <1>1, <1>2, <1>9, QueueOfflinePreserves DEF QueueOffline
<1>11. /\ \A x \in Present : x \in Present'
       /\ \A x \in Present' : x \in Q
  BY <1>1, <1>2, <1>6, <1>7, AppendGrows
<1>12. QueuedMoney'
  BY <1>10, <1>11 DEF ReplayInv, QueuedMoney
<1>13. \A x \in TxIDs \ {TxOf(r)} :
         SameCredit(x) /\ (x \in Present' <=> x \in Present)
  BY <1>5, <1>6, <1>11
<1>14. "cache" \in Steps \ {"new", "done"}
  BY DEF Steps
<1>15. CASE err = "nil"
  <2>1. /\ "OFFLINE_AUTHORIZED" \in Responses
        /\ "OFFLINE_AUTHORIZED" /= NoResponse
    BY DEF Responses, NoResponse
  <2>2. GoesOn(r, "cache", "OFFLINE_AUTHORIZED")
    BY <1>1, <1>2, <1>15 DEF Respond, GoesOn
  <2>3. TxOf(r) \in Present'
    <3>1. AppendDurably(TxOf(r))
      BY <1>1, <1>4, <1>15 DEF WALAppend, Untouched
    <3>2. txMap' = [txMap EXCEPT ![TxOf(r)] = "PENDING"]
      BY <3>1 DEF AppendDurably
    <3>3. txMap \in [TxIDs -> Statuses \cup {Absent}]
      BY <1>7 DEF WALInv, WALTypeOK
    <3>4. txMap'[TxOf(r)] = "PENDING"
      BY <1>2, <3>2, <3>3
    <3>5. QED
      BY <1>2, <3>4 DEF Present, Absent
  <2>4. Answers("OFFLINE_AUTHORIZED", TxOf(r))'
    BY <2>3 DEF Answers
  <2>5. QED
    BY <1>1, <1>3, <1>12, <1>13, <1>14, <2>1, <2>2, <2>4, RequestGoesOn
<1>16. CASE err /= "nil"
  <2>1. "DECLINED" \in Responses /\ "DECLINED" /= NoResponse
    BY DEF Responses, NoResponse
  <2>2. GoesOn(r, "cache", "DECLINED")
    BY <1>1, <1>2, <1>16 DEF Respond, GoesOn
  <2>3. Present' = Present
    BY <1>1, <1>16 DEF WALAppend, AppendTorn, AppendUnsynced, Present
  <2>4. Untouched(TxOf(r))'
    BY <1>2, <1>4, <1>5, <2>3, StaysUntouched
  <2>5. Answers("DECLINED", TxOf(r))'
    BY <2>4 DEF Answers
  <2>6. QED
    BY <1>1, <1>3, <1>12, <1>13, <1>14, <2>1, <2>2, <2>5, RequestGoesOn
<1>17. QED
  BY <1>15, <1>16

(* A step of a request that works on the ledger leaves the queue alone.    *)
LEMMA QueueLeftAlone ==
  ASSUME GatewayInv, ClientInv, LedgerTypeOK',
         UNCHANGED <<walVars, replayVars>>, \A x \in Present : SameCredit(x)
  PROVE  QueuedMoney' /\ Present' = Present
<1>1. PICK Q : Q = Present
  OBVIOUS
<1>2. ReplayInv(Q)
  BY <1>1, QueueIsTheReplays
<1>3. ReplayInv(Q)'
  BY <1>1, <1>2, LedgerStepKeeps
<1>4. Present' = Present
  BY DEF walVars, Present
<1>5. QED
  BY <1>1, <1>3, <1>4 DEF ReplayInv, QueuedMoney

(* ReserveFunds pays nobody.                                               *)
LEMMA ReserveKeepsClients ==
  ASSUME GatewayInv, ClientInv, NEW r \in Requests, NEW err, Reserve(r, err)
  PROVE  ClientInv'
<1>1. /\ ReserveFunds(PaymentOf(r).AccountID, PaymentOf(r).Amount, TxOf(r),
                      err)
      /\ UNCHANGED idempotency
      /\ UNCHANGED <<walVars, replayVars>>
      /\ pc[r] = "reserve"
      /\ IF err = "nil" THEN GoTo(r, "commit") ELSE Respond(r, "DECLINED")
  BY DEF Reserve, TxOf
<1>2. /\ PaymentOf(r).AccountID \in Accounts /\ PaymentOf(r).Amount \in Int
      /\ TxOf(r) \in TxIDs
  BY RequestTypes
<1>3. /\ LedgerTypeOK /\ entries \in Seq(LedgerEntry)
      /\ pc \in [Requests -> Steps]
      /\ resp \in [Requests -> Responses \cup {NoResponse}]
  BY DEF GatewayInv, GatewayTypes, ReplayInv, ReplayWell, ReconTypeOK,
         LedgerTypeOK
<1>4. /\ LedgerTypeOK'
      /\ \/ UNCHANGED entries
         \/ \E e \in LedgerEntry : Journals(e) /\ e.Type = "RESERVE"
  BY <1>1, <1>2, <1>3, SetAsideEffect
<1>5. \A x : SameCredit(x)
  BY <1>3, <1>4, OtherEntry
<1>6. QueuedMoney' /\ Present' = Present
  BY <1>1, <1>4, <1>5, QueueLeftAlone
<1>7. InFlight(r) /\ pc[r] /= "cache" /\ resp[r] = NoResponse
  BY <1>1 DEF InFlight, ClientInv, AnsweredAtTheEnd
<1>8. Untouched(TxOf(r))'
  <2>1. Untouched(TxOf(r))
    BY <1>7 DEF ClientInv, MoneyByProgress
  <2>2. QED
    BY <1>2, <1>5, <1>6, <2>1, StaysUntouched
<1>9. CASE err = "nil"
  <2>1. "commit" \in Steps \ {"new", "done"}
    BY DEF Steps
  <2>2. GoesOn(r, "commit", NoResponse)
    BY <1>1, <1>3, <1>7, <1>9 DEF GoTo, GoesOn
  <2>3. Answers(NoResponse, TxOf(r))'
    BY DEF Answers, NoResponse
  <2>4. QED
    BY <1>1, <1>5, <1>6, <1>7, <1>8, <2>1, <2>2, <2>3, RequestGoesOn
<1>10. CASE err /= "nil"
  <2>1. /\ "cache" \in Steps \ {"new", "done"}
        /\ "DECLINED" \in Responses /\ "DECLINED" /= NoResponse
    BY DEF Steps, Responses, NoResponse
  <2>2. GoesOn(r, "cache", "DECLINED")
    BY <1>1, <1>3, <1>10 DEF Respond, GoesOn
  <2>3. Answers("DECLINED", TxOf(r))'
    BY <1>8 DEF Answers
  <2>4. QED
    BY <1>1, <1>5, <1>6, <1>7, <2>1, <2>2, <2>3, RequestGoesOn
<1>11. QED
  BY <1>9, <1>10

(* CommitHold pays the amount, for a payment that nothing was paid for and *)
(* that the replay does not know of.                                       *)
LEMMA CommitKeepsClients ==
  ASSUME GatewayInv, ClientInv, NEW r \in Requests, Commit(r)
  PROVE  ClientInv'
<1> DEFINE payer == PaymentOf(r).AccountID
           payee == PaymentOf(r).MerchantID
           n == PaymentOf(r).Amount
           e == NewEntry("COMMIT", TxOf(r), Label(SystemEscrow),
                         Label(payee), n)
<1>1. /\ CommitHold(payer, payee, n, TxOf(r), "nil")
      /\ Respond(r, "APPROVED")
      /\ pc[r] = "commit"
      /\ UNCHANGED idempotency
      /\ UNCHANGED <<walVars, replayVars>>
  BY CommitHoldHappens
<1>2. /\ payer \in Accounts /\ payee \in Accounts /\ n \in Int
      /\ TxOf(r) \in TxIDs /\ TxOf(r) \in QueuedTxIDs
      /\ payee = Payment[TxOf(r)].MerchantID
      /\ n = Payment[TxOf(r)].Amount
  BY RequestTypes
<1>3. /\ LedgerTypeOK /\ entries \in Seq(LedgerEntry)
      /\ pc \in [Requests -> Steps]
      /\ resp \in [Requests -> Responses \cup {NoResponse}]
  BY DEF GatewayInv, GatewayTypes, ReplayInv, ReplayWell, ReconTypeOK,
         LedgerTypeOK
<1>4. SystemEscrow \in Accounts /\ Label(SystemEscrow) \in Labels
  BY SystemAccountsAssumption, LabelsOfAccount DEF SystemAccounts
<1>5. LedgerTypeOK' /\ Journals(e)
  BY <1>1, <1>2, <1>3, <1>4, BucketsOfAccount, SettleEffect DEF CommitHold
<1>6. InFlight(r) /\ pc[r] /= "cache"
  BY <1>1 DEF InFlight
<1>7. Untouched(TxOf(r))
  BY <1>6 DEF ClientInv, MoneyByProgress
<1>8. \A x \in TxIDs \ {TxOf(r)} : SameCredit(x)
  <2>1. e.TxID = TxOf(r) /\ e \in LedgerEntry
    BY <1>5 DEF NewEntry, Journals
  <2> HIDE DEF e
  <2>2. QED
    BY <1>3, <1>5, <2>1, OtherEntry
<1>9. QueuedMoney' /\ Present' = Present
  <2>1. \A x \in Present : SameCredit(x)
    BY <1>7, <1>8 DEF Untouched, Present
  <2>2. QED
    BY <1>1, <1>5, <2>1, QueueLeftAlone
<1>10. Answers("APPROVED", TxOf(r))'
  <2>1. CreditedIn(entries', TxOf(r), Labels) =
          Credited(TxOf(r), Labels) + n
    BY <1>2, <1>3, <1>4, <1>5, PostedCredit
  <2>2. Credited(TxOf(r), Labels) = 0
    BY <1>7 DEF Untouched, Unpaid
  <2>3. Credited(TxOf(r), Labels)' = n
    BY <1>2, <2>1, <2>2 DEF Credited
  <2>4. TxOf(r) \notin Present'
    BY <1>7, <1>9 DEF Untouched
  <2>5. QED
    BY <1>2, <2>3, <2>4 DEF Answers
<1>11. /\ "cache" \in Steps \ {"new", "done"}
       /\ "APPROVED" \in Responses /\ "APPROVED" /= NoResponse
  BY DEF Steps, Responses, NoResponse
<1>12. GoesOn(r, "cache", "APPROVED")
  BY <1>1, <1>3 DEF Respond, GoesOn
<1>13. QED
  BY <1>1, <1>6, <1>8, <1>9, <1>10, <1>11, <1>12, RequestGoesOn

(* The replay credits the transaction it is at, and no other.              *)
LEMMA ReplayCreditsCurrent ==
  ASSUME NEW Q, ReplayInv(Q), ReplayStep, NEW x, x /= current
  PROVE  SameCredit(x)
<1>1. LedgerTypeOK /\ entries \in Seq(LedgerEntry)
  BY DEF ReplayInv, ReplayWell, ReconTypeOK, LedgerTypeOK
<1>2. CASE UNCHANGED ledgerVars
  BY <1>1, <1>2, LedgerLeftAlone
<1>3. ASSUME replayPc \notin {"idle", "loop"}
      PROVE  /\ current \in TxIDs
             /\ Payment[current].AccountID \in Accounts
             /\ Payment[current].MerchantID \in Accounts
             /\ Payment[current].Amount \in Int
             /\ CustomerCovered \in Int /\ UncoveredDelta \in Nat
             /\ DeficitReserve \in Accounts
             /\ Label(Payment[current].AccountID) \in Labels
             /\ OfflineLabel(Payment[current].AccountID) \in Labels
  <2>1. /\ current \in QueuedTxIDs
        /\ accSnapshot \in [OnlineAvailable : Int, OfflineAllowance : Int]
    BY <1>3, AtCurrent
  <2>2. QED
    BY <2>1, PaymentTypes, CoveredParts
<1>4. ASSUME NEW a \in Accounts, NEW d \in Accounts, NEW n \in Int,
             NEW bucket \in Buckets, NEW debit \in Labels, NEW err,
             current \in TxIDs,
             Settle(a, bucket, debit, "ErrInsufficientFunds", d, n, current,
                    err)
      PROVE  SameCredit(x)
  <2>1. /\ err = "nil" =>
             Journals(NewEntry("COMMIT", current, debit, Label(d), n))
        /\ err # "nil" => UNCHANGED entries
    BY <1>1, <1>4, SettleEffect
  <2>2. NewEntry("COMMIT", current, debit, Label(d), n).TxID = current
    BY DEF NewEntry
  <2>3. QED
    BY <1>1, <2>1, <2>2, OtherEntry DEF Journals
<1>5. ASSUME NEW a \in Accounts, NEW d \in Accounts, NEW n \in Int,
             current \in TxIDs, PostDeficit(a, d, n, current)
      PROVE  SameCredit(x)
  <2>1. Journals(NewEntry("DEFICIT", current, Label(a), Label(d), n))
    BY <1>1, <1>5, PostDeficitEffect
  <2>2. NewEntry("DEFICIT", current, Label(a), Label(d), n).TxID = current
    BY DEF NewEntry
  <2>3. QED
    BY <1>1, <2>1, <2>2, OtherEntry DEF Journals
<1>6. ASSUME NEW err, ReplayOffline(err) PROVE SameCredit(x)
  BY <1>3, <1>4, <1>6, BucketsOfAccount
     DEF ReplayOffline, CommitOfflineAllowance
<1>7. ASSUME NEW err, ReplayOnline(err) PROVE SameCredit(x)
  BY <1>3, <1>4, <1>7, BucketsOfAccount DEF ReplayOnline, DirectCommit
<1>8. ASSUME NEW err, ReplayCovered(err) PROVE SameCredit(x)
  BY <1>2, <1>3, <1>4, <1>8, BucketsOfAccount
     DEF ReplayCovered, DirectCommit
<1>9. ASSUME NEW err, ReplayReserve(err) PROVE SameCredit(x)
  BY <1>2, <1>3, <1>5, <1>9 DEF ReplayReserve, DebitDeficitReserve
<1>10. CASE ReplayLegacy
  BY <1>3, <1>5, <1>10 DEF ReplayLegacy, RecordDeficit
<1>11. CASE ReplayEnd \/ \E i \in DOMAIN batch : \/ ReplayDuplicate(i)
                                                 \/ ReplayTake(i)
  BY <1>2, <1>11 DEF ReplayEnd, ReplayDuplicate, ReplayTake
<1>12. QED
  BY <1>6, <1>7, <1>8, <1>9, <1>10, <1>11 DEF ReplayStep

(* The network switch, the replay and the issue of tokens.                 *)
LEMMA ServerStepsKeepClients ==
  ASSUME GatewayInv, ClientInv,
         \/ \E status \in NetworkStatuses : SetNetworkStatus(status)
         \/ ReconnectReplay
         \/ TriggerReconciliation
         \/ ReplayGoesOn
         \/ EdgeStep
         \/ UNCHANGED allVars
  PROVE  ClientInv'
<1>1. UNCHANGED <<pc, resp, idempotency>>
  BY DEF SetNetworkStatus, ReconnectReplay, TriggerReconciliation,
         ReplayGoesOn, EdgeStep, gatewayVars, allVars
<1>2. PICK Q : Q = Present
  OBVIOUS
<1>3. ReplayInv(Q) /\ ReplayWell /\ LedgerTypeOK
  BY <1>2, QueueIsTheReplays DEF ReplayInv, ReplayWell, ReconTypeOK
<1>4. CASE UNCHANGED reconVars
  <2>1. QueuedMoney' /\ Present' = Present
    BY <1>4, MoneyLeftAlone
  <2>2. \A x : SameCredit(x)
    BY <1>3, <1>4, LedgerLeftAlone DEF reconVars
  <2>3. QED
    BY <1>1, <2>1, <2>2, ServerKeepsClients
<1>5. CASE ReplayBegin
  <2>1. UNCHANGED <<ledgerVars, walVars>>
    BY <1>5 DEF ReplayBegin
  <2>2. ReplayInv(Q)'
    BY <1>3, <1>5, ReplayStepPreserves
  <2>3. Present' = Present
    BY <2>1 DEF walVars, Present
  <2>4. QueuedMoney'
    BY <1>2, <2>2, <2>3 DEF ReplayInv, QueuedMoney
  <2>5. \A x : SameCredit(x)
    BY <1>3, <2>1, LedgerLeftAlone
  <2>6. QED
    BY <1>1, <2>3, <2>4, <2>5, ServerKeepsClients
<1>6. CASE ReplayStep
  <2>1. ReplayInv(Q)'
    BY <1>3, <1>6, ReplayStepPreserves
  <2>2. Present' = Present
    BY <1>6, ReplayKeepsUnderway DEF GatewayInv
  <2>3. QueuedMoney'
    BY <1>2, <2>1, <2>2 DEF ReplayInv, QueuedMoney
  <2>4. ASSUME NEW x \in TxIDs \ Present PROVE SameCredit(x)
    <3>1. x /= current
      BY <1>3, NoTxAssumption DEF ReplayWell
    <3>2. QED
      BY <1>3, <1>6, <3>1, ReplayCreditsCurrent
  <2>5. QED
    BY <1>1, <2>2, <2>3, <2>4, ServerKeepsClients
<1>7. QED
  BY <1>4, <1>5, <1>6
     DEF SetNetworkStatus, ReconnectReplay, TriggerReconciliation,
         ReplayGoesOn, EdgeStep, allVars

(* Every step of the gateway keeps it, with clients that behave.           *)
LEMMA ClientInvNext ==
  ASSUME ClientsBehave, GatewayInv, ClientInv, [GatewayNext]_allVars
  PROVE  ClientInv'
<1>1. ASSUME NEW r \in Requests, ProcessPayment(r) PROVE ClientInv'
  <2>1. CASE \E valid \in BOOLEAN : CheckQR(r, valid)
    BY <2>1, DecisionKeepsClients DEF CheckQR
  <2>2. CASE Route(r)
    BY <2>2, DecisionKeepsClients DEF Route
  <2>3. CASE \E reason \in ReasonCodes : Authorize(r, reason)
    BY <2>3, DecisionKeepsClients DEF Authorize
  <2>4. CASE \E approved \in BOOLEAN : ScreenTransaction(r, approved)
    BY <2>4, DecisionKeepsClients DEF ScreenTransaction
  <2>5. QED
    BY <1>1, <2>1, <2>2, <2>3, <2>4, AppendKeepsClients,
       ReserveKeepsClients, CommitKeepsClients, CacheKeepsClients
       DEF ProcessPayment
<1>2. QED
  BY <1>1, SubmitKeepsClients, ServerStepsKeepClients DEF GatewayNext

(* The server starts with no payment credited: its journal holds only the  *)
(* allowances.                                                             *)
LEMMA NothingIsCredited ==
  ASSUME ServerInit, NEW tx, NEW D
  PROVE  Credited(tx, D) = 0
<1>1. PICK F : F = [i \in DOMAIN entries |-> Credit(entries[i], tx, D)]
  OBVIOUS
<1>2. /\ entries \in Seq(LedgerEntry)
      /\ \A i \in DOMAIN entries : entries[i].Type = "RESERVE"
  BY StartupEntries
<1>3. \A i \in DOMAIN entries : F[i] = 0
  BY <1>1, <1>2 DEF Credit
<1>4. DOMAIN F = DOMAIN entries /\ IsFiniteSet(DOMAIN entries)
  <2>1. DOMAIN entries = 1..Len(entries) /\ Len(entries) \in Nat
    BY <1>2
  <2>2. QED
    BY <1>1, <2>1, FS_Interval
<1>5. SumFunctionOnSet(F, DOMAIN entries) = 0
  BY <1>3, <1>4, SumOfZeros
<1>6. QED
  BY <1>1, <1>4, <1>5 DEF Credited, CreditedIn, SumFunction

LEMMA ClientInvInit == ServerInit => ClientInv
<1>1. SUFFICES ASSUME ServerInit PROVE ClientInv
  OBVIOUS
<1>2. /\ pc = [r \in Requests |-> "new"]
      /\ resp = [r \in Requests |-> NoResponse]
      /\ idempotency = [k \in Keys |-> NoResponse]
  BY <1>1 DEF ServerInit
<1>3. Present = {}
  BY <1>1 DEF ServerInit, WALInit, Present
<1>4. \A tx : Untouched(tx)
  BY <1>1, <1>3, NothingIsCredited DEF Untouched, Unpaid
<1>5. AnsweredAtTheEnd /\ OneInFlight /\ CacheIsTruthful
  BY <1>2 DEF AnsweredAtTheEnd, OneInFlight, InFlight, CacheIsTruthful
<1>6. MoneyByProgress
  BY <1>2, <1>4 DEF MoneyByProgress, Answers, NoResponse
<1>7. QED
  BY <1>3, <1>5, <1>6 DEF ClientInv, QueuedMoney

LEMMA ClientInvariant ==
  ASSUME ClientsBehave
  PROVE  GatewaySpec => [](GatewayInv /\ ClientInv)
<1>1. ServerInit => GatewayInv /\ ClientInv
  BY GatewayInvInit, ClientInvInit
<1>2. GatewayInv /\ ClientInv /\ [GatewayNext]_allVars
        => GatewayInv' /\ ClientInv'
  BY GatewayInvNext, ClientInvNext
<1>3. QED
  BY <1>1, <1>2, PTL DEF GatewaySpec

(***************************************************************************)
(* No payment is charged twice, online and by the replay together, however *)
(* often it is submitted and wherever its requests are routed: provided a  *)
(* client waits for the answer before it retries, and retries under the    *)
(* same key.  (MCGatewayRetry is what happens to one that does not wait.)  *)
(***************************************************************************)
THEOREM NoPaymentChargedTwice ==
  ASSUME ClientsBehave
  PROVE  GatewaySpec => []ChargedAtMostOnce
<1>1. ASSUME GatewayInv, ClientInv PROVE ChargedAtMostOnce
  <2>1. SUFFICES ASSUME NEW tx \in TxIDs
                 PROVE  PartOf(Credited(tx, Labels), Payment[tx].Amount)
    BY DEF ChargedAtMostOnce
  <2>2. Payment[tx].Amount \in Int
    BY <2>1, PaymentAssumption
  <2>3. CASE tx \in Present
    BY <1>1, <2>3 DEF ClientInv, QueuedMoney, MoneyOf
  <2>4. CASE Untouched(tx)
    BY <2>2, <2>4 DEF Untouched, Unpaid, PartOf
  <2>5. CASE tx \notin Present /\ ~Untouched(tx)
    <3>1. PICK r \in Requests : TxOf(r) = tx /\ pc[r] /= "new"
      BY <1>1, <2>5 DEF ClientInv, MoneyByProgress
    <3>2. pc[r] \in {"cache", "done"}
      BY <1>1, <2>5, <3>1 DEF ClientInv, MoneyByProgress, InFlight
    <3>3. resp[r] \in Responses
      BY <1>1, <3>2
         DEF ClientInv, AnsweredAtTheEnd, GatewayInv, GatewayTypes
    <3>4. Answers(resp[r], tx)
      BY <1>1, <3>1 DEF ClientInv, MoneyByProgress
    <3>5. Credited(tx, Labels) = Payment[tx].Amount
      BY <2>5, <3>3, <3>4 DEF Answers, Responses
    <3>6. QED
      BY <2>2, <3>5 DEF PartOf
  <2>6. QED
    BY <2>3, <2>4, <2>5
<1>2. GatewayInv /\ ClientInv => ChargedAtMostOnce
  BY <1>1
<1>3. QED
  BY <1>2, ClientInvariant, PTL

(***************************************************************************)
(* The answers a client gets, from the cache as well as from its own       *)
(* request, agree with the money: an approved payment was credited in      *)
(* full, an offline authorization is in the log, a declined payment moved  *)
(* nothing and never will.                                                 *)
(***************************************************************************)
THEOREM AnswersAreTrue ==
  ASSUME ClientsBehave
  PROVE  GatewaySpec => []AnswersMatchMoney
<1>1. ASSUME GatewayInv, ClientInv PROVE AnswersMatchMoney
  <2>1. SUFFICES ASSUME NEW r \in Requests
                 PROVE  /\ resp[r] = "APPROVED" =>
                             Credited(TxOf(r), Labels) =
                               Payment[TxOf(r)].Amount
                        /\ resp[r] = "OFFLINE_AUTHORIZED" =>
                             TxOf(r) \in Present
                        /\ resp[r] = "DECLINED" =>
                             /\ Credited(TxOf(r), Labels) = 0
                             /\ TxOf(r) \notin Present
    BY DEF AnswersMatchMoney, TxOf
  <2>2. Answers(resp[r], TxOf(r))
    BY <1>1 DEF ClientInv, MoneyByProgress
  <2>3. QED
    BY <2>2 DEF Answers, Untouched, Unpaid
<1>2. GatewayInv /\ ClientInv => AnswersMatchMoney
  BY <1>1
<1>3. QED
  BY <1>2, ClientInvariant, PTL

-----------------------------------------------------------------------------
(* What is invariant of the allowances, whatever the clients do.           *)

(* The hypothesis of the partition isolation theorem.                      *)
AllowanceHolds == TokensCovered /\ PayersPresentOwnTokens

(* The payments that requests submit.                                      *)
Submitted == {TxOf(r) : r \in Requests}

(* A payment is to be paid from the allowance once it is authorized.       *)
Claims(tx) ==
  tx \in Present \/ \E r \in Requests : TxOf(r) = tx /\ pc[r] = "append"

(* What tx takes from the allowance: nothing if its amount is negative.     *)
Payable(tx) == IF Payment[tx].Amount > 0 THEN Payment[tx].Amount ELSE 0

ClaimOn(tx, a) ==
  IF Claims(tx) /\ Payment[tx].AccountID = a THEN Payable(tx) ELSE 0

SettledFrom(tx, a) ==
  IF Replayed(tx) /\ Payment[tx].AccountID = a THEN Payable(tx) ELSE 0

(* What was spent under a token, with what was given back to it again, and *)
(* what can be spent at most.                                              *)
SpentUnder(id, a) ==
  IF id \in Issued /\ issued[id].AccountID = a
  THEN spentByToken[Here][id] + GivenBack(id) ELSE 0

CeilingOf(id, a) ==
  IF id \in Issued /\ issued[id].AccountID = a
  THEN Ceiling(id) + GivenBack(id) ELSE 0

(* What there is of each on account a.                                     *)
ClaimsOn(a)  == SumFunction([tx \in Submitted |-> ClaimOn(tx, a)])
SettledOn(a) == SumFunction([tx \in Submitted |-> SettledFrom(tx, a)])
SpentOn(a)   == SumFunction([id \in TokenIDs |-> SpentUnder(id, a)])
CeilingsOn(a) == SumFunction([id \in TokenIDs |-> CeilingOf(id, a)])

(* What the journal pays for tx from the payer's allowance.                *)
OfflineCredit(tx) == Credited(tx, {OfflineLabel(Payment[tx].AccountID)})

(* No claim without an authorization, and then on a party's account,       *)
ClaimsCounted ==
  /\ \A a \in Parties : ClaimsOn(a) <= SpentOn(a)
  /\ \A tx \in Submitted : Claims(tx) => Payment[tx].AccountID \in Parties

(* the allowances are spent by settlements only, and every settlement is   *)
(* made from them,                                                         *)
AllowanceLeft ==
  /\ \A a \in Parties :
       balance[OfflineAllowance(a)] = Allowance - SettledOn(a)
  /\ \A tx \in QueuedTxIDs :
       OfflineCredit(tx) = IF Replayed(tx) THEN Payable(tx) ELSE 0

(* and the loop never gets to another source of money.                     *)
NothingElseNeeded ==
  replayPc \notin {"idle", "loop"} =>
    replayPc = "offline" \/ Payment[current].Amount <= 0

AllowanceKnown == ClaimsCounted /\ AllowanceLeft /\ NothingElseNeeded

(* What holds whether or not the tokens are covered.                       *)
AroundAllowance ==
  /\ Parties \subseteq exists
  /\ Present \subseteq Submitted
  /\ \A id \in Issued : issued[id].AccountID \in Parties

AllowanceInv == AroundAllowance /\ (AllowanceHolds => AllowanceKnown)

-----------------------------------------------------------------------------
(* What negative authorizations give back to the tokens.                   *)

(* What grant g gives back to token id.                                    *)
Returned(g, id) == IF g.TokenID = id /\ g.Amount < 0 THEN -g.Amount ELSE 0

ReturnedIn(s, id) == SumFunction([i \in DOMAIN s |-> Returned(s[i], id)])

LEMMA ReturnedType ==
  ASSUME NEW g \in Grant, NEW id
  PROVE  Returned(g, id) \in Nat
BY DEF Returned, Grant

LEMMA GivenBackIsSum ==
  ASSUME NEW id
  PROVE  /\ GivenBack(id) = ReturnedIn(grants, id)
         /\ GivenBack(id)' = ReturnedIn(grants', id)
BY DEF GivenBack, ReturnedIn, Returned

(* A grant that is appended gives back its share.                          *)
LEMMA ReturnedInAppend ==
  ASSUME NEW s \in Seq(Grant), NEW g \in Grant, NEW id
  PROVE  /\ ReturnedIn(s, id) \in Int
         /\ ReturnedIn(Append(s, g), id) =
              ReturnedIn(s, id) + Returned(g, id)
<1> DEFINE t == Append(s, g)
           F == [i \in DOMAIN s |-> Returned(s[i], id)]
           G == [i \in DOMAIN t |-> Returned(t[i], id)]
           n == Len(s)
<1>1. /\ n \in Nat
      /\ DOMAIN s = 1..n
      /\ DOMAIN t = 1..(n + 1)
      /\ \A i \in 1..n : s[i] \in Grant /\ t[i] = s[i]
      /\ t[n + 1] = g
  OBVIOUS
<1>2. /\ DOMAIN F = 1..n
      /\ DOMAIN G = 1..(n + 1)
      /\ \A i \in 1..n : F[i] \in Int /\ F[i] = G[i]
      /\ G[n + 1] = Returned(g, id)
  BY <1>1, ReturnedType
<1>3. Returned(g, id) \in Int
  BY ReturnedType
<1> HIDE DEF F, G, n, t
<1>4. SumFunction(F) \in Int /\ SumFunction(G) = SumFunction(F) + G[n + 1]
  BY <1>1, <1>2, <1>3, SumOneMore
<1>5. QED
  BY <1>2, <1>4 DEF ReturnedIn, F, G, t

(* What grants give back is an amount, and nothing without a grant.        *)
LEMMA ReturnedInType ==
  ASSUME NEW s \in Seq(Grant), NEW id
  PROVE  /\ ReturnedIn(s, id) \in Nat
         /\ (\A i \in DOMAIN s : s[i].TokenID /= id) =>
              ReturnedIn(s, id) = 0
<1> DEFINE F == [i \in DOMAIN s |-> Returned(s[i], id)]
           Z == [i \in DOMAIN s |-> 0]
<1>1. IsFiniteSet(DOMAIN s)
  BY FS_Interval
<1>2. /\ DOMAIN F = DOMAIN s
      /\ \A i \in DOMAIN s : F[i] \in Nat /\ Z[i] = 0
  BY ReturnedType
<1>3. (\A i \in DOMAIN s : s[i].TokenID /= id) =>
        \A i \in DOMAIN s : F[i] = 0
  BY DEF Returned
<1>4. ReturnedIn(s, id) = SumFunction(F)
  BY DEF ReturnedIn
<1> HIDE DEF F, Z
<1>5. ReturnedIn(s, id) = SumFunctionOnSet(F, DOMAIN s)
  BY <1>2, <1>4 DEF SumFunction
<1>6. SumFunctionOnSet(F, DOMAIN s) \in Int
  BY <1>1, <1>2, SumType
<1>7. SumFunctionOnSet(Z, DOMAIN s) = 0
  BY <1>1, <1>2, SumOfZeros
<1>8. SumFunctionOnSet(Z, DOMAIN s) <= SumFunctionOnSet(F, DOMAIN s)
  BY <1>1, <1>2, SumMonotone
<1>9. (\A i \in DOMAIN s : F[i] = 0) => SumFunctionOnSet(F, DOMAIN s) = 0
  BY <1>1, SumOfZeros
<1>10. QED
  BY <1>3, <1>5, <1>6, <1>7, <1>8, <1>9

LEMMA GivenBackType ==
  ASSUME EdgeTypeOK, NEW id
  PROVE  /\ GivenBack(id) \in Nat
         /\ (\A i \in DOMAIN grants : grants[i].TokenID /= id) =>
              GivenBack(id) = 0
BY GivenBackIsSum, ReturnedInType DEF EdgeTypeOK

LEMMA GivenBackTypes ==
  ASSUME EdgeTypeOK, EdgeTypeOK', NEW id
  PROVE  GivenBack(id) \in Nat /\ GivenBack(id)' \in Nat
BY GivenBackIsSum, ReturnedInType DEF EdgeTypeOK

(* Authorizations are added to the history, and none is ever taken out.    *)
GrantsGrow ==
  grants' = grants \/ \E g \in Grant : grants' = Append(grants, g)

LEMMA GivenBackGrows ==
  ASSUME EdgeTypeOK, GrantsGrow, NEW id
  PROVE  GivenBack(id) <= GivenBack(id)' /\ GivenBack(id)' \in Int
<1>1. /\ GivenBack(id) = ReturnedIn(grants, id)
      /\ GivenBack(id)' = ReturnedIn(grants', id)
      /\ GivenBack(id) \in Nat
  BY GivenBackIsSum, GivenBackType
<1>2. CASE grants' = grants
  BY <1>1, <1>2
<1>3. ASSUME NEW g \in Grant, grants' = Append(grants, g)
      PROVE  GivenBack(id) <= GivenBack(id)' /\ GivenBack(id)' \in Int
  <2>1. grants \in Seq(Grant)
    BY DEF EdgeTypeOK
  <2>2. ReturnedIn(Append(grants, g), id) =
          ReturnedIn(grants, id) + Returned(g, id)
    BY <2>1, ReturnedInAppend
  <2>3. Returned(g, id) \in Nat
    BY ReturnedType
  <2>4. QED
    BY <1>1, <1>3, <2>2, <2>3
<1>4. QED
  BY <1>2, <1>3 DEF GrantsGrow

-----------------------------------------------------------------------------
(* The sums, as sums over tables of integers.                              *)

LEMMA SubmittedTypes ==
  /\ IsFiniteSet(Submitted) /\ Submitted \subseteq QueuedTxIDs
  /\ \A tx \in Submitted : /\ tx \in TxIDs /\ Payment[tx].Amount \in Int
                             /\ Payable(tx) \in Nat
<1>1. PICK f : f = [r \in Requests |-> TxOf(r)]
  OBVIOUS
<1>2. f \in Surjection(Requests, Submitted)
  BY <1>1 DEF Submitted, Surjection
<1>3. IsFiniteSet(Submitted)
  BY <1>2, RequestsAssumption, FS_Surjection
<1>4. Submitted \subseteq QueuedTxIDs
  BY RequestTypes DEF Submitted
<1>5. QED
  BY <1>3, <1>4, PaymentTypes DEF Payable

(* The table f of S, before a step and after it, that a sum adds up.       *)
LEMMA ClaimTables ==
  ASSUME NEW a
  PROVE  \E F, G :
           /\ ClaimsOn(a) = SumFunctionOnSet(F, Submitted)
           /\ ClaimsOn(a)' = SumFunctionOnSet(G, Submitted)
           /\ \A x \in Submitted : /\ F[x] = ClaimOn(x, a) /\ F[x] \in Nat
                                   /\ G[x] = ClaimOn(x, a)' /\ G[x] \in Nat
<1>1. PICK F : F = [x \in Submitted |-> ClaimOn(x, a)]
  OBVIOUS
<1>2. PICK G : G = [x \in Submitted |-> ClaimOn(x, a)']
  OBVIOUS
<1>3. \A x \in Submitted : ClaimOn(x, a) \in Nat /\ ClaimOn(x, a)' \in Nat
  BY SubmittedTypes DEF ClaimOn, Payable
<1>4. ClaimsOn(a) = SumFunctionOnSet(F, Submitted)
  BY <1>1 DEF ClaimsOn, SumFunction
<1>5. ClaimsOn(a)' = SumFunctionOnSet(G, Submitted)
  BY <1>2 DEF ClaimsOn, SumFunction
<1>6. \A x \in Submitted : F[x] = ClaimOn(x, a) /\ F[x] \in Nat
  BY <1>1, <1>3
<1>7. \A x \in Submitted : G[x] = ClaimOn(x, a)' /\ G[x] \in Nat
  BY <1>2, <1>3
<1>8. QED
  BY <1>4, <1>5, <1>6, <1>7

LEMMA SettledTables ==
  ASSUME NEW a
  PROVE  \E F, G :
           /\ SettledOn(a) = SumFunctionOnSet(F, Submitted)
           /\ SettledOn(a)' = SumFunctionOnSet(G, Submitted)
           /\ \A x \in Submitted :
                /\ F[x] = SettledFrom(x, a) /\ F[x] \in Nat
                /\ G[x] = SettledFrom(x, a)' /\ G[x] \in Nat
<1>1. PICK F : F = [x \in Submitted |-> SettledFrom(x, a)]
  OBVIOUS
<1>2. PICK G : G = [x \in Submitted |-> SettledFrom(x, a)']
  OBVIOUS
<1>3. \A x \in Submitted :
        SettledFrom(x, a) \in Nat /\ SettledFrom(x, a)' \in Nat
  BY SubmittedTypes DEF SettledFrom, Payable
<1>4. SettledOn(a) = SumFunctionOnSet(F, Submitted)
  BY <1>1 DEF SettledOn, SumFunction
<1>5. SettledOn(a)' = SumFunctionOnSet(G, Submitted)
  BY <1>2 DEF SettledOn, SumFunction
<1>6. \A x \in Submitted : F[x] = SettledFrom(x, a) /\ F[x] \in Nat
  BY <1>1, <1>3
<1>7. \A x \in Submitted : G[x] = SettledFrom(x, a)' /\ G[x] \in Nat
  BY <1>2, <1>3
<1>8. QED
  BY <1>4, <1>5, <1>6, <1>7

LEMMA SpentTables ==
  ASSUME NEW a, EdgeTypeOK, EdgeTypeOK'
  PROVE  \E F, G :
           /\ SpentOn(a) = SumFunctionOnSet(F, TokenIDs)
           /\ SpentOn(a)' = SumFunctionOnSet(G, TokenIDs)
           /\ \A id \in TokenIDs :
                /\ F[id] = SpentUnder(id, a) /\ F[id] \in Int
                /\ G[id] = SpentUnder(id, a)' /\ G[id] \in Int
<1>1. PICK F : F = [id \in TokenIDs |-> SpentUnder(id, a)]
  OBVIOUS
<1>2. PICK G : G = [id \in TokenIDs |-> SpentUnder(id, a)']
  OBVIOUS
<1>3. \A id \in TokenIDs :
        SpentUnder(id, a) \in Int /\ SpentUnder(id, a)' \in Int
  <2>1. SUFFICES ASSUME NEW id \in TokenIDs
                 PROVE  /\ SpentUnder(id, a) \in Int
                        /\ SpentUnder(id, a)' \in Int
    OBVIOUS
  <2>2. GivenBack(id) \in Nat /\ GivenBack(id)' \in Nat
    BY GivenBackTypes
  <2>3. /\ spentByToken[Here][id] \in Int
        /\ spentByToken'[Here][id] \in Int
    BY HereAssumption DEF EdgeTypeOK
  <2>4. QED
    BY <2>2, <2>3 DEF SpentUnder
<1>4. SpentOn(a) = SumFunctionOnSet(F, TokenIDs)
  BY <1>1 DEF SpentOn, SumFunction
<1>5. SpentOn(a)' = SumFunctionOnSet(G, TokenIDs)
  BY <1>2 DEF SpentOn, SumFunction
<1>6. \A id \in TokenIDs : F[id] = SpentUnder(id, a) /\ F[id] \in Int
  BY <1>1, <1>3
<1>7. \A id \in TokenIDs : G[id] = SpentUnder(id, a)' /\ G[id] \in Int
  BY <1>2, <1>3
<1>8. QED
  BY <1>4, <1>5, <1>6, <1>7

LEMMA CeilingTables ==
  ASSUME NEW a, EdgeTypeOK, EdgeTypeOK'
  PROVE  \E F, G :
           /\ CeilingsOn(a) = SumFunctionOnSet(F, TokenIDs)
           /\ CeilingsOn(a)' = SumFunctionOnSet(G, TokenIDs)
           /\ \A id \in TokenIDs :
                /\ F[id] = CeilingOf(id, a) /\ F[id] \in Nat
                /\ G[id] = CeilingOf(id, a)' /\ G[id] \in Nat
<1>1. PICK F : F = [id \in TokenIDs |-> CeilingOf(id, a)]
  OBVIOUS
<1>2. PICK G : G = [id \in TokenIDs |-> CeilingOf(id, a)']
  OBVIOUS
<1>3. \A id \in TokenIDs :
        CeilingOf(id, a) \in Nat /\ CeilingOf(id, a)' \in Nat
  <2>1. SUFFICES ASSUME NEW id \in TokenIDs
                 PROVE  CeilingOf(id, a) \in Nat /\ CeilingOf(id, a)' \in Nat
    OBVIOUS
  <2>2. /\ id \in Issued => Ceiling(id) \in Nat
        /\ id \in Issued' => Ceiling(id)' \in Nat
    BY CeilingTypes
  <2>3. GivenBack(id) \in Nat /\ GivenBack(id)' \in Nat
    BY GivenBackTypes
  <2>4. QED
    BY <2>2, <2>3 DEF CeilingOf
<1>4. CeilingsOn(a) = SumFunctionOnSet(F, TokenIDs)
  BY <1>1 DEF CeilingsOn, SumFunction
<1>5. CeilingsOn(a)' = SumFunctionOnSet(G, TokenIDs)
  BY <1>2 DEF CeilingsOn, SumFunction
<1>6. \A id \in TokenIDs : F[id] = CeilingOf(id, a) /\ F[id] \in Nat
  BY <1>1, <1>3
<1>7. \A id \in TokenIDs : G[id] = CeilingOf(id, a)' /\ G[id] \in Nat
  BY <1>2, <1>3
<1>8. QED
  BY <1>4, <1>5, <1>6, <1>7

(* TokensCovered speaks of these ceilings.                                 *)
LEMMA CoveredMeans ==
  /\ TokensCovered <=> \A a \in Parties : CeilingsOn(a) <= Allowance
  /\ TokensCovered' <=> \A a \in Parties : CeilingsOn(a)' <= Allowance
BY DEF TokensCovered, CeilingsOn, CeilingOf

-----------------------------------------------------------------------------
(* If the hypothesis holds after a step it held before: a token that is    *)
(* issued only adds a ceiling, and what is given back only adds to it.     *)
LEMMA HypothesisHeldBefore ==
  ASSUME EdgeInv, EdgeInv', AllowanceHolds', GrantsGrow,
         \A id \in Issued : id \in Issued' /\ issued'[id] = issued[id]
  PROVE  AllowanceHolds
<1>1. EdgeTypeOK /\ EdgeTypeOK'
  BY DEF EdgeInv
<1>2. ASSUME NEW a \in Parties PROVE CeilingsOn(a) <= Allowance
  <2>1. PICK F, G :
          /\ CeilingsOn(a) = SumFunctionOnSet(F, TokenIDs)
          /\ CeilingsOn(a)' = SumFunctionOnSet(G, TokenIDs)
          /\ \A id \in TokenIDs :
               /\ F[id] = CeilingOf(id, a) /\ F[id] \in Nat
               /\ G[id] = CeilingOf(id, a)' /\ G[id] \in Nat
    BY <1>1, CeilingTables
  <2>2. \A id \in TokenIDs : F[id] <= G[id]
    <3>1. SUFFICES ASSUME NEW id \in TokenIDs PROVE F[id] <= G[id]
      OBVIOUS
    <3>2. CASE id \in Issued
      <4>1. /\ GivenBack(id) <= GivenBack(id)'
            /\ GivenBack(id) \in Nat /\ GivenBack(id)' \in Nat
        BY <1>1, GivenBackGrows, GivenBackTypes
      <4>2. id \in Issued' /\ issued'[id] = issued[id]
        BY <3>2
      <4>3. Ceiling(id) \in Nat /\ Ceiling(id)' = Ceiling(id)
        BY <1>1, <3>2, <4>2, CeilingTypes DEF Ceiling
      <4>4. CeilingOf(id, a) <= CeilingOf(id, a)'
        BY <3>2, <4>1, <4>2, <4>3 DEF CeilingOf
      <4>5. QED
        BY <2>1, <4>4
    <3>3. CASE id \notin Issued
      <4>1. F[id] = 0
        BY <2>1, <3>3 DEF CeilingOf
      <4>2. QED
        BY <2>1, <4>1
    <3>4. QED
      BY <3>2, <3>3
  <2>3. SumFunctionOnSet(F, TokenIDs) <= SumFunctionOnSet(G, TokenIDs)
    <3>1. \A id \in TokenIDs : /\ F[id] \in Int /\ G[id] \in Int
                               /\ F[id] <= G[id]
      BY <2>1, <2>2
    <3>2. QED
      BY <3>1, TokenIDsAssumption, SumMonotone
  <2>4. /\ SumFunctionOnSet(F, TokenIDs) \in Int
        /\ SumFunctionOnSet(G, TokenIDs) \in Int
    BY <2>1, TokenIDsAssumption, SumType
  <2>5. CeilingsOn(a)' <= Allowance
    BY CoveredMeans DEF AllowanceHolds
  <2>6. QED
    BY <2>1, <2>3, <2>4, <2>5, AllowanceAssumption
<1>3. TokensCovered
  BY <1>2, CoveredMeans
<1>4. PayersPresentOwnTokens
  BY DEF AllowanceHolds, PayersPresentOwnTokens, PaymentOf
<1>5. QED
  BY <1>3, <1>4 DEF AllowanceHolds

(* The allowance covers what is claimed of it and not yet settled.         *)
LEMMA AllowanceSuffices ==
  ASSUME GatewayInv, AroundAllowance, AllowanceHolds, AllowanceKnown,
         NEW tx \in Present, ~Replayed(tx)
  PROVE  LET a == Payment[tx].AccountID
         IN  /\ a \in Parties
             /\ balance[OfflineAllowance(a)] >= Payable(tx)
<1>1. PICK a, n : a = Payment[tx].AccountID /\ n = Payable(tx)
  OBVIOUS
<1>2. tx \in Submitted /\ Claims(tx)
  BY DEF AroundAllowance, Claims
<1>3. a \in Parties
  BY <1>1, <1>2 DEF AllowanceKnown, ClaimsCounted
<1>4. IsFiniteSet(Submitted) /\ n \in Nat /\ EdgeTypeOK
  BY <1>1, <1>2, SubmittedTypes DEF GatewayInv, EdgeInv
<1>5. PICK F : /\ SettledOn(a) = SumFunctionOnSet(F, Submitted)
               /\ \A x \in Submitted : /\ F[x] = SettledFrom(x, a)
                                       /\ F[x] \in Nat
  BY SettledTables
<1>6. PICK C : /\ ClaimsOn(a) = SumFunctionOnSet(C, Submitted)
               /\ \A x \in Submitted : C[x] = ClaimOn(x, a) /\ C[x] \in Nat
  BY ClaimTables
<1>7. PICK G : G = [x \in Submitted |-> F[x] + (IF x = tx THEN n ELSE 0)]
  OBVIOUS
<1>8. SumFunctionOnSet(G, Submitted) = SumFunctionOnSet(F, Submitted) + n
  <2>1. /\ IsFiniteSet(Submitted) /\ tx \in Submitted
        /\ \A x \in Submitted : F[x] \in Int /\ G[x] \in Int
    BY <1>2, <1>4, <1>5, <1>7
  <2>2. \A x \in Submitted \ {tx} : F[x] = G[x]
    BY <1>5, <1>7
  <2>3. SumFunctionOnSet(G, Submitted) =
          SumFunctionOnSet(F, Submitted) - F[tx] + G[tx]
    BY ONLY <2>1, <2>2, SumUpdate
  <2>4. G[tx] = F[tx] + n
    BY <1>2, <1>7
  <2>5. SumFunctionOnSet(F, Submitted) \in Int
    BY <2>1, SumType
  <2>6. QED
    BY <1>4, <2>1, <2>3, <2>4, <2>5
<1>9. SumFunctionOnSet(G, Submitted) <= SumFunctionOnSet(C, Submitted)
  <2>1. ASSUME NEW x \in Submitted
        PROVE  G[x] \in Int /\ C[x] \in Int /\ G[x] <= C[x]
    <3>1. G[x] = F[x] + (IF x = tx THEN n ELSE 0)
      BY <1>7
    <3>2. F[x] \in Nat /\ C[x] \in Nat /\ F[x] = SettledFrom(x, a)
          /\ C[x] = ClaimOn(x, a)
      BY <1>5, <1>6
    <3>3. CASE x = tx
      <4>1. F[x] = 0 /\ C[x] = n
        BY <1>1, <1>2, <3>2, <3>3 DEF SettledFrom, ClaimOn
      <4>2. QED
        BY <1>4, <3>1, <3>2, <4>1, <3>3
    <3>4. CASE x /= tx
      <4>1. Replayed(x) => Claims(x)
        BY DEF Replayed, Claims, GatewayInv, ReplayInv, ReplayWell
      <4>2. F[x] <= C[x]
        BY <3>2, <4>1, SubmittedTypes DEF SettledFrom, ClaimOn
      <4>3. QED
        BY <3>1, <3>2, <3>4, <4>2
    <3>5. QED
      BY <3>3, <3>4
  <2>2. QED
    BY <1>4, <2>1, SumMonotone
<1>10. SpentOn(a) <= CeilingsOn(a) /\ SpentOn(a) \in Int
       /\ CeilingsOn(a) \in Int
  <2>1. PICK S : S = [id \in TokenIDs |-> SpentUnder(id, a)]
    OBVIOUS
  <2>2. PICK L : L = [id \in TokenIDs |-> CeilingOf(id, a)]
    OBVIOUS
  <2>3. SpentOn(a) = SumFunctionOnSet(S, TokenIDs)
    BY <2>1 DEF SpentOn, SumFunction
  <2>4. CeilingsOn(a) = SumFunctionOnSet(L, TokenIDs)
    BY <2>2 DEF CeilingsOn, SumFunction
  <2>5. ASSUME NEW id \in TokenIDs
        PROVE  S[id] \in Int /\ L[id] \in Int /\ S[id] <= L[id]
    <3>1. id \in Issued => Ceiling(id) \in Nat
      BY <1>4, CeilingTypes
    <3>2. spentByToken[Here][id] \in Int
      BY <1>4, HereAssumption DEF EdgeTypeOK
    <3>3. id \in Issued => spentByToken[Here][id] <= Ceiling(id)
      BY HereAssumption DEF GatewayInv, EdgeInv, CountersCapped
    <3>4. S[id] = SpentUnder(id, a) /\ L[id] = CeilingOf(id, a)
      BY <2>1, <2>2
    <3>5. GivenBack(id) \in Nat
      BY <1>4, GivenBackType
    <3>6. QED
      BY <3>1, <3>2, <3>3, <3>4, <3>5 DEF SpentUnder, CeilingOf
  <2>6. SumFunctionOnSet(S, TokenIDs) <= SumFunctionOnSet(L, TokenIDs)
    BY <2>5, TokenIDsAssumption, SumMonotone
  <2>7. /\ SumFunctionOnSet(S, TokenIDs) \in Int
        /\ SumFunctionOnSet(L, TokenIDs) \in Int
    BY <2>5, TokenIDsAssumption, SumType
  <2>8. QED
    BY <2>3, <2>4, <2>6, <2>7
<1>11. CeilingsOn(a) <= Allowance /\ ClaimsOn(a) <= SpentOn(a)
       /\ balance[OfflineAllowance(a)] = Allowance - SettledOn(a)
  BY <1>3, CoveredMeans
     DEF AllowanceHolds, AllowanceKnown, ClaimsCounted, AllowanceLeft
<1>12. SettledOn(a) \in Int /\ ClaimsOn(a) \in Int
  BY <1>4, <1>5, <1>6, SumType
<1>13. SettledOn(a) + n <= ClaimsOn(a)
  BY <1>5, <1>6, <1>8, <1>9
<1>14. balance[OfflineAllowance(a)] >= n
  BY <1>4, <1>10, <1>11, <1>12, <1>13, AllowanceAssumption
<1>15. QED
  BY <1>1, <1>3, <1>14

-----------------------------------------------------------------------------
(* What the steps do to the three parts.                                   *)

(* No claim is added, and the counters stay.                               *)
LEMMA ClaimsKept ==
  ASSUME GatewayInv, GatewayInv', ClaimsCounted,
         \A x \in Submitted : Claims(x)' => Claims(x),
         \A id \in TokenIDs, a \in Parties :
           SpentUnder(id, a)' = SpentUnder(id, a)
  PROVE  ClaimsCounted'
<1>1. EdgeTypeOK /\ EdgeTypeOK' /\ IsFiniteSet(Submitted)
  BY SubmittedTypes DEF GatewayInv, EdgeInv
<1>2. ASSUME NEW a \in Parties PROVE ClaimsOn(a)' <= SpentOn(a)'
  <2>1. PICK F, G :
          /\ ClaimsOn(a) = SumFunctionOnSet(F, Submitted)
          /\ ClaimsOn(a)' = SumFunctionOnSet(G, Submitted)
          /\ \A x \in Submitted : /\ F[x] = ClaimOn(x, a) /\ F[x] \in Nat
                                  /\ G[x] = ClaimOn(x, a)' /\ G[x] \in Nat
    BY ClaimTables
  <2>2. PICK S, R :
          /\ SpentOn(a) = SumFunctionOnSet(S, TokenIDs)
          /\ SpentOn(a)' = SumFunctionOnSet(R, TokenIDs)
          /\ \A id \in TokenIDs :
               /\ S[id] = SpentUnder(id, a) /\ S[id] \in Int
               /\ R[id] = SpentUnder(id, a)' /\ R[id] \in Int
    BY <1>1, SpentTables
  <2>3. \A x \in Submitted : G[x] \in Int /\ F[x] \in Int /\ G[x] <= F[x]
    <3>1. SUFFICES ASSUME NEW x \in Submitted PROVE G[x] <= F[x]
      BY <2>1
    <3>2. CASE Claims(x)'
      <4>1. ClaimOn(x, a)' = ClaimOn(x, a)
        BY <3>2 DEF ClaimOn
      <4>2. QED
        BY <2>1, <4>1
    <3>3. CASE ~Claims(x)'
      <4>1. G[x] = 0
        BY <2>1, <3>3 DEF ClaimOn
      <4>2. QED
        BY <2>1, <4>1
    <3>4. QED
      BY <3>2, <3>3
  <2>4. SumFunctionOnSet(G, Submitted) <= SumFunctionOnSet(F, Submitted)
    BY <1>1, <2>3, SumMonotone
  <2>5. \A id \in TokenIDs : S[id] \in Int /\ S[id] = R[id]
    BY <2>2
  <2>6. SumFunctionOnSet(S, TokenIDs) = SumFunctionOnSet(R, TokenIDs)
    BY <2>5, TokenIDsAssumption, SumSame
  <2>7. /\ SumFunctionOnSet(G, Submitted) \in Int
        /\ SumFunctionOnSet(F, Submitted) \in Int
        /\ SumFunctionOnSet(S, TokenIDs) \in Int
    BY <1>1, <2>3, <2>5, TokenIDsAssumption, SumType
  <2>8. ClaimsOn(a) <= SpentOn(a)
    BY DEF ClaimsCounted
  <2>9. QED
    BY <2>1, <2>2, <2>4, <2>6, <2>7, <2>8
<1>3. \A x \in Submitted : Claims(x)' => Payment[x].AccountID \in Parties
  BY DEF ClaimsCounted
<1>4. QED
  BY <1>2, <1>3 DEF ClaimsCounted

(* An authorization adds what is payable to what is spent under a token of *)
(* the payer's, and at most that to what is claimed of the payer.          *)
LEMMA ClaimAdded ==
  ASSUME GatewayInv, GatewayInv', ClaimsCounted,
         NEW tx \in Submitted, NEW id \in TokenIDs, NEW p, NEW n,
         p = Payment[tx].AccountID, n = Payable(tx), p \in Parties,
         \A x \in Submitted \ {tx} : Claims(x)' => Claims(x),
         \A a \in Parties, k \in TokenIDs :
           SpentUnder(k, a)' =
             SpentUnder(k, a) + (IF k = id /\ a = p THEN n ELSE 0)
  PROVE  ClaimsCounted'
<1>1. EdgeTypeOK /\ EdgeTypeOK' /\ IsFiniteSet(Submitted) /\ n \in Nat
  BY SubmittedTypes DEF GatewayInv, EdgeInv
<1>2. ASSUME NEW a \in Parties PROVE ClaimsOn(a)' <= SpentOn(a)'
  <2>1. PICK F, G :
          /\ ClaimsOn(a) = SumFunctionOnSet(F, Submitted)
          /\ ClaimsOn(a)' = SumFunctionOnSet(G, Submitted)
          /\ \A x \in Submitted : /\ F[x] = ClaimOn(x, a) /\ F[x] \in Nat
                                  /\ G[x] = ClaimOn(x, a)' /\ G[x] \in Nat
    BY ClaimTables
  <2>2. PICK S, R :
          /\ SpentOn(a) = SumFunctionOnSet(S, TokenIDs)
          /\ SpentOn(a)' = SumFunctionOnSet(R, TokenIDs)
          /\ \A k \in TokenIDs :
               /\ S[k] = SpentUnder(k, a) /\ S[k] \in Int
               /\ R[k] = SpentUnder(k, a)' /\ R[k] \in Int
    BY <1>1, SpentTables
  <2>3. PICK m : m = IF a = p THEN n ELSE 0
    OBVIOUS
  <2>4. PICK H : H = [x \in Submitted |-> F[x] + (IF x = tx THEN m ELSE 0)]
    OBVIOUS
  <2>5. m \in Nat
    BY <1>1, <2>3
  <2>6. SumFunctionOnSet(H, Submitted) = SumFunctionOnSet(F, Submitted) + m
    <3>1. /\ IsFiniteSet(Submitted) /\ tx \in Submitted
          /\ \A x \in Submitted : F[x] \in Int /\ H[x] \in Int
      BY <1>1, <2>1, <2>4, <2>5
    <3>2. \A x \in Submitted \ {tx} : F[x] = H[x]
      BY <2>1, <2>4
    <3>3. SumFunctionOnSet(H, Submitted) =
            SumFunctionOnSet(F, Submitted) - F[tx] + H[tx]
      BY ONLY <3>1, <3>2, SumUpdate
    <3>4. H[tx] = F[tx] + m /\ SumFunctionOnSet(F, Submitted) \in Int
      BY <2>4, <3>1, SumType
    <3>5. QED
      BY <2>5, <3>1, <3>3, <3>4
  <2>7. \A x \in Submitted : G[x] \in Int /\ H[x] \in Int /\ G[x] <= H[x]
    <3>1. SUFFICES ASSUME NEW x \in Submitted
                   PROVE  H[x] \in Int /\ G[x] <= H[x]
      BY <2>1
    <3>2. /\ H[x] = F[x] + (IF x = tx THEN m ELSE 0)
          /\ F[x] \in Nat /\ G[x] \in Nat
      BY <2>1, <2>4
    <3>3. CASE x = tx
      <4>1. G[x] <= m
        BY <1>1, <2>1, <2>3, <3>3 DEF ClaimOn, Payable
      <4>2. QED
        BY <2>5, <3>2, <3>3, <4>1
    <3>4. CASE x /= tx
      <4>1. Claims(x)' => G[x] = F[x]
        BY <2>1, <3>4 DEF ClaimOn
      <4>2. ~Claims(x)' => G[x] = 0
        BY <2>1 DEF ClaimOn
      <4>3. QED
        BY <3>2, <3>4, <4>1, <4>2
    <3>5. QED
      BY <3>3, <3>4
  <2>8. SumFunctionOnSet(G, Submitted) <= SumFunctionOnSet(H, Submitted)
    BY <1>1, <2>7, SumMonotone
  <2>9. SumFunctionOnSet(R, TokenIDs) = SumFunctionOnSet(S, TokenIDs) + m
    <3>1. \A k \in TokenIDs : S[k] \in Int /\ R[k] \in Int
      BY <2>2
    <3>2. \A k \in TokenIDs : R[k] = S[k] + (IF k = id THEN m ELSE 0)
      BY <2>2, <2>3
    <3>3. \A k \in TokenIDs \ {id} : S[k] = R[k]
      BY <3>1, <3>2
    <3>4. SumFunctionOnSet(R, TokenIDs) =
            SumFunctionOnSet(S, TokenIDs) - S[id] + R[id]
      BY ONLY <3>1, <3>3, id \in TokenIDs, TokenIDsAssumption, SumUpdate
    <3>5. R[id] = S[id] + m /\ SumFunctionOnSet(S, TokenIDs) \in Int
      BY <3>1, <3>2, TokenIDsAssumption, SumType
    <3>6. QED
      BY <2>5, <3>1, <3>4, <3>5
  <2>10. /\ SumFunctionOnSet(G, Submitted) \in Int
         /\ SumFunctionOnSet(F, Submitted) \in Int
         /\ SumFunctionOnSet(S, TokenIDs) \in Int
    BY <1>1, <2>1, <2>2, TokenIDsAssumption, SumType
  <2>11. ClaimsOn(a) <= SpentOn(a)
    BY DEF ClaimsCounted
  <2>12. QED
    BY <2>1, <2>2, <2>5, <2>6, <2>8, <2>9, <2>10, <2>11
<1>3. \A x \in Submitted : Claims(x)' => Payment[x].AccountID \in Parties
  BY DEF ClaimsCounted
<1>4. QED
  BY <1>2, <1>3 DEF ClaimsCounted

(* The allowances, and what is paid from them, left alone.                 *)
AllowanceLeftAlone ==
  /\ \A a \in Accounts :
       balance'[OfflineAllowance(a)] = balance[OfflineAllowance(a)]
  /\ \A tx \in QueuedTxIDs : OfflineCredit(tx)' = OfflineCredit(tx)

(* Nothing is settled, but perhaps a payment of nothing or less.           *)
LEMMA SettlementsKept ==
  ASSUME AllowanceLeft, AllowanceLeftAlone,
         \A x \in QueuedTxIDs :
           (Replayed(x)' <=> Replayed(x)) \/ Payable(x) = 0
  PROVE  AllowanceLeft'
<1>1. IsFiniteSet(Submitted) /\ Submitted \subseteq QueuedTxIDs
  BY SubmittedTypes
<1>2. ASSUME NEW a \in Parties
      PROVE  balance'[OfflineAllowance(a)] = Allowance - SettledOn(a)'
  <2>1. PICK F, G :
          /\ SettledOn(a) = SumFunctionOnSet(F, Submitted)
          /\ SettledOn(a)' = SumFunctionOnSet(G, Submitted)
          /\ \A x \in Submitted :
               /\ F[x] = SettledFrom(x, a) /\ F[x] \in Nat
               /\ G[x] = SettledFrom(x, a)' /\ G[x] \in Nat
    BY SettledTables
  <2>2. \A x \in Submitted : F[x] \in Int /\ F[x] = G[x]
    <3>1. SUFFICES ASSUME NEW x \in Submitted
                   PROVE  SettledFrom(x, a)' = SettledFrom(x, a)
      BY <2>1
    <3>2. QED
      BY <1>1 DEF SettledFrom, Payable
  <2>3. SumFunctionOnSet(F, Submitted) = SumFunctionOnSet(G, Submitted)
    BY <1>1, <2>2, SumSame
  <2>4. balance'[OfflineAllowance(a)] = balance[OfflineAllowance(a)]
    BY PartiesAssumption DEF AllowanceLeftAlone
  <2>5. QED
    BY <2>1, <2>3, <2>4 DEF AllowanceLeft
<1>3. ASSUME NEW x \in QueuedTxIDs
      PROVE  OfflineCredit(x)' =
               IF Replayed(x)' THEN Payable(x) ELSE 0
  BY DEF AllowanceLeft, AllowanceLeftAlone
<1>4. QED
  BY <1>2, <1>3 DEF AllowanceLeft

(* The replay settles c from the payer's allowance.                        *)
LEMMA SettlementAdded ==
  ASSUME AllowanceLeft, NEW c \in Submitted, NEW p, NEW n,
         p = Payment[c].AccountID, n = Payable(c),
         ~Replayed(c), Replayed(c)',
         \A x \in QueuedTxIDs \ {c} :
           /\ Replayed(x)' <=> Replayed(x)
           /\ OfflineCredit(x)' = OfflineCredit(x),
         OfflineCredit(c)' = OfflineCredit(c) + n,
         balance \in [Buckets -> Int],
         \A a \in Accounts :
           balance'[OfflineAllowance(a)] =
             balance[OfflineAllowance(a)] - (IF a = p THEN n ELSE 0)
  PROVE  AllowanceLeft'
<1>1. /\ IsFiniteSet(Submitted) /\ Submitted \subseteq QueuedTxIDs
      /\ n \in Nat
  BY SubmittedTypes
<1>2. ASSUME NEW a \in Parties
      PROVE  balance'[OfflineAllowance(a)] = Allowance - SettledOn(a)'
  <2>1. PICK F, G :
          /\ SettledOn(a) = SumFunctionOnSet(F, Submitted)
          /\ SettledOn(a)' = SumFunctionOnSet(G, Submitted)
          /\ \A x \in Submitted :
               /\ F[x] = SettledFrom(x, a) /\ F[x] \in Nat
               /\ G[x] = SettledFrom(x, a)' /\ G[x] \in Nat
    BY SettledTables
  <2>2. \A x \in Submitted : F[x] \in Int /\ G[x] \in Int
    BY <2>1
  <2>3. \A x \in Submitted \ {c} : F[x] = G[x]
    <3>1. SUFFICES ASSUME NEW x \in Submitted \ {c}
                   PROVE  SettledFrom(x, a)' = SettledFrom(x, a)
      BY <2>1
    <3>2. QED
      BY <1>1 DEF SettledFrom, Payable
  <2>4. SumFunctionOnSet(G, Submitted) =
          SumFunctionOnSet(F, Submitted) - F[c] + G[c]
    <3>1. IsFiniteSet(Submitted) /\ c \in Submitted
      BY <1>1
    <3>2. QED
      BY ONLY <2>2, <2>3, <3>1, SumUpdate
  <2>5. F[c] = 0 /\ G[c] = IF a = p THEN n ELSE 0
    BY <2>1 DEF SettledFrom, Payable
  <2>6. SumFunctionOnSet(F, Submitted) \in Int
    BY <1>1, <2>2, SumType
  <2>7. /\ balance'[OfflineAllowance(a)] =
             balance[OfflineAllowance(a)] - (IF a = p THEN n ELSE 0)
        /\ balance[OfflineAllowance(a)] = Allowance - SettledOn(a)
    BY PartiesAssumption DEF AllowanceLeft
  <2>8. QED
    BY <1>1, <2>1, <2>4, <2>5, <2>6, <2>7, AllowanceAssumption
<1>3. ASSUME NEW x \in QueuedTxIDs
      PROVE  OfflineCredit(x)' =
               IF Replayed(x)' THEN Payable(x) ELSE 0
  <2>1. OfflineCredit(x) = IF Replayed(x) THEN Payable(x) ELSE 0
    BY DEF AllowanceLeft
  <2>2. QED
    BY <1>1, <2>1
<1>4. QED
  BY <1>2, <1>3 DEF AllowanceLeft

-----------------------------------------------------------------------------
(* The steps of the ledger that leave the allowances alone.                *)

LEMMA OtherBuckets ==
  ASSUME balance \in [Buckets -> Int], NEW from \in Buckets,
         NEW to \in Buckets, NEW n \in Int, Move(from, to, n),
         NEW a \in Accounts,
         from /= OfflineAllowance(a), to /= OfflineAllowance(a)
  PROVE  balance'[OfflineAllowance(a)] = balance[OfflineAllowance(a)]
<1>1. OfflineAllowance(a) \in Buckets
  BY BucketsOfAccount
<1>2. balance[OfflineAllowance(a)] \in Int
  BY <1>1
<1>3. QED
  BY <1>1, <1>2, MoveEffect

(* A credit that another label than an allowance pays for.                 *)
LEMMA OtherCredits ==
  ASSUME entries \in Seq(LedgerEntry), NEW c \in QueuedTxIDs,
         NEW type \in {"COMMIT", "DEFICIT"}, NEW b \in Accounts,
         NEW n \in Int,
         Journals(NewEntry(type, c, Label(b), Label(Payment[c].MerchantID),
                           n))
  PROVE  \A tx \in QueuedTxIDs : OfflineCredit(tx)' = OfflineCredit(tx)
<1>1. SUFFICES ASSUME NEW tx \in QueuedTxIDs
               PROVE  OfflineCredit(tx)' = OfflineCredit(tx)
  OBVIOUS
<1>2. PICK D : D = {OfflineLabel(Payment[tx].AccountID)}
  OBVIOUS
<1>3. D \in SUBSET Labels /\ Label(b) \notin D /\ Label(b) \in Labels
  BY <1>2, PaymentTypes, LabelsOfAccount
<1>4. CreditedIn(entries', tx, D) = Credited(tx, D)
  <2>1. CASE tx = c
    <3>1. /\ CreditedIn(entries, c, D) \in Int
          /\ CreditedIn(entries', c, D) =
               Credited(c, D) + (IF Label(b) \in D THEN n ELSE 0)
      BY <1>3, PostedCredit
    <3>2. QED
      BY <1>3, <2>1, <3>1 DEF Credited
  <2>2. CASE tx /= c
    <3>1. SameCredit(tx)
      BY <1>3, <2>2, PostedCredit
    <3>2. QED
      BY <1>3, <3>1 DEF SameCredit
  <2>3. QED
    BY <2>1, <2>2
<1>5. QED
  BY <1>2, <1>4 DEF OfflineCredit, Credited

LEMMA SameOfflineCredit ==
  ASSUME \A tx \in QueuedTxIDs : SameCredit(tx)
  PROVE  \A tx \in QueuedTxIDs : OfflineCredit(tx)' = OfflineCredit(tx)
BY PaymentTypes DEF SameCredit, OfflineCredit, Credited

(* The ledger, left alone.                                                 *)
LEMMA LedgerAllowance ==
  ASSUME UNCHANGED <<balance, entries>>
  PROVE  AllowanceLeftAlone
BY DEF AllowanceLeftAlone, OfflineCredit, Credited

(* An online payment's hold, and its settlement.                           *)
LEMMA OnlineAllowance ==
  ASSUME GatewayInv, NEW r \in Requests,
         Commit(r) \/ \E err \in LedgerErrors : Reserve(r, err)
  PROVE  AllowanceLeftAlone
<1>1. PICK p, tx : p = PaymentOf(r) /\ tx = TxOf(r)
  OBVIOUS
<1>2. /\ tx \in QueuedTxIDs /\ tx \in TxIDs /\ p = Payment[tx]
      /\ p.AccountID \in Accounts /\ p.MerchantID \in Accounts
      /\ p.Amount \in Int /\ SystemEscrow \in Accounts
  BY <1>1, RequestTypes, SystemAccountsAssumption DEF SystemAccounts
<1>3. /\ LedgerTypeOK /\ balance \in [Buckets -> Int]
      /\ entries \in Seq(LedgerEntry)
  BY DEF GatewayInv, ReplayInv, ReplayWell, ReconTypeOK, LedgerTypeOK
<1>4. /\ OnlineAvailable(p.AccountID) \in Buckets
      /\ ReservedBalance(p.AccountID) \in Buckets
      /\ OnlineAvailable(p.MerchantID) \in Buckets
      /\ Label(SystemEscrow) \in Labels
  BY <1>2, BucketsOfAccount, LabelsOfAccount
<1>5. ASSUME NEW a \in Accounts
      PROVE  /\ OnlineAvailable(p.AccountID) /= OfflineAllowance(a)
             /\ ReservedBalance(p.AccountID) /= OfflineAllowance(a)
             /\ OnlineAvailable(p.MerchantID) /= OfflineAllowance(a)
  BY <1>2, BucketsOfAccount
<1>6. CASE Commit(r)
  <2>1. CommitHold(p.AccountID, p.MerchantID, p.Amount, tx, "nil")
    BY <1>1, <1>6, CommitHoldHappens DEF Commit, TxOf
  <2>2. Settle(p.AccountID, ReservedBalance(p.AccountID),
               Label(SystemEscrow), "ErrHoldMismatch", p.MerchantID,
               p.Amount, tx, "nil")
    BY <2>1 DEF CommitHold
  <2>3. Journals(NewEntry("COMMIT", tx, Label(SystemEscrow),
                          Label(p.MerchantID), p.Amount))
    BY <1>2, <1>3, <1>4, <2>2, SettleEffect
  <2>4. \A x \in QueuedTxIDs : OfflineCredit(x)' = OfflineCredit(x)
    BY <1>2, <1>3, <2>3, OtherCredits
  <2>5. Move(ReservedBalance(p.AccountID), OnlineAvailable(p.MerchantID),
             p.Amount) /\ p.Amount \in Int
    BY <1>2, <2>2 DEF Settle
  <2>6. QED
    BY <1>3, <1>4, <1>5, <2>4, <2>5, OtherBuckets DEF AllowanceLeftAlone
<1>7. ASSUME NEW err \in LedgerErrors, Reserve(r, err)
      PROVE  AllowanceLeftAlone
  <2>1. ReserveFunds(p.AccountID, p.Amount, tx, err)
    BY <1>1, <1>7 DEF Reserve, TxOf
  <2>2. \/ UNCHANGED entries
        \/ \E e \in LedgerEntry : Journals(e) /\ e.Type = "RESERVE"
    BY <1>2, <1>3, <2>1, SetAsideEffect
  <2>3. \A x \in QueuedTxIDs : OfflineCredit(x)' = OfflineCredit(x)
    BY <1>3, <2>2, OtherEntry, SameOfflineCredit
  <2>4. CASE err /= "nil"
    BY <2>1, <2>3, <2>4 DEF ReserveFunds, AllowanceLeftAlone
  <2>5. CASE err = "nil"
    <3>1. Move(OnlineAvailable(p.AccountID), ReservedBalance(p.AccountID),
               p.Amount) /\ p.Amount \in Int
      BY <1>2, <2>1, <2>5 DEF ReserveFunds
    <3>2. QED
      BY <1>3, <1>4, <1>5, <2>3, <3>1, OtherBuckets DEF AllowanceLeftAlone
  <2>6. QED
    BY <2>4, <2>5
<1>8. QED
  BY <1>6, <1>7

-----------------------------------------------------------------------------
(* The steps of the gateway.                                               *)

(* The counters of the tokens are the authorizer's.                        *)
LEMMA SpentLeftAlone ==
  ASSUME UNCHANGED edgeVars, NEW id, NEW a
  PROVE  SpentUnder(id, a)' = SpentUnder(id, a)
BY DEF edgeVars, SpentUnder, Issued, GivenBack

LEMMA QuietForAllowance ==
  ASSUME GatewayInv, GatewayInv', AllowanceKnown, AllowanceLeftAlone,
         UNCHANGED replayVars,
         \A x \in Submitted : Claims(x)' => Claims(x),
         \A id \in TokenIDs, a \in Parties :
           SpentUnder(id, a)' = SpentUnder(id, a)
  PROVE  AllowanceKnown'
<1>1. ClaimsCounted /\ AllowanceLeft /\ NothingElseNeeded
  BY DEF AllowanceKnown
<1>2. ClaimsCounted'
  BY <1>1, ClaimsKept
<1>3. UNCHANGED <<seenHashes, current, replayPc>>
  BY DEF replayVars
<1>4. \A x : Replayed(x)' <=> Replayed(x)
  BY <1>3 DEF Replayed
<1>5. AllowanceLeft'
  BY <1>1, <1>4, SettlementsKept
<1>6. NothingElseNeeded'
  BY <1>1, <1>3 DEF NothingElseNeeded
<1>7. QED
  BY <1>2, <1>5, <1>6 DEF AllowanceKnown

(* A request goes on, but not to the log.                                  *)
LEMMA ClaimsFromBefore ==
  ASSUME GatewayInv, NEW r \in Requests, NEW s, s /= "append",
         pc' = [pc EXCEPT ![r] = s], UNCHANGED walVars
  PROVE  \A x \in Submitted : Claims(x)' => Claims(x)
<1>1. pc \in [Requests -> Steps]
  BY DEF GatewayInv, GatewayTypes
<1>2. \A q \in Requests : pc'[q] = "append" => pc[q] = "append"
  BY <1>1
<1>3. Present' = Present
  BY DEF walVars, Present
<1>4. \A x : \A q \in Requests : TxOf(q)' = TxOf(q)
  BY DEF TxOf
<1>5. QED
  BY <1>2, <1>3, <1>4 DEF Claims

(* Every step of a request but AuthorizeOffline's approval and the append. *)
LEMMA RequestKeepsAllowance ==
  ASSUME GatewayInv, GatewayInv', AllowanceKnown, NEW r \in Requests,
         \/ Submit(r)
         \/ \E valid \in BOOLEAN : CheckQR(r, valid)
         \/ Route(r)
         \/ \E reason \in ReasonCodes \ {"APPROVED"} : Authorize(r, reason)
         \/ \E approved \in BOOLEAN : ScreenTransaction(r, approved)
         \/ \E err \in LedgerErrors : Reserve(r, err)
         \/ Commit(r)
         \/ CacheResponse(r)
  PROVE  AllowanceKnown'
<1>1. \E s : s /= "append" /\ pc' = [pc EXCEPT ![r] = s]
  BY DEF Submit, CheckQR, Route, Authorize, ScreenTransaction, Reserve,
         Commit, CacheResponse, GoTo, Respond
<1>2. UNCHANGED <<walVars, replayVars, edgeVars>>
  <2>1. ASSUME NEW reason \in ReasonCodes \ {"APPROVED"},
               Authorize(r, reason)
        PROVE  UNCHANGED edgeVars
    BY <2>1 DEF Authorize, AuthorizeOffline, edgeVars
  <2>2. ASSUME NEW reason \in ReasonCodes \ {"APPROVED"},
               Authorize(r, reason)
        PROVE  UNCHANGED <<walVars, replayVars>>
    BY <2>2 DEF Authorize, reconVars
  <2>3. QED
    BY <2>1, <2>2 DEF Submit, CheckQR, Route, ScreenTransaction, Reserve,
                      Commit, CacheResponse, reconVars
<1>3. AllowanceLeftAlone
  <2>1. CASE Commit(r) \/ \E err \in LedgerErrors : Reserve(r, err)
    BY <2>1, OnlineAllowance
  <2>2. CASE UNCHANGED reconVars
    BY <2>2, LedgerAllowance DEF reconVars, ledgerVars
  <2>3. QED
    BY <2>1, <2>2 DEF Submit, CheckQR, Route, Authorize, ScreenTransaction,
                      CacheResponse
<1>4. \A x \in Submitted : Claims(x)' => Claims(x)
  BY <1>1, <1>2, ClaimsFromBefore
<1>5. QED
  BY <1>2, <1>3, <1>4, SpentLeftAlone, QuietForAllowance

(* What an approval of n gives back.                                       *)
LEMMA ApprovalGivesBack ==
  ASSUME GatewayInv, NEW tok, NEW n \in Int, NEW id \in TokenIDs,
         AuthorizeOffline(Here, tok, n, "APPROVED")
  PROVE  GivenBack(id)' =
           GivenBack(id)
             + (IF id = tok.TokenID /\ n < 0 THEN -n ELSE 0)
<1>1. PICK g : g = [terminal |-> Here, TokenID |-> tok.TokenID,
                    Amount |-> n, at |-> now]
  OBVIOUS
<1>2. grants' = Append(grants, g) /\ tok.TokenID \in Issued
  BY <1>1, ApprovalMeans DEF AuthorizeOffline
<1>3. grants \in Seq(Grant) /\ now \in Nat
  BY DEF GatewayInv, EdgeInv, EdgeTypeOK
<1>4. g \in Grant
  BY <1>1, <1>2, <1>3, HereAssumption DEF Grant, Issued
<1>5. ReturnedIn(Append(grants, g), id) =
        ReturnedIn(grants, id) + Returned(g, id)
  BY <1>3, <1>4, ReturnedInAppend
<1>6. Returned(g, id) = IF id = tok.TokenID /\ n < 0 THEN -n ELSE 0
  BY <1>1 DEF Returned
<1>7. QED
  BY <1>2, <1>5, <1>6, GivenBackIsSum

(* An authorization is counted under a token of the payer's before it is   *)
(* a claim on the allowance.                                               *)
LEMMA ApprovalKeepsAllowance ==
  ASSUME GatewayInv, GatewayInv', AroundAllowance, AllowanceHolds,
         AllowanceKnown, NEW r \in Requests, Authorize(r, "APPROVED")
  PROVE  AllowanceKnown'
<1>1. PICK tx, n, id, p : /\ tx = TxOf(r) /\ n = Payment[tx].Amount
                          /\ id = Request[r].OfflineToken
                          /\ p = Payment[tx].AccountID
  OBVIOUS
<1>2. tx \in Submitted /\ tx \in TxIDs /\ n \in Int /\ PaymentOf(r).Amount = n
  BY <1>1, RequestTypes DEF Submitted
<1>3. /\ id /= NoToken /\ AuthorizeOffline(Here, issued[id], n, "APPROVED")
      /\ pc' = [pc EXCEPT ![r] = "append"] /\ UNCHANGED reconVars
  BY <1>1, <1>2 DEF Authorize, GoTo
<1>4. id \in TokenIDs
  BY <1>1, <1>3, RequestAssumption
<1>5. PICK k : k = issued[id].TokenID
  OBVIOUS
<1>6. k \in Issued /\ issued[id] = issued[k]
  BY <1>3, <1>5, ApprovalMeans DEF AuthorizeOffline
<1>7. id \in Issued /\ k \in TokenIDs
  BY <1>4, <1>6 DEF Issued
<1>8. issued[k].AccountID = p /\ p \in Parties
  BY <1>1, <1>6, <1>7 DEF AllowanceHolds, PayersPresentOwnTokens, PaymentOf,
                          TxOf, AroundAllowance
<1>9. /\ spentByToken' = [spentByToken EXCEPT ![Here][k] = @ + n]
      /\ UNCHANGED issued
  BY <1>3, <1>5 DEF AuthorizeOffline
<1>10. spentByToken \in [Terminals -> [TokenIDs -> Int]]
  BY DEF GatewayInv, EdgeInv, EdgeTypeOK
<1>11. \A j \in TokenIDs :
         spentByToken'[Here][j] =
           spentByToken[Here][j] + (IF j = k THEN n ELSE 0)
  BY <1>2, <1>7, <1>9, <1>10, HereAssumption
<1>12. Issued' = Issued
  BY <1>9 DEF Issued
<1>13. ASSUME NEW a \in Parties, NEW j \in TokenIDs
       PROVE  SpentUnder(j, a)' =
                SpentUnder(j, a) + (IF j = k /\ a = p THEN Payable(tx) ELSE 0)
  <2>1. GivenBack(j)' = GivenBack(j) + (IF j = k /\ n < 0 THEN -n ELSE 0)
    BY <1>2, <1>3, <1>5, ApprovalGivesBack
  <2>2. GivenBack(j) \in Nat
    BY GivenBackType DEF GatewayInv, EdgeInv
  <2>3. Payable(tx) = n + (IF n < 0 THEN -n ELSE 0)
    BY <1>1, <1>2 DEF Payable
  <2>4. spentByToken[Here][j] \in Int
    BY <1>10, HereAssumption
  <2>5. j \in Issued' <=> j \in Issued
    BY <1>12
  <2>6. CASE j = k /\ a = p
    <3>1. j \in Issued /\ issued[j].AccountID = a /\ issued' = issued
      BY <1>6, <1>8, <1>9, <2>6
    <3>2. SpentUnder(j, a) = spentByToken[Here][j] + GivenBack(j)
      BY <3>1 DEF SpentUnder
    <3>3. SpentUnder(j, a)' = spentByToken'[Here][j] + GivenBack(j)'
      BY <2>5, <3>1 DEF SpentUnder
    <3>4. QED
      BY <1>2, <1>11, <2>1, <2>2, <2>3, <2>4, <2>6, <3>2, <3>3
  <2>7. CASE j = k /\ a /= p
    BY <1>8, <1>9, <2>5, <2>7 DEF SpentUnder
  <2>8. CASE j /= k
    <3>1. GivenBack(j)' = GivenBack(j)
      BY <2>1, <2>2, <2>8
    <3>2. spentByToken'[Here][j] = spentByToken[Here][j]
      BY <1>11, <2>4, <2>8
    <3>3. SpentUnder(j, a)' = SpentUnder(j, a)
      BY <1>9, <2>5, <3>1, <3>2 DEF SpentUnder
    <3>4. SpentUnder(j, a) \in Int
      BY <2>2, <2>4 DEF SpentUnder
    <3>5. QED
      BY <2>8, <3>3, <3>4
  <2>9. QED
    BY <2>6, <2>7, <2>8
<1>14. pc \in [Requests -> Steps] /\ Present' = Present
  BY <1>3, ReconLeftAlone DEF GatewayInv, GatewayTypes
<1>15. ASSUME NEW x \in Submitted \ {tx}, Claims(x)' PROVE Claims(x)
  <2>1. \A q \in Requests : q /= r => pc'[q] = pc[q]
    BY <1>3, <1>14
  <2>2. \A q \in Requests : TxOf(q)' = TxOf(q)
    BY DEF TxOf
  <2>3. TxOf(r) /= x
    BY <1>1
  <2>4. QED
    BY <1>14, <1>15, <2>1, <2>2, <2>3 DEF Claims
<1>16. ClaimsCounted'
  BY <1>1, <1>2, <1>7, <1>8, <1>13, <1>15, ClaimAdded DEF AllowanceKnown
<1>17. /\ AllowanceLeftAlone
       /\ UNCHANGED <<seenHashes, current, replayPc>>
  BY <1>3, LedgerAllowance DEF reconVars, ledgerVars, replayVars
<1>18. \A x : Replayed(x)' <=> Replayed(x)
  BY <1>17 DEF Replayed
<1>19. AllowanceLeft'
  BY <1>17, <1>18, SettlementsKept DEF AllowanceKnown
<1>20. NothingElseNeeded'
  BY <1>17 DEF NothingElseNeeded, AllowanceKnown
<1>21. QED
  BY <1>16, <1>19, <1>20 DEF AllowanceKnown

(* A payment that reaches the log was claimed already.                     *)
LEMMA AppendKeepsAllowance ==
  ASSUME GatewayInv, GatewayInv', AllowanceKnown, NEW r \in Requests,
         NEW err \in WALErrors, AppendToWAL(r, err)
  PROVE  AllowanceKnown'
<1>1. PICK tx : tx = TxOf(r)
  OBVIOUS
<1>2. /\ pc[r] = "append" /\ WALAppend(tx, err)
      /\ pc' = [pc EXCEPT ![r] = "cache"]
      /\ UNCHANGED <<ledgerVars, replayVars, edgeVars>>
  BY <1>1 DEF AppendToWAL, Respond, TxOf
<1>3. tx \in TxIDs /\ WALInv /\ pc \in [Requests -> Steps]
  BY <1>1, RequestTypes
     DEF GatewayInv, GatewayTypes, ReplayInv, ReplayWell
<1>4. \A x \in Present' : x \in Present \/ x = tx
  BY <1>2, <1>3, AppendGrows
<1>5. \A q \in Requests : pc'[q] = "append" => pc[q] = "append"
  BY <1>2, <1>3
<1>6. \A q \in Requests : TxOf(q)' = TxOf(q)
  BY DEF TxOf
<1>7. \A x \in Submitted : Claims(x)' => Claims(x)
  BY <1>1, <1>2, <1>4, <1>5, <1>6 DEF Claims
<1>8. AllowanceLeftAlone
  BY <1>2, LedgerAllowance DEF ledgerVars
<1>9. QED
  BY <1>2, <1>7, <1>8, SpentLeftAlone, QuietForAllowance

(* A new token has nothing spent under it.                                 *)
LEMMA EdgeKeepsAllowance ==
  ASSUME GatewayInv, GatewayInv', AllowanceKnown, EdgeStep
  PROVE  AllowanceKnown'
<1>1. UNCHANGED reconVars /\ UNCHANGED pc
  BY DEF EdgeStep, gatewayVars
<1>2. AllowanceLeftAlone /\ UNCHANGED replayVars /\ Present' = Present
  BY <1>1, LedgerAllowance
     DEF reconVars, ledgerVars, walVars, Present
<1>3. \A x \in Submitted : Claims(x)' => Claims(x)
  BY <1>1, <1>2 DEF Claims, TxOf
<1>4. ASSUME NEW id \in TokenIDs, NEW c \in Parties, NEW q \in Ceilings,
             IssueToken(id, c, q, MaxTime, Anywhere)
      PROVE  \A j \in TokenIDs, a \in Parties :
               SpentUnder(j, a)' = SpentUnder(j, a)
  <2>1. EdgeInv /\ EdgeTypeOK
    BY DEF GatewayInv, EdgeInv
  <2>2. /\ id \notin Issued /\ UNCHANGED spentByToken
        /\ \A j \in TokenIDs \ {id} : issued'[j] = issued[j]
    BY <1>4, <2>1 DEF IssueToken, EdgeTypeOK
  <2>3. \A i \in DOMAIN grants : grants[i].TokenID /= id
    BY <2>1, <2>2 DEF EdgeInv, GrantsHonourBinding
  <2>4. spentByToken[Here][id] = 0
    <3>1. Granted({Here}, id) = 0
      BY <2>1, <2>3, NothingGranted
    <3>2. QED
      BY <2>1, <3>1, HereAssumption DEF EdgeInv, CountersAreExact
  <2>5. GivenBack(id) = 0 /\ \A j : GivenBack(j)' = GivenBack(j)
    <3>1. grants' = grants
      BY <1>4 DEF IssueToken
    <3>2. GivenBack(id) = 0
      BY <2>1, <2>3, GivenBackType
    <3>3. \A j : GivenBack(j)' = GivenBack(j)
      BY <3>1, GivenBackIsSum
    <3>4. QED
      BY <3>2, <3>3
  <2>6. ASSUME NEW j \in TokenIDs, NEW a \in Parties
        PROVE  SpentUnder(j, a)' = SpentUnder(j, a)
    <3>1. CASE j = id
      BY <2>2, <2>4, <2>5, <3>1 DEF SpentUnder
    <3>2. CASE j /= id
      BY <2>2, <2>5, <3>2 DEF SpentUnder, Issued
    <3>3. QED
      BY <3>1, <3>2
  <2>7. QED
    BY <2>6
<1>5. ASSUME Tick
      PROVE  \A j \in TokenIDs, a \in Parties :
               SpentUnder(j, a)' = SpentUnder(j, a)
  BY <1>5 DEF Tick, SpentUnder, Issued, GivenBack
<1>6. QED
  BY <1>2, <1>3, <1>4, <1>5, QuietForAllowance DEF EdgeStep

(* The replay neither adds claims nor authorizes.                          *)
LEMMA ReplayAddsNoClaim ==
  ASSUME GatewayInv, GatewayInv', ClaimsCounted, UNCHANGED pc,
         UNCHANGED edgeVars, Present' = Present
  PROVE  ClaimsCounted'
<1>1. \A x \in Submitted : Claims(x)' => Claims(x)
  BY DEF Claims, TxOf
<1>2. QED
  BY <1>1, SpentLeftAlone, ClaimsKept

(* A step of the replay that settles nothing, or a payment of nothing or   *)
(* less.                                                                   *)
LEMMA NothingSettled ==
  ASSUME AllowanceKnown, AllowanceLeftAlone,
         \A x \in QueuedTxIDs :
           (Replayed(x)' <=> Replayed(x)) \/ Payable(x) = 0,
         \/ replayPc' \in {"idle", "loop", "offline"}
         \/ current' = current /\ Payment[current].Amount <= 0
  PROVE  AllowanceLeft' /\ NothingElseNeeded'
<1>1. AllowanceLeft'
  BY SettlementsKept DEF AllowanceKnown
<1>2. NothingElseNeeded'
  BY DEF NothingElseNeeded
<1>3. QED
  BY <1>1, <1>2

(* Between payments, and at a duplicate.                                   *)
LEMMA BetweenPayments ==
  ASSUME GatewayInv, AllowanceKnown,
         \/ ReplayBegin
         \/ ReplayEnd
         \/ \E i \in DOMAIN batch : ReplayDuplicate(i)
  PROVE  AllowanceLeft' /\ NothingElseNeeded'
<1>1. /\ UNCHANGED ledgerVars /\ UNCHANGED seenHashes
      /\ replayPc' \in {"idle", "loop"} /\ replayPc \in {"idle", "loop"}
      /\ current' = current \/ current' = NoTx
  BY DEF ReplayBegin, ReplayEnd, ReplayDuplicate, Finish
<1>2. current = NoTx
  BY <1>1 DEF GatewayInv, ReplayInv, ReplayWell
<1>3. \A x : Replayed(x)' <=> Replayed(x)
  BY <1>1, <1>2 DEF Replayed
<1>4. AllowanceLeftAlone
  BY <1>1, LedgerAllowance DEF ledgerVars
<1>5. QED
  BY <1>1, <1>3, <1>4, NothingSettled

(* The loop takes a payment: the allowance covers it.                      *)
LEMMA TakeKeepsAllowance ==
  ASSUME GatewayInv, AroundAllowance, AllowanceHolds, AllowanceKnown,
         NEW i \in DOMAIN batch, ReplayTake(i)
  PROVE  AllowanceLeft' /\ NothingElseNeeded'
<1>1. PICK tx, a : tx = batch[i] /\ a = Payment[tx].AccountID
  OBVIOUS
<1>2. /\ replayPc = "loop" /\ tx \notin seenHashes
      /\ seenHashes' = seenHashes \cup {tx} /\ current' = tx
      /\ accSnapshot' = Snapshot(a)
      /\ replayPc' = IF accSnapshot'.OfflineAllowance >= Payment[tx].Amount
                     THEN "offline"
                     ELSE AfterOffline(accSnapshot', Payment[tx].Amount)
      /\ UNCHANGED ledgerVars
  BY <1>1 DEF ReplayTake
<1>3. current = NoTx /\ tx \in Present
  BY <1>1, <1>2 DEF GatewayInv, ReplayInv, ReplayWell
<1>4. ~Replayed(tx)
  BY <1>2 DEF Replayed
<1>5. balance[OfflineAllowance(a)] >= Payment[tx].Amount
  <2>1. balance[OfflineAllowance(a)] >= Payable(tx) /\ a \in Parties
    BY <1>1, <1>3, <1>4, AllowanceSuffices
  <2>2. balance[OfflineAllowance(a)] \in Int
    BY <2>1, PartiesAssumption, BucketsOfAccount
       DEF GatewayInv, ReplayInv, ReplayWell, ReconTypeOK, LedgerTypeOK
  <2>3. Payment[tx].Amount \in Int
    BY <1>3, SubmittedTypes DEF AroundAllowance
  <2>4. QED
    BY <2>1, <2>2, <2>3 DEF Payable
<1>6. replayPc' = "offline"
  BY <1>2, <1>5 DEF Snapshot
<1>7. \A x \in QueuedTxIDs : Replayed(x)' <=> Replayed(x)
  BY <1>2, <1>3, PaymentTypes DEF Replayed
<1>8. AllowanceLeftAlone
  BY <1>2, LedgerAllowance DEF ledgerVars
<1>9. QED
  BY <1>6, <1>7, <1>8, NothingSettled

(* The loop settles a payment from the allowance, and so needs no other    *)
(* source of money.                                                        *)
LEMMA OfflineKeepsAllowance ==
  ASSUME GatewayInv, AroundAllowance, AllowanceHolds, AllowanceKnown,
         NEW err, ReplayOffline(err)
  PROVE  AllowanceLeft' /\ NothingElseNeeded'
<1>1. PICK c, p, m, n : /\ c = current /\ p = Payment[c].AccountID
                        /\ m = Payment[c].MerchantID
                        /\ n = Payment[c].Amount
  OBVIOUS
<1>2. /\ replayPc = "offline"
      /\ CommitOfflineAllowance(p, m, n, c, err)
      /\ FinishOrGoOn(err, AfterOffline(accSnapshot, n))
  BY <1>1 DEF ReplayOffline
<1>3. ReplayInv({}) /\ Present \subseteq Submitted /\ Parties \subseteq exists
  BY DEF GatewayInv, AroundAllowance
<1>4. /\ c \in QueuedTxIDs /\ c \in seenHashes /\ c \in Present
      /\ LedgerTypeOK /\ entries \in Seq(LedgerEntry)
  BY <1>1, <1>2, <1>3, AtCurrent
<1>5. /\ c \in TxIDs /\ c /= NoTx /\ p \in Accounts /\ m \in Accounts
      /\ n \in Int /\ OfflineLabel(p) \in Labels
      /\ OfflineAllowance(p) \in Buckets /\ OnlineAvailable(m) \in Buckets
      /\ balance \in [Buckets -> Int]
  BY <1>1, <1>4, PaymentTypes, BucketsOfAccount DEF LedgerTypeOK
<1>6. ~Replayed(c)
  BY <1>1 DEF Replayed
<1>7. p \in exists /\ balance[OfflineAllowance(p)] >= Payable(c)
  BY <1>1, <1>3, <1>4, <1>6, AllowanceSuffices
<1>8. Settle(p, OfflineAllowance(p), OfflineLabel(p),
             "ErrInsufficientFunds", m, n, c, err)
  BY <1>2 DEF CommitOfflineAllowance
<1>9. err = IF n <= 0 THEN "ErrInvalidAmount" ELSE "nil"
  <2>1. n > 0 => balance[OfflineAllowance(p)] >= n
    BY <1>1, <1>7 DEF Payable
  <2>2. balance[OfflineAllowance(p)] \in Int
    BY <1>5
  <2>3. QED
    BY <1>5, <1>7, <1>8, <2>1, <2>2 DEF Settle, DebitError
<1>10. UNCHANGED seenHashes
  BY <1>2 DEF FinishOrGoOn
<1>11. CASE n <= 0
  <2>1. UNCHANGED <<balance, entries>>
    BY <1>8, <1>9, <1>11 DEF Settle
  <2>2. UNCHANGED current
    BY <1>2, <1>9, <1>11 DEF FinishOrGoOn
  <2>3. \A x : Replayed(x)' <=> Replayed(x)
    BY <1>10, <2>2 DEF Replayed
  <2>4. QED
    BY <1>1, <1>11, <2>1, <2>2, <2>3, LedgerAllowance, NothingSettled
<1>12. CASE n > 0
  <2>1. err = "nil" /\ Payable(c) = n
    BY <1>1, <1>5, <1>9, <1>12 DEF Payable
  <2>2. Journals(NewEntry("COMMIT", c, OfflineLabel(p), Label(m), n))
    BY <1>4, <1>5, <1>8, <2>1, SettleEffect
  <2>3. current' = NoTx /\ replayPc' = "loop"
    BY <1>2, <2>1 DEF FinishOrGoOn, Finish
  <2>4. Replayed(c)'
    BY <1>4, <1>5, <1>10, <2>3 DEF Replayed
  <2>5. ASSUME NEW x \in QueuedTxIDs \ {c}
        PROVE  /\ Replayed(x)' <=> Replayed(x)
               /\ OfflineCredit(x)' = OfflineCredit(x)
    <3>1. Replayed(x)' <=> Replayed(x)
      BY <1>1, <1>10, <2>3, PaymentTypes DEF Replayed
    <3>2. SameCredit(x)
      BY <1>1, <1>4, <1>5, <2>2, PostedCredit
    <3>3. OfflineLabel(Payment[x].AccountID) \in Labels
      BY PaymentTypes
    <3>4. QED
      BY <3>1, <3>2, <3>3 DEF SameCredit, OfflineCredit, Credited
  <2>6. OfflineCredit(c)' = OfflineCredit(c) + n
    <3>1. PICK D : D = {OfflineLabel(p)}
      OBVIOUS
    <3>2. /\ CreditedIn(entries', c, D) =
               Credited(c, D) + (IF OfflineLabel(p) \in D THEN n ELSE 0)
      BY <1>1, <1>4, <1>5, <2>2, <3>1, PostedCredit
    <3>3. QED
      BY <1>1, <3>1, <3>2 DEF OfflineCredit, Credited
  <2>7. Move(OfflineAllowance(p), OnlineAvailable(m), n)
    BY <1>8, <2>1 DEF Settle
  <2>8. ASSUME NEW a \in Accounts
        PROVE  balance'[OfflineAllowance(a)] =
                 balance[OfflineAllowance(a)] - (IF a = p THEN n ELSE 0)
    <3>1. /\ OfflineAllowance(a) \in Buckets
          /\ OfflineAllowance(a) /= OnlineAvailable(m)
          /\ OfflineAllowance(a) = OfflineAllowance(p) <=> a = p
          /\ balance[OfflineAllowance(a)] \in Int
      BY <1>5, BucketsOfAccount
    <3>2. balance'[OfflineAllowance(a)] =
            balance[OfflineAllowance(a)]
              - (IF OfflineAllowance(a) = OfflineAllowance(p)
                 THEN n ELSE 0)
              + (IF OfflineAllowance(a) = OnlineAvailable(m)
                 THEN n ELSE 0)
      BY <1>5, <2>7, <3>1, MoveEffect
    <3>3. QED
      BY <1>5, <3>1, <3>2
  <2>9. c \in Submitted /\ AllowanceLeft
    BY <1>3, <1>4 DEF AllowanceKnown
  <2>10. AllowanceLeft'
    BY <1>1, <1>5, <1>6, <2>1, <2>4, <2>5, <2>6, <2>8, <2>9, SettlementAdded
  <2>11. NothingElseNeeded'
    BY <2>3 DEF NothingElseNeeded
  <2>12. QED
    BY <2>10, <2>11
<1>13. QED
  BY <1>5, <1>11, <1>12

(* The other sources of money are asked for nothing or less.               *)
LEMMA ElsewhereKeepsAllowance ==
  ASSUME GatewayInv, AllowanceKnown,
         \/ \E err \in LedgerErrors : \/ ReplayOnline(err)
                                      \/ ReplayCovered(err)
                                      \/ ReplayReserve(err)
         \/ ReplayLegacy
  PROVE  AllowanceLeft' /\ NothingElseNeeded'
<1>1. PICK c, p, m, n : /\ c = current /\ p = Payment[c].AccountID
                        /\ m = Payment[c].MerchantID
                        /\ n = Payment[c].Amount
  OBVIOUS
<1>2. replayPc \in {"online", "covered", "reserve", "legacy"}
  BY DEF ReplayOnline, ReplayCovered, ReplayReserve, ReplayLegacy
<1>3. n <= 0 /\ Payment[current].Amount <= 0
  BY <1>1, <1>2 DEF AllowanceKnown, NothingElseNeeded
<1>4. /\ c \in QueuedTxIDs /\ LedgerTypeOK /\ entries \in Seq(LedgerEntry)
      /\ accSnapshot \in [OnlineAvailable : Int, OfflineAllowance : Int]
  BY <1>1, <1>2, AtCurrent DEF GatewayInv
<1>5. /\ c \in TxIDs /\ p \in Accounts /\ m \in Accounts /\ n \in Int
      /\ balance \in [Buckets -> Int] /\ Payable(c) = 0
  BY <1>1, <1>3, <1>4, PaymentTypes DEF LedgerTypeOK, Payable
<1>6. ~(CustomerCovered > 0) /\ ~(UncoveredDelta > 0)
  BY <1>1, <1>3, <1>4, <1>5, CoveredParts
<1>7. UNCHANGED seenHashes
  BY DEF ReplayOnline, ReplayCovered, ReplayReserve, ReplayLegacy,
         FinishOrGoOn, FinishDeficit
<1>8. CASE \E err \in LedgerErrors : \/ ReplayOnline(err)
                                     \/ ReplayCovered(err)
  <2>1. UNCHANGED <<balance, entries, current>>
    <3>1. ASSUME NEW err \in LedgerErrors, ReplayOnline(err)
          PROVE  UNCHANGED <<balance, entries, current>>
      <4>1. DirectCommit(p, m, n, c, err) /\ FinishOrGoOn(err, DeficitStep)
        BY <1>1, <3>1 DEF ReplayOnline
      <4>2. err = "ErrInvalidAmount"
        BY <1>3, <4>1 DEF DirectCommit, Settle, DebitError
      <4>3. QED
        BY <4>1, <4>2 DEF DirectCommit, Settle, FinishOrGoOn
    <3>2. ASSUME NEW err \in LedgerErrors, ReplayCovered(err)
          PROVE  UNCHANGED <<balance, entries, current>>
      BY <1>6, <3>2 DEF ReplayCovered, ledgerVars
    <3>3. QED
      BY <1>8, <3>1, <3>2
  <2>2. \A x : Replayed(x)' <=> Replayed(x)
    BY <1>7, <2>1 DEF Replayed
  <2>3. AllowanceLeftAlone
    BY <2>1, LedgerAllowance
  <2>4. QED
    BY <1>1, <1>3, <2>1, <2>2, <2>3, NothingSettled
<1>9. CASE ReplayLegacy \/ \E err \in LedgerErrors : ReplayReserve(err)
  <2>1. current' = NoTx /\ replayPc' = "loop"
    BY <1>9 DEF ReplayReserve, ReplayLegacy, FinishDeficit, Finish
  <2>2. \A x \in QueuedTxIDs :
          (Replayed(x)' <=> Replayed(x)) \/ Payable(x) = 0
    BY <1>1, <1>5, <1>7, <2>1, PaymentTypes DEF Replayed
  <2>3. CASE \E err \in LedgerErrors : ReplayReserve(err)
    <3>1. AllowanceLeftAlone
      BY <1>6, <2>3, LedgerAllowance DEF ReplayReserve, ledgerVars
    <3>2. QED
      BY <2>1, <2>2, <3>1, NothingSettled
  <2>4. CASE ReplayLegacy
    <3>1. PostDeficit(p, m, n, c)
      BY <1>1, <2>4 DEF ReplayLegacy, RecordDeficit
    <3>2. Journals(NewEntry("DEFICIT", c, Label(p), Label(m), n))
      BY <1>4, <1>5, <3>1, PostDeficitEffect
    <3>3. \A x \in QueuedTxIDs : OfflineCredit(x)' = OfflineCredit(x)
      BY <1>1, <1>4, <1>5, <3>2, OtherCredits
    <3>4. Move(OnlineAvailable(p), OnlineAvailable(m), n)
      BY <3>1 DEF PostDeficit
    <3>5. AllowanceLeftAlone
      BY <1>5, <3>3, <3>4, BucketsOfAccount, OtherBuckets
         DEF AllowanceLeftAlone
    <3>6. QED
      BY <2>1, <2>2, <3>5, NothingSettled
  <2>5. QED
    BY <1>9, <2>3, <2>4
<1>10. QED
  BY <1>8, <1>9

(* Every step of the replay.                                               *)
LEMMA ReplayKeepsAllowance ==
  ASSUME GatewayInv, GatewayInv', AroundAllowance, AllowanceHolds,
         AllowanceKnown, ReplayBegin \/ ReplayStep, UNCHANGED pc,
         UNCHANGED edgeVars, Present' = Present
  PROVE  AllowanceKnown'
<1>1. ClaimsCounted'
  BY ReplayAddsNoClaim DEF AllowanceKnown
<1>2. AllowanceLeft' /\ NothingElseNeeded'
  BY BetweenPayments, TakeKeepsAllowance, OfflineKeepsAllowance,
     ElsewhereKeepsAllowance DEF ReplayStep
<1>3. QED
  BY <1>1, <1>2 DEF AllowanceKnown

-----------------------------------------------------------------------------
(* What holds whether or not the tokens are covered.                       *)

(* Accounts are not closed.                                                *)
LEMMA AccountsStay ==
  ASSUME GatewayInv, [GatewayNext]_allVars
  PROVE  exists \subseteq exists'
<1>1. CASE UNCHANGED reconVars
  BY <1>1 DEF reconVars, ledgerVars
<1>2. CASE ReplayStep
  BY <1>2, ReplayLeavesHolds DEF GatewayInv, HoldsLeftAlone
<1>3. CASE ReplayBegin
  BY <1>3 DEF ReplayBegin, ledgerVars
<1>4. ASSUME NEW r \in Requests, NEW err, AppendToWAL(r, err)
      PROVE  exists \subseteq exists'
  BY <1>4 DEF AppendToWAL, ledgerVars
<1>5. ASSUME NEW r \in Requests, NEW err, Reserve(r, err)
      PROVE  exists \subseteq exists'
  BY <1>5 DEF Reserve, ReserveFunds
<1>6. ASSUME NEW r \in Requests, Commit(r) PROVE exists \subseteq exists'
  BY <1>6, CommitHoldHappens DEF CommitHold, Settle
<1>7. ASSUME NEW r \in Requests, Submit(r) \/ ProcessPayment(r)
      PROVE  exists \subseteq exists'
  BY <1>1, <1>4, <1>5, <1>6, <1>7
     DEF Submit, ProcessPayment, CheckQR, Route, Authorize,
         ScreenTransaction, CacheResponse
<1>8. QED
  BY <1>1, <1>2, <1>3, <1>7
     DEF GatewayNext, SetNetworkStatus, ReconnectReplay,
         TriggerReconciliation, ReplayGoesOn, EdgeStep, allVars

(* Only requests fill the log.                                             *)
LEMMA OnlySubmittedQueue ==
  ASSUME GatewayInv, [GatewayNext]_allVars
  PROVE  Present' \subseteq Present \cup Submitted
<1>1. CASE UNCHANGED walVars
  BY <1>1 DEF walVars, Present
<1>2. CASE ReplayStep
  BY <1>2, ReplayKeepsUnderway DEF GatewayInv
<1>3. ASSUME NEW r \in Requests, NEW err \in WALErrors, AppendToWAL(r, err)
      PROVE  Present' \subseteq Present \cup Submitted
  <2>1. /\ WALInv /\ TxOf(r) \in TxIDs /\ TxOf(r) \in Submitted
        /\ WALAppend(TxOf(r), err)
    BY <1>3, RequestTypes
       DEF GatewayInv, ReplayInv, ReplayWell, Submitted, AppendToWAL, TxOf
  <2>2. QED
    BY <2>1, AppendGrows
<1>4. ASSUME NEW r \in Requests, Submit(r) \/ ProcessPayment(r)
      PROVE  Present' \subseteq Present \cup Submitted
  BY <1>1, <1>3, <1>4
     DEF Submit, ProcessPayment, CheckQR, Route, Authorize,
         ScreenTransaction, CacheResponse, Reserve, Commit, reconVars
<1>5. QED
  BY <1>1, <1>2, <1>4
     DEF GatewayNext, SetNetworkStatus, ReconnectReplay, ReplayBegin,
         TriggerReconciliation, ReplayGoesOn, EdgeStep, allVars, reconVars

(* A token stays as it was issued, and a new one is a party's.             *)
LEMMA TokensStay ==
  ASSUME GatewayInv, [GatewayNext]_allVars
  PROVE  /\ \A id \in Issued : id \in Issued' /\ issued'[id] = issued[id]
         /\ \A id \in Issued' \ Issued : issued'[id].AccountID \in Parties
<1>1. issued \in [TokenIDs -> Token \cup {NoToken}]
  BY DEF GatewayInv, EdgeInv, EdgeTypeOK
<1>2. CASE UNCHANGED issued
  BY <1>2 DEF Issued
<1>3. ASSUME NEW id \in TokenIDs, NEW a \in Parties, NEW q \in Ceilings,
             IssueToken(id, a, q, MaxTime, Anywhere)
      PROVE  /\ \A k \in Issued : k \in Issued' /\ issued'[k] = issued[k]
             /\ \A k \in Issued' \ Issued : issued'[k].AccountID \in Parties
  <2>1. /\ id \notin Issued /\ issued'[id].AccountID = a
        /\ \A k \in TokenIDs \ {id} : issued'[k] = issued[k]
    BY <1>1, <1>3 DEF IssueToken
  <2>2. QED
    BY <2>1 DEF Issued
<1>4. ASSUME NEW r \in Requests, Submit(r) \/ ProcessPayment(r)
      PROVE  UNCHANGED issued
  BY <1>4 DEF Submit, ProcessPayment, CheckQR, Route, Authorize,
              AuthorizeOffline, AppendToWAL, ScreenTransaction,
              CacheResponse, Reserve, Commit, edgeVars
<1>5. QED
  BY <1>2, <1>3, <1>4
     DEF GatewayNext, SetNetworkStatus, ReconnectReplay, Tick,
         TriggerReconciliation, ReplayGoesOn, EdgeStep, allVars, edgeVars

LEMMA HistoryGrows ==
  ASSUME GatewayInv, [GatewayNext]_allVars
  PROVE  GrantsGrow
<1>1. CASE UNCHANGED grants
  BY <1>1 DEF GrantsGrow
<1>2. ASSUME NEW r \in Requests, NEW reason, Authorize(r, reason)
      PROVE  GrantsGrow
  <2>1. CASE UNCHANGED grants
    BY <1>1, <2>1
  <2>2. CASE ~UNCHANGED grants
    <3>1. PICK tok, n : /\ AuthorizeOffline(Here, tok, n, "APPROVED")
                        /\ n = PaymentOf(r).Amount
      BY <1>2, <2>2 DEF Authorize, AuthorizeOffline, edgeVars
    <3>2. PICK g : g = [terminal |-> Here, TokenID |-> tok.TokenID,
                        Amount |-> n, at |-> now]
      OBVIOUS
    <3>3. grants' = Append(grants, g) /\ tok.TokenID \in Issued
      BY <3>1, <3>2, ApprovalMeans DEF AuthorizeOffline
    <3>4. n \in Int /\ now \in Nat
      BY <3>1, RequestTypes DEF GatewayInv, EdgeInv, EdgeTypeOK
    <3>5. g \in Grant
      BY <3>2, <3>3, <3>4, HereAssumption DEF Grant, Issued
    <3>6. QED
      BY <3>3, <3>5 DEF GrantsGrow
  <2>3. QED
    BY <2>1, <2>2
<1>3. ASSUME NEW r \in Requests, Submit(r) \/ ProcessPayment(r)
      PROVE  GrantsGrow
  BY <1>1, <1>2, <1>3
     DEF Submit, ProcessPayment, CheckQR, Route, AppendToWAL,
         ScreenTransaction, CacheResponse, Reserve, Commit, edgeVars
<1>4. QED
  BY <1>1, <1>3
     DEF GatewayNext, SetNetworkStatus, ReconnectReplay, Tick, IssueToken,
         TriggerReconciliation, ReplayGoesOn, EdgeStep, allVars, edgeVars

LEMMA AroundAllowanceNext ==
  ASSUME GatewayInv, AroundAllowance, [GatewayNext]_allVars
  PROVE  AroundAllowance'
<1>1. Submitted' = Submitted
  BY DEF Submitted, TxOf
<1>2. QED
  BY <1>1, AccountsStay, OnlySubmittedQueue, TokensStay DEF AroundAllowance

-----------------------------------------------------------------------------
(* Every step of the gateway keeps the invariant.                          *)
LEMMA AllowanceInvNext ==
  ASSUME GatewayInv, GatewayInv', AllowanceInv, [GatewayNext]_allVars
  PROVE  AllowanceInv'
<1>1. AroundAllowance /\ AroundAllowance'
  BY AroundAllowanceNext DEF AllowanceInv
<1>2. SUFFICES ASSUME AllowanceHolds' PROVE AllowanceKnown'
  BY <1>1 DEF AllowanceInv
<1>3. AllowanceHolds /\ AllowanceKnown
  BY <1>2, HypothesisHeldBefore, HistoryGrows, TokensStay
     DEF GatewayInv, AllowanceInv
<1>4. ASSUME NEW r \in Requests, Submit(r) \/ ProcessPayment(r)
      PROVE  AllowanceKnown'
  <2>1. CASE \E reason \in ReasonCodes : Authorize(r, reason)
    BY <1>1, <1>3, <2>1, RequestKeepsAllowance, ApprovalKeepsAllowance
  <2>2. CASE \E err \in WALErrors : AppendToWAL(r, err)
    BY <1>3, <2>2, AppendKeepsAllowance
  <2>3. QED
    BY <1>3, <1>4, <2>1, <2>2, RequestKeepsAllowance DEF ProcessPayment
<1>5. ASSUME UNCHANGED reconVars, UNCHANGED edgeVars, UNCHANGED pc
      PROVE  AllowanceKnown'
  <2>1. AllowanceLeftAlone /\ UNCHANGED replayVars /\ Present' = Present
    BY <1>5, LedgerAllowance DEF reconVars, ledgerVars, walVars, Present
  <2>2. \A x \in Submitted : Claims(x)' => Claims(x)
    BY <1>5, <2>1 DEF Claims, TxOf
  <2>3. QED
    BY <1>3, <1>5, <2>1, <2>2, SpentLeftAlone, QuietForAllowance
<1>6. ASSUME ReplayBegin, UNCHANGED edgeVars, UNCHANGED pc
      PROVE  AllowanceKnown'
  <2>1. Present' = Present
    BY <1>6 DEF ReplayBegin, walVars, Present
  <2>2. QED
    BY <1>1, <1>3, <1>6, <2>1, ReplayKeepsAllowance
<1>7. ASSUME ReplayStep, UNCHANGED edgeVars, UNCHANGED pc
      PROVE  AllowanceKnown'
  <2>1. Present' = Present
    BY <1>7, ReplayKeepsUnderway DEF GatewayInv
  <2>2. QED
    BY <1>1, <1>3, <1>7, <2>1, ReplayKeepsAllowance
<1>8. QED
  BY <1>3, <1>4, <1>5, <1>6, <1>7, EdgeKeepsAllowance
     DEF GatewayNext, SetNetworkStatus, ReconnectReplay,
         TriggerReconciliation, ReplayGoesOn, allVars, gatewayVars

(* The server starts with full allowances, no token and no payment.        *)
LEMMA AllowanceInvInit == ServerInit => AllowanceInv
<1>1. SUFFICES ASSUME ServerInit PROVE AllowanceInv
  OBVIOUS
<1>2. /\ pc = [r \in Requests |-> "new"]
      /\ exists = SystemAccounts \cup Parties
      /\ issued = [id \in TokenIDs |-> NoToken]
      /\ replayPc = "idle" /\ seenHashes = {}
  BY <1>1 DEF ServerInit, EdgeInit, ReplayInit
<1>3. Present = {} /\ Issued = {}
  BY <1>1, <1>2 DEF ServerInit, WALInit, Present, Issued
<1>4. AroundAllowance
  BY <1>2, <1>3 DEF AroundAllowance
<1>5. \A tx : ~Claims(tx) /\ ~Replayed(tx)
  BY <1>2, <1>3 DEF Claims, Replayed
<1>6. ASSUME NEW a PROVE ClaimsOn(a) = 0 /\ SettledOn(a) = 0 /\ SpentOn(a) = 0
  <2>1. PICK C : C = [tx \in Submitted |-> ClaimOn(tx, a)]
    OBVIOUS
  <2>2. PICK S : S = [tx \in Submitted |-> SettledFrom(tx, a)]
    OBVIOUS
  <2>3. PICK T : T = [id \in TokenIDs |-> SpentUnder(id, a)]
    OBVIOUS
  <2>4. \A tx \in Submitted : C[tx] = 0 /\ S[tx] = 0
    BY <1>5, <2>1, <2>2 DEF ClaimOn, SettledFrom
  <2>5. \A id \in TokenIDs : T[id] = 0
    BY <1>3, <2>3 DEF SpentUnder
  <2>6. /\ SumFunctionOnSet(C, Submitted) = 0
        /\ SumFunctionOnSet(S, Submitted) = 0
    BY <2>4, SubmittedTypes, SumOfZeros
  <2>7. SumFunctionOnSet(T, TokenIDs) = 0
    BY <2>5, TokenIDsAssumption, SumOfZeros
  <2>8. ClaimsOn(a) = 0
    BY <2>1, <2>6 DEF ClaimsOn, SumFunction
  <2>9. SettledOn(a) = 0
    BY <2>2, <2>6 DEF SettledOn, SumFunction
  <2>10. SpentOn(a) = 0
    BY <2>3, <2>7 DEF SpentOn, SumFunction
  <2>11. QED
    BY <2>8, <2>9, <2>10
<1>7. ClaimsCounted
  BY <1>5, <1>6 DEF ClaimsCounted
<1>8. ASSUME NEW a \in Parties PROVE balance[OfflineAllowance(a)] = Allowance
  <2>1. OfflineAllowance(a) \in Buckets
    BY PartiesAssumption, BucketsOfAccount
  <2>2. PICK b :
          balance = [k \in Buckets |->
                       CASE k[1] \notin Parties -> 0
                         [] k[2] = "OnlineAvailable" -> b - Allowance
                         [] k[2] = "OfflineAllowance" -> Allowance
                         [] OTHER -> 0]
    BY <1>1 DEF ServerInit
  <2>3. /\ OfflineAllowance(a)[1] = a
        /\ OfflineAllowance(a)[2] = "OfflineAllowance"
    BY DEF OfflineAllowance
  <2>4. QED
    BY <2>1, <2>2, <2>3
<1>9. AllowanceLeft
  BY <1>1, <1>5, <1>6, <1>8, AllowanceAssumption, NothingIsCredited
     DEF AllowanceLeft, OfflineCredit
<1>10. NothingElseNeeded
  BY <1>2 DEF NothingElseNeeded
<1>11. QED
  BY <1>4, <1>7, <1>9, <1>10 DEF AllowanceInv, AllowanceKnown

LEMMA AllowanceInvariant == GatewaySpec => [](GatewayInv /\ AllowanceInv)
<1>1. ServerInit => GatewayInv /\ AllowanceInv
  BY GatewayInvInit, AllowanceInvInit
<1>2. (GatewayInv /\ AllowanceInv) /\ [GatewayNext]_allVars =>
        (GatewayInv /\ AllowanceInv)'
  BY GatewayInvNext, AllowanceInvNext
<1>3. QED
  BY <1>1, <1>2, PTL DEF GatewaySpec

(***************************************************************************)
(* The partition isolation theorem of docs/ARCHITECTURE.md:47.  As long as *)
(* the allowance of every party covers the ceilings of its tokens and what *)
(* payments of negative amounts gave back to them, and payers present      *)
(* tokens of their own, the replay settles every offline payment in full   *)
(* from the payer's allowance, and a negative one takes nothing from it    *)
(* and adds nothing to it: whatever is paid online meanwhile, however      *)
(* requests, switches and replays interleave, and even if clients retry    *)
(* without waiting.                                                        *)
(***************************************************************************)
THEOREM PartitionIsolation == GatewaySpec => []OfflinePaidFromAllowance
<1>1. ASSUME GatewayInv, AllowanceInv PROVE OfflinePaidFromAllowance
  <2>1. SUFFICES ASSUME TokensCovered, PayersPresentOwnTokens,
                        NEW tx \in TxIDs, Replayed(tx)
                 PROVE  Credited(tx, {OfflineLabel(Payment[tx].AccountID)})
                          = Max({0, Payment[tx].Amount})
    BY DEF OfflinePaidFromAllowance
  <2>2. AllowanceLeft
    BY <1>1, <2>1 DEF AllowanceInv, AllowanceHolds, AllowanceKnown
  <2>3. tx \in QueuedTxIDs
    BY <1>1, <2>1 DEF Replayed, GatewayInv, ReplayInv, ReplayWell
  <2>4. Payable(tx) = Max({0, Payment[tx].Amount})
    <3>1. Payment[tx].Amount \in Int /\ 0 \in Int
      BY <2>3, PaymentTypes
    <3>2. Max({0, Payment[tx].Amount}) =
            IF 0 <= Payment[tx].Amount THEN Payment[tx].Amount ELSE 0
      BY <3>1, OfTwo
    <3>3. QED
      BY <3>1, <3>2 DEF Payable
  <2>5. QED
    BY <2>1, <2>2, <2>3, <2>4 DEF AllowanceLeft, OfflineCredit
<1>2. GatewayInv /\ AllowanceInv => OfflinePaidFromAllowance
  BY <1>1
<1>3. QED
  BY <1>2, AllowanceInvariant, PTL

=============================================================================
