--------------------------- MODULE EdgeAuthorizer ---------------------------
(***************************************************************************)
(* Offline authorization: the TokenAuthority and the EdgeAuthorizers of    *)
(* internal/edge/m4_offline_auth.go.  Every terminal has an authorizer of  *)
(* its own, with its own count of what each token has spent; nothing       *)
(* connects them during a partition.  AuthorizeOffline holds ea.mu, so it  *)
(* is one action.                                                          *)
(*                                                                         *)
(* A signature is represented by the fields it was made over: the key is   *)
(* the authority's own, so the authority's signatures are those of the     *)
(* tokens it issued, and a changed field no longer matches.  The           *)
(* SequenceCounter is part of the TokenID and is left out.  The revocation *)
(* filter is the set of ids it answers TRUE for.                           *)
(***************************************************************************)
EXTENDS Integers, Sequences, FiniteSets, FiniteSetsExt, Transactions

CONSTANTS
  TokenIDs,
  Terminals,     \* the terminals, each with an EdgeAuthorizer
  Anywhere,      \* the TerminalID "*"
  Ceilings,      \* the ceilings callers ask for in IssueToken
  MaxOfflineFloorLimitCents,
  MaxTime,       \* bound on the clock
  MaxGrants      \* bound on the number of authorizations

(* IssueToken and AuthorizeOffline bound ceilings and amounts from above   *)
(* only: either may be negative, and an authorization of a negative amount *)
(* lowers what the token has spent.                                        *)
ASSUME OfflineAmountsAssumption == Amounts \subseteq Int
ASSUME AnywhereAssumption == Anywhere \notin Terminals
ASSUME CeilingsAssumption == Ceilings \subseteq Int
ASSUME FloorLimitAssumption == MaxOfflineFloorLimitCents \in Nat
ASSUME MaxTimeAssumption == MaxTime \in Nat
ASSUME MaxGrantsAssumption == MaxGrants \in Nat

VARIABLES
  issued,        \* the token issued under each id
  now,           \* time.Now()
  spentByToken,  \* ea.spentByToken of every terminal's authorizer
  sequenceNum,   \* ea.sequenceNum of every terminal's authorizer
  blocked,       \* the ids the revocation filter contains
  grants         \* history: the authorizations granted, in order

edgeVars == <<issued, now, spentByToken, sequenceNum, blocked, grants>>

NoToken == <<>>

Token ==
  [TokenID : TokenIDs, AccountID : Accounts,
   MaxFloorAmount : {n \in Int : n <= MaxOfflineFloorLimitCents},
   ExpirationTime : Nat, TerminalID : Terminals \cup {Anywhere}]

Issued == {id \in TokenIDs : issued[id] /= NoToken}

Grant == [terminal : Terminals, TokenID : TokenIDs, Amount : Int, at : Nat]

ReasonCodes == {"APPROVED", "ERR_REVOKED_ACCOUNT_EDGE",
                "OFFLINE_TOKEN_INVALID", "FLOOR_LIMIT_EXCEEDED"}

EdgeInit ==
  /\ issued = [id \in TokenIDs |-> NoToken]
  /\ now = 0
  /\ spentByToken = [t \in Terminals |-> [id \in TokenIDs |-> 0]]
  /\ sequenceNum = [t \in Terminals |-> 0]
  /\ blocked = {}
  /\ grants = <<>>

-----------------------------------------------------------------------------
Lesser(m, n) == IF m < n THEN m ELSE n

(* The id is new: it holds the time and a counter.                         *)
IssueToken(id, a, floorAmount, duration, terminal) ==
  /\ id \notin Issued
  /\ issued' = [issued EXCEPT ![id] =
                  [TokenID        |-> id,
                   AccountID      |-> a,
                   MaxFloorAmount |-> Lesser(floorAmount,
                                             MaxOfflineFloorLimitCents),
                   ExpirationTime |-> now + duration,
                   TerminalID     |-> terminal]]
  /\ UNCHANGED <<now, spentByToken, sequenceNum, blocked, grants>>

Tick ==
  /\ now < MaxTime
  /\ now' = now + 1
  /\ UNCHANGED <<issued, spentByToken, sequenceNum, blocked, grants>>

(* handleRevocationAdd: compactFilter.Insert.  Ids that the filter cannot  *)
(* tell from id are found from now on too; when it is full, an id and      *)
(* those like it are lost (CompactFilter, which implements RevocationSet). *)
Revoke(id) ==
  /\ \E alike, lost \in SUBSET (Accounts \cup TokenIDs) :
       blocked' = (blocked \cup {id} \cup alike) \ lost
  /\ UNCHANGED <<issued, now, spentByToken, sequenceNum, grants>>

(* ed25519.Verify of the token's Digest: a token reaches a terminal with   *)
(* the signature of the token issued under its id, and passes if every     *)
(* field is as it was signed.                                              *)
SignatureValid(tok) ==
  /\ tok.TokenID \in Issued
  /\ tok = issued[tok.TokenID]

(* Mutant: the terminal a token is bound to is not compared.               *)
DecisionAnyTerminal(t, tok, n) ==
  IF {tok.AccountID, tok.TokenID} \cap blocked /= {}
  THEN "ERR_REVOKED_ACCOUNT_EDGE"
  ELSE IF now > tok.ExpirationTime \/ ~SignatureValid(tok)
  THEN "OFFLINE_TOKEN_INVALID"
  ELSE IF \/ n > tok.MaxFloorAmount
          \/ spentByToken[t][tok.TokenID] + n > tok.MaxFloorAmount
  THEN "FLOOR_LIMIT_EXCEEDED"
  ELSE "APPROVED"

(* The checks of AuthorizeOffline, in their order.                         *)
Decision(t, tok, n) ==
  IF {tok.AccountID, tok.TokenID} \cap blocked /= {}
  THEN "ERR_REVOKED_ACCOUNT_EDGE"
  ELSE IF \/ now > tok.ExpirationTime
          \/ tok.TerminalID \notin {Anywhere, t}
          \/ ~SignatureValid(tok)
  THEN "OFFLINE_TOKEN_INVALID"
  ELSE IF \/ n > tok.MaxFloorAmount
          \/ n > MaxOfflineFloorLimitCents
          \/ spentByToken[t][tok.TokenID] + n > tok.MaxFloorAmount
  THEN "FLOOR_LIMIT_EXCEEDED"
  ELSE "APPROVED"

(* Mutant: the amount replaces what the token has spent so far.            *)
AuthorizeOverwriting(t, tok, n, reason) ==
  /\ reason = Decision(t, tok, n)
  /\ IF reason = "APPROVED"
     THEN /\ Len(grants) < MaxGrants
          /\ spentByToken' = [spentByToken EXCEPT ![t][tok.TokenID] = n]
          /\ sequenceNum' = [sequenceNum EXCEPT ![t] = @ + 1]
          /\ grants' = Append(grants, [terminal |-> t, TokenID |-> tok.TokenID,
                                       Amount |-> n, at |-> now])
     ELSE UNCHANGED <<spentByToken, sequenceNum, grants>>
  /\ UNCHANGED <<issued, now, blocked>>

AuthorizeOffline(t, tok, n, reason) ==
  /\ reason = Decision(t, tok, n)
  /\ IF reason = "APPROVED"
     THEN /\ Len(grants) < MaxGrants
          /\ spentByToken' = [spentByToken EXCEPT ![t][tok.TokenID] = @ + n]
          /\ sequenceNum' = [sequenceNum EXCEPT ![t] = @ + 1]
          /\ grants' = Append(grants, [terminal |-> t, TokenID |-> tok.TokenID,
                                       Amount |-> n, at |-> now])
     ELSE UNCHANGED <<spentByToken, sequenceNum, grants>>
  /\ UNCHANGED <<issued, now, blocked>>

(* What a terminal may be shown: an issued token, one of its fields        *)
(* perhaps changed on the way.                                             *)
Presented ==
  UNION {{issued[id]}
         \cup {[issued[id] EXCEPT !.MaxFloorAmount = q] : q \in Ceilings}
         \cup {[issued[id] EXCEPT !.ExpirationTime = x] : x \in 0..MaxTime}
         \cup {[issued[id] EXCEPT !.TerminalID = t] : t \in Terminals}
         : id \in Issued}

EdgeNext ==
  \/ \E id \in TokenIDs, a \in Accounts, floorAmount \in Ceilings,
        duration \in 0..MaxTime, terminal \in Terminals \cup {Anywhere} :
       IssueToken(id, a, floorAmount, duration, terminal)
  \/ Tick
  \/ \E id \in Accounts \cup TokenIDs : Revoke(id)
  \/ \E t \in Terminals, tok \in Presented, n \in Amounts,
        reason \in ReasonCodes : AuthorizeOffline(t, tok, n, reason)

EdgeSpec == EdgeInit /\ [][EdgeNext]_edgeVars

-----------------------------------------------------------------------------
(* Type invariant of the authorizers' variables; no token is issued with a *)
(* ceiling above the floor limit.                                          *)
EdgeTypeOK ==
  /\ issued \in [TokenIDs -> Token \cup {NoToken}]
  /\ now \in Nat
  /\ spentByToken \in [Terminals -> [TokenIDs -> Int]]
  /\ sequenceNum \in [Terminals -> Nat]
  /\ blocked \in SUBSET (Accounts \cup TokenIDs)
  /\ grants \in Seq(Grant)

(* What terminals T granted under token id, in cents.                      *)
Granted(T, id) ==
  SumFunction([i \in DOMAIN grants |->
                 IF grants[i].terminal \in T /\ grants[i].TokenID = id
                 THEN grants[i].Amount ELSE 0])

(* What a token may spend: nothing if its ceiling is below zero.           *)
Ceiling(id) ==
  IF issued[id].MaxFloorAmount < 0 THEN 0 ELSE issued[id].MaxFloorAmount

(***************************************************************************)
(* At no terminal do the authorizations under a token add up to more than  *)
(* the ceiling the authority signed, whatever ceiling the tokens shown to  *)
(* the terminal claim and however often it is shown.                       *)
(***************************************************************************)
TerminalSpendCapped ==
  \A id \in Issued, t \in Terminals :
    Granted({t}, id) <= Ceiling(id)

(***************************************************************************)
(* A token bound to a terminal is capped over all terminals together: no   *)
(* other terminal honours it.                                              *)
(***************************************************************************)
BoundTokensCapped ==
  \A id \in Issued :
    issued[id].TerminalID /= Anywhere =>
      Granted(Terminals, id) <= Ceiling(id)

=============================================================================
