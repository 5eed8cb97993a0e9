--------------------------- MODULE MCLedgerLocks ---------------------------
(***************************************************************************)
(* Two goroutines over a customer, a merchant and the deficit reserve,     *)
(* named as in the server: ACC-... < ACC_MERCHANT_DEFICIT_RESERVE <        *)
(* MERCHANT-... < SYSTEM_... in the order of strings.  The clearing        *)
(* account, which no operation touches, is identified with the escrow      *)
(* account: the audit has one account less to read.                        *)
(***************************************************************************)
EXTENDS LedgerLocks, TLC

CONSTANTS customer, merchant

MCAmounts == {-1, 1, 2}

MCRank ==
  customer :> 0 @@ DeficitReserve :> 1 @@ merchant :> 2
    @@ SystemEscrow :> 3

MCCall(op, a, d, n) ==
  [Op |-> op, AccountID |-> a, DestID |-> d, Amount |-> n,
   TxID |-> CHOOSE tx \in TxIDs : TRUE]

(* Every operation, settlements both ways and to the payer itself.         *)
(* Deficits run up the order of ids (one of a negative amount), down it    *)
(* and from an account to itself.                                          *)
MCCalls ==
  {MCCall("AllocateOfflineAllowance", customer, customer, 1),
   MCCall("ReserveFunds", customer, customer, 2),
   MCCall("ReleaseHold", customer, customer, 1),
   MCCall("CommitOfflineAllowance", customer, merchant, 1),
   MCCall("CommitHold", customer, merchant, 1),
   MCCall("DirectCommit", merchant, customer, 1),
   MCCall("DirectCommit", customer, customer, 1),
   MCCall("RecordDeficit", customer, merchant, -1),
   MCCall("RecordDeficit", merchant, customer, 1),
   MCCall("RecordDeficit", customer, customer, 1),
   MCCall("DebitDeficitReserve", DeficitReserve, merchant, 1)}

=============================================================================
