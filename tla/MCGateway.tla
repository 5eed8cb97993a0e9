----------------------------- MODULE MCGateway -----------------------------
(***************************************************************************)
(* A customer pays a merchant twice and retries the first payment.         *)
(***************************************************************************)
EXTENDS Gateway

CONSTANTS alice, shop, pay1, pay2, req1, retry1, req2, key1, tok1

MCPayment ==
  [tx \in TxIDs |-> [AccountID |-> alice, MerchantID |-> shop,
                     Amount |-> IF tx = pay1 THEN 2 ELSE 1]]

(* The second payment has no idempotency key.                              *)
MCRequest ==
  [r \in Requests |->
     IF r = req2
     THEN [TxID |-> pay2, IdempotencyKey |-> NoKey, OfflineToken |-> tok1,
           DynamicQR |-> FALSE]
     ELSE [TxID |-> pay1, IdempotencyKey |-> key1, OfflineToken |-> tok1,
           DynamicQR |-> TRUE]]

MCRecovered == <<>>

ASSUME MCRetriesShareKeys == RetriesShareKeys

=============================================================================
